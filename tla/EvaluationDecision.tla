-------------------------- MODULE EvaluationDecision --------------------------
(***************************************************************************)
(* One policy: its evaluation batches, the evaluators that work on them    *)
(* (workers/evaluator.py), and what the declaration owners decide about it *)
(* (app/modules/evaluations/service.py).  Policies share no rows.          *)
(*                                                                         *)
(* A transaction that starts by locking its row is one step.  Two of them  *)
(* read before they lock, and are two steps: an owner's request, whose     *)
(* snapshot dates from the session check, and the end of process_claimed,  *)
(* which reloads its batch with a plain SELECT and then locks the row, but *)
(* goes on with the values of the plain SELECT.                            *)
(***************************************************************************)
EXTENDS Naturals, Sequences

CONSTANTS
  Evaluators,        \* evaluator processes
  Owners,            \* sessions of users with the role applicant_owner
  Entities,          \* the configured business entities
  OtherConclusions,  \* every conclusion but "recommend_apply"
  MaxBatches,        \* bound: batches of the policy
  MaxClaims,         \* bound: a batch's last claim neither expires nor is lost
  MaxDecisions,      \* bound: rows written by owners' later decisions
  NoValue            \* SQL NULL

ASSUME BoundsAssumption ==
  MaxBatches \in Nat /\ MaxClaims \in Nat /\ MaxDecisions \in Nat
ASSUME ConclusionsAssumption == "recommend_apply" \notin OtherConclusions

VARIABLES
  batch,      \* table evaluation_batches with results and confirmation, by id
  policy,     \* the decision columns of the row in table policies
  decisions,  \* table policy_conclusion_decisions
  primaries,  \* table primary_entity_decisions
  evaluator,  \* what each evaluator process holds in memory
  session     \* what each owner's request knows

vars == <<batch, policy, decisions, primaries, evaluator, session>>

Nullable(S) == S \cup {NoValue}

Conclusions == OtherConclusions \cup {"recommend_apply"}
Statuses ==
  {"pending", "running", "awaiting_confirmation", "confirmed", "failed",
   "cancelled"}
Sources == {"system_suggestion", "evaluation_confirmation", "manual_override"}
Batches == 1..MaxBatches

(* What a confirmation says: the values that a repeated request is compared *)
(* with stand behind the conclusion.                                       *)
Confirmation == [conclusion: Conclusions, primary: Nullable(Entities)]

ASSUME NoValueAssumption ==
  NoValue \notin Nat \cup Conclusions \cup Entities \cup Confirmation

(* A claim token is a fresh uuid4, here the number of the batch's claim;    *)
(* "overdue" says that started_at is 15 minutes ago; conclusion is that of *)
(* the stored result, written together with the rows of entity_evaluations.*)
Batch ==
  [status: Statuses, claims: Nat, token: Nullable(Nat), overdue: BOOLEAN,
   conclusion: Nullable(Conclusions), confirmation: Nullable(Confirmation)]

Policy ==
  [batch: Nullable(Batches), conclusion: Nullable(Conclusions),
   confirmed: BOOLEAN, source: Sources]

Decision ==
  [batch: Batches, previous: Conclusions, conclusion: Conclusions,
   source: Sources \ {"system_suggestion"}]

PrimaryDecision == [batch: Batches, entity: Entities, superseded: BOOLEAN]

Evaluator ==
  [pc: {"idle", "claimed", "answered", "reread", "erred"},
   batch: Nullable(Batches), token: Nullable(Nat),
   answer: Nullable(Conclusions)]

Request == [batch: Batches, conclusion: Conclusions, primary: Nullable(Entities)]

(* seen: the confirmations in the snapshot of the request; refused: the     *)
(* confirmation that was last answered with 409.                           *)
Session ==
  [pc: {"idle", "requested"}, seen: SUBSET Batches, refused: Nullable(Request)]

Idle ==
  [pc |-> "idle", batch |-> NoValue, token |-> NoValue, answer |-> NoValue]

Away == [pc |-> "idle", seen |-> {}, refused |-> NoValue]

Init ==
  /\ batch = <<>>
  /\ policy = [batch |-> NoValue, conclusion |-> NoValue, confirmed |-> FALSE,
               source |-> "system_suggestion"]
  /\ decisions = <<>>
  /\ primaries = <<>>
  /\ evaluator = [e \in Evaluators |-> Idle]
  /\ session = [o \in Owners |-> Away]

-------------------------------------------------------------------------------
(* Batches.                                                                *)

(* Variant: a status that the ENUM column does not know.                   *)
NewBatchQueued ==
  [status |-> "queued", claims |-> 0, token |-> NoValue, overdue |-> FALSE,
   conclusion |-> NoValue, confirmation |-> NoValue]

(* enqueue: rules and profiles are copied into the row and abstracted here. *)
NewBatch ==
  [status |-> "pending", claims |-> 0, token |-> NoValue, overdue |-> FALSE,
   conclusion |-> NoValue, confirmation |-> NoValue]

(* An owner asks for an evaluation, or ingestion has stored a new version.  *)
Enqueue ==
  /\ Len(batch) < MaxBatches
  /\ batch' = Append(batch, NewBatch)
  /\ UNCHANGED <<policy, decisions, primaries, evaluator, session>>

(* cancel of a batch that is not finished; of a cancelled one it returns    *)
(* the row, of any other it is refused, and changes nothing.               *)
Cancel(b) ==
  /\ batch[b].status \in {"pending", "running"}
  /\ batch' = [batch EXCEPT ![b].status = "cancelled", ![b].token = NoValue]
  /\ UNCHANGED <<policy, decisions, primaries, evaluator, session>>

(* Fifteen minutes after a claim, whether its evaluator is alive or not.    *)
Expire(b) ==
  /\ batch[b].status = "running"
  /\ ~batch[b].overdue
  /\ batch[b].claims < MaxClaims
  /\ batch' = [batch EXCEPT ![b].overdue = TRUE]
  /\ UNCHANGED <<policy, decisions, primaries, evaluator, session>>

-------------------------------------------------------------------------------
(* The evaluator: one run_once after the other.                            *)

(* Variant: only batches that nobody has started.                          *)
ClaimablePending == {b \in DOMAIN batch : batch[b].status = "pending"}

Claimable ==
  {b \in DOMAIN batch :
     \/ batch[b].status = "pending"
     \/ batch[b].status = "running" /\ batch[b].overdue}

(* claim_next: the first row that no other transaction has locked.         *)
ClaimNext(e, locked) ==
  /\ evaluator[e].pc = "idle"
  /\ \E b \in Claimable \ locked :
       /\ \A c \in Claimable \ locked : b <= c
       /\ batch' = [batch EXCEPT ![b].status = "running",
                                 ![b].claims = @ + 1,
                                 ![b].token = batch[b].claims + 1,
                                 ![b].overdue = FALSE]
       /\ evaluator' = [evaluator EXCEPT ![e] =
            [Idle EXCEPT !.pc = "claimed", !.batch = b,
                         !.token = batch[b].claims + 1]]
  /\ UNCHANGED <<policy, decisions, primaries, session>>

(* adapter.evaluate, outside any transaction.  (The check in front of it    *)
(* reads the session's own object and never fails here.)                   *)
Answer(e, conclusion) ==
  /\ evaluator[e].pc = "claimed"
  /\ evaluator' = [evaluator EXCEPT ![e] =
                     [@ EXCEPT !.pc = "answered", !.answer = conclusion]]
  /\ UNCHANGED <<batch, policy, decisions, primaries, session>>

(* No adapter for the batch, no answer, or one that does not validate.     *)
NoAnswer(e) ==
  /\ evaluator[e].pc = "claimed"
  /\ evaluator' = [evaluator EXCEPT ![e] = [@ EXCEPT !.pc = "erred"]]
  /\ UNCHANGED <<batch, policy, decisions, primaries, session>>

Holds(e) ==
  LET b == batch[evaluator[e].batch]
  IN  b.status = "running" /\ b.token = evaluator[e].token

(* The rollback has expired the session's batch: naming batch.id in the     *)
(* next statement loads the row again, with a plain SELECT.  Status and    *)
(* token are compared only after the row is locked, but as loaded here.    *)
Reread(e) ==
  /\ evaluator[e].pc = "answered"
  /\ evaluator' = [evaluator EXCEPT ![e] =
                     IF Holds(e) THEN [@ EXCEPT !.pc = "reread"] ELSE Idle]
  /\ UNCHANGED <<batch, policy, decisions, primaries, session>>

(* Variant: the batch fails without a look at its claim.                   *)
FailAnyClaim(e) == [batch EXCEPT ![evaluator[e].batch].status = "failed"]

(* fail_claimed, whose session has nothing loaded when it locks the row.   *)
FailClaimed(e) ==
  IF Holds(e) THEN [batch EXCEPT ![evaluator[e].batch].status = "failed"]
              ELSE batch

Fail(e) ==
  /\ evaluator[e].pc = "erred"
  /\ batch' = FailClaimed(e)
  /\ evaluator' = [evaluator EXCEPT ![e] = Idle]
  /\ UNCHANGED <<policy, decisions, primaries, session>>

(* Variant: whichever batch finishes last is the current one.              *)
SuggestedByLast(b, conclusion) ==
  IF policy.source = "system_suggestion"
    THEN [policy EXCEPT !.batch = b, !.conclusion = conclusion]
    ELSE [policy EXCEPT !.batch = b]

(* Variant: a newer suggestion replaces the conclusion, decided or not.    *)
SuggestedAlways(b, conclusion) ==
  IF policy.batch = NoValue \/ policy.batch < b
    THEN [policy EXCEPT !.batch = b, !.conclusion = conclusion,
                        !.confirmed = FALSE, !.source = "system_suggestion"]
    ELSE policy

(* What the result of a batch makes of the policy.                         *)
Suggested(b, conclusion) ==
  IF policy.batch # NoValue /\ policy.batch >= b
    THEN policy
    ELSE IF policy.source = "system_suggestion"
      THEN [policy EXCEPT !.batch = b, !.conclusion = conclusion,
                          !.confirmed = FALSE]
      ELSE [policy EXCEPT !.batch = b]

(* UNIQUE (batch_id, entity_seed_code) of entity_evaluations.              *)
Insertable(e) == batch[evaluator[e].batch].conclusion = NoValue

(* The second transaction of process_claimed, from the lock to its commit.  *)
(* It writes status and result only, whatever has become of the row.       *)
Record(e) ==
  LET b == evaluator[e].batch
      conclusion == evaluator[e].answer
  IN  /\ evaluator[e].pc = "reread"
      /\ IF Insertable(e)
           THEN /\ batch' = [batch EXCEPT ![b].status = "awaiting_confirmation",
                                          ![b].conclusion = conclusion]
                /\ policy' = Suggested(b, conclusion)
           ELSE batch' = FailClaimed(e) /\ UNCHANGED policy
      /\ evaluator' = [evaluator EXCEPT ![e] = Idle]
      /\ UNCHANGED <<decisions, primaries, session>>

(* The container dies and is restarted ("restart: unless-stopped").        *)
Crash(e) ==
  /\ evaluator[e].pc # "idle"
  /\ batch[evaluator[e].batch].claims < MaxClaims
  /\ evaluator' = [evaluator EXCEPT ![e] = Idle]
  /\ UNCHANGED <<batch, policy, decisions, primaries, session>>

-------------------------------------------------------------------------------
(* The owners' requests.                                                   *)

Confirmed == {b \in DOMAIN batch : batch[b].confirmation # NoValue}

(* get_current_user reads the user, and with it the transaction's snapshot  *)
(* is taken.                                                               *)
Open(o) ==
  /\ session[o].pc = "idle"
  /\ session' = [session EXCEPT ![o] =
                   [Away EXCEPT !.pc = "requested", !.seen = Confirmed]]
  /\ UNCHANGED <<batch, policy, decisions, primaries, evaluator>>

Done(o) == session' = [session EXCEPT ![o] = Away]

(* A request that is refused, or that changes nothing.                     *)
Close(o) ==
  /\ session[o].pc = "requested"
  /\ Done(o)
  /\ UNCHANGED <<batch, policy, decisions, primaries, evaluator>>

CurrentPrimary == {i \in DOMAIN primaries : ~primaries[i].superseded}

(* The new current primary entity, the old one superseded, if there is any  *)
(* change.                                                                 *)
WithPrimary(b, entity) ==
  IF \E i \in CurrentPrimary : primaries[i].entity = entity
    THEN primaries
    ELSE Append([i \in DOMAIN primaries |->
                   [primaries[i] EXCEPT !.superseded = TRUE]],
                [batch |-> b, entity |-> entity, superseded |-> FALSE])

(* Variant: a confirmation always becomes the current conclusion.          *)
DecidedAlways(b, conclusion, source) ==
  [batch |-> b, conclusion |-> conclusion, confirmed |-> TRUE, source |-> source]

(* _append_conclusion_decision and what its callers do to the policy: a     *)
(* confirmation does not replace a manual override.                        *)
Decided(b, conclusion, source) ==
  IF source = "evaluation_confirmation" /\ policy.source = "manual_override"
    THEN [policy EXCEPT !.batch = b]
    ELSE [batch |-> b, conclusion |-> conclusion, confirmed |-> TRUE,
          source |-> source]

(* The entity of a confirmation counts only with a recommendation.         *)
Requests ==
  {r \in [batch: DOMAIN batch, conclusion: Conclusions,
          primary: Nullable(Entities)] :
     r.conclusion = "recommend_apply" <=> r.primary # NoValue}

Equivalent(r, confirmation) ==
  r.conclusion = confirmation.conclusion /\ r.primary = confirmation.primary

(* existing comes from the snapshot, the status from the locked row.       *)
Confirmable(o, r) ==
  r.batch \notin session[o].seen
    /\ batch[r.batch].status = "awaiting_confirmation"

(* confirm of an evaluation.  The reasons that a changed suggestion or a    *)
(* changed entity requires are part of the request and abstracted.         *)
Confirm(o, r) ==
  /\ session[o].pc = "requested"
  /\ Confirmable(o, r)
  /\ batch' = [batch EXCEPT ![r.batch].status = "confirmed",
                            ![r.batch].confirmation =
                 [conclusion |-> r.conclusion, primary |-> r.primary]]
  /\ policy' = Decided(r.batch, r.conclusion, "evaluation_confirmation")
  /\ decisions' = Append(decisions,
       [batch |-> r.batch, previous |-> batch[r.batch].conclusion,
        conclusion |-> r.conclusion, source |-> "evaluation_confirmation"])
  /\ primaries' = IF r.conclusion = "recommend_apply"
                    THEN WithPrimary(r.batch, r.primary) ELSE primaries
  /\ Done(o)
  /\ UNCHANGED evaluator

(* confirm answered with evaluation_confirmation_conflict.                 *)
ConfirmConflict(o, r) ==
  /\ session[o].pc = "requested"
  /\ IF r.batch \in session[o].seen
       THEN ~Equivalent(r, batch[r.batch].confirmation)
       ELSE batch[r.batch].status # "awaiting_confirmation"
  /\ session' = [session EXCEPT ![o] = [Away EXCEPT !.refused = r]]
  /\ UNCHANGED <<batch, policy, decisions, primaries, evaluator>>

(* Variant: any evaluation that the policy has will do.                    *)
HasEvaluation(o) == policy.batch # NoValue

(* The policy has a confirmed current evaluation; status is that of the     *)
(* locked row, the confirmation is looked for in the snapshot.             *)
HasDecision(o) ==
  /\ policy.batch # NoValue
  /\ batch[policy.batch].status = "confirmed"
  /\ policy.batch \in session[o].seen

Admissible(conclusion) ==
  conclusion = "recommend_apply" => CurrentPrimary # {}

AdjustConclusion(o, conclusion) ==
  /\ session[o].pc = "requested"
  /\ Len(decisions) < MaxDecisions
  /\ HasDecision(o)
  /\ Admissible(conclusion)
  /\ policy' = Decided(policy.batch, conclusion, "manual_override")
  /\ decisions' = Append(decisions,
       [batch |-> policy.batch, previous |-> policy.conclusion,
        conclusion |-> conclusion, source |-> "manual_override"])
  /\ Done(o)
  /\ UNCHANGED <<batch, primaries, evaluator>>

SelectPrimaryEntity(o, entity) ==
  /\ session[o].pc = "requested"
  /\ Len(primaries) < MaxDecisions
  /\ HasDecision(o)
  /\ primaries' = WithPrimary(policy.batch, entity)
  /\ Done(o)
  /\ UNCHANGED <<batch, policy, decisions, evaluator>>

-------------------------------------------------------------------------------
OwnerStep(o) ==
  \/ Open(o)
  \/ Close(o)
  \/ \E r \in Requests : Confirm(o, r) \/ ConfirmConflict(o, r)
  \/ \E conclusion \in Conclusions : AdjustConclusion(o, conclusion)
  \/ \E entity \in Entities : SelectPrimaryEntity(o, entity)

EvaluatorStep(e) ==
  \/ \E locked \in SUBSET DOMAIN batch : ClaimNext(e, locked)
  \/ \E conclusion \in Conclusions : Answer(e, conclusion)
  \/ NoAnswer(e)
  \/ Reread(e)
  \/ Record(e)
  \/ Fail(e)
  \/ Crash(e)

Next ==
  \/ Enqueue
  \/ \E b \in DOMAIN batch : Cancel(b) \/ Expire(b)
  \/ \E e \in Evaluators : EvaluatorStep(e)
  \/ \E o \in Owners : OwnerStep(o)

Spec == Init /\ [][Next]_vars

(* The scheduler runs the evaluators (a restarted container polls again),   *)
(* the adapter's calls have timeouts, and fifteen minutes pass.  Locks last *)
(* one short transaction: a claim finds the rows free again and again.     *)
EvaluatorFairness(e) ==
  /\ SF_vars(ClaimNext(e, {}))
  /\ WF_vars(NoAnswer(e) \/ \E conclusion \in Conclusions : Answer(e, conclusion))
  /\ WF_vars(Reread(e))
  /\ WF_vars(Record(e) \/ Fail(e))

FairSpec ==
  /\ Spec
  /\ \A e \in Evaluators : EvaluatorFairness(e)
  /\ \A b \in Batches : WF_vars(b \in DOMAIN batch /\ Expire(b))

-------------------------------------------------------------------------------
(* Properties.                                                             *)

(* Rows, memories and sessions have their shapes.                          *)
TypeOK ==
  /\ batch \in Seq(Batch)
  /\ policy \in Policy
  /\ decisions \in Seq(Decision)
  /\ primaries \in Seq(PrimaryDecision)
  /\ evaluator \in [Evaluators -> Evaluator]
  /\ session \in [Owners -> Session]

(* A batch has a result exactly while it awaits or has its confirmation,    *)
(* whichever evaluators were late or gave up, and a confirmation exactly   *)
(* when it is confirmed.  The pages read the result of such a batch.       *)
ResultsMatchStatus ==
  \A b \in DOMAIN batch :
    /\ batch[b].conclusion # NoValue
         <=> batch[b].status \in {"awaiting_confirmation", "confirmed"}
    /\ batch[b].confirmation # NoValue <=> batch[b].status = "confirmed"

(* Until somebody decides, the policy shows the suggestion of the newest    *)
(* batch that has one, in whatever order the batches finish.               *)
SuggestionIsNewest ==
  policy.source = "system_suggestion" =>
    /\ ~policy.confirmed
    /\ \A b \in DOMAIN batch :
         batch[b].conclusion # NoValue => policy.batch # NoValue /\ b <= policy.batch
    /\ policy.batch # NoValue => policy.conclusion = batch[policy.batch].conclusion

LatestOf(source) ==
  {i \in DOMAIN decisions :
     /\ decisions[i].source = source
     /\ \A j \in DOMAIN decisions : decisions[j].source = source => j <= i}

(* Design 2.1: once people have decided, the conclusion is the latest       *)
(* manual one, or without any the latest confirmed one; evaluations that   *)
(* finish later do not change it.                                          *)
HumanDecisionStands ==
  LET latest == IF LatestOf("manual_override") # {}
                  THEN LatestOf("manual_override")
                  ELSE LatestOf("evaluation_confirmation")
  IN  \A i \in latest :
        /\ policy.confirmed
        /\ policy.source = decisions[i].source
        /\ policy.conclusion = decisions[i].conclusion

(* Every decision and every choice of an entity rests on a confirmed       *)
(* evaluation, each confirmation made one decision and no second, and the  *)
(* current batch is one that has a result.                                 *)
DecisionsRestOnConfirmations ==
  /\ \A i \in DOMAIN decisions : batch[decisions[i].batch].status = "confirmed"
  /\ \A i \in DOMAIN primaries : batch[primaries[i].batch].status = "confirmed"
  /\ \A b \in Confirmed : \E i \in DOMAIN decisions :
       /\ decisions[i].conclusion = batch[b].confirmation.conclusion
       /\ \A j \in DOMAIN decisions :
            /\ decisions[j].batch = b
            /\ decisions[j].source = "evaluation_confirmation"
            <=> j = i
  /\ policy.batch # NoValue => batch[policy.batch].conclusion # NoValue

(* Every batch is in the end evaluated, failed or cancelled, although       *)
(* evaluators die or take longer than a claim lasts.                       *)
BatchesSettle ==
  \A b \in Batches :
    b \in DOMAIN batch
      ~> b \in DOMAIN batch /\ batch[b].status \notin {"pending", "running"}

(* The promise of the design, with the current primary entity.             *)
Verdict == INSTANCE PolicyConclusion WITH
  None <- NoValue,
  conclusion <- policy.conclusion,
  source <- policy.source,
  primary <- IF CurrentPrimary = {} THEN NoValue
             ELSE primaries[CHOOSE i \in CurrentPrimary : TRUE].entity

(* Batches, evaluators and owners together keep that promise.              *)
FollowsDesign == Verdict!Spec
===============================================================================
