----------------------- MODULE EvaluationDecisionProofs -----------------------
(***************************************************************************)
(* Proofs about EvaluationDecision, for any number of evaluators, owners,   *)
(* entities and batches, dying, stalling and deciding at any step.         *)
(***************************************************************************)
EXTENDS EvaluationDecision, SequenceTheorems, TLAPS

-------------------------------------------------------------------------------
(* The inductive invariant.                                                *)

(* A busy evaluator works on a batch that is there, and has an answer from  *)
(* the adapter's call to the end of its work.                              *)
WorkFits ==
  \A e \in Evaluators :
    /\ evaluator[e].pc # "idle" => evaluator[e].batch \in DOMAIN batch
    /\ evaluator[e].pc \in {"answered", "reread"} => evaluator[e].answer \in Conclusions

(* Rows name batches that are there, and no more than the bound.            *)
RowsPoint ==
  /\ Len(batch) <= MaxBatches
  /\ policy.batch # NoValue =>
       policy.batch \in DOMAIN batch /\ policy.conclusion # NoValue
  /\ \A i \in DOMAIN decisions : decisions[i].batch \in DOMAIN batch
  /\ \A i \in DOMAIN primaries : primaries[i].batch \in DOMAIN batch

(* The policy's conclusion is somebody's: of nobody while nobody decided,   *)
(* of the last confirmation while there are only confirmations, of the     *)
(* last override otherwise.                                                *)
Overrides(i) == decisions[i].source = "manual_override"
LastDecided ==
  \/ policy.source = "system_suggestion" /\ decisions = <<>>
  \/ /\ policy.source = "evaluation_confirmation"
     /\ policy.confirmed
     /\ decisions # <<>>
     /\ \A i \in DOMAIN decisions : ~Overrides(i)
     /\ policy.conclusion = decisions[Len(decisions)].conclusion
  \/ /\ policy.source = "manual_override"
     /\ policy.confirmed
     /\ \E i \in DOMAIN decisions :
          /\ Overrides(i)
          /\ \A j \in DOMAIN decisions : Overrides(j) => j <= i
          /\ policy.conclusion = decisions[i].conclusion

(* One current primary entity at most.                                      *)
OneCurrent == \A i, j \in CurrentPrimary : i = j

(* All of it.                                                              *)
IInv ==
  /\ TypeOK
  /\ ResultsMatchStatus
  /\ SuggestionIsNewest
  /\ DecisionsRestOnConfirmations
  /\ WorkFits
  /\ RowsPoint
  /\ LastDecided
  /\ OneCurrent
-------------------------------------------------------------------------------
(* Tables.                                                                 *)

(* A row more.                                                              *)
LEMMA Appended ==
  ASSUME NEW S, NEW seq \in Seq(S), NEW x \in S
  PROVE  /\ Append(seq, x) \in Seq(S)
         /\ Len(Append(seq, x)) = Len(seq) + 1
         /\ DOMAIN seq = 1..Len(seq) /\ Len(seq) \in Nat
         /\ DOMAIN Append(seq, x) = 1..(Len(seq) + 1)
         /\ \A i \in 1..Len(seq) : Append(seq, x)[i] = seq[i]
         /\ Append(seq, x)[Len(seq) + 1] = x
BY AppendProperties, LenProperties

(* A row rewritten.                                                         *)
LEMMA Rewritten ==
  ASSUME NEW S, NEW seq \in Seq(S), NEW k \in DOMAIN seq, NEW w \in S,
         NEW new, new = [seq EXCEPT ![k] = w]
  PROVE  /\ new \in Seq(S)
         /\ Len(new) = Len(seq)
         /\ DOMAIN new = DOMAIN seq
         /\ new[k] = w
         /\ \A i \in DOMAIN seq : i # k => new[i] = seq[i]
<1>1. DOMAIN seq = 1..Len(seq)
  BY LenProperties
<1> QED BY <1>1, ExceptSeq

(* The ids of batches, and the records of the tables.                       *)
LEMMA Shapes ==
  ASSUME TypeOK, RowsPoint
  PROVE  /\ DOMAIN batch = 1..Len(batch) /\ Len(batch) \in Nat
         /\ DOMAIN batch \subseteq Batches /\ DOMAIN batch \subseteq Nat
         /\ \A b \in DOMAIN batch : batch[b] \in Batch
         /\ NoValue \notin DOMAIN batch
         /\ \A i \in DOMAIN decisions : decisions[i] \in Decision
         /\ \A i \in DOMAIN primaries : primaries[i] \in PrimaryDecision
<1>1. /\ DOMAIN batch = 1..Len(batch) /\ Len(batch) \in Nat
      /\ \A b \in DOMAIN batch : batch[b] \in Batch
  BY LenProperties, ElementOfSeq DEF TypeOK
<1>2. /\ \A i \in DOMAIN decisions : decisions[i] \in Decision
      /\ \A i \in DOMAIN primaries : primaries[i] \in PrimaryDecision
  BY LenProperties, ElementOfSeq DEF TypeOK
<1>3. DOMAIN batch \subseteq Batches /\ DOMAIN batch \subseteq Nat
  BY <1>1, BoundsAssumption DEF RowsPoint, Batches
<1> QED BY <1>1, <1>2, <1>3, NoValueAssumption

(* One evaluator moves on: its memory has its shape and names a batch.      *)
LEMMA EvaluatorMoves ==
  ASSUME IInv, NEW e \in Evaluators, NEW w \in Evaluator,
         evaluator' = [evaluator EXCEPT ![e] = w],
         DOMAIN batch \subseteq DOMAIN batch',
         w.pc # "idle" => w.batch \in DOMAIN batch,
         w.pc \in {"answered", "reread"} => w.answer \in Conclusions
  PROVE  evaluator' \in [Evaluators -> Evaluator] /\ WorkFits'
<1>1. evaluator \in [Evaluators -> Evaluator] /\ WorkFits
  BY DEF IInv, TypeOK
<1>2. evaluator'[e] = w /\ \A f \in Evaluators \ {e} : evaluator'[f] = evaluator[f]
  BY <1>1
<1>3. evaluator' \in [Evaluators -> Evaluator]
  BY <1>1
<1>4. ASSUME NEW f \in Evaluators
      PROVE  /\ evaluator'[f].pc # "idle" => evaluator'[f].batch \in DOMAIN batch'
             /\ evaluator'[f].pc \in {"answered", "reread"}
                  => evaluator'[f].answer \in Conclusions
  <2>1. CASE f = e
    BY <1>2, <2>1
  <2>2. CASE f # e
    BY <1>1, <1>2, <2>2 DEF WorkFits
  <2> QED BY <2>1, <2>2
<1> QED BY <1>3, <1>4 DEF WorkFits

(* Evaluators that stay as they are.                                        *)
LEMMA EvaluatorsStay ==
  ASSUME IInv, UNCHANGED evaluator, DOMAIN batch \subseteq DOMAIN batch'
  PROVE  evaluator' \in [Evaluators -> Evaluator] /\ WorkFits'
BY DEF IInv, TypeOK, WorkFits

(* An idle evaluator.                                                       *)
LEMMA IdleFits == Idle \in Evaluator /\ Idle.pc = "idle"
BY DEF Idle, Evaluator, Nullable

(* One owner's request moves on.                                            *)
LEMMA SessionMoves ==
  ASSUME TypeOK, NEW o \in Owners, NEW w \in Session,
         session' = [session EXCEPT ![o] = w]
  PROVE  session' \in [Owners -> Session]
BY DEF TypeOK

(* A request that is over.                                                  *)
LEMMA DoneFits ==
  ASSUME TypeOK, NEW o \in Owners, Done(o)
  PROVE  session' \in [Owners -> Session]
<1>1. Away \in Session
  BY DEF Away, Session, Nullable
<1> QED BY <1>1, SessionMoves DEF Done

-------------------------------------------------------------------------------
(* Steps that decide nothing.                                              *)

(* The memories of evaluators and owners are not what the rest is about.    *)
LEMMA QuietStep ==
  ASSUME IInv, UNCHANGED <<batch, policy, decisions, primaries>>,
         evaluator' \in [Evaluators -> Evaluator], WorkFits',
         session' \in [Owners -> Session]
  PROVE  IInv'
<1>1. batch' = batch /\ policy' = policy
      /\ decisions' = decisions /\ primaries' = primaries
  OBVIOUS
<1>2. TypeOK'
  BY <1>1 DEF IInv, TypeOK
<1>3. ResultsMatchStatus' /\ SuggestionIsNewest'
  BY <1>1 DEF IInv, ResultsMatchStatus, SuggestionIsNewest
<1>4. DecisionsRestOnConfirmations'
  BY <1>1 DEF IInv, DecisionsRestOnConfirmations, Confirmed
<1>5. RowsPoint' /\ LastDecided' /\ OneCurrent'
  BY <1>1 DEF IInv, RowsPoint, LastDecided, Overrides, OneCurrent, CurrentPrimary
<1> QED BY <1>2, <1>3, <1>4, <1>5 DEF IInv

(* A batch that has no result before nor after.                             *)
LEMMA BatchStep ==
  ASSUME IInv, NEW b \in DOMAIN batch, NEW w \in Batch,
         batch' = [batch EXCEPT ![b] = w],
         UNCHANGED <<policy, decisions, primaries>>,
         w.conclusion = batch[b].conclusion, w.confirmation = batch[b].confirmation,
         batch[b].status \notin {"awaiting_confirmation", "confirmed"},
         w.status \notin {"awaiting_confirmation", "confirmed"},
         evaluator' \in [Evaluators -> Evaluator], WorkFits',
         session' \in [Owners -> Session]
  PROVE  IInv'
<1>1. policy' = policy /\ decisions' = decisions /\ primaries' = primaries
  OBVIOUS
<1>2. batch \in Seq(Batch)
  BY DEF IInv, TypeOK
<1>3. /\ batch' \in Seq(Batch) /\ Len(batch') = Len(batch)
      /\ DOMAIN batch' = DOMAIN batch
      /\ batch'[b] = w
      /\ \A c \in DOMAIN batch : c # b => batch'[c] = batch[c]
  BY <1>2, Rewritten
<1>4. \A c \in DOMAIN batch :
        /\ batch'[c].conclusion = batch[c].conclusion
        /\ batch'[c].confirmation = batch[c].confirmation
        /\ batch'[c].status = "confirmed" <=> batch[c].status = "confirmed"
        /\ batch'[c].status = "awaiting_confirmation"
             <=> batch[c].status = "awaiting_confirmation"
  BY <1>3
<1>5. TypeOK'
  BY <1>1, <1>3 DEF IInv, TypeOK
<1>6. ResultsMatchStatus'
  BY <1>3, <1>4 DEF IInv, ResultsMatchStatus
<1>7. RowsPoint' /\ LastDecided' /\ OneCurrent'
  BY <1>1, <1>3 DEF IInv, RowsPoint, LastDecided, Overrides, OneCurrent, CurrentPrimary
<1>8. SuggestionIsNewest'
  BY <1>1, <1>3, <1>4 DEF IInv, SuggestionIsNewest, RowsPoint
<1>9. DecisionsRestOnConfirmations'
  <2>1. Confirmed' = Confirmed
    BY <1>3, <1>4 DEF Confirmed
  <2>2. \A c \in Confirmed : batch'[c].confirmation = batch[c].confirmation
    BY <1>4 DEF Confirmed
  <2>3. /\ \A i \in DOMAIN decisions : batch'[decisions[i].batch].status = "confirmed"
        /\ \A i \in DOMAIN primaries : batch'[primaries[i].batch].status = "confirmed"
        /\ policy.batch # NoValue => batch'[policy.batch].conclusion # NoValue
    BY <1>4 DEF IInv, DecisionsRestOnConfirmations, RowsPoint
  <2> QED BY <1>1, <2>1, <2>2, <2>3 DEF IInv, DecisionsRestOnConfirmations
<1> QED BY <1>5, <1>6, <1>7, <1>8, <1>9 DEF IInv
(* A new batch.                                                             *)
LEMMA EnqueueKeeps ==
  ASSUME IInv, Enqueue
  PROVE  IInv'
<1>1. /\ Len(batch) < MaxBatches /\ batch' = Append(batch, NewBatch)
      /\ policy' = policy /\ decisions' = decisions /\ primaries' = primaries
      /\ evaluator' = evaluator /\ session' = session
  BY DEF Enqueue
<1>2. NewBatch \in Batch
  BY DEF NewBatch, Batch, Nullable, Statuses
<1>3. /\ batch' \in Seq(Batch) /\ Len(batch') = Len(batch) + 1 /\ Len(batch) \in Nat
      /\ DOMAIN batch = 1..Len(batch) /\ DOMAIN batch' = 1..(Len(batch) + 1)
      /\ \A c \in DOMAIN batch : batch'[c] = batch[c]
      /\ batch'[Len(batch) + 1] = NewBatch
  BY <1>1, <1>2, Appended DEF IInv, TypeOK
<1>4. /\ NewBatch.conclusion = NoValue /\ NewBatch.confirmation = NoValue
      /\ NewBatch.status = "pending"
  BY DEF NewBatch
<1>5. DOMAIN batch \subseteq DOMAIN batch'
  BY <1>3
<1>6. \A c \in DOMAIN batch' : c \in DOMAIN batch \/ batch'[c] = NewBatch
  BY <1>3
<1>7. TypeOK'
  BY <1>1, <1>3 DEF IInv, TypeOK
<1>8. ResultsMatchStatus'
  BY <1>3, <1>4, <1>6 DEF IInv, ResultsMatchStatus
<1>9. WorkFits'
  BY <1>1, <1>5, EvaluatorsStay
<1>10. RowsPoint' /\ LastDecided' /\ OneCurrent'
  <2>1. Len(batch') <= MaxBatches
    BY <1>1, <1>3, BoundsAssumption
  <2> QED BY <1>1, <1>5, <2>1
         DEF IInv, RowsPoint, LastDecided, Overrides, OneCurrent, CurrentPrimary
<1>11. SuggestionIsNewest'
  BY <1>1, <1>3, <1>4, <1>6 DEF IInv, SuggestionIsNewest, RowsPoint
<1>12. DecisionsRestOnConfirmations'
  <2>1. Confirmed' = Confirmed
    BY <1>3, <1>4, <1>6 DEF Confirmed
  <2>2. \A c \in Confirmed : batch'[c].confirmation = batch[c].confirmation
    BY <1>3 DEF Confirmed
  <2>3. /\ \A i \in DOMAIN decisions : batch'[decisions[i].batch].status = "confirmed"
        /\ \A i \in DOMAIN primaries : batch'[primaries[i].batch].status = "confirmed"
        /\ policy.batch # NoValue => batch'[policy.batch].conclusion # NoValue
    BY <1>3 DEF IInv, DecisionsRestOnConfirmations, RowsPoint
  <2>4. \A b \in Confirmed : \E i \in DOMAIN decisions :
          /\ decisions[i].conclusion = batch'[b].confirmation.conclusion
          /\ \A j \in DOMAIN decisions :
               /\ decisions[j].batch = b
               /\ decisions[j].source = "evaluation_confirmation"
               <=> j = i
    BY <2>2 DEF IInv, DecisionsRestOnConfirmations
  <2>5. policy' = policy /\ decisions' = decisions /\ primaries' = primaries
    BY <1>1
  <2> QED BY <2>1, <2>3, <2>4, <2>5 DEF DecisionsRestOnConfirmations
<1> QED BY <1>7, <1>8, <1>9, <1>10, <1>11, <1>12 DEF IInv

(* A batch is cancelled, or its claim grows old.                            *)
LEMMA RowStepKeeps ==
  ASSUME IInv, NEW b \in DOMAIN batch, Cancel(b) \/ Expire(b)
  PROVE  IInv'
<1> DEFINE cancelled == [batch[b] EXCEPT !.status = "cancelled", !.token = NoValue]
           overdue == [batch[b] EXCEPT !.overdue = TRUE]
<1>1. batch[b] \in Batch /\ batch \in Seq(Batch)
  BY Shapes DEF IInv, TypeOK
<1>2. batch[b].status \in {"pending", "running"}
  BY DEF Cancel, Expire
<1>3. /\ UNCHANGED <<policy, decisions, primaries>>
      /\ evaluator' = evaluator /\ session' = session
  BY DEF Cancel, Expire
<1>4. session' \in [Owners -> Session]
  BY <1>3 DEF IInv, TypeOK
<1>5. CASE Cancel(b)
  <2>1. batch' = [batch EXCEPT ![b] = cancelled]
    BY <1>1, <1>5 DEF Cancel
  <2>2. /\ cancelled \in Batch /\ cancelled.status = "cancelled"
        /\ cancelled.conclusion = batch[b].conclusion
        /\ cancelled.confirmation = batch[b].confirmation
    BY <1>1 DEF Batch, Statuses, Nullable
  <2> HIDE DEF cancelled
  <2>3. DOMAIN batch' = DOMAIN batch
    BY <1>1, <2>1, <2>2, Rewritten
  <2>4. evaluator' \in [Evaluators -> Evaluator] /\ WorkFits'
    BY <1>3, <2>3, EvaluatorsStay
  <2> QED BY <1>2, <1>3, <1>4, <2>1, <2>2, <2>4, BatchStep
<1>6. CASE Expire(b)
  <2>1. batch' = [batch EXCEPT ![b] = overdue]
    BY <1>1, <1>6 DEF Expire
  <2>2. /\ overdue \in Batch /\ overdue.status = batch[b].status
        /\ overdue.conclusion = batch[b].conclusion
        /\ overdue.confirmation = batch[b].confirmation
    BY <1>1 DEF Batch
  <2> HIDE DEF overdue
  <2>3. DOMAIN batch' = DOMAIN batch
    BY <1>1, <2>1, <2>2, Rewritten
  <2>4. evaluator' \in [Evaluators -> Evaluator] /\ WorkFits'
    BY <1>3, <2>3, EvaluatorsStay
  <2> QED BY <1>2, <1>3, <1>4, <2>1, <2>2, <2>4, BatchStep
<1> QED BY <1>5, <1>6

(* A batch is claimed, for the first time or again.                         *)
LEMMA ClaimKeeps ==
  ASSUME IInv, NEW e \in Evaluators, NEW locked, ClaimNext(e, locked)
  PROVE  IInv'
<1>1. PICK b \in Claimable \ locked :
        /\ batch' = [batch EXCEPT ![b].status = "running",
                                  ![b].claims = @ + 1,
                                  ![b].token = batch[b].claims + 1,
                                  ![b].overdue = FALSE]
        /\ evaluator' = [evaluator EXCEPT ![e] =
             [Idle EXCEPT !.pc = "claimed", !.batch = b,
                          !.token = batch[b].claims + 1]]
  BY DEF ClaimNext
<1> DEFINE n == batch[b].claims + 1
           w == [batch[b] EXCEPT !.status = "running", !.claims = n,
                                 !.token = n, !.overdue = FALSE]
           memory == [Idle EXCEPT !.pc = "claimed", !.batch = b, !.token = n]
<1>2. b \in DOMAIN batch /\ batch[b].status \in {"pending", "running"}
  BY DEF Claimable
<1>3. /\ batch[b] \in Batch /\ batch \in Seq(Batch)
      /\ b \in Batches /\ n \in Nat
  <2>1. batch[b] \in Batch /\ batch \in Seq(Batch) /\ b \in Batches
    BY <1>2, Shapes DEF IInv, TypeOK
  <2> QED BY <2>1 DEF Batch
<1>4. UNCHANGED <<policy, decisions, primaries>> /\ session' = session
  BY DEF ClaimNext
<1>5. batch' = [batch EXCEPT ![b] = w]
  BY <1>1, <1>2, <1>3
<1>8. evaluator' = [evaluator EXCEPT ![e] = memory]
  BY <1>1
<1> HIDE DEF n
<1>6. /\ w \in Batch /\ w.status = "running"
      /\ w.conclusion = batch[b].conclusion
      /\ w.confirmation = batch[b].confirmation
  BY <1>3 DEF Batch, Statuses, Nullable
<1>7. memory \in Evaluator /\ memory.pc = "claimed" /\ memory.batch = b
  BY <1>3 DEF Idle, Evaluator, Nullable
<1> HIDE DEF w, memory
<1>9. DOMAIN batch' = DOMAIN batch
  BY <1>2, <1>3, <1>5, <1>6, Rewritten
<1>10. evaluator' \in [Evaluators -> Evaluator] /\ WorkFits'
  BY <1>2, <1>7, <1>8, <1>9, EvaluatorMoves
<1>11. session' \in [Owners -> Session]
  BY <1>4 DEF IInv, TypeOK
<1> QED BY <1>2, <1>4, <1>5, <1>6, <1>10, <1>11, BatchStep

(* The adapter answers or does not, the batch is loaded again, the process  *)
(* dies: the tables stay.                                                  *)
LEMMA WorkKeeps ==
  ASSUME IInv, NEW e \in Evaluators,
         \/ \E conclusion \in Conclusions : Answer(e, conclusion)
         \/ NoAnswer(e) \/ Reread(e) \/ Crash(e)
  PROVE  IInv'
<1>1. /\ UNCHANGED <<batch, policy, decisions, primaries>> /\ batch' = batch
      /\ session' \in [Owners -> Session]
  BY DEF Answer, NoAnswer, Reread, Crash, IInv, TypeOK
<1>2. /\ evaluator \in [Evaluators -> Evaluator] /\ evaluator[e] \in Evaluator
      /\ evaluator[e].pc # "idle" => evaluator[e].batch \in DOMAIN batch
      /\ evaluator[e].pc \in {"answered", "reread"} => evaluator[e].answer \in Conclusions
  BY DEF IInv, TypeOK, WorkFits
<1>3. ASSUME evaluator' = [evaluator EXCEPT ![e] = Idle]  PROVE IInv'
  BY <1>1, <1>3, IdleFits, EvaluatorMoves, QuietStep
<1>4. ASSUME NEW conclusion \in Conclusions, Answer(e, conclusion)  PROVE IInv'
  <2> DEFINE w == [evaluator[e] EXCEPT !.pc = "answered", !.answer = conclusion]
  <2>1. evaluator[e].pc = "claimed" /\ evaluator' = [evaluator EXCEPT ![e] = w]
    BY <1>2, <1>4 DEF Answer
  <2>2. /\ w \in Evaluator /\ w.batch = evaluator[e].batch
        /\ w.pc = "answered" /\ w.answer = conclusion
    BY <1>2 DEF Evaluator, Nullable
  <2> HIDE DEF w
  <2>3. evaluator' \in [Evaluators -> Evaluator] /\ WorkFits'
    BY <1>1, <1>2, <2>1, <2>2, EvaluatorMoves
  <2> QED BY <1>1, <2>3, QuietStep
<1>5. CASE NoAnswer(e)
  <2> DEFINE w == [evaluator[e] EXCEPT !.pc = "erred"]
  <2>1. evaluator[e].pc = "claimed" /\ evaluator' = [evaluator EXCEPT ![e] = w]
    BY <1>2, <1>5 DEF NoAnswer
  <2>2. w \in Evaluator /\ w.batch = evaluator[e].batch /\ w.pc = "erred"
    BY <1>2 DEF Evaluator
  <2> HIDE DEF w
  <2>3. evaluator' \in [Evaluators -> Evaluator] /\ WorkFits'
    BY <1>1, <1>2, <2>1, <2>2, EvaluatorMoves
  <2> QED BY <1>1, <2>3, QuietStep
<1>6. CASE Reread(e)
  <2> DEFINE w == [evaluator[e] EXCEPT !.pc = "reread"]
  <2>1. /\ evaluator[e].pc = "answered"
        /\ \/ evaluator' = [evaluator EXCEPT ![e] = w]
           \/ evaluator' = [evaluator EXCEPT ![e] = Idle]
    BY <1>2, <1>6 DEF Reread
  <2>2. /\ w \in Evaluator /\ w.batch = evaluator[e].batch
        /\ w.pc = "reread" /\ w.answer = evaluator[e].answer
    BY <1>2 DEF Evaluator
  <2> HIDE DEF w
  <2>3. ASSUME evaluator' = [evaluator EXCEPT ![e] = w]
        PROVE  evaluator' \in [Evaluators -> Evaluator] /\ WorkFits'
    BY <1>1, <1>2, <2>1, <2>2, <2>3, EvaluatorMoves
  <2> QED BY <1>1, <1>3, <2>1, <2>3, QuietStep
<1>7. CASE Crash(e)
  BY <1>3, <1>7 DEF Crash
<1> QED BY <1>4, <1>5, <1>6, <1>7

(* A batch that its evaluator gives up, or has lost, has no result before   *)
(* nor after.                                                              *)
LEMMA FailClaimedKeeps ==
  ASSUME IInv, NEW e \in Evaluators, evaluator[e].pc # "idle",
         batch' = FailClaimed(e), UNCHANGED <<policy, decisions, primaries>>,
         evaluator' = [evaluator EXCEPT ![e] = Idle], session' = session
  PROVE  IInv'
<1> DEFINE b == evaluator[e].batch
           w == [batch[b] EXCEPT !.status = "failed"]
<1>1. b \in DOMAIN batch /\ session' \in [Owners -> Session]
  BY DEF IInv, TypeOK, WorkFits
<1>2. batch[b] \in Batch /\ batch \in Seq(Batch)
  BY <1>1, Shapes DEF IInv, TypeOK
<1>3. CASE Holds(e)
  <2>1. batch' = [batch EXCEPT ![b] = w] /\ batch[b].status = "running"
    BY <1>2, <1>3 DEF FailClaimed, Holds
  <2>2. /\ w \in Batch /\ w.status = "failed"
        /\ w.conclusion = batch[b].conclusion
        /\ w.confirmation = batch[b].confirmation
    BY <1>2 DEF Batch, Statuses
  <2> HIDE DEF w, b
  <2>3. DOMAIN batch' = DOMAIN batch
    BY <1>1, <1>2, <2>1, <2>2, Rewritten
  <2>4. evaluator' \in [Evaluators -> Evaluator] /\ WorkFits'
    BY <2>3, IdleFits, EvaluatorMoves
  <2> QED BY <1>1, <2>1, <2>2, <2>4, BatchStep
<1>4. CASE ~Holds(e)
  <2>1. batch' = batch
    BY <1>4 DEF FailClaimed
  <2>2. evaluator' \in [Evaluators -> Evaluator] /\ WorkFits'
    BY <2>1, IdleFits, EvaluatorMoves
  <2> QED BY <1>1, <2>1, <2>2, QuietStep
<1> QED BY <1>3, <1>4
-------------------------------------------------------------------------------
(* Results and decisions.                                                  *)

(* The three outcomes of a suggestion: an older one changes nothing, a newer *)
(* one is shown while nobody has decided, and is only current afterwards.  *)
LEMMA SuggestedIs ==
  ASSUME policy \in Policy, NEW b \in Batches, NEW conclusion \in Conclusions
  PROVE  LET new == Suggested(b, conclusion)
         IN  /\ new \in Policy
             /\ new.source = policy.source
             /\ policy.source # "system_suggestion" =>
                  new.conclusion = policy.conclusion /\ new.confirmed = policy.confirmed
             /\ \/ new = policy /\ policy.batch # NoValue /\ policy.batch >= b
                \/ /\ new.batch = b
                   /\ policy.batch = NoValue \/ ~(policy.batch >= b)
                   /\ policy.source = "system_suggestion" =>
                        new.conclusion = conclusion /\ ~new.confirmed
<1> DEFINE new == Suggested(b, conclusion)
           shown == [policy EXCEPT !.batch = b, !.conclusion = conclusion,
                                   !.confirmed = FALSE]
           current == [policy EXCEPT !.batch = b]
<1>1. /\ shown \in Policy /\ shown.batch = b /\ shown.source = policy.source
      /\ shown.conclusion = conclusion
  BY DEF Policy, Nullable
<1>2. shown.confirmed = FALSE
  BY DEF Policy
<1>3. /\ current \in Policy /\ current.batch = b /\ current.source = policy.source
      /\ current.conclusion = policy.conclusion
  BY DEF Policy, Nullable
<1>4. current.confirmed = policy.confirmed
  BY DEF Policy
<1>5. \/ new = policy /\ policy.batch # NoValue /\ policy.batch >= b
      \/ /\ policy.batch = NoValue \/ ~(policy.batch >= b)
         /\ \/ new = shown /\ policy.source = "system_suggestion"
            \/ new = current /\ policy.source # "system_suggestion"
  <2>1. CASE policy.batch # NoValue /\ policy.batch >= b
    BY <2>1 DEF Suggested
  <2>2. CASE /\ ~(policy.batch # NoValue /\ policy.batch >= b)
             /\ policy.source = "system_suggestion"
    BY <2>2 DEF Suggested
  <2>3. CASE /\ ~(policy.batch # NoValue /\ policy.batch >= b)
             /\ policy.source # "system_suggestion"
    BY <2>3 DEF Suggested
  <2> QED BY <2>1, <2>2, <2>3
<1> HIDE DEF new, shown, current
<1>6. CASE new = policy /\ policy.batch # NoValue /\ policy.batch >= b
  BY <1>6 DEF new
<1>7. CASE /\ policy.batch = NoValue \/ ~(policy.batch >= b)
           /\ new = shown /\ policy.source = "system_suggestion"
  BY <1>1, <1>2, <1>7 DEF new
<1>8. CASE /\ policy.batch = NoValue \/ ~(policy.batch >= b)
           /\ new = current /\ policy.source # "system_suggestion"
  BY <1>3, <1>4, <1>8 DEF new
<1> QED BY <1>5, <1>6, <1>7, <1>8

(* The result of an evaluator that is late, early or the only one: it is    *)
(* stored once, and shown while nobody has decided if the batch is the     *)
(* newest with a result.                                                   *)
LEMMA RecordKeeps ==
  ASSUME IInv, NEW e \in Evaluators, Record(e)
  PROVE  IInv'
<1> DEFINE b == evaluator[e].batch
           conclusion == evaluator[e].answer
           w == [batch[b] EXCEPT !.status = "awaiting_confirmation",
                                 !.conclusion = conclusion]
<1>1. /\ evaluator[e].pc = "reread"
      /\ evaluator' = [evaluator EXCEPT ![e] = Idle]
      /\ decisions' = decisions /\ primaries' = primaries /\ session' = session
  BY DEF Record
<1>2. b \in DOMAIN batch /\ conclusion \in Conclusions
  BY <1>1 DEF IInv, WorkFits
<1>3. CASE ~Insertable(e)
  BY <1>1, <1>3, FailClaimedKeeps DEF Record
<1>4. CASE Insertable(e)
  <2>1. /\ batch[b] \in Batch /\ batch \in Seq(Batch) /\ policy \in Policy
        /\ b \in Batches /\ b \in Nat /\ DOMAIN batch \subseteq Nat
        /\ policy.batch # NoValue => policy.batch \in Nat
    BY <1>2, Shapes DEF IInv, TypeOK, RowsPoint
  <2>2. batch' = [batch EXCEPT ![b] = w] /\ policy' = Suggested(b, conclusion)
    BY <1>4, <2>1 DEF Record
  <2>3. /\ w \in Batch /\ w.status = "awaiting_confirmation"
        /\ w.conclusion = conclusion
        /\ w.confirmation = batch[b].confirmation
    BY <1>2, <2>1 DEF Batch, Statuses, Nullable
  <2>4. conclusion # NoValue /\ batch[b].conclusion = NoValue
    BY <1>2, <1>4, NoValueAssumption DEF Insertable
  <2>5. /\ batch[b].status \notin {"awaiting_confirmation", "confirmed"}
        /\ batch[b].confirmation = NoValue
    BY <1>2, <2>4 DEF IInv, ResultsMatchStatus
  <2> HIDE DEF w, b, conclusion
  <2>6. /\ batch' \in Seq(Batch) /\ Len(batch') = Len(batch)
        /\ DOMAIN batch' = DOMAIN batch
        /\ batch'[b] = w
        /\ \A c \in DOMAIN batch : c # b => batch'[c] = batch[c]
    BY <1>2, <2>1, <2>2, <2>3, Rewritten
  <2>7. /\ policy' \in Policy
        /\ policy'.source = policy.source
        /\ policy.source # "system_suggestion" =>
             policy'.conclusion = policy.conclusion /\ policy'.confirmed = policy.confirmed
        /\ \/ policy' = policy /\ policy.batch # NoValue /\ policy.batch >= b
           \/ /\ policy'.batch = b
              /\ policy.batch = NoValue \/ ~(policy.batch >= b)
              /\ policy.source = "system_suggestion" =>
                   policy'.conclusion = conclusion /\ ~policy'.confirmed
    BY <1>2, <2>1, <2>2, SuggestedIs
  <2>8. TypeOK'
    <3>1. evaluator' \in [Evaluators -> Evaluator]
      BY <1>1, IdleFits DEF IInv, TypeOK
    <3> QED BY <1>1, <2>6, <2>7, <3>1 DEF IInv, TypeOK
  <2>9. WorkFits'
    BY <1>1, <2>6, IdleFits, EvaluatorMoves
  <2>10. ResultsMatchStatus'
    BY <2>3, <2>4, <2>5, <2>6 DEF IInv, ResultsMatchStatus
  <2>11. RowsPoint'
    <3>1. policy'.batch # NoValue =>
            policy'.batch \in DOMAIN batch' /\ policy'.conclusion # NoValue
      <4>1. CASE policy' = policy
        BY <2>6, <4>1 DEF IInv, RowsPoint
      <4>2. CASE policy'.batch = b /\ policy.source = "system_suggestion"
        BY <1>2, <2>4, <2>6, <2>7, <4>2 DEF IInv, RowsPoint
      <4>3. CASE policy'.batch = b /\ policy.source # "system_suggestion"
        <5>1. \E i \in DOMAIN decisions : policy.conclusion = decisions[i].conclusion
          BY <4>3, LenProperties DEF IInv, LastDecided, TypeOK
        <5>2. policy.conclusion # NoValue
          BY <5>1, Shapes, NoValueAssumption DEF IInv, Decision
        <5> QED BY <1>2, <2>6, <2>7, <4>3, <5>2
      <4> QED BY <2>7, <4>1, <4>2, <4>3
    <3> QED BY <1>1, <2>6, <3>1 DEF IInv, RowsPoint
  <2>12. LastDecided' /\ OneCurrent'
    BY <1>1, <2>7
       DEF IInv, LastDecided, Overrides, OneCurrent, CurrentPrimary
  <2>13. SuggestionIsNewest'
    <3> SUFFICES ASSUME policy.source = "system_suggestion"
                 PROVE  /\ ~policy'.confirmed
                        /\ \A c \in DOMAIN batch :
                             batch'[c].conclusion # NoValue =>
                               policy'.batch # NoValue /\ c <= policy'.batch
                        /\ policy'.batch # NoValue =>
                             policy'.conclusion = batch'[policy'.batch].conclusion
      BY <2>6, <2>7 DEF SuggestionIsNewest
    <3>1. /\ ~policy.confirmed
          /\ \A c \in DOMAIN batch : batch[c].conclusion # NoValue =>
               policy.batch # NoValue /\ c <= policy.batch
          /\ policy.batch # NoValue =>
               policy.conclusion = batch[policy.batch].conclusion
      BY DEF IInv, SuggestionIsNewest
    <3>2. policy.batch # NoValue =>
            policy.batch \in DOMAIN batch /\ batch[policy.batch].conclusion # NoValue
      BY DEF IInv, RowsPoint, DecisionsRestOnConfirmations
    <3>3. b # NoValue /\ b \in DOMAIN batch
      BY <1>2, <2>1, NoValueAssumption
    <3>4. CASE policy' = policy /\ policy.batch # NoValue /\ policy.batch >= b
      BY <2>1, <2>4, <2>6, <3>1, <3>2, <3>3, <3>4
    <3>5. CASE /\ policy'.batch = b /\ policy'.conclusion = conclusion
               /\ ~policy'.confirmed
               /\ policy.batch = NoValue \/ ~(policy.batch >= b)
      <4>1. \A c \in DOMAIN batch : batch[c].conclusion # NoValue => c <= b
        BY <2>1, <3>1, <3>5
      <4> QED BY <2>1, <2>3, <2>6, <3>3, <3>5, <4>1
    <3> QED BY <2>7, <3>4, <3>5
  <2>14. DecisionsRestOnConfirmations'
    <3>1. \A c \in DOMAIN batch :
            /\ batch'[c].confirmation = batch[c].confirmation
            /\ batch[c].status = "confirmed" => batch'[c].status = "confirmed"
            /\ batch[c].conclusion # NoValue => batch'[c].conclusion # NoValue
      BY <2>3, <2>4, <2>5, <2>6
    <3>2. Confirmed' = Confirmed
      BY <2>6, <3>1 DEF Confirmed
    <3>3. /\ \A i \in DOMAIN decisions : batch'[decisions[i].batch].status = "confirmed"
          /\ \A i \in DOMAIN primaries : batch'[primaries[i].batch].status = "confirmed"
      BY <3>1 DEF IInv, DecisionsRestOnConfirmations, RowsPoint
    <3>4. policy'.batch # NoValue => batch'[policy'.batch].conclusion # NoValue
      <4>1. policy.batch # NoValue => batch'[policy.batch].conclusion # NoValue
        BY <3>1 DEF IInv, DecisionsRestOnConfirmations, RowsPoint
      <4>2. batch'[b].conclusion # NoValue
        BY <2>3, <2>4, <2>6
      <4> QED BY <2>7, <4>1, <4>2
    <3>5. \A c \in Confirmed : \E i \in DOMAIN decisions :
            /\ decisions[i].conclusion = batch'[c].confirmation.conclusion
            /\ \A j \in DOMAIN decisions :
                 /\ decisions[j].batch = c
                 /\ decisions[j].source = "evaluation_confirmation"
                 <=> j = i
      BY <3>1 DEF IInv, DecisionsRestOnConfirmations, Confirmed
    <3>6. decisions' = decisions /\ primaries' = primaries
      BY <1>1
    <3> QED BY <3>2, <3>3, <3>4, <3>5, <3>6 DEF DecisionsRestOnConfirmations
  <2> QED BY <2>8, <2>9, <2>10, <2>11, <2>12, <2>13, <2>14 DEF IInv
<1> QED BY <1>3, <1>4
(* A change of the primary entity leaves exactly one current: the chosen.   *)
LEMMA PrimaryChosen ==
  ASSUME IInv, NEW b \in DOMAIN batch, NEW entity \in Entities,
         primaries' = WithPrimary(b, entity)
  PROVE  /\ primaries' \in Seq(PrimaryDecision)
         /\ \E i \in DOMAIN primaries' :
              CurrentPrimary' = {i} /\ primaries'[i].entity = entity
         /\ \A i \in DOMAIN primaries' :
              \/ primaries'[i].batch = b
              \/ i \in DOMAIN primaries /\ primaries'[i].batch = primaries[i].batch
<1> DEFINE old == [i \in DOMAIN primaries |->
                     [primaries[i] EXCEPT !.superseded = TRUE]]
           row == [batch |-> b, entity |-> entity, superseded |-> FALSE]
<1>1. /\ primaries \in Seq(PrimaryDecision) /\ b \in Batches
      /\ \A i \in DOMAIN primaries : primaries[i] \in PrimaryDecision
      /\ \A i, j \in CurrentPrimary : i = j
  BY Shapes DEF IInv, TypeOK, OneCurrent
<1>2. CASE \E i \in CurrentPrimary : primaries[i].entity = entity
  <2>1. primaries' = primaries
    BY <1>2 DEF WithPrimary
  <2>2. PICK i \in CurrentPrimary : primaries[i].entity = entity
    BY <1>2
  <2>3. CurrentPrimary' = CurrentPrimary /\ CurrentPrimary = {i}
    BY <1>1, <2>1, <2>2 DEF CurrentPrimary
  <2>4. i \in DOMAIN primaries
    BY <2>2 DEF CurrentPrimary
  <2> QED BY <1>1, <2>1, <2>2, <2>3, <2>4
<1>3. CASE ~\E i \in CurrentPrimary : primaries[i].entity = entity
  <2>1. primaries' = Append(old, row)
    BY <1>3 DEF WithPrimary
  <2>2. DOMAIN primaries = 1..Len(primaries) /\ Len(primaries) \in Nat
    BY <1>1, LenProperties
  <2>3. ASSUME NEW i \in DOMAIN primaries
        PROVE  /\ old[i] \in PrimaryDecision /\ old[i].batch = primaries[i].batch
               /\ old[i].superseded
    <3>1. old[i] = [primaries[i] EXCEPT !.superseded = TRUE]
      OBVIOUS
    <3>2. old[i] \in PrimaryDecision /\ old[i].batch = primaries[i].batch
      BY <1>1, <3>1 DEF PrimaryDecision
    <3>3. old[i].superseded = TRUE
      BY <1>1, <3>1 DEF PrimaryDecision
    <3> QED BY <3>2, <3>3
  <2>4. old \in Seq(PrimaryDecision) /\ Len(old) = Len(primaries)
    <3>1. old \in [1..Len(primaries) -> PrimaryDecision]
      BY <2>2, <2>3
    <3> HIDE DEF old
    <3> QED BY <2>2, <3>1
  <2>5. row \in PrimaryDecision /\ row.batch = b /\ row.entity = entity
    BY <1>1 DEF PrimaryDecision
  <2>6. ~row.superseded
    OBVIOUS
  <2> HIDE DEF old, row
  <2>7. /\ primaries' \in Seq(PrimaryDecision)
        /\ DOMAIN primaries' = 1..(Len(primaries) + 1)
        /\ \A i \in 1..Len(primaries) : primaries'[i] = old[i]
        /\ primaries'[Len(primaries) + 1] = row
    BY <2>1, <2>4, <2>5, Appended
  <2>8. \A i \in DOMAIN primaries' :
          \/ i \in DOMAIN primaries /\ primaries'[i] = old[i]
          \/ i = Len(primaries) + 1 /\ primaries'[i] = row
    BY <2>2, <2>7
  <2>9. CurrentPrimary' = {Len(primaries) + 1}
    <3>1. CurrentPrimary' = {i \in DOMAIN primaries' : ~primaries'[i].superseded}
      BY DEF CurrentPrimary
    <3>2. \A i \in DOMAIN primaries' :
            ~primaries'[i].superseded <=> i = Len(primaries) + 1
      BY <2>2, <2>3, <2>6, <2>7, <2>8
    <3>3. Len(primaries) + 1 \in DOMAIN primaries'
      BY <2>2, <2>7
    <3> QED BY <3>1, <3>2, <3>3
  <2>10. Len(primaries) + 1 \in DOMAIN primaries'
    BY <2>2, <2>7
  <2> QED BY <2>3, <2>5, <2>7, <2>8, <2>9, <2>10
<1> QED BY <1>2, <1>3

(* Decisions that are there stay the conclusion's when a confirmation comes *)
(* after an override, and give way to the new one otherwise.               *)
LEMMA LastDecidedKept ==
  ASSUME IInv, NEW b \in Batches, NEW conclusion \in Conclusions,
         NEW source \in {"evaluation_confirmation", "manual_override"},
         NEW d \in Decision, d.conclusion = conclusion, d.source = source,
         decisions' = Append(decisions, d),
         policy' = Decided(b, conclusion, source)
  PROVE  /\ decisions' \in Seq(Decision)
         /\ policy' \in Policy /\ policy'.batch = b
         /\ policy'.conclusion # NoValue
         /\ policy'.source # "system_suggestion"
         /\ LastDecided'
<1>1. /\ decisions \in Seq(Decision) /\ policy \in Policy
      /\ decisions' \in Seq(Decision)
      /\ Len(decisions') = Len(decisions) + 1 /\ Len(decisions) \in Nat
      /\ DOMAIN decisions = 1..Len(decisions)
      /\ DOMAIN decisions' = 1..(Len(decisions) + 1)
      /\ \A i \in 1..Len(decisions) : decisions'[i] = decisions[i]
      /\ decisions'[Len(decisions) + 1] = d
  BY Appended DEF IInv, TypeOK
<1>2. conclusion # NoValue
  BY NoValueAssumption
<1>3. CASE source = "evaluation_confirmation" /\ policy.source = "manual_override"
  <2>1. /\ policy' \in Policy /\ policy'.batch = b
        /\ policy'.conclusion = policy.conclusion
        /\ policy'.source = "manual_override"
    BY <1>1, <1>3 DEF Decided, Policy, Nullable
  <2>2. policy'.confirmed = policy.confirmed
    BY <1>1, <1>3 DEF Decided, Policy
  <2>3. /\ policy.confirmed
        /\ \E i \in DOMAIN decisions :
             /\ Overrides(i)
             /\ \A j \in DOMAIN decisions : Overrides(j) => j <= i
             /\ policy.conclusion = decisions[i].conclusion
    BY <1>3 DEF IInv, LastDecided
  <2>4. PICK i \in DOMAIN decisions :
          /\ decisions[i].source = "manual_override"
          /\ \A j \in DOMAIN decisions :
               decisions[j].source = "manual_override" => j <= i
          /\ policy.conclusion = decisions[i].conclusion
    BY <2>3 DEF Overrides
  <2>5. /\ i \in DOMAIN decisions'
        /\ decisions'[i].source = "manual_override"
        /\ policy'.conclusion = decisions'[i].conclusion
        /\ \A j \in DOMAIN decisions' :
             decisions'[j].source = "manual_override" => j <= i
    BY <1>1, <1>3, <2>1, <2>4
  <2>6. LastDecided'
    <3>1. policy'.source = "manual_override" /\ policy'.confirmed
      BY <2>1, <2>2, <2>3
    <3> QED BY <2>5, <3>1 DEF LastDecided, Overrides
  <2>7. policy.conclusion # NoValue
    BY <2>4, Shapes, NoValueAssumption DEF IInv, Decision
  <2> QED BY <1>1, <2>1, <2>6, <2>7
<1>4. CASE ~(source = "evaluation_confirmation" /\ policy.source = "manual_override")
  <2>1. policy' = [batch |-> b, conclusion |-> conclusion, confirmed |-> TRUE,
                   source |-> source]
    BY <1>4 DEF Decided
  <2>2. /\ policy' \in Policy /\ policy'.batch = b
        /\ policy'.conclusion = conclusion /\ policy'.source = source
    BY <2>1 DEF Policy, Nullable, Sources
  <2>3. policy'.confirmed
    BY <2>1
  <2>4. CASE source = "manual_override"
    <3>1. /\ Len(decisions) + 1 \in DOMAIN decisions'
          /\ \A j \in DOMAIN decisions' : j <= Len(decisions) + 1
      BY <1>1
    <3>2. LastDecided'
      BY <1>1, <2>2, <2>3, <2>4, <3>1 DEF LastDecided, Overrides
    <3> QED BY <1>1, <1>2, <2>2, <2>4, <3>2
  <2>5. CASE source = "evaluation_confirmation"
    <3>1. \A i \in DOMAIN decisions : decisions[i].source # "manual_override"
      BY <1>1, <1>4, <2>5 DEF IInv, LastDecided, Overrides
    <3>2. \A i \in DOMAIN decisions' : decisions'[i].source # "manual_override"
      BY <1>1, <2>5, <3>1
    <3>3. decisions' # <<>>
          /\ policy'.conclusion = decisions'[Len(decisions')].conclusion
      BY <1>1, <2>2
    <3>4. LastDecided'
      BY <2>2, <2>3, <2>5, <3>2, <3>3 DEF LastDecided, Overrides
    <3> QED BY <1>1, <1>2, <2>2, <2>5, <3>4
  <2> QED BY <2>4, <2>5
<1> QED BY <1>3, <1>4
(* A confirmation of a batch that awaits one.                               *)
LEMMA ConfirmKeeps ==
  ASSUME IInv, NEW o \in Owners, NEW r \in Requests, Confirm(o, r)
  PROVE  IInv'
<1> DEFINE b == r.batch
           said == [conclusion |-> r.conclusion, primary |-> r.primary]
           w == [batch[b] EXCEPT !.status = "confirmed", !.confirmation = said]
           d == [batch |-> b, previous |-> batch[b].conclusion,
                 conclusion |-> r.conclusion, source |-> "evaluation_confirmation"]
<1>1. /\ b \in DOMAIN batch /\ r.conclusion \in Conclusions
      /\ r.conclusion = "recommend_apply" => r.primary \in Entities
      /\ r.primary \in Nullable(Entities)
  BY DEF Requests, Nullable
<1>2. /\ batch[b].status = "awaiting_confirmation"
      /\ decisions' = Append(decisions, d)
      /\ policy' = Decided(b, r.conclusion, "evaluation_confirmation")
      /\ primaries' = IF r.conclusion = "recommend_apply"
                        THEN WithPrimary(b, r.primary) ELSE primaries
      /\ evaluator' = evaluator
  BY DEF Confirm, Confirmable
<1>3. /\ batch[b] \in Batch /\ batch \in Seq(Batch) /\ b \in Batches
      /\ batch[b].conclusion # NoValue /\ batch[b].confirmation = NoValue
  BY <1>1, <1>2, Shapes DEF IInv, TypeOK, ResultsMatchStatus
<1>4. batch' = [batch EXCEPT ![b] = w]
  BY <1>1, <1>3 DEF Confirm
<1>5. said \in Confirmation /\ said.conclusion = r.conclusion
  BY <1>1 DEF Confirmation
<1>6. said # NoValue
  BY <1>5, NoValueAssumption
<1>7. /\ w \in Batch /\ w.status = "confirmed" /\ w.confirmation = said
      /\ w.conclusion = batch[b].conclusion
  <2> HIDE DEF said
  <2> QED BY <1>3, <1>5 DEF Batch, Statuses, Nullable
<1>8. /\ d \in Decision /\ d.batch = b /\ d.conclusion = r.conclusion
      /\ d.source = "evaluation_confirmation"
  BY <1>1, <1>3 DEF Decision, Sources, Batch, Nullable
<1> HIDE DEF b, said, w, d
<1>9. /\ batch' \in Seq(Batch) /\ Len(batch') = Len(batch)
      /\ DOMAIN batch' = DOMAIN batch
      /\ batch'[b] = w
      /\ \A c \in DOMAIN batch : c # b => batch'[c] = batch[c]
  BY <1>1, <1>3, <1>4, <1>7, Rewritten
<1>10. /\ decisions' \in Seq(Decision)
       /\ policy' \in Policy /\ policy'.batch = b /\ policy'.conclusion # NoValue
       /\ policy'.source # "system_suggestion"
       /\ LastDecided'
  BY <1>1, <1>2, <1>3, <1>8, LastDecidedKept
<1>11. /\ primaries' \in Seq(PrimaryDecision) /\ OneCurrent'
       /\ \A i \in DOMAIN primaries' :
            \/ primaries'[i].batch = b
            \/ i \in DOMAIN primaries /\ primaries'[i].batch = primaries[i].batch
  <2>1. CASE r.conclusion = "recommend_apply"
    <3>1. primaries' = WithPrimary(b, r.primary)
      BY <1>2, <2>1
    <3>2. /\ primaries' \in Seq(PrimaryDecision)
          /\ \E i \in DOMAIN primaries' : CurrentPrimary' = {i}
          /\ \A i \in DOMAIN primaries' :
               \/ primaries'[i].batch = b
               \/ i \in DOMAIN primaries /\ primaries'[i].batch = primaries[i].batch
      BY <1>1, <2>1, <3>1, PrimaryChosen
    <3>3. OneCurrent'
      BY <3>2 DEF OneCurrent
    <3> QED BY <3>2, <3>3
  <2>2. CASE r.conclusion # "recommend_apply"
    <3>1. primaries' = primaries
      BY <1>2, <2>2
    <3> QED BY <3>1 DEF IInv, TypeOK, OneCurrent, CurrentPrimary
  <2> QED BY <2>1, <2>2
<1>12. evaluator' \in [Evaluators -> Evaluator] /\ WorkFits'
  BY <1>2, <1>9, EvaluatorsStay
<1>13. TypeOK'
  <2>1. session' \in [Owners -> Session]
    BY DoneFits DEF Confirm, IInv
  <2> QED BY <1>9, <1>10, <1>11, <1>12, <2>1 DEF TypeOK
<1>14. ResultsMatchStatus'
  BY <1>3, <1>6, <1>7, <1>9 DEF IInv, ResultsMatchStatus
<1>15. SuggestionIsNewest'
  BY <1>10 DEF SuggestionIsNewest
<1>16. /\ DOMAIN decisions = 1..Len(decisions)
       /\ DOMAIN decisions' = 1..(Len(decisions) + 1) /\ Len(decisions) \in Nat
       /\ \A i \in DOMAIN decisions : decisions'[i] = decisions[i]
       /\ decisions'[Len(decisions) + 1] = d
  BY <1>2, <1>8, Appended DEF IInv, TypeOK
<1>17. \A i \in DOMAIN decisions' : i \in DOMAIN decisions \/ decisions'[i] = d
  BY <1>16
<1>18. RowsPoint'
  BY <1>1, <1>8, <1>9, <1>10, <1>11, <1>16, <1>17 DEF IInv, RowsPoint
<1>19. DecisionsRestOnConfirmations'
  <2>1. \A c \in DOMAIN batch : batch[c].status = "confirmed" =>
          c # b /\ batch'[c].status = "confirmed"
    BY <1>2, <1>9
  <2>2. batch'[b].status = "confirmed"
    BY <1>7, <1>9
  <2>3. \A i \in DOMAIN decisions :
          /\ decisions[i].batch \in DOMAIN batch
          /\ decisions[i].batch # b
          /\ batch'[decisions[i].batch].status = "confirmed"
    BY <2>1 DEF IInv, DecisionsRestOnConfirmations, RowsPoint
  <2>4. \A i \in DOMAIN decisions' : batch'[decisions'[i].batch].status = "confirmed"
    BY <1>8, <1>16, <1>17, <2>2, <2>3
  <2>5. \A i \in DOMAIN primaries' : batch'[primaries'[i].batch].status = "confirmed"
    <3>1. \A i \in DOMAIN primaries : batch'[primaries[i].batch].status = "confirmed"
      BY <2>1 DEF IInv, DecisionsRestOnConfirmations, RowsPoint
    <3> QED BY <1>11, <2>2, <3>1
  <2>6. policy'.batch # NoValue => batch'[policy'.batch].conclusion # NoValue
    BY <1>3, <1>7, <1>9, <1>10
  <2>7. ASSUME NEW c \in Confirmed'
        PROVE  \E i \in DOMAIN decisions' :
                 /\ decisions'[i].conclusion = batch'[c].confirmation.conclusion
                 /\ \A j \in DOMAIN decisions' :
                      /\ decisions'[j].batch = c
                      /\ decisions'[j].source = "evaluation_confirmation"
                      <=> j = i
    <3>1. CASE c = b
      <4> DEFINE i == Len(decisions) + 1
      <4>1. i \in DOMAIN decisions' /\ decisions'[i] = d
        BY <1>16
      <4>2. d.conclusion = batch'[c].confirmation.conclusion
        BY <1>5, <1>7, <1>8, <1>9, <3>1
      <4>3. \A j \in DOMAIN decisions' :
              /\ decisions'[j].batch = c
              /\ decisions'[j].source = "evaluation_confirmation"
              <=> j = i
        BY <1>8, <1>16, <1>17, <2>3, <3>1
      <4> QED BY <4>1, <4>2, <4>3
    <3>2. CASE c # b
      <4>1. c \in Confirmed /\ batch'[c] = batch[c]
        BY <1>9, <2>7, <3>2 DEF Confirmed
      <4>2. PICK i \in DOMAIN decisions :
              /\ decisions[i].conclusion = batch[c].confirmation.conclusion
              /\ \A j \in DOMAIN decisions :
                   /\ decisions[j].batch = c
                   /\ decisions[j].source = "evaluation_confirmation"
                   <=> j = i
        BY <4>1 DEF IInv, DecisionsRestOnConfirmations
      <4>3. i \in DOMAIN decisions'
            /\ decisions'[i].conclusion = batch'[c].confirmation.conclusion
        BY <1>16, <4>1, <4>2
      <4>4. \A j \in DOMAIN decisions' :
              /\ decisions'[j].batch = c
              /\ decisions'[j].source = "evaluation_confirmation"
              <=> j = i
        BY <1>8, <1>16, <1>17, <3>2, <4>2
      <4> QED BY <4>3, <4>4
    <3> QED BY <3>1, <3>2
  <2> QED BY <2>4, <2>5, <2>6, <2>7 DEF DecisionsRestOnConfirmations
<1> QED BY <1>10, <1>11, <1>12, <1>13, <1>14, <1>15, <1>18, <1>19 DEF IInv

(* Where a decision is refused for want of a confirmed evaluation, nobody   *)
(* has decided: where it is not, somebody has, and there is a conclusion.  *)
LEMMA SomebodyDecided ==
  ASSUME IInv, NEW o \in Owners, HasDecision(o)
  PROVE  /\ policy.batch \in DOMAIN batch /\ policy.batch \in Batches
         /\ batch[policy.batch].status = "confirmed"
         /\ policy.conclusion \in Conclusions
         /\ policy.source # "system_suggestion"
<1>1. /\ policy.batch \in DOMAIN batch /\ policy.conclusion # NoValue
      /\ batch[policy.batch].status = "confirmed"
  BY DEF IInv, RowsPoint, HasDecision
<1>2. policy.batch \in Batches
  BY <1>1, Shapes DEF IInv
<1>3. policy.conclusion \in Conclusions
  BY <1>1 DEF IInv, TypeOK, Policy, Nullable
<1>4. policy.batch \in Confirmed
  BY <1>1 DEF IInv, ResultsMatchStatus, Confirmed
<1>5. \E i \in DOMAIN decisions : decisions[i].batch = policy.batch
  BY <1>4 DEF IInv, DecisionsRestOnConfirmations
<1>6. decisions # <<>>
  BY <1>5
<1> QED BY <1>1, <1>2, <1>3, <1>6 DEF IInv, LastDecided

(* An owner overrides the conclusion.                                       *)
LEMMA AdjustKeeps ==
  ASSUME IInv, NEW o \in Owners, NEW conclusion \in Conclusions,
         AdjustConclusion(o, conclusion)
  PROVE  IInv'
<1> DEFINE b == policy.batch
           d == [batch |-> b, previous |-> policy.conclusion,
                 conclusion |-> conclusion, source |-> "manual_override"]
<1>1. /\ HasDecision(o)
      /\ policy' = Decided(b, conclusion, "manual_override")
      /\ decisions' = Append(decisions, d)
      /\ Done(o)
      /\ batch' = batch /\ primaries' = primaries /\ evaluator' = evaluator
  BY DEF AdjustConclusion
<1>2. /\ b \in DOMAIN batch /\ b \in Batches
      /\ batch[b].status = "confirmed" /\ policy.conclusion \in Conclusions
  BY <1>1, SomebodyDecided
<1>3. /\ d \in Decision /\ d.batch = b /\ d.conclusion = conclusion
      /\ d.source = "manual_override"
  BY <1>2 DEF Decision, Sources
<1> HIDE DEF b, d
<1>4. /\ decisions' \in Seq(Decision)
      /\ policy' \in Policy /\ policy'.batch = b /\ policy'.conclusion # NoValue
      /\ policy'.source # "system_suggestion"
      /\ LastDecided'
  BY <1>1, <1>2, <1>3, LastDecidedKept
<1>5. /\ DOMAIN decisions = 1..Len(decisions)
      /\ DOMAIN decisions' = 1..(Len(decisions) + 1) /\ Len(decisions) \in Nat
      /\ \A i \in DOMAIN decisions : decisions'[i] = decisions[i]
      /\ decisions'[Len(decisions) + 1] = d
  BY <1>1, <1>3, Appended DEF IInv, TypeOK
<1>6. \A i \in DOMAIN decisions' : i \in DOMAIN decisions \/ decisions'[i] = d
  BY <1>5
<1>7. TypeOK'
  <2>1. session' \in [Owners -> Session]
    BY <1>1, DoneFits DEF IInv
  <2> QED BY <1>1, <1>4, <2>1 DEF IInv, TypeOK
<1>8. ResultsMatchStatus' /\ WorkFits' /\ OneCurrent'
  BY <1>1 DEF IInv, ResultsMatchStatus, WorkFits, OneCurrent, CurrentPrimary
<1>9. SuggestionIsNewest'
  BY <1>4 DEF SuggestionIsNewest
<1>10. RowsPoint'
  BY <1>1, <1>2, <1>3, <1>4, <1>5, <1>6 DEF IInv, RowsPoint
<1>11. DecisionsRestOnConfirmations'
  <2>1. \A i \in DOMAIN decisions' : batch[decisions'[i].batch].status = "confirmed"
    BY <1>2, <1>3, <1>5, <1>6 DEF IInv, DecisionsRestOnConfirmations
  <2>2. \A i \in DOMAIN primaries : batch[primaries[i].batch].status = "confirmed"
    BY DEF IInv, DecisionsRestOnConfirmations
  <2>3. batch[b].conclusion # NoValue
    BY <1>2 DEF IInv, ResultsMatchStatus
  <2>4. Confirmed' = Confirmed
    BY <1>1 DEF Confirmed
  <2>5. ASSUME NEW c \in Confirmed
        PROVE  \E i \in DOMAIN decisions' :
                 /\ decisions'[i].conclusion = batch[c].confirmation.conclusion
                 /\ \A j \in DOMAIN decisions' :
                      /\ decisions'[j].batch = c
                      /\ decisions'[j].source = "evaluation_confirmation"
                      <=> j = i
    <3>1. PICK i \in DOMAIN decisions :
            /\ decisions[i].conclusion = batch[c].confirmation.conclusion
            /\ \A j \in DOMAIN decisions :
                 /\ decisions[j].batch = c
                 /\ decisions[j].source = "evaluation_confirmation"
                 <=> j = i
      BY DEF IInv, DecisionsRestOnConfirmations
    <3>2. i \in DOMAIN decisions'
          /\ decisions'[i].conclusion = batch[c].confirmation.conclusion
      BY <1>5, <3>1
    <3>3. \A j \in DOMAIN decisions' :
            /\ decisions'[j].batch = c
            /\ decisions'[j].source = "evaluation_confirmation"
            <=> j = i
      BY <1>3, <1>5, <1>6, <3>1
    <3> QED BY <3>2, <3>3
  <2>6. batch' = batch /\ primaries' = primaries /\ policy'.batch = b
    BY <1>1, <1>4
  <2> QED BY <2>1, <2>2, <2>3, <2>4, <2>5, <2>6 DEF DecisionsRestOnConfirmations
<1> QED BY <1>4, <1>7, <1>8, <1>9, <1>10, <1>11 DEF IInv

(* An owner chooses another primary entity.                                 *)
LEMMA SelectKeeps ==
  ASSUME IInv, NEW o \in Owners, NEW entity \in Entities,
         SelectPrimaryEntity(o, entity)
  PROVE  IInv'
<1> DEFINE b == policy.batch
<1>1. /\ HasDecision(o) /\ Done(o)
      /\ primaries' = WithPrimary(b, entity)
      /\ batch' = batch /\ policy' = policy
      /\ decisions' = decisions /\ evaluator' = evaluator
  BY DEF SelectPrimaryEntity
<1>2. b \in DOMAIN batch /\ batch[b].status = "confirmed"
  BY <1>1, SomebodyDecided
<1> HIDE DEF b
<1>3. /\ primaries' \in Seq(PrimaryDecision)
      /\ \E i \in DOMAIN primaries' : CurrentPrimary' = {i}
      /\ \A i \in DOMAIN primaries' :
           \/ primaries'[i].batch = b
           \/ i \in DOMAIN primaries /\ primaries'[i].batch = primaries[i].batch
  BY <1>1, <1>2, PrimaryChosen
<1>4. TypeOK'
  <2>1. session' \in [Owners -> Session]
    BY <1>1, DoneFits DEF IInv
  <2> QED BY <1>1, <1>3, <2>1 DEF IInv, TypeOK
<1>5. /\ ResultsMatchStatus' /\ SuggestionIsNewest' /\ WorkFits' /\ LastDecided'
  BY <1>1 DEF IInv, ResultsMatchStatus, SuggestionIsNewest, WorkFits, LastDecided,
              Overrides
<1>6. OneCurrent'
  BY <1>3 DEF OneCurrent
<1>7. RowsPoint'
  BY <1>1, <1>2, <1>3 DEF IInv, RowsPoint
<1>8. DecisionsRestOnConfirmations'
  <2>1. \A i \in DOMAIN primaries' : batch[primaries'[i].batch].status = "confirmed"
    BY <1>2, <1>3 DEF IInv, DecisionsRestOnConfirmations
  <2>2. Confirmed' = Confirmed
    BY <1>1 DEF Confirmed
  <2>3. batch' = batch /\ policy' = policy /\ decisions' = decisions
    BY <1>1
  <2> QED BY <2>1, <2>2, <2>3 DEF IInv, DecisionsRestOnConfirmations
<1> QED BY <1>4, <1>5, <1>6, <1>7, <1>8 DEF IInv
(* An owner's request opens, ends without a change, or is refused.          *)
LEMMA RequestKeeps ==
  ASSUME IInv, NEW o \in Owners,
         Open(o) \/ Close(o) \/ \E r \in Requests : ConfirmConflict(o, r)
  PROVE  IInv'
<1>1. UNCHANGED <<batch, policy, decisions, primaries>> /\ evaluator' = evaluator
  BY DEF Open, Close, ConfirmConflict
<1>2. session' \in [Owners -> Session]
  <2>1. CASE Open(o)
    <3> DEFINE w == [Away EXCEPT !.pc = "requested", !.seen = Confirmed]
    <3>1. Confirmed \subseteq Batches
      BY Shapes DEF IInv, Confirmed
    <3>2. w \in Session
      BY <3>1 DEF Away, Session, Nullable
    <3>3. session' = [session EXCEPT ![o] = w]
      BY <2>1 DEF Open
    <3> HIDE DEF w
    <3> QED BY <3>2, <3>3, SessionMoves DEF IInv
  <2>2. CASE Close(o)
    BY <2>2, DoneFits DEF IInv, Close
  <2>3. ASSUME NEW r \in Requests, ConfirmConflict(o, r)
        PROVE  session' \in [Owners -> Session]
    <3> DEFINE w == [Away EXCEPT !.refused = r]
    <3>1. r \in Request
      BY Shapes DEF IInv, Requests, Request
    <3>2. w \in Session
      BY <3>1 DEF Away, Session, Nullable
    <3>3. session' = [session EXCEPT ![o] = w]
      BY <2>3 DEF ConfirmConflict
    <3> HIDE DEF w
    <3> QED BY <3>2, <3>3, SessionMoves DEF IInv
  <2> QED BY <2>1, <2>2, <2>3
<1>3. batch' = batch
  BY <1>1
<1>4. evaluator' \in [Evaluators -> Evaluator] /\ WorkFits'
  BY <1>1, <1>3, EvaluatorsStay
<1> QED BY <1>1, <1>2, <1>4, QuietStep

-------------------------------------------------------------------------------
(* The invariant holds, and with it what the runs check.                    *)

(* At the start there is nothing.                                           *)
LEMMA InitOK == Init => IInv
<1> SUFFICES ASSUME Init  PROVE IInv
  OBVIOUS
<1>1. batch = <<>> /\ decisions = <<>> /\ primaries = <<>>
  BY DEF Init
<1>2. /\ policy.batch = NoValue /\ policy.source = "system_suggestion"
      /\ policy \in Policy
  BY DEF Init, Policy, Nullable, Sources
<1>3. ~policy.confirmed
  BY DEF Init
<1>4. /\ evaluator = [e \in Evaluators |-> Idle] /\ session = [o \in Owners |-> Away]
  BY DEF Init
<1>5. Away \in Session
  BY DEF Away, Session, Nullable
<1>6. TypeOK
  BY <1>1, <1>2, <1>4, <1>5, IdleFits DEF TypeOK
<1>7. ResultsMatchStatus /\ DecisionsRestOnConfirmations
  BY <1>1, <1>2 DEF ResultsMatchStatus, DecisionsRestOnConfirmations, Confirmed
<1>8. SuggestionIsNewest
  BY <1>1, <1>2, <1>3 DEF SuggestionIsNewest
<1>9. WorkFits
  BY <1>4, IdleFits DEF WorkFits
<1>10. RowsPoint /\ LastDecided /\ OneCurrent
  BY <1>1, <1>2, BoundsAssumption DEF RowsPoint, LastDecided, OneCurrent, CurrentPrimary
<1> QED BY <1>6, <1>7, <1>8, <1>9, <1>10 DEF IInv

(* No step of a batch, an evaluator or an owner breaks it.                  *)
LEMMA NextKeeps == IInv /\ [Next]_vars => IInv'
<1> SUFFICES ASSUME IInv, [Next]_vars  PROVE IInv'
  OBVIOUS
<1>1. ASSUME NEW e \in Evaluators, EvaluatorStep(e)  PROVE IInv'
  <2>1. CASE \E locked \in SUBSET DOMAIN batch : ClaimNext(e, locked)
    BY <2>1, ClaimKeeps
  <2>2. CASE \/ \E conclusion \in Conclusions : Answer(e, conclusion)
             \/ NoAnswer(e) \/ Reread(e) \/ Crash(e)
    BY <2>2, WorkKeeps
  <2>3. CASE Record(e)
    BY <2>3, RecordKeeps
  <2>4. CASE Fail(e)
    BY <2>4, FailClaimedKeeps DEF Fail
  <2> QED BY <1>1, <2>1, <2>2, <2>3, <2>4 DEF EvaluatorStep
<1>2. ASSUME NEW o \in Owners, OwnerStep(o)  PROVE IInv'
  <2>1. CASE Open(o) \/ Close(o) \/ \E r \in Requests : ConfirmConflict(o, r)
    BY <2>1, RequestKeeps
  <2>2. CASE \E r \in Requests : Confirm(o, r)
    BY <2>2, ConfirmKeeps
  <2>3. CASE \E conclusion \in Conclusions : AdjustConclusion(o, conclusion)
    BY <2>3, AdjustKeeps
  <2>4. CASE \E entity \in Entities : SelectPrimaryEntity(o, entity)
    BY <2>4, SelectKeeps
  <2> QED BY <1>2, <2>1, <2>2, <2>3, <2>4 DEF OwnerStep
<1>3. CASE UNCHANGED vars
  <2>1. /\ UNCHANGED <<batch, policy, decisions, primaries>>
        /\ evaluator' = evaluator /\ session' = session /\ batch' = batch
    BY <1>3 DEF vars
  <2> QED BY <2>1, EvaluatorsStay, QuietStep DEF IInv, TypeOK
<1> QED BY <1>1, <1>2, <1>3, EnqueueKeeps, RowStepKeeps DEF Next

(* The invariant of batches, evaluators and owners.                         *)
THEOREM EvaluationInvariance == Spec => []IInv
BY InitOK, NextKeeps, PTL DEF Spec

(* Rows, memories and sessions keep their shapes.                           *)
THEOREM EvaluationTypes == Spec => []TypeOK
<1>1. IInv => TypeOK
  BY DEF IInv
<1> QED BY <1>1, EvaluationInvariance, PTL

(* However many evaluators work on one batch one after the other, each      *)
(* believing that it is the only one, the batch has a result exactly while *)
(* it awaits or has its confirmation.                                      *)
THEOREM ResultsFollowStatus == Spec => []ResultsMatchStatus
<1>1. IInv => ResultsMatchStatus
  BY DEF IInv
<1> QED BY <1>1, EvaluationInvariance, PTL

(* In whatever order batches finish, an undecided policy shows what the     *)
(* newest of them suggests.                                                *)
THEOREM NewestIsSuggested == Spec => []SuggestionIsNewest
<1>1. IInv => SuggestionIsNewest
  BY DEF IInv
<1> QED BY <1>1, EvaluationInvariance, PTL

(* Every decision has a confirmed batch behind it, and every confirmed      *)
(* batch exactly one confirmation among the decisions.                     *)
THEOREM ConfirmationsBehindDecisions == Spec => []DecisionsRestOnConfirmations
<1>1. IInv => DecisionsRestOnConfirmations
  BY DEF IInv
<1> QED BY <1>1, EvaluationInvariance, PTL

(* The last decision is the conclusion's, as the design words it.           *)
LEMMA LastStands ==
  ASSUME IInv
  PROVE  HumanDecisionStands
<1>1. /\ DOMAIN decisions = 1..Len(decisions) /\ Len(decisions) \in Nat
      /\ \A i \in DOMAIN decisions :
           decisions[i].source \in {"evaluation_confirmation", "manual_override"}
  <2>1. \A i \in DOMAIN decisions : decisions[i] \in Decision
    BY Shapes DEF IInv
  <2> QED BY <2>1, LenProperties DEF IInv, TypeOK, Decision, Sources
<1>2. \A source : \A i \in LatestOf(source) :
        /\ i \in DOMAIN decisions /\ decisions[i].source = source
        /\ \A j \in DOMAIN decisions : decisions[j].source = source => j <= i
  BY DEF LatestOf
<1>3. CASE policy.source = "system_suggestion" /\ decisions = <<>>
  <2>1. \A source : LatestOf(source) = {}
    BY <1>3 DEF LatestOf
  <2> QED BY <2>1 DEF HumanDecisionStands
<1>4. CASE /\ policy.source = "evaluation_confirmation"
           /\ policy.confirmed
           /\ decisions # <<>>
           /\ \A i \in DOMAIN decisions : ~Overrides(i)
           /\ policy.conclusion = decisions[Len(decisions)].conclusion
  <2>1. LatestOf("manual_override") = {}
    BY <1>4 DEF LatestOf, Overrides
  <2>2. Len(decisions) \in DOMAIN decisions
    BY <1>1, <1>4, EmptySeq DEF IInv, TypeOK
  <2>3. decisions[Len(decisions)].source = "evaluation_confirmation"
    BY <1>1, <1>4, <2>2 DEF Overrides
  <2>4. \A i \in LatestOf("evaluation_confirmation") : i = Len(decisions)
    BY <1>1, <1>2, <2>2, <2>3
  <2>5. \A i \in LatestOf("evaluation_confirmation") :
          policy.source = decisions[i].source
          /\ policy.conclusion = decisions[i].conclusion
    BY <1>4, <2>3, <2>4
  <2> QED BY <1>4, <2>1, <2>5 DEF HumanDecisionStands
<1>5. CASE /\ policy.source = "manual_override"
           /\ policy.confirmed
           /\ \E i \in DOMAIN decisions :
                /\ Overrides(i)
                /\ \A j \in DOMAIN decisions : Overrides(j) => j <= i
                /\ policy.conclusion = decisions[i].conclusion
  <2>1. PICK i \in DOMAIN decisions :
          /\ decisions[i].source = "manual_override"
          /\ \A j \in DOMAIN decisions :
               decisions[j].source = "manual_override" => j <= i
          /\ policy.conclusion = decisions[i].conclusion
    BY <1>5 DEF Overrides
  <2>2. i \in LatestOf("manual_override")
    BY <2>1 DEF LatestOf
  <2>3. \A k \in LatestOf("manual_override") : k = i
    BY <1>1, <1>2, <2>1
  <2>4. \A k \in LatestOf("manual_override") :
          policy.source = decisions[k].source
          /\ policy.conclusion = decisions[k].conclusion
    BY <1>5, <2>1, <2>3
  <2>5. LatestOf("manual_override") # {}
    BY <2>2
  <2> QED BY <1>5, <2>4, <2>5 DEF HumanDecisionStands
<1> QED BY <1>3, <1>4, <1>5 DEF IInv, LastDecided

(* Design 2.1, for any number of owners and late evaluators: once people    *)
(* have decided, their last word is the conclusion, and a manual one is    *)
(* their last word whatever is confirmed after it.                         *)
THEOREM DecisionsStand == Spec => []HumanDecisionStands
BY LastStands, EvaluationInvariance, PTL
-------------------------------------------------------------------------------
(* Batches, evaluators and owners implement the promise of the design.      *)

(* The entity that the policy shows, if it shows one.                       *)
Primary ==
  IF CurrentPrimary = {} THEN NoValue
  ELSE primaries[CHOOSE i \in CurrentPrimary : TRUE].entity

(* The promise is about three values.                                       *)
LEMMA VerdictStays ==
  ASSUME policy'.conclusion = policy.conclusion, policy'.source = policy.source,
         Primary' = Primary
  PROVE  UNCHANGED Verdict!verdict
BY DEF Verdict!verdict, Primary

(* Rows that stay show the same entity.                                     *)
LEMMA PrimaryKept ==
  ASSUME primaries' = primaries
  PROVE  Primary' = Primary
<1>1. CurrentPrimary' = CurrentPrimary
  BY DEF CurrentPrimary
<1> QED BY <1>1 DEF Primary

(* Rows that were changed show the chosen one.                              *)
LEMMA PrimaryShown ==
  ASSUME NEW i \in DOMAIN primaries', CurrentPrimary' = {i}
  PROVE  Primary' = primaries'[i].entity
<1>1. (CHOOSE k \in {i} : TRUE) = i
  OBVIOUS
<1> QED BY <1>1 DEF Primary

(* A current row shows an entity.                                           *)
LEMMA PrimaryIsEntity ==
  ASSUME IInv, CurrentPrimary # {}
  PROVE  Primary \in Entities /\ Primary # NoValue
<1> DEFINE i == CHOOSE k \in CurrentPrimary : TRUE
<1>1. i \in CurrentPrimary
  OBVIOUS
<1> HIDE DEF i
<1>2. i \in DOMAIN primaries
  BY <1>1 DEF CurrentPrimary
<1>3. primaries[i].entity \in Entities
  BY <1>2, Shapes DEF IInv, PrimaryDecision
<1>4. Primary = primaries[i].entity
  BY DEF Primary, i
<1> QED BY <1>3, <1>4, NoValueAssumption

(* A confirmation is the conclusion unless an override stands; with a       *)
(* recommendation goes its entity.                                         *)
LEMMA ConfirmFollows ==
  ASSUME IInv, NEW o \in Owners, NEW r \in Requests, Confirm(o, r)
  PROVE  Verdict!Confirm
<1> DEFINE b == r.batch
           c == r.conclusion
<1>1. /\ b \in DOMAIN batch /\ c \in Conclusions
      /\ c = "recommend_apply" => r.primary \in Entities
  BY DEF Requests, Nullable
<1>2. /\ policy' = Decided(b, c, "evaluation_confirmation")
      /\ primaries' = IF c = "recommend_apply"
                        THEN WithPrimary(b, r.primary) ELSE primaries
  BY DEF Confirm
<1> HIDE DEF b, c
<1>3. policy \in Policy
  BY DEF IInv, TypeOK
<1>4. IF policy.source = "manual_override"
        THEN policy'.conclusion = policy.conclusion /\ policy'.source = policy.source
        ELSE policy'.conclusion = c /\ policy'.source = "evaluation_confirmation"
  BY <1>2, <1>3 DEF Decided, Policy
<1>5. IF c = "recommend_apply" THEN Primary' \in Entities ELSE Primary' = Primary
  <2>1. CASE c = "recommend_apply"
    <3>1. primaries' = WithPrimary(b, r.primary) /\ r.primary \in Entities
      BY <1>1, <1>2, <2>1
    <3>2. PICK i \in DOMAIN primaries' :
            CurrentPrimary' = {i} /\ primaries'[i].entity = r.primary
      BY <1>1, <3>1, PrimaryChosen
    <3> QED BY <2>1, <3>1, <3>2, PrimaryShown
  <2>2. CASE c # "recommend_apply"
    BY <1>2, <2>2, PrimaryKept
  <2> QED BY <2>1, <2>2
<1> QED BY <1>1, <1>4, <1>5 DEF Verdict!Confirm, Primary

(* An override follows a decision and has an entity if it recommends.       *)
LEMMA AdjustFollows ==
  ASSUME IInv, NEW o \in Owners, NEW conclusion \in Conclusions,
         AdjustConclusion(o, conclusion)
  PROVE  Verdict!Override
<1>1. /\ HasDecision(o) /\ Admissible(conclusion)
      /\ policy' = Decided(policy.batch, conclusion, "manual_override")
      /\ primaries' = primaries
  BY DEF AdjustConclusion
<1>2. policy'.conclusion = conclusion /\ policy'.source = "manual_override"
  BY <1>1 DEF Decided
<1>3. policy.source # "system_suggestion"
  BY <1>1, SomebodyDecided
<1>4. conclusion = "recommend_apply" => Primary # NoValue
  BY <1>1, PrimaryIsEntity DEF Admissible
<1>5. Primary' = Primary
  BY <1>1, PrimaryKept
<1> QED BY <1>2, <1>3, <1>4, <1>5 DEF Verdict!Override, Primary

(* The choice of an entity follows a decision.                              *)
LEMMA SelectFollows ==
  ASSUME IInv, NEW o \in Owners, NEW entity \in Entities,
         SelectPrimaryEntity(o, entity)
  PROVE  Verdict!SelectPrimary
<1>1. HasDecision(o) /\ primaries' = WithPrimary(policy.batch, entity)
      /\ policy' = policy
  BY DEF SelectPrimaryEntity
<1>2. policy.batch \in DOMAIN batch /\ policy.source # "system_suggestion"
  BY <1>1, SomebodyDecided
<1>3. PICK i \in DOMAIN primaries' :
        CurrentPrimary' = {i} /\ primaries'[i].entity = entity
  BY <1>1, <1>2, PrimaryChosen
<1>4. Primary' = entity
  BY <1>3, PrimaryShown
<1> QED BY <1>1, <1>2, <1>4 DEF Verdict!SelectPrimary, Primary

(* A result suggests, or leaves what the policy shows.                      *)
LEMMA RecordFollows ==
  ASSUME IInv, NEW e \in Evaluators, Record(e)
  PROVE  Verdict!Suggest \/ UNCHANGED Verdict!verdict
<1> DEFINE b == evaluator[e].batch
           conclusion == evaluator[e].answer
<1>1. /\ Primary' = Primary
      /\ policy' = policy \/ policy' = Suggested(b, conclusion)
  BY PrimaryKept DEF Record
<1>2. /\ policy \in Policy /\ conclusion \in Conclusions /\ b \in Batches
  BY Shapes DEF IInv, TypeOK, WorkFits, Record
<1> HIDE DEF b, conclusion
<1>3. \/ policy'.conclusion = policy.conclusion /\ policy'.source = policy.source
      \/ /\ policy.source = "system_suggestion" /\ policy'.source = policy.source
         /\ policy'.conclusion = conclusion
  BY <1>1, <1>2, SuggestedIs
<1>4. CASE policy'.conclusion = policy.conclusion /\ policy'.source = policy.source
  BY <1>1, <1>4, VerdictStays
<1>5. CASE /\ policy.source = "system_suggestion" /\ policy'.source = policy.source
           /\ policy'.conclusion = conclusion
  BY <1>1, <1>2, <1>5 DEF Verdict!Suggest, Primary
<1> QED BY <1>3, <1>4, <1>5

(* Every step is a step of the promise, or nothing to it.                   *)
LEMMA StepFollows ==
  ASSUME IInv, [Next]_vars
  PROVE  [Verdict!Next]_(Verdict!verdict)
<1> SUFFICES Verdict!Next \/ UNCHANGED Verdict!verdict
  OBVIOUS
<1>1. ASSUME policy' = policy, primaries' = primaries
      PROVE  UNCHANGED Verdict!verdict
  BY <1>1, PrimaryKept, VerdictStays
<1>2. ASSUME NEW e \in Evaluators, EvaluatorStep(e)
      PROVE  Verdict!Next \/ UNCHANGED Verdict!verdict
  <2>1. CASE Record(e)
    BY <2>1, RecordFollows DEF Verdict!Next
  <2>2. CASE ~Record(e)
    BY <1>1, <1>2, <2>2 DEF EvaluatorStep, ClaimNext, Answer, NoAnswer, Reread, Fail, Crash
  <2> QED BY <2>1, <2>2
<1>3. ASSUME NEW o \in Owners, OwnerStep(o)
      PROVE  Verdict!Next \/ UNCHANGED Verdict!verdict
  <2>1. CASE Open(o) \/ Close(o) \/ \E r \in Requests : ConfirmConflict(o, r)
    BY <1>1, <2>1 DEF Open, Close, ConfirmConflict
  <2>2. CASE \E r \in Requests : Confirm(o, r)
    BY <2>2, ConfirmFollows DEF Verdict!Next
  <2>3. CASE \E conclusion \in Conclusions : AdjustConclusion(o, conclusion)
    BY <2>3, AdjustFollows DEF Verdict!Next
  <2>4. CASE \E entity \in Entities : SelectPrimaryEntity(o, entity)
    BY <2>4, SelectFollows DEF Verdict!Next
  <2> QED BY <1>3, <2>1, <2>2, <2>3, <2>4 DEF OwnerStep
<1>4. CASE Enqueue \/ (\E b \in DOMAIN batch : Cancel(b) \/ Expire(b)) \/ UNCHANGED vars
  BY <1>1, <1>4 DEF Enqueue, Cancel, Expire, vars
<1> QED BY <1>2, <1>3, <1>4 DEF Next

(* Sections 2.1 and 4 of the design: a suggestion gives way to people and   *)
(* never the other way round, an override outlasts confirmations, and a    *)
(* person's recommendation to apply has a primary entity, whatever the     *)
(* evaluators and the other owners do in between.                          *)
THEOREM EvaluationFollowsDesign == Spec => FollowsDesign
<1>1. Init => Verdict!Init
  <2> SUFFICES ASSUME Init  PROVE Verdict!Init
    OBVIOUS
  <2>1. policy.conclusion = NoValue /\ policy.source = "system_suggestion"
    BY DEF Init
  <2>2. CurrentPrimary = {}
    BY DEF Init, CurrentPrimary
  <2> QED BY <2>1, <2>2 DEF Verdict!Init
<1>2. IInv /\ [Next]_vars => [Verdict!Next]_(Verdict!verdict)
  BY StepFollows
<1> QED BY <1>1, <1>2, EvaluationInvariance, PTL DEF Spec, FollowsDesign, Verdict!Spec
===============================================================================
