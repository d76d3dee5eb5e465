---------------------------- MODULE PolicyConversion ----------------------------
(***************************************************************************)
(* From policies to projects: ProjectService.convert_policy, answered at    *)
(* most once per policy and idempotency key, and correct_primary_entity     *)
(* (app/modules/projects/service.py), among the transactions that change   *)
(* the policies at the same time.                                          *)
(*                                                                         *)
(* Both requests lock rows one after the other and may wait at each, so     *)
(* each lock is a step, and what is read with it is carried in memory to    *)
(* the later step that writes it.  Plain SELECTs see what was committed     *)
(* when the request opened its transaction (REPEATABLE READ); FOR UPDATE    *)
(* reads rows as they are and, where none is found, keeps others from       *)
(* inserting one.                                                          *)
(***************************************************************************)
EXTENDS Naturals, Sequences

CONSTANTS
  Policies,     \* policies under review
  Owners,       \* active accounts with the role applicant_owner
  Keys,         \* values of the Idempotency-Key header
  Titles,       \* what the site has called a policy
  Names,        \* names that requests give, NoValue for none
  MaxDecisions, \* bound: primary-entity decisions of a policy
  MaxVersion,   \* bound: no write to a project beyond this version
  NoValue       \* SQL NULL, and a name that is left to the policy

ASSUME BoundsAssumption == MaxDecisions \in Nat /\ MaxVersion \in Nat
ASSUME NamesAssumption == Names \subseteq Titles \cup {NoValue}
ASSUME NoValueAssumption == NoValue \notin Titles /\ NoValue \notin Nat

VARIABLES
  policy,   \* table policies, with the number of the current decision
  project,  \* table projects, by id
  session   \* each owner's request and its transaction

vars == <<policy, project, session>>

Nullable(S) == S \cup {NoValue}

(* recommended: conclusion_confirmed and current_conclusion; primary: how   *)
(* many primary entities were decided on, the last of them being current.  *)
Policy == [title: Titles, recommended: BOOLEAN, primary: 0..MaxDecisions]

(* The name stands for all fields of the payload; one that is not given is  *)
(* the policy's.                                                           *)
Conversion ==
  [kind: {"convert"}, policy: Policies, key: Keys, name: Names]

Correction ==
  [kind: {"correct"}, project: Nat, version: Nat, decision: 1..MaxDecisions]

Project ==
  [policy: Policies, name: Titles, key: Keys, request: Conversion,
   fingerprint: Policies \X Titles, decision: 1..MaxDecisions, version: Nat]

Replies ==
  {"none", "created", "returned", "idempotency_key_reused", "refused",
   "policy_already_converted", "version_conflict", "corrected", "error"}

(* visible: the projects that the transaction's snapshot contains.  Read by *)
(* then and kept: name, of the project to be; recommended and current, of   *)
(* the policy; own, the decision of the project to correct.                *)
Session ==
  [pc: {"away", "asked", "policy_locked", "key_free", "policy_free",
        "project_locked", "decision_read"},
   request: Nullable(Conversion \cup Correction), visible: Nat,
   name: Nullable(Titles), recommended: BOOLEAN, current: 0..MaxDecisions,
   own: 0..MaxDecisions, reply: Replies]

Away == [pc |-> "away", request |-> NoValue, visible |-> 0, name |-> NoValue,
         recommended |-> FALSE, current |-> 0, own |-> 0, reply |-> "none"]

Init ==
  /\ policy \in [Policies -> {r \in Policy : r.recommended /\ r.primary = 1}]
  /\ project = <<>>
  /\ session = [o \in Owners |-> Away]

-------------------------------------------------------------------------------
(* Locks.                                                                  *)

(* A request whose transaction holds the row of policy p.                  *)
HoldsPolicy(s, p) ==
  \/ /\ s.pc \in {"policy_locked", "key_free", "policy_free"}
     /\ s.request.policy = p
  \/ /\ s.pc = "decision_read"
     /\ project[s.request.project].policy = p

(* One that holds the row of project i.                                    *)
HoldsProject(s, i) ==
  /\ s.pc \in {"project_locked", "decision_read"}
  /\ s.request.project = i

(* Variant: the policy is read without FOR UPDATE.                         *)
PolicyFreeAlways(p) == TRUE

PolicyFree(p) == \A o \in Owners : ~HoldsPolicy(session[o], p)
ProjectFree(i) == \A o \in Owners : ~HoldsProject(session[o], i)

(* Variant: the key is looked for without FOR UPDATE.                      *)
GapLockedNever(o) == FALSE

(* Another transaction has looked for the key, found no project and locked  *)
(* the gap, so that nobody inserts one.                                    *)
GapLocked(o) ==
  \E other \in Owners \ {o} :
    /\ session[other].pc \in {"key_free", "policy_free"}
    /\ session[other].request.key = session[o].request.key

(* The gap of one key reaches to the next key that exists, and the same is  *)
(* true of the policies without a project, so that any two transactions     *)
(* about to insert may be in each other's way.                             *)
GapMayBeLocked(o) == \E other \in Owners \ {o} : session[other].pc = "policy_free"

WithKey(k) == {i \in DOMAIN project : project[i].key = k}
OfPolicy(p) == {i \in DOMAIN project : project[i].policy = p}

(* The transaction of o waits, or may wait, for another's lock.            *)
Waits(o) ==
  LET r == session[o].request
  IN  CASE session[o].pc = "asked" /\ r.kind = "convert" -> ~PolicyFree(r.policy)
        [] session[o].pc = "asked" /\ r.kind = "correct" -> ~ProjectFree(r.project)
        [] session[o].pc = "policy_locked" ->
             \E i \in WithKey(r.key) : ~ProjectFree(i)
        [] session[o].pc = "key_free" ->
             \E i \in OfPolicy(r.policy) : ~ProjectFree(i)
        [] session[o].pc = "policy_free" -> GapMayBeLocked(o)
        [] session[o].pc = "project_locked" ->
             ~PolicyFree(project[r.project].policy)
        [] OTHER -> FALSE

-------------------------------------------------------------------------------
(* Steps of a request.                                                     *)

(* The end of a request, by commit or by rollback: its locks are released.  *)
Answered(o, reply) ==
  session' = [session EXCEPT ![o] = [Away EXCEPT !.reply = reply]]

Goes(o, pc) == session' = [session EXCEPT ![o].pc = pc]

(* A request arrives; get_current_user opens its transaction.  A correction *)
(* names a version that its write does not take beyond the bound.          *)
Ask(o) ==
  /\ session[o].pc = "away"
  /\ \E r \in Conversion \cup
       [kind: {"correct"}, project: DOMAIN project, version: 1..(MaxVersion - 1),
        decision: 1..MaxDecisions] :
       session' = [session EXCEPT ![o] =
         [Away EXCEPT !.pc = "asked", !.request = r, !.visible = Len(project)]]
  /\ UNCHANGED <<policy, project>>

EffectiveName(r) == IF r.name = NoValue THEN policy[r.policy].title ELSE r.name

(* convert_policy: SELECT ... FOR UPDATE of the policy.                    *)
LockPolicy(o) ==
  /\ session[o].pc = "asked"
  /\ session[o].request.kind = "convert"
  /\ PolicyFree(session[o].request.policy)
  /\ session' = [session EXCEPT
       ![o].pc = "policy_locked",
       ![o].name = EffectiveName(session[o].request),
       ![o].recommended = policy[session[o].request.policy].recommended]
  /\ UNCHANGED <<policy, project>>

(* Variant: the fingerprint of the payload.                                *)
FingerprintOfPayload(o) == <<session[o].request.policy, session[o].request.name>>

(* _creation_fingerprint: of what the project would be, not of the payload. *)
Fingerprint(o) == <<session[o].request.policy, session[o].name>>

(* The key has a project: a repeated request.  The row is locked and read   *)
(* as it is, but detail() looks for it with a plain SELECT, and a project   *)
(* that its snapshot lacks is a LookupError, answered with status 500.     *)
FindKey(o) ==
  /\ session[o].pc = "policy_locked"
  /\ \E i \in WithKey(session[o].request.key) :
       /\ ProjectFree(i)
       /\ Answered(o,
            IF project[i].fingerprint # Fingerprint(o)
              THEN "idempotency_key_reused"
              ELSE IF i <= session[o].visible THEN "returned" ELSE "error")
  /\ UNCHANGED <<policy, project>>

(* The key is new.  The policy is or is not recommended (as read by then:   *)
(* PolicyNotConvertible), and its current decision is locked and read       *)
(* (PrimaryEntityMissing if there is none).                                *)
KeyFree(o) ==
  LET now == policy[session[o].request.policy].primary
  IN  /\ session[o].pc = "policy_locked"
      /\ WithKey(session[o].request.key) = {}
      /\ \/ /\ ~session[o].recommended \/ now = 0
            /\ Answered(o, "refused")
         \/ /\ session[o].recommended /\ now # 0
            /\ session' = [session EXCEPT ![o].pc = "key_free", ![o].current = now]
      /\ UNCHANGED <<policy, project>>

(* PolicyAlreadyConverted.                                                 *)
FindProject(o) ==
  /\ session[o].pc = "key_free"
  /\ \E i \in OfPolicy(session[o].request.policy) : ProjectFree(i)
  /\ Answered(o, "policy_already_converted")
  /\ UNCHANGED <<policy, project>>

(* There is none; the people named may be unknown or inactive.             *)
ProjectMissing(o) ==
  /\ session[o].pc = "key_free"
  /\ OfPolicy(session[o].request.policy) = {}
  /\ Goes(o, "policy_free") \/ Answered(o, "refused")
  /\ UNCHANGED <<policy, project>>

(* The project, from what was read, its members, its first history entry,   *)
(* both audits and the notification, and the commit.  The locks leave       *)
(* nothing for the unique constraints to refuse (OneProject), so            *)
(* _resolve_creation_race has no part in it.                               *)
Insert(o) ==
  LET r == session[o].request
  IN  /\ session[o].pc = "policy_free"
      /\ ~GapLocked(o)
      /\ project' = Append(project,
           [policy |-> r.policy, name |-> session[o].name, key |-> r.key,
            request |-> r, fingerprint |-> Fingerprint(o),
            decision |-> session[o].current, version |-> 1])
      /\ Answered(o, "created")
      /\ UNCHANGED policy

(* correct_primary_entity: SELECT ... FOR UPDATE of the project.           *)
LockProject(o) ==
  LET r == session[o].request
  IN  /\ session[o].pc = "asked"
      /\ r.kind = "correct"
      /\ ProjectFree(r.project)
      /\ \/ /\ project[r.project].version # r.version
            /\ Answered(o, "version_conflict")
         \/ /\ project[r.project].version = r.version
            /\ session' = [session EXCEPT ![o].pc = "project_locked",
                                           ![o].own = project[r.project].decision]
      /\ UNCHANGED <<policy, project>>

(* Then of the policy and of its current decision.                         *)
ReadDecision(o) ==
  LET p == project[session[o].request.project].policy
  IN  /\ session[o].pc = "project_locked"
      /\ PolicyFree(p)
      /\ session' = [session EXCEPT ![o].pc = "decision_read",
                                     ![o].current = policy[p].primary]
      /\ UNCHANGED <<policy, project>>

(* PrimaryEntityMissing: the target is not the decision that was read.      *)
RefuseTarget(o) ==
  /\ session[o].pc = "decision_read"
  /\ session[o].request.decision # session[o].current
  /\ Answered(o, "refused")
  /\ UNCHANGED <<policy, project>>

(* The decision the project has already is answered without a write.       *)
KeepEntity(o) ==
  /\ session[o].pc = "decision_read"
  /\ session[o].request.decision = session[o].current
  /\ session[o].request.decision = session[o].own
  /\ Answered(o, "returned")
  /\ UNCHANGED <<policy, project>>

(* The write, with the version that was read and compared, and the commit.  *)
CorrectEntity(o) ==
  LET r == session[o].request
  IN  /\ session[o].pc = "decision_read"
      /\ r.decision = session[o].current
      /\ r.decision # session[o].own
      /\ project' = [project EXCEPT ![r.project].decision = r.decision,
                                     ![r.project].version = r.version + 1]
      /\ Answered(o, "corrected")
      /\ UNCHANGED policy

(* InnoDB ends a transaction that waits in a circle, or has waited for      *)
(* innodb_lock_wait_timeout; no handler catches that.                      *)
LockError(o) ==
  /\ Waits(o)
  /\ Answered(o, "error")
  /\ UNCHANGED <<policy, project>>

-------------------------------------------------------------------------------
(* What others do to policies and projects meanwhile, in transactions that  *)
(* wait for the same row.                                                  *)

(* Ingestion of a new page.                                                *)
Retitle(p) ==
  /\ PolicyFree(p)
  /\ \E title \in Titles \ {policy[p].title} :
       policy' = [policy EXCEPT ![p].title = title]
  /\ UNCHANGED <<project, session>>

(* confirm, adjust_conclusion and select_primary_entity; a recommendation   *)
(* has a primary entity (EvaluationDecision!FollowsDesign).                *)
Decide(p) ==
  /\ PolicyFree(p)
  /\ \E recommended \in BOOLEAN, primary \in {policy[p].primary, policy[p].primary + 1} :
       /\ primary <= MaxDecisions
       /\ policy' = [policy EXCEPT ![p].recommended = recommended,
                                   ![p].primary = primary]
  /\ UNCHANGED <<project, session>>

(* Any other write of ProjectLedger.                                       *)
OtherWrite(i) ==
  /\ ProjectFree(i)
  /\ project[i].version < MaxVersion
  /\ project' = [project EXCEPT ![i].version = @ + 1]
  /\ UNCHANGED <<policy, session>>

-------------------------------------------------------------------------------
RequestStep(o) ==
  \/ Ask(o)
  \/ LockPolicy(o)
  \/ FindKey(o)
  \/ KeyFree(o)
  \/ FindProject(o)
  \/ ProjectMissing(o)
  \/ Insert(o)
  \/ LockProject(o)
  \/ ReadDecision(o)
  \/ RefuseTarget(o)
  \/ KeepEntity(o)
  \/ CorrectEntity(o)
  \/ LockError(o)

Next ==
  \/ \E o \in Owners : RequestStep(o)
  \/ \E p \in Policies : Retitle(p) \/ Decide(p)
  \/ \E i \in DOMAIN project : OtherWrite(i)

Spec == Init /\ [][Next]_vars

-------------------------------------------------------------------------------
(* Properties.                                                             *)

(* Policies, projects and requests have their shapes.                      *)
TypeOK ==
  /\ policy \in [Policies -> Policy]
  /\ project \in Seq(Project)
  /\ session \in [Owners -> Session]

(* Section 6.3: a policy has one project and a key made one project, by the *)
(* locks alone: the unique constraints of the table, and the way back from  *)
(* them, are never needed.                                                 *)
OneProject ==
  \A i, j \in DOMAIN project :
    project[i].policy = project[j].policy \/ project[i].key = project[j].key
      => i = j

(* Project i is new, of a recommended policy, with its current decision and *)
(* the title it has, if the request gave no name; or it keeps its decision; *)
(* or a correction that holds project i, and was sent for the version it    *)
(* has, gives it the target it asked for, which is the current decision.    *)
CopiesDecision(i) ==
  LET new == project'[i]
      now == policy[new.policy]
  IN  IF i \notin DOMAIN project
        THEN /\ now.recommended /\ new.decision = now.primary
             /\ new.request.name = NoValue => new.name = now.title
        ELSE \/ new.decision = project[i].decision
             \/ /\ new.decision = now.primary
                /\ new.version = project[i].version + 1
                /\ \E o \in Owners :
                     /\ HoldsProject(session[o], i)
                     /\ session[o].request.version = project[i].version
                     /\ session[o].request.decision = new.decision

(* What a project is created with or corrected to was read some steps and   *)
(* locks before it is written: nobody may have changed it in between.       *)
CopiesCurrentDecision ==
  [][\A i \in DOMAIN project' : CopiesDecision(i)]_vars

(* The stage-3 design, section 6.3: a request that is repeated with its key *)
(* gets the project that it made.                                          *)
RepeatReturnsProject ==
  [][\A o \in Owners : \A i \in DOMAIN project :
       session[o].pc = "policy_locked" /\ session[o].request = project[i].request
         => session'[o].reply \in {"none", "returned"}]_vars
===============================================================================
