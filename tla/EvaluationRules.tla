---------------------------- MODULE EvaluationRules ----------------------------
(***************************************************************************)
(* The evaluation rules: sets of numbered versions that applicant owners    *)
(* draft, publish and retire (app/modules/evaluation_rules/service.py), and *)
(* the batches that copy the published version when a policy version is    *)
(* queued for evaluation (EvaluationService.enqueue).                      *)
(*                                                                         *)
(* A request opens its transaction with the session check; its plain        *)
(* SELECTs see the versions of that moment, its FOR UPDATE reads see them   *)
(* as they are.  Requests that lock their rows at once are one more step.   *)
(* To publish is two: status has no index, so the second SELECT ... FOR     *)
(* UPDATE locks every version and waits for whoever holds one.             *)
(***************************************************************************)
EXTENDS Naturals, Sequences, FiniteSetsExt

CONSTANTS
  Sets,        \* rule sets
  Users,       \* sessions: applicant owners, and ingestion, which enqueues
  Contents,    \* what a version may say
  Complete,    \* contents whose enabled weights add up to 100
  MaxVersions, \* bound: versions drafted
  MaxBatches,  \* bound: batches queued
  NoValue      \* SQL NULL

ASSUME CompleteAssumption == Complete \subseteq Contents
ASSUME BoundsAssumption == MaxVersions \in Nat /\ MaxBatches \in Nat
ASSUME NoValueAssumption == NoValue \notin Nat

VARIABLES
  version,  \* table evaluation_rule_versions, by id
  batch,    \* rule_version_id and rule_snapshot of each batch
  session   \* each user's request: its snapshot and the row it holds

vars == <<version, batch, session>>

Version ==
  [set: Sets, number: Nat \ {0}, content: Contents,
   status: {"draft", "published", "retired"}]

Batch == [rule: Nat \ {0}, content: Contents]

(* locked: the version row the transaction holds.                          *)
Session ==
  [pc: {"away", "asked", "publishing"}, view: Seq(Version),
   locked: Nat \cup {NoValue}]

Away == [pc |-> "away", view |-> <<>>, locked |-> NoValue]

Init ==
  /\ version = <<>>
  /\ batch = <<>>
  /\ session = [u \in Users |-> Away]

Published(v) == {i \in DOMAIN v : v[i].status = "published"}

NumbersOf(v, s) == {v[i].number : i \in {j \in DOMAIN v : v[j].set = s}}

Free(i) == \A u \in Users : session[u].locked # i

(* The end of a request, by commit or rollback.                            *)
Answered(u) == session' = [session EXCEPT ![u] = Away]

-------------------------------------------------------------------------------
(* Requests.                                                               *)

(* get_current_user, or the BEGIN of an ingestion.                         *)
Open(u) ==
  /\ session[u].pc = "away"
  /\ session' = [session EXCEPT ![u] = [Away EXCEPT !.pc = "asked", !.view = version]]
  /\ UNCHANGED <<version, batch>>

(* Variant: a new set starts with 0.                                       *)
NextNumberFromZero(u, s) ==
  Max({n + 1 : n \in NumbersOf(session[u].view, s)} \cup {0})

(* max(version_number) + 1, by a plain SELECT although the set is locked;   *)
(* a new set starts with 1.                                                *)
NextNumber(u, s) == Max(NumbersOf(session[u].view, s) \cup {0}) + 1

(* Variant: the table has no unique constraint.                            *)
NeverTaken(u, s) == FALSE

(* UNIQUE (rule_set_id, version_number).                                   *)
Taken(u, s) == NextNumber(u, s) \in NumbersOf(version, s)

(* The request names a set that has versions already, or creates one.      *)
Named(u, s) == NumbersOf(session[u].view, s) # {} \/ NumbersOf(version, s) = {}

CreateDraft(u, s) ==
  /\ session[u].pc = "asked"
  /\ Named(u, s)
  /\ Len(version) < MaxVersions
  /\ ~Taken(u, s)
  /\ \E c \in Contents :
       version' = Append(version, [set |-> s, number |-> NextNumber(u, s),
                                   content |-> c, status |-> "draft"])
  /\ Answered(u)
  /\ UNCHANGED batch

(* The insert breaks the constraint: another draft of the set was           *)
(* committed since the snapshot.                                           *)
DraftCollides(u, s) ==
  /\ session[u].pc = "asked"
  /\ Named(u, s)
  /\ Taken(u, s)
  /\ Answered(u)
  /\ UNCHANGED <<version, batch>>

(* Variant: any version may be edited.                                     *)
EditableAlways(i) == TRUE

(* RuleImmutableError otherwise.                                           *)
Editable(i) == version[i].status = "draft"

UpdateDraft(u, i) ==
  /\ session[u].pc = "asked"
  /\ Free(i)
  /\ Editable(i)
  /\ \E c \in Contents : version' = [version EXCEPT ![i].content = c]
  /\ Answered(u)
  /\ UNCHANGED batch

Retire(u, i) ==
  /\ session[u].pc = "asked"
  /\ Free(i)
  /\ version[i].status = "published"
  /\ version' = [version EXCEPT ![i].status = "retired"]
  /\ Answered(u)
  /\ UNCHANGED batch

(* publish, until the scan: the draft is locked and its weights add up.    *)
LockDraft(u, i) ==
  /\ session[u].pc = "asked"
  /\ Free(i)
  /\ version[i].status = "draft"
  /\ version[i].content \in Complete
  /\ session' = [session EXCEPT ![u].pc = "publishing", ![u].locked = i]
  /\ UNCHANGED <<version, batch>>

(* Variant: the published versions are read without FOR UPDATE.            *)
InForceInView(u) == Published(session[u].view)

(* The versions to retire, read under the scan's locks.                    *)
InForce(u) == Published(version)

OthersHold(u) == \E other \in Users \ {u} : session[other].locked # NoValue

(* The scan, the change of all statuses and the commit.                    *)
Publish(u) ==
  /\ session[u].pc = "publishing"
  /\ ~OthersHold(u)
  /\ version' = [i \in DOMAIN version |->
       IF i = session[u].locked THEN [version[i] EXCEPT !.status = "published"]
       ELSE IF i \in InForce(u) THEN [version[i] EXCEPT !.status = "retired"]
       ELSE version[i]]
  /\ Answered(u)
  /\ UNCHANGED batch

(* Each of two publishers holds its draft and waits for the other's: InnoDB *)
(* ends one with an error.                                                 *)
DeadlockVictim(u) ==
  /\ session[u].pc = "publishing"
  /\ OthersHold(u)
  /\ Answered(u)
  /\ UNCHANGED <<version, batch>>

(* get_active_version, a plain SELECT.                                     *)
RuleFor(view) == Published(view)

(* enqueue: the batch copies the version as the snapshot has it, although   *)
(* it may have been retired since.                                         *)
Enqueue(u) ==
  /\ session[u].pc = "asked"
  /\ Len(batch) < MaxBatches
  /\ \E i \in RuleFor(session[u].view) :
       batch' = Append(batch, [rule |-> i, content |-> session[u].view[i].content])
  /\ Answered(u)
  /\ UNCHANGED version

(* RuleNotFound, RuleImmutableError, RuleValidationError, or no published   *)
(* rule to enqueue with.                                                   *)
Refuse(u) ==
  /\ session[u].pc = "asked"
  /\ Answered(u)
  /\ UNCHANGED <<version, batch>>

-------------------------------------------------------------------------------
Request(u) ==
  \/ Open(u)
  \/ \E s \in Sets : CreateDraft(u, s) \/ DraftCollides(u, s)
  \/ \E i \in DOMAIN version : UpdateDraft(u, i) \/ Retire(u, i) \/ LockDraft(u, i)
  \/ Publish(u)
  \/ DeadlockVictim(u)
  \/ Enqueue(u)
  \/ Refuse(u)

Next == \E u \in Users : Request(u)

Spec == Init /\ [][Next]_vars

-------------------------------------------------------------------------------
(* Properties.                                                             *)

(* Versions, batches and requests have their shapes.                       *)
TypeOK ==
  /\ version \in Seq(Version)
  /\ batch \in Seq(Batch)
  /\ session \in [Users -> Session]

(* Stage-2 design 3.1: a change is a copy "as the next version", so the     *)
(* numbers of a set are 1, 2, 3, ... in the order of creation, although    *)
(* each is computed from a snapshot that may be out of date.               *)
NumbersFollow ==
  \A i \in DOMAIN version :
    version[i].number =
      Cardinality({j \in 1..i : version[j].set = version[i].set})

(* Stage-2 design 3.2: later changes of rules do not change evaluations:    *)
(* what a batch was told to evaluate by is what its rule version says, now  *)
(* and later, and that version was complete and in force, although the      *)
(* batch read it from a snapshot while others edited, published and        *)
(* retired.                                                                *)
BatchesKeepRules ==
  \A b \in DOMAIN batch :
    LET rule == version[batch[b].rule]
    IN  /\ rule.content = batch[b].content
        /\ rule.status # "draft"
        /\ rule.content \in Complete

(* The promise: one version in force, none edited once it was.             *)
Book == INSTANCE RuleBook WITH
  active <- Published(version),
  content <- [i \in {j \in DOMAIN version : version[j].status # "draft"} |->
                version[i].content]

(* Drafts, publishers that cross each other and retirements keep it.        *)
OneRuleInForce == Book!Spec
===============================================================================
