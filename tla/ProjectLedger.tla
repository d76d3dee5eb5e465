----------------------------- MODULE ProjectLedger -----------------------------
(***************************************************************************)
(* One project of the ledger: its row, its status history and its first-   *)
(* status notifications, written by ProjectService (app/modules/projects/  *)
(* service.py, workflow.py, permissions.py) for users who work from pages  *)
(* that may be out of date.  Projects share no rows, so one is enough.     *)
(*                                                                         *)
(* A write request is two steps.  Its transaction opens when the session   *)
(* cookie is checked, and under MySQL's REPEATABLE READ that fixes what    *)
(* its plain SELECTs see; only later does it lock the project row, which   *)
(* it then reads as it is.  Other requests may commit in between.          *)
(***************************************************************************)
EXTENDS Naturals, Sequences

CONSTANTS
  Users,       \* active accounts
  Owners,      \* those with the role applicant_owner
  Liaison,     \* the liaison chosen when the project was created
  LastDay,     \* bound: the calendar ends here
  MaxVersion,  \* bound: no write beyond this version
  NoValue,     \* SQL NULL
  Unset        \* a field that a PATCH request does not mention

ASSUME UsersAssumption == Owners \subseteq Users /\ Liaison \in Users
ASSUME BoundsAssumption == LastDay \in Nat \ {0} /\ MaxVersion \in Nat
VARIABLES
  project,   \* the row in table projects
  history,   \* table project_status_history
  announced, \* first-status rows in notification_deliveries: status -> date
  session,   \* what each user's browser and request know
  today,     \* date.today() of the server
  refused    \* constraints that have made the database refuse a commit

vars == <<project, history, announced, session, today, refused>>

Statuses ==
  {"pending_application", "submitted", "succeeded", "rejected", "terminated"}
RESULT_STATUSES == {"succeeded", "rejected"}
Announceable == {"submitted", "succeeded"}

Nullable(S) == S \cup {NoValue}
Days == 1..LastDay
Notes == {"text"}

ASSUME NoValueAssumption ==
  /\ NoValue \notin Statuses \cup Notes \cup Nat
  /\ Unset \notin Users \cup Notes \cup Nat /\ Unset # NoValue

Project ==
  [status: Statuses, submittedOn: Nullable(Days), resultOn: Nullable(Days),
   resultNote: Nullable(Notes), terminationNote: Nullable(Notes),
   liaison: Users, version: Nat]

Entry ==
  [action: {"created", "transitioned", "corrected"},
   previous: Nullable(Statuses), new: Statuses, relatedDate: Nullable(Days),
   from: Nat, to: Nat]

Session ==
  [pc: {"away", "viewing", "requested"}, version: Nat, snapshot: Nat,
   outdated: BOOLEAN]

Away == [pc |-> "away", version |-> 0, snapshot |-> 0, outdated |-> FALSE]

(* Variant: a status that the workflow has given up.                       *)
NewProjectInPreparation ==
  [status |-> "preparation", submittedOn |-> NoValue, resultOn |-> NoValue,
   resultNote |-> NoValue, terminationNote |-> NoValue, liaison |-> Liaison,
   version |-> 1]

(* convert_policy: the row and its first history entry.                    *)
NewProject ==
  [status |-> "pending_application", submittedOn |-> NoValue,
   resultOn |-> NoValue, resultNote |-> NoValue, terminationNote |-> NoValue,
   liaison |-> Liaison, version |-> 1]

Created ==
  [action |-> "created", previous |-> NoValue, new |-> "pending_application",
   relatedDate |-> NoValue, from |-> 0, to |-> 1]

Init ==
  /\ project = NewProject
  /\ history = <<Created>>
  /\ announced = [s \in Announceable |-> NoValue]
  /\ session = [u \in Users |-> Away]
  /\ today = 1
  /\ refused = {}

-------------------------------------------------------------------------------
(* What the database enforces: the CHECK constraints of table projects that *)
(* a row breaks.                                                           *)
CheckConstraints ==
  {"result_status_requires_result_on", "submission_status_requires_submitted_on",
   "result_requires_submission_order", "terminated_requires_note"}

Broken(p) ==
  {c \in CheckConstraints :
     CASE c = "result_status_requires_result_on" ->
            p.status \in RESULT_STATUSES /\ p.resultOn = NoValue
       [] c = "submission_status_requires_submitted_on" ->
            /\ p.status \in {"submitted", "succeeded", "rejected"}
            /\ p.submittedOn = NoValue
       [] c = "result_requires_submission_order" ->
            /\ p.resultOn # NoValue
            /\ p.submittedOn = NoValue \/ p.resultOn < p.submittedOn
       [] c = "terminated_requires_note" ->
            p.status = "terminated" /\ p.terminationNote = NoValue}

(* enqueue looks for the event with a plain SELECT, which sees what was     *)
(* committed when the request opened its transaction.                      *)
SeesAnnounced(u, s) == \E i \in 1..session[u].snapshot : history[i].new = s

(* The unique event_key: the insert of an event that exists, unseen.       *)
Duplicated(u, s) ==
  IF s \in Announceable /\ announced[s] # NoValue /\ ~SeesAnnounced(u, s)
    THEN {"event_key"} ELSE {}

-------------------------------------------------------------------------------
(* Pages and requests.                                                     *)

(* GET /api/projects/{id}.                                                 *)
View(u) ==
  /\ session[u].pc # "requested"
  /\ session' = [session EXCEPT ![u] =
       [Away EXCEPT !.pc = "viewing", !.version = project.version]]
  /\ UNCHANGED <<project, history, announced, today, refused>>

(* A write request arrives with the version of the page as expected_version; *)
(* get_current_user runs the transaction's first SELECT.                   *)
Submit(u) ==
  /\ session[u].pc = "viewing"
  /\ session' = [session EXCEPT ![u].pc = "requested",
                                ![u].snapshot = Len(history)]
  /\ UNCHANGED <<project, history, announced, today, refused>>

(* Variant: a write that leaves the version alone.                         *)
SameVersion(p) == p.version

NextVersion(p) == p.version + 1

(* The page after the answer: the returned detail, or the page as it was.  *)
Answered(u, version) ==
  [v \in Users |->
     IF v = u THEN [Away EXCEPT !.pc = "viewing", !.version = version]
              ELSE [session[v] EXCEPT !.outdated = session[v].pc # "away"]]

(* A stale version, a missing right or an invalid payload: rolled back.    *)
Reject(u) ==
  /\ session[u].pc = "requested"
  /\ session' = [session EXCEPT ![u].pc = "viewing", ![u].snapshot = 0]
  /\ UNCHANGED <<project, history, announced, today, refused>>

(* capabilities_for: the owners and the present liaison.                   *)
CanWrite(u) == u \in Owners \/ u = project.liaison

(* The row is locked; version and rights are those of the locked row.      *)
Admitted(u) ==
  /\ session[u].pc = "requested"
  /\ session[u].version = project.version
  /\ project.version < MaxVersion
  /\ CanWrite(u)

(* db.commit: all of it, or nothing when a constraint is broken; then the   *)
(* exception is not a ProjectError and the request ends with status 500.   *)
Store(u, row, entries, event, broken) ==
  IF broken = {}
    THEN /\ project' = row
         /\ history' = history \o entries
         /\ announced' = event
         /\ session' = Answered(u, row.version)
         /\ UNCHANGED <<today, refused>>
    ELSE /\ refused' = refused \cup broken
         /\ session' = [session EXCEPT ![u].pc = "viewing", ![u].snapshot = 0]
         /\ UNCHANGED <<project, history, announced, today>>

-------------------------------------------------------------------------------
(* PATCH /api/projects/{id}.  Name, deadline, members and progress note     *)
(* take part in no rule: a request with only those has every field unset.  *)
Changes ==
  [liaison: Users \cup {Unset}, submittedOn: Nullable(Days) \cup {Unset},
   resultOn: Nullable(Days) \cup {Unset}, resultNote: Nullable(Notes) \cup {Unset},
   terminationNote: Nullable(Notes) \cup {Unset}]

Given(new, old) == IF new = Unset THEN old ELSE new

Updated(ch) ==
  [project EXCEPT !.liaison = Given(ch.liaison, @),
                  !.submittedOn = Given(ch.submittedOn, @),
                  !.resultOn = Given(ch.resultOn, @),
                  !.resultNote = Given(ch.resultNote, @),
                  !.terminationNote = Given(ch.terminationNote, @),
                  !.version = NextVersion(project)]

(* assert_update_fields_allowed: a liaison may not name a new liaison.     *)
FieldsAllowed(u, ch) == u \in Owners \/ ch.liaison = Unset

(* _validate_update.                                                       *)
ValidUpdate(ch) ==
  LET p == Updated(ch)
  IN  /\ ch.resultOn # Unset \/ ch.resultNote # Unset
           => project.status \in RESULT_STATUSES
      /\ ch.terminationNote # Unset => project.status = "terminated"
      /\ p.status \in {"submitted", "succeeded", "rejected"} => p.submittedOn # NoValue
      /\ p.submittedOn # NoValue => p.submittedOn <= today
      /\ p.resultOn # NoValue =>
           /\ p.resultOn <= today
           /\ p.submittedOn # NoValue
           /\ p.submittedOn <= p.resultOn
      /\ p.status \in RESULT_STATUSES => p.resultOn # NoValue
      /\ p.status = "terminated" => p.terminationNote # NoValue

UpdateProject(u, ch) ==
  /\ Admitted(u)
  /\ FieldsAllowed(u, ch)
  /\ ValidUpdate(ch)
  /\ Store(u, Updated(ch), <<>>, announced, Broken(Updated(ch)))

-------------------------------------------------------------------------------
(* Status changes: apply_transition, apply_correction and what              *)
(* _persist_status_change does with their result.                          *)

(* Variant: a project can be terminated at any time.                       *)
TransitionsWithTermination ==
  [s \in Statuses |->
     CASE s = "pending_application" -> {"submitted", "terminated"}
       [] s = "submitted" -> {"succeeded", "rejected", "terminated"}
       [] s \in RESULT_STATUSES -> {"terminated"}
       [] OTHER -> {}]

NORMAL_TRANSITIONS ==
  [s \in Statuses |->
     CASE s = "pending_application" -> {"submitted", "terminated"}
       [] s = "submitted" -> {"succeeded", "rejected", "terminated"}
       [] OTHER -> {}]

DateOf(s, row) == IF s = "submitted" THEN row.submittedOn ELSE row.resultOn

(* Variant: every time the status is entered is announced anew.            *)
WithEveryAnnouncement(u, row) ==
  IF row.status \in Announceable
    THEN [announced EXCEPT ![row.status] = DateOf(row.status, row)]
    ELSE announced

(* enqueue_project_first_status keeps the event that exists.               *)
WithAnnouncement(u, row) ==
  IF row.status \in Announceable /\ ~SeesAnnounced(u, row.status)
    THEN [announced EXCEPT ![row.status] = DateOf(row.status, row)]
    ELSE announced

(* Variant: previous status and version are read after the assignment.     *)
EntryAfterAssignment(action, row, relatedDate) ==
  [action |-> action, previous |-> row.status, new |-> row.status,
   relatedDate |-> relatedDate, from |-> row.version, to |-> row.version]

EntryFor(action, row, relatedDate) ==
  [action |-> action, previous |-> project.status, new |-> row.status,
   relatedDate |-> relatedDate, from |-> project.version, to |-> row.version]

Persist(u, action, changed, relatedDate) ==
  LET row == [changed EXCEPT !.version = NextVersion(project)]
  IN  Store(u, row, <<EntryFor(action, row, relatedDate)>>,
            WithAnnouncement(u, row),
            Broken(row) \cup Duplicated(u, row.status))

Transition(u, target, changed, relatedDate) ==
  /\ Admitted(u)
  /\ target \in NORMAL_TRANSITIONS[project.status]
  /\ Persist(u, "transitioned", [changed EXCEPT !.status = target], relatedDate)

TransitionToSubmitted(u, day) ==
  /\ day <= today
  /\ Transition(u, "submitted",
       [project EXCEPT !.submittedOn = day, !.resultOn = NoValue,
                       !.resultNote = NoValue, !.terminationNote = NoValue],
       day)

ValidResultOn(day) ==
  project.submittedOn # NoValue /\ project.submittedOn <= day /\ day <= today

WithResult(day, note) ==
  [project EXCEPT !.resultOn = day, !.resultNote = note,
                  !.terminationNote = NoValue]

TransitionToResult(u, target, day, note) ==
  /\ target \in RESULT_STATUSES
  /\ ValidResultOn(day)
  /\ Transition(u, target, WithResult(day, note), day)

TransitionToTerminated(u) ==
  \E note \in Notes :
    Transition(u, "terminated",
      [project EXCEPT !.resultOn = NoValue, !.resultNote = NoValue,
                      !.terminationNote = note],
      NoValue)

Correct(u, target, changed, relatedDate) ==
  /\ Admitted(u)
  /\ Persist(u, "corrected", [changed EXCEPT !.status = target], relatedDate)

(* Variant: only the note of the status that is left is cleared.           *)
WithoutTerminationNote == [project EXCEPT !.terminationNote = NoValue]

WithoutResult ==
  [project EXCEPT !.resultOn = NoValue, !.resultNote = NoValue,
                  !.terminationNote = NoValue]

(* _pre_termination_status: the latest termination that the request's       *)
(* transaction sees, at most one.                                          *)
LatestTermination(u) ==
  {i \in 1..session[u].snapshot :
     /\ history[i].new = "terminated"
     /\ \A j \in (i + 1)..session[u].snapshot : history[j].new # "terminated"}

CorrectTerminated(u) ==
  /\ project.status = "terminated"
  /\ \E i \in LatestTermination(u) :
       Correct(u, history[i].previous, WithoutResult, NoValue)

CorrectToSubmitted(u) ==
  /\ project.status \in RESULT_STATUSES
  /\ Correct(u, "submitted", WithoutResult, NoValue)

CorrectToResult(u, target, day, note) ==
  /\ project.status \in RESULT_STATUSES
  /\ target \in RESULT_STATUSES \ {project.status}
  /\ ValidResultOn(day)
  /\ Correct(u, target, WithResult(day, note), day)

NextDay ==
  /\ today < LastDay
  /\ today' = today + 1
  /\ UNCHANGED <<project, history, announced, session, refused>>

-------------------------------------------------------------------------------
Write(u) ==
  \/ \E ch \in Changes : UpdateProject(u, ch)
  \/ \E day \in Days : TransitionToSubmitted(u, day)
  \/ \E target \in RESULT_STATUSES, day \in Days, note \in Nullable(Notes) :
       TransitionToResult(u, target, day, note)
  \/ TransitionToTerminated(u)
  \/ CorrectTerminated(u)
  \/ CorrectToSubmitted(u)
  \/ \E target \in RESULT_STATUSES, day \in Days, note \in Nullable(Notes) :
       CorrectToResult(u, target, day, note)

Next ==
  \/ \E u \in Users : View(u) \/ Submit(u) \/ Reject(u) \/ Write(u)
  \/ NextDay

Spec == Init /\ [][Next]_vars

-------------------------------------------------------------------------------
(* Properties.                                                             *)

(* Rows, history, pages and the calendar have their shapes.                *)
TypeOK ==
  /\ project \in Project
  /\ history \in Seq(Entry)
  /\ announced \in [Announceable -> Nullable(Days)]
  /\ session \in [Users -> Session]
  /\ today \in Days
  /\ refused \subseteq CheckConstraints \cup {"event_key"}

(* The history is the story of the row: it starts with the creation, each   *)
(* entry continues the status and a later version of the one before, and   *)
(* the last one ends in the status the row has.                            *)
HistoryChain ==
  /\ Len(history) >= 1
  /\ history[1] = Created
  /\ \A i \in 2..Len(history) :
       /\ history[i].previous = history[i - 1].new
       /\ history[i - 1].to <= history[i].from
       /\ history[i].to = history[i].from + 1
  /\ history[Len(history)].new = project.status
  /\ history[Len(history)].to <= project.version

(* The group is told of the first submission and the first success, each    *)
(* once, if and only if the project ever got there, and with the date that *)
(* it was first entered with, whatever was corrected afterwards.           *)
AnnouncesFirst ==
  \A s \in Announceable :
    /\ announced[s] # NoValue <=> \E i \in 1..Len(history) : history[i].new = s
    /\ \A i \in 1..Len(history) :
         /\ history[i].new = s
         /\ \A j \in 1..(i - 1) : history[j].new # s
         => announced[s] = history[i].relatedDate

(* A page whose version is the row's has missed no write, and a request     *)
(* that passes the version comparison has the whole history in its         *)
(* snapshot although it opened its transaction before it locked the row:   *)
(* the comparison is enough against lost updates and old histories.        *)
VersionDetectsWrites ==
  \A u \in Users :
    /\ session[u].pc # "away" =>
         (session[u].outdated <=> session[u].version # project.version)
    /\ session[u].pc = "requested" /\ session[u].version = project.version
         => session[u].snapshot = Len(history)

(* Section 7.2: what a correction makes inapplicable is cleared, on every   *)
(* path and whatever edits came in between; and the checks in Python leave *)
(* the database only one constraint to refuse, a restored project without  *)
(* its submission date (an edit may clear it during a termination).        *)
FieldsFitStatus ==
  /\ project.status \notin RESULT_STATUSES =>
       project.resultOn = NoValue /\ project.resultNote = NoValue
  /\ project.status # "terminated" => project.terminationNote = NoValue
  /\ refused \subseteq {"submission_status_requires_submitted_on"}

(* The ledger follows the life that the design draws for a project.        *)
Workflow == INSTANCE ProjectWorkflow WITH
  status <- project.status,
  resume <- IF project.status = "terminated"
              THEN history[Len(history)].previous ELSE "none",
  announced <- {s \in Announceable : announced[s] # NoValue}

FollowsWorkflow == Workflow!Spec
===============================================================================
