-------------------------- MODULE ProjectLedgerProofs --------------------------
(***************************************************************************)
(* Proofs about ProjectLedger, for any users, any calendar and any number  *)
(* of writes.                                                              *)
(***************************************************************************)
EXTENDS ProjectLedger, SequenceTheorems, TLAPS

-------------------------------------------------------------------------------
(* The inductive invariant.                                                *)

SubmissionDate == "submission_status_requires_submitted_on"

(* Only a project that can be restored to work was ever terminated.         *)
TerminationsUndoable ==
  \A i \in 1..Len(history) :
    history[i].new = "terminated" =>
      i # 1 /\ history[i].previous \in {"pending_application", "submitted"}

(* A result was preceded by a submission, which was announced.              *)
ResultsFollowSubmission ==
  project.status \in RESULT_STATUSES => announced["submitted"] # NoValue

(* No page shows a version that is still to come.                          *)
PagesPast ==
  \A u \in Users : session[u].pc # "away" => session[u].version <= project.version

(* All of it, for a row that breaks no constraint of the database.          *)
IInv ==
  /\ TypeOK
  /\ HistoryChain
  /\ AnnouncesFirst
  /\ VersionDetectsWrites
  /\ FieldsFitStatus
  /\ Broken(project) = {}
  /\ TerminationsUndoable
  /\ ResultsFollowSubmission
  /\ PagesPast

-------------------------------------------------------------------------------
(* Lists, dates and pages.                                                 *)

(* An entry added to a history comes last and moves none of the others.     *)
LEMMA Appended ==
  ASSUME NEW S, NEW h \in Seq(S), NEW e \in S
  PROVE  /\ h \o <<e>> \in Seq(S)
         /\ Len(h \o <<e>>) = Len(h) + 1
         /\ \A i \in 1..Len(h) : (h \o <<e>>)[i] = h[i]
         /\ (h \o <<e>>)[Len(h) + 1] = e
<1>1. <<e>> \in Seq(S) /\ Len(<<e>>) = 1 /\ <<e>>[1] = e
  OBVIOUS
<1>2. h \o <<e>> \in Seq(S) /\ Len(h \o <<e>>) = Len(h) + 1
  BY <1>1, ConcatProperties
<1>3. \A i \in 1..Len(h) : (h \o <<e>>)[i] = h[i]
  BY <1>1, ConcatProperties
<1>4. (h \o <<e>>)[Len(h) + 1] = e
  BY <1>1, ConcatProperties
<1> QED BY <1>2, <1>3, <1>4

(* The values of the model keep apart from SQL NULL.                        *)
LEMMA NotNull ==
  /\ \A s \in Statuses : s # NoValue
  /\ \A d \in Days : d # NoValue
  /\ \A n \in Notes : n # NoValue
<1>1. \A s \in Statuses : s # NoValue
  BY NoValueAssumption DEF Statuses
<1>2. \A d \in Days : d # NoValue
  BY NoValueAssumption, BoundsAssumption DEF Days
<1>3. \A n \in Notes : n # NoValue
  BY NoValueAssumption DEF Notes
<1> QED BY <1>1, <1>2, <1>3

(* An admitted request has the whole history in its snapshot, so that it    *)
(* sees an announcement exactly when there is one, and writes none twice.  *)
LEMMA AdmittedSeesAll ==
  ASSUME IInv, NEW u \in Users, Admitted(u)
  PROVE  /\ session[u].snapshot = Len(history)
         /\ \A s \in Announceable : SeesAnnounced(u, s) <=> announced[s] # NoValue
         /\ \A s : Duplicated(u, s) = {}
<1>1. session[u].snapshot = Len(history)
  BY DEF IInv, VersionDetectsWrites, Admitted
<1>2. \A s \in Announceable : SeesAnnounced(u, s) <=> announced[s] # NoValue
  BY <1>1 DEF IInv, AnnouncesFirst, SeesAnnounced
<1>3. \A s : Duplicated(u, s) = {}
  BY <1>2 DEF Duplicated
<1> QED BY <1>1, <1>2, <1>3

(* A write makes every other page outdated and answers its own with the new *)
(* version; no page is up to date by accident.                             *)
LEMMA PagesAfterWrite ==
  ASSUME IInv, NEW u \in Users,
         project'.version = project.version + 1,
         session' = Answered(u, project.version + 1)
  PROVE  /\ session' \in [Users -> Session]
         /\ VersionDetectsWrites'
         /\ PagesPast'
<1>1. project.version \in Nat /\ session \in [Users -> Session]
  BY DEF IInv, TypeOK, Project
<1>2. session' \in [Users -> Session]
  <2>1. ASSUME NEW v \in Users, v # u  PROVE session'[v] \in Session
    <3>1. session[v] \in Session
      BY <1>1
    <3>2. session'[v] = [session[v] EXCEPT !.outdated = session[v].pc # "away"]
      BY <2>1 DEF Answered
    <3> QED BY <3>1, <3>2 DEF Session
  <2>2. session'[u] \in Session
    <3>1. session'[u] = [Away EXCEPT !.pc = "viewing", !.version = project.version + 1]
      BY DEF Answered
    <3>2. Away \in Session
      BY DEF Away, Session
    <3>3. project.version + 1 \in Nat
      BY <1>1
    <3> QED BY <3>1, <3>2, <3>3 DEF Session
  <2>3. session' = [v \in Users |-> session'[v]]
    BY DEF Answered
  <2> QED BY <2>1, <2>2, <2>3
<1>3. session'[u].pc = "viewing" /\ session'[u].version = project'.version
      /\ session'[u].outdated = FALSE
  BY <1>1 DEF Answered, Away
<1>4. ASSUME NEW v \in Users \ {u}
      PROVE  /\ session'[v].pc = session[v].pc
             /\ session'[v].version = session[v].version
             /\ session'[v].outdated = (session[v].pc # "away")
  <2>1. session[v] \in Session
    BY <1>1
  <2>2. session'[v] = [session[v] EXCEPT !.outdated = session[v].pc # "away"]
    BY DEF Answered
  <2> QED BY <2>1, <2>2 DEF Session
<1>5. \A v \in Users \ {u} : session[v].pc # "away" =>
        /\ session[v].version \in Nat
        /\ session[v].version <= project.version
  BY <1>1 DEF IInv, PagesPast, Session
<1>6. PagesPast'
  BY <1>1, <1>3, <1>4, <1>5 DEF PagesPast
<1>7. VersionDetectsWrites'
  <2>1. \A v \in Users \ {u} : session'[v].pc # "away" =>
          session'[v].version # project'.version
    BY <1>1, <1>4, <1>5
  <2>2. \A v \in Users \ {u} : session'[v].pc # "away" => session'[v].outdated
    BY <1>4, Zenon
  <2> QED BY <1>3, <2>1, <2>2 DEF VersionDetectsWrites
<1> QED BY <1>2, <1>6, <1>7

(* A refused or rejected request leaves its page as it was.                 *)
LEMMA PagesAfterRefusal ==
  ASSUME IInv, NEW u \in Users, session[u].pc = "requested",
         session' = [session EXCEPT ![u].pc = "viewing", ![u].snapshot = 0],
         UNCHANGED <<project, history>>
  PROVE  /\ session' \in [Users -> Session]
         /\ VersionDetectsWrites'
         /\ PagesPast'
<1>1. session \in [Users -> Session]
  BY DEF IInv, TypeOK
<1>2. session' \in [Users -> Session]
  BY <1>1 DEF Session
<1>3. \A v \in Users : session'[v].pc = "requested" => session'[v] = session[v]
  BY <1>1 DEF Session
<1>4. \A v \in Users :
        /\ session'[v].version = session[v].version
        /\ session'[v].outdated = session[v].outdated
        /\ session'[v].pc # "away" => session[v].pc # "away"
  BY <1>1 DEF Session
<1>5. PagesPast'
  BY <1>4 DEF IInv, PagesPast
<1>6. VersionDetectsWrites'
  BY <1>3, <1>4 DEF IInv, VersionDetectsWrites
<1> QED BY <1>2, <1>5, <1>6

-------------------------------------------------------------------------------
(* Status changes.                                                         *)

(* The entry of a status change continues the story of the row.             *)
LEMMA ChainContinues ==
  ASSUME IInv, NEW row \in Project, NEW e \in Entry,
         row.version = project.version + 1,
         e.previous = project.status, e.new = row.status,
         e.from = project.version, e.to = row.version,
         project' = row, history' = history \o <<e>>
  PROVE  history' \in Seq(Entry) /\ HistoryChain'
<1>1. history \in Seq(Entry) /\ project \in Project
  BY DEF IInv, TypeOK
<1>2. /\ history' \in Seq(Entry)
      /\ Len(history') = Len(history) + 1
      /\ \A i \in 1..Len(history) : history'[i] = history[i]
      /\ history'[Len(history) + 1] = e
  BY <1>1, Appended
<1>3. /\ Len(history) \in Nat
      /\ Len(history) >= 1
      /\ project.version \in Nat
      /\ history[Len(history)].new = project.status
      /\ history[Len(history)].to <= project.version
      /\ history[1] = Created
  BY <1>1 DEF IInv, HistoryChain, Project
<1>4. ASSUME NEW i \in 2..Len(history)
      PROVE  /\ history[i].previous = history[i - 1].new
             /\ history[i - 1].to <= history[i].from
             /\ history[i].to = history[i].from + 1
  BY DEF IInv, HistoryChain
<1>5. ASSUME NEW i \in 2..Len(history')
      PROVE  /\ history'[i].previous = history'[i - 1].new
             /\ history'[i - 1].to <= history'[i].from
             /\ history'[i].to = history'[i].from + 1
  <2>1. CASE i \in 2..Len(history)
    <3>1. i - 1 \in 1..Len(history) /\ i \in 1..Len(history)
      BY <2>1, <1>3
    <3> QED BY <1>2, <1>4, <2>1, <3>1
  <2>2. CASE i = Len(history) + 1
    <3>1. i - 1 = Len(history) /\ Len(history) \in 1..Len(history)
      BY <2>2, <1>3
    <3> QED BY <1>2, <1>3, <2>2, <3>1
  <2> QED BY <1>2, <1>3, <2>1, <2>2
<1>6. history'[1] = Created /\ Len(history') >= 1
  BY <1>2, <1>3
<1>7. history'[Len(history')].new = project'.status
      /\ history'[Len(history')].to <= project'.version
  BY <1>2, <1>3
<1> QED BY <1>2, <1>5, <1>6, <1>7 DEF HistoryChain

(* Only work that has no result is terminated, and the new entry says so.   *)
LEMMA UndoableContinues ==
  ASSUME IInv, NEW e \in Entry, history' = history \o <<e>>,
         e.new = "terminated" => e.previous \in {"pending_application", "submitted"}
  PROVE  TerminationsUndoable'
<1>1. history \in Seq(Entry) /\ Len(history) >= 1
  BY DEF IInv, TypeOK, HistoryChain
<1>2. /\ Len(history') = Len(history) + 1
      /\ \A i \in 1..Len(history) : history'[i] = history[i]
      /\ history'[Len(history) + 1] = e
  BY <1>1, Appended
<1>3. SUFFICES ASSUME NEW i \in 1..Len(history'), history'[i].new = "terminated"
               PROVE  i # 1 /\ history'[i].previous \in {"pending_application", "submitted"}
  BY DEF TerminationsUndoable
<1>4. CASE i \in 1..Len(history)
  BY <1>2, <1>3, <1>4 DEF IInv, TerminationsUndoable
<1>5. CASE i = Len(history) + 1
  BY <1>1, <1>2, <1>3, <1>5
<1> QED BY <1>1, <1>2, <1>4, <1>5

(* A status that is entered for the first time is announced with the date   *)
(* of that entry, and no later entry touches what was announced.           *)
LEMMA AnnouncementsContinue ==
  ASSUME IInv, NEW e \in Entry, history' = history \o <<e>>,
         e.new \in Announceable /\ announced[e.new] = NoValue
           => e.relatedDate \in Days,
         announced' =
           IF e.new \in Announceable /\ announced[e.new] = NoValue
             THEN [announced EXCEPT ![e.new] = e.relatedDate] ELSE announced
  PROVE  /\ announced' \in [Announceable -> Nullable(Days)]
         /\ AnnouncesFirst'
         /\ \A s \in Announceable :
              announced'[s] # NoValue <=> announced[s] # NoValue \/ s = e.new
<1>1. /\ history \in Seq(Entry)
      /\ announced \in [Announceable -> Nullable(Days)]
      /\ Len(history) \in Nat
  BY DEF IInv, TypeOK
<1>2. /\ Len(history') = Len(history) + 1
      /\ \A i \in 1..Len(history) : history'[i] = history[i]
      /\ history'[Len(history) + 1] = e
  BY <1>1, Appended
<1>3. announced' \in [Announceable -> Nullable(Days)]
  BY <1>1 DEF Nullable
<1>4. ASSUME NEW s \in Announceable
      PROVE  announced'[s] = IF s = e.new /\ announced[s] = NoValue
                               THEN e.relatedDate ELSE announced[s]
  BY <1>1
<1>5. ASSUME NEW s \in Announceable
      PROVE  announced'[s] # NoValue <=> announced[s] # NoValue \/ s = e.new
  BY <1>4, NotNull
<1>6. ASSUME NEW s \in Announceable
      PROVE  announced[s] # NoValue <=> \E i \in 1..Len(history) : history[i].new = s
  BY DEF IInv, AnnouncesFirst
<1>7. ASSUME NEW s \in Announceable
      PROVE  announced'[s] # NoValue <=> \E i \in 1..Len(history') : history'[i].new = s
  <2>1. (\E i \in 1..Len(history') : history'[i].new = s)
          <=> (\E i \in 1..Len(history) : history[i].new = s) \/ e.new = s
    BY <1>1, <1>2
  <2> QED BY <1>5, <1>6, <2>1
<1>8. ASSUME NEW s \in Announceable, NEW i \in 1..Len(history'),
             history'[i].new = s, \A j \in 1..(i - 1) : history'[j].new # s
      PROVE  announced'[s] = history'[i].relatedDate
  <2>1. CASE i \in 1..Len(history)
    <3>1. \A j \in 1..(i - 1) : j \in 1..Len(history) /\ history[j].new # s
      BY <1>1, <1>2, <1>8, <2>1
    <3>2. history[i].new = s
      BY <1>2, <1>8, <2>1
    <3>3. announced[s] = history[i].relatedDate
      BY <2>1, <3>1, <3>2 DEF IInv, AnnouncesFirst
    <3>4. announced[s] # NoValue
      BY <1>6, <2>1, <3>2
    <3> QED BY <1>2, <1>4, <2>1, <3>3, <3>4
  <2>2. CASE i = Len(history) + 1
    <3>1. \A j \in 1..Len(history) : history[j].new # s
      BY <1>1, <1>2, <1>8, <2>2
    <3>2. announced[s] = NoValue
      BY <1>6, <3>1
    <3>3. e.new = s
      BY <1>2, <1>8, <2>2
    <3> QED BY <1>2, <1>4, <2>2, <3>2, <3>3
  <2> QED BY <1>1, <1>2, <2>1, <2>2
<1> QED BY <1>3, <1>5, <1>7, <1>8 DEF AnnouncesFirst

(* What FieldsFitStatus asks of a row.                                      *)
FitsStatus(p) ==
  /\ p.status \notin RESULT_STATUSES => p.resultOn = NoValue /\ p.resultNote = NoValue
  /\ p.status # "terminated" => p.terminationNote = NoValue

(* The next version of a row differs in its version only, and breaks the    *)
(* same constraints.                                                       *)
LEMMA Versioned ==
  ASSUME NEW p \in Project, NEW v \in Nat, NEW row,
         row = [p EXCEPT !.version = v]
  PROVE  /\ row \in Project
         /\ row.version = v
         /\ row.status = p.status
         /\ DateOf(row.status, row) = DateOf(p.status, p)
         /\ Broken(row) = Broken(p)
         /\ FitsStatus(row) <=> FitsStatus(p)
<1>1. /\ row \in Project
      /\ row.version = v
  BY DEF Project
<1>2. /\ row.status = p.status
      /\ row.submittedOn = p.submittedOn
      /\ row.resultOn = p.resultOn
      /\ row.resultNote = p.resultNote
      /\ row.terminationNote = p.terminationNote
  BY DEF Project
<1>3. Broken(row) = Broken(p)
  BY <1>2, Zenon DEF Broken
<1>4. DateOf(row.status, row) = DateOf(p.status, p)
  BY <1>2 DEF DateOf
<1>5. FitsStatus(row) <=> FitsStatus(p)
  BY <1>2 DEF FitsStatus
<1> QED BY <1>1, <1>2, <1>3, <1>4, <1>5

(* What is written stays true while nothing is written.                     *)
LEMMA RecordsKept ==
  ASSUME IInv, UNCHANGED <<project, history, announced>>
  PROVE  /\ HistoryChain'
         /\ AnnouncesFirst'
         /\ TerminationsUndoable'
         /\ ResultsFollowSubmission'
         /\ (Broken(project) = {})'
<1>1. HistoryChain'
  BY DEF IInv, HistoryChain
<1>2. AnnouncesFirst'
  BY DEF IInv, AnnouncesFirst
<1>3. TerminationsUndoable'
  BY DEF IInv, TerminationsUndoable
<1>4. ResultsFollowSubmission'
  BY DEF IInv, ResultsFollowSubmission
<1>5. (Broken(project) = {})'
  BY Zenon DEF IInv, Broken
<1> QED BY <1>1, <1>2, <1>3, <1>4, <1>5

(* The status stays, and with it all that is told of it.                    *)
Kept == UNCHANGED <<project.status, history, announced>>

(* The project enters a status: the entry says which it left, and all that  *)
(* was announced stays so.                                                 *)
Moves(s) ==
  /\ project'.status = s
  /\ history'[Len(history')].previous = project.status
  /\ \A t \in Announceable :
       announced'[t] # NoValue <=> announced[t] # NoValue \/ t = s

(* A status change that fits its status, breaks at most the constraint on   *)
(* the submission date and is dated where it is announced keeps the        *)
(* invariant, whether the database takes it or refuses it.                 *)
LEMMA StatusChange ==
  ASSUME IInv, NEW u \in Users, Admitted(u),
         NEW changed \in Project, NEW relatedDate \in Nullable(Days),
         NEW action \in {"transitioned", "corrected"},
         Persist(u, action, changed, relatedDate),
         FitsStatus(changed),
         Broken(changed) \subseteq {SubmissionDate},
         changed.status \in Announceable /\ announced[changed.status] = NoValue
           => relatedDate \in Days /\ relatedDate = DateOf(changed.status, changed),
         changed.status = "terminated"
           => project.status \in {"pending_application", "submitted"},
         changed.status \in RESULT_STATUSES => announced["submitted"] # NoValue
  PROVE  IInv' /\ (Kept \/ Moves(changed.status))
<1> DEFINE row == [changed EXCEPT !.version = NextVersion(project)]
           e == EntryFor(action, row, relatedDate)
<1>1. /\ project \in Project
      /\ project.version \in Nat
      /\ project.status \in Statuses
      /\ history \in Seq(Entry)
      /\ refused \subseteq CheckConstraints \cup {"event_key"}
      /\ refused \subseteq {SubmissionDate}
      /\ today \in Days
  BY DEF IInv, TypeOK, Project, FieldsFitStatus, SubmissionDate
<1>2. NextVersion(project) = project.version + 1 /\ NextVersion(project) \in Nat
  BY <1>1 DEF NextVersion
<1>3. /\ row \in Project
      /\ row.version = project.version + 1
      /\ row.status = changed.status
      /\ row.status \in Statuses
      /\ DateOf(row.status, row) = DateOf(changed.status, changed)
      /\ Broken(row) = Broken(changed)
      /\ FitsStatus(row)
  BY <1>2, Versioned DEF Project
<1> HIDE DEF row
<1>4. /\ e.action = action /\ e.previous = project.status /\ e.new = row.status
      /\ e.relatedDate = relatedDate
      /\ e.from = project.version /\ e.to = row.version
  BY DEF EntryFor
<1>5. e \in Entry
  BY <1>1, <1>3 DEF EntryFor, Entry, Nullable
<1>6. Store(u, row, <<e>>, WithAnnouncement(u, row), Broken(row))
  <2>1. Duplicated(u, row.status) = {}
    BY AdmittedSeesAll
  <2>2. Store(u, row, <<e>>, WithAnnouncement(u, row),
              Broken(row) \cup Duplicated(u, row.status))
    BY DEF Persist, row
  <2>3. Broken(row) \cup Duplicated(u, row.status) = Broken(row)
    BY <2>1
  <2> QED BY <2>2, <2>3
<1> HIDE DEF e
<1>7. CASE Broken(row) = {}
  <2>1. /\ project' = row
        /\ history' = history \o <<e>>
        /\ announced' = WithAnnouncement(u, row)
        /\ session' = Answered(u, row.version)
        /\ today' = today /\ refused' = refused
    BY <1>6, <1>7 DEF Store
  <2>2. history' \in Seq(Entry) /\ HistoryChain'
    BY <1>3, <1>4, <1>5, <2>1, ChainContinues
  <2>3. TerminationsUndoable'
    BY <1>3, <1>4, <1>5, <2>1, UndoableContinues
  <2>4. /\ announced' \in [Announceable -> Nullable(Days)]
        /\ AnnouncesFirst'
        /\ \A s \in Announceable :
             announced'[s] # NoValue <=> announced[s] # NoValue \/ s = e.new
    <3>1. announced' = IF e.new \in Announceable /\ announced[e.new] = NoValue
                         THEN [announced EXCEPT ![e.new] = e.relatedDate]
                         ELSE announced
      BY <1>3, <1>4, <2>1, AdmittedSeesAll DEF WithAnnouncement
    <3> QED BY <1>3, <1>4, <1>5, <2>1, <3>1, AnnouncementsContinue
  <2>5. /\ session' \in [Users -> Session]
        /\ VersionDetectsWrites'
        /\ PagesPast'
    BY <1>3, <2>1, PagesAfterWrite
  <2>6. ResultsFollowSubmission'
    BY <1>3, <2>1, <2>4 DEF ResultsFollowSubmission, Announceable
  <2>7. FieldsFitStatus'
    BY <1>1, <1>3, <2>1 DEF FieldsFitStatus, FitsStatus, SubmissionDate
  <2>8. TypeOK'
    BY <1>1, <1>3, <2>1, <2>2, <2>4, <2>5 DEF TypeOK
  <2>9. (Broken(project) = {})'
    BY <1>7, <2>1, Zenon DEF Broken
  <2>10. IInv'
    BY <2>2, <2>3, <2>4, <2>5, <2>6, <2>7, <2>8, <2>9 DEF IInv
  <2>11. history'[Len(history')].previous = project.status
    BY <1>1, <1>4, <1>5, <2>1, Appended
  <2>12. Moves(changed.status)
    BY <1>3, <1>4, <2>1, <2>4, <2>11 DEF Moves
  <2> QED BY <2>10, <2>12
<1>8. CASE Broken(row) # {}
  <2>1. /\ refused' = refused \cup Broken(row)
        /\ session' = [session EXCEPT ![u].pc = "viewing", ![u].snapshot = 0]
        /\ UNCHANGED <<project, history, announced, today>>
    BY <1>6, <1>8 DEF Store
  <2>2. /\ session' \in [Users -> Session]
        /\ VersionDetectsWrites'
        /\ PagesPast'
    BY <2>1, PagesAfterRefusal DEF Admitted
  <2>3. refused' \subseteq {SubmissionDate}
    BY <1>1, <1>3, <2>1
  <2>4. FieldsFitStatus'
    BY <2>1, <2>3 DEF IInv, FieldsFitStatus, SubmissionDate
  <2>5. TypeOK'
    BY <2>1, <2>2, <2>3 DEF IInv, TypeOK, CheckConstraints, SubmissionDate
  <2>6. /\ HistoryChain'
        /\ AnnouncesFirst'
        /\ TerminationsUndoable'
        /\ ResultsFollowSubmission'
        /\ (Broken(project) = {})'
    BY <2>1, RecordsKept
  <2> QED BY <2>1, <2>2, <2>4, <2>5, <2>6 DEF IInv, Kept
<1> QED BY <1>7, <1>8

-------------------------------------------------------------------------------
(* The rows that the requests make.                                        *)

(* The CHECK constraints, one by one.                                       *)
LEMMA BrokenMeans ==
  ASSUME NEW p
  PROVE  /\ Broken(p) \subseteq CheckConstraints
         /\ "result_status_requires_result_on" \in Broken(p)
              <=> p.status \in RESULT_STATUSES /\ p.resultOn = NoValue
         /\ SubmissionDate \in Broken(p)
              <=> /\ p.status \in {"submitted", "succeeded", "rejected"}
                  /\ p.submittedOn = NoValue
         /\ "result_requires_submission_order" \in Broken(p)
              <=> /\ p.resultOn # NoValue
                  /\ p.submittedOn = NoValue \/ p.resultOn < p.submittedOn
         /\ "terminated_requires_note" \in Broken(p)
              <=> p.status = "terminated" /\ p.terminationNote = NoValue
<1>1. Broken(p) \subseteq CheckConstraints
  BY DEF Broken
<1>2. "result_status_requires_result_on" \in Broken(p)
        <=> p.status \in RESULT_STATUSES /\ p.resultOn = NoValue
  BY DEF Broken, CheckConstraints
<1>3. SubmissionDate \in Broken(p)
        <=> /\ p.status \in {"submitted", "succeeded", "rejected"}
            /\ p.submittedOn = NoValue
  BY DEF Broken, CheckConstraints, SubmissionDate
<1>4. "result_requires_submission_order" \in Broken(p)
        <=> /\ p.resultOn # NoValue
            /\ p.submittedOn = NoValue \/ p.resultOn < p.submittedOn
  BY DEF Broken, CheckConstraints
<1>5. "terminated_requires_note" \in Broken(p)
        <=> p.status = "terminated" /\ p.terminationNote = NoValue
  BY DEF Broken, CheckConstraints
<1> QED BY <1>1, <1>2, <1>3, <1>4, <1>5

(* A row with its dates in order and its notes in place breaks at most the  *)
(* constraint on the submission date.                                      *)
LEMMA BreaksNothingElse ==
  ASSUME NEW p,
         p.status \in RESULT_STATUSES => p.resultOn # NoValue,
         p.resultOn # NoValue =>
           p.submittedOn # NoValue /\ ~(p.resultOn < p.submittedOn),
         p.status = "terminated" => p.terminationNote # NoValue
  PROVE  Broken(p) \subseteq {SubmissionDate}
BY BrokenMeans DEF CheckConstraints, SubmissionDate

(* A row that is given a status, a result and notes keeps its other fields. *)
Rewrite(p, s, on, note, term) ==
  [[p EXCEPT !.resultOn = on, !.resultNote = note, !.terminationNote = term]
   EXCEPT !.status = s]

(* The fields of such a row.                                                *)
LEMMA Rewritten ==
  ASSUME NEW p \in Project, NEW s \in Statuses, NEW on \in Nullable(Days),
         NEW note \in Nullable(Notes), NEW term \in Nullable(Notes)
  PROVE  LET r == Rewrite(p, s, on, note, term)
         IN  /\ r \in Project
             /\ r.status = s /\ r.resultOn = on /\ r.resultNote = note
             /\ r.terminationNote = term /\ r.submittedOn = p.submittedOn
<1> DEFINE r == Rewrite(p, s, on, note, term)
           q == [p EXCEPT !.resultOn = on, !.resultNote = note,
                          !.terminationNote = term]
<1>1. /\ q \in Project
      /\ q.resultOn = on /\ q.resultNote = note
      /\ q.terminationNote = term /\ q.submittedOn = p.submittedOn
  BY DEF Project
<1>2. r = [q EXCEPT !.status = s]
  BY DEF Rewrite
<1> HIDE DEF q, r
<1>3. /\ r \in Project
      /\ r.status = s /\ r.resultOn = on /\ r.resultNote = note
      /\ r.terminationNote = term /\ r.submittedOn = p.submittedOn
  BY <1>1, <1>2 DEF Project
<1> QED BY <1>3 DEF r

(* The status that a project has is one that it entered, and the group was  *)
(* told of it.                                                             *)
LEMMA EnteredIsAnnounced ==
  ASSUME IInv
  PROVE  /\ project.status \in Announceable => announced[project.status] # NoValue
         /\ \A i \in 2..Len(history) : history[i].previous \in Announceable
              => announced[history[i].previous] # NoValue
<1>1. Len(history) \in Nat /\ Len(history) >= 1
  BY DEF IInv, TypeOK, HistoryChain
<1>2. history[Len(history)].new = project.status
  BY DEF IInv, HistoryChain
<1>3. \A s \in Announceable, i \in 1..Len(history) :
        history[i].new = s => announced[s] # NoValue
  BY DEF IInv, AnnouncesFirst
<1>4. \A i \in 2..Len(history) :
        i - 1 \in 1..Len(history) /\ history[i].previous = history[i - 1].new
  BY <1>1 DEF IInv, HistoryChain
<1> QED BY <1>1, <1>2, <1>3, <1>4

(* The transitions that the workflow allows.                                *)
LEMMA Allowed ==
  ASSUME IInv, NEW target, target \in NORMAL_TRANSITIONS[project.status]
  PROVE  /\ target = "submitted" => project.status = "pending_application"
         /\ target \in RESULT_STATUSES => project.status = "submitted"
         /\ target = "terminated"
              => project.status \in {"pending_application", "submitted"}
         /\ target \in Statuses
<1>1. project.status \in Statuses
  BY DEF IInv, TypeOK, Project
<1> QED BY <1>1 DEF NORMAL_TRANSITIONS, Statuses, RESULT_STATUSES

(* A submission.                                                            *)
LEMMA SubmittedKeeps ==
  ASSUME IInv, NEW u \in Users, NEW day \in Days, TransitionToSubmitted(u, day)
  PROVE  IInv' /\ (Kept \/ Moves("submitted"))
<1> DEFINE dated == [project EXCEPT !.submittedOn = day]
           p == [dated EXCEPT !.resultOn = NoValue, !.resultNote = NoValue,
                              !.terminationNote = NoValue]
           changed == [p EXCEPT !.status = "submitted"]
<1>1. project \in Project
  BY DEF IInv, TypeOK
<1>2. dated \in Project /\ dated.submittedOn = day
  BY <1>1 DEF Project, Nullable
<1>3. p = [project EXCEPT !.submittedOn = day, !.resultOn = NoValue,
                          !.resultNote = NoValue, !.terminationNote = NoValue]
  BY <1>1 DEF Project
<1>4. /\ Admitted(u)
      /\ Persist(u, "transitioned", changed, day)
  BY <1>3 DEF TransitionToSubmitted, Transition
<1> HIDE DEF dated
<1>5. /\ changed \in Project
      /\ changed.status = "submitted" /\ changed.resultOn = NoValue
      /\ changed.resultNote = NoValue /\ changed.terminationNote = NoValue
      /\ changed.submittedOn = day
  <2>1. NoValue \in Nullable(Days) /\ NoValue \in Nullable(Notes)
        /\ "submitted" \in Statuses
    BY DEF Nullable, Statuses
  <2>2. changed = Rewrite(dated, "submitted", NoValue, NoValue, NoValue)
    BY DEF Rewrite
  <2> HIDE DEF changed
  <2> QED BY <1>2, <2>1, <2>2, Rewritten
<1> HIDE DEF changed
<1>6. Broken(changed) \subseteq {SubmissionDate}
  BY <1>5, BreaksNothingElse DEF RESULT_STATUSES
<1>7. FitsStatus(changed)
  BY <1>5 DEF FitsStatus
<1>8. day \in Nullable(Days) /\ day = DateOf(changed.status, changed)
  BY <1>5 DEF Nullable, DateOf
<1> QED BY <1>4, <1>5, <1>6, <1>7, <1>8, StatusChange DEF RESULT_STATUSES

(* A row with a result, entered for the first time or as a correction.      *)
LEMMA ResultRow ==
  ASSUME IInv, NEW target \in RESULT_STATUSES, NEW day \in Days,
         NEW note \in Nullable(Notes), ValidResultOn(day),
         NEW changed, changed = Rewrite(project, target, day, note, NoValue)
  PROVE  /\ changed \in Project
         /\ changed.status = target
         /\ FitsStatus(changed)
         /\ Broken(changed) \subseteq {SubmissionDate}
         /\ day \in Nullable(Days) /\ day = DateOf(target, changed)
<1>1. project \in Project
  BY DEF IInv, TypeOK
<1>2. target \in Statuses /\ target \notin {"submitted", "terminated"}
  BY DEF RESULT_STATUSES, Statuses
<1>3. /\ changed \in Project
      /\ changed.status = target /\ changed.resultOn = day
      /\ changed.resultNote = note /\ changed.terminationNote = NoValue
      /\ changed.submittedOn = project.submittedOn
  <2>1. day \in Nullable(Days) /\ NoValue \in Nullable(Notes)
    BY DEF Nullable
  <2> QED BY <1>1, <1>2, <2>1, Rewritten
<1>4. FitsStatus(changed)
  BY <1>2, <1>3 DEF FitsStatus
<1>5. /\ project.submittedOn # NoValue
      /\ ~(day < project.submittedOn)
  <2>1. project.submittedOn \in Nat /\ day \in Nat
    BY <1>1, BoundsAssumption DEF ValidResultOn, Project, Nullable, Days
  <2> QED BY <2>1 DEF ValidResultOn
<1>6. Broken(changed) \subseteq {SubmissionDate}
  BY <1>2, <1>3, <1>5, NotNull, BreaksNothingElse
<1>7. day \in Nullable(Days) /\ day = DateOf(target, changed)
  BY <1>2, <1>3 DEF Nullable, DateOf
<1> QED BY <1>3, <1>4, <1>6, <1>7

(* A result.                                                                *)
LEMMA ResultKeeps ==
  ASSUME IInv, NEW u \in Users, NEW target \in RESULT_STATUSES, NEW day \in Days,
         NEW note \in Nullable(Notes), TransitionToResult(u, target, day, note)
  PROVE  IInv' /\ (Kept \/ Moves(target))
<1> DEFINE changed == [WithResult(day, note) EXCEPT !.status = target]
<1>1. /\ Admitted(u)
      /\ ValidResultOn(day)
      /\ Persist(u, "transitioned", changed, day)
      /\ project.status = "submitted"
  BY Allowed DEF TransitionToResult, Transition
<1>2. /\ changed \in Project
      /\ changed.status = target
      /\ FitsStatus(changed)
      /\ Broken(changed) \subseteq {SubmissionDate}
      /\ day \in Nullable(Days) /\ day = DateOf(target, changed)
  <2>1. changed = Rewrite(project, target, day, note, NoValue)
    BY DEF WithResult, Rewrite
  <2> HIDE DEF changed
  <2> QED BY <1>1, <2>1, ResultRow
<1> HIDE DEF changed
<1>3. announced["submitted"] # NoValue
  BY <1>1, EnteredIsAnnounced DEF Announceable
<1>4. target # "terminated"
  BY DEF RESULT_STATUSES
<1> QED BY <1>1, <1>2, <1>3, <1>4, StatusChange

(* A termination.                                                           *)
LEMMA TerminatedKeeps ==
  ASSUME IInv, NEW u \in Users, TransitionToTerminated(u)
  PROVE  IInv' /\ (Kept \/ Moves("terminated"))
<1>1. PICK note \in Notes :
        Transition(u, "terminated",
          [project EXCEPT !.resultOn = NoValue, !.resultNote = NoValue,
                          !.terminationNote = note], NoValue)
  BY DEF TransitionToTerminated
<1> DEFINE changed == [[project EXCEPT !.resultOn = NoValue, !.resultNote = NoValue,
                                       !.terminationNote = note]
                        EXCEPT !.status = "terminated"]
<1>2. /\ Admitted(u)
      /\ Persist(u, "transitioned", changed, NoValue)
      /\ project.status \in {"pending_application", "submitted"}
  BY <1>1, Allowed DEF Transition
<1>3. /\ changed \in Project
      /\ changed.status = "terminated" /\ changed.resultOn = NoValue
      /\ changed.resultNote = NoValue /\ changed.terminationNote = note
  <2>1. /\ project \in Project
        /\ NoValue \in Nullable(Days)
        /\ NoValue \in Nullable(Notes) /\ note \in Nullable(Notes)
        /\ "terminated" \in Statuses
    BY DEF IInv, TypeOK, Nullable, Statuses
  <2>2. changed = Rewrite(project, "terminated", NoValue, NoValue, note)
    BY DEF Rewrite
  <2> HIDE DEF changed
  <2> QED BY <2>1, <2>2, Rewritten
<1> HIDE DEF changed
<1>4. Broken(changed) \subseteq {SubmissionDate}
  BY <1>3, NotNull, BreaksNothingElse DEF RESULT_STATUSES
<1>5. FitsStatus(changed)
  BY <1>3 DEF FitsStatus
<1> QED BY <1>2, <1>3, <1>4, <1>5, StatusChange
      DEF RESULT_STATUSES, Announceable, Nullable

(* A row whose result and notes are taken away.                             *)
LEMMA PlainRow ==
  ASSUME IInv, NEW target \in {"pending_application", "submitted"},
         NEW changed, changed = Rewrite(project, target, NoValue, NoValue, NoValue)
  PROVE  /\ changed \in Project
         /\ changed.status = target
         /\ FitsStatus(changed)
         /\ Broken(changed) \subseteq {SubmissionDate}
<1>1. /\ changed \in Project
      /\ changed.status = target /\ changed.resultOn = NoValue
      /\ changed.resultNote = NoValue /\ changed.terminationNote = NoValue
  <2>1. /\ project \in Project
        /\ NoValue \in Nullable(Days) /\ NoValue \in Nullable(Notes)
        /\ target \in Statuses
    BY DEF IInv, TypeOK, Nullable, Statuses
  <2> QED BY <2>1, Rewritten
<1>2. target \notin RESULT_STATUSES /\ target # "terminated"
  BY DEF RESULT_STATUSES
<1>3. Broken(changed) \subseteq {SubmissionDate}
  BY <1>1, <1>2, BreaksNothingElse
<1>4. FitsStatus(changed)
  BY <1>1 DEF FitsStatus
<1> QED BY <1>1, <1>3, <1>4

(* The latest termination that an admitted request sees is the last entry,  *)
(* and the status it restores was announced when it was entered.           *)
LEMMA RestoresLast ==
  ASSUME IInv, NEW u \in Users, Admitted(u), project.status = "terminated",
         NEW i \in LatestTermination(u)
  PROVE  /\ i = Len(history)
         /\ history[i].previous \in {"pending_application", "submitted"}
         /\ history[i].previous \in Announceable
              => announced[history[i].previous] # NoValue
<1>1. session[u].snapshot = Len(history)
  BY AdmittedSeesAll
<1>2. /\ Len(history) \in Nat
      /\ Len(history) >= 1
      /\ history[Len(history)].new = "terminated"
  BY DEF IInv, TypeOK, HistoryChain
<1>3. i = Len(history)
  BY <1>1, <1>2 DEF LatestTermination
<1>4. i # 1 /\ history[i].previous \in {"pending_application", "submitted"}
  BY <1>2, <1>3 DEF IInv, TerminationsUndoable
<1>5. i \in 2..Len(history)
  BY <1>2, <1>3, <1>4
<1> QED BY <1>3, <1>4, <1>5, EnteredIsAnnounced

(* A termination taken back.                                                *)
LEMMA RestoreKeeps ==
  ASSUME IInv, NEW u \in Users, CorrectTerminated(u)
  PROVE  IInv' /\ (Kept \/ Moves(history[Len(history)].previous))
<1>1. PICK i \in LatestTermination(u) :
        Correct(u, history[i].previous, WithoutResult, NoValue)
  BY DEF CorrectTerminated
<1> DEFINE target == history[i].previous
           changed == [WithoutResult EXCEPT !.status = target]
<1>2. /\ Admitted(u)
      /\ Persist(u, "corrected", changed, NoValue)
      /\ project.status = "terminated"
  BY <1>1 DEF CorrectTerminated, Correct
<1>3. /\ target \in {"pending_application", "submitted"}
      /\ target \in Announceable => announced[target] # NoValue
  BY <1>2, RestoresLast
<1> HIDE DEF target
<1>4. /\ changed \in Project
      /\ changed.status = target
      /\ FitsStatus(changed)
      /\ Broken(changed) \subseteq {SubmissionDate}
  <2>1. changed = Rewrite(project, target, NoValue, NoValue, NoValue)
    BY DEF WithoutResult, Rewrite
  <2> HIDE DEF changed
  <2> QED BY <1>3, <2>1, PlainRow
<1> HIDE DEF changed
<1>5. target \notin RESULT_STATUSES /\ target # "terminated"
  BY <1>3 DEF RESULT_STATUSES
<1>6. IInv' /\ (Kept \/ Moves(target))
  BY <1>2, <1>3, <1>4, <1>5, StatusChange DEF Nullable
<1>7. target = history[Len(history)].previous
  BY <1>2, RestoresLast DEF target
<1> QED BY <1>6, <1>7

(* A result taken back.                                                     *)
LEMMA WithdrawKeeps ==
  ASSUME IInv, NEW u \in Users, CorrectToSubmitted(u)
  PROVE  IInv' /\ (Kept \/ Moves("submitted"))
<1> DEFINE changed == [WithoutResult EXCEPT !.status = "submitted"]
<1>1. /\ Admitted(u)
      /\ Persist(u, "corrected", changed, NoValue)
      /\ announced["submitted"] # NoValue
  BY DEF CorrectToSubmitted, Correct, IInv, ResultsFollowSubmission
<1>2. /\ changed \in Project
      /\ changed.status = "submitted"
      /\ FitsStatus(changed)
      /\ Broken(changed) \subseteq {SubmissionDate}
  <2>1. changed = Rewrite(project, "submitted", NoValue, NoValue, NoValue)
    BY DEF WithoutResult, Rewrite
  <2> HIDE DEF changed
  <2> QED BY <2>1, PlainRow
<1> HIDE DEF changed
<1> QED BY <1>1, <1>2, StatusChange DEF Nullable, RESULT_STATUSES

(* A result exchanged for the other one.                                    *)
LEMMA ExchangeKeeps ==
  ASSUME IInv, NEW u \in Users, NEW target \in RESULT_STATUSES, NEW day \in Days,
         NEW note \in Nullable(Notes), CorrectToResult(u, target, day, note)
  PROVE  IInv' /\ (Kept \/ Moves(target))
<1> DEFINE changed == [WithResult(day, note) EXCEPT !.status = target]
<1>1. /\ Admitted(u)
      /\ ValidResultOn(day)
      /\ Persist(u, "corrected", changed, day)
      /\ announced["submitted"] # NoValue
  BY DEF CorrectToResult, Correct, IInv, ResultsFollowSubmission
<1>2. /\ changed \in Project
      /\ changed.status = target
      /\ FitsStatus(changed)
      /\ Broken(changed) \subseteq {SubmissionDate}
      /\ day \in Nullable(Days) /\ day = DateOf(target, changed)
  <2>1. changed = Rewrite(project, target, day, note, NoValue)
    BY DEF WithResult, Rewrite
  <2> HIDE DEF changed
  <2> QED BY <1>1, <2>1, ResultRow
<1> HIDE DEF changed
<1>3. target # "terminated"
  BY DEF RESULT_STATUSES
<1> QED BY <1>1, <1>2, <1>3, StatusChange

-------------------------------------------------------------------------------
(* Edits, pages and the calendar.                                          *)

(* The fields of an edited row.                                             *)
LEMMA UpdatedFields ==
  ASSUME IInv, NEW ch \in Changes
  PROVE  /\ Updated(ch) \in Project
         /\ Updated(ch).status = project.status
         /\ Updated(ch).version = project.version + 1
         /\ Updated(ch).submittedOn = Given(ch.submittedOn, project.submittedOn)
         /\ Updated(ch).resultOn = Given(ch.resultOn, project.resultOn)
         /\ Updated(ch).resultNote = Given(ch.resultNote, project.resultNote)
         /\ Updated(ch).terminationNote
              = Given(ch.terminationNote, project.terminationNote)
<1> DEFINE l == Given(ch.liaison, project.liaison)
           sub == Given(ch.submittedOn, project.submittedOn)
           on == Given(ch.resultOn, project.resultOn)
           note == Given(ch.resultNote, project.resultNote)
           term == Given(ch.terminationNote, project.terminationNote)
<1>1. project \in Project /\ project.version \in Nat
  BY DEF IInv, TypeOK, Project
<1>2. /\ l \in Users /\ sub \in Nullable(Days) /\ on \in Nullable(Days)
      /\ note \in Nullable(Notes) /\ term \in Nullable(Notes)
  BY <1>1 DEF Changes, Given, Project
<1>3. Updated(ch) =
        [status |-> project.status, submittedOn |-> sub, resultOn |-> on,
         resultNote |-> note, terminationNote |-> term, liaison |-> l,
         version |-> project.version + 1]
  <2>1. Updated(ch) =
          [project EXCEPT !.liaison = l, !.submittedOn = sub, !.resultOn = on,
                          !.resultNote = note, !.terminationNote = term,
                          !.version = project.version + 1]
    BY DEF Updated, NextVersion
  <2> HIDE DEF l, sub, on, note, term
  <2> QED BY <1>1, <2>1 DEF Project
<1>4. project.status \in Statuses /\ project.version + 1 \in Nat
  BY <1>1 DEF Project
<1> HIDE DEF l, sub, on, note, term
<1>5. Updated(ch) \in Project
  BY <1>2, <1>3, <1>4 DEF Project
<1>6. /\ Updated(ch).status = project.status
      /\ Updated(ch).version = project.version + 1
      /\ Updated(ch).submittedOn = sub /\ Updated(ch).resultOn = on
      /\ Updated(ch).resultNote = note /\ Updated(ch).terminationNote = term
  BY <1>3
<1> QED BY <1>5, <1>6 DEF sub, on, note, term

(* An edit that passes _validate_update breaks no constraint and leaves the *)
(* row fitting its status.                                                 *)
LEMMA ValidUpdateFits ==
  ASSUME IInv, NEW ch \in Changes, ValidUpdate(ch)
  PROVE  Broken(Updated(ch)) = {} /\ FitsStatus(Updated(ch))
<1> DEFINE p == Updated(ch)
<1>1. /\ p \in Project
      /\ p.status = project.status
      /\ p.submittedOn = Given(ch.submittedOn, project.submittedOn)
      /\ p.resultOn = Given(ch.resultOn, project.resultOn)
      /\ p.resultNote = Given(ch.resultNote, project.resultNote)
      /\ p.terminationNote = Given(ch.terminationNote, project.terminationNote)
  BY UpdatedFields
<1>2. /\ p.status \in {"submitted", "succeeded", "rejected"}
           => p.submittedOn # NoValue
      /\ p.resultOn # NoValue =>
           p.submittedOn # NoValue /\ p.submittedOn <= p.resultOn
      /\ p.status \in RESULT_STATUSES => p.resultOn # NoValue
      /\ p.status = "terminated" => p.terminationNote # NoValue
      /\ ch.resultOn # Unset \/ ch.resultNote # Unset
           => project.status \in RESULT_STATUSES
      /\ ch.terminationNote # Unset => project.status = "terminated"
  BY DEF ValidUpdate
<1> HIDE DEF p
<1>3. FitsStatus(p)
  BY <1>1, <1>2 DEF FitsStatus, IInv, FieldsFitStatus, Given
<1>4. p.resultOn # NoValue => ~(p.resultOn < p.submittedOn)
  <2>1. ASSUME p.resultOn # NoValue  PROVE p.resultOn \in Nat /\ p.submittedOn \in Nat
    BY <1>1, <1>2, <2>1, BoundsAssumption DEF Project, Nullable, Days
  <2> QED BY <1>2, <2>1
<1>5. Broken(p) = {}
  BY <1>2, <1>4, BrokenMeans DEF CheckConstraints, SubmissionDate
<1> QED BY <1>3, <1>5 DEF p

(* PATCH: a new version, without a history entry.                           *)
LEMMA UpdateKeeps ==
  ASSUME IInv, NEW u \in Users, NEW ch \in Changes, UpdateProject(u, ch)
  PROVE  IInv' /\ Kept
<1>1. /\ Admitted(u)
      /\ ValidUpdate(ch)
      /\ Store(u, Updated(ch), <<>>, announced, Broken(Updated(ch)))
  BY DEF UpdateProject
<1>2. Broken(Updated(ch)) = {} /\ FitsStatus(Updated(ch))
  BY <1>1, ValidUpdateFits
<1>3. /\ Updated(ch) \in Project
      /\ Updated(ch).status = project.status
      /\ Updated(ch).version = project.version + 1
  BY UpdatedFields
<1>4. /\ history \in Seq(Entry)
      /\ Len(history) \in Nat
      /\ project.version \in Nat
  BY DEF IInv, TypeOK, Project
<1>5. /\ project' = Updated(ch)
      /\ history' = history
      /\ announced' = announced
      /\ session' = Answered(u, project.version + 1)
      /\ today' = today /\ refused' = refused
  <2>1. history \o <<>> = history
    BY <1>4, ConcatEmptySeq
  <2> QED BY <1>1, <1>2, <1>3, <2>1 DEF Store
<1>6. /\ session' \in [Users -> Session]
      /\ VersionDetectsWrites'
      /\ PagesPast'
  BY <1>3, <1>5, PagesAfterWrite
<1>7. TypeOK'
  BY <1>3, <1>5, <1>6 DEF IInv, TypeOK
<1>8. HistoryChain'
  <2>1. /\ Len(history) >= 1
        /\ history[Len(history)].to <= project.version
    BY DEF IInv, HistoryChain
  <2>2. history[Len(history)] \in Entry
    BY <1>4, <2>1
  <2>3. history[Len(history)].to <= project.version + 1
    BY <1>4, <2>1, <2>2 DEF Entry
  <2> QED BY <1>3, <1>5, <2>3 DEF IInv, HistoryChain
<1>9. AnnouncesFirst' /\ TerminationsUndoable'
  BY <1>5 DEF IInv, AnnouncesFirst, TerminationsUndoable
<1>10. ResultsFollowSubmission'
  BY <1>3, <1>5 DEF IInv, ResultsFollowSubmission
<1>11. FieldsFitStatus'
  BY <1>2, <1>5 DEF IInv, FieldsFitStatus, FitsStatus
<1>12. (Broken(project) = {})'
  BY <1>2, <1>5, Zenon DEF Broken
<1> QED BY <1>3, <1>5, <1>6, <1>7, <1>8, <1>9, <1>10, <1>11, <1>12 DEF IInv, Kept

(* A page is opened, a request is sent, a request is rejected.              *)
LEMMA PagesKeep ==
  ASSUME IInv, NEW u \in Users, View(u) \/ Submit(u) \/ Reject(u)
  PROVE  IInv' /\ Kept
<1>1. UNCHANGED <<project, history, announced, today, refused>>
  BY DEF View, Submit, Reject
<1>2. session \in [Users -> Session] /\ project \in Project /\ Len(history) \in Nat
      /\ project.version \in Nat
  BY DEF IInv, TypeOK, Project
<1>3. /\ session' \in [Users -> Session]
      /\ VersionDetectsWrites'
      /\ PagesPast'
  <2>1. CASE View(u)
    <3> DEFINE page == [Away EXCEPT !.pc = "viewing", !.version = project.version]
    <3>1. /\ page \in Session
          /\ page.pc = "viewing"
          /\ page.version = project.version
          /\ page.outdated = FALSE
      <4>1. Away \in Session /\ Away.outdated = FALSE
        BY DEF Away, Session
      <4> QED BY <1>2, <4>1 DEF Session
    <3> HIDE DEF page
    <3>2. session' = [session EXCEPT ![u] = page]
      BY <2>1 DEF View, page
    <3>3. session' \in [Users -> Session]
      BY <1>2, <3>1, <3>2
    <3>4. session'[u] = page /\ \A v \in Users \ {u} : session'[v] = session[v]
      BY <1>2, <3>2
    <3>5. PagesPast'
      BY <1>1, <1>2, <3>1, <3>4 DEF IInv, PagesPast
    <3>6. VersionDetectsWrites'
      BY <1>1, <3>1, <3>4 DEF IInv, VersionDetectsWrites
    <3> QED BY <3>3, <3>5, <3>6
  <2>2. CASE Submit(u)
    <3>1. session[u].pc = "viewing"
          /\ session' = [session EXCEPT ![u].pc = "requested",
                                        ![u].snapshot = Len(history)]
      BY <2>2 DEF Submit
    <3>2. session' \in [Users -> Session]
      BY <1>2, <3>1 DEF Session
    <3>3. session'[u].snapshot = Len(history)
          /\ \A v \in Users \ {u} : session'[v] = session[v]
      BY <1>2, <3>1 DEF Session
    <3>4. \A v \in Users :
            /\ session'[v].version = session[v].version
            /\ session'[v].outdated = session[v].outdated
            /\ session'[v].pc # "away" => session[v].pc # "away"
      BY <1>2, <3>1 DEF Session
    <3>5. PagesPast'
      BY <1>1, <3>4 DEF IInv, PagesPast
    <3>6. VersionDetectsWrites'
      BY <1>1, <3>3, <3>4 DEF IInv, VersionDetectsWrites
    <3> QED BY <3>2, <3>5, <3>6
  <2>3. CASE Reject(u)
    BY <2>3, PagesAfterRefusal DEF Reject
  <2> QED BY <2>1, <2>2, <2>3
<1>4. TypeOK' /\ FieldsFitStatus'
  BY <1>1, <1>3 DEF IInv, TypeOK, FieldsFitStatus
<1>5. /\ HistoryChain'
      /\ AnnouncesFirst'
      /\ TerminationsUndoable'
      /\ ResultsFollowSubmission'
      /\ (Broken(project) = {})'
  BY <1>1, RecordsKept
<1> QED BY <1>1, <1>3, <1>4, <1>5 DEF IInv, Kept

(* Midnight.                                                                *)
LEMMA NextDayKeeps ==
  ASSUME IInv, NextDay
  PROVE  IInv' /\ Kept
<1>1. UNCHANGED <<project, history, announced, session, refused>>
      /\ today < LastDay /\ today' = today + 1
  BY DEF NextDay
<1>2. today' \in Days
  BY <1>1, BoundsAssumption DEF IInv, TypeOK, Days
<1>3. /\ HistoryChain'
      /\ AnnouncesFirst'
      /\ TerminationsUndoable'
      /\ ResultsFollowSubmission'
      /\ (Broken(project) = {})'
  BY <1>1, RecordsKept
<1>4. TypeOK' /\ FieldsFitStatus' /\ VersionDetectsWrites' /\ PagesPast'
  BY <1>1, <1>2
     DEF IInv, TypeOK, FieldsFitStatus, VersionDetectsWrites, PagesPast
<1> QED BY <1>1, <1>3, <1>4 DEF IInv, Kept

(* A step that changes nothing.                                             *)
LEMMA StutterKeeps ==
  ASSUME IInv, UNCHANGED vars
  PROVE  IInv' /\ Kept
<1>1. UNCHANGED <<project, history, announced, session, today, refused>>
  BY DEF vars
<1>2. /\ HistoryChain'
      /\ AnnouncesFirst'
      /\ TerminationsUndoable'
      /\ ResultsFollowSubmission'
      /\ (Broken(project) = {})'
  BY <1>1, RecordsKept
<1>3. TypeOK' /\ FieldsFitStatus' /\ VersionDetectsWrites' /\ PagesPast'
  BY <1>1
     DEF IInv, TypeOK, FieldsFitStatus, VersionDetectsWrites, PagesPast
<1> QED BY <1>1, <1>2, <1>3 DEF IInv, Kept

(* A project that convert_policy has just created.                          *)
LEMMA InitInvariant == Init => IInv
<1> SUFFICES ASSUME Init  PROVE IInv
  OBVIOUS
<1>1. /\ project = NewProject /\ history = <<Created>> /\ today = 1
      /\ announced = [s \in Announceable |-> NoValue]
      /\ session = [u \in Users |-> Away] /\ refused = {}
  BY DEF Init
<1>2. NewProject \in Project
  BY UsersAssumption DEF NewProject, Project, Nullable, Statuses
<1>3. Created \in Entry
  BY DEF Created, Entry, Nullable, Statuses
<1>4. Away \in Session
  BY DEF Away, Session
<1>5. TypeOK
  BY <1>1, <1>2, <1>3, <1>4, BoundsAssumption DEF TypeOK, Days, Nullable
<1>6. Len(history) = 1 /\ history[1] = Created /\ history[1].new = "pending_application"
      /\ history[1].to = 1
  BY <1>1 DEF Created
<1>7. project.status = "pending_application" /\ project.version = 1
      /\ project.submittedOn = NoValue /\ project.resultOn = NoValue
      /\ project.resultNote = NoValue /\ project.terminationNote = NoValue
  BY <1>1 DEF NewProject
<1>8. HistoryChain
  BY <1>6, <1>7 DEF HistoryChain
<1>9. AnnouncesFirst
  BY <1>1, <1>6 DEF AnnouncesFirst, Announceable
<1>10. VersionDetectsWrites /\ PagesPast
  BY <1>1 DEF VersionDetectsWrites, PagesPast, Away
<1>11. FieldsFitStatus
  BY <1>1, <1>7 DEF FieldsFitStatus
<1>12. TerminationsUndoable /\ ResultsFollowSubmission
  BY <1>6, <1>7 DEF TerminationsUndoable, ResultsFollowSubmission, RESULT_STATUSES
<1>13. Broken(project) = {}
  BY <1>7, BrokenMeans DEF CheckConstraints, SubmissionDate, RESULT_STATUSES
<1> QED BY <1>5, <1>8, <1>9, <1>10, <1>11, <1>12, <1>13 DEF IInv

(* Every step of every user keeps the invariant.                            *)
LEMMA NextInvariant == IInv /\ [Next]_vars => IInv'
<1> SUFFICES ASSUME IInv, [Next]_vars  PROVE IInv'
  OBVIOUS
<1>1. ASSUME NEW u \in Users, Write(u)  PROVE IInv'
  <2>1. CASE \E ch \in Changes : UpdateProject(u, ch)
    BY <2>1, UpdateKeeps
  <2>2. CASE \E day \in Days : TransitionToSubmitted(u, day)
    BY <2>2, SubmittedKeeps
  <2>3. CASE \E target \in RESULT_STATUSES, day \in Days, note \in Nullable(Notes) :
               TransitionToResult(u, target, day, note)
    BY <2>3, ResultKeeps
  <2>4. CASE TransitionToTerminated(u)
    BY <2>4, TerminatedKeeps
  <2>5. CASE CorrectTerminated(u)
    BY <2>5, RestoreKeeps
  <2>6. CASE CorrectToSubmitted(u)
    BY <2>6, WithdrawKeeps
  <2>7. CASE \E target \in RESULT_STATUSES, day \in Days, note \in Nullable(Notes) :
               CorrectToResult(u, target, day, note)
    BY <2>7, ExchangeKeeps
  <2> QED BY <1>1, <2>1, <2>2, <2>3, <2>4, <2>5, <2>6, <2>7 DEF Write
<1>2. ASSUME NEW u \in Users, View(u) \/ Submit(u) \/ Reject(u)  PROVE IInv'
  BY <1>2, PagesKeep
<1> QED BY <1>1, <1>2, NextDayKeeps, StutterKeeps DEF Next

(* The invariant holds in every state of the ledger.                        *)
THEOREM LedgerInvariance == Spec => []IInv
BY InitInvariant, NextInvariant, PTL DEF Spec

(* Rows, history, announcements and pages always have their shapes.         *)
THEOREM LedgerTypes == Spec => []TypeOK
<1>1. IInv => TypeOK
  BY DEF IInv
<1> QED BY <1>1, LedgerInvariance, PTL

(* _persist_status_change: the history tells the story of the row without   *)
(* a gap, for any number of writes from pages of any age.                  *)
THEOREM HistoryIsChain == Spec => []HistoryChain
<1>1. IInv => HistoryChain
  BY DEF IInv
<1> QED BY <1>1, LedgerInvariance, PTL

(* enqueue_project_first_status: one announcement for each first status,    *)
(* with the date of the first entry, although the lookup of the event reads *)
(* a snapshot from before the row was locked.                              *)
THEOREM FirstsAnnounced == Spec => []AnnouncesFirst
<1>1. IInv => AnnouncesFirst
  BY DEF IInv
<1> QED BY <1>1, LedgerInvariance, PTL

(* _assert_version: comparing versions under the lock is enough against     *)
(* lost updates and against decisions taken from an old history.           *)
THEOREM VersionsSuffice == Spec => []VersionDetectsWrites
<1>1. IInv => VersionDetectsWrites
  BY DEF IInv
<1> QED BY <1>1, LedgerInvariance, PTL

(* Corrections clear what no longer applies, and of the constraints of the  *)
(* table only the one on the submission date can ever refuse a request:    *)
(* no first-status event is inserted twice.                                *)
THEOREM RowsFitStatus == Spec => []FieldsFitStatus
<1>1. IInv => FieldsFitStatus
  BY DEF IInv
<1> QED BY <1>1, LedgerInvariance, PTL

-------------------------------------------------------------------------------
(* The ledger implements the workflow of the design.                       *)

(* What the workflow knows of the ledger: the status a terminated project   *)
(* goes back to, and which first statuses were announced.                  *)
Resume ==
  IF project.status = "terminated" THEN history[Len(history)].previous ELSE "none"
Announced == {s \in Announceable : announced[s] # NoValue}

(* The workflow does not move while the status stays.                       *)
LEMMA KeptStutters ==
  ASSUME Kept
  PROVE  UNCHANGED Workflow!lifecycle
<1>1. project'.status = project.status
      /\ history' = history /\ announced' = announced
  BY DEF Kept
<1>2. Resume' = Resume /\ Announced' = Announced
  BY <1>1 DEF Resume, Announced
<1> QED BY <1>1, <1>2 DEF Workflow!lifecycle, Resume, Announced

(* Entering a status is announced if it is one that the group is told of.   *)
LEMMA MovesEnters ==
  ASSUME NEW s \in Statuses, Moves(s)
  PROVE  /\ s # "terminated" => Workflow!Enter(s)
         /\ s = "terminated" /\ project.status \in {"pending_application", "submitted"}
              => Workflow!Terminate
<1>1. /\ project'.status = s
      /\ history'[Len(history')].previous = project.status
  BY DEF Moves
<1>2. Announced' = Announced \cup ({s} \cap {"submitted", "succeeded"})
  BY DEF Moves, Announced, Announceable
<1>3. Resume' = IF s = "terminated" THEN project.status ELSE "none"
  BY <1>1 DEF Resume
<1>4. s # "terminated" => Workflow!Enter(s)
  BY <1>1, <1>2, <1>3 DEF Workflow!Enter, Resume, Announced
<1>5. s = "terminated" /\ project.status \in {"pending_application", "submitted"}
        => Workflow!Terminate
  <2> SUFFICES ASSUME s = "terminated",
                      project.status \in {"pending_application", "submitted"}
               PROVE  Workflow!Terminate
    OBVIOUS
  <2>1. Announced' = Announced
    BY <1>2
  <2> QED BY <1>1, <1>3, <2>1 DEF Workflow!Terminate, Resume, Announced
<1> QED BY <1>4, <1>5

(* Every step of the ledger is a step of the workflow, or moves no project. *)
LEMMA StepFollows ==
  ASSUME IInv, [Next]_vars
  PROVE  [Workflow!Next]_(Workflow!lifecycle)
<1> SUFFICES Workflow!Next \/ UNCHANGED Workflow!lifecycle
  OBVIOUS
<1>1. ASSUME NEW u \in Users, Write(u)
      PROVE  Workflow!Next \/ UNCHANGED Workflow!lifecycle
  <2>1. CASE \E ch \in Changes : UpdateProject(u, ch)
    BY <2>1, UpdateKeeps, KeptStutters
  <2>2. CASE \E day \in Days : TransitionToSubmitted(u, day)
    <3>1. project.status = "pending_application"
      BY <2>2, Allowed DEF TransitionToSubmitted, Transition
    <3>2. Moves("submitted") => Workflow!Next
      BY <3>1, MovesEnters DEF Statuses, Workflow!Next, Workflow!Submit
    <3> QED BY <2>2, <3>2, SubmittedKeeps, KeptStutters
  <2>3. CASE \E target \in RESULT_STATUSES, day \in Days, note \in Nullable(Notes) :
               TransitionToResult(u, target, day, note)
    <3>1. PICK target \in RESULT_STATUSES, day \in Days, note \in Nullable(Notes) :
            TransitionToResult(u, target, day, note)
      BY <2>3
    <3>2. project.status = "submitted"
      BY <3>1, Allowed DEF TransitionToResult, Transition
    <3>3. Moves(target) => Workflow!Next
      BY <3>2, MovesEnters
         DEF Statuses, RESULT_STATUSES, Workflow!Next, Workflow!Decide
    <3> QED BY <3>1, <3>3, ResultKeeps, KeptStutters
  <2>4. CASE TransitionToTerminated(u)
    <3>1. project.status \in {"pending_application", "submitted"}
      BY <2>4, Allowed DEF TransitionToTerminated, Transition
    <3>2. Moves("terminated") => Workflow!Next
      BY <3>1, MovesEnters DEF Statuses, Workflow!Next
    <3> QED BY <2>4, <3>2, TerminatedKeeps, KeptStutters
  <2>5. CASE CorrectTerminated(u)
    <3> DEFINE back == history[Len(history)].previous
    <3>1. project.status = "terminated" /\ back \in {"pending_application", "submitted"}
      BY <2>5, RestoresLast DEF CorrectTerminated, Correct
    <3>2. Moves(back) => Workflow!Next
      <4>1. SUFFICES ASSUME Moves(back)  PROVE Workflow!Next
        OBVIOUS
      <4>2. back \in Statuses /\ back # "terminated" /\ Resume = back
        BY <3>1 DEF Statuses, Resume
      <4>3. PICK s \in Statuses : s = back
        BY <4>2
      <4>4. Workflow!Enter(s)
        BY <4>1, <4>2, <4>3, MovesEnters DEF Moves
      <4>5. Workflow!Enter(Resume)
        BY <4>2, <4>3, <4>4 DEF Workflow!Enter
      <4> QED BY <3>1, <4>5 DEF Workflow!Next, Workflow!Restore, Resume
    <3> QED BY <2>5, <3>2, RestoreKeeps, KeptStutters
  <2>6. CASE CorrectToSubmitted(u)
    <3>1. project.status \in RESULT_STATUSES
      BY <2>6 DEF CorrectToSubmitted
    <3>2. Moves("submitted") => Workflow!Next
      BY <3>1, MovesEnters
         DEF Statuses, RESULT_STATUSES, Workflow!Next, Workflow!Withdraw
    <3> QED BY <2>6, <3>2, WithdrawKeeps, KeptStutters
  <2>7. CASE \E target \in RESULT_STATUSES, day \in Days, note \in Nullable(Notes) :
               CorrectToResult(u, target, day, note)
    <3>1. PICK target \in RESULT_STATUSES, day \in Days, note \in Nullable(Notes) :
            CorrectToResult(u, target, day, note)
      BY <2>7
    <3>2. project.status \in RESULT_STATUSES /\ target # project.status
      BY <3>1 DEF CorrectToResult
    <3>3. Moves(target) => Workflow!Next
      BY <3>2, MovesEnters
         DEF Statuses, RESULT_STATUSES, Workflow!Next, Workflow!Exchange
    <3> QED BY <3>1, <3>3, ExchangeKeeps, KeptStutters
  <2> QED BY <1>1, <2>1, <2>2, <2>3, <2>4, <2>5, <2>6, <2>7 DEF Write
<1>2. ASSUME NEW u \in Users, View(u) \/ Submit(u) \/ Reject(u)
      PROVE  UNCHANGED Workflow!lifecycle
  BY <1>2, PagesKeep, KeptStutters
<1>3. NextDay \/ UNCHANGED vars => UNCHANGED Workflow!lifecycle
  BY NextDayKeeps, StutterKeeps, KeptStutters
<1> QED BY <1>1, <1>2, <1>3 DEF Next

(* Sections 7.1 and 7.2 of the design: whatever pages the users work from,  *)
(* a project lives the life that is drawn there, with each first status     *)
(* announced as it is entered and a termination undone to where it came     *)
(* from.                                                                   *)
THEOREM LedgerFollowsWorkflow == Spec => FollowsWorkflow
<1>1. Init => Workflow!Init
  <2> SUFFICES ASSUME Init  PROVE Workflow!Init
    OBVIOUS
  <2>1. project.status = "pending_application"
        /\ announced = [s \in Announceable |-> NoValue]
    BY DEF Init, NewProject
  <2>2. Resume = "none" /\ Announced = {}
    BY <2>1 DEF Resume, Announced
  <2> QED BY <2>1, <2>2 DEF Workflow!Init, Resume, Announced
<1>2. IInv /\ [Next]_vars => [Workflow!Next]_(Workflow!lifecycle)
  BY StepFollows
<1> QED BY <1>1, <1>2, LedgerInvariance, PTL DEF Spec, FollowsWorkflow, Workflow!Spec
===============================================================================
