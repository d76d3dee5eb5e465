------------------------- MODULE CollectionTasksProofs -------------------------
(***************************************************************************)
(* Proofs about CollectionTasks, for any number of sources, callers and     *)
(* collectors, finishing in any order and dying at any step.               *)
(***************************************************************************)
EXTENDS CollectionTasks, SequenceTheorems, TLAPS

-------------------------------------------------------------------------------
(* The inductive invariant.                                                *)

(* A busy collector has its task, and from the end of its spiders a crawl.  *)
WorkFits ==
  \A k \in Collectors :
    /\ collector[k].pc # "idle" => collector[k].task \in DOMAIN task
    /\ collector[k].pc = "crawled" => collector[k].crawl \in Crawl

(* The finished tasks of a source are tasks of it that are finished, each   *)
(* of them once; no more tasks than the bound.                             *)
FinishedOnce ==
  /\ Len(task) <= MaxTasks
  /\ \A s \in Sources : \A i \in DOMAIN finished[s] :
       /\ finished[s][i] \in DOMAIN task
       /\ task[finished[s][i]].source = s
       /\ task[finished[s][i]].status \notin Active
       /\ \A j \in DOMAIN finished[s] : finished[s][j] = finished[s][i] => j = i

(* The counter of a source is the length of its last run of failures, which *)
(* started with the task it names.                                         *)
CountsLastRun ==
  \A s \in Sources :
    LET f == finished[s]
        n == health[s].failures
    IN  /\ n <= Len(f)
        /\ \A j \in (Len(f) - n + 1)..Len(f) : Failed(f[j])
        /\ n < Len(f) => ~Failed(f[Len(f) - n])
        /\ health[s].started = IF n = 0 THEN NoValue ELSE f[Len(f) - n + 1]
        /\ health[s].last = IF f = <<>> THEN NoValue ELSE f[Len(f)]

(* The i-th finished task of s starts an episode of at least three.         *)
Starts(f, i) ==
  /\ i = 1 \/ ~Failed(f[i - 1])
  /\ i + 2 <= Len(f)
  /\ \A j \in i..(i + 2) : Failed(f[j])

(* Exactly these have an event.                                             *)
EventsAtStarts ==
  /\ \A t \in notified : \E s \in Sources : \E i \in DOMAIN finished[s] :
       finished[s][i] = t
  /\ \A s \in Sources : \A i \in DOMAIN finished[s] :
       finished[s][i] \in notified <=> Starts(finished[s], i)

(* All of it.                                                              *)
IInv ==
  /\ TypeOK
  /\ WorkFits
  /\ FinishedOnce
  /\ CountsLastRun
  /\ EventsAtStarts
-------------------------------------------------------------------------------
(* Tables and memories.                                                    *)

(* A row more.                                                              *)
LEMMA Appended ==
  ASSUME NEW S, NEW seq \in Seq(S), NEW x \in S
  PROVE  /\ Append(seq, x) \in Seq(S)
         /\ Len(Append(seq, x)) = Len(seq) + 1
         /\ DOMAIN seq = 1..Len(seq) /\ Len(seq) \in Nat
         /\ DOMAIN Append(seq, x) = 1..(Len(seq) + 1)
         /\ \A i \in 1..Len(seq) : Append(seq, x)[i] = seq[i]
         /\ Append(seq, x)[Len(seq) + 1] = x
BY AppendProperties, LenProperties

(* A task gets another status.                                              *)
LEMMA Rewritten ==
  ASSUME task \in Seq(Task), NEW t \in DOMAIN task, NEW status \in Statuses,
         task' = [task EXCEPT ![t].status = status]
  PROVE  /\ task' \in Seq(Task) /\ Len(task') = Len(task)
         /\ DOMAIN task' = DOMAIN task
         /\ task'[t].source = task[t].source /\ task'[t].status = status
         /\ \A u \in DOMAIN task : u # t => task'[u] = task[u]
<1> DEFINE w == [task[t] EXCEPT !.status = status]
<1>1. DOMAIN task = 1..Len(task) /\ task[t] \in Task
  BY LenProperties, ElementOfSeq
<1>2. w \in Task /\ w.source = task[t].source /\ w.status = status
  BY <1>1 DEF Task
<1>3. task' = [task EXCEPT ![t] = w]
  BY <1>1
<1> HIDE DEF w
<1>4. /\ task' \in Seq(Task) /\ Len(task') = Len(task)
      /\ DOMAIN task' = DOMAIN task /\ task'[t] = w
      /\ \A u \in DOMAIN task : u # t => task'[u] = task[u]
  BY <1>1, <1>2, <1>3, ExceptSeq
<1> QED BY <1>2, <1>4

(* The ids of tasks, and what stands behind the outcomes of a source.       *)
LEMMA Shapes ==
  ASSUME IInv
  PROVE  /\ DOMAIN task = 1..Len(task) /\ Len(task) \in Nat
         /\ DOMAIN task \subseteq Tasks
         /\ NoValue \notin DOMAIN task
         /\ \A t \in DOMAIN task : task[t] \in Task
         /\ \A s \in Sources :
              /\ finished[s] \in Seq(Tasks)
              /\ DOMAIN finished[s] = 1..Len(finished[s])
              /\ Len(finished[s]) \in Nat
              /\ health[s] \in Health /\ health[s].failures \in Nat
<1>1. /\ DOMAIN task = 1..Len(task) /\ Len(task) \in Nat
      /\ \A t \in DOMAIN task : task[t] \in Task
  BY LenProperties, ElementOfSeq DEF IInv, TypeOK
<1>2. DOMAIN task \subseteq Tasks
  BY <1>1, MaxTasksAssumption DEF IInv, FinishedOnce, Tasks
<1>3. \A s \in Sources : finished[s] \in Seq(Tasks) /\ health[s] \in Health
  BY DEF IInv, TypeOK
<1>4. \A s \in Sources : /\ DOMAIN finished[s] = 1..Len(finished[s])
                         /\ Len(finished[s]) \in Nat
                         /\ health[s].failures \in Nat
  BY <1>3, LenProperties DEF Health
<1> QED BY <1>1, <1>2, <1>3, <1>4, NoValueAssumption

(* One collector moves on.                                                  *)
LEMMA CollectorMoves ==
  ASSUME IInv, NEW k \in Collectors, NEW w \in Collector,
         collector' = [collector EXCEPT ![k] = w],
         DOMAIN task \subseteq DOMAIN task',
         w.pc # "idle" => w.task \in DOMAIN task,
         w.pc = "crawled" => w.crawl \in Crawl
  PROVE  collector' \in [Collectors -> Collector] /\ WorkFits'
<1>1. collector \in [Collectors -> Collector] /\ WorkFits
  BY DEF IInv, TypeOK
<1>2. collector'[k] = w /\ \A l \in Collectors \ {k} : collector'[l] = collector[l]
  BY <1>1
<1>3. collector' \in [Collectors -> Collector]
  BY <1>1
<1>4. ASSUME NEW l \in Collectors
      PROVE  /\ collector'[l].pc # "idle" => collector'[l].task \in DOMAIN task'
             /\ collector'[l].pc = "crawled" => collector'[l].crawl \in Crawl
  <2>1. CASE l = k
    BY <1>2, <2>1
  <2>2. CASE l # k
    BY <1>1, <1>2, <2>2 DEF WorkFits
  <2> QED BY <2>1, <2>2
<1> QED BY <1>3, <1>4 DEF WorkFits

(* An idle collector, a caller that is away.                                *)
LEMMA IdleFits == Idle \in Collector /\ Idle.pc = "idle" /\ Away \in Caller
BY DEF Idle, Collector, Away, Caller, Nullable

(* What a transaction sees when it begins.                                  *)
LEMMA SnapshotFits ==
  ASSUME IInv, NEW t \in Seq(Task), NEW todo \in SUBSET Sources
  PROVE  Snapshot(todo, t) \in Caller
<1>1. \A i \in DOMAIN t : t[i].source \in Sources
  <2>1. \A i \in DOMAIN t : t[i] \in Task
    BY LenProperties, ElementOfSeq
  <2> QED BY <2>1 DEF Task
<1>2. ActiveSources(t) \subseteq Sources
  BY <1>1 DEF ActiveSources
<1>3. enabled \subseteq Sources
  BY DEF IInv, TypeOK
<1> QED BY <1>2, <1>3, IdleFits DEF Snapshot, Caller

-------------------------------------------------------------------------------
(* Steps that finish nothing.                                              *)

(* What the rest is about: tasks and outcomes are only read.                *)
LEMMA OutcomesKept ==
  ASSUME IInv, UNCHANGED <<health, finished, notified>>,
         task' \in Seq(Task), Len(task') <= MaxTasks,
         \A s \in Sources : \A i \in DOMAIN finished[s] :
           finished[s][i] \in DOMAIN task' /\ task'[finished[s][i]] = task[finished[s][i]],
         enabled' \subseteq Sources, caller' \in [Callers -> Caller],
         collector' \in [Collectors -> Collector], WorkFits'
  PROVE  IInv'
<1>1. health' = health /\ finished' = finished /\ notified' = notified
  OBVIOUS
<1>2. TypeOK'
  BY <1>1 DEF IInv, TypeOK
<1>3. FinishedOnce'
  BY <1>1 DEF IInv, FinishedOnce
<1>4. \A s \in Sources : \A i \in DOMAIN finished[s] :
        Failed(finished[s][i])' <=> Failed(finished[s][i])
  BY <1>1 DEF Failed
<1>5. CountsLastRun'
  <2> SUFFICES ASSUME NEW s \in Sources
               PROVE  LET f == finished[s]
                          n == health[s].failures
                      IN  /\ n <= Len(f)
                          /\ \A j \in (Len(f) - n + 1)..Len(f) : Failed(f[j])'
                          /\ n < Len(f) => ~Failed(f[Len(f) - n])'
                          /\ health[s].started =
                               IF n = 0 THEN NoValue ELSE f[Len(f) - n + 1]
                          /\ health[s].last = IF f = <<>> THEN NoValue ELSE f[Len(f)]
    BY <1>1 DEF CountsLastRun, Failed
  <2> DEFINE f == finished[s]
             n == health[s].failures
  <2>1. /\ DOMAIN f = 1..Len(f) /\ Len(f) \in Nat /\ n \in Nat
    BY Shapes
  <2>2. /\ n <= Len(f)
        /\ \A j \in (Len(f) - n + 1)..Len(f) : Failed(f[j])
        /\ n < Len(f) => ~Failed(f[Len(f) - n])
        /\ health[s].started = IF n = 0 THEN NoValue ELSE f[Len(f) - n + 1]
        /\ health[s].last = IF f = <<>> THEN NoValue ELSE f[Len(f)]
    BY DEF IInv, CountsLastRun
  <2>3. \A i \in DOMAIN f : Failed(f[i])' <=> Failed(f[i])
    BY <1>4
  <2>4. \A j \in (Len(f) - n + 1)..Len(f) : j \in DOMAIN f
    BY <2>1, <2>2
  <2>5. n < Len(f) => Len(f) - n \in DOMAIN f
    BY <2>1
  <2> QED BY <2>2, <2>3, <2>4, <2>5
<1>6. EventsAtStarts'
  <2>1. ASSUME NEW s \in Sources, NEW i \in DOMAIN finished[s]
        PROVE  Starts(finished[s], i)' <=> Starts(finished[s], i)
    <3> DEFINE f == finished[s]
    <3>1. DOMAIN f = 1..Len(f) /\ Len(f) \in Nat
      BY Shapes
    <3>2. \A j \in DOMAIN f : Failed(f[j])' <=> Failed(f[j])
      BY <1>4
    <3>3. i # 1 => i - 1 \in DOMAIN f
      BY <3>1
    <3>4. i + 2 <= Len(f) => \A j \in i..(i + 2) : j \in DOMAIN f
      BY <3>1
    <3>5. finished'[s] = f
      BY <1>1
    <3> HIDE DEF f
    <3>6. Starts(f, i) <=>
            /\ i = 1 \/ ~Failed(f[i - 1])
            /\ i + 2 <= Len(f)
            /\ \A j \in i..(i + 2) : Failed(f[j])
      BY DEF Starts
    <3> QED BY <1>1, <3>2, <3>3, <3>4 DEF Starts, f, Failed
  <2> QED BY <1>1, <2>1 DEF IInv, EventsAtStarts
<1> QED BY <1>2, <1>3, <1>5, <1>6 DEF IInv

(* Callers, switches and memories are not what the rest is about.           *)
LEMMA QuietStep ==
  ASSUME IInv, UNCHANGED <<task, health, finished, notified>>,
         enabled' \subseteq Sources, caller' \in [Callers -> Caller],
         collector' \in [Collectors -> Collector], WorkFits'
  PROVE  IInv'
<1>1. task' = task /\ task \in Seq(Task) /\ Len(task) <= MaxTasks
      /\ UNCHANGED <<health, finished, notified>>
  BY DEF IInv, TypeOK, FinishedOnce
<1>2. \A s \in Sources : \A i \in DOMAIN finished[s] : finished[s][i] \in DOMAIN task
  BY DEF IInv, FinishedOnce
<1> QED BY <1>1, <1>2, OutcomesKept
(* One caller's transaction moves on.                                       *)
LEMMA CallerMoves ==
  ASSUME IInv, NEW c \in Callers, NEW w \in Caller,
         caller' = [caller EXCEPT ![c] = w],
         UNCHANGED <<enabled, health, task, finished, notified, collector>>
  PROVE  IInv'
<1>1. caller' \in [Callers -> Caller]
  BY DEF IInv, TypeOK
<1>2. /\ enabled' \subseteq Sources /\ collector' \in [Collectors -> Collector]
      /\ WorkFits'
  BY DEF IInv, TypeOK, WorkFits
<1> QED BY <1>1, <1>2, QuietStep

(* A source is switched, the daily job starts, a caller opens its           *)
(* transaction, is refused or goes away.                                   *)
LEMMA QuietCallerKeeps ==
  ASSUME IInv,
         \/ \E s \in Sources : Toggle(s)
         \/ StartSchedule
         \/ \E c \in Callers : \E s \in Sources :
              OpenRequest(c, s) \/ AlreadyRunning(c, s) \/ NotCollectable(c, s)
         \/ \E c \in Callers : Abandon(c)
  PROVE  IInv'
<1>1. enabled \subseteq Sources /\ task \in Seq(Task) /\ caller \in [Callers -> Caller]
  BY DEF IInv, TypeOK
<1>2. ASSUME NEW s \in Sources, Toggle(s)  PROVE IInv'
  <2>1. /\ enabled' \subseteq Sources
        /\ UNCHANGED <<task, health, finished, notified>> /\ task' = task
        /\ caller' = caller /\ collector' = collector
    BY <1>1, <1>2 DEF Toggle
  <2> QED BY <2>1, QuietStep DEF IInv, TypeOK, WorkFits
<1>3. CASE StartSchedule
  <2>1. Scheduler \in Callers /\ Snapshot(enabled, task) \in Caller
    BY <1>1, SnapshotFits DEF Callers
  <2> QED BY <1>3, <2>1, CallerMoves DEF StartSchedule
<1>4. ASSUME NEW c \in Callers, NEW s \in Sources, OpenRequest(c, s)  PROVE IInv'
  <2>1. Snapshot({s}, task) \in Caller
    BY <1>1, SnapshotFits
  <2> QED BY <1>4, <2>1, CallerMoves DEF OpenRequest
<1>5. ASSUME NEW c \in Callers, NEW s \in Sources, AlreadyRunning(c, s)  PROVE IInv'
  <2> DEFINE w == [caller[c] EXCEPT !.todo = caller[c].todo \ {s}]
  <2>1. w \in Caller
    BY <1>1 DEF Caller
  <2>2. \/ caller' = [caller EXCEPT ![c] = Away]
        \/ caller' = [caller EXCEPT ![c] = w]
    BY <1>1, <1>5 DEF AlreadyRunning
  <2>3. UNCHANGED <<enabled, health, task, finished, notified, collector>>
    BY <1>5 DEF AlreadyRunning
  <2> HIDE DEF w
  <2>4. CASE caller' = [caller EXCEPT ![c] = Away]
    BY <2>3, <2>4, IdleFits, CallerMoves
  <2>5. CASE caller' = [caller EXCEPT ![c] = w]
    BY <2>1, <2>3, <2>5, CallerMoves
  <2> QED BY <2>2, <2>4, <2>5
<1>6. ASSUME NEW c \in Callers, NEW s \in Sources, NotCollectable(c, s)  PROVE IInv'
  BY <1>6, IdleFits, CallerMoves DEF NotCollectable
<1>7. ASSUME NEW c \in Callers, Abandon(c)  PROVE IInv'
  BY <1>7, IdleFits, CallerMoves DEF Abandon
<1> QED BY <1>2, <1>3, <1>4, <1>5, <1>6, <1>7

(* A task is created.                                                       *)
LEMMA CreateKeeps ==
  ASSUME IInv, NEW c \in Callers, NEW s \in Sources, Create(c, s)
  PROVE  IInv'
<1> DEFINE row == [source |-> s, status |-> "pending"]
           created == Append(task, row)
           todo == caller[c].todo \ {s}
<1>1. /\ task' = created /\ Len(task) < MaxTasks
      /\ UNCHANGED <<health, finished, notified>>
      /\ enabled' = enabled /\ collector' = collector
  BY DEF Create
<1>2. caller' = [caller EXCEPT ![c] = Snapshot(todo, created)]
  BY DEF Create
<1>3. row \in Task
  BY DEF Task, Statuses
<1>4. /\ enabled \subseteq Sources /\ task \in Seq(Task)
      /\ caller \in [Callers -> Caller]
      /\ collector \in [Collectors -> Collector] /\ WorkFits
  BY DEF IInv, TypeOK
<1>5. todo \in SUBSET Sources
  BY <1>4 DEF Caller
<1> HIDE DEF row, todo
<1>6. /\ created \in Seq(Task) /\ Len(created) = Len(task) + 1
      /\ DOMAIN task = 1..Len(task) /\ Len(task) \in Nat
      /\ DOMAIN created = 1..(Len(task) + 1)
      /\ \A t \in DOMAIN task : created[t] = task[t]
  BY <1>3, <1>4, Appended
<1> HIDE DEF created
<1>7. caller' \in [Callers -> Caller]
  <2>1. Snapshot(todo, created) \in Caller
    BY <1>5, <1>6, SnapshotFits
  <2> QED BY <1>2, <1>4, <2>1
<1>8. DOMAIN task \subseteq DOMAIN task'
  BY <1>1, <1>6
<1>9. collector' \in [Collectors -> Collector] /\ WorkFits'
  BY <1>1, <1>4, <1>8 DEF WorkFits
<1>10. task' \in Seq(Task) /\ Len(task') <= MaxTasks
  BY <1>1, <1>6, MaxTasksAssumption
<1>11. \A u \in Sources : \A i \in DOMAIN finished[u] :
         finished[u][i] \in DOMAIN task' /\ task'[finished[u][i]] = task[finished[u][i]]
  BY <1>1, <1>6, <1>8 DEF IInv, FinishedOnce
<1>12. enabled' \subseteq Sources
  BY <1>1, <1>4
<1> QED BY <1>1, <1>7, <1>9, <1>10, <1>11, <1>12, OutcomesKept

(* A task is claimed.                                                       *)
LEMMA ClaimKeeps ==
  ASSUME IInv, NEW k \in Collectors, NEW locked, ClaimNext(k, locked)
  PROVE  IInv'
<1>1. PICK t \in Claimable \ locked :
        /\ task' = [task EXCEPT ![t].status = "running"]
        /\ collector' = [collector EXCEPT ![k] =
                           [Idle EXCEPT !.pc = "crawling", !.task = t]]
  BY DEF ClaimNext
<1> DEFINE w == [Idle EXCEPT !.pc = "crawling", !.task = t]
<1>2. t \in DOMAIN task /\ task[t].status = "pending" /\ t \in Tasks
  BY Shapes DEF Claimable
<1>3. /\ UNCHANGED <<health, finished, notified>>
      /\ enabled' = enabled /\ caller' = caller
  BY DEF ClaimNext
<1>4. /\ enabled' \subseteq Sources /\ task \in Seq(Task)
      /\ caller' \in [Callers -> Caller]
  BY <1>3 DEF IInv, TypeOK
<1>5. w \in Collector /\ w.pc = "crawling" /\ w.task = t
  BY <1>2 DEF Idle, Collector, Nullable
<1>6. /\ task' \in Seq(Task) /\ Len(task') = Len(task)
      /\ DOMAIN task' = DOMAIN task
      /\ \A u \in DOMAIN task : u # t => task'[u] = task[u]
  BY <1>1, <1>2, <1>4, Rewritten DEF Statuses
<1>7. collector' \in [Collectors -> Collector] /\ WorkFits'
  <2>1. collector' = [collector EXCEPT ![k] = w]
    BY <1>1
  <2> HIDE DEF w
  <2> QED BY <1>2, <1>5, <1>6, <2>1, CollectorMoves
<1>8. \A s \in Sources : \A i \in DOMAIN finished[s] :
        finished[s][i] \in DOMAIN task' /\ task'[finished[s][i]] = task[finished[s][i]]
  BY <1>2, <1>6 DEF IInv, FinishedOnce, Active
<1>9. Len(task') <= MaxTasks
  BY <1>6 DEF IInv, FinishedOnce
<1> QED BY <1>3, <1>4, <1>6, <1>7, <1>8, <1>9, OutcomesKept

(* The spiders end, or the process does.                                    *)
LEMMA CrawlKeeps ==
  ASSUME IInv, NEW k \in Collectors,
         (\E crawl \in Crawl : RunSpiders(k, crawl)) \/ Crash(k)
  PROVE  IInv'
<1>1. /\ UNCHANGED <<task, health, finished, notified>> /\ task' = task
      /\ enabled' \subseteq Sources /\ caller' \in [Callers -> Caller]
  BY DEF RunSpiders, Crash, IInv, TypeOK
<1>2. /\ collector[k] \in Collector
      /\ collector[k].pc # "idle" => collector[k].task \in DOMAIN task
  BY DEF IInv, TypeOK, WorkFits
<1>3. ASSUME NEW outcome \in Crawl, RunSpiders(k, outcome)  PROVE IInv'
  <2> DEFINE w == [collector[k] EXCEPT !.pc = "crawled", !.crawl = outcome]
  <2>1. collector[k].pc = "crawling" /\ collector' = [collector EXCEPT ![k] = w]
    BY <1>3 DEF RunSpiders, IInv, TypeOK
  <2>2. /\ w \in Collector /\ w.task = collector[k].task
        /\ w.pc = "crawled" /\ w.crawl = outcome
    BY <1>2 DEF Collector, Nullable
  <2> HIDE DEF w
  <2>3. collector' \in [Collectors -> Collector] /\ WorkFits'
    BY <1>1, <1>2, <2>1, <2>2, CollectorMoves
  <2> QED BY <1>1, <2>3, QuietStep
<1>4. CASE Crash(k)
  <2>1. collector' = [collector EXCEPT ![k] = Idle]
    BY <1>4 DEF Crash
  <2>2. collector' \in [Collectors -> Collector] /\ WorkFits'
    BY <1>1, <2>1, IdleFits, CollectorMoves
  <2> QED BY <1>1, <2>2, QuietStep
<1> QED BY <1>3, <1>4
-------------------------------------------------------------------------------
(* The end of a task.                                                      *)

(* The three outcomes.                                                      *)
LEMMA Outcomes ==
  ASSUME NEW crawl
  PROVE  Outcome(crawl) \in {"succeeded", "partial_failed", "failed"}
<1>1. CASE crawl.succeeded /\ crawl.failed
  BY <1>1, Zenon DEF Outcome
<1>2. CASE ~(crawl.succeeded /\ crawl.failed)
           /\ crawl.succeeded /\ ~crawl.failed /\ crawl.clean
  BY <1>2, Zenon DEF Outcome
<1>3. CASE ~(crawl.succeeded /\ crawl.failed)
           /\ ~(crawl.succeeded /\ ~crawl.failed /\ crawl.clean)
  BY <1>3, Zenon DEF Outcome
<1> QED BY <1>1, <1>2, <1>3

(* What the end of a task changes: its row, the list of the finished tasks  *)
(* of its source, and that source's health.  The task was not finished     *)
(* before, and what the others came to is still so.                        *)
Ended(s, t, outcome) ==
  /\ s \in Sources /\ t \in DOMAIN task /\ t \in Tasks
  /\ task[t].source = s /\ task[t].status \in Active
  /\ outcome \in {"succeeded", "partial_failed", "failed"}
  /\ DOMAIN task' = DOMAIN task
  /\ task'[t].source = s /\ task'[t].status = outcome
  /\ \A r \in DOMAIN task : r # t => task'[r] = task[r]
  /\ \A u \in Sources : \A i \in DOMAIN finished[u] : finished[u][i] # t
  /\ finished'[s] \in Seq(Tasks)
  /\ Len(finished'[s]) = Len(finished[s]) + 1
  /\ DOMAIN finished[s] = 1..Len(finished[s]) /\ Len(finished[s]) \in Nat
  /\ DOMAIN finished'[s] = 1..(Len(finished[s]) + 1)
  /\ \A i \in DOMAIN finished[s] : finished'[s][i] = finished[s][i]
  /\ finished'[s][Len(finished[s]) + 1] = t
  /\ \A u \in Sources \ {s} : finished'[u] = finished[u] /\ health'[u] = health[u]
  /\ health'[s] = HealthAfter(health[s], t, outcome)
  /\ notified' = IF outcome = "succeeded" THEN notified
                 ELSE notified \cup EventOf(health'[s])

(* Finish ends an active task so.                                           *)
LEMMA FinishEnds ==
  ASSUME IInv, NEW k \in Collectors, Finish(k),
         task[collector[k].task].status \in Active
  PROVE  /\ Ended(task[collector[k].task].source, collector[k].task,
                  Outcome(collector[k].crawl))
         /\ task' \in Seq(Task) /\ Len(task') = Len(task)
<1> DEFINE t == collector[k].task
           s == task[t].source
           outcome == Outcome(collector[k].crawl)
           after == HealthAfter(health[s], t, outcome)
<1>1. /\ task' = [task EXCEPT ![t].status = outcome]
      /\ finished' = [finished EXCEPT ![s] = Append(finished[s], t)]
      /\ health' = [health EXCEPT ![s] = after]
      /\ notified' = IF outcome = "succeeded" THEN notified
                     ELSE notified \cup EventOf(after)
  BY DEF Finish
<1>2. t \in DOMAIN task
  BY DEF IInv, WorkFits, Finish
<1>3. /\ t \in Tasks /\ s \in Sources
      /\ finished[s] \in Seq(Tasks)
      /\ DOMAIN finished[s] = 1..Len(finished[s]) /\ Len(finished[s]) \in Nat
  <2>1. t \in Tasks /\ task[t] \in Task
    BY <1>2, Shapes
  <2>2. s \in Sources
    BY <2>1 DEF Task
  <2> QED BY <2>1, <2>2, Shapes
<1>4. /\ outcome \in {"succeeded", "partial_failed", "failed"}
      /\ outcome \in Statuses
  BY Outcomes DEF Statuses
<1>5. /\ task \in Seq(Task) /\ finished \in [Sources -> Seq(Tasks)]
      /\ health \in [Sources -> Health]
  BY DEF IInv, TypeOK
<1>6. task[t].status \in Active
  OBVIOUS
<1> HIDE DEF outcome, after, s, t
<1>7. /\ task' \in Seq(Task) /\ Len(task') = Len(task)
      /\ DOMAIN task' = DOMAIN task
      /\ task'[t].source = task[t].source /\ task'[t].status = outcome
      /\ \A r \in DOMAIN task : r # t => task'[r] = task[r]
  BY <1>1, <1>2, <1>4, <1>5, Rewritten
<1>8. task[t].source = s
  BY DEF s
<1>9. \A u \in Sources : \A i \in DOMAIN finished[u] : finished[u][i] # t
  BY <1>6 DEF IInv, FinishedOnce
<1>10. /\ finished'[s] = Append(finished[s], t)
       /\ health'[s] = after
       /\ \A u \in Sources \ {s} : finished'[u] = finished[u] /\ health'[u] = health[u]
  BY <1>1, <1>3, <1>5
<1>11. /\ finished'[s] \in Seq(Tasks)
       /\ Len(finished'[s]) = Len(finished[s]) + 1
       /\ DOMAIN finished'[s] = 1..(Len(finished[s]) + 1)
       /\ \A i \in DOMAIN finished[s] : finished'[s][i] = finished[s][i]
       /\ finished'[s][Len(finished[s]) + 1] = t
  BY <1>3, <1>10, Appended
<1>12. Ended(s, t, outcome)
  BY <1>1, <1>2, <1>3, <1>4, <1>6, <1>7, <1>8, <1>9, <1>10, <1>11 DEF Ended, after
<1> QED BY <1>7, <1>12 DEF s, t, outcome

(* What the earlier tasks came to is still so.                              *)
LEMMA EarlierKept ==
  ASSUME IInv, NEW s, NEW t, NEW outcome, Ended(s, t, outcome)
  PROVE  \A u \in Sources : \A i \in DOMAIN finished[u] :
           task'[finished[u][i]].status # "succeeded" <=> Failed(finished[u][i])
<1>1. \A u \in Sources : \A i \in DOMAIN finished[u] :
        task'[finished[u][i]] = task[finished[u][i]]
  BY DEF IInv, FinishedOnce, Ended
<1> QED BY <1>1 DEF Failed

(* The counter goes on counting.                                            *)
LEMMA CountGoesOn ==
  ASSUME IInv, NEW s, NEW t, NEW outcome, Ended(s, t, outcome)
  PROVE  CountsLastRun'
<1> SUFFICES ASSUME NEW u \in Sources
             PROVE  LET g == finished'[u]
                        n == health'[u].failures
                    IN  /\ n <= Len(g)
                        /\ \A j \in (Len(g) - n + 1)..Len(g) :
                             task'[g[j]].status # "succeeded"
                        /\ n < Len(g) => ~(task'[g[Len(g) - n]].status # "succeeded")
                        /\ health'[u].started =
                             IF n = 0 THEN NoValue ELSE g[Len(g) - n + 1]
                        /\ health'[u].last = IF g = <<>> THEN NoValue ELSE g[Len(g)]
  BY DEF CountsLastRun, Failed
<1> DEFINE f == finished[u]
           n == health[u].failures
           F(r) == task'[r].status # "succeeded"
<1>1. DOMAIN f = 1..Len(f) /\ Len(f) \in Nat /\ n \in Nat
  BY Shapes
<1>2. /\ n <= Len(f)
      /\ \A j \in (Len(f) - n + 1)..Len(f) : F(f[j])
      /\ n < Len(f) => ~F(f[Len(f) - n])
      /\ health[u].started = IF n = 0 THEN NoValue ELSE f[Len(f) - n + 1]
      /\ health[u].last = IF f = <<>> THEN NoValue ELSE f[Len(f)]
  <2>1. /\ n <= Len(f)
        /\ \A j \in (Len(f) - n + 1)..Len(f) : Failed(f[j])
        /\ n < Len(f) => ~Failed(f[Len(f) - n])
        /\ health[u].started = IF n = 0 THEN NoValue ELSE f[Len(f) - n + 1]
        /\ health[u].last = IF f = <<>> THEN NoValue ELSE f[Len(f)]
    BY DEF IInv, CountsLastRun
  <2>2. \A j \in DOMAIN f : F(f[j]) <=> Failed(f[j])
    BY EarlierKept
  <2>3. \A j \in (Len(f) - n + 1)..Len(f) : j \in DOMAIN f
    BY <1>1, <2>1
  <2>4. n < Len(f) => Len(f) - n \in DOMAIN f
    BY <1>1
  <2> HIDE DEF F
  <2> QED BY <2>1, <2>2, <2>3, <2>4
<1>3. CASE u # s
  BY <1>2, <1>3 DEF Ended
<1>4. CASE u = s
  <2> DEFINE g == finished'[u]
  <2>1. /\ Len(g) = Len(f) + 1 /\ DOMAIN g = 1..(Len(f) + 1)
        /\ \A i \in DOMAIN f : g[i] = f[i]
        /\ g[Len(f) + 1] = t
        /\ F(t) <=> outcome # "succeeded"
        /\ health'[u] = HealthAfter(health[u], t, outcome)
        /\ g # <<>>
    BY <1>4, EmptySeq DEF Ended
  <2> HIDE DEF g, F, f, n
  <2>2. CASE outcome = "succeeded"
    <3>1. health'[u].failures = 0 /\ health'[u].started = NoValue /\ health'[u].last = t
      BY <2>1, <2>2 DEF HealthAfter, Healthy
    <3>2. /\ 0 <= Len(g)
          /\ \A j \in (Len(g) - 0 + 1)..Len(g) : F(g[j])
          /\ 0 < Len(g) => ~F(g[Len(g) - 0])
          /\ g[Len(g)] = t
      BY <1>1, <2>1, <2>2
    <3> QED BY <2>1, <3>1, <3>2 DEF g, F
  <2>3. CASE outcome # "succeeded"
    <3>1. /\ health'[u].failures = n + 1 /\ health'[u].last = t
          /\ health'[u].started = IF n = 0 THEN t ELSE health[u].started
      BY <2>1, <2>3 DEF HealthAfter, n
    <3>2. n + 1 <= Len(g) /\ n + 1 # 0 /\ g[Len(g)] = t
      BY <1>1, <1>2, <2>1
    <3>3. \A j \in (Len(g) - (n + 1) + 1)..Len(g) : F(g[j])
      <4> TAKE j \in (Len(g) - (n + 1) + 1)..Len(g)
      <4>1. CASE j = Len(f) + 1
        BY <2>1, <2>3, <4>1
      <4>2. CASE j # Len(f) + 1
        <5>1. j \in (Len(f) - n + 1)..Len(f) /\ j \in DOMAIN f
          BY <1>1, <1>2, <2>1, <4>2
        <5> QED BY <1>2, <2>1, <5>1
      <4> QED BY <4>1, <4>2
    <3>4. n + 1 < Len(g) => ~F(g[Len(g) - (n + 1)])
      <4> SUFFICES ASSUME n + 1 < Len(g)  PROVE ~F(g[Len(g) - (n + 1)])
        OBVIOUS
      <4>1. n < Len(f) /\ Len(g) - (n + 1) = Len(f) - n /\ Len(f) - n \in DOMAIN f
        BY <1>1, <2>1
      <4> QED BY <1>2, <2>1, <4>1
    <3>5. health'[u].started = g[Len(g) - (n + 1) + 1]
      <4>1. CASE n = 0
        <5>1. Len(g) - (n + 1) + 1 = Len(f) + 1
          BY <1>1, <2>1, <4>1
        <5> QED BY <2>1, <3>1, <4>1, <5>1
      <4>2. CASE n # 0
        <5>1. Len(g) - (n + 1) + 1 = Len(f) - n + 1 /\ Len(f) - n + 1 \in DOMAIN f
          BY <1>1, <1>2, <2>1, <4>2
        <5>2. health[u].started = f[Len(f) - n + 1]
          BY <1>2, <4>2
        <5> QED BY <2>1, <3>1, <4>2, <5>1, <5>2
      <4> QED BY <4>1, <4>2
    <3> QED BY <2>1, <3>1, <3>2, <3>3, <3>4, <3>5 DEF g, F
  <2> QED BY <2>2, <2>3
<1> QED BY <1>3, <1>4
(* The third failure in a row, and no other end of a task, makes an event:  *)
(* that of the first of the three.                                         *)
LEMMA EventMade ==
  ASSUME IInv, NEW s, NEW t, NEW outcome, Ended(s, t, outcome)
  PROVE  LET f == finished[s]
         IN  \A r : r \in notified' <=>
               \/ r \in notified
               \/ /\ outcome # "succeeded" /\ health[s].failures = 2
                  /\ r = f[Len(f) - 1]
<1> DEFINE f == finished[s]
           n == health[s].failures
<1>1. n \in Nat /\ Len(f) \in Nat
  BY Shapes DEF Ended
<1>2. n # 0 => health[s].started = f[Len(f) - n + 1]
  BY DEF IInv, CountsLastRun, Ended
<1>3. /\ health'[s] = HealthAfter(health[s], t, outcome)
      /\ notified' = IF outcome = "succeeded" THEN notified
                     ELSE notified \cup EventOf(health'[s])
  BY DEF Ended
<1>4. CASE outcome = "succeeded"
  BY <1>3, <1>4
<1>5. CASE outcome # "succeeded"
  <2>1. /\ health'[s].failures = n + 1
        /\ n # 0 => health'[s].started = f[Len(f) - n + 1]
    BY <1>2, <1>3, <1>5 DEF HealthAfter
  <2> HIDE DEF n, f
  <2>2. n = 2 => Len(f) - n + 1 = Len(f) - 1
    BY <1>1
  <2>3. CASE n = 2
    <3>1. health'[s].failures = 3 /\ health'[s].started = f[Len(f) - 1]
      BY <2>1, <2>2, <2>3
    <3>2. EventOf(health'[s]) = {f[Len(f) - 1]}
      BY <3>1 DEF EventOf
    <3> QED BY <1>3, <1>5, <2>3, <3>2 DEF n, f
  <2>4. CASE n # 2
    <3>1. health'[s].failures # 3
      BY <1>1, <2>1, <2>4
    <3>2. EventOf(health'[s]) = {}
      BY <3>1 DEF EventOf
    <3> QED BY <1>3, <1>5, <2>4, <3>2 DEF n
  <2> QED BY <2>3, <2>4
<1> QED BY <1>4, <1>5

(* An episode of three begins with the third failure and not before.        *)
LEMMA EpisodeGrows ==
  ASSUME IInv, NEW s, NEW t, NEW outcome, Ended(s, t, outcome),
         NEW i \in DOMAIN finished[s]
  PROVE  /\ i \in DOMAIN finished'[s] /\ finished'[s][i] = finished[s][i]
         /\ Starts(finished[s], i)' <=>
              \/ Starts(finished[s], i)
              \/ /\ outcome # "succeeded" /\ health[s].failures = 2
                 /\ i = Len(finished[s]) - 1
<1> DEFINE f == finished[s]
           g == finished'[s]
           n == health[s].failures
           m == Len(f)
           F(r) == task'[r].status # "succeeded"
           before == Starts(finished[s], i)
           after == Starts(finished[s], i)'
<1>1. /\ DOMAIN f = 1..m /\ m \in Nat /\ n \in Nat
      /\ DOMAIN g = 1..(m + 1) /\ Len(g) = m + 1
      /\ \A j \in DOMAIN f : g[j] = f[j]
      /\ g[m + 1] = t
      /\ F(t) <=> outcome # "succeeded"
  BY Shapes DEF Ended
<1>2. /\ n <= m
      /\ \A j \in (m - n + 1)..m : Failed(f[j])
      /\ n < m => ~Failed(f[m - n])
  BY DEF IInv, CountsLastRun, Ended
<1>3. \A j \in DOMAIN f : F(f[j]) <=> Failed(f[j])
  <2>1. s \in Sources
    BY DEF Ended
  <2> QED BY <2>1, EarlierKept
<1>4. after <=> /\ i = 1 \/ ~F(g[i - 1])
               /\ i + 2 <= Len(g)
               /\ \A j \in i..(i + 2) : F(g[j])
  BY DEF Starts, Failed
<1>5. before <=> /\ i = 1 \/ ~Failed(f[i - 1])
                /\ i + 2 <= m
                /\ \A j \in i..(i + 2) : Failed(f[j])
  BY DEF Starts
<1>6. i \in 1..m
  BY <1>1
<1> SUFFICES after <=> before \/ (outcome # "succeeded" /\ n = 2 /\ i = m - 1)
  BY <1>1
<1> HIDE DEF f, g, n, m, F, before, after
<1>7. \A j \in DOMAIN f : F(g[j]) <=> Failed(f[j])
  BY <1>1, <1>3
<1>8. i = 1 \/ i - 1 \in DOMAIN f
  BY <1>1, <1>6
<1>9. CASE i + 2 <= m
  <2>1. \A j \in i..(i + 2) : j \in DOMAIN f
    BY <1>1, <1>6, <1>9
  <2>2. i # m - 1 /\ i + 2 <= m + 1
    BY <1>1, <1>6, <1>9
  <2> QED BY <1>1, <1>4, <1>5, <1>6, <1>7, <1>8, <1>9, <2>1, <2>2
<1>10. CASE i = m - 1
  <2>1. /\ i \in DOMAIN f /\ i + 1 \in DOMAIN f /\ i + 2 = m + 1 /\ i + 1 = m
        /\ i + 2 \notin DOMAIN f /\ i.. (i + 2) = {i, i + 1, i + 2}
    BY <1>1, <1>6, <1>10
  <2>2. after <=>
          /\ i = 1 \/ ~Failed(f[i - 1])
          /\ Failed(f[i]) /\ Failed(f[i + 1]) /\ outcome # "succeeded"
    BY <1>1, <1>4, <1>7, <1>8, <2>1
  <2>3. ~before
    BY <1>1, <1>5, <1>6, <1>10
  <2>4. CASE n = 2
    <3>1. i \in (m - n + 1)..m /\ i + 1 \in (m - n + 1)..m
      BY <1>1, <1>6, <1>10, <2>4
    <3>2. i = 1 \/ ~Failed(f[i - 1])
      <4>1. i # 1 => n < m /\ i - 1 = m - n
        BY <1>1, <1>6, <1>10, <2>4
      <4> QED BY <1>2, <4>1
    <3> QED BY <1>1, <1>2, <1>6, <1>10, <2>2, <2>3, <2>4, <3>1, <3>2
  <2>5. CASE n # 2
    <3>1. CASE n = 0
      <4>1. n < m /\ i + 1 = m - n
        BY <1>1, <1>6, <1>10, <3>1
      <4> QED BY <1>1, <1>2, <1>6, <2>2, <2>3, <2>5, <4>1
    <3>2. CASE n = 1
      <4>1. n < m /\ i = m - n
        BY <1>1, <1>6, <1>10, <3>2
      <4> QED BY <1>1, <1>2, <1>6, <2>2, <2>3, <2>5, <4>1
    <3>3. CASE n > 2
      <4>1. i # 1 /\ i - 1 \in (m - n + 1)..m
        BY <1>1, <1>2, <1>6, <1>10, <3>3
      <4>2. Failed(f[i - 1])
        BY <1>2, <4>1
      <4> QED BY <1>1, <1>6, <2>2, <2>3, <2>5, <4>1, <4>2
    <3>4. n = 0 \/ n = 1 \/ n > 2
      BY <1>1, <2>5
    <3> QED BY <3>1, <3>2, <3>3, <3>4
  <2> QED BY <2>4, <2>5
<1>11. CASE i = m
  <2>1. ~(i + 2 <= m) /\ ~(i + 2 <= m + 1) /\ i # m - 1
    BY <1>1, <1>11
  <2> QED BY <1>1, <1>4, <1>5, <1>6, <2>1
<1>12. i + 2 <= m \/ i = m - 1 \/ i = m
  BY <1>1, <1>6
<1> QED BY <1>9, <1>10, <1>11, <1>12

(* The starts of the episodes of three have their events, still.            *)
LEMMA EventsGoOn ==
  ASSUME IInv, NEW s, NEW t, NEW outcome, Ended(s, t, outcome)
  PROVE  EventsAtStarts'
<1> DEFINE f == finished[s]
           m == Len(f)
           third == outcome # "succeeded" /\ health[s].failures = 2
<1>1. /\ DOMAIN f = 1..m /\ m \in Nat /\ s \in Sources
      /\ DOMAIN finished'[s] = 1..(m + 1) /\ Len(finished'[s]) = m + 1
      /\ \A j \in DOMAIN f : finished'[s][j] = f[j]
      /\ finished'[s][m + 1] = t
      /\ \A u \in Sources \ {s} : finished'[u] = finished[u]
      /\ \A u \in Sources : \A i \in DOMAIN finished[u] : finished[u][i] # t
  BY DEF Ended
<1>2. \A r : r \in notified' <=> r \in notified \/ (third /\ r = f[m - 1])
  BY EventMade
<1>3. third => m - 1 \in DOMAIN f
  <2>1. health[s].failures <= m
    BY <1>1 DEF IInv, CountsLastRun
  <2> QED BY <1>1, <2>1
<1>4. /\ \A r \in notified : \E u \in Sources : \E i \in DOMAIN finished[u] :
           finished[u][i] = r
      /\ \A u \in Sources : \A i \in DOMAIN finished[u] :
           finished[u][i] \in notified <=> Starts(finished[u], i)
  BY DEF IInv, EventsAtStarts
<1>5. \A u \in Sources : \A i \in DOMAIN finished[u] :
        /\ task[finished[u][i]].source = u
        /\ \A j \in DOMAIN finished[u] : finished[u][j] = finished[u][i] => j = i
  BY DEF IInv, FinishedOnce
<1> HIDE DEF f, m, third
<1>6. ASSUME NEW u \in Sources, NEW i \in DOMAIN finished[u]
      PROVE  i \in DOMAIN finished'[u] /\ finished'[u][i] = finished[u][i]
  BY <1>1 DEF f, m
<1>7. ASSUME NEW r \in notified'
      PROVE  \E u \in Sources : \E i \in DOMAIN finished'[u] : finished'[u][i] = r
  <2>1. \E u \in Sources : \E i \in DOMAIN finished[u] : finished[u][i] = r
    BY <1>1, <1>2, <1>3, <1>4, <1>7 DEF f
  <2> QED BY <1>6, <2>1
<1>8. ASSUME NEW u \in Sources, NEW i \in DOMAIN finished'[u]
      PROVE  finished'[u][i] \in notified' <=> Starts(finished[u], i)'
  <2>1. CASE u # s
    <3>1. finished'[u] = finished[u]
      BY <1>1, <2>1
    <3>2. third => finished[u][i] # f[m - 1]
      BY <1>1, <1>3, <1>5, <1>8, <2>1, <3>1 DEF f
    <3>3. Starts(finished[u], i)' <=> Starts(finished[u], i)
      <4> DEFINE h == finished[u]
      <4>1. /\ DOMAIN h = 1..Len(h) /\ Len(h) \in Nat
            /\ i \in DOMAIN h
        BY <1>8, <3>1, Shapes
      <4>2. \A j \in DOMAIN h : task'[h[j]].status # "succeeded" <=> Failed(h[j])
        BY EarlierKept
      <4>3. i = 1 \/ i - 1 \in DOMAIN h
        BY <4>1
      <4>4. i + 2 <= Len(h) => \A j \in i..(i + 2) : j \in DOMAIN h
        BY <4>1
      <4>5. Starts(finished[u], i)' <=>
              /\ i = 1 \/ ~(task'[h[i - 1]].status # "succeeded")
              /\ i + 2 <= Len(h)
              /\ \A j \in i..(i + 2) : task'[h[j]].status # "succeeded"
        BY <3>1 DEF Starts, Failed
      <4>6. Starts(finished[u], i) <=> /\ i = 1 \/ ~Failed(h[i - 1])
                                      /\ i + 2 <= Len(h)
                                      /\ \A j \in i..(i + 2) : Failed(h[j])
        BY DEF Starts
      <4> HIDE DEF h
      <4> QED BY <4>1, <4>2, <4>3, <4>4, <4>5, <4>6
    <3> QED BY <1>2, <1>4, <1>8, <3>1, <3>2, <3>3
  <2>2. CASE u = s /\ i \in DOMAIN f
    <3>1. /\ finished'[s][i] = f[i]
          /\ Starts(finished[s], i)' <=>
               Starts(finished[s], i) \/ (third /\ i = m - 1)
      BY <2>2, EpisodeGrows DEF f, m, third
    <3>2. f[i] \in notified <=> Starts(finished[s], i)
      BY <1>1, <1>4, <2>2 DEF f
    <3>3. third => (f[i] = f[m - 1] <=> i = m - 1)
      BY <1>1, <1>3, <1>5, <2>2 DEF f
    <3> QED BY <1>2, <2>2, <3>1, <3>2, <3>3
  <2>3. CASE u = s /\ i \notin DOMAIN f
    <3>1. i = m + 1 /\ finished'[s][i] = t
      BY <1>1, <1>8, <2>3
    <3>2. t \notin notified'
      BY <1>1, <1>2, <1>3, <1>4 DEF f
    <3>3. ~(i + 2 <= Len(finished'[s]))
      BY <1>1, <3>1
    <3>4. ~Starts(finished[s], i)'
      BY <3>3 DEF Starts
    <3> QED BY <2>3, <3>1, <3>2, <3>4
  <2> QED BY <2>1, <2>2, <2>3
<1> QED BY <1>7, <1>8 DEF EventsAtStarts
(* A finished crawl ends its task, or finds it ended.                       *)
LEMMA FinishKeeps ==
  ASSUME IInv, NEW k \in Collectors, Finish(k)
  PROVE  IInv'
<1> DEFINE t == collector[k].task
           s == task[t].source
           outcome == Outcome(collector[k].crawl)
<1>1. /\ collector' = [collector EXCEPT ![k] = Idle]
      /\ enabled' = enabled /\ caller' = caller
  BY DEF Finish
<1>2. enabled' \subseteq Sources /\ caller' \in [Callers -> Caller]
  BY <1>1 DEF IInv, TypeOK
<1>3. CASE task[t].status \notin Active
  <2>1. UNCHANGED <<task, health, finished, notified>> /\ task' = task
    BY <1>3 DEF Finish
  <2>2. collector' \in [Collectors -> Collector] /\ WorkFits'
    BY <1>1, <2>1, IdleFits, CollectorMoves
  <2> QED BY <1>2, <2>1, <2>2, QuietStep
<1>4. CASE task[t].status \in Active
  <2>1. Ended(s, t, outcome) /\ task' \in Seq(Task) /\ Len(task') = Len(task)
    BY <1>4, FinishEnds
  <2>2. /\ health' = [health EXCEPT ![s] = HealthAfter(health[s], t, outcome)]
        /\ finished' = [finished EXCEPT ![s] = Append(@, t)]
    BY <1>4 DEF Finish
  <2> HIDE DEF s, t, outcome
  <2>3. /\ s \in Sources /\ t \in Tasks /\ DOMAIN task' = DOMAIN task
        /\ finished'[s] \in Seq(Tasks)
        /\ \A u \in Sources \ {s} : finished'[u] = finished[u]
    BY <2>1 DEF Ended
  <2>4. collector' \in [Collectors -> Collector] /\ WorkFits'
    BY <1>1, <2>3, IdleFits, CollectorMoves
  <2>5. health' \in [Sources -> Health]
    <3>1. health \in [Sources -> Health] /\ health[s] \in Health
      BY <2>3 DEF IInv, TypeOK
    <3>2. HealthAfter(health[s], t, outcome) \in Health
      BY <2>3, <3>1 DEF HealthAfter, Healthy, Health, Nullable
    <3> QED BY <2>2, <3>1, <3>2
  <2>6. finished' \in [Sources -> Seq(Tasks)]
    <3>1. /\ finished \in [Sources -> Seq(Tasks)]
          /\ \A u \in Sources : finished'[u] \in Seq(Tasks)
      BY <2>3 DEF IInv, TypeOK
    <3> QED BY <2>2, <3>1
  <2>7. notified' \subseteq Tasks
    <3> DEFINE f == finished[s]
    <3>1. \A r \in notified' : r \in notified
            \/ (health[s].failures = 2 /\ r = f[Len(f) - 1])
      BY <2>1, EventMade
    <3>2. health[s].failures = 2 => Len(f) - 1 \in DOMAIN f
      <4>1. health[s].failures <= Len(f)
        BY <2>3 DEF IInv, CountsLastRun
      <4>2. DOMAIN f = 1..Len(f) /\ Len(f) \in Nat
        BY <2>1 DEF Ended
      <4> QED BY <4>1, <4>2
    <3>3. \A i \in DOMAIN f : f[i] \in Tasks
      BY <2>3, Shapes, ElementOfSeq
    <3> HIDE DEF f
    <3> QED BY <3>1, <3>2, <3>3 DEF IInv, TypeOK
  <2>8. TypeOK'
    BY <1>2, <2>1, <2>4, <2>5, <2>6, <2>7 DEF TypeOK
  <2>9. FinishedOnce'
    <3>1. Len(task') <= MaxTasks
      BY <2>1 DEF IInv, FinishedOnce
    <3>2. /\ DOMAIN task' = DOMAIN task /\ t \in DOMAIN task
          /\ task'[t].source = s /\ task'[t].status \notin Active
          /\ \A r \in DOMAIN task : r # t => task'[r] = task[r]
          /\ \A u \in Sources : \A i \in DOMAIN finished[u] : finished[u][i] # t
          /\ DOMAIN finished[s] = 1..Len(finished[s]) /\ Len(finished[s]) \in Nat
          /\ DOMAIN finished'[s] = 1..(Len(finished[s]) + 1)
          /\ \A i \in DOMAIN finished[s] : finished'[s][i] = finished[s][i]
          /\ finished'[s][Len(finished[s]) + 1] = t
      BY <2>1 DEF Ended, Active
    <3>3. \A u \in Sources : \A i \in DOMAIN finished[u] :
            /\ finished[u][i] \in DOMAIN task'
            /\ task'[finished[u][i]].source = u
            /\ task'[finished[u][i]].status \notin Active
            /\ \A j \in DOMAIN finished[u] : finished[u][j] = finished[u][i] => j = i
      BY <3>2 DEF IInv, FinishedOnce
    <3>4. ASSUME NEW u \in Sources, NEW i \in DOMAIN finished'[u]
          PROVE  /\ finished'[u][i] \in DOMAIN task'
                 /\ task'[finished'[u][i]].source = u
                 /\ task'[finished'[u][i]].status \notin Active
                 /\ \A j \in DOMAIN finished'[u] :
                      finished'[u][j] = finished'[u][i] => j = i
      <4>1. CASE u # s
        BY <2>3, <3>3, <3>4, <4>1
      <4>2. CASE u = s /\ i \in DOMAIN finished[s]
        <5>1. finished'[s][i] = finished[s][i] /\ finished[s][i] # t
          BY <2>3, <3>2, <4>2
        <5>2. \A j \in DOMAIN finished'[s] : j \in DOMAIN finished[s] \/ finished'[s][j] = t
          BY <3>2
        <5> QED BY <2>3, <3>2, <3>3, <4>2, <5>1, <5>2
      <4>3. CASE u = s /\ i \notin DOMAIN finished[s]
        <5>1. i = Len(finished[s]) + 1 /\ finished'[s][i] = t
          BY <3>2, <3>4, <4>3
        <5>2. \A j \in DOMAIN finished'[s] : finished'[s][j] = t => j = i
          BY <2>3, <3>2, <5>1
        <5> QED BY <3>2, <4>3, <5>1, <5>2
      <4> QED BY <4>1, <4>2, <4>3
    <3> QED BY <3>1, <3>4 DEF FinishedOnce
  <2>10. CountsLastRun' /\ EventsAtStarts'
    BY <2>1, CountGoesOn, EventsGoOn
  <2> QED BY <2>4, <2>8, <2>9, <2>10 DEF IInv
<1> QED BY <1>3, <1>4

-------------------------------------------------------------------------------
(* The invariant holds, and with it what the run checks.                    *)

(* At the start no task has been created.                                   *)
LEMMA InitOK == Init => IInv
<1> SUFFICES ASSUME Init  PROVE IInv
  OBVIOUS
<1>1. /\ enabled = Sources /\ health = [s \in Sources |-> Healthy]
      /\ task = <<>> /\ finished = [s \in Sources |-> <<>>] /\ notified = {}
      /\ caller = [c \in Callers |-> Away] /\ collector = [k \in Collectors |-> Idle]
  BY DEF Init
<1>2. Healthy \in Health /\ Healthy.failures = 0
      /\ Healthy.started = NoValue /\ Healthy.last = NoValue
  BY DEF Healthy, Health, Nullable
<1>3. TypeOK
  BY <1>1, <1>2, IdleFits DEF TypeOK
<1>4. WorkFits
  BY <1>1, IdleFits DEF WorkFits
<1>5. FinishedOnce
  BY <1>1, MaxTasksAssumption DEF FinishedOnce
<1>6. \A s \in Sources : finished[s] = <<>> /\ health[s] = Healthy
  BY <1>1
<1>7. CountsLastRun
  <2>1. Len(<<>>) = 0
    OBVIOUS
  <2>2. \A s \in Sources :
          /\ health[s].failures = 0 /\ health[s].started = NoValue
          /\ health[s].last = NoValue
          /\ Len(finished[s]) = 0 /\ finished[s] = <<>>
    BY <1>2, <1>6, <2>1
  <2> SUFFICES ASSUME NEW s \in Sources
               PROVE  LET f == finished[s]
                          n == health[s].failures
                      IN  /\ n <= Len(f)
                          /\ \A j \in (Len(f) - n + 1)..Len(f) : Failed(f[j])
                          /\ n < Len(f) => ~Failed(f[Len(f) - n])
                          /\ health[s].started =
                               IF n = 0 THEN NoValue ELSE f[Len(f) - n + 1]
                          /\ health[s].last = IF f = <<>> THEN NoValue ELSE f[Len(f)]
    BY DEF CountsLastRun
  <2> DEFINE f == finished[s]
             n == health[s].failures
  <2>3. n = 0 /\ Len(f) = 0 /\ f = <<>>
    BY <2>2
  <2>4. health[s].started = NoValue /\ health[s].last = NoValue
    BY <2>2
  <2> HIDE DEF f, n
  <2>5. n <= Len(f) /\ ~(n < Len(f)) /\ (Len(f) - n + 1)..Len(f) = {}
    BY <2>3
  <2>6. \A j \in (Len(f) - n + 1)..Len(f) : Failed(f[j])
    BY <2>5
  <2> QED BY <2>3, <2>4, <2>5, <2>6, Zenon DEF f, n
<1>8. EventsAtStarts
  BY <1>1, <1>6 DEF EventsAtStarts
<1> QED BY <1>3, <1>4, <1>5, <1>7, <1>8 DEF IInv

(* No step of a caller or a collector breaks it.                            *)
LEMMA NextKeeps == IInv /\ [Next]_vars => IInv'
<1> SUFFICES ASSUME IInv, [Next]_vars  PROVE IInv'
  OBVIOUS
<1>1. ASSUME NEW c \in Callers, CallerStep(c)  PROVE IInv'
  <2>1. CASE Abandon(c)
    BY <2>1, QuietCallerKeeps
  <2>2. CASE \E s \in Sources :
               (c \in Requests /\ OpenRequest(c, s))
                 \/ AlreadyRunning(c, s) \/ NotCollectable(c, s)
    BY <2>2, QuietCallerKeeps
  <2>3. CASE \E s \in Sources : Create(c, s)
    BY <2>3, CreateKeeps
  <2> QED BY <1>1, <2>1, <2>2, <2>3 DEF CallerStep
<1>2. ASSUME NEW k \in Collectors, CollectorStep(k)  PROVE IInv'
  <2>1. CASE \E locked \in SUBSET DOMAIN task : ClaimNext(k, locked)
    BY <2>1, ClaimKeeps
  <2>2. CASE (\E crawl \in Crawl : RunSpiders(k, crawl)) \/ Crash(k)
    BY <2>2, CrawlKeeps
  <2>3. CASE Finish(k)
    BY <2>3, FinishKeeps
  <2> QED BY <1>2, <2>1, <2>2, <2>3 DEF CollectorStep
<1>3. CASE (\E s \in Sources : Toggle(s)) \/ StartSchedule
  BY <1>3, QuietCallerKeeps
<1>4. CASE UNCHANGED vars
  <2>1. UNCHANGED <<task, health, finished, notified>>
        /\ enabled' = enabled /\ caller' = caller /\ collector' = collector
        /\ task' = task
    BY <1>4 DEF vars
  <2> QED BY <2>1, QuietStep DEF IInv, TypeOK, WorkFits
<1> QED BY <1>1, <1>2, <1>3, <1>4 DEF Next

(* The invariant of callers, collectors and health.                         *)
THEOREM CollectionInvariance == Spec => []IInv
BY InitOK, NextKeeps, PTL DEF Spec

(* Rows, callers and collectors keep their shapes.                          *)
THEOREM CollectionTypes == Spec => []TypeOK
<1>1. IInv => TypeOK
  BY DEF IInv
<1> QED BY <1>1, CollectionInvariance, PTL

(* The counter of the last run is the one that the design describes.        *)
LEMMA LastRunIsEpisode ==
  ASSUME IInv
  PROVE  HealthCountsOutcomes
<1> SUFFICES ASSUME NEW s \in Sources
             PROVE  LET f == finished[s]
                    IN  /\ health[s].last = IF f = <<>> THEN NoValue ELSE f[Len(f)]
                        /\ IF EpisodeStart(f) = {}
                             THEN health[s].failures = 0 /\ health[s].started = NoValue
                             ELSE \A i \in EpisodeStart(f) :
                                    /\ health[s].failures = Len(f) - i + 1
                                    /\ health[s].started = f[i]
  BY DEF HealthCountsOutcomes
<1> DEFINE f == finished[s]
           m == Len(f)
           n == health[s].failures
<1>1. /\ DOMAIN f = 1..m /\ m \in Nat /\ n \in Nat
  BY Shapes
<1>2. /\ n <= m
      /\ \A j \in (m - n + 1)..m : Failed(f[j])
      /\ n < m => ~Failed(f[m - n])
      /\ health[s].started = IF n = 0 THEN NoValue ELSE f[m - n + 1]
      /\ health[s].last = IF f = <<>> THEN NoValue ELSE f[m]
  BY DEF IInv, CountsLastRun
<1>3. \A i : i \in EpisodeStart(f) <=>
        /\ i \in DOMAIN f
        /\ \A j \in i..m : Failed(f[j])
        /\ i = 1 \/ ~Failed(f[i - 1])
  BY DEF EpisodeStart
<1> SUFFICES IF EpisodeStart(f) = {}
               THEN n = 0 /\ health[s].started = NoValue
               ELSE \A i \in EpisodeStart(f) :
                      n = m - i + 1 /\ health[s].started = f[i]
  BY <1>2
<1> HIDE DEF f, m, n
<1>4. CASE n = 0
  <2>1. ASSUME NEW i \in EpisodeStart(f)  PROVE FALSE
    <3>1. i \in 1..m /\ \A j \in i..m : Failed(f[j])
      BY <1>1, <1>3, <2>1
    <3>2. Failed(f[m]) /\ m - n = m /\ n < m
      BY <1>1, <1>4, <3>1
    <3> QED BY <1>2, <3>2
  <2>2. EpisodeStart(f) = {}
    BY <2>1
  <2> QED BY <1>2, <1>4, <2>2
<1>5. CASE n # 0
  <2>1. m - n + 1 \in EpisodeStart(f)
    <3>1. m - n + 1 \in DOMAIN f
      BY <1>1, <1>2, <1>5
    <3>2. m - n + 1 = 1 \/ ~Failed(f[m - n + 1 - 1])
      <4>1. m - n + 1 # 1 => n < m /\ m - n + 1 - 1 = m - n
        BY <1>1, <1>2
      <4> QED BY <1>2, <4>1
    <3> DEFINE i == m - n + 1
    <3>3. \A j \in i..m : Failed(f[j])
      BY <1>2
    <3>4. i = 1 \/ ~Failed(f[i - 1])
      BY <1>1, <3>2
    <3>5. i \in DOMAIN f
      BY <3>1
    <3> HIDE DEF i
    <3>6. i \in EpisodeStart(f)
      BY <1>3, <3>3, <3>4, <3>5
    <3> QED BY <3>6 DEF i
  <2>2. ASSUME NEW i \in EpisodeStart(f)  PROVE i = m - n + 1
    <3>1. /\ i \in 1..m /\ \A j \in i..m : Failed(f[j])
          /\ i = 1 \/ ~Failed(f[i - 1])
      BY <1>1, <1>3, <2>2
    <3>2. CASE i < m - n + 1
      <4>1. m - n \in i..m /\ n < m
        BY <1>1, <1>2, <1>5, <3>1, <3>2
      <4> QED BY <1>2, <3>1, <4>1
    <3>3. CASE i > m - n + 1
      <4>1. i # 1 /\ i - 1 \in (m - n + 1)..m
        BY <1>1, <1>2, <3>1, <3>3
      <4> QED BY <1>2, <3>1, <4>1
    <3> QED BY <1>1, <3>1, <3>2, <3>3
  <2>3. \A i \in EpisodeStart(f) : n = m - i + 1 /\ health[s].started = f[i]
    <3>1. n = m - (m - n + 1) + 1
      BY <1>1
    <3>2. health[s].started = f[m - n + 1]
      BY <1>2, <1>5
    <3> QED BY <2>2, <3>1, <3>2
  <2> QED BY <2>1, <2>3
<1> QED BY <1>4, <1>5

(* Design section 7.4, for any number of sources and collectors: the health *)
(* of a source is what its finished tasks say, in the order they finished. *)
THEOREM HealthIsCounted == Spec => []HealthCountsOutcomes
BY LastRunIsEpisode, CollectionInvariance, PTL

(* The events are those of the episodes of at least three failures.         *)
LEMMA EventsAreEpisodes ==
  ASSUME IInv
  PROVE  OneEventPerEpisode
<1> SUFFICES ASSUME NEW t \in DOMAIN task
             PROVE  t \in notified <=>
                      \E i \in DOMAIN finished[task[t].source] :
                        finished[task[t].source][i] = t
                        /\ Starts(finished[task[t].source], i)
  BY DEF OneEventPerEpisode, Starts
<1> DEFINE s == task[t].source
<1>1. s \in Sources
  <2>1. task[t] \in Task
    BY Shapes
  <2> QED BY <2>1 DEF Task
<1>2. ASSUME t \in notified
      PROVE  \E i \in DOMAIN finished[s] : finished[s][i] = t /\ Starts(finished[s], i)
  <2>1. PICK u \in Sources : \E i \in DOMAIN finished[u] : finished[u][i] = t
    BY <1>2 DEF IInv, EventsAtStarts
  <2>2. u = s
    BY <2>1 DEF IInv, FinishedOnce
  <2> QED BY <1>1, <1>2, <2>1, <2>2 DEF IInv, EventsAtStarts
<1>3. ASSUME NEW i \in DOMAIN finished[s], finished[s][i] = t, Starts(finished[s], i)
      PROVE  t \in notified
  BY <1>1, <1>3 DEF IInv, EventsAtStarts
<1> QED BY <1>2, <1>3

(* Each failing episode of three tasks or more has exactly one event, and   *)
(* nothing else has one, in whatever order collectors finish.              *)
THEOREM EventsPerEpisode == Spec => []OneEventPerEpisode
BY EventsAreEpisodes, CollectionInvariance, PTL
===============================================================================
