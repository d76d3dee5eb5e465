---------------------------- MODULE CollectionTasks ----------------------------
(***************************************************************************)
(* Collection tasks of the policy sources: owners and the daily scheduler  *)
(* create them, collectors claim, crawl and finish them, and their         *)
(* outcomes make the health of the source (app/modules/collection/         *)
(* service.py, workers/scheduler.py, workers/collector.py).                *)
(*                                                                         *)
(* Creating a task is two steps: the caller's transaction takes its        *)
(* snapshot with its first SELECT, and only later locks the source; the    *)
(* search for an active task under that lock still reads the snapshot.     *)
(***************************************************************************)
EXTENDS Naturals, Sequences

CONSTANTS
  Sources,    \* sources with a ready adapter
  Requests,   \* owners' requests (POST /api/sources/{id}/collect)
  Scheduler,  \* the scheduler's daily job
  Collectors, \* collector processes
  MaxTasks,   \* bound: tasks created
  Toggling,   \* BOOLEAN: sources are enabled and disabled meanwhile
  NoValue     \* SQL NULL

ASSUME MaxTasksAssumption == MaxTasks \in Nat
ASSUME NoValueAssumption == NoValue \notin Nat
ASSUME CallersAssumption == Scheduler \notin Requests
ASSUME TogglingAssumption == Toggling \in BOOLEAN

VARIABLES
  enabled,   \* policy_sources.is_enabled
  health,    \* table source_health_states, by source
  task,      \* table collection_tasks, by id
  finished,  \* ids of a source's finished tasks in the order of finished_at
  notified,  \* source-failure events, each by its episode's first task
  caller,    \* what each request and the daily job know
  collector  \* what each collector process holds in memory

vars == <<enabled, health, task, finished, notified, caller, collector>>

Nullable(S) == S \cup {NoValue}

Callers == Requests \cup {Scheduler}
Tasks == 1..MaxTasks
Statuses == {"pending", "running", "succeeded", "partial_failed", "failed"}
Active == {"pending", "running"}

Task == [source: Sources, status: Statuses]

Health == [failures: Nat, started: Nullable(Tasks), last: Nullable(Tasks)]

(* open: the caller's transaction has its snapshot, active and enabled are  *)
(* the sources it shows as such; todo: the sources still to be asked for.  *)
Caller ==
  [open: BOOLEAN, todo: SUBSET Sources, active: SUBSET Sources,
   enabled: SUBSET Sources]

(* What a crawl leaves: some items stored, some failed, all spiders exited  *)
(* with 0.                                                                 *)
Crawl == [succeeded: BOOLEAN, failed: BOOLEAN, clean: BOOLEAN]

Collector ==
  [pc: {"idle", "crawling", "crawled"}, task: Nullable(Tasks),
   crawl: Nullable(Crawl)]

Away == [open |-> FALSE, todo |-> {}, active |-> {}, enabled |-> {}]
Idle == [pc |-> "idle", task |-> NoValue, crawl |-> NoValue]
Healthy == [failures |-> 0, started |-> NoValue, last |-> NoValue]

Init ==
  /\ enabled = Sources
  /\ health = [s \in Sources |-> Healthy]
  /\ task = <<>>
  /\ finished = [s \in Sources |-> <<>>]
  /\ notified = {}
  /\ caller = [c \in Callers |-> Away]
  /\ collector = [k \in Collectors |-> Idle]

-------------------------------------------------------------------------------
(* Creating tasks.                                                         *)

Toggle(s) ==
  /\ Toggling
  /\ enabled' = IF s \in enabled THEN enabled \ {s} ELSE enabled \cup {s}
  /\ UNCHANGED <<health, task, finished, notified, caller, collector>>

ActiveSources(t) ==
  {t[i].source : i \in {j \in DOMAIN t : t[j].status \in Active}}

(* A transaction that still has to ask for the sources in todo.            *)
Snapshot(todo, t) ==
  IF todo = {} THEN Away
  ELSE [open |-> TRUE, todo |-> todo, active |-> ActiveSources(t),
        enabled |-> enabled]

(* An owner asks for one source: get_current_user reads the user.          *)
OpenRequest(c, s) ==
  /\ ~caller[c].open
  /\ caller' = [caller EXCEPT ![c] = Snapshot({s}, task)]
  /\ UNCHANGED <<enabled, health, task, finished, notified, collector>>

(* enqueue_daily_collections reads the enabled sources.                    *)
StartSchedule ==
  /\ ~caller[Scheduler].open
  /\ enabled # {}
  /\ caller' = [caller EXCEPT ![Scheduler] = Snapshot(enabled, task)]
  /\ UNCHANGED <<enabled, health, task, finished, notified, collector>>

(* create: the source is locked, everything else is the snapshot's.  After  *)
(* the commit, db.refresh opens the caller's next transaction.             *)
Create(c, s) ==
  LET created == Append(task, [source |-> s, status |-> "pending"])
  IN  /\ caller[c].open
      /\ s \in caller[c].todo
      /\ s \in caller[c].enabled
      /\ s \notin caller[c].active
      /\ Len(task) < MaxTasks
      /\ task' = created
      /\ caller' = [caller EXCEPT ![c] = Snapshot(@.todo \ {s}, created)]
      /\ UNCHANGED <<enabled, health, finished, notified, collector>>

(* CollectionAlreadyRunning: a request is answered with 409; the daily job  *)
(* goes on with the next source, in the same transaction.                  *)
AlreadyRunning(c, s) ==
  /\ caller[c].open
  /\ s \in caller[c].todo
  /\ s \in caller[c].enabled
  /\ s \in caller[c].active
  /\ caller' = IF caller[c].todo = {s}
                 THEN [caller EXCEPT ![c] = Away]
                 ELSE [caller EXCEPT ![c].todo = @ \ {s}]
  /\ UNCHANGED <<enabled, health, task, finished, notified, collector>>

(* SourceNotCollectable: 409, and the end of the daily job, which does not  *)
(* catch it.                                                               *)
NotCollectable(c, s) ==
  /\ caller[c].open
  /\ s \in caller[c].todo
  /\ s \notin caller[c].enabled
  /\ caller' = [caller EXCEPT ![c] = Away]
  /\ UNCHANGED <<enabled, health, task, finished, notified, collector>>

(* The process ends in the middle and is restarted; the open transaction is  *)
(* rolled back, the tasks created before it remain.                        *)
Abandon(c) ==
  /\ caller[c].open
  /\ caller' = [caller EXCEPT ![c] = Away]
  /\ UNCHANGED <<enabled, health, task, finished, notified, collector>>

-------------------------------------------------------------------------------
(* The collector: one run_once after the other.                            *)

(* Variant: a task is claimed only while no other task is running.         *)
ClaimableAlone ==
  {t \in DOMAIN task : /\ task[t].status = "pending"
                       /\ \A u \in DOMAIN task : task[u].status # "running"}

Claimable == {t \in DOMAIN task : task[t].status = "pending"}

(* claim_next: the oldest row that no other transaction has locked.        *)
ClaimNext(k, locked) ==
  /\ collector[k].pc = "idle"
  /\ \E t \in Claimable \ locked :
       /\ \A u \in Claimable \ locked : t <= u
       /\ task' = [task EXCEPT ![t].status = "running"]
       /\ collector' = [collector EXCEPT ![k] =
                          [Idle EXCEPT !.pc = "crawling", !.task = t]]
  /\ UNCHANGED <<enabled, health, finished, notified, caller>>

(* One spider per enabled channel, each storing its items as it goes.      *)
RunSpiders(k, crawl) ==
  /\ collector[k].pc = "crawling"
  /\ collector' = [collector EXCEPT ![k] =
                     [@ EXCEPT !.pc = "crawled", !.crawl = crawl]]
  /\ UNCHANGED <<enabled, health, task, finished, notified, caller>>

(* Variant: a status that the ENUM column does not know.                   *)
OutcomeOfExit(crawl) == IF crawl.clean THEN "succeeded" ELSE "exited"

(* finish_from_items.                                                      *)
Outcome(crawl) ==
  CASE crawl.succeeded /\ crawl.failed -> "partial_failed"
    [] crawl.succeeded /\ ~crawl.failed /\ crawl.clean -> "succeeded"
    [] OTHER -> "failed"

(* Variant: only a task that failed altogether is a failure.               *)
HealthForgiving(h, t, outcome) ==
  IF outcome # "failed" THEN [Healthy EXCEPT !.last = t]
  ELSE [failures |-> h.failures + 1, last |-> t,
        started |-> IF h.failures = 0 THEN t ELSE h.started]

(* Variant: the episode is named after its latest failure.                 *)
HealthRestarting(h, t, outcome) ==
  IF outcome = "succeeded" THEN [Healthy EXCEPT !.last = t]
  ELSE [failures |-> h.failures + 1, last |-> t, started |-> t]

(* record_source_task_outcome, for a task it has not processed yet.        *)
HealthAfter(h, t, outcome) ==
  IF outcome = "succeeded" THEN [Healthy EXCEPT !.last = t]
  ELSE [failures |-> h.failures + 1, last |-> t,
        started |-> IF h.failures = 0 THEN t ELSE h.started]

(* The third failure in a row is an event, keyed by the episode's start.   *)
EventOf(h) == IF h.failures = 3 THEN {h.started} ELSE {}

(* finish_from_items with record_source_task_outcome, in one transaction;   *)
(* a task that is finished already is returned as it is.                   *)
Finish(k) ==
  LET t == collector[k].task
      s == task[t].source
      outcome == Outcome(collector[k].crawl)
      after == HealthAfter(health[s], t, outcome)
  IN  /\ collector[k].pc = "crawled"
      /\ IF task[t].status \in Active
           THEN /\ task' = [task EXCEPT ![t].status = outcome]
                /\ finished' = [finished EXCEPT ![s] = Append(@, t)]
                /\ health' = [health EXCEPT ![s] = after]
                /\ notified' = IF outcome = "succeeded" THEN notified
                               ELSE notified \cup EventOf(after)
           ELSE UNCHANGED <<task, finished, health, notified>>
      /\ collector' = [collector EXCEPT ![k] = Idle]
      /\ UNCHANGED <<enabled, caller>>

(* The container dies and is restarted ("restart: unless-stopped").        *)
Crash(k) ==
  /\ collector[k].pc # "idle"
  /\ collector' = [collector EXCEPT ![k] = Idle]
  /\ UNCHANGED <<enabled, health, task, finished, notified, caller>>

-------------------------------------------------------------------------------
CallerStep(c) ==
  \/ Abandon(c)
  \/ \E s \in Sources :
       \/ c \in Requests /\ OpenRequest(c, s)
       \/ Create(c, s)
       \/ AlreadyRunning(c, s)
       \/ NotCollectable(c, s)

CollectorStep(k) ==
  \/ \E locked \in SUBSET DOMAIN task : ClaimNext(k, locked)
  \/ \E crawl \in Crawl : RunSpiders(k, crawl)
  \/ Finish(k)
  \/ Crash(k)

Next ==
  \/ \E s \in Sources : Toggle(s)
  \/ StartSchedule
  \/ \E c \in Callers : CallerStep(c)
  \/ \E k \in Collectors : CollectorStep(k)

Spec == Init /\ [][Next]_vars

(* Collectors run, also after a restart, and spiders end; locks last one    *)
(* short transaction, so a claim finds the rows free again and again.      *)
FairSpec ==
  /\ Spec
  /\ \A k \in Collectors :
       /\ SF_vars(ClaimNext(k, {}))
       /\ WF_vars(\E crawl \in Crawl : RunSpiders(k, crawl))
       /\ WF_vars(Finish(k))

-------------------------------------------------------------------------------
(* Properties.                                                             *)

(* Rows, events, callers and collectors have their shapes.                 *)
TypeOK ==
  /\ enabled \subseteq Sources
  /\ health \in [Sources -> Health]
  /\ task \in Seq(Task)
  /\ finished \in [Sources -> Seq(Tasks)]
  /\ notified \subseteq Tasks
  /\ caller \in [Callers -> Caller]
  /\ collector \in [Collectors -> Collector]

Failed(t) == task[t].status # "succeeded"

(* The start of the failing episode that the sequence f ends in, if any.   *)
EpisodeStart(f) ==
  {i \in DOMAIN f :
     /\ \A j \in i..Len(f) : Failed(f[j])
     /\ i = 1 \/ ~Failed(f[i - 1])}

(* Design section 7.4: the health of a source is what its finished tasks    *)
(* say, in the order they finished: how many of the last ones failed in a  *)
(* row and which was the first of them, although collectors finish tasks   *)
(* of one source side by side and tasks of other sources in between.       *)
HealthCountsOutcomes ==
  \A s \in Sources :
    LET f == finished[s]
    IN  /\ health[s].last = IF f = <<>> THEN NoValue ELSE f[Len(f)]
        /\ IF EpisodeStart(f) = {}
             THEN health[s].failures = 0 /\ health[s].started = NoValue
             ELSE \A i \in EpisodeStart(f) :
                    /\ health[s].failures = Len(f) - i + 1
                    /\ health[s].started = f[i]

(* Each failing episode of at least three tasks has its one event, from its *)
(* third failure on, and nothing else has one.                             *)
OneEventPerEpisode ==
  \A t \in DOMAIN task :
    t \in notified <=>
      \E i \in DOMAIN finished[task[t].source] :
        LET f == finished[task[t].source]
        IN  /\ f[i] = t
            /\ i = 1 \/ ~Failed(f[i - 1])
            /\ i + 2 <= Len(f)
            /\ \A j \in i..(i + 2) : Failed(f[j])

(* A running task that no collector holds.                                 *)
Lost(t) ==
  /\ task[t].status = "running"
  /\ \A k \in Collectors : collector[k].task # t

(* A created task is finished, or its collector died while it was running   *)
(* (and then nothing in the program ever takes it up again).               *)
TasksFinishUnlessLost ==
  \A t \in Tasks :
    t \in DOMAIN task
      ~> t \in DOMAIN task /\ (task[t].status \notin Active \/ Lost(t))

(* The stage-1 design, section 7.2: while a source has a running task, no   *)
(* other may be triggered for it.                                          *)
OneActiveTask ==
  \A t, u \in DOMAIN task :
    /\ task[t].source = task[u].source
    /\ task[t].status \in Active
    /\ task[u].status \in Active
    => t = u
===============================================================================
