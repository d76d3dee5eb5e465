# Formal model of the policy and project management system

The system collects policies from government sources, lets a language model
propose whether the company's entities should apply, records what people decide,
turns a recommended policy into a project, and tells a WeCom group about it. It
is a FastAPI backend, four worker processes (collector, scheduler, evaluator,
notifier), MySQL and a web front end. All of its concurrency meets in the
database: requests and workers are transactions under InnoDB's REPEATABLE READ,
and what can go wrong is the order in which they lock, read and commit.

Paths below are relative to `src/backend/`.

## 1. Inventory

| Component | State | Operations | Hard behaviour | What makes it correct |
|---|---|---|---|---|
| Notification outbox (`app/modules/notifications/service.py`, `models.py`) | deliveries, attempts | enqueue, retry_failed, claim_next, complete_claimed, fail_claimed, recover_stale_claims | workers die or answer late, retries, page versions, lock skipping | tables agree, bounded attempts, no false success, everything settles |
| Notifier (`workers/notifier.py`) | memory of one run | run_once | dies between any two transactions; the channel may time out after it delivered | a result belongs to the attempt it was made for |
| WeCom adapter (`notifications/adapters`) | none | send | unknown outcome | reports what it knows |
| Project ledger (`app/modules/projects/service.py`, `workflow.py`) | projects, status history | convert_policy, update_project, transition, correct_status, correct_primary_entity | writes from old pages, snapshot older than the lock, terminations undone; conversions that run at once or are repeated | history is the story of the row, first statuses announced once, no lost update; one project per policy and key |
| Project requests (`projects/router.py`, `auth/dependencies.py`) | session | HTTP routes | the session check opens the transaction | a request that is admitted has a current snapshot |
| Evaluation and decisions (`app/modules/evaluations/service.py`, `workers/evaluator.py`) | batches, results, confirmations, decisions, primary entities | enqueue, cancel, claim_next, process_claimed, fail_claimed, confirm, adjust_conclusion, select_primary_entity | late results, reclaimed batches, batches that finish out of order, two owners | people's decisions stand, a recommendation has an entity, results are final |
| Collection (`app/modules/collection/service.py`, `workers/collector.py`, `workers/scheduler.py`) | tasks, items, source health | create, claim_next, finish_from_items, record_source_task_outcome | a request beside the daily job, tasks finishing out of order, dying collectors | each task counted once, one event per failing episode |
| Policy sources (`app/modules/sources/service.py`) | sources, channels | create, update, toggle | toggled while the daily job runs | only enabled, ready sources are collected |
| Policy ingestion (`app/modules/policies/service.py`, `locks.py`, `files.py`, `policy_crawler/pipelines.py`) | policies, versions, discoveries, attachments, task items, files | process_item: ensure_task_item, GET_LOCK, match, store files, commit, or roll back and remove files | two spiders find one policy at two addresses; files are there before the commit and after the rollback; an error behind the commit; content returns to an old version; a spider dies | one policy per address, a history without gaps, no clean-up that reaches another's files |
| Rule sets (`app/modules/evaluation_rules/service.py`) | rule-set versions; the copy in each batch | create_draft, update_draft, publish, retire; get_active_version of enqueue | numbers and rules read from snapshots, two publications at once | numbers follow each other, at most one version in force, a batch keeps complete rules |
| Crawler (`policy_crawler/spiders/gdii.py`, `settings.py`) | duplicate filter and queue of one run | parse_list, parse_detail, retry, give up | the list moves under the walk, answers in any order, links that lead back, lost downloads | the window of 90 days is covered, the crawl ends |
| Notification events (`notifications/events.py`) | none | event and key of each kind | keys must be the same for the same fact | one event for one fact |
| Accounts, profiles, audit, migrations, adapters and prompts, text normalisation, front end | configuration or none | | none of their own | not modelled, section 7 |

Interactions: the scheduler and owners create collection tasks; a collector runs
spiders that ingest policies; ingestion enqueues an evaluation batch in its
transaction; an evaluator stores the result and enqueues notification events in
its transaction; owners confirm; a confirmed recommendation with a primary
entity may be converted into a project; entering "submitted" or "succeeded" for
the first time, and the third failure in a row of a source, enqueue events; the
notifier sends them. Apart from the calls within a transaction, the parts speak
only through rows.

The behaviours that are hard to test are listed, each at its line, in
`PROJECT.json` under `hazards`, with the properties that would catch them going
wrong.

## 2. Modules

| Module | Models | Implements |
|---|---|---|
| `NotificationOutbox` | outbox tables, notifiers, channel, owners' retries | `OutboxPromise` |
| `NotificationOutboxProofs` | theorems about it | |
| `ProjectLedger` | one project, its history, announcements and the users who write it | `ProjectWorkflow` |
| `ProjectLedgerProofs` | theorems about it | |
| `EvaluationDecision` | one policy's batches, evaluators and decisions | `PolicyConclusion` |
| `EvaluationDecisionProofs` | theorems about it | |
| `CollectionTasks` | tasks, source health, callers and collectors | |
| `CollectionTasksProofs` | theorems about it | |
| `ChannelCrawl` | one channel's walk over the list, its requests and losses, the task it ends | |
| `ChannelCrawlProofs` | theorems about it | |
| `PolicyIngestion` | pipelines of several spiders, catalogue rows, files, the named lock | |
| `PolicyIngestionProofs` | theorems about it | |
| `EvaluationRules` | rule versions under several owners, and what batches copy | `RuleBook` |
| `EvaluationRulesProofs` | theorems about it | |
| `PolicyConversion` | conversions and corrections of the primary entity, lock by lock | |
| `PolicyConversionProofs` | theorems about it | |
| `MC...` | instances for TLC (sequences and symmetry sets for the `.cfg` files) | |

Definitions carry the names of the code where they have one. Conventions shared
by the modules:

* A transaction that locks its row before it reads anything is **one step**. One
  that reads first and locks later is **two**: the first fixes the snapshot, the
  second locks and commits. Session checks (`get_current_user`) make every write
  request of the second kind, since they use the request's own database session.
  A plain `SELECT` sees the snapshot, a `SELECT ... FOR UPDATE` the present.
* What a worker does between two transactions is a step of its own, and a
  `Crash` may come between any two (compose restarts it with an empty memory).
* `FOR UPDATE SKIP LOCKED` passes over `locked`, any set of rows: some other
  transaction may hold any of them at that moment.
* Where a transaction takes several locks one after the other and may wait at
  each (`PolicyConversion`, `EvaluationRules!Publish`), each lock is a step, and
  what InnoDB does to transactions that wait in a circle is a step as well.
* `PROJECT.json` maps definitions to the lines they stand for; a small helper it
  does not list belongs to the lines of the action that uses it.
* An operator with the comment *Variant* is a slip that the next definition could
  have had. No behaviour refers to it; `PROJECT.json` names the property that
  fails when it takes the place of the original.

### NotificationOutbox

`delivery[e]` and `attempts[e]` are the rows of event key `e`; `event_key` is
UNIQUE, so the key stands for the row. `accepted[e]` are the attempts whose
message the chat really got, which the program cannot see. `worker[w]` is the
memory of a notifier: clock reading, claimed event, claim token, outcome.
`page[o]` is what an owner's browser shows.

`Poll` reads the clock, `RecoverStaleClaims` and `ClaimNext` are the first two
transactions of `run_once`, `Send` is the call to the channel, and
`CompleteClaimed`, `FailClaimed` or `DropLateResult` the last transaction.
`Send` lets an outcome and the truth differ exactly as `wecom.py` allows: success
means delivered, a permanent failure not delivered, anything else either.

Abstractions: a claim token (uuid4) is the number of the attempt it starts,
unique within the row, which is all a token is compared with; time is a counter
that moves only while a delay or a claim is running; `created_at` agrees with the
order of ids. Content, message rendering and list filters are left out.

`OutboxPromise` is the contract without rows, workers and clocks: queued, tried
at most `Budget` times per round, "sent" only after the chat got a message, and
then for good. Copies may reach the chat at any time, also after "sent": delivery
is at least once, as the design accepts.

### ProjectLedger

`project` is the row, `history` its status history, `announced` the first-status
events with their dates. A user's `session` goes from `viewing` (a page with a
version, and a ghost flag that says whether anything was written since) to
`requested` (the transaction is open; `snapshot` is the length of the history it
sees) to an answer. `UpdateProject`, the transitions and the corrections are the
write routes; `Store` is the commit with the CHECK constraints of the table
(`Broken`, and `Duplicated` for the unique event key): if one refuses, the
constraint is put into `refused` and the request ends with status 500.
`ProjectWorkflow` is the state machine the stage-3 design draws.

### EvaluationDecision

`batch[b]` is a row of `evaluation_batches` with its result and confirmation,
`policy` the decision columns of the policy, `decisions` and `primaries` the two
history tables. `process_claimed` is three steps: `Answer` (the model's call),
`Reread` (after the rollback, naming `batch.id` in the locking statement reloads
the expired row with a plain SELECT) and `Record` (lock, compare with **what was
reloaded**, write, commit). The locking SELECT does not refresh attributes that
are loaded, which is why the comparison belongs to `Reread`. `Insertable` is the
unique key of `entity_evaluations` that stops a second result. Owners' requests
keep `seen`, the confirmations in their snapshot.

`Expire` says that fifteen minutes have passed since the claim. `PolicyConclusion`
is the promise of the stage-2 design: suggestions until a person decides, then
only people; overrides outlast confirmations; a person's recommendation has an
entity.

### CollectionTasks

`caller[c]` is the transaction of a request or of the daily job: the sources it
still has to ask for and what its snapshot says of active tasks and enabled
sources. `Create` locks the source and inserts; the commit and `db.refresh` start
the next snapshot. `AlreadyRunning` and `NotCollectable` are the refusals; the
latter ends the daily job, which does not catch it. `Finish` is
`finish_from_items` with `record_source_task_outcome`. Items are abstracted to
whether some succeeded and some failed, spiders to whether all exited with 0.
Ids are in order of `created_at`; `finished[s]` keeps the tasks of source `s` in
the order of `finished_at`.

### ChannelCrawl

`list` is what the site shows, in pages of `PageSize`; it moves when `Publish` or
`Withdraw` (of the entry at a place) happens. `queue` are Scrapy's requests under
way with their number of repetitions, `requested` its duplicate filter, `seenPages` the spider's
`_seen_list_urls`, `lost` what was given up. Any request of the queue may be
answered next. `ParseList` yields the entries that are not too old and the next
page, unless `ShouldStop`; `ParseDetail` leaves the task item that
`PolicyIngestion` describes; `Retry` and `GiveUp` are the retry middleware and the
missing errback. `Close` and `Die` end the process, `Finish` is
`finish_from_items` seen from one task: a request that was lost leaves no item, so
a task can be "succeeded" without it.

### PolicyIngestion

A spider's `process_item` is: `BeginItem` (the committed task item), then under
`GET_LOCK` either `CommitKnown` (the content is a version already), or
`SaveSnapshot`, `SaveAttachment` and `CommitNew`, and after the commit `Release`.
`Fail`, `RefuseSnapshot` and `LockTimeout` are errors before the first file,
`Rollback` and `RemoveFile` those after it; `Crash` may come anywhere and frees the
lock, as MySQL does when a connection ends. Rows appear with the commit and files
at once, and the order of the code's clean-up is kept: roll back, release the lock,
remove the files in reverse, mark the item.

The commit is nested inside the lock, and the handler that removes files is
outside of both: an acknowledgement that is lost, or a `RELEASE_LOCK` or `close`
that fails, is `FailAfterCommit` and goes the same way as a rollback (`revoking`),
with the files of a version that is in the table. Cleaning up may itself fail:
`remove_file` may raise, which ends it; `_fsync_directory` may raise when the file
is in its place already and its path is not noted yet; and `_mark_failed` only
logs its own failure, so that the item keeps the status it had. That the lock's
connection lives until the commit is assumed: a lock that is lost while its holder
works is not modelled. `MatchPolicy` tries address, number, title with date and
content in the code's order. Texts are compared as normalised; one attachment per
page stands for the list.

### EvaluationRules

`version` is the table with `status` and `content`, `batch` what
`EvaluationService.enqueue` copied, `session[u]` a request with its snapshot `view`
and the row it has locked. Drafts take their number, and batches their rule, from
the snapshot; `UpdateDraft` and `Retire` lock at once. A publication is
`LockDraft` and then `Publish`: the second `SELECT ... FOR UPDATE` has no index to
use, locks every version, and waits for (or dies with) another publisher.
`RuleBook` sees only what is or was in force: one page at a time, never rewritten.

### PolicyConversion

`session[o]` is an owner's request; its `pc` says which locks it holds:
`policy_locked`, `key_free` (no project has the key, and the gap is locked),
`policy_free` (no project has the policy), `project_locked`, `decision_read` (and its
policy too). `visible` is how many
projects its snapshot contains: `FindKey` finds a project under the lock that
`detail` may then not see. What the code reads with a lock and writes some
statements later is carried in the session: `name` and `recommended` since
`LockPolicy`, `current` (the primary entity) since `KeyFree` or `ReadDecision`, `own`
(the project's) since `LockProject`. `Insert` and `CorrectEntity` write and compare
these and look at no policy again; whether they are still true is the question of
`CopiesCurrentDecision`. A correction is `LockProject`, `ReadDecision`, and then one of
`RefuseTarget`, `KeepEntity` and `CorrectEntity`. `Fingerprint` is the code's
`_creation_fingerprint`, of the effective name. `Retitle`, `Decide` and `OtherWrite`
are what ingestion, evaluation and the other ledger routes do to the rows
meanwhile. Two gaps conflict
only if somebody inserts, so `Insert` waits for `GapLocked`, and `LockError` is what
may happen to whoever waits.

## 3. Runs

Each run asks one question; the `about` fields of `PROJECT.json` say it in a
sentence. Two more runs expect a violation, section 4.

| Run | Instance | Shows |
|---|---|---|
| `outbox_claims` | 1 event, 2 notifiers, 3 attempts | types, agreement of the tables, honest ledger, exclusive claims, backoff, refinement of `OutboxPromise` |
| `outbox_owners` | 2 events, 1 notifier, 2 attempts, 1 owner, 2 rounds, fair | versions protect owners, every round of both rows settles |
| `ledger_writes` | owner and liaison, 2 days, 5 versions | history, announcements, versions and fields of a project; refinement of `ProjectWorkflow` |
| `evaluation_results` | 2 evaluators, 2 batches, 2 claims each, 1 owner, fair | results and statuses agree, newest suggestion, batches settle |
| `evaluation_decisions` | 2 owners, 2 entities, 2 batches, 3 later decisions | decisions stand and rest on confirmations, refinement of `PolicyConclusion` |
| `collection` | 1 source that is toggled, 4 tasks, request and daily job, 2 collectors, fair | health counts outcomes, one event per episode, tasks finish unless lost |
| `ingestion` | 2 spiders, 3 pages of 2 addresses, files of 2 versions left over | one policy per address, history without gaps, no clean-up removes another's committed files |
| `conversion` | 2 owners, policies, keys and titles | one project per policy and key, what was read under a lock is current when it is written |
| `rules` | 3 users, 2 sets, 3 versions, 1 batch | numbers, batches, refinement of `RuleBook` |
| `crawl` | 4 or 5 entries on pages of 2 in every order, 1 repetition, fair | the window is covered, the crawl ends |

### Bounds and why they are enough

* Every safety property and refinement of the runs is also a theorem (section 5), so
  the bounds below matter for liveness, and for seeing the mutated code fail.
* Two workers suffice for every race of the claim protocols: one that was written
  off and one that replaced it.
* `ThreeAttempts` has two different delays, so a delay taken from a wrong place is
  seen; the code's four attempts differ in number only. `ClaimTimeout` 1 is the
  shortest at which a claim can be alive or stale. `MaxRound` 2 has one reopening.
* One event in `outbox_claims`: events share nothing but the queue. `outbox_owners` has
  two in one queue, so that one may hold up the other: pending ones, retries that
  wait and stale claims compete for one notifier. Its two attempts have a wait
  between them, and a claim is stale as soon as its notifier has died
  (`ClaimTimeout` 0; the run above has 1).
* `outbox_owners` compares states by `QueueView`, without the attempts, the chat and the
  next id. No step depends on the chat; of the attempts a step reads only
  whether the last is open, which the row tells (`ClaimLedger`); the next id is
  one more than the rows. Two states that agree in the view thus have the same
  continuations, and both properties of the run speak of what the view contains.
* Five versions of a project: submit, decide, take back, decide otherwise; or
  terminate, restore, terminate again. Two days give different first dates.
* Two batches: one finishes before the other, in both orders; two claims per
  batch: one that is lost or outlived and one that is not. `MaxClaims` bounds only
  expiry and crashes, so that a batch's last claim comes to an end.
* Four tasks of one source: an episode of three and a task before or after it. A
  task touches no source but its own, so one source is enough.
* Two spiders: one inside the lock, one that cleans up or waits. The three pages
  match by address, by number, by content, or not at all; one changes its text and
  back. With the number taken from the third page the match is by title and date,
  which was checked in the same way. Files of two versions may be left over, the
  snapshot, the attachment or both. `ItemView` takes an item that is pending and one
  that has failed for the same: no guard reads the status, and the properties only
  ask for "succeeded".
* Two owners with two policies and two keys: the same policy, the same key, both
  or neither; two titles: the policy was renamed or not. `MaxVersion` 2 has one
  write in front of a correction.
* Three users of the rules: two publishers that cross, or one publisher, one who
  retires and one who queues a batch from an old snapshot. Three versions in two
  sets: a set with two, whose numbers can collide, and another in force.
* Five entries on two or three pages: recent, of the cutoff day, undated, old, and
  one to come, in every order; one withdrawal. Deeper lists repeat the middle page.
* Owners' later decisions (`MaxDecisions`), tasks (`MaxTasks`), versions and ids are
  bounds on counters that the code leaves open.
* Symmetry is declared only where no temporal property is checked beyond action
  properties and refinements, and never over a set the specification orders.

Deadlock checking is on everywhere but in `crawl`, where one crawl and its task
come to their end.

### Fairness

The workers' main loops poll for ever and compose restarts them
(`restart: unless-stopped`), calls to the channel and the model have timeouts and
a spider ends, so no worker stops for ever at a step that stays possible: weak
fairness. A claim is only possible while a row is free of other transactions'
locks and its worker has not just died; both recur, since locks last one short
transaction, so claims (and the recovery in front of one) have strong fairness
with no row locked. Time passes. Nothing is assumed of owners, producers, the
daily job, or of any outcome: channel and model may fail for ever.

In a crawl Scrapy handles what is in its queue and every download ends within
`DOWNLOAD_TIMEOUT` (`SpiderStep`, weakly fair), and the collector waits for the
process (`Finish`); which request is answered, and how, is free. That a spider ends
is thus an assumption of `CollectionTasks` and what `CrawlEnds` shows of
`ChannelCrawl`. Ingestion, conversions and rules are checked without fairness:
each of their requests may be abandoned at any step.

`BatchesSettle` needs the bound `MaxClaims`: in the code nothing limits how often
a batch is reclaimed, and one that always outlasts its claim would be evaluated
again and again. `TasksFinishUnlessLost` excepts a task whose collector died while
it was running: no code ever takes such a task up again, it stays "running", and
with it its source cannot be collected (by a caller that sees it). Both are in
`PROJECT.json` under hazards.

## 4. Disagreements with the documents

Two runs end in a violation; the findings in `PROJECT.json` quote the lines.

* `collection_one_active`: the search for an active task uses the snapshot of
  before the lock, so two callers can each create one.
* `conversion_repeated`: a conversion sent twice at once is done once, but the
  second request may be answered with 500: it finds the project under a lock and
  then looks for it in its older snapshot.

Others were met while modelling and are described by the models, without a run of
their own (section numbers are those of the design of the stage):

* Retrying a delivery that succeeded is answered with 409; stage 4, 9.3 promises
  the existing result (`NotificationOutbox!RetryFailed`).
* The submission date may be cleared while a submitted project is terminated;
  restoring it then breaks a CHECK constraint and ends with 500
  (`ProjectLedger!Store`, `FieldsFitStatus`).
* A cancellation that commits between the reload and the lock of
  `process_claimed` is overwritten by the late result (`EvaluationDecision!Record`).
* Of two equal confirmations sent at once one is answered with a conflict, since
  the search for the first uses the older snapshot (`EvaluationDecision!Confirm`).
* A conversion that is repeated with its key after a new page was ingested is
  answered with `idempotency_key_reused`, since its fingerprint contains the
  policy's title and deadline (`PolicyConversion!FindKey`).
* A correction of the primary entity that is repeated with the same
  `expected_version` gets a version conflict before the equal entity is noticed
  (`PolicyConversion!LockProject`).
* A page that cannot be downloaded leaves no task item, and a lost page of the list
  ends the walk with exit code 0: the task may be "succeeded" although stage 1,
  8.3 counts failures per item (`ChannelCrawl!GiveUp`, `Finish`).
* One old entry at the top of a page of the list ends the walk there, since
  `should_stop` uses the oldest date; the test's name speaks of a page that is
  entirely too old (`ChannelCrawl!ShouldStop`; `WindowCovered` excepts what is
  below an old entry).
* A page without a date is ingested and counted as succeeded; stage 1, 8 says an
  undated page is not (`PolicyIngestion!CommitNew`).
* A spider that dies after it wrote a file, a directory that cannot be synced after
  `os.replace`, or a `remove_file` that fails, leaves a file that `_atomic_write`
  refuses to replace: every later version of that policy fails with
  `FileExistsError`, although stage 1, 9 ("新增政策内容版本") and CRAWL-06
  promise one (`PolicyIngestion!RefuseSnapshot`).
* Content that goes from A to B and back to A makes no third version: the hash is
  looked for among all versions (and is unique per policy), so the site shows A
  and the policy B. Stage 1, 9 has a changed body add a version and the page show
  the newest (`PolicyIngestion!CommitKnown`, `CurrentKept`). `VersionHistory` says only
  what both would have: no gap, the newest version shown, each evaluated.
* An error between the commit and the end of the lock's connection is handled like
  one before it: the files of a committed version are removed and its item is
  marked failed, although stage 1, 9 says "保留旧版本和旧快照"
  (`PolicyIngestion!FailAfterCommit`). `CommittedFilesKept` excepts exactly the
  version of the pipeline that failed so.
* A failure that `_mark_failed` cannot record leaves its item pending
  (`PolicyIngestion!MarkFailed`).
* Conversions or publishers that wait for each other end in status 500
  (`PolicyConversion!LockError`, `EvaluationRules!DeadlockVictim`).
* A project without a name of its own takes the policy's title, which may be
  longer than the column (not modelled: lengths of texts).

## 5. Proofs

Each of the eight component modules has its theorems, checked by TLAPS for every
value of the constants that its assumptions allow. Between them they state every
invariant, every action property and every refinement that a passing run checks.
All follow one plan: an inductive invariant `IInv`, checked by TLC on instances of
the runs before it was proved; a theorem `Spec => []IInv` from lemmas per action,
which go through a lemma for all steps that are alike (`QuietStep`, `SessionStep`,
`RowStep`); and from it the properties, most of them in a line. Constants need no
more than that bounds are numbers and that NULL is none of the values it stands
beside, where nothing else is said.

### NotificationOutboxProofs

For every set of events, notifiers and owners, every schedule of delays, claim
timeout and number of rounds:

* `TypesHold`, `TablesAgree`, `BudgetHolds`, `ClaimsAreExclusive`,
  `LedgerIsHonest`, `VersionsIdentify`, `RetriesWait`: the invariants of the two
  runs, and the budget of attempts per round;
* `SuccessStays`, `LedgerOnlyGrows`: what is recorded as sent is never touched
  again, and attempts are only added;
* `OutboxKeepsPromise`: the refinement of `OutboxPromise`.

Assumptions: there is at least one attempt, delays and timeout are natural
numbers, and NULL is none of the values it stands beside.

The argument. None of the invariants is inductive alone: that a late result
cannot settle another attempt needs to know what every worker still holds.
`IInv` (theorem `Invariance`) joins the invariants with `WorkerHolds`, which says of
each worker that its token is one its row has given out, at most the row's
attempt counter, and that an outcome it carries is true of that very attempt.
The proof has two layers. First, each action does to each row one of six things
(`RowStep`: nothing, enqueued, claimed, succeeded, failed, reopened;
`StepsAreRowSteps`), and each of them keeps a row in order (`RowStepKeepsRow`),
its version growing (`RowStepVersion`) and its history append-only
(`RowStepAppends`); there the many actions and the fields of the row never meet.
Second, each action does to a worker's memory one of a few things
(`WorkerStepIsMemoryStep`), from which exclusiveness follows: a new token is above
all tokens given out. The refinement is then a case analysis of `RowStep`.

`RetriesWait` needs a second invariant, `AllPaced`: the row's counter says where its
round began among the attempts, and the time a waiting row is due is the end of its
last attempt plus the delay of the next place. A claim is made of a row that is due,
so the new attempt waited; the end of an attempt that another worker took over is
its recovery's, as is the delay.

### PolicyConversionProofs

For any policies, owners, keys, titles and bounds: `ConversionTypes`,
`OneProjectEach` and `DecisionsAreCurrent`, the three properties of `conversion`.
Assumptions: a request's name is a title or none, and NULL is neither a title nor
a number.

`OneProject` says only what is in the table; that an insert keeps it depends on
what the request found several locks ago. `IInv` (`ConversionInvariance`) adds
`InOrder`, for each request: past the search for its key no project has it and the
policy is convertible; past the search for its policy no project has that either;
the name, the conclusion and the decision it carries are still the policy's; a
correction's project is still at the version its request names, with the decision
that was read. These stay true because of `LocksExclude`: two requests never hold
the same policy or the same project, so another insert is of another policy,
`GapLocked` makes it one of another key, and changes of policies and projects wait
for the lock. The proof has a lemma for steps that change one session only
(`SessionStep`) and one for each action that writes rows. `DecisionsAreCurrent`
then compares what is written, which comes from the session, with the rows of the
policy in that step; without the invariant nothing relates the two.

### EvaluationRulesProofs

For any sets, users, contents and bounds: `RulesTypes`, `NumbersHaveNoGap`,
`BatchesStayTrue` and `RulesImplementBook`, the four properties of `rules`.
Assumptions: complete contents are contents, and NULL is no row id.

The heart of `IInv` (`RulesInvariance`) is `Past`: every snapshot that a request
still reads has only versions of the table, with their set and number, and what it
shows as published says the same today and is no draft. With `NoGap` (the numbers
of a set are 1 to the number of its versions, in the table and in every snapshot)
it follows that a number taken from a snapshot is either the next or taken:
`NextNumberIs`. Publishers hold complete drafts, each its own (`LocksHold`,
`LocksExclude`), and a scan that has all its locks is alone. For the refinement,
drafting and editing stutter, retiring repeals, and `PublishEnacts` shows that
what was in force before is retired in the same step.

### ProjectLedgerProofs

For any users (owners and liaison among them), any number of days and versions:
`LedgerTypes`, `HistoryIsChain`, `FirstsAnnounced`, `VersionsSuffice`, `RowsFitStatus`
and the refinement `LedgerFollowsWorkflow`. Assumptions: owners and the liaison are
users, and there is a day.

`VersionDetectsWrites` speaks of a ghost flag, and that a page of an old version
cannot write needs to know that no page has a version still to come (`PagesPast`).
A termination that is taken back restores what the last entry of the history names
(`RestoresLast`: an admitted request sees the whole history); `TerminationsUndoable`
says that this is a status a project can be terminated from, and `AnnouncesFirst`
that it was announced. A result that is taken back enters "submitted" again without
an announcement, which `ResultsFollowSubmission` makes right. With
`Broken(project) = {}` the invariant says that a row
in the table breaks no constraint; of the four, `RowsFitStatus` shows that only
the one on the submission date can ever refuse a request.

### EvaluationDecisionProofs

For any evaluators, owners, entities and bounds: `EvaluationTypes`,
`ResultsFollowStatus`, `NewestIsSuggested`, `ConfirmationsBehindDecisions`,
`DecisionsStand` and the refinement `EvaluationFollowsDesign`. Assumption: the other
conclusions do not include "recommend_apply".

`HumanDecisionStands` says where the conclusion comes from by looking at the whole
list of decisions; inductive is `LastDecided`, which splits it: nobody has decided,
or there are only confirmations and the last is the conclusion, or the last
override is. The unique key of `entity_evaluations` is what keeps a second result
out when an evaluator that was believed dead comes back: `ResultsMatchStatus` holds
although the status it compares with was read before the lock. `OneCurrent` (at
most one current primary entity) makes the promise's choice of the current one
well defined.

Proving this found a slip of the model: `Suggested` was a `CASE` whose guards
overlapped, so that TLA+ left its value open where TLC took the first; it is an
`IF` chain now, as in the code.

### CollectionTasksProofs

For any sources, requests, collectors and number of tasks: `CollectionTypes`,
`HealthIsCounted` and `EventsPerEpisode`. Assumption: the daily job is no request.

`HealthCountsOutcomes` recomputes the health of a source from all its finished
tasks. `CountsLastRun` states the same by place: the last *n* outcomes failed, *n*
being the counter, the one before them did not, and the first of them is the task
the episode is named after. That is kept by appending one outcome, without an
induction over the list. `EventsAtStarts` says the same of events: a task has one
exactly if it starts a run of three or more. `FinishedOnce` keeps the tasks of the
list apart, so that an event belongs to one episode.

`finished` is one list per source rather than one list filtered by source: the
filter is recursive, and nothing can be proved of it.

### PolicyIngestionProofs

For any spiders, pages, number of policies and left-over files: `IngestionTypes`,
`PolicyPerUrl`, `VersionsAreHistory` and `FilesStay`, the four properties of `ingestion`.
Assumption: pages are records of the shape given.

What a pipeline found out (which policy, which number, that its content is new) is
used steps later. `FoundHolds` says that it is still so, because the pipeline still
has the named lock. Cleaning up comes after the lock is given back, beside other
pipelines that store files: `PathsApart` says that no path of a pipeline that
carries uncommitted files is a path of another or of a row, so that after a
rollback `RemoveFile` removes what belongs to nobody. A pipeline that failed behind
its commit has the files of one version in the table (`VersionOf`), its own, and that
is all it removes: `FilesStay` excepts no other.

### ChannelCrawlProofs

For any list, entries, dates, size of a page, repetitions and order of answers:
`CrawlTypes` and `WindowIsCovered`, the invariants of `crawl`, and the safety half of
`CrawlEnds`: `WalkIsBounded` (no page beyond the end of the list is ever met, so
there are finitely many) and `EachAskedOnce` (what was dealt with never comes
back). Assumptions: lists and what is published are of the entries, dates are
numbers or none, and a page has room for an entry.

`WindowCovered` is about a spider that has closed. The inductive form is `Frontier`:
the pages met are 1 to *n*; only the *n*-th can be under way; while it is, what the
window reaches in the first *(n - 1)* `PageSize` places has been asked for, and
afterwards, if no page was lost, all of it. A published entry moves the others
down, which only makes the first places hold less that is to be visited; a page
that ends the walk has an old entry, and what is listed below that is excepted, or
is the last. `AskedIsDone` then leads from a request to its item or its loss.

### Only model-checked

Liveness (`Settles`, `BatchesSettle`, `TasksFinishUnlessLost`, `CrawlEnds`), which is
beyond this prover, as is anything about `ENABLED`; and the two violations of section
4, which are counterexamples. What a recursive definition computes cannot be proved
either, so the modules have none.

## 6. Plan

Done, in the order in which a silent fault costs most: `NotificationOutbox`,
`ProjectLedger`, `EvaluationDecision`, `CollectionTasks`, `PolicyConversion`,
`EvaluationRules`, `PolicyIngestion`, `ChannelCrawl`, each with its proofs.

Next:

1. `EvaluationEvents`: which kind of event a finished batch announces when batches
   finish out of order.
2. `LockOrder`: the rows that evaluation requests lock, in order, and the waits
   they allow.
3. Composition: ingestion, evaluation and conversion of one policy, with the
   interfaces of the modules above.
4. Safety halves of the other liveness properties, in the manner of `WalkIsBounded`:
   that a round of the outbox and a claim of a batch can only be taken a bounded
   number of times.

The suite is kept at a dozen runs, each with its own question, so that it is run
as a whole after every change; a new module's run takes the place of one whose
answer a theorem has made general.

## 7. Not modelled

* Text normalisation, what a spider reads out of a page, prompts and the parsing of
  model answers: transformations of data with no shared state; their outcomes
  enter as choices (`ParseDetail`, `Fail`, `Answer`, `NoAnswer`, `Send`).
* Lengths of texts, sizes and types of files, more than one attachment per page.
* Accounts and password hashing, business profiles, audit inserts, migrations:
  configuration, stateless, or written and never read.
* The front end: only the versions its pages send back matter, and they are in
  `NotificationOutbox` and `ProjectLedger`.
* `_resolve_creation_race`, the way back from a unique constraint in
  `convert_policy`: under InnoDB's gap locks no insert gets there, as
  `OneProjectEach` proves of the model.
* InnoDB's deadlock detection outside `PolicyConversion` and `EvaluationRules`:
  elsewhere a transaction is one step after its snapshot, so a rollback by the
  database looks like a request that was never sent.
* The events a finished evaluation and a new project announce: inserted in the
  transaction of their operation, under keys that are unique by construction.
* Read-only queries, filters and paging.
