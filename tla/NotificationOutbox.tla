-------------------------- MODULE NotificationOutbox --------------------------
(***************************************************************************)
(* The transactional notification outbox: the deliveries and attempts that *)
(* app/modules/notifications/service.py keeps in MySQL, the notifier       *)
(* workers that claim, send and settle them (workers/notifier.py), the     *)
(* WeCom channel, and the owners that restart failed deliveries over HTTP. *)
(*                                                                         *)
(* A transaction is one step: every handler locks the row it changes with  *)
(* SELECT ... FOR UPDATE before it reads it.  What lies between two        *)
(* transactions of a worker (the clock reading, the call to the channel, a *)
(* process that dies) is a step of its own.                                *)
(***************************************************************************)
EXTENDS Naturals, Sequences

CONSTANTS
  Events,        \* event keys; event_key is UNIQUE, so a key names its row
  Workers,       \* notifier processes
  Owners,        \* browser sessions of the declaration owner
  RetryDelays,   \* RETRY_DELAYS_SECONDS; Python's index k is TLA+'s k + 1
  ClaimTimeout,  \* CLAIM_TIMEOUT
  MaxRound,      \* bound: an owner opens at most this many send rounds
  NoValue        \* SQL NULL

ASSUME RetryDelaysAssumption ==
  /\ RetryDelays \in Seq(Nat)
  /\ Len(RetryDelays) >= 1
ASSUME ClaimTimeoutAssumption == ClaimTimeout \in Nat
ASSUME MaxRoundAssumption == MaxRound \in Nat

VARIABLES
  delivery,   \* table notification_deliveries, by event key
  attempts,   \* table notification_attempts, by event key, in number order
  accepted,   \* the channel: which attempts put a message into the chat
  worker,     \* what each notifier process holds in memory
  page,       \* what each owner's browser shows
  clock,      \* wall clock
  nextId      \* AUTO_INCREMENT of notification_deliveries

vars == <<delivery, attempts, accepted, worker, page, clock, nextId>>

MaxAttempts == Len(RetryDelays)

Statuses == {"absent", "pending", "sending", "retry_wait", "succeeded", "failed"}
Outcomes == {"succeeded", "retryable_failure", "permanent_failure", "uncertain"}
Triggers == {"initial", "automatic_retry", "manual_retry"}

ASSUME NoValueAssumption == NoValue \notin Nat /\ NoValue \notin Outcomes

Nullable(S) == S \cup {NoValue}

(* A claim token is a fresh uuid4.  A token is only ever compared with the  *)
(* token of the same row, and every claim of a row starts a new attempt, so *)
(* the number of that attempt stands for the uuid.                          *)
Delivery ==
  [status: Statuses, attemptCount: Nat, sendRound: Nat, roundAttemptCount: Nat,
   nextAttemptAt: Nullable(Nat), sent: BOOLEAN, claimToken: Nullable(Nat),
   claimedAt: Nullable(Nat), version: Nat, id: Nat]

Attempt ==
  [trigger: Triggers, started: Nat, finished: Nullable(Nat),
   result: Nullable(Outcomes)]

Worker ==
  [pc: {"idle", "polled", "recovered", "claimed", "sent"},
   now: Nullable(Nat), event: Nullable(Events), token: Nullable(Nat),
   outcome: Nullable(Outcomes)]

Page ==
  [event: Events, version: Nat, status: Statuses, sendRound: Nat,
   attemptCount: Nat,
   reply: {"none", "detail", "version_conflict", "retry_not_allowed"}]

NoRow ==
  [status |-> "absent", attemptCount |-> 0, sendRound |-> 0,
   roundAttemptCount |-> 0, nextAttemptAt |-> NoValue, sent |-> FALSE,
   claimToken |-> NoValue, claimedAt |-> NoValue, version |-> 0, id |-> 0]

Idle ==
  [pc |-> "idle", now |-> NoValue, event |-> NoValue, token |-> NoValue,
   outcome |-> NoValue]

Init ==
  /\ delivery = [e \in Events |-> NoRow]
  /\ attempts = [e \in Events |-> <<>>]
  /\ accepted = [e \in Events |-> {}]
  /\ worker = [w \in Workers |-> Idle]
  /\ page = [o \in Owners |-> NoValue]
  /\ clock = 0
  /\ nextId = 1

-------------------------------------------------------------------------------
(* What the handlers write.  A definition named in a "Variant" comment is   *)
(* a slip the next definition could have had; nothing refers to it, and    *)
(* the README tells which property fails with it.                          *)

(* enqueue: the row of a new event.  ids grow in insertion order, and so   *)
(* does created_at, which claim_next compares just before the id.          *)
NewRow(id) ==
  [NoRow EXCEPT !.status = "pending", !.sendRound = 1, !.version = 1, !.id = id]

(* Variant: an automatic retry reuses the number of the attempt it repeats. *)
NumberPerRound(r) ==
  IF r.roundAttemptCount = 0 THEN r.attemptCount + 1 ELSE r.attemptCount

NextAttemptNumber(r) == r.attemptCount + 1

(* claim_next: the claimed row and the attempt it starts.                  *)
ClaimedRow(r, now) ==
  [r EXCEPT !.status = "sending",
            !.attemptCount = NextAttemptNumber(r),
            !.roundAttemptCount = @ + 1,
            !.claimToken = NextAttemptNumber(r),
            !.claimedAt = now,
            !.nextAttemptAt = NoValue,
            !.version = @ + 1]

(* Variant: a trigger that the ENUM column does not know.                  *)
TriggerOutsideEnum(r) == IF r.roundAttemptCount = 0 THEN "initial" ELSE "retry"

TriggerOf(r) ==
  CASE r.roundAttemptCount > 0 -> "automatic_retry"
    [] r.roundAttemptCount = 0 /\ r.sendRound > 1 -> "manual_retry"
    [] OTHER -> "initial"

OpenAttempt(r, now) ==
  [trigger |-> TriggerOf(r), started |-> now, finished |-> NoValue,
   result |-> NoValue]

(* Variant: the claim token is left behind.                                *)
ReleasedWithToken(r) ==
  [r EXCEPT !.nextAttemptAt = NoValue, !.claimedAt = NoValue, !.version = @ + 1]

(* Variant: only users' edits change the version.                          *)
ReleasedSameVersion(r) ==
  [r EXCEPT !.nextAttemptAt = NoValue, !.claimToken = NoValue,
            !.claimedAt = NoValue]

(* The end of a claim, common to every handler that ends one.              *)
Released(r) ==
  [r EXCEPT !.nextAttemptAt = NoValue, !.claimToken = NoValue,
            !.claimedAt = NoValue, !.version = @ + 1]

(* complete_claimed: the row of a delivered event.                         *)
SucceededRow(r) == [Released(r) EXCEPT !.status = "succeeded", !.sent = TRUE]

(* _apply_failure: wait for the next attempt of the round, or give up.     *)
Retries(r, outcome) ==
  /\ outcome \in {"retryable_failure", "uncertain"}
  /\ r.roundAttemptCount < MaxAttempts

(* Variant: the delay of the attempt just made, not of the next one.       *)
PreviousDelay(r) == RetryDelays[r.roundAttemptCount]

Delay(r) == RetryDelays[r.roundAttemptCount + 1]

(* Variant: an attempt whose end is uncertain does not count.              *)
FailedRowForgiving(r, outcome, now) ==
  IF outcome = "uncertain"
    THEN [Released(r) EXCEPT !.status = "pending", !.roundAttemptCount = 0]
    ELSE [Released(r) EXCEPT !.status = "failed"]

FailedRow(r, outcome, now) ==
  IF Retries(r, outcome)
    THEN [Released(r) EXCEPT !.status = "retry_wait",
                             !.nextAttemptAt = now + Delay(r)]
    ELSE [Released(r) EXCEPT !.status = "failed"]

(* retry_failed: a new round for a delivery that ended failed.             *)
ReopenedRow(r) ==
  [Released(r) EXCEPT !.status = "pending", !.sendRound = @ + 1,
                      !.roundAttemptCount = 0]

(* _current_attempt: the attempt a claimed row is working on.  The code     *)
(* raises when it is missing or already has a result.                      *)
HasCurrentAttempt(e) ==
  LET n == delivery[e].attemptCount
  IN  /\ n \in DOMAIN attempts[e]
      /\ attempts[e][n].result = NoValue

Closed(attempt, outcome, now) ==
  [attempt EXCEPT !.finished = now, !.result = outcome]

Settled(a, n, outcome, now) == [a EXCEPT ![n] = Closed(@, outcome, now)]

-------------------------------------------------------------------------------
(* Business transactions and owners.                                       *)

(* enqueue of an event without a row; for one that has a row, enqueue      *)
(* returns it and changes nothing.  It commits with the caller's changes.  *)
Enqueue(e) ==
  /\ delivery[e].status = "absent"
  /\ delivery' = [delivery EXCEPT ![e] = NewRow(nextId)]
  /\ nextId' = nextId + 1
  /\ UNCHANGED <<attempts, accepted, worker, page, clock>>

(* GET /notifications/{id}: the page keeps the version for a later retry.  *)
ReadDetail(o, e) ==
  /\ delivery[e].status # "absent"
  /\ page' = [page EXCEPT ![o] =
       [event |-> e, version |-> delivery[e].version,
        status |-> delivery[e].status, sendRound |-> delivery[e].sendRound,
        attemptCount |-> delivery[e].attemptCount, reply |-> "none"]]
  /\ UNCHANGED <<delivery, attempts, accepted, worker, clock, nextId>>

(* POST /notifications/{id}/retry with the version the page shows.  The    *)
(* button may be pressed again, and two owners may press it.               *)
RetryFailed(o) ==
  /\ page[o] # NoValue
  /\ page[o].version = delivery[page[o].event].version
  /\ delivery[page[o].event].status = "failed"
  /\ ~delivery[page[o].event].sent
  /\ delivery[page[o].event].sendRound < MaxRound
  /\ delivery' = [delivery EXCEPT ![page[o].event] = ReopenedRow(@)]
  /\ page' = [page EXCEPT ![o] = [@ EXCEPT !.reply = "detail"]]
  /\ UNCHANGED <<attempts, accepted, worker, clock, nextId>>

RetryRefused(o) ==
  /\ page[o] # NoValue
  /\ \/ /\ page[o].version # delivery[page[o].event].version
        /\ page' = [page EXCEPT ![o] = [@ EXCEPT !.reply = "version_conflict"]]
     \/ /\ page[o].version = delivery[page[o].event].version
        /\ \/ delivery[page[o].event].status # "failed"
           \/ delivery[page[o].event].sent
        /\ page' = [page EXCEPT ![o] = [@ EXCEPT !.reply = "retry_not_allowed"]]
  /\ UNCHANGED <<delivery, attempts, accepted, worker, clock, nextId>>

-------------------------------------------------------------------------------
(* The notifier worker: one run_once after the other.                      *)

(* claimed_at = now_factory(), read before the first transaction.          *)
Poll(w) ==
  /\ worker[w].pc = "idle"
  /\ worker' = [worker EXCEPT ![w] = [Idle EXCEPT !.pc = "polled", !.now = clock]]
  /\ UNCHANGED <<delivery, attempts, accepted, page, clock, nextId>>

(* Variant: only claims that can still be retried are recovered.           *)
StaleWithRetriesLeft(now) ==
  {e \in Events : /\ delivery[e].status = "sending"
                  /\ delivery[e].claimedAt # NoValue
                  /\ delivery[e].claimedAt + ClaimTimeout <= now
                  /\ delivery[e].roundAttemptCount < MaxAttempts}

Stale(now) ==
  {e \in Events : /\ delivery[e].status = "sending"
                  /\ delivery[e].claimedAt # NoValue
                  /\ delivery[e].claimedAt + ClaimTimeout <= now}

(* recover_stale_claims: SKIP LOCKED passes over the rows that another     *)
(* transaction holds at that moment, any of them.                          *)
RecoverStaleClaims(w, locked) ==
  LET now == worker[w].now
      stale == Stale(now) \ locked
  IN  /\ worker[w].pc = "polled"
      /\ \A e \in stale : HasCurrentAttempt(e)
      /\ delivery' = [e \in Events |->
           IF e \in stale THEN FailedRow(delivery[e], "uncertain", now)
                          ELSE delivery[e]]
      /\ attempts' = [e \in Events |->
           IF e \in stale
             THEN Settled(attempts[e], delivery[e].attemptCount, "uncertain", now)
             ELSE attempts[e]]
      /\ worker' = [worker EXCEPT ![w] = [@ EXCEPT !.pc = "recovered"]]
      /\ UNCHANGED <<accepted, page, clock, nextId>>

Claimable(now) ==
  {e \in Events : /\ ~delivery[e].sent
                  /\ \/ delivery[e].status = "pending"
                     \/ /\ delivery[e].status = "retry_wait"
                        /\ delivery[e].nextAttemptAt <= now}

(* ORDER BY next_attempt_at, created_at, id; MySQL sorts NULL first.       *)
DueKey(e) ==
  IF delivery[e].nextAttemptAt = NoValue THEN 0 ELSE 1 + delivery[e].nextAttemptAt

Precedes(e, f) ==
  \/ DueKey(e) < DueKey(f)
  \/ DueKey(e) = DueKey(f) /\ delivery[e].id < delivery[f].id

ClaimNext(w, locked) ==
  LET now == worker[w].now
      free == Claimable(now) \ locked
  IN  /\ worker[w].pc = "recovered"
      /\ \/ /\ free = {}
            /\ worker' = [worker EXCEPT ![w] = Idle]
            /\ UNCHANGED <<delivery, attempts>>
         \/ \E e \in free :
              /\ \A f \in free \ {e} : Precedes(e, f)
              /\ delivery' = [delivery EXCEPT ![e] = ClaimedRow(@, now)]
              /\ attempts' = [attempts EXCEPT ![e] =
                                Append(@, OpenAttempt(delivery[e], now))]
              /\ worker' = [worker EXCEPT ![w] =
                   [Idle EXCEPT !.pc = "claimed", !.event = e,
                                !.token = ClaimedRow(delivery[e], now).claimToken]]
      /\ UNCHANGED <<accepted, page, clock, nextId>>

(* adapter.send, outside any transaction, then completed_at = now_factory(). *)
(* A success means that the channel took the message and a permanent       *)
(* failure that it did not (or was never called, on a bad configuration);  *)
(* after a timeout or an unreadable answer either may be true.             *)
Send(w, outcome, reached) ==
  /\ worker[w].pc = "claimed"
  /\ outcome = "succeeded" => reached
  /\ outcome = "permanent_failure" => ~reached
  /\ accepted' = [accepted EXCEPT ![worker[w].event] =
                    IF reached THEN @ \cup {worker[w].token} ELSE @]
  /\ worker' = [worker EXCEPT ![w] =
                  [@ EXCEPT !.pc = "sent", !.now = clock, !.outcome = outcome]]
  /\ UNCHANGED <<delivery, attempts, page, clock, nextId>>

(* Variant: the claim is matched by row and status alone.                  *)
MatchingRow(w) ==
  LET r == delivery[worker[w].event]
  IN  r.status = "sending" /\ ~r.sent

(* _matching_claim: the row is still under the worker's own claim.          *)
MatchingClaim(w) ==
  LET r == delivery[worker[w].event]
  IN  /\ r.status = "sending"
      /\ r.claimToken = worker[w].token
      /\ ~r.sent

CompleteClaimed(w) ==
  LET e == worker[w].event
  IN  /\ worker[w].pc = "sent"
      /\ worker[w].outcome = "succeeded"
      /\ MatchingClaim(w)
      /\ HasCurrentAttempt(e)
      /\ attempts' = [attempts EXCEPT ![e] =
           Settled(@, delivery[e].attemptCount, "succeeded", worker[w].now)]
      /\ delivery' = [delivery EXCEPT ![e] = SucceededRow(@)]
      /\ worker' = [worker EXCEPT ![w] = Idle]
      /\ UNCHANGED <<accepted, page, clock, nextId>>

FailClaimed(w) ==
  LET e == worker[w].event
      outcome == worker[w].outcome
  IN  /\ worker[w].pc = "sent"
      /\ outcome # "succeeded"
      /\ MatchingClaim(w)
      /\ HasCurrentAttempt(e)
      /\ attempts' = [attempts EXCEPT ![e] =
           Settled(@, delivery[e].attemptCount, outcome, worker[w].now)]
      /\ delivery' = [delivery EXCEPT ![e] = FailedRow(@, outcome, worker[w].now)]
      /\ worker' = [worker EXCEPT ![w] = Idle]
      /\ UNCHANGED <<accepted, page, clock, nextId>>

(* A late result finds no matching claim, and nothing is written.           *)
DropLateResult(w) ==
  /\ worker[w].pc = "sent"
  /\ ~MatchingClaim(w)
  /\ worker' = [worker EXCEPT ![w] = Idle]
  /\ UNCHANGED <<delivery, attempts, accepted, page, clock, nextId>>

(* The process dies and compose starts it again with an empty memory.      *)
Crash(w) ==
  /\ worker[w].pc # "idle"
  /\ worker' = [worker EXCEPT ![w] = Idle]
  /\ UNCHANGED <<delivery, attempts, accepted, page, clock, nextId>>

(* Time passes.  It is only told while a delay or a claim is running: with *)
(* none, an hour that passes now and one that passes later look the same.  *)
TimerRunning ==
  \E e \in Events :
    \/ /\ delivery[e].status = "retry_wait"
       /\ clock < delivery[e].nextAttemptAt
    \/ /\ delivery[e].status = "sending"
       /\ clock < delivery[e].claimedAt + ClaimTimeout

Tick ==
  /\ TimerRunning
  /\ clock' = clock + 1
  /\ UNCHANGED <<delivery, attempts, accepted, worker, page, nextId>>

-------------------------------------------------------------------------------
OwnerStep(o) ==
  \/ \E e \in Events : ReadDetail(o, e)
  \/ RetryFailed(o)
  \/ RetryRefused(o)

WorkerStep(w) ==
  \/ Poll(w)
  \/ \E locked \in SUBSET Events : RecoverStaleClaims(w, locked)
  \/ \E locked \in SUBSET Events : ClaimNext(w, locked)
  \/ \E outcome \in Outcomes, reached \in BOOLEAN : Send(w, outcome, reached)
  \/ CompleteClaimed(w)
  \/ FailClaimed(w)
  \/ DropLateResult(w)
  \/ Crash(w)

Next ==
  \/ \E e \in Events : Enqueue(e)
  \/ \E o \in Owners : OwnerStep(o)
  \/ \E w \in Workers : WorkerStep(w)
  \/ Tick

Spec == Init /\ [][Next]_vars

(* compose restarts a worker that died and its main loop polls for ever, so *)
(* no worker stops at a step it can take; the channel call has a timeout.   *)
(* A worker may die between a poll and its claim, and may find rows locked, *)
(* but not every time: locks last one short transaction.  Owners and        *)
(* producers are under no obligation.                                       *)
WorkerFairness(w) ==
  /\ WF_vars(Poll(w))
  /\ SF_vars(RecoverStaleClaims(w, {}))
  /\ SF_vars(ClaimNext(w, {}))
  /\ WF_vars(\E outcome \in Outcomes, reached \in BOOLEAN : Send(w, outcome, reached))
  /\ WF_vars(CompleteClaimed(w) \/ FailClaimed(w) \/ DropLateResult(w))

FairSpec ==
  /\ Spec
  /\ WF_vars(Tick)
  /\ \A w \in Workers : WorkerFairness(w)
-------------------------------------------------------------------------------
(* Properties.                                                             *)

(* Every table row, worker memory and page has its shape.                  *)
TypeOK ==
  /\ delivery \in [Events -> Delivery]
  /\ attempts \in [Events -> Seq(Attempt)]
  /\ accepted \in [Events -> SUBSET Nat]
  /\ worker \in [Workers -> Worker]
  /\ page \in [Owners -> Nullable(Page)]
  /\ clock \in Nat
  /\ nextId \in Nat

(* The two tables agree: a row is sending exactly while its last attempt    *)
(* has no result, and then it holds the token of that attempt; every older *)
(* attempt is closed.  _current_attempt raises (and every worker with it,  *)
(* at the next recover_stale_claims) the day this is not so.               *)
RowAgrees(r, a) ==
  /\ Len(a) = r.attemptCount
  /\ \A n \in 1..Len(a) :
       a[n].result = NoValue <=> (r.status = "sending" /\ n = r.attemptCount)
  /\ r.status = "sending" => r.attemptCount >= 1
  /\ IF r.status = "sending"
       THEN r.claimToken = r.attemptCount /\ r.claimedAt # NoValue
       ELSE r.claimToken = NoValue /\ r.claimedAt = NoValue
  /\ r.nextAttemptAt # NoValue <=> r.status = "retry_wait"
  /\ r.sent <=> r.status = "succeeded"

ClaimLedger == \A e \in Events : RowAgrees(delivery[e], attempts[e])

(* No crash, late result or recovery gives a delivery more channel calls    *)
(* than its rounds allow, "up to four attempts" each, and a row waits only *)
(* while its round has an attempt left.                                    *)
WithinBudget(r) ==
  /\ r.roundAttemptCount <= MaxAttempts
  /\ r.status = "pending" => r.roundAttemptCount = 0
  /\ r.status = "retry_wait" => r.roundAttemptCount < MaxAttempts
  /\ r.status # "absent" =>
       /\ r.sendRound >= 1
       /\ r.attemptCount <= MaxAttempts * (r.sendRound - 1) + r.roundAttemptCount

RoundBudget == \A e \in Events : WithinBudget(delivery[e])

(* What the ledger says of an attempt is what the channel did with that    *)
(* very attempt: a worker that was written off never settles the attempt   *)
(* of the worker that replaced it, so a delivery recorded as sent has its  *)
(* message in the chat.                                                    *)
HonestLedger ==
  \A e \in Events :
    /\ \A n \in 1..Len(attempts[e]) :
         /\ attempts[e][n].result = "succeeded" => n \in accepted[e]
         /\ attempts[e][n].result = "permanent_failure" => n \notin accepted[e]
    /\ delivery[e].sent => accepted[e] # {}

(* Two processes never work under the same claim, so no attempt is sent     *)
(* twice: a repeated message always has a repeated attempt in the ledger.  *)
ExclusiveClaims ==
  \A v, w \in Workers :
    /\ v # w
    /\ worker[v].token # NoValue
    /\ worker[v].event = worker[w].event
    => worker[v].token # worker[w].token

(* An automatic retry starts no earlier than its delay after the end of    *)
(* the attempt before it, the delay being that of its place in the round   *)
(* (1, 5 and 30 minutes), whichever workers and clock readings took part.  *)
BackoffRespected ==
  \A e \in Events : \A n \in 1..Len(attempts[e]) :
    attempts[e][n].trigger = "automatic_retry" =>
      \E first \in 1..(n - 1) :
        /\ attempts[e][first].trigger # "automatic_retry"
        /\ \A m \in (first + 1)..n : attempts[e][m].trigger = "automatic_retry"
        /\ n - first + 1 <= MaxAttempts
        /\ attempts[e][n].started
             >= attempts[e][n - 1].finished + RetryDelays[n - first + 1]

(* An owner's retry acts on what the owner saw: as long as the version of  *)
(* the page is the row's, so are the status, the round and the attempts.   *)
VersionIdentifiesState ==
  \A o \in Owners :
    page[o] # NoValue =>
      LET r == delivery[page[o].event]
      IN  /\ page[o].version <= r.version
          /\ page[o].version = r.version =>
               /\ page[o].status = r.status
               /\ page[o].sendRound = r.sendRound
               /\ page[o].attemptCount = r.attemptCount

(* Once a delivery is recorded as sent nothing touches it again: no claim,  *)
(* no late failure, no recovery, no manual retry.                          *)
SuccessIsFinal ==
  [][\A e \in Events : delivery[e].sent =>
       /\ delivery'[e] = delivery[e]
       /\ attempts'[e] = attempts[e]]_vars

(* The ledger is history: attempts are only added, and one that has a      *)
(* result keeps it.                                                        *)
LedgerAppendOnly ==
  [][\A e \in Events :
       /\ Len(attempts[e]) <= Len(attempts'[e])
       /\ \A n \in 1..Len(attempts[e]) :
            attempts[e][n].result # NoValue => attempts'[e][n] = attempts[e][n]]_vars

(* Every event that was enqueued is in the end recorded as sent or failed,  *)
(* and so is every round an owner opens, although workers die between the  *)
(* claim and the result.                                                   *)
Settles ==
  \A e \in Events :
    delivery[e].status \in {"pending", "retry_wait", "sending"}
      ~> delivery[e].status \in {"succeeded", "failed"}

(* The promise the outbox implements.                                      *)
PromiseState(r) ==
  CASE r.status = "absent" -> "none"
    [] r.status \in {"pending", "retry_wait"} -> "queued"
    [] r.status = "sending" -> "trying"
    [] r.status = "succeeded" -> "sent"
    [] r.status = "failed" -> "given_up"

Promise == INSTANCE OutboxPromise WITH
  Budget <- MaxAttempts,
  state <- [e \in Events |-> PromiseState(delivery[e])],
  tries <- [e \in Events |-> delivery[e].roundAttemptCount],
  reached <- [e \in Events |-> accepted[e] # {}]

(* Rows, claims, clocks, crashes and late workers together keep the        *)
(* promise of OutboxPromise.                                               *)
KeepsPromise == Promise!Spec
===============================================================================
