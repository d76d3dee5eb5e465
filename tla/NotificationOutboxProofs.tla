----------------------- MODULE NotificationOutboxProofs -----------------------
(***************************************************************************)
(* Proofs about NotificationOutbox, for any number of events, notifiers    *)
(* and owners, any schedule of delays and any claim timeout.               *)
(***************************************************************************)
EXTENDS NotificationOutbox, SequenceTheorems, TLAPS

-------------------------------------------------------------------------------
(* The rows that the handlers write, field by field.                       *)

(* A delay exists for every attempt that is not the last of its round.     *)
LEMMA DelayType ==
  ASSUME NEW r \in Delivery, r.roundAttemptCount < MaxAttempts
  PROVE  Delay(r) \in Nat
BY RetryDelaysAssumption DEF Delivery, MaxAttempts, Delay

(* A row whose claim has ended: what every handler that ends one leaves.   *)
Ended(r, status, round, roundCount, due, sent) ==
  [status |-> status, attemptCount |-> r.attemptCount, sendRound |-> round,
   roundAttemptCount |-> roundCount, nextAttemptAt |-> due, sent |-> sent,
   claimToken |-> NoValue, claimedAt |-> NoValue, version |-> r.version + 1,
   id |-> r.id]

(* Ending a claim touches the claim, the due time and the version.         *)
LEMMA ReleasedIs ==
  ASSUME NEW r \in Delivery
  PROVE  Released(r) =
           Ended(r, r.status, r.sendRound, r.roundAttemptCount, NoValue, r.sent)
<1> DEFINE q == Released(r)
<1>1. q = [r EXCEPT !.nextAttemptAt = NoValue,
                  !.claimToken = NoValue,
                  !.claimedAt = NoValue,
                  !.version = r.version + 1]
  BY DEF Released
<1> HIDE DEF q
<1>2. q = Ended(r, r.status, r.sendRound, r.roundAttemptCount, NoValue, r.sent)
  BY <1>1, Zenon DEF Delivery, Ended
<1> QED
  BY <1>2 DEF q

(* A claim counts one attempt more, of the row and of its round.           *)
LEMMA ClaimedRowIs ==
  ASSUME NEW r \in Delivery, NEW now \in Nat
  PROVE  ClaimedRow(r, now) =
           [status |-> "sending", attemptCount |-> r.attemptCount + 1,
            sendRound |-> r.sendRound,
            roundAttemptCount |-> r.roundAttemptCount + 1,
            nextAttemptAt |-> NoValue, sent |-> r.sent,
            claimToken |-> r.attemptCount + 1, claimedAt |-> now,
            version |-> r.version + 1, id |-> r.id]
<1> DEFINE q == ClaimedRow(r, now)
<1>1. q = [r EXCEPT !.status = "sending",
                  !.attemptCount = r.attemptCount + 1,
                  !.roundAttemptCount = r.roundAttemptCount + 1,
                  !.claimToken = r.attemptCount + 1,
                  !.claimedAt = now,
                  !.nextAttemptAt = NoValue,
                  !.version = r.version + 1]
  BY DEF ClaimedRow, NextAttemptNumber
<1> HIDE DEF q
<1>2. q = [status |-> "sending", attemptCount |-> r.attemptCount + 1,
            sendRound |-> r.sendRound,
            roundAttemptCount |-> r.roundAttemptCount + 1,
            nextAttemptAt |-> NoValue, sent |-> r.sent,
            claimToken |-> r.attemptCount + 1, claimedAt |-> now,
            version |-> r.version + 1, id |-> r.id]
  BY <1>1, Zenon DEF Delivery, Ended
<1> QED
  BY <1>2 DEF q

(* A delivered event keeps its counts.                                     *)
LEMMA SucceededRowIs ==
  ASSUME NEW r \in Delivery
  PROVE  SucceededRow(r) =
           Ended(r, "succeeded", r.sendRound, r.roundAttemptCount, NoValue, TRUE)
<1> DEFINE b == Released(r)
           q == SucceededRow(r)
<1>1. b = Ended(r, r.status, r.sendRound, r.roundAttemptCount, NoValue, r.sent)
  BY ReleasedIs
<1>2. q = [b EXCEPT !.status = "succeeded", !.sent = TRUE]
  BY DEF SucceededRow
<1> HIDE DEF b, q
<1>3. q = Ended(r, "succeeded", r.sendRound, r.roundAttemptCount, NoValue, TRUE)
  BY <1>1, <1>2, Zenon DEF Ended
<1> QED
  BY <1>3 DEF q

(* A reopened delivery starts a round with no attempts.                    *)
LEMMA ReopenedRowIs ==
  ASSUME NEW r \in Delivery
  PROVE  ReopenedRow(r) =
           Ended(r, "pending", r.sendRound + 1, 0, NoValue, r.sent)
<1> DEFINE b == Released(r)
           q == ReopenedRow(r)
<1>1. b = Ended(r, r.status, r.sendRound, r.roundAttemptCount, NoValue, r.sent)
  BY ReleasedIs
<1>2. q = [b EXCEPT !.status = "pending",
                  !.sendRound = b.sendRound + 1,
                  !.roundAttemptCount = 0]
  BY DEF ReopenedRow
<1> HIDE DEF b, q
<1>3. q = Ended(r, "pending", r.sendRound + 1, 0, NoValue, r.sent)
  BY <1>1, <1>2, Zenon DEF Ended
<1> QED
  BY <1>3 DEF q

(* A failure with attempts left waits for the next one.                    *)
LEMMA WaitingRowIs ==
  ASSUME NEW r \in Delivery, NEW outcome, NEW now \in Nat,
         Retries(r, outcome)
  PROVE  FailedRow(r, outcome, now) =
           Ended(r, "retry_wait", r.sendRound, r.roundAttemptCount,
                 now + Delay(r), r.sent)
<1> DEFINE b == Released(r)
           q == FailedRow(r, outcome, now)
<1>1. b = Ended(r, r.status, r.sendRound, r.roundAttemptCount, NoValue, r.sent)
  BY ReleasedIs
<1>2. q = [b EXCEPT !.status = "retry_wait",
                  !.nextAttemptAt = now + Delay(r)]
  BY DEF FailedRow
<1> HIDE DEF b, q
<1>3. q = Ended(r, "retry_wait", r.sendRound, r.roundAttemptCount,
                 now + Delay(r), r.sent)
  BY <1>1, <1>2, Zenon DEF Ended
<1> QED
  BY <1>3 DEF q

(* A failure without attempts left, or a permanent one, ends the round.    *)
LEMMA GivenUpRowIs ==
  ASSUME NEW r \in Delivery, NEW outcome, NEW now \in Nat,
         ~Retries(r, outcome)
  PROVE  FailedRow(r, outcome, now) =
           Ended(r, "failed", r.sendRound, r.roundAttemptCount, NoValue, r.sent)
<1> DEFINE b == Released(r)
           q == FailedRow(r, outcome, now)
<1>1. b = Ended(r, r.status, r.sendRound, r.roundAttemptCount, NoValue, r.sent)
  BY ReleasedIs
<1>2. q = [b EXCEPT !.status = "failed"]
  BY DEF FailedRow
<1> HIDE DEF b, q
<1>3. q = Ended(r, "failed", r.sendRound, r.roundAttemptCount, NoValue, r.sent)
  BY <1>1, <1>2, Zenon DEF Ended
<1> QED
  BY <1>3 DEF q

-------------------------------------------------------------------------------
(* One row and its attempts.                                               *)

RowInv(r, a) ==
  /\ r \in Delivery
  /\ a \in Seq(Attempt)
  /\ RowAgrees(r, a)
  /\ WithinBudget(r)
  /\ r.status = "absent" => r = NoRow

(* A claim of a row that waits opens an attempt within the budget.         *)
LEMMA ClaimKeepsRow ==
  ASSUME NEW r, NEW a, NEW now \in Nat, RowInv(r, a),
         r.status \in {"pending", "retry_wait"}
  PROVE  RowInv(ClaimedRow(r, now), Append(a, OpenAttempt(r, now)))
<1> DEFINE q == ClaimedRow(r, now)
           x == OpenAttempt(r, now)
           b == Append(a, x)
<1>1. r \in Delivery /\ a \in Seq(Attempt) /\ RowAgrees(r, a) /\ WithinBudget(r)
  BY DEF RowInv
<1>2. q = [status |-> "sending", attemptCount |-> r.attemptCount + 1,
           sendRound |-> r.sendRound,
           roundAttemptCount |-> r.roundAttemptCount + 1,
           nextAttemptAt |-> NoValue, sent |-> r.sent,
           claimToken |-> r.attemptCount + 1, claimedAt |-> now,
           version |-> r.version + 1, id |-> r.id]
  BY <1>1, ClaimedRowIs
<1>3. x \in Attempt /\ x.result = NoValue
  BY DEF OpenAttempt, Attempt, TriggerOf, Triggers, Nullable
<1> HIDE DEF q, x
<1>4. q \in Delivery
  BY <1>1, <1>2 DEF Delivery, Statuses, Nullable
<1>5. /\ b \in Seq(Attempt)
      /\ Len(b) = Len(a) + 1
      /\ \A n \in 1..Len(a) : b[n] = a[n]
      /\ b[Len(a) + 1] = x
  BY <1>1, <1>3
<1> HIDE DEF b
<1>6. RowAgrees(q, b)
  <2>1. Len(b) = q.attemptCount
    BY <1>1, <1>2, <1>5 DEF RowAgrees
  <2>2. \A n \in 1..Len(b) :
          b[n].result = NoValue <=> (q.status = "sending" /\ n = q.attemptCount)
    <3> SUFFICES ASSUME NEW n \in 1..Len(b)
                 PROVE  b[n].result = NoValue <=> n = Len(b)
      BY <1>2, <2>1
    <3>1. CASE n = Len(b)
      BY <3>1, <1>3, <1>5, <1>1
    <3>2. CASE n # Len(b)
      <4>1. n \in 1..Len(a) /\ b[n] = a[n]
        BY <3>2, <1>5, <1>1
      <4>2. a[n].result # NoValue
        BY <4>1, <1>1 DEF RowAgrees
      <4> QED
        BY <3>2, <4>1, <4>2
    <3> QED
      BY <3>1, <3>2
  <2>3. /\ q.status = "sending" => q.attemptCount >= 1
        /\ q.claimToken = q.attemptCount /\ q.claimedAt # NoValue
        /\ q.nextAttemptAt # NoValue <=> q.status = "retry_wait"
        /\ q.sent <=> q.status = "succeeded"
    BY <1>1, <1>2, NoValueAssumption DEF RowAgrees, Delivery
  <2> QED
    BY <1>2, <2>1, <2>2, <2>3 DEF RowAgrees
<1>7. WithinBudget(q)
  <2>1. r.roundAttemptCount < MaxAttempts
    BY <1>1, RetryDelaysAssumption DEF WithinBudget, Delivery, MaxAttempts
  <2>2. MaxAttempts \in Nat
    BY RetryDelaysAssumption DEF MaxAttempts
  <2>3. MaxAttempts * (r.sendRound - 1) \in Int
    BY <2>2, <1>1 DEF Delivery
  <2> QED
    BY <1>1, <1>2, <2>1, <2>2, <2>3 DEF WithinBudget, Delivery
<1>8. q.status # "absent"
  BY <1>2
<1> QED
  BY <1>4, <1>5, <1>6, <1>7, <1>8 DEF RowInv, q, b, x

(* What the ledger shows once an attempt has its result: that attempt and  *)
(* no other has changed.                                                   *)
LEMMA SettledIs ==
  ASSUME NEW a \in Seq(Attempt), NEW n \in 1..Len(a),
         NEW outcome \in Outcomes, NEW now \in Nat
  PROVE  LET b == Settled(a, n, outcome, now)
         IN  /\ b \in Seq(Attempt)
             /\ Len(b) = Len(a)
             /\ \A k \in 1..Len(a) : k # n => b[k] = a[k]
             /\ b[n].result = outcome
             /\ b[n].trigger = a[n].trigger
             /\ b[n].started = a[n].started
             /\ b[n].finished = now
<1> DEFINE y == a[n]
           x == Closed(y, outcome, now)
<1>1. y \in Attempt
  OBVIOUS
<1>0. x = [y EXCEPT !.finished = now, !.result = outcome]
  BY DEF Closed
<1> HIDE DEF x, y
<1>2. x = [trigger |-> y.trigger, started |-> y.started,
           finished |-> now, result |-> outcome]
  BY <1>0, <1>1, Zenon DEF Attempt
<1>3. x \in Attempt
  BY <1>1, <1>2 DEF Attempt, Nullable
<1>4. Settled(a, n, outcome, now) = [a EXCEPT ![n] = x]
  BY DEF Settled, x, y
<1> QED
  BY <1>2, <1>3, <1>4 DEF y

(* A row that ends its claim and closes its attempt stays in order, if its  *)
(* new status keeps the budget.                                            *)
LEMMA EndKeepsRow ==
  ASSUME NEW r, NEW a, RowInv(r, a), r.status = "sending",
         NEW now \in Nat, NEW outcome \in Outcomes,
         NEW status \in {"succeeded", "retry_wait", "failed"},
         NEW due \in Nullable(Nat), NEW sent \in BOOLEAN,
         due # NoValue <=> status = "retry_wait",
         sent <=> status = "succeeded",
         status = "retry_wait" => r.roundAttemptCount < MaxAttempts
  PROVE  RowInv(Ended(r, status, r.sendRound, r.roundAttemptCount, due, sent),
                Settled(a, r.attemptCount, outcome, now))
<1> DEFINE q == Ended(r, status, r.sendRound, r.roundAttemptCount, due, sent)
           b == Settled(a, r.attemptCount, outcome, now)
<1>1. r \in Delivery /\ a \in Seq(Attempt) /\ RowAgrees(r, a) /\ WithinBudget(r)
  BY DEF RowInv
<1>2. r.attemptCount \in 1..Len(a)
  BY <1>1 DEF RowAgrees, Delivery
<1>3. /\ b \in Seq(Attempt)
      /\ Len(b) = Len(a)
      /\ \A k \in 1..Len(a) : k # r.attemptCount => b[k] = a[k]
      /\ b[r.attemptCount].result = outcome
  BY <1>1, <1>2, SettledIs
<1> HIDE DEF b
<1>4. q \in Delivery
  BY <1>1 DEF Delivery, Statuses, Nullable, Ended
<1>5. RowAgrees(q, b)
  <2>1. Len(b) = q.attemptCount
    BY <1>1, <1>3 DEF RowAgrees, Ended
  <2>2. \A n \in 1..Len(b) : b[n].result # NoValue
    <3> SUFFICES ASSUME NEW n \in 1..Len(b)
                 PROVE  b[n].result # NoValue
      OBVIOUS
    <3>1. CASE n = r.attemptCount
      BY <3>1, <1>3, NoValueAssumption
    <3>2. CASE n # r.attemptCount
      BY <3>2, <1>1, <1>3 DEF RowAgrees
    <3> QED
      BY <3>1, <3>2
  <2> QED
    BY <2>1, <2>2 DEF RowAgrees, Ended
<1>6. WithinBudget(q)
  <2>1. /\ r.roundAttemptCount <= MaxAttempts
        /\ r.sendRound >= 1
        /\ r.attemptCount <= MaxAttempts * (r.sendRound - 1) + r.roundAttemptCount
    BY <1>1 DEF WithinBudget
  <2> QED
    BY <2>1 DEF WithinBudget, Ended
<1>7. q.status # "absent"
  BY DEF Ended
<1> QED
  BY <1>3, <1>4, <1>5, <1>6, <1>7 DEF RowInv, b

(* An answer of the channel that settles a claim, and a claim written off.  *)
LEMMA SucceedKeepsRow ==
  ASSUME NEW r, NEW a, RowInv(r, a), r.status = "sending", NEW now \in Nat
  PROVE  RowInv(SucceededRow(r), Settled(a, r.attemptCount, "succeeded", now))
<1>1. r \in Delivery
  BY DEF RowInv
<1>2. SucceededRow(r) =
        Ended(r, "succeeded", r.sendRound, r.roundAttemptCount, NoValue, TRUE)
  BY <1>1, SucceededRowIs
<1>3. "succeeded" \in Outcomes /\ NoValue \in Nullable(Nat)
  BY DEF Outcomes, Nullable
<1> QED
  BY <1>2, <1>3, EndKeepsRow

(* A failed or uncertain attempt leaves its row in order (_apply_failure).  *)
LEMMA FailKeepsRow ==
  ASSUME NEW r, NEW a, RowInv(r, a), r.status = "sending", NEW now \in Nat,
         NEW outcome \in Outcomes
  PROVE  RowInv(FailedRow(r, outcome, now),
                Settled(a, r.attemptCount, outcome, now))
<1>1. r \in Delivery /\ ~r.sent /\ r.sent \in BOOLEAN
  BY DEF RowInv, RowAgrees, Delivery
<1>2. r.sent = FALSE
  BY <1>1
<1>3. CASE Retries(r, outcome)
  <2>1. r.roundAttemptCount < MaxAttempts
    BY <1>3 DEF Retries
  <2>2. now + Delay(r) \in Nat
    BY <1>1, <2>1, DelayType
  <2>3. now + Delay(r) \in Nullable(Nat) /\ now + Delay(r) # NoValue
    BY <2>2, NoValueAssumption DEF Nullable
  <2>4. FailedRow(r, outcome, now) =
          Ended(r, "retry_wait", r.sendRound, r.roundAttemptCount,
                now + Delay(r), FALSE)
    BY <1>1, <1>2, <1>3, WaitingRowIs
  <2> QED
    BY <2>1, <2>3, <2>4, EndKeepsRow
<1>4. CASE ~Retries(r, outcome)
  <2>1. FailedRow(r, outcome, now) =
          Ended(r, "failed", r.sendRound, r.roundAttemptCount, NoValue, FALSE)
    BY <1>1, <1>2, <1>4, GivenUpRowIs
  <2>2. NoValue \in Nullable(Nat)
    BY DEF Nullable
  <2> QED
    BY <2>1, <2>2, EndKeepsRow
<1> QED
  BY <1>3, <1>4

(* A new round brings its own MaxAttempts attempts to the budget.          *)
LEMMA ReopenKeepsRow ==
  ASSUME NEW r, NEW a, RowInv(r, a), r.status = "failed"
  PROVE  RowInv(ReopenedRow(r), a)
<1> DEFINE q == ReopenedRow(r)
<1>1. r \in Delivery /\ a \in Seq(Attempt) /\ RowAgrees(r, a) /\ WithinBudget(r)
  BY DEF RowInv
<1>2. q = Ended(r, "pending", r.sendRound + 1, 0, NoValue, r.sent)
  BY <1>1, ReopenedRowIs
<1> HIDE DEF q
<1>3. q \in Delivery
  BY <1>1, <1>2 DEF Delivery, Statuses, Nullable, Ended
<1>4. RowAgrees(q, a)
  BY <1>1, <1>2 DEF RowAgrees, Ended
<1>5. WithinBudget(q)
  <2>1. MaxAttempts \in Nat
    BY RetryDelaysAssumption DEF MaxAttempts
  <2>2. /\ r.sendRound \in Nat /\ r.attemptCount \in Nat
        /\ r.roundAttemptCount \in Nat
        /\ r.roundAttemptCount <= MaxAttempts
        /\ r.sendRound >= 1
        /\ r.attemptCount <= MaxAttempts * (r.sendRound - 1) + r.roundAttemptCount
    BY <1>1 DEF WithinBudget, Delivery
  <2>3. MaxAttempts * r.sendRound = MaxAttempts * (r.sendRound - 1) + MaxAttempts
    BY <2>1, <2>2
  <2>4. MaxAttempts * (r.sendRound - 1) \in Int
    BY <2>1, <2>2
  <2>5. r.attemptCount <= MaxAttempts * r.sendRound
    BY <2>1, <2>2, <2>3, <2>4
  <2> QED
    BY <1>2, <2>1, <2>2, <2>5 DEF WithinBudget, Ended
<1> QED
  BY <1>1, <1>2, <1>3, <1>4, <1>5 DEF RowInv, Ended, q

(* The row of a new event, and the row that is not there yet.              *)
LEMMA NoRowInv == RowInv(NoRow, <<>>)
<1>1. NoRow \in Delivery
  BY DEF NoRow, Delivery, Statuses, Nullable
<1>2. RowAgrees(NoRow, <<>>)
  BY DEF RowAgrees, NoRow
<1>3. WithinBudget(NoRow)
  BY RetryDelaysAssumption DEF WithinBudget, NoRow, MaxAttempts
<1> QED
  BY <1>1, <1>2, <1>3 DEF RowInv

(* The row of a new event, field by field.                                  *)
LEMMA NewRowIs ==
  ASSUME NEW id \in Nat
  PROVE  NewRow(id) =
           [status |-> "pending", attemptCount |-> 0, sendRound |-> 1,
            roundAttemptCount |-> 0, nextAttemptAt |-> NoValue, sent |-> FALSE,
            claimToken |-> NoValue, claimedAt |-> NoValue, version |-> 1,
            id |-> id]
<1> DEFINE b == NoRow
           q == NewRow(id)
<1>1. q = [b EXCEPT !.status = "pending", !.sendRound = 1, !.version = 1,
                    !.id = id]
  BY DEF NewRow
<1>2. b = [status |-> "absent", attemptCount |-> 0, sendRound |-> 0,
           roundAttemptCount |-> 0, nextAttemptAt |-> NoValue, sent |-> FALSE,
           claimToken |-> NoValue, claimedAt |-> NoValue, version |-> 0, id |-> 0]
  BY DEF NoRow
<1> HIDE DEF b, q
<1>3. q = [status |-> "pending", attemptCount |-> 0, sendRound |-> 1,
           roundAttemptCount |-> 0, nextAttemptAt |-> NoValue, sent |-> FALSE,
           claimToken |-> NoValue, claimedAt |-> NoValue, version |-> 1,
           id |-> id]
  BY <1>1, <1>2, Zenon
<1> QED
  BY <1>3 DEF q

(* enqueue leaves the new row in order.                                     *)
LEMMA EnqueueKeepsRow ==
  ASSUME NEW r, NEW a, RowInv(r, a), r.status = "absent", NEW id \in Nat
  PROVE  RowInv(NewRow(id), a)
<1> DEFINE q == NewRow(id)
<1>1. a \in Seq(Attempt) /\ Len(a) = 0
  BY DEF RowInv, RowAgrees, NoRow
<1>2. q = [status |-> "pending", attemptCount |-> 0, sendRound |-> 1,
           roundAttemptCount |-> 0, nextAttemptAt |-> NoValue, sent |-> FALSE,
           claimToken |-> NoValue, claimedAt |-> NoValue, version |-> 1,
           id |-> id]
  BY NewRowIs
<1> HIDE DEF q
<1>3. q \in Delivery
  BY <1>2 DEF Delivery, Statuses, Nullable
<1>4. RowAgrees(q, a)
  BY <1>1, <1>2 DEF RowAgrees
<1>5. WithinBudget(q)
  BY <1>2, RetryDelaysAssumption DEF WithinBudget, MaxAttempts
<1> QED
  BY <1>1, <1>2, <1>3, <1>4, <1>5 DEF RowInv, q

-------------------------------------------------------------------------------
(* What a step may do to one row, whoever takes it.                        *)

(* r, a are the row and its attempts before the step, q, b after it, and c *)
(* says which attempts the channel has accepted before it.                 *)
RowEnqueued(r, a, q, b) ==
  /\ r.status = "absent"
  /\ b = a
  /\ \E id \in Nat : q = NewRow(id)

RowClaimed(r, a, q, b) ==
  /\ r.status \in {"pending", "retry_wait"}
  /\ \E now \in Nat :
       /\ r.status = "retry_wait" => r.nextAttemptAt <= now
       /\ q = ClaimedRow(r, now)
       /\ b = Append(a, OpenAttempt(r, now))

RowSucceeded(r, a, c, q, b) ==
  /\ r.status = "sending"
  /\ r.attemptCount \in c
  /\ \E now \in Nat :
       /\ q = SucceededRow(r)
       /\ b = Settled(a, r.attemptCount, "succeeded", now)

RowFailed(r, a, c, q, b) ==
  /\ r.status = "sending"
  /\ \E now \in Nat, outcome \in Outcomes \ {"succeeded"} :
       /\ outcome = "permanent_failure" => r.attemptCount \notin c
       /\ q = FailedRow(r, outcome, now)
       /\ b = Settled(a, r.attemptCount, outcome, now)

RowReopened(r, a, q, b) ==
  /\ r.status = "failed"
  /\ q = ReopenedRow(r)
  /\ b = a

RowStep(r, a, c, q, b) ==
  \/ q = r /\ b = a
  \/ RowEnqueued(r, a, q, b)
  \/ RowClaimed(r, a, q, b)
  \/ RowSucceeded(r, a, c, q, b)
  \/ RowFailed(r, a, c, q, b)
  \/ RowReopened(r, a, q, b)

RowSteps ==
  \A e \in Events :
    RowStep(delivery[e], attempts[e], accepted[e], delivery'[e], attempts'[e])

(* Any such step keeps the row and its attempts in order.                  *)
LEMMA RowStepKeepsRow ==
  ASSUME NEW r, NEW a, NEW c, NEW q, NEW b, RowInv(r, a), RowStep(r, a, c, q, b)
  PROVE  RowInv(q, b)
<1>1. CASE q = r /\ b = a
  BY <1>1
<1>2. CASE RowEnqueued(r, a, q, b)
  BY <1>2, EnqueueKeepsRow DEF RowEnqueued
<1>3. CASE RowClaimed(r, a, q, b)
  BY <1>3, ClaimKeepsRow DEF RowClaimed
<1>4. CASE RowSucceeded(r, a, c, q, b)
  BY <1>4, SucceedKeepsRow DEF RowSucceeded
<1>5. CASE RowFailed(r, a, c, q, b)
  BY <1>5, FailKeepsRow DEF RowFailed
<1>6. CASE RowReopened(r, a, q, b)
  BY <1>6, ReopenKeepsRow DEF RowReopened
<1> QED
  BY <1>1, <1>2, <1>3, <1>4, <1>5, <1>6 DEF RowStep

(* The failed row, whether it waits or was given up.                       *)
LEMMA FailedRowKeepsCounts ==
  ASSUME NEW r \in Delivery, NEW outcome, NEW now \in Nat
  PROVE  LET q == FailedRow(r, outcome, now)
         IN  /\ q.attemptCount = r.attemptCount
             /\ q.roundAttemptCount = r.roundAttemptCount
             /\ q.version = r.version + 1
             /\ q.sent = r.sent
             /\ q.status = IF Retries(r, outcome) THEN "retry_wait" ELSE "failed"
<1>1. CASE Retries(r, outcome)
  BY <1>1, WaitingRowIs DEF Ended
<1>2. CASE ~Retries(r, outcome)
  BY <1>2, GivenUpRowIs DEF Ended
<1> QED
  BY <1>1, <1>2

(* Every change of a row changes its version, which only grows.            *)
LEMMA RowStepVersion ==
  ASSUME NEW r, NEW a, NEW c, NEW q, NEW b, RowInv(r, a), RowStep(r, a, c, q, b)
  PROVE  \/ q = r /\ b = a
         \/ q.version = r.version + 1
<1>1. r \in Delivery
  BY DEF RowInv
<1>2. CASE RowEnqueued(r, a, q, b)
  BY <1>2, NewRowIs DEF RowEnqueued, RowInv, NoRow
<1>3. CASE RowClaimed(r, a, q, b)
  BY <1>1, <1>3, ClaimedRowIs DEF RowClaimed
<1>4. CASE RowSucceeded(r, a, c, q, b)
  BY <1>1, <1>4, SucceededRowIs DEF RowSucceeded, Ended
<1>5. CASE RowFailed(r, a, c, q, b)
  BY <1>1, <1>5, FailedRowKeepsCounts DEF RowFailed
<1>6. CASE RowReopened(r, a, q, b)
  BY <1>1, <1>6, ReopenedRowIs DEF RowReopened, Ended
<1> QED
  BY <1>2, <1>3, <1>4, <1>5, <1>6 DEF RowStep

(* Attempts are only added, and one with a result keeps it.                *)
LEMMA RowStepAppends ==
  ASSUME NEW r, NEW a, NEW c, NEW q, NEW b, RowInv(r, a), RowStep(r, a, c, q, b)
  PROVE  /\ r.attemptCount <= q.attemptCount
         /\ Len(a) <= Len(b)
         /\ \A n \in 1..Len(a) : a[n].result # NoValue => b[n] = a[n]
         /\ \A n \in 1..Len(a) :
              b[n] = a[n] \/ (r.status = "sending" /\ n = r.attemptCount)
<1>1. /\ r \in Delivery /\ a \in Seq(Attempt) /\ RowAgrees(r, a)
      /\ Len(a) = r.attemptCount
      /\ r.attemptCount \in Nat
  BY DEF RowInv, RowAgrees, Delivery
<1>2. RowInv(q, b)
  BY RowStepKeepsRow
<1>3. b \in Seq(Attempt) /\ Len(b) = q.attemptCount
  BY <1>2 DEF RowInv, RowAgrees
<1>4. CASE b = a
  BY <1>1, <1>3, <1>4
<1>5. CASE RowClaimed(r, a, q, b)
  <2>1. PICK now \in Nat : b = Append(a, OpenAttempt(r, now))
    BY <1>5 DEF RowClaimed
  <2>2. OpenAttempt(r, now) \in Attempt
    BY DEF OpenAttempt, Attempt, TriggerOf, Triggers, Nullable
  <2>3. Len(b) = Len(a) + 1 /\ \A n \in 1..Len(a) : b[n] = a[n]
    BY <1>1, <2>1, <2>2
  <2> QED
    BY <1>1, <1>3, <2>3
<1>6. ASSUME r.status = "sending", NEW outcome \in Outcomes, NEW now \in Nat,
             b = Settled(a, r.attemptCount, outcome, now)
      PROVE  /\ Len(b) = Len(a)
             /\ \A n \in 1..Len(a) : n # r.attemptCount => b[n] = a[n]
             /\ \A n \in 1..Len(a) : a[n].result # NoValue => b[n] = a[n]
  <2>1. r.attemptCount \in 1..Len(a)
    BY <1>1, <1>6 DEF RowAgrees
  <2>2. Len(b) = Len(a) /\ \A n \in 1..Len(a) : n # r.attemptCount => b[n] = a[n]
    BY <1>1, <1>6, <2>1, SettledIs
  <2>3. a[r.attemptCount].result = NoValue
    BY <1>1, <1>6, <2>1 DEF RowAgrees
  <2> QED
    BY <2>2, <2>3
<1>7. CASE RowSucceeded(r, a, c, q, b)
  <2>1. r.status = "sending" /\ "succeeded" \in Outcomes
    BY <1>7 DEF RowSucceeded, Outcomes
  <2>2. PICK now \in Nat : b = Settled(a, r.attemptCount, "succeeded", now)
    BY <1>7 DEF RowSucceeded
  <2> QED
    BY <1>1, <1>3, <1>6, <2>1, <2>2
<1>8. CASE RowFailed(r, a, c, q, b)
  <2>1. r.status = "sending"
    BY <1>8 DEF RowFailed
  <2>2. PICK now \in Nat, outcome \in Outcomes :
          b = Settled(a, r.attemptCount, outcome, now)
    BY <1>8 DEF RowFailed
  <2> QED
    BY <1>1, <1>3, <1>6, <2>1, <2>2
<1> QED
  BY <1>4, <1>5, <1>7, <1>8 DEF RowStep, RowEnqueued, RowReopened

(* A delivery recorded as sent is in a status that no step leaves.         *)
LEMMA RowStepSentFinal ==
  ASSUME NEW r, NEW a, NEW c, NEW q, NEW b, RowInv(r, a), RowStep(r, a, c, q, b),
         r.sent
  PROVE  q = r /\ b = a
<1>1. r.status = "succeeded"
  BY DEF RowInv, RowAgrees
<1> QED
  BY <1>1 DEF RowStep, RowEnqueued, RowClaimed, RowSucceeded, RowFailed,
              RowReopened

-------------------------------------------------------------------------------
(* The inductive invariant.                                                *)

(* What a worker holds between its transactions: the attempt it claimed is  *)
(* one of the row's, nobody has closed it with an answer of the channel,   *)
(* and the outcome it brings back is what the channel did.                 *)
WorkerHolds(k) ==
  /\ k.pc \in {"polled", "recovered", "sent"} => k.now \in Nat
  /\ k.pc \in {"idle", "polled", "recovered"} => k.token = NoValue
  /\ k.pc \in {"claimed", "sent"} =>
       /\ k.event \in Events
       /\ k.token \in 1..delivery[k.event].attemptCount
  /\ k.pc = "claimed" =>
       /\ k.token \notin accepted[k.event]
       /\ attempts[k.event][k.token].result \in {NoValue, "uncertain"}
  /\ k.pc = "sent" =>
       /\ k.outcome \in Outcomes
       /\ k.outcome = "succeeded" => k.token \in accepted[k.event]
       /\ k.outcome = "permanent_failure" => k.token \notin accepted[k.event]

(* The ledger and the channel, for one delivery.                           *)
Honest(r, a, c) ==
  /\ c \subseteq 1..r.attemptCount
  /\ \A n \in 1..Len(a) :
       /\ a[n].result = "succeeded" => n \in c
       /\ a[n].result = "permanent_failure" => n \notin c
  /\ r.sent => c # {}

IInv ==
  /\ TypeOK
  /\ \A e \in Events : RowInv(delivery[e], attempts[e])
  /\ \A e \in Events : Honest(delivery[e], attempts[e], accepted[e])
  /\ \A w \in Workers : WorkerHolds(worker[w])
  /\ ExclusiveClaims
  /\ VersionIdentifiesState

(* Every step, whoever takes it, is a row step of every row: of the one the *)
(* handler locks, or in a recovery of all those that are stale.            *)
LEMMA StepsAreRowSteps ==
  ASSUME IInv, [Next]_vars
  PROVE  RowSteps
<1> USE DEF IInv
<1>1. TypeOK
  OBVIOUS
<1>2. ASSUME UNCHANGED <<delivery, attempts>>
      PROVE  RowSteps
  BY <1>2 DEF RowSteps, RowStep
<1>3. ASSUME NEW e \in Events, Enqueue(e)
      PROVE  RowSteps
  BY <1>1, <1>3 DEF RowSteps, RowStep, RowEnqueued, Enqueue, TypeOK
<1>4. ASSUME NEW o \in Owners, RetryFailed(o)
      PROVE  RowSteps
  <2>1. page[o].event \in Events
    BY <1>1, <1>4 DEF TypeOK, RetryFailed, Page, Nullable
  <2> QED
    BY <1>1, <1>4, <2>1 DEF RowSteps, RowStep, RowReopened, RetryFailed, TypeOK
<1>5. ASSUME NEW w \in Workers, NEW locked, RecoverStaleClaims(w, locked)
      PROVE  RowSteps
  <2> DEFINE now == worker[w].now
             stale == Stale(now) \ locked
  <2>1. now \in Nat
    BY <1>5 DEF WorkerHolds, RecoverStaleClaims
  <2>2. SUFFICES ASSUME NEW e \in Events
        PROVE  RowStep(delivery[e], attempts[e], accepted[e],
                       delivery'[e], attempts'[e])
    BY DEF RowSteps
  <2>3. CASE e \notin stale
    BY <1>5, <2>3 DEF RecoverStaleClaims, RowStep
  <2>4. CASE e \in stale
    <3>1. delivery[e].status = "sending"
      BY <2>4 DEF Stale
    <3>2. /\ delivery'[e] = FailedRow(delivery[e], "uncertain", now)
          /\ attempts'[e] =
               Settled(attempts[e], delivery[e].attemptCount, "uncertain", now)
      BY <1>5, <2>4 DEF RecoverStaleClaims
    <3>3. "uncertain" \in Outcomes \ {"succeeded"}
      BY DEF Outcomes
    <3> HIDE DEF now, stale
    <3> QED
      BY <2>1, <3>1, <3>2, <3>3 DEF RowStep, RowFailed
  <2> QED
    BY <2>3, <2>4
<1>6. ASSUME NEW w \in Workers, NEW locked, ClaimNext(w, locked)
      PROVE  RowSteps
  <2> DEFINE now == worker[w].now
             free == Claimable(now) \ locked
  <2>1. now \in Nat
    BY <1>6 DEF WorkerHolds, ClaimNext
  <2>2. CASE UNCHANGED <<delivery, attempts>>
    BY <2>2, <1>2
  <2>3. ASSUME NEW e \in free,
               delivery' = [delivery EXCEPT ![e] = ClaimedRow(@, now)],
               attempts' = [attempts EXCEPT ![e] =
                              Append(@, OpenAttempt(delivery[e], now))]
        PROVE  RowSteps
    <3>1. /\ e \in Events /\ delivery[e].status \in {"pending", "retry_wait"}
          /\ delivery[e].status = "retry_wait" => delivery[e].nextAttemptAt <= now
      BY DEF Claimable
    <3> HIDE DEF now, free
    <3> QED
      BY <1>1, <2>1, <2>3, <3>1 DEF RowSteps, RowStep, RowClaimed, TypeOK
  <2> QED
    BY <1>6, <2>2, <2>3 DEF ClaimNext
<1>7. ASSUME NEW w \in Workers, MatchingClaim(w), worker[w].pc = "sent"
      PROVE  /\ worker[w].event \in Events
             /\ worker[w].now \in Nat
             /\ worker[w].outcome \in Outcomes
             /\ delivery[worker[w].event].status = "sending"
             /\ worker[w].token = delivery[worker[w].event].attemptCount
  <2>1. WorkerHolds(worker[w])
    OBVIOUS
  <2>2. worker[w].event \in Events
    BY <1>7, <2>1 DEF WorkerHolds
  <2>3. RowAgrees(delivery[worker[w].event], attempts[worker[w].event])
    BY <2>2 DEF RowInv
  <2> QED
    BY <1>7, <2>1, <2>2, <2>3 DEF WorkerHolds, MatchingClaim, RowAgrees
<1>8. ASSUME NEW w \in Workers, CompleteClaimed(w)
      PROVE  RowSteps
  <2> DEFINE e == worker[w].event
  <2>1. /\ e \in Events
        /\ worker[w].now \in Nat
        /\ delivery[e].status = "sending"
        /\ worker[w].token = delivery[e].attemptCount
    BY <1>7, <1>8 DEF CompleteClaimed
  <2>2. delivery[e].attemptCount \in accepted[e]
    BY <1>8, <2>1 DEF CompleteClaimed, WorkerHolds
  <2> QED
    BY <1>1, <1>8, <2>1, <2>2
    DEF RowSteps, RowStep, RowSucceeded, CompleteClaimed, TypeOK
<1>9. ASSUME NEW w \in Workers, FailClaimed(w)
      PROVE  RowSteps
  <2> DEFINE e == worker[w].event
             outcome == worker[w].outcome
  <2>1. /\ e \in Events
        /\ worker[w].now \in Nat
        /\ outcome \in Outcomes \ {"succeeded"}
        /\ delivery[e].status = "sending"
        /\ worker[w].token = delivery[e].attemptCount
    BY <1>7, <1>9 DEF FailClaimed
  <2>2. outcome = "permanent_failure" => delivery[e].attemptCount \notin accepted[e]
    BY <1>9, <2>1 DEF FailClaimed, WorkerHolds
  <2> QED
    BY <1>1, <1>9, <2>1, <2>2
    DEF RowSteps, RowStep, RowFailed, FailClaimed, TypeOK
<1> QED
  BY <1>2, <1>3, <1>4, <1>5, <1>6, <1>8, <1>9
  DEF Next, vars, OwnerStep, WorkerStep, ReadDetail, RetryRefused, Poll, Send,
      DropLateResult, Crash, Tick

(* A row step leaves the ledger true: it records an answer of the channel   *)
(* only for the attempt that had it.                                       *)
LEMMA RowStepHonest ==
  ASSUME NEW r, NEW a, NEW c, NEW q, NEW b,
         RowInv(r, a), Honest(r, a, c), RowStep(r, a, c, q, b)
  PROVE  Honest(q, b, c)
<1>1. /\ r \in Delivery /\ a \in Seq(Attempt) /\ RowAgrees(r, a)
      /\ Len(a) = r.attemptCount
      /\ r.attemptCount \in Nat
  BY DEF RowInv, RowAgrees, Delivery
<1>2. /\ RowInv(q, b)
      /\ q \in Delivery
      /\ Len(b) = q.attemptCount
      /\ q.attemptCount \in Nat
  BY RowStepKeepsRow DEF RowInv, RowAgrees, Delivery
<1>3. c \subseteq 1..q.attemptCount
  BY <1>1, <1>2, RowStepAppends DEF Honest
<1>4. ASSUME NEW n \in 1..Len(b)
      PROVE  /\ b[n].result = "succeeded" => n \in c
             /\ b[n].result = "permanent_failure" => n \notin c
  <2>1. CASE n \in 1..Len(a) /\ b[n] = a[n]
    BY <2>1 DEF Honest
  <2>2. CASE RowClaimed(r, a, q, b) /\ n = Len(a) + 1
    <3>1. PICK now \in Nat : b = Append(a, OpenAttempt(r, now))
      BY <2>2 DEF RowClaimed
    <3>2. b[n] = OpenAttempt(r, now)
      BY <1>1, <2>2, <3>1
    <3>3. b[n].result = NoValue
      BY <3>2 DEF OpenAttempt
    <3> QED
      BY <3>3, NoValueAssumption DEF Outcomes
  <2>3. CASE RowSucceeded(r, a, c, q, b) /\ n = r.attemptCount
    <3>1. PICK now \in Nat : b = Settled(a, r.attemptCount, "succeeded", now)
      BY <2>3 DEF RowSucceeded
    <3>2. r.attemptCount \in 1..Len(a) /\ "succeeded" \in Outcomes
      BY <1>1, <2>3 DEF RowSucceeded, RowAgrees, Outcomes
    <3>3. b[n].result = "succeeded"
      BY <1>1, <2>3, <3>1, <3>2, SettledIs
    <3> QED
      BY <2>3, <3>3 DEF RowSucceeded
  <2>4. CASE RowFailed(r, a, c, q, b) /\ n = r.attemptCount
    <3>1. PICK now \in Nat, outcome \in Outcomes \ {"succeeded"} :
            /\ b = Settled(a, r.attemptCount, outcome, now)
            /\ outcome = "permanent_failure" => r.attemptCount \notin c
      BY <2>4 DEF RowFailed
    <3>2. r.attemptCount \in 1..Len(a)
      BY <1>1, <2>4 DEF RowFailed, RowAgrees
    <3>3. b[n].result = outcome
      BY <1>1, <2>4, <3>1, <3>2, SettledIs
    <3> QED
      BY <2>4, <3>1, <3>3
  <2>5. Len(b) = Len(a) \/ (RowClaimed(r, a, q, b) /\ Len(b) = Len(a) + 1)
    <3>1. CASE RowClaimed(r, a, q, b)
      BY <1>1, <1>2, <3>1, ClaimedRowIs DEF RowClaimed
    <3>2. CASE RowSucceeded(r, a, c, q, b)
      BY <1>1, <1>2, <3>2, SucceededRowIs DEF RowSucceeded, Ended
    <3>3. CASE RowFailed(r, a, c, q, b)
      BY <1>1, <1>2, <3>3, FailedRowKeepsCounts DEF RowFailed
    <3> QED
      BY <3>1, <3>2, <3>3 DEF RowStep, RowEnqueued, RowReopened
  <2>6. n \in 1..Len(a) /\ b[n] # a[n] =>
          r.status = "sending" /\ n = r.attemptCount
    BY RowStepAppends
  <2>7. r.status = "sending" /\ b # a =>
          RowSucceeded(r, a, c, q, b) \/ RowFailed(r, a, c, q, b)
    BY DEF RowStep, RowEnqueued, RowClaimed, RowReopened
  <2> QED
    BY <1>1, <1>2, <2>1, <2>2, <2>3, <2>4, <2>5, <2>6, <2>7
<1>5. q.sent => c # {}
  <2>1. CASE q = r
    BY <2>1 DEF Honest
  <2>2. CASE RowEnqueued(r, a, q, b)
    BY <2>2, NewRowIs DEF RowEnqueued
  <2>3. CASE RowClaimed(r, a, q, b)
    BY <1>1, <2>3, ClaimedRowIs DEF RowClaimed, Honest
  <2>4. CASE RowSucceeded(r, a, c, q, b)
    BY <2>4 DEF RowSucceeded
  <2>5. CASE RowFailed(r, a, c, q, b)
    BY <1>1, <2>5, FailedRowKeepsCounts DEF RowFailed, Honest
  <2>6. CASE RowReopened(r, a, q, b)
    BY <1>1, <2>6, ReopenedRowIs DEF RowReopened, Ended, Honest
  <2> QED
    BY <2>1, <2>2, <2>3, <2>4, <2>5, <2>6 DEF RowStep
<1> QED
  BY <1>3, <1>4, <1>5 DEF Honest

(* The page of an owner and the row it shows.                              *)
LEMMA VersionStep ==
  ASSUME IInv, [Next]_vars
  PROVE  VersionIdentifiesState'
<1> USE DEF IInv
<1>1. RowSteps
  BY StepsAreRowSteps
<1>2. SUFFICES ASSUME NEW o \in Owners, page'[o] # NoValue
      PROVE  LET r == delivery'[page'[o].event]
             IN  /\ page'[o].version <= r.version
                 /\ page'[o].version = r.version =>
                      /\ page'[o].status = r.status
                      /\ page'[o].sendRound = r.sendRound
                      /\ page'[o].attemptCount = r.attemptCount
  BY DEF VersionIdentifiesState
<1>3. ASSUME page[o] # NoValue,
             page'[o].event = page[o].event,
             page'[o].version = page[o].version,
             page'[o].status = page[o].status,
             page'[o].sendRound = page[o].sendRound,
             page'[o].attemptCount = page[o].attemptCount
      PROVE  LET r == delivery'[page'[o].event]
             IN  /\ page'[o].version <= r.version
                 /\ page'[o].version = r.version =>
                      /\ page'[o].status = r.status
                      /\ page'[o].sendRound = r.sendRound
                      /\ page'[o].attemptCount = r.attemptCount
  <2> DEFINE e == page[o].event
  <2>1. page[o] \in Page
    BY <1>3 DEF TypeOK, Nullable
  <2>2. e \in Events /\ page[o].version \in Nat
    BY <2>1 DEF Page
  <2>3. delivery[e].version \in Nat
    BY <2>2 DEF TypeOK, Delivery
  <2>4. \/ delivery'[e] = delivery[e]
        \/ delivery'[e].version = delivery[e].version + 1
    BY <1>1, <2>2, RowStepVersion DEF RowSteps
  <2>5. /\ page[o].version <= delivery[e].version
        /\ page[o].version = delivery[e].version =>
             /\ page[o].status = delivery[e].status
             /\ page[o].sendRound = delivery[e].sendRound
             /\ page[o].attemptCount = delivery[e].attemptCount
    BY <1>3 DEF VersionIdentifiesState
  <2> QED
    BY <1>3, <2>2, <2>3, <2>4, <2>5
<1>4. ASSUME NEW p \in Owners, NEW e \in Events, ReadDetail(p, e), o = p
      PROVE  LET r == delivery'[page'[o].event]
             IN  /\ page'[o].version <= r.version
                 /\ page'[o].version = r.version =>
                      /\ page'[o].status = r.status
                      /\ page'[o].sendRound = r.sendRound
                      /\ page'[o].attemptCount = r.attemptCount
  BY <1>4 DEF ReadDetail, TypeOK, Delivery
<1>5. ASSUME NEW reply, page' = [page EXCEPT ![o] = [@ EXCEPT !.reply = reply]],
             page[o] # NoValue
      PROVE  /\ page'[o].event = page[o].event
             /\ page'[o].version = page[o].version
             /\ page'[o].status = page[o].status
             /\ page'[o].sendRound = page[o].sendRound
             /\ page'[o].attemptCount = page[o].attemptCount
  <2>1. page[o] \in Page
    BY <1>5 DEF TypeOK, Nullable
  <2>2. page'[o] = [page[o] EXCEPT !.reply = reply]
    BY <1>5 DEF TypeOK
  <2> QED
    BY <2>1, <2>2 DEF Page
<1>6. \/ page'[o] = page[o]
      \/ \E e \in Events : ReadDetail(o, e)
      \/ \E reply : /\ page' = [page EXCEPT ![o] = [@ EXCEPT !.reply = reply]]
                    /\ page[o] # NoValue
  <2>1. CASE UNCHANGED page
    BY <2>1
  <2>2. ASSUME NEW p \in Owners, OwnerStep(p), p # o
        PROVE  page'[o] = page[o]
    BY <2>2 DEF OwnerStep, ReadDetail, RetryFailed, RetryRefused, TypeOK
  <2>3. ASSUME OwnerStep(o)
        PROVE  \/ \E e \in Events : ReadDetail(o, e)
               \/ \E reply : /\ page' = [page EXCEPT ![o] = [@ EXCEPT !.reply = reply]]
                             /\ page[o] # NoValue
    BY <2>3 DEF OwnerStep, RetryFailed, RetryRefused
  <2> QED
    BY <2>1, <2>2, <2>3
    DEF Next, vars, WorkerStep, Enqueue, Poll, RecoverStaleClaims, ClaimNext,
        Send, CompleteClaimed, FailClaimed, DropLateResult, Crash, Tick
<1> QED
  BY <1>2, <1>3, <1>4, <1>5, <1>6

(* What a worker remembers after a poll, a claim and an answer.             *)
LEMMA IdleMemory == Idle \in Worker /\ Idle.pc = "idle" /\ Idle.token = NoValue
BY DEF Idle, Worker, Nullable

Polled(now) == [Idle EXCEPT !.pc = "polled", !.now = now]

(* A notifier that has read the clock holds no claim.                       *)
LEMMA PolledMemory ==
  ASSUME NEW now \in Nat
  PROVE  LET k == Polled(now)
         IN  /\ k \in Worker
             /\ k.pc = "polled" /\ k.now = now /\ k.token = NoValue
<1> DEFINE b == Idle
           k == Polled(now)
<1>1. k = [b EXCEPT !.pc = "polled", !.now = now]
  BY DEF Polled
<1>2. b = [pc |-> "idle", now |-> NoValue, event |-> NoValue, token |-> NoValue,
           outcome |-> NoValue]
  BY DEF Idle
<1> HIDE DEF b, k
<1>3. k = [pc |-> "polled", now |-> now, event |-> NoValue, token |-> NoValue,
           outcome |-> NoValue]
  BY <1>1, <1>2, Zenon
<1>4. k \in Worker /\ k.pc = "polled" /\ k.now = now /\ k.token = NoValue
  BY <1>3 DEF Worker, Nullable
<1> QED
  BY <1>4 DEF k

Claiming(e, token) ==
  [Idle EXCEPT !.pc = "claimed", !.event = e, !.token = token]

(* A notifier that has claimed holds its event and its token.               *)
LEMMA ClaimedMemory ==
  ASSUME NEW e \in Events, NEW token \in Nat
  PROVE  LET k == Claiming(e, token)
         IN  /\ k \in Worker
             /\ k.pc = "claimed" /\ k.event = e /\ k.token = token
<1> DEFINE b == Idle
           k == Claiming(e, token)
<1>1. k = [b EXCEPT !.pc = "claimed", !.event = e, !.token = token]
  BY DEF Claiming
<1>2. b = [pc |-> "idle", now |-> NoValue, event |-> NoValue, token |-> NoValue,
           outcome |-> NoValue]
  BY DEF Idle
<1> HIDE DEF b, k
<1>3. k = [pc |-> "claimed", now |-> NoValue, event |-> e, token |-> token,
           outcome |-> NoValue]
  BY <1>1, <1>2, Zenon
<1>4. k \in Worker /\ k.pc = "claimed" /\ k.event = e /\ k.token = token
  BY <1>3 DEF Worker, Nullable
<1> QED
  BY <1>4 DEF k

Answered(m, now, outcome) ==
  [m EXCEPT !.pc = "sent", !.now = now, !.outcome = outcome]

(* A notifier that has called the channel still holds its claim.            *)
LEMMA SentMemory ==
  ASSUME NEW m \in Worker, NEW now \in Nat, NEW outcome \in Outcomes
  PROVE  LET k == Answered(m, now, outcome)
         IN  /\ k \in Worker
             /\ k.pc = "sent" /\ k.event = m.event /\ k.token = m.token
             /\ k.now = now /\ k.outcome = outcome
<1> DEFINE k == Answered(m, now, outcome)
<1>1. k = [m EXCEPT !.pc = "sent", !.now = now, !.outcome = outcome]
  BY DEF Answered
<1> HIDE DEF k
<1>2. k = [pc |-> "sent", now |-> now, event |-> m.event, token |-> m.token,
           outcome |-> outcome]
  BY <1>1, Zenon DEF Worker
<1>3. /\ k \in Worker
      /\ k.pc = "sent" /\ k.event = m.event /\ k.token = m.token
      /\ k.now = now /\ k.outcome = outcome
  BY <1>2 DEF Worker, Nullable
<1> QED
  BY <1>3 DEF k

(* What one worker's memory may become, and the channel and the rows with   *)
(* it: the steps of the worker, seen from its memory k.                    *)
MemoryStep(w) ==
  \/ /\ worker'[w] = Idle
     /\ accepted' = accepted
  \/ /\ worker'[w].pc \in {"polled", "recovered"}
     /\ worker'[w].now \in Nat
     /\ worker'[w].token = NoValue
     /\ accepted' = accepted
  \/ \E e \in Events :
       /\ worker'[w].pc = "claimed"
       /\ worker'[w].event = e
       /\ worker'[w].token = delivery[e].attemptCount + 1
       /\ RowClaimed(delivery[e], attempts[e], delivery'[e], attempts'[e])
       /\ accepted' = accepted
  \/ /\ worker[w].pc = "claimed"
     /\ worker'[w].pc = "sent"
     /\ worker'[w].event = worker[w].event
     /\ worker'[w].token = worker[w].token
     /\ worker'[w].now \in Nat
     /\ worker'[w].outcome \in Outcomes
     /\ UNCHANGED <<delivery, attempts>>
     /\ \E reached \in BOOLEAN :
          /\ worker'[w].outcome = "succeeded" => reached
          /\ worker'[w].outcome = "permanent_failure" => ~reached
          /\ accepted' = [accepted EXCEPT ![worker[w].event] =
                            IF reached THEN @ \cup {worker[w].token} ELSE @]

(* Whatever a notifier does, only its own memory changes, in these ways.    *)
LEMMA WorkerStepIsMemoryStep ==
  ASSUME IInv, NEW w \in Workers, WorkerStep(w)
  PROVE  /\ worker' \in [Workers -> Worker]
         /\ \A v \in Workers \ {w} : worker'[v] = worker[v]
         /\ MemoryStep(w)
<1> USE DEF IInv
<1>1. /\ worker \in [Workers -> Worker]
      /\ clock \in Nat
      /\ delivery \in [Events -> Delivery]
      /\ attempts \in [Events -> Seq(Attempt)]
  BY DEF TypeOK
<1>2. WorkerHolds(worker[w])
  OBVIOUS
<1>3. CASE Poll(w)
  <2> DEFINE k == Polled(clock)
  <2>1. k \in Worker /\ k.pc = "polled" /\ k.now = clock /\ k.token = NoValue
    BY <1>1, PolledMemory
  <2>2. worker' = [worker EXCEPT ![w] = k] /\ UNCHANGED accepted
    BY <1>3 DEF Poll, Polled
  <2> HIDE DEF k
  <2> QED
    BY <1>1, <2>1, <2>2 DEF MemoryStep
<1>4. ASSUME NEW locked, RecoverStaleClaims(w, locked)
      PROVE  /\ worker' \in [Workers -> Worker]
             /\ \A v \in Workers \ {w} : worker'[v] = worker[v]
             /\ MemoryStep(w)
  <2> DEFINE m == worker[w]
             k == [m EXCEPT !.pc = "recovered"]
  <2>1. m \in Worker /\ m.now \in Nat /\ m.token = NoValue
    BY <1>1, <1>2, <1>4 DEF RecoverStaleClaims, WorkerHolds
  <2>2. worker' = [worker EXCEPT ![w] = k] /\ UNCHANGED accepted
    BY <1>4 DEF RecoverStaleClaims
  <2> HIDE DEF m
  <2>3. k \in Worker /\ k.pc = "recovered" /\ k.now \in Nat /\ k.token = NoValue
    BY <2>1 DEF Worker
  <2> HIDE DEF k
  <2> QED
    BY <1>1, <2>2, <2>3 DEF MemoryStep
<1>5. ASSUME NEW locked, ClaimNext(w, locked)
      PROVE  /\ worker' \in [Workers -> Worker]
             /\ \A v \in Workers \ {w} : worker'[v] = worker[v]
             /\ MemoryStep(w)
  <2> DEFINE now == worker[w].now
             free == Claimable(now) \ locked
  <2>1. now \in Nat /\ UNCHANGED accepted
    BY <1>2, <1>5 DEF ClaimNext, WorkerHolds
  <2>2. CASE worker' = [worker EXCEPT ![w] = Idle]
    BY <1>1, <2>1, <2>2, IdleMemory DEF MemoryStep
  <2>3. ASSUME NEW e \in free,
               delivery' = [delivery EXCEPT ![e] = ClaimedRow(@, now)],
               attempts' = [attempts EXCEPT ![e] =
                              Append(@, OpenAttempt(delivery[e], now))],
               worker' = [worker EXCEPT ![w] =
                   [Idle EXCEPT !.pc = "claimed", !.event = e,
                                !.token = ClaimedRow(delivery[e], now).claimToken]]
        PROVE  /\ worker' \in [Workers -> Worker]
               /\ \A v \in Workers \ {w} : worker'[v] = worker[v]
               /\ MemoryStep(w)
    <3> DEFINE token == ClaimedRow(delivery[e], now).claimToken
               k == Claiming(e, token)
    <3>1. /\ e \in Events /\ delivery[e].status \in {"pending", "retry_wait"}
          /\ delivery[e].status = "retry_wait" => delivery[e].nextAttemptAt <= now
      BY DEF Claimable
    <3>2. token = delivery[e].attemptCount + 1 /\ token \in Nat
      BY <1>1, <2>1, <3>1, ClaimedRowIs DEF Delivery
    <3> HIDE DEF token, now, free
    <3>3. k \in Worker /\ k.pc = "claimed" /\ k.event = e /\ k.token = token
      BY <3>1, <3>2, ClaimedMemory
    <3>4. worker' = [worker EXCEPT ![w] = k]
      BY <2>3 DEF token, now, Claiming
    <3>5. RowClaimed(delivery[e], attempts[e], delivery'[e], attempts'[e])
      BY <1>1, <2>1, <2>3, <3>1 DEF RowClaimed
    <3> HIDE DEF k
    <3> QED
      BY <1>1, <2>1, <3>1, <3>2, <3>3, <3>4, <3>5 DEF MemoryStep
  <2> QED
    BY <1>5, <2>2, <2>3 DEF ClaimNext
<1>6. ASSUME NEW outcome \in Outcomes, NEW reached \in BOOLEAN,
             Send(w, outcome, reached)
      PROVE  /\ worker' \in [Workers -> Worker]
             /\ \A v \in Workers \ {w} : worker'[v] = worker[v]
             /\ MemoryStep(w)
  <2> DEFINE m == worker[w]
             k == Answered(m, clock, outcome)
  <2>1. worker' = [worker EXCEPT ![w] = k]
    BY <1>6 DEF Send, Answered
  <2>2. m \in Worker
    BY <1>1
  <2> HIDE DEF m
  <2>3. /\ k \in Worker
        /\ k.pc = "sent" /\ k.event = m.event /\ k.token = m.token
        /\ k.now = clock /\ k.outcome = outcome
    BY <1>1, <2>2, SentMemory
  <2> HIDE DEF k
  <2>4. worker'[w] = k /\ m = worker[w]
    BY <1>1, <2>1 DEF m
  <2>5. MemoryStep(w)
    BY <1>1, <1>6, <2>3, <2>4 DEF MemoryStep, Send
  <2> QED
    BY <1>1, <2>1, <2>3, <2>5
<1>7. CASE CompleteClaimed(w) \/ FailClaimed(w) \/ DropLateResult(w) \/ Crash(w)
  <2>1. worker' = [worker EXCEPT ![w] = Idle] /\ UNCHANGED accepted
    BY <1>7 DEF CompleteClaimed, FailClaimed, DropLateResult, Crash
  <2> QED
    BY <1>1, <2>1, IdleMemory DEF MemoryStep
<1> QED
  BY <1>3, <1>4, <1>5, <1>6, <1>7 DEF WorkerStep

(* An attempt that changes was written off, or answered by the very worker  *)
(* that takes the step.                                                    *)
LEMMA AnswersOwnAttempt ==
  ASSUME IInv, NEW w \in Workers, WorkerStep(w),
         NEW e \in Events, NEW n \in 1..Len(attempts[e]),
         attempts'[e][n] # attempts[e][n]
  PROVE  \/ attempts'[e][n].result = "uncertain"
         \/ /\ worker[w].pc = "sent"
            /\ worker[w].event = e
            /\ worker[w].token = n
<1> USE DEF IInv
<1>1. /\ attempts \in [Events -> Seq(Attempt)]
      /\ attempts[e] \in Seq(Attempt)
      /\ delivery[e] \in Delivery
      /\ RowInv(delivery[e], attempts[e])
      /\ RowAgrees(delivery[e], attempts[e])
      /\ WorkerHolds(worker[w])
  BY DEF TypeOK, RowInv
<1>2. ASSUME NEW locked, RecoverStaleClaims(w, locked)
      PROVE  attempts'[e][n].result = "uncertain"
  <2>1. worker[w].now \in Nat
    BY <1>1, <1>2 DEF RecoverStaleClaims, WorkerHolds
  <2>2. /\ e \in Stale(worker[w].now)
        /\ attempts'[e] = Settled(attempts[e], delivery[e].attemptCount,
                                  "uncertain", worker[w].now)
    BY <1>2 DEF RecoverStaleClaims
  <2>3. delivery[e].status = "sending" /\ "uncertain" \in Outcomes
    BY <2>2 DEF Stale, Outcomes
  <2>4. delivery[e].attemptCount \in 1..Len(attempts[e])
    BY <1>1, <2>3 DEF RowAgrees, Delivery
  <2> QED
    BY <1>1, <2>1, <2>2, <2>3, <2>4, SettledIs
<1>3. ASSUME NEW locked, ClaimNext(w, locked)
      PROVE  FALSE
  <2> DEFINE free == Claimable(worker[w].now) \ locked
  <2>1. \/ attempts' = attempts
        \/ \E f \in free : \E x : attempts' = [attempts EXCEPT ![f] = x]
    BY <1>3 DEF ClaimNext
  <2>2. ASSUME NEW f \in free, NEW x, attempts' = [attempts EXCEPT ![f] = x]
        PROVE  f = e /\ delivery[e].status # "sending"
    BY <1>1, <2>2 DEF Claimable
  <2>3. RowStep(delivery[e], attempts[e], accepted[e], delivery'[e], attempts'[e])
    BY StepsAreRowSteps DEF RowSteps, Next
  <2>4. delivery[e].status = "sending"
    BY <1>1, <2>3, RowStepAppends
  <2> QED
    BY <2>1, <2>2, <2>4
<1>4. ASSUME CompleteClaimed(w) \/ FailClaimed(w)
      PROVE  worker[w].pc = "sent" /\ worker[w].event = e /\ worker[w].token = n
  <2>1. /\ worker[w].pc = "sent"
        /\ MatchingClaim(w)
        /\ \E outcome \in Outcomes :
             attempts' = [attempts EXCEPT ![worker[w].event] =
               Settled(@, delivery[worker[w].event].attemptCount, outcome,
                       worker[w].now)]
    BY <1>1, <1>4 DEF CompleteClaimed, FailClaimed, WorkerHolds, Outcomes
  <2>2. PICK outcome \in Outcomes :
          attempts' = [attempts EXCEPT ![worker[w].event] =
            Settled(@, delivery[worker[w].event].attemptCount, outcome,
                    worker[w].now)]
    BY <2>1
  <2>3. worker[w].event = e
    BY <1>1, <2>2
  <2>4. /\ attempts'[e] = Settled(attempts[e], delivery[e].attemptCount, outcome,
                                  worker[w].now)
        /\ worker[w].now \in Nat
        /\ delivery[e].status = "sending"
        /\ worker[w].token = delivery[e].attemptCount
    BY <1>1, <2>1, <2>2, <2>3 DEF WorkerHolds, MatchingClaim, RowAgrees
  <2>5. delivery[e].attemptCount \in 1..Len(attempts[e])
    BY <1>1, <2>4 DEF RowAgrees, Delivery
  <2>6. \A k \in 1..Len(attempts[e]) :
          k # delivery[e].attemptCount => attempts'[e][k] = attempts[e][k]
    BY <1>1, <2>4, <2>5, SettledIs
  <2> QED
    BY <2>1, <2>3, <2>4, <2>6
<1> QED
  BY <1>2, <1>3, <1>4 DEF WorkerStep, Poll, Send, DropLateResult, Crash

(* What a worker holds stays true when another worker, an owner, a producer *)
(* or the clock takes a step.                                              *)
LEMMA OtherStepKeepsHolds ==
  ASSUME IInv, RowSteps, NEW v \in Workers, worker'[v] = worker[v],
         \/ accepted' = accepted /\ attempts' = attempts
         \/ \E w \in Workers \ {v} : WorkerStep(w) /\ MemoryStep(w)
  PROVE  WorkerHolds(worker[v])'
<1> USE DEF IInv
<1> DEFINE k == worker[v]
           e == k.event
<1>1. WorkerHolds(k) /\ k \in Worker /\ accepted \in [Events -> SUBSET Nat]
  BY DEF TypeOK
<1>2. CASE k.pc \in {"idle", "polled", "recovered"}
  BY <1>1, <1>2 DEF WorkerHolds
<1>3. CASE k.pc \in {"claimed", "sent"}
  <2>1. e \in Events /\ k.token \in 1..delivery[e].attemptCount /\ k.token # NoValue
    BY <1>1, <1>3, NoValueAssumption DEF WorkerHolds
  <2>2. /\ RowInv(delivery[e], attempts[e])
        /\ RowStep(delivery[e], attempts[e], accepted[e], delivery'[e], attempts'[e])
    BY <2>1 DEF RowSteps
  <2>3. /\ Len(attempts[e]) = delivery[e].attemptCount
        /\ delivery[e].attemptCount \in Nat
        /\ delivery'[e].attemptCount \in Nat
    <3>1. RowInv(delivery'[e], attempts'[e])
      BY <2>2, RowStepKeepsRow
    <3> QED
      BY <2>2, <3>1 DEF RowInv, RowAgrees, Delivery
  <2>4. k.token \in 1..delivery'[e].attemptCount
    BY <2>1, <2>2, <2>3, RowStepAppends
  <2>5. ASSUME NEW w \in Workers \ {v}, worker[w].event = e,
               worker[w].token = k.token
        PROVE  FALSE
    BY <2>1, <2>5 DEF ExclusiveClaims
  <2>6. k.token \in accepted'[e] <=> k.token \in accepted[e]
    <3>1. CASE accepted' = accepted
      BY <3>1
    <3>2. ASSUME NEW w \in Workers \ {v}, MemoryStep(w), accepted' # accepted
          PROVE  k.token \in accepted'[e] <=> k.token \in accepted[e]
      <4>1. PICK reached \in BOOLEAN :
              accepted' = [accepted EXCEPT ![worker[w].event] =
                            IF reached THEN @ \cup {worker[w].token} ELSE @]
        BY <3>2 DEF MemoryStep
      <4> QED
        BY <1>1, <2>1, <2>5, <4>1
    <3> QED
      BY <3>1, <3>2
  <2>7. \/ attempts'[e][k.token] = attempts[e][k.token]
        \/ attempts'[e][k.token].result = "uncertain"
    <3>1. k.token \in 1..Len(attempts[e])
      BY <2>1, <2>3
    <3> QED
      BY <2>1, <2>5, <3>1, AnswersOwnAttempt
  <2> QED
    BY <1>1, <1>3, <2>1, <2>4, <2>6, <2>7 DEF WorkerHolds
<1> QED
  BY <1>1, <1>2, <1>3 DEF Worker

(* A step is a worker's, or it leaves the workers, the channel and the      *)
(* ledger of attempts alone.                                               *)
LEMMA WorkerOrNot ==
  ASSUME [Next]_vars
  PROVE  \/ \E w \in Workers : WorkerStep(w)
         \/ UNCHANGED <<worker, accepted, attempts>>
BY DEF Next, vars, OwnerStep, Enqueue, ReadDetail, RetryFailed, RetryRefused, Tick

(* What the workers hold is kept by every step.                            *)
LEMMA WorkersStep ==
  ASSUME IInv, [Next]_vars
  PROVE  /\ worker' \in [Workers -> Worker]
         /\ \A v \in Workers : WorkerHolds(worker[v])'
<1>1. RowSteps
  BY StepsAreRowSteps
<1>2. worker \in [Workers -> Worker]
  BY DEF IInv, TypeOK
<1>3. CASE UNCHANGED <<worker, accepted, attempts>>
  BY <1>1, <1>2, <1>3, OtherStepKeepsHolds
<1>4. ASSUME NEW w \in Workers, WorkerStep(w)
      PROVE  /\ worker' \in [Workers -> Worker]
             /\ \A v \in Workers : WorkerHolds(worker[v])'
  <2>1. /\ worker' \in [Workers -> Worker]
        /\ \A v \in Workers \ {w} : worker'[v] = worker[v]
        /\ MemoryStep(w)
    BY <1>4, WorkerStepIsMemoryStep
  <2>2. ASSUME NEW v \in Workers \ {w}
        PROVE  WorkerHolds(worker[v])'
    BY <1>1, <1>4, <2>1, OtherStepKeepsHolds
  <2>3. WorkerHolds(worker[w])'
    <3>1. CASE worker'[w] = Idle
      BY <3>1, IdleMemory DEF WorkerHolds
    <3>2. CASE /\ worker'[w].pc \in {"polled", "recovered"}
               /\ worker'[w].now \in Nat
               /\ worker'[w].token = NoValue
      BY <3>2 DEF WorkerHolds
    <3>3. ASSUME NEW e \in Events,
                 worker'[w].pc = "claimed",
                 worker'[w].event = e,
                 worker'[w].token = delivery[e].attemptCount + 1,
                 RowClaimed(delivery[e], attempts[e], delivery'[e], attempts'[e]),
                 accepted' = accepted
          PROVE  WorkerHolds(worker[w])'
      <4>1. /\ RowInv(delivery[e], attempts[e])
            /\ Honest(delivery[e], attempts[e], accepted[e])
            /\ delivery[e].attemptCount \in Nat
        BY DEF IInv, RowInv, Delivery
      <4>2. /\ delivery'[e].attemptCount = delivery[e].attemptCount + 1
            /\ delivery'[e].status = "sending"
        BY <3>3, <4>1, ClaimedRowIs DEF RowClaimed, RowInv
      <4>3. RowAgrees(delivery'[e], attempts'[e])
        BY <3>3, <4>1, ClaimKeepsRow DEF RowClaimed, RowInv
      <4>4. attempts'[e][delivery'[e].attemptCount].result = NoValue
        BY <4>1, <4>2, <4>3 DEF RowAgrees
      <4>5. delivery[e].attemptCount + 1 \notin accepted'[e]
        BY <3>3, <4>1 DEF Honest
      <4> QED
        BY <3>3, <4>1, <4>2, <4>4, <4>5 DEF WorkerHolds
    <3>4. ASSUME worker[w].pc = "claimed",
                 worker'[w].pc = "sent",
                 worker'[w].event = worker[w].event,
                 worker'[w].token = worker[w].token,
                 worker'[w].now \in Nat,
                 worker'[w].outcome \in Outcomes,
                 UNCHANGED <<delivery, attempts>>,
                 NEW reached \in BOOLEAN,
                 worker'[w].outcome = "succeeded" => reached,
                 worker'[w].outcome = "permanent_failure" => ~reached,
                 accepted' = [accepted EXCEPT ![worker[w].event] =
                                IF reached THEN @ \cup {worker[w].token} ELSE @]
          PROVE  WorkerHolds(worker[w])'
      <4>1. WorkerHolds(worker[w]) /\ accepted \in [Events -> SUBSET Nat]
        BY DEF IInv, TypeOK
      <4>2. /\ worker[w].event \in Events
            /\ worker[w].token \in 1..delivery[worker[w].event].attemptCount
            /\ worker[w].token \notin accepted[worker[w].event]
        BY <3>4, <4>1 DEF WorkerHolds
      <4>3. worker[w].token \in accepted'[worker[w].event] <=> reached
        BY <3>4, <4>1, <4>2
      <4> QED
        BY <3>4, <4>2, <4>3 DEF WorkerHolds
    <3> QED
      BY <2>1, <3>1, <3>2, <3>3, <3>4 DEF MemoryStep
  <2> QED
    BY <2>1, <2>2, <2>3
<1> QED
  BY <1>3, <1>4, WorkerOrNot

(* No step gives a worker the claim of another.                            *)
LEMMA ExclusiveStep ==
  ASSUME IInv, [Next]_vars
  PROVE  ExclusiveClaims'
<1>1. CASE UNCHANGED <<worker, accepted, attempts>>
  BY <1>1 DEF IInv, ExclusiveClaims
<1>2. ASSUME NEW w \in Workers, WorkerStep(w)
      PROVE  ExclusiveClaims'
  <2>1. /\ \A v \in Workers \ {w} : worker'[v] = worker[v]
        /\ MemoryStep(w)
    BY <1>2, WorkerStepIsMemoryStep
  <2>2. \/ worker'[w].token = NoValue
        \/ /\ worker'[w].event = worker[w].event
           /\ worker'[w].token = worker[w].token
        \/ \E e \in Events :
             /\ worker'[w].event = e
             /\ worker'[w].token = delivery[e].attemptCount + 1
    BY <2>1, IdleMemory DEF MemoryStep
  <2>3. ASSUME NEW v \in Workers, worker[v].token # NoValue
        PROVE  /\ worker[v].event \in Events
               /\ worker[v].token # delivery[worker[v].event].attemptCount + 1
    <3>1. WorkerHolds(worker[v]) /\ worker[v] \in Worker
      BY DEF IInv, TypeOK
    <3>2. worker[v].pc \in {"claimed", "sent"}
      BY <2>3, <3>1 DEF WorkerHolds, Worker
    <3>3. /\ worker[v].event \in Events
          /\ worker[v].token \in 1..delivery[worker[v].event].attemptCount
      BY <3>1, <3>2 DEF WorkerHolds
    <3>4. delivery[worker[v].event].attemptCount \in Nat
      BY <3>3 DEF IInv, TypeOK, Delivery
    <3> QED
      BY <3>3, <3>4
  <2>4. ExclusiveClaims
    BY DEF IInv
  <2> QED
    BY <2>1, <2>2, <2>3, <2>4 DEF ExclusiveClaims
<1> QED
  BY <1>1, <1>2, WorkerOrNot

(* The ledger stays true although the channel goes on accepting messages.   *)
LEMMA HonestStep ==
  ASSUME IInv, [Next]_vars
  PROVE  \A e \in Events : Honest(delivery[e], attempts[e], accepted[e])'
<1>1. SUFFICES ASSUME NEW e \in Events
      PROVE  Honest(delivery'[e], attempts'[e], accepted'[e])
  OBVIOUS
<1>2. /\ RowInv(delivery[e], attempts[e])
      /\ Honest(delivery[e], attempts[e], accepted[e])
      /\ accepted \in [Events -> SUBSET Nat]
  BY DEF IInv, TypeOK
<1>3. RowStep(delivery[e], attempts[e], accepted[e], delivery'[e], attempts'[e])
  BY StepsAreRowSteps DEF RowSteps
<1>4. CASE accepted' = accepted
  BY <1>2, <1>3, <1>4, RowStepHonest
<1>5. ASSUME NEW w \in Workers, MemoryStep(w), accepted' # accepted
      PROVE  Honest(delivery'[e], attempts'[e], accepted'[e])
  <2> DEFINE n == worker[w].token
  <2>1. /\ worker[w].pc = "claimed"
        /\ UNCHANGED <<delivery, attempts>>
        /\ \E reached \in BOOLEAN :
             accepted' = [accepted EXCEPT ![worker[w].event] =
                            IF reached THEN @ \cup {n} ELSE @]
    BY <1>5 DEF MemoryStep
  <2>2. \/ accepted'[e] = accepted[e]
        \/ worker[w].event = e /\ accepted'[e] = accepted[e] \cup {n}
    BY <1>2, <2>1
  <2>3. ASSUME worker[w].event = e
        PROVE  /\ n \in 1..delivery[e].attemptCount
               /\ attempts[e][n].result \in {NoValue, "uncertain"}
    BY <2>1, <2>3 DEF IInv, WorkerHolds
  <2>4. NoValue # "permanent_failure"
    BY NoValueAssumption DEF Outcomes
  <2> QED
    BY <1>2, <2>1, <2>2, <2>3, <2>4 DEF Honest
<1> QED
  BY <1>4, <1>5, WorkerOrNot, WorkerStepIsMemoryStep

(* Every table stays a table of its events.                                *)
LEMMA TypeStep ==
  ASSUME IInv, [Next]_vars
  PROVE  TypeOK'
<1> USE DEF IInv
<1>1. /\ TypeOK
      /\ \A w \in Workers : WorkerHolds(worker[w])
      /\ \A e \in Events : RowInv(delivery'[e], attempts'[e])
  BY StepsAreRowSteps, RowStepKeepsRow DEF RowSteps
<1> DEFINE Tables == /\ delivery' = [e \in Events |-> delivery'[e]]
                     /\ attempts' = [e \in Events |-> attempts'[e]]
<1>2. Tables
  <2>1. CASE UNCHANGED <<delivery, attempts>>
    BY <1>1, <2>1 DEF TypeOK
  <2>2. ASSUME NEW e \in Events, Enqueue(e)
        PROVE  Tables
    BY <1>1, <2>2 DEF Enqueue, TypeOK
  <2>3. ASSUME NEW o \in Owners, RetryFailed(o)
        PROVE  Tables
    BY <1>1, <2>3 DEF RetryFailed, TypeOK
  <2>4. ASSUME NEW w \in Workers, NEW locked, RecoverStaleClaims(w, locked)
        PROVE  Tables
    BY <2>4 DEF RecoverStaleClaims
  <2>5. ASSUME NEW w \in Workers, NEW locked, ClaimNext(w, locked)
        PROVE  Tables
    BY <1>1, <2>5 DEF ClaimNext, TypeOK
  <2>6. ASSUME NEW w \in Workers, CompleteClaimed(w) \/ FailClaimed(w)
        PROVE  Tables
    BY <1>1, <2>6 DEF CompleteClaimed, FailClaimed, TypeOK
  <2> QED
    BY <2>1, <2>2, <2>3, <2>4, <2>5, <2>6
    DEF Next, vars, OwnerStep, WorkerStep, ReadDetail, RetryRefused, Poll, Send,
        DropLateResult, Crash, Tick
<1>3. delivery' \in [Events -> Delivery] /\ attempts' \in [Events -> Seq(Attempt)]
  BY <1>1, <1>2 DEF RowInv
<1>4. worker' \in [Workers -> Worker]
  BY WorkersStep
<1>5. accepted' \in [Events -> SUBSET Nat]
  <2>1. CASE accepted' = accepted
    BY <1>1, <2>1 DEF TypeOK
  <2>2. ASSUME NEW w \in Workers, NEW reached \in BOOLEAN,
               worker[w].pc = "claimed",
               accepted' = [accepted EXCEPT ![worker[w].event] =
                              IF reached THEN @ \cup {worker[w].token} ELSE @]
        PROVE  accepted' \in [Events -> SUBSET Nat]
    <3>1. worker[w].event \in Events /\ worker[w].token \in Nat
      BY <1>1, <2>2 DEF WorkerHolds
    <3> QED
      BY <1>1, <2>2, <3>1 DEF TypeOK
  <2> QED
    BY <2>1, <2>2, WorkerOrNot, WorkerStepIsMemoryStep DEF MemoryStep
<1>6. page' \in [Owners -> Nullable(Page)]
  <2>1. CASE UNCHANGED page
    BY <1>1, <2>1 DEF TypeOK
  <2>2. ASSUME NEW o \in Owners, NEW e \in Events, ReadDetail(o, e)
        PROVE  page' \in [Owners -> Nullable(Page)]
    BY <1>1, <2>2 DEF ReadDetail, TypeOK, Nullable, Page, Delivery
  <2>3. ASSUME NEW o \in Owners, page[o] # NoValue,
               NEW reply \in {"detail", "version_conflict", "retry_not_allowed"},
               page' = [page EXCEPT ![o] = [@ EXCEPT !.reply = reply]]
        PROVE  page' \in [Owners -> Nullable(Page)]
    <3> DEFINE p == page[o]
               q == [p EXCEPT !.reply = reply]
    <3>1. p \in Page
      BY <1>1, <2>3 DEF TypeOK, Nullable
    <3>2. page' = [page EXCEPT ![o] = q]
      BY <2>3
    <3> HIDE DEF p
    <3>3. q \in Page
      BY <3>1 DEF Page
    <3> HIDE DEF q
    <3> QED
      BY <1>1, <3>2, <3>3 DEF TypeOK, Nullable
  <2> QED
    BY <2>1, <2>2, <2>3
    DEF Next, vars, OwnerStep, WorkerStep, Enqueue, RetryFailed, RetryRefused,
        Poll, RecoverStaleClaims, ClaimNext, Send, CompleteClaimed, FailClaimed,
        DropLateResult, Crash, Tick
<1>7. clock' \in Nat /\ nextId' \in Nat
  <2>1. clock \in Nat /\ nextId \in Nat
    BY <1>1 DEF TypeOK
  <2>2. clock' = clock \/ clock' = clock + 1
    BY DEF Next, vars, OwnerStep, WorkerStep, Enqueue, ReadDetail, RetryFailed,
           RetryRefused, Poll, RecoverStaleClaims, ClaimNext, Send,
           CompleteClaimed, FailClaimed, DropLateResult, Crash, Tick
  <2>3. nextId' = nextId \/ nextId' = nextId + 1
    BY DEF Next, vars, OwnerStep, WorkerStep, Enqueue, ReadDetail, RetryFailed,
           RetryRefused, Poll, RecoverStaleClaims, ClaimNext, Send,
           CompleteClaimed, FailClaimed, DropLateResult, Crash, Tick
  <2> QED
    BY <2>1, <2>2, <2>3
<1> QED
  BY <1>3, <1>4, <1>5, <1>6, <1>7 DEF TypeOK

-------------------------------------------------------------------------------
(* The theorems.                                                           *)

(* The empty tables and idle notifiers are in order.                        *)
LEMMA InitIInv == Init => IInv
<1> SUFFICES ASSUME Init
             PROVE  IInv
  OBVIOUS
<1> USE DEF Init
<1>1. TypeOK
  <2>1. NoRow \in Delivery /\ <<>> \in Seq(Attempt)
    BY NoRowInv DEF RowInv
  <2>2. /\ delivery \in [Events -> Delivery]
        /\ attempts \in [Events -> Seq(Attempt)]
    BY <2>1
  <2>3. worker \in [Workers -> Worker]
    BY IdleMemory
  <2>4. accepted \in [Events -> SUBSET Nat] /\ page \in [Owners -> Nullable(Page)]
    BY DEF Nullable
  <2> QED
    BY <2>2, <2>3, <2>4 DEF TypeOK
<1>2. \A e \in Events : RowInv(delivery[e], attempts[e])
  BY NoRowInv
<1>3. \A e \in Events : Honest(delivery[e], attempts[e], accepted[e])
  <2>1. Honest(NoRow, <<>>, {})
    <3>1. NoRow.sent = FALSE
      BY DEF NoRow
    <3>2. Len(<<>>) = 0
      OBVIOUS
    <3> QED
      BY <3>1, <3>2 DEF Honest
  <2> QED
    BY <2>1
<1>4. \A w \in Workers : WorkerHolds(worker[w])
  BY IdleMemory DEF WorkerHolds
<1>5. ExclusiveClaims
  BY IdleMemory DEF ExclusiveClaims
<1>6. VersionIdentifiesState
  BY DEF VersionIdentifiesState
<1> QED
  BY <1>1, <1>2, <1>3, <1>4, <1>5, <1>6 DEF IInv

(* Every step of notifiers, owners, producers and time keeps that order.    *)
LEMMA NextIInv == IInv /\ [Next]_vars => IInv'
<1> SUFFICES ASSUME IInv, [Next]_vars
             PROVE  IInv'
  OBVIOUS
<1>1. \A e \in Events : RowInv(delivery'[e], attempts'[e])
  BY StepsAreRowSteps, RowStepKeepsRow DEF RowSteps, IInv
<1> QED
  BY <1>1, TypeStep, HonestStep, WorkersStep, ExclusiveStep, VersionStep DEF IInv

(* The inductive invariant holds in every reachable state.                 *)
THEOREM Invariance == Spec => []IInv
BY InitIInv, NextIInv, PTL DEF Spec

(* Whatever handlers, workers and owners do, every row, attempt, memory and *)
(* page keeps its shape.                                                   *)
THEOREM TypesHold == Spec => []TypeOK
BY Invariance, PTL DEF IInv

(* claim_next, complete_claimed, fail_claimed, recover_stale_claims and     *)
(* retry_failed keep the two tables in agreement, so _current_attempt never *)
(* raises.                                                                 *)
THEOREM TablesAgree == Spec => []ClaimLedger
<1>1. IInv => ClaimLedger
  BY DEF IInv, ClaimLedger, RowInv
<1> QED
  BY <1>1, Invariance, PTL

(* No schedule of delays, crashes and retries exceeds the attempts of its   *)
(* rounds.                                                                 *)
THEOREM BudgetHolds == Spec => []RoundBudget
<1>1. IInv => RoundBudget
  BY DEF IInv, RoundBudget, RowInv
<1> QED
  BY <1>1, Invariance, PTL

(* No two of any number of notifiers share a claim.                        *)
THEOREM ClaimsAreExclusive == Spec => []ExclusiveClaims
BY Invariance, PTL DEF IInv

(* The ledger never says of the channel what the channel did not do.       *)
THEOREM LedgerIsHonest == Spec => []HonestLedger
<1>1. IInv => HonestLedger
  BY DEF IInv, HonestLedger, Honest
<1> QED
  BY <1>1, Invariance, PTL

(* An expected_version that matches the row shows the owner the row.       *)
THEOREM VersionsIdentify == Spec => []VersionIdentifiesState
BY Invariance, PTL DEF IInv

(* Nothing ever touches a delivery that was recorded as sent.              *)
THEOREM SuccessStays == Spec => SuccessIsFinal
<1>1. IInv /\ [Next]_vars =>
        [\A e \in Events : delivery[e].sent =>
           /\ delivery'[e] = delivery[e]
           /\ attempts'[e] = attempts[e]]_vars
  BY StepsAreRowSteps, RowStepSentFinal DEF RowSteps, IInv
<1> QED
  BY <1>1, Invariance, PTL DEF Spec, SuccessIsFinal

(* Attempts are only added and results only written once.                  *)
THEOREM LedgerOnlyGrows == Spec => LedgerAppendOnly
<1>1. IInv /\ [Next]_vars =>
        [\A e \in Events :
           /\ Len(attempts[e]) <= Len(attempts'[e])
           /\ \A n \in 1..Len(attempts[e]) :
                attempts[e][n].result # NoValue
                  => attempts'[e][n] = attempts[e][n]]_vars
  BY StepsAreRowSteps, RowStepAppends DEF RowSteps, IInv
<1> QED
  BY <1>1, Invariance, PTL DEF Spec, LedgerAppendOnly

-------------------------------------------------------------------------------
(* Retries wait for their delay.                                           *)

(* The n-th attempt is the k-th of its round: k - 1 automatic retries after *)
(* the attempt that opened the round.                                      *)
InRound(a, n, k) ==
  /\ k >= 1 /\ k <= n
  /\ a[n - k + 1].trigger # "automatic_retry"
  /\ \A m \in (n - k + 2)..n : a[m].trigger = "automatic_retry"

(* The n-th attempt, the k-th of its round, waited for its delay.           *)
Waited(a, n, k) ==
  /\ k <= MaxAttempts
  /\ a[n].started >= a[n - 1].finished + RetryDelays[k]

(* Every automatic retry of a delivery waited; the row counts the attempts  *)
(* of the last round, and a row that waits knows when its delay is over.   *)
Paced(r, a) ==
  /\ \A n \in 1..Len(a) : a[n].trigger = "automatic_retry" =>
       \E k \in 1..n : InRound(a, n, k) /\ Waited(a, n, k)
  /\ r.roundAttemptCount > 0 => InRound(a, r.attemptCount, r.roundAttemptCount)
  /\ r.status \in {"sending", "retry_wait"} => r.roundAttemptCount > 0
  /\ r.status = "retry_wait" =>
       /\ a[r.attemptCount].finished \in Nat
       /\ r.nextAttemptAt = a[r.attemptCount].finished + Delay(r)

AllPaced == \A e \in Events : Paced(delivery[e], attempts[e])

(* What paces a row that has its attempts: each attempt keeps its start and *)
(* its trigger, and each but the last its end.                             *)
LEMMA PastWaits ==
  ASSUME NEW a, NEW b, NEW n \in Nat, NEW k \in 1..n,
         InRound(a, n, k), Waited(a, n, k), n >= 2,
         \A m \in 1..n : b[m].trigger = a[m].trigger,
         b[n].started = a[n].started, b[n - 1].finished = a[n - 1].finished
  PROVE  InRound(b, n, k) /\ Waited(b, n, k)
<1>1. n - k + 1 \in 1..n /\ \A m \in (n - k + 2)..n : m \in 1..n
  OBVIOUS
<1>2. InRound(b, n, k)
  BY <1>1 DEF InRound
<1> QED BY <1>2 DEF Waited

(* The first attempt is no retry.                                           *)
LEMMA RetryIsLater ==
  ASSUME NEW a, NEW n \in Nat, NEW k \in 1..n, InRound(a, n, k),
         a[n].trigger = "automatic_retry"
  PROVE  n >= 2 /\ k >= 2
<1>1. k # 1
  <2>1. CASE k = 1
    <3>1. n - k + 1 = n
      BY <2>1
    <3> QED BY <3>1 DEF InRound
  <2> QED BY <2>1
<1> QED BY <1>1

(* A claim opens the attempt that the row was waiting for, or the first of  *)
(* a round.                                                                *)
LEMMA ClaimPaced ==
  ASSUME NEW r, NEW a, NEW q, NEW b, RowInv(r, a), Paced(r, a), RowClaimed(r, a, q, b)
  PROVE  Paced(q, b)
<1>1. /\ r \in Delivery /\ a \in Seq(Attempt) /\ Len(a) = r.attemptCount
      /\ r.status \in {"pending", "retry_wait"} /\ WithinBudget(r)
  BY DEF RowInv, RowAgrees, RowClaimed
<1>2. PICK now \in Nat :
        /\ r.status = "retry_wait" => r.nextAttemptAt <= now
        /\ q = ClaimedRow(r, now)
        /\ b = Append(a, OpenAttempt(r, now))
  BY DEF RowClaimed
<1> DEFINE c == r.attemptCount
           k == r.roundAttemptCount
           x == OpenAttempt(r, now)
<1>3. c \in Nat /\ k \in Nat /\ Len(a) = c
  BY <1>1 DEF Delivery
<1>4. /\ q.status = "sending" /\ q.attemptCount = c + 1
      /\ q.roundAttemptCount = k + 1
  BY <1>1, <1>2, ClaimedRowIs
<1>5. /\ x \in Attempt /\ x.started = now
      /\ x.trigger = "automatic_retry" <=> k > 0
  <2>1. x = [trigger |-> TriggerOf(r), started |-> now, finished |-> NoValue,
             result |-> NoValue]
    BY DEF OpenAttempt
  <2>2. TriggerOf(r) = IF k > 0 THEN "automatic_retry"
                       ELSE IF r.sendRound > 1 THEN "manual_retry" ELSE "initial"
    <3> DEFINE late == r.sendRound > 1
    <3>1. TriggerOf(r) = CASE k > 0 -> "automatic_retry"
                           [] k = 0 /\ late -> "manual_retry"
                           [] OTHER -> "initial"
      BY DEF TriggerOf
    <3>2. k > 0 <=> ~(k = 0)
      BY <1>3
    <3> SUFFICES TriggerOf(r) = IF k > 0 THEN "automatic_retry"
                                ELSE IF late THEN "manual_retry" ELSE "initial"
      OBVIOUS
    <3> HIDE DEF late, k
    <3>3. CASE k > 0
      BY <3>1, <3>2, <3>3
    <3>4. CASE ~(k > 0) /\ late
      BY <3>1, <3>2, <3>4
    <3>5. CASE ~(k > 0) /\ ~late
      BY <3>1, <3>2, <3>5
    <3> QED BY <3>3, <3>4, <3>5
  <2> QED BY <2>1, <2>2 DEF Attempt, Triggers, Nullable
<1>6. /\ \A m \in 1..c : b[m] = a[m]
      /\ b[c + 1] = x /\ Len(b) = c + 1
  BY <1>1, <1>2, <1>3, <1>5, AppendProperties
<1>7. /\ k > 0 => InRound(a, c, k)
      /\ k > 0 => r.status = "retry_wait" /\ k < MaxAttempts
      /\ r.status = "retry_wait" => /\ a[c].finished \in Nat
                                    /\ r.nextAttemptAt = a[c].finished + RetryDelays[k + 1]
  BY <1>1, <1>3 DEF Paced, WithinBudget, Delay
<1>8. /\ r.status = "retry_wait" => r.nextAttemptAt <= now
      /\ MaxAttempts \in Nat
  BY <1>2, RetryDelaysAssumption DEF MaxAttempts
<1>9. \A n \in 1..c : a[n].trigger = "automatic_retry" =>
        \E j \in 1..n : InRound(a, n, j) /\ Waited(a, n, j)
  BY <1>3 DEF Paced
<1> HIDE DEF c, k, x
<1>10. InRound(b, c + 1, k + 1)
  <2>1. CASE k = 0
    <3>1. (c + 1) - (k + 1) + 1 = c + 1
      BY <1>3, <2>1
    <3> QED BY <1>3, <1>5, <1>6, <2>1, <3>1 DEF InRound
  <2>2. CASE k > 0
    <3>1. /\ k >= 1 /\ k <= c
          /\ a[c - k + 1].trigger # "automatic_retry"
          /\ \A m \in (c - k + 2)..c : a[m].trigger = "automatic_retry"
      BY <1>7, <2>2 DEF InRound
    <3>2. (c + 1) - (k + 1) + 1 = c - k + 1 /\ (c + 1) - (k + 1) + 2 = c - k + 2
      BY <1>3
    <3>3. b[c - k + 1].trigger # "automatic_retry"
      BY <1>3, <1>6, <3>1
    <3>4. ASSUME NEW m \in (c - k + 2)..(c + 1)
          PROVE  b[m].trigger = "automatic_retry"
      <4>1. CASE m = c + 1
        BY <1>5, <1>6, <2>2, <4>1
      <4>2. CASE m # c + 1
        <5>1. m \in (c - k + 2)..c /\ m \in 1..c
          BY <1>3, <3>1, <4>2
        <5> QED BY <1>6, <3>1, <5>1
      <4> QED BY <4>1, <4>2
    <3> QED BY <1>3, <3>1, <3>2, <3>3, <3>4 DEF InRound
  <2> QED BY <1>3, <2>1, <2>2
<1>11. ASSUME k > 0
       PROVE  Waited(b, c + 1, k + 1)
  <2>1. /\ r.status = "retry_wait" /\ k < MaxAttempts /\ c >= 1
        /\ a[c].finished + RetryDelays[k + 1] <= now
    BY <1>3, <1>7, <1>8, <1>11 DEF InRound
  <2>2. k + 1 \in 1..Len(RetryDelays)
    BY <1>3, <2>1 DEF MaxAttempts
  <2>3. RetryDelays[k + 1] \in Nat
    BY <2>2, RetryDelaysAssumption
  <2>4. b[c] = a[c] /\ (c + 1) - 1 = c
    BY <1>3, <1>6, <2>1
  <2>5. k + 1 <= MaxAttempts
    BY <1>3, <1>8, <2>1
  <2>6. now >= a[c].finished + RetryDelays[k + 1]
    BY <1>7, <2>1, <2>3
  <2> QED BY <1>5, <1>6, <2>4, <2>5, <2>6 DEF Waited
<1>12. ASSUME NEW n \in 1..Len(b), b[n].trigger = "automatic_retry"
       PROVE  \E j \in 1..n : InRound(b, n, j) /\ Waited(b, n, j)
  <2>1. CASE n = c + 1
    <3>1. k > 0
      BY <1>5, <1>6, <1>12, <2>1
    <3>2. k + 1 \in 1..(c + 1)
      BY <1>3, <1>10 DEF InRound
    <3> QED BY <1>10, <1>11, <2>1, <3>1, <3>2
  <2>2. CASE n # c + 1
    <3>1. n \in 1..c /\ a[n].trigger = "automatic_retry"
      BY <1>3, <1>6, <1>12, <2>2
    <3>2. PICK j \in 1..n : InRound(a, n, j) /\ Waited(a, n, j)
      BY <1>9, <3>1
    <3>3. n >= 2
      BY <3>1, <3>2, RetryIsLater
    <3>4. n \in Nat /\ n - 1 \in 1..c /\ \A m \in 1..n : m \in 1..c
      BY <1>3, <3>1, <3>3
    <3> QED BY <1>6, <3>1, <3>2, <3>3, <3>4, PastWaits
  <2> QED BY <2>1, <2>2
<1>13. q.roundAttemptCount > 0 => InRound(b, q.attemptCount, q.roundAttemptCount)
  BY <1>4, <1>10
<1>14. /\ q.status \in {"sending", "retry_wait"} => q.roundAttemptCount > 0
       /\ q.status # "retry_wait"
  BY <1>3, <1>4
<1> QED BY <1>12, <1>13, <1>14 DEF Paced

(* The end of an attempt starts the delay of the next one.                  *)
LEMMA EndPaced ==
  ASSUME NEW r, NEW a, NEW q, NEW b, RowInv(r, a), Paced(r, a), r.status = "sending",
         NEW now \in Nat, NEW outcome \in Outcomes,
         b = Settled(a, r.attemptCount, outcome, now),
         q.attemptCount = r.attemptCount, q.roundAttemptCount = r.roundAttemptCount,
         q.status # "sending",
         q.status = "retry_wait" => q.nextAttemptAt = now + Delay(r)
  PROVE  Paced(q, b)
<1> DEFINE c == r.attemptCount
           k == r.roundAttemptCount
<1>1. /\ r \in Delivery /\ a \in Seq(Attempt) /\ Len(a) = c /\ c >= 1
      /\ c \in Nat /\ k \in Nat
  BY DEF RowInv, RowAgrees, Delivery
<1>2. /\ Len(b) = c
      /\ \A m \in 1..c : m # c => b[m] = a[m]
      /\ \A m \in 1..c : b[m].trigger = a[m].trigger /\ b[m].started = a[m].started
      /\ b[c].finished = now
  <2>1. c \in 1..Len(a)
    BY <1>1
  <2>2. /\ Len(b) = Len(a)
        /\ \A m \in 1..Len(a) : m # c => b[m] = a[m]
        /\ b[c].trigger = a[c].trigger /\ b[c].started = a[c].started
        /\ b[c].finished = now
    BY <1>1, <2>1, SettledIs
  <2> HIDE DEF c
  <2> QED BY <1>1, <2>2
<1>3. k > 0 /\ InRound(a, c, k)
  BY <1>1 DEF Paced
<1>4. \A n \in 1..c : a[n].trigger = "automatic_retry" =>
        \E j \in 1..n : InRound(a, n, j) /\ Waited(a, n, j)
  BY <1>1 DEF Paced
<1>5. Delay(q) = Delay(r)
  BY DEF Delay
<1>6. q.attemptCount = c /\ q.roundAttemptCount = k
  OBVIOUS
<1> HIDE DEF c, k
<1>7. InRound(b, c, k)
  <2>1. /\ k >= 1 /\ k <= c
        /\ a[c - k + 1].trigger # "automatic_retry"
        /\ \A m \in (c - k + 2)..c : a[m].trigger = "automatic_retry"
    BY <1>3 DEF InRound
  <2>2. c - k + 1 \in 1..c /\ \A m \in (c - k + 2)..c : m \in 1..c
    BY <1>1, <2>1
  <2> QED BY <1>2, <2>1, <2>2 DEF InRound
<1>8. ASSUME NEW n \in 1..Len(b), b[n].trigger = "automatic_retry"
      PROVE  \E j \in 1..n : InRound(b, n, j) /\ Waited(b, n, j)
  <2>1. n \in 1..c /\ n \in Nat /\ a[n].trigger = "automatic_retry"
    BY <1>1, <1>2, <1>8
  <2>2. PICK j \in 1..n : InRound(a, n, j) /\ Waited(a, n, j)
    BY <1>4, <2>1
  <2>3. n >= 2
    BY <2>1, <2>2, RetryIsLater
  <2>4. n - 1 \in 1..c /\ n - 1 # c /\ \A m \in 1..n : m \in 1..c
    BY <1>1, <2>1, <2>3
  <2>5. /\ \A m \in 1..n : b[m].trigger = a[m].trigger
        /\ b[n].started = a[n].started /\ b[n - 1].finished = a[n - 1].finished
    BY <1>2, <2>1, <2>4
  <2>6. InRound(b, n, j) /\ Waited(b, n, j)
    BY <2>1, <2>2, <2>3, <2>5, PastWaits
  <2> QED BY <2>6
<1>9. q.status = "retry_wait" =>
        /\ b[c].finished \in Nat
        /\ q.nextAttemptAt = b[c].finished + Delay(q)
  BY <1>2, <1>5
<1> QED BY <1>3, <1>6, <1>7, <1>8, <1>9 DEF Paced

(* Every step of a row keeps its pace.                                      *)
LEMMA RowStepPaced ==
  ASSUME NEW r, NEW a, NEW c, NEW q, NEW b, RowInv(r, a), Paced(r, a),
         RowStep(r, a, c, q, b)
  PROVE  Paced(q, b)
<1>1. r \in Delivery
  BY DEF RowInv
<1>2. CASE q = r /\ b = a
  BY <1>2
<1>3. CASE RowEnqueued(r, a, q, b)
  <2>1. PICK id \in Nat : q = NewRow(id)
    BY <1>3 DEF RowEnqueued
  <2>2. q.roundAttemptCount = 0 /\ q.status = "pending"
    BY <2>1, NewRowIs
  <2>3. b = a /\ r = NoRow /\ Len(a) = r.attemptCount
    BY <1>3 DEF RowEnqueued, RowInv, RowAgrees
  <2>4. Len(b) = 0
    BY <2>3 DEF NoRow
  <2> QED BY <2>2, <2>4 DEF Paced
<1>4. CASE RowClaimed(r, a, q, b)
  BY <1>4, ClaimPaced
<1>5. CASE RowSucceeded(r, a, c, q, b)
  <2>1. PICK now \in Nat : /\ q = SucceededRow(r)
                           /\ b = Settled(a, r.attemptCount, "succeeded", now)
    BY <1>5 DEF RowSucceeded
  <2>2. /\ q.attemptCount = r.attemptCount
        /\ q.roundAttemptCount = r.roundAttemptCount /\ q.status = "succeeded"
    BY <1>1, <2>1, SucceededRowIs DEF Ended
  <2>3. r.status = "sending" /\ "succeeded" \in Outcomes
    BY <1>5 DEF RowSucceeded, Outcomes
  <2> QED BY <2>1, <2>2, <2>3, EndPaced
<1>6. CASE RowFailed(r, a, c, q, b)
  <2>1. PICK now \in Nat, outcome \in Outcomes :
          /\ q = FailedRow(r, outcome, now)
          /\ b = Settled(a, r.attemptCount, outcome, now)
    BY <1>6 DEF RowFailed
  <2>2. /\ q.attemptCount = r.attemptCount
        /\ q.roundAttemptCount = r.roundAttemptCount
        /\ q.status = IF Retries(r, outcome) THEN "retry_wait" ELSE "failed"
    BY <1>1, <2>1, FailedRowKeepsCounts
  <2>3. q.status = "retry_wait" => q.nextAttemptAt = now + Delay(r)
    <3>1. CASE Retries(r, outcome)
      BY <1>1, <2>1, <3>1, WaitingRowIs DEF Ended
    <3>2. CASE ~Retries(r, outcome)
      BY <2>2, <3>2
    <3> QED BY <3>1, <3>2
  <2>4. r.status = "sending" /\ q.status # "sending"
    BY <1>6, <2>2 DEF RowFailed
  <2> QED BY <2>1, <2>2, <2>3, <2>4, EndPaced
<1>7. CASE RowReopened(r, a, q, b)
  <2>1. q.roundAttemptCount = 0 /\ q.status = "pending" /\ b = a
    BY <1>1, <1>7, ReopenedRowIs DEF RowReopened, Ended
  <2> QED BY <2>1 DEF Paced
<1> QED BY <1>2, <1>3, <1>4, <1>5, <1>6, <1>7 DEF RowStep

(* Every row keeps its pace, whichever workers and clock readings took     *)
(* part.                                                                   *)
LEMMA PaceKept == Spec => []AllPaced
<1>1. Init => AllPaced
  <2>1. Len(<<>>) = 0 /\ NoRow.roundAttemptCount = 0 /\ NoRow.status = "absent"
    BY DEF NoRow
  <2>2. Paced(NoRow, <<>>)
    BY <2>1 DEF Paced
  <2> QED BY <2>2 DEF Init, AllPaced
<1>2. IInv /\ AllPaced /\ [Next]_vars => AllPaced'
  BY StepsAreRowSteps, RowStepPaced DEF RowSteps, IInv, AllPaced
<1> QED BY <1>1, <1>2, Invariance, PTL DEF Spec

(* An automatic retry starts no earlier than its delay after the end of the *)
(* attempt before it, for every schedule of delays and any workers.        *)
THEOREM RetriesWait == Spec => []BackoffRespected
<1>1. IInv /\ AllPaced => BackoffRespected
  <2> SUFFICES ASSUME IInv, AllPaced, NEW e \in Events,
                      NEW n \in 1..Len(attempts[e]),
                      attempts[e][n].trigger = "automatic_retry"
               PROVE  \E first \in 1..(n - 1) :
                        /\ attempts[e][first].trigger # "automatic_retry"
                        /\ \A m \in (first + 1)..n :
                             attempts[e][m].trigger = "automatic_retry"
                        /\ n - first + 1 <= MaxAttempts
                        /\ attempts[e][n].started
                             >= attempts[e][n - 1].finished + RetryDelays[n - first + 1]
    BY DEF BackoffRespected
  <2> DEFINE a == attempts[e]
  <2>1. a \in Seq(Attempt)
    BY DEF IInv, RowInv
  <2>2. PICK k \in 1..n : InRound(a, n, k) /\ Waited(a, n, k)
    BY DEF AllPaced, Paced
  <2>3. n \in Nat /\ n >= 2 /\ k >= 2
    BY <2>1, <2>2, RetryIsLater
  <2> DEFINE first == n - k + 1
  <2>4. first \in 1..(n - 1) /\ n - first + 1 = k /\ first + 1 = n - k + 2
    BY <2>3
  <2> HIDE DEF first, a
  <2>5. /\ a[first].trigger # "automatic_retry"
        /\ \A m \in (first + 1)..n : a[m].trigger = "automatic_retry"
    BY <2>2, <2>4 DEF InRound, first
  <2>6. /\ n - first + 1 <= MaxAttempts
        /\ a[n].started >= a[n - 1].finished + RetryDelays[n - first + 1]
    BY <2>2, <2>4 DEF Waited
  <2> QED BY <2>4, <2>5, <2>6 DEF a
<1> QED BY <1>1, Invariance, PaceKept, PTL

-------------------------------------------------------------------------------
(* The outbox keeps the promise of OutboxPromise.                          *)

(* The promise's state of a row, status by status.                          *)
LEMMA PromiseStateIs ==
  ASSUME NEW r \in Delivery
  PROVE  /\ r.status = "absent" => PromiseState(r) = "none"
         /\ r.status \in {"pending", "retry_wait"} => PromiseState(r) = "queued"
         /\ r.status = "sending" => PromiseState(r) = "trying"
         /\ r.status = "succeeded" => PromiseState(r) = "sent"
         /\ r.status = "failed" => PromiseState(r) = "given_up"
         /\ PromiseState(r) \in {"none", "queued", "trying", "sent", "given_up"}
BY DEF Delivery, Statuses, PromiseState

(* The channel accepts messages only in steps that leave the rows alone,    *)
(* and only messages of events that have a row.                            *)
LEMMA ChannelStep ==
  ASSUME IInv, [Next]_vars, NEW e \in Events
  PROVE  \/ accepted'[e] = accepted[e]
         \/ /\ delivery'[e] = delivery[e]
            /\ delivery[e].status # "absent"
            /\ accepted'[e] # {}
<1> USE DEF IInv
<1>1. CASE accepted' = accepted
  BY <1>1
<1>2. ASSUME NEW w \in Workers, MemoryStep(w), accepted' # accepted
      PROVE  \/ accepted'[e] = accepted[e]
             \/ /\ delivery'[e] = delivery[e]
                /\ delivery[e].status # "absent"
                /\ accepted'[e] # {}
  <2>1. /\ worker[w].pc = "claimed"
        /\ UNCHANGED <<delivery, attempts>>
        /\ \E reached \in BOOLEAN :
             accepted' = [accepted EXCEPT ![worker[w].event] =
                            IF reached THEN @ \cup {worker[w].token} ELSE @]
    BY <1>2 DEF MemoryStep
  <2>2. accepted \in [Events -> SUBSET Nat]
    BY DEF TypeOK
  <2>3. \/ accepted'[e] = accepted[e]
        \/ worker[w].event = e /\ accepted'[e] = accepted[e] \cup {worker[w].token}
    BY <2>1, <2>2
  <2>4. ASSUME worker[w].event = e
        PROVE  delivery[e].status # "absent"
    <3>1. worker[w].token \in 1..delivery[e].attemptCount
      BY <2>1, <2>4 DEF WorkerHolds
    <3>2. delivery[e].status = "absent" => delivery[e].attemptCount = 0
      BY DEF RowInv, NoRow
    <3> QED
      BY <3>1, <3>2
  <2> QED
    BY <2>1, <2>3, <2>4
<1> QED
  BY <1>1, <1>2, WorkerOrNot, WorkerStepIsMemoryStep

(* Every step of the outbox is a step that the promise allows.             *)
LEMMA PromiseStep ==
  ASSUME IInv, [Next]_vars
  PROVE  Promise!Next
<1> DEFINE state == [e \in Events |-> PromiseState(delivery[e])]
           tries == [e \in Events |-> delivery[e].roundAttemptCount]
           reached == [e \in Events |-> accepted[e] # {}]
<1>1. RowSteps
  BY StepsAreRowSteps
<1>2. \A e \in Events : /\ RowInv(delivery[e], attempts[e])
                        /\ RowInv(delivery'[e], attempts'[e])
  BY <1>1, RowStepKeepsRow DEF RowSteps, IInv
<1>3. /\ state' \in [Events -> Promise!States]
      /\ tries' \in [Events -> 0..MaxAttempts]
      /\ reached' \in [Events -> BOOLEAN]
  <2>1. ASSUME NEW e \in Events
        PROVE  PromiseState(delivery'[e]) \in Promise!States
    BY <1>2, PromiseStateIs DEF RowInv, Promise!States
  <2>2. ASSUME NEW e \in Events
        PROVE  delivery'[e].roundAttemptCount \in 0..MaxAttempts
    BY <1>2, RetryDelaysAssumption DEF RowInv, WithinBudget, Delivery, MaxAttempts
  <2> QED
    BY <2>1, <2>2
<1>4. ASSUME NEW e \in Events
      PROVE  Promise!EventStep(e)
  <2> DEFINE r == delivery[e]
             q == delivery'[e]
  <2>1. /\ r \in Delivery /\ RowAgrees(r, attempts[e]) /\ WithinBudget(r)
        /\ q \in Delivery
    BY <1>2 DEF RowInv
  <2>2. /\ state[e] = PromiseState(r) /\ state'[e] = PromiseState(q)
        /\ tries[e] = r.roundAttemptCount /\ tries'[e] = q.roundAttemptCount
        /\ reached[e] = (accepted[e] # {}) /\ reached'[e] = (accepted'[e] # {})
    OBVIOUS
  <2>3. RowStep(r, attempts[e], accepted[e], q, attempts'[e])
    BY <1>1 DEF RowSteps
  <2>4. \/ accepted'[e] = accepted[e]
        \/ q = r /\ r.status # "absent" /\ accepted'[e] # {}
    BY ChannelStep
  <2> HIDE DEF state, tries, reached, r, q
  <2>5. CASE q = r /\ accepted'[e] = accepted[e]
    BY <2>2, <2>5
      DEF state, tries, reached, Promise!EventStep, Promise!Stay
  <2>6. CASE q = r /\ r.status # "absent" /\ accepted'[e] # {}
    <3>1. state[e] # "none"
      BY <2>1, <2>2, <2>6, PromiseStateIs DEF Delivery, Statuses
    <3> QED
      BY <2>2, <2>6, <3>1
      DEF state, tries, reached, Promise!EventStep, Promise!Reach
  <2>7. CASE RowEnqueued(r, attempts[e], q, attempts'[e]) /\ accepted'[e] = accepted[e]
    <3>1. q.status = "pending" /\ q.roundAttemptCount = 0 /\ r.status = "absent"
      BY <2>7, NewRowIs DEF RowEnqueued
    <3>2. state[e] = "none" /\ state'[e] = "queued" /\ tries'[e] = 0
      BY <2>1, <2>2, <3>1, PromiseStateIs
    <3> QED
      BY <2>2, <2>7, <3>2
      DEF state, tries, reached, Promise!EventStep, Promise!Accept, Promise!Moves
  <2>8. CASE RowClaimed(r, attempts[e], q, attempts'[e]) /\ accepted'[e] = accepted[e]
    <3>1. /\ q.status = "sending"
          /\ q.roundAttemptCount = r.roundAttemptCount + 1
          /\ r.status \in {"pending", "retry_wait"}
      BY <2>1, <2>8, ClaimedRowIs DEF RowClaimed
    <3>2. r.roundAttemptCount < MaxAttempts
      BY <2>1, <3>1, RetryDelaysAssumption DEF WithinBudget, MaxAttempts
    <3>3. /\ state[e] = "queued" /\ state'[e] = "trying"
          /\ tries'[e] = tries[e] + 1 /\ tries[e] < MaxAttempts
      BY <2>1, <2>2, <3>1, <3>2, PromiseStateIs
    <3> QED
      BY <2>2, <2>8, <3>3
      DEF state, tries, reached, Promise!EventStep, Promise!Try, Promise!Moves
  <2>9. CASE /\ RowSucceeded(r, attempts[e], accepted[e], q, attempts'[e])
             /\ accepted'[e] = accepted[e]
    <3>1. /\ q.status = "succeeded"
          /\ q.roundAttemptCount = r.roundAttemptCount
          /\ r.status = "sending"
          /\ accepted[e] # {}
      BY <2>1, <2>9, SucceededRowIs DEF RowSucceeded, Ended
    <3>2. /\ state[e] = "trying" /\ state'[e] = "sent"
          /\ tries'[e] = tries[e] /\ reached[e]
      BY <2>1, <2>2, <3>1, PromiseStateIs
    <3> QED
      BY <2>2, <2>9, <3>2
      DEF state, tries, reached, Promise!EventStep, Promise!Confirm, Promise!Moves
  <2>10. CASE /\ RowFailed(r, attempts[e], accepted[e], q, attempts'[e])
              /\ accepted'[e] = accepted[e]
    <3>1. PICK now \in Nat, outcome \in Outcomes \ {"succeeded"} :
            q = FailedRow(r, outcome, now)
      BY <2>10 DEF RowFailed
    <3>2. /\ r.status = "sending"
          /\ q.roundAttemptCount = r.roundAttemptCount
          /\ q.status = IF Retries(r, outcome) THEN "retry_wait" ELSE "failed"
      BY <2>1, <2>10, <3>1, FailedRowKeepsCounts DEF RowFailed
    <3>3. state[e] = "trying" /\ tries'[e] = tries[e]
      BY <2>1, <2>2, <3>2, PromiseStateIs
    <3>4. CASE Retries(r, outcome)
      <4>1. state'[e] = "queued" /\ tries[e] < MaxAttempts
        BY <2>1, <2>2, <3>2, <3>4, PromiseStateIs DEF Retries
      <4> QED
        BY <2>2, <2>10, <3>3, <4>1
      DEF state, tries, reached, Promise!EventStep, Promise!Defer, Promise!Moves
    <3>5. CASE ~Retries(r, outcome)
      <4>1. state'[e] = "given_up"
        BY <2>1, <2>2, <3>2, <3>5, PromiseStateIs
      <4> QED
        BY <2>2, <2>10, <3>3, <4>1
      DEF state, tries, reached, Promise!EventStep, Promise!GiveUp, Promise!Moves
    <3> QED
      BY <3>4, <3>5
  <2>11. CASE RowReopened(r, attempts[e], q, attempts'[e]) /\ accepted'[e] = accepted[e]
    <3>1. q.status = "pending" /\ q.roundAttemptCount = 0 /\ r.status = "failed"
      BY <2>1, <2>11, ReopenedRowIs DEF RowReopened, Ended
    <3>2. state[e] = "given_up" /\ state'[e] = "queued" /\ tries'[e] = 0
      BY <2>1, <2>2, <3>1, PromiseStateIs
    <3> QED
      BY <2>2, <2>11, <3>2
      DEF state, tries, reached, Promise!EventStep, Promise!Reopen, Promise!Moves
  <2> QED
    BY <2>3, <2>4, <2>5, <2>6, <2>7, <2>8, <2>9, <2>10, <2>11 DEF RowStep
<1> QED
  BY <1>3, <1>4 DEF Promise!Next

(* The outbox implements the promise: at most MaxAttempts tries of a round, *)
(* "sent" only after the channel took the message, and sent for good.      *)
THEOREM OutboxKeepsPromise == Spec => KeepsPromise
<1>1. Init => Promise!Init
  <2> SUFFICES ASSUME Init
               PROVE  Promise!Init
    OBVIOUS
  <2>1. /\ NoRow \in Delivery /\ NoRow.status = "absent"
        /\ NoRow.roundAttemptCount = 0
    BY NoRowInv DEF RowInv, NoRow
  <2>2. PromiseState(NoRow) = "none"
    BY <2>1, PromiseStateIs
  <2> QED
    BY <2>1, <2>2 DEF Init, Promise!Init
<1>2. IInv /\ [Next]_vars => [Promise!Next]_(Promise!promised)
  BY PromiseStep
<1> QED
  BY <1>1, <1>2, Invariance, PTL DEF Spec, KeepsPromise, Promise!Spec
===============================================================================
