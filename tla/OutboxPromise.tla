---------------------------- MODULE OutboxPromise ----------------------------
(***************************************************************************)
(* What the notification outbox promises to the code that enqueues events, *)
(* with no workers, tokens, clocks or rows: an event is accepted once, is  *)
(* tried a bounded number of times per round, is recorded as sent only     *)
(* after the channel has taken the message, and once sent stays sent.      *)
(* Events do not interfere, so each takes a step of its own or stays.      *)
(***************************************************************************)
EXTENDS Naturals

CONSTANTS
  Events,
  Budget   \* attempts of one round, a natural number

VARIABLES state, tries, reached

promised == <<state, tries, reached>>

States == {"none", "queued", "trying", "sent", "given_up"}

Init ==
  /\ state = [e \in Events |-> "none"]
  /\ tries = [e \in Events |-> 0]
  /\ reached = [e \in Events |-> FALSE]

(* Event e goes from one state to another; its message may have reached    *)
(* the chat only in a step of its own, Reach.                              *)
Moves(e, from, to) ==
  /\ state[e] = from
  /\ state'[e] = to
  /\ reached'[e] = reached[e]

Accept(e) == Moves(e, "none", "queued") /\ tries'[e] = 0

Try(e) ==
  /\ tries[e] < Budget
  /\ Moves(e, "queued", "trying")
  /\ tries'[e] = tries[e] + 1

(* The chat gets a message, again perhaps, while the event is being tried   *)
(* or late, after its attempt was written off.                             *)
Reach(e) ==
  /\ state[e] # "none"
  /\ reached'[e] = TRUE
  /\ state'[e] = state[e]
  /\ tries'[e] = tries[e]

Confirm(e) ==
  /\ reached[e]
  /\ Moves(e, "trying", "sent")
  /\ tries'[e] = tries[e]

Defer(e) ==
  /\ tries[e] < Budget
  /\ Moves(e, "trying", "queued")
  /\ tries'[e] = tries[e]

GiveUp(e) == Moves(e, "trying", "given_up") /\ tries'[e] = tries[e]

Reopen(e) == Moves(e, "given_up", "queued") /\ tries'[e] = 0

Stay(e) ==
  /\ state'[e] = state[e]
  /\ tries'[e] = tries[e]
  /\ reached'[e] = reached[e]

EventStep(e) ==
  \/ Accept(e) \/ Try(e) \/ Reach(e) \/ Confirm(e)
  \/ Defer(e) \/ GiveUp(e) \/ Reopen(e) \/ Stay(e)

Next ==
  /\ state' \in [Events -> States]
  /\ tries' \in [Events -> 0..Budget]
  /\ reached' \in [Events -> BOOLEAN]
  /\ \A e \in Events : EventStep(e)

Spec == Init /\ [][Next]_promised
===============================================================================
