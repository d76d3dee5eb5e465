------------------------- MODULE MCNotificationOutbox -------------------------
(* Small instances of NotificationOutbox for TLC.  The delays keep the      *)
(* source's shape, an unused first entry and then growing waits, in units  *)
(* of the model's clock.                                                   *)
EXTENDS NotificationOutbox, TLC

TwoAttempts == <<0, 1>>
ThreeAttempts == <<0, 1, 2>>

WorkerSymmetry == Permutations(Workers)

(* What decides how a state goes on.  The ledger and the chat only record   *)
(* what was done: of the ledger a step reads no more than whether the last *)
(* attempt is open, which by ClaimLedger the row tells.                    *)
QueueView == <<delivery, worker, page, clock>>
===============================================================================
