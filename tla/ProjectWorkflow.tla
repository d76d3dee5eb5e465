---------------------------- MODULE ProjectWorkflow ----------------------------
(***************************************************************************)
(* The life of a project as the stage-3 design draws it (sections 7.1 and  *)
(* 7.2): a status, the status a terminated project goes back to, and which *)
(* first statuses have been announced.  No rows, versions, pages or dates. *)
(***************************************************************************)
VARIABLES status, resume, announced

lifecycle == <<status, resume, announced>>

Statuses ==
  {"pending_application", "submitted", "succeeded", "rejected", "terminated"}

Init ==
  /\ status = "pending_application"
  /\ resume = "none"
  /\ announced = {}

(* A status is announced the first time it is entered, if it is one that    *)
(* the group is told of.                                                   *)
Enter(s) ==
  /\ status' = s
  /\ resume' = "none"
  /\ announced' = announced \cup ({s} \cap {"submitted", "succeeded"})

Submit == status = "pending_application" /\ Enter("submitted")

Decide == status = "submitted" /\ (Enter("succeeded") \/ Enter("rejected"))

Terminate ==
  /\ status \in {"pending_application", "submitted"}
  /\ status' = "terminated"
  /\ resume' = status
  /\ UNCHANGED announced

(* Corrections: undo a termination, exchange the result, take it back.     *)
Restore == status = "terminated" /\ Enter(resume)
Exchange ==
  \/ status = "succeeded" /\ Enter("rejected")
  \/ status = "rejected" /\ Enter("succeeded")
Withdraw == status \in {"succeeded", "rejected"} /\ Enter("submitted")

Next == Submit \/ Decide \/ Terminate \/ Restore \/ Exchange \/ Withdraw

Spec == Init /\ [][Next]_lifecycle
===============================================================================
