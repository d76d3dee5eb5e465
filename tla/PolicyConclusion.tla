--------------------------- MODULE PolicyConclusion ---------------------------
(***************************************************************************)
(* What the stage-2 design (sections 2.1 and 4) promises about the          *)
(* conclusion of a policy: it is the system's suggestion until a person     *)
(* confirms one, from then on only people change it, a manual override     *)
(* outlasts later confirmations, and a person's recommendation to apply     *)
(* always has a primary entity.  No batches, evaluators or requests.       *)
(***************************************************************************)
CONSTANTS Conclusions, Entities, None

VARIABLES conclusion, source, primary

verdict == <<conclusion, source, primary>>

Init ==
  /\ conclusion = None
  /\ source = "system_suggestion"
  /\ primary = None

Suggest ==
  /\ source = "system_suggestion"
  /\ conclusion' \in Conclusions
  /\ UNCHANGED <<source, primary>>

(* A person confirms an evaluation; with a recommendation goes an entity.  *)
Confirm ==
  \E c \in Conclusions :
    /\ IF source = "manual_override"
         THEN UNCHANGED <<conclusion, source>>
         ELSE conclusion' = c /\ source' = "evaluation_confirmation"
    /\ IF c = "recommend_apply" THEN primary' \in Entities ELSE UNCHANGED primary

Override ==
  /\ source # "system_suggestion"
  /\ conclusion' \in Conclusions
  /\ conclusion' = "recommend_apply" => primary # None
  /\ source' = "manual_override"
  /\ UNCHANGED primary

SelectPrimary ==
  /\ source # "system_suggestion"
  /\ primary' \in Entities
  /\ UNCHANGED <<conclusion, source>>

Next == Suggest \/ Confirm \/ Override \/ SelectPrimary

Spec == Init /\ [][Next]_verdict
===============================================================================
