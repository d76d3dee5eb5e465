-------------------------------- MODULE RuleBook --------------------------------
(***************************************************************************)
(* What the stage-2 design promises of evaluation rules (sections 1 and     *)
(* 2): at most one version is in force, and what was once in force is      *)
(* never edited.                                                           *)
(***************************************************************************)
EXTENDS Naturals

CONSTANT Contents  \* rules, weights, prompt and threshold

VARIABLES
  active,   \* the versions in force
  content   \* what each version that is or was in force says

vars == <<active, content>>

Init ==
  /\ active = {}
  /\ content = [v \in {} |-> CHOOSE c \in Contents : TRUE]

(* A version enters into force, in place of the one before.                *)
Enact(v, c) ==
  /\ v \notin DOMAIN content
  /\ active' = {v}
  /\ content' = [w \in DOMAIN content \cup {v} |-> IF w = v THEN c ELSE content[w]]

Repeal ==
  /\ active # {}
  /\ active' = {}
  /\ UNCHANGED content

Next ==
  \/ \E v \in DOMAIN content' : \E c \in Contents : Enact(v, c)
  \/ Repeal

Spec == Init /\ [][Next]_vars
===============================================================================
