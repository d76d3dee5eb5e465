------------------------- MODULE MCEvaluationDecision -------------------------
(* Small instances of EvaluationDecision for TLC.                          *)
EXTENDS EvaluationDecision, TLC

ActorSymmetry == Permutations(Evaluators) \cup Permutations(Entities)
===============================================================================
