---------------------------- MODULE MCEvaluationRules ----------------------------
(* Small instances of EvaluationRules for TLC.                             *)
EXTENDS EvaluationRules, TLC

RulesSymmetry == Permutations(Users) \cup Permutations(Sets)
===============================================================================
