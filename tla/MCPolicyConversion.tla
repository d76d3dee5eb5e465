--------------------------- MODULE MCPolicyConversion ---------------------------
(* Small instances of PolicyConversion for TLC.                            *)
EXTENDS PolicyConversion, TLC

ConversionSymmetry ==
  Permutations(Owners) \cup Permutations(Policies) \cup Permutations(Keys)
    \cup Permutations(Titles)
NoName == {NoValue}
===============================================================================
