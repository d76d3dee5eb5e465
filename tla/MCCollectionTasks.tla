--------------------------- MODULE MCCollectionTasks ---------------------------
(* Small instances of CollectionTasks for TLC.                             *)
EXTENDS CollectionTasks, TLC

CollectorSymmetry == Permutations(Collectors)
===============================================================================
