---------------------------- MODULE MCProjectLedger ----------------------------
(* Small instances of ProjectLedger for TLC.                               *)
EXTENDS ProjectLedger
===============================================================================
