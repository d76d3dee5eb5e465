----------------------------- MODULE MCChannelCrawl -----------------------------
(* A small site for TLC: an entry of yesterday, one of the cutoff day, one   *)
(* without a date and an older one, in every order, and one to come.       *)
EXTENDS ChannelCrawl, SequencesExt

CONSTANTS recent, edge, undated, old, fresh

Dates == (recent :> 3) @@ (edge :> 2) @@ (undated :> NoValue) @@ (old :> 1)
           @@ (fresh :> 3)

Orders == SetToSeqs({recent, edge, undated, old}) \cup SetToSeqs({recent, edge, undated})
===============================================================================
