--------------------------- MODULE MCPolicyIngestion ---------------------------
(* A small site for TLC: a page that changes its text and loses its number   *)
(* and date, and the first of the two under another address, where the      *)
(* matching finds it by its number or, once that is lost, by its content.   *)
EXTENDS PolicyIngestion, TLC

CONSTANTS u1, u2, n1, t1, d1, b1, b2

Page(u, n, t, d, b) ==
  [url |-> u, number |-> n, title |-> t, date |-> d, body |-> b,
   attached |-> b = b2]

Changing == {Page(u1, n1, t1, d1, b1), Page(u1, NoValue, t1, NoValue, b2)}
Elsewhere == Page(u2, n1, t1, d1, b1)
Site == Changing \cup {Elsewhere}

(* An item that is pending and one that has failed go on alike, and no      *)
(* property but TypeOK looks at more than whether one has succeeded.       *)
Outcome(s) ==
  IF item[s] = NoValue THEN NoValue ELSE [item[s] EXCEPT !.status = @ = "succeeded"]
ItemView ==
  <<policy, nextId, version, discovery, enqueued, file, lock, spider,
    [s \in Spiders |-> Outcome(s)]>>

SpiderSymmetry == Permutations(Spiders)
===============================================================================
