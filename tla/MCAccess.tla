------------------------------ MODULE MCAccess ------------------------------
(* A public and a confidential client, which registered one redirect URI each.*)
EXTENDS Access, TLC

CONSTANTS c1, c2, cb, cx, h1, k1, s1, q1, q2

MCRegistration ==
  c1 :> [public |-> TRUE, redirects |-> {cb}, scopes |-> {Read}]
  @@ c2 :> [public |-> FALSE, redirects |-> {cb}, scopes |-> {Read}]
MCScopes == {Read}

(* A session opened and seen before the process was started again: it expires *)
(* at instant 2, when one opened at instant 1 lapses.                         *)
MCEarlier == {[state |-> "active", issued |-> 0, seen |-> 1]}

(* The requests are interchangeable: each slot runs any handler.              *)
MCSymmetry == Permutations(Requests)
=============================================================================
