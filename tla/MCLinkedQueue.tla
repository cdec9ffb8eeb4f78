---------------------------- MODULE MCLinkedQueue ----------------------------
(* Instances of LinkedQueue for TLC: two items that compare equal, one that  *)
(* does not.                                                                 *)
EXTENDS LinkedQueue, TLC

CONSTANTS x1, x2, x3, n1, n2, n3, n4, n5

MCItems == {x1, x2, x3}
MCKey == x1 :> 1 @@ x2 :> 2 @@ x3 :> 2
MCNodes == {n1, n2, n3, n4, n5}
Symmetric == Permutations(MCNodes)

=============================================================================
