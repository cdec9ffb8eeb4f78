----------------------------- MODULE MCHashTable -----------------------------
(* An instance of HashTable for TLC: three keys on three slots, two with the *)
(* same hash and one that wraps around.                                      *)
EXTENDS HashTable, TLC

CONSTANTS k1, k2, k3, v1, v2

MCKeys == {k1, k2, k3}
MCHash == (k1 :> 2) @@ (k2 :> 5) @@ (k3 :> 1)

=============================================================================
