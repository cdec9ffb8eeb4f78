----------------------------- MODULE MCMiniroute -----------------------------
(* An instance of Miniroute for TLC.  Threads are alike, and so are entries. *)
EXTENDS Miniroute, TLC

CONSTANTS t1, t2, t3, e1, e2

Symmetry == Permutations(Threads) \cup Permutations(Entries)

=============================================================================
