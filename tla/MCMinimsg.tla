------------------------------ MODULE MCMinimsg ------------------------------
(* Instances of Minimsg for TLC. *)
EXTENDS Minimsg, TLC

CONSTANTS t1, t2, t3, p1, m1, b1, b2, b3, b4

MCThreads == {t1, t2, t3}
MCThreads2 == {t1, t2}
MCBoundPorts == {b1, b2, b3, b4}
Symmetric == Permutations(MCBoundPorts)

=============================================================================
