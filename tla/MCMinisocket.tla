----------------------------- MODULE MCMinisocket -----------------------------
(* An instance of Minisocket for TLC.                                        *)
EXTENDS Minisocket, TLC

MCMaxData == [s \in Sides |-> IF s = "client" THEN 2 ELSE 0]

=============================================================================
