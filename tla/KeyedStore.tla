----------------------------- MODULE KeyedStore -----------------------------
(***************************************************************************)
(* What hashtable.h promises of a hashtable_t: room for as many pairs as   *)
(* it has cells, found again by their keys.  It does not say that a key is *)
(* stored once (hashtable_put does not look for it), so get and remove     *)
(* answer with some pair that has the key.                                 *)
(***************************************************************************)
EXTENDS Integers, FiniteSets

CONSTANTS Keys, Values, Cells, NULL

VARIABLES
    cells,      \* per cell: a pair, or NULL
    result      \* the key of the last call, and what it gave its caller

vars == <<cells, result>>

Pairs == [key : Keys, value : Values]

Init ==
    /\ cells = [c \in Cells |-> NULL]
    /\ result = <<>>

Put(k, v) ==
    \/ \E c \in Cells :
          /\ cells[c] = NULL
          /\ cells' = [cells EXCEPT ![c] = [key |-> k, value |-> v]]
          /\ result' = <<k, 0>>
    \/ /\ \A c \in Cells : cells[c] # NULL
       /\ result' = <<k, -1>>
       /\ UNCHANGED cells

Holds(c, k) == cells[c] # NULL /\ cells[c].key = k

Get(k) ==
    /\ \/ \E c \in Cells : Holds(c, k) /\ result' = <<k, cells[c].value>>
       \/ (\A c \in Cells : ~Holds(c, k)) /\ result' = <<k, NULL>>
    /\ UNCHANGED cells

Remove(k) ==
    \/ \E c \in Cells :
          /\ Holds(c, k)
          /\ cells' = [cells EXCEPT ![c] = NULL]
          /\ result' = <<k, k>>
    \/ /\ \A c \in Cells : ~Holds(c, k)
       /\ result' = <<k, NULL>>
       /\ UNCHANGED cells

Next ==
    \/ \E k \in Keys, v \in Values : Put(k, v)
    \/ \E k \in Keys : Get(k) \/ Remove(k)

Spec == Init /\ [][Next]_vars

=============================================================================
