------------------------------ MODULE HashTable ------------------------------
(***************************************************************************)
(* hashtable.c: a table of nodes with linear probing.                      *)
(*                                                                         *)
(* The three loops of the code start at the slot the hash gives, go up by  *)
(* one, wrap around, and stop at the first slot with a property or after   *)
(* max_size slots.  get and remove go on past empty slots, unlike the      *)
(* usual linear probing, so that a removal leaves no gap that hides what   *)
(* lies behind it; the price is that a miss looks at every slot.           *)
(* Keys and values are pointers: a node refers to them and owns neither.   *)
(***************************************************************************)
EXTENDS Integers, FiniteSets

CONSTANTS
    Keys,
    Values,
    hash,           \* the hash function the table was given
    max_size,
    NULL

ASSUME HashTableAssumption ==
    /\ max_size \in Nat \ {0}
    /\ hash \in [Keys -> Nat]
    /\ NULL \notin [key : Keys, value : Values]

VARIABLES
    table,          \* per slot: a node, or NULL
    size,
    result          \* the key of the last call, and what it gave its caller

vars == <<table, size, result>>

Slots == 0 .. max_size - 1
Nodes == [key : Keys, value : Values]

(* The slot a loop looks at when it has passed n others.                    *)
hash_key_index(k, n) == (hash[k] + n) % max_size

Match(tbl, k, n) ==
    LET i == hash_key_index(k, n) IN tbl[i] # NULL /\ tbl[i].key = k

(* The loop of get and remove stops after n slots, at the first with k.     *)
Found(tbl, k, n) ==
    /\ Match(tbl, k, n)
    /\ \A m \in 0 .. n - 1 : ~Match(tbl, k, m)

(* Mutant: it ends at an empty slot, as linear probing usually does.        *)
Missing_AtGap(tbl, k) ==
    \E n \in Slots :
        /\ tbl[hash_key_index(k, n)] = NULL
        /\ \A m \in 0 .. n - 1 : ~Match(tbl, k, m)

(* It ends after max_size slots.                                            *)
Missing(tbl, k) == \A n \in Slots : ~Match(tbl, k, n)

(* The loop of put stops after n slots, at the first that is empty.         *)
Vacant(tbl, k, n) ==
    /\ tbl[hash_key_index(k, n)] = NULL
    /\ \A m \in 0 .. n - 1 : tbl[hash_key_index(k, m)] # NULL

-----------------------------------------------------------------------------
(* hashtable_init.                                                          *)
Init ==
    /\ table = [i \in Slots |-> NULL]
    /\ size = 0
    /\ result = <<>>

hashtable_put(k, v) ==
    \/ \E n \in Slots :
          /\ Vacant(table, k, n)
          /\ table' = [table EXCEPT ![hash_key_index(k, n)] = [key |-> k, value |-> v]]
          /\ size' = size + 1
          /\ result' = <<k, 0>>
    \/ /\ \A n \in Slots : table[hash_key_index(k, n)] # NULL
       /\ result' = <<k, -1>>
       /\ UNCHANGED <<table, size>>

hashtable_get(k) ==
    /\ \/ \E n \in Slots : Found(table, k, n) /\ result' = <<k, table[hash_key_index(k, n)].value>>
       \/ Missing(table, k) /\ result' = <<k, NULL>>
    /\ UNCHANGED <<table, size>>

(* The caller gets the key back, which it frees.                            *)
hashtable_remove(k) ==
    \/ \E n \in Slots :
          /\ Found(table, k, n)
          /\ table' = [table EXCEPT ![hash_key_index(k, n)] = NULL]
          /\ size' = size - 1
          /\ result' = <<k, k>>
    \/ /\ Missing(table, k)
       /\ result' = <<k, NULL>>
       /\ UNCHANGED <<table, size>>

Next ==
    \/ \E k \in Keys, v \in Values : hashtable_put(k, v)
    \/ \E k \in Keys : hashtable_get(k) \/ hashtable_remove(k)

Spec == Init /\ [][Next]_vars

-----------------------------------------------------------------------------
(* Properties.                                                              *)

Filled == {i \in Slots : table[i] # NULL}

(* Typing; the size stays within the table.                                 *)
TypeOK ==
    /\ table \in [Slots -> Nodes \cup {NULL}]
    /\ size \in 0 .. max_size

(* The counter kept beside the table is the number of nodes in it.          *)
SizeExact == size = Cardinality(Filled)

(* Probing loses nothing: put fails only when every slot is taken, and get  *)
(* and remove miss a key only when no slot holds it, whatever was removed   *)
(* from the slots before it and wherever the probe wrapped around.          *)
Store == INSTANCE KeyedStore WITH Cells <- Slots, cells <- table

ImplementsStore == Store!Spec

=============================================================================
