--------------------------- MODULE HashTableProofs ---------------------------
(***************************************************************************)
(* Theorems about HashTable, for every hash function and every table size. *)
(*                                                                         *)
(* The arithmetic is in the first lemmas: the slots a probe looks at are   *)
(* slots of the table, and together they are all of them.                  *)
(***************************************************************************)
EXTENDS HashTable, FiniteSetTheorems, TLAPS

LEMMA RemainderRange ==
    ASSUME NEW m \in Nat \ {0}, NEW x \in Nat
    PROVE  x % m \in 0 .. m - 1
  BY SMT

LEMMA Division ==
    ASSUME NEW m \in Nat \ {0}, NEW x \in Nat
    PROVE  x \div m \in Nat /\ x = m * (x \div m) + (x % m)
  BY SMTT(30)

LEMMA RemainderUnique ==
    ASSUME NEW m \in Nat \ {0}, NEW q \in Nat, NEW r \in 0 .. m - 1
    PROVE  (m * q + r) % m = r
  BY SMTT(30)

(* Going up by one from h and wrapping around meets every remainder.        *)
LEMMA RemainderMet ==
    ASSUME NEW m \in Nat \ {0}, NEW h \in Nat, NEW c \in 0 .. m - 1
    PROVE  \E n \in 0 .. m - 1 : (h + n) % m = c
  <1> DEFINE r == h % m
             q == h \div m
  <1>1. r \in 0 .. m - 1 /\ q \in Nat /\ h = m * q + r
    BY RemainderRange, Division
  <1> HIDE DEF r, q
  <1>2. CASE c >= r
    <2>1. h + (c - r) = m * q + c  BY <1>1, <1>2
    <2>2. (m * q + c) % m = c  BY <1>1, RemainderUnique
    <2>3. c - r \in 0 .. m - 1  BY <1>1, <1>2
    <2> QED  BY <2>1, <2>2, <2>3
  <1>3. CASE c < r
    <2>1. h + (c - r + m) = m * q + m + c  BY <1>1, <1>3
    <2>2. m * q + m = m * (q + 1)  BY <1>1
    <2>3. (m * (q + 1) + c) % m = c  BY <1>1, RemainderUnique
    <2>4. c - r + m \in 0 .. m - 1  BY <1>1, <1>3
    <2> QED  BY <2>1, <2>2, <2>3, <2>4
  <1> QED  BY <1>1, <1>2, <1>3

LEMMA ProbeInTable ==
    ASSUME NEW k \in Keys, NEW n \in Slots
    PROVE  hash_key_index(k, n) \in Slots
  <1>1. max_size \in Nat \ {0} /\ hash[k] + n \in Nat
    BY HashTableAssumption DEF HashTableAssumption, Slots
  <1> QED  BY <1>1, RemainderRange DEF hash_key_index, Slots

LEMMA ProbeMeetsAll ==
    ASSUME NEW k \in Keys, NEW c \in Slots
    PROVE  \E n \in Slots : hash_key_index(k, n) = c
  <1>1. max_size \in Nat \ {0} /\ hash[k] \in Nat
    BY HashTableAssumption DEF HashTableAssumption
  <1> QED  BY <1>1, RemainderMet DEF hash_key_index, Slots

-----------------------------------------------------------------------------
LEMMA FilledFinite == IsFiniteSet(Filled) /\ Cardinality(Filled) \in 0 .. max_size
  <1>1. max_size \in Nat
    BY HashTableAssumption DEF HashTableAssumption
  <1>2. IsFiniteSet(Slots) /\ Cardinality(Slots) = max_size
    BY <1>1, FS_Interval DEF Slots
  <1>3. Filled \subseteq Slots
    BY DEF Filled
  <1>4. IsFiniteSet(Filled) /\ Cardinality(Filled) <= max_size
    BY <1>2, <1>3, FS_Subset
  <1> QED  BY <1>1, <1>4, FS_CardinalityType

(* The invariant: the table is well typed and its nodes are counted.        *)
TableInv == table \in [Slots -> Nodes \cup {NULL}] /\ SizeExact

LEMMA TableInvTyping == TableInv => TypeOK
  BY FilledFinite DEF TableInv, SizeExact, TypeOK

LEMMA FillStep ==
    ASSUME TableInv, NEW i \in Slots, table[i] = NULL, NEW x \in Nodes,
           table' = [table EXCEPT ![i] = x], size' = size + 1
    PROVE  TableInv'
  <1>1. table' \in [Slots -> Nodes \cup {NULL}]
    BY DEF TableInv
  <1>2. x # NULL
    BY HashTableAssumption DEF HashTableAssumption, Nodes
  <1>3. Filled' = Filled \cup {i} /\ i \notin Filled
    BY <1>2 DEF TableInv, Filled
  <1>4. Cardinality(Filled') = Cardinality(Filled) + 1
    BY <1>3, FilledFinite, FS_AddElement
  <1> QED  BY <1>1, <1>4 DEF TableInv, SizeExact

LEMMA ClearStep ==
    ASSUME TableInv, NEW i \in Slots, table[i] # NULL,
           table' = [table EXCEPT ![i] = NULL], size' = size - 1
    PROVE  TableInv'
  <1>1. table' \in [Slots -> Nodes \cup {NULL}]
    BY DEF TableInv
  <1>2. Filled' = Filled \ {i} /\ i \in Filled
    BY DEF TableInv, Filled
  <1>3. Cardinality(Filled') = Cardinality(Filled) - 1
    BY <1>2, FilledFinite, FS_RemoveElement
  <1> QED  BY <1>1, <1>3 DEF TableInv, SizeExact

LEMMA TableInvInit == Init => TableInv
  <1> SUFFICES ASSUME Init PROVE TableInv
    OBVIOUS
  <1>1. Filled = {}
    BY DEF Init, Filled
  <1>2. Cardinality(Filled) = 0
    BY <1>1, FS_EmptySet
  <1> QED  BY <1>2 DEF Init, TableInv, SizeExact

LEMMA TableInvStep == TableInv /\ [Next]_vars => TableInv'
  <1> SUFFICES ASSUME TableInv, [Next]_vars PROVE TableInv'
    OBVIOUS
  <1>1. ASSUME UNCHANGED <<table, size>> PROVE TableInv'
    BY <1>1 DEF TableInv, SizeExact, Filled
  <1>2. CASE UNCHANGED vars
    BY <1>1, <1>2 DEF vars
  <1>3. ASSUME NEW k \in Keys, NEW v \in Values, hashtable_put(k, v) PROVE TableInv'
    <2>1. CASE \E n \in Slots :
                  /\ Vacant(table, k, n)
                  /\ table' = [table EXCEPT ![hash_key_index(k, n)]
                                                = [key |-> k, value |-> v]]
                  /\ size' = size + 1
      <3>1. PICK n \in Slots :
                  /\ Vacant(table, k, n)
                  /\ table' = [table EXCEPT ![hash_key_index(k, n)]
                                                = [key |-> k, value |-> v]]
                  /\ size' = size + 1
        BY <2>1
      <3>2. PICK i \in Slots : i = hash_key_index(k, n)
        BY ProbeInTable
      <3>3. table[i] = NULL /\ [key |-> k, value |-> v] \in Nodes
        BY <3>1, <3>2 DEF Vacant, Nodes
      <3>4. table' = [table EXCEPT ![i] = [key |-> k, value |-> v]] /\ size' = size + 1
        BY <3>1, <3>2
      <3> QED  BY <3>3, <3>4, FillStep
    <2>2. CASE UNCHANGED <<table, size>>
      BY <1>1, <2>2
    <2> QED  BY <1>3, <2>1, <2>2 DEF hashtable_put
  <1>4. ASSUME NEW k \in Keys, hashtable_get(k) PROVE TableInv'
    BY <1>1, <1>4 DEF hashtable_get
  <1>5. ASSUME NEW k \in Keys, hashtable_remove(k) PROVE TableInv'
    <2>1. CASE \E n \in Slots :
                  /\ Found(table, k, n)
                  /\ table' = [table EXCEPT ![hash_key_index(k, n)] = NULL]
                  /\ size' = size - 1
      <3>1. PICK n \in Slots :
                  /\ Found(table, k, n)
                  /\ table' = [table EXCEPT ![hash_key_index(k, n)] = NULL]
                  /\ size' = size - 1
        BY <2>1
      <3>2. PICK i \in Slots : i = hash_key_index(k, n)
        BY ProbeInTable
      <3>3. table[i] # NULL
        BY <3>1, <3>2 DEF Found, Match
      <3>4. table' = [table EXCEPT ![i] = NULL] /\ size' = size - 1
        BY <3>1, <3>2
      <3> QED  BY <3>3, <3>4, ClearStep
    <2>2. CASE UNCHANGED <<table, size>>
      BY <1>1, <2>2
    <2> QED  BY <1>5, <2>1, <2>2 DEF hashtable_remove
  <1> QED  BY <1>2, <1>3, <1>4, <1>5 DEF Next

(* The size counter of hashtable.c:143 and 106 is always the number of      *)
(* nodes in the table.                                                      *)
THEOREM SizeCountsNodes == Spec => []SizeExact
  <1>1. TableInv => SizeExact
    BY DEF TableInv
  <1> QED  BY <1>1, TableInvInit, TableInvStep, PTL DEF Spec

(* The table stays well typed and the size between 0 and max_size.          *)
THEOREM HashTableTyping == Spec => []TypeOK
  BY TableInvInit, TableInvStep, TableInvTyping, PTL DEF Spec

-----------------------------------------------------------------------------
(* A step of the table is a step of the store it stands for.                *)
LEMMA PutRefines ==
    ASSUME NEW k \in Keys, NEW v \in Values, hashtable_put(k, v)
    PROVE  Store!Put(k, v)
  <1>1. CASE \E n \in Slots :
                /\ Vacant(table, k, n)
                /\ table' = [table EXCEPT ![hash_key_index(k, n)] = [key |-> k, value |-> v]]
                /\ result' = <<k, 0>>
    <2>1. PICK n \in Slots :
                /\ Vacant(table, k, n)
                /\ table' = [table EXCEPT ![hash_key_index(k, n)] = [key |-> k, value |-> v]]
                /\ result' = <<k, 0>>
      BY <1>1
    <2>2. PICK i \in Slots : i = hash_key_index(k, n)
      BY ProbeInTable
    <2> QED  BY <2>1, <2>2 DEF Vacant, Store!Put
  <1>2. CASE (\A n \in Slots : table[hash_key_index(k, n)] # NULL)
                 /\ result' = <<k, -1>> /\ UNCHANGED table
    <2>1. \A c \in Slots : table[c] # NULL
      BY <1>2, ProbeMeetsAll
    <2> QED  BY <1>2, <2>1 DEF Store!Put
  <1> QED  BY <1>1, <1>2 DEF hashtable_put

LEMMA FoundHolds ==
    ASSUME NEW k \in Keys, NEW n \in Slots, Found(table, k, n)
    PROVE  hash_key_index(k, n) \in Slots /\ Store!Holds(hash_key_index(k, n), k)
  BY ProbeInTable DEF Found, Match, Store!Holds

LEMMA MissingHolds ==
    ASSUME NEW k \in Keys, Missing(table, k)
    PROVE  \A c \in Slots : ~Store!Holds(c, k)
  BY ProbeMeetsAll DEF Missing, Match, Store!Holds

LEMMA GetRefines ==
    ASSUME NEW k \in Keys, hashtable_get(k)
    PROVE  Store!Get(k)
  BY FoundHolds, MissingHolds DEF hashtable_get, Store!Get

LEMMA RemoveRefines ==
    ASSUME NEW k \in Keys, hashtable_remove(k)
    PROVE  Store!Remove(k)
  BY FoundHolds, MissingHolds DEF hashtable_remove, Store!Remove

(* Linear probing is invisible to the caller: whatever was stored and       *)
(* removed before, a put fails only when the table is full, and a get or a  *)
(* remove misses only what is not there.                                    *)
THEOREM HashTableImplementsStore == Spec => ImplementsStore
  <1>1. Init => Store!Init
    BY DEF Init, Store!Init
  <1>2. [Next]_vars => [Store!Next]_(Store!vars)
    BY PutRefines, GetRefines, RemoveRefines DEF Next, vars, Store!Next, Store!vars
  <1> QED  BY <1>1, <1>2, PTL DEF Spec, ImplementsStore, Store!Spec

=============================================================================
