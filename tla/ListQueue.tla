------------------------------ MODULE ListQueue ------------------------------
(***************************************************************************)
(* What queue.h promises of a queue_t: a list of items.                    *)
(***************************************************************************)
EXTENDS Integers, Sequences, FiniteSets, SequencesExt

CONSTANTS Items, Key, NULL

VARIABLES
    items,      \* the list
    result      \* what the last call gave its caller

vars == <<items, result>>

Init == items = <<>> /\ result = 0

Append_(x) ==
    /\ items' = Append(items, x)
    /\ result' = 0

Dequeue ==
    /\ items # <<>>
    /\ items' = Tail(items)
    /\ result' = Head(items)

DequeueEmpty ==
    /\ items = <<>>
    /\ UNCHANGED items
    /\ result' = NULL

(* The new item goes before every queued item that does not sort before it. *)
InsertSorted(x) ==
    \E n \in 1 .. Len(items) + 1 :
        /\ \A i \in 1 .. Len(items) : Key[items[i]] < Key[x] <=> i < n
        /\ items' = InsertAt(items, n, x)
        /\ result' = 0

(* All items with the given key go, the others stay in their order (f is    *)
(* where each of them was); the caller gets the last that went.             *)
DeleteKey(k) ==
    LET kept == {i \in 1 .. Len(items) : Key[items[i]] # k}
        gone == {i \in 1 .. Len(items) : Key[items[i]] = k}
    IN /\ \E f \in [1 .. Cardinality(kept) -> kept] :
             /\ \A i, j \in DOMAIN f : i < j => f[i] < f[j]
             /\ items' = [i \in DOMAIN f |-> items[f[i]]]
       /\ result' = IF gone = {} THEN NULL
                    ELSE items[CHOOSE i \in gone : \A j \in gone : j <= i]

Sorted(q) == \A i, j \in DOMAIN q : i < j => Key[q[i]] <= Key[q[j]]

Next ==
    \/ \E x \in Items : Append_(x) \/ (Sorted(items) /\ InsertSorted(x))
    \/ Dequeue
    \/ DequeueEmpty
    \/ \E k \in {Key[x] : x \in Items} : DeleteKey(k)

Spec == Init /\ [][Next]_vars

=============================================================================
