----------------------------- MODULE LinkedQueue -----------------------------
(***************************************************************************)
(* queue.c: a queue_t as a doubly linked list of malloc'ed nodes.  Every   *)
(* other module of the project uses sequences for its queues; this one     *)
(* checks that the pointers implement them.                                *)
(*                                                                         *)
(* A call runs to its end before the next one begins: a caller in src/     *)
(* that shares a queue disables interrupts around the call (minithread_fork *)
(* and miniroute's discovery timer do not; the README lists them).         *)
(***************************************************************************)
EXTENDS Integers, Sequences, FiniteSets, SequencesExt

CONSTANTS
    Items,      \* what is queued
    Key,        \* per item: what the comparison or the predicate looks at
    Nodes,      \* the memory malloc can give a node
    NULL,
    GARBAGE     \* what memory holds that is not allocated

ASSUME LinkedQueueAssumption ==
    /\ IsFiniteSet(Nodes)
    /\ {NULL, GARBAGE} \cap (Nodes \cup Items) = {}
    /\ NULL # GARBAGE
    /\ Key \in [Items -> Int]

VARIABLES
    head, tail, q_length,
    data, prev, next,   \* per node: its fields
    live,               \* the nodes that are allocated
    result              \* what the last call gave its caller

vars == <<head, tail, q_length, data, prev, next, live, result>>

(* The nodes met when following next from head, as far as there is memory.  *)
Walk[i \in 1 .. Cardinality(Nodes) + 1] ==
    IF i = 1 THEN head ELSE IF Walk[i - 1] \in Nodes THEN next[Walk[i - 1]] ELSE NULL

Chain == [i \in {j \in 1 .. Cardinality(Nodes) + 1 : Walk[j] \in Nodes} |-> Walk[i]]

Contents == [i \in DOMAIN Chain |-> data[Chain[i]]]

Empty == head = NULL /\ tail = NULL

Sorted == \A i, j \in DOMAIN Contents : i < j => Key[Contents[i]] <= Key[Contents[j]]

-----------------------------------------------------------------------------
queue_new ==
    /\ head = NULL /\ tail = NULL /\ q_length = 0
    /\ live = {}
    /\ data \in [Nodes -> {GARBAGE}] /\ prev = data /\ next = data
    /\ result = 0

(* The field f of the nodes once n is freed.                                *)
free(f, n) == [f EXCEPT ![n] = GARBAGE]

(* A fresh node n for item x, with its links; "nx" and "pv" are the lists'  *)
(* links once the neighbours point at it.                                   *)
NewNode(n, x, pv, nx) ==
    /\ n \notin live
    /\ live' = live \cup {n}
    /\ data' = [data EXCEPT ![n] = x]
    /\ prev' = pv
    /\ next' = nx
    /\ q_length' = q_length + 1
    /\ result' = 0

queue_append(n, x) ==
    /\ IF Empty
       THEN /\ NewNode(n, x, [prev EXCEPT ![n] = NULL], [next EXCEPT ![n] = NULL])
            /\ head' = n
       ELSE /\ NewNode(n, x, [prev EXCEPT ![n] = tail], [next EXCEPT ![n] = NULL, ![tail] = n])
            /\ UNCHANGED head
    /\ tail' = n

queue_dequeue ==
    /\ ~Empty
    /\ result' = data[head]
    /\ IF next[head] = NULL /\ prev[tail] = NULL
       THEN /\ head' = NULL
            /\ tail' = NULL
            /\ prev' = free(prev, head)
       ELSE /\ head' = next[head]
            /\ prev' = free([prev EXCEPT ![next[head]] = NULL], head)
            /\ UNCHANGED tail
    /\ q_length' = q_length - 1
    /\ live' = live \ {head}
    /\ data' = free(data, head)
    /\ next' = free(next, head)

queue_dequeue_empty ==
    /\ Empty
    /\ result' = NULL
    /\ UNCHANGED <<head, tail, q_length, data, prev, next, live>>

(* The caller's obligation is that the queue is sorted.                     *)
queue_insert_sorted(n, x) ==
    /\ Sorted
    /\ LET alone == [next EXCEPT ![n] = NULL]
           notBefore == {i \in DOMAIN Chain : Key[data[Chain[i]]] >= Key[x]}
       IN \/ /\ Empty
             /\ NewNode(n, x, [prev EXCEPT ![n] = NULL], alone)
             /\ head' = n /\ tail' = n
          \/ /\ ~Empty
             /\ Key[data[head]] >= Key[x]
             /\ NewNode(n, x, [prev EXCEPT ![n] = NULL, ![head] = n],
                              [next EXCEPT ![n] = head])
             /\ head' = n /\ UNCHANGED tail
          \/ /\ ~Empty
             /\ Key[data[head]] < Key[x]
             /\ Key[data[tail]] < Key[x]
             /\ NewNode(n, x, [prev EXCEPT ![n] = tail], [alone EXCEPT ![tail] = n])
             /\ tail' = n /\ UNCHANGED head
          \/ /\ ~Empty
             /\ Key[data[head]] < Key[x]
             /\ Key[data[tail]] >= Key[x]
             /\ LET current == Chain[CHOOSE i \in notBefore : \A j \in notBefore : i <= j]
                IN NewNode(n, x, [prev EXCEPT ![n] = prev[current], ![current] = n],
                                 [next EXCEPT ![n] = current, ![prev[current]] = n])
             /\ UNCHANGED <<head, tail>>

(* The list as queue_delete_by_predicate finds it.                          *)
List == [head |-> head, tail |-> tail, q_length |-> q_length, data |-> data,
         prev |-> prev, next |-> next, live |-> live, result |-> NULL]

(* Mutant: tail is not moved when the last node goes.                       *)
Unlink_KeepsTail(l, c) ==
    LET nx == l.next[c]
        pv == l.prev[c]
    IN [head |-> IF l.head = c THEN IF pv # NULL THEN pv ELSE nx ELSE l.head,
        tail |-> IF l.tail = c /\ pv = NULL THEN nx ELSE l.tail,
        q_length |-> l.q_length - 1,
        data |-> free(l.data, c),
        prev |-> free(IF nx # NULL THEN [l.prev EXCEPT ![nx] = pv] ELSE l.prev, c),
        next |-> free(IF pv # NULL THEN [l.next EXCEPT ![pv] = nx] ELSE l.next, c),
        live |-> l.live \ {c},
        result |-> l.data[c]]

(* queue_delete_by_predicate's work on one matching node c of the list l;   *)
(* the result is the caller's if no later node matches.                     *)
Unlink(l, c) ==
    LET nx == l.next[c]
        pv == l.prev[c]
    IN [head |-> IF l.head = c THEN IF pv # NULL THEN pv ELSE nx ELSE l.head,
        tail |-> IF l.tail = c THEN IF nx # NULL THEN nx ELSE pv ELSE l.tail,
        q_length |-> l.q_length - 1,
        data |-> free(l.data, c),
        prev |-> free(IF nx # NULL THEN [l.prev EXCEPT ![nx] = pv] ELSE l.prev, c),
        next |-> free(IF pv # NULL THEN [l.next EXCEPT ![pv] = nx] ELSE l.next, c),
        live |-> l.live \ {c},
        result |-> l.data[c]]

(* Mutant: nothing is deleted after the first match.                        *)
Sweep_FirstOnly(k) ==
    LET after[i \in 0 .. Len(Chain)] ==
            IF i = 0 THEN List
            ELSE IF Key[after[i - 1].data[Chain[i]]] = k /\ after[i - 1].result = NULL
            THEN Unlink(after[i - 1], Chain[i])
            ELSE after[i - 1]
    IN after[Len(Chain)]

(* The walk goes through the whole list, the first i nodes after i steps.   *)
Sweep(k) ==
    LET after[i \in 0 .. Len(Chain)] ==
            IF i = 0 THEN List
            ELSE IF Key[after[i - 1].data[Chain[i]]] = k THEN Unlink(after[i - 1], Chain[i])
            ELSE after[i - 1]
    IN after[Len(Chain)]

(* The predicates used in src/ compare one field with the argument; k is    *)
(* that argument.                                                           *)
queue_delete_by_predicate(k) ==
    LET after == Sweep(k)
    IN /\ head' = after.head
       /\ tail' = after.tail
       /\ q_length' = after.q_length
       /\ data' = after.data
       /\ prev' = after.prev
       /\ next' = after.next
       /\ live' = after.live
       /\ result' = after.result

-----------------------------------------------------------------------------
Next ==
    \/ \E n \in Nodes, x \in Items : queue_append(n, x) \/ queue_insert_sorted(n, x)
    \/ queue_dequeue
    \/ queue_dequeue_empty
    \/ \E k \in {Key[x] : x \in Items} : queue_delete_by_predicate(k)

Spec == queue_new /\ [][Next]_vars

-----------------------------------------------------------------------------
(* Properties.                                                              *)

(* The list is well formed between calls: the nodes on it are all the       *)
(* allocated ones (no leak, no use of a freed node), each once; prev        *)
(* mirrors next; head, tail and q_length agree with the nodes.              *)
WellFormed ==
    LET c == Chain
    IN /\ live = Range(c)
       /\ IsInjective(c)
       /\ q_length = Len(c)
       /\ IF c = <<>> THEN Empty
          ELSE /\ head = c[1] /\ prev[c[1]] = NULL
               /\ tail = Last(c) /\ next[Last(c)] = NULL
               /\ \A i \in 1 .. Len(c) - 1 : prev[c[i + 1]] = c[i]

(* The pointers implement the list queue.h promises, results included.      *)
L == INSTANCE ListQueue WITH items <- Contents

ImplementsList == L!Spec

=============================================================================
