---------------------------- MODULE MinimsgProofs ----------------------------
(***************************************************************************)
(* The safety properties of the miniports, for every number of threads,    *)
(* unbound ports, bound numbers and packets.                               *)
(*                                                                         *)
(* The invariant: types (Typing); who waits for a packet, and where        *)
(* (Queued), without which the count of the packets (Counted) would not    *)
(* be kept by a V that starts a thread; what a number given out is worth   *)
(* until it is entered (Reserved); and where next_bound stands (Ordered).  *)
(***************************************************************************)
EXTENDS Minimsg, SequenceTheorems, FiniteSetTheorems, TLAPS

Typing ==
    /\ TypeOK
    /\ value \in [Unbound -> Nat]
    /\ waiting \in [Unbound -> Seq(Threads)]
    /\ granted \subseteq Threads /\ IsFiniteSet(granted)
    /\ last \in Numbers \cup {NULL}

(* A thread in the queue of a port is there once, receives on that port and *)
(* has not been started; one that has been started receives.                *)
QueuedAt(p) ==
    \A i \in 1 .. Len(waiting[p]) :
        LET t == waiting[p][i] IN
        /\ pc[t] = "receive" /\ port[t] = p /\ t \notin granted
        /\ \A j \in 1 .. Len(waiting[p]) : waiting[p][j] = t => i = j

Queued ==
    /\ \A p \in Unbound : QueuedAt(p)
    /\ \A t \in granted : pc[t] = "receive" /\ port[t] \in Unbound

CountedAt(p) ==
    /\ Len(incoming_data[p]) = value[p] + Cardinality(Served(p))
    /\ waiting[p] # <<>> => value[p] = 0

(* Unless two threads were given the same number, a number that was given   *)
(* out stays free in the table and with its thread until it is entered.     *)
Reserved ==
    /\ \A t \in Threads : pc[t] = "enter" => chosen[t] \in Numbers
    /\ \/ raced
       \/ /\ \A b \in Live : bound_ports[port_number[b]] = b
          /\ \A t, u \in Threads :
                pc[t] = "enter" /\ pc[u] = "enter" /\ chosen[t] = chosen[u] => t = u
          /\ \A t \in Threads : pc[t] = "enter" => bound_ports[chosen[t]] = NULL

Ordered == next_bound = IF last = NULL THEN 0 ELSE (last + 1) % NumBound

MinimsgInv ==
    /\ Typing /\ Queued /\ (\A p \in Unbound : CountedAt(p)) /\ Reserved /\ Ordered

-----------------------------------------------------------------------------
(* Remainders.                                                              *)

LEMMA RemainderRange == \A x \in Int : x % NumBound \in Numbers
BY MinimsgAssumption DEF Numbers

(* Numbers above the one given last come before those below.                *)
LEMMA AboveFirst ==
    ASSUME NEW l \in Numbers, NEW m \in Numbers, NEW n \in Numbers, m > l, n <= l
    PROVE  (m - ((l + 1) % NumBound)) % NumBound < (n - ((l + 1) % NumBound)) % NumBound
<1>1. NumBound \in Nat \ {0} /\ l \in 0 .. NumBound - 1 /\ m \in 0 .. NumBound - 1 /\ n \in 0 .. NumBound - 1
  BY MinimsgAssumption DEF Numbers
<1>2. (l + 1) % NumBound = l + 1
  BY <1>1
<1>3. (m - (l + 1)) % NumBound = m - (l + 1)
  BY <1>1
<1>4. (n - (l + 1)) % NumBound = n - (l + 1) + NumBound
  <2>1. /\ n - (l + 1) = NumBound * (-1) + (n - (l + 1) + NumBound)
        /\ n - (l + 1) + NumBound \in 0 .. NumBound - 1
    BY <1>1
  <2> QED
    BY <1>1, <2>1
<1> QED
  BY <1>1, <1>2, <1>3, <1>4

-----------------------------------------------------------------------------
(* What an action leaves alone.                                             *)

LEMMA QueuesKept ==
    ASSUME MinimsgInv, UNCHANGED incoming_data, UNCHANGED semaVars, UNCHANGED port,
           \A t \in Threads : pc[t] = "receive" => pc'[t] = "receive"
    PROVE  Queued' /\ \A p \in Unbound : CountedAt(p)'
<1>1. /\ waiting \in [Unbound -> Seq(Threads)] /\ granted \subseteq Threads
      /\ waiting' = waiting /\ granted' = granted /\ value' = value
      /\ port' = port /\ incoming_data' = incoming_data
  BY DEF MinimsgInv, Typing, semaVars
<1>2. ASSUME NEW p \in Unbound PROVE QueuedAt(p)' /\ CountedAt(p)'
  <2>1. /\ QueuedAt(p) /\ CountedAt(p)
    BY DEF MinimsgInv, Queued
  <2>2. waiting[p] \in Seq(Threads)
    BY <1>1
  <2>3. QueuedAt(p)'
    BY <1>1, <2>1, <2>2, ElementOfSeq DEF QueuedAt
  <2>4. Served(p)' = Served(p)
    BY <1>1 DEF Served
  <2> QED
    BY <1>1, <2>1, <2>3, <2>4 DEF CountedAt
<1> QED
  BY <1>1, <1>2 DEF MinimsgInv, Queued

LEMMA NumbersKept ==
    ASSUME MinimsgInv, UNCHANGED boundVars,
           \A t \in Threads : pc'[t] = "enter" => pc[t] = "enter"
    PROVE  Reserved' /\ Ordered'
  BY DEF MinimsgInv, Reserved, Ordered, Live, boundVars

LEMMA ServedFinite ==
    ASSUME MinimsgInv, NEW p
    PROVE  IsFiniteSet(Served(p)) /\ Cardinality(Served(p)) \in Nat
  BY FS_Subset, FS_CardinalityType DEF MinimsgInv, Typing, Served

-----------------------------------------------------------------------------
(* Packets.                                                                 *)

LEMMA ArriveKeeps ==
    ASSUME MinimsgInv, NEW p \in Unbound, NEW m \in Packets, Arrive(p, m)
    PROVE  MinimsgInv'
<1> DEFINE q == incoming_data[p]
<1>1. /\ TypeOK /\ value \in [Unbound -> Nat] /\ waiting \in [Unbound -> Seq(Threads)]
      /\ granted \subseteq Threads /\ IsFiniteSet(granted) /\ last \in Numbers \cup {NULL}
      /\ incoming_data \in [Unbound -> Seq(Packets)] /\ q \in Seq(Packets)
      /\ Queued /\ QueuedAt(p) /\ \A o \in Unbound : CountedAt(o)
  BY DEF MinimsgInv, Typing, TypeOK, Queued
<1>2. /\ unbound_ports' = unbound_ports \cup {p} /\ pc' = pc /\ port' = port
      /\ incoming_data' = [incoming_data EXCEPT ![p] = Append(q, m)]
      /\ UNCHANGED boundVars
      /\ Ready!Release(p) \/ Ready!Grant(p)
  BY DEF Arrive, miniport_unbound_enqueue
<1>3. /\ Append(q, m) \in Seq(Packets) /\ Len(Append(q, m)) = Len(q) + 1 /\ Len(q) \in Nat
  BY <1>1, AppendProperties, LenProperties
<1> HIDE DEF q
<1>4. /\ incoming_data' \in [Unbound -> Seq(Packets)]
      /\ Len(incoming_data'[p]) = Len(incoming_data[p]) + 1
      /\ \A o \in Unbound \ {p} : incoming_data'[o] = incoming_data[o]
  BY <1>1, <1>2, <1>3 DEF q
<1>5. TypeOK' /\ last' \in Numbers \cup {NULL}
  BY <1>1, <1>2, <1>4 DEF TypeOK, boundVars
<1>6. Reserved' /\ Ordered'
  BY <1>2, NumbersKept
<1>7. CASE Ready!Release(p)
  <2>1. waiting[p] = <<>> /\ value' = [value EXCEPT ![p] = @ + 1] /\ waiting' = waiting /\ granted' = granted
    BY <1>7 DEF Ready!Release
  <2>2. Typing'
    BY <1>1, <1>5, <2>1 DEF Typing
  <2>3. Queued'
    BY <1>1, <1>2, <2>1 DEF Queued, QueuedAt
  <2>4. ASSUME NEW o \in Unbound PROVE CountedAt(o)'
    <3>1. Served(o)' = Served(o) /\ Cardinality(Served(o)) \in Nat
      BY <1>2, <2>1, ServedFinite DEF Served
    <3>2. CountedAt(o) /\ value[o] \in Nat /\ Len(incoming_data[o]) \in Nat
      BY <1>1, LenProperties
    <3>3. CASE o = p
      <4>1. value'[o] = value[o] + 1 /\ Len(incoming_data'[o]) = Len(incoming_data[o]) + 1
        BY <1>1, <1>4, <2>1, <3>3
      <4>2. waiting'[o] = <<>>
        BY <2>1, <3>3
      <4> QED
        BY <3>1, <3>2, <4>1, <4>2 DEF CountedAt
    <3>4. CASE o # p
      <4>1. value'[o] = value[o] /\ incoming_data'[o] = incoming_data[o] /\ waiting' = waiting
        BY <1>1, <1>4, <2>1, <3>4
      <4> QED
        BY <3>1, <3>2, <4>1 DEF CountedAt
    <3> QED
      BY <3>3, <3>4
  <2> QED
    BY <1>6, <2>2, <2>3, <2>4 DEF MinimsgInv
<1>8. CASE Ready!Grant(p)
  <2> DEFINE w == waiting[p]
             h == Head(w)
             r == Tail(w)
  <2>1. /\ w # <<>> /\ w \in Seq(Threads)
        /\ waiting' = [waiting EXCEPT ![p] = r] /\ granted' = granted \cup {h} /\ value' = value
    BY <1>1, <1>8 DEF Ready!Grant
  <2>2. /\ Len(w) \in Nat /\ Len(w) > 0 /\ h = w[1] /\ h \in Threads
        /\ r \in Seq(Threads) /\ Len(r) = Len(w) - 1
        /\ \A i \in 1 .. Len(r) : r[i] = w[i + 1]
    BY <2>1, HeadTailProperties, LenProperties, EmptySeq, ElementOfSeq
  <2>3. /\ pc[h] = "receive" /\ port[h] = p /\ h \notin granted
        /\ \A j \in 1 .. Len(w) : w[j] = h => j = 1
    BY <1>1, <2>2 DEF QueuedAt
  <2>4. /\ waiting' \in [Unbound -> Seq(Threads)] /\ waiting'[p] = r
        /\ \A o \in Unbound \ {p} : waiting'[o] = waiting[o]
    BY <1>1, <2>1, <2>2
  <2> HIDE DEF h, r
  <2>5. Typing'
    BY <1>1, <1>5, <2>1, <2>2, <2>4, FS_AddElement DEF Typing
  <2>6. ASSUME NEW o \in Unbound PROVE QueuedAt(o)'
    <3>1. ASSUME NEW i \in 1 .. Len(waiting'[o])
          PROVE  /\ pc[waiting'[o][i]] = "receive" /\ port[waiting'[o][i]] = o
                 /\ waiting'[o][i] \notin granted'
                 /\ \A j \in 1 .. Len(waiting'[o]) : waiting'[o][j] = waiting'[o][i] => i = j
      <4>1. CASE o # p
        BY <1>1, <2>1, <2>3, <2>4, <3>1, <4>1 DEF Queued, QueuedAt
      <4>2. CASE o = p
        <5>1. i \in 1 .. Len(r) /\ waiting'[o] = r /\ i + 1 \in 1 .. Len(w) /\ i + 1 # 1 /\ r[i] = w[i + 1]
          BY <2>2, <2>4, <4>2
        <5>2. /\ pc[r[i]] = "receive" /\ port[r[i]] = p /\ r[i] \notin granted /\ r[i] # h
              /\ \A j \in 1 .. Len(w) : w[j] = r[i] => i + 1 = j
          BY <1>1, <2>3, <5>1 DEF QueuedAt
        <5>3. ASSUME NEW j \in 1 .. Len(r), r[j] = r[i] PROVE i = j
          <6>1. j + 1 \in 1 .. Len(w) /\ r[j] = w[j + 1]
            BY <2>2
          <6>2. i + 1 = j + 1
            BY <5>2, <5>3, <6>1
          <6> QED
            BY <5>1, <6>1, <6>2
        <5>4. r[i] \notin granted' /\ port[r[i]] = o
          BY <2>1, <4>2, <5>2
        <5> QED
          BY <5>1, <5>2, <5>3, <5>4
      <4> QED
        BY <4>1, <4>2
    <3> QED
      BY <1>2, <3>1 DEF QueuedAt
  <2>7. Queued'
    BY <1>1, <1>2, <2>1, <2>3, <2>6 DEF Queued
  <2>8. ASSUME NEW o \in Unbound PROVE CountedAt(o)'
    <3>1. IsFiniteSet(Served(o)) /\ Cardinality(Served(o)) \in Nat
      BY ServedFinite
    <3>2. CASE o # p
      <4>1. Served(o)' = Served(o)
        BY <1>2, <2>1, <2>3, <3>2 DEF Served
      <4> QED
        BY <1>1, <1>4, <2>1, <2>4, <3>2, <4>1 DEF CountedAt
    <3>3. CASE o = p
      <4>1. Served(o)' = Served(o) \cup {h} /\ h \notin Served(o)
        BY <1>2, <2>1, <2>3, <3>3 DEF Served
      <4>2. Cardinality(Served(o)') = Cardinality(Served(o)) + 1
        BY <3>1, <4>1, FS_AddElement
      <4> QED
        BY <1>1, <1>3, <1>4, <2>1, <3>1, <3>3, <4>2 DEF CountedAt, q
    <3> QED
      BY <3>2, <3>3
  <2> QED
    BY <1>6, <2>5, <2>7, <2>8 DEF MinimsgInv
<1> QED
  BY <1>2, <1>7, <1>8

LEMMA CreateKeeps ==
    ASSUME MinimsgInv, NEW p \in Unbound, miniport_create_unbound(p)
    PROVE  MinimsgInv'
<1>1. Typing'
  BY DEF MinimsgInv, miniport_create_unbound, Typing, TypeOK, semaVars, boundVars
<1>2. Queued' /\ \A o \in Unbound : CountedAt(o)'
  BY QueuesKept DEF miniport_create_unbound
<1>3. Reserved' /\ Ordered'
  BY NumbersKept DEF miniport_create_unbound
<1> QED
  BY <1>1, <1>2, <1>3 DEF MinimsgInv

(* Nobody receives on the port, so nobody has been started either.          *)
LEMMA DestroyKeeps ==
    ASSUME MinimsgInv, NEW p \in Unbound, DestroyUnbound(p)
    PROVE  MinimsgInv'
<1>1. /\ Typing /\ Queued /\ \A o \in Unbound : CountedAt(o)
      /\ incoming_data \in [Unbound -> Seq(Packets)] /\ value \in [Unbound -> Nat]
      /\ waiting \in [Unbound -> Seq(Threads)] /\ granted \subseteq Threads
  BY DEF MinimsgInv, Typing, TypeOK
<1>2. /\ unbound_ports' = unbound_ports \ {p} /\ pc' = pc /\ port' = port
      /\ waiting' = waiting /\ granted' = granted
      /\ incoming_data' = [incoming_data EXCEPT ![p] = <<>>]
      /\ value' = [value EXCEPT ![p] = 0]
      /\ \A t \in Threads : pc[t] = "receive" => port[t] # p
      /\ UNCHANGED boundVars
  BY DEF DestroyUnbound
<1>3. incoming_data' \in [Unbound -> Seq(Packets)] /\ value' \in [Unbound -> Nat]
  <2>1. <<>> \in Seq(Packets)
    OBVIOUS
  <2> QED
    BY <1>1, <1>2, <2>1
<1>4. Typing'
  BY <1>1, <1>2, <1>3 DEF Typing, TypeOK, boundVars
<1>5. Queued'
  BY <1>1, <1>2 DEF Queued, QueuedAt
<1>6. Reserved' /\ Ordered'
  BY <1>2, NumbersKept
<1>7. ASSUME NEW o \in Unbound PROVE CountedAt(o)'
  <2>1. Served(o)' = Served(o)
    BY <1>2 DEF Served
  <2>2. CASE o # p
    BY <1>1, <1>2, <2>1, <2>2 DEF CountedAt
  <2>3. CASE o = p
    <3>1. Served(o) = {}
      BY <1>1, <1>2, <2>3 DEF Served, Queued
    <3>2. Cardinality(Served(o)') = 0
      BY <2>1, <3>1, FS_EmptySet
    <3> QED
      BY <1>1, <1>2, <2>3, <3>2 DEF CountedAt
  <2> QED
    BY <2>2, <2>3
<1> QED
  BY <1>4, <1>5, <1>6, <1>7 DEF MinimsgInv

LEMMA ReceiveNowKeeps ==
    ASSUME MinimsgInv, NEW t \in Threads, NEW p \in Unbound, ReceiveNow(t, p)
    PROVE  MinimsgInv'
<1> DEFINE q == incoming_data[p]
<1>1. /\ Typing /\ Queued /\ \A o \in Unbound : CountedAt(o)
      /\ incoming_data \in [Unbound -> Seq(Packets)] /\ value \in [Unbound -> Nat]
      /\ waiting \in [Unbound -> Seq(Threads)] /\ granted \subseteq Threads
      /\ pc \in [Threads -> {"run", "receive", "bind", "enter"}] /\ q \in Seq(Packets)
  BY DEF MinimsgInv, Typing, TypeOK
<1>2. /\ pc[t] = "run" /\ value[p] > 0 /\ q # <<>>
      /\ value' = [value EXCEPT ![p] = @ - 1] /\ waiting' = waiting /\ granted' = granted
      /\ incoming_data' = [incoming_data EXCEPT ![p] = Tail(q)]
      /\ pc' = [pc EXCEPT ![t] = "bind"]
      /\ unbound_ports' = unbound_ports /\ port' = port /\ UNCHANGED boundVars
  BY DEF ReceiveNow, Ready!Acquire, queue_dequeue
<1>3. Tail(q) \in Seq(Packets) /\ Len(Tail(q)) = Len(q) - 1 /\ Len(q) \in Nat
  BY <1>1, <1>2, HeadTailProperties, LenProperties
<1> HIDE DEF q
<1>4. /\ incoming_data' \in [Unbound -> Seq(Packets)] /\ value' \in [Unbound -> Nat]
      /\ Len(incoming_data'[p]) = Len(incoming_data[p]) - 1 /\ Len(incoming_data[p]) \in Nat
      /\ value'[p] = value[p] - 1
      /\ \A o \in Unbound \ {p} : incoming_data'[o] = incoming_data[o] /\ value'[o] = value[o]
  BY <1>1, <1>2, <1>3 DEF q
<1>5. pc' \in [Threads -> {"run", "receive", "bind", "enter"}] /\ \A u \in Threads \ {t} : pc'[u] = pc[u]
  BY <1>1, <1>2
<1>6. Typing'
  BY <1>1, <1>2, <1>4, <1>5 DEF Typing, TypeOK, boundVars
<1>7. Queued'
  <2>1. \A u \in Threads : pc[u] = "receive" => pc'[u] = "receive"
    BY <1>2, <1>5
  <2>2. ASSUME NEW o \in Unbound PROVE QueuedAt(o)'
    <3>1. waiting[o] \in Seq(Threads)
      BY <1>1
    <3> QED
      BY <1>1, <1>2, <2>1, <3>1, ElementOfSeq DEF Queued, QueuedAt
  <2> QED
    BY <1>1, <1>2, <2>1, <2>2 DEF Queued
<1>8. Reserved' /\ Ordered'
  BY <1>2, <1>5, NumbersKept
<1>9. ASSUME NEW o \in Unbound PROVE CountedAt(o)'
  <2>1. Served(o)' = Served(o) /\ Cardinality(Served(o)) \in Nat
    BY <1>2, ServedFinite DEF Served
  <2>2. CASE o # p
    BY <1>1, <1>2, <1>4, <2>1, <2>2 DEF CountedAt
  <2>3. CASE o = p
    BY <1>1, <1>2, <1>4, <2>1, <2>3 DEF CountedAt
  <2> QED
    BY <2>2, <2>3
<1> QED
  BY <1>6, <1>7, <1>8, <1>9 DEF MinimsgInv

LEMMA ReceiveWaitKeeps ==
    ASSUME MinimsgInv, NEW t \in Threads, NEW p \in Unbound, ReceiveWait(t, p)
    PROVE  MinimsgInv'
<1> DEFINE w == waiting[p]
<1>1. /\ Typing /\ Queued /\ \A o \in Unbound : CountedAt(o)
      /\ incoming_data \in [Unbound -> Seq(Packets)] /\ value \in [Unbound -> Nat]
      /\ waiting \in [Unbound -> Seq(Threads)] /\ granted \subseteq Threads /\ w \in Seq(Threads)
      /\ pc \in [Threads -> {"run", "receive", "bind", "enter"}]
      /\ port \in [Threads -> Unbound \cup {NULL}]
  BY DEF MinimsgInv, Typing, TypeOK
<1>2. /\ pc[t] = "run" /\ value[p] = 0 /\ t \notin granted
      /\ waiting' = [waiting EXCEPT ![p] = Append(w, t)] /\ value' = value /\ granted' = granted
      /\ pc' = [pc EXCEPT ![t] = "receive"] /\ port' = [port EXCEPT ![t] = p]
      /\ unbound_ports' = unbound_ports /\ incoming_data' = incoming_data /\ UNCHANGED boundVars
  BY DEF ReceiveWait, Ready!Wait
<1>3. /\ Append(w, t) \in Seq(Threads) /\ Len(Append(w, t)) = Len(w) + 1 /\ Len(w) \in Nat
      /\ Append(w, t)[Len(w) + 1] = t
      /\ \A i \in 1 .. Len(w) : Append(w, t)[i] = w[i] /\ w[i] \in Threads
  BY <1>1, AppendProperties, LenProperties, ElementOfSeq
<1>4. /\ waiting' \in [Unbound -> Seq(Threads)] /\ waiting'[p] = Append(w, t)
      /\ \A o \in Unbound \ {p} : waiting'[o] = waiting[o]
      /\ pc' \in [Threads -> {"run", "receive", "bind", "enter"}]
      /\ port' \in [Threads -> Unbound \cup {NULL}]
      /\ pc'[t] = "receive" /\ port'[t] = p
      /\ \A u \in Threads \ {t} : pc'[u] = pc[u] /\ port'[u] = port[u]
  BY <1>1, <1>2, <1>3
<1>5. Typing'
  BY <1>1, <1>2, <1>4 DEF Typing, TypeOK, boundVars
<1>6. \A i \in 1 .. Len(w) : w[i] # t
  BY <1>1, <1>2 DEF Queued, QueuedAt
<1>7. ASSUME NEW o \in Unbound PROVE QueuedAt(o)'
  <2>1. CASE o # p
    <3>1. waiting[o] \in Seq(Threads) /\ \A i \in 1 .. Len(waiting[o]) : waiting[o][i] \in Threads \ {t}
      BY <1>1, <1>2, ElementOfSeq DEF Queued, QueuedAt
    <3> QED
      BY <1>1, <1>2, <1>4, <2>1, <3>1 DEF Queued, QueuedAt
  <2>2. CASE o = p
    <3> DEFINE a == Append(w, t)
    <3> HIDE DEF a
    <3>1. /\ waiting'[o] = a /\ Len(a) = Len(w) + 1 /\ a[Len(w) + 1] = t
          /\ \A i \in 1 .. Len(w) : a[i] = w[i] /\ w[i] \in Threads \ {t}
      BY <1>3, <1>4, <1>6, <2>2 DEF a
    <3>2. ASSUME NEW i \in 1 .. Len(a)
          PROVE  /\ pc'[a[i]] = "receive" /\ port'[a[i]] = p /\ a[i] \notin granted'
                 /\ \A j \in 1 .. Len(a) : a[j] = a[i] => i = j
      <4>1. CASE i = Len(w) + 1
        BY <1>2, <1>3, <1>4, <3>1, <4>1
      <4>2. CASE i # Len(w) + 1
        <5>1. i \in 1 .. Len(w) /\ a[i] = w[i] /\ w[i] \in Threads \ {t}
          BY <1>3, <3>1, <4>2
        <5>2. /\ pc[w[i]] = "receive" /\ port[w[i]] = p /\ w[i] \notin granted
              /\ \A j \in 1 .. Len(w) : w[j] = w[i] => i = j
          BY <1>1, <5>1 DEF Queued, QueuedAt
        <5>3. \A j \in 1 .. Len(a) : a[j] = a[i] => i = j
          BY <1>3, <3>1, <5>1, <5>2
        <5> QED
          BY <1>2, <1>4, <5>1, <5>2, <5>3
      <4> QED
        BY <4>1, <4>2
    <3> QED
      BY <2>2, <3>1, <3>2 DEF QueuedAt
  <2> QED
    BY <2>1, <2>2
<1>8. Queued'
  BY <1>1, <1>2, <1>4, <1>7 DEF Queued
<1>9. Reserved' /\ Ordered'
  BY <1>2, <1>4, NumbersKept
<1>10. ASSUME NEW o \in Unbound PROVE CountedAt(o)'
  <2>1. Served(o)' = Served(o)
    BY <1>1, <1>2, <1>4 DEF Served
  <2>2. value[p] = 0 /\ value' = value /\ incoming_data' = incoming_data
    BY <1>2
  <2> QED
    BY <1>1, <1>4, <2>1, <2>2 DEF CountedAt
<1> QED
  BY <1>5, <1>8, <1>9, <1>10 DEF MinimsgInv

LEMMA ReceiveResumeKeeps ==
    ASSUME MinimsgInv, NEW t \in Threads, ReceiveResume(t)
    PROVE  MinimsgInv'
<1>1. /\ Typing /\ Queued /\ \A o \in Unbound : CountedAt(o)
      /\ incoming_data \in [Unbound -> Seq(Packets)] /\ value \in [Unbound -> Nat]
      /\ waiting \in [Unbound -> Seq(Threads)] /\ granted \subseteq Threads /\ IsFiniteSet(granted)
      /\ pc \in [Threads -> {"run", "receive", "bind", "enter"}]
      /\ port \in [Threads -> Unbound \cup {NULL}]
  BY DEF MinimsgInv, Typing, TypeOK
<1>2. t \in granted /\ pc[t] = "receive" /\ port[t] \in Unbound
  BY <1>1 DEF ReceiveResume, Ready!Return, Queued
<1>3. PICK p \in Unbound : p = port[t]
  BY <1>2
<1> DEFINE q == incoming_data[p]
<1>4. /\ q # <<>> /\ incoming_data' = [incoming_data EXCEPT ![p] = Tail(q)]
      /\ granted' = granted \ {t} /\ value' = value /\ waiting' = waiting
      /\ pc' = [pc EXCEPT ![t] = "bind"] /\ port' = [port EXCEPT ![t] = NULL]
      /\ unbound_ports' = unbound_ports /\ UNCHANGED boundVars
  BY <1>3 DEF ReceiveResume, Ready!Return, queue_dequeue
<1>5. q \in Seq(Packets) /\ Tail(q) \in Seq(Packets) /\ Len(Tail(q)) = Len(q) - 1 /\ Len(q) \in Nat
  BY <1>1, <1>4, HeadTailProperties, LenProperties
<1> HIDE DEF q
<1>6. /\ incoming_data' \in [Unbound -> Seq(Packets)]
      /\ Len(incoming_data'[p]) = Len(incoming_data[p]) - 1 /\ Len(incoming_data[p]) \in Nat
      /\ \A o \in Unbound \ {p} : incoming_data'[o] = incoming_data[o]
  BY <1>1, <1>4, <1>5 DEF q
<1>7. /\ pc' \in [Threads -> {"run", "receive", "bind", "enter"}]
      /\ port' \in [Threads -> Unbound \cup {NULL}]
      /\ \A u \in Threads \ {t} : pc'[u] = pc[u] /\ port'[u] = port[u]
  BY <1>1, <1>4
<1>8. Typing'
  BY <1>1, <1>4, <1>6, <1>7, FS_RemoveElement DEF Typing, TypeOK, boundVars
<1>9. Queued'
  <2>1. ASSUME NEW o \in Unbound PROVE QueuedAt(o)'
    <3>1. waiting[o] \in Seq(Threads) /\ \A i \in 1 .. Len(waiting[o]) : waiting[o][i] \in Threads \ {t}
      BY <1>1, <1>2, ElementOfSeq DEF Queued, QueuedAt
    <3> QED
      BY <1>1, <1>4, <1>7, <3>1 DEF Queued, QueuedAt
  <2> QED
    BY <1>1, <1>4, <1>7, <2>1 DEF Queued
<1>10. Reserved' /\ Ordered'
  BY <1>2, <1>4, <1>7, NumbersKept
<1>11. ASSUME NEW o \in Unbound PROVE CountedAt(o)'
  <2>1. IsFiniteSet(Served(o)) /\ Cardinality(Served(o)) \in Nat
    BY ServedFinite
  <2>2. CASE o # p
    <3>1. Served(o)' = Served(o)
      BY <1>1, <1>3, <1>4, <1>7, <2>2 DEF Served
    <3> QED
      BY <1>1, <1>4, <1>6, <2>1, <2>2, <3>1 DEF CountedAt
  <2>3. CASE o = p
    <3>1. Served(o)' = Served(o) \ {t} /\ t \in Served(o)
      BY <1>1, <1>2, <1>3, <1>4, <1>7, <2>3 DEF Served
    <3>2. Cardinality(Served(o)') = Cardinality(Served(o)) - 1
      BY <2>1, <3>1, FS_RemoveElement
    <3> QED
      BY <1>1, <1>4, <1>6, <2>1, <2>3, <3>2 DEF CountedAt
  <2> QED
    BY <2>2, <2>3
<1> QED
  BY <1>8, <1>9, <1>10, <1>11 DEF MinimsgInv

-----------------------------------------------------------------------------
(* Bound ports.                                                             *)

LEMMA ChooseKeeps ==
    ASSUME MinimsgInv, NEW t \in Threads, NEW n \in Numbers, Choose(t, n)
    PROVE  MinimsgInv'
<1>1. /\ TypeOK /\ Reserved /\ Typing
      /\ pc \in [Threads -> {"run", "receive", "bind", "enter"}]
      /\ chosen \in [Threads -> Numbers \cup {NULL}]
  BY DEF MinimsgInv, Typing, TypeOK
<1>2. /\ pc[t] \in {"run", "bind"} /\ bound_ports[n] = NULL /\ next_bound' = (n + 1) % NumBound
      /\ chosen' = [chosen EXCEPT ![t] = n] /\ pc' = [pc EXCEPT ![t] = "enter"] /\ last' = n
      /\ raced' = (raced \/ \E u \in Threads : pc[u] = "enter" /\ chosen[u] = n)
      /\ bound_ports' = bound_ports /\ port_number' = port_number
      /\ UNCHANGED <<unbound_ports, incoming_data, port>> /\ UNCHANGED semaVars
  BY DEF Choose, nextBound
<1>3. /\ chosen' \in [Threads -> Numbers \cup {NULL}]
      /\ pc' \in [Threads -> {"run", "receive", "bind", "enter"}]
      /\ chosen'[t] = n /\ pc'[t] = "enter"
      /\ \A u \in Threads \ {t} : chosen'[u] = chosen[u] /\ pc'[u] = pc[u]
  BY <1>1, <1>2
<1>4. next_bound' \in Numbers
  <2>1. n + 1 \in Int
    BY DEF Numbers
  <2> QED
    BY <1>2, <2>1, RemainderRange
<1>5. Typing'
  BY <1>1, <1>2, <1>3, <1>4 DEF Typing, TypeOK, semaVars
<1>6. Queued' /\ \A p \in Unbound : CountedAt(p)'
  BY <1>2, <1>3, QueuesKept
<1>7. Reserved'
  <2>1. ASSUME NEW u \in Threads, pc'[u] = "enter" PROVE chosen'[u] \in Numbers
    BY <1>1, <1>3, <2>1 DEF Reserved
  <2>2. CASE raced \/ \E u \in Threads : pc[u] = "enter" /\ chosen[u] = n
    BY <1>2, <2>1, <2>2 DEF Reserved
  <2>3. CASE ~raced /\ \A u \in Threads : ~(pc[u] = "enter" /\ chosen[u] = n)
    <3>1. \A b \in Live' : bound_ports'[port_number'[b]] = b
      BY <1>1, <1>2, <2>3 DEF Reserved, Live
    <3>2. \A u, v \in Threads :
              pc'[u] = "enter" /\ pc'[v] = "enter" /\ chosen'[u] = chosen'[v] => u = v
      BY <1>1, <1>3, <2>3 DEF Reserved
    <3>3. \A u \in Threads : pc'[u] = "enter" => bound_ports'[chosen'[u]] = NULL
      BY <1>1, <1>2, <1>3, <2>3 DEF Reserved
    <3> QED
      BY <2>1, <3>1, <3>2, <3>3 DEF Reserved
  <2> QED
    BY <2>2, <2>3
<1>8. Ordered'
  BY <1>2, MinimsgAssumption DEF Ordered, Numbers
<1> QED
  BY <1>5, <1>6, <1>7, <1>8 DEF MinimsgInv

LEMMA ChooseNoneKeeps ==
    ASSUME MinimsgInv, NEW t \in Threads, ChooseNone(t)
    PROVE  MinimsgInv'
<1>1. Typing /\ pc \in [Threads -> {"run", "receive", "bind", "enter"}]
  BY DEF MinimsgInv, Typing, TypeOK
<1>2. /\ pc[t] = "bind" /\ pc' = [pc EXCEPT ![t] = "run"]
      /\ UNCHANGED <<unbound_ports, incoming_data, port>> /\ UNCHANGED semaVars /\ UNCHANGED boundVars
  BY DEF ChooseNone
<1>3. /\ pc' \in [Threads -> {"run", "receive", "bind", "enter"}]
      /\ pc'[t] = "run" /\ \A u \in Threads \ {t} : pc'[u] = pc[u]
  BY <1>1, <1>2
<1>4. Typing'
  BY <1>1, <1>2, <1>3 DEF Typing, TypeOK, semaVars, boundVars
<1>5. Queued' /\ \A p \in Unbound : CountedAt(p)'
  BY <1>2, <1>3, QueuesKept
<1>6. Reserved' /\ Ordered'
  BY <1>2, <1>3, NumbersKept
<1> QED
  BY <1>4, <1>5, <1>6 DEF MinimsgInv

LEMMA EnterKeeps ==
    ASSUME MinimsgInv, NEW t \in Threads, NEW b \in BoundPorts, Enter(t, b)
    PROVE  MinimsgInv'
<1>1. /\ Typing /\ Reserved /\ Ordered
      /\ pc \in [Threads -> {"run", "receive", "bind", "enter"}]
      /\ chosen \in [Threads -> Numbers \cup {NULL}]
      /\ bound_ports \in [Numbers -> BoundPorts \cup {NULL}]
      /\ port_number \in [BoundPorts -> Numbers \cup {NULL}]
  BY DEF MinimsgInv, Typing, TypeOK
<1>2. /\ pc[t] = "enter" /\ chosen[t] \in Numbers
  BY <1>1 DEF Enter, Reserved
<1>3. PICK n \in Numbers : n = chosen[t]
  BY <1>2
<1>4. /\ port_number[b] = NULL /\ port_number' = [port_number EXCEPT ![b] = n]
      /\ bound_ports' = [bound_ports EXCEPT ![n] = b]
      /\ chosen' = [chosen EXCEPT ![t] = NULL] /\ pc' = [pc EXCEPT ![t] = "run"]
      /\ UNCHANGED <<unbound_ports, incoming_data, port, next_bound, last, raced>> /\ UNCHANGED semaVars
  BY <1>3 DEF Enter
<1>5. NULL \notin Numbers /\ NULL # b
  BY MinimsgAssumption DEF Numbers
<1>6. /\ chosen' \in [Threads -> Numbers \cup {NULL}]
      /\ pc' \in [Threads -> {"run", "receive", "bind", "enter"}]
      /\ pc'[t] = "run" /\ \A u \in Threads \ {t} : chosen'[u] = chosen[u] /\ pc'[u] = pc[u]
      /\ bound_ports' \in [Numbers -> BoundPorts \cup {NULL}]
      /\ port_number' \in [BoundPorts -> Numbers \cup {NULL}]
      /\ bound_ports'[n] = b /\ \A m \in Numbers \ {n} : bound_ports'[m] = bound_ports[m]
      /\ port_number'[b] = n /\ \A c \in BoundPorts \ {b} : port_number'[c] = port_number[c]
  BY <1>1, <1>4
<1>7. Typing'
  BY <1>1, <1>4, <1>6 DEF Typing, TypeOK, semaVars
<1>8. Queued' /\ \A p \in Unbound : CountedAt(p)'
  BY <1>2, <1>4, <1>6, QueuesKept
<1>9. Reserved'
  <2>1. \A u \in Threads : pc'[u] = "enter" => u # t /\ pc[u] = "enter" /\ chosen'[u] = chosen[u]
    BY <1>6
  <2>2. CASE raced
    BY <1>1, <1>4, <2>1, <2>2 DEF Reserved
  <2>3. CASE ~raced
    <3>1. \A c \in Live \ {b} : port_number[c] \in Numbers /\ bound_ports[port_number[c]] = c
      BY <1>1, <2>3 DEF Reserved, Live
    <3>2. \A c \in Live \ {b} : port_number[c] # n
      BY <1>1, <1>2, <1>3, <1>5, <2>3, <3>1, MinimsgAssumption DEF Reserved, Live
    <3>3. \A c \in Live' : bound_ports'[port_number'[c]] = c
      BY <1>6, <3>1, <3>2 DEF Live
    <3>4. \A u \in Threads : pc'[u] = "enter" => chosen[u] # n
      BY <1>1, <1>2, <1>3, <2>1, <2>3 DEF Reserved
    <3> QED
      BY <1>1, <1>6, <2>1, <2>3, <3>3, <3>4 DEF Reserved
  <2> QED
    BY <2>2, <2>3
<1>10. Ordered'
  BY <1>1, <1>4 DEF Ordered
<1> QED
  BY <1>7, <1>8, <1>9, <1>10 DEF MinimsgInv

LEMMA DestroyBoundKeeps ==
    ASSUME MinimsgInv, NEW b \in BoundPorts, DestroyBound(b)
    PROVE  MinimsgInv'
<1>1. /\ Typing /\ Reserved /\ Ordered
      /\ bound_ports \in [Numbers -> BoundPorts \cup {NULL}]
      /\ port_number \in [BoundPorts -> Numbers \cup {NULL}]
  BY DEF MinimsgInv, Typing, TypeOK
<1>2. PICK n \in Numbers : n = port_number[b]
  BY <1>1 DEF DestroyBound
<1>3. /\ bound_ports' = [bound_ports EXCEPT ![n] = NULL]
      /\ port_number' = [port_number EXCEPT ![b] = NULL]
      /\ UNCHANGED <<unbound_ports, incoming_data, pc, port, next_bound, chosen, last, raced>>
      /\ UNCHANGED semaVars
  BY <1>2 DEF DestroyBound
<1>4. NULL \notin Numbers
  BY MinimsgAssumption DEF Numbers
<1>5. /\ bound_ports' \in [Numbers -> BoundPorts \cup {NULL}]
      /\ port_number' \in [BoundPorts -> Numbers \cup {NULL}]
      /\ bound_ports'[n] = NULL /\ \A m \in Numbers \ {n} : bound_ports'[m] = bound_ports[m]
      /\ port_number'[b] = NULL /\ \A c \in BoundPorts \ {b} : port_number'[c] = port_number[c]
  BY <1>1, <1>3
<1>6. Typing'
  BY <1>1, <1>3, <1>5 DEF Typing, TypeOK, semaVars
<1>7. Queued' /\ \A p \in Unbound : CountedAt(p)'
  BY <1>3, QueuesKept
<1>8. Reserved'
  <2>1. CASE raced
    BY <1>1, <1>3, <2>1 DEF Reserved
  <2>2. CASE ~raced
    <3>1. /\ bound_ports[n] = b
          /\ \A c \in Live : port_number[c] \in Numbers /\ bound_ports[port_number[c]] = c
      BY <1>1, <1>2, <1>4, <2>2 DEF Reserved, Live
    <3>2. \A c \in Live' : c # b /\ c \in Live /\ port_number'[c] = port_number[c] /\ port_number[c] # n
      BY <1>5, <3>1 DEF Live
    <3>3. \A c \in Live' : bound_ports'[port_number'[c]] = c
      BY <1>5, <3>1, <3>2
    <3> QED
      BY <1>1, <1>3, <1>5, <2>2, <3>3 DEF Reserved
  <2> QED
    BY <2>1, <2>2
<1>9. Ordered'
  BY <1>1, <1>3 DEF Ordered
<1> QED
  BY <1>6, <1>7, <1>8, <1>9 DEF MinimsgInv

-----------------------------------------------------------------------------
(* The invariant.                                                           *)

LEMMA MinimsgInvInit == Init => MinimsgInv
<1> SUFFICES ASSUME Init PROVE MinimsgInv
  OBVIOUS
<1>1. /\ value = [p \in Unbound |-> 0] /\ waiting = [p \in Unbound |-> <<>>] /\ granted = {}
      /\ incoming_data = [p \in Unbound |-> <<>>] /\ pc = [t \in Threads |-> "run"]
      /\ last = NULL /\ next_bound = 0
  BY DEF Init, Ready!Init
<1>2. 0 \in Numbers
  BY MinimsgAssumption DEF Numbers
<1>3. Typing
  <2>1. TypeOK
    BY <1>2 DEF Init, TypeOK
  <2> QED
    BY <1>1, <2>1, FS_EmptySet DEF Typing
<1>4. Queued
  BY <1>1 DEF Queued, QueuedAt
<1>5. ASSUME NEW p \in Unbound PROVE CountedAt(p)
  <2>1. Served(p) = {}
    BY <1>1 DEF Served
  <2> QED
    BY <1>1, <2>1, FS_EmptySet DEF CountedAt
<1>6. Reserved
  BY <1>1 DEF Init, Reserved, Live
<1>7. Ordered
  BY <1>1 DEF Ordered
<1> QED
  BY <1>3, <1>4, <1>5, <1>6, <1>7 DEF MinimsgInv

LEMMA MinimsgInvStep == MinimsgInv /\ [Next]_vars => MinimsgInv'
<1> SUFFICES ASSUME MinimsgInv, [Next]_vars PROVE MinimsgInv'
  OBVIOUS
<1>1. ASSUME NEW p \in Unbound, miniport_create_unbound(p) \/ DestroyUnbound(p) PROVE MinimsgInv'
  BY <1>1, CreateKeeps, DestroyKeeps
<1>2. ASSUME NEW p \in Unbound, NEW m \in Packets, Arrive(p, m) PROVE MinimsgInv'
  BY <1>2, ArriveKeeps
<1>3. ASSUME NEW t \in Threads, NEW p \in Unbound, ReceiveNow(t, p) \/ ReceiveWait(t, p) PROVE MinimsgInv'
  BY <1>3, ReceiveNowKeeps, ReceiveWaitKeeps
<1>4. ASSUME NEW t \in Threads, ReceiveResume(t) \/ ChooseNone(t) PROVE MinimsgInv'
  BY <1>4, ReceiveResumeKeeps, ChooseNoneKeeps
<1>5. ASSUME NEW t \in Threads, NEW n \in Numbers, Choose(t, n) PROVE MinimsgInv'
  BY <1>5, ChooseKeeps
<1>6. ASSUME NEW t \in Threads, NEW b \in BoundPorts, Enter(t, b) PROVE MinimsgInv'
  BY <1>6, EnterKeeps
<1>7. ASSUME NEW b \in BoundPorts, DestroyBound(b) PROVE MinimsgInv'
  BY <1>7, DestroyBoundKeeps
<1>8. CASE UNCHANGED vars
  <2>1. Typing'
    BY <1>8 DEF vars, MinimsgInv, Typing, TypeOK
  <2>2. Queued' /\ \A p \in Unbound : CountedAt(p)'
    BY <1>8, QueuesKept DEF vars, semaVars
  <2>3. Reserved' /\ Ordered'
    BY <1>8, NumbersKept DEF vars, boundVars
  <2> QED
    BY <2>1, <2>2, <2>3 DEF MinimsgInv
<1> QED
  BY <1>1, <1>2, <1>3, <1>4, <1>5, <1>6, <1>7, <1>8 DEF Next

LEMMA MinimsgInvariant == Spec => []MinimsgInv
  BY MinimsgInvInit, MinimsgInvStep, PTL DEF Spec

-----------------------------------------------------------------------------
(* The theorems.                                                            *)

(* The state of the miniports stays well typed: in particular next_bound    *)
(* wraps around before it leaves the table.                                 *)
THEOREM MinimsgTyping == Spec => []TypeOK
<1>1. MinimsgInv => TypeOK
  BY DEF MinimsgInv, Typing
<1> QED
  BY <1>1, MinimsgInvariant, PTL

(* Each queued packet is free for the next receiver or meant for one that V *)
(* has started, and none lies beside a blocked receiver: minimsg_receive    *)
(* never dequeues from an empty queue, whatever the order of the receivers, *)
(* the packets and the destruction of ports nobody receives on.             *)
THEOREM PacketsAreCounted == Spec => []PacketsMatchReceivers
<1>1. MinimsgInv => PacketsMatchReceivers
  BY DEF MinimsgInv, CountedAt, PacketsMatchReceivers
<1> QED
  BY <1>1, MinimsgInvariant, PTL

(* Bound ports have different numbers and are found in the table, unless    *)
(* two threads were ever given one number between nextBound and the table.  *)
THEOREM PortNumbersDistinct == Spec => []PortNumbersDistinctUnlessRaced
<1>1. MinimsgInv => PortNumbersDistinctUnlessRaced
  BY DEF MinimsgInv, Reserved, PortNumbersDistinctUnlessRaced
<1> QED
  BY <1>1, MinimsgInvariant, PTL

(* nextBound gives out a number that is not above the one before only when  *)
(* all those above are in use.                                              *)
THEOREM NumbersIncrease == Spec => IncrementalUntilOverflow
<1>1. MinimsgInv =>
        \A t \in Threads, n \in Numbers :
            Choose(t, n) /\ last # NULL /\ n <= last
                => \A m \in Numbers : m > last => bound_ports[m] # NULL
  <2> SUFFICES ASSUME MinimsgInv, NEW t \in Threads, NEW n \in Numbers,
                      Choose(t, n), last # NULL, n <= last,
                      NEW m \in Numbers, m > last, bound_ports[m] = NULL
               PROVE  FALSE
    OBVIOUS
  <2>1. last \in Numbers /\ next_bound = (last + 1) % NumBound
    BY DEF MinimsgInv, Typing, Ordered
  <2>2. PICK l \in Numbers : l = last
    BY <2>1
  <2>3. (n - next_bound) % NumBound <= (m - next_bound) % NumBound
    BY DEF Choose, nextBound
  <2>4. (m - next_bound) % NumBound < (n - next_bound) % NumBound
    <3>1. m > l /\ n <= l
      BY <2>2
    <3>2. (m - ((l + 1) % NumBound)) % NumBound < (n - ((l + 1) % NumBound)) % NumBound
      BY <3>1, AboveFirst
    <3>3. next_bound = (l + 1) % NumBound
      BY <2>1, <2>2
    <3> QED
      BY <3>2, <3>3, Zenon
  <2>5. (m - next_bound) % NumBound \in Int /\ (n - next_bound) % NumBound \in Int
    <3>1. next_bound \in Int /\ m \in Int /\ n \in Int
      BY DEF MinimsgInv, Typing, TypeOK, Numbers
    <3>2. m - next_bound \in Int /\ n - next_bound \in Int
      BY <3>1
    <3> QED
      BY <3>2, RemainderRange DEF Numbers
  <2> QED
    BY <2>3, <2>4, <2>5
<1> QED
  BY <1>1, MinimsgInvariant, PTL DEF Spec, IncrementalUntilOverflow

=============================================================================
