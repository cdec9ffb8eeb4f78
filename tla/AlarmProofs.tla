----------------------------- MODULE AlarmProofs -----------------------------
(***************************************************************************)
(* The safety properties of the alarms, for every number of sleepers and   *)
(* timers and all delays.                                                  *)
(*                                                                         *)
(* The invariant says of the queue that it is sorted and holds a client    *)
(* once (Ordered), and of the clients where their alarm is (Placed).       *)
(* Sorting is what makes the number of expired alarms, which the signals   *)
(* are compared with, a length of the queue's head: an insertion does not  *)
(* change it, a dequeue takes one away, and a tick that signals n alarms   *)
(* adds n at least, and no more than n if none was expired before it.      *)
(***************************************************************************)
EXTENDS Alarm, SequenceTheorems, FiniteSetTheorems, WellFoundedInduction, TLAPS

Alarms == [client : Clients, left : Int]

(* A queue of alarms in the order of the ticks left.                        *)
Sorted(q) == \A i, j \in 1 .. Len(q) : i < j => q[i].left <= q[j].left

Once(q) == \A i, j \in 1 .. Len(q) : q[i].client = q[j].client => i = j

Holds(q, c) == \E i \in 1 .. Len(q) : q[i].client = c

(* Just the first n alarms of the queue have expired.                       *)
FirstExpired(q, n) ==
    n \in 0 .. Len(q) /\ \A i \in 1 .. Len(q) : q[i].left <= 0 <=> i <= n

Ordered == Sorted(alarm_queue) /\ Once(alarm_queue)

(* An alarm that is queued is its client's; one that is being run is not    *)
(* queued as well, but for a timer that was deregistered and set again.     *)
Placed ==
    /\ \A c \in Clients : Holds(alarm_queue, c) => c \in waiting /\ (spawn_alarm = c => cancelled)
    /\ cancelled => spawn_alarm \in Timers
    /\ ~cancelled /\ spawn_alarm # Nobody => spawn_alarm \in waiting
    /\ \A c \in Sleepers : c \in waiting <=> Holds(alarm_queue, c) \/ spawn_alarm = c

AlarmInv == TypeOK /\ Ordered /\ Placed /\ SignalsHaveAlarms

-----------------------------------------------------------------------------
(* Numbers and sequences.                                                   *)

LEMMA LeastNumber ==
    ASSUME NEW S \in SUBSET Nat, S # {}
    PROVE  \E m \in S : \A n \in S : m <= n
<1>1. \E m \in S : \A n \in S : ~ (<<n, m>> \in OpToRel(<, Nat))
  BY NatLessThanWellFounded, WFMin
<1>2. PICK m \in S : \A n \in S : ~ (<<n, m>> \in OpToRel(<, Nat))
  BY <1>1
<1>3. ASSUME NEW n \in S, n < m PROVE <<n, m>> \in OpToRel(<, Nat)
  BY <1>3 DEF OpToRel
<1>4. \A n \in S : ~ (n < m)
  BY <1>2, <1>3, Zenon
<1> QED
  BY <1>4

LEMMA InsertedAt ==
    ASSUME NEW S, NEW s \in Seq(S), NEW e \in S, NEW n \in 1 .. Len(s) + 1
    PROVE  /\ InsertAt(s, n, e) \in Seq(S) /\ Len(InsertAt(s, n, e)) = Len(s) + 1
           /\ \A i \in 1 .. Len(s) + 1 :
                 InsertAt(s, n, e)[i] = IF i < n THEN s[i] ELSE IF i = n THEN e ELSE s[i - 1]
<1> DEFINE l == SubSeq(s, 1, n - 1)
           r == SubSeq(s, n, Len(s))
<1>1. Len(s) \in Nat /\ n \in Int /\ \A i \in 1 .. Len(s) : s[i] \in S
  BY LenProperties, ElementOfSeq
<1>2. /\ l \in Seq(S) /\ Len(l) = n - 1 /\ \A i \in 1 .. n - 1 : l[i] = s[i]
  <2>1. 1 \in Int /\ n - 1 \in Int /\ \A i \in 1 .. n - 1 : s[i] \in S
    BY <1>1
  <2>2. /\ l \in Seq(S) /\ Len(l) = IF 1 <= n - 1 THEN n - 1 - 1 + 1 ELSE 0
        /\ \A i \in 1 .. n - 1 - 1 + 1 : l[i] = s[1 + i - 1]
    BY <2>1, SubSeqProperties
  <2> HIDE DEF l
  <2> QED
    BY <1>1, <2>2
<1>3. /\ r \in Seq(S) /\ Len(r) = Len(s) - n + 1
      /\ \A i \in 1 .. Len(s) - n + 1 : r[i] = s[n + i - 1]
  <2>1. Len(s) \in Int /\ n \in Int /\ \A i \in n .. Len(s) : s[i] \in S
    BY <1>1
  <2>2. /\ r \in Seq(S) /\ Len(r) = IF n <= Len(s) THEN Len(s) - n + 1 ELSE 0
        /\ \A i \in 1 .. Len(s) - n + 1 : r[i] = s[n + i - 1]
    BY <2>1, SubSeqProperties
  <2> HIDE DEF r
  <2> QED
    BY <1>1, <2>2
<1> HIDE DEF l, r
<1>4. <<e>> \in Seq(S) /\ Len(<<e>>) = 1 /\ <<e>>[1] = e
  OBVIOUS
<1> DEFINE m == l \o <<e>>
<1>5. /\ m \in Seq(S) /\ Len(m) = n
      /\ \A i \in 1 .. n : m[i] = IF i < n THEN s[i] ELSE e
  <2>1. /\ m \in Seq(S) /\ Len(m) = Len(l) + 1
        /\ \A i \in 1 .. Len(l) + 1 : m[i] = IF i <= Len(l) THEN l[i] ELSE <<e>>[i - Len(l)]
    BY <1>2, <1>4, ConcatProperties
  <2> HIDE DEF m
  <2>2. \A i \in 1 .. n : m[i] = IF i < n THEN s[i] ELSE e
    BY <1>1, <1>2, <1>4, <2>1
  <2> QED
    BY <1>1, <1>2, <2>1, <2>2
<1> HIDE DEF m
<1>6. InsertAt(s, n, e) = m \o r
  BY DEF InsertAt, l, m, r
<1>7. /\ m \o r \in Seq(S) /\ Len(m \o r) = Len(m) + Len(r)
      /\ \A i \in 1 .. Len(m) + Len(r) : (m \o r)[i] = IF i <= Len(m) THEN m[i] ELSE r[i - Len(m)]
  BY <1>3, <1>5, ConcatProperties
<1> QED
  BY <1>1, <1>3, <1>5, <1>6, <1>7

LEMMA RemovedAt ==
    ASSUME NEW S, NEW s \in Seq(S), NEW n \in 1 .. Len(s)
    PROVE  /\ RemoveAt(s, n) \in Seq(S) /\ Len(RemoveAt(s, n)) = Len(s) - 1
           /\ \A i \in 1 .. Len(s) - 1 : RemoveAt(s, n)[i] = IF i < n THEN s[i] ELSE s[i + 1]
<1> DEFINE l == SubSeq(s, 1, n - 1)
           r == SubSeq(s, n + 1, Len(s))
<1>1. Len(s) \in Nat /\ n \in Int /\ \A i \in 1 .. Len(s) : s[i] \in S
  BY LenProperties, ElementOfSeq
<1>2. /\ l \in Seq(S) /\ Len(l) = n - 1 /\ \A i \in 1 .. n - 1 : l[i] = s[i]
  <2>1. 1 \in Int /\ n - 1 \in Int /\ \A i \in 1 .. n - 1 : s[i] \in S
    BY <1>1
  <2>2. /\ l \in Seq(S) /\ Len(l) = IF 1 <= n - 1 THEN n - 1 - 1 + 1 ELSE 0
        /\ \A i \in 1 .. n - 1 - 1 + 1 : l[i] = s[1 + i - 1]
    BY <2>1, SubSeqProperties
  <2> HIDE DEF l
  <2> QED
    BY <1>1, <2>2
<1>3. /\ r \in Seq(S) /\ Len(r) = Len(s) - n
      /\ \A i \in 1 .. Len(s) - n : r[i] = s[n + i]
  <2>1. Len(s) \in Int /\ n + 1 \in Int /\ \A i \in n + 1 .. Len(s) : s[i] \in S
    BY <1>1
  <2>2. /\ r \in Seq(S) /\ Len(r) = IF n + 1 <= Len(s) THEN Len(s) - (n + 1) + 1 ELSE 0
        /\ \A i \in 1 .. Len(s) - (n + 1) + 1 : r[i] = s[n + 1 + i - 1]
    BY <2>1, SubSeqProperties
  <2> HIDE DEF r
  <2> QED
    BY <1>1, <2>2
<1> HIDE DEF l, r
<1>4. RemoveAt(s, n) = l \o r
  BY DEF RemoveAt, l, r
<1>5. /\ l \o r \in Seq(S) /\ Len(l \o r) = Len(l) + Len(r)
      /\ \A i \in 1 .. Len(l) + Len(r) : (l \o r)[i] = IF i <= Len(l) THEN l[i] ELSE r[i - Len(l)]
  BY <1>2, <1>3, ConcatProperties
<1> QED
  BY <1>1, <1>2, <1>3, <1>4, <1>5

-----------------------------------------------------------------------------
(* What the operations do to a sorted queue.                                *)

LEMMA QueueTypes ==
    ASSUME NEW q \in Seq(Alarms)
    PROVE  /\ Len(q) \in Nat
           /\ \A i \in 1 .. Len(q) : q[i] \in Alarms /\ q[i].left \in Int /\ q[i].client \in Clients
<1>1. Len(q) \in Nat /\ \A i \in 1 .. Len(q) : q[i] \in Alarms
  BY LenProperties, ElementOfSeq
<1> QED
  BY <1>1 DEF Alarms

LEMMA SomeFirstExpired ==
    ASSUME NEW q \in Seq(Alarms), Sorted(q)
    PROVE  \E n \in 0 .. Len(q) : FirstExpired(q, n)
<1> DEFINE S == {i \in 1 .. Len(q) + 1 : i <= Len(q) => q[i].left > 0}
<1>1. Len(q) \in Nat /\ \A i \in 1 .. Len(q) : q[i].left \in Int
  BY QueueTypes
<1>2. S \in SUBSET Nat /\ Len(q) + 1 \in S
  BY <1>1
<1>3. PICK m \in S : \A i \in S : m <= i
  BY <1>2, LeastNumber
<1>4. m \in 1 .. Len(q) + 1 /\ (m <= Len(q) => q[m].left > 0)
  BY <1>3
<1>5. ASSUME NEW i \in 1 .. Len(q) PROVE q[i].left <= 0 <=> i <= m - 1
  <2>1. CASE i < m
    <3>1. i \notin S
      BY <1>1, <1>3, <1>4, <2>1
    <3> QED
      BY <1>1, <1>4, <2>1, <3>1
  <2>2. CASE i >= m
    <3>1. m \in 1 .. Len(q) /\ q[m].left > 0
      BY <1>1, <1>4, <2>2
    <3>2. q[m].left <= q[i].left
      BY <1>1, <2>2, <3>1 DEF Sorted
    <3> QED
      BY <1>1, <1>4, <2>2, <3>1, <3>2
  <2> QED
    BY <1>1, <1>4, <2>1, <2>2
<1>6. m - 1 \in 0 .. Len(q) /\ FirstExpired(q, m - 1)
  BY <1>1, <1>4, <1>5 DEF FirstExpired
<1> QED
  BY <1>6

LEMMA ExpiredCount ==
    ASSUME NEW q \in Seq(Alarms), NEW n, FirstExpired(q, n)
    PROVE  LET expired == {i \in DOMAIN q : q[i].left <= 0}
           IN IsFiniteSet(expired) /\ Cardinality(expired) = n
<1>1. n \in Nat /\ Len(q) \in Nat /\ n <= Len(q) /\ DOMAIN q = 1 .. Len(q)
  BY LenProperties DEF FirstExpired
<1>2. {i \in DOMAIN q : q[i].left <= 0} = 1 .. n
  BY <1>1 DEF FirstExpired
<1>3. IsFiniteSet(1 .. n) /\ Cardinality(1 .. n) = n
  BY <1>1, FS_Interval
<1> QED
  BY <1>2, <1>3

LEMMA Inserted ==
    ASSUME NEW q \in Seq(Alarms), Sorted(q), NEW a \in Alarms
    PROVE  \E n \in 1 .. Len(q) + 1 :
              /\ InsertSorted(q, a) = InsertAt(q, n, a)
              /\ \A i \in 1 .. n - 1 : q[i].left < a.left
              /\ n <= Len(q) => q[n].left >= a.left
<1> DEFINE S == {i \in 1 .. Len(q) + 1 : i <= Len(q) => q[i].left >= a.left}
           Place(n) == /\ \A i \in 1 .. n - 1 : q[i].left < a.left
                       /\ n <= Len(q) => q[n].left >= a.left
<1>1. Len(q) \in Nat /\ a.left \in Int /\ \A i \in 1 .. Len(q) : q[i].left \in Int
  BY QueueTypes DEF Alarms
<1>2. S \in SUBSET Nat /\ Len(q) + 1 \in S
  BY <1>1
<1>3. PICK m \in S : \A i \in S : m <= i
  BY <1>2, LeastNumber
<1>4. m \in 1 .. Len(q) + 1 /\ (m <= Len(q) => q[m].left >= a.left)
  BY <1>3
<1>5. ASSUME NEW i \in 1 .. m - 1 PROVE q[i].left < a.left
  <2>1. i \in 1 .. Len(q) /\ i \notin S
    BY <1>1, <1>3, <1>4
  <2> QED
    BY <1>1, <2>1
<1>6. \E n \in 1 .. Len(q) + 1 : Place(n)
  BY <1>4, <1>5
<1>7. InsertSorted(q, a) = InsertAt(q, CHOOSE n \in 1 .. Len(q) + 1 : Place(n), a)
  BY DEF InsertSorted
<1> HIDE DEF Place
<1>8. PICK n \in 1 .. Len(q) + 1 : n = CHOOSE k \in 1 .. Len(q) + 1 : Place(k)
  BY <1>6
<1>9. Place(n)
  BY <1>6, <1>8
<1> QED
  BY <1>7, <1>8, <1>9 DEF Place

LEMMA InsertKeeps ==
    ASSUME NEW q \in Seq(Alarms), Sorted(q), NEW a \in Alarms, NEW p, p = InsertSorted(q, a)
    PROVE  /\ p \in Seq(Alarms) /\ Sorted(p)
           /\ Once(q) /\ ~Holds(q, a.client) => Once(p)
           /\ \A c : Holds(p, c) <=> Holds(q, c) \/ c = a.client
           /\ \A e : FirstExpired(q, e) /\ a.left > 0 => FirstExpired(p, e)
<1>1. PICK n \in 1 .. Len(q) + 1 :
          /\ p = InsertAt(q, n, a)
          /\ \A i \in 1 .. n - 1 : q[i].left < a.left
          /\ n <= Len(q) => q[n].left >= a.left
  BY Inserted
<1>2. Len(q) \in Nat /\ a.left \in Int /\ \A i \in 1 .. Len(q) : q[i].left \in Int
  BY QueueTypes DEF Alarms
<1>3. /\ p \in Seq(Alarms) /\ Len(p) = Len(q) + 1
      /\ \A i \in 1 .. Len(q) + 1 : p[i] = IF i < n THEN q[i] ELSE IF i = n THEN a ELSE q[i - 1]
  <2>1. p = InsertAt(q, n, a)
    BY <1>1
  <2>2. /\ InsertAt(q, n, a) \in Seq(Alarms) /\ Len(InsertAt(q, n, a)) = Len(q) + 1
        /\ \A i \in 1 .. Len(q) + 1 :
              InsertAt(q, n, a)[i] = IF i < n THEN q[i] ELSE IF i = n THEN a ELSE q[i - 1]
    BY InsertedAt
  <2> QED
    BY <2>1, <2>2, Zenon
<1>4. \A i \in n .. Len(q) : q[i].left >= a.left
  BY <1>1, <1>2 DEF Sorted
<1>5. Sorted(p)
  <2> SUFFICES ASSUME NEW i \in 1 .. Len(q) + 1, NEW j \in 1 .. Len(q) + 1, i < j
               PROVE  p[i].left <= p[j].left
    BY <1>3 DEF Sorted
  <2>1. CASE j < n
    BY <1>2, <1>3, <2>1 DEF Sorted
  <2>2. CASE j = n
    BY <1>1, <1>2, <1>3, <2>2
  <2>3. CASE j > n /\ i < n
    <3>1. i \in 1 .. Len(q) /\ j - 1 \in 1 .. Len(q) /\ i < j - 1 /\ p[i] = q[i] /\ p[j] = q[j - 1]
      BY <1>2, <1>3, <2>3
    <3> QED
      BY <3>1 DEF Sorted
  <2>4. CASE j > n /\ i = n
    <3>1. j - 1 \in n .. Len(q) /\ p[i] = a /\ p[j] = q[j - 1]
      BY <1>2, <1>3, <2>4
    <3> QED
      BY <1>4, <3>1
  <2>5. CASE j > n /\ i > n
    <3>1. /\ i - 1 \in 1 .. Len(q) /\ j - 1 \in 1 .. Len(q) /\ i - 1 < j - 1
          /\ p[i] = q[i - 1] /\ p[j] = q[j - 1]
      BY <1>2, <1>3, <2>5
    <3> QED
      BY <3>1 DEF Sorted
  <2> QED
    BY <2>1, <2>2, <2>3, <2>4, <2>5
<1>6. ASSUME Once(q), ~Holds(q, a.client) PROVE Once(p)
  <2> SUFFICES ASSUME NEW i \in 1 .. Len(q) + 1, NEW j \in 1 .. Len(q) + 1,
                      p[i].client = p[j].client, i < j
               PROVE  FALSE
    BY <1>2, <1>3 DEF Once
  <2>1. \A k \in 1 .. Len(q) : q[k].client # a.client
    BY <1>6 DEF Holds
  <2>2. CASE j < n
    BY <1>2, <1>3, <1>6, <2>2 DEF Once
  <2>3. CASE j = n
    BY <1>2, <1>3, <2>1, <2>3
  <2>4. CASE j > n /\ i < n
    <3>1. i \in 1 .. Len(q) /\ j - 1 \in 1 .. Len(q) /\ i # j - 1 /\ p[i] = q[i] /\ p[j] = q[j - 1]
      BY <1>2, <1>3, <2>4
    <3> QED
      BY <1>6, <3>1 DEF Once
  <2>5. CASE j > n /\ i = n
    <3>1. j - 1 \in 1 .. Len(q) /\ p[i] = a /\ p[j] = q[j - 1]
      BY <1>2, <1>3, <2>5
    <3> QED
      BY <2>1, <3>1
  <2>6. CASE j > n /\ i > n
    <3>1. /\ i - 1 \in 1 .. Len(q) /\ j - 1 \in 1 .. Len(q) /\ i - 1 # j - 1
          /\ p[i] = q[i - 1] /\ p[j] = q[j - 1]
      BY <1>2, <1>3, <2>6
    <3> QED
      BY <1>6, <3>1 DEF Once
  <2> QED
    BY <2>2, <2>3, <2>4, <2>5, <2>6
<1>7. ASSUME NEW c PROVE Holds(p, c) <=> Holds(q, c) \/ c = a.client
  <2>1. ASSUME Holds(p, c) PROVE Holds(q, c) \/ c = a.client
    <3>1. PICK i \in 1 .. Len(q) + 1 : p[i].client = c
      BY <1>3, <2>1 DEF Holds
    <3>2. CASE i < n
      BY <1>2, <1>3, <3>1, <3>2 DEF Holds
    <3>3. CASE i = n
      BY <1>3, <3>1, <3>3
    <3>4. CASE i > n
      <4>1. i - 1 \in 1 .. Len(q) /\ q[i - 1].client = c
        BY <1>2, <1>3, <3>1, <3>4
      <4> QED
        BY <4>1 DEF Holds
    <3> QED
      BY <3>2, <3>3, <3>4
  <2>2. ASSUME Holds(q, c) PROVE Holds(p, c)
    <3>1. PICK i \in 1 .. Len(q) : q[i].client = c
      BY <2>2 DEF Holds
    <3>2. CASE i < n
      BY <1>2, <1>3, <3>1, <3>2 DEF Holds
    <3>3. CASE i >= n
      <4>1. i + 1 \in 1 .. Len(p) /\ p[i + 1].client = c
        BY <1>2, <1>3, <3>1, <3>3
      <4> QED
        BY <4>1 DEF Holds
    <3> QED
      BY <3>2, <3>3
  <2>3. ASSUME c = a.client PROVE Holds(p, c)
    BY <1>2, <1>3, <2>3 DEF Holds
  <2> QED
    BY <2>1, <2>2, <2>3
<1>8. ASSUME NEW e, FirstExpired(q, e), a.left > 0 PROVE FirstExpired(p, e)
  <2>1. e \in 0 .. Len(q) /\ \A i \in 1 .. Len(q) : q[i].left <= 0 <=> i <= e
    BY <1>8 DEF FirstExpired
  <2>2. e < n
    BY <1>1, <1>2, <1>4, <1>8, <2>1
  <2>3. ASSUME NEW i \in 1 .. Len(q) + 1 PROVE p[i].left <= 0 <=> i <= e
    <3>1. CASE i < n
      BY <1>2, <1>3, <2>1, <2>2, <3>1
    <3>2. CASE i = n
      BY <1>2, <1>3, <1>8, <2>1, <2>2, <3>2
    <3>3. CASE i > n
      BY <1>2, <1>3, <2>1, <2>2, <3>3
    <3> QED
      BY <3>1, <3>2, <3>3
  <2> QED
    BY <1>2, <1>3, <2>1, <2>3 DEF FirstExpired
<1> QED
  BY <1>3, <1>5, <1>6, <1>7, <1>8

(* p is q without its alarm at n.                                           *)
Without(p, q, n) ==
    /\ p \in Seq(Alarms) /\ Len(p) = Len(q) - 1
    /\ \A i \in 1 .. Len(q) - 1 : p[i] = IF i < n THEN q[i] ELSE q[i + 1]

LEMMA RemoveKeeps ==
    ASSUME NEW q \in Seq(Alarms), Sorted(q), Once(q), NEW n \in 1 .. Len(q),
           NEW p, Without(p, q, n)
    PROVE  /\ Sorted(p) /\ Once(p)
           /\ \A c : Holds(p, c) <=> Holds(q, c) /\ c # q[n].client
           /\ \A e : FirstExpired(q, e) => FirstExpired(p, IF q[n].left <= 0 THEN e - 1 ELSE e)
<1>1. /\ Len(q) \in Nat /\ \A i \in 1 .. Len(q) : q[i].left \in Int
      /\ Len(p) = Len(q) - 1
      /\ \A i \in 1 .. Len(q) - 1 : p[i] = IF i < n THEN q[i] ELSE q[i + 1]
  BY QueueTypes DEF Without
<1> DEFINE old(i) == IF i < n THEN i ELSE i + 1
<1>2. \A i \in 1 .. Len(q) - 1 : /\ old(i) \in 1 .. Len(q) /\ old(i) # n /\ p[i] = q[old(i)]
                                /\ i <= old(i) /\ (i < n => old(i) = i) /\ (i >= n => old(i) = i + 1)
  BY <1>1
<1>3. \A i, j \in 1 .. Len(q) - 1 : (i < j => old(i) < old(j)) /\ (old(i) = old(j) => i = j)
  BY <1>1
<1> HIDE DEF old
<1>4. Sorted(p)
  <2> SUFFICES ASSUME NEW i \in 1 .. Len(q) - 1, NEW j \in 1 .. Len(q) - 1, i < j
               PROVE  p[i].left <= p[j].left
    BY <1>1 DEF Sorted
  <2>1. /\ old(i) \in 1 .. Len(q) /\ old(j) \in 1 .. Len(q) /\ old(i) < old(j)
        /\ p[i] = q[old(i)] /\ p[j] = q[old(j)]
    BY <1>2, <1>3
  <2> QED
    BY <2>1 DEF Sorted
<1>5. Once(p)
  <2> SUFFICES ASSUME NEW i \in 1 .. Len(q) - 1, NEW j \in 1 .. Len(q) - 1,
                      p[i].client = p[j].client
               PROVE  i = j
    BY <1>1 DEF Once
  <2>1. /\ old(i) \in 1 .. Len(q) /\ old(j) \in 1 .. Len(q)
        /\ p[i] = q[old(i)] /\ p[j] = q[old(j)]
    BY <1>2
  <2>2. old(i) = old(j)
    BY <2>1 DEF Once
  <2> QED
    BY <1>3, <2>2
<1>6. ASSUME NEW c PROVE Holds(p, c) <=> Holds(q, c) /\ c # q[n].client
  <2>1. ASSUME Holds(p, c) PROVE Holds(q, c) /\ c # q[n].client
    <3>1. PICK i \in 1 .. Len(q) - 1 : p[i].client = c
      BY <1>1, <2>1 DEF Holds
    <3> QED
      BY <1>2, <3>1 DEF Holds, Once
  <2>2. ASSUME Holds(q, c), c # q[n].client PROVE Holds(p, c)
    <3>1. PICK i \in 1 .. Len(q) : q[i].client = c
      BY <2>2 DEF Holds
    <3>2. CASE i < n
      <4>1. i \in 1 .. Len(p) /\ p[i].client = c
        BY <1>1, <3>1, <3>2
      <4> QED
        BY <4>1 DEF Holds
    <3>3. CASE i > n
      <4>a. i - 1 \in 1 .. Len(q) - 1 /\ ~(i - 1 < n) /\ (i - 1) + 1 = i
        BY <1>1, <3>1, <3>3
      <4>1. i - 1 \in 1 .. Len(p) /\ p[i - 1].client = c
        BY <1>1, <3>1, <4>a
      <4> QED
        BY <4>1 DEF Holds
    <3> QED
      BY <2>2, <3>1, <3>2, <3>3
  <2> QED
    BY <2>1, <2>2
<1>7. ASSUME NEW e, FirstExpired(q, e)
      PROVE  FirstExpired(p, IF q[n].left <= 0 THEN e - 1 ELSE e)
  <2>1. e \in 0 .. Len(q) /\ \A i \in 1 .. Len(q) : q[i].left <= 0 <=> i <= e
    BY <1>7 DEF FirstExpired
  <2>2. CASE q[n].left <= 0
    <3>1. n <= e /\ e - 1 \in 0 .. Len(p)
      BY <1>1, <2>1, <2>2
    <3>2. ASSUME NEW i \in 1 .. Len(p) PROVE p[i].left <= 0 <=> i <= e - 1
      <4>1. /\ old(i) \in 1 .. Len(q) /\ p[i] = q[old(i)]
            /\ (i < n => old(i) = i) /\ (i >= n => old(i) = i + 1)
        BY <1>1, <1>2
      <4>2. p[i].left <= 0 <=> old(i) <= e
        BY <2>1, <4>1
      <4> QED
        BY <1>1, <2>1, <3>1, <4>1, <4>2
    <3> QED
      BY <2>2, <3>1, <3>2 DEF FirstExpired
  <2>3. CASE q[n].left > 0
    <3>1. n > e /\ e \in 0 .. Len(p)
      BY <1>1, <2>1, <2>3
    <3>2. ASSUME NEW i \in 1 .. Len(p) PROVE p[i].left <= 0 <=> i <= e
      <4>1. /\ old(i) \in 1 .. Len(q) /\ p[i] = q[old(i)]
            /\ (i < n => old(i) = i) /\ (i >= n => old(i) = i + 1)
        BY <1>1, <1>2
      <4>2. p[i].left <= 0 <=> old(i) <= e
        BY <2>1, <4>1
      <4> QED
        BY <1>1, <2>1, <3>1, <4>1, <4>2
    <3>3. ~(q[n].left <= 0)
      BY <1>1, <2>3
    <3> QED
      BY <3>1, <3>2, <3>3 DEF FirstExpired
  <2> QED
    BY <1>1, <2>2, <2>3
<1> QED
  BY <1>4, <1>5, <1>6, <1>7

LEMMA DeleteKeeps ==
    ASSUME NEW q \in Seq(Alarms), Sorted(q), Once(q), NEW c, NEW p, p = DeleteAlarm(q, c)
    PROVE  /\ p \in Seq(Alarms) /\ Sorted(p) /\ Once(p)
           /\ \A d : Holds(p, d) <=> Holds(q, d) /\ d # c
           /\ \A e : FirstExpired(q, e) =>
                 FirstExpired(p, IF \E i \in DOMAIN q : q[i].client = c /\ q[i].left <= 0
                                 THEN e - 1 ELSE e)
<1> DEFINE at == {i \in DOMAIN q : q[i].client = c}
<1>1. Len(q) \in Nat /\ DOMAIN q = 1 .. Len(q)
  BY LenProperties
<1>2. CASE at = {}
  <2>1. p = q
    BY <1>2 DEF DeleteAlarm
  <2>2. \A i \in 1 .. Len(q) : q[i].client # c
    BY <1>1, <1>2
  <2>3. \A d : Holds(q, d) => d # c
    BY <2>2 DEF Holds
  <2>4. ~\E i \in DOMAIN q : q[i].client = c /\ q[i].left <= 0
    BY <1>1, <2>2
  <2> QED
    BY <2>1, <2>3, <2>4
<1>3. CASE at # {}
  <2>1. PICK n \in at : n = CHOOSE i \in at : TRUE
    BY <1>3
  <2>2. n \in 1 .. Len(q) /\ q[n].client = c
    BY <1>1, <2>1
  <2>3. p = RemoveAt(q, n)
    BY <1>3, <2>1 DEF DeleteAlarm
  <2>4. Without(p, q, n)
    <3>1. /\ RemoveAt(q, n) \in Seq(Alarms) /\ Len(RemoveAt(q, n)) = Len(q) - 1
          /\ \A i \in 1 .. Len(q) - 1 : RemoveAt(q, n)[i] = IF i < n THEN q[i] ELSE q[i + 1]
      BY <2>2, RemovedAt
    <3> QED
      BY <2>3, <3>1, Zenon DEF Without
  <2>5. (\E i \in DOMAIN q : q[i].client = c /\ q[i].left <= 0) <=> q[n].left <= 0
    BY <1>1, <2>2 DEF Once
  <2>6. /\ Sorted(p) /\ Once(p)
        /\ \A d : Holds(p, d) <=> Holds(q, d) /\ d # c
        /\ \A e : FirstExpired(q, e) => FirstExpired(p, IF q[n].left <= 0 THEN e - 1 ELSE e)
    BY <2>2, <2>4, RemoveKeeps, Zenon
  <2> QED
    BY <2>4, <2>5, <2>6 DEF Without
<1> QED
  BY <1>2, <1>3

LEMMA DequeueKeeps ==
    ASSUME NEW q \in Seq(Alarms), Sorted(q), Once(q), q # <<>>, NEW p, p = Tail(q)
    PROVE  /\ Len(q) > 0 /\ Head(q) = q[1] /\ Head(q) \in Alarms
           /\ p \in Seq(Alarms) /\ Sorted(p) /\ Once(p)
           /\ \A c : Holds(p, c) <=> Holds(q, c) /\ c # Head(q).client
           /\ \A e : FirstExpired(q, e) => FirstExpired(p, IF Head(q).left <= 0 THEN e - 1 ELSE e)
<1>1. /\ Len(q) \in Nat /\ Len(q) > 0 /\ Head(q) = q[1] /\ Head(q) \in Alarms
      /\ p \in Seq(Alarms) /\ Len(p) = Len(q) - 1
      /\ \A i \in 1 .. Len(q) - 1 : p[i] = q[i + 1]
  BY EmptySeq, LenProperties, HeadTailProperties
<1>2. 1 \in 1 .. Len(q) /\ Without(p, q, 1)
  BY <1>1 DEF Without
<1>3. /\ Sorted(p) /\ Once(p)
      /\ \A c : Holds(p, c) <=> Holds(q, c) /\ c # q[1].client
      /\ \A e : FirstExpired(q, e) => FirstExpired(p, IF q[1].left <= 0 THEN e - 1 ELSE e)
  BY <1>2, RemoveKeeps
<1> QED
  BY <1>1, <1>3, Zenon

(* A tick, with what it signals: the signals are alarms that expire with    *)
(* it, and all of those unless an earlier one is still queued.              *)
LEMMA TickKeeps ==
    ASSUME NEW q \in Seq(Alarms), Sorted(q), Once(q), q = alarm_queue,
           NEW p, p = Aged
    PROVE  /\ p \in Seq(Alarms) /\ Sorted(p) /\ Once(p)
           /\ \A c : Holds(p, c) <=> Holds(q, c)
           /\ Signals(p) \in Nat
           /\ \A e, f : FirstExpired(q, e) /\ FirstExpired(p, f) => e + Signals(p) <= f
           /\ \A f : FirstExpired(q, 0) /\ FirstExpired(p, f) => f = Signals(p)
<1>1. Len(q) \in Nat /\ DOMAIN q = 1 .. Len(q) /\ \A i \in 1 .. Len(q) : q[i] \in Alarms
  BY LenProperties, ElementOfSeq
<1> DEFINE older(x) == IF x > 0 THEN x - 1 ELSE -1
<1>2. p = [i \in 1 .. Len(q) |-> [q[i] EXCEPT !.left = older(q[i].left)]]
  BY <1>1 DEF Aged
<1>3. ASSUME NEW i \in 1 .. Len(q)
      PROVE  /\ p[i] \in Alarms /\ p[i].client = q[i].client /\ p[i].left = older(q[i].left)
             /\ q[i].left \in Int
  <2>1. q[i] \in Alarms
    BY <1>1
  <2>2. PICK a \in Alarms : a = q[i]
    BY <2>1
  <2>3. a.left \in Int /\ older(a.left) \in Int
    BY DEF Alarms
  <2> HIDE DEF older
  <2>4. p[i] = [a EXCEPT !.left = older(a.left)]
    BY <1>2, <2>2
  <2> QED
    BY <2>2, <2>3, <2>4 DEF Alarms
<1>4. p \in Seq(Alarms) /\ Len(p) = Len(q)
  <2>1. p \in [1 .. Len(q) -> Alarms]
    BY <1>2, <1>3
  <2> QED
    BY <1>1, <2>1
<1>5. Sorted(p)
  BY <1>3, <1>4 DEF Sorted
<1> HIDE DEF older
<1>6. Once(p)
  BY <1>3, <1>4 DEF Once
<1>7. \A c : Holds(p, c) <=> Holds(q, c)
  BY <1>3, <1>4 DEF Holds
<1> USE DEF older
<1> DEFINE Signalled(n) == /\ \A i \in 1 .. n : p[i].left = 0
                           /\ n < Len(p) => p[n + 1].left # 0
<1>8. \E n \in 0 .. Len(p) : Signalled(n)
  <2> DEFINE S == {i \in 1 .. Len(q) + 1 : i <= Len(q) => p[i].left # 0}
  <2>1. S \in SUBSET Nat /\ Len(q) + 1 \in S
    BY <1>1
  <2>2. PICK m \in S : \A i \in S : m <= i
    BY <2>1, LeastNumber
  <2>3. m \in 1 .. Len(q) + 1 /\ (m <= Len(q) => p[m].left # 0)
    BY <2>2
  <2>4. ASSUME NEW i \in 1 .. m - 1 PROVE p[i].left = 0
    <3>1. i \in 1 .. Len(q) /\ i \notin S
      BY <1>1, <2>2, <2>3
    <3> QED
      BY <3>1
  <2>5. m - 1 \in 0 .. Len(p) /\ Signalled(m - 1)
    BY <1>1, <1>4, <2>3, <2>4
  <2> QED
    BY <2>5
<1>9. Signals(p) = CHOOSE n \in 0 .. Len(p) : Signalled(n)
  BY DEF Signals
<1> HIDE DEF Signalled
<1>10. PICK n \in 0 .. Len(p) : n = Signals(p) /\ Signalled(n)
  BY <1>8, <1>9
<1>11. n \in Nat /\ n <= Len(p) /\ \A i \in 1 .. n : p[i].left = 0
  BY <1>1, <1>4, <1>10 DEF Signalled
<1>12. ASSUME NEW e, NEW f, FirstExpired(q, e), FirstExpired(p, f)
       PROVE  e + n <= f
  <2>1. /\ e \in 0 .. Len(q) /\ \A i \in 1 .. Len(q) : q[i].left <= 0 <=> i <= e
        /\ f \in 0 .. Len(q) /\ \A i \in 1 .. Len(q) : p[i].left <= 0 <=> i <= f
    BY <1>4, <1>12 DEF FirstExpired
  <2>2. CASE n = 0
    <3>1. e # 0 => e <= f
      <4>1. e # 0 => e \in 1 .. Len(q) /\ q[e].left <= 0
        BY <1>1, <2>1
      <4>2. e # 0 => p[e].left <= 0
        BY <1>3, <4>1
      <4> QED
        BY <2>1, <4>1, <4>2
    <3> QED
      BY <2>1, <2>2, <3>1
  <2>3. CASE n > 0
    <3>1. 1 \in 1 .. Len(q) /\ p[1].left = 0 /\ n \in 1 .. Len(q) /\ p[n].left = 0
      BY <1>1, <1>4, <1>11, <2>3
    <3>2. ~(q[1].left <= 0)
      BY <1>3, <3>1
    <3>3. e = 0
      BY <1>1, <2>1, <3>1, <3>2
    <3>4. n <= f
      BY <2>1, <3>1
    <3> QED
      BY <1>11, <3>3, <3>4
  <2> QED
    BY <1>11, <2>2, <2>3
<1>13. ASSUME NEW f, FirstExpired(q, 0), FirstExpired(p, f)
       PROVE  f = n
  <2>1. /\ f \in 0 .. Len(q) /\ \A i \in 1 .. Len(q) : p[i].left <= 0 <=> i <= f
        /\ \A i \in 1 .. Len(q) : ~(q[i].left <= 0)
    BY <1>1, <1>4, <1>13 DEF FirstExpired
  <2>2. \A i \in 1 .. Len(q) : p[i].left \in Int /\ p[i].left >= 0
    BY <1>3, <2>1
  <2>3. n <= f
    <3>1. 0 + n <= f
      BY <1>12, <1>13
    <3> QED
      BY <1>11, <2>1, <3>1
  <2>4. ~(n < f)
    <3>1. SUFFICES ASSUME n < f PROVE FALSE
      OBVIOUS
    <3>2. n + 1 \in 1 .. Len(q) /\ n + 1 <= f /\ n < Len(p)
      BY <1>1, <1>4, <1>11, <2>1, <3>1
    <3>3. p[n + 1].left = 0
      BY <2>1, <2>2, <3>2
    <3> QED
      BY <1>10, <3>2, <3>3 DEF Signalled
  <2> QED
    BY <1>11, <2>1, <2>3, <2>4
<1> QED
  BY <1>4, <1>5, <1>6, <1>7, <1>10, <1>11, <1>12, <1>13

-----------------------------------------------------------------------------
(* The invariant.                                                           *)

LEMMA ClientsFact ==
    /\ \A c \in Sleepers : c \in Clients /\ c \notin Timers /\ c # Nobody
    /\ \A c \in Timers : c \in Clients /\ c \notin Sleepers /\ c # Nobody
    /\ \A c \in Clients : c \in Sleepers \/ c \in Timers
  BY AlarmAssumption DEF Clients

(* Just the head of the queue has expired, and the signals count it.        *)
LEMMA SignalsCounted ==
    ASSUME alarm_queue \in Seq(Alarms), NEW e, FirstExpired(alarm_queue, e)
    PROVE  e \in Nat /\ (SignalsHaveAlarms <=> alarm_sema <= e + forfeited)
<1>1. Cardinality(Expired) = e
  BY ExpiredCount DEF Expired
<1>2. e \in Nat
  BY LenProperties DEF FirstExpired
<1> QED
  BY <1>1, <1>2 DEF SignalsHaveAlarms

LEMMA InvParts ==
    ASSUME AlarmInv
    PROVE  /\ alarm_queue \in Seq(Alarms) /\ Sorted(alarm_queue) /\ Once(alarm_queue)
           /\ alarm_sema \in Nat /\ forfeited \in Nat
           /\ waiting \subseteq Clients /\ spawn_alarm \in Clients \cup {Nobody}
           /\ cancelled \in BOOLEAN /\ fault \in BOOLEAN
           /\ \E e \in Nat : FirstExpired(alarm_queue, e) /\ alarm_sema <= e + forfeited
<1>1. /\ alarm_queue \in Seq(Alarms) /\ Sorted(alarm_queue) /\ Once(alarm_queue) /\ SignalsHaveAlarms
  BY DEF AlarmInv, TypeOK, Ordered, Alarms
<1>2. PICK q \in Seq(Alarms) : q = alarm_queue
  BY <1>1
<1>3. PICK e : FirstExpired(q, e)
  BY <1>1, <1>2, SomeFirstExpired
<1>4. e \in Nat /\ alarm_sema <= e + forfeited
  BY <1>1, <1>2, <1>3, SignalsCounted
<1> QED
  BY <1>1, <1>2, <1>3, <1>4 DEF AlarmInv, TypeOK

(* The same for the next state.                                             *)
LEMMA InvFromParts ==
    ASSUME NEW p \in Seq(Alarms), p = alarm_queue', Sorted(p), Once(p), Placed',
           alarm_sema' \in Nat, forfeited' \in Nat,
           waiting' \subseteq Clients, spawn_alarm' \in Clients \cup {Nobody},
           cancelled' \in BOOLEAN, fault' \in BOOLEAN,
           NEW e, FirstExpired(p, e), alarm_sema' <= e + forfeited'
    PROVE  AlarmInv'
<1>1. Cardinality({i \in DOMAIN p : p[i].left <= 0}) = e
  BY ExpiredCount
<1>2. Cardinality(Expired') = e
  BY <1>1 DEF Expired
<1> QED
  BY <1>2 DEF AlarmInv, TypeOK, Ordered, Alarms, SignalsHaveAlarms

LEMMA WaitKeeps ==
    ASSUME AlarmInv, NEW c \in Clients, NEW d \in Delays, Wait(c, d)
    PROVE  AlarmInv'
<1> DEFINE a == [client |-> c, left |-> IF d = 0 THEN 1 ELSE d]
<1>1. /\ alarm_queue \in Seq(Alarms) /\ Sorted(alarm_queue) /\ Once(alarm_queue) /\ Placed
      /\ alarm_sema \in Nat /\ forfeited \in Nat
      /\ waiting \subseteq Clients /\ spawn_alarm \in Clients \cup {Nobody}
      /\ cancelled \in BOOLEAN /\ fault \in BOOLEAN
  BY InvParts DEF AlarmInv
<1>2. PICK e \in Nat : FirstExpired(alarm_queue, e) /\ alarm_sema <= e + forfeited
  BY InvParts
<1>3. /\ c \notin waiting /\ waiting' = waiting \cup {c}
      /\ alarm_queue' = InsertSorted(alarm_queue, a)
      /\ UNCHANGED <<alarm_sema, spawn_alarm, cancelled, forfeited, fault>>
  BY DEF Wait, register_alarm
<1>4. a \in Alarms /\ a.client = c /\ a.left > 0
  BY AlarmAssumption DEF Alarms
<1> HIDE DEF a
<1>5. ~Holds(alarm_queue, c)
  BY <1>1, <1>3 DEF Placed
<1>6. PICK q \in Seq(Alarms) : q = alarm_queue
  BY <1>1
<1>7. PICK p : p = alarm_queue'
  OBVIOUS
<1>8. p = InsertSorted(q, a) /\ Sorted(q) /\ Once(q) /\ ~Holds(q, a.client) /\ FirstExpired(q, e)
  BY <1>1, <1>2, <1>3, <1>4, <1>5, <1>6, <1>7
<1>9. /\ p \in Seq(Alarms) /\ Sorted(p) /\ Once(p) /\ FirstExpired(p, e)
      /\ \A f : Holds(p, f) <=> Holds(q, f) \/ f = c
  BY <1>4, <1>8, InsertKeeps
<1>10. Placed'
  <2>1. /\ \A f \in Clients : Holds(q, f) => f \in waiting /\ (spawn_alarm = f => cancelled)
        /\ cancelled => spawn_alarm \in Timers
        /\ ~cancelled /\ spawn_alarm # Nobody => spawn_alarm \in waiting
        /\ \A f \in Sleepers : f \in waiting <=> Holds(q, f) \/ spawn_alarm = f
    BY <1>1, <1>6 DEF Placed
  <2>2. ASSUME NEW f \in Clients, Holds(p, f) PROVE f \in waiting' /\ (spawn_alarm = f => cancelled)
    <3>1. CASE f # c
      BY <1>3, <1>9, <2>1, <2>2, <3>1
    <3>2. CASE f = c
      BY <1>3, <2>1, <3>2, ClientsFact
    <3> QED
      BY <3>1, <3>2
  <2>3. \A f \in Sleepers : f \in waiting' <=> Holds(p, f) \/ spawn_alarm = f
    BY <1>3, <1>9, <2>1
  <2>4. ~cancelled /\ spawn_alarm # Nobody => spawn_alarm \in waiting'
    BY <1>3, <2>1
  <2> QED
    BY <1>3, <1>7, <2>1, <2>2, <2>3, <2>4 DEF Placed
<1>11. waiting' \subseteq Clients
  BY <1>1, <1>3
<1> QED
  BY <1>1, <1>2, <1>3, <1>7, <1>9, <1>10, <1>11, InvFromParts

LEMMA DeregisterKeeps ==
    ASSUME AlarmInv, NEW c \in Timers, deregister_alarm(c)
    PROVE  AlarmInv'
<1>1. /\ alarm_queue \in Seq(Alarms) /\ Sorted(alarm_queue) /\ Once(alarm_queue) /\ Placed
      /\ alarm_sema \in Nat /\ forfeited \in Nat
      /\ waiting \subseteq Clients /\ spawn_alarm \in Clients \cup {Nobody}
      /\ cancelled \in BOOLEAN /\ fault \in BOOLEAN
  BY InvParts DEF AlarmInv
<1>2. PICK e \in Nat : FirstExpired(alarm_queue, e) /\ alarm_sema <= e + forfeited
  BY InvParts
<1>3. PICK q \in Seq(Alarms) : q = alarm_queue
  BY <1>1
<1>4. PICK p : p = alarm_queue'
  OBVIOUS
<1> DEFINE due == \E i \in DOMAIN q : q[i].client = c /\ q[i].left <= 0
<1>5. /\ c \in waiting /\ waiting' = waiting \ {c}
      /\ p = DeleteAlarm(q, c)
      /\ cancelled' = (cancelled \/ spawn_alarm = c)
      /\ forfeited' = IF due THEN forfeited + 1 ELSE forfeited
      /\ UNCHANGED <<alarm_sema, spawn_alarm, fault>>
  BY <1>3, <1>4 DEF deregister_alarm
<1>6. Sorted(q) /\ Once(q) /\ FirstExpired(q, e)
  BY <1>1, <1>2, <1>3
<1>7. /\ p \in Seq(Alarms) /\ Sorted(p) /\ Once(p)
      /\ \A d : Holds(p, d) <=> Holds(q, d) /\ d # c
      /\ FirstExpired(p, IF due THEN e - 1 ELSE e)
  BY <1>5, <1>6, DeleteKeeps
<1> HIDE DEF due
<1>8. Placed'
  <2>1. /\ \A f \in Clients : Holds(q, f) => f \in waiting /\ (spawn_alarm = f => cancelled)
        /\ cancelled => spawn_alarm \in Timers
        /\ ~cancelled /\ spawn_alarm # Nobody => spawn_alarm \in waiting
        /\ \A f \in Sleepers : f \in waiting <=> Holds(q, f) \/ spawn_alarm = f
    BY <1>1, <1>3 DEF Placed
  <2>2. \A f \in Clients : Holds(p, f) => f \in waiting' /\ (spawn_alarm' = f => cancelled')
    BY <1>5, <1>7, <2>1
  <2>3. cancelled' => spawn_alarm' \in Timers
    BY <1>5, <2>1
  <2>4. ~cancelled' /\ spawn_alarm' # Nobody => spawn_alarm' \in waiting'
    BY <1>5, <2>1
  <2>5. \A f \in Sleepers : f \in waiting' <=> Holds(p, f) \/ spawn_alarm' = f
    BY <1>5, <1>7, <2>1, ClientsFact
  <2> QED
    BY <1>4, <2>2, <2>3, <2>4, <2>5 DEF Placed
<1>9. /\ waiting' \subseteq Clients /\ spawn_alarm' \in Clients \cup {Nobody}
      /\ cancelled' \in BOOLEAN /\ fault' \in BOOLEAN /\ alarm_sema' \in Nat
  BY <1>1, <1>5
<1>10. CASE due
  <2>1. forfeited' \in Nat /\ FirstExpired(p, e - 1) /\ alarm_sema' <= (e - 1) + forfeited'
    BY <1>1, <1>2, <1>5, <1>7, <1>10
  <2> QED
    BY <1>4, <1>7, <1>8, <1>9, <2>1, InvFromParts
<1>11. CASE ~due
  <2>1. forfeited' \in Nat /\ FirstExpired(p, e) /\ alarm_sema' <= e + forfeited'
    BY <1>1, <1>2, <1>5, <1>7, <1>11
  <2> QED
    BY <1>4, <1>7, <1>8, <1>9, <2>1, InvFromParts
<1> QED
  BY <1>10, <1>11

LEMMA TickKeepsInv ==
    ASSUME AlarmInv, Tick
    PROVE  AlarmInv'
<1>1. /\ alarm_queue \in Seq(Alarms) /\ Sorted(alarm_queue) /\ Once(alarm_queue) /\ Placed
      /\ alarm_sema \in Nat /\ forfeited \in Nat
      /\ waiting \subseteq Clients /\ spawn_alarm \in Clients \cup {Nobody}
      /\ cancelled \in BOOLEAN /\ fault \in BOOLEAN
  BY InvParts DEF AlarmInv
<1>2. PICK e \in Nat : FirstExpired(alarm_queue, e) /\ alarm_sema <= e + forfeited
  BY InvParts
<1>3. PICK q \in Seq(Alarms) : q = alarm_queue
  BY <1>1
<1>4. PICK p : p = Aged
  OBVIOUS
<1>5. /\ p = alarm_queue' /\ alarm_sema' = alarm_sema + Signals(p)
      /\ UNCHANGED <<spawn_alarm, cancelled, waiting, forfeited, fault>>
  BY <1>4 DEF Tick
<1>6. Sorted(q) /\ Once(q) /\ FirstExpired(q, e)
  BY <1>1, <1>2, <1>3
<1>7. /\ p \in Seq(Alarms) /\ Sorted(p) /\ Once(p)
      /\ \A c : Holds(p, c) <=> Holds(q, c)
      /\ Signals(p) \in Nat
      /\ \A f : FirstExpired(p, f) => e + Signals(p) <= f
  BY <1>3, <1>4, <1>6, TickKeeps
<1>8. PICK f \in 0 .. Len(p) : FirstExpired(p, f)
  BY <1>7, SomeFirstExpired
<1>9. f \in Nat
  BY <1>7, <1>8, LenProperties
<1>10. e + Signals(p) <= f
  BY <1>7, <1>8
<1>11. alarm_sema' \in Nat /\ forfeited' \in Nat /\ alarm_sema' <= f + forfeited'
  BY <1>1, <1>2, <1>5, <1>7, <1>9, <1>10
<1>12. Placed'
  BY <1>1, <1>3, <1>5, <1>7 DEF Placed
<1> QED
  BY <1>1, <1>5, <1>7, <1>8, <1>11, <1>12, InvFromParts

LEMMA AlarmDequeueKeeps ==
    ASSUME AlarmInv, AlarmDequeue
    PROVE  AlarmInv'
<1>1. /\ alarm_queue \in Seq(Alarms) /\ Sorted(alarm_queue) /\ Once(alarm_queue) /\ Placed
      /\ alarm_sema \in Nat /\ forfeited \in Nat
      /\ waiting \subseteq Clients /\ spawn_alarm \in Clients \cup {Nobody}
      /\ cancelled \in BOOLEAN /\ fault \in BOOLEAN
  BY InvParts DEF AlarmInv
<1>2. PICK e \in Nat : FirstExpired(alarm_queue, e) /\ alarm_sema <= e + forfeited
  BY InvParts
<1>3. PICK q \in Seq(Alarms) : q = alarm_queue
  BY <1>1
<1>4. PICK p : p = alarm_queue'
  OBVIOUS
<1>5. /\ spawn_alarm = Nobody /\ alarm_sema > 0 /\ alarm_sema' = alarm_sema - 1
      /\ UNCHANGED <<cancelled, waiting>>
  BY DEF AlarmDequeue
<1>6. Sorted(q) /\ Once(q) /\ FirstExpired(q, e)
  BY <1>1, <1>2, <1>3
<1>7. CASE q = <<>>
  <2>1. fault' = TRUE /\ UNCHANGED <<alarm_queue, spawn_alarm, forfeited>>
    BY <1>3, <1>7 DEF AlarmDequeue
  <2>2. Placed'
    BY <1>1, <1>5, <2>1 DEF Placed
  <2>3. alarm_sema' \in Nat /\ forfeited' \in Nat /\ alarm_sema' <= e + forfeited'
    BY <1>1, <1>2, <1>5, <2>1
  <2>4. p = q
    BY <1>3, <1>4, <2>1
  <2> QED
    BY <1>1, <1>4, <1>5, <1>6, <2>1, <2>2, <2>3, <2>4, InvFromParts
<1>8. CASE q # <<>>
  <2> DEFINE h == Head(q)
  <2>1. /\ spawn_alarm' = h.client /\ p = Tail(q)
        /\ forfeited' = IF h.left > 0 THEN forfeited - 1 ELSE forfeited
        /\ UNCHANGED fault
    BY <1>3, <1>4, <1>8 DEF AlarmDequeue
  <2>2. /\ Len(q) > 0 /\ h = q[1] /\ h \in Alarms
        /\ p \in Seq(Alarms) /\ Sorted(p) /\ Once(p)
        /\ \A c : Holds(p, c) <=> Holds(q, c) /\ c # h.client
        /\ FirstExpired(p, IF h.left <= 0 THEN e - 1 ELSE e)
    BY <1>6, <1>8, <2>1, DequeueKeeps
  <2> HIDE DEF h
  <2>3. h.client \in Clients /\ h.left \in Int
    BY <2>2 DEF Alarms
  <2>4. Holds(q, h.client)
    <3>1. 1 \in 1 .. Len(q) /\ q[1].client = h.client
      BY <2>2, LenProperties
    <3> QED
      BY <3>1 DEF Holds
  <2>5. h.left <= 0 <=> e > 0
    <3>1. 1 \in 1 .. Len(q)
      BY <2>2, LenProperties
    <3> QED
      BY <1>2, <1>6, <2>2, <3>1 DEF FirstExpired
  <2>6. Placed'
    <3>1. /\ \A f \in Clients : Holds(q, f) => f \in waiting /\ (spawn_alarm = f => cancelled)
          /\ cancelled => spawn_alarm \in Timers
          /\ \A f \in Sleepers : f \in waiting <=> Holds(q, f) \/ spawn_alarm = f
      BY <1>1, <1>3 DEF Placed
    <3>2. ~cancelled'
      BY <1>5, <3>1, ClientsFact
    <3>3. \A f \in Clients : Holds(p, f) => f \in waiting' /\ spawn_alarm' # f
      BY <1>5, <2>1, <2>2, <3>1
    <3>4. spawn_alarm' \in waiting'
      BY <1>5, <2>1, <2>3, <2>4, <3>1
    <3>5. \A f \in Sleepers : f \in waiting' <=> Holds(p, f) \/ spawn_alarm' = f
      BY <1>5, <2>1, <2>2, <2>4, <3>1, ClientsFact
    <3> QED
      BY <1>4, <3>2, <3>3, <3>4, <3>5 DEF Placed
  <2>7. /\ waiting' \subseteq Clients /\ spawn_alarm' \in Clients \cup {Nobody}
        /\ cancelled' \in BOOLEAN /\ fault' \in BOOLEAN /\ alarm_sema' \in Nat
    BY <1>1, <1>5, <2>1, <2>3
  <2>8. CASE h.left <= 0
    <3>1. forfeited' \in Nat /\ FirstExpired(p, e - 1) /\ alarm_sema' <= (e - 1) + forfeited'
      BY <1>1, <1>2, <1>5, <2>1, <2>2, <2>3, <2>8
    <3> QED
      BY <1>4, <2>2, <2>6, <2>7, <3>1, InvFromParts
  <2>9. CASE ~(h.left <= 0)
    <3>1. e = 0 /\ forfeited > 0 /\ forfeited' = forfeited - 1
      BY <1>1, <1>2, <1>5, <2>1, <2>3, <2>5, <2>9
    <3>2. forfeited' \in Nat /\ FirstExpired(p, e) /\ alarm_sema' <= e + forfeited'
      BY <1>1, <1>2, <1>5, <2>2, <2>9, <3>1
    <3> QED
      BY <1>4, <2>2, <2>6, <2>7, <3>2, InvFromParts
  <2> QED
    BY <2>8, <2>9
<1> QED
  BY <1>7, <1>8

LEMMA AlarmCallKeeps ==
    ASSUME AlarmInv, AlarmCall
    PROVE  AlarmInv'
<1>1. /\ alarm_queue \in Seq(Alarms) /\ Sorted(alarm_queue) /\ Once(alarm_queue) /\ Placed
      /\ alarm_sema \in Nat /\ forfeited \in Nat
      /\ waiting \subseteq Clients /\ spawn_alarm \in Clients \cup {Nobody}
      /\ cancelled \in BOOLEAN /\ fault \in BOOLEAN
  BY InvParts DEF AlarmInv
<1>2. PICK e \in Nat : FirstExpired(alarm_queue, e) /\ alarm_sema <= e + forfeited
  BY InvParts
<1>3. /\ spawn_alarm # Nobody /\ spawn_alarm' = Nobody /\ cancelled' = FALSE
      /\ waiting' = IF cancelled THEN waiting ELSE waiting \ {spawn_alarm}
      /\ UNCHANGED <<alarm_queue, alarm_sema, forfeited, fault>>
  BY DEF AlarmCall
<1>4. Placed'
  <2>1. /\ \A f \in Clients : Holds(alarm_queue, f) => f \in waiting /\ (spawn_alarm = f => cancelled)
        /\ cancelled => spawn_alarm \in Timers
        /\ \A f \in Sleepers : f \in waiting <=> Holds(alarm_queue, f) \/ spawn_alarm = f
    BY <1>1 DEF Placed
  <2>2. \A f \in Clients : Holds(alarm_queue, f) => f \in waiting' /\ spawn_alarm' # f
    BY <1>3, <2>1, AlarmAssumption
  <2>3. \A f \in Sleepers : f \in waiting' <=> Holds(alarm_queue, f) \/ spawn_alarm' = f
    BY <1>3, <2>1, ClientsFact
  <2> QED
    BY <1>3, <2>2, <2>3 DEF Placed
<1>5. PICK p \in Seq(Alarms) : p = alarm_queue'
  BY <1>1, <1>3
<1>6. Sorted(p) /\ Once(p) /\ FirstExpired(p, e) /\ waiting' \subseteq Clients
  BY <1>1, <1>2, <1>3, <1>5
<1> QED
  BY <1>1, <1>2, <1>3, <1>4, <1>5, <1>6, InvFromParts

LEMMA AlarmInvInit == Init => AlarmInv
<1> SUFFICES ASSUME Init PROVE AlarmInv
  OBVIOUS
<1>1. Expired = {} /\ alarm_queue = <<>> /\ Len(alarm_queue) = 0
  BY DEF Init, Expired
<1>2. TypeOK
  <2>1. <<>> \in Seq([client : Clients, left : Int])
    OBVIOUS
  <2> QED
    BY <2>1 DEF Init, TypeOK
<1>3. Ordered
  BY <1>1 DEF Ordered, Sorted, Once
<1>4. Placed
  BY <1>1, ClientsFact DEF Init, Placed, Holds
<1>5. SignalsHaveAlarms
  BY <1>1, FS_EmptySet DEF Init, SignalsHaveAlarms
<1> QED
  BY <1>2, <1>3, <1>4, <1>5 DEF AlarmInv

LEMMA AlarmInvStep == AlarmInv /\ [Next]_vars => AlarmInv'
<1> SUFFICES ASSUME AlarmInv, [Next]_vars PROVE AlarmInv'
  OBVIOUS
<1>1. ASSUME NEW c \in Clients, NEW d \in Delays, Wait(c, d) PROVE AlarmInv'
  BY <1>1, WaitKeeps
<1>2. ASSUME NEW c \in Timers, deregister_alarm(c) PROVE AlarmInv'
  BY <1>2, DeregisterKeeps
<1>3. CASE Tick
  BY <1>3, TickKeepsInv
<1>4. CASE AlarmDequeue
  BY <1>4, AlarmDequeueKeeps
<1>5. CASE AlarmCall
  BY <1>5, AlarmCallKeeps
<1>6. CASE UNCHANGED vars
  BY <1>6 DEF vars, AlarmInv, TypeOK, Ordered, Placed, SignalsHaveAlarms, Expired
<1> QED
  BY <1>1, <1>2, <1>3, <1>4, <1>5, <1>6 DEF Next

LEMMA AlarmInvariant == Spec => []AlarmInv
  BY AlarmInvInit, AlarmInvStep, PTL DEF Spec

-----------------------------------------------------------------------------
(* The theorems.                                                            *)

(* The state of the alarms stays well typed: in particular the alarm thread *)
(* runs early at most once for each due alarm that was deregistered.        *)
THEOREM AlarmTyping == Spec => []TypeOK
<1>1. AlarmInv => TypeOK
  BY DEF AlarmInv
<1> QED
  BY <1>1, AlarmInvariant, PTL

(* A sleeping thread has exactly one alarm, queued or being run, a thread   *)
(* that does not sleep has none, and the queue stays sorted.                *)
THEOREM SleepersAreRemembered == Spec => []SleepersHaveAlarms
<1>1. AlarmInv => SleepersHaveAlarms
  <2> SUFFICES ASSUME AlarmInv PROVE SleepersHaveAlarms
    OBVIOUS
  <2>1. alarm_queue \in Seq(Alarms) /\ Sorted(alarm_queue) /\ Once(alarm_queue) /\ Placed
    BY InvParts DEF AlarmInv
  <2>2. DOMAIN alarm_queue = 1 .. Len(alarm_queue)
    BY <2>1, LenProperties
  <2>3. ASSUME NEW c \in Sleepers
        PROVE  Cardinality({i \in DOMAIN alarm_queue : alarm_queue[i].client = c})
                   + (IF spawn_alarm = c THEN 1 ELSE 0) = IF c \in waiting THEN 1 ELSE 0
    <3> DEFINE mine == {i \in DOMAIN alarm_queue : alarm_queue[i].client = c}
    <3>1. /\ Holds(alarm_queue, c) => c \in waiting /\ spawn_alarm # c
          /\ c \in waiting <=> Holds(alarm_queue, c) \/ spawn_alarm = c
      BY <2>1, ClientsFact DEF Placed
    <3>2. CASE Holds(alarm_queue, c)
      <4>1. PICK i \in 1 .. Len(alarm_queue) : alarm_queue[i].client = c
        BY <3>2 DEF Holds
      <4>2. mine = {i}
        BY <2>1, <2>2, <4>1 DEF Once
      <4>3. Cardinality(mine) = 1
        BY <4>2, FS_Singleton
      <4> QED
        BY <3>1, <3>2, <4>3
    <3>3. CASE ~Holds(alarm_queue, c)
      <4>1. mine = {}
        BY <2>2, <3>3 DEF Holds
      <4>2. Cardinality(mine) = 0
        BY <4>1, FS_EmptySet
      <4> QED
        BY <3>1, <3>3, <4>2
    <3> QED
      BY <3>2, <3>3
  <2>4. \A i, j \in DOMAIN alarm_queue : i < j => alarm_queue[i].left <= alarm_queue[j].left
    BY <2>1, <2>2 DEF Sorted
  <2> QED
    BY <2>3, <2>4 DEF SleepersHaveAlarms
<1> QED
  BY <1>1, AlarmInvariant, PTL

(* There are never more signals than expired alarms and due alarms that     *)
(* were deregistered.                                                       *)
THEOREM SignalsAreBacked == Spec => []SignalsHaveAlarms
<1>1. AlarmInv => SignalsHaveAlarms
  BY DEF AlarmInv
<1> QED
  BY <1>1, AlarmInvariant, PTL

(* The alarm thread calls no function before its time, and follows no NULL  *)
(* alarm, unless an alarm that was due has been deregistered.               *)
THEOREM AlarmsAreNotEarly == Spec => NeverEarlyUnlessForfeited
<1>1. AlarmInv => (AlarmDequeue /\ (alarm_queue = <<>> \/ Head(alarm_queue).left > 0) => forfeited > 0)
  <2> SUFFICES ASSUME AlarmInv, AlarmDequeue, alarm_queue = <<>> \/ Head(alarm_queue).left > 0
               PROVE  forfeited > 0
    OBVIOUS
  <2>1. /\ alarm_queue \in Seq(Alarms) /\ Sorted(alarm_queue)
        /\ alarm_sema \in Nat /\ forfeited \in Nat /\ alarm_sema > 0
    BY InvParts DEF AlarmDequeue
  <2>2. PICK e \in Nat : FirstExpired(alarm_queue, e) /\ alarm_sema <= e + forfeited
    BY InvParts
  <2>3. e = 0
    <3>1. CASE alarm_queue = <<>>
      BY <2>2, <3>1 DEF FirstExpired
    <3>2. CASE alarm_queue # <<>> /\ Head(alarm_queue).left > 0
      <4>1. 1 \in 1 .. Len(alarm_queue) /\ Head(alarm_queue) = alarm_queue[1] /\ alarm_queue[1].left \in Int
        BY <2>1, <3>2, EmptySeq, HeadTailProperties, QueueTypes
      <4>2. ~(alarm_queue[1].left <= 0)
        BY <3>2, <4>1
      <4> QED
        BY <2>2, <4>1, <4>2 DEF FirstExpired
    <3> QED
      BY <3>1, <3>2
  <2> QED
    BY <2>1, <2>2, <2>3
<1> QED
  BY <1>1, AlarmInvariant, PTL DEF Spec, NeverEarlyUnlessForfeited

-----------------------------------------------------------------------------
(* When an alarm is passed over.                                            *)

(* The alarms that have expired, counted in this state and in the next.     *)
LEMMA JammedCounted ==
    ASSUME NEW q \in Seq(Alarms), q = alarm_queue, NEW e, FirstExpired(q, e),
           NEW p \in Seq(Alarms), p = alarm_queue', NEW f, FirstExpired(p, f)
    PROVE  /\ e \in Nat /\ f \in Nat
           /\ (Jammed <=> e > alarm_sema) /\ (Jammed' <=> f > alarm_sema')
           /\ (Expired = {} <=> e = 0)
<1>1. e \in Nat /\ f \in Nat
  BY LenProperties DEF FirstExpired
<1>2. Cardinality(Expired) = e /\ IsFiniteSet(Expired)
  BY ExpiredCount DEF Expired
<1>3. Cardinality({i \in DOMAIN p : p[i].left <= 0}) = f
  BY ExpiredCount
<1>4. Cardinality(Expired') = f
  BY <1>3 DEF Expired
<1>5. Expired = {} <=> e = 0
  BY <1>2, FS_EmptySet
<1> QED
  BY <1>1, <1>2, <1>4, <1>5 DEF Jammed

LEMMA JamStep ==
    ASSUME AlarmInv, [Next]_vars, ~Jammed, Jammed'
    PROVE  Tick /\ Expired # {}
<1>1. /\ alarm_queue \in Seq(Alarms) /\ Sorted(alarm_queue) /\ Once(alarm_queue) /\ Placed
      /\ alarm_sema \in Nat
  BY InvParts DEF AlarmInv
<1>2. PICK e \in Nat : FirstExpired(alarm_queue, e)
  BY InvParts
<1>3. PICK q \in Seq(Alarms) : q = alarm_queue
  BY <1>1
<1>4. PICK p : p = alarm_queue'
  OBVIOUS
<1>5. Sorted(q) /\ Once(q) /\ FirstExpired(q, e)
  BY <1>1, <1>2, <1>3
<1>6. ASSUME NEW f, p \in Seq(Alarms), FirstExpired(p, f), NEW n \in Nat, alarm_sema' = n, f <= n
      PROVE  FALSE
  BY <1>3, <1>4, <1>5, <1>6, JammedCounted
<1>7. e <= alarm_sema
  <2>1. AlarmInv'
    BY AlarmInvStep
  <2>2. PICK f \in Nat : alarm_queue' \in Seq(Alarms) /\ FirstExpired(alarm_queue', f)
    <3>1. alarm_queue' \in Seq(Alarms) /\ Sorted(alarm_queue')
      BY <2>1 DEF AlarmInv, TypeOK, Ordered, Alarms
    <3>2. PICK r \in Seq(Alarms) : r = alarm_queue'
      BY <3>1
    <3>3. PICK f \in 0 .. Len(r) : FirstExpired(r, f)
      BY <3>1, <3>2, SomeFirstExpired
    <3> QED
      BY <3>2, <3>3, LenProperties
  <2> QED
    BY <1>1, <1>3, <1>4, <1>5, <2>2, JammedCounted
<1>8. ASSUME NEW c \in Clients, NEW d \in Delays, Wait(c, d) PROVE FALSE
  <2> DEFINE a == [client |-> c, left |-> IF d = 0 THEN 1 ELSE d]
  <2>1. c \notin waiting /\ p = InsertSorted(q, a) /\ alarm_sema' = alarm_sema
    BY <1>3, <1>4, <1>8 DEF Wait, register_alarm
  <2>2. a \in Alarms /\ a.client = c /\ a.left > 0
    BY AlarmAssumption DEF Alarms
  <2> HIDE DEF a
  <2>3. ~Holds(q, a.client)
    BY <1>1, <1>3, <2>1, <2>2 DEF Placed
  <2>4. p \in Seq(Alarms) /\ FirstExpired(p, e)
    BY <1>5, <2>1, <2>2, <2>3, InsertKeeps
  <2> QED
    BY <1>1, <1>6, <1>7, <2>1, <2>4
<1>9. ASSUME NEW c \in Timers, deregister_alarm(c) PROVE FALSE
  <2> DEFINE due == \E i \in DOMAIN q : q[i].client = c /\ q[i].left <= 0
  <2>1. p = DeleteAlarm(q, c) /\ alarm_sema' = alarm_sema
    BY <1>3, <1>4, <1>9 DEF deregister_alarm
  <2>2. p \in Seq(Alarms) /\ FirstExpired(p, IF due THEN e - 1 ELSE e)
    BY <1>5, <2>1, DeleteKeeps
  <2> HIDE DEF due
  <2>3. (IF due THEN e - 1 ELSE e) <= alarm_sema
    BY <1>1, <1>7
  <2> QED
    BY <1>1, <1>6, <2>1, <2>2, <2>3
<1>10. CASE Tick
  <2>1. SUFFICES ASSUME Expired = {} PROVE FALSE
    BY <1>10
  <2>2. PICK r : r = Aged
    OBVIOUS
  <2>3. r = p /\ alarm_sema' = alarm_sema + Signals(r)
    BY <1>4, <1>10, <2>2 DEF Tick
  <2>4. /\ p \in Seq(Alarms) /\ Sorted(p) /\ Signals(p) \in Nat
        /\ \A f : FirstExpired(q, 0) /\ FirstExpired(p, f) => f = Signals(p)
    BY <1>3, <1>5, <2>2, <2>3, TickKeeps
  <2>5. PICK f \in 0 .. Len(p) : FirstExpired(p, f)
    BY <2>4, SomeFirstExpired
  <2>6. e = 0
    BY <1>3, <1>4, <1>5, <2>1, <2>4, <2>5, JammedCounted
  <2>7. f = Signals(p)
    BY <1>5, <2>4, <2>5, <2>6
  <2> QED
    BY <1>1, <1>6, <2>3, <2>4, <2>5, <2>7
<1>11. CASE AlarmDequeue
  <2>1. alarm_sema > 0 /\ alarm_sema' = alarm_sema - 1
    BY <1>11 DEF AlarmDequeue
  <2>2. CASE q = <<>>
    <3>1. p = q /\ e = 0
      BY <1>3, <1>4, <1>5, <1>11, <2>2 DEF AlarmDequeue, FirstExpired
    <3> QED
      BY <1>1, <1>5, <1>6, <2>1, <3>1
  <2>3. CASE q # <<>>
    <3> DEFINE h == Head(q)
    <3>1. p = Tail(q)
      BY <1>3, <1>4, <1>11, <2>3 DEF AlarmDequeue
    <3>2. /\ Len(q) > 0 /\ h = q[1] /\ h \in Alarms /\ p \in Seq(Alarms)
          /\ FirstExpired(p, IF h.left <= 0 THEN e - 1 ELSE e)
      BY <1>5, <2>3, <3>1, DequeueKeeps
    <3> HIDE DEF h
    <3>3. h.left <= 0 <=> e > 0
      <4>1. 1 \in 1 .. Len(q)
        BY <3>2, LenProperties
      <4> QED
        BY <1>2, <1>5, <3>2, <4>1 DEF FirstExpired
    <3>4. (IF h.left <= 0 THEN e - 1 ELSE e) <= alarm_sema - 1 /\ alarm_sema - 1 \in Nat
      BY <1>1, <1>7, <2>1, <3>3
    <3> QED
      BY <1>6, <2>1, <3>2, <3>4
  <2> QED
    BY <2>2, <2>3
<1>12. CASE AlarmCall \/ UNCHANGED vars
  <2>1. UNCHANGED <<alarm_queue, alarm_sema>>
    BY <1>12 DEF AlarmCall, vars
  <2> QED
    BY <1>1, <1>3, <1>4, <1>5, <1>6, <1>7, <2>1
<1> QED
  BY <1>8, <1>9, <1>10, <1>11, <1>12 DEF Next

(* An alarm is left without a signal only from a tick that finds the alarm  *)
(* thread late: no delay, insertion, deregistration or number of alarms due *)
(* at once can do it.                                                       *)
THEOREM JamsNeedALateThread == Spec => JamsStartLate
<1>1. AlarmInv /\ [Next]_vars => (~Jammed /\ Jammed' => Tick /\ Expired # {})
  BY JamStep
<1> QED
  BY <1>1, AlarmInvariant, PTL DEF Spec, JamsStartLate

=============================================================================
