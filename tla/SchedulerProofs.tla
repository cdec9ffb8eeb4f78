--------------------------- MODULE SchedulerProofs ---------------------------
(***************************************************************************)
(* The safety of the scheduler and its refinement of module Dispatcher,    *)
(* for every set of threads, number of levels and length of the levels.    *)
(*                                                                         *)
(* The invariant says what the queues hold: the threads that are ready,    *)
(* each once, in the queue of its own priority (Queues), and that the      *)
(* count of scheduler.c with the forks in their window is the number of    *)
(* these threads (Counted).  A dispatch is a step on that set: the running *)
(* thread may join it, and the thread that is chosen leaves it.            *)
(*                                                                         *)
(* The last part proves of module LinkedQueue that the lists the ready     *)
(* queues are made of are well formed and behave as sequences, for every   *)
(* finite memory: this is what lets Scheduler use sequences for them.      *)
(***************************************************************************)
EXTENDS Scheduler, LinkedQueue, SequenceTheorems, FiniteSetTheorems, FunctionTheorems,
        WellFoundedInduction, TLAPS

Holds(q, t) == \E i \in 1 .. Len(q) : q[i] = t

Once(q) == \A i, j \in 1 .. Len(q) : q[i] = q[j] => i = j

(* The queues lv hold the threads of R, each once and at its level in pr.   *)
Queues(lv, pr, R) ==
    /\ lv \in [Levels -> Seq(Threads)]
    /\ pr \in [Threads -> Levels]
    /\ R \subseteq Threads
    /\ \A l \in Levels : Once(lv[l])
    /\ \A l \in Levels, t \in Threads : Holds(lv[l], t) <=> t \in R /\ l = pr[t]

Ready == {t \in Threads : status[t] = "OK" /\ active_thread # t}

Counted == size + Cardinality(forking) = Cardinality(Ready)

Awake == active_thread \in Threads => status[active_thread] \in {"OK", "DESTROYED"}

SchedInv ==
    /\ SchedTypeOK
    /\ Queues(levels, priority, Ready)
    /\ Counted
    /\ Awake

-----------------------------------------------------------------------------
(* Numbers.                                                                 *)

LEMMA LeastNumber ==
    ASSUME NEW S \in SUBSET Nat, S # {}
    PROVE  \E m \in S : \A n \in S : m <= n
<1>1. \E m \in S : \A n \in S : ~ (<<n, m>> \in OpToRel(<, Nat))
  BY NatLessThanWellFounded, WFMin
<1>2. PICK m \in S : \A n \in S : ~ (<<n, m>> \in OpToRel(<, Nat))
  BY <1>1
<1>3. ASSUME NEW n \in S, n < m PROVE <<n, m>> \in OpToRel(<, Nat)
  BY <1>3 DEF OpToRel
<1>4. \A n \in S : ~ (n < m)
  BY <1>2, <1>3, Zenon
<1> QED
  BY <1>4

LEMMA Interval ==
    ASSUME NEW n \in Nat
    PROVE  IsFiniteSet(1 .. n) /\ Cardinality(1 .. n) = n
BY FS_Interval

(* The quota of a level, 2 ^ l, is the number of subsets of a set of l      *)
(* elements: which is how the provers know that it grows with the level.    *)
LEMMA Quota ==
    ASSUME NEW l \in Levels
    PROVE  2 ^ l \in 0 .. 2 ^ (SCHEDULER_LEVELS - 1)
<1> DEFINE top == SCHEDULER_LEVELS - 1
<1>1. l \in Nat /\ top \in Nat /\ l <= top
  BY SchedulerAssumption DEF Levels
<1>2. ASSUME NEW n \in Nat PROVE IsFiniteSet(SUBSET (1 .. n)) /\ Cardinality(SUBSET (1 .. n)) = 2 ^ n
  BY <1>2, Interval, FS_SUBSET
<1> HIDE DEF top
<1>3. SUBSET (1 .. l) \subseteq SUBSET (1 .. top)
  BY <1>1
<1>4. Cardinality(SUBSET (1 .. l)) <= Cardinality(SUBSET (1 .. top))
  BY <1>1, <1>2, <1>3, FS_Subset
<1>5. Cardinality(SUBSET (1 .. l)) \in Nat /\ Cardinality(SUBSET (1 .. top)) \in Nat
  BY <1>1, <1>2, FS_CardinalityType
<1>6. Cardinality(SUBSET (1 .. l)) = 2 ^ l /\ Cardinality(SUBSET (1 .. top)) = 2 ^ top
  BY <1>1, <1>2
<1> QED
  BY <1>4, <1>5, <1>6 DEF top

-----------------------------------------------------------------------------
(* The queues.                                                              *)

LEMMA Enqueued ==
    ASSUME NEW lv, NEW pr, NEW R, Queues(lv, pr, R),
           NEW t \in Threads \ R, NEW l \in Levels
    PROVE  Queues(multilevel_queue_enqueue(lv, l, t), [pr EXCEPT ![t] = l], R \cup {t})
<1> DEFINE lw == multilevel_queue_enqueue(lv, l, t)
           pw == [pr EXCEPT ![t] = l]
<1>1. /\ lv \in [Levels -> Seq(Threads)] /\ pr \in [Threads -> Levels] /\ R \subseteq Threads
      /\ \A m \in Levels : Once(lv[m])
      /\ \A m \in Levels, u \in Threads : Holds(lv[m], u) <=> u \in R /\ m = pr[u]
  BY DEF Queues
<1>2. PICK q \in Seq(Threads) : q = lv[l]
  BY <1>1
<1>3. PICK r : r = Append(q, t)
  OBVIOUS
<1>4. /\ r \in Seq(Threads) /\ Len(r) = Len(q) + 1 /\ r[Len(q) + 1] = t
      /\ \A i \in 1 .. Len(q) : r[i] = q[i] /\ Len(q) \in Nat
  BY <1>3, AppendProperties, LenProperties
<1>5. lw = [lv EXCEPT ![l] = r]
  BY <1>2, <1>3 DEF multilevel_queue_enqueue
<1>6. /\ lw \in [Levels -> Seq(Threads)] /\ pw \in [Threads -> Levels] /\ lw[l] = r /\ pw[t] = l
      /\ \A m \in Levels : m # l => lw[m] = lv[m]
      /\ \A u \in Threads : u # t => pw[u] = pr[u]
  BY <1>1, <1>4, <1>5
<1>7. Len(q) \in Nat
  BY LenProperties
<1>8. \A i \in 1 .. Len(q) : q[i] # t
  BY <1>1, <1>2 DEF Holds
<1>9. Once(q)
  BY <1>1, <1>2
<1>10. Once(r)
  <2> SUFFICES ASSUME NEW i \in 1 .. Len(r), NEW j \in 1 .. Len(r), r[i] = r[j] PROVE i = j
    BY DEF Once
  <2>1. CASE i = Len(q) + 1
    BY <2>1, <1>4, <1>7, <1>8
  <2>2. CASE j = Len(q) + 1
    BY <2>2, <1>4, <1>7, <1>8
  <2>3. CASE i \in 1 .. Len(q) /\ j \in 1 .. Len(q)
    BY <2>3, <1>4, <1>9 DEF Once
  <2> QED
    BY <2>1, <2>2, <2>3, <1>4, <1>7
<1>11. ASSUME NEW u \in Threads PROVE Holds(r, u) <=> Holds(q, u) \/ u = t
  BY <1>4, <1>7 DEF Holds
<1> HIDE DEF lw, pw
<1>12. ASSUME NEW m \in Levels PROVE Once(lw[m])
  BY <1>1, <1>6, <1>10
<1>13. ASSUME NEW m \in Levels, NEW u \in Threads
       PROVE  Holds(lw[m], u) <=> u \in R \cup {t} /\ m = pw[u]
  <2>1. CASE m = l
    BY <2>1, <1>1, <1>2, <1>6, <1>11
  <2>2. CASE m # l
    BY <2>2, <1>1, <1>6
  <2> QED
    BY <2>1, <2>2
<1> QED
  BY <1>1, <1>6, <1>12, <1>13 DEF Queues, lw, pw

(* The level of a thread that is not queued does not matter.                *)
LEMMA Relevelled ==
    ASSUME NEW lv, NEW pr, NEW R, Queues(lv, pr, R),
           NEW t \in Threads \ R, NEW l \in Levels
    PROVE  Queues(lv, [pr EXCEPT ![t] = l], R)
BY DEF Queues

LEMMA Dequeued ==
    ASSUME NEW lv, NEW pr, NEW R, Queues(lv, pr, R),
           NEW l \in Levels, lv[l] # <<>>
    PROVE  /\ Head(lv[l]) \in R
           /\ Queues([lv EXCEPT ![l] = Tail(@)], pr, R \ {Head(lv[l])})
<1>1. /\ lv \in [Levels -> Seq(Threads)] /\ pr \in [Threads -> Levels] /\ R \subseteq Threads
      /\ \A m \in Levels : Once(lv[m])
      /\ \A m \in Levels, u \in Threads : Holds(lv[m], u) <=> u \in R /\ m = pr[u]
  BY DEF Queues
<1>2. PICK q \in Seq(Threads) : q = lv[l]
  BY <1>1
<1>3. PICK r : r = Tail(q)
  OBVIOUS
<1>4. PICK t : t = Head(q)
  OBVIOUS
<1>5. /\ r \in Seq(Threads) /\ t \in Threads /\ Len(r) = Len(q) - 1 /\ t = q[1]
      /\ Len(q) \in Nat \ {0}
  BY <1>2, <1>3, <1>4, HeadTailProperties, LenProperties, EmptySeq
<1>6. \A i \in 1 .. Len(r) : r[i] = q[i + 1]
  BY <1>2, <1>3, <1>4, HeadTailProperties
<1>7. Once(q)
  BY <1>1, <1>2
<1>8. Once(r)
  <2> SUFFICES ASSUME NEW i \in 1 .. Len(r), NEW j \in 1 .. Len(r), r[i] = r[j] PROVE i = j
    BY DEF Once
  <2>1. q[i + 1] = q[j + 1] /\ i + 1 \in 1 .. Len(q) /\ j + 1 \in 1 .. Len(q)
    BY <1>5, <1>6
  <2>2. i + 1 = j + 1
    BY <2>1, <1>7 DEF Once
  <2> QED
    BY <2>2
<1>9. ASSUME NEW u \in Threads PROVE Holds(r, u) <=> Holds(q, u) /\ u # t
  <2>1. ASSUME NEW i \in 1 .. Len(r), r[i] = u PROVE Holds(q, u) /\ u # t
    <3>1. q[i + 1] = u /\ i + 1 \in 1 .. Len(q) /\ i + 1 # 1 /\ 1 \in 1 .. Len(q)
      BY <2>1, <1>5, <1>6
    <3> QED
      BY <3>1, <1>5, <1>7 DEF Holds, Once
  <2>2. ASSUME NEW i \in 1 .. Len(q), q[i] = u, u # t PROVE Holds(r, u)
    <3>1. i # 1
      BY <2>2, <1>5
    <3>2. PICK k : k = i - 1
      OBVIOUS
    <3>3. k \in 1 .. Len(r) /\ i = k + 1
      BY <3>1, <3>2, <1>5
    <3>4. r[k] = u
      BY <3>3, <1>6, <2>2
    <3> QED
      BY <3>3, <3>4 DEF Holds
  <2> QED
    BY <2>1, <2>2 DEF Holds
<1>10. t \in R /\ l = pr[t]
  <2>1. Holds(q, t)
    BY <1>5 DEF Holds
  <2> QED
    BY <2>1, <1>1, <1>2, <1>5
<1> DEFINE lw == [lv EXCEPT ![l] = Tail(@)]
<1>11. /\ lw \in [Levels -> Seq(Threads)] /\ lw[l] = r
       /\ \A m \in Levels : m # l => lw[m] = lv[m]
  BY <1>1, <1>2, <1>3, <1>5
<1> HIDE DEF lw
<1>12. ASSUME NEW m \in Levels PROVE Once(lw[m])
  BY <1>1, <1>8, <1>11
<1>13. ASSUME NEW m \in Levels, NEW u \in Threads
       PROVE  Holds(lw[m], u) <=> u \in R \ {t} /\ m = pr[u]
  <2>1. CASE m = l
    BY <2>1, <1>1, <1>2, <1>9, <1>11
  <2>2. CASE m # l
    BY <2>2, <1>1, <1>10, <1>11
  <2> QED
    BY <2>1, <2>2
<1>14. Queues(lw, pr, R \ {t})
  BY <1>1, <1>11, <1>12, <1>13 DEF Queues
<1> QED
  BY <1>2, <1>4, <1>10, <1>14 DEF lw

(* The slots of queues, and the entries of one thread among them.           *)
SlotsOf(lv) == UNION {{l} \X DOMAIN lv[l] : l \in Levels}

EntriesOf(lv, t) == Cardinality({s \in SlotsOf(lv) : lv[s[1]][s[2]] = t})

LEMMA SlotIsPosition ==
    ASSUME NEW lv \in [Levels -> Seq(Threads)], NEW s
    PROVE  s \in SlotsOf(lv) <=> \E l \in Levels, i \in Nat : i \in 1 .. Len(lv[l]) /\ s = <<l, i>>
<1>1. \A l \in Levels : DOMAIN lv[l] = 1 .. Len(lv[l])
  BY LenProperties
<1> QED
  BY <1>1 DEF SlotsOf

(* There is one slot for each thread that is queued.                        *)
LEMMA SlotsAreThreads ==
    ASSUME NEW lv, NEW pr, NEW R, Queues(lv, pr, R)
    PROVE  Cardinality(SlotsOf(lv)) = Cardinality(R)
<1>1. /\ lv \in [Levels -> Seq(Threads)] /\ R \subseteq Threads
      /\ \A m \in Levels : Once(lv[m])
      /\ \A m \in Levels, u \in Threads : Holds(lv[m], u) <=> u \in R /\ m = pr[u]
  BY DEF Queues
<1>2. \A l \in Levels : \A i \in 1 .. Len(lv[l]) : lv[l][i] \in R /\ pr[lv[l][i]] = l
  <2> SUFFICES ASSUME NEW l \in Levels, NEW i \in 1 .. Len(lv[l])
               PROVE  lv[l][i] \in R /\ pr[lv[l][i]] = l
    OBVIOUS
  <2>1. lv[l][i] \in Threads
    BY <1>1, ElementOfSeq
  <2>2. Holds(lv[l], lv[l][i])
    BY DEF Holds
  <2> QED
    BY <2>1, <2>2, <1>1
<1> DEFINE f == [s \in SlotsOf(lv) |-> lv[s[1]][s[2]]]
<1>3. f \in [SlotsOf(lv) -> R]
  BY <1>1, <1>2, SlotIsPosition
<1>4. ASSUME NEW s \in SlotsOf(lv), NEW u \in SlotsOf(lv), f[s] = f[u] PROVE s = u
  <2>1. PICK l \in Levels, i \in Nat : i \in 1 .. Len(lv[l]) /\ s = <<l, i>>
    BY <1>1, SlotIsPosition
  <2>2. PICK m \in Levels, j \in Nat : j \in 1 .. Len(lv[m]) /\ u = <<m, j>>
    BY <1>1, SlotIsPosition
  <2>3. lv[l][i] = lv[m][j]
    BY <1>4, <2>1, <2>2
  <2>4. pr[lv[l][i]] = l /\ pr[lv[m][j]] = m
    BY <2>1, <2>2, <1>2
  <2>5. l = m
    BY <2>3, <2>4
  <2>6. Once(lv[l]) /\ i \in 1 .. Len(lv[l]) /\ j \in 1 .. Len(lv[l]) /\ lv[l][i] = lv[l][j]
    BY <2>1, <2>2, <2>3, <2>5, <1>1
  <2>7. i = j
    BY <2>6 DEF Once
  <2> QED
    BY <2>1, <2>2, <2>5, <2>7
<1>5. ASSUME NEW t \in R PROVE \E s \in SlotsOf(lv) : f[s] = t
  <2>1. PICK l \in Levels : l = pr[t]
    BY DEF Queues
  <2>2. PICK i \in 1 .. Len(lv[l]) : lv[l][i] = t
    BY <2>1, <1>1 DEF Holds
  <2>3. <<l, i>> \in SlotsOf(lv)
    BY <1>1, SlotIsPosition
  <2> QED
    BY <2>2, <2>3
<1> HIDE DEF f
<1>6. f \in Bijection(SlotsOf(lv), R)
  BY <1>3, <1>4, <1>5, Fun_IsBij
<1>7. IsFiniteSet(R)
  BY <1>1, SchedulerAssumption, FS_Subset
<1>8. ExistsBijection(SlotsOf(lv), R)
  BY <1>6 DEF ExistsBijection
<1>9. ExistsBijection(R, SlotsOf(lv))
  BY <1>8, Fun_ExistsBijSymmetric
<1> QED
  BY <1>7, <1>9, FS_Bijection

LEMMA OneEntry ==
    ASSUME NEW lv, NEW pr, NEW R, Queues(lv, pr, R), NEW t \in Threads
    PROVE  EntriesOf(lv, t) = IF t \in R THEN 1 ELSE 0
<1>1. /\ lv \in [Levels -> Seq(Threads)] /\ pr \in [Threads -> Levels]
      /\ \A m \in Levels : Once(lv[m])
      /\ \A m \in Levels, u \in Threads : Holds(lv[m], u) <=> u \in R /\ m = pr[u]
  BY DEF Queues
<1> DEFINE E == {s \in SlotsOf(lv) : lv[s[1]][s[2]] = t}
<1>2. CASE t \in R
  <2> PICK l \in Levels : l = pr[t]
    BY <1>1
  <2>1. PICK i \in Nat : i \in 1 .. Len(lv[l]) /\ lv[l][i] = t
    BY <1>1, <1>2 DEF Holds
  <2>2. <<l, i>> \in SlotsOf(lv)
    BY <2>1, <1>1, SlotIsPosition
  <2>3. ASSUME NEW s \in E PROVE s = <<l, i>>
    <3>1. PICK m \in Levels, j \in Nat : j \in 1 .. Len(lv[m]) /\ s = <<m, j>>
      BY <1>1, SlotIsPosition
    <3>2. lv[m][j] = t
      BY <3>1
    <3>3. Holds(lv[m], t)
      BY <3>1, <3>2 DEF Holds
    <3>4. m = l
      BY <3>3, <1>1
    <3>5. Once(lv[l]) /\ lv[l][j] = lv[l][i] /\ j \in 1 .. Len(lv[l])
      BY <2>1, <3>1, <3>2, <3>4, <1>1
    <3>6. j = i
      BY <2>1, <3>5 DEF Once
    <3> QED
      BY <3>1, <3>4, <3>6
  <2>4. E = {<<l, i>>}
    BY <2>1, <2>2, <2>3
  <2> QED
    BY <1>2, <2>4, FS_Singleton DEF EntriesOf
<1>3. CASE t \notin R
  <2>1. E = {}
    <3> SUFFICES ASSUME NEW s \in E PROVE FALSE
      OBVIOUS
    <3>1. PICK m \in Levels, j \in Nat : j \in 1 .. Len(lv[m]) /\ s = <<m, j>>
      BY <1>1, SlotIsPosition, ZenonT(30)
    <3>2. lv[m][j] # t
      BY <3>1, <1>1, <1>3 DEF Holds
    <3> QED
      BY <3>1, <3>2
  <2> QED
    BY <1>3, <2>1, FS_EmptySet DEF EntriesOf
<1> QED
  BY <1>2, <1>3
-----------------------------------------------------------------------------
(* The dispatch.                                                            *)

(* The idle thread when the count is zero, a thread of R otherwise.         *)
Chosen(R, sz) ==
    \/ sz = 0 /\ active_thread' = Idle /\ size' = sz
    \/ sz > 0 /\ active_thread' \in R /\ size' = sz - 1

LEMMA Dispatched ==
    ASSUME NEW lv, NEW pr, NEW R, Queues(lv, pr, R), NEW sz, NEW from,
           scheduler_next_thread(lv, sz, from)
    PROVE  Chosen(R, sz) /\ Queues(levels', pr, R \ {active_thread'})
<1>1. CASE sz = 0 /\ active_thread' = Idle /\ levels' = lv /\ size' = sz
  <2>1. R \ {active_thread'} = R
    BY <1>1, SchedulerAssumption DEF Queues
  <2> QED
    BY <1>1, <2>1 DEF Chosen
<1>2. CASE \E l \in Levels :
             /\ sz > 0
             /\ FirstNonEmpty(lv, from, l)
             /\ active_thread' = Head(lv[l])
             /\ levels' = [lv EXCEPT ![l] = Tail(@)]
             /\ size' = sz - 1
  <2>1. PICK l \in Levels :
             /\ sz > 0
             /\ FirstNonEmpty(lv, from, l)
             /\ active_thread' = Head(lv[l])
             /\ levels' = [lv EXCEPT ![l] = Tail(@)]
             /\ size' = sz - 1
    BY <1>2
  <2>2. lv[l] # <<>>
    BY <2>1 DEF FirstNonEmpty
  <2>3. /\ Head(lv[l]) \in R
        /\ Queues([lv EXCEPT ![l] = Tail(@)], pr, R \ {Head(lv[l])})
    BY <2>2, Dequeued
  <2> QED
    BY <2>1, <2>3 DEF Chosen
<1> QED
  BY <1>1, <1>2 DEF scheduler_next_thread

LEMMA ReprioritisedIsLevel ==
    ASSUME NEW p \in Levels, NEW expired \in BOOLEAN
    PROVE  Reprioritised(p, expired) \in Levels
BY SchedulerAssumption DEF Levels, Reprioritised

(* The threads that are candidates of a dispatch, and their number as the   *)
(* dispatch counts them.                                                    *)
Candidates(back) == IF back THEN Ready \cup {active_thread} ELSE Ready

CandidateCount(back) == IF back THEN size + 1 ELSE size

LEMMA Yielded ==
    ASSUME SchedInv, NEW back \in BOOLEAN, NEW from, NEW remaining,
           minithread_yield(back, from, remaining),
           back => active_thread \in Threads
    PROVE  /\ Chosen(Candidates(back), CandidateCount(back))
           /\ Queues(levels', priority', Candidates(back) \ {active_thread'})
<1>1. /\ Queues(levels, priority, Ready) /\ active_thread \notin Ready
      /\ active_thread \in Threads \cup {Idle} /\ priority \in [Threads -> Levels]
  BY DEF SchedInv, SchedTypeOK, Ready
<1>2. CASE active_thread = Idle
  <2>1. ~back /\ scheduler_next_thread(levels, size, from) /\ priority' = priority
    BY <1>2, SchedulerAssumption DEF minithread_yield
  <2> QED
    BY <2>1, <1>1, Dispatched DEF Candidates, CandidateCount
<1>3. CASE active_thread # Idle
  <2> PICK self \in Threads \ Ready : self = active_thread
    BY <1>1, <1>3
  <2>1. PICK p : p = Reprioritised(priority[self], scheduler_quota_expired(remaining))
    OBVIOUS
  <2>2. p \in Levels
    BY <1>1, <2>1, ReprioritisedIsLevel DEF scheduler_quota_expired
  <2>3. priority' = [priority EXCEPT ![self] = p]
    BY <1>3, <2>1 DEF minithread_yield
  <2>4. CASE back
    <3>1. scheduler_next_thread(multilevel_queue_enqueue(levels, p, self), size + 1, from)
      BY <1>3, <2>1, <2>4 DEF minithread_yield
    <3>2. Queues(multilevel_queue_enqueue(levels, p, self), priority', Ready \cup {self})
      BY <1>1, <2>2, <2>3, Enqueued
    <3> QED
      BY <2>4, <3>1, <3>2, Dispatched DEF Candidates, CandidateCount
  <2>5. CASE ~back
    <3>1. scheduler_next_thread(levels, size, from)
      BY <1>3, <2>1, <2>5 DEF minithread_yield
    <3>2. Queues(levels, priority', Ready)
      BY <1>1, <2>2, <2>3, Relevelled
    <3> QED
      BY <2>5, <3>1, <3>2, Dispatched DEF Candidates, CandidateCount
  <2> QED
    BY <2>4, <2>5
<1> QED
  BY <1>2, <1>3

(* After a dispatch the ready threads are the candidates but for the one    *)
(* that was chosen, and the count is right.                                 *)
LEMMA DispatchKeepsCount ==
    ASSUME SchedInv, NEW back \in BOOLEAN,
           back => active_thread \in Threads,
           Chosen(Candidates(back), CandidateCount(back)),
           {t \in Threads : status'[t] = "OK"} = Candidates(back),
           forking' = forking
    PROVE  /\ Ready' = Candidates(back) \ {active_thread'}
           /\ active_thread' \in Threads \cup {Idle}
           /\ size' \in Nat
           /\ Counted'
<1>1. /\ Ready \subseteq Threads /\ active_thread \notin Ready /\ size \in Nat
      /\ forking \subseteq Threads
      /\ size + Cardinality(forking) = Cardinality(Ready)
  BY DEF SchedInv, SchedTypeOK, Ready, Counted
<1>2. IsFiniteSet(Ready) /\ IsFiniteSet(forking)
  BY <1>1, SchedulerAssumption, FS_Subset
<1>3. PICK k \in Nat : k = Cardinality(forking)
  BY <1>2, FS_CardinalityType
<1>4. PICK R : R = Candidates(back)
  OBVIOUS
<1>5. /\ R \subseteq Threads /\ IsFiniteSet(R)
      /\ CandidateCount(back) \in Nat
      /\ CandidateCount(back) + k = Cardinality(R)
  <2>1. CASE back
    <3>1. IsFiniteSet(Ready \cup {active_thread}) /\ Cardinality(Ready \cup {active_thread}) = Cardinality(Ready) + 1
      BY <1>1, <1>2, FS_AddElement
    <3> QED
      BY <2>1, <3>1, <1>1, <1>3, <1>4 DEF Candidates, CandidateCount
  <2>2. CASE ~back
    BY <2>2, <1>1, <1>2, <1>3, <1>4 DEF Candidates, CandidateCount
  <2> QED
    BY <2>1, <2>2
<1>6. Ready' = R \ {active_thread'}
  BY <1>4, <1>5 DEF Ready
<1>7. CASE active_thread' = Idle /\ size' = CandidateCount(back)
  <2>1. R \ {active_thread'} = R
    BY <1>5, <1>7, SchedulerAssumption
  <2> QED
    BY <1>3, <1>4, <1>5, <1>6, <1>7, <2>1 DEF Counted
<1>8. CASE CandidateCount(back) > 0 /\ active_thread' \in R /\ size' = CandidateCount(back) - 1
  <2>1. Cardinality(R \ {active_thread'}) = Cardinality(R) - 1
    BY <1>5, <1>8, FS_RemoveElement
  <2>2. Cardinality(R) \in Nat
    BY <1>5, FS_CardinalityType
  <2> QED
    BY <1>3, <1>4, <1>5, <1>6, <1>8, <2>1, <2>2 DEF Counted
<1> QED
  BY <1>4, <1>7, <1>8 DEF Chosen
-----------------------------------------------------------------------------
(* The invariant.                                                           *)

LEMMA InvAtInit == SchedInit => SchedInv
<1> SUFFICES ASSUME SchedInit PROVE SchedInv
  OBVIOUS
<1> USE DEF SchedInit
<1>1. /\ BootOrder \in Seq(Threads \ {Main}) /\ IsInjective(BootOrder)
      /\ DOMAIN BootOrder = 1 .. Len(BootOrder) /\ Len(BootOrder) \in Nat
  BY SchedulerAssumption, LenProperties
<1>2. BootOrder \in Seq(Threads) /\ \A i \in 1 .. Len(BootOrder) : BootOrder[i] \in Threads \ {Main}
  BY <1>1
<1>3. Ready = Range(BootOrder)
  BY <1>1, <1>2 DEF Ready, Range
<1>4. 0 \in Levels /\ TICKS_LEVEL[0] \in Nat
  BY SchedulerAssumption DEF Levels
<1>5. 1 \in 0 .. 2 ^ (SCHEDULER_LEVELS - 1)
  <2>1. 2 ^ 0 \in 0 .. 2 ^ (SCHEDULER_LEVELS - 1)
    BY <1>4, Quota
  <2>2. 2 ^ 0 = 1
    OBVIOUS
  <2> QED
    BY <2>1, <2>2
<1>6. <<>> \in Seq(Threads) /\ Len(<<>>) = 0
  OBVIOUS
<1>7. SchedTypeOK
  BY <1>1, <1>2, <1>4, <1>5, <1>6, SchedulerAssumption DEF SchedTypeOK
<1>8. Queues(levels, priority, Ready)
  <2>1. \A l \in Levels : Once(levels[l])
    BY <1>1, <1>6 DEF Once, IsInjective
  <2>2. \A l \in Levels, t \in Threads : Holds(levels[l], t) <=> t \in Ready /\ l = priority[t]
    BY <1>1, <1>3, <1>4, <1>6 DEF Holds, Range
  <2> QED
    BY <1>7, <2>1, <2>2 DEF Queues, SchedTypeOK, Ready
<1>9. Counted
  <2>1. BootOrder \in [1 .. Len(BootOrder) -> Ready]
    BY <1>1, <1>2, <1>3 DEF Range
  <2>2. \A i, j \in 1 .. Len(BootOrder) : BootOrder[i] = BootOrder[j] => i = j
    BY <1>1 DEF IsInjective
  <2>3. \A t \in Ready : \E i \in 1 .. Len(BootOrder) : BootOrder[i] = t
    BY <1>1, <1>3 DEF Range
  <2>4. BootOrder \in Bijection(1 .. Len(BootOrder), Ready)
    BY <2>1, <2>2, <2>3, Fun_IsBij
  <2>5. ExistsBijection(1 .. Len(BootOrder), Ready)
    BY <2>4 DEF ExistsBijection
  <2> PICK n \in Nat : n = Len(BootOrder)
    BY <1>1
  <2>6. IsFiniteSet(1 .. n) /\ Cardinality(1 .. n) = n
    BY Interval
  <2>7. Cardinality(Ready) = Len(BootOrder)
    BY <2>5, <2>6, FS_Bijection
  <2> QED
    BY <1>1, <2>7, FS_EmptySet DEF Counted
<1> QED
  BY <1>7, <1>8, <1>9 DEF SchedInv, Awake

(* The clock.                                                               *)
ClockTypeOK ==
    /\ current_level \in Levels
    /\ thread_ticks_remaining \in 0 .. 2 ^ (SCHEDULER_LEVELS - 1)
    /\ level_ticks_remaining \in 0 .. TICKS_LEVEL[current_level]

LEMMA ClockAdvances == ClockTypeOK /\ scheduler_advance => ClockTypeOK'
<1> SUFFICES ASSUME ClockTypeOK, scheduler_advance PROVE ClockTypeOK'
  OBVIOUS
<1>1. current_level' \in Levels /\ level_ticks_remaining' \in 0 .. TICKS_LEVEL[current_level']
  <2>1. CASE level_ticks_remaining > 0
    BY <2>1, SchedulerAssumption DEF ClockTypeOK, scheduler_advance, Levels
  <2>2. CASE ~(level_ticks_remaining > 0)
    <3>1. current_level' \in Levels
      BY <2>2, SchedulerAssumption DEF ClockTypeOK, scheduler_advance, Levels
    <3>2. TICKS_LEVEL[current_level'] \in Nat
      BY <3>1, SchedulerAssumption
    <3> QED
      BY <2>2, <3>1, <3>2 DEF scheduler_advance
  <2> QED
    BY <2>1, <2>2
<1>2. 2 ^ (current_level') \in 0 .. 2 ^ (SCHEDULER_LEVELS - 1)
  BY <1>1, Quota
<1>3. thread_ticks_remaining' \in 0 .. 2 ^ (SCHEDULER_LEVELS - 1)
  <2> PICK top : top = 2 ^ (SCHEDULER_LEVELS - 1)
    OBVIOUS
  <2> QED
    BY <1>2 DEF ClockTypeOK, scheduler_advance
<1> QED
  BY <1>1, <1>3 DEF ClockTypeOK

LEMMA InvFromParts ==
    ASSUME active_thread' \in Threads \cup {Idle},
           status' \in [Threads -> {"unborn", "OK", "SLEEPING", "DESTROYED"}],
           size' \in Nat,
           forking' \subseteq Threads,
           Queues(levels', priority', Ready'),
           ClockTypeOK',
           Counted',
           Awake'
    PROVE  SchedInv'
BY DEF SchedInv, SchedTypeOK, ClockTypeOK, Queues

(* What a dispatch, of whatever kind, does to the ready threads.            *)
LEMMA DispatchStep ==
    ASSUME SchedInv, NEW back \in BOOLEAN, NEW from, NEW remaining,
           minithread_yield(back, from, remaining),
           back => active_thread \in Threads,
           status' \in [Threads -> {"unborn", "OK", "SLEEPING", "DESTROYED"}],
           {t \in Threads : status'[t] = "OK"} = Candidates(back),
           forking' = forking,
           ClockTypeOK'
    PROVE  /\ SchedInv'
           /\ Chosen(Candidates(back), CandidateCount(back))
           /\ Ready' = Candidates(back) \ {active_thread'}
<1>1. /\ Chosen(Candidates(back), CandidateCount(back))
      /\ Queues(levels', priority', Candidates(back) \ {active_thread'})
  BY Yielded
<1>2. /\ Ready' = Candidates(back) \ {active_thread'}
      /\ active_thread' \in Threads \cup {Idle}
      /\ size' \in Nat
      /\ Counted'
  BY <1>1, DispatchKeepsCount
<1>3. Queues(levels', priority', Ready')
  BY <1>1, <1>2
<1>4. forking' \subseteq Threads
  BY DEF SchedInv, SchedTypeOK
<1>5. Awake'
  BY <1>1, SchedulerAssumption DEF Chosen, Awake
<1> QED
  BY <1>1, <1>2, <1>3, <1>4, <1>5, InvFromParts

(* What a thread that becomes ready does to them.                           *)
LEMMA ReadyStep ==
    ASSUME SchedInv, NEW t \in Threads, status[t] # "OK",
           status' = [status EXCEPT ![t] = "OK"],
           levels' = multilevel_queue_enqueue(levels, priority[t], t),
           priority' = priority, active_thread' = active_thread,
           active_thread # t
    PROVE  /\ Ready' = Ready \cup {t} /\ t \notin Ready
           /\ Queues(levels', priority', Ready')
           /\ Cardinality(Ready') = Cardinality(Ready) + 1
<1>1. /\ status \in [Threads -> {"unborn", "OK", "SLEEPING", "DESTROYED"}]
      /\ priority \in [Threads -> Levels] /\ Queues(levels, priority, Ready)
  BY DEF SchedInv, SchedTypeOK
<1>2. Ready' = Ready \cup {t} /\ t \notin Ready
  BY <1>1 DEF Ready
<1>3. [priority EXCEPT ![t] = priority[t]] = priority /\ priority[t] \in Levels
  BY <1>1
<1>4. PICK l \in Levels : l = priority[t]
  BY <1>3
<1>5. Queues(multilevel_queue_enqueue(levels, l, t), [priority EXCEPT ![t] = l], Ready \cup {t})
  BY <1>1, <1>2, Enqueued
<1>6. IsFiniteSet(Ready)
  BY SchedulerAssumption, FS_Subset DEF Ready
<1> QED
  BY <1>2, <1>3, <1>4, <1>5, <1>6, FS_AddElement

LEMMA InvIsInductive == SchedInv /\ [SchedNext]_schedVars => SchedInv'
<1> SUFFICES ASSUME SchedInv, [SchedNext]_schedVars PROVE SchedInv'
  OBVIOUS
<1>1. /\ SchedTypeOK /\ Queues(levels, priority, Ready) /\ Counted /\ Awake /\ ClockTypeOK
      /\ status \in [Threads -> {"unborn", "OK", "SLEEPING", "DESTROYED"}]
      /\ active_thread \in Threads \cup {Idle} /\ size \in Nat /\ forking \subseteq Threads
  BY DEF SchedInv, SchedTypeOK, ClockTypeOK
<1>2. CASE Yield
  <2>1. {t \in Threads : status'[t] = "OK"} = Candidates(Runnable) /\ ClockTypeOK'
    BY <1>1, <1>2 DEF Yield, Candidates, Ready, Runnable, ClockTypeOK, clockVars
  <2> QED
    BY <1>1, <1>2, <2>1, DispatchStep DEF Yield, Runnable
<1>3. CASE Stop
  <2>1. {t \in Threads : status'[t] = "OK"} = Candidates(FALSE) /\ ClockTypeOK'
    BY <1>1, <1>3 DEF Stop, Candidates, Ready, Runnable, ClockTypeOK, clockVars
  <2>2. status' \in [Threads -> {"unborn", "OK", "SLEEPING", "DESTROYED"}]
    BY <1>1, <1>3 DEF Stop
  <2> QED
    BY <1>1, <1>3, <2>1, <2>2, DispatchStep DEF Stop
<1>4. CASE Exit
  <2>1. Ready' = Ready
    BY <1>1, <1>4 DEF Exit, Ready
  <2>2. /\ status' \in [Threads -> {"unborn", "OK", "SLEEPING", "DESTROYED"}]
        /\ ClockTypeOK' /\ Awake' /\ Counted'
    BY <1>1, <1>4, <2>1 DEF Exit, ClockTypeOK, clockVars, Awake, Runnable, Counted
  <2> QED
    BY <1>1, <1>4, <2>1, <2>2, InvFromParts DEF Exit
<1>5. ASSUME NEW t \in Threads, Wake(t) PROVE SchedInv'
  <2>1. status[t] # "OK" /\ active_thread # t
    BY <1>1, <1>5 DEF Wake, Awake
  <2>2. /\ Ready' = Ready \cup {t} /\ t \notin Ready
        /\ Queues(levels', priority', Ready')
        /\ Cardinality(Ready') = Cardinality(Ready) + 1
    BY <2>1, <1>5, ReadyStep DEF Wake
  <2>3. Counted' /\ size' \in Nat
    <3>1. IsFiniteSet(forking)
      BY <1>1, SchedulerAssumption, FS_Subset
    <3>2. Cardinality(forking) \in Nat
      BY <3>1, FS_CardinalityType
    <3> QED
      BY <1>1, <1>5, <2>2, <3>2 DEF Wake, Counted
  <2>4. /\ status' \in [Threads -> {"unborn", "OK", "SLEEPING", "DESTROYED"}]
        /\ ClockTypeOK' /\ Awake'
    BY <1>1, <1>5 DEF Wake, ClockTypeOK, clockVars, Awake
  <2> QED
    BY <1>1, <1>5, <2>2, <2>3, <2>4, InvFromParts DEF Wake
<1>6. ASSUME NEW t \in Threads, ForkAppend(t) PROVE SchedInv'
  <2>1. status[t] # "OK" /\ active_thread # t
    BY <1>1, <1>6 DEF ForkAppend, Runnable
  <2>2. /\ Ready' = Ready \cup {t} /\ t \notin Ready
        /\ Queues(levels', priority', Ready')
        /\ Cardinality(Ready') = Cardinality(Ready) + 1
    BY <2>1, <1>6, ReadyStep DEF ForkAppend
  <2>3. forking' \subseteq Threads /\ Counted' /\ size' \in Nat
    <3>1. IsFiniteSet(forking)
      BY <1>1, SchedulerAssumption, FS_Subset
    <3>2. active_thread \in Threads \ forking /\ forking' = forking \cup {active_thread}
      BY <1>6 DEF ForkAppend, Runnable
    <3>3. Cardinality(forking) \in Nat /\ Cardinality(forking') = Cardinality(forking) + 1
      BY <3>1, <3>2, FS_CardinalityType, FS_AddElement
    <3> QED
      BY <1>1, <1>6, <2>2, <3>2, <3>3 DEF ForkAppend, Counted
  <2>4. /\ status' \in [Threads -> {"unborn", "OK", "SLEEPING", "DESTROYED"}]
        /\ ClockTypeOK' /\ Awake'
    BY <1>1, <1>6 DEF ForkAppend, ClockTypeOK, clockVars, Awake
  <2> QED
    BY <1>1, <1>6, <2>2, <2>3, <2>4, InvFromParts DEF ForkAppend
<1>7. CASE ForkCount
  <2>1. Ready' = Ready
    BY <1>7 DEF ForkCount, Ready
  <2>2. forking' \subseteq Threads /\ Counted' /\ size' \in Nat
    <3>1. IsFiniteSet(forking)
      BY <1>1, SchedulerAssumption, FS_Subset
    <3>2. active_thread \in forking /\ forking' = forking \ {active_thread}
      BY <1>7 DEF ForkCount
    <3>3. Cardinality(forking) \in Nat /\ Cardinality(forking') = Cardinality(forking) - 1
      BY <3>1, <3>2, FS_CardinalityType, FS_RemoveElement
    <3> QED
      BY <1>1, <1>7, <2>1, <3>2, <3>3 DEF ForkCount, Counted
  <2>3. ClockTypeOK' /\ Awake'
    BY <1>1, <1>7 DEF ForkCount, ClockTypeOK, clockVars, Awake
  <2> QED
    BY <1>1, <1>7, <2>1, <2>2, <2>3, InvFromParts DEF ForkCount
<1>8. CASE Tick
  <2>1. ClockTypeOK'
    BY <1>1, <1>8, ClockAdvances DEF Tick
  <2>2. CASE scheduler_quota_expired(thread_ticks_remaining')
    <3>1. {t \in Threads : status'[t] = "OK"} = Candidates(Runnable)
      BY <1>1, <1>8 DEF Tick, Candidates, Ready, Runnable
    <3>2. minithread_yield(Runnable, current_level', thread_ticks_remaining')
      BY <1>8, <2>2 DEF Tick
    <3> QED
      BY <1>1, <1>8, <2>1, <3>1, <3>2, DispatchStep DEF Tick, Runnable
  <2>3. CASE ~scheduler_quota_expired(thread_ticks_remaining')
    <3>1. /\ UNCHANGED <<active_thread, size, priority, levels>>
          /\ UNCHANGED <<status, forking>>
      BY <1>8, <2>3 DEF Tick
    <3> QED
      BY <1>1, <2>1, <3>1, InvFromParts DEF Ready, Counted, Awake
  <2> QED
    BY <2>2, <2>3
<1>9. CASE UNCHANGED schedVars
  BY <1>1, <1>9, InvFromParts DEF schedVars, Ready, Counted, Awake, ClockTypeOK
<1> QED
  BY <1>2, <1>3, <1>4, <1>5, <1>6, <1>7, <1>8, <1>9 DEF SchedNext

THEOREM SchedInvariant == SchedSpec => []SchedInv
<1>1. SchedInit => SchedInv
  BY InvAtInit
<1>2. SchedInv /\ [SchedNext]_schedVars => SchedInv'
  BY InvIsInductive
<1> QED
  BY <1>1, <1>2, PTL DEF SchedSpec

-----------------------------------------------------------------------------
(* The properties.                                                          *)

LEMMA EntriesOfReady ==
    ASSUME SchedInv, NEW t \in Threads
    PROVE  Entries(t) = IF t \in Ready THEN 1 ELSE 0
BY OneEntry DEF SchedInv, Entries, Slots, EntriesOf, SlotsOf

(* The scheduler's variables keep their types; a quota never exceeds that   *)
(* of the lowest level (scheduler_advance, minithread_yield).               *)
THEOREM SchedTyping == SchedSpec => []SchedTypeOK
<1>1. SchedInv => SchedTypeOK
  BY DEF SchedInv
<1> QED
  BY <1>1, SchedInvariant, PTL

(* Whatever the mix of yields, preemptions, wake-ups and forks, a thread    *)
(* that may run is on the processor or once on the queue of its level, and  *)
(* any other thread on none.                                                *)
THEOREM ThreadsAreInOnePlace == SchedSpec => []OnePlace
<1>1. SchedInv => OnePlace
  <2> SUFFICES ASSUME SchedInv, NEW t \in Threads
               PROVE  /\ Entries(t) = IF status[t] = "OK"
                                      THEN 1 - (IF active_thread = t THEN 1 ELSE 0) ELSE 0
                      /\ \A l \in Levels : t \in Range(levels[l]) => l = priority[t]
    BY DEF OnePlace
  <2>1. Entries(t) = IF t \in Ready THEN 1 ELSE 0
    BY EntriesOfReady
  <2>2. t \in Ready <=> status[t] = "OK" /\ active_thread # t
    BY DEF Ready
  <2>3. ASSUME NEW l \in Levels, t \in Range(levels[l]) PROVE l = priority[t]
    <3>1. levels[l] \in Seq(Threads)
      BY DEF SchedInv, Queues
    <3>2. Holds(levels[l], t)
      BY <2>3, <3>1, LenProperties DEF Holds, Range
    <3> QED
      BY <3>2 DEF SchedInv, Queues
  <2> QED
    BY <2>1, <2>2, <2>3
<1> QED
  BY <1>1, SchedInvariant, PTL

(* The count of scheduler.c and the forks between their append and their    *)
(* count make up the number of entries, at every moment.                    *)
THEOREM SizeIsAccounted == SchedSpec => []SizeAccounting
<1>1. SchedInv => SizeAccounting
  BY SlotsAreThreads DEF SchedInv, Counted, SizeAccounting, Slots, SlotsOf
<1> QED
  BY <1>1, SchedInvariant, PTL

(* The NULL that multilevel_queue_dequeue returns for an empty queue is     *)
(* never the result of a dispatch: when the count is above zero some queue  *)
(* has an entry, and the search finds one of them wherever it starts.       *)
DequeueSucceeds ==
    size > 0 => \A from \in Levels : \E l \in Levels : FirstNonEmpty(levels, from, l)

(* scheduler_next_thread never takes a thread from queues that are empty:   *)
(* the count, even when it lags behind, is never more than the entries.     *)
THEOREM NoEmptyDequeue == SchedSpec => []DequeueSucceeds
<1>1. SchedInv => DequeueSucceeds
  <2> SUFFICES ASSUME SchedInv, size > 0, NEW from \in Levels
               PROVE  \E l \in Levels : FirstNonEmpty(levels, from, l)
    BY DEF DequeueSucceeds
  <2>1. /\ size \in Nat /\ forking \subseteq Threads /\ Ready \subseteq Threads
        /\ size + Cardinality(forking) = Cardinality(Ready)
    BY DEF SchedInv, SchedTypeOK, Ready, Counted
  <2>2. IsFiniteSet(forking)
    BY <2>1, SchedulerAssumption, FS_Subset
  <2>3. Cardinality(forking) \in Nat
    BY <2>2, FS_CardinalityType
  <2>4. Ready # {}
    BY <2>1, <2>3, FS_EmptySet
  <2> DEFINE Dist(l) == (l - from) % SCHEDULER_LEVELS
             full == {l \in Levels : levels[l] # <<>>}
             dists == {Dist(l) : l \in full}
  <2>5. full # {}
    <3>1. PICK t \in Ready : TRUE
      BY <2>4
    <3>2. priority[t] \in Levels /\ Holds(levels[priority[t]], t)
      BY <2>1 DEF SchedInv, Queues
    <3>3. levels[priority[t]] # <<>>
      BY <3>2 DEF Holds
    <3> QED
      BY <3>2, <3>3
  <2>6. dists \in SUBSET Nat
    <3>1. \A l \in Levels : Dist(l) \in Nat
      BY SchedulerAssumption DEF Levels
    <3> QED
      BY <3>1
  <2>7. dists # {}
    BY <2>5
  <2> HIDE DEF Dist
  <2>8. PICK d \in dists : \A e \in dists : d <= e
    BY <2>6, <2>7, LeastNumber
  <2>9. PICK l \in full : d = Dist(l)
    OBVIOUS
  <2>10. \A m \in full : Dist(l) <= Dist(m)
    BY <2>8, <2>9
  <2> QED
    BY <2>9, <2>10 DEF FirstNonEmpty, Dist
<1> QED
  BY <1>1, SchedInvariant, PTL

-----------------------------------------------------------------------------
(* The refinement of the dispatcher.                                        *)

(* The bag of the dispatcher that holds each thread of R once.              *)
Bag1(R) == [t \in Threads |-> IF t \in R THEN 1 ELSE 0]

ReadyBag == [t \in Threads |-> Entries(t)]

LEMMA BagOfReady == SchedInv => ReadyBag = Bag1(Ready)
BY EntriesOfReady DEF ReadyBag, Bag1

LEMMA BagOfReadyNext == SchedInv' => ReadyBag' = Bag1(Ready')
<1> SUFFICES ASSUME SchedInv' PROVE ReadyBag' = Bag1(Ready')
  OBVIOUS
<1>1. Queues(levels', priority', Ready')
  BY DEF SchedInv
<1>2. ASSUME NEW t \in Threads PROVE Entries(t)' = IF t \in Ready' THEN 1 ELSE 0
  BY <1>1, OneEntry DEF Entries, Slots, EntriesOf, SlotsOf
<1> QED
  BY <1>2 DEF ReadyBag, Bag1

LEMMA InitRefines == SchedInit => D!DispatchInit
<1> SUFFICES ASSUME SchedInit PROVE D!DispatchInit
  OBVIOUS
<1>1. SchedInv
  BY InvAtInit
<1>2. Ready = Range(BootOrder)
  <2>1. BootOrder \in Seq(Threads \ {Main}) /\ DOMAIN BootOrder = 1 .. Len(BootOrder)
    BY SchedulerAssumption, LenProperties
  <2>2. Range(BootOrder) \subseteq Threads \ {Main}
    BY <2>1 DEF Range
  <2> QED
    BY <2>2 DEF Ready, SchedInit
<1>3. ReadyBag = [t \in Threads |-> IF t \in Range(BootOrder) THEN 1 ELSE 0]
  BY <1>1, <1>2, BagOfReady DEF Bag1
<1>4. size = Cardinality(Range(BootOrder))
  <2>1. forking = {} /\ size \in Nat
    BY <1>1 DEF SchedInit, SchedInv, SchedTypeOK
  <2> QED
    BY <1>1, <1>2, <2>1, FS_EmptySet DEF SchedInv, Counted
<1>5. status = [t \in Threads |-> IF t \in Range(BootOrder) \cup {Main} THEN "OK" ELSE "unborn"]
  BY DEF SchedInit
<1>6. active_thread = Main /\ forking = {}
  BY DEF SchedInit
<1>7. \A S : D!Cardinality(S) = Cardinality(S)
  BY DEF D!Cardinality, Cardinality
<1> QED
  BY <1>3, <1>4, <1>5, <1>6, <1>7 DEF D!DispatchInit, ReadyBag

(* A dispatch of the multilevel queue is one of the dispatcher's.           *)
LEMMA DispatchRefines ==
    ASSUME SchedInv, SchedInv', NEW back \in BOOLEAN,
           back => active_thread \in Threads,
           Chosen(Candidates(back), CandidateCount(back)),
           Ready' = Candidates(back) \ {active_thread'}
    PROVE  D!minithread_yield(back)
<1>1. ReadyBag = Bag1(Ready) /\ ReadyBag' = Bag1(Ready')
  BY BagOfReady, BagOfReadyNext DEF Bag1
<1>2. Ready \subseteq Threads /\ active_thread \notin Ready
  BY DEF Ready
<1>3. PICK R : R = Candidates(back)
  OBVIOUS
<1>4. PICK sz : sz = CandidateCount(back)
  OBVIOUS
<1>5. R \subseteq Threads /\ Idle \notin R
  BY <1>2, <1>3, SchedulerAssumption DEF Candidates
<1>6. D!scheduler_next_thread(Bag1(R), sz)
  <2>1. CASE sz = 0 /\ active_thread' = Idle /\ size' = sz
    <3>1. Bag1(Ready') = Bag1(R)
      BY <1>3, <1>5, <2>1
    <3> QED
      BY <1>1, <2>1, <3>1 DEF D!scheduler_next_thread, ReadyBag
  <2>2. CASE sz > 0 /\ active_thread' \in R /\ size' = sz - 1
    <3>1. PICK t \in Threads : t = active_thread'
      BY <1>5, <2>2
    <3>2. Bag1(R)[t] > 0
      BY <2>2, <3>1 DEF Bag1
    <3>3. Bag1(Ready') = [u \in Threads |-> IF u = t THEN Bag1(R)[u] - 1 ELSE Bag1(R)[u]]
      BY <1>3, <2>2, <3>1 DEF Bag1
    <3> QED
      BY <1>1, <2>2, <3>1, <3>2, <3>3 DEF D!scheduler_next_thread, ReadyBag
  <2> QED
    BY <1>3, <1>4, <2>1, <2>2 DEF Chosen
<1>7. CASE back
  <2>1. Bag1(R) = [ReadyBag EXCEPT ![active_thread] = @ + 1]
    BY <1>1, <1>2, <1>3, <1>7 DEF Bag1, Candidates
  <2> QED
    BY <1>4, <1>6, <1>7, <2>1 DEF D!minithread_yield, ReadyBag, CandidateCount
<1>8. CASE ~back
  BY <1>1, <1>3, <1>4, <1>6, <1>8 DEF D!minithread_yield, ReadyBag, Candidates, CandidateCount
<1> QED
  BY <1>7, <1>8

LEMMA ReadyRefines ==
    ASSUME SchedInv, SchedInv', NEW t \in Threads,
           t \notin Ready, Ready' = Ready \cup {t}
    PROVE  ReadyBag' = [ReadyBag EXCEPT ![t] = @ + 1]
<1>1. ReadyBag = Bag1(Ready) /\ ReadyBag' = Bag1(Ready')
  BY BagOfReady, BagOfReadyNext DEF Bag1
<1> QED
  BY <1>1 DEF Bag1

LEMMA StepRefines == SchedInv /\ SchedInv' /\ [SchedNext]_schedVars => [D!DispatchNext]_(D!dispatchVars)
<1> SUFFICES ASSUME SchedInv, SchedInv', [SchedNext]_schedVars
             PROVE  [D!DispatchNext]_(D!dispatchVars)
  OBVIOUS
<1>1. /\ active_thread \in Threads \cup {Idle} /\ Awake /\ ClockTypeOK
      /\ status \in [Threads -> {"unborn", "OK", "SLEEPING", "DESTROYED"}]
  BY DEF SchedInv, SchedTypeOK, ClockTypeOK
<1>2. ASSUME Ready' = Ready PROVE ReadyBag' = ReadyBag
  BY <1>2, BagOfReady, BagOfReadyNext DEF Bag1
<1>3. CASE Yield
  <2>1. {t \in Threads : status'[t] = "OK"} = Candidates(Runnable) /\ ClockTypeOK'
    BY <1>1, <1>3 DEF Yield, Candidates, Ready, Runnable, ClockTypeOK, clockVars
  <2>2. /\ Chosen(Candidates(Runnable), CandidateCount(Runnable))
        /\ Ready' = Candidates(Runnable) \ {active_thread'}
    BY <1>1, <1>3, <2>1, DispatchStep DEF Yield, Runnable
  <2>3. D!minithread_yield(Runnable)
    BY <2>2, DispatchRefines DEF Runnable
  <2> QED
    BY <1>3, <2>3 DEF Yield, D!DispatchNext, D!Switch, D!Runnable, Runnable
<1>4. CASE Stop
  <2>1. {t \in Threads : status'[t] = "OK"} = Candidates(FALSE) /\ ClockTypeOK'
    BY <1>1, <1>4 DEF Stop, Candidates, Ready, Runnable, ClockTypeOK, clockVars
  <2>2. status' \in [Threads -> {"unborn", "OK", "SLEEPING", "DESTROYED"}]
    BY <1>1, <1>4 DEF Stop
  <2>3. /\ Chosen(Candidates(FALSE), CandidateCount(FALSE))
        /\ Ready' = Candidates(FALSE) \ {active_thread'}
    BY <1>1, <1>4, <2>1, <2>2, DispatchStep DEF Stop
  <2>4. D!minithread_yield(FALSE)
    BY <2>3, DispatchRefines
  <2> QED
    BY <1>4, <2>4 DEF Stop, D!DispatchNext, D!Stop, D!Runnable, Runnable
<1>5. CASE Exit
  <2>1. ReadyBag' = ReadyBag
    BY <1>1, <1>2, <1>5 DEF Exit, Ready
  <2> QED
    BY <1>5, <2>1 DEF Exit, D!DispatchNext, D!Exit, D!Runnable, Runnable, ReadyBag
<1>6. ASSUME NEW t \in Threads, Wake(t) PROVE D!Wake(t)
  <2>1. t \notin Ready /\ Ready' = Ready \cup {t}
    BY <1>1, <1>6 DEF Wake, Ready, Awake
  <2>2. ReadyBag' = [ReadyBag EXCEPT ![t] = @ + 1]
    BY <2>1, ReadyRefines
  <2> QED
    BY <1>6, <2>2 DEF Wake, D!Wake, D!minithread_start, ReadyBag
<1>7. ASSUME NEW t \in Threads, ForkAppend(t) PROVE D!ForkAppend(t)
  <2>1. t \notin Ready /\ Ready' = Ready \cup {t}
    BY <1>1, <1>7 DEF ForkAppend, Ready, Runnable
  <2>2. ReadyBag' = [ReadyBag EXCEPT ![t] = @ + 1]
    BY <2>1, ReadyRefines
  <2> QED
    BY <1>7, <2>2 DEF ForkAppend, D!ForkAppend, Runnable, ReadyBag
<1>8. CASE ForkCount
  <2>1. ReadyBag' = ReadyBag
    BY <1>2, <1>8 DEF ForkCount, Ready
  <2> QED
    BY <1>8, <2>1 DEF ForkCount, D!DispatchNext, D!ForkCount, ReadyBag
<1>9. CASE Tick
  <2>1. ClockTypeOK'
    BY <1>1, <1>9, ClockAdvances DEF Tick
  <2>2. CASE scheduler_quota_expired(thread_ticks_remaining')
    <3>1. {t \in Threads : status'[t] = "OK"} = Candidates(Runnable)
      BY <1>1, <1>9 DEF Tick, Candidates, Ready, Runnable
    <3>2. minithread_yield(Runnable, current_level', thread_ticks_remaining')
      BY <1>9, <2>2 DEF Tick
    <3>3. /\ Chosen(Candidates(Runnable), CandidateCount(Runnable))
          /\ Ready' = Candidates(Runnable) \ {active_thread'}
      BY <1>1, <1>9, <2>1, <3>1, <3>2, DispatchStep DEF Tick, Runnable
    <3>4. D!minithread_yield(Runnable)
      BY <3>3, DispatchRefines DEF Runnable
    <3> QED
      BY <1>9, <3>4 DEF Tick, D!DispatchNext, D!Switch, D!Runnable, Runnable
  <2>3. CASE ~scheduler_quota_expired(thread_ticks_remaining')
    <3>1. /\ UNCHANGED <<active_thread, size, priority, levels>>
          /\ UNCHANGED <<status, forking>>
      BY <1>9, <2>3 DEF Tick
    <3>2. ReadyBag' = ReadyBag
      BY <1>2, <3>1 DEF Ready
    <3> QED
      BY <3>1, <3>2 DEF D!dispatchVars, ReadyBag
  <2> QED
    BY <2>2, <2>3
<1>10. CASE UNCHANGED schedVars
  <2>1. ReadyBag' = ReadyBag
    BY <1>2, <1>10 DEF schedVars, Ready
  <2> QED
    BY <1>10, <2>1 DEF schedVars, D!dispatchVars, ReadyBag
<1> QED
  BY <1>3, <1>4, <1>5, <1>6, <1>7, <1>8, <1>9, <1>10 DEF SchedNext, D!DispatchNext

(* The multilevel queue with its levels, quotas and priorities does to the  *)
(* ready threads nothing that the dispatcher of the other modules does not  *)
(* do: it initializes it, and each of its steps is a step of it or none.    *)
THEOREM SchedulerIsDispatcher == SchedSpec => ImplementsDispatcher
<1>1. SchedInit => D!DispatchInit
  BY InitRefines
<1>2. SchedInv /\ SchedInv' /\ [SchedNext]_schedVars => [D!DispatchNext]_(D!dispatchVars)
  BY StepRefines
<1> QED
  BY <1>1, <1>2, SchedInvariant, PTL DEF SchedSpec, ImplementsDispatcher, D!DispatchSpec

-----------------------------------------------------------------------------
(* The lists the ready queues are made of (module LinkedQueue).             *)
(*                                                                          *)
(* QueueInv: some sequence c of distinct nodes is the list that head, tail, *)
(* prev and next describe.  Chain, which follows the pointers, is c         *)
(* (ChainIs): the first place where they differed would be a least number.  *)
(* Each call inserts one node (NodeInserted) or removes one (NodeRemoved);  *)
(* the deletion by key removes a node per match, and Swept says what its    *)
(* walk has left of c after i steps.                                        *)

Addresses == Nodes \cup {NULL, GARBAGE}

(* The pointers h, t, pv and nx link the nodes of c in the order of c.      *)
Linked(h, t, pv, nx, c) ==
    /\ c \in Seq(Nodes) /\ Once(c)
    /\ pv \in [Nodes -> Addresses] /\ nx \in [Nodes -> Addresses]
    /\ h = IF Len(c) = 0 THEN NULL ELSE c[1]
    /\ t = IF Len(c) = 0 THEN NULL ELSE c[Len(c)]
    /\ \A i \in 1 .. Len(c) : pv[c[i]] = IF i = 1 THEN NULL ELSE c[i - 1]
    /\ \A i \in 1 .. Len(c) : nx[c[i]] = IF i = Len(c) THEN NULL ELSE c[i + 1]

(* The rest of the list: its length, the items d, the allocated nodes lv.   *)
Stored(len, d, lv, c) ==
    /\ len = Len(c)
    /\ d \in [Nodes -> Items \cup {GARBAGE}]
    /\ \A i \in 1 .. Len(c) : d[c[i]] \in Items
    /\ lv = {c[i] : i \in 1 .. Len(c)}

(* The state is the list of the nodes of c.                                 *)
IsQueue(c) == Linked(head, tail, prev, next, c) /\ Stored(q_length, data, live, c)

QueueInv == \E c \in Seq(Nodes) : IsQueue(c)

LEMMA InsertedAt ==
    ASSUME NEW S, NEW s \in Seq(S), NEW e \in S, NEW n \in 1 .. Len(s) + 1
    PROVE  /\ InsertAt(s, n, e) \in Seq(S) /\ Len(InsertAt(s, n, e)) = Len(s) + 1
           /\ \A i \in 1 .. Len(s) + 1 :
                 InsertAt(s, n, e)[i] = IF i < n THEN s[i] ELSE IF i = n THEN e ELSE s[i - 1]
<1> DEFINE l == SubSeq(s, 1, n - 1)
           r == SubSeq(s, n, Len(s))
<1>1. Len(s) \in Nat /\ n \in Int /\ \A i \in 1 .. Len(s) : s[i] \in S
  BY LenProperties, ElementOfSeq
<1>2. /\ l \in Seq(S) /\ Len(l) = n - 1 /\ \A i \in 1 .. n - 1 : l[i] = s[i]
  <2>1. 1 \in Int /\ n - 1 \in Int /\ \A i \in 1 .. n - 1 : s[i] \in S
    BY <1>1
  <2>2. /\ l \in Seq(S) /\ Len(l) = IF 1 <= n - 1 THEN n - 1 - 1 + 1 ELSE 0
        /\ \A i \in 1 .. n - 1 - 1 + 1 : l[i] = s[1 + i - 1]
    BY <2>1, SubSeqProperties
  <2> HIDE DEF l
  <2> QED
    BY <1>1, <2>2
<1>3. /\ r \in Seq(S) /\ Len(r) = Len(s) - n + 1
      /\ \A i \in 1 .. Len(s) - n + 1 : r[i] = s[n + i - 1]
  <2>1. Len(s) \in Int /\ n \in Int /\ \A i \in n .. Len(s) : s[i] \in S
    BY <1>1
  <2>2. /\ r \in Seq(S) /\ Len(r) = IF n <= Len(s) THEN Len(s) - n + 1 ELSE 0
        /\ \A i \in 1 .. Len(s) - n + 1 : r[i] = s[n + i - 1]
    BY <2>1, SubSeqProperties
  <2> HIDE DEF r
  <2> QED
    BY <1>1, <2>2
<1> HIDE DEF l, r
<1>4. <<e>> \in Seq(S) /\ Len(<<e>>) = 1 /\ <<e>>[1] = e
  OBVIOUS
<1> DEFINE m == l \o <<e>>
<1>5. /\ m \in Seq(S) /\ Len(m) = n
      /\ \A i \in 1 .. n : m[i] = IF i < n THEN s[i] ELSE e
  <2>1. /\ m \in Seq(S) /\ Len(m) = Len(l) + 1
        /\ \A i \in 1 .. Len(l) + 1 : m[i] = IF i <= Len(l) THEN l[i] ELSE <<e>>[i - Len(l)]
    BY <1>2, <1>4, ConcatProperties
  <2> HIDE DEF m
  <2>2. \A i \in 1 .. n : m[i] = IF i < n THEN s[i] ELSE e
    BY <1>1, <1>2, <1>4, <2>1
  <2> QED
    BY <1>1, <1>2, <2>1, <2>2
<1> HIDE DEF m
<1>6. InsertAt(s, n, e) = m \o r
  BY DEF InsertAt, l, m, r
<1>7. /\ m \o r \in Seq(S) /\ Len(m \o r) = Len(m) + Len(r)
      /\ \A i \in 1 .. Len(m) + Len(r) : (m \o r)[i] = IF i <= Len(m) THEN m[i] ELSE r[i - Len(m)]
  BY <1>3, <1>5, ConcatProperties
<1> QED
  BY <1>1, <1>3, <1>5, <1>6, <1>7

LEMMA ItemInsertedAt ==
    ASSUME NEW r \in Seq(Items), NEW x \in Items, NEW p \in 1 .. Len(r) + 1
    PROVE  /\ InsertAt(r, p, x) \in Seq(Items) /\ Len(InsertAt(r, p, x)) = Len(r) + 1
           /\ \A i \in 1 .. Len(r) + 1 :
                 InsertAt(r, p, x)[i] = IF i < p THEN r[i] ELSE IF i = p THEN x ELSE r[i - 1]
BY InsertedAt

LEMMA RemovedAt ==
    ASSUME NEW S, NEW s \in Seq(S), NEW n \in 1 .. Len(s)
    PROVE  /\ RemoveAt(s, n) \in Seq(S) /\ Len(RemoveAt(s, n)) = Len(s) - 1
           /\ \A i \in 1 .. Len(s) - 1 : RemoveAt(s, n)[i] = IF i < n THEN s[i] ELSE s[i + 1]
<1> DEFINE l == SubSeq(s, 1, n - 1)
           r == SubSeq(s, n + 1, Len(s))
<1>1. Len(s) \in Nat /\ n \in Int /\ \A i \in 1 .. Len(s) : s[i] \in S
  BY LenProperties, ElementOfSeq
<1>2. /\ l \in Seq(S) /\ Len(l) = n - 1 /\ \A i \in 1 .. n - 1 : l[i] = s[i]
  <2>1. 1 \in Int /\ n - 1 \in Int /\ \A i \in 1 .. n - 1 : s[i] \in S
    BY <1>1
  <2>2. /\ l \in Seq(S) /\ Len(l) = IF 1 <= n - 1 THEN n - 1 - 1 + 1 ELSE 0
        /\ \A i \in 1 .. n - 1 - 1 + 1 : l[i] = s[1 + i - 1]
    BY <2>1, SubSeqProperties
  <2> HIDE DEF l
  <2> QED
    BY <1>1, <2>2
<1>3. /\ r \in Seq(S) /\ Len(r) = Len(s) - n
      /\ \A i \in 1 .. Len(s) - n : r[i] = s[n + i]
  <2>1. Len(s) \in Int /\ n + 1 \in Int /\ \A i \in n + 1 .. Len(s) : s[i] \in S
    BY <1>1
  <2>2. /\ r \in Seq(S) /\ Len(r) = IF n + 1 <= Len(s) THEN Len(s) - (n + 1) + 1 ELSE 0
        /\ \A i \in 1 .. Len(s) - (n + 1) + 1 : r[i] = s[n + 1 + i - 1]
    BY <2>1, SubSeqProperties
  <2> HIDE DEF r
  <2> QED
    BY <1>1, <2>2
<1> HIDE DEF l, r
<1>4. RemoveAt(s, n) = l \o r
  BY DEF RemoveAt, l, r
<1>5. /\ l \o r \in Seq(S) /\ Len(l \o r) = Len(l) + Len(r)
      /\ \A i \in 1 .. Len(l) + Len(r) : (l \o r)[i] = IF i <= Len(l) THEN l[i] ELSE r[i - Len(l)]
  BY <1>2, <1>3, ConcatProperties
<1> QED
  BY <1>1, <1>2, <1>3, <1>4, <1>5

(* There is memory for a list that holds no node twice.                     *)
LEMMA ListFits ==
    ASSUME NEW c \in Seq(Nodes), Once(c)
    PROVE  Cardinality(Nodes) \in Nat /\ Len(c) <= Cardinality(Nodes)
<1>1. Len(c) \in Nat /\ c \in [1 .. Len(c) -> Nodes]
  BY LenProperties
<1>2. c \in Injection(1 .. Len(c), Nodes)
  BY <1>1 DEF Once, Injection, IsInjective
<1>3. IsFiniteSet(Nodes) /\ Cardinality(Nodes) \in Nat
  BY LinkedQueueAssumption, FS_CardinalityType
<1>4. Cardinality(1 .. Len(c)) <= Cardinality(Nodes)
  BY <1>2, <1>3, FS_Injection
<1>5. Cardinality(1 .. Len(c)) = Len(c)
  BY <1>1, Interval
<1> QED
  BY <1>3, <1>4, <1>5

(* A walk w along nx from h meets the nodes of the list in its order.       *)
LEMMA WalkMeets ==
    ASSUME NEW h, NEW t, NEW pv, NEW nx, NEW c, Linked(h, t, pv, nx, c), NEW N \in Nat, Len(c) <= N,
           NEW w, \A i \in 1 .. N + 1 :
                     w[i] = IF i = 1 THEN h ELSE IF w[i - 1] \in Nodes THEN nx[w[i - 1]] ELSE NULL
    PROVE  /\ {j \in 1 .. N + 1 : w[j] \in Nodes} = 1 .. Len(c)
           /\ \A i \in 1 .. Len(c) : w[i] = c[i]
<1>1. c \in Seq(Nodes) /\ Len(c) \in Nat /\ c \in [1 .. Len(c) -> Nodes] /\ DOMAIN c = 1 .. Len(c)
  BY LenProperties DEF Linked
<1>2. PICK n \in Nat : n = Len(c)
  BY <1>1
<1>3. \A i \in 1 .. n : c[i] \in Nodes
  BY <1>1, <1>2
<1>4. NULL \notin Nodes
  BY LinkedQueueAssumption
<1>5. w[1] = h /\ \A i \in 2 .. N + 1 : w[i] = IF w[i - 1] \in Nodes THEN nx[w[i - 1]] ELSE NULL
  OBVIOUS
<1>6. h = IF n = 0 THEN NULL ELSE c[1]
  BY <1>2 DEF Linked
<1>7. \A i \in 1 .. n : nx[c[i]] = IF i = n THEN NULL ELSE c[i + 1]
  BY <1>2 DEF Linked
<1> DEFINE Off == {i \in 1 .. N + 1 : w[i] # IF i <= n THEN c[i] ELSE NULL}
<1>8. Off = {}
  <2>1. SUFFICES ASSUME Off # {} PROVE FALSE
    OBVIOUS
  <2>2. Off \in SUBSET Nat
    OBVIOUS
  <2>3. PICK m \in Off : \A i \in Off : m <= i
    BY <2>1, <2>2, LeastNumber
  <2>4. m \in 1 .. N + 1 /\ w[m] # IF m <= n THEN c[m] ELSE NULL
    OBVIOUS
  <2>5. m # 1
    BY <1>2, <1>5, <1>6, <2>4
  <2>6. m - 1 \in 1 .. N + 1 /\ m \in 2 .. N + 1 /\ m - 1 \notin Off
    BY <2>3, <2>4, <2>5
  <2>7. w[m - 1] = IF m - 1 <= n THEN c[m - 1] ELSE NULL
    BY <2>6
  <2> HIDE DEF Off
  <2>8. CASE m - 1 <= n
    <3>1. m - 1 \in 1 .. n
      BY <2>6, <2>8
    <3>2. w[m - 1] = c[m - 1] /\ w[m - 1] \in Nodes
      BY <1>3, <2>7, <2>8, <3>1
    <3>3. w[m] = nx[c[m - 1]]
      BY <1>5, <2>6, <3>2
    <3>4. nx[c[m - 1]] = IF m - 1 = n THEN NULL ELSE c[m - 1 + 1]
      BY <1>7, <3>1
    <3>5. nx[c[m - 1]] = IF m <= n THEN c[m] ELSE NULL
      BY <2>6, <2>8, <3>4
    <3> QED
      BY <2>4, <3>3, <3>5
  <2>9. CASE ~(m - 1 <= n)
    BY <1>4, <1>5, <2>4, <2>6, <2>7, <2>9
  <2> QED
    BY <2>8, <2>9
<1>9. \A i \in 1 .. N + 1 : w[i] = IF i <= n THEN c[i] ELSE NULL
  BY <1>8
<1>10. {j \in 1 .. N + 1 : w[j] \in Nodes} = 1 .. n
  BY <1>2, <1>3, <1>4, <1>9
<1> HIDE DEF Off
<1> QED
  BY <1>1, <1>2, <1>9, <1>10

LEMMA WalkExists ==
    ASSUME NEW h, NEW t, NEW pv, NEW nx, NEW c, Linked(h, t, pv, nx, c), NEW N \in Nat, Len(c) <= N
    PROVE  \E w : w = [i \in 1 .. N + 1 |->
                          IF i = 1 THEN h ELSE IF w[i - 1] \in Nodes THEN nx[w[i - 1]] ELSE NULL]
<1>1. c \in Seq(Nodes) /\ Len(c) \in Nat /\ c \in [1 .. Len(c) -> Nodes]
  BY LenProperties DEF Linked
<1>2. PICK n \in Nat : n = Len(c)
  BY <1>1
<1>3. \A i \in 1 .. n : c[i] \in Nodes
  BY <1>1, <1>2
<1>4. NULL \notin Nodes
  BY LinkedQueueAssumption
<1>5. h = IF n = 0 THEN NULL ELSE c[1]
  BY <1>2 DEF Linked
<1>6. \A i \in 1 .. n : nx[c[i]] = IF i = n THEN NULL ELSE c[i + 1]
  BY <1>2 DEF Linked
<1> DEFINE w == [i \in 1 .. N + 1 |-> IF i <= n THEN c[i] ELSE NULL]
<1>7. ASSUME NEW i \in 1 .. N + 1
      PROVE  w[i] = IF i = 1 THEN h ELSE IF w[i - 1] \in Nodes THEN nx[w[i - 1]] ELSE NULL
  <2>1. w[i] = IF i <= n THEN c[i] ELSE NULL
    OBVIOUS
  <2>2. CASE i = 1
    BY <1>5, <2>1, <2>2
  <2>3. CASE i # 1
    <3>1. i - 1 \in 1 .. N + 1
      BY <2>3
    <3>2. w[i - 1] = IF i - 1 <= n THEN c[i - 1] ELSE NULL
      BY <3>1
    <3> HIDE DEF w
    <3>3. CASE i - 1 <= n
      <4>1. i - 1 \in 1 .. n
        BY <3>1, <3>3
      <4>2. w[i - 1] \in Nodes /\ nx[w[i - 1]] = IF i - 1 = n THEN NULL ELSE c[i - 1 + 1]
        BY <1>3, <1>6, <3>2, <3>3, <4>1
      <4> QED
        BY <2>1, <2>3, <3>3, <4>2
    <3>4. CASE ~(i - 1 <= n)
      BY <1>4, <2>1, <2>3, <3>2, <3>4
    <3> QED
      BY <3>3, <3>4
  <2> QED
    BY <2>2, <2>3
<1>8. w = [i \in 1 .. N + 1 |-> w[i]]
  OBVIOUS
<1> HIDE DEF w
<1>9. w = [i \in 1 .. N + 1 |->
              IF i = 1 THEN h ELSE IF w[i - 1] \in Nodes THEN nx[w[i - 1]] ELSE NULL]
  BY <1>7, <1>8
<1> QED
  BY <1>9

LEMMA ChainIs ==
    ASSUME NEW c, Linked(head, tail, prev, next, c)
    PROVE  Chain = c
<1>1. c \in Seq(Nodes) /\ Once(c)
  BY DEF Linked
<1>2. PICK N \in Nat : N = Cardinality(Nodes) /\ Len(c) <= N
  BY <1>1, ListFits
<1>3. \E w : w = [i \in 1 .. N + 1 |->
                    IF i = 1 THEN head ELSE IF w[i - 1] \in Nodes THEN next[w[i - 1]] ELSE NULL]
  BY <1>2, WalkExists
<1>4. Walk = [i \in 1 .. N + 1 |->
                 IF i = 1 THEN head ELSE IF Walk[i - 1] \in Nodes THEN next[Walk[i - 1]] ELSE NULL]
  BY <1>2, <1>3 DEF Walk
<1>5. PICK w : w = Walk
  OBVIOUS
<1>6. \A i \in 1 .. N + 1 :
         w[i] = IF i = 1 THEN head ELSE IF w[i - 1] \in Nodes THEN next[w[i - 1]] ELSE NULL
  BY <1>4, <1>5
<1>7. /\ {j \in 1 .. N + 1 : w[j] \in Nodes} = 1 .. Len(c)
      /\ \A i \in 1 .. Len(c) : w[i] = c[i]
  BY <1>2, <1>6, WalkMeets
<1>8. [i \in 1 .. Len(c) |-> w[i]] = c
  BY <1>1, <1>7, LenProperties
<1> QED
  BY <1>2, <1>5, <1>7, <1>8 DEF Chain

LEMMA ChainIsNext ==
    ASSUME NEW c, Linked(head', tail', prev', next', c)
    PROVE  Chain' = c
<1>1. c \in Seq(Nodes) /\ Once(c)
  BY DEF Linked
<1>2. PICK N \in Nat : N = Cardinality(Nodes) /\ Len(c) <= N
  BY <1>1, ListFits
<1>3. \E w : w = [i \in 1 .. N + 1 |->
                    IF i = 1 THEN head' ELSE IF w[i - 1] \in Nodes THEN next'[w[i - 1]] ELSE NULL]
  BY <1>2, WalkExists
<1>4. Walk' = [i \in 1 .. N + 1 |->
                 IF i = 1 THEN head' ELSE IF Walk'[i - 1] \in Nodes THEN next'[Walk'[i - 1]] ELSE NULL]
  BY <1>2, <1>3 DEF Walk
<1>5. PICK w : w = Walk'
  OBVIOUS
<1>6. \A i \in 1 .. N + 1 :
         w[i] = IF i = 1 THEN head' ELSE IF w[i - 1] \in Nodes THEN next'[w[i - 1]] ELSE NULL
  BY <1>4, <1>5
<1>7. /\ {j \in 1 .. N + 1 : w[j] \in Nodes} = 1 .. Len(c)
      /\ \A i \in 1 .. Len(c) : w[i] = c[i]
  BY <1>2, <1>6, WalkMeets
<1>8. [i \in 1 .. Len(c) |-> w[i]] = c
  BY <1>1, <1>7, LenProperties
<1> QED
  BY <1>2, <1>5, <1>7, <1>8 DEF Chain

(* A node n that is linked in before position p of the list c.              *)
LEMMA NodeInserted ==
    ASSUME NEW h, NEW t, NEW pv, NEW nx, NEW c, Linked(h, t, pv, nx, c),
           NEW n \in Nodes, \A i \in 1 .. Len(c) : c[i] # n, NEW p \in 1 .. Len(c) + 1,
           NEW h2, NEW t2, NEW pv2 \in [Nodes -> Addresses], NEW nx2 \in [Nodes -> Addresses],
           h2 = IF p = 1 THEN n ELSE h,
           t2 = IF p = Len(c) + 1 THEN n ELSE t,
           pv2[n] = IF p = 1 THEN NULL ELSE c[p - 1],
           nx2[n] = IF p = Len(c) + 1 THEN NULL ELSE c[p],
           \A i \in 1 .. Len(c) : pv2[c[i]] = IF i = p THEN n ELSE pv[c[i]],
           \A i \in 1 .. Len(c) : nx2[c[i]] = IF i = p - 1 THEN n ELSE nx[c[i]]
    PROVE  Linked(h2, t2, pv2, nx2, InsertAt(c, p, n))
<1>1. c \in Seq(Nodes) /\ Len(c) \in Nat /\ Once(c) /\ \A i \in 1 .. Len(c) : c[i] \in Nodes
  BY LenProperties, ElementOfSeq DEF Linked
<1>2. PICK m \in Nat : m = Len(c)
  BY <1>1
<1>3. PICK e : e = InsertAt(c, p, n)
  OBVIOUS
<1>4. /\ e \in Seq(Nodes) /\ Len(e) = m + 1
      /\ \A i \in 1 .. m + 1 : e[i] = IF i < p THEN c[i] ELSE IF i = p THEN n ELSE c[i - 1]
  <2>1. /\ InsertAt(c, p, n) \in Seq(Nodes) /\ Len(InsertAt(c, p, n)) = Len(c) + 1
        /\ \A i \in 1 .. Len(c) + 1 :
              InsertAt(c, p, n)[i] = IF i < p THEN c[i] ELSE IF i = p THEN n ELSE c[i - 1]
    BY <1>1, InsertedAt
  <2> QED
    BY <1>2, <1>3, <2>1
<1>5. Once(e)
  BY <1>1, <1>2, <1>4 DEF Once
<1>6. h2 = e[1] /\ t2 = e[m + 1]
  <2>1. h = IF m = 0 THEN NULL ELSE c[1]
    BY <1>2 DEF Linked
  <2>2. t = IF m = 0 THEN NULL ELSE c[m]
    BY <1>2 DEF Linked
  <2>3. h2 = e[1]
    BY <1>2, <1>4, <2>1
  <2>4. t2 = e[m + 1]
    BY <1>2, <1>4, <2>2
  <2> QED
    BY <2>3, <2>4
<1>7. ASSUME NEW i \in 1 .. m + 1 PROVE pv2[e[i]] = IF i = 1 THEN NULL ELSE e[i - 1]
  <2>1. \A k \in 1 .. m : pv[c[k]] = IF k = 1 THEN NULL ELSE c[k - 1]
    BY <1>2 DEF Linked
  <2>2. CASE i < p
    <3>1. i \in 1 .. m /\ e[i] = c[i] /\ i # p
      BY <1>2, <1>4, <2>2
    <3>2. pv2[e[i]] = pv[c[i]]
      BY <1>2, <3>1
    <3>3. i # 1 => i - 1 \in 1 .. m + 1 /\ e[i - 1] = c[i - 1]
      BY <1>2, <1>4, <2>2
    <3> QED
      BY <2>1, <3>1, <3>2, <3>3
  <2>3. CASE i = p
    <3>1. i # 1 => i - 1 \in 1 .. m + 1 /\ e[i - 1] = c[i - 1]
      BY <1>2, <1>4, <2>3
    <3> QED
      BY <1>2, <1>4, <2>3, <3>1
  <2>4. CASE i > p
    <3>1. i - 1 \in 1 .. m /\ e[i] = c[i - 1] /\ i # 1
      BY <1>2, <1>4, <2>4
    <3>2. pv2[e[i]] = IF i - 1 = p THEN n ELSE pv[c[i - 1]]
      BY <1>2, <3>1
    <3>3. e[i - 1] = IF i - 1 = p THEN n ELSE c[i - 1 - 1]
      BY <1>2, <1>4, <2>4, <3>1
    <3>4. i - 1 # p => i - 1 # 1
      BY <1>2, <2>4
    <3> QED
      BY <2>1, <3>1, <3>2, <3>3, <3>4
  <2> QED
    BY <1>2, <2>2, <2>3, <2>4
<1>8. ASSUME NEW i \in 1 .. m + 1 PROVE nx2[e[i]] = IF i = m + 1 THEN NULL ELSE e[i + 1]
  <2>1. \A k \in 1 .. m : nx[c[k]] = IF k = m THEN NULL ELSE c[k + 1]
    BY <1>2 DEF Linked
  <2>2. CASE i < p
    <3>1. i \in 1 .. m /\ e[i] = c[i] /\ i + 1 \in 1 .. m + 1
      BY <1>2, <1>4, <2>2
    <3>2. nx2[e[i]] = IF i = p - 1 THEN n ELSE nx[c[i]]
      BY <1>2, <3>1
    <3>3. e[i + 1] = IF i = p - 1 THEN n ELSE c[i + 1]
      BY <1>2, <1>4, <2>2, <3>1
    <3>4. i # p - 1 => i # m
      BY <1>2, <2>2
    <3> QED
      BY <2>1, <3>1, <3>2, <3>3, <3>4
  <2>3. CASE i = p
    <3>1. i # m + 1 => i + 1 \in 1 .. m + 1 /\ e[i + 1] = c[i + 1 - 1] /\ i + 1 - 1 = i
      BY <1>2, <1>4, <2>3
    <3> QED
      BY <1>2, <1>4, <2>3, <3>1
  <2>4. CASE i > p
    <3>1. i - 1 \in 1 .. m /\ e[i] = c[i - 1] /\ i - 1 # p - 1
      BY <1>2, <1>4, <2>4
    <3>2. nx2[e[i]] = nx[c[i - 1]]
      BY <1>2, <3>1
    <3>3. nx[c[i - 1]] = IF i - 1 = m THEN NULL ELSE c[i - 1 + 1]
      BY <2>1, <3>1
    <3>4. i # m + 1 => i + 1 \in 1 .. m + 1 /\ e[i + 1] = c[i + 1 - 1]
      <4>1. i # m + 1 => i + 1 \in 1 .. m + 1
        OBVIOUS
      <4>2. ~(i + 1 < p) /\ i + 1 # p
        BY <1>2, <2>4
      <4> QED
        BY <1>4, <4>1, <4>2
    <3>5. i - 1 + 1 = i + 1 - 1 /\ (i - 1 = m <=> i = m + 1)
      BY <1>2
    <3> QED
      BY <3>2, <3>3, <3>4, <3>5
  <2> QED
    BY <1>2, <2>2, <2>3, <2>4
<1>9. Linked(h2, t2, pv2, nx2, e)
  BY <1>2, <1>4, <1>5, <1>6, <1>7, <1>8 DEF Linked
<1> QED
  BY <1>3, <1>9

(* The list c without the node at position p, which is linked out.          *)
LEMMA NodeRemoved ==
    ASSUME NEW h, NEW t, NEW pv, NEW nx, NEW c, Linked(h, t, pv, nx, c), NEW p \in 1 .. Len(c),
           NEW h2, NEW t2, NEW pv2 \in [Nodes -> Addresses], NEW nx2 \in [Nodes -> Addresses],
           h2 = IF p = 1 THEN nx[c[p]] ELSE h,
           t2 = IF p = Len(c) THEN pv[c[p]] ELSE t,
           \A i \in 1 .. Len(c) : i # p => pv2[c[i]] = IF i = p + 1 THEN pv[c[p]] ELSE pv[c[i]],
           \A i \in 1 .. Len(c) : i # p => nx2[c[i]] = IF i = p - 1 THEN nx[c[p]] ELSE nx[c[i]]
    PROVE  Linked(h2, t2, pv2, nx2, RemoveAt(c, p))
<1>1. c \in Seq(Nodes) /\ Len(c) \in Nat /\ Once(c)
  BY LenProperties DEF Linked
<1>2. PICK m \in Nat : m = Len(c)
  BY <1>1
<1>3. PICK e : e = RemoveAt(c, p)
  OBVIOUS
<1>4. /\ e \in Seq(Nodes) /\ Len(e) = m - 1
      /\ \A i \in 1 .. m - 1 : e[i] = IF i < p THEN c[i] ELSE c[i + 1]
  BY <1>1, <1>2, <1>3, RemovedAt
<1>5. Once(e)
  BY <1>1, <1>2, <1>4, SMTT(20) DEF Once
<1>6. \A k \in 1 .. m : pv[c[k]] = IF k = 1 THEN NULL ELSE c[k - 1]
  BY <1>2 DEF Linked
<1>7. \A k \in 1 .. m : nx[c[k]] = IF k = m THEN NULL ELSE c[k + 1]
  BY <1>2 DEF Linked
<1>8. h2 = (IF m - 1 = 0 THEN NULL ELSE e[1]) /\ t2 = IF m - 1 = 0 THEN NULL ELSE e[m - 1]
  <2>1. h = c[1] /\ t = c[m]
    BY <1>2 DEF Linked
  <2>2. h2 = IF m - 1 = 0 THEN NULL ELSE e[1]
    <3>1. CASE p = 1
      BY <1>2, <1>4, <1>7, <3>1
    <3>2. CASE p # 1
      BY <1>2, <1>4, <2>1, <3>2
    <3> QED
      BY <3>1, <3>2
  <2>3. t2 = IF m - 1 = 0 THEN NULL ELSE e[m - 1]
    <3>1. CASE p = m
      BY <1>2, <1>4, <1>6, <3>1
    <3>2. CASE p # m
      BY <1>2, <1>4, <2>1, <3>2
    <3> QED
      BY <3>1, <3>2
  <2> QED
    BY <2>2, <2>3
<1>9. ASSUME NEW i \in 1 .. m - 1 PROVE pv2[e[i]] = IF i = 1 THEN NULL ELSE e[i - 1]
  <2>1. i # 1 => i - 1 \in 1 .. m - 1 /\ e[i - 1] = IF i - 1 < p THEN c[i - 1] ELSE c[i - 1 + 1]
    BY <1>4
  <2>2. CASE i < p
    <3>1. i \in 1 .. m /\ i # p /\ i # p + 1 /\ e[i] = c[i] /\ i - 1 < p
      BY <1>2, <1>4, <2>2
    <3>2. pv2[e[i]] = pv[c[i]]
      BY <1>2, <3>1
    <3> QED
      BY <1>6, <2>1, <3>1, <3>2
  <2>3. CASE i >= p
    <3>1. i + 1 \in 1 .. m /\ i + 1 # p /\ e[i] = c[i + 1] /\ i + 1 # 1
      BY <1>2, <1>4, <2>3
    <3>2. pv2[e[i]] = IF i = p THEN pv[c[p]] ELSE pv[c[i + 1]]
      BY <1>2, <3>1
    <3>3. CASE i = p
      BY <1>2, <1>6, <2>1, <3>2, <3>3
    <3>4. CASE i # p
      <4>1. pv[c[i + 1]] = c[i + 1 - 1] /\ i # 1 /\ ~(i - 1 < p)
        BY <1>2, <1>6, <2>3, <3>1, <3>4
      <4>2. i + 1 - 1 = i - 1 + 1
        OBVIOUS
      <4> QED
        BY <2>1, <3>2, <3>4, <4>1, <4>2
    <3> QED
      BY <3>3, <3>4
  <2> QED
    BY <1>2, <2>2, <2>3
<1>10. ASSUME NEW i \in 1 .. m - 1 PROVE nx2[e[i]] = IF i = m - 1 THEN NULL ELSE e[i + 1]
  <2>1. i # m - 1 => i + 1 \in 1 .. m - 1 /\ e[i + 1] = IF i + 1 < p THEN c[i + 1] ELSE c[i + 1 + 1]
    BY <1>2, <1>4
  <2>2. CASE i < p
    <3>1. i \in 1 .. m /\ i # p /\ e[i] = c[i] /\ i # m
      BY <1>2, <1>4, <2>2
    <3>2. nx2[e[i]] = IF i = p - 1 THEN nx[c[p]] ELSE nx[c[i]]
      BY <1>2, <3>1
    <3>3. CASE i = p - 1
      <4>1. p = i + 1 /\ ~(i + 1 < p) /\ (p = m <=> i = m - 1)
        BY <1>2, <3>3
      <4>2. nx[c[p]] = IF p = m THEN NULL ELSE c[p + 1]
        BY <1>2, <1>7
      <4> QED
        BY <2>1, <3>2, <3>3, <4>1, <4>2
    <3>4. CASE i # p - 1
      <4>1. i + 1 < p /\ i # m - 1
        BY <1>2, <2>2, <3>4
      <4>2. nx[c[i]] = c[i + 1]
        BY <1>7, <3>1
      <4> QED
        BY <2>1, <3>2, <3>4, <4>1, <4>2
    <3> QED
      BY <3>3, <3>4
  <2>3. CASE i >= p
    <3>1. i + 1 \in 1 .. m /\ i + 1 # p /\ e[i] = c[i + 1] /\ i + 1 # p - 1
      BY <1>2, <1>4, <2>3
    <3>2. nx2[e[i]] = nx[c[i + 1]]
      BY <1>2, <3>1
    <3>3. nx[c[i + 1]] = IF i + 1 = m THEN NULL ELSE c[i + 1 + 1]
      BY <1>7, <3>1
    <3>4. (i + 1 = m <=> i = m - 1) /\ ~(i + 1 < p)
      BY <1>2, <2>3
    <3> QED
      BY <2>1, <3>2, <3>3, <3>4
  <2> QED
    BY <1>2, <2>2, <2>3
<1>11. Linked(h2, t2, pv2, nx2, e)
  BY <1>2, <1>4, <1>5, <1>8, <1>9, <1>10 DEF Linked
<1> QED
  BY <1>3, <1>11

(* The items d of the nodes of c, in the order of c.                        *)
Read(d, c) == [i \in 1 .. Len(c) |-> d[c[i]]]

LEMMA ReadIsSeq ==
    ASSUME NEW c \in Seq(Nodes), NEW len, NEW d, NEW lv, Stored(len, d, lv, c)
    PROVE  Read(d, c) \in Seq(Items) /\ Len(Read(d, c)) = Len(c)
BY LenProperties DEF Read, Stored

(* d2 is d with the item x in the node n, which is not of the list c.       *)
Written(d2, d, c, n, x) ==
    /\ d2 \in [Nodes -> Items \cup {GARBAGE}]
    /\ d2[n] = x
    /\ \A i \in 1 .. Len(c) : c[i] # n /\ d2[c[i]] = d[c[i]]

LEMMA ItemInserted ==
    ASSUME NEW c \in Seq(Nodes), NEW n \in Nodes, NEW x \in Items, NEW p \in 1 .. Len(c) + 1,
           NEW len, NEW d, NEW lv, Stored(len, d, lv, c), NEW d2, Written(d2, d, c, n, x)
    PROVE  /\ Stored(len + 1, d2, lv \cup {n}, InsertAt(c, p, n))
           /\ Read(d2, InsertAt(c, p, n)) = InsertAt(Read(d, c), p, x)
<1>1. PICK m \in Nat : m = Len(c)
  BY LenProperties
<1>2. PICK e : e = InsertAt(c, p, n)
  OBVIOUS
<1>3. /\ e \in Seq(Nodes) /\ Len(e) = m + 1
      /\ \A i \in 1 .. m + 1 : e[i] = IF i < p THEN c[i] ELSE IF i = p THEN n ELSE c[i - 1]
  <2>1. /\ InsertAt(c, p, n) \in Seq(Nodes) /\ Len(InsertAt(c, p, n)) = Len(c) + 1
        /\ \A i \in 1 .. Len(c) + 1 :
              InsertAt(c, p, n)[i] = IF i < p THEN c[i] ELSE IF i = p THEN n ELSE c[i - 1]
    BY InsertedAt
  <2> QED
    BY <1>1, <1>2, <2>1
<1>5. /\ d2 \in [Nodes -> Items \cup {GARBAGE}]
      /\ d2[n] = x /\ \A i \in 1 .. m : d2[c[i]] = d[c[i]]
  BY <1>1 DEF Written
<1>6. PICK r : r = Read(d, c)
  OBVIOUS
<1>7. r \in Seq(Items) /\ Len(r) = m /\ \A i \in 1 .. m : r[i] = d[c[i]]
  BY <1>1, <1>6, ReadIsSeq DEF Read
<1>8. PICK s : s = InsertAt(r, p, x)
  OBVIOUS
<1>9. /\ s \in Seq(Items) /\ Len(s) = m + 1
      /\ \A i \in 1 .. m + 1 : s[i] = IF i < p THEN r[i] ELSE IF i = p THEN x ELSE r[i - 1]
  <2>1. p \in 1 .. Len(r) + 1
    BY <1>1, <1>7
  <2>2. /\ InsertAt(r, p, x) \in Seq(Items) /\ Len(InsertAt(r, p, x)) = Len(r) + 1
        /\ \A i \in 1 .. Len(r) + 1 :
              InsertAt(r, p, x)[i] = IF i < p THEN r[i] ELSE IF i = p THEN x ELSE r[i - 1]
    BY <1>7, <2>1, ItemInsertedAt, ZenonT(30)
  <2> QED
    BY <1>7, <1>8, <2>2
<1>10. ASSUME NEW i \in 1 .. m + 1 PROVE d2[e[i]] = s[i]
  <2>1. CASE i < p
    <3>1. i \in 1 .. m
      BY <1>1, <2>1
    <3>2. e[i] = c[i] /\ s[i] = r[i]
      BY <1>3, <1>9, <2>1, <3>1
    <3> QED
      BY <1>5, <1>7, <3>1, <3>2
  <2>2. CASE i = p
    BY <1>1, <1>3, <1>5, <1>9, <2>2
  <2>3. CASE i > p
    <3>1. i - 1 \in 1 .. m /\ ~(i < p) /\ i # p
      BY <1>1, <2>3
    <3>2. e[i] = c[i - 1] /\ s[i] = r[i - 1]
      BY <1>3, <1>9, <3>1
    <3> QED
      BY <1>5, <1>7, <3>1, <3>2
  <2> QED
    BY <1>1, <2>1, <2>2, <2>3
<1>11. {e[i] : i \in 1 .. m + 1} = lv \cup {n}
  <2>1. lv = {c[i] : i \in 1 .. m}
    BY <1>1 DEF Stored
  <2>2. ASSUME NEW i \in 1 .. m PROVE c[i] \in {e[k] : k \in 1 .. m + 1}
    <3>1. CASE i < p
      BY <1>1, <1>3, <3>1
    <3>2. CASE ~(i < p)
      <4>1. i + 1 \in 1 .. m + 1 /\ ~(i + 1 < p) /\ i + 1 # p /\ i + 1 - 1 = i
        BY <1>1, <3>2
      <4>2. e[i + 1] = c[i]
        BY <1>3, <4>1
      <4> QED
        BY <4>1, <4>2
    <3> QED
      BY <3>1, <3>2
  <2>3. e[p] = n /\ p \in 1 .. m + 1
    BY <1>1, <1>3
  <2>4. ASSUME NEW i \in 1 .. m + 1 PROVE e[i] \in lv \cup {n}
    <3>1. i < p => i \in 1 .. m
      BY <1>1
    <3>2. i > p => i - 1 \in 1 .. m
      BY <1>1
    <3> QED
      BY <1>1, <1>3, <2>1, <3>1, <3>2
  <2>5. \A y \in lv \cup {n} : y \in {e[k] : k \in 1 .. m + 1}
    BY <2>1, <2>2, <2>3
  <2>6. \A y \in {e[k] : k \in 1 .. m + 1} : y \in lv \cup {n}
    BY <2>4
  <2> QED
    BY <2>5, <2>6
<1>12. Stored(len + 1, d2, lv \cup {n}, e)
  <2>1. \A i \in 1 .. m + 1 : d2[e[i]] \in Items
    BY <1>9, <1>10, ElementOfSeq
  <2> QED
    BY <1>1, <1>3, <1>5, <1>11, <2>1 DEF Stored
<1>13. Read(d2, e) = s
  <2>1. DOMAIN s = 1 .. m + 1 /\ s = [i \in 1 .. m + 1 |-> s[i]]
    BY <1>9, LenProperties
  <2> QED
    BY <1>3, <1>10, <2>1 DEF Read
<1> QED
  BY <1>2, <1>6, <1>8, <1>12, <1>13

(* d2 is d but for the node at position p of c.                             *)
Erased(d2, d, c, p) ==
    /\ d2 \in [Nodes -> Items \cup {GARBAGE}]
    /\ \A i \in 1 .. Len(c) : i # p => d2[c[i]] = d[c[i]]

LEMMA ItemRemoved ==
    ASSUME NEW c \in Seq(Nodes), Once(c), NEW p \in 1 .. Len(c),
           NEW len, NEW d, NEW lv, Stored(len, d, lv, c),
           NEW d2, Erased(d2, d, c, p)
    PROVE  Stored(len - 1, d2, lv \ {c[p]}, RemoveAt(c, p))
<1>1. PICK m \in Nat : m = Len(c)
  BY LenProperties
<1>2. PICK e : e = RemoveAt(c, p)
  OBVIOUS
<1>3. /\ e \in Seq(Nodes) /\ Len(e) = m - 1
      /\ \A i \in 1 .. m - 1 : e[i] = IF i < p THEN c[i] ELSE c[i + 1]
  <2>1. /\ RemoveAt(c, p) \in Seq(Nodes) /\ Len(RemoveAt(c, p)) = Len(c) - 1
        /\ \A i \in 1 .. Len(c) - 1 : RemoveAt(c, p)[i] = IF i < p THEN c[i] ELSE c[i + 1]
    BY RemovedAt
  <2> QED
    BY <1>1, <1>2, <2>1
<1>4. \A i \in 1 .. m : c[i] \in Nodes
  BY <1>1, ElementOfSeq
<1>6. \A i, k \in 1 .. m : c[i] = c[k] => i = k
  BY <1>1 DEF Once
<1>7. /\ d2 \in [Nodes -> Items \cup {GARBAGE}]
      /\ \A i \in 1 .. m : i # p => d2[c[i]] = d[c[i]]
  BY <1>1 DEF Erased
<1>8. \A i \in 1 .. m - 1 : \E k \in 1 .. m : k # p /\ e[i] = c[k]
  <2> TAKE i \in 1 .. m - 1
  <2>1. CASE i < p
    BY <1>1, <1>3, <2>1
  <2>2. CASE ~(i < p)
    <3>1. i + 1 \in 1 .. m /\ i + 1 # p
      BY <1>1, <2>2
    <3> QED
      BY <1>3, <2>2, <3>1
  <2> QED
    BY <2>1, <2>2
<1>9. \A k \in 1 .. m : k # p => \E i \in 1 .. m - 1 : e[i] = c[k]
  <2> TAKE k \in 1 .. m
  <2>1. CASE k < p
    BY <1>1, <1>3, <2>1
  <2>2. CASE k > p
    <3>1. k - 1 \in 1 .. m - 1 /\ ~(k - 1 < p) /\ k - 1 + 1 = k
      BY <1>1, <2>2
    <3>2. e[k - 1] = c[k]
      BY <1>3, <3>1
    <3> QED
      BY <3>1, <3>2
  <2> QED
    BY <1>1, <2>1, <2>2
<1>10. {e[i] : i \in 1 .. m - 1} = lv \ {c[p]}
  <2>1. lv = {c[i] : i \in 1 .. m}
    BY <1>1 DEF Stored
  <2>2. \A i \in 1 .. m - 1 : e[i] \in lv \ {c[p]}
    BY <1>1, <1>6, <1>8, <2>1
  <2>3. \A k \in 1 .. m : k # p => c[k] \in {e[i] : i \in 1 .. m - 1}
    BY <1>9
  <2> QED
    BY <1>1, <2>1, <2>2, <2>3
<1>11. \A i \in 1 .. m - 1 : d2[e[i]] \in Items
  <2>1. \A i \in 1 .. m : d[c[i]] \in Items
    BY <1>1 DEF Stored
  <2> QED
    BY <1>7, <1>8, <2>1
<1>12. Stored(len - 1, d2, lv \ {c[p]}, e)
  BY <1>1, <1>3, <1>7, <1>10, <1>11 DEF Stored
<1> QED
  BY <1>1, <1>2, <1>7, <1>12

LEMMA QueueState ==
    ASSUME NEW c, IsQueue(c)
    PROVE  /\ c \in Seq(Nodes) /\ Once(c) /\ Len(c) \in Nat
           /\ \A i \in 1 .. Len(c) : c[i] \in Nodes
           /\ Chain = c /\ Contents = Read(data, c)
           /\ Empty <=> Len(c) = 0
           /\ live = {c[i] : i \in 1 .. Len(c)}
<1>1. c \in Seq(Nodes) /\ Once(c)
  BY DEF IsQueue, Linked
<1>2. Len(c) \in Nat /\ DOMAIN c = 1 .. Len(c) /\ \A i \in 1 .. Len(c) : c[i] \in Nodes
  BY <1>1, LenProperties, ElementOfSeq
<1>3. Chain = c
  BY ChainIs DEF IsQueue
<1>4. Contents = Read(data, c)
  BY <1>2, <1>3 DEF Contents, Read
<1>5. Empty <=> Len(c) = 0
  <2>1. NULL \notin Nodes
    BY LinkedQueueAssumption
  <2>2. CASE Len(c) = 0
    BY <2>2 DEF Empty, IsQueue, Linked
  <2>3. CASE Len(c) # 0
    <3>1. head = IF Len(c) = 0 THEN NULL ELSE c[1]
      BY DEF IsQueue, Linked
    <3>2. 1 \in 1 .. Len(c)
      BY <1>2, <2>3
    <3> QED
      BY <1>2, <2>1, <2>3, <3>1, <3>2 DEF Empty
  <2> QED
    BY <2>2, <2>3
<1>6. live = {c[i] : i \in 1 .. Len(c)}
  BY DEF IsQueue, Stored
<1> QED
  BY <1>1, <1>2, <1>3, <1>4, <1>5, <1>6

LEMMA QueueStateNext ==
    ASSUME NEW c, Linked(head', tail', prev', next', c), Stored(q_length', data', live', c)
    PROVE  QueueInv' /\ Chain' = c /\ Contents' = Read(data', c)
<1>1. c \in Seq(Nodes)
  BY DEF Linked
<1>2. DOMAIN c = 1 .. Len(c)
  BY <1>1, LenProperties
<1>3. Chain' = c
  BY ChainIsNext
<1>4. Contents' = Read(data', c)
  BY <1>2, <1>3 DEF Contents, Read
<1>5. QueueInv'
  BY <1>1 DEF QueueInv, IsQueue
<1> QED
  BY <1>3, <1>4, <1>5

(* What a call that allocates a node does to the list, once its pointers    *)
(* are seen to be right.                                                    *)
LEMMA NewNodeStored ==
    ASSUME NEW c, IsQueue(c), NEW n \in Nodes, NEW x \in Items, NEW p \in 1 .. Len(c) + 1,
           NEW pv, NEW nx, NewNode(n, x, pv, nx),
           Linked(head', tail', pv, nx, InsertAt(c, p, n))
    PROVE  QueueInv' /\ Contents' = InsertAt(Contents, p, x) /\ result' = 0
<1>1. /\ c \in Seq(Nodes) /\ Contents = Read(data, c)
      /\ live = {c[i] : i \in 1 .. Len(c)}
  BY QueueState
<1>2. /\ n \notin live /\ live' = live \cup {n} /\ data' = [data EXCEPT ![n] = x]
      /\ prev' = pv /\ next' = nx /\ q_length' = q_length + 1 /\ result' = 0
  BY DEF NewNode
<1>3. \A i \in 1 .. Len(c) : c[i] # n
  BY <1>1, <1>2
<1>4. Stored(q_length, data, live, c)
  BY DEF IsQueue
<1>5. /\ Stored(q_length + 1, [data EXCEPT ![n] = x], live \cup {n}, InsertAt(c, p, n))
      /\ Read([data EXCEPT ![n] = x], InsertAt(c, p, n)) = InsertAt(Read(data, c), p, x)
  <2>1. PICK d : d = [data EXCEPT ![n] = x]
    OBVIOUS
  <2>2. Written(d, data, c, n, x)
    BY <1>1, <1>3, <1>4, <2>1, ElementOfSeq DEF Stored, Written
  <2>3. /\ Stored(q_length + 1, d, live \cup {n}, InsertAt(c, p, n))
        /\ Read(d, InsertAt(c, p, n)) = InsertAt(Read(data, c), p, x)
    BY <1>1, <1>4, <2>2, ItemInserted
  <2> QED
    BY <2>1, <2>3
<1>6. PICK e : e = InsertAt(c, p, n)
  OBVIOUS
<1>7. Stored(q_length', data', live', e) /\ Read(data', e) = InsertAt(Contents, p, x)
  BY <1>1, <1>2, <1>5, <1>6
<1>8. Linked(head', tail', prev', next', e)
  BY <1>2, <1>6
<1> QED
  BY <1>2, <1>7, <1>8, QueueStateNext

LEMMA AppendLinks ==
    ASSUME NEW c, IsQueue(c), NEW n \in Nodes, NEW x \in Items, queue_append(n, x)
    PROVE  QueueInv' /\ Contents' = InsertAt(Contents, Len(c) + 1, x) /\ result' = 0
<1>1. /\ c \in Seq(Nodes) /\ Once(c) /\ \A i \in 1 .. Len(c) : c[i] \in Nodes
      /\ Empty <=> Len(c) = 0
      /\ live = {c[i] : i \in 1 .. Len(c)}
  BY QueueState
<1>2. PICK m \in Nat : m = Len(c)
  BY QueueState
<1>3. Linked(head, tail, prev, next, c)
  BY DEF IsQueue
<1>4. prev \in [Nodes -> Addresses] /\ next \in [Nodes -> Addresses]
  BY <1>3 DEF Linked
<1>5. n \notin live /\ \A i \in 1 .. m : c[i] # n
  BY <1>1, <1>2 DEF queue_append, NewNode
<1>6. tail' = n /\ m + 1 \in 1 .. m + 1
  BY DEF queue_append
<1>7. Nodes \subseteq Addresses /\ NULL \in Addresses
  BY DEF Addresses
<1>8. CASE Empty
  <2>1. m = 0
    BY <1>1, <1>2, <1>8
  <2>2. PICK pv : pv = [prev EXCEPT ![n] = NULL]
    OBVIOUS
  <2>3. PICK nx : nx = [next EXCEPT ![n] = NULL]
    OBVIOUS
  <2>4. NewNode(n, x, pv, nx) /\ head' = n
    BY <1>8, <2>2, <2>3 DEF queue_append
  <2>5. /\ pv \in [Nodes -> Addresses] /\ pv[n] = NULL
        /\ nx \in [Nodes -> Addresses] /\ nx[n] = NULL
    BY <1>4, <1>7, <2>2, <2>3
  <2>6. PICK p \in 1 .. m + 1 : p = m + 1
    BY <1>6
  <2>7. /\ head' = IF p = 1 THEN n ELSE head
        /\ tail' = IF p = m + 1 THEN n ELSE tail
        /\ pv[n] = IF p = 1 THEN NULL ELSE c[p - 1]
        /\ nx[n] = IF p = m + 1 THEN NULL ELSE c[p]
        /\ \A i \in 1 .. m : pv[c[i]] = IF i = p THEN n ELSE prev[c[i]]
        /\ \A i \in 1 .. m : nx[c[i]] = IF i = p - 1 THEN n ELSE next[c[i]]
    BY <1>6, <2>1, <2>4, <2>5, <2>6
  <2>8. Linked(head', tail', pv, nx, InsertAt(c, p, n))
    BY <1>2, <1>3, <1>5, <2>5, <2>7, NodeInserted
  <2> QED
    BY <1>2, <1>6, <2>4, <2>6, <2>8, NewNodeStored
<1>9. CASE ~Empty
  <2>1. m # 0 /\ tail = c[m] /\ m \in 1 .. m /\ tail \in Nodes
    BY <1>1, <1>2, <1>3, <1>9 DEF Linked
  <2>2. PICK pv : pv = [prev EXCEPT ![n] = tail]
    OBVIOUS
  <2>3. PICK nx : nx = [next EXCEPT ![n] = NULL, ![tail] = n]
    OBVIOUS
  <2>4. NewNode(n, x, pv, nx) /\ head' = head
    BY <1>9, <2>2, <2>3 DEF queue_append
  <2>5. /\ pv \in [Nodes -> Addresses] /\ pv[n] = c[m]
        /\ \A i \in 1 .. m : pv[c[i]] = prev[c[i]]
    BY <1>1, <1>2, <1>4, <1>5, <1>7, <2>1, <2>2
  <2>6. /\ nx \in [Nodes -> Addresses] /\ nx[n] = NULL
        /\ \A i \in 1 .. m : nx[c[i]] = IF i = m THEN n ELSE next[c[i]]
    <3>1. \A i \in 1 .. m : c[i] = c[m] <=> i = m
      BY <1>1, <1>2, <2>1 DEF Once
    <3> QED
      BY <1>1, <1>2, <1>4, <1>5, <1>7, <2>1, <2>3, <3>1
  <2>7. PICK p \in 1 .. m + 1 : p = m + 1
    BY <1>6
  <2>8. /\ head' = IF p = 1 THEN n ELSE head
        /\ tail' = IF p = m + 1 THEN n ELSE tail
        /\ pv[n] = IF p = 1 THEN NULL ELSE c[p - 1]
        /\ nx[n] = IF p = m + 1 THEN NULL ELSE c[p]
        /\ \A i \in 1 .. m : pv[c[i]] = IF i = p THEN n ELSE prev[c[i]]
        /\ \A i \in 1 .. m : nx[c[i]] = IF i = p - 1 THEN n ELSE next[c[i]]
    BY <1>6, <2>1, <2>4, <2>5, <2>6, <2>7
  <2>9. Linked(head', tail', pv, nx, InsertAt(c, p, n))
    BY <1>2, <1>3, <1>5, <2>5, <2>6, <2>8, NodeInserted, SMTT(20)
  <2> QED
    BY <1>2, <1>6, <2>4, <2>7, <2>9, NewNodeStored
<1> QED
  BY <1>8, <1>9

LEMMA InsertLinks ==
    ASSUME NEW c, IsQueue(c), NEW n \in Nodes, NEW x \in Items, queue_insert_sorted(n, x)
    PROVE  \E p \in 1 .. Len(c) + 1 :
              /\ \A i \in 1 .. Len(c) : Key[data[c[i]]] < Key[x] <=> i < p
              /\ QueueInv' /\ Contents' = InsertAt(Contents, p, x) /\ result' = 0
<1>1. /\ c \in Seq(Nodes) /\ Once(c) /\ \A i \in 1 .. Len(c) : c[i] \in Nodes
      /\ Chain = c /\ Contents = Read(data, c)
      /\ Empty <=> Len(c) = 0
      /\ live = {c[i] : i \in 1 .. Len(c)}
  BY QueueState
<1>2. PICK m \in Nat : m = Len(c)
  BY QueueState
<1>3. Linked(head, tail, prev, next, c)
  BY DEF IsQueue
<1>4. prev \in [Nodes -> Addresses] /\ next \in [Nodes -> Addresses]
  BY <1>3 DEF Linked
<1>5. n \notin live /\ \A i \in 1 .. m : c[i] # n
  BY <1>1, <1>2 DEF queue_insert_sorted, NewNode
<1>6. Nodes \subseteq Addresses /\ NULL \in Addresses
  BY DEF Addresses
<1>7. PICK key \in [1 .. m -> Int] : \A i \in 1 .. m : key[i] = Key[data[c[i]]]
  <2>1. \A i \in 1 .. m : Key[data[c[i]]] \in Int
    BY <1>2, LinkedQueueAssumption DEF IsQueue, Stored
  <2>2. [i \in 1 .. m |-> Key[data[c[i]]]] \in [1 .. m -> Int]
    BY <2>1
  <2> QED
    BY <2>2
<1>8. PICK kx \in Int : kx = Key[x]
  BY LinkedQueueAssumption
<1>9. \A i, j \in 1 .. m : i < j => key[i] <= key[j]
  <2>1. Sorted
    BY DEF queue_insert_sorted
  <2>2. DOMAIN Contents = 1 .. m /\ \A i \in 1 .. m : Contents[i] = data[c[i]]
    BY <1>1, <1>2 DEF Read
  <2> QED
    BY <1>7, <2>1, <2>2 DEF Sorted
<1>10. \A i, k \in 1 .. m : c[i] = c[k] <=> i = k
  BY <1>1, <1>2 DEF Once
<1>11. m # 0 => /\ 1 \in 1 .. m /\ head = c[1] /\ Key[data[head]] = key[1]
                /\ m \in 1 .. m /\ tail = c[m] /\ Key[data[tail]] = key[m]
  <2>1. m # 0 => head = c[1] /\ tail = c[m]
    BY <1>2, <1>3 DEF Linked
  <2> QED
    BY <1>2, <1>7, <2>1
\* The step is settled once the position and the pointers are known.
<1>12. ASSUME NEW p \in 1 .. m + 1, \A i \in 1 .. m : key[i] < kx <=> i < p,
              NEW pv \in [Nodes -> Addresses], NEW nx \in [Nodes -> Addresses],
              NewNode(n, x, pv, nx),
              head' = IF p = 1 THEN n ELSE head,
              tail' = IF p = m + 1 THEN n ELSE tail,
              pv[n] = IF p = 1 THEN NULL ELSE c[p - 1],
              nx[n] = IF p = m + 1 THEN NULL ELSE c[p],
              \A i \in 1 .. m : pv[c[i]] = IF i = p THEN n ELSE prev[c[i]],
              \A i \in 1 .. m : nx[c[i]] = IF i = p - 1 THEN n ELSE next[c[i]]
       PROVE  \E q \in 1 .. Len(c) + 1 :
                 /\ \A i \in 1 .. Len(c) : Key[data[c[i]]] < Key[x] <=> i < q
                 /\ QueueInv' /\ Contents' = InsertAt(Contents, q, x) /\ result' = 0
  <2>1. Linked(head', tail', pv, nx, InsertAt(c, p, n))
    BY <1>2, <1>3, <1>5, <1>12, NodeInserted
  <2>2. p \in 1 .. Len(c) + 1
    BY <1>2
  <2>3. NewNode(n, x, pv, nx)
    BY <1>12
  <2>4. QueueInv' /\ Contents' = InsertAt(Contents, p, x) /\ result' = 0
    BY <2>1, <2>2, <2>3, NewNodeStored
  <2>5. \A i \in 1 .. Len(c) : Key[data[c[i]]] < Key[x] <=> i < p
    BY <1>2, <1>7, <1>8, <1>12
  <2> QED
    BY <2>2, <2>4, <2>5
<1> DEFINE alone == [next EXCEPT ![n] = NULL]
           notBefore == {i \in DOMAIN Chain : Key[data[Chain[i]]] >= Key[x]}
           current == Chain[CHOOSE i \in notBefore : \A j \in notBefore : i <= j]
<1>13. \/ /\ Empty
          /\ NewNode(n, x, [prev EXCEPT ![n] = NULL], alone)
          /\ head' = n /\ tail' = n
       \/ /\ ~Empty
          /\ Key[data[head]] >= Key[x]
          /\ NewNode(n, x, [prev EXCEPT ![n] = NULL, ![head] = n], [next EXCEPT ![n] = head])
          /\ head' = n /\ UNCHANGED tail
       \/ /\ ~Empty
          /\ Key[data[head]] < Key[x]
          /\ Key[data[tail]] < Key[x]
          /\ NewNode(n, x, [prev EXCEPT ![n] = tail], [alone EXCEPT ![tail] = n])
          /\ tail' = n /\ UNCHANGED head
       \/ /\ ~Empty
          /\ Key[data[head]] < Key[x]
          /\ Key[data[tail]] >= Key[x]
          /\ NewNode(n, x, [prev EXCEPT ![n] = prev[current], ![current] = n],
                           [next EXCEPT ![n] = current, ![prev[current]] = n])
          /\ UNCHANGED <<head, tail>>
  BY DEF queue_insert_sorted
<1>14. /\ DOMAIN Chain = 1 .. m
       /\ notBefore = {i \in 1 .. m : key[i] >= kx}
       /\ m # 0 => /\ Key[data[head]] < Key[x] <=> key[1] < kx
                   /\ Key[data[head]] >= Key[x] <=> key[1] >= kx
                   /\ Key[data[tail]] < Key[x] <=> key[m] < kx
                   /\ Key[data[tail]] >= Key[x] <=> key[m] >= kx
  <2>1. DOMAIN Chain = 1 .. m
    BY <1>1, <1>2, LenProperties
  <2> QED
    BY <1>1, <1>7, <1>8, <1>11, <2>1
<1>15. \A i \in notBefore : Chain[i] = c[i]
  BY <1>1
<1> HIDE DEF notBefore
<1>16. CASE /\ Empty
            /\ NewNode(n, x, [prev EXCEPT ![n] = NULL], alone)
            /\ head' = n /\ tail' = n
  <2>1. m = 0
    BY <1>1, <1>2, <1>16
  <2>2. PICK pv : pv = [prev EXCEPT ![n] = NULL]
    OBVIOUS
  <2>3. PICK nx : nx = alone
    OBVIOUS
  <2>4. PICK p \in 1 .. m + 1 : p = 1
    BY <2>1
  <2>5. /\ pv \in [Nodes -> Addresses] /\ pv[n] = NULL
        /\ nx \in [Nodes -> Addresses] /\ nx[n] = NULL
    BY <1>4, <1>6, <2>2, <2>3
  <2>6. NewNode(n, x, pv, nx) /\ head' = n /\ tail' = n
    BY <1>16, <2>2, <2>3
  <2> HIDE DEF alone
  <2> QED
    BY <1>12, <2>1, <2>4, <2>5, <2>6
<1>17. CASE /\ ~Empty
            /\ Key[data[head]] >= Key[x]
            /\ NewNode(n, x, [prev EXCEPT ![n] = NULL, ![head] = n], [next EXCEPT ![n] = head])
            /\ head' = n /\ UNCHANGED tail
  <2>1. m # 0 /\ key[1] >= kx
    BY <1>1, <1>2, <1>14, <1>17
  <2>2. PICK pv : pv = [prev EXCEPT ![n] = NULL, ![head] = n]
    OBVIOUS
  <2>3. PICK nx : nx = [next EXCEPT ![n] = head]
    OBVIOUS
  <2>4. PICK p \in 1 .. m + 1 : p = 1
    OBVIOUS
  <2>5. NewNode(n, x, pv, nx) /\ head' = n /\ tail' = tail
    BY <1>17, <2>2, <2>3
  <2>6. head = c[1] /\ head \in Nodes /\ head # n /\ \A i \in 1 .. m : c[i] = head <=> i = 1
    BY <1>1, <1>2, <1>5, <1>10, <1>11, <2>1
  <2>7. /\ pv \in [Nodes -> Addresses] /\ pv[n] = NULL
        /\ \A i \in 1 .. m : pv[c[i]] = IF i = 1 THEN n ELSE prev[c[i]]
    BY <1>1, <1>2, <1>4, <1>5, <1>6, <2>2, <2>6
  <2>8. /\ nx \in [Nodes -> Addresses] /\ nx[n] = head
        /\ \A i \in 1 .. m : nx[c[i]] = next[c[i]]
    BY <1>1, <1>2, <1>4, <1>5, <1>6, <2>3, <2>6
  <2>9. \A i \in 1 .. m : key[i] < kx <=> i < p
    <3> TAKE i \in 1 .. m
    <3>1. key[1] <= key[i] /\ key[1] \in Int /\ key[i] \in Int
      BY <1>7, <1>9, <1>11, <2>1
    <3> QED
      BY <2>1, <2>4, <3>1
  <2>10. \A i \in 1 .. m : i # p - 1
    BY <2>4
  <2> QED
    BY <1>12, <2>1, <2>4, <2>5, <2>6, <2>7, <2>8, <2>9, <2>10, SMTT(20)
<1>18. CASE /\ ~Empty
            /\ Key[data[head]] < Key[x]
            /\ Key[data[tail]] < Key[x]
            /\ NewNode(n, x, [prev EXCEPT ![n] = tail], [alone EXCEPT ![tail] = n])
            /\ tail' = n /\ UNCHANGED head
  <2>1. m # 0 /\ key[m] < kx
    BY <1>1, <1>2, <1>14, <1>18
  <2>2. PICK pv : pv = [prev EXCEPT ![n] = tail]
    OBVIOUS
  <2>3. PICK nx : nx = [alone EXCEPT ![tail] = n]
    OBVIOUS
  <2>4. PICK p \in 1 .. m + 1 : p = m + 1
    OBVIOUS
  <2>5. NewNode(n, x, pv, nx) /\ tail' = n /\ head' = head
    BY <1>18, <2>2, <2>3
  <2>6. tail = c[m] /\ tail \in Nodes /\ tail # n /\ \A i \in 1 .. m : c[i] = tail <=> i = m
    BY <1>1, <1>2, <1>5, <1>10, <1>11, <2>1
  <2>7. /\ pv \in [Nodes -> Addresses] /\ pv[n] = c[m]
        /\ \A i \in 1 .. m : pv[c[i]] = prev[c[i]]
    BY <1>1, <1>2, <1>4, <1>5, <1>6, <2>2, <2>6
  <2>8. /\ nx \in [Nodes -> Addresses] /\ nx[n] = NULL
        /\ \A i \in 1 .. m : nx[c[i]] = IF i = m THEN n ELSE next[c[i]]
    BY <1>1, <1>2, <1>4, <1>5, <1>6, <2>3, <2>6
  <2>9. \A i \in 1 .. m : key[i] < kx <=> i < p
    <3> TAKE i \in 1 .. m
    <3>1. key[i] <= key[m] /\ key[m] \in Int /\ key[i] \in Int
      BY <1>7, <1>9, <1>11, <2>1
    <3> QED
      BY <2>1, <2>4, <3>1
  <2>10. p # 1 /\ p - 1 = m /\ \A i \in 1 .. m : i # p
    BY <2>1, <2>4
  <2> HIDE DEF alone
  <2> QED
    BY <1>12, <2>1, <2>4, <2>5, <2>7, <2>8, <2>9, <2>10
<1>19. CASE /\ ~Empty
            /\ Key[data[head]] < Key[x]
            /\ Key[data[tail]] >= Key[x]
            /\ NewNode(n, x, [prev EXCEPT ![n] = prev[current], ![current] = n],
                             [next EXCEPT ![n] = current, ![prev[current]] = n])
            /\ UNCHANGED <<head, tail>>
  <2>1. m # 0 /\ key[1] < kx /\ key[m] >= kx
    BY <1>1, <1>2, <1>14, <1>19
  <2>2. PICK p \in notBefore : \A j \in notBefore : p <= j
    <3>1. notBefore \in SUBSET Nat /\ notBefore # {}
      BY <1>11, <1>14, <2>1
    <3> QED
      BY <3>1, LeastNumber
  <2>3. p \in 1 .. m /\ key[p] >= kx /\ \A i \in 1 .. m : key[i] >= kx => p <= i
    BY <1>14, <2>2
  <2>4. (CHOOSE i \in notBefore : \A j \in notBefore : i <= j) = p
    <3>1. \A i \in notBefore : i \in Nat
      BY <1>14
    <3>2. \A i \in notBefore : (\A j \in notBefore : i <= j) => i = p
      BY <2>2, <3>1
    <3> QED
      BY <2>2, <3>2
  <2>5. current = c[p]
    BY <1>15, <2>2, <2>4
  <2> HIDE DEF current
  <2>6. p # 1 /\ p - 1 \in 1 .. m /\ p # m + 1 /\ p \in 1 .. m + 1
    BY <1>7, <2>1, <2>3
  <2>7. prev[current] = c[p - 1]
    BY <1>2, <1>3, <2>3, <2>5, <2>6 DEF Linked
  <2>8. PICK pv : pv = [prev EXCEPT ![n] = c[p - 1], ![c[p]] = n]
    OBVIOUS
  <2>9. PICK nx : nx = [next EXCEPT ![n] = c[p], ![c[p - 1]] = n]
    OBVIOUS
  <2>10. NewNode(n, x, pv, nx) /\ tail' = tail /\ head' = head
    BY <1>19, <2>5, <2>7, <2>8, <2>9
  <2>11. c[p] \in Nodes /\ c[p - 1] \in Nodes /\ c[p] # n /\ c[p - 1] # n
    BY <1>1, <1>2, <1>5, <2>3, <2>6
  <2>12. /\ pv \in [Nodes -> Addresses] /\ pv[n] = c[p - 1]
         /\ \A i \in 1 .. m : pv[c[i]] = IF i = p THEN n ELSE prev[c[i]]
    BY <1>1, <1>2, <1>4, <1>5, <1>6, <1>10, <2>3, <2>8, <2>11
  <2>13. /\ nx \in [Nodes -> Addresses] /\ nx[n] = c[p]
         /\ \A i \in 1 .. m : nx[c[i]] = IF i = p - 1 THEN n ELSE next[c[i]]
    BY <1>1, <1>2, <1>4, <1>5, <1>6, <1>10, <2>6, <2>9, <2>11
  <2>14. \A i \in 1 .. m : key[i] < kx <=> i < p
    <3> TAKE i \in 1 .. m
    <3>1. key[i] \in Int /\ key[p] \in Int /\ (p < i => key[p] <= key[i])
      BY <1>7, <1>9, <2>3
    <3> QED
      BY <2>3, <3>1
  <2> QED
    BY <1>12, <2>6, <2>10, <2>12, <2>13, <2>14
<1> HIDE DEF alone, current
<1> QED
  BY <1>13, <1>16, <1>17, <1>18, <1>19

LEMMA ItemErased ==
    ASSUME NEW c \in Seq(Nodes), Once(c), NEW p \in 1 .. Len(c),
           NEW len, NEW d, NEW lv, Stored(len, d, lv, c)
    PROVE  Erased(free(d, c[p]), d, c, p)
<1>1. d \in [Nodes -> Items \cup {GARBAGE}]
  BY DEF Stored
<1>2. \A i \in 1 .. Len(c) : c[i] \in Nodes /\ (c[i] = c[p] <=> i = p)
  BY ElementOfSeq DEF Once
<1> QED
  BY <1>1, <1>2 DEF Erased, free

LEMMA DequeueLinks ==
    ASSUME NEW c, IsQueue(c), queue_dequeue
    PROVE  QueueInv' /\ Contents # <<>> /\ Contents' = Tail(Contents) /\ result' = Head(Contents)
<1>1. /\ c \in Seq(Nodes) /\ Once(c) /\ \A i \in 1 .. Len(c) : c[i] \in Nodes
      /\ Contents = Read(data, c)
      /\ Empty <=> Len(c) = 0
  BY QueueState
<1>2. PICK m \in Nat : m = Len(c)
  BY QueueState
<1>3. Linked(head, tail, prev, next, c) /\ Stored(q_length, data, live, c)
  BY DEF IsQueue
<1>4. /\ prev \in [Nodes -> Addresses] /\ next \in [Nodes -> Addresses]
      /\ \A i \in 1 .. m : prev[c[i]] = IF i = 1 THEN NULL ELSE c[i - 1]
      /\ \A i \in 1 .. m : next[c[i]] = IF i = m THEN NULL ELSE c[i + 1]
  BY <1>2, <1>3 DEF Linked
<1>5. m # 0 /\ 1 \in 1 .. m /\ m \in 1 .. m
  BY <1>1, <1>2 DEF queue_dequeue
<1>6. head = c[1] /\ tail = c[m]
  BY <1>2, <1>3, <1>5 DEF Linked
<1>7. \A i, k \in 1 .. m : c[i] = c[k] <=> i = k
  BY <1>1, <1>2 DEF Once
<1>8. NULL \notin Nodes /\ GARBAGE \in Addresses /\ NULL \in Addresses
  BY LinkedQueueAssumption DEF Addresses
<1>9. next[head] = NULL /\ prev[tail] = NULL <=> m = 1
  <2>1. CASE m = 1
    BY <1>4, <1>5, <1>6, <2>1
  <2>2. CASE m # 1
    <3>1. 2 \in 1 .. m
      BY <1>5, <2>2
    <3>2. next[head] = c[2] /\ c[2] \in Nodes
      BY <1>1, <1>2, <1>4, <1>5, <1>6, <2>2, <3>1
    <3> QED
      BY <1>8, <2>2, <3>2
  <2> QED
    BY <2>1, <2>2
<1>10. /\ next' = [next EXCEPT ![c[1]] = GARBAGE]
       /\ data' = free(data, c[1])
       /\ live' = live \ {c[1]} /\ q_length' = q_length - 1 /\ result' = data[c[1]]
  BY <1>6 DEF queue_dequeue, free
<1>11. /\ next' \in [Nodes -> Addresses]
       /\ \A i \in 1 .. m : i # 1 => next'[c[i]] = next[c[i]]
  BY <1>1, <1>2, <1>4, <1>5, <1>7, <1>8, <1>10
<1>12. /\ head' = next[c[1]]
       /\ tail' = IF m = 1 THEN prev[c[1]] ELSE tail
       /\ prev' \in [Nodes -> Addresses]
       /\ \A i \in 1 .. m : i # 1 => prev'[c[i]] = IF i = 2 THEN prev[c[1]] ELSE prev[c[i]]
  <2>1. CASE m = 1
    <3>1. head' = NULL /\ tail' = NULL /\ prev' = [prev EXCEPT ![c[1]] = GARBAGE]
      BY <1>6, <1>9, <2>1 DEF queue_dequeue, free
    <3>2. next[c[1]] = NULL /\ prev[c[1]] = NULL
      BY <1>4, <1>5, <2>1
    <3>3. prev' \in [Nodes -> Addresses]
      BY <1>4, <1>8, <3>1
    <3>4. \A i \in 1 .. m : i = 1
      BY <2>1
    <3> QED
      BY <2>1, <3>1, <3>2, <3>3, <3>4
  <2>2. CASE m # 1
    <3>1. 2 \in 1 .. m /\ next[c[1]] = c[2] /\ prev[c[1]] = NULL
      BY <1>4, <1>5, <2>2
    <3>2. /\ head' = next[c[1]] /\ tail' = tail
          /\ prev' = [[prev EXCEPT ![c[2]] = NULL] EXCEPT ![c[1]] = GARBAGE]
      BY <1>6, <1>9, <2>2, <3>1 DEF queue_dequeue, free
    <3>3. prev' \in [Nodes -> Addresses]
      BY <1>4, <1>8, <3>2
    <3>4. \A i \in 1 .. m : i # 1 => prev'[c[i]] = IF i = 2 THEN NULL ELSE prev[c[i]]
      BY <1>1, <1>2, <1>4, <1>5, <1>7, <3>1, <3>2
    <3> QED
      BY <2>2, <3>1, <3>2, <3>3, <3>4
  <2> QED
    BY <2>1, <2>2
<1>13. Linked(head', tail', prev', next', RemoveAt(c, 1))
  <2>1. PICK p \in 1 .. m : p = 1
    BY <1>5
  <2>2. /\ head' = IF p = 1 THEN next[c[p]] ELSE head
        /\ tail' = IF p = m THEN prev[c[p]] ELSE tail
        /\ \A i \in 1 .. m : i # p => prev'[c[i]] = IF i = p + 1 THEN prev[c[p]] ELSE prev[c[i]]
        /\ \A i \in 1 .. m : i # p => next'[c[i]] = IF i = p - 1 THEN next[c[p]] ELSE next[c[i]]
    BY <1>11, <1>12, <2>1
  <2> QED
    BY <1>2, <1>3, <1>11, <1>12, <2>1, <2>2, NodeRemoved
<1>14. Erased(data', data, c, 1) /\ 1 \in 1 .. Len(c)
  BY <1>1, <1>2, <1>3, <1>5, <1>10, ItemErased
<1>15. Stored(q_length', data', live', RemoveAt(c, 1))
  BY <1>1, <1>3, <1>10, <1>14, ItemRemoved
<1>16. PICK e : e = RemoveAt(c, 1)
  OBVIOUS
<1>17. QueueInv' /\ Contents' = Read(data', e)
  BY <1>13, <1>15, <1>16, QueueStateNext
<1>18. PICK r : r = Read(data, c)
  OBVIOUS
<1>19. /\ r \in Seq(Items) /\ Len(r) = m /\ r # <<>>
       /\ \A i \in 1 .. m : r[i] = data[c[i]]
  <2>1. r \in Seq(Items) /\ Len(r) = m /\ \A i \in 1 .. m : r[i] = data[c[i]]
    BY <1>1, <1>2, <1>3, <1>18, ReadIsSeq DEF Read
  <2> QED
    BY <1>5, <2>1
<1>20. /\ e \in Seq(Nodes) /\ Len(e) = m - 1
       /\ \A i \in 1 .. m - 1 : e[i] = c[i + 1]
  <2>1. /\ RemoveAt(c, 1) \in Seq(Nodes) /\ Len(RemoveAt(c, 1)) = Len(c) - 1
        /\ \A i \in 1 .. Len(c) - 1 : RemoveAt(c, 1)[i] = IF i < 1 THEN c[i] ELSE c[i + 1]
    BY <1>1, <1>14, RemovedAt
  <2> QED
    BY <1>2, <1>16, <2>1
<1>21. Read(data', e) = Tail(r)
  <2>1. /\ Tail(r) \in Seq(Items) /\ Len(Tail(r)) = m - 1
        /\ \A i \in 1 .. m - 1 : Tail(r)[i] = r[i + 1]
    BY <1>19, HeadTailProperties
  <2>2. PICK s : s = Tail(r)
    OBVIOUS
  <2>3. s = [i \in 1 .. m - 1 |-> s[i]]
    BY <2>1, <2>2, LenProperties
  <2>4. ASSUME NEW i \in 1 .. m - 1 PROVE data'[e[i]] = s[i]
    <3>1. i + 1 \in 1 .. m /\ i + 1 # 1
      BY <1>5
    <3>2. data'[c[i + 1]] = data[c[i + 1]]
      BY <1>2, <1>14, <3>1 DEF Erased
    <3> QED
      BY <1>19, <1>20, <2>1, <2>2, <3>1, <3>2
  <2> QED
    BY <1>20, <2>2, <2>3, <2>4 DEF Read
<1>22. Head(r) = data[c[1]]
  BY <1>5, <1>19
<1> QED
  BY <1>1, <1>10, <1>17, <1>18, <1>19, <1>21, <1>22

(* The list as queue_delete_by_predicate has it while it walks.             *)
HasList(l, c) ==
    Linked(l.head, l.tail, l.prev, l.next, c) /\ Stored(l.q_length, l.data, l.live, c)

LEMMA UnlinkRemoves ==
    ASSUME NEW l, NEW c, HasList(l, c), NEW p \in 1 .. Len(c)
    PROVE  /\ HasList(Unlink(l, c[p]), RemoveAt(c, p))
           /\ Erased(Unlink(l, c[p]).data, l.data, c, p)
           /\ Unlink(l, c[p]).result = l.data[c[p]]
<1>1. Linked(l.head, l.tail, l.prev, l.next, c) /\ Stored(l.q_length, l.data, l.live, c)
  BY DEF HasList
<1>2. PICK h, t, prv, nxt : h = l.head /\ t = l.tail /\ prv = l.prev /\ nxt = l.next
  OBVIOUS
<1>3. Linked(h, t, prv, nxt, c)
  BY <1>1, <1>2
<1>4. c \in Seq(Nodes) /\ Once(c)
  BY <1>3 DEF Linked
<1>5. PICK m \in Nat : m = Len(c) /\ p \in 1 .. m
  BY <1>4, LenProperties
<1>6. /\ \A i \in 1 .. m : c[i] \in Nodes
      /\ \A i, k \in 1 .. m : c[i] = c[k] <=> i = k
  BY <1>4, <1>5, ElementOfSeq DEF Once
<1>7. /\ prv \in [Nodes -> Addresses] /\ nxt \in [Nodes -> Addresses]
      /\ \A i \in 1 .. m : prv[c[i]] = IF i = 1 THEN NULL ELSE c[i - 1]
      /\ \A i \in 1 .. m : nxt[c[i]] = IF i = m THEN NULL ELSE c[i + 1]
      /\ h = c[1] /\ t = c[m]
  BY <1>3, <1>5 DEF Linked
<1>8. NULL \notin Nodes /\ Nodes \subseteq Addresses /\ NULL \in Addresses /\ GARBAGE \in Addresses
  BY LinkedQueueAssumption DEF Addresses
<1>9. PICK nx, pv : nx = nxt[c[p]] /\ pv = prv[c[p]]
  OBVIOUS
<1>10. /\ nx = IF p = m THEN NULL ELSE c[p + 1]
       /\ pv = IF p = 1 THEN NULL ELSE c[p - 1]
  BY <1>5, <1>7, <1>9
<1>11. /\ p # m => p + 1 \in 1 .. m /\ nx = c[p + 1] /\ nx \in Nodes /\ nx # NULL
       /\ p # 1 => p - 1 \in 1 .. m /\ pv = c[p - 1] /\ pv \in Nodes /\ pv # NULL
  <2>1. p # m => p + 1 \in 1 .. m
    BY <1>5
  <2>2. p # 1 => p - 1 \in 1 .. m
    BY <1>5
  <2> QED
    BY <1>6, <1>8, <1>10, <2>1, <2>2
<1>12. PICK u : u = Unlink(l, c[p])
  OBVIOUS
<1>13. /\ u.head = IF h = c[p] THEN IF pv # NULL THEN pv ELSE nx ELSE h
       /\ u.tail = IF t = c[p] THEN IF nx # NULL THEN nx ELSE pv ELSE t
       /\ u.q_length = l.q_length - 1
       /\ u.data = free(l.data, c[p])
       /\ u.prev = free(IF nx # NULL THEN [prv EXCEPT ![nx] = pv] ELSE prv, c[p])
       /\ u.next = free(IF pv # NULL THEN [nxt EXCEPT ![pv] = nx] ELSE nxt, c[p])
       /\ u.live = l.live \ {c[p]}
       /\ u.result = l.data[c[p]]
  BY <1>2, <1>9, <1>12 DEF Unlink
<1>14. PICK h2, t2, prv2, nxt2 : h2 = u.head /\ t2 = u.tail /\ prv2 = u.prev /\ nxt2 = u.next
  OBVIOUS
<1>15. h2 = (IF p = 1 THEN nx ELSE h) /\ t2 = IF p = m THEN pv ELSE t
  <2>1. (h = c[p] <=> p = 1) /\ (t = c[p] <=> p = m)
    BY <1>5, <1>6, <1>7
  <2>2. (p = 1 => pv = NULL) /\ (p = m => nx = NULL)
    BY <1>10
  <2> QED
    BY <1>13, <1>14, <2>1, <2>2
<1>16. /\ prv2 \in [Nodes -> Addresses]
       /\ \A i \in 1 .. m : i # p => prv2[c[i]] = IF i = p + 1 THEN pv ELSE prv[c[i]]
  <2>1. CASE p = m
    <3>1. prv2 = [prv EXCEPT ![c[p]] = GARBAGE]
      BY <1>10, <1>13, <1>14, <2>1 DEF free
    <3>2. prv2 \in [Nodes -> Addresses] /\ \A a \in Nodes : a # c[p] => prv2[a] = prv[a]
      BY <1>7, <1>8, <3>1
    <3>3. \A i \in 1 .. m : i # p => c[i] \in Nodes /\ c[i] # c[p]
      BY <1>5, <1>6
    <3>4. \A i \in 1 .. m : i # p + 1
      BY <2>1
    <3> QED
      BY <3>2, <3>3, <3>4
  <2>2. CASE p # m
    <3>1. prv2 = [[prv EXCEPT ![nx] = pv] EXCEPT ![c[p]] = GARBAGE]
      BY <1>11, <1>13, <1>14, <2>2 DEF free
    <3>2. pv \in Addresses
      BY <1>8, <1>10, <1>11
    <3>3. prv2 \in [Nodes -> Addresses]
      BY <1>7, <1>8, <3>1, <3>2
    <3>4. \A a \in Nodes : a # c[p] => prv2[a] = IF a = nx THEN pv ELSE prv[a]
      BY <1>7, <3>1
    <3>5. \A i \in 1 .. m : c[i] = nx <=> i = p + 1
      BY <1>6, <1>11, <2>2
    <3>6. \A i \in 1 .. m : i # p => c[i] \in Nodes /\ c[i] # c[p]
      BY <1>5, <1>6
    <3>7. \A i \in 1 .. m : i # p => prv2[c[i]] = IF i = p + 1 THEN pv ELSE prv[c[i]]
      BY <3>4, <3>5, <3>6
    <3> QED
      BY <3>3, <3>7
  <2> QED
    BY <2>1, <2>2
<1>17. /\ nxt2 \in [Nodes -> Addresses]
       /\ \A i \in 1 .. m : i # p => nxt2[c[i]] = IF i = p - 1 THEN nx ELSE nxt[c[i]]
  <2>1. CASE p = 1
    <3>1. nxt2 = [nxt EXCEPT ![c[p]] = GARBAGE]
      BY <1>10, <1>13, <1>14, <2>1 DEF free
    <3>2. nxt2 \in [Nodes -> Addresses] /\ \A a \in Nodes : a # c[p] => nxt2[a] = nxt[a]
      BY <1>7, <1>8, <3>1
    <3>3. \A i \in 1 .. m : i # p => c[i] \in Nodes /\ c[i] # c[p]
      BY <1>5, <1>6
    <3>4. \A i \in 1 .. m : i # p - 1
      BY <2>1
    <3> QED
      BY <3>2, <3>3, <3>4
  <2>2. CASE p # 1
    <3>1. nxt2 = [[nxt EXCEPT ![pv] = nx] EXCEPT ![c[p]] = GARBAGE]
      BY <1>11, <1>13, <1>14, <2>2 DEF free
    <3>2. nx \in Addresses
      BY <1>8, <1>10, <1>11
    <3>3. nxt2 \in [Nodes -> Addresses]
      BY <1>7, <1>8, <3>1, <3>2
    <3>4. \A a \in Nodes : a # c[p] => nxt2[a] = IF a = pv THEN nx ELSE nxt[a]
      BY <1>7, <3>1
    <3>5. \A i \in 1 .. m : c[i] = pv <=> i = p - 1
      BY <1>6, <1>11, <2>2
    <3>6. \A i \in 1 .. m : i # p => c[i] \in Nodes /\ c[i] # c[p]
      BY <1>5, <1>6
    <3>7. \A i \in 1 .. m : i # p => nxt2[c[i]] = IF i = p - 1 THEN nx ELSE nxt[c[i]]
      BY <3>4, <3>5, <3>6
    <3> QED
      BY <3>3, <3>7
  <2> QED
    BY <2>1, <2>2
<1>18. Linked(h2, t2, prv2, nxt2, RemoveAt(c, p))
  BY <1>3, <1>5, <1>9, <1>15, <1>16, <1>17, NodeRemoved
<1>19. Erased(u.data, l.data, c, p)
  BY <1>1, <1>4, <1>13, ItemErased
<1>20. Stored(u.q_length, u.data, u.live, RemoveAt(c, p))
  BY <1>1, <1>4, <1>13, <1>19, ItemRemoved
<1>21. HasList(u, RemoveAt(c, p))
  BY <1>14, <1>18, <1>20 DEF HasList
<1> QED
  BY <1>12, <1>13, <1>19, <1>21

(* The recursion of Sweep.                                                  *)
LEMMA SweepSteps ==
    ASSUME NEW k, NEW c \in Seq(Nodes), Chain = c
    PROVE  \E w : /\ Sweep(k) = w[Len(c)]
                  /\ w[0] = List
                  /\ \A i \in 1 .. Len(c) :
                        w[i] = IF Key[w[i - 1].data[c[i]]] = k THEN Unlink(w[i - 1], c[i]) ELSE w[i - 1]
<1>1. PICK m \in Nat : m = Len(c)
  BY LenProperties
<1> DEFINE Step(u, i) == IF Key[u.data[Chain[i]]] = k THEN Unlink(u, Chain[i]) ELSE u
           Recursive(w, n) == w = [i \in 0 .. n |-> IF i = 0 THEN List ELSE Step(w[i - 1], i)]
           Off == {n \in Nat : ~ \E w : Recursive(w, n)}
<1>2. Off = {}
  <2>1. SUFFICES ASSUME Off # {} PROVE FALSE
    OBVIOUS
  <2>2. PICK n \in Off : \A i \in Off : n <= i
    <3>1. Off \in SUBSET Nat
      OBVIOUS
    <3> HIDE DEF Off
    <3> QED
      BY <2>1, <3>1, LeastNumber
  <2>3. n \in Nat /\ ~ \E w : Recursive(w, n)
    OBVIOUS
  <2> HIDE DEF Step
  <2>4. n # 0
    <3>1. SUFFICES ASSUME n = 0 PROVE FALSE
      OBVIOUS
    <3>2. PICK w : w = [i \in 0 .. 0 |-> List]
      OBVIOUS
    <3>3. w = [i \in 0 .. 0 |-> IF i = 0 THEN List ELSE Step(w[i - 1], i)]
      BY <3>2
    <3> QED
      BY <2>3, <3>1, <3>3
  <2>5. n - 1 \in Nat /\ n - 1 \notin Off
    BY <2>2, <2>3, <2>4
  <2>6. PICK w : Recursive(w, n - 1)
    BY <2>5
  <2>7. \A i \in 0 .. n - 1 : w[i] = IF i = 0 THEN List ELSE Step(w[i - 1], i)
    BY <2>6
  <2>8. PICK v : v = [i \in 0 .. n |-> IF i = n THEN Step(w[n - 1], n) ELSE w[i]]
    OBVIOUS
  <2>9. ASSUME NEW i \in 0 .. n PROVE v[i] = IF i = 0 THEN List ELSE Step(v[i - 1], i)
    <3>1. CASE i = n
      <4>1. n - 1 \in 0 .. n /\ n - 1 # n
        BY <2>3, <2>4
      <4>2. v[n - 1] = w[n - 1] /\ v[n] = Step(w[n - 1], n)
        BY <2>3, <2>8, <4>1
      <4> QED
        BY <2>4, <3>1, <4>2
    <3>2. CASE i # n
      <4>1. i \in 0 .. n - 1 /\ (i # 0 => i - 1 \in 0 .. n /\ i - 1 # n)
        BY <2>3, <3>2
      <4>2. v[i] = w[i] /\ (i # 0 => v[i - 1] = w[i - 1])
        BY <2>8, <3>2, <4>1
      <4> QED
        BY <2>7, <4>1, <4>2
    <3> QED
      BY <3>1, <3>2
  <2>10. v = [i \in 0 .. n |-> v[i]]
    BY <2>8
  <2>11. Recursive(v, n)
    BY <2>9, <2>10
  <2> QED
    BY <2>3, <2>11
<1>3. \E w : Recursive(w, m)
  <2>1. m \notin Off
    BY <1>2
  <2> HIDE DEF Recursive
  <2> QED
    BY <2>1
<1>4. PICK w : w = CHOOSE v : Recursive(v, m)
  OBVIOUS
<1>5. Recursive(w, m)
  BY <1>3, <1>4
<1>6. Sweep(k) = w[m]
  BY <1>1, <1>4 DEF Sweep
<1>7. \A i \in 0 .. m : w[i] = IF i = 0 THEN List ELSE Step(w[i - 1], i)
  BY <1>5
<1>8. w[0] = List /\ \A i \in 1 .. m : w[i] = Step(w[i - 1], i)
  BY <1>1, <1>7
<1> QED
  BY <1>1, <1>6, <1>8

(* Reading g along f, without the position p of f.                          *)
LEMMA ReadRemoved ==
    ASSUME NEW S, NEW T, NEW f \in Seq(S), NEW g, \A q \in S : g[q] \in T, NEW p \in 1 .. Len(f)
    PROVE  /\ Read(g, f) \in Seq(T) /\ Len(Read(g, f)) = Len(f)
           /\ RemoveAt(Read(g, f), p) = Read(g, RemoveAt(f, p))
<1>1. PICK m \in Nat : m = Len(f) /\ p \in 1 .. m
  BY LenProperties
<1>2. \A i \in 1 .. m : f[i] \in S
  BY <1>1, ElementOfSeq
<1>3. PICK r : r = Read(g, f)
  OBVIOUS
<1>4. r \in Seq(T) /\ Len(r) = m /\ \A i \in 1 .. m : r[i] = g[f[i]]
  BY <1>1, <1>2, <1>3 DEF Read
<1>5. PICK e : e = RemoveAt(f, p)
  OBVIOUS
<1>6. Len(e) = m - 1 /\ \A i \in 1 .. m - 1 : e[i] = IF i < p THEN f[i] ELSE f[i + 1]
  <2>1. /\ RemoveAt(f, p) \in Seq(S) /\ Len(RemoveAt(f, p)) = Len(f) - 1
        /\ \A i \in 1 .. Len(f) - 1 : RemoveAt(f, p)[i] = IF i < p THEN f[i] ELSE f[i + 1]
    BY RemovedAt
  <2> QED
    BY <1>1, <1>5, <2>1
<1>7. PICK s : s = RemoveAt(r, p)
  OBVIOUS
<1>8. s \in Seq(T) /\ Len(s) = m - 1 /\ \A i \in 1 .. m - 1 : s[i] = IF i < p THEN r[i] ELSE r[i + 1]
  <2>1. p \in 1 .. Len(r)
    BY <1>1, <1>4
  <2>2. /\ RemoveAt(r, p) \in Seq(T) /\ Len(RemoveAt(r, p)) = Len(r) - 1
        /\ \A i \in 1 .. Len(r) - 1 : RemoveAt(r, p)[i] = IF i < p THEN r[i] ELSE r[i + 1]
    BY <1>4, <2>1, RemovedAt
  <2> QED
    BY <1>4, <1>7, <2>2
<1>9. ASSUME NEW i \in 1 .. m - 1 PROVE s[i] = g[e[i]]
  <2>1. i \in 1 .. m /\ i + 1 \in 1 .. m
    BY <1>1
  <2> QED
    BY <1>4, <1>6, <1>8, <2>1
<1>10. s = [i \in 1 .. m - 1 |-> s[i]]
  BY <1>8, LenProperties
<1>11. s = Read(g, e)
  BY <1>6, <1>9, <1>10 DEF Read
<1> QED
  BY <1>1, <1>3, <1>4, <1>5, <1>7, <1>11

(* y is the last item of c that matches k among the first i, NULL if none.  *)
LastMatch(y, c, k, i) ==
    \/ y = NULL /\ \A q \in 1 .. i : Key[data[c[q]]] # k
    \/ \E q \in 1 .. i :
          /\ Key[data[c[q]]] = k
          /\ \A r \in 1 .. i : Key[data[c[r]]] = k => r <= q
          /\ y = data[c[q]]

(* After i steps of the walk along c the list l holds the nodes of c at the *)
(* positions f, which are those not passed yet and those that do not match. *)
Swept(l, c, k, i, f) ==
    /\ f \in Seq(1 .. Len(c))
    /\ \A a, b \in 1 .. Len(f) : a < b => f[a] < f[b]
    /\ \A q \in 1 .. Len(c) : (\E j \in 1 .. Len(f) : f[j] = q) <=> q > i \/ Key[data[c[q]]] # k
    /\ HasList(l, Read(c, f))
    /\ \A j \in 1 .. Len(f) : l.data[c[f[j]]] = data[c[f[j]]]
    /\ LastMatch(l.result, c, k, i)

LEMMA SweptNext ==
    ASSUME NEW c \in Seq(Nodes), NEW k, NEW i \in 1 .. Len(c), NEW l, NEW f, Swept(l, c, k, i - 1, f)
    PROVE  \E g : Swept(IF Key[l.data[c[i]]] = k THEN Unlink(l, c[i]) ELSE l, c, k, i, g)
<1>1. PICK m \in Nat : m = Len(c)
  BY LenProperties
<1>2. \A q \in 1 .. m : c[q] \in Nodes
  BY <1>1, ElementOfSeq
<1>3. f \in Seq(1 .. m)
  BY <1>1 DEF Swept
<1>4. PICK n \in Nat : n = Len(f)
  BY <1>3, LenProperties
<1>5. \A j \in 1 .. n : f[j] \in 1 .. m
  BY <1>3, <1>4, ElementOfSeq
<1>6. \A a, b \in 1 .. n : a < b => f[a] < f[b]
  BY <1>4 DEF Swept
<1>7. \A q \in 1 .. m : (\E j \in 1 .. n : f[j] = q) <=> q > i - 1 \/ Key[data[c[q]]] # k
  BY <1>1, <1>4 DEF Swept
<1>8. HasList(l, Read(c, f)) /\ \A j \in 1 .. n : l.data[c[f[j]]] = data[c[f[j]]]
  BY <1>4 DEF Swept
<1>9. LastMatch(l.result, c, k, i - 1)
  BY DEF Swept
<1>10. PICK p \in 1 .. n : f[p] = i
  <2>1. i \in 1 .. m /\ i > i - 1
    BY <1>1
  <2> QED
    BY <1>7, <2>1
<1>11. l.data[c[i]] = data[c[i]]
  BY <1>8, <1>10
<1>12. CASE Key[data[c[i]]] # k
  <2>1. \A q \in 1 .. m : (\E j \in 1 .. n : f[j] = q) <=> q > i \/ Key[data[c[q]]] # k
    <3>1. \A q \in 1 .. m : q > i - 1 <=> q > i \/ q = i
      BY <1>1
    <3> QED
      BY <1>7, <1>12, <3>1
  <2>2. LastMatch(l.result, c, k, i)
    <3>1. \A q \in 1 .. i : q \in 1 .. i - 1 \/ q = i
      BY <1>1
    <3>2. \A q \in 1 .. i - 1 : q \in 1 .. i
      BY <1>1
    <3> QED
      BY <1>9, <1>12, <3>1, <3>2 DEF LastMatch
  <2>3. Swept(l, c, k, i, f)
    BY <1>1, <1>3, <1>4, <1>6, <1>8, <2>1, <2>2 DEF Swept
  <2> QED
    BY <1>11, <1>12, <2>3
<1>13. CASE Key[data[c[i]]] = k
  <2>1. PICK d : d = Read(c, f)
    OBVIOUS
  <2>2. d \in Seq(Nodes) /\ Len(d) = n /\ RemoveAt(d, p) = Read(c, RemoveAt(f, p))
    <3>1. p \in 1 .. Len(f)
      BY <1>4
    <3>2. /\ Read(c, f) \in Seq(Nodes) /\ Len(Read(c, f)) = Len(f)
          /\ RemoveAt(Read(c, f), p) = Read(c, RemoveAt(f, p))
      BY <1>2, <1>3, <3>1, ReadRemoved, SMTT(20)
    <3> QED
      BY <1>4, <2>1, <3>2
  <2>3. \A j \in 1 .. n : d[j] = c[f[j]]
    BY <1>4, <2>1 DEF Read
  <2>4. d[p] = c[i]
    BY <1>10, <2>3
  <2>5. PICK u : u = Unlink(l, c[i])
    OBVIOUS
  <2>6. /\ HasList(u, RemoveAt(d, p)) /\ Erased(u.data, l.data, d, p)
        /\ u.result = l.data[c[i]]
    <3>1. HasList(l, d) /\ p \in 1 .. Len(d)
      BY <1>8, <2>1, <2>2
    <3>2. /\ HasList(Unlink(l, d[p]), RemoveAt(d, p)) /\ Erased(Unlink(l, d[p]).data, l.data, d, p)
          /\ Unlink(l, d[p]).result = l.data[d[p]]
      BY <3>1, UnlinkRemoves
    <3> QED
      BY <2>4, <2>5, <3>2
  <2>7. PICK g : g = RemoveAt(f, p)
    OBVIOUS
  <2>8. /\ g \in Seq(1 .. m) /\ Len(g) = n - 1
        /\ \A j \in 1 .. n - 1 : g[j] = IF j < p THEN f[j] ELSE f[j + 1]
    BY <1>3, <1>4, <2>7, RemovedAt
  <2>9. \A a, b \in 1 .. n - 1 : a < b => g[a] < g[b]
    <3> SUFFICES ASSUME NEW a \in 1 .. n - 1, NEW b \in 1 .. n - 1, a < b PROVE g[a] < g[b]
      OBVIOUS
    <3>1. a \in 1 .. n /\ a + 1 \in 1 .. n /\ b \in 1 .. n /\ b + 1 \in 1 .. n
      BY <1>4
    <3>2. a < b + 1 /\ a + 1 < b + 1 /\ (b < p => a < p)
      BY <1>4
    <3> QED
      BY <1>6, <2>8, <3>1, <3>2
  <2>10. ASSUME NEW j \in 1 .. n - 1 PROVE \E a \in 1 .. n : a # p /\ g[j] = f[a]
    <3>1. j \in 1 .. n /\ j + 1 \in 1 .. n /\ (j < p => j # p) /\ (~(j < p) => j + 1 # p)
      BY <1>4
    <3> QED
      BY <2>8, <3>1
  <2>11. ASSUME NEW a \in 1 .. n, a # p PROVE \E j \in 1 .. n - 1 : g[j] = f[a]
    <3>1. CASE a < p
      <4>1. a \in 1 .. n - 1
        BY <1>4, <3>1
      <4> QED
        BY <2>8, <3>1, <4>1
    <3>2. CASE a > p
      <4>1. a - 1 \in 1 .. n - 1 /\ ~(a - 1 < p) /\ a - 1 + 1 = a
        BY <1>4, <3>2
      <4>2. g[a - 1] = f[a]
        BY <2>8, <4>1
      <4> QED
        BY <4>1, <4>2
    <3> QED
      BY <1>4, <2>11, <3>1, <3>2
  <2>12. \A q \in 1 .. m : (\E j \in 1 .. n - 1 : g[j] = q) <=> q > i \/ Key[data[c[q]]] # k
    <3> TAKE q \in 1 .. m
    <3>1. (\E j \in 1 .. n - 1 : g[j] = q) <=> \E a \in 1 .. n : a # p /\ f[a] = q
      BY <2>10, <2>11
    <3>2. \A a \in 1 .. n : f[a] = i <=> a = p
      <4> TAKE a \in 1 .. n
      <4>1. (a < p => f[a] < f[p]) /\ (p < a => f[p] < f[a]) /\ f[a] \in Int /\ f[p] \in Int
        BY <1>5, <1>6
      <4> QED
        BY <1>4, <1>10, <4>1
    <3>3. (\E a \in 1 .. n : a # p /\ f[a] = q) <=> q # i /\ \E a \in 1 .. n : f[a] = q
      BY <3>2
    <3>4. q > i - 1 /\ q # i <=> q > i
      BY <1>1
    <3>5. (\E a \in 1 .. n : f[a] = q) <=> q > i - 1 \/ Key[data[c[q]]] # k
      BY <1>7
    <3> QED
      BY <1>13, <3>1, <3>3, <3>4, <3>5
  <2>13. \A j \in 1 .. n - 1 : u.data[c[g[j]]] = data[c[g[j]]]
    <3> TAKE j \in 1 .. n - 1
    <3>1. PICK a \in 1 .. n : a # p /\ g[j] = f[a]
      BY <2>10
    <3>2. u.data[d[a]] = l.data[d[a]]
      BY <2>2, <2>6, <3>1 DEF Erased
    <3> QED
      BY <1>8, <2>3, <3>1, <3>2
  <2>14. HasList(u, Read(c, g))
    BY <2>2, <2>6, <2>7
  <2>15. LastMatch(u.result, c, k, i)
    <3>1. /\ i \in 1 .. i /\ \A r \in 1 .. i : r <= i
          /\ u.result = data[c[i]]
      BY <1>1, <1>11, <2>6
    <3> QED
      BY <1>13, <3>1 DEF LastMatch
  <2>16. Swept(u, c, k, i, g)
    BY <1>1, <2>8, <2>9, <2>12, <2>13, <2>14, <2>15 DEF Swept
  <2> QED
    BY <1>11, <1>13, <2>5, <2>16
<1> QED
  BY <1>12, <1>13

(* queue_delete_by_predicate on the contents: the items at the positions f  *)
(* stay, which are those that do not match; the caller gets the last match. *)
LEMMA DeleteLinks ==
    ASSUME NEW c, IsQueue(c), NEW k, queue_delete_by_predicate(k)
    PROVE  /\ QueueInv'
           /\ \E f \in Seq(1 .. Len(c)) :
                 /\ \A a, b \in 1 .. Len(f) : a < b => f[a] < f[b]
                 /\ \A q \in 1 .. Len(c) : (\E j \in 1 .. Len(f) : f[j] = q) <=> Key[data[c[q]]] # k
                 /\ Contents' = [j \in 1 .. Len(f) |-> data[c[f[j]]]]
           /\ LastMatch(result', c, k, Len(c))
<1>1. c \in Seq(Nodes) /\ Chain = c /\ \A i \in 1 .. Len(c) : c[i] \in Nodes
  BY QueueState
<1>2. PICK m \in Nat : m = Len(c)
  BY QueueState
<1>3. PICK w : /\ Sweep(k) = w[m]
               /\ w[0] = List
               /\ \A i \in 1 .. m :
                     w[i] = IF Key[w[i - 1].data[c[i]]] = k THEN Unlink(w[i - 1], c[i]) ELSE w[i - 1]
  <2>1. PICK w : /\ Sweep(k) = w[Len(c)]
                 /\ w[0] = List
                 /\ \A i \in 1 .. Len(c) :
                       w[i] = IF Key[w[i - 1].data[c[i]]] = k THEN Unlink(w[i - 1], c[i]) ELSE w[i - 1]
    BY <1>1, SweepSteps
  <2> QED
    BY <1>2, <2>1
<1> DEFINE Off == {i \in 0 .. m : ~ \E f : Swept(w[i], c, k, i, f)}
<1>4. 0 \notin Off
  <2>1. PICK f : f = [i \in 1 .. m |-> i]
    OBVIOUS
  <2>2. f \in Seq(1 .. m) /\ Len(f) = m /\ \A i \in 1 .. m : f[i] = i
    BY <2>1
  <2>3. Read(c, f) = c
    <3>1. c = [i \in 1 .. m |-> c[i]]
      BY <1>1, <1>2, LenProperties
    <3> QED
      BY <2>2, <3>1 DEF Read
  <2>4. HasList(List, Read(c, f))
    BY <2>3 DEF HasList, List, IsQueue
  <2>5. List.data = data /\ List.result = NULL
    BY DEF List
  <2>6. /\ \A a, b \in 1 .. m : a < b => f[a] < f[b]
        /\ \A q \in 1 .. m : (\E j \in 1 .. m : f[j] = q) <=> q > 0 \/ Key[data[c[q]]] # k
    BY <2>2
  <2>7. LastMatch(List.result, c, k, 0)
    BY <2>5 DEF LastMatch
  <2>8. Swept(List, c, k, 0, f)
    BY <1>2, <2>2, <2>4, <2>5, <2>6, <2>7 DEF Swept
  <2> QED
    BY <1>3, <2>8
<1>5. Off = {}
  <2>1. SUFFICES ASSUME Off # {} PROVE FALSE
    OBVIOUS
  <2>2. PICK i \in Off : \A j \in Off : i <= j
    <3>1. Off \in SUBSET Nat
      OBVIOUS
    <3> HIDE DEF Off
    <3> QED
      BY <2>1, <3>1, LeastNumber
  <2>3. i \in 0 .. m /\ i # 0
    BY <1>4, <2>2
  <2>4. i \in 1 .. m /\ i - 1 \in 0 .. m /\ i - 1 \notin Off
    BY <2>2, <2>3
  <2>5. PICK f : Swept(w[i - 1], c, k, i - 1, f)
    BY <2>4
  <2>6. PICK l : l = w[i - 1]
    OBVIOUS
  <2>7. \E g : Swept(IF Key[l.data[c[i]]] = k THEN Unlink(l, c[i]) ELSE l, c, k, i, g)
    BY <1>1, <1>2, <2>4, <2>5, <2>6, SweptNext
  <2>8. w[i] = IF Key[l.data[c[i]]] = k THEN Unlink(l, c[i]) ELSE l
    BY <1>3, <2>4, <2>6
  <2> QED
    BY <2>2, <2>7, <2>8
<1>6. PICK f : Swept(w[m], c, k, m, f)
  BY <1>5
<1> HIDE DEF Off
<1>7. PICK l : l = w[m]
  OBVIOUS
<1>8. /\ head' = l.head /\ tail' = l.tail /\ q_length' = l.q_length /\ data' = l.data
      /\ prev' = l.prev /\ next' = l.next /\ live' = l.live /\ result' = l.result
  BY <1>3, <1>7 DEF queue_delete_by_predicate
<1>9. /\ f \in Seq(1 .. m)
      /\ \A a, b \in 1 .. Len(f) : a < b => f[a] < f[b]
      /\ \A q \in 1 .. m : (\E j \in 1 .. Len(f) : f[j] = q) <=> q > m \/ Key[data[c[q]]] # k
      /\ HasList(l, Read(c, f))
      /\ \A j \in 1 .. Len(f) : l.data[c[f[j]]] = data[c[f[j]]]
      /\ LastMatch(l.result, c, k, m)
  BY <1>2, <1>6, <1>7 DEF Swept
<1>10. PICK d : d = Read(c, f)
  OBVIOUS
<1>11. Len(d) = Len(f) /\ \A j \in 1 .. Len(f) : d[j] = c[f[j]]
  <2>1. Len(f) \in Nat
    BY <1>9, LenProperties
  <2> QED
    BY <1>10, <2>1 DEF Read
<1>12. Linked(head', tail', prev', next', d) /\ Stored(q_length', data', live', d)
  BY <1>8, <1>9, <1>10 DEF HasList
<1>13. QueueInv' /\ Contents' = Read(data', d)
  BY <1>12, QueueStateNext
<1>14. Contents' = [j \in 1 .. Len(f) |-> data[c[f[j]]]]
  BY <1>8, <1>9, <1>11, <1>13 DEF Read
<1>15. \A q \in 1 .. m : (\E j \in 1 .. Len(f) : f[j] = q) <=> Key[data[c[q]]] # k
  <2>1. \A q \in 1 .. m : ~(q > m)
    OBVIOUS
  <2> QED
    BY <1>9, <2>1
<1> QED
  BY <1>2, <1>8, <1>9, <1>13, <1>14, <1>15

-----------------------------------------------------------------------------
(* The list's invariant, and what follows from it.                          *)

LEMMA NewIsQueue == queue_new => IsQueue(<<>>) /\ Contents = <<>>
<1> SUFFICES ASSUME queue_new PROVE IsQueue(<<>>) /\ Contents = <<>>
  OBVIOUS
<1>1. PICK c : c = <<>> /\ c \in Seq(Nodes)
  BY EmptySeq
<1>2. Len(c) = 0 /\ Once(c)
  BY <1>1 DEF Once
<1>3. /\ head = NULL /\ tail = NULL /\ q_length = 0 /\ live = {}
      /\ data \in [Nodes -> {GARBAGE}] /\ prev \in [Nodes -> {GARBAGE}] /\ next \in [Nodes -> {GARBAGE}]
  BY DEF queue_new
<1>4. prev \in [Nodes -> Addresses] /\ next \in [Nodes -> Addresses]
  BY <1>3 DEF Addresses
<1>5. Linked(head, tail, prev, next, c)
  BY <1>2, <1>3, <1>4 DEF Linked
<1>6. Stored(q_length, data, live, c)
  BY <1>2, <1>3 DEF Stored
<1>7. IsQueue(c)
  BY <1>5, <1>6 DEF IsQueue
<1>8. Contents = Read(data, c)
  BY <1>7, QueueState
<1>9. Read(data, c) = <<>>
  BY <1>2 DEF Read
<1> QED
  BY <1>1, <1>7, <1>8, <1>9

LEMMA QueueInvIsInductive == QueueInv /\ [Next]_vars => QueueInv'
<1> SUFFICES ASSUME QueueInv, [Next]_vars PROVE QueueInv'
  OBVIOUS
<1>1. PICK c : IsQueue(c)
  BY DEF QueueInv
<1>2. ASSUME NEW n \in Nodes, NEW x \in Items, queue_append(n, x) PROVE QueueInv'
  BY <1>1, <1>2, AppendLinks
<1>3. ASSUME NEW n \in Nodes, NEW x \in Items, queue_insert_sorted(n, x) PROVE QueueInv'
  BY <1>1, <1>3, InsertLinks
<1>4. CASE queue_dequeue
  BY <1>1, <1>4, DequeueLinks
<1>5. CASE queue_dequeue_empty
  BY <1>1, <1>5 DEF queue_dequeue_empty, QueueInv, IsQueue
<1>6. ASSUME NEW k, queue_delete_by_predicate(k) PROVE QueueInv'
  BY <1>1, <1>6, DeleteLinks
<1>7. CASE UNCHANGED vars
  BY <1>1, <1>7 DEF vars, QueueInv, IsQueue
<1> QED
  BY <1>2, <1>3, <1>4, <1>5, <1>6, <1>7 DEF Next

THEOREM QueueInvariant == Spec => []QueueInv
<1>1. queue_new => QueueInv
  <2>1. <<>> \in Seq(Nodes)
    OBVIOUS
  <2> QED
    BY <2>1, NewIsQueue DEF QueueInv
<1>2. QueueInv /\ [Next]_vars => QueueInv'
  BY QueueInvIsInductive
<1> QED
  BY <1>1, <1>2, PTL DEF Spec

(* Between calls the nodes on the list are all the allocated ones, each     *)
(* once, prev mirrors next, and head, tail and q_length agree with them,    *)
(* for any finite memory and any items: queue_append, queue_dequeue,        *)
(* queue_insert_sorted and queue_delete_by_predicate neither leak nor use a *)
(* freed node.                                                              *)
THEOREM ListIsWellFormed == Spec => []WellFormed
<1>1. QueueInv => WellFormed
  <2> SUFFICES ASSUME QueueInv PROVE WellFormed
    OBVIOUS
  <2>1. PICK c : IsQueue(c)
    BY DEF QueueInv
  <2>2. /\ c \in Seq(Nodes) /\ Once(c) /\ Len(c) \in Nat /\ Chain = c
        /\ Empty <=> Len(c) = 0
        /\ live = {c[i] : i \in 1 .. Len(c)}
    BY <2>1, QueueState
  <2>3. DOMAIN c = 1 .. Len(c)
    BY <2>2, LenProperties
  <2>4. live = Range(c) /\ IsInjective(c)
    BY <2>2, <2>3 DEF Range, IsInjective, Once
  <2>5. Linked(head, tail, prev, next, c) /\ q_length = Len(c)
    BY <2>1 DEF IsQueue, Stored
  <2>6. c = <<>> <=> Len(c) = 0
    BY <2>2
  <2>7. ASSUME Len(c) # 0
        PROVE  /\ head = c[1] /\ prev[c[1]] = NULL
               /\ tail = Last(c) /\ next[Last(c)] = NULL
               /\ \A i \in 1 .. Len(c) - 1 : prev[c[i + 1]] = c[i]
    <3>1. 1 \in 1 .. Len(c) /\ Len(c) \in 1 .. Len(c)
      BY <2>2, <2>7
    <3>2. head = c[1] /\ prev[c[1]] = NULL /\ tail = c[Len(c)] /\ next[c[Len(c)]] = NULL
      BY <2>5, <2>7, <3>1 DEF Linked
    <3>3. ASSUME NEW i \in 1 .. Len(c) - 1 PROVE prev[c[i + 1]] = c[i]
      <4>1. i + 1 \in 1 .. Len(c) /\ i + 1 # 1 /\ i + 1 - 1 = i
        BY <2>2
      <4>2. prev[c[i + 1]] = IF i + 1 = 1 THEN NULL ELSE c[i + 1 - 1]
        BY <2>5, <4>1 DEF Linked
      <4> QED
        BY <4>1, <4>2
    <3> QED
      BY <3>2, <3>3 DEF Last
  <2> QED
    BY <2>2, <2>4, <2>5, <2>6, <2>7 DEF WellFormed
<1> QED
  BY <1>1, QueueInvariant, PTL

-----------------------------------------------------------------------------
(* The refinement of the list of module ListQueue.                          *)

(* A sequence f of positions in order, one for each position of K.          *)
LEMMA PositionsCount ==
    ASSUME NEW m \in Nat, NEW K \in SUBSET (1 .. m), NEW f \in Seq(1 .. m),
           \A a, b \in 1 .. Len(f) : a < b => f[a] < f[b],
           \A q \in 1 .. m : (\E j \in 1 .. Len(f) : f[j] = q) <=> q \in K
    PROVE  Cardinality(K) = Len(f) /\ f \in [1 .. Len(f) -> K]
<1>1. Len(f) \in Nat /\ f \in [1 .. Len(f) -> 1 .. m]
  BY LenProperties
<1>2. f \in [1 .. Len(f) -> K]
  BY <1>1
<1>3. \A a, b \in 1 .. Len(f) : f[a] = f[b] => a = b
  <2> SUFFICES ASSUME NEW a \in 1 .. Len(f), NEW b \in 1 .. Len(f), f[a] = f[b] PROVE a = b
    OBVIOUS
  <2>1. ~(a < b) /\ ~(b < a)
    <3>1. f[a] \in Int /\ f[b] \in Int
      BY <1>1
    <3> QED
      BY <3>1
  <2> QED
    BY <1>1, <2>1
<1>4. \A q \in K : \E j \in 1 .. Len(f) : f[j] = q
  OBVIOUS
<1>5. f \in Bijection(1 .. Len(f), K)
  BY <1>2, <1>3, <1>4 DEF Bijection, Injection, Surjection, IsInjective
<1>6. ExistsBijection(1 .. Len(f), K)
  BY <1>5 DEF ExistsBijection
<1>7. IsFiniteSet(1 .. Len(f)) /\ Cardinality(1 .. Len(f)) = Len(f)
  BY <1>1, Interval
<1> QED
  BY <1>2, <1>6, <1>7, FS_Bijection

(* The operators of the instance are those of this module.                  *)
LEMMA SameOperators ==
    /\ \A s, i, e : L!InsertAt(s, i, e) = InsertAt(s, i, e)
    /\ \A S : L!Cardinality(S) = Cardinality(S)
BY DEF L!InsertAt, InsertAt, L!Cardinality, Cardinality

LEMMA ContentsOf ==
    ASSUME NEW c, IsQueue(c)
    PROVE  /\ Contents \in Seq(Items) /\ Len(Contents) = Len(c)
           /\ \A i \in 1 .. Len(c) : Contents[i] = data[c[i]]
           /\ Empty <=> Contents = <<>>
<1>1. c \in Seq(Nodes) /\ Len(c) \in Nat /\ Contents = Read(data, c) /\ (Empty <=> Len(c) = 0)
  BY QueueState
<1>2. Stored(q_length, data, live, c)
  BY DEF IsQueue
<1>3. Contents \in Seq(Items) /\ Len(Contents) = Len(c)
  BY <1>1, <1>2, ReadIsSeq
<1>4. \A i \in 1 .. Len(c) : Contents[i] = data[c[i]]
  BY <1>1 DEF Read
<1> QED
  BY <1>1, <1>3, <1>4

LEMMA AppendRefines ==
    ASSUME QueueInv, NEW n \in Nodes, NEW x \in Items, queue_append(n, x)
    PROVE  L!Append_(x)
<1>1. PICK c : IsQueue(c)
  BY DEF QueueInv
<1>2. PICK r : r = Contents
  OBVIOUS
<1>3. r \in Seq(Items) /\ Len(r) = Len(c) /\ Len(r) \in Nat
  BY <1>1, <1>2, ContentsOf, LenProperties
<1>4. Contents' = InsertAt(r, Len(r) + 1, x) /\ result' = 0
  BY <1>1, <1>2, <1>3, AppendLinks
<1>5. InsertAt(r, Len(r) + 1, x) = Append(r, x)
  <2>1. PICK s : s = InsertAt(r, Len(r) + 1, x)
    OBVIOUS
  <2>2. Len(r) + 1 \in 1 .. Len(r) + 1
    BY <1>3
  <2>3. /\ s \in Seq(Items) /\ Len(s) = Len(r) + 1
        /\ \A i \in 1 .. Len(r) + 1 :
              s[i] = IF i < Len(r) + 1 THEN r[i] ELSE IF i = Len(r) + 1 THEN x ELSE r[i - 1]
    BY <1>3, <2>1, <2>2, ItemInsertedAt, ZenonT(30)
  <2>4. PICK a : a = Append(r, x)
    OBVIOUS
  <2>5. /\ a \in Seq(Items) /\ Len(a) = Len(r) + 1
        /\ \A i \in 1 .. Len(r) + 1 : a[i] = IF i = Len(r) + 1 THEN x ELSE r[i]
    BY <1>3, <2>4
  <2>6. \A i \in 1 .. Len(s) : s[i] = a[i]
    BY <1>3, <2>3, <2>5
  <2>7. s = a
    BY <2>3, <2>5, <2>6, SeqEqual
  <2> QED
    BY <2>1, <2>4, <2>7
<1> QED
  BY <1>2, <1>4, <1>5 DEF L!Append_

LEMMA InsertRefines ==
    ASSUME QueueInv, NEW n \in Nodes, NEW x \in Items, queue_insert_sorted(n, x)
    PROVE  L!Sorted(Contents) /\ L!InsertSorted(x)
<1>1. PICK c : IsQueue(c)
  BY DEF QueueInv
<1>2. Sorted
  BY DEF queue_insert_sorted
<1>3. PICK p \in 1 .. Len(c) + 1 :
         /\ \A i \in 1 .. Len(c) : Key[data[c[i]]] < Key[x] <=> i < p
         /\ Contents' = InsertAt(Contents, p, x) /\ result' = 0
  BY <1>1, InsertLinks
<1>4. Len(Contents) = Len(c) /\ \A i \in 1 .. Len(c) : Contents[i] = data[c[i]]
  BY <1>1, ContentsOf
<1>5. p \in 1 .. Len(Contents) + 1
  BY <1>4
<1>6. \A i \in 1 .. Len(Contents) : Key[Contents[i]] < Key[x] <=> i < p
  BY <1>3, <1>4
<1>7. L!InsertSorted(x)
  BY <1>3, <1>5, <1>6, SameOperators DEF L!InsertSorted
<1> QED
  BY <1>2, <1>7 DEF Sorted, L!Sorted

LEMMA DequeueRefines ==
    ASSUME QueueInv, queue_dequeue
    PROVE  L!Dequeue
<1>1. PICK c : IsQueue(c)
  BY DEF QueueInv
<1> QED
  BY <1>1, DequeueLinks DEF L!Dequeue

LEMMA DequeueEmptyRefines ==
    ASSUME QueueInv, queue_dequeue_empty
    PROVE  L!DequeueEmpty
<1>1. PICK c : IsQueue(c)
  BY DEF QueueInv
<1>2. Empty /\ UNCHANGED <<head, tail, q_length, data, prev, next, live>> /\ result' = NULL
  BY DEF queue_dequeue_empty
<1>3. Contents = <<>>
  BY <1>1, <1>2, ContentsOf
<1>4. Linked(head', tail', prev', next', c) /\ Stored(q_length', data', live', c)
  BY <1>1, <1>2 DEF IsQueue
<1>5. Contents = Read(data, c) /\ Contents' = Read(data', c)
  BY <1>1, <1>4, QueueState, QueueStateNext
<1> QED
  BY <1>2, <1>3, <1>5 DEF L!DequeueEmpty

LEMMA DeleteRefines ==
    ASSUME QueueInv, NEW k, queue_delete_by_predicate(k)
    PROVE  L!DeleteKey(k)
<1>1. PICK c : IsQueue(c)
  BY DEF QueueInv
<1>2. PICK m \in Nat : m = Len(c)
  BY <1>1, QueueState
<1>3. PICK r : r = Contents
  OBVIOUS
<1>4. Len(r) = m /\ \A i \in 1 .. m : r[i] = data[c[i]]
  BY <1>1, <1>2, <1>3, ContentsOf
<1> DEFINE kept == {i \in 1 .. Len(r) : Key[r[i]] # k}
           gone == {i \in 1 .. Len(r) : Key[r[i]] = k}
<1>5. PICK f \in Seq(1 .. m) :
         /\ \A a, b \in 1 .. Len(f) : a < b => f[a] < f[b]
         /\ \A q \in 1 .. m : (\E j \in 1 .. Len(f) : f[j] = q) <=> Key[data[c[q]]] # k
         /\ Contents' = [j \in 1 .. Len(f) |-> data[c[f[j]]]]
  <2>1. PICK f \in Seq(1 .. Len(c)) :
           /\ \A a, b \in 1 .. Len(f) : a < b => f[a] < f[b]
           /\ \A q \in 1 .. Len(c) : (\E j \in 1 .. Len(f) : f[j] = q) <=> Key[data[c[q]]] # k
           /\ Contents' = [j \in 1 .. Len(f) |-> data[c[f[j]]]]
    BY <1>1, DeleteLinks
  <2> QED
    BY <1>2, <2>1
<1>6. kept \in SUBSET (1 .. m) /\ \A q \in 1 .. m : (\E j \in 1 .. Len(f) : f[j] = q) <=> q \in kept
  BY <1>4, <1>5
<1> HIDE DEF kept
<1>7. Cardinality(kept) = Len(f) /\ f \in [1 .. Len(f) -> kept]
  BY <1>5, <1>6, PositionsCount
<1>8. Contents' = [j \in DOMAIN f |-> r[f[j]]]
  <2>1. DOMAIN f = 1 .. Len(f) /\ \A j \in 1 .. Len(f) : f[j] \in 1 .. m
    BY <1>6, <1>7
  <2> QED
    BY <1>4, <1>5, <2>1
<1>9. \E g \in [1 .. Cardinality(kept) -> kept] :
         /\ \A i, j \in DOMAIN g : i < j => g[i] < g[j]
         /\ Contents' = [i \in DOMAIN g |-> r[g[i]]]
  <2>1. DOMAIN f = 1 .. Len(f)
    BY <1>7
  <2> QED
    BY <1>5, <1>7, <1>8, <2>1
<1>10. result' = IF gone = {} THEN NULL ELSE r[CHOOSE i \in gone : \A j \in gone : j <= i]
  <2>1. LastMatch(result', c, k, m)
    <3>1. LastMatch(result', c, k, Len(c))
      BY <1>1, DeleteLinks
    <3> QED
      BY <1>2, <3>1
  <2>2. CASE result' = NULL /\ \A q \in 1 .. m : Key[data[c[q]]] # k
    BY <1>4, <2>2
  <2>3. ASSUME NEW q \in 1 .. m, Key[data[c[q]]] = k,
               \A s \in 1 .. m : Key[data[c[s]]] = k => s <= q,
               result' = data[c[q]]
        PROVE  result' = IF gone = {} THEN NULL ELSE r[CHOOSE i \in gone : \A j \in gone : j <= i]
    <3>1. q \in gone /\ gone \subseteq 1 .. m /\ \A j \in gone : j <= q
      BY <1>4, <2>3
    <3> HIDE DEF gone
    <3>2. \A i \in gone : (\A j \in gone : j <= i) => i = q
      BY <3>1
    <3>3. (CHOOSE i \in gone : \A j \in gone : j <= i) = q
      BY <3>1, <3>2
    <3> QED
      BY <1>4, <2>3, <3>1, <3>3
  <2> HIDE DEF gone
  <2> QED
    BY <2>1, <2>2, <2>3 DEF LastMatch
<1>11. \E g \in [1 .. L!Cardinality(kept) -> kept] :
          /\ \A i, j \in DOMAIN g : i < j => g[i] < g[j]
          /\ Contents' = [i \in DOMAIN g |-> r[g[i]]]
  BY <1>9, SameOperators
<1> HIDE DEF gone
<1> DEFINE left == {i \in 1 .. Len(Contents) : Key[Contents[i]] # k}
           taken == {i \in 1 .. Len(Contents) : Key[Contents[i]] = k}
<1>12. left = kept /\ taken = gone
  BY <1>3 DEF kept, gone
<1> HIDE DEF left, taken
<1>13. \E g \in [1 .. L!Cardinality(left) -> left] :
          /\ \A i, j \in DOMAIN g : i < j => g[i] < g[j]
          /\ Contents' = [i \in DOMAIN g |-> Contents[g[i]]]
  BY <1>3, <1>11, <1>12, Zenon
<1>14. result' = IF taken = {} THEN NULL
                 ELSE Contents[CHOOSE i \in taken : \A j \in taken : j <= i]
  <2>1. (CHOOSE i \in taken : \A j \in taken : j <= i) = (CHOOSE i \in gone : \A j \in gone : j <= i)
    BY <1>12
  <2> QED
    BY <1>3, <1>10, <1>12, <2>1
<1> QED
  BY <1>13, <1>14, Zenon DEF L!DeleteKey, left, taken

(* The pointers behave as a list of items: append, dequeue, insertion in    *)
(* order and deletion by key, with what each gives its caller.              *)
THEOREM PointersImplementList == Spec => ImplementsList
<1>1. queue_new => L!Init
  BY NewIsQueue DEF L!Init, queue_new
<1>2. QueueInv /\ [Next]_vars => [L!Next]_(L!vars)
  <2> SUFFICES ASSUME QueueInv, [Next]_vars PROVE [L!Next]_(L!vars)
    OBVIOUS
  <2>1. ASSUME NEW n \in Nodes, NEW x \in Items, queue_append(n, x) PROVE L!Next
    BY <2>1, AppendRefines DEF L!Next
  <2>2. ASSUME NEW n \in Nodes, NEW x \in Items, queue_insert_sorted(n, x) PROVE L!Next
    BY <2>2, InsertRefines DEF L!Next
  <2>3. CASE queue_dequeue
    BY <2>3, DequeueRefines DEF L!Next
  <2>4. CASE queue_dequeue_empty
    BY <2>4, DequeueEmptyRefines DEF L!Next
  <2>5. ASSUME NEW k \in {Key[x] : x \in Items}, queue_delete_by_predicate(k) PROVE L!Next
    BY <2>5, DeleteRefines DEF L!Next
  <2>6. CASE UNCHANGED vars
    <3>1. PICK c : IsQueue(c)
      BY DEF QueueInv
    <3>2. Linked(head', tail', prev', next', c) /\ Stored(q_length', data', live', c)
      BY <2>6, <3>1 DEF vars, IsQueue
    <3>3. Contents = Read(data, c) /\ Contents' = Read(data', c)
      BY <3>1, <3>2, QueueState, QueueStateNext
    <3> QED
      BY <2>6, <3>3 DEF vars, L!vars
  <2> QED
    BY <2>1, <2>2, <2>3, <2>4, <2>5, <2>6 DEF Next
<1> QED
  BY <1>1, <1>2, QueueInvariant, PTL DEF Spec, ImplementsList, L!Spec

=============================================================================
