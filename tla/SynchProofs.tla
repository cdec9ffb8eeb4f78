----------------------------- MODULE SynchProofs -----------------------------
(***************************************************************************)
(* Proofs about module Synch, for every set of threads and of semaphores,  *)
(* every choice of which callers disable interrupts, and every point at    *)
(* which the others are preempted.                                         *)
(*                                                                         *)
(* The inductive invariant is the conjunction of typing, LockExclusive and *)
(* WaitQueueExact.  Typing needs the last: a V starts the head of a queue  *)
(* that must not be empty.                                                 *)
(***************************************************************************)
EXTENDS Synch, FiniteSetTheorems, SequenceTheorems, TLAPS

SynchInv == TypeOK /\ LockExclusive /\ WaitQueueExact

-----------------------------------------------------------------------------
(* Lemmas about the dispatcher.                                             *)

(* minithread_yield keeps the dispatcher's state well typed.                *)
LEMMA YieldTyping ==
    ASSUME TypeOK, minithread_yield(Runnable)
    PROVE  /\ active_thread' \in Threads \cup {Idle}
           /\ ready' \in [Threads -> Nat]
           /\ size' \in Nat
  <1> DEFINE rd == IF Runnable THEN [ready EXCEPT ![active_thread] = @ + 1] ELSE ready
             sz == IF Runnable THEN size + 1 ELSE size
  <1>1. rd \in [Threads -> Nat] /\ sz \in Nat
    BY DEF TypeOK, Runnable
  <1>2. scheduler_next_thread(rd, sz)
    BY DEF minithread_yield
  <1> HIDE DEF rd, sz
  <1>3. QED
    BY <1>1, <1>2 DEF scheduler_next_thread

(* So does minithread_start.                                                *)
LEMMA StartTyping ==
    ASSUME TypeOK, NEW t \in Threads, minithread_start(t)
    PROVE  /\ status' \in [Threads -> Statuses]
           /\ ready' \in [Threads -> Nat]
           /\ size' \in Nat
  BY DEF TypeOK, minithread_start, Statuses

(* The increment of V, by a thread or by a handler.                         *)
LEMMA IncrementTyping ==
    ASSUME TypeOK, WaitQueueExact, NEW s \in Sems, Increment(s)
    PROVE  /\ active_thread' \in Threads \cup {Idle}
           /\ status' \in [Threads -> Statuses]
           /\ ready' \in [Threads -> Nat]
           /\ size' \in Nat
           /\ forking' \subseteq Threads
           /\ cnt' \in [Sems -> Int]
           /\ sema_queue' \in [Sems -> Seq(Threads)]
           /\ caught' \subseteq Threads
  <1>1. CASE cnt[s] < 0
    <2>1. sema_queue[s] \in Seq(Threads) /\ sema_queue[s] # <<>>
      BY <1>1 DEF TypeOK, WaitQueueExact
    <2>2. Head(sema_queue[s]) \in Threads /\ Tail(sema_queue[s]) \in Seq(Threads)
      BY <2>1
    <2>3. minithread_start(Head(sema_queue[s]))
      BY <1>1 DEF Increment
    <2>4. /\ status' \in [Threads -> Statuses]
          /\ ready' \in [Threads -> Nat]
          /\ size' \in Nat
      BY <2>2, <2>3, StartTyping
    <2>5. sema_queue' \in [Sems -> Seq(Threads)]
      BY <1>1, <2>2 DEF TypeOK, Increment
    <2>6. cnt' = [cnt EXCEPT ![s] = @ + 1] /\ UNCHANGED <<active_thread, forking>>
      BY DEF Increment
    <2>7. cnt' \in [Sems -> Int]
      BY <2>6 DEF TypeOK
    <2>8. caught' \subseteq Threads
      BY <1>1, <2>2 DEF Increment, Catch, TypeOK
    <2>9. QED
      BY <2>4, <2>5, <2>6, <2>7, <2>8 DEF TypeOK
  <1>2. CASE ~(cnt[s] < 0)
    BY <1>2 DEF TypeOK, Increment
  <1>3. QED
    BY <1>1, <1>2

-----------------------------------------------------------------------------
(* Initially.                                                               *)
LEMMA InitInv == Init => SynchInv
  <1> SUFFICES ASSUME Init PROVE SynchInv
    OBVIOUS
  <1> USE DispatcherAssumption, SynchAssumption
  <1>1. Cardinality(Boot) \in Nat
    BY FS_Subset, FS_CardinalityType
  <1>2. TypeOK
    BY <1>1 DEF Init, DispatchInit, TypeOK, Statuses, Steps, PSteps, VSteps
  <1>3. LockExclusive
    BY DEF Init, LockExclusive, Critical
  <1>4. WaitQueueExact
    BY DEF Init, WaitQueueExact
  <1>5. QED
    BY <1>2, <1>3, <1>4 DEF SynchInv

-----------------------------------------------------------------------------
(* Every step keeps the state well typed.                                   *)
LEMMA TypeStep ==
    ASSUME SynchInv, [Next]_vars
    PROVE  TypeOK'
  <1> USE DEF SynchInv
  <1> USE SynchAssumption
  <1>1. ASSUME NEW t \in Threads, CallStep(t)
        PROVE  TypeOK'
    <2>1. CASE SpinP(t)
      BY <2>1 DEF SpinP, At, Goto, TypeOK, dispatchVars, Steps, PSteps
    <2>2. CASE TakeP(t)
      BY <2>2 DEF TakeP, At, Goto, AfterP, Recover, TypeOK, dispatchVars, Steps
    <2>3. CASE QueueP(t)
      BY <2>3 DEF QueueP, At, Goto, TypeOK, dispatchVars, Steps, PSteps
    <2>4. CASE ClearP(t)
      BY <2>4 DEF ClearP, At, Goto, TypeOK, dispatchVars, Steps, PSteps
    <2>5. CASE SleepP(t)
      BY <2>5 DEF SleepP, At, Goto, TypeOK, Statuses, Steps, PSteps
    <2>6. CASE YieldP(t)
      <3>1. /\ active_thread' \in Threads \cup {Idle}
            /\ ready' \in [Threads -> Nat]
            /\ size' \in Nat
        BY <2>6, YieldTyping DEF YieldP
      <3>2. QED
        BY <2>6, <3>1 DEF YieldP, Goto, TypeOK, Steps, PSteps
    <2>7. CASE ReturnP(t)
      BY <2>7 DEF ReturnP, At, Goto, AfterP, Recover, TypeOK, dispatchVars, Steps
    <2>8. CASE SpinV(t)
      BY <2>8 DEF SpinV, At, Goto, TypeOK, dispatchVars, Steps, VSteps
    <2>9. CASE IncrementV(t)
      <3>1. sem[t] \in Sems /\ Increment(sem[t])
        BY <2>9 DEF IncrementV, TypeOK
      <3>2. /\ lock' = [lock EXCEPT ![sem[t]] = FALSE]
            /\ pc' = [pc EXCEPT ![t] = AfterV(t)]
            /\ UNCHANGED <<sem, delete_queue, freed>>
        BY <2>9 DEF IncrementV, Goto
      <3>3. lock' \in [Sems -> BOOLEAN] /\ pc' \in [Threads -> Steps]
        BY <3>2 DEF TypeOK, AfterV, Steps
      <3>4. QED
        BY <3>1, <3>2, <3>3, IncrementTyping DEF TypeOK
    <2>10. CASE FinalAppend(t)
      BY <2>10 DEF FinalAppend, At, Goto, TypeOK, dispatchVars, Steps, VSteps
    <2>11. CASE FinalYield(t)
      <3>1. /\ active_thread' \in Threads \cup {Idle}
            /\ ready' \in [Threads -> Nat]
            /\ size' \in Nat
        BY <2>11, YieldTyping DEF FinalYield
      <3>2. QED
        BY <2>11, <3>1 DEF FinalYield, Goto, TypeOK, Steps
    <2>12. QED
      BY <1>1, <2>1, <2>2, <2>3, <2>4, <2>5, <2>6, <2>7, <2>8, <2>9, <2>10, <2>11
         DEF CallStep
  <1>2. ASSUME NEW t \in Threads, FinalStatus(t)
        PROVE  TypeOK'
    BY <1>2 DEF FinalStatus, At, Goto, TypeOK, Statuses, Steps
  <1>3. ASSUME NEW t \in Threads, Fork(t)
        PROVE  TypeOK'
    BY <1>3 DEF Fork, ForkAppend, synchVars, TypeOK, Statuses
  <1>4. ASSUME NEW t \in Threads, NEW s \in Sems, CallP(t, s)
        PROVE  TypeOK'
    BY <1>4 DEF CallP, At, Goto, TypeOK, dispatchVars, Steps, PSteps
  <1>5. ASSUME NEW t \in Threads, NEW s \in Sems, CallV(t, s)
        PROVE  TypeOK'
    BY <1>5 DEF CallV, At, Goto, TypeOK, dispatchVars, Steps, VSteps
  <1>6. ASSUME NEW s \in HandlerSems, HandlerV(s)
        PROVE  TypeOK'
    <2>1. s \in Sems /\ Increment(s) /\ UNCHANGED <<lock, pc, sem, delete_queue, freed>>
      BY <1>6 DEF HandlerV
    <2>2. QED
      BY <2>1, IncrementTyping DEF TypeOK
  <1>7. CASE Reap
    <2>1. Head(delete_queue) \in Threads /\ Tail(delete_queue) \in Seq(Threads)
      BY <1>7 DEF Reap, TypeOK
    <2>2. QED
      BY <1>7, <2>1 DEF Reap, At, Goto, TypeOK, dispatchVars, Steps
  <1>8. CASE EndFork
    BY <1>8 DEF EndFork, ForkCount, synchVars, TypeOK
  <1>9. CASE Yield
    <2>1. /\ active_thread' \in Threads \cup {Idle}
          /\ ready' \in [Threads -> Nat]
          /\ size' \in Nat
      BY <1>9, YieldTyping DEF Yield, Switch
    <2>2. QED
      BY <1>9, <2>1 DEF Yield, Switch, synchVars, TypeOK
  <1>10. CASE UNCHANGED vars
    BY <1>10 DEF vars, TypeOK
  <1>11. QED
    BY <1>1, <1>2, <1>3, <1>4, <1>5, <1>6, <1>7, <1>8, <1>9, <1>10 DEF Next

-----------------------------------------------------------------------------
(* Every step keeps the locks exclusive: only a thread that finds the lock  *)
(* free takes it, and only its holder gives it back.                        *)
LEMMA LockStep ==
    ASSUME SynchInv, [Next]_vars
    PROVE  LockExclusive'
  <1> USE DEF SynchInv
  <1> USE SynchAssumption
  (* A step that changes nobody's place with respect to the locks.          *)
  <1> DEFINE Same(t, p, q) == /\ t \in Threads
                              /\ pc[t] = p
                              /\ pc' = [pc EXCEPT ![t] = q]
                              /\ p \notin Critical
                              /\ q \notin Critical
                              /\ lock' = lock
                              /\ \A u \in Threads \ {t} : sem'[u] = sem[u]
  <1>a. ASSUME NEW t, NEW p, NEW q, Same(t, p, q)
        PROVE  LockExclusive'
    <2>1. \A u \in Threads : pc'[u] \in Critical <=> pc[u] \in Critical
      BY <1>a DEF TypeOK
    <2>2. \A u \in Threads : pc[u] \in Critical => sem'[u] = sem[u]
      BY <1>a
    <2>3. QED
      BY <1>a, <2>1, <2>2 DEF LockExclusive
  (* A step that leaves a critical section and clears the lock.             *)
  <1>b. ASSUME NEW t \in Threads, NEW q, pc[t] \in Critical, q \notin Critical,
               pc' = [pc EXCEPT ![t] = q], sem' = sem,
               lock' = [lock EXCEPT ![sem[t]] = FALSE]
        PROVE  LockExclusive'
    <2>1. \A u \in Threads : pc'[u] \in Critical <=> (pc[u] \in Critical /\ u # t)
      BY <1>b DEF TypeOK
    <2>2. \A u \in Threads : pc[u] \in Critical /\ sem[u] = sem[t] => u = t
      BY <1>b DEF LockExclusive
    <2>3. sem[t] \in Sems /\ lock \in [Sems -> BOOLEAN]
      BY DEF TypeOK
    <2>4. ~lock'[sem[t]] /\ \A s \in Sems \ {sem[t]} : lock'[s] = lock[s]
      BY <1>b, <2>3
    <2>5. \A s \in Sems : lock[s] <=> \E u \in Threads : pc[u] \in Critical /\ sem[u] = s
      BY DEF LockExclusive
    <2>6. \A s \in Sems : lock'[s] <=> \E u \in Threads : pc'[u] \in Critical /\ sem'[u] = s
      BY <1>b, <2>1, <2>2, <2>4, <2>5
    <2>7. QED
      BY <1>b, <2>1, <2>6 DEF LockExclusive
  (* A step that enters a critical section with the lock found free.        *)
  <1>c. ASSUME NEW t \in Threads, NEW q \in Critical, ~lock[sem[t]], sem' = sem,
               lock' = [lock EXCEPT ![sem[t]] = TRUE], pc' = [pc EXCEPT ![t] = q]
        PROVE  LockExclusive'
    <2>1. pc'[t] \in Critical /\ \A u \in Threads \ {t} : pc'[u] = pc[u]
      BY <1>c DEF TypeOK
    <2>2. lock'[sem[t]] /\ \A s \in Sems \ {sem[t]} : lock'[s] = lock[s]
      BY <1>c DEF TypeOK
    <2>3. \A u \in Threads : sem[u] \in Sems
      BY DEF TypeOK
    <2>4. \A u \in Threads : sem[u] = sem[t] => pc[u] \notin Critical
      BY <1>c, <2>3 DEF LockExclusive
    <2>5. QED
      BY <1>c, <2>1, <2>2, <2>3, <2>4 DEF LockExclusive
  <1>1. ASSUME NEW t \in Threads, CallStep(t)
        PROVE  LockExclusive'
    <2>1. CASE SpinP(t)
      <3>1. /\ ~lock[sem[t]] /\ lock' = [lock EXCEPT ![sem[t]] = TRUE] /\ sem' = sem
            /\ pc' = [pc EXCEPT ![t] = "P_dec"] /\ "P_dec" \in Critical
        BY <2>1 DEF SpinP, Goto, Critical
      <3>2. QED
        BY <1>c, <3>1, Zenon
    <2>2. CASE TakeP(t)
      <3>1. /\ pc[t] \in Critical /\ lock' = [lock EXCEPT ![sem[t]] = FALSE] /\ sem' = sem
            /\ pc' = [pc EXCEPT ![t] = AfterP(t)] /\ AfterP(t) \notin Critical
        BY <2>2 DEF TakeP, At, Goto, AfterP, Critical
      <3>2. QED
        BY <1>b, <3>1, Zenon
    <2>3. CASE QueueP(t)
      <3>1. /\ pc[t] \in Critical /\ lock' = lock /\ sem' = sem
            /\ pc' = [pc EXCEPT ![t] = "P_clear"] /\ "P_clear" \in Critical
        BY <2>3 DEF QueueP, At, Goto, Critical
      <3>2. \A u \in Threads : pc'[u] \in Critical <=> pc[u] \in Critical
        BY <3>1 DEF TypeOK
      <3>3. QED
        BY <3>1, <3>2 DEF LockExclusive
    <2>4. CASE ClearP(t)
      <3>1. /\ pc[t] \in Critical /\ lock' = [lock EXCEPT ![sem[t]] = FALSE] /\ sem' = sem
            /\ pc' = [pc EXCEPT ![t] = "P_sleep"] /\ "P_sleep" \notin Critical
        BY <2>4 DEF ClearP, At, Goto, Critical
      <3>2. QED
        BY <1>b, <3>1, Zenon
    <2>5. CASE SleepP(t)
      BY <2>5, <1>a DEF SleepP, At, Goto, Critical
    <2>6. CASE YieldP(t)
      BY <2>6, <1>a DEF YieldP, At, Goto, Critical
    <2>7. CASE ReturnP(t)
      <3>1. /\ pc[t] = "P_wait" /\ sem' = sem /\ lock' = lock
            /\ pc' = [pc EXCEPT ![t] = AfterP(t)]
        BY <2>7 DEF ReturnP, At, Goto
      <3>2. pc[t] \notin Critical /\ AfterP(t) \notin Critical
        BY <3>1 DEF AfterP, Critical
      <3>3. QED
        BY <1>a, <3>1, <3>2
    <2>8. CASE SpinV(t)
      <3>1. /\ ~lock[sem[t]] /\ lock' = [lock EXCEPT ![sem[t]] = TRUE] /\ sem' = sem
            /\ pc' = [pc EXCEPT ![t] = "V_inc"] /\ "V_inc" \in Critical
        BY <2>8 DEF SpinV, Goto, Critical
      <3>2. QED
        BY <1>c, <3>1, Zenon
    <2>9. CASE IncrementV(t)
      <3>1. /\ pc[t] = "V_inc"
            /\ lock' = [lock EXCEPT ![sem[t]] = FALSE]
            /\ pc' = [pc EXCEPT ![t] = AfterV(t)]
            /\ sem' = sem
        BY <2>9 DEF IncrementV, At, Goto
      <3>2. AfterV(t) \notin Critical
        BY DEF AfterV, Critical
      <3>3. pc[t] \in Critical
        BY <3>1 DEF Critical
      <3>4. QED
        BY <1>b, <3>1, <3>2, <3>3, Zenon
    <2>10. CASE FinalAppend(t)
      BY <2>10, <1>a DEF FinalAppend, At, Goto, Critical, TypeOK
    <2>11. CASE FinalYield(t)
      BY <2>11, <1>a DEF FinalYield, At, Goto, Critical
    <2>12. QED
      BY <1>1, <2>1, <2>2, <2>3, <2>4, <2>5, <2>6, <2>7, <2>8, <2>9, <2>10, <2>11
         DEF CallStep
  <1>2. ASSUME NEW t \in Threads, FinalStatus(t)
        PROVE  LockExclusive'
    BY <1>2, <1>a DEF FinalStatus, At, Goto, Critical
  <1>3. ASSUME NEW t \in Threads, Fork(t)
        PROVE  LockExclusive'
    BY <1>3 DEF Fork, synchVars, LockExclusive
  <1>4. ASSUME NEW t \in Threads, NEW s \in Sems, CallP(t, s)
        PROVE  LockExclusive'
    BY <1>4, <1>a DEF CallP, At, Goto, Critical, TypeOK
  <1>5. ASSUME NEW t \in Threads, NEW s \in Sems, CallV(t, s)
        PROVE  LockExclusive'
    BY <1>5, <1>a DEF CallV, At, Goto, Critical, TypeOK
  <1>6. ASSUME NEW s \in HandlerSems, HandlerV(s)
        PROVE  LockExclusive'
    BY <1>6 DEF HandlerV, LockExclusive
  <1>7. CASE Reap
    <2>1. Same(Reaper, "reap", "run")
      BY <1>7, DispatcherAssumption DEF Reap, At, Goto, Critical
    <2>2. QED
      BY <2>1, <1>a
  <1>8. CASE EndFork
    BY <1>8 DEF EndFork, synchVars, LockExclusive
  <1>9. CASE Yield
    BY <1>9 DEF Yield, synchVars, LockExclusive
  <1>10. CASE UNCHANGED vars
    BY <1>10 DEF vars, LockExclusive
  <1>11. QED
    BY <1>1, <1>2, <1>3, <1>4, <1>5, <1>6, <1>7, <1>8, <1>9, <1>10 DEF Next

-----------------------------------------------------------------------------
(* Every step keeps the counts and the queues in agreement.                 *)

(* The increment of V takes one thread off a queue that the count says is   *)
(* not empty.                                                               *)
LEMMA IncrementQueue ==
    ASSUME TypeOK, WaitQueueExact, NEW s \in Sems, Increment(s)
    PROVE  WaitQueueExact'
  <1>1. cnt' = [cnt EXCEPT ![s] = @ + 1]
    BY DEF Increment
  <1>2. CASE cnt[s] < 0
    <2>1. sema_queue' = [sema_queue EXCEPT ![s] = Tail(@)]
      BY <1>2 DEF Increment
    <2>2. sema_queue[s] \in Seq(Threads) /\ Len(sema_queue[s]) = -cnt[s]
      BY <1>2 DEF TypeOK, WaitQueueExact
    <2>3. Len(Tail(sema_queue[s])) = -cnt[s] - 1
      BY <1>2, <2>2 DEF TypeOK
    <2>4. cnt'[s] = cnt[s] + 1 /\ sema_queue'[s] = Tail(sema_queue[s])
      BY <1>1, <2>1 DEF TypeOK
    <2>a. cnt[s] \in Int /\ cnt'[s] = cnt[s] + 1 /\ Len(sema_queue'[s]) = -cnt[s] - 1
      BY <2>3, <2>4 DEF TypeOK
    <2>5. Len(sema_queue'[s]) = IF cnt'[s] < 0 THEN -cnt'[s] ELSE 0
      BY <1>2, <2>a
    <2>6. \A r \in Sems \ {s} : cnt'[r] = cnt[r] /\ sema_queue'[r] = sema_queue[r]
      BY <1>1, <2>1 DEF TypeOK
    <2>7. QED
      BY <2>5, <2>6 DEF WaitQueueExact
  <1>3. CASE ~(cnt[s] < 0)
    <2>1. sema_queue' = sema_queue
      BY <1>3 DEF Increment
    <2>2. cnt[s] \in Int /\ cnt'[s] = cnt[s] + 1 /\ Len(sema_queue[s]) = 0
      BY <1>1, <1>3 DEF TypeOK, WaitQueueExact
    <2>3. ~(cnt'[s] < 0)
      BY <1>3, <2>2
    <2>4. \A r \in Sems \ {s} : cnt'[r] = cnt[r]
      BY <1>1 DEF TypeOK
    <2>5. QED
      BY <2>1, <2>2, <2>3, <2>4 DEF WaitQueueExact
  <1>4. QED
    BY <1>2, <1>3

LEMMA QueueStep ==
    ASSUME SynchInv, [Next]_vars
    PROVE  WaitQueueExact'
  <1> USE DEF SynchInv
  <1>0. ASSUME cnt' = cnt, sema_queue' = sema_queue
        PROVE  WaitQueueExact'
    BY <1>0 DEF WaitQueueExact
  <1>1. ASSUME NEW t \in Threads, CallStep(t)
        PROVE  WaitQueueExact'
    <2>1. CASE TakeP(t)
      <3>1. /\ sem[t] \in Sems /\ cnt \in [Sems -> Int] /\ cnt[sem[t]] > 0
            /\ cnt' = [cnt EXCEPT ![sem[t]] = @ - 1] /\ sema_queue' = sema_queue
        BY <2>1 DEF TakeP, TypeOK
      <3>2. ~(cnt[sem[t]] < 0) /\ ~(cnt'[sem[t]] < 0)
        BY <3>1
      <3>3. \A r \in Sems \ {sem[t]} : cnt'[r] = cnt[r]
        BY <3>1
      <3>4. QED
        BY <3>1, <3>2, <3>3 DEF WaitQueueExact
    <2>2. CASE QueueP(t)
      <3>1. /\ sem[t] \in Sems
            /\ sema_queue[sem[t]] \in Seq(Threads)
            /\ Len(sema_queue[sem[t]]) = -cnt[sem[t]]
        <4>1. sem[t] \in Sems /\ cnt[sem[t]] \in Int /\ cnt[sem[t]] <= 0
          BY <2>2 DEF QueueP, TypeOK
        <4>2. QED
          BY <4>1 DEF TypeOK, WaitQueueExact
      <3>2. Len(Append(sema_queue[sem[t]], t)) = -cnt[sem[t]] + 1
        BY <3>1
      <3>3. /\ cnt' = [cnt EXCEPT ![sem[t]] = @ - 1] /\ cnt \in [Sems -> Int]
            /\ sema_queue' = [sema_queue EXCEPT ![sem[t]] = Append(@, t)]
            /\ sema_queue \in [Sems -> Seq(Threads)] /\ cnt[sem[t]] <= 0
        BY <2>2 DEF QueueP, TypeOK
      <3>4. /\ cnt[sem[t]] \in Int /\ cnt'[sem[t]] = cnt[sem[t]] - 1
            /\ sema_queue'[sem[t]] = Append(sema_queue[sem[t]], t)
            /\ \A r \in Sems \ {sem[t]} : cnt'[r] = cnt[r] /\ sema_queue'[r] = sema_queue[r]
        BY <3>1, <3>3
      <3>5. cnt'[sem[t]] < 0 /\ Len(sema_queue'[sem[t]]) = -cnt'[sem[t]]
        BY <3>2, <3>3, <3>4
      <3>6. QED
        BY <3>4, <3>5 DEF WaitQueueExact
    <2>3. CASE IncrementV(t)
      BY <2>3, IncrementQueue DEF IncrementV, TypeOK
    <2>4. CASE ~(TakeP(t) \/ QueueP(t) \/ IncrementV(t))
      BY <1>1, <1>0, <2>4 DEF CallStep, SpinP, ClearP, SleepP, YieldP, ReturnP, SpinV,
                              FinalAppend, FinalYield
    <2>5. QED
      BY <2>1, <2>2, <2>3, <2>4
  <1>2. ASSUME NEW s \in HandlerSems, HandlerV(s)
        PROVE  WaitQueueExact'
    BY <1>2, IncrementQueue, SynchAssumption DEF HandlerV
  <1>3. CASE \E t \in Threads : FinalStatus(t) \/ Fork(t)
    BY <1>0, <1>3 DEF FinalStatus, Fork, synchVars
  <1>4. CASE \E t \in Threads, s \in Sems : CallP(t, s) \/ CallV(t, s)
    BY <1>0, <1>4 DEF CallP, CallV
  <1>5. CASE Reap \/ EndFork \/ Yield \/ UNCHANGED vars
    BY <1>0, <1>5 DEF Reap, EndFork, Yield, synchVars, vars
  <1>6. QED
    BY <1>1, <1>2, <1>3, <1>4, <1>5 DEF Next

-----------------------------------------------------------------------------
(* The three conjuncts together are inductive.                              *)
THEOREM SynchInvariant == Spec => []SynchInv
  <1>1. SynchInv /\ [Next]_vars => SynchInv'
    BY TypeStep, LockStep, QueueStep DEF SynchInv
  <1>2. QED
    BY InitInv, <1>1, PTL DEF Spec

(* The state of the semaphores and of the dispatcher stays well typed: in   *)
(* particular no V takes the head of an empty queue.                        *)
THEOREM SynchTyping == Spec => []TypeOK
  BY SynchInvariant, PTL DEF SynchInv

(* The test-and-set lock excludes, for any number of threads and wherever   *)
(* they are preempted: at most one thread is between taking and clearing    *)
(* the lock of a semaphore, and the lock is taken exactly when one is.      *)
THEOREM LockMutualExclusion == Spec => []LockExclusive
  BY SynchInvariant, PTL DEF SynchInv

(* A negative count is the number of queued threads, always: the count is   *)
(* all that V looks at before it dequeues.                                  *)
THEOREM CountMatchesQueue == Spec => []WaitQueueExact
  BY SynchInvariant, PTL DEF SynchInv

-----------------------------------------------------------------------------
(***************************************************************************)
(* Proof that the semaphores of module Synch implement CountingSemaphores  *)
(* if handlers signal only semaphores whose P is called with interrupts    *)
(* disabled.                                                               *)
(*                                                                         *)
(* The crux is how often the dispatcher can find a thread.  A V that comes *)
(* between unlocking and sleeping starts a thread that still runs or is    *)
(* still ready, and gives it a second entry; its SLEEPING status then      *)
(* takes one away at the next yield, so that no thread leaves P with an    *)
(* entry to spare.                                                         *)
(***************************************************************************)

(* The assumption on the callers.                                           *)
HandlersSignalMasked == HandlerSems \subseteq MaskedP

(* The steps of P from joining the queue to the return of the yield.        *)
Waits == {"P_clear", "P_sleep", "P_yield", "P_wait"}

(* The places where the dispatcher has t.                                   *)
Entries(t) == ready[t] + (IF active_thread = t THEN 1 ELSE 0)

InQueue(t) == Queued(t, sem[t])

(* A queued thread is in a P on that semaphore, and queued once.            *)
QueueInv ==
    /\ \A t \in Threads, s \in Sems : Queued(t, s) => pc[t] \in Waits /\ sem[t] = s
    /\ \A s \in Sems : \A i, j \in DOMAIN sema_queue[s] :
          sema_queue[s][i] = sema_queue[s][j] => i = j
    /\ \A t \in Threads : pc[t] = "P_clear" => InQueue(t)

(* Interrupts disabled mean that nobody else runs.                          *)
MaskInv ==
    \A t \in Threads :
        /\ pc[t] \in PSteps \ {"P_wait"} /\ sem[t] \in MaskedP => active_thread = t
        /\ pc[t] \in VSteps /\ sem[t] \in MaskedV => active_thread = t

(* The entries a thread can have at each step of P.                         *)
SleepEntries(t) ==
    pc[t] = "P_sleep" => Entries(t) <= (IF InQueue(t) THEN 1 ELSE 2)
YieldEntries(t) ==
    pc[t] = "P_yield" =>
        IF status[t] = "SLEEPING" THEN ready[t] <= (IF InQueue(t) THEN 0 ELSE 1)
                                  ELSE Entries(t) <= 1 /\ ~InQueue(t)
WaitEntries(t) ==
    pc[t] = "P_wait" => Entries(t) <= (IF InQueue(t) THEN 0 ELSE 1)
OtherEntries(t) ==
    pc[t] \notin {"P_sleep", "P_yield", "P_wait"} => Entries(t) <= 1

EntryFor(t) ==
    /\ status[t] = "unborn" => Entries(t) = 0 /\ pc[t] = "run"
    /\ SleepEntries(t)
    /\ YieldEntries(t)
    /\ WaitEntries(t)
    /\ OtherEntries(t)

EntryInv == \A t \in Threads : EntryFor(t)

-----------------------------------------------------------------------------
(* Lemmas about queues and entries.                                         *)

(* Appending a thread that is in no queue.                                  *)
LEMMA AppendQueue ==
    ASSUME TypeOK, QueueInv, NEW t \in Threads, pc[t] = "P_dec",
           sema_queue' = [sema_queue EXCEPT ![sem[t]] = Append(@, t)]
    PROVE  /\ \A u \in Threads, s \in Sems :
                 Queued(u, s)' <=> Queued(u, s) \/ (u = t /\ s = sem[t])
           /\ \A s \in Sems : \A i, j \in DOMAIN sema_queue'[s] :
                 sema_queue'[s][i] = sema_queue'[s][j] => i = j
  <1> DEFINE q == sema_queue[sem[t]]
  <1>1. q \in Seq(Threads) /\ sem[t] \in Sems
    BY DEF TypeOK
  <1>2. ~Queued(t, sem[t])
    BY <1>1 DEF QueueInv, Waits
  <1>3. /\ Len(Append(q, t)) = Len(q) + 1
        /\ \A i \in 1 .. Len(q) : Append(q, t)[i] = q[i]
        /\ Append(q, t)[Len(q) + 1] = t
    BY <1>1
  <1>4. DOMAIN q = 1 .. Len(q) /\ DOMAIN Append(q, t) = 1 .. (Len(q) + 1)
    BY <1>1, <1>3
  <1>5. /\ sema_queue'[sem[t]] = Append(q, t)
        /\ \A s \in Sems \ {sem[t]} : sema_queue'[s] = sema_queue[s]
    BY <1>1 DEF TypeOK
  <1>6. Len(q) \in Nat
    BY <1>1
  <1> HIDE DEF q
  <1>7. ASSUME NEW u \in Threads
        PROVE  (\E i \in DOMAIN Append(q, t) : Append(q, t)[i] = u)
                  <=> (\E i \in DOMAIN q : q[i] = u) \/ u = t
    BY <1>3, <1>4, <1>6
  <1>8. ASSUME NEW i \in DOMAIN Append(q, t), NEW j \in DOMAIN Append(q, t),
               Append(q, t)[i] = Append(q, t)[j]
        PROVE  i = j
    <2>1. \A k \in 1 .. Len(q) : q[k] # t
      BY <1>2, <1>4 DEF Queued, q
    <2>2. \A k, l \in 1 .. Len(q) : q[k] = q[l] => k = l
      BY <1>1, <1>4 DEF QueueInv, q
    <2>3. QED
      BY <1>3, <1>4, <1>6, <1>8, <2>1, <2>2
  <1>9. \A u \in Threads, s \in Sems :
                 Queued(u, s)' <=> Queued(u, s) \/ (u = t /\ s = sem[t])
    BY <1>5, <1>7 DEF Queued, q
  <1>10. QED
    BY <1>1, <1>5, <1>8, <1>9 DEF QueueInv

(* Taking the head off a queue.                                             *)
LEMMA TailQueue ==
    ASSUME TypeOK, QueueInv, NEW s \in Sems, sema_queue[s] # <<>>,
           sema_queue' = [sema_queue EXCEPT ![s] = Tail(@)]
    PROVE  /\ Head(sema_queue[s]) \in Threads
           /\ Queued(Head(sema_queue[s]), s)
           /\ \A u \in Threads, r \in Sems :
                 Queued(u, r)' <=> Queued(u, r) /\ u # Head(sema_queue[s])
           /\ \A r \in Sems : \A i, j \in DOMAIN sema_queue'[r] :
                 sema_queue'[r][i] = sema_queue'[r][j] => i = j
  <1> DEFINE q == sema_queue[s]
             h == Head(q)
  <1>1. q \in Seq(Threads) /\ q # <<>>
    BY DEF TypeOK
  <1>2. Len(q) \in Nat /\ Len(q) >= 1
    BY <1>1
  <1>3. /\ DOMAIN q = 1 .. Len(q)
        /\ DOMAIN Tail(q) = 1 .. (Len(q) - 1)
        /\ \A i \in 1 .. (Len(q) - 1) : Tail(q)[i] = q[i + 1]
        /\ h = q[1]
    BY <1>1, <1>2
  <1>4. h \in Threads
    BY <1>1
  <1>5. /\ sema_queue'[s] = Tail(q)
        /\ \A r \in Sems \ {s} : sema_queue'[r] = sema_queue[r]
    BY DEF TypeOK
  <1>6. \A i, j \in 1 .. Len(q) : q[i] = q[j] => i = j
    BY <1>3 DEF QueueInv
  <1>7. Queued(h, s)
    BY <1>2, <1>3 DEF Queued
  <1>8. \A r \in Sems \ {s} : ~Queued(h, r)
    BY <1>4, <1>7 DEF QueueInv
  <1> HIDE DEF q, h
  <1>9. ASSUME NEW u \in Threads
        PROVE  (\E i \in DOMAIN Tail(q) : Tail(q)[i] = u)
                  <=> (\E i \in DOMAIN q : q[i] = u) /\ u # h
    <2>1. ASSUME NEW i \in DOMAIN Tail(q), Tail(q)[i] = u
          PROVE  (\E k \in DOMAIN q : q[k] = u) /\ u # h
      <3>1. i \in 1 .. (Len(q) - 1) /\ i + 1 \in 1 .. Len(q) /\ q[i + 1] = u /\ i + 1 # 1
        BY <1>2, <1>3, <2>1
      <3>2. 1 \in 1 .. Len(q)
        BY <1>2
      <3>3. QED
        BY <1>3, <1>6, <3>1, <3>2
    <2>2. ASSUME NEW i \in DOMAIN q, q[i] = u, u # h
          PROVE  \E k \in DOMAIN Tail(q) : Tail(q)[k] = u
      <3>1. i \in 1 .. Len(q) /\ i # 1
        BY <1>3, <2>2
      <3>2. i - 1 \in 1 .. (Len(q) - 1) /\ (i - 1) + 1 = i
        BY <1>2, <3>1
      <3>3. QED
        BY <1>3, <2>2, <3>2
    <2>3. QED
      BY <2>1, <2>2
  <1>10. \A i, j \in DOMAIN Tail(q) : Tail(q)[i] = Tail(q)[j] => i = j
    BY <1>2, <1>3, <1>6
  <1>11. \A u \in Threads, r \in Sems : Queued(u, r)' <=> Queued(u, r) /\ u # h
    <2>1. ASSUME NEW u \in Threads, NEW r \in Sems \ {s}
          PROVE  (Queued(u, r)' <=> Queued(u, r)) /\ (Queued(u, r) => u # h)
      <3>1. Queued(u, r)' <=> Queued(u, r)
        BY <1>5 DEF Queued
      <3>2. QED
        BY <1>8, <3>1
    <2>2. ASSUME NEW u \in Threads
          PROVE  Queued(u, s)' <=> Queued(u, s) /\ u # h
      <3>1. Queued(u, s)' <=> \E i \in DOMAIN Tail(q) : Tail(q)[i] = u
        BY <1>5, Zenon DEF Queued
      <3>2. Queued(u, s) <=> \E i \in DOMAIN q : q[i] = u
        BY Zenon DEF Queued, q
      <3>3. QED
        BY <1>9, <3>1, <3>2, Zenon
    <2>3. QED
      BY <2>1, <2>2
  <1>12. QED
    BY <1>4, <1>5, <1>7, <1>10, <1>11 DEF QueueInv, q, h

LEMMA EntriesTyping ==
    ASSUME TypeOK, NEW t \in Threads
    PROVE  ready[t] \in Nat /\ Entries(t) \in Nat
  BY DEF TypeOK, Entries

(* A yield leaves every thread where the dispatcher had it, the running one *)
(* only if it is runnable.                                                  *)
LEMMA EntriesAfterYield ==
    ASSUME TypeOK, minithread_yield(Runnable), NEW t \in Threads
    PROVE  /\ Entries(t)' = ready[t] + (IF active_thread = t /\ Runnable THEN 1 ELSE 0)
           /\ ready'[t] <= Entries(t)'
  <1> DEFINE rd == IF Runnable THEN [ready EXCEPT ![active_thread] = @ + 1] ELSE ready
             sz == IF Runnable THEN size + 1 ELSE size
  <1>1. rd \in [Threads -> Nat]
    BY DEF TypeOK, Runnable
  <1>2. rd[t] = ready[t] + (IF active_thread = t /\ Runnable THEN 1 ELSE 0)
    BY DEF TypeOK, Runnable
  <1>3. scheduler_next_thread(rd, sz)
    BY DEF minithread_yield
  <1> HIDE DEF rd, sz
  <1>4. Entries(t)' = rd[t] /\ ready'[t] <= rd[t]
    <2>1. CASE active_thread' = Idle /\ ready' = rd
      BY <1>1, <2>1, DispatcherAssumption DEF Entries
    <2>2. ASSUME NEW u \in Threads, rd[u] > 0, active_thread' = u,
                 ready' = [v \in Threads |-> IF v = u THEN rd[v] - 1 ELSE rd[v]]
          PROVE  Entries(t)' = rd[t] /\ ready'[t] <= rd[t]
      BY <1>1, <2>2 DEF Entries
    <2>3. QED
      BY <1>3, <2>1, <2>2 DEF scheduler_next_thread
  <1>5. QED
    BY <1>2, <1>4

(* The increment of V changes no thread but the one it takes off a queue.   *)
LEMMA IncrementEffect ==
    ASSUME TypeOK, WaitQueueExact, QueueInv, NEW s \in Sems, Increment(s)
    PROVE  \/ /\ cnt[s] >= 0
              /\ UNCHANGED <<active_thread, status, ready, sema_queue>>
           \/ \E h \in Threads :
                 /\ cnt[s] < 0
                 /\ h = Head(sema_queue[s])
                 /\ Queued(h, s)
                 /\ active_thread' = active_thread
                 /\ status' = [status EXCEPT ![h] = "OK"]
                 /\ ready' = [ready EXCEPT ![h] = @ + 1]
                 /\ \A u \in Threads, r \in Sems : Queued(u, r)' <=> Queued(u, r) /\ u # h
                 /\ \A r \in Sems : \A i, j \in DOMAIN sema_queue'[r] :
                       sema_queue'[r][i] = sema_queue'[r][j] => i = j
  <1>1. CASE cnt[s] < 0
    <2>1. sema_queue[s] \in Seq(Threads) /\ sema_queue[s] # <<>>
      BY <1>1 DEF TypeOK, WaitQueueExact
    <2>2. sema_queue' = [sema_queue EXCEPT ![s] = Tail(@)]
      BY <1>1 DEF Increment
    <2>3. minithread_start(Head(sema_queue[s])) /\ active_thread' = active_thread
      BY <1>1 DEF Increment
    <2>4. QED
      BY <1>1, <2>1, <2>2, <2>3, TailQueue DEF minithread_start
  <1>2. CASE ~(cnt[s] < 0)
    BY <1>2 DEF Increment, TypeOK
  <1>3. QED
    BY <1>1, <1>2

-----------------------------------------------------------------------------
(* Interrupts disabled keep the other threads off.                          *)
LEMMA MaskStep ==
    ASSUME TypeOK, MaskInv, [Next]_vars
    PROVE  MaskInv'
  <1> USE SynchAssumption
  (* A step of the running thread that keeps it running.                    *)
  <1>a. ASSUME NEW t \in Threads, NEW p, NEW m, active_thread = t, active_thread' = t,
               pc' = [pc EXCEPT ![t] = p], sem' = [sem EXCEPT ![t] = m]
        PROVE  MaskInv'
    BY <1>a DEF MaskInv, TypeOK
  (* One that may switch, from a step that is not masked.                   *)
  <1>b. ASSUME NEW t \in Threads, active_thread = t, sem' = sem,
               pc[t] \in {"P_yield", "final_yield"},
               pc' = [pc EXCEPT ![t] = "P_wait"] \/ pc' = [pc EXCEPT ![t] = "dead"]
        PROVE  MaskInv'
    BY <1>b DEF MaskInv, TypeOK, PSteps, VSteps
  <1>c. ASSUME active_thread' = active_thread, pc' = pc, sem' = sem
        PROVE  MaskInv'
    BY <1>c DEF MaskInv
  <1>d. sem = [sem EXCEPT ![active_thread] = @]
    BY DEF TypeOK
  <1>1. ASSUME NEW t \in Threads, CallStep(t)
        PROVE  MaskInv'
    <2>1. CASE YieldP(t) \/ FinalYield(t)
      BY <2>1, <1>b DEF YieldP, FinalYield, At, Goto
    <2>2. CASE FinalAppend(t)
      BY <2>2, <1>a DEF FinalAppend, At, Goto, dispatchVars
    <2>3. CASE IncrementV(t)
      BY <2>3, <1>a, <1>d DEF IncrementV, Increment, At, Goto
    <2>4. CASE SpinP(t) \/ TakeP(t) \/ QueueP(t) \/ ClearP(t) \/ SleepP(t)
                 \/ ReturnP(t) \/ SpinV(t)
      BY <2>4, <1>a, <1>d DEF SpinP, TakeP, QueueP, ClearP, SleepP, ReturnP, SpinV,
                              At, Goto, dispatchVars
    <2>5. QED
      BY <1>1, <2>1, <2>2, <2>3, <2>4 DEF CallStep
  <1>2. ASSUME NEW t \in Threads, FinalStatus(t)
        PROVE  MaskInv'
    BY <1>2, <1>a, <1>d DEF FinalStatus, At, Goto
  <1>3. CASE \E t \in Threads : Fork(t)
    BY <1>3, <1>c DEF Fork, ForkAppend, synchVars
  <1>4. ASSUME NEW t \in Threads, NEW s \in Sems, CallP(t, s) \/ CallV(t, s)
        PROVE  MaskInv'
    BY <1>4, <1>a DEF CallP, CallV, At, Goto, dispatchVars
  <1>5. CASE \E s \in HandlerSems : HandlerV(s)
    BY <1>5, <1>c DEF HandlerV, Increment
  <1>6. CASE Reap
    BY <1>6, <1>a, <1>d, DispatcherAssumption DEF Reap, At, Goto, dispatchVars
  <1>7. CASE EndFork
    BY <1>7, <1>c DEF EndFork, ForkCount, synchVars
  <1>8. CASE Yield
    <2>1. \A t \in Threads : active_thread = t =>
             /\ pc[t] \in PSteps => sem[t] \notin MaskedP
             /\ pc[t] \in VSteps => sem[t] \notin MaskedV
      BY <1>8 DEF Yield, InterruptsEnabled
    <2>2. pc' = pc /\ sem' = sem
      BY <1>8 DEF Yield, synchVars
    <2>3. QED
      BY <2>1, <2>2 DEF MaskInv
  <1>9. CASE UNCHANGED vars
    BY <1>9, <1>c DEF vars
  <1>10. QED
    BY <1>1, <1>2, <1>3, <1>4, <1>5, <1>6, <1>7, <1>8, <1>9 DEF Next

LEMMA MaskInvariant == Spec => []MaskInv
  <1>1. Init => MaskInv
    BY DEF Init, MaskInv, PSteps, VSteps
  <1>2. TypeOK /\ MaskInv /\ [Next]_vars => MaskInv'
    BY MaskStep
  <1>3. QED
    BY <1>1, <1>2, SynchTyping, PTL DEF Spec

-----------------------------------------------------------------------------
(* The inductive invariant.                                                 *)
RefInv == SynchInv /\ QueueInv /\ MaskInv /\ EntryInv

(* A V holds the lock, or could take it: no thread it can start holds it.   *)
LEMMA SignalledNotInLock ==
    ASSUME RefInv, NEW s \in Sems, NEW h \in Threads, Queued(h, s),
           ~lock[s] \/ \E t \in Threads : pc[t] = "V_inc" /\ sem[t] = s
    PROVE  pc[h] \in {"P_sleep", "P_yield", "P_wait"} /\ sem[h] = s
  <1>1. pc[h] \in Waits /\ sem[h] = s
    BY DEF RefInv, QueueInv
  <1>2. pc[h] # "P_clear"
    BY <1>1 DEF RefInv, SynchInv, LockExclusive, Critical
  <1>3. QED
    BY <1>1, <1>2 DEF Waits

(* The running thread has an entry.                                         *)
LEMMA RunningHasEntry ==
    ASSUME RefInv, NEW t \in Threads, active_thread = t
    PROVE  Entries(t) \in Nat /\ Entries(t) >= 1 /\ Entries(t) = ready[t] + 1
  BY DEF RefInv, SynchInv, TypeOK, Entries

(* A P that has waited and now runs has been dequeued.                      *)
LEMMA ReturningIsDequeued ==
    ASSUME RefInv, NEW t \in Threads, active_thread = t, pc[t] = "P_wait"
    PROVE  ~InQueue(t)
  <1>1. WaitEntries(t)
    BY DEF RefInv, EntryInv, EntryFor
  <1>2. QED
    BY <1>1, RunningHasEntry DEF WaitEntries

-----------------------------------------------------------------------------
(* Every step keeps the queues in order.                                    *)
LEMMA QueueInvStep ==
    ASSUME RefInv, [Next]_vars
    PROVE  QueueInv'
  <1> USE DEF RefInv, SynchInv
  <1> USE SynchAssumption
  (* A step of one thread that changes no queue.                            *)
  <1>a. ASSUME NEW t \in Threads, NEW p, NEW m,
               pc' = [pc EXCEPT ![t] = p], sem' = [sem EXCEPT ![t] = m],
               sema_queue' = sema_queue, p # "P_clear",
               \/ pc[t] \notin Waits
               \/ pc[t] = "P_wait" /\ ~InQueue(t)
               \/ p \in Waits /\ m = sem[t]
        PROVE  QueueInv'
    <2>1. \A u \in Threads, s \in Sems : Queued(u, s)' <=> Queued(u, s)
      BY <1>a DEF Queued
    <2>2. \A s \in Sems : Queued(t, s) => p \in Waits /\ m = sem[t]
      BY <1>a DEF QueueInv, InQueue
    <2>3. ASSUME NEW u \in Threads, NEW s \in Sems, Queued(u, s)
          PROVE  pc'[u] \in Waits /\ sem'[u] = s
      <3>1. CASE u = t
        BY <1>a, <2>2, <2>3, <3>1 DEF QueueInv, TypeOK
      <3>2. CASE u # t
        BY <1>a, <2>3, <3>2 DEF QueueInv, TypeOK
      <3>3. QED
        BY <3>1, <3>2
    <2>4. ASSUME NEW u \in Threads, pc'[u] = "P_clear"
          PROVE  InQueue(u)'
      <3>1. u # t /\ pc[u] = "P_clear" /\ sem'[u] = sem[u] /\ sem[u] \in Sems
        BY <1>a, <2>4 DEF TypeOK
      <3>2. InQueue(u)
        BY <3>1 DEF QueueInv
      <3>3. QED
        BY <1>a, <3>1, <3>2 DEF InQueue, Queued
    <2>5. QED
      BY <1>a, <2>1, <2>3, <2>4 DEF QueueInv
  <1>b. ASSUME pc' = pc, sem' = sem, sema_queue' = sema_queue
        PROVE  QueueInv'
    BY <1>b DEF QueueInv, InQueue, Queued
  <1>c. \A t \in Threads : sem = [sem EXCEPT ![t] = sem[t]]
    BY DEF TypeOK
  (* A V by a thread that holds the lock, or by a handler.                  *)
  <1>d. ASSUME NEW s \in Sems, Increment(s), sem' = sem,
               ~lock[s] \/ \E t \in Threads : pc[t] = "V_inc" /\ sem[t] = s,
               \A u \in Threads : pc[u] \in Waits \/ pc'[u] \in Waits => pc'[u] = pc[u]
        PROVE  QueueInv'
    <2>1. CASE cnt[s] >= 0 /\ sema_queue' = sema_queue
      BY <1>d, <2>1 DEF QueueInv, InQueue, Queued, Waits
    <2>2. ASSUME NEW h \in Threads, Queued(h, s),
                 \A u \in Threads, r \in Sems : Queued(u, r)' <=> Queued(u, r) /\ u # h,
                 \A r \in Sems : \A i, j \in DOMAIN sema_queue'[r] :
                    sema_queue'[r][i] = sema_queue'[r][j] => i = j
          PROVE  QueueInv'
      <3>1. pc[h] # "P_clear"
        BY <1>d, <2>2, SignalledNotInLock
      <3>2. ASSUME NEW u \in Threads, NEW r \in Sems, Queued(u, r)'
            PROVE  pc'[u] \in Waits /\ sem'[u] = r
        BY <1>d, <2>2, <3>2 DEF QueueInv
      <3>3. ASSUME NEW u \in Threads, pc'[u] = "P_clear"
            PROVE  InQueue(u)'
        <4>1. pc[u] = "P_clear" /\ sem[u] \in Sems /\ sem'[u] = sem[u]
          BY <1>d, <3>3 DEF Waits, TypeOK
        <4>2. Queued(u, sem[u]) /\ u # h
          BY <3>1, <4>1 DEF QueueInv, InQueue
        <4>3. Queued(u, sem[u])'
          BY <1>d, <2>2, <4>1, <4>2 DEF Queued
        <4>4. QED
          BY <4>3 DEF InQueue
      <3>4. QED
        BY <2>2, <3>2, <3>3 DEF QueueInv
    <2>3. QED
      BY <1>d, <2>1, <2>2, IncrementEffect
  <1>1. ASSUME NEW t \in Threads, CallStep(t)
        PROVE  QueueInv'
    <2>1. CASE QueueP(t)
      <3>1. /\ pc[t] = "P_dec"
            /\ sema_queue' = [sema_queue EXCEPT ![sem[t]] = Append(@, t)]
            /\ pc' = [pc EXCEPT ![t] = "P_clear"]
            /\ sem' = sem
        BY <2>1 DEF QueueP, At, Goto
      <3>2. /\ \A u \in Threads, s \in Sems :
                  Queued(u, s)' <=> Queued(u, s) \/ (u = t /\ s = sem[t])
            /\ \A s \in Sems : \A i, j \in DOMAIN sema_queue'[s] :
                  sema_queue'[s][i] = sema_queue'[s][j] => i = j
        BY <3>1, AppendQueue
      <3>3. ASSUME NEW u \in Threads, NEW s \in Sems, Queued(u, s)'
            PROVE  pc'[u] \in Waits /\ sem'[u] = s
        <4>1. CASE u = t /\ s = sem[t]
          BY <3>1, <4>1 DEF TypeOK, Waits
        <4>2. CASE Queued(u, s)
          <5>1. pc[u] \in Waits /\ sem[u] = s /\ u # t
            BY <3>1, <4>2 DEF QueueInv, Waits
          <5>2. QED
            BY <3>1, <5>1 DEF TypeOK
        <4>3. QED
          BY <3>2, <3>3, <4>1, <4>2
      <3>4. ASSUME NEW u \in Threads, pc'[u] = "P_clear"
            PROVE  InQueue(u)'
        <4>1. sem[u] \in Sems /\ (u = t \/ pc[u] = "P_clear")
          BY <3>1, <3>4 DEF TypeOK
        <4>2. Queued(u, sem[u])'
          <5>1. Queued(u, sem[u]) \/ u = t
            BY <4>1 DEF QueueInv, InQueue
          <5> DEFINE r == sem[u]
          <5>2. r \in Sems /\ (Queued(u, r) \/ (u = t /\ r = sem[t])) /\ r' = r
            BY <4>1, <5>1, <3>1
          <5> HIDE DEF r
          <5>3. Queued(u, r)'
            BY <3>2, <5>2 DEF Queued
          <5>4. QED
            BY <5>2, <5>3 DEF r
        <4>3. QED
          BY <4>2 DEF InQueue
      <3>5. QED
        BY <3>2, <3>3, <3>4 DEF QueueInv
    <2>2. CASE IncrementV(t)
      <3>1. /\ sem[t] \in Sems /\ Increment(sem[t]) /\ sem' = sem
            /\ pc[t] = "V_inc"
            /\ pc' = [pc EXCEPT ![t] = AfterV(t)]
        BY <2>2 DEF IncrementV, At, Goto, TypeOK
      <3>2. \A u \in Threads : pc[u] \in Waits \/ pc'[u] \in Waits => pc'[u] = pc[u]
        BY <3>1 DEF AfterV, TypeOK, Waits
      <3>3. QED
        BY <3>1, <3>2, <1>d
    <2>3. CASE ReturnP(t)
      BY <2>3, <1>a, <1>c, ReturningIsDequeued DEF ReturnP, At, Goto, AfterP
    <2>4. CASE FinalAppend(t)
      BY <2>4, <1>a DEF FinalAppend, At, Goto, Waits
    <2>5. CASE ClearP(t) \/ SleepP(t) \/ YieldP(t)
      BY <2>5, <1>a, <1>c DEF ClearP, SleepP, YieldP, At, Goto, Waits
    <2>6. CASE SpinP(t) \/ TakeP(t) \/ SpinV(t) \/ FinalYield(t)
      BY <2>6, <1>a, <1>c DEF SpinP, TakeP, SpinV, FinalYield, AfterP, At, Goto, Waits
    <2>7. QED
      BY <1>1, <2>1, <2>2, <2>3, <2>4, <2>5, <2>6 DEF CallStep
  <1>2. ASSUME NEW t \in Threads, FinalStatus(t)
        PROVE  QueueInv'
    BY <1>2, <1>a, <1>c DEF FinalStatus, At, Goto, Waits
  <1>3. ASSUME NEW t \in Threads, NEW s \in Sems, CallP(t, s) \/ CallV(t, s)
        PROVE  QueueInv'
    BY <1>3, <1>a DEF CallP, CallV, At, Goto, Waits
  <1>4. ASSUME NEW s \in HandlerSems, HandlerV(s)
        PROVE  QueueInv'
    BY <1>4, <1>d DEF HandlerV
  <1>5. CASE Reap
    BY <1>5, <1>a, <1>c, DispatcherAssumption DEF Reap, At, Goto, Waits
  <1>6. CASE (\E t \in Threads : Fork(t)) \/ EndFork \/ Yield \/ UNCHANGED vars
    BY <1>6, <1>b DEF Fork, EndFork, Yield, synchVars, vars
  <1>7. QED
    BY <1>1, <1>2, <1>3, <1>4, <1>5, <1>6 DEF Next

-----------------------------------------------------------------------------
(* Every step keeps the entries within their bounds.                        *)

(* A thread that stands where it stood, with no more entries than it had.   *)
LEMMA EntryFrame ==
    ASSUME TypeOK, TypeOK', NEW u \in Threads, EntryFor(u),
           pc'[u] = pc[u], status'[u] = status[u], InQueue(u)' <=> InQueue(u),
           Entries(u)' <= Entries(u), status[u] = "SLEEPING" => ready'[u] <= ready[u]
    PROVE  EntryFor(u)'
  <1>1. /\ ready[u] \in Nat /\ ready'[u] \in Nat
        /\ Entries(u) \in Nat /\ Entries(u)' \in Nat
    <2>1. ready[u] \in Nat /\ ready'[u] \in Nat
      BY DEF TypeOK
    <2>2. QED
      BY <2>1 DEF Entries
  <1> DEFINE e == Entries(u)
             f == Entries(u)'
  <1>2. /\ e \in Nat /\ f \in Nat /\ f <= e
        /\ status[u] = "unborn" => e = 0 /\ pc[u] = "run"
        /\ pc[u] = "P_sleep" => e <= (IF InQueue(u) THEN 1 ELSE 2)
        /\ pc[u] = "P_yield" =>
              IF status[u] = "SLEEPING" THEN ready[u] <= (IF InQueue(u) THEN 0 ELSE 1)
                                        ELSE e <= 1 /\ ~InQueue(u)
        /\ pc[u] = "P_wait" => e <= (IF InQueue(u) THEN 0 ELSE 1)
        /\ pc[u] \notin {"P_sleep", "P_yield", "P_wait"} => e <= 1
    BY <1>1 DEF EntryFor, SleepEntries, YieldEntries, WaitEntries, OtherEntries
  <1> HIDE DEF e, f
  <1>3. /\ status'[u] = "unborn" => f = 0 /\ pc'[u] = "run"
        /\ pc'[u] = "P_sleep" => f <= (IF InQueue(u)' THEN 1 ELSE 2)
        /\ pc'[u] = "P_yield" =>
              IF status'[u] = "SLEEPING" THEN ready'[u] <= (IF InQueue(u)' THEN 0 ELSE 1)
                                         ELSE f <= 1 /\ ~InQueue(u)'
        /\ pc'[u] = "P_wait" => f <= (IF InQueue(u)' THEN 0 ELSE 1)
        /\ pc'[u] \notin {"P_sleep", "P_yield", "P_wait"} => f <= 1
    BY <1>1, <1>2
  <1>4. QED
    BY <1>3 DEF f, EntryFor, SleepEntries, YieldEntries, WaitEntries, OtherEntries

(* A yield, for a thread whose own place does not change.                   *)
LEMMA EntryYield ==
    ASSUME RefInv, TypeOK', minithread_yield(Runnable), NEW u \in Threads,
           pc'[u] = pc[u], UNCHANGED <<status, sem, sema_queue>>
    PROVE  EntryFor(u)'
  <1>1. TypeOK /\ EntryFor(u)
    BY DEF RefInv, SynchInv, EntryInv
  <1>2. /\ Entries(u)' = ready[u] + (IF active_thread = u /\ Runnable THEN 1 ELSE 0)
        /\ ready'[u] <= Entries(u)'
    BY <1>1, EntriesAfterYield
  <1>3. Entries(u)' <= Entries(u)
    BY <1>1, <1>2 DEF Entries, TypeOK
  <1>4. status[u] = "SLEEPING" => ready'[u] <= ready[u]
    BY <1>1, <1>2 DEF Runnable, TypeOK
  <1>5. InQueue(u)' <=> InQueue(u)
    BY DEF InQueue, Queued
  <1>6. QED
    BY <1>1, <1>3, <1>4, <1>5, EntryFrame

(* The running thread passes from a step to another, neither of them in the *)
(* middle of going to sleep.                                                *)
LEMMA EntryLocal ==
    ASSUME RefInv, TypeOK', NEW t \in Threads, active_thread = t, NEW p,
           pc[t] \notin {"P_sleep", "P_yield"},
           p \notin {"P_sleep", "P_yield", "P_wait"},
           pc' = [pc EXCEPT ![t] = p],
           UNCHANGED <<active_thread, ready, sema_queue>>,
           status' = status \/ status' = [status EXCEPT ![t] = "DESTROYED"],
           \A u \in Threads \ {t} : sem'[u] = sem[u]
    PROVE  EntryInv'
  <1>1. TypeOK /\ EntryInv
    BY DEF RefInv, SynchInv
  <1>2. \A u \in Threads : Entries(u)' = Entries(u)
    BY DEF Entries
  <1>3. ASSUME NEW u \in Threads, u # t
        PROVE  EntryFor(u)'
    <2>1. pc'[u] = pc[u] /\ status'[u] = status[u] /\ ready'[u] = ready[u]
      BY <1>1, <1>3 DEF TypeOK
    <2>2. InQueue(u)' <=> InQueue(u)
      BY <1>3 DEF InQueue, Queued
    <2>b. ready[u] \in Nat
      BY <1>1 DEF TypeOK
    <2>a. Entries(u) \in Nat
      BY <2>b DEF Entries
    <2>3. Entries(u)' <= Entries(u) /\ ready'[u] <= ready[u]
      BY <1>2, <2>1, <2>a, <2>b
    <2>4. EntryFor(u)
      BY <1>1 DEF EntryInv
    <2>5. QED
      BY <1>1, <2>1, <2>2, <2>3, <2>4, EntryFrame
  <1>4. EntryFor(t)'
    <2>1. Entries(t) <= 1 /\ Entries(t) >= 1 /\ Entries(t) \in Nat
      BY <1>1, RunningHasEntry DEF EntryInv, EntryFor, WaitEntries, OtherEntries
    <2>2. status[t] # "unborn"
      BY <1>1, <2>1 DEF EntryInv, EntryFor
    <2>3. pc'[t] = p /\ status'[t] # "unborn"
      BY <1>1, <2>2 DEF TypeOK
    <2>4. Entries(t)' <= 1
      BY <1>2, <2>1
    <2>5. QED
      BY <2>3, <2>4 DEF EntryFor, SleepEntries, YieldEntries, WaitEntries, OtherEntries
  <1>5. QED
    BY <1>3, <1>4 DEF EntryInv

(* A V, by a thread that holds the lock or by a handler that could take it. *)
LEMMA EntrySignal ==
    ASSUME RefInv, TypeOK', NEW s \in Sems, Increment(s), sem' = sem,
           ~lock[s] \/ \E t \in Threads : pc[t] = "V_inc" /\ sem[t] = s,
           \A h \in Threads : pc[h] \in {"P_sleep", "P_yield"} /\ Queued(h, s)
                                 => active_thread # h,
           NEW u \in Threads, pc'[u] = pc[u]
    PROVE  EntryFor(u)'
  <1>1. TypeOK /\ EntryFor(u) /\ QueueInv /\ WaitQueueExact
    BY DEF RefInv, SynchInv, EntryInv
  <1>2. CASE UNCHANGED <<active_thread, status, ready, sema_queue>>
    <2>1. InQueue(u)' <=> InQueue(u)
      BY <1>2 DEF InQueue, Queued
    <2>2. Entries(u)' <= Entries(u) /\ ready'[u] <= ready[u]
      BY <1>1, <1>2, EntriesTyping DEF Entries
    <2>3. QED
      BY <1>1, <1>2, <2>1, <2>2, EntryFrame
  <1>3. ASSUME NEW h \in Threads, Queued(h, s),
               active_thread' = active_thread,
               status' = [status EXCEPT ![h] = "OK"],
               ready' = [ready EXCEPT ![h] = @ + 1],
               \A v \in Threads, r \in Sems : Queued(v, r)' <=> Queued(v, r) /\ v # h
        PROVE  EntryFor(u)'
    <2>0. sem[u] \in Sems /\ sem'[u] = sem[u]
      BY <1>1 DEF TypeOK
    <2>1. InQueue(u)' <=> InQueue(u) /\ u # h
      <3> DEFINE r == sem[u]
      <3>1. r \in Sems /\ r' = r
        BY <2>0
      <3> HIDE DEF r
      <3>2. Queued(u, r)' <=> Queued(u, r) /\ u # h
        BY <1>3, <3>1
      <3>3. InQueue(u)' <=> Queued(u, r)'
        BY <2>0 DEF InQueue, r
      <3>4. QED
        BY <3>2, <3>3 DEF InQueue, r
    <2>2. CASE u # h
      <3>1. status'[u] = status[u] /\ ready'[u] = ready[u]
        BY <1>1, <1>3, <2>2 DEF TypeOK
      <3>2. Entries(u)' <= Entries(u) /\ ready'[u] <= ready[u]
        BY <1>1, <1>3, <3>1, EntriesTyping DEF Entries
      <3>3. QED
        BY <1>1, <2>1, <2>2, <3>1, <3>2, EntryFrame
    <2>3. CASE u = h
      <3>1. pc[u] \in {"P_sleep", "P_yield", "P_wait"} /\ sem[u] = s /\ InQueue(u)
        BY <1>3, <2>3, SignalledNotInLock DEF InQueue
      <3>2. /\ status'[u] = "OK"
            /\ ready'[u] = ready[u] + 1
            /\ ready[u] \in Nat
            /\ ~InQueue(u)'
        BY <1>1, <1>3, <2>1, <2>3 DEF TypeOK
      <3>3. Entries(u)' = Entries(u) + 1 /\ Entries(u) \in Nat
        BY <1>3, <3>2 DEF Entries
      <3> DEFINE e == Entries(u)
                 f == Entries(u)'
      <3>4. f = e + 1 /\ e \in Nat
        BY <3>3
      <3>5. CASE pc[u] = "P_sleep"
        <4>1. e <= 1
          BY <1>1, <3>1, <3>5 DEF EntryFor, SleepEntries
        <4> HIDE DEF e, f
        <4>2. f <= 2
          BY <3>4, <4>1
        <4>3. QED
          BY <3>2, <3>5, <4>2 DEF f, EntryFor, SleepEntries, YieldEntries, WaitEntries,
                                  OtherEntries
      <3>6. CASE pc[u] = "P_yield"
        <4>1. ready[u] <= 0 /\ active_thread # u
          BY <1>1, <1>3, <2>3, <3>1, <3>6 DEF EntryFor, YieldEntries
        <4>2. e <= 0
          BY <3>2, <4>1 DEF Entries
        <4> HIDE DEF e, f
        <4>3. f <= 1
          BY <3>4, <4>2
        <4>4. QED
          BY <3>2, <3>6, <4>3 DEF f, EntryFor, SleepEntries, YieldEntries, WaitEntries,
                                  OtherEntries
      <3>7. CASE pc[u] = "P_wait"
        <4>1. e <= 0
          BY <1>1, <3>1, <3>7 DEF EntryFor, WaitEntries
        <4> HIDE DEF e, f
        <4>2. f <= 1
          BY <3>4, <4>1
        <4>3. QED
          BY <3>2, <3>7, <4>2 DEF f, EntryFor, SleepEntries, YieldEntries, WaitEntries,
                                  OtherEntries
      <3>8. QED
        BY <3>1, <3>5, <3>6, <3>7
    <2>4. QED
      BY <2>2, <2>3
  <1>4. QED
    BY <1>1, <1>2, <1>3, IncrementEffect

(* The bounds on a thread, from its step.                                   *)
LEMMA EntryIntro ==
    ASSUME NEW t \in Threads, status'[t] # "unborn",
           Entries(t)' \in Nat,
           \/ pc'[t] = "P_sleep" /\ Entries(t)' <= 1
           \/ pc'[t] = "P_yield" /\ status'[t] = "SLEEPING"
                 /\ ready'[t] <= (IF InQueue(t)' THEN 0 ELSE 1)
           \/ pc'[t] = "P_wait" /\ Entries(t)' <= (IF InQueue(t)' THEN 0 ELSE 1)
           \/ pc'[t] \notin {"P_sleep", "P_yield", "P_wait"} /\ Entries(t)' <= 1
    PROVE  EntryFor(t)'
  <1> DEFINE e == Entries(t)'
             q == InQueue(t)'
  <1>1. SleepEntries(t)'
    <2>1. (pc'[t] = "P_sleep" => e <= 1) /\ e \in Nat
      OBVIOUS
    <2> HIDE DEF e, q
    <2>2. pc'[t] = "P_sleep" => e <= (IF q THEN 1 ELSE 2)
      BY <2>1
    <2>3. QED
      BY <2>2 DEF e, q, SleepEntries
  <1>2. YieldEntries(t)'
    BY DEF YieldEntries
  <1>3. WaitEntries(t)'
    BY DEF WaitEntries
  <1>4. OtherEntries(t)'
    BY DEF OtherEntries
  <1>5. QED
    BY <1>1, <1>2, <1>3, <1>4 DEF EntryFor

LEMMA EntryStep ==
    ASSUME RefInv, HandlersSignalMasked, TypeOK', [Next]_vars
    PROVE  EntryInv'
  <1> USE SynchAssumption
  <1>i. TypeOK /\ EntryInv /\ QueueInv /\ MaskInv /\ WaitQueueExact
    BY DEF RefInv, SynchInv
  <1>s. \A t \in Threads : sem = [sem EXCEPT ![t] = sem[t]]
    BY <1>i DEF TypeOK
  (* The other threads, in a step of t.                                     *)
  <1>a. ASSUME NEW t \in Threads, NEW u \in Threads, u # t,
               pc'[u] = pc[u], status'[u] = status[u], InQueue(u)' <=> InQueue(u),
               UNCHANGED <<active_thread, ready>>
        PROVE  EntryFor(u)'
    <2>1. Entries(u)' <= Entries(u) /\ ready'[u] <= ready[u]
      BY <1>a, <1>i, EntriesTyping DEF Entries
    <2>2. QED
      BY <1>a, <1>i, <2>1, EntryFrame DEF EntryInv
  <1>b. ASSUME UNCHANGED <<active_thread, status, ready, pc, sem, sema_queue>>
        PROVE  EntryInv'
    <2>1. ASSUME NEW u \in Threads
          PROVE  EntryFor(u)'
      <3>1. InQueue(u)' <=> InQueue(u)
        BY <1>b DEF InQueue, Queued
      <3>2. Entries(u)' <= Entries(u) /\ ready'[u] <= ready[u]
        BY <1>b, <1>i, EntriesTyping DEF Entries
      <3>3. QED
        BY <1>b, <1>i, <3>1, <3>2, EntryFrame DEF EntryInv
    <2>2. QED
      BY <2>1 DEF EntryInv
  <1>1. ASSUME NEW t \in Threads, CallStep(t)
        PROVE  EntryInv'
    <2>1. CASE QueueP(t)
      <3>1. /\ active_thread = t /\ pc[t] = "P_dec"
            /\ sema_queue' = [sema_queue EXCEPT ![sem[t]] = Append(@, t)]
            /\ pc' = [pc EXCEPT ![t] = "P_clear"]
            /\ UNCHANGED <<active_thread, status, ready, sem>>
        BY <2>1 DEF QueueP, At, Goto, dispatchVars
      <3>2. \A u \in Threads, s \in Sems :
                  Queued(u, s)' <=> Queued(u, s) \/ (u = t /\ s = sem[t])
        BY <1>i, <3>1, AppendQueue
      <3>3. ASSUME NEW u \in Threads, u # t
            PROVE  EntryFor(u)'
        <4> DEFINE r == sem[u]
        <4>1. r \in Sems /\ r' = r
          BY <1>i, <3>1 DEF TypeOK
        <4> HIDE DEF r
        <4>2. Queued(u, r)' <=> Queued(u, r)
          BY <3>2, <3>3, <4>1
        <4>3. InQueue(u)' <=> Queued(u, r)'
          BY <3>1 DEF InQueue, r
        <4>4. InQueue(u)' <=> InQueue(u)
          BY <4>2, <4>3 DEF InQueue, r
        <4>5. pc'[u] = pc[u] /\ status'[u] = status[u]
          BY <1>i, <3>1, <3>3 DEF TypeOK
        <4>6. QED
          BY <1>a, <3>1, <3>3, <4>4, <4>5
      <3>4. EntryFor(t)'
        <4>1. EntryFor(t) /\ pc'[t] = "P_clear" /\ status'[t] = status[t]
          BY <1>i, <3>1 DEF EntryInv, TypeOK
        <4>2. Entries(t)' = Entries(t)
          BY <3>1 DEF Entries
        <4>3. Entries(t) <= 1 /\ status[t] # "unborn"
          BY <3>1, <4>1 DEF EntryFor, OtherEntries
        <4>4. QED
          BY <4>1, <4>2, <4>3
             DEF EntryFor, SleepEntries, YieldEntries, WaitEntries, OtherEntries
      <3>5. QED
        BY <3>3, <3>4 DEF EntryInv
    <2>2. CASE ClearP(t) \/ SleepP(t)
      <3>1. /\ active_thread = t
            /\ UNCHANGED <<active_thread, ready, sem, sema_queue>>
            /\ \/ /\ pc[t] = "P_clear"
                  /\ pc' = [pc EXCEPT ![t] = "P_sleep"]
                  /\ status' = status
               \/ /\ pc[t] = "P_sleep"
                  /\ pc' = [pc EXCEPT ![t] = "P_yield"]
                  /\ status' = [status EXCEPT ![t] = "SLEEPING"]
        BY <2>2 DEF ClearP, SleepP, At, Goto, dispatchVars
      <3>2. \A u \in Threads : InQueue(u)' <=> InQueue(u)
        BY <3>1 DEF InQueue, Queued
      <3>3. ASSUME NEW u \in Threads, u # t
            PROVE  EntryFor(u)'
        <4>1. pc'[u] = pc[u] /\ status'[u] = status[u]
          BY <1>i, <3>1, <3>3 DEF TypeOK
        <4>2. QED
          BY <1>a, <3>1, <3>2, <3>3, <4>1
      <3>4. EntryFor(t) /\ Entries(t)' = Entries(t) /\ ready'[t] = ready[t]
        BY <1>i, <3>1 DEF EntryInv, Entries
      <3>5. Entries(t) = ready[t] + 1 /\ ready[t] \in Nat
        BY <1>i, <3>1, RunningHasEntry, EntriesTyping
      <3>6. ASSUME pc[t] = "P_clear"
           PROVE  EntryFor(t)'
        <4>1. pc'[t] = "P_sleep" /\ status'[t] = status[t]
          BY <1>i, <3>1, <3>6 DEF TypeOK
        <4>2. Entries(t) <= 1 /\ status[t] # "unborn" /\ InQueue(t)
          BY <1>i, <3>4, <3>6 DEF EntryFor, OtherEntries, QueueInv
        <4>3. Entries(t)' \in Nat /\ Entries(t)' <= 1 /\ status'[t] # "unborn"
          BY <3>4, <3>5, <4>1, <4>2
        <4>4. QED
          BY <4>1, <4>3, EntryIntro
      <3>7. ASSUME pc[t] = "P_sleep"
           PROVE  EntryFor(t)'
        <4>1. pc'[t] = "P_yield" /\ status'[t] = "SLEEPING"
          BY <1>i, <3>1, <3>7 DEF TypeOK
        <4>2. Entries(t) <= (IF InQueue(t) THEN 1 ELSE 2)
          BY <3>4, <3>7 DEF EntryFor, SleepEntries
        <4>3. ready'[t] <= (IF InQueue(t)' THEN 0 ELSE 1)
          BY <3>2, <3>4, <3>5, <4>2
        <4>4. Entries(t)' \in Nat /\ status'[t] # "unborn"
          BY <3>4, <3>5, <4>1
        <4>5. QED
          BY <4>1, <4>3, <4>4, EntryIntro
      <3>8. QED
        BY <3>1, <3>3, <3>6, <3>7 DEF EntryInv
    <2>3. CASE YieldP(t) \/ FinalYield(t)
      <3>1. /\ active_thread = t
            /\ minithread_yield(Runnable)
            /\ UNCHANGED <<status, sem, sema_queue>>
            /\ \/ pc[t] = "P_yield" /\ pc' = [pc EXCEPT ![t] = "P_wait"]
               \/ pc[t] = "final_yield" /\ pc' = [pc EXCEPT ![t] = "dead"]
        BY <2>3 DEF YieldP, FinalYield, At, Goto
      <3>2. ASSUME NEW u \in Threads, u # t
            PROVE  EntryFor(u)'
        <4>1. pc'[u] = pc[u]
          BY <1>i, <3>1, <3>2 DEF TypeOK
        <4>2. QED
          BY <3>1, <4>1, EntryYield
      <3>3. Entries(t)' = ready[t] + (IF Runnable THEN 1 ELSE 0)
        BY <1>i, <3>1, EntriesAfterYield
      <3>4. Entries(t) = ready[t] + 1 /\ ready[t] \in Nat /\ EntryFor(t)
        BY <1>i, <3>1, RunningHasEntry, EntriesTyping DEF EntryInv
      <3>5. (InQueue(t)' <=> InQueue(t)) /\ status'[t] = status[t]
        BY <3>1 DEF InQueue, Queued
      <3>6. ASSUME pc[t] = "P_yield"
           PROVE  EntryFor(t)'
        <4>1. pc'[t] = "P_wait" /\ status[t] # "unborn"
          BY <1>i, <3>1, <3>4, <3>6 DEF TypeOK, EntryFor
        <4>2. YieldEntries(t)
          BY <3>4 DEF EntryFor
        <4>3. Entries(t)' <= (IF InQueue(t)' THEN 0 ELSE 1)
          <5>1. CASE status[t] = "SLEEPING"
            <6>1. ~Runnable /\ ready[t] <= (IF InQueue(t) THEN 0 ELSE 1)
              BY <3>1, <3>6, <4>2, <5>1 DEF Runnable, YieldEntries
            <6>2. QED
              BY <3>3, <3>4, <3>5, <6>1
          <5>2. CASE status[t] # "SLEEPING"
            <6>1. ready[t] + 1 <= 1 /\ ~InQueue(t)
              BY <3>4, <3>6, <4>2, <5>2 DEF YieldEntries
            <6>2. QED
              BY <3>3, <3>4, <3>5, <6>1
          <5>3. QED
            BY <5>1, <5>2
        <4>4. Entries(t)' \in Nat /\ status'[t] # "unborn"
          BY <3>3, <3>4, <3>5, <4>1
        <4>5. QED
          BY <4>1, <4>3, <4>4, EntryIntro
      <3>7. ASSUME pc[t] = "final_yield"
           PROVE  EntryFor(t)'
        <4>1. pc'[t] = "dead" /\ status[t] # "unborn"
          BY <1>i, <3>1, <3>4, <3>7 DEF TypeOK, EntryFor
        <4>2. ready[t] + 1 <= 1
          BY <3>4, <3>7 DEF EntryFor, OtherEntries
        <4>3. Entries(t)' <= 1
          BY <3>3, <3>4, <4>2
        <4>4. Entries(t)' \in Nat /\ status'[t] # "unborn"
          BY <3>3, <3>4, <3>5, <4>1
        <4>5. QED
          BY <4>1, <4>3, <4>4, EntryIntro
      <3>8. QED
        BY <3>1, <3>2, <3>6, <3>7 DEF EntryInv
    <2>4. CASE IncrementV(t)
      <3>1. /\ active_thread = t /\ pc[t] = "V_inc"
            /\ sem[t] \in Sems /\ Increment(sem[t]) /\ sem' = sem
            /\ pc' = [pc EXCEPT ![t] = AfterV(t)]
        BY <2>4, <1>i DEF IncrementV, At, Goto, TypeOK
      <3>2. \A h \in Threads : pc[h] \in {"P_sleep", "P_yield"} => active_thread # h
        BY <3>1
      <3>3. ASSUME NEW u \in Threads, u # t
            PROVE  EntryFor(u)'
        <4>1. pc'[u] = pc[u]
          BY <1>i, <3>1, <3>3 DEF TypeOK
        <4>2. QED
          BY <3>1, <3>2, <4>1, EntrySignal
      <3>4. EntryFor(t)'
        <4>1. EntryFor(t)
          BY <1>i DEF EntryInv
        <4>2. Entries(t) <= 1 /\ status[t] # "unborn"
          BY <3>1, <4>1 DEF EntryFor, OtherEntries
        <4>3. ready'[t] = ready[t] /\ status'[t] = status[t] /\ active_thread' = active_thread
          <5>1. \A h \in Threads : Queued(h, sem[t]) => h # t
            BY <1>i, <3>1 DEF QueueInv, Waits
          <5>2. QED
            <6>1. CASE UNCHANGED <<active_thread, status, ready, sema_queue>>
              BY <6>1
            <6>2. ASSUME NEW h \in Threads, h # t,
                         active_thread' = active_thread,
                         status' = [status EXCEPT ![h] = "OK"],
                         ready' = [ready EXCEPT ![h] = @ + 1]
                  PROVE  /\ ready'[t] = ready[t] /\ status'[t] = status[t]
                         /\ active_thread' = active_thread
              BY <1>i, <6>2 DEF TypeOK
            <6>3. QED
              BY <1>i, <3>1, <5>1, <6>1, <6>2, IncrementEffect
        <4>4. pc'[t] \in {"run", "final_yield"}
          BY <1>i, <3>1 DEF TypeOK, AfterV
        <4>5. Entries(t)' = Entries(t)
          BY <4>3 DEF Entries
        <4>6. QED
          BY <4>2, <4>3, <4>4, <4>5
             DEF EntryFor, SleepEntries, YieldEntries, WaitEntries, OtherEntries
      <3>5. QED
        BY <3>3, <3>4 DEF EntryInv
    <2>5. CASE SpinP(t) \/ TakeP(t) \/ ReturnP(t) \/ SpinV(t)
      BY <2>5, EntryLocal DEF SpinP, TakeP, ReturnP, SpinV, AfterP, At, Goto, dispatchVars
    <2>6. CASE FinalAppend(t)
      <3>1. \A u \in Threads \ {t} : sem'[u] = sem[u]
        BY <1>i, <2>6 DEF FinalAppend, TypeOK
      <3>2. QED
        BY <2>6, <3>1, EntryLocal DEF FinalAppend, At, Goto, dispatchVars
    <2>7. QED
      BY <1>1, <2>1, <2>2, <2>3, <2>4, <2>5, <2>6 DEF CallStep
  <1>2. ASSUME NEW t \in Threads, FinalStatus(t)
        PROVE  EntryInv'
    BY <1>2, EntryLocal DEF FinalStatus, At, Goto
  <1>3. ASSUME NEW t \in Threads, NEW s \in Sems, CallP(t, s) \/ CallV(t, s)
        PROVE  EntryInv'
    <2>1. \A u \in Threads \ {t} : sem'[u] = sem[u]
      BY <1>i, <1>3 DEF CallP, CallV, TypeOK
    <2>2. QED
      BY <1>3, <2>1, EntryLocal DEF CallP, CallV, At, Goto, dispatchVars
  <1>4. ASSUME NEW t \in Threads, Fork(t)
        PROVE  EntryInv'
    <2>1. /\ status[t] = "unborn"
          /\ status' = [status EXCEPT ![t] = "OK"]
          /\ ready' = [ready EXCEPT ![t] = @ + 1]
          /\ UNCHANGED <<active_thread, pc, sem, sema_queue>>
      BY <1>4 DEF Fork, ForkAppend, synchVars
    <2>2. \A u \in Threads : InQueue(u)' <=> InQueue(u)
      BY <2>1 DEF InQueue, Queued
    <2>3. ASSUME NEW u \in Threads, u # t
          PROVE  EntryFor(u)'
      <3>1. status'[u] = status[u] /\ ready'[u] = ready[u]
        BY <1>i, <2>1, <2>3 DEF TypeOK
      <3>2. Entries(u)' <= Entries(u) /\ ready'[u] <= ready[u]
        BY <1>i, <2>1, <3>1, EntriesTyping DEF Entries
      <3>3. QED
        BY <1>i, <2>1, <2>2, <3>1, <3>2, EntryFrame DEF EntryInv
    <2>4. EntryFor(t)'
      <3>1. Entries(t) = 0 /\ pc[t] = "run"
        BY <1>i, <2>1 DEF EntryInv, EntryFor
      <3>2. status'[t] = "OK" /\ pc'[t] = "run" /\ ready'[t] = ready[t] + 1 /\ ready[t] \in Nat
        BY <1>i, <2>1, <3>1 DEF TypeOK
      <3>3. Entries(t)' = 1
        BY <2>1, <3>1, <3>2 DEF Entries
      <3>4. QED
        BY <3>2, <3>3 DEF EntryFor, SleepEntries, YieldEntries, WaitEntries, OtherEntries
    <2>5. QED
      BY <2>3, <2>4 DEF EntryInv
  <1>5. ASSUME NEW s \in HandlerSems, HandlerV(s)
        PROVE  EntryInv'
    <2>1. /\ s \in Sems /\ s \in MaskedP /\ InterruptsEnabled /\ ~lock[s] /\ Increment(s)
          /\ pc' = pc /\ sem' = sem
      BY <1>5 DEF HandlerV, HandlersSignalMasked
    <2>2. ASSUME NEW h \in Threads, pc[h] \in {"P_sleep", "P_yield"}, Queued(h, s)
          PROVE  active_thread # h
      <3>1. sem[h] = s
        BY <1>i, <2>1, <2>2 DEF QueueInv
      <3>2. QED
        BY <2>1, <2>2, <3>1 DEF InterruptsEnabled, PSteps
    <2>3. QED
      BY <2>1, <2>2, EntrySignal DEF EntryInv
  <1>6. CASE Reap
    BY <1>6, EntryLocal, DispatcherAssumption DEF Reap, At, Goto, dispatchVars
  <1>7. CASE Yield
    <2>1. minithread_yield(Runnable) /\ UNCHANGED <<status, sem, sema_queue, pc>>
      BY <1>7 DEF Yield, Switch, synchVars
    <2>2. QED
      BY <2>1, EntryYield DEF EntryInv
  <1>8. CASE EndFork \/ UNCHANGED vars
    BY <1>8, <1>b DEF EndFork, ForkCount, synchVars, vars
  <1>9. QED
    BY <1>1, <1>2, <1>3, <1>4, <1>5, <1>6, <1>7, <1>8 DEF Next

-----------------------------------------------------------------------------
LEMMA RefInvariant == ASSUME HandlersSignalMasked PROVE Spec => []RefInv
  <1>1. Init => RefInv
    <2> SUFFICES ASSUME Init PROVE RefInv
      OBVIOUS
    <2> USE DispatcherAssumption, SynchAssumption
    <2>1. SynchInv
      BY InitInv
    <2>2. \A t \in Threads, s \in Sems : ~Queued(t, s)
      BY DEF Init, Queued
    <2>3. QueueInv
      BY <2>2 DEF Init, QueueInv
    <2>4. MaskInv
      BY DEF Init, MaskInv, PSteps, VSteps
    <2>5. ASSUME NEW t \in Threads
          PROVE  EntryFor(t)
      <3>1. pc[t] = "run" /\ Entries(t) <= 1 /\ (status[t] = "unborn" => Entries(t) = 0)
        BY DEF Init, DispatchInit, Entries
      <3>2. QED
        BY <3>1 DEF EntryFor, SleepEntries, YieldEntries, WaitEntries, OtherEntries
    <2>6. QED
      BY <2>1, <2>3, <2>4, <2>5 DEF RefInv, EntryInv
  <1>2. RefInv /\ [Next]_vars => RefInv'
    <2> SUFFICES ASSUME RefInv, [Next]_vars PROVE RefInv'
      OBVIOUS
    <2>1. SynchInv'
      BY TypeStep, LockStep, QueueStep DEF RefInv, SynchInv
    <2>2. QueueInv' /\ MaskInv'
      BY QueueInvStep, MaskStep DEF RefInv, SynchInv
    <2>3. EntryInv'
      BY <2>1, EntryStep DEF SynchInv
    <2>4. QED
      BY <2>1, <2>2, <2>3 DEF RefInv
  <1>3. QED
    BY <1>1, <1>2, PTL DEF Spec

-----------------------------------------------------------------------------
(* The refinement.                                                          *)

value == [s \in Sems |-> IF cnt[s] > 0 THEN cnt[s] ELSE 0]

(* How it changes with one count.                                           *)
LEMMA ValueStep ==
    ASSUME TypeOK, NEW s \in Sems, NEW n \in Int, cnt' = [cnt EXCEPT ![s] = n]
    PROVE  value' = [value EXCEPT ![s] = IF n > 0 THEN n ELSE 0]
  <1>1. ASSUME NEW r \in Sems
        PROVE  value'[r] = [value EXCEPT ![s] = IF n > 0 THEN n ELSE 0][r]
    <2>1. CASE r = s
      BY <2>1 DEF value, TypeOK
    <2>2. CASE r # s
      BY <2>2 DEF value, TypeOK
    <2>3. QED
      BY <2>1, <2>2
  <1>2. QED
    BY <1>1 DEF value

(* A step that moves nobody in or out of a P it waits in stutters.          *)
LEMMA StutterStep ==
    ASSUME TypeOK, UNCHANGED <<cnt, sema_queue>>, NEW t \in Threads, NEW p, NEW m,
           pc' = [pc EXCEPT ![t] = p], sem' = [sem EXCEPT ![t] = m],
           \/ pc[t] \notin Waits /\ p \notin Waits
           \/ pc[t] \in Waits /\ p \in Waits /\ m = sem[t]
    PROVE  UNCHANGED Abs!vars
  <1>1. \A u \in Threads, s \in Sems : Queued(u, s)' <=> Queued(u, s)
    BY DEF Queued
  <1>2. ASSUME NEW u \in Threads
        PROVE  u \in Granted' <=> u \in Granted
    <2>1. pc'[u] \in Waits <=> pc[u] \in Waits
      BY DEF TypeOK
    <2>2. pc[u] \in Waits => sem'[u] = sem[u]
      BY DEF TypeOK
    <2>3. pc[u] \in Waits => (Queued(u, sem[u])' <=> Queued(u, sem[u]))
      BY <2>2 DEF Queued
    <2>4. QED
      BY <2>1, <2>3 DEF Granted, Waits
  <1>3. Granted' = Granted
    BY <1>2 DEF Granted
  <1>4. QED
    BY <1>3 DEF Abs!vars

(* Likewise one that changes no step at all.                                *)
LEMMA StutterStep2 ==
    ASSUME UNCHANGED <<cnt, sema_queue, pc, sem>>
    PROVE  UNCHANGED Abs!vars
  BY DEF Abs!vars, Granted, Queued

(* A V is an abstract Release or Grant.                                     *)
LEMMA SignalStep ==
    ASSUME RefInv, NEW s \in Sems, Increment(s), sem' = sem,
           ~lock[s] \/ \E t \in Threads : pc[t] = "V_inc" /\ sem[t] = s,
           \A u \in Threads : pc[u] \in Waits \/ pc'[u] \in Waits => pc'[u] = pc[u]
    PROVE  Abs!Release(s) \/ Abs!Grant(s)
  <1>i. TypeOK /\ WaitQueueExact /\ QueueInv
    BY DEF RefInv, SynchInv
  <1>1. cnt' = [cnt EXCEPT ![s] = @ + 1] /\ cnt[s] \in Int
    BY <1>i DEF Increment, TypeOK
  <1>2. CASE cnt[s] >= 0
    <2>1. sema_queue' = sema_queue /\ sema_queue[s] = <<>>
      BY <1>i, <1>1, <1>2 DEF Increment, TypeOK, WaitQueueExact
    <2>2. value' = [value EXCEPT ![s] = @ + 1]
      <3> DEFINE n == cnt[s] + 1
      <3>1. n \in Int /\ n > 0 /\ cnt' = [cnt EXCEPT ![s] = n]
        BY <1>1, <1>2
      <3>2. value[s] + 1 = n
        BY <1>1, <1>2 DEF value
      <3> HIDE DEF n
      <3>3. value' = [value EXCEPT ![s] = n]
        BY <1>i, <3>1, ValueStep
      <3>4. QED
        BY <3>2, <3>3
    <2>3. Granted' = Granted
      <3>1. ASSUME NEW u \in Threads
            PROVE  u \in Granted' <=> u \in Granted
        <4>1. Queued(u, sem[u])' <=> Queued(u, sem[u])
          BY <2>1 DEF Queued
        <4>2. QED
          BY <4>1 DEF Granted, Waits
      <3>2. QED
        BY <3>1 DEF Granted
    <2>4. QED
      BY <2>1, <2>2, <2>3 DEF Abs!Release, value
  <1>3. CASE cnt[s] < 0
    <2>1. sema_queue[s] # <<>>
      BY <1>i, <1>3 DEF TypeOK, WaitQueueExact
    <2>2. sema_queue' = [sema_queue EXCEPT ![s] = Tail(@)]
      BY <1>3 DEF Increment
    <2> DEFINE h == Head(sema_queue[s])
    <2>3. /\ h \in Threads
          /\ Queued(h, s)
          /\ \A u \in Threads, r \in Sems : Queued(u, r)' <=> Queued(u, r) /\ u # h
      BY <1>i, <2>1, <2>2, TailQueue
    <2> HIDE DEF h
    <2>4. value' = value
      BY <1>i, <1>1, <1>3 DEF value, TypeOK
    <2>5. pc[h] \in Waits /\ sem[h] = s
      BY <1>i, <2>3 DEF QueueInv
    <2>6. ASSUME NEW u \in Threads
          PROVE  u \in Granted' <=> u \in Granted \/ u = h
      <3> DEFINE r == sem[u]
      <3>1. r \in Sems /\ r' = r
        BY <1>i DEF TypeOK
      <3> HIDE DEF r
      <3>2. Queued(u, r)' <=> Queued(u, r) /\ u # h
        BY <2>3, <3>1
      <3>3. (pc'[u] \in Waits <=> pc[u] \in Waits) /\ (u = h => pc[u] \in Waits)
        BY <2>5
      <3>4. u \in Granted' <=> pc'[u] \in Waits /\ ~Queued(u, r)'
        BY DEF Granted, Waits, r
      <3>5. u \in Granted <=> pc[u] \in Waits /\ ~Queued(u, r)
        BY DEF Granted, Waits, r
      <3>6. QED
        BY <3>2, <3>3, <3>4, <3>5
    <2>7. Granted' = Granted \cup {h}
      BY <2>3, <2>6 DEF Granted
    <2>8. QED
      BY <2>1, <2>2, <2>4, <2>7 DEF Abs!Grant, value, h
  <1>4. QED
    BY <1>1, <1>2, <1>3

(* Every step of Synch is an abstract step or a stutter.                    *)
LEMMA RefinementStep ==
    ASSUME RefInv, [Next]_vars
    PROVE  [Abs!Next]_(Abs!vars)
  <1> USE SynchAssumption
  <1>i. TypeOK /\ QueueInv /\ WaitQueueExact
    BY DEF RefInv, SynchInv
  <1>s. \A t \in Threads : sem = [sem EXCEPT ![t] = sem[t]]
    BY <1>i DEF TypeOK
  <1>1. ASSUME NEW t \in Threads, CallStep(t)
        PROVE  [Abs!Next]_(Abs!vars)
    <2>1. CASE TakeP(t)
      <3> PICK s \in Sems : s = sem[t]
        BY <1>i DEF TypeOK
      <3>1. /\ cnt[s] > 0 /\ cnt[s] \in Int
            /\ cnt' = [cnt EXCEPT ![s] = cnt[s] - 1]
            /\ UNCHANGED <<sema_queue, sem>>
            /\ pc[t] = "P_dec" /\ pc' = [pc EXCEPT ![t] = AfterP(t)]
        BY <1>i, <2>1 DEF TakeP, At, Goto, TypeOK
      <3> DEFINE n == cnt[s] - 1
      <3>2. n \in Int /\ value[s] > 0 /\ (IF n > 0 THEN n ELSE 0) = value[s] - 1
        BY <3>1 DEF value
      <3>3. value' = [value EXCEPT ![s] = @ - 1]
        <4>1. n \in Int /\ cnt' = [cnt EXCEPT ![s] = n]
          BY <3>1
        <4> HIDE DEF n
        <4>2. value' = [value EXCEPT ![s] = IF n > 0 THEN n ELSE 0]
          BY <1>i, <4>1, ValueStep
        <4>3. QED
          BY <3>2, <4>2
      <3>4. ASSUME NEW u \in Threads
            PROVE  u \in Granted' <=> u \in Granted
        <4>1. Queued(u, sem[u])' <=> Queued(u, sem[u])
          BY <3>1 DEF Queued
        <4>2. pc'[u] \in Waits <=> pc[u] \in Waits
          BY <1>i, <3>1 DEF TypeOK, AfterP, Waits
        <4>3. QED
          BY <4>1, <4>2 DEF Granted, Waits
      <3>5. Granted' = Granted
        BY <3>4 DEF Granted
      <3>6. Abs!Acquire(s)
        BY <3>1, <3>2, <3>3, <3>5 DEF Abs!Acquire, value
      <3>7. QED
        BY <3>6 DEF Abs!Next
    <2>2. CASE QueueP(t)
      <3>1. /\ sem[t] \in Sems /\ cnt[sem[t]] <= 0 /\ cnt[sem[t]] \in Int
            /\ cnt' = [cnt EXCEPT ![sem[t]] = @ - 1]
            /\ sema_queue' = [sema_queue EXCEPT ![sem[t]] = Append(@, t)]
            /\ pc[t] = "P_dec" /\ pc' = [pc EXCEPT ![t] = "P_clear"]
            /\ sem' = sem
        BY <1>i, <2>2 DEF QueueP, At, Goto, TypeOK
      <3>2. value[sem[t]] = 0 /\ value' = value
        BY <1>i, <3>1 DEF value, TypeOK
      <3>3. \A u \in Threads, s \in Sems :
                Queued(u, s)' <=> Queued(u, s) \/ (u = t /\ s = sem[t])
        BY <1>i, <3>1, AppendQueue
      <3>4. t \notin Granted /\ \A s \in Sems : ~Queued(t, s)
        BY <1>i, <3>1 DEF Granted, QueueInv, Waits
      <3>5. ASSUME NEW u \in Threads
            PROVE  u \in Granted' <=> u \in Granted
        <4> DEFINE r == sem[u]
        <4>1. r \in Sems /\ r' = r
          BY <1>i, <3>1 DEF TypeOK
        <4> HIDE DEF r
        <4>2. Queued(u, r)' <=> Queued(u, r) \/ (u = t /\ r = sem[t])
          BY <3>3, <4>1
        <4>3. u # t => pc'[u] = pc[u]
          BY <1>i, <3>1 DEF TypeOK
        <4>4. u \in Granted' <=> pc'[u] \in Waits /\ ~Queued(u, r)'
          BY DEF Granted, Waits, r
        <4>5. u \in Granted <=> pc[u] \in Waits /\ ~Queued(u, r)
          BY DEF Granted, Waits, r
        <4>6. u = t => r = sem[t]
          BY DEF r
        <4>7. QED
          BY <3>4, <4>2, <4>3, <4>4, <4>5, <4>6
      <3>6. Granted' = Granted
        BY <3>5 DEF Granted
      <3>7. Abs!Wait(t, sem[t])
        BY <3>1, <3>2, <3>4, <3>6 DEF Abs!Wait, value, Queued
      <3>8. QED
        BY <3>1, <3>7 DEF Abs!Next
    <2>3. CASE ReturnP(t)
      <3>1. /\ active_thread = t /\ pc[t] = "P_wait"
            /\ pc' = [pc EXCEPT ![t] = AfterP(t)]
            /\ UNCHANGED <<cnt, sema_queue, sem>>
        BY <2>3 DEF ReturnP, At, Goto
      <3>2. t \in Granted
        BY <3>1, ReturningIsDequeued DEF Granted, InQueue
      <3>3. ASSUME NEW u \in Threads
            PROVE  u \in Granted' <=> u \in Granted /\ u # t
        <4>1. Queued(u, sem[u])' <=> Queued(u, sem[u])
          BY <3>1 DEF Queued
        <4>2. pc'[u] \in Waits <=> pc[u] \in Waits /\ u # t
          BY <1>i, <3>1 DEF TypeOK, AfterP, Waits
        <4>3. QED
          BY <4>1, <4>2 DEF Granted, Waits
      <3>4. Granted' = Granted \ {t}
        BY <3>3 DEF Granted
      <3>5. Abs!Return(t)
        BY <3>1, <3>2, <3>4 DEF Abs!Return
      <3>6. QED
        BY <3>5 DEF Abs!Next
    <2>4. CASE IncrementV(t)
      <3> PICK s \in Sems : s = sem[t]
        BY <1>i DEF TypeOK
      <3>1. /\ Increment(s) /\ sem' = sem
            /\ pc[t] = "V_inc" /\ pc' = [pc EXCEPT ![t] = AfterV(t)]
        BY <2>4 DEF IncrementV, At, Goto
      <3>2. \A u \in Threads : pc[u] \in Waits \/ pc'[u] \in Waits => pc'[u] = pc[u]
        BY <1>i, <3>1 DEF AfterV, TypeOK, Waits
      <3>3. Abs!Release(s) \/ Abs!Grant(s)
        BY <3>1, <3>2, SignalStep
      <3>4. QED
        BY <3>3 DEF Abs!Next
    <2>5. CASE ClearP(t) \/ SleepP(t) \/ YieldP(t)
      BY <1>i, <1>s, <2>5, StutterStep DEF ClearP, SleepP, YieldP, At, Goto, Waits
    <2>6. CASE SpinP(t) \/ SpinV(t) \/ FinalYield(t)
      BY <1>i, <1>s, <2>6, StutterStep DEF SpinP, SpinV, FinalYield, At, Goto, Waits
    <2>7. CASE FinalAppend(t)
      BY <1>i, <2>7, StutterStep DEF FinalAppend, At, Goto, Waits
    <2>8. QED
      BY <1>1, <2>1, <2>2, <2>3, <2>4, <2>5, <2>6, <2>7 DEF CallStep
  <1>2. ASSUME NEW t \in Threads, FinalStatus(t)
        PROVE  [Abs!Next]_(Abs!vars)
    BY <1>i, <1>s, <1>2, StutterStep DEF FinalStatus, At, Goto, Waits
  <1>3. ASSUME NEW t \in Threads, NEW s \in Sems, CallP(t, s) \/ CallV(t, s)
        PROVE  [Abs!Next]_(Abs!vars)
    BY <1>i, <1>3, StutterStep DEF CallP, CallV, At, Goto, Waits
  <1>4. ASSUME NEW s \in HandlerSems, HandlerV(s)
        PROVE  [Abs!Next]_(Abs!vars)
    <2>1. s \in Sems /\ (Abs!Release(s) \/ Abs!Grant(s))
      BY <1>4, SignalStep DEF HandlerV
    <2>2. QED
      BY <2>1 DEF Abs!Next
  <1>5. CASE Reap
    BY <1>i, <1>s, <1>5, StutterStep, DispatcherAssumption DEF Reap, At, Goto, Waits
  <1>6. CASE (\E t \in Threads : Fork(t)) \/ EndFork \/ Yield \/ UNCHANGED vars
    BY <1>6, StutterStep2 DEF Fork, EndFork, Yield, synchVars, vars
  <1>7. QED
    BY <1>1, <1>2, <1>3, <1>4, <1>5, <1>6 DEF Next

(* The semaphores of synch.c are counting semaphores with FIFO wake-up for  *)
(* any number of threads, wherever a thread is preempted inside P and V, if *)
(* handlers call V only where callers of P disable interrupts: no unit is   *)
(* lost or made up, and a P that has waited returns only after a V has      *)
(* dequeued it.                                                             *)
THEOREM SynchImplementsSemaphores ==
    ASSUME HandlersSignalMasked
    PROVE  Spec => ImplementsSemaphores
  <1>1. Init => Abs!Init
    <2> SUFFICES ASSUME Init PROVE Abs!Init
      OBVIOUS
    <2>1. value = InitialCnt
      BY SynchAssumption DEF Init, value
    <2>2. Granted = {}
      BY DEF Init, Granted
    <2>3. QED
      BY <2>1, <2>2 DEF Init, Abs!Init, value
  <1>2. RefInv /\ [Next]_vars => [Abs!Next]_(Abs!vars)
    BY RefinementStep
  <1>3. QED
    BY <1>1, <1>2, RefInvariant, PTL DEF Spec, ImplementsSemaphores, Abs!Spec

-----------------------------------------------------------------------------
(***************************************************************************)
(* Proofs about what callers with interrupts enabled can spoil: no handler *)
(* spins on a lock if the callers of P and V on it disable interrupts, and *)
(* no thread is lost but in the window that a P with interrupts enabled    *)
(* opens.                                                                  *)
(***************************************************************************)

(* A handler never finds the lock of its semaphore taken, if P and V are    *)
(* called on that semaphore with interrupts disabled: whoever holds the     *)
(* lock runs, and cannot be interrupted.                                    *)
THEOREM HandlersFindLocksFree ==
    ASSUME HandlerSems \subseteq MaskedP \cap MaskedV
    PROVE  Spec => []HandlersNeverSpin
  <1>1. SynchInv /\ MaskInv => HandlersNeverSpin
    <2> SUFFICES ASSUME SynchInv, MaskInv, InterruptsEnabled, NEW s \in HandlerSems, lock[s]
                 PROVE  FALSE
      BY DEF HandlersNeverSpin
    <2>1. PICK t \in Threads : pc[t] \in Critical /\ sem[t] = s
      BY SynchAssumption DEF SynchInv, LockExclusive
    <2>2. (pc[t] \in PSteps \ {"P_wait"} \/ pc[t] \in VSteps) /\ s \in MaskedP \cap MaskedV
      BY <2>1 DEF Critical, PSteps, VSteps
    <2>3. active_thread = t
      BY <2>1, <2>2 DEF MaskInv
    <2>4. QED
      BY <2>1, <2>2, <2>3 DEF InterruptsEnabled
  <1>2. QED
    BY <1>1, SynchInvariant, MaskInvariant, PTL

-----------------------------------------------------------------------------
(* No thread is lost but by a V that catches it on its way to sleep.        *)

(* A thread that no V has caught so is queued while it sleeps or is about   *)
(* to, and one that is not asleep has an entry.  A finished thread owes     *)
(* nothing.                                                                 *)
KeptFor(t) ==
    /\ status[t] = "OK" => Entries(t) >= 1
    /\ status[t] = "SLEEPING" => InQueue(t)
    /\ pc[t] \in {"P_sleep", "P_yield"} => InQueue(t)

KeptInv == \A t \in Threads \ caught : KeptFor(t)

(* The step takes t off its semaphore's queue while t falls asleep.         *)
Catches(t) == FallingAsleep(t) /\ Queued(t, sem[t]) /\ ~Queued(t, sem[t])'

LEMMA KeptFrame ==
    ASSUME NEW u \in Threads, KeptFor(u),
           pc'[u] = pc[u], status'[u] = status[u],
           InQueue(u)' <=> InQueue(u), Entries(u) >= 1 => Entries(u)' >= 1
    PROVE  KeptFor(u)'
  BY DEF KeptFor

(* The running thread passes from a step to another, neither of them in the *)
(* middle of going to sleep; if its status changes, it is the end of it.    *)
LEMMA KeptLocal ==
    ASSUME RefInv, NEW u \in Threads, KeptFor(u),
           NEW t \in Threads, active_thread = t, NEW p,
           pc[t] \notin {"P_clear", "P_sleep", "P_yield"},
           p \notin {"P_sleep", "P_yield"},
           pc' = [pc EXCEPT ![t] = p],
           UNCHANGED <<active_thread, ready, sema_queue>>,
           status' \in {status, [status EXCEPT ![t] = "DESTROYED"]},
           \A v \in Threads \ {t} : sem'[v] = sem[v]
    PROVE  KeptFor(u)'
  <1>1. TypeOK /\ QueueInv
    BY DEF RefInv, SynchInv
  <1>2. Entries(u)' = Entries(u)
    BY DEF Entries
  <1>3. CASE u # t
    <2>1. pc'[u] = pc[u] /\ status'[u] = status[u] /\ sem'[u] = sem[u]
      BY <1>1, <1>3 DEF TypeOK
    <2>2. InQueue(u)' <=> InQueue(u)
      BY <2>1 DEF InQueue, Queued
    <2>3. QED
      BY <1>2, <2>1, <2>2, KeptFrame
  <1>4. CASE u = t
    <2>1. ~InQueue(t)
      <3>1. CASE pc[t] = "P_wait"
        BY <3>1, ReturningIsDequeued
      <3>2. CASE pc[t] # "P_wait"
        BY <1>1, <3>2 DEF QueueInv, InQueue, Waits, TypeOK
      <3>3. QED
        BY <3>1, <3>2
    <2>2. status[t] # "SLEEPING"
      BY <1>4, <2>1 DEF KeptFor
    <2>3. pc'[t] = p /\ status'[t] \in {status[t], "DESTROYED"}
      BY <1>1 DEF TypeOK
    <2>4. Entries(t)' >= 1
      BY <1>2, <1>4, RunningHasEntry
    <2>5. QED
      BY <1>4, <2>2, <2>3, <2>4 DEF KeptFor
  <1>5. QED
    BY <1>3, <1>4

LEMMA KeptYield ==
    ASSUME RefInv, minithread_yield(Runnable), NEW u \in Threads, KeptFor(u),
           pc'[u] \in {pc[u], "P_wait", "dead"},
           UNCHANGED <<status, sem, sema_queue>>
    PROVE  KeptFor(u)'
  <1>1. TypeOK
    BY DEF RefInv, SynchInv
  <1>2. Entries(u)' = ready[u] + (IF active_thread = u /\ Runnable THEN 1 ELSE 0)
    BY <1>1, EntriesAfterYield
  <1>3. status[u] = "OK" => Entries(u)' = Entries(u)
    BY <1>2 DEF Entries, Runnable
  <1>4. InQueue(u)' <=> InQueue(u)
    BY DEF InQueue, Queued
  <1>5. QED
    BY <1>3, <1>4 DEF KeptFor

(* A V takes a thread off the queue and makes it ready; one that was on its *)
(* way to sleep is caught, unless nothing could run in between.             *)
LEMMA KeptSignal ==
    ASSUME RefInv, NEW s \in Sems, Increment(s), sem' = sem,
           ~lock[s] \/ \E t \in Threads : pc[t] = "V_inc" /\ sem[t] = s,
           NEW u \in Threads, KeptFor(u), ~Catches(u),
           pc[u] \in {"P_sleep", "P_yield"} /\ s \in MaskedP => ~Queued(u, s),
           pc'[u] \in {pc[u], "run", "final_yield"},
           pc[u] \in Waits => pc'[u] = pc[u]
    PROVE  KeptFor(u)'
  <1>1. TypeOK /\ QueueInv /\ WaitQueueExact
    BY DEF RefInv, SynchInv
  <1>2. CASE UNCHANGED <<active_thread, status, ready, sema_queue>>
    <2>1. InQueue(u)' <=> InQueue(u)
      BY <1>2 DEF InQueue, Queued
    <2>2. Entries(u)' = Entries(u)
      BY <1>2 DEF Entries
    <2>3. QED
      BY <1>2, <2>1, <2>2 DEF KeptFor
  <1>3. ASSUME NEW h \in Threads, Queued(h, s),
               active_thread' = active_thread,
               status' = [status EXCEPT ![h] = "OK"],
               ready' = [ready EXCEPT ![h] = @ + 1],
               \A v \in Threads, r \in Sems : Queued(v, r)' <=> Queued(v, r) /\ v # h
        PROVE  KeptFor(u)'
    <2> DEFINE r == sem[u]
    <2>1. r \in Sems /\ r' = r
      BY <1>1 DEF TypeOK
    <2> HIDE DEF r
    <2>2. Queued(u, r)' <=> Queued(u, r) /\ u # h
      BY <1>3, <2>1
    <2>3. (InQueue(u)' <=> Queued(u, r)') /\ (InQueue(u) <=> Queued(u, r))
      BY DEF InQueue, r
    <2>4. CASE u # h
      <3>1. InQueue(u)' <=> InQueue(u)
        BY <2>2, <2>3, <2>4
      <3>2. status'[u] = status[u] /\ ready'[u] = ready[u]
        BY <1>1, <1>3, <2>4 DEF TypeOK
      <3>3. Entries(u)' = Entries(u)
        BY <1>3, <3>2 DEF Entries
      <3>4. QED
        BY <3>1, <3>2, <3>3 DEF KeptFor
    <2>5. CASE u = h
      <3>1. pc[u] \in {"P_sleep", "P_yield", "P_wait"} /\ sem[u] = s
        BY <1>3, <2>5, SignalledNotInLock
      <3>2. ~(pc[u] \in {"P_sleep", "P_yield"})
        <4>1. SUFFICES ASSUME pc[u] \in {"P_sleep", "P_yield"} PROVE FALSE
          OBVIOUS
        <4>2. s \notin MaskedP
          BY <1>3, <2>5, <4>1
        <4>3. Queued(u, sem[u]) /\ ~Queued(u, sem[u])'
          BY <1>3, <2>2, <2>3, <2>5, <3>1 DEF InQueue
        <4>4. QED
          BY <3>1, <4>1, <4>2, <4>3 DEF Catches, FallingAsleep
      <3>3. pc'[u] = "P_wait" /\ status'[u] = "OK" /\ ready'[u] = ready[u] + 1
        BY <1>1, <1>3, <2>5, <3>1, <3>2 DEF TypeOK, Waits
      <3>4. Entries(u)' >= 1
        BY <1>1, <1>3, <3>3, EntriesTyping DEF Entries
      <3>5. QED
        BY <3>3, <3>4 DEF KeptFor
    <2>6. QED
      BY <2>4, <2>5
  <1>4. QED
    BY <1>1, <1>2, <1>3, IncrementEffect

LEMMA KeptStep ==
    ASSUME HandlersSignalMasked, RefInv, Next,
           NEW u \in Threads, KeptFor(u), ~Catches(u)
    PROVE  KeptFor(u)'
  <1> USE SynchAssumption
  <1>i. TypeOK /\ QueueInv /\ MaskInv
    BY DEF RefInv, SynchInv
  <1>k. KeptFor(u) /\ ~Catches(u)
    OBVIOUS
  <1>1. ASSUME NEW t \in Threads, CallStep(t)
        PROVE  KeptFor(u)'
    <2>1. CASE QueueP(t)
      <3>1. /\ active_thread = t /\ pc[t] = "P_dec"
            /\ sema_queue' = [sema_queue EXCEPT ![sem[t]] = Append(@, t)]
            /\ pc' = [pc EXCEPT ![t] = "P_clear"]
            /\ UNCHANGED <<active_thread, status, ready, sem>>
        BY <2>1 DEF QueueP, At, Goto, dispatchVars
      <3>2. \A v \in Threads, s \in Sems :
                  Queued(v, s)' <=> Queued(v, s) \/ (v = t /\ s = sem[t])
        BY <1>i, <3>1, AppendQueue
      <3> DEFINE r == sem[u]
      <3>3. r \in Sems /\ r' = r
        BY <1>i, <3>1 DEF TypeOK
      <3> HIDE DEF r
      <3>4. Queued(u, r) => Queued(u, r)'
        BY <3>2, <3>3
      <3>5. (InQueue(u)' <=> Queued(u, r)') /\ (InQueue(u) <=> Queued(u, r))
        BY DEF InQueue, r
      <3>6. pc'[u] = pc[u] \/ pc'[u] = "P_clear"
        BY <1>i, <3>1 DEF TypeOK
      <3>7. Entries(u)' = Entries(u)
        BY <3>1 DEF Entries
      <3>8. QED
        BY <1>k, <3>1, <3>4, <3>5, <3>6, <3>7 DEF KeptFor
    <2>2. CASE ClearP(t) \/ SleepP(t)
      <3>1. /\ active_thread = t
            /\ UNCHANGED <<active_thread, ready, sem, sema_queue>>
            /\ \/ /\ pc[t] = "P_clear"
                  /\ pc' = [pc EXCEPT ![t] = "P_sleep"]
                  /\ status' = status
               \/ /\ pc[t] = "P_sleep"
                  /\ pc' = [pc EXCEPT ![t] = "P_yield"]
                  /\ status' = [status EXCEPT ![t] = "SLEEPING"]
        BY <2>2 DEF ClearP, SleepP, At, Goto, dispatchVars
      <3>2. (InQueue(u)' <=> InQueue(u)) /\ Entries(u)' = Entries(u)
        BY <3>1 DEF InQueue, Queued, Entries
      <3>3. CASE u # t
        <4>1. pc'[u] = pc[u] /\ status'[u] = status[u]
          BY <1>i, <3>1, <3>3 DEF TypeOK
        <4>2. QED
          BY <1>k, <3>2, <4>1, KeptFrame
      <3>4. CASE u = t
        <4>1. InQueue(t)
          BY <1>i, <1>k, <3>1, <3>4 DEF QueueInv, KeptFor
        <4>2. pc'[t] \in {"P_sleep", "P_yield"} /\ status'[t] \in {status[t], "SLEEPING"}
          BY <1>i, <3>1 DEF TypeOK
        <4>3. QED
          BY <1>k, <3>2, <3>4, <4>1, <4>2 DEF KeptFor
      <3>5. QED
        BY <3>3, <3>4
    <2>3. CASE YieldP(t) \/ FinalYield(t)
      <3>1. /\ minithread_yield(Runnable)
            /\ UNCHANGED <<status, sem, sema_queue>>
            /\ pc' \in {[pc EXCEPT ![t] = "P_wait"], [pc EXCEPT ![t] = "dead"]}
        BY <2>3 DEF YieldP, FinalYield, Goto
      <3>2. pc'[u] \in {pc[u], "P_wait", "dead"}
        BY <1>i, <3>1 DEF TypeOK
      <3>3. QED
        BY <1>k, <3>1, <3>2, KeptYield
    <2>4. CASE IncrementV(t)
      <3> PICK s \in Sems : s = sem[t]
        BY <1>i DEF TypeOK
      <3>1. /\ active_thread = t /\ pc[t] = "V_inc"
            /\ Increment(s) /\ sem' = sem
            /\ pc' = [pc EXCEPT ![t] = AfterV(t)]
        BY <2>4 DEF IncrementV, At, Goto
      <3>2. ASSUME pc[u] \in {"P_sleep", "P_yield"}, s \in MaskedP, Queued(u, s)
            PROVE  FALSE
        <4>1. sem[u] = s
          BY <1>i, <3>2 DEF QueueInv
        <4>2. active_thread = u
          BY <1>i, <3>2, <4>1 DEF MaskInv, PSteps
        <4>3. QED
          BY <3>1, <3>2, <4>2
      <3>3. /\ pc'[u] \in {pc[u], "run", "final_yield"}
            /\ pc[u] \in Waits => pc'[u] = pc[u]
        BY <1>i, <3>1 DEF TypeOK, AfterV, Waits
      <3>4. QED
        BY <1>k, <3>1, <3>2, <3>3, KeptSignal
    <2>5. CASE SpinP(t) \/ TakeP(t) \/ ReturnP(t)
      BY <1>k, <2>5, KeptLocal DEF SpinP, TakeP, ReturnP, AfterP, At, Goto, dispatchVars
    <2>6. CASE SpinV(t) \/ FinalAppend(t)
      <3>1. \A v \in Threads \ {t} : sem'[v] = sem[v]
        BY <1>i, <2>6 DEF SpinV, FinalAppend, TypeOK
      <3>2. QED
        BY <1>k, <2>6, <3>1, KeptLocal DEF SpinV, FinalAppend, At, Goto, dispatchVars
    <2>7. QED
      BY <1>1, <2>1, <2>2, <2>3, <2>4, <2>5, <2>6 DEF CallStep
  <1>2. ASSUME NEW t \in Threads, FinalStatus(t)
        PROVE  KeptFor(u)'
    BY <1>k, <1>2, KeptLocal DEF FinalStatus, At, Goto
  <1>3. ASSUME NEW t \in Threads, NEW s \in Sems, CallP(t, s) \/ CallV(t, s)
        PROVE  KeptFor(u)'
    <2>1. \A v \in Threads \ {t} : sem'[v] = sem[v]
      BY <1>i, <1>3 DEF CallP, CallV, TypeOK
    <2>2. QED
      BY <1>3, <1>k, <2>1, KeptLocal DEF CallP, CallV, At, Goto, dispatchVars
  <1>4. ASSUME NEW t \in Threads, Fork(t)
        PROVE  KeptFor(u)'
    <2>1. /\ status[t] = "unborn"
          /\ status' = [status EXCEPT ![t] = "OK"]
          /\ ready' = [ready EXCEPT ![t] = @ + 1]
          /\ UNCHANGED <<active_thread, pc, sem, sema_queue>>
      BY <1>4 DEF Fork, ForkAppend, synchVars
    <2>2. InQueue(u)' <=> InQueue(u)
      BY <2>1 DEF InQueue, Queued
    <2>3. CASE u # t
      <3>1. status'[u] = status[u] /\ ready'[u] = ready[u]
        BY <1>i, <2>1, <2>3 DEF TypeOK
      <3>2. Entries(u)' = Entries(u)
        BY <2>1, <3>1 DEF Entries
      <3>3. QED
        BY <1>k, <2>1, <2>2, <3>1, <3>2, KeptFrame
    <2>4. CASE u = t
      <3>1. status'[u] = "OK" /\ ready'[u] = ready[u] + 1 /\ ready[u] \in Nat
        BY <1>i, <2>1, <2>4 DEF TypeOK
      <3>2. Entries(u)' >= 1
        BY <2>1, <3>1 DEF Entries
      <3>3. QED
        BY <1>k, <2>1, <2>2, <3>1, <3>2 DEF KeptFor
    <2>5. QED
      BY <2>3, <2>4
  <1>5. ASSUME NEW s \in HandlerSems, HandlerV(s)
        PROVE  KeptFor(u)'
    <2>1. /\ s \in Sems /\ s \in MaskedP /\ InterruptsEnabled /\ ~lock[s] /\ Increment(s)
          /\ pc' = pc /\ sem' = sem
      BY <1>5 DEF HandlerV, HandlersSignalMasked
    <2>2. ASSUME pc[u] \in {"P_sleep", "P_yield"}, Queued(u, s)
          PROVE  FALSE
      <3>1. sem[u] = s
        BY <1>i, <2>1, <2>2 DEF QueueInv
      <3>2. active_thread = u
        BY <1>i, <2>1, <2>2, <3>1 DEF MaskInv, PSteps
      <3>3. QED
        BY <2>1, <2>2, <3>1, <3>2 DEF InterruptsEnabled, PSteps
    <2>3. QED
      BY <1>k, <2>1, <2>2, KeptSignal
  <1>6. CASE Reap
    BY <1>6, <1>k, KeptLocal, DispatcherAssumption DEF Reap, At, Goto, dispatchVars
  <1>7. CASE Yield
    <2>1. minithread_yield(Runnable) /\ UNCHANGED <<status, sem, sema_queue, pc>>
      BY <1>7 DEF Yield, Switch, synchVars
    <2>2. QED
      BY <1>k, <2>1, KeptYield
  <1>8. CASE EndFork
    <2>1. UNCHANGED <<active_thread, status, ready, pc, sem, sema_queue>>
      BY <1>8 DEF EndFork, ForkCount, synchVars
    <2>2. (InQueue(u)' <=> InQueue(u)) /\ Entries(u)' = Entries(u)
      BY <2>1 DEF InQueue, Queued, Entries
    <2>3. QED
      BY <1>k, <2>1, <2>2, KeptFrame
  <1>9. QED
    BY <1>1, <1>2, <1>3, <1>4, <1>5, <1>6, <1>7, <1>8 DEF Next

(* Caught or not, a thread that is awake has an entry: what takes one away  *)
(* puts it back, or finds another status.                                   *)
AwakeInv == \A t \in Threads : status[t] = "OK" => Entries(t) >= 1

LEMMA AwakeStep ==
    ASSUME RefInv, AwakeInv, Next
    PROVE  AwakeInv'
  <1> USE SynchAssumption
  <1> SUFFICES ASSUME NEW u \in Threads, status'[u] = "OK"
               PROVE  Entries(u)' >= 1
    BY DEF AwakeInv
  <1>i. TypeOK /\ QueueInv /\ WaitQueueExact
    BY DEF RefInv, SynchInv
  <1>k. status[u] = "OK" => Entries(u) >= 1
    BY DEF AwakeInv
  <1>1. ASSUME UNCHANGED <<active_thread, ready>>, status[u] = "OK"
        PROVE  Entries(u)' >= 1
    BY <1>k, <1>1 DEF Entries
  <1>2. ASSUME minithread_yield(Runnable), status' = status
        PROVE  Entries(u)' >= 1
    <2>1. Entries(u)' = Entries(u)
      BY <1>i, <1>2, EntriesAfterYield DEF Entries, Runnable
    <2>2. QED
      BY <1>2, <1>k, <2>1
  (* A thread is started.                                                   *)
  <1>g. ASSUME NEW h \in Threads, active_thread' = active_thread,
               status' = [status EXCEPT ![h] = "OK"], ready' = [ready EXCEPT ![h] = @ + 1]
        PROVE  Entries(u)' >= 1
    <2>1. CASE u = h
      <3>1. ready'[u] = ready[u] + 1 /\ ready[u] \in Nat
        BY <1>i, <1>g, <2>1 DEF TypeOK
      <3>2. QED
        BY <1>g, <3>1 DEF Entries
    <2>2. CASE u # h
      <3>1. status'[u] = status[u] /\ ready'[u] = ready[u]
        BY <1>i, <1>g, <2>2 DEF TypeOK
      <3>2. QED
        BY <1>g, <1>k, <3>1 DEF Entries
    <2>3. QED
      BY <2>1, <2>2
  <1>3. ASSUME NEW s \in Sems, Increment(s)
        PROVE  Entries(u)' >= 1
    <2>1. CASE UNCHANGED <<active_thread, status, ready>>
      BY <1>1, <2>1
    <2>2. QED
      BY <1>i, <1>g, <1>3, <2>1, IncrementEffect
  <1>4. ASSUME NEW t \in Threads, NEW p \in {"SLEEPING", "DESTROYED"},
               UNCHANGED <<active_thread, ready>>, status' = [status EXCEPT ![t] = p]
        PROVE  Entries(u)' >= 1
    BY <1>1, <1>4, <1>i DEF TypeOK
  <1>5. ASSUME NEW t \in Threads, CallStep(t)
        PROVE  Entries(u)' >= 1
    <2>1. CASE SpinP(t) \/ TakeP(t) \/ QueueP(t) \/ ClearP(t) \/ ReturnP(t)
                 \/ SpinV(t) \/ FinalAppend(t)
      BY <1>1, <2>1 DEF SpinP, TakeP, QueueP, ClearP, ReturnP, SpinV, FinalAppend, dispatchVars
    <2>2. CASE SleepP(t)
      BY <1>4, <2>2 DEF SleepP
    <2>3. CASE YieldP(t) \/ FinalYield(t)
      BY <1>2, <2>3 DEF YieldP, FinalYield
    <2>4. CASE IncrementV(t)
      BY <1>3, <1>i, <2>4 DEF IncrementV, TypeOK
    <2>5. QED
      BY <1>5, <2>1, <2>2, <2>3, <2>4 DEF CallStep
  <1>6. ASSUME NEW t \in Threads, FinalStatus(t)
        PROVE  Entries(u)' >= 1
    BY <1>4, <1>6 DEF FinalStatus
  <1>7. ASSUME NEW t \in Threads, Fork(t)
        PROVE  Entries(u)' >= 1
    BY <1>7, <1>g DEF Fork, ForkAppend
  <1>8. ASSUME NEW t \in Threads, NEW s \in Sems, CallP(t, s) \/ CallV(t, s)
        PROVE  Entries(u)' >= 1
    BY <1>1, <1>8 DEF CallP, CallV, dispatchVars
  <1>9. ASSUME NEW s \in HandlerSems, HandlerV(s)
        PROVE  Entries(u)' >= 1
    BY <1>3, <1>9 DEF HandlerV
  <1>10. CASE Reap \/ EndFork
    BY <1>1, <1>10 DEF Reap, EndFork, ForkCount, dispatchVars
  <1>11. CASE Yield
    BY <1>2, <1>11 DEF Yield, Switch
  <1>12. QED
    BY <1>5, <1>6, <1>7, <1>8, <1>9, <1>10, <1>11 DEF Next

(* A thread that the history does not hold after a step was not caught by   *)
(* it; and if the history held it before, it is awake or finished, and out  *)
(* of P.                                                                    *)
Awake(t) == status[t] # "SLEEPING" /\ pc[t] \notin PSteps

LEMMA CaughtStep ==
    ASSUME RefInv, Next, NEW u \in Threads, u \notin caught'
    PROVE  Awake(u)' \/ (u \notin caught /\ ~Catches(u))
  <1> USE SynchAssumption
  <1>i. TypeOK /\ QueueInv /\ WaitQueueExact
    BY DEF RefInv, SynchInv
  <1>1. ASSUME caught' = caught, UNCHANGED <<sem, sema_queue>>
        PROVE  u \notin caught /\ ~Catches(u)
    BY <1>1 DEF Catches, Queued
  <1>2. ASSUME NEW t \in Threads, Recover(t), UNCHANGED <<status, sem, sema_queue>>,
               pc' = [pc EXCEPT ![t] = AfterP(t)]
        PROVE  Awake(u)' \/ (u \notin caught /\ ~Catches(u))
    <2>1. CASE u \notin caught
      BY <1>2, <2>1 DEF Catches, Queued
    <2>2. CASE u \in caught
      <3>1. u = t /\ status[t] = "OK"
        BY <1>2, <2>2 DEF Recover
      <3>2. status'[u] = "OK" /\ pc'[u] \in {"run", "reap"}
        BY <1>2, <1>i, <3>1 DEF TypeOK, AfterP
      <3>3. QED
        BY <3>2 DEF Awake, PSteps
    <2>3. QED
      BY <2>1, <2>2
  <1>3. ASSUME NEW s \in Sems, Increment(s), sem' = sem
        PROVE  u \notin caught /\ ~Catches(u)
    <2>1. CASE cnt[s] >= 0
      <3>1. ~(cnt[s] < 0)
        BY <1>i, <2>1 DEF TypeOK
      <3>2. caught' = caught /\ sema_queue' = sema_queue
        BY <1>3, <3>1 DEF Increment
      <3>3. QED
        BY <1>1, <1>3, <3>2
    <2>2. CASE cnt[s] < 0
      <3>1. PICK h \in Threads :
                /\ h = Head(sema_queue[s])
                /\ \A v \in Threads, q \in Sems : Queued(v, q)' <=> Queued(v, q) /\ v # h
        <4>1. ~(cnt[s] >= 0)
          BY <1>i, <2>2 DEF TypeOK
        <4>2. QED
          BY <1>3, <1>i, <4>1, IncrementEffect
      <3>2. caught' = IF FallingAsleep(h) THEN caught \cup {h} ELSE caught
        BY <1>3, <2>2, <3>1 DEF Increment, Catch
      <3>3. u \notin caught /\ (FallingAsleep(u) => u # h)
        BY <3>2
      <3>4. ~Catches(u)
        <4>1. SUFFICES ASSUME Catches(u) PROVE FALSE
          OBVIOUS
        <4> DEFINE q == sem[u]
        <4>2. q \in Sems /\ q' = q
          BY <1>3, <1>i DEF TypeOK
        <4>3. FallingAsleep(u) /\ Queued(u, q) /\ ~(Queued(u, q)')
          BY <4>1 DEF Catches
        <4> HIDE DEF q
        <4>4. QED
          BY <3>1, <3>3, <4>2, <4>3
      <3>5. QED
        BY <3>3, <3>4
    <2>3. QED
      BY <1>i, <2>1, <2>2 DEF TypeOK
  <1>4. ASSUME NEW t \in Threads, CallStep(t)
        PROVE  Awake(u)' \/ (u \notin caught /\ ~Catches(u))
    <2>1. CASE SpinP(t) \/ ClearP(t) \/ SleepP(t) \/ YieldP(t) \/ FinalYield(t)
      BY <1>1, <2>1 DEF SpinP, ClearP, SleepP, YieldP, FinalYield
    <2>2. CASE TakeP(t) \/ ReturnP(t)
      BY <1>2, <2>2 DEF TakeP, ReturnP, Goto, dispatchVars
    <2>3. CASE QueueP(t)
      <3>1. u \notin caught
        BY <2>3 DEF QueueP
      <3>2. \A v \in Threads, q \in Sems :
                  Queued(v, q)' <=> Queued(v, q) \/ (v = t /\ q = sem[t])
        BY <1>i, <2>3, AppendQueue DEF QueueP, At
      <3> DEFINE q == sem[u]
      <3>3. q \in Sems /\ q' = q
        BY <1>i, <2>3 DEF QueueP, TypeOK
      <3> HIDE DEF q
      <3>4. Queued(u, q) => Queued(u, q)'
        BY <3>2, <3>3
      <3>5. ~Catches(u)
        BY <3>4 DEF Catches, q
      <3>6. QED
        BY <3>1, <3>5
    <2>4. CASE IncrementV(t)
      BY <1>3, <1>i, <2>4 DEF IncrementV, TypeOK
    <2>5. CASE SpinV(t) \/ FinalAppend(t)
      <3>1. /\ caught' = caught /\ sema_queue' = sema_queue
            /\ pc[t] \in {"V_tas", "final_append"}
            /\ \A v \in Threads \ {t} : sem'[v] = sem[v]
        BY <1>i, <2>5 DEF SpinV, FinalAppend, At, TypeOK
      <3>2. QED
        BY <3>1 DEF Catches, FallingAsleep, Queued
    <2>6. QED
      BY <1>4, <2>1, <2>2, <2>3, <2>4, <2>5 DEF CallStep
  <1>5. ASSUME NEW t \in Threads, FinalStatus(t)
        PROVE  Awake(u)' \/ (u \notin caught /\ ~Catches(u))
    <2>1. CASE u = t
      <3>1. status'[u] = "DESTROYED" /\ pc'[u] = "final_append"
        BY <1>5, <1>i, <2>1 DEF FinalStatus, Goto, TypeOK
      <3>2. QED
        BY <3>1 DEF Awake, PSteps
    <2>2. CASE u # t
      BY <1>5, <2>2 DEF FinalStatus, Catches, Queued
    <2>3. QED
      BY <2>1, <2>2
  <1>6. ASSUME NEW t \in Threads, NEW s \in Sems, CallP(t, s) \/ CallV(t, s)
        PROVE  u \notin caught /\ ~Catches(u)
    <2>1. /\ caught' = caught /\ sema_queue' = sema_queue
          /\ pc[t] = "run"
          /\ \A v \in Threads \ {t} : sem'[v] = sem[v]
      BY <1>6, <1>i DEF CallP, CallV, At, TypeOK
    <2>2. QED
      BY <2>1 DEF Catches, FallingAsleep, Queued
  <1>7. ASSUME NEW s \in HandlerSems, HandlerV(s)
        PROVE  u \notin caught /\ ~Catches(u)
    BY <1>3, <1>7 DEF HandlerV
  <1>8. ASSUME NEW t \in Threads, Fork(t)
        PROVE  u \notin caught /\ ~Catches(u)
    BY <1>1, <1>8 DEF Fork, synchVars
  <1>9. CASE Reap \/ EndFork \/ Yield
    BY <1>1, <1>9 DEF Reap, EndFork, Yield, synchVars
  <1>10. QED
    BY <1>4, <1>5, <1>6, <1>7, <1>8, <1>9 DEF Next

(* Whatever the callers of P and V disable, and whoever exits: a thread that*)
(* no V has caught between giving the lock back and its yield, or that has  *)
(* left P awake since, is running, ready, or queued where a V finds it      *)
(* (OnlyCaughtAreLost).  So the window that a P with interrupts enabled     *)
(* opens in minithread_unlock_and_stop is the only place where the system   *)
(* can lose a thread.                                                       *)
THEOREM NoThreadIsLost ==
    ASSUME HandlersSignalMasked
    PROVE  Spec => []OnlyCaughtAreLost
  <1>1. Init => KeptInv /\ AwakeInv
    <2> SUFFICES ASSUME Init, NEW t \in Threads
                 PROVE  KeptFor(t) /\ (status[t] = "OK" => Entries(t) >= 1)
      BY DEF KeptInv, AwakeInv
    <2>1. /\ pc[t] = "run"
          /\ status[t] \in {"unborn", "OK"}
          /\ status[t] = "OK" => Entries(t) >= 1
      BY DispatcherAssumption DEF Init, DispatchInit, Entries
    <2>2. QED
      BY <2>1 DEF KeptFor
  <1>2. RefInv /\ KeptInv /\ AwakeInv /\ [Next]_vars => KeptInv' /\ AwakeInv'
    <2> SUFFICES ASSUME RefInv, KeptInv, AwakeInv, [Next]_vars
                 PROVE  KeptInv' /\ AwakeInv'
      OBVIOUS
    <2>1. CASE UNCHANGED vars
      BY <2>1 DEF vars, KeptInv, KeptFor, AwakeInv, Entries, InQueue, Queued
    <2>2. CASE Next
      <3>1. AwakeInv'
        BY <2>2, AwakeStep
      <3>2. ASSUME NEW u \in Threads, u \notin caught'
            PROVE  KeptFor(u)'
        <4>1. CASE u \notin caught /\ ~Catches(u)
          BY <2>2, <4>1, KeptStep DEF KeptInv
        <4>2. CASE Awake(u)'
          BY <3>1, <4>2 DEF Awake, AwakeInv, KeptFor, PSteps
        <4>3. QED
          BY <2>2, <3>2, <4>1, <4>2, CaughtStep
      <3>3. QED
        BY <3>1, <3>2 DEF KeptInv
    <2>3. QED
      BY <2>1, <2>2
  <1>3. RefInv /\ KeptInv => OnlyCaughtAreLost
    <2> SUFFICES ASSUME RefInv, KeptInv, NEW t \in Threads, t \notin caught
                 PROVE  ~Lost(t)
      BY DEF OnlyCaughtAreLost
    <2>1. TypeOK /\ KeptFor(t)
      BY DEF RefInv, SynchInv, KeptInv
    <2>2. CASE status[t] = "OK"
      BY <2>1, <2>2, EntriesTyping DEF KeptFor, Entries, Lost
    <2>3. CASE status[t] = "SLEEPING"
      BY <2>1, <2>3 DEF KeptFor, InQueue, Blocked, TypeOK, Lost
    <2>4. QED
      BY <2>1, <2>2, <2>3 DEF TypeOK, Statuses, Lost
  <1>4. QED
    BY <1>1, <1>2, <1>3, RefInvariant, PTL DEF Spec

-----------------------------------------------------------------------------
(***************************************************************************)
(* Proofs about the end of a thread: the reaper finds work for every unit  *)
(* of its semaphore, and frees only threads that are out of reach, if      *)
(* handlers signal only semaphores whose P is called with interrupts       *)
(* disabled.                                                               *)
(*                                                                         *)
(* A finished thread that is preempted, with its status DESTROYED, is not  *)
(* put back and never runs again (FinishedInv).  So the last entry of the  *)
(* delete queue is the only one whose V can be under way, and the units    *)
(* still owed make the queue too long for the reaper to get to it while it *)
(* holds the lock (UnitsInv, DeleteInv).                                   *)
(***************************************************************************)

(* The V of finalproc, for which the thread is already on the delete queue. *)
FinalV(t) == pc[t] \in VSteps /\ sem[t] = ReaperSem

(* That V with the lock taken.                                              *)
FinalLock(t) == pc[t] = "V_inc" /\ sem[t] = ReaperSem

(* A thread that has put itself on the delete queue.                        *)
Appended(t) == FinalV(t) \/ pc[t] \in {"final_yield", "dead"}

(* A finished thread has no entry: once it does not run it never does.      *)
FinishedFor(t) ==
    /\ status[t] = "DESTROYED" <=> pc[t] = "final_append" \/ Appended(t)
    /\ status[t] = "DESTROYED" => ready[t] = 0 /\ t # Reaper
    /\ pc[t] \in PSteps => (t = Reaper <=> sem[t] = ReaperSem)

FinishedInv == \A t \in Threads : FinishedFor(t)

(* The reaper has taken a unit, or waits for one, that it has not spent.    *)
Unspent == IF pc[Reaper] \in Waits \cup {"reap"} THEN 1 ELSE 0

HasUnit == pc[Reaper] = "reap" \/ (pc[Reaper] \in Waits /\ ~Queued(Reaper, ReaperSem))

(* Each entry of the delete queue is a unit of the reaper's semaphore, one  *)
(* that the reaper holds or one still to be added.                          *)
UnitsInv == cnt[ReaperSem] + Cardinality({t \in Threads : FinalV(t)}) + Unspent = Len(delete_queue)

Deleted(t) == \E i \in DOMAIN delete_queue : delete_queue[i] = t

(* The delete queue: a thread is on it once, and is freed only when it      *)
(* cannot be running or holding the lock of the reaper's semaphore.         *)
DeleteFor(t) ==
    /\ Deleted(t) => Appended(t) /\ t \notin freed
    /\ t \in freed => Appended(t) /\ ~FinalLock(t) /\ active_thread # t
    /\ FinalV(t) /\ active_thread = t =>
          delete_queue # <<>> /\ delete_queue[Len(delete_queue)] = t
    /\ FinalLock(t) /\ HasUnit => delete_queue # <<>> /\ Head(delete_queue) # t

DeleteInv ==
    /\ \A i, j \in DOMAIN delete_queue : delete_queue[i] = delete_queue[j] => i = j
    /\ \A t \in Threads : DeleteFor(t)

ReapInv == FinishedInv /\ UnitsInv /\ DeleteInv

-----------------------------------------------------------------------------
(* Finished threads.                                                        *)

LEMMA FinishedFrame ==
    ASSUME NEW u \in Threads, FinishedFor(u), pc'[u] = pc[u], sem'[u] = sem[u],
           status'[u] = "DESTROYED" <=> status[u] = "DESTROYED",
           status[u] = "DESTROYED" => ready'[u] = 0
    PROVE  FinishedFor(u)'
BY DEF FinishedFor, Appended, FinalV

(* A step of the running thread that leaves the others where they are.      *)
LEMMA FinishedLocal ==
    ASSUME TypeOK, FinishedInv, NEW t \in Threads, NEW p,
           pc' = [pc EXCEPT ![t] = p],
           \A u \in Threads \ {t} :
              /\ sem'[u] = sem[u]
              /\ status'[u] = "DESTROYED" <=> status[u] = "DESTROYED"
              /\ status[u] = "DESTROYED" => ready'[u] = 0,
           /\ status'[t] = "DESTROYED" <=> \/ p \in {"final_append", "final_yield", "dead"}
                                           \/ p \in VSteps /\ sem'[t] = ReaperSem
           /\ status'[t] = "DESTROYED" => ready'[t] = 0 /\ t # Reaper
           /\ p \in PSteps => (t = Reaper <=> sem'[t] = ReaperSem)
    PROVE  FinishedInv'
<1>1. ASSUME NEW u \in Threads, u # t PROVE FinishedFor(u)'
  <2>1. pc'[u] = pc[u] /\ FinishedFor(u)
    BY <1>1 DEF TypeOK, FinishedInv
  <2> QED
    BY <1>1, <2>1, FinishedFrame
<1>2. pc'[t] = p
  BY DEF TypeOK
<1>3. FinishedFor(t)'
  BY <1>2 DEF FinishedFor, Appended, FinalV
<1> QED
  BY <1>1, <1>3 DEF FinishedInv

(* A step of the running thread in which it does not finish.                *)
LEMMA FinishedStays ==
    ASSUME TypeOK, FinishedInv, NEW t \in Threads, NEW p, p \in Steps,
           pc' = [pc EXCEPT ![t] = p],
           \A u \in Threads \ {t} : sem'[u] = sem[u],
           UNCHANGED <<status, ready>>,
           \/ pc[t] \notin VSteps \cup {"final_append", "final_yield", "dead"}
           \/ sem[t] # ReaperSem /\ pc[t] \in VSteps,
           p \notin {"final_append", "final_yield", "dead"},
           p \in VSteps => sem'[t] # ReaperSem,
           p \in PSteps => (t = Reaper <=> sem'[t] = ReaperSem)
    PROVE  FinishedInv'
<1>1. status[t] # "DESTROYED"
  BY DEF FinishedInv, FinishedFor, Appended, FinalV, VSteps
<1>2. \A u \in Threads \ {t} : status[u] = "DESTROYED" => ready[u] = 0
  BY DEF FinishedInv, FinishedFor
<1> QED
  BY <1>1, <1>2, FinishedLocal

(* No dispatch gives a finished thread an entry.                            *)
LEMMA FinishedAtYield ==
    ASSUME TypeOK, FinishedInv, minithread_yield(Runnable),
           NEW u \in Threads, status[u] = "DESTROYED"
    PROVE  ready'[u] = 0 /\ active_thread' # u
<1>1. /\ Entries(u)' = ready[u] + (IF active_thread = u /\ Runnable THEN 1 ELSE 0)
      /\ ready'[u] <= Entries(u)'
  BY EntriesAfterYield
<1>2. ready[u] = 0 /\ ~(active_thread = u /\ Runnable)
  BY DEF FinishedInv, FinishedFor, Runnable
<1>3. /\ active_thread' \in Threads \cup {Idle}
      /\ ready' \in [Threads -> Nat]
  BY YieldTyping
<1>4. Entries(u)' = 0 /\ ready'[u] \in Nat
  BY <1>1, <1>2, <1>3
<1> QED
  BY <1>1, <1>4 DEF Entries

(* Nor does a V: a queued thread has not finished.                          *)
LEMMA FinishedAtIncrement ==
    ASSUME RefInv, FinishedInv, NEW s \in Sems, Increment(s), NEW u \in Threads
    PROVE  /\ status'[u] = "DESTROYED" <=> status[u] = "DESTROYED"
           /\ status[u] = "DESTROYED" => ready'[u] = 0
<1>1. TypeOK /\ WaitQueueExact /\ QueueInv
  BY DEF RefInv, SynchInv
<1>2. CASE UNCHANGED <<active_thread, status, ready, sema_queue>>
  BY <1>2 DEF FinishedInv, FinishedFor
<1>3. ASSUME NEW h \in Threads, Queued(h, s),
             status' = [status EXCEPT ![h] = "OK"],
             ready' = [ready EXCEPT ![h] = @ + 1]
      PROVE  /\ status'[u] = "DESTROYED" <=> status[u] = "DESTROYED"
             /\ status[u] = "DESTROYED" => ready'[u] = 0
  <2>1. pc[h] \in Waits
    BY <1>3 DEF RefInv, QueueInv
  <2>2. status[h] # "DESTROYED"
    BY <2>1 DEF FinishedInv, FinishedFor, Appended, FinalV, Waits, VSteps
  <2>3. status[u] = "DESTROYED" => ready[u] = 0
    BY DEF FinishedInv, FinishedFor
  <2>4. status \in [Threads -> Statuses] /\ ready \in [Threads -> Nat]
    BY DEF RefInv, SynchInv, TypeOK
  <2> QED
    BY <1>3, <2>2, <2>3, <2>4
<1> QED
  BY <1>1, <1>2, <1>3, IncrementEffect

LEMMA FinishedStep ==
    ASSUME RefInv, FinishedInv, [Next]_vars
    PROVE  FinishedInv'
<1> USE SynchAssumption, DispatcherAssumption
<1>i. TypeOK /\ QueueInv /\ EntryInv
  BY DEF RefInv, SynchInv
<1>z. \A u \in Threads : status[u] = "DESTROYED" => ready[u] = 0
  BY DEF FinishedInv, FinishedFor
<1>r. \A t \in Threads : pc[t] \in PSteps => (t = Reaper <=> sem[t] = ReaperSem)
  BY DEF FinishedInv, FinishedFor
<1>1. ASSUME NEW t \in Threads, CallStep(t) PROVE FinishedInv'
  <2>1. CASE SpinP(t) \/ QueueP(t) \/ ClearP(t)
    <3>1. PICK p : /\ p \in {"P_dec", "P_clear", "P_sleep"}
                   /\ pc' = [pc EXCEPT ![t] = p] /\ pc[t] \in PSteps
                   /\ UNCHANGED <<status, ready, sem>>
      BY <2>1 DEF SpinP, QueueP, ClearP, At, Goto, PSteps, dispatchVars
    <3>2. pc[t] \notin VSteps \cup {"final_append", "final_yield", "dead"} /\ p \notin VSteps
      BY <3>1 DEF PSteps, VSteps
    <3>3. p \in Steps
      BY <3>1 DEF PSteps, Steps
    <3> QED
      BY <1>i, <1>r, <3>1, <3>2, <3>3, FinishedStays
  <2>2. CASE TakeP(t) \/ ReturnP(t)
    <3>1. PICK p : /\ p \in {"run", "reap"}
                   /\ pc' = [pc EXCEPT ![t] = p] /\ pc[t] \in PSteps
                   /\ UNCHANGED <<status, ready, sem>>
      BY <2>2 DEF TakeP, ReturnP, At, Goto, AfterP, PSteps, dispatchVars
    <3>2. /\ pc[t] \notin VSteps \cup {"final_append", "final_yield", "dead"}
          /\ p \notin VSteps /\ p \notin PSteps /\ p \in Steps
      BY <3>1 DEF PSteps, VSteps, Steps
    <3> QED
      BY <1>i, <3>1, <3>2, FinishedStays
  <2>3. CASE SleepP(t)
    <3>1. /\ pc[t] = "P_sleep" /\ pc' = [pc EXCEPT ![t] = "P_yield"]
          /\ status' = [status EXCEPT ![t] = "SLEEPING"] /\ UNCHANGED <<ready, sem>>
      BY <2>3 DEF SleepP, At, Goto
    <3>2. /\ "P_yield" \notin VSteps /\ "P_yield" \in PSteps /\ pc[t] \in PSteps
      BY <3>1 DEF PSteps, VSteps
    <3>3. /\ status'[t] = "SLEEPING"
          /\ \A u \in Threads \ {t} : status'[u] = status[u]
      BY <1>i, <3>1 DEF TypeOK
    <3> QED
      BY <1>i, <1>r, <1>z, <3>1, <3>2, <3>3, FinishedLocal
  <2>4. CASE YieldP(t)
    <3>1. /\ pc[t] = "P_yield" /\ pc' = [pc EXCEPT ![t] = "P_wait"]
          /\ minithread_yield(Runnable) /\ UNCHANGED <<status, sem>>
      BY <2>4 DEF YieldP, At, Goto
    <3>2. /\ "P_wait" \notin VSteps /\ "P_wait" \in PSteps /\ pc[t] \in PSteps /\ pc[t] \notin VSteps
      BY <3>1 DEF PSteps, VSteps
    <3>3. status[t] # "DESTROYED"
      BY <3>1, <3>2 DEF FinishedInv, FinishedFor, Appended, FinalV
    <3>4. \A u \in Threads : status[u] = "DESTROYED" => ready'[u] = 0
      BY <1>i, <3>1, FinishedAtYield
    <3> QED
      BY <1>i, <1>r, <3>1, <3>2, <3>3, <3>4, FinishedLocal
  <2>5. CASE SpinV(t)
    <3>1. /\ pc[t] = "V_tas" /\ pc' = [pc EXCEPT ![t] = "V_inc"]
          /\ UNCHANGED <<status, ready, sem>>
      BY <2>5 DEF SpinV, At, Goto, dispatchVars
    <3>2. "V_tas" \in VSteps /\ "V_inc" \in VSteps /\ "V_inc" \notin PSteps
      BY DEF VSteps, PSteps
    <3>3. status[t] = "DESTROYED" <=> sem[t] = ReaperSem
      BY <3>1, <3>2 DEF FinishedInv, FinishedFor, Appended, FinalV
    <3>4. status[t] = "DESTROYED" => ready[t] = 0 /\ t # Reaper
      BY DEF FinishedInv, FinishedFor
    <3> QED
      BY <1>i, <1>z, <3>1, <3>2, <3>3, <3>4, FinishedLocal
  <2>6. CASE IncrementV(t)
    <3>1. PICK s \in Sems : s = sem[t]
      BY <1>i DEF TypeOK
    <3>2. /\ pc[t] = "V_inc" /\ Increment(s) /\ sem' = sem
          /\ pc' = [pc EXCEPT ![t] = AfterV(t)]
      BY <2>6, <3>1 DEF IncrementV, At, Goto
    <3>3. "V_inc" \in VSteps /\ "run" \notin VSteps \cup PSteps /\ "final_yield" \notin VSteps \cup PSteps
      BY DEF VSteps, PSteps
    <3>4. \A u \in Threads : /\ status'[u] = "DESTROYED" <=> status[u] = "DESTROYED"
                             /\ status[u] = "DESTROYED" => ready'[u] = 0
      BY <3>2, FinishedAtIncrement
    <3>5. status[t] = "DESTROYED" => t # Reaper
      BY DEF FinishedInv, FinishedFor
    <3>6. PICK p : p = AfterV(t)
      OBVIOUS
    <3>7. /\ p \notin VSteps \cup PSteps
          /\ status[t] = "DESTROYED" <=> p \in {"final_append", "final_yield", "dead"}
      BY <3>3, <3>6 DEF AfterV
    <3> QED
      BY <1>i, <3>2, <3>4, <3>5, <3>6, <3>7, FinishedLocal
  <2>7. CASE FinalAppend(t)
    <3>1. /\ pc[t] = "final_append" /\ pc' = [pc EXCEPT ![t] = "V_tas"]
          /\ sem' = [sem EXCEPT ![t] = ReaperSem]
          /\ UNCHANGED <<status, ready>>
      BY <2>7 DEF FinalAppend, At, Goto, dispatchVars
    <3>2. "V_tas" \in VSteps /\ "V_tas" \notin PSteps
      BY DEF VSteps, PSteps
    <3>3. status[t] = "DESTROYED" /\ t # Reaper
      BY <3>1 DEF FinishedInv, FinishedFor
    <3>4. sem'[t] = ReaperSem /\ \A u \in Threads \ {t} : sem'[u] = sem[u]
      BY <1>i, <3>1 DEF TypeOK
    <3> QED
      BY <1>i, <1>z, <3>1, <3>2, <3>3, <3>4, FinishedLocal
  <2>8. CASE FinalYield(t)
    <3>1. /\ pc[t] = "final_yield" /\ pc' = [pc EXCEPT ![t] = "dead"]
          /\ minithread_yield(Runnable) /\ UNCHANGED <<status, sem>>
      BY <2>8 DEF FinalYield, At, Goto
    <3>2. "dead" \notin PSteps
      BY DEF PSteps
    <3>3. status[t] = "DESTROYED" /\ t # Reaper
      BY <3>1 DEF FinishedInv, FinishedFor, Appended
    <3>4. \A u \in Threads : status[u] = "DESTROYED" => ready'[u] = 0
      BY <1>i, <3>1, FinishedAtYield
    <3> QED
      BY <1>i, <3>1, <3>2, <3>3, <3>4, FinishedLocal
  <2> QED
    BY <1>1, <2>1, <2>2, <2>3, <2>4, <2>5, <2>6, <2>7, <2>8 DEF CallStep
<1>2. ASSUME NEW t \in Threads, FinalStatus(t) PROVE FinishedInv'
  <2>1. /\ pc[t] = "run" /\ pc' = [pc EXCEPT ![t] = "final_append"] /\ active_thread = t
        /\ status' = [status EXCEPT ![t] = "DESTROYED"] /\ UNCHANGED <<ready, sem>>
        /\ t # Reaper
    BY <1>2 DEF FinalStatus, At, Goto
  <2>2. "final_append" \notin PSteps
    BY DEF PSteps
  <2>3. ready[t] = 0
    <3>1. Entries(t) <= 1
      BY <1>i, <2>1 DEF EntryInv, EntryFor, OtherEntries
    <3>2. Entries(t) = ready[t] + 1 /\ ready[t] \in Nat
      BY <1>i, <2>1, RunningHasEntry, EntriesTyping
    <3> QED
      BY <3>1, <3>2
  <2>4. /\ status'[t] = "DESTROYED"
        /\ \A u \in Threads \ {t} : status'[u] = status[u]
    BY <1>i, <2>1 DEF TypeOK
  <2> QED
    BY <1>i, <1>z, <2>1, <2>2, <2>3, <2>4, FinishedLocal
<1>3. ASSUME NEW t \in Threads, Fork(t) PROVE FinishedInv'
  <2>1. /\ status[t] = "unborn" /\ status' = [status EXCEPT ![t] = "OK"]
        /\ ready' = [ready EXCEPT ![t] = @ + 1] /\ UNCHANGED <<pc, sem>>
    BY <1>3 DEF Fork, ForkAppend, synchVars
  <2>2. \A u \in Threads : /\ status'[u] = "DESTROYED" <=> status[u] = "DESTROYED"
                           /\ status[u] = "DESTROYED" => ready'[u] = ready[u]
    BY <1>i, <2>1 DEF TypeOK
  <2> QED
    BY <1>z, <2>1, <2>2, FinishedFrame DEF FinishedInv
<1>4. ASSUME NEW t \in Threads, NEW s \in Sems, CallP(t, s) PROVE FinishedInv'
  <2>1. /\ pc[t] = "run" /\ pc' = [pc EXCEPT ![t] = "P_tas"]
        /\ sem' = [sem EXCEPT ![t] = s] /\ UNCHANGED <<status, ready>>
    BY <1>4 DEF CallP, At, Goto, dispatchVars
  <2>2. "P_tas" \notin VSteps /\ "P_tas" \in Steps /\ "run" \notin VSteps
    BY DEF VSteps, Steps, PSteps
  <2>3. sem'[t] = s /\ \A u \in Threads \ {t} : sem'[u] = sem[u]
    BY <1>i, <2>1 DEF TypeOK
  <2>4. t = Reaper <=> sem'[t] = ReaperSem
    BY <1>4, <2>3 DEF CallP
  <2> QED
    BY <1>i, <2>1, <2>2, <2>3, <2>4, FinishedStays
<1>5. ASSUME NEW t \in Threads, NEW s \in Sems, CallV(t, s) PROVE FinishedInv'
  <2>1. /\ pc[t] = "run" /\ pc' = [pc EXCEPT ![t] = "V_tas"]
        /\ sem' = [sem EXCEPT ![t] = s] /\ s # ReaperSem
        /\ UNCHANGED <<status, ready>>
    BY <1>5 DEF CallV, At, Goto, dispatchVars
  <2>2. "V_tas" \notin PSteps /\ "V_tas" \in Steps /\ "run" \notin VSteps
    BY DEF VSteps, Steps, PSteps
  <2>3. sem'[t] = s /\ \A u \in Threads \ {t} : sem'[u] = sem[u]
    BY <1>i, <2>1 DEF TypeOK
  <2> QED
    BY <1>i, <2>1, <2>2, <2>3, FinishedStays
<1>6. ASSUME NEW s \in HandlerSems, HandlerV(s) PROVE FinishedInv'
  <2>1. Increment(s) /\ s \in Sems /\ UNCHANGED <<pc, sem>>
    BY <1>6 DEF HandlerV
  <2> QED
    BY <2>1, FinishedAtIncrement, FinishedFrame DEF FinishedInv
<1>7. CASE Reap
  <2>1. /\ Reaper \in Threads /\ pc[Reaper] = "reap" /\ pc' = [pc EXCEPT ![Reaper] = "run"]
        /\ UNCHANGED <<status, ready, sem>>
    BY <1>7 DEF Reap, At, Goto, dispatchVars
  <2>2. "run" \notin VSteps \cup PSteps /\ "reap" \notin VSteps /\ "run" \in Steps
    BY DEF VSteps, PSteps, Steps
  <2> QED
    BY <1>i, <2>1, <2>2, FinishedStays
<1>8. CASE Yield
  <2>1. minithread_yield(Runnable) /\ UNCHANGED <<status, pc, sem>>
    BY <1>8 DEF Yield, Switch, synchVars
  <2> QED
    BY <1>i, <2>1, FinishedAtYield, FinishedFrame DEF FinishedInv
<1>9. CASE EndFork \/ UNCHANGED vars
  <2>1. UNCHANGED <<status, ready, pc, sem>>
    BY <1>9 DEF EndFork, ForkCount, synchVars, vars
  <2> QED
    BY <1>z, <2>1, FinishedFrame DEF FinishedInv
<1> QED
  BY <1>1, <1>2, <1>3, <1>4, <1>5, <1>6, <1>7, <1>8, <1>9 DEF Next

-----------------------------------------------------------------------------
(* The units and the delete queue.                                          *)

(* A step that neither touches the delete queue nor begins or ends the V of *)
(* a finished thread, and hands the reaper no unit while one holds the lock.*)
Quiet ==
    /\ UNCHANGED <<delete_queue, freed>>
    /\ \A u \in Threads : /\ FinalV(u)' <=> FinalV(u)
                          /\ FinalLock(u)' <=> FinalLock(u)
                          /\ Appended(u)' <=> Appended(u)
    /\ cnt'[ReaperSem] + Unspent' = cnt[ReaperSem] + Unspent
    /\ HasUnit' => HasUnit \/ \A u \in Threads : ~FinalLock(u)
    /\ \A u \in Threads : active_thread' = u /\ status[u] = "DESTROYED" => active_thread = u

LEMMA AppendedIsFinished ==
    ASSUME FinishedInv, NEW t \in Threads, FinalV(t) \/ FinalLock(t) \/ Appended(t)
    PROVE  status[t] = "DESTROYED" /\ t # Reaper /\ Appended(t)
BY DEF FinishedInv, FinishedFor, Appended, FinalV, FinalLock, VSteps

LEMMA QuietStep ==
    ASSUME TypeOK, TypeOK', FinishedInv, UnitsInv, DeleteInv, Quiet
    PROVE  UnitsInv' /\ DeleteInv'
<1>1. UnitsInv'
  <2>1. {t \in Threads : FinalV(t)'} = {t \in Threads : FinalV(t)} /\ delete_queue' = delete_queue
    BY DEF Quiet
  <2>2. PICK F : F = {t \in Threads : FinalV(t)}
    OBVIOUS
  <2>3. F \subseteq Threads /\ IsFiniteSet(F)
    BY <2>2, DispatcherAssumption, FS_Subset
  <2>4. Cardinality(F) \in Nat
    BY <2>3, FS_CardinalityType
  <2>5. /\ cnt[ReaperSem] \in Int /\ cnt'[ReaperSem] \in Int
        /\ Unspent \in Nat /\ Unspent' \in Nat /\ Len(delete_queue) \in Nat
    BY SynchAssumption, LenProperties DEF TypeOK, Unspent
  <2>6. cnt'[ReaperSem] + Unspent' = cnt[ReaperSem] + Unspent
    BY DEF Quiet
  <2>7. cnt[ReaperSem] + Cardinality(F) + Unspent = Len(delete_queue)
    BY <2>2, Zenon DEF UnitsInv
  <2>8. cnt'[ReaperSem] + Cardinality(F) + Unspent' = Len(delete_queue)
    <3>1. PICK a \in Int, b \in Int, f \in Nat, u \in Nat, v \in Nat :
              /\ a = cnt[ReaperSem] /\ b = cnt'[ReaperSem] /\ f = Cardinality(F)
              /\ u = Unspent /\ v = Unspent'
      BY <2>4, <2>5, Zenon
    <3>2. b + v = a + u /\ a + f + u = Len(delete_queue)
      BY <2>6, <2>7, <3>1, Zenon
    <3>3. b + f + v = Len(delete_queue)
      BY <3>2
    <3> QED
      BY <3>1, <3>3, Zenon
  <2> QED
    BY <2>1, <2>2, <2>8, Zenon DEF UnitsInv
<1>2. ASSUME NEW u \in Threads PROVE DeleteFor(u)'
  <2>1. DeleteFor(u)
    BY DEF DeleteInv
  <2>2. active_thread' = u /\ Appended(u) => active_thread = u
    BY AppendedIsFinished DEF Quiet
  <2>3. /\ delete_queue' = delete_queue /\ freed' = freed
        /\ FinalV(u)' <=> FinalV(u)
        /\ FinalLock(u)' <=> FinalLock(u)
        /\ Appended(u)' <=> Appended(u)
        /\ HasUnit' /\ FinalLock(u) => HasUnit
        /\ FinalV(u) => Appended(u)
    BY DEF Quiet, Appended
  <2>4. Deleted(u)' <=> Deleted(u)
    BY <2>3 DEF Deleted
  <2> QED
    BY <2>1, <2>2, <2>3, <2>4 DEF DeleteFor
<1>3. delete_queue' = delete_queue
  BY DEF Quiet
<1> QED
  BY <1>1, <1>2, <1>3 DEF DeleteInv

(* With a unit in hand or on the way the reaper is not queued, nor is       *)
(* anybody else on its semaphore.                                           *)
LEMMA UnitMeansNoWaiter ==
    ASSUME RefInv, FinishedInv, HasUnit
    PROVE  cnt[ReaperSem] >= 0
<1> SUFFICES ASSUME cnt[ReaperSem] < 0 PROVE FALSE
  BY SynchAssumption DEF RefInv, SynchInv, TypeOK
<1> DEFINE q == sema_queue[ReaperSem]
<1>1. q \in Seq(Threads) /\ Len(q) = -cnt[ReaperSem] /\ cnt[ReaperSem] \in Int
  BY SynchAssumption DEF RefInv, SynchInv, TypeOK, WaitQueueExact
<1>2. 1 \in 1 .. Len(q) /\ DOMAIN q = 1 .. Len(q)
  BY <1>1
<1>3. q[1] \in Threads
  BY <1>1, <1>2
<1> HIDE DEF q
<1>4. Queued(q[1], ReaperSem)
  BY <1>2 DEF Queued, q
<1>5. pc[q[1]] \in Waits /\ sem[q[1]] = ReaperSem
  BY <1>3, <1>4, SynchAssumption DEF RefInv, QueueInv
<1>6. q[1] = Reaper
  BY <1>3, <1>5 DEF FinishedInv, FinishedFor, Waits, PSteps
<1> QED
  BY <1>4, <1>5, <1>6 DEF HasUnit, Waits

(* A step of the running thread that leaves its semaphore.                  *)
LEMMA LocalFinals ==
    ASSUME TypeOK, NEW t \in Threads, NEW p, pc' = [pc EXCEPT ![t] = p],
           \A u \in Threads \ {t} : sem'[u] = sem[u],
           \/ ~Appended(t) /\ ~Appended(t)'
           \/ pc[t] = "final_yield" /\ p = "dead" /\ ~FinalV(t) /\ ~FinalV(t)'
    PROVE  \A u \in Threads : /\ FinalV(u)' <=> FinalV(u)
                              /\ FinalLock(u)' <=> FinalLock(u)
                              /\ Appended(u)' <=> Appended(u)
<1>1. pc'[t] = p /\ \A u \in Threads \ {t} : pc'[u] = pc[u]
  BY DEF TypeOK
<1>2. ASSUME NEW u \in Threads, u # t
      PROVE  (FinalV(u)' <=> FinalV(u)) /\ (FinalLock(u)' <=> FinalLock(u))
             /\ (Appended(u)' <=> Appended(u))
  BY <1>1, <1>2 DEF FinalV, FinalLock, Appended
<1>3. (FinalV(t)' <=> FinalV(t)) /\ (FinalLock(t)' <=> FinalLock(t))
      /\ (Appended(t)' <=> Appended(t))
  BY <1>1 DEF FinalV, FinalLock, Appended, VSteps
<1> QED
  BY <1>2, <1>3

(* What is quiet for the reaper.                                            *)
LEMMA ReaperUndisturbed ==
    ASSUME pc'[Reaper] = pc[Reaper], cnt'[ReaperSem] = cnt[ReaperSem],
           sema_queue'[ReaperSem] = sema_queue[ReaperSem]
    PROVE  /\ cnt'[ReaperSem] + Unspent' = cnt[ReaperSem] + Unspent
           /\ HasUnit' => HasUnit
BY DEF Unspent, HasUnit, Queued

LEMMA PStepIsQuiet ==
    ASSUME RefInv, FinishedInv, NEW t \in Threads,
           SpinP(t) \/ TakeP(t) \/ QueueP(t) \/ ClearP(t) \/ SleepP(t) \/ YieldP(t) \/ ReturnP(t)
    PROVE  Quiet
<1> USE SynchAssumption
<1>i. TypeOK /\ QueueInv /\ LockExclusive
  BY DEF RefInv, SynchInv
<1>s. sem[t] \in Sems /\ cnt \in [Sems -> Int] /\ Reaper \in Threads /\ pc \in [Threads -> Steps]
      /\ sema_queue \in [Sems -> Seq(Threads)]
  BY <1>i, DispatcherAssumption DEF TypeOK
<1>1. pc[t] \in PSteps /\ sem' = sem /\ UNCHANGED <<delete_queue, freed>>
  BY DEF SpinP, TakeP, QueueP, ClearP, SleepP, YieldP, ReturnP, At, PSteps
<1>2. t = Reaper <=> sem[t] = ReaperSem
  BY <1>1 DEF FinishedInv, FinishedFor
<1>3. PICK p : p \in PSteps \cup {"run", "reap"} /\ pc' = [pc EXCEPT ![t] = p]
  BY DEF SpinP, TakeP, QueueP, ClearP, SleepP, YieldP, ReturnP, Goto, AfterP, PSteps
<1>4. pc'[t] = p /\ ~Appended(t) /\ ~Appended(t)'
  BY <1>s, <1>1, <1>3 DEF Appended, FinalV, PSteps, VSteps
<1>5. \A u \in Threads : /\ FinalV(u)' <=> FinalV(u)
                         /\ FinalLock(u)' <=> FinalLock(u)
                         /\ Appended(u)' <=> Appended(u)
  BY <1>i, <1>1, <1>3, <1>4, LocalFinals
<1>6. \A u \in Threads : active_thread' = u /\ status[u] = "DESTROYED" => active_thread = u
  <2>1. CASE YieldP(t)
    BY <2>1, <1>i, FinishedAtYield DEF YieldP
  <2>2. CASE ~YieldP(t)
    BY <2>2 DEF SpinP, TakeP, QueueP, ClearP, SleepP, ReturnP, dispatchVars
  <2> QED
    BY <2>1, <2>2
<1>7. /\ cnt'[ReaperSem] + Unspent' = cnt[ReaperSem] + Unspent
      /\ HasUnit' => HasUnit \/ \A u \in Threads : ~FinalLock(u)
  <2>1. CASE t # Reaper
    <3>1. pc'[Reaper] = pc[Reaper] /\ sem[t] # ReaperSem
      BY <1>s, <1>2, <1>3, <2>1
    <3>2. cnt'[ReaperSem] = cnt[ReaperSem] /\ sema_queue'[ReaperSem] = sema_queue[ReaperSem]
      BY <1>s, <3>1 DEF SpinP, TakeP, QueueP, ClearP, SleepP, YieldP, ReturnP
    <3> QED
      BY <3>1, <3>2, ReaperUndisturbed
  <2>2. CASE t = Reaper
    <3>0. sem[Reaper] = ReaperSem /\ cnt[ReaperSem] \in Int
      BY <1>s, <1>2, <2>2
    <3>1. CASE SpinP(t)
      <4>1. pc[Reaper] = "P_tas" /\ pc'[Reaper] = "P_dec" /\ cnt' = cnt
        BY <1>s, <2>2, <3>1 DEF SpinP, At, Goto
      <4>2. Unspent = 0 /\ Unspent' = 0 /\ ~HasUnit'
        BY <4>1 DEF Unspent, HasUnit, Waits
      <4> QED
        BY <4>1, <4>2
    <3>2. CASE TakeP(t)
      <4>1. /\ pc[Reaper] = "P_dec" /\ pc'[Reaper] = "reap"
            /\ cnt'[ReaperSem] = cnt[ReaperSem] - 1
        BY <1>s, <2>2, <3>0, <3>2 DEF TakeP, At, Goto, AfterP
      <4>2. \A u \in Threads : ~FinalLock(u)
        BY <1>i, <1>s, <3>0, <4>1 DEF LockExclusive, FinalLock, Critical
      <4>3. Unspent = 0 /\ Unspent' = 1
        BY <4>1 DEF Unspent, Waits
      <4> QED
        BY <3>0, <4>1, <4>2, <4>3
    <3>3. CASE QueueP(t)
      <4>1. /\ pc[Reaper] = "P_dec" /\ pc'[Reaper] = "P_clear"
            /\ cnt'[ReaperSem] = cnt[ReaperSem] - 1
            /\ sema_queue' = [sema_queue EXCEPT ![sem[t]] = Append(@, t)]
        BY <1>s, <2>2, <3>0, <3>3 DEF QueueP, At, Goto
      <4>2. Queued(Reaper, ReaperSem)'
        BY <1>i, <2>2, <3>0, <4>1, AppendQueue
      <4>3. Unspent = 0 /\ Unspent' = 1
        BY <4>1 DEF Unspent, Waits
      <4> QED
        BY <3>0, <4>1, <4>2, <4>3 DEF HasUnit
    <3>4. CASE ClearP(t) \/ SleepP(t) \/ YieldP(t)
      <4>1. /\ pc[Reaper] \in Waits /\ pc'[Reaper] \in Waits
            /\ UNCHANGED <<cnt, sema_queue>>
        BY <1>s, <2>2, <3>4 DEF ClearP, SleepP, YieldP, At, Goto, Waits
      <4>2. Unspent' = Unspent
        BY <4>1 DEF Unspent
      <4>3. HasUnit' => HasUnit
        BY <4>1 DEF HasUnit, Queued, Waits
      <4> QED
        BY <4>1, <4>2, <4>3
    <3>5. CASE ReturnP(t)
      <4>1. /\ pc[Reaper] = "P_wait" /\ pc'[Reaper] = "reap" /\ active_thread = Reaper
            /\ UNCHANGED <<cnt, sema_queue>>
        BY <1>s, <2>2, <3>5 DEF ReturnP, At, Goto, AfterP
      <4>2. ~Queued(Reaper, ReaperSem)
        BY <1>s, <3>0, <4>1, ReturningIsDequeued DEF InQueue
      <4>3. Unspent = 1 /\ Unspent' = 1 /\ HasUnit
        BY <4>1, <4>2 DEF Unspent, HasUnit, Waits
      <4> QED
        BY <4>1, <4>3
    <3> QED
      BY <3>1, <3>2, <3>3, <3>4, <3>5
  <2> QED
    BY <2>1, <2>2
<1> QED
  BY <1>1, <1>5, <1>6, <1>7 DEF Quiet

LEMMA IncrementElsewhere ==
    ASSUME TypeOK, NEW s \in Sems, s # ReaperSem, Increment(s)
    PROVE  /\ cnt'[ReaperSem] = cnt[ReaperSem]
           /\ sema_queue'[ReaperSem] = sema_queue[ReaperSem]
           /\ active_thread' = active_thread
BY SynchAssumption DEF TypeOK, Increment

LEMMA OtherStepIsQuiet ==
    ASSUME RefInv, FinishedInv, FinishedInv', [Next]_vars, ~Reap,
           \A t \in Threads : /\ ~(SpinP(t) \/ TakeP(t) \/ QueueP(t) \/ ClearP(t)
                                     \/ SleepP(t) \/ YieldP(t) \/ ReturnP(t) \/ FinalAppend(t))
                              /\ FinalV(t) => ~(SpinV(t) \/ IncrementV(t))
    PROVE  Quiet
<1> USE SynchAssumption
<1>i. TypeOK /\ QueueInv
  BY DEF RefInv, SynchInv
<1>s. cnt \in [Sems -> Int] /\ Reaper \in Threads /\ pc \in [Threads -> Steps]
      /\ sem \in [Threads -> Sems] /\ ReaperSem \in Sems
  BY <1>i, DispatcherAssumption DEF TypeOK
(* A step of one thread between two steps where it has not finished.        *)
<1>a. ASSUME NEW t \in Threads, NEW p, pc' = [pc EXCEPT ![t] = p],
             \A u \in Threads \ {t} : sem'[u] = sem[u],
             ~Appended(t), ~Appended(t)', active_thread' = active_thread,
             pc[t] \notin Waits \cup {"reap"}, p \notin Waits \cup {"reap"},
             cnt'[ReaperSem] = cnt[ReaperSem],
             sema_queue'[ReaperSem] = sema_queue[ReaperSem],
             UNCHANGED <<delete_queue, freed>>
      PROVE  Quiet
  <2>1. \A u \in Threads : /\ FinalV(u)' <=> FinalV(u)
                           /\ FinalLock(u)' <=> FinalLock(u)
                           /\ Appended(u)' <=> Appended(u)
    BY <1>i, <1>a, LocalFinals
  <2>2. (pc'[Reaper] \in Waits \cup {"reap"}) <=> (pc[Reaper] \in Waits \cup {"reap"})
    BY <1>s, <1>a
  <2>3. Unspent' = Unspent
    BY <2>2 DEF Unspent
  <2>4. HasUnit' => HasUnit
    BY <1>s, <1>a DEF HasUnit, Queued
  <2> QED
    BY <1>a, <2>1, <2>3, <2>4 DEF Quiet
(* A step that moves no thread.                                             *)
<1>b. ASSUME UNCHANGED <<pc, sem, delete_queue, freed>>,
             cnt'[ReaperSem] = cnt[ReaperSem],
             sema_queue'[ReaperSem] = sema_queue[ReaperSem],
             \A u \in Threads : active_thread' = u /\ status[u] = "DESTROYED" => active_thread = u
      PROVE  Quiet
  BY <1>b, ReaperUndisturbed DEF Quiet, FinalV, FinalLock, Appended
<1>1. ASSUME NEW t \in Threads, SpinV(t) PROVE Quiet
  <2>1. /\ pc[t] = "V_tas" /\ pc' = [pc EXCEPT ![t] = "V_inc"] /\ sem' = sem
        /\ UNCHANGED <<active_thread, cnt, sema_queue, delete_queue, freed>>
    BY <1>1 DEF SpinV, At, Goto, dispatchVars
  <2>2. pc'[t] = "V_inc" /\ ~FinalV(t)
    BY <1>s, <1>1, <2>1
  <2>3. ~Appended(t) /\ ~Appended(t)'
    BY <2>1, <2>2 DEF Appended, FinalV, VSteps
  <2> QED
    BY <1>a, <2>1, <2>3 DEF Waits
<1>2. ASSUME NEW t \in Threads, IncrementV(t) PROVE Quiet
  <2>1. PICK s \in Sems : s = sem[t]
    BY <1>s
  <2>2. /\ pc[t] = "V_inc" /\ pc' = [pc EXCEPT ![t] = AfterV(t)] /\ sem' = sem
        /\ Increment(s) /\ UNCHANGED <<delete_queue, freed>> /\ ~FinalV(t)
    BY <1>2, <2>1 DEF IncrementV, At, Goto
  <2>3. s # ReaperSem
    BY <2>1, <2>2 DEF FinalV, VSteps
  <2>4. ~Appended(t) /\ status[t] # "DESTROYED"
    BY <2>2 DEF Appended, FinishedInv, FinishedFor
  <2>5. pc' = [pc EXCEPT ![t] = "run"] /\ pc'[t] = "run"
    BY <1>s, <2>2, <2>4 DEF AfterV
  <2>6. ~Appended(t)'
    BY <2>5 DEF Appended, FinalV, VSteps
  <2>7. /\ cnt'[ReaperSem] = cnt[ReaperSem]
        /\ sema_queue'[ReaperSem] = sema_queue[ReaperSem]
        /\ active_thread' = active_thread
    BY <1>i, <2>2, <2>3, IncrementElsewhere
  <2> QED
    BY <1>a, <2>2, <2>4, <2>5, <2>6, <2>7 DEF Waits
<1>3. ASSUME NEW t \in Threads, FinalYield(t) PROVE Quiet
  <2>1. /\ pc[t] = "final_yield" /\ pc' = [pc EXCEPT ![t] = "dead"] /\ sem' = sem
        /\ minithread_yield(Runnable)
        /\ UNCHANGED <<cnt, sema_queue, delete_queue, freed>>
    BY <1>3 DEF FinalYield, At, Goto
  <2>2. pc'[t] = "dead" /\ ~FinalV(t) /\ ~FinalV(t)'
    BY <1>s, <2>1 DEF FinalV, VSteps
  <2>3. \A u \in Threads : /\ FinalV(u)' <=> FinalV(u)
                           /\ FinalLock(u)' <=> FinalLock(u)
                           /\ Appended(u)' <=> Appended(u)
    BY <1>i, <2>1, <2>2, LocalFinals
  <2>4. t # Reaper
    BY <2>1, AppendedIsFinished DEF Appended
  <2>5. pc'[Reaper] = pc[Reaper]
    BY <1>s, <2>1, <2>4
  <2>6. \A u \in Threads : active_thread' = u /\ status[u] = "DESTROYED" => active_thread = u
    BY <1>i, <2>1, FinishedAtYield
  <2> QED
    BY <2>1, <2>3, <2>5, <2>6, ReaperUndisturbed DEF Quiet
<1>4. ASSUME NEW t \in Threads, FinalStatus(t) PROVE Quiet
  <2>1. /\ pc[t] = "run" /\ pc' = [pc EXCEPT ![t] = "final_append"] /\ sem' = sem
        /\ UNCHANGED <<active_thread, cnt, sema_queue, delete_queue, freed>>
    BY <1>4 DEF FinalStatus, At, Goto
  <2>2. pc'[t] = "final_append"
    BY <1>s, <2>1
  <2>3. ~Appended(t) /\ ~Appended(t)'
    BY <2>1, <2>2 DEF Appended, FinalV, VSteps
  <2> QED
    BY <1>a, <2>1, <2>3 DEF Waits
<1>5. ASSUME NEW t \in Threads, NEW s \in Sems, CallP(t, s) \/ CallV(t, s) PROVE Quiet
  <2>1. PICK p \in {"P_tas", "V_tas"} :
           /\ pc[t] = "run" /\ pc' = [pc EXCEPT ![t] = p]
           /\ sem' = [sem EXCEPT ![t] = s]
           /\ p = "V_tas" => s # ReaperSem
           /\ UNCHANGED <<active_thread, cnt, sema_queue, delete_queue, freed>>
    BY <1>5 DEF CallP, CallV, At, Goto, dispatchVars
  <2>2. pc'[t] = p /\ sem'[t] = s /\ \A u \in Threads \ {t} : sem'[u] = sem[u]
    BY <1>s, <2>1
  <2>3. ~Appended(t) /\ ~Appended(t)'
    BY <2>1, <2>2 DEF Appended, FinalV, VSteps
  <2> QED
    BY <1>a, <2>1, <2>2, <2>3 DEF Waits
<1>6. ASSUME NEW s \in HandlerSems, HandlerV(s) PROVE Quiet
  <2>1. /\ s \in Sems /\ s # ReaperSem /\ Increment(s)
        /\ UNCHANGED <<pc, sem, delete_queue, freed>>
    BY <1>6 DEF HandlerV
  <2>2. /\ cnt'[ReaperSem] = cnt[ReaperSem]
        /\ sema_queue'[ReaperSem] = sema_queue[ReaperSem]
        /\ active_thread' = active_thread
    BY <1>i, <2>1, IncrementElsewhere
  <2> QED
    BY <1>b, <2>1, <2>2
<1>7. CASE Yield
  <2>1. minithread_yield(Runnable) /\ UNCHANGED synchVars
    BY <1>7 DEF Yield, Switch
  <2>2. \A u \in Threads : active_thread' = u /\ status[u] = "DESTROYED" => active_thread = u
    BY <1>i, <2>1, FinishedAtYield
  <2> QED
    BY <1>b, <2>1, <2>2 DEF synchVars
<1>8. CASE (\E t \in Threads : Fork(t)) \/ EndFork \/ UNCHANGED vars
  <2>1. UNCHANGED synchVars /\ active_thread' = active_thread
    BY <1>8 DEF Fork, EndFork, ForkAppend, ForkCount, vars, synchVars
  <2> QED
    BY <1>b, <2>1 DEF synchVars
<1> QED
  BY <1>1, <1>2, <1>3, <1>4, <1>5, <1>6, <1>7, <1>8 DEF Next, CallStep

(* The four steps that are not quiet.                                       *)

LEMMA FinalsAreFinite ==
    /\ IsFiniteSet({t \in Threads : FinalV(t)})
    /\ Cardinality({t \in Threads : FinalV(t)}) \in Nat
<1>1. IsFiniteSet({t \in Threads : FinalV(t)})
  BY DispatcherAssumption, FS_Subset
<1> QED
  BY <1>1, FS_CardinalityType

LEMMA UnitsTyping ==
    ASSUME TypeOK
    PROVE  /\ cnt[ReaperSem] \in Int
           /\ delete_queue \in Seq(Threads) /\ Len(delete_queue) \in Nat
           /\ DOMAIN delete_queue = 1 .. Len(delete_queue)
           /\ Unspent \in Nat
BY SynchAssumption, LenProperties DEF TypeOK, Unspent

(* The lock for the V of a finished thread: it is the last one of the       *)
(* delete queue, and if the reaper has a unit it is not the only one.       *)
LEMMA FinalSpinStep ==
    ASSUME RefInv, FinishedInv, UnitsInv, DeleteInv,
           NEW t \in Threads, SpinV(t), FinalV(t)
    PROVE  UnitsInv' /\ DeleteInv'
<1>i. TypeOK
  BY DEF RefInv, SynchInv
<1>1. /\ active_thread = t /\ pc[t] = "V_tas" /\ pc' = [pc EXCEPT ![t] = "V_inc"]
      /\ UNCHANGED <<active_thread, cnt, sema_queue, sem, delete_queue, freed>>
  BY DEF SpinV, At, Goto, dispatchVars
<1>2. t # Reaper /\ Reaper \in Threads
  BY AppendedIsFinished, SynchAssumption, DispatcherAssumption
<1>3. pc'[t] = "V_inc" /\ \A u \in Threads \ {t} : pc'[u] = pc[u]
  BY <1>i, <1>1 DEF TypeOK
<1>4. \A u \in Threads : (FinalV(u)' <=> FinalV(u)) /\ (Appended(u)' <=> Appended(u))
  BY <1>1, <1>3 DEF FinalV, Appended, VSteps
<1>5. Unspent' = Unspent /\ (HasUnit' <=> HasUnit)
  BY <1>1, <1>2, <1>3 DEF Unspent, HasUnit, Queued
<1>6. UnitsInv'
  <2>1. {u \in Threads : FinalV(u)'} = {u \in Threads : FinalV(u)}
    BY <1>4
  <2> QED
    BY <1>1, <1>5, <2>1 DEF UnitsInv
<1>7. HasUnit => Head(delete_queue) # t
  <2> SUFFICES ASSUME HasUnit PROVE Head(delete_queue) # t
    OBVIOUS
  <2>1. cnt[ReaperSem] >= 0
    BY UnitMeansNoWaiter
  <2>2. Unspent = 1
    BY DEF HasUnit, Unspent
  <2>3. PICK n \in Nat : n = Cardinality({u \in Threads : FinalV(u)})
    BY FinalsAreFinite
  <2>4. n >= 1
    BY <2>3, FinalsAreFinite, FS_EmptySet
  <2>5. Len(delete_queue) >= 2
    BY <1>i, <2>1, <2>2, <2>3, <2>4, UnitsTyping DEF UnitsInv
  <2>6. delete_queue[Len(delete_queue)] = t
    BY <1>1 DEF DeleteInv, DeleteFor
  <2>7. Head(delete_queue) = delete_queue[1]
    BY <1>i, <2>5, UnitsTyping
  <2> QED
    BY <1>i, <2>5, <2>6, <2>7, UnitsTyping DEF DeleteInv
<1>8. ASSUME NEW u \in Threads PROVE DeleteFor(u)'
  <2>1. DeleteFor(u) /\ (Deleted(u)' <=> Deleted(u))
    BY <1>1 DEF DeleteInv, Deleted
  <2>2. u = t => u \notin freed /\ delete_queue # <<>>
    BY <1>1, <2>1 DEF DeleteFor
  <2>3. u # t => (FinalLock(u)' <=> FinalLock(u))
    BY <1>1, <1>3 DEF FinalLock
  <2> QED
    BY <1>1, <1>4, <1>5, <1>7, <2>1, <2>2, <2>3 DEF DeleteFor
<1> QED
  BY <1>1, <1>6, <1>8 DEF DeleteInv

LEMMA FinalIncrementStep ==
    ASSUME RefInv, FinishedInv, UnitsInv, DeleteInv,
           NEW t \in Threads, IncrementV(t), FinalV(t)
    PROVE  UnitsInv' /\ DeleteInv'
<1>i. TypeOK /\ LockExclusive
  BY DEF RefInv, SynchInv
<1>1. sem[t] = ReaperSem
  BY DEF FinalV
<1>2. /\ active_thread = t /\ pc[t] = "V_inc" /\ pc' = [pc EXCEPT ![t] = AfterV(t)]
      /\ cnt' = [cnt EXCEPT ![ReaperSem] = @ + 1]
      /\ UNCHANGED <<active_thread, sem, delete_queue, freed>>
  BY <1>1 DEF IncrementV, Increment, At, Goto
<1>3. status[t] = "DESTROYED" /\ t # Reaper /\ Reaper \in Threads
  BY AppendedIsFinished, SynchAssumption, DispatcherAssumption
<1>4. pc'[t] = "final_yield" /\ \A u \in Threads \ {t} : pc'[u] = pc[u]
  BY <1>i, <1>2, <1>3 DEF TypeOK, AfterV
<1>5. ~FinalV(t)' /\ Appended(t)' /\ Appended(t)
  BY <1>4 DEF FinalV, Appended, VSteps
<1>6. \A u \in Threads \ {t} : (FinalV(u)' <=> FinalV(u)) /\ (Appended(u)' <=> Appended(u))
  BY <1>2, <1>4 DEF FinalV, Appended
<1>7. \A u \in Threads : ~FinalLock(u)'
  BY <1>i, <1>1, <1>2, <1>4 DEF FinalLock, LockExclusive, Critical
<1>8. Unspent' = Unspent
  BY <1>3, <1>4 DEF Unspent
<1>9. UnitsInv'
  <2>1. {u \in Threads : FinalV(u)'} = {u \in Threads : FinalV(u)} \ {t}
    BY <1>5, <1>6
  <2>2. Cardinality({u \in Threads : FinalV(u)} \ {t}) = Cardinality({u \in Threads : FinalV(u)}) - 1
    BY FinalsAreFinite, FS_RemoveElement
  <2>3. cnt'[ReaperSem] = cnt[ReaperSem] + 1
    BY <1>i, <1>2, SynchAssumption DEF TypeOK
  <2>4. PICK n \in Nat : n = Cardinality({u \in Threads : FinalV(u)})
    BY FinalsAreFinite
  <2>5. cnt[ReaperSem] + n + Unspent = Len(delete_queue)
    BY <2>4 DEF UnitsInv
  <2>6. cnt'[ReaperSem] + (n - 1) + Unspent' = Len(delete_queue')
    BY <1>i, <1>2, <1>8, <2>3, <2>5, UnitsTyping
  <2> QED
    BY <2>1, <2>2, <2>4, <2>6 DEF UnitsInv
<1>10. ASSUME NEW u \in Threads PROVE DeleteFor(u)'
  <2>1. DeleteFor(u) /\ (Deleted(u)' <=> Deleted(u))
    BY <1>2 DEF DeleteInv, Deleted
  <2> QED
    BY <1>2, <1>5, <1>6, <1>7, <2>1 DEF DeleteFor
<1> QED
  BY <1>2, <1>9, <1>10 DEF DeleteInv

LEMMA FinalAppendStep ==
    ASSUME RefInv, FinishedInv, UnitsInv, DeleteInv,
           NEW t \in Threads, FinalAppend(t)
    PROVE  UnitsInv' /\ DeleteInv'
<1>i. TypeOK
  BY DEF RefInv, SynchInv
<1>1. /\ active_thread = t /\ pc[t] = "final_append" /\ pc' = [pc EXCEPT ![t] = "V_tas"]
      /\ sem' = [sem EXCEPT ![t] = ReaperSem]
      /\ delete_queue' = Append(delete_queue, t)
      /\ UNCHANGED <<active_thread, cnt, sema_queue, freed>>
  BY DEF FinalAppend, At, Goto, dispatchVars
<1>2. t # Reaper /\ Reaper \in Threads
  BY <1>1, SynchAssumption, DispatcherAssumption DEF FinishedInv, FinishedFor
<1>3. /\ pc'[t] = "V_tas" /\ sem'[t] = ReaperSem
      /\ \A u \in Threads \ {t} : pc'[u] = pc[u] /\ sem'[u] = sem[u]
  BY <1>i, <1>1 DEF TypeOK
<1>4. /\ ~Appended(t) /\ ~FinalV(t)
      /\ FinalV(t)' /\ Appended(t)' /\ ~FinalLock(t)'
  BY <1>1, <1>3 DEF FinalV, Appended, FinalLock, VSteps
<1>5. \A u \in Threads \ {t} : /\ FinalV(u)' <=> FinalV(u)
                               /\ Appended(u)' <=> Appended(u)
                               /\ FinalLock(u)' <=> FinalLock(u)
  BY <1>3 DEF FinalV, Appended, FinalLock
<1>6. Unspent' = Unspent /\ (HasUnit' <=> HasUnit)
  BY <1>1, <1>2, <1>3 DEF Unspent, HasUnit, Queued
<1>7. PICK d \in Seq(Threads) : d = delete_queue
  BY <1>i, UnitsTyping
<1>8. PICK e : e = delete_queue'
  OBVIOUS
<1>9. /\ e = Append(d, t) /\ e \in Seq(Threads) /\ Len(d) \in Nat
      /\ Len(e) = Len(d) + 1 /\ e[Len(d) + 1] = t
      /\ \A i \in 1 .. Len(d) : e[i] = d[i]
      /\ DOMAIN d = 1 .. Len(d) /\ DOMAIN e = 1 .. Len(e)
  BY <1>1, <1>7, <1>8, AppendProperties, LenProperties
<1>10. UnitsInv'
  <2>1. {u \in Threads : FinalV(u)'} = {u \in Threads : FinalV(u)} \cup {t}
    BY <1>4, <1>5
  <2>2. Cardinality({u \in Threads : FinalV(u)} \cup {t}) = Cardinality({u \in Threads : FinalV(u)}) + 1
    BY <1>4, FinalsAreFinite, FS_AddElement
  <2>3. PICK n \in Nat : n = Cardinality({u \in Threads : FinalV(u)})
    BY FinalsAreFinite
  <2>4. cnt[ReaperSem] + n + Unspent = Len(d)
    BY <1>7, <2>3 DEF UnitsInv
  <2>5. cnt'[ReaperSem] + (n + 1) + Unspent' = Len(e)
    BY <1>i, <1>1, <1>6, <1>9, <2>4, UnitsTyping
  <2> QED
    BY <1>8, <2>1, <2>2, <2>3, <2>5 DEF UnitsInv
<1>11. ~Deleted(t) /\ t \notin freed
  BY <1>4 DEF DeleteInv, DeleteFor
<1>12. \A i \in 1 .. Len(d) : d[i] # t
  BY <1>7, <1>9, <1>11 DEF Deleted
<1>13. ASSUME NEW i \in DOMAIN e, NEW j \in DOMAIN e, e[i] = e[j] PROVE i = j
  <2>0. \A k, l \in 1 .. Len(d) : d[k] = d[l] => k = l
    BY <1>7, <1>9 DEF DeleteInv
  <2>1. CASE i = Len(d) + 1
    BY <2>1, <1>9, <1>12, <1>13
  <2>2. CASE j = Len(d) + 1
    BY <2>2, <1>9, <1>12, <1>13
  <2>3. CASE i \in 1 .. Len(d) /\ j \in 1 .. Len(d)
    BY <2>0, <2>3, <1>9, <1>13
  <2> QED
    BY <2>1, <2>2, <2>3, <1>9
<1>14. ASSUME NEW u \in Threads PROVE DeleteFor(u)'
  <2>1. DeleteFor(u)
    BY DEF DeleteInv
  <2>2. Deleted(u)' => Deleted(u) \/ u = t
    BY <1>7, <1>8, <1>9 DEF Deleted
  <2>3. delete_queue' # <<>> /\ delete_queue'[Len(delete_queue')] = t
    BY <1>8, <1>9
  <2>4. d # <<>> => Head(e) = Head(d)
    BY <1>9
  <2>5. CASE u = t
    BY <1>1, <1>4, <1>11, <2>3, <2>5 DEF DeleteFor
  <2>6. CASE u # t
    <3>1. FinalLock(u)' /\ HasUnit' => delete_queue' # <<>> /\ Head(delete_queue') # u
      BY <1>5, <1>6, <1>7, <1>8, <2>1, <2>3, <2>4, <2>6 DEF DeleteFor
    <3> QED
      BY <1>1, <1>5, <2>1, <2>2, <2>6, <3>1 DEF DeleteFor
  <2> QED
    BY <2>5, <2>6
<1> QED
  BY <1>8, <1>10, <1>13, <1>14 DEF DeleteInv

(* The assert of reap_proc: with a unit in hand there is work to do.        *)
LEMMA UnitHasEntry ==
    ASSUME RefInv, FinishedInv, UnitsInv, HasUnit
    PROVE  Len(delete_queue) >= 1
<1>1. TypeOK
  BY DEF RefInv, SynchInv
<1>2. cnt[ReaperSem] >= 0
  BY UnitMeansNoWaiter
<1>3. Unspent = 1
  BY DEF HasUnit, Unspent
<1>4. PICK n \in Nat : n = Cardinality({u \in Threads : FinalV(u)})
  BY FinalsAreFinite
<1> QED
  BY <1>1, <1>2, <1>3, <1>4, UnitsTyping DEF UnitsInv

LEMMA ReapStep ==
    ASSUME RefInv, FinishedInv, UnitsInv, DeleteInv, Reap
    PROVE  UnitsInv' /\ DeleteInv'
<1>i. TypeOK
  BY DEF RefInv, SynchInv
<1>1. /\ active_thread = Reaper /\ pc[Reaper] = "reap" /\ pc' = [pc EXCEPT ![Reaper] = "run"]
      /\ delete_queue # <<>> /\ delete_queue' = Tail(delete_queue)
      /\ freed' = freed \cup {Head(delete_queue)}
      /\ UNCHANGED <<active_thread, cnt, sema_queue, sem>>
  BY DEF Reap, At, Goto, dispatchVars
<1>2. /\ Reaper \in Threads /\ pc'[Reaper] = "run"
      /\ \A u \in Threads \ {Reaper} : pc'[u] = pc[u]
  BY <1>i, <1>1, SynchAssumption, DispatcherAssumption DEF TypeOK
<1>3. Unspent = 1 /\ Unspent' = 0 /\ HasUnit /\ ~HasUnit'
  BY <1>1, <1>2 DEF Unspent, HasUnit, Waits
<1>4. \A u \in Threads : /\ FinalV(u)' <=> FinalV(u)
                         /\ Appended(u)' <=> Appended(u)
                         /\ FinalLock(u)' <=> FinalLock(u)
  BY <1>1, <1>2 DEF FinalV, Appended, FinalLock, VSteps
<1>5. PICK d \in Seq(Threads) : d = delete_queue
  BY <1>i, UnitsTyping
<1>6. PICK e : e = delete_queue'
  OBVIOUS
<1>7. PICK h : h = Head(d)
  OBVIOUS
<1>8. /\ e \in Seq(Threads) /\ h \in Threads /\ h = d[1]
      /\ Len(d) \in Nat \ {0} /\ Len(e) = Len(d) - 1
      /\ DOMAIN d = 1 .. Len(d) /\ DOMAIN e = 1 .. Len(e)
  BY <1>1, <1>5, <1>6, <1>7, HeadTailProperties, LenProperties, EmptySeq
<1>9. \A i \in 1 .. Len(e) : e[i] = d[i + 1]
  BY <1>1, <1>5, <1>6, HeadTailProperties
<1>10. \A i, j \in 1 .. Len(d) : d[i] = d[j] => i = j
  BY <1>5, <1>8 DEF DeleteInv
<1>11. UnitsInv'
  <2>1. {u \in Threads : FinalV(u)'} = {u \in Threads : FinalV(u)}
    BY <1>4
  <2>2. PICK n \in Nat : n = Cardinality({u \in Threads : FinalV(u)})
    BY FinalsAreFinite
  <2>3. cnt[ReaperSem] + n + Unspent = Len(d)
    BY <1>5, <2>2 DEF UnitsInv
  <2>4. cnt'[ReaperSem] + n + Unspent' = Len(e)
    BY <1>i, <1>1, <1>3, <1>8, <2>3, UnitsTyping
  <2> QED
    BY <1>6, <2>1, <2>2, <2>4 DEF UnitsInv
<1>12. ASSUME NEW i \in DOMAIN e, NEW j \in DOMAIN e, e[i] = e[j] PROVE i = j
  <2>1. d[i + 1] = d[j + 1] /\ i + 1 \in 1 .. Len(d) /\ j + 1 \in 1 .. Len(d)
    BY <1>8, <1>9, <1>12
  <2>2. i + 1 = j + 1
    BY <2>1, <1>10
  <2> QED
    BY <2>2, <1>8
<1>13. ASSUME NEW u \in Threads, Deleted(u)' PROVE Deleted(u) /\ u # h
  <2>1. PICK i \in 1 .. Len(e) : e[i] = u
    BY <1>6, <1>8, <1>13 DEF Deleted
  <2>2. d[i + 1] = u /\ i + 1 \in 1 .. Len(d) /\ i + 1 # 1 /\ 1 \in 1 .. Len(d)
    BY <1>8, <1>9, <2>1
  <2> QED
    BY <1>5, <1>8, <1>10, <2>2 DEF Deleted
<1>14. Deleted(h) /\ Appended(h)
  <2>1. Deleted(h)
    BY <1>5, <1>8 DEF Deleted
  <2> QED
    BY <2>1, <1>8 DEF DeleteInv, DeleteFor
<1>15. h # Reaper /\ ~FinalLock(h)
  <2>1. h # Reaper
    BY <1>8, <1>14, AppendedIsFinished
  <2>2. FinalLock(h) => Head(delete_queue) # h
    BY <1>3, <1>8 DEF DeleteInv, DeleteFor
  <2> QED
    BY <2>1, <2>2, <1>5, <1>7
<1>16. ASSUME NEW u \in Threads PROVE DeleteFor(u)'
  <2>1. DeleteFor(u)
    BY DEF DeleteInv
  <2>2. freed' = freed \cup {h}
    BY <1>1, <1>5, <1>7
  <2>3. ~FinalV(u) \/ active_thread # u
    BY <1>1, <1>2, AppendedIsFinished
  <2> QED
    BY <1>1, <1>3, <1>4, <1>13, <1>14, <1>15, <2>1, <2>2, <2>3 DEF DeleteFor
<1> QED
  BY <1>6, <1>11, <1>12, <1>16 DEF DeleteInv

-----------------------------------------------------------------------------
(* The invariant and the properties of the reaper.                          *)

LEMMA ReapInvStep ==
    ASSUME RefInv, RefInv', ReapInv, [Next]_vars
    PROVE  ReapInv'
<1>1. FinishedInv /\ UnitsInv /\ DeleteInv /\ TypeOK /\ TypeOK'
  BY DEF ReapInv, RefInv, SynchInv
<1>2. FinishedInv'
  BY <1>1, FinishedStep
<1> DEFINE InP(t) == SpinP(t) \/ TakeP(t) \/ QueueP(t) \/ ClearP(t) \/ SleepP(t) \/ YieldP(t)
                          \/ ReturnP(t)
           InFinalV(t) == FinalV(t) /\ (SpinV(t) \/ IncrementV(t))
<1>3. ASSUME NEW t \in Threads, InP(t) PROVE ReapInv'
  BY <1>1, <1>2, <1>3, PStepIsQuiet, QuietStep DEF ReapInv
<1>4. ASSUME NEW t \in Threads, FinalAppend(t) \/ InFinalV(t) PROVE ReapInv'
  BY <1>1, <1>2, <1>4, FinalAppendStep, FinalSpinStep, FinalIncrementStep DEF ReapInv
<1>5. CASE Reap
  BY <1>1, <1>2, <1>5, ReapStep DEF ReapInv
<1>6. CASE ~Reap /\ \A t \in Threads : ~InP(t) /\ ~FinalAppend(t) /\ ~InFinalV(t)
  <2>1. Quiet
    BY <1>1, <1>2, <1>6, OtherStepIsQuiet
  <2> QED
    BY <1>1, <1>2, <2>1, QuietStep DEF ReapInv
<1> HIDE DEF InP, InFinalV
<1> QED
  BY <1>3, <1>4, <1>5, <1>6

LEMMA ReapInvInit == Init => ReapInv
<1> SUFFICES ASSUME Init PROVE ReapInv
  OBVIOUS
<1>1. /\ pc = [t \in Threads |-> "run"] /\ delete_queue = <<>> /\ freed = {}
      /\ cnt = InitialCnt
      /\ \A t \in Threads : status[t] # "DESTROYED"
  BY DEF Init, DispatchInit
<1>2. \A t \in Threads : ~FinalV(t) /\ ~FinalLock(t) /\ ~Appended(t)
  BY <1>1 DEF FinalV, FinalLock, Appended, VSteps
<1>3. FinishedInv
  BY <1>1, <1>2 DEF FinishedInv, FinishedFor, PSteps
<1>4. UnitsInv
  <2>1. {t \in Threads : FinalV(t)} = {}
    BY <1>2
  <2>2. Reaper \in Threads /\ cnt[ReaperSem] = 0
    BY <1>1, SynchAssumption, DispatcherAssumption
  <2>3. Unspent = 0
    BY <1>1, <2>2 DEF Unspent, Waits
  <2>4. Cardinality({t \in Threads : FinalV(t)}) = 0
    BY <2>1, FS_EmptySet
  <2>5. Len(delete_queue) = 0
    BY <1>1
  <2> QED
    BY <2>2, <2>3, <2>4, <2>5 DEF UnitsInv
<1>5. DeleteInv
  BY <1>1, <1>2 DEF DeleteInv, DeleteFor, Deleted
<1> QED
  BY <1>3, <1>4, <1>5 DEF ReapInv

LEMMA ReapInvariant == ASSUME HandlersSignalMasked PROVE Spec => []ReapInv
<1>1. Init => ReapInv
  BY ReapInvInit
<1>2. RefInv /\ RefInv' /\ ReapInv /\ [Next]_vars => ReapInv'
  BY ReapInvStep
<1> QED
  BY <1>1, <1>2, RefInvariant, PTL DEF Spec

(* After its P the reaper finds a thread on the delete queue (the assert of *)
(* reap_proc), wherever the finishing threads were preempted: finalproc     *)
(* appends before it signals, and nobody else signals or takes an entry.    *)
THEOREM ReaperAlwaysFindsWork ==
    ASSUME HandlersSignalMasked
    PROVE  Spec => []ReaperFindsWork
<1>1. RefInv /\ ReapInv => ReaperFindsWork
  BY UnitHasEntry DEF ReaperFindsWork, ReapInv, HasUnit
<1> QED
  BY <1>1, RefInvariant, ReapInvariant, PTL

(* The stack and the control block that reap_proc frees are of a thread     *)
(* that never runs again, is on no queue and holds no lock, although the    *)
(* thread is put on the delete queue while it still runs on that stack and  *)
(* can be preempted before its last yield.                                  *)
THEOREM ReapedStaysUnreachable ==
    ASSUME HandlersSignalMasked
    PROVE  Spec => []ReapedIsUnreachable
<1>1. RefInv /\ ReapInv => ReapedIsUnreachable
  <2> SUFFICES ASSUME RefInv, ReapInv, NEW t \in freed
               PROVE  /\ active_thread # t
                      /\ ready[t] = 0
                      /\ ~Blocked(t)
                      /\ pc[t] \notin Critical
                      /\ \A i \in DOMAIN delete_queue : delete_queue[i] # t
    BY DEF ReapedIsUnreachable
  <2>1. t \in Threads
    BY DEF RefInv, SynchInv, TypeOK
  <2>2. DeleteFor(t) /\ FinishedFor(t)
    BY <2>1 DEF ReapInv, DeleteInv, FinishedInv
  <2>3. active_thread # t /\ Appended(t) /\ ~FinalLock(t) /\ ~Deleted(t)
    BY <2>2 DEF DeleteFor
  <2>4. ready[t] = 0 /\ pc[t] \notin Critical /\ pc[t] \notin Waits
    BY <2>2, <2>3 DEF FinishedFor, Appended, FinalV, FinalLock, VSteps, Critical, Waits
  <2>5. ~Blocked(t)
    BY <2>1, <2>4 DEF Blocked, RefInv, QueueInv
  <2> QED
    BY <2>3, <2>4, <2>5 DEF Deleted
<1> QED
  BY <1>1, RefInvariant, ReapInvariant, PTL

=============================================================================
