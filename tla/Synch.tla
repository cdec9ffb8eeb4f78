-------------------------------- MODULE Synch --------------------------------
(***************************************************************************)
(* Semaphores and the life of a thread: synch.c, with minithread_start,    *)
(* minithread_unlock_and_stop, finalproc and reap_proc of minithread.c, on *)
(* the dispatcher of module Dispatcher.                                    *)
(*                                                                         *)
(* A semaphore is a count, a FIFO queue of threads and a test-and-set      *)
(* lock.  The code takes the lock by spinning, disables interrupts, works, *)
(* and gives the lock back; in the blocking branch of semaphore_P it       *)
(* restores interrupts before it gives the lock back and goes to sleep.    *)
(* So what may happen in between depends on the caller: one that disabled  *)
(* interrupts before the call (every use in minithread.c, minimsg.c and    *)
(* minisocket.c but a few, which the README lists) runs the whole call     *)
(* without interruption, one that did not can be preempted at each of the  *)
(* steps below.  MaskedP and MaskedV say which, per semaphore.             *)
(***************************************************************************)
EXTENDS Dispatcher, Sequences

CONSTANTS
    Sems,           \* the semaphores
    ReaperSem,      \* schedule_reaper_thread
    Reaper,         \* reaper_thread
    InitialCnt,     \* per semaphore: the count semaphore_initialize gave it
    MaskedP,        \* semaphores on which P is called with interrupts disabled
    MaskedV,        \* semaphores on which V is called with interrupts disabled
    HandlerSems,    \* semaphores on which an interrupt handler calls V
    Exiting,        \* threads whose main procedure may return
    MaxCnt          \* bound: no V is begun on a semaphore whose count is this

ASSUME SynchAssumption ==
    /\ ReaperSem \in Sems
    /\ Reaper \in Boot
    /\ InitialCnt \in [Sems -> Nat]
    /\ InitialCnt[ReaperSem] = 0
    /\ MaskedP \subseteq Sems \ {ReaperSem}
    /\ MaskedV \subseteq Sems \ {ReaperSem}
    /\ HandlerSems \subseteq Sems \ {ReaperSem}
    /\ Exiting \subseteq Threads \ {Reaper}
    /\ MaxCnt \in Nat

VARIABLES
    cnt,            \* per semaphore
    sema_queue,     \* per semaphore: the threads queued by P
    lock,           \* per semaphore: is the test-and-set lock taken
    pc,             \* per thread: the next step of the call it is in
    sem,            \* per thread: the semaphore of that call
    delete_queue,   \* the finished threads the reaper has to free
    freed,          \* the threads it has freed
    caught          \* ghost: the threads woken on their way to sleep

synchVars == <<cnt, sema_queue, lock, pc, sem, delete_queue, freed, caught>>
vars == <<active_thread, status, ready, size, forking,
          cnt, sema_queue, lock, pc, sem, delete_queue, freed, caught>>

PSteps == {"P_tas", "P_dec", "P_clear", "P_sleep", "P_yield", "P_wait"}
VSteps == {"V_tas", "V_inc"}
Steps == {"run", "reap", "final_append", "final_yield", "dead"}
             \cup PSteps \cup VSteps

(* The steps between taking and giving back the lock of sem[t].             *)
Critical == {"P_dec", "P_clear", "V_inc"}

(* Mutant: the callers do not disable interrupts.                           *)
InterruptsEnabled_Always == TRUE

(* Interrupts are disabled across a call whose caller disabled them, and    *)
(* inside the steps that are one action here.                               *)
InterruptsEnabled ==
    active_thread \in Threads =>
        /\ pc[active_thread] \in PSteps => sem[active_thread] \notin MaskedP
        /\ pc[active_thread] \in VSteps => sem[active_thread] \notin MaskedV

(* t runs, is not inside minithread_fork, and is about to do step p.        *)
At(t, p) == active_thread = t /\ t \notin forking /\ pc[t] = p

Goto(t, p) == pc' = [pc EXCEPT ![t] = p]

-----------------------------------------------------------------------------
Init ==
    /\ DispatchInit
    /\ cnt = InitialCnt
    /\ sema_queue = [s \in Sems |-> <<>>]
    /\ lock = [s \in Sems |-> FALSE]
    /\ pc = [t \in Threads |-> "run"]
    /\ sem = [t \in Threads |-> ReaperSem]
    /\ delete_queue = <<>>
    /\ freed = {}
    /\ caught = {}

(* The reaper's loop is P on its semaphore and a reaping; the others may    *)
(* call P on any other semaphore.                                           *)
CallP(t, s) ==
    /\ At(t, "run")
    /\ t = Reaper <=> s = ReaperSem
    /\ Goto(t, "P_tas")
    /\ sem' = [sem EXCEPT ![t] = s]
    /\ UNCHANGED <<cnt, sema_queue, lock, delete_queue, freed, caught>>
    /\ UNCHANGED dispatchVars

(* A thread that leaves P awake has got over being caught.                  *)
Recover(t) == caught' = IF status[t] = "OK" THEN caught \ {t} ELSE caught

AfterP(t) == IF t = Reaper THEN "reap" ELSE "run"

(* Mutant: the lock is set without being tested.                            *)
SpinP_NoTest(t) ==
    /\ At(t, "P_tas")
    /\ lock' = [lock EXCEPT ![sem[t]] = TRUE]
    /\ Goto(t, "P_dec")
    /\ UNCHANGED <<cnt, sema_queue, sem, delete_queue, freed, caught>>
    /\ UNCHANGED dispatchVars

(* semaphore_P: the spin ends.                                              *)
SpinP(t) ==
    /\ At(t, "P_tas")
    /\ ~lock[sem[t]]
    /\ lock' = [lock EXCEPT ![sem[t]] = TRUE]
    /\ Goto(t, "P_dec")
    /\ UNCHANGED <<cnt, sema_queue, sem, delete_queue, freed, caught>>
    /\ UNCHANGED dispatchVars

(* Mutant: a count of zero passes.                                          *)
TakeP_OffByOne(t) ==
    /\ At(t, "P_dec")
    /\ cnt[sem[t]] >= 0
    /\ cnt' = [cnt EXCEPT ![sem[t]] = @ - 1]
    /\ lock' = [lock EXCEPT ![sem[t]] = FALSE]
    /\ Goto(t, AfterP(t))
    /\ Recover(t)
    /\ UNCHANGED <<sema_queue, sem, delete_queue, freed>>
    /\ UNCHANGED dispatchVars

(* semaphore_P with interrupts disabled: take a unit and be done, ...       *)
TakeP(t) ==
    /\ At(t, "P_dec")
    /\ cnt[sem[t]] > 0
    /\ cnt' = [cnt EXCEPT ![sem[t]] = @ - 1]
    /\ lock' = [lock EXCEPT ![sem[t]] = FALSE]
    /\ Goto(t, AfterP(t))
    /\ Recover(t)
    /\ UNCHANGED <<sema_queue, sem, delete_queue, freed>>
    /\ UNCHANGED dispatchVars

(* ... or join the queue, and restore the caller's interrupts.              *)
QueueP(t) ==
    /\ At(t, "P_dec")
    /\ cnt[sem[t]] <= 0
    /\ cnt' = [cnt EXCEPT ![sem[t]] = @ - 1]
    /\ sema_queue' = [sema_queue EXCEPT ![sem[t]] = Append(@, t)]
    /\ Goto(t, "P_clear")
    /\ UNCHANGED <<lock, sem, delete_queue, freed, caught>>
    /\ UNCHANGED dispatchVars

(* minithread_unlock_and_stop: give the lock back, ...                      *)
ClearP(t) ==
    /\ At(t, "P_clear")
    /\ lock' = [lock EXCEPT ![sem[t]] = FALSE]
    /\ Goto(t, "P_sleep")
    /\ UNCHANGED <<cnt, sema_queue, sem, delete_queue, freed, caught>>
    /\ UNCHANGED dispatchVars

(* ... become SLEEPING, ...                                                 *)
SleepP(t) ==
    /\ At(t, "P_sleep")
    /\ status' = [status EXCEPT ![t] = "SLEEPING"]
    /\ Goto(t, "P_yield")
    /\ UNCHANGED <<active_thread, ready, size, forking>>
    /\ UNCHANGED <<cnt, sema_queue, lock, sem, delete_queue, freed, caught>>

(* ... and yield.                                                           *)
YieldP(t) ==
    /\ At(t, "P_yield")
    /\ minithread_yield(Runnable)
    /\ Goto(t, "P_wait")
    /\ UNCHANGED <<status, forking, cnt, sema_queue, lock, sem, delete_queue, freed, caught>>

(* The yield has returned, and so does P.                                   *)
ReturnP(t) ==
    /\ At(t, "P_wait")
    /\ Goto(t, AfterP(t))
    /\ Recover(t)
    /\ UNCHANGED <<cnt, sema_queue, lock, sem, delete_queue, freed>>
    /\ UNCHANGED dispatchVars

-----------------------------------------------------------------------------
CallV(t, s) ==
    /\ At(t, "run")
    /\ t # Reaper
    /\ s # ReaperSem
    /\ cnt[s] < MaxCnt
    /\ Goto(t, "V_tas")
    /\ sem' = [sem EXCEPT ![t] = s]
    /\ UNCHANGED <<cnt, sema_queue, lock, delete_queue, freed, caught>>
    /\ UNCHANGED dispatchVars

(* The last V a thread calls is finalproc's, after which it yields.         *)
AfterV(t) == IF status[t] = "DESTROYED" THEN "final_yield" ELSE "run"

SpinV(t) ==
    /\ At(t, "V_tas")
    /\ ~lock[sem[t]]
    /\ lock' = [lock EXCEPT ![sem[t]] = TRUE]
    /\ Goto(t, "V_inc")
    /\ UNCHANGED <<cnt, sema_queue, sem, delete_queue, freed, caught>>
    /\ UNCHANGED dispatchVars

(* t has given the lock back and not yet yielded, and can be preempted.  A  *)
(* V on its semaphore now starts a thread that is about to go to sleep.     *)
FallingAsleep(t) == pc[t] \in {"P_sleep", "P_yield"} /\ sem[t] \notin MaskedP

Catch(t) == caught' = IF FallingAsleep(t) THEN caught \cup {t} ELSE caught

(* Mutant: the last waiter is started.                                      *)
Increment_Last(s) ==
    /\ cnt' = [cnt EXCEPT ![s] = @ + 1]
    /\ IF cnt[s] < 0
       THEN /\ minithread_start(sema_queue[s][Len(sema_queue[s])])
            /\ sema_queue' = [sema_queue EXCEPT ![s] = SubSeq(@, 1, Len(@) - 1)]
            /\ Catch(sema_queue[s][Len(sema_queue[s])])
       ELSE UNCHANGED <<status, ready, size, sema_queue, caught>>
    /\ UNCHANGED <<active_thread, forking>>

(* Mutant: the waiter is dequeued and not started.                          *)
Increment_NoStart(s) ==
    /\ cnt' = [cnt EXCEPT ![s] = @ + 1]
    /\ IF cnt[s] < 0 THEN /\ sema_queue' = [sema_queue EXCEPT ![s] = Tail(@)]
                          /\ Catch(Head(sema_queue[s]))
                     ELSE UNCHANGED <<sema_queue, caught>>
    /\ UNCHANGED <<active_thread, status, ready, size, forking>>

(* semaphore_V with interrupts disabled: count the unit and start the first *)
(* waiter, if the count says that there is one.                             *)
Increment(s) ==
    /\ cnt' = [cnt EXCEPT ![s] = @ + 1]
    /\ IF cnt[s] < 0
       THEN /\ minithread_start(Head(sema_queue[s]))
            /\ sema_queue' = [sema_queue EXCEPT ![s] = Tail(@)]
            /\ Catch(Head(sema_queue[s]))
       ELSE UNCHANGED <<status, ready, size, sema_queue, caught>>
    /\ UNCHANGED <<active_thread, forking>>

IncrementV(t) ==
    /\ At(t, "V_inc")
    /\ Increment(sem[t])
    /\ lock' = [lock EXCEPT ![sem[t]] = FALSE]
    /\ Goto(t, AfterV(t))
    /\ UNCHANGED <<sem, delete_queue, freed>>

(* A handler's V: the clock handler's on alarm_sema, the network handler's  *)
(* on the ports' and sockets' semaphores.  Nothing can interrupt it, so it  *)
(* is one action, and it never ends if it finds the lock taken: that case   *)
(* is property HandlersNeverSpin.                                           *)
HandlerV(s) ==
    /\ InterruptsEnabled
    /\ ~lock[s]
    /\ cnt[s] < MaxCnt
    /\ Increment(s)
    /\ UNCHANGED <<lock, pc, sem, delete_queue, freed>>

-----------------------------------------------------------------------------
(* Mutant: the reaper is signalled, the delete queue forgotten.             *)
FinalStatus_NoAppend(t) ==
    /\ At(t, "run")
    /\ t \in Exiting
    /\ status' = [status EXCEPT ![t] = "DESTROYED"]
    /\ caught' = caught \ {t}
    /\ Goto(t, "V_tas")
    /\ sem' = [sem EXCEPT ![t] = ReaperSem]
    /\ UNCHANGED <<active_thread, ready, size, forking>>
    /\ UNCHANGED <<cnt, sema_queue, lock, delete_queue, freed>>

(* finalproc: the status first, interrupts still enabled, ...               *)
FinalStatus(t) ==
    /\ At(t, "run")
    /\ t \in Exiting
    /\ status' = [status EXCEPT ![t] = "DESTROYED"]
    /\ caught' = caught \ {t}
    /\ Goto(t, "final_append")
    /\ UNCHANGED <<active_thread, ready, size, forking>>
    /\ UNCHANGED <<cnt, sema_queue, lock, sem, delete_queue, freed>>

(* ... then the delete queue, ...                                           *)
FinalAppend(t) ==
    /\ At(t, "final_append")
    /\ delete_queue' = Append(delete_queue, t)
    /\ Goto(t, "V_tas")
    /\ sem' = [sem EXCEPT ![t] = ReaperSem]
    /\ UNCHANGED <<cnt, sema_queue, lock, freed, caught>>
    /\ UNCHANGED dispatchVars

(* ... and, after V(schedule_reaper_thread), the last yield.                *)
FinalYield(t) ==
    /\ At(t, "final_yield")
    /\ minithread_yield(Runnable)
    /\ Goto(t, "dead")
    /\ UNCHANGED <<status, forking, cnt, sema_queue, lock, sem, delete_queue, freed, caught>>

(* reap_proc after its P: free the first thread of the delete queue.        *)
Reap ==
    /\ At(Reaper, "reap")
    /\ delete_queue # <<>>
    /\ delete_queue' = Tail(delete_queue)
    /\ freed' = freed \cup {Head(delete_queue)}
    /\ Goto(Reaper, "run")
    /\ UNCHANGED <<cnt, sema_queue, lock, sem, caught>>
    /\ UNCHANGED dispatchVars

(* minithread_fork.                                                         *)
Fork(t) ==
    /\ active_thread \in Threads
    /\ pc[active_thread] = "run"
    /\ ForkAppend(t)
    /\ UNCHANGED synchVars

EndFork ==
    /\ ForkCount
    /\ UNCHANGED synchVars

(* The running thread yields, by its own call or because the clock handler  *)
(* found its quota expired; the idle thread does nothing else.              *)
Yield ==
    /\ InterruptsEnabled
    /\ Switch
    /\ UNCHANGED synchVars

-----------------------------------------------------------------------------
(* The steps a thread takes inside a call once it has begun it.             *)
CallStep(t) ==
    \/ SpinP(t) \/ TakeP(t) \/ QueueP(t) \/ ClearP(t) \/ SleepP(t) \/ YieldP(t)
    \/ ReturnP(t)
    \/ SpinV(t) \/ IncrementV(t)
    \/ FinalAppend(t) \/ FinalYield(t)

Next ==
    \/ \E t \in Threads : CallStep(t) \/ FinalStatus(t) \/ Fork(t)
    \/ \E t \in Threads, s \in Sems : CallP(t, s) \/ CallV(t, s)
    \/ \E s \in HandlerSems : HandlerV(s)
    \/ Reap
    \/ EndFork
    \/ Yield

Spec == Init /\ [][Next]_vars

(* The dispatch of t.  That a ready thread eventually runs is what          *)
(* ReadyEventuallyRuns shows of the scheduler when no fork is caught in its *)
(* window.                                                                  *)
SwitchTo(t) ==
    /\ active_thread # t
    /\ Yield \/ \E u \in Threads : YieldP(u) \/ FinalYield(u)
    /\ active_thread' = t

(* The running thread goes on with its call, and the clock ticks.           *)
FairSpec ==
    /\ Spec
    /\ WF_vars(Yield)
    /\ \A t \in Threads : WF_vars(CallStep(t)) /\ SF_vars(SwitchTo(t))

-----------------------------------------------------------------------------
(* Properties.                                                              *)

Queued(t, s) == \E i \in DOMAIN sema_queue[s] : sema_queue[s][i] = t
Blocked(t) == \E s \in Sems : Queued(t, s)

(* Typing.                                                                  *)
TypeOK ==
    /\ active_thread \in Threads \cup {Idle}
    /\ status \in [Threads -> Statuses]
    /\ ready \in [Threads -> Nat]
    /\ size \in Nat
    /\ forking \subseteq Threads
    /\ cnt \in [Sems -> Int]
    /\ sema_queue \in [Sems -> Seq(Threads)]
    /\ lock \in [Sems -> BOOLEAN]
    /\ pc \in [Threads -> Steps]
    /\ sem \in [Threads -> Sems]
    /\ delete_queue \in Seq(Threads)
    /\ freed \subseteq Threads
    /\ caught \subseteq Threads

(* The test-and-set lock does its work: at most one thread is between the   *)
(* spin and the clearing of a semaphore's lock, and the lock is taken       *)
(* exactly when there is one, wherever that thread was preempted.           *)
LockExclusive ==
    /\ \A t, u \in Threads :
          (pc[t] \in Critical /\ pc[u] \in Critical /\ sem[t] = sem[u]) => t = u
    /\ \A s \in Sems : lock[s] <=> \E t \in Threads : pc[t] \in Critical /\ sem[t] = s

(* A negative count is exactly the number of queued threads, so a V that    *)
(* finds the count negative finds a thread to start.                        *)
WaitQueueExact ==
    \A s \in Sems : Len(sema_queue[s]) = IF cnt[s] < 0 THEN -cnt[s] ELSE 0

(* A created thread that has not finished but does not run, and that no     *)
(* queue remembers.                                                         *)
Lost(t) ==
    /\ status[t] \notin {"unborn", "DESTROYED"}
    /\ active_thread # t
    /\ ready[t] = 0
    /\ ~Blocked(t)

(* A thread that blocks in P is found by a V: what the words "atomically    *)
(* release the lock and block" promise (minithread.h:106-107).              *)
NoLostThread == \A t \in Threads : ~Lost(t)

(* The V in that gap is the only way to lose a thread: whoever exits and    *)
(* whatever P and V others call with interrupts enabled, a thread that no V *)
(* has caught there, or that has left P awake since, is running, ready, or  *)
(* queued where a V finds it.                                               *)
OnlyCaughtAreLost == \A t \in Threads : Lost(t) => t \in caught

(* An interrupt handler never finds the lock of its semaphore taken: with   *)
(* interrupts disabled it would spin for ever.                              *)
HandlersNeverSpin ==
    InterruptsEnabled => \A s \in HandlerSems : ~lock[s]

(* The reaper is woken once per finished thread: after its P the delete     *)
(* queue has an entry for it (the assert of minithread.c:443).              *)
ReaperFindsWork == pc[Reaper] = "reap" => delete_queue # <<>>

(* What the reaper frees is never used again: the freed thread does not     *)
(* run, no queue refers to it, and it holds no lock.                        *)
ReapedIsUnreachable ==
    \A t \in freed :
        /\ active_thread # t
        /\ ready[t] = 0
        /\ ~Blocked(t)
        /\ pc[t] \notin Critical
        /\ \A i \in DOMAIN delete_queue : delete_queue[i] # t

(* The semaphores implement the abstract ones: no unit is lost or made up,  *)
(* waiters are served in order, and P returns to a thread that waited only  *)
(* after a V was handed to it.                                              *)
Granted == {t \in Threads : /\ pc[t] \in {"P_clear", "P_sleep", "P_yield", "P_wait"}
                            /\ ~Queued(t, sem[t])}

Abs == INSTANCE CountingSemaphores WITH
          value <- [s \in Sems |-> IF cnt[s] > 0 THEN cnt[s] ELSE 0],
          waiting <- sema_queue,
          granted <- Granted

ImplementsSemaphores == Abs!Spec

(* The same, and a P whose turn has come returns.                           *)
ImplementsFairSemaphores == Abs!FairSpec

=============================================================================
