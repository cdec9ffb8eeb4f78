----------------------------- MODULE Dispatcher -----------------------------
(***************************************************************************)
(* What the rest of the system relies on of the dispatcher of minithreads  *)
(* (minithread.c on top of scheduler.c): one thread runs at a time, the    *)
(* ready threads are a bag, and switching away from the running thread     *)
(* puts it back into the bag only if its status is OK.  WHICH ready thread *)
(* runs next is left open here; module Scheduler says which one and is     *)
(* checked to implement this module.  Module Synch builds the semaphores   *)
(* and the life of a thread on it.                                         *)
(*                                                                         *)
(* The bag counts entries: nothing in the code keeps a thread from being   *)
(* put on the ready queue twice, and module Synch shows that it happens.   *)
(*                                                                         *)
(* scheduler_schedule appends the thread first and counts it in "size"     *)
(* afterwards (scheduler.c:50-54).  Every caller but one has interrupts    *)
(* disabled; minithread_fork has not, so its two halves are two actions,   *)
(* and "forking" holds the threads that are between them.                  *)
(***************************************************************************)
EXTENDS Integers, FiniteSets

CONSTANTS
    Threads,    \* every minithread that can be created, forked ones included
    Idle,       \* the idle thread, which is never on the ready queue
    Main,       \* the thread system_initialize switches to
    Boot        \* the threads forked before the clock starts (reaper, alarm)

ASSUME DispatcherAssumption ==
    /\ IsFiniteSet(Threads)
    /\ Idle \notin Threads
    /\ Main \in Threads
    /\ Boot \subseteq Threads \ {Main}

VARIABLES
    active_thread,  \* the running thread
    status,         \* per thread: the status field; "unborn" before creation
    ready,          \* per thread: how many entries the ready queue has for it
    size,           \* scheduler.c's own count of those entries
    forking         \* the threads between the two halves of scheduler_schedule

dispatchVars == <<active_thread, status, ready, size, forking>>

Statuses == {"unborn", "OK", "SLEEPING", "DESTROYED"}

-----------------------------------------------------------------------------
(* Mutant: look at the queue, not at the count.                             *)
scheduler_next_thread_IgnoresSize(rd, sz) ==
    \/ /\ \A t \in Threads : rd[t] = 0
       /\ active_thread' = Idle
       /\ ready' = rd
       /\ size' = sz
    \/ \E t \in Threads :
          /\ rd[t] > 0
          /\ active_thread' = t
          /\ ready' = [u \in Threads |-> IF u = t THEN rd[u] - 1 ELSE rd[u]]
          /\ size' = sz - 1

(* The next thread: the idle thread when the count says that nobody is      *)
(* ready, else some entry of the bag.  rd and sz are the ready queue and    *)
(* its count once the running thread has been put back.                     *)
scheduler_next_thread(rd, sz) ==
    \/ /\ sz = 0
       /\ active_thread' = Idle
       /\ ready' = rd
       /\ size' = sz
    \/ \E t \in Threads :
          /\ sz > 0
          /\ rd[t] > 0
          /\ active_thread' = t
          /\ ready' = [u \in Threads |-> IF u = t THEN rd[u] - 1 ELSE rd[u]]
          /\ size' = sz - 1

(* minithread_yield.  "back" says whether the running thread is put back,   *)
(* that is, whether scheduler_schedule finds its status to be OK; the idle  *)
(* thread has a status of its own (IDLE) and never is.                      *)
minithread_yield(back) ==
    IF back
    THEN scheduler_next_thread([ready EXCEPT ![active_thread] = @ + 1], size + 1)
    ELSE scheduler_next_thread(ready, size)

(* Mutant: the status check of scheduler_schedule is missing.               *)
Runnable_Always == active_thread \in Threads

Runnable == active_thread \in Threads /\ status[active_thread] = "OK"

(* Mutant: only the status is changed, the thread is not scheduled.         *)
minithread_start_NotScheduled(t) ==
    /\ status' = [status EXCEPT ![t] = "OK"]
    /\ UNCHANGED <<ready, size>>

(* minithread_start of a thread whose status is OK or SLEEPING, called with *)
(* interrupts disabled.                                                     *)
minithread_start(t) ==
    /\ status' = [status EXCEPT ![t] = "OK"]
    /\ ready' = [ready EXCEPT ![t] = @ + 1]
    /\ size' = size + 1

-----------------------------------------------------------------------------
(* Before the clock starts the idle thread forks the Boot threads, then     *)
(* switches to Main (minithread.c:347-358).                                 *)
DispatchInit ==
    /\ active_thread = Main
    /\ status = [t \in Threads |-> IF t \in Boot \cup {Main} THEN "OK" ELSE "unborn"]
    /\ ready = [t \in Threads |-> IF t \in Boot THEN 1 ELSE 0]
    /\ size = Cardinality(Boot)
    /\ forking = {}

(* The running thread gives way, by its own call or from the clock handler. *)
Switch ==
    /\ minithread_yield(Runnable)
    /\ UNCHANGED <<status, forking>>

(* The running thread blocks: it sets its status to SLEEPING and yields.    *)
Stop ==
    /\ active_thread \notin forking
    /\ Runnable
    /\ status' = [status EXCEPT ![active_thread] = "SLEEPING"]
    /\ minithread_yield(FALSE)
    /\ UNCHANGED forking

(* The running thread ends; its next yield is its last.                     *)
Exit ==
    /\ active_thread \notin forking
    /\ Runnable
    /\ status' = [status EXCEPT ![active_thread] = "DESTROYED"]
    /\ UNCHANGED <<active_thread, ready, size, forking>>

(* A blocked thread is made ready again, with interrupts disabled.          *)
Wake(t) ==
    /\ status[t] = "SLEEPING"
    /\ minithread_start(t)
    /\ UNCHANGED <<active_thread, forking>>

(* minithread_fork up to the append of scheduler_schedule ...               *)
ForkAppend(t) ==
    /\ active_thread \in Threads \ forking
    /\ status[t] = "unborn"
    /\ status' = [status EXCEPT ![t] = "OK"]
    /\ ready' = [ready EXCEPT ![t] = @ + 1]
    /\ forking' = forking \cup {active_thread}
    /\ UNCHANGED <<active_thread, size>>

(* ... and the "size += 1" that follows it.                                 *)
ForkCount ==
    /\ active_thread \in forking
    /\ size' = size + 1
    /\ forking' = forking \ {active_thread}
    /\ UNCHANGED <<active_thread, status, ready>>

DispatchNext ==
    \/ Switch
    \/ Stop
    \/ Exit
    \/ \E t \in Threads : Wake(t) \/ ForkAppend(t)
    \/ ForkCount

DispatchSpec == DispatchInit /\ [][DispatchNext]_dispatchVars

=============================================================================
