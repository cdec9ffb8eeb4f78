------------------------------ MODULE Scheduler ------------------------------
(***************************************************************************)
(* The preemptive scheduler: scheduler.c and multilevel_queue.c with the   *)
(* callers in minithread.c that drive it (minithread_yield,                *)
(* minithread_start, minithread_fork, and the scheduling half of           *)
(* clock_handler).                                                         *)
(*                                                                         *)
(* The ready queue is one FIFO queue per priority level.  A dispatch looks *)
(* at the queues from current_level upwards, wrapping around.  The clock   *)
(* moves current_level and gives the running thread a quota of ticks; a    *)
(* thread that yields when the quota has just expired is demoted a level,  *)
(* any other yield promotes it.                                            *)
(***************************************************************************)
EXTENDS Integers, Sequences, FiniteSets, SequencesExt

CONSTANTS
    Threads, Idle, Main,
    BootOrder,          \* the threads forked before the clock starts, in order
    SCHEDULER_LEVELS,   \* the number of priority levels (4)
    TICKS_LEVEL         \* per level, TICKS_LEVEL_0 .. TICKS_LEVEL_3

Levels == 0 .. (SCHEDULER_LEVELS - 1)

ASSUME SchedulerAssumption ==
    /\ IsFiniteSet(Threads)
    /\ Idle \notin Threads
    /\ Main \in Threads
    /\ SCHEDULER_LEVELS \in Nat \ {0}
    /\ TICKS_LEVEL \in [Levels -> Nat]
    /\ BootOrder \in Seq(Threads \ {Main}) /\ IsInjective(BootOrder)

VARIABLES
    active_thread, status, size, forking,   \* as in module Dispatcher
    priority,                   \* per thread: its level, 0 the most urgent
    levels,                     \* per level: the queue of ready threads
    current_level,              \* where the next dispatch starts looking
    thread_ticks_remaining,     \* until the running thread's quota expires
    level_ticks_remaining       \* until current_level moves on

schedVars == <<active_thread, status, size, forking, priority, levels,
               current_level, thread_ticks_remaining, level_ticks_remaining>>

clockVars == <<current_level, thread_ticks_remaining, level_ticks_remaining>>

-----------------------------------------------------------------------------
(* multilevel_queue_enqueue.                                                *)
multilevel_queue_enqueue(lv, l, t) == [lv EXCEPT ![l] = Append(@, t)]

(* multilevel_queue_dequeue: l is the first level with an entry, counted    *)
(* upwards from "from" and wrapping around.                                 *)
FirstNonEmpty(lv, from, l) ==
    /\ lv[l] # <<>>
    /\ \A m \in Levels :
          lv[m] # <<>> => (l - from) % SCHEDULER_LEVELS <= (m - from) % SCHEDULER_LEVELS

(* Mutant: the count is not lowered.                                        *)
scheduler_next_thread_KeepsSize(lv, sz, from) ==
    \/ /\ sz = 0
       /\ active_thread' = Idle
       /\ levels' = lv
       /\ size' = sz
    \/ \E l \in Levels :
          /\ sz > 0
          /\ FirstNonEmpty(lv, from, l)
          /\ active_thread' = Head(lv[l])
          /\ levels' = [lv EXCEPT ![l] = Tail(@)]
          /\ size' = sz

(* Mutant: the entry is read but not removed.                               *)
scheduler_next_thread_KeepsEntry(lv, sz, from) ==
    \/ /\ sz = 0
       /\ active_thread' = Idle
       /\ levels' = lv
       /\ size' = sz
    \/ \E l \in Levels :
          /\ sz > 0
          /\ FirstNonEmpty(lv, from, l)
          /\ active_thread' = Head(lv[l])
          /\ levels' = lv
          /\ size' = sz - 1

(* lv and sz are the queues and the count once the running thread has been  *)
(* put back, from is current_level.  With a count above zero the queues are *)
(* not empty (SizeAccounting), so the NULL of line 67 is not reached.       *)
scheduler_next_thread(lv, sz, from) ==
    \/ /\ sz = 0
       /\ active_thread' = Idle
       /\ levels' = lv
       /\ size' = sz
    \/ \E l \in Levels :
          /\ sz > 0
          /\ FirstNonEmpty(lv, from, l)
          /\ active_thread' = Head(lv[l])
          /\ levels' = [lv EXCEPT ![l] = Tail(@)]
          /\ size' = sz - 1

scheduler_quota_expired(remaining) == remaining = 0

(* Mutant: no lowest priority.                                              *)
Reprioritised_NoFloor(p, expired) ==
    IF expired THEN p + 1 ELSE IF p - 1 > 0 THEN p - 1 ELSE 0

(* The priority minithread_yield gives the thread that yields.              *)
Reprioritised(p, expired) ==
    IF expired THEN IF p + 1 > SCHEDULER_LEVELS - 1 THEN SCHEDULER_LEVELS - 1 ELSE p + 1
               ELSE IF p - 1 > 0 THEN p - 1 ELSE 0

(* minithread_yield, with the level and the remaining quota it finds; "back" *)
(* says whether scheduler_schedule finds the running thread's status to be  *)
(* OK.  The idle thread's priority is never read: it is not tracked.        *)
minithread_yield(back, from, remaining) ==
    LET self == active_thread
        p == Reprioritised(priority[self], scheduler_quota_expired(remaining))
    IN IF self = Idle
       THEN scheduler_next_thread(levels, size, from) /\ UNCHANGED priority
       ELSE /\ priority' = [priority EXCEPT ![self] = p]
            /\ IF back
               THEN scheduler_next_thread(multilevel_queue_enqueue(levels, p, self),
                                          size + 1, from)
               ELSE scheduler_next_thread(levels, size, from)

Runnable == active_thread \in Threads /\ status[active_thread] = "OK"

-----------------------------------------------------------------------------
SchedInit ==
    /\ active_thread = Main
    /\ status = [t \in Threads |->
                    IF t = Main \/ t \in Range(BootOrder) THEN "OK" ELSE "unborn"]
    /\ size = Len(BootOrder)
    /\ forking = {}
    /\ priority = [t \in Threads |-> 0]
    /\ levels = [l \in Levels |-> IF l = 0 THEN BootOrder ELSE <<>>]
    /\ current_level = 0
    /\ thread_ticks_remaining = 1
    /\ level_ticks_remaining = TICKS_LEVEL[0]

(* The running thread calls minithread_yield; the idle thread does nothing  *)
(* else (minithread.c:360-362).                                             *)
Yield ==
    /\ active_thread \notin forking
    /\ minithread_yield(Runnable, current_level, thread_ticks_remaining)
    /\ UNCHANGED <<status, forking>>
    /\ UNCHANGED clockVars

(* Mutant: the status is set too late for scheduler_schedule to see it.     *)
Stop_Late ==
    /\ active_thread \notin forking
    /\ Runnable
    /\ status' = [status EXCEPT ![active_thread] = "SLEEPING"]
    /\ minithread_yield(TRUE, current_level, thread_ticks_remaining)
    /\ UNCHANGED forking
    /\ UNCHANGED clockVars

(* minithread_unlock_and_stop with interrupts disabled: the running thread  *)
(* blocks.  (What happens with interrupts enabled is module Synch's.)       *)
Stop ==
    /\ active_thread \notin forking
    /\ Runnable
    /\ status' = [status EXCEPT ![active_thread] = "SLEEPING"]
    /\ minithread_yield(FALSE, current_level, thread_ticks_remaining)
    /\ UNCHANGED forking
    /\ UNCHANGED clockVars

(* finalproc: the running thread ends; it is still running, with interrupts *)
(* enabled, until its last yield or the next dispatch by the clock.         *)
Exit ==
    /\ active_thread \notin forking
    /\ Runnable
    /\ status' = [status EXCEPT ![active_thread] = "DESTROYED"]
    /\ UNCHANGED <<active_thread, size, forking, priority, levels>>
    /\ UNCHANGED clockVars

(* minithread_start of a blocked thread, from semaphore_V: by the running   *)
(* thread or by an interrupt handler, with interrupts disabled.             *)
Wake(t) ==
    /\ status[t] = "SLEEPING"
    /\ status' = [status EXCEPT ![t] = "OK"]
    /\ levels' = multilevel_queue_enqueue(levels, priority[t], t)
    /\ size' = size + 1
    /\ UNCHANGED <<active_thread, forking, priority>>
    /\ UNCHANGED clockVars

(* minithread_fork, interrupts enabled: append the new thread, then count   *)
(* it.  A clock tick may come between the two.                              *)
ForkAppend(t) ==
    /\ active_thread \notin forking
    /\ Runnable
    /\ status[t] = "unborn"
    /\ status' = [status EXCEPT ![t] = "OK"]
    /\ levels' = multilevel_queue_enqueue(levels, priority[t], t)
    /\ forking' = forking \cup {active_thread}
    /\ UNCHANGED <<active_thread, size, priority>>
    /\ UNCHANGED clockVars

ForkCount ==
    /\ active_thread \in forking
    /\ size' = size + 1
    /\ forking' = forking \ {active_thread}
    /\ UNCHANGED <<active_thread, status, priority, levels>>
    /\ UNCHANGED clockVars

(* Mutant: the dispatches always start at level 0.                          *)
scheduler_advance_OneLevel ==
    /\ level_ticks_remaining' = IF level_ticks_remaining > 0 THEN level_ticks_remaining - 1
                                ELSE TICKS_LEVEL[0]
    /\ UNCHANGED current_level
    /\ thread_ticks_remaining' = IF thread_ticks_remaining > 0
                                 THEN thread_ticks_remaining - 1
                                 ELSE 2 ^ current_level'

(* scheduler_advance: count the tick against the level and the quota.  The  *)
(* new quota is that of the level the clock has just moved to.              *)
scheduler_advance ==
    /\ IF level_ticks_remaining > 0
       THEN /\ level_ticks_remaining' = level_ticks_remaining - 1
            /\ UNCHANGED current_level
       ELSE /\ current_level' = (current_level + 1) % SCHEDULER_LEVELS
            /\ level_ticks_remaining' = TICKS_LEVEL[current_level']
    /\ thread_ticks_remaining' = IF thread_ticks_remaining > 0
                                 THEN thread_ticks_remaining - 1
                                 ELSE 2 ^ current_level'

(* clock_handler without its alarms: the running thread, in the window of   *)
(* minithread_fork or not, yields when its quota is used up.                *)
Tick ==
    /\ scheduler_advance
    /\ IF scheduler_quota_expired(thread_ticks_remaining')
       THEN minithread_yield(Runnable, current_level', thread_ticks_remaining')
       ELSE UNCHANGED <<active_thread, size, priority, levels>>
    /\ UNCHANGED <<status, forking>>

SchedNext ==
    \/ Yield
    \/ Stop
    \/ Exit
    \/ \E t \in Threads : Wake(t) \/ ForkAppend(t)
    \/ ForkCount
    \/ Tick

(* The clock keeps ticking; nothing else is assumed of any thread.          *)
SchedSpec == SchedInit /\ [][SchedNext]_schedVars /\ WF_schedVars(Tick)

-----------------------------------------------------------------------------
(* Properties.                                                              *)

(* The entries of the queues, by level and position.                        *)
Slots == UNION {{l} \X DOMAIN levels[l] : l \in Levels}

Entries(t) == Cardinality({s \in Slots : levels[s[1]][s[2]] = t})

(* Typing of the scheduler's state.                                         *)
SchedTypeOK ==
    /\ active_thread \in Threads \cup {Idle}
    /\ status \in [Threads -> {"unborn", "OK", "SLEEPING", "DESTROYED"}]
    /\ size \in Nat
    /\ forking \subseteq Threads
    /\ priority \in [Threads -> Levels]
    /\ levels \in [Levels -> Seq(Threads)]
    /\ current_level \in Levels
    /\ thread_ticks_remaining \in 0 .. 2 ^ (SCHEDULER_LEVELS - 1)
    /\ level_ticks_remaining \in 0 .. TICKS_LEVEL[current_level]

(* A thread that may run is in exactly one place, the processor or one      *)
(* entry of the queue of its own priority; a blocked, finished or unborn    *)
(* one is in no queue.  Whatever mix of yields, preemptions, wake-ups and   *)
(* forks came before (minithread_yield, scheduler_schedule,                 *)
(* scheduler_next_thread), if threads block with interrupts disabled.       *)
OnePlace ==
    \A t \in Threads :
        LET running == IF active_thread = t THEN 1 ELSE 0
        IN /\ Entries(t) = IF status[t] = "OK" THEN 1 - running ELSE 0
           /\ \A l \in Levels : t \in Range(levels[l]) => l = priority[t]

(* scheduler.c's count lags behind the queues by exactly the forks caught   *)
(* between their append and their count, never more and never less; so the  *)
(* queues are never empty when the count says that they are not.  (They may *)
(* be non-empty when it says that they are: a tick in the window of a fork  *)
(* can send the processor to the idle thread while threads are ready.)      *)
SizeAccounting == size + Cardinality(forking) = Cardinality(Slots)

(* No starvation: a ready thread eventually runs, whatever its level and    *)
(* whatever the other threads do, as long as the clock ticks and no fork is *)
(* caught in its window.                                                    *)
ReadyEventuallyRuns ==
    \A t \in Threads : Entries(t) > 0 ~> (active_thread = t \/ forking # {})

(* The multilevel queue implements the bag of ready threads the rest of the *)
(* project relies on.                                                       *)
D == INSTANCE Dispatcher WITH
        Boot <- Range(BootOrder),
        ready <- [t \in Threads |-> Entries(t)]

ImplementsDispatcher == D!DispatchSpec

=============================================================================
