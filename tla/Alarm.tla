-------------------------------- MODULE Alarm --------------------------------
(***************************************************************************)
(* Alarms: alarm.c, with the alarm half of clock_handler, trigger_alarm,   *)
(* alarm_proc, minithread_wake and minithread_sleep_with_timeout of        *)
(* minithread.c.                                                           *)
(*                                                                         *)
(* The clock handler signals alarm_sema once per alarm that is due at this *)
(* very tick; the alarm thread, whenever the dispatcher gets to it, takes  *)
(* one alarm off the head of the queue per signal and calls its function.  *)
(* The two agree on which alarm a signal stands for only through the order *)
(* of the queue, and either side may be changed in between: by a tick that *)
(* comes before the alarm thread has run, or by deregister_alarm.          *)
(*                                                                         *)
(* Time is kept as the ticks an alarm has left, its delay minus "ticks".   *)
(* The code asks of the difference only whether it is zero and how it      *)
(* compares with a new alarm's, which is positive: -1 stands for all the   *)
(* past.                                                                   *)
(***************************************************************************)
EXTENDS Integers, Sequences, FiniteSets, SequencesExt

CONSTANTS
    Sleepers,   \* threads that call minithread_sleep_with_timeout
    Timers,     \* users of register_alarm and deregister_alarm (the route
                \* cache entries of miniroute.c, the sockets)
    Delays,     \* the delays asked for, in ticks
    Nobody,     \* the alarm thread runs no function
    MaxForfeited \* bound: deregistrations of due alarms counted at a time

Clients == Sleepers \cup Timers

ASSUME AlarmAssumption ==
    /\ Sleepers \cap Timers = {}
    /\ Nobody \notin Clients
    /\ Delays \subseteq Nat
    /\ MaxForfeited \in Nat

VARIABLES
    alarm_queue,    \* the alarms: records of their client and the ticks left
    alarm_sema,     \* the count of the semaphore
    spawn_alarm,    \* the client whose function the alarm thread runs
    cancelled,      \* ... and whether it was deregistered in the meantime
    waiting,        \* the clients asleep, or with a timer set
    forfeited,      \* ghost: how often a due alarm was deregistered, less the
                    \* signals that took an alarm that was not due instead
    fault           \* the alarm thread followed a NULL alarm

vars == <<alarm_queue, alarm_sema, spawn_alarm, cancelled, waiting, forfeited, fault>>

-----------------------------------------------------------------------------
Init ==
    /\ alarm_queue = <<>>
    /\ alarm_sema = 0
    /\ spawn_alarm = Nobody
    /\ cancelled = FALSE
    /\ waiting = {}
    /\ forfeited = 0
    /\ fault = FALSE

(* Mutant: the new alarm goes to the end.                                   *)
InsertSorted_AtEnd(q, a) == Append(q, a)

(* queue_insert_sorted: before the first alarm that is not earlier.         *)
InsertSorted(q, a) ==
    LET at == CHOOSE n \in 1 .. Len(q) + 1 :
                  /\ \A i \in 1 .. n - 1 : q[i].left < a.left
                  /\ n <= Len(q) => q[n].left >= a.left
    IN InsertAt(q, at, a)

(* Mutant: an alarm due now is queued as it is.                             *)
register_alarm_Now(c, delay) ==
    alarm_queue' = InsertSorted(alarm_queue, [client |-> c, left |-> delay])

(* An alarm due now would be missed, so it gets one tick.                   *)
register_alarm(c, delay) ==
    alarm_queue' = InsertSorted(alarm_queue,
                                [client |-> c, left |-> IF delay = 0 THEN 1 ELSE delay])

(* minithread_sleep_with_timeout, which registers and blocks with           *)
(* interrupts disabled, or the setting of a timer.                          *)
Wait(c, delay) ==
    /\ c \notin waiting
    /\ register_alarm(c, delay)
    /\ waiting' = waiting \cup {c}
    /\ UNCHANGED <<alarm_sema, spawn_alarm, cancelled, forfeited, fault>>

(* queue_delete_by_predicate: alarm ids are unique, so it deletes the one   *)
(* alarm of the client, or nothing.                                         *)
DeleteAlarm(q, c) ==
    LET at == {i \in DOMAIN q : q[i].client = c}
    IN IF at = {} THEN q ELSE RemoveAt(q, CHOOSE i \in at : TRUE)

(* deregister_alarm, with interrupts disabled: the alarm goes if it is      *)
(* still queued.  If it was due its signal is not taken back, and if the    *)
(* alarm thread has it its function runs all the same.                      *)
deregister_alarm(c) ==
    LET due == \E i \in DOMAIN alarm_queue :
                  alarm_queue[i].client = c /\ alarm_queue[i].left <= 0
    IN /\ c \in waiting
       /\ due => forfeited < MaxForfeited
       /\ alarm_queue' = DeleteAlarm(alarm_queue, c)
       /\ waiting' = waiting \ {c}
       /\ cancelled' = (cancelled \/ spawn_alarm = c)
       /\ forfeited' = IF due THEN forfeited + 1 ELSE forfeited
       /\ UNCHANGED <<alarm_sema, spawn_alarm, fault>>

(* The queue once the clock has ticked.                                     *)
Aged == [i \in DOMAIN alarm_queue |->
            [alarm_queue[i] EXCEPT !.left = IF @ > 0 THEN @ - 1 ELSE -1]]

(* Mutant: every alarm in the past is signalled, at every tick.             *)
Signals_Overdue(q) ==
    CHOOSE n \in 0 .. Len(q) :
        /\ \A i \in 1 .. n : q[i].left <= 0
        /\ n < Len(q) => q[n + 1].left > 0

(* The signals of a tick: trigger_alarm on the queue from its head until it *)
(* meets an alarm that is not due at this very tick.                        *)
Signals(q) ==
    CHOOSE n \in 0 .. Len(q) :
        /\ \A i \in 1 .. n : q[i].left = 0
        /\ n < Len(q) => q[n + 1].left # 0

(* Mutant: the queue is looked at before the tick is counted.               *)
Tick_Early ==
    /\ alarm_queue' = Aged
    /\ alarm_sema' = alarm_sema + Cardinality({i \in DOMAIN Aged : Aged[i].left = 1})
    /\ UNCHANGED <<spawn_alarm, cancelled, waiting, forfeited, fault>>

(* clock_handler, without its scheduling.                                   *)
Tick ==
    /\ alarm_queue' = Aged
    /\ alarm_sema' = alarm_sema + Signals(Aged)
    /\ UNCHANGED <<spawn_alarm, cancelled, waiting, forfeited, fault>>

(* Mutant: the alarm thread does not wait for a signal.                     *)
AlarmDequeue_NoWait ==
    /\ spawn_alarm = Nobody
    /\ alarm_sema' = alarm_sema - 1
    /\ alarm_queue # <<>>
    /\ spawn_alarm' = Head(alarm_queue).client
    /\ alarm_queue' = Tail(alarm_queue)
    /\ UNCHANGED <<cancelled, waiting, forfeited, fault>>

(* alarm_proc: P(alarm_sema) and the dequeue, interrupts disabled.  On an   *)
(* empty queue the dequeue fails and gives NULL, whose function is called.  *)
AlarmDequeue ==
    /\ spawn_alarm = Nobody
    /\ alarm_sema > 0
    /\ alarm_sema' = alarm_sema - 1
    /\ IF alarm_queue = <<>>
       THEN /\ fault' = TRUE
            /\ UNCHANGED <<alarm_queue, spawn_alarm, forfeited>>
       ELSE /\ spawn_alarm' = Head(alarm_queue).client
            /\ alarm_queue' = Tail(alarm_queue)
            /\ forfeited' = IF Head(alarm_queue).left > 0 THEN forfeited - 1 ELSE forfeited
            /\ UNCHANGED fault
    /\ UNCHANGED <<cancelled, waiting>>

(* Mutant: the function of the alarm is not called.                         *)
AlarmCall_Forgotten ==
    /\ spawn_alarm # Nobody
    /\ spawn_alarm' = Nobody
    /\ cancelled' = FALSE
    /\ UNCHANGED <<alarm_queue, alarm_sema, waiting, forfeited, fault>>

(* The alarm's function, interrupts enabled: minithread_wake for a sleeper, *)
(* the timer's own function for a timer.                                    *)
AlarmCall ==
    /\ spawn_alarm # Nobody
    /\ waiting' = IF cancelled THEN waiting ELSE waiting \ {spawn_alarm}
    /\ spawn_alarm' = Nobody
    /\ cancelled' = FALSE
    /\ UNCHANGED <<alarm_queue, alarm_sema, forfeited, fault>>

Next ==
    /\ ~fault
    /\ \/ \E c \in Clients, d \in Delays : Wait(c, d)
       \/ \E c \in Timers : deregister_alarm(c)
       \/ Tick
       \/ AlarmDequeue
       \/ AlarmCall

Spec == Init /\ [][Next]_vars

(* The clock ticks, and the alarm thread, once ready, eventually runs       *)
(* (ReadyEventuallyRuns of module Scheduler).                               *)
FairSpec ==
    /\ Spec
    /\ WF_vars(~fault /\ Tick)
    /\ WF_vars(~fault /\ AlarmDequeue)
    /\ WF_vars(~fault /\ AlarmCall)

-----------------------------------------------------------------------------
(* Properties.                                                              *)

Expired == {i \in DOMAIN alarm_queue : alarm_queue[i].left <= 0}

TypeOK ==
    /\ alarm_queue \in Seq([client : Clients, left : Int])
    /\ alarm_sema \in Nat
    /\ spawn_alarm \in Clients \cup {Nobody}
    /\ cancelled \in BOOLEAN
    /\ waiting \subseteq Clients
    /\ forfeited \in Nat
    /\ fault \in BOOLEAN

(* A sleeping thread is never forgotten by the alarms: it has exactly one   *)
(* alarm, queued or being run, and the queue is in the order of the ticks   *)
(* left whatever was inserted and deleted.                                  *)
SleepersHaveAlarms ==
    /\ \A c \in Sleepers :
          LET mine == {i \in DOMAIN alarm_queue : alarm_queue[i].client = c}
          IN Cardinality(mine) + (IF spawn_alarm = c THEN 1 ELSE 0)
                 = IF c \in waiting THEN 1 ELSE 0
    /\ \A i, j \in DOMAIN alarm_queue :
          i < j => alarm_queue[i].left <= alarm_queue[j].left

(* Every signal of the clock handler stands for an expired alarm at the     *)
(* head of the queue, but for those whose alarm was deregistered too late.  *)
SignalsHaveAlarms == alarm_sema <= Cardinality(Expired) + forfeited

(* So an alarm goes off before its time, or a signal finds no alarm at all, *)
(* only after a due alarm was deregistered.                                 *)
NeverEarlyUnlessForfeited ==
    [][AlarmDequeue /\ (alarm_queue = <<>> \/ Head(alarm_queue).left > 0) => forfeited > 0]_vars

(* An expired alarm that no signal stands for.                              *)
Jammed == Cardinality(Expired) > alarm_sema

(* An alarm is passed over by the signals of clock_handler only at a tick   *)
(* that comes before the alarm thread has taken an alarm of an earlier one: *)
(* no alarm is missed because of the delay it was registered with, of what  *)
(* else is queued or deregistered, or of how many are due at once.          *)
JamsStartLate == [][~Jammed /\ Jammed' => Tick /\ Expired # {}]_vars

(* A sleeper wakes up, unless the alarm thread missed a tick while an alarm *)
(* was due or crashed on a forfeited signal.                                *)
SleepEndsUnlessJammed ==
    \A c \in Sleepers : c \in waiting ~> (c \notin waiting \/ Jammed \/ fault)

=============================================================================
