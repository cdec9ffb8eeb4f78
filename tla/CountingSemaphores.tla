------------------------- MODULE CountingSemaphores -------------------------
(***************************************************************************)
(* What synch.h promises: counting semaphores with FIFO wake-up.  A P      *)
(* either takes a unit of the value or waits its turn; a V hands its unit  *)
(* to the first waiter, if there is one; a waiter returns only after a V   *)
(* was handed to it.                                                       *)
(***************************************************************************)
EXTENDS Integers, Sequences

CONSTANTS Threads, Sems, InitialCnt

VARIABLES
    value,      \* per semaphore: the units left
    waiting,    \* per semaphore: the blocked threads, first come first
    granted     \* the threads handed a unit whose P has not returned yet

vars == <<value, waiting, granted>>

Init ==
    /\ value = InitialCnt
    /\ waiting = [s \in Sems |-> <<>>]
    /\ granted = {}

(* P on a positive semaphore.                                               *)
Acquire(s) ==
    /\ value[s] > 0
    /\ value' = [value EXCEPT ![s] = @ - 1]
    /\ UNCHANGED <<waiting, granted>>

(* P on an exhausted semaphore, by a thread that waits nowhere yet.         *)
Wait(t, s) ==
    /\ value[s] = 0
    /\ t \notin granted
    /\ \A r \in Sems : \A i \in DOMAIN waiting[r] : waiting[r][i] # t
    /\ waiting' = [waiting EXCEPT ![s] = Append(@, t)]
    /\ UNCHANGED <<value, granted>>

(* V with nobody waiting.                                                   *)
Release(s) ==
    /\ waiting[s] = <<>>
    /\ value' = [value EXCEPT ![s] = @ + 1]
    /\ UNCHANGED <<waiting, granted>>

(* V with somebody waiting.                                                 *)
Grant(s) ==
    /\ waiting[s] # <<>>
    /\ waiting' = [waiting EXCEPT ![s] = Tail(@)]
    /\ granted' = granted \cup {Head(waiting[s])}
    /\ UNCHANGED value

(* The P of a thread that waited returns.                                   *)
Return(t) ==
    /\ t \in granted
    /\ granted' = granted \ {t}
    /\ UNCHANGED <<value, waiting>>

Next ==
    \/ \E s \in Sems : Acquire(s) \/ Release(s) \/ Grant(s)
    \/ \E t \in Threads, s \in Sems : Wait(t, s)
    \/ \E t \in Threads : Return(t)

Spec == Init /\ [][Next]_vars

(* Once its turn has come a P returns.                                      *)
FairSpec == Spec /\ \A t \in Threads : WF_vars(Return(t))

=============================================================================
