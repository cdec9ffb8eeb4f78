------------------------------- MODULE MCSynch -------------------------------
(***************************************************************************)
(* Instances of Synch for TLC.  "mutex" stands for a semaphore of the      *)
(* application programs, whose P and V run with interrupts enabled         *)
(* (buffer.c, sieve.c, test3.c); "event" for one of the system's, whose P  *)
(* runs with interrupts disabled and whose V a handler calls (alarm_sema,  *)
(* datagrams_ready).                                                       *)
(***************************************************************************)
EXTENDS Synch, TLC

CONSTANTS main, reaper, user, other, idle, reapersem, mutex, event

MCThreads3 == {main, reaper, user}
UserSymmetry == Permutations({user, other})
MCThreads4 == {main, reaper, user, other}
BootReaper == {reaper}
BootAll == {reaper, user, other}
BootAll3 == {reaper, user}
MCSems == {reapersem, mutex, event}
MCSems2 == {reapersem, mutex}
MCInitialCnt2 == reapersem :> 0 @@ mutex :> 0
MCInitialCnt == reapersem :> 0 @@ mutex :> 1 @@ event :> 0

=============================================================================
