----------------------------- MODULE MCScheduler -----------------------------
(***************************************************************************)
(* Instances of Scheduler for TLC.  The level lengths are scaled down from *)
(* 80/40/24/16 ticks and keep the relation that matters for starvation: a  *)
(* level lasts at least as long as any quota that can be running in it, so *)
(* that at least one dispatch starts from every level in every round.      *)
(***************************************************************************)
EXTENDS Scheduler

CONSTANTS main, reaper, user, idle

MCThreads == {main, reaper, user}
MCBootOrder == <<reaper>>
MCTicks == 0 :> 8 @@ 1 :> 2 @@ 2 :> 3 @@ 3 :> 5

=============================================================================
