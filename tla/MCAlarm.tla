------------------------------- MODULE MCAlarm -------------------------------
(* Instances of Alarm for TLC. *)
EXTENDS Alarm

CONSTANTS s1, s2, t1, t2

=============================================================================
