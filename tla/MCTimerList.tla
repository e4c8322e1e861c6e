---------------------------- MODULE MCTimerList ----------------------------
(* TimerList with two timers for TLC. *)
EXTENDS TimerList
CONSTANTS A, B
MCTimers == {A, B}
=============================================================================
