---------------------------- MODULE MCTimerQueue ----------------------------
(* The instance of TimerQueue that TLC checks.                             *)
EXTENDS TimerQueue
===============================================================================
