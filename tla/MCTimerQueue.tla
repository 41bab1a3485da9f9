---------------------------- MODULE MCTimerQueue ----------------------------
(* The instance of TimerQueue that TLC checks: addresses and threads are   *)
(* model values, given in TimerQueue.cfg.                                  *)
EXTENDS TimerQueue
=============================================================================
