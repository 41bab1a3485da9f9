---------------------------- MODULE MCEventLoop -----------------------------
(* The instance of EventLoop that TLC checks: threads and functors are     *)
(* model values, given in EventLoop.cfg.                                   *)
EXTENDS EventLoop
=============================================================================
