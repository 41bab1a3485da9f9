---------------------------- MODULE MCThreadPool ----------------------------
(* The instance of ThreadPool that TLC checks: threads and tasks are model *)
(* values, given in ThreadPool.cfg.                                        *)
EXTENDS ThreadPool
=============================================================================
