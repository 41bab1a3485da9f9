\* Two addresses for two timers, one of which may be reused.
CONSTANTS
  Addrs = {a1, a2}
  Threads = {w}
  MaxTimers = 2
  Delays = {1, 2}
  MaxTime = 4
SPECIFICATION FairSpec
CHECK_DEADLOCK FALSE
INVARIANTS TypeOK QueueIsSound ArmedInTime
PROPERTIES TimersEndRightly EveryTimerRuns
