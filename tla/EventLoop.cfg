\* Two other threads, three functors; liveness, so no symmetry.
CONSTANTS
  Owner = owner
  Others = {a, b}
  Tasks = {t1, t2, t3}
SPECIFICATION FairSpec
CHECK_DEADLOCK FALSE
INVARIANTS TypeOK NeverAsleepOnWork
PROPERTIES FifoOnce EveryTaskRuns QuitStops
