\* Three producers for a queue of one; liveness, so no symmetry.
CONSTANTS
  Consumers = {c1, c2}
  Producers = {p1, p2, p3}
  Tasks = {t1, t2, t3, t4}
  None = none
  MaxQueueSize = 1
SPECIFICATION FairSpec
CHECK_DEADLOCK FALSE
INVARIANTS TypeOK NoMissedWakeup
PROPERTY EveryTaskRuns
