\* Connections among themselves, and with workers; liveness, so no symmetry.
CONSTANTS
  Main = main
  IoLoops = {io, main}
  c1 = c1
  c2 = c2
  Conns = {c1, c2}
  Workers = {w1, w2}
  None = none
  Scenarios <- PassingScenarios
SPECIFICATION FairSpec
CHECK_DEADLOCK FALSE
INVARIANTS TypeOK PointersAlive EndIsClean WriteInterest
PROPERTIES NoMessageAfterDown EndDestroys OutputDrains
