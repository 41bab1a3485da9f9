\* shutdown() with output pending.
CONSTANTS
  Main = main
  IoLoops = {io}
  c1 = c1
  c2 = c2
  Conns = {c1}
  Workers = {}
  None = none
  Scenarios <- HalfClose
SPECIFICATION FairSpec
CHECK_DEADLOCK FALSE
PROPERTY ShutdownHalfCloses
