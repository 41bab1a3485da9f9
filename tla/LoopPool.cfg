\* Three loops and two callers; every loop gets more than one turn.
CONSTANTS
  N = 3
  Callers = {a, b}
  MaxCalls = 5
  Null = null
SPECIFICATION FairSpec
CHECK_DEADLOCK FALSE
INVARIANTS TypeOK LoopsAlive
PROPERTIES IsRoundRobin Returns
