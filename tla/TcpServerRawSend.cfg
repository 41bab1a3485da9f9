\* A worker sends on the connection it was handed.
CONSTANTS
  Main = main
  IoLoops = {io}
  c1 = c1
  c2 = c2
  Conns = {c1}
  Workers = {w1}
  None = none
  Scenarios <- RawSend
SPECIFICATION Spec
CHECK_DEADLOCK FALSE
INVARIANT FunctorsAlive
