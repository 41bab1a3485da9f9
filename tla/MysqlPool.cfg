\* Four clients; the pool starts with two connections.
CONSTANTS
  Clients = {a, b, c, d}
  Handles = {h1, h2, h3, h4, h5}
  None = none
  MinSize = 2
  MaxSize = 2
SPECIFICATION MysqlSpec
SYMMETRY MCSymmetry
CHECK_DEADLOCK FALSE
INVARIANTS MysqlTypeOK ExclusiveUse SizeIsCounted
