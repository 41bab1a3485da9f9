\* A notified client meets an empty queue.
CONSTANTS
  Clients = {a, b}
  Handles = {h1, h2}
  None = none
  MinSize = 1
  MaxSize = 1
SPECIFICATION MysqlSpec
CHECK_DEADLOCK FALSE
INVARIANT NotifiedFindsOne
