\* A second call of connect() too; what up to two old connections, two attempts
\* and the sockets that stay open hold at once.
CONSTANTS
  Descriptors = {1, 2, 3, 4, 5}
  MaxConnects = 2
SPECIFICATION FairSpec
CHECK_DEADLOCK FALSE
INVARIANTS TypeOK ClientIsSound 
PROPERTY Reconnects
