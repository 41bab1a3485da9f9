\* A small vector and a smaller overflow; messages that fill it.
CONSTANTS
  Bytes = {0, 1}
  Zero = 0
  HeadSize = 1
  InitialSize = 2
  ExtraSize = 2
  Inputs <- Inputs3
  MaxReadable = 4
  Messages <- ShortMessages
  MaxMessages = 3
SPECIFICATION StreamSpec
CHECK_DEADLOCK FALSE
INVARIANTS TypeOK Framing
PROPERTIES IsByteQueue EveryMessageServed
