\* Two pages on two io loops and a file; an empty one and a large one for one of them.
CONSTANTS
  c1 = c1
  c2 = c2
  io1 = io1
  io2 = io2
  small = small
  large = large
  empty = empty
  Clients = {c1, c2}
  IoLoops = {io1, io2}
  CalcLoops = {k1}
  Home <- TwoLoops
  Names = {small, large, empty}
  Bytes <- SizesInBytes
  Size <- SizesInChunks
  Disk <- Disks
  ChunkBytes = 2
  Word = 4
  Actions <- Some
  WritesFail = TRUE
  HangUps = TRUE
  None = none
SPECIFICATION FairSpec
CHECK_DEADLOCK FALSE
INVARIANTS TypeOK InStep FilesAreWhole ToldIsRecorded
PROPERTY EveryRequestAnswered
