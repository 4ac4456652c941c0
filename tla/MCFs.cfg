\* Small files and directories; programs blank the blocks they give up.
CONSTANTS
  NBLOCKS = 7
  BY2BLK = 2
  NDIRECT = 1
  NINDIRECT = 2
  FILE2BLK = 1
  Names = {"a", "b"}
  Paths <- MCPaths
  Words = {0, 5}
  Sizes = {0, 2, 3}
  MaxOpen = 1
  Careful = TRUE
  NIL = NIL
SPECIFICATION Spec
INVARIANTS TypeOK BlocksOwnedOnce NoBlockLost NoPanic ClosedDataOnDisk
PROPERTY OneFilePerStep
CHECK_DEADLOCK FALSE
