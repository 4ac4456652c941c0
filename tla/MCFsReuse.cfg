\* Programs that give up blocks as they are.
CONSTANTS
  NBLOCKS = 7
  BY2BLK = 2
  NDIRECT = 1
  NINDIRECT = 2
  FILE2BLK = 1
  Names = {"a", "b"}
  Paths <- MCPaths
  Words = {0, 5}
  Sizes = {0, 2, 3}
  MaxOpen = 1
  Careful = FALSE
  NIL = NIL
SPECIFICATION Spec
INVARIANT NoPanic
CHECK_DEADLOCK FALSE
