\* Command lines of up to three programs, through buffers of one byte.
SPECIFICATION Spec
CONSTANTS
  MaxProcs = 7
  MAXFD = 6
  BY2PIPE = 1
  Bytes = 2
  Lines <- MCLines
  NIL = NIL
INVARIANTS TypeOK ClosedIsTrue PromptComesLast
PROPERTY EveryLineEnds
CHECK_DEADLOCK FALSE
