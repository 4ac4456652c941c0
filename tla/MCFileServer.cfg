\* Two processes that keep to the rules for changes of size.
SPECIFICATION Spec
CONSTANTS
  p1 = p1
  p2 = p2
  Procs = {p1, p2}
  Root = p1
  NIL = NIL
  MAXFD = 2
  MAXOPEN = 3
  Blocks <- MCBlocks
  MaxSize = 2
  MaxCalls = 4
INVARIANTS TypeOK HeldOpen MappingsCurrent ClosedDataOnDisk
PROPERTIES ImplementsRpc AllReturn
CHECK_DEADLOCK FALSE
