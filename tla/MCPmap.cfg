\* Two ASIDs, five pages: pages are shared, remapped and run out,
\* and so do ASIDs.
CONSTANTS
  ASIDs = {a1, a2}
  FreePages = {p1, p2, p3, p4, p5}
  BASE = BASE
  KPAGE = KPAGE
  UserX = {0}
  UENVS = 1
  UVPT = 2
  Low <- MCLow
  Guard <- MCGuard
  RefMod = 65536
  TLBSize = 1
  NIL = NIL
SPECIFICATION Spec
SYMMETRY Names
INVARIANTS TypeOK RefCounts FreeListInv TablesPrivate TLBCoherent
PROPERTY OneMappingPerStep
CHECK_DEADLOCK FALSE
