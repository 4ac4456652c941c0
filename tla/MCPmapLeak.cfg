\* A page that nobody points to is on the free list?
CONSTANTS
  ASIDs = {a1, a2}
  FreePages = {p1, p2}
  BASE = BASE
  KPAGE = KPAGE
  UserX = {0}
  UENVS = 1
  UVPT = 2
  Low <- MCLow
  Guard <- MCGuard
  RefMod = 65536
  TLBSize = 1
  NIL = NIL
SPECIFICATION Spec
SYMMETRY Names
INVARIANT NoLeak
CHECK_DEADLOCK FALSE
