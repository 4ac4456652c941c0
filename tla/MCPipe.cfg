\* Five bytes through a buffer of two.  The timer interrupts anywhere, or leaves a
\* time slice longer than a round of both waiting loops.
CONSTANTS
  Parent = Parent
  Child = Child
  BY2PIPE = 2
  PosMod = 4
  MaxN = 3
  MaxBytes = 5
  Quanta = {0, 16}
SPECIFICATION FairSpec
INVARIANTS TypeOK ClosedIsTrue
PROPERTIES ImplementsFifo AllDone
CHECK_DEADLOCK FALSE
