\* Does a read that returns 0 leave nothing behind?
CONSTANTS
  Parent = Parent
  Child = Child
  BY2PIPE = 2
  PosMod = 4
  MaxN = 1
  MaxBytes = 2
  Quanta = {0}
SPECIFICATION Spec
INVARIANT EofMeansEmpty
CHECK_DEADLOCK FALSE
