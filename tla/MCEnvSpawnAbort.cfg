\* The library with spawn's error path, which destroys the child it was setting up.
CONSTANTS
  Envs = {0, 1, 2}
  NASID = 3
  IdMod = 6
  MaxIds = 5
  MaxBoot = 2
  Priorities = {1}
  Extra = {"spawn_abort"}
  HEAD = HEAD
  NULL = NULL
SPECIFICATION Spec
INVARIANT SchedListInv
CHECK_DEADLOCK FALSE
