\* Programs that make any call: children are destroyed while they wait,
\* statuses are set at will, and the envid counter wraps around.
CONSTANTS
  Envs = {0, 1, 2}
  NASID = 2
  IdMod = 3
  MaxIds = 3
  MaxBoot = 1
  Priorities = {1}
  Extra = {"spawn_abort", "kill", "set_status"}
  HEAD = HEAD
  NULL = NULL
SPECIFICATION Spec
INVARIANTS TypeOK TableInv
CHECK_DEADLOCK FALSE
