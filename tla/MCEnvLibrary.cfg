\* Programs that use the library: fork, exit, yield, IPC.
CONSTANTS
  Envs = {0, 1, 2}
  NASID = 3
  IdMod = 6
  MaxIds = 5
  MaxBoot = 2
  Priorities = {1, 2}
  Extra = {}
  HEAD = HEAD
  NULL = NULL
SPECIFICATION FairSpec
INVARIANTS SchedListInv ReceiversAreBlocked StopsOnlyWhenIdle NoLostWakeup
           ForksUnderWay IdsNameSlots
PROPERTIES NoStarvation ImplementsRoundRobin
CHECK_DEADLOCK FALSE
