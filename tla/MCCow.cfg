SPECIFICATION FairSpec
CONSTANTS
  Envs = {e1, e2, e3}
  Root = e1
  NIL = NIL
  PrivateVPNs <- MCPrivate
  SharedVPNs <- MCShared
  TouchedVPNs <- MCTouched
  StackVPN = 3
  Pages <- MCPages
  Words = {0, 1}
  Zero = 0
  MaxForks = 3
  MaxStores = 3
INVARIANTS TypeOK WritableIsPrivate
PROPERTIES ImplementsFork StoresComplete
CHECK_DEADLOCK FALSE
