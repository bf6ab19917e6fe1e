CONSTANTS
  v1 = v1
  v2 = v2
  v3 = v3
  t1 = t1
  t2 = t2
  l1 = l1
  l2 = l2
  None = None
  Setter = Setter
  Ids = {v1, v2, v3}
  Private = {v3}
  Lists <- MCLists
  TestMaxDuration = 1
  Limits = {1}
  Tests = {t1, t2}
  Loops = {l1, l2}
  MaxOps = 2
  MaxTunnels = 2
  MaxCalls = 3
CHECK_DEADLOCK FALSE
SPECIFICATION FairSpec
INVARIANTS
  PoolTypeOK
  PortLeadsToItsNode
  LockedOnlyWhileBusy
PROPERTIES
  LoopsEnd
