CONSTANTS
  x1 = x1
  x2 = x2
  x3 = x3
  k1 = k1
  k2 = k2
  Conns = {x1, x2, x3}
  Closers = {k1, k2}
SPECIFICATION FairSpec
CHECK_DEADLOCK FALSE
INVARIANTS
  TypeOK
  CloseIsWoken
  OneLateConnection
PROPERTY ListenerEnds
