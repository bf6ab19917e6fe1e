CONSTANTS
  a1 = a1
  a2 = a2
  m = m
  x1 = x1
  x2 = x2
  n1 = n1
  NoOne = NoOne
  NoPort = NoPort
  Free = Free
  Tunnel = Tunnel
  Other = Other
  Main = m
  Nodes = {n1}
  Conns = {x1}
  Admins = {a1, m}
  Ports = {1, 2}
  Shared = {}
SPECIFICATION FairSpec
CHECK_DEADLOCK FALSE
PROPERTY UpdateReturns
