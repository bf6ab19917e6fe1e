CONSTANTS
  c1 = c1
  a1 = a1
  m = m
  n1 = n1
  n2 = n2
  x1 = x1
  NoOne = NoOne
  NoPort = NoPort
  Free = Free
  Tunnel = Tunnel
  Other = Other
  Main = m
  Nodes = {n1, n2}
  Undialable = {}
  MaxPort = 2
  BasePorts = {1, 2}
  MaxConns = 1
  Callers = {c1, m}
  Admins = {a1, m}
  Clients = {x1}
SPECIFICATION ProxySpec
SYMMETRY Symmetry
INVARIANT PortsApart
PROPERTIES
  EachKeepsItsSpec
  OneDeadlock
