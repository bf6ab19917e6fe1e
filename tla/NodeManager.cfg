CONSTANTS
  c1 = c1
  c2 = c2
  n1 = n1
  n2 = n2
  n3 = n3
  NoOne = NoOne
  Free = Free
  Other = Other
  Nodes = {n1, n2, n3}
  Undialable = {n3}
  Callers = {c1, c2}
  BasePorts = {1, 3}
  MaxPort = 3
  MaxConns = 1
SPECIFICATION FairSpec
INVARIANTS
  TypeOK
  TablesAgree
PROPERTIES
  ManagerIsNodePool
  
