CONSTANTS
  n1 = n1
  n2 = n2
  n3 = n3
  Nodes = {n1, n2, n3}
  NoOne = NoOne
  Latencies <- TestResults
  MaxLatency = 9
  IndexMod = 4
SYMMETRY Symmetry
SPECIFICATION RoutingSpec
INVARIANT RoutingTypeOK
 
