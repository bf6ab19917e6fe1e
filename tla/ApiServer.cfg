CONSTANTS
  r1 = r1
  r2 = r2
  s1 = s1
  n1 = n1
  n2 = n2
  Requests = {r1, r2}
  Subs = {s1}
  Nodes = {n1, n2}
  SubOf <- AllInOne
  MaxRepeats = 1
SYMMETRY Symmetry
SPECIFICATION Spec
INVARIANTS
  TypeOK
  NodeCountRight
PROPERTY DeletionHolds
