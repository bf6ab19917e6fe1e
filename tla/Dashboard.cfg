CONSTANTS
  r1 = r1
  r2 = r2
  t1 = t1
  n1 = n1
  n2 = n2
  d1 = d1
  Nobody = Nobody
  Requests = {r1, r2}
  Runs = {t1}
  Nodes = {n1, n2}
  Dashboards = {d1}
  Values = {1, 2}
  Latencies = {0, 1}
  Buffer = 1
  Concurrency = 1
  MaxCalls = 2
SYMMETRY Symmetry
SPECIFICATION Spec
INVARIANTS
  TypeOK
  SettingsAgree
  StoreFollows
  PickedIsUsable
  RunCompletes
