CONSTANTS
  s1 = s1
  n1 = n1
  Subs = {s1}
  Nodes = {n1}
  SubOf <- AllInOne
  MaxRepeats = 1
  Default = Default
  Custom = Custom
  NoWebPort = NoWebPort
  Configs = {Default, Custom, NoWebPort}
  DefaultConfig = Default
  NoFile = NoFile
  Torn = Torn
SPECIFICATION Spec
INVARIANTS
  TypeOK
  OnlyRuntimeIsLost
PROPERTY StoreIsDurable
