SPECIFICATION Spec
CONSTANTS
  Bodies <- MCBodies
  Targets <- MCTargets
  MaxItems = 3
  MaxFrames = 2
INVARIANTS
  TypeOK
  OnlyRepeatsAreLost
  TargetOrNothing
  MessagesMakeAStream
PROPERTY SameEntrySameID
