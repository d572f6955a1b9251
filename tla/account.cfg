CONSTANTS
  r1 = r1
  r2 = r2
  r3 = r3
  r4 = r4
  ip = ip
  Requests <- FourRequests
  NoRequest = NoRequest
  Keys <- OneAddress
  Capacity = 4
  Rate = 1
  Unit = 2
  Horizon = 2
  Patches <- SomePatches
  Exts <- TwoFormats
  MaxFaults = 1
SPECIFICATION Spec
CHECK_DEADLOCK FALSE
SYMMETRY Symmetry
INVARIANTS
  WindowBound
  SignUpTruthful
  AnsweredUpdateStands
  AvatarHeals
PROPERTIES
  ImplementsIdealBucket
