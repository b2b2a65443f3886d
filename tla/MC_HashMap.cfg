SPECIFICATION Spec
CONSTANTS
  k1 = k1
  k2 = k2
  k3 = k3
  d = d
  None = None
  Key <- MCKey
  Data <- MCData
  Hash <- MCHash
  Size = 2
  MaxNodes = 4
  Iter = {i1}
INVARIANTS
  Intact
PROPERTIES
  Implements
  Iteration
  LosesOnlyUndelivered
CHECK_DEADLOCK FALSE
