CONSTANTS
  h1 = h1
  h2 = h2
  r1 = r1
  r2 = r2
  Hash <- MCHash
  Request <- MCRequest
  NoHash = NoHash
  MaxBlocks = 4
  InitialBlocks = 1
  GrowStep = 2
  MaxClears = 1
SPECIFICATION Spec
SYMMETRY MCSymmetry
INVARIANTS
  TypeOK
  FreeListExact
  MapSound
  NoDangling
  RefExact
  FreshPrivate
PROPERTIES
  ContentStable
CHECK_DEADLOCK FALSE
