CONSTANTS
  h1 = h1
  h2 = h2
  r1 = r1
  r2 = r2
  Hash <- MCHash
  Request <- MCRequest
  NoHash = NoHash
  MaxBlocks = 5
  InitialBlocks = 2
  GrowStep = 2
  MaxClears = 1
SPECIFICATION Spec

INVARIANT EvictableIsReusable
