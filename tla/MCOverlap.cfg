CONSTANTS
  r1 = r1
  r2 = r2
  r3 = r3
  r4 = r4
  x = x
  y = y
  Garbled = Garbled
  NoHash = NoHash
  NoReq = NoReq
  Hash <- MCHash2
  Request <- Three
  Prompt <- OneEach
  Sequence <- OneEach
  Schedules = {TRUE}
  Concurrent <- Three
  MaxFaults = 1
  MaxEvictions = 0
  MaxBlocks = 2
  InitialBlocks = 2
  GrowStep = 1
SPECIFICATION Spec
INVARIANTS
  ConcurrentHitsClean
