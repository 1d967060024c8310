CONSTANTS
  r1 = r1
  r2 = r2
  r3 = r3
  r4 = r4
  x = x
  y = y
  Garbled = Garbled
  NoHash = NoHash
  NoReq = NoReq
  Hash <- MCHash2
  Request <- Four
  Prompt <- SingleBlock
  Sequence <- SingleBlock
  Schedules = {FALSE}
  Concurrent <- Four
  MaxFaults = 0
  MaxEvictions = 1
  MaxBlocks = 2
  InitialBlocks = 2
  GrowStep = 1
SPECIFICATION Spec
INVARIANTS
  HitsMatchTokens
