CONSTANTS
  r1 = r1
  r2 = r2
  r3 = r3
  r4 = r4
  x = x
  y = y
  Garbled = Garbled
  NoHash = NoHash
  NoReq = NoReq
  Hash <- MCHash3
  Request <- Three
  Prompt <- MixedPrompt
  Sequence <- MixedSequence
  Schedules = {TRUE, FALSE}
  Concurrent <- Two
  MaxFaults = 1
  MaxEvictions = 1
  MaxBlocks = 3
  InitialBlocks = 2
  GrowStep = 1
SPECIFICATION Spec
INVARIANTS
  TypeOK
  FreeListExact
  CleanHits
  SSDTrue
  TableNamesItsChain
  RefsExact
PROPERTIES
  StoresEnd
