SPECIFICATION Spec
CONSTANTS
  r1 = r1
  r2 = r2
  r3 = r3
  Request = {r1, r2}
  Chunks <- MCChunks
  Sparse = {r1}
  Cached = {r1, r2}
  Streaming = {r1}
  MaxSeqs = 2
  MaxWaiting = 1
  MaxRetries = 1
  ClearDelay = 2
  Tokens <- MCTokens
  Faults = {"memory", "corruption", "sparse", "other"}
  MaxFaults = 1
  Caps = {1, 2}
  MaxEvents = 1
INVARIANTS
  TypeOK
  OwnRow
  NoneStranded
  RunningHasRow
PROPERTIES
  StreamsKept
  StreamsEnd
