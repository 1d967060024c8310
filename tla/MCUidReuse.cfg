SPECIFICATION Spec
CONSTANTS
  r1 = r1
  r2 = r2
  r3 = r3
  Request = {r1, r2, r3}
  Chunks <- WholeChunks
  Sparse = {}
  Cached = {r1, r2, r3}
  Streaming = {}
  MaxSeqs = 3
  MaxWaiting = 2
  MaxRetries = 0
  ClearDelay = 2
  Tokens <- TwoTokens
  Faults = {}
  MaxFaults = 0
  Caps = {}
  MaxEvents = 2
SYMMETRY Alike
INVARIANTS
  RunningKeepsRow
