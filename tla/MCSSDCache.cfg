SPECIFICATION Spec
CONSTANTS
  h1 = h1
  h2 = h2
  Hash <- MCHash
  Size <- MCSize
  Largest = 3
  Reserved = 1
  Thread = {"worker", "inference"}
  May <- MCMay
  Modes = {"hot", "buffer", "ram"}
  Overlapping = {FALSE, TRUE}
  HotMax = 1
  IndexMax = 2
  QueueMax = 2
  MaxOps = 5
  MaxOverlapped = 3
  MaxFaults = 1
  MaxCrashes = 1
INVARIANTS
  TypeOK
  KeptLoadable
  DiskMatchesIndex
  NothingPending
  SavedWithinLimit
  
PROPERTIES
  WritesEnd
