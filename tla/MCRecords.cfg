SPECIFICATION Spec
CONSTANTS
  j1 = j1
  j2 = j2
  j3 = j3
  NoJob = NoJob
  Job = {j1, j2}
  Kind <- MCKind
  Source <- MCSource
  MaxQueued = 1
  MaxArtifacts = 1
  Grace = 1
  Faults = {"disk", "spawn", "line"}
  MaxFaults = 1
  MaxPressure = 1
  MaxDeletes = 1
  MaxEnds = 1
INVARIANTS
  RecordsTrue
  CompletedHasOutput
