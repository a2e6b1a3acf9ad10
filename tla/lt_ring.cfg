SPECIFICATION FairSpec
CONSTANTS
  Nobody = Nobody
  Readers = {r1, r2}
  Cap = 3
  AllocFails = FALSE
  SamplesPerShow = 1
  MaxSamples = 6
  MaxSessions = 2
CHECK_DEADLOCK FALSE
INVARIANTS KeepsNewest RowsInOrder
PROPERTY SamplingEnds
