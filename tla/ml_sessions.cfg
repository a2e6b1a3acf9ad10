SPECIFICATION FairSpec
CONSTANTS
  f1 = f1  f2 = f2  d1 = d1
  None = None
  Monitors <- MCAll
  Flows <- MCFlows
  Descs <- MCOneDesc
  Sleepers <- MCSleepers
  OneOperator = TRUE
  MaxSessions = 2
INVARIANTS NoUseAfterFree BufferOutlivesHandlers TextOutlivesHandlers QuietOnceOff NothingLost
PROPERTY RequestsEnd
CHECK_DEADLOCK FALSE
