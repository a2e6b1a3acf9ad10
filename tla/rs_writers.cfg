SPECIFICATION RwSpec
CONSTANTS
  t1 = t1  t2 = t2  ctl = ctl  s1 = s1  s2 = s2
  d1 = d1  d2 = d2
  None = None
  Tasks <- MCTasks
  Ctl = ctl
  Mutexes <- MCSems
  TextMutex = s1
  Descs <- MCDescs
  Thresholds = {0, 1}
  NsPerMs = 1
  IntMax = 7
  Skewed = TRUE
  OneOperator = TRUE
  MaxTime = 2
  MaxSessions = 2
SYMMETRY MCSymmetry
INVARIANTS RwNoUseAfterFree NothingLeft TimerKept
PROPERTY OwnCallsReported
