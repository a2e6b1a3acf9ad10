SPECIFICATION Spec
CONSTANTS
  t1 = t1  t2 = t2  ctl = ctl  m = m  text = text
  d1 = d1  d2 = d2  d3 = d3
  None = None
  Tasks <- MCTwoTasks
  Ctl = ctl
  Mutexes <- MCMutexes
  TextMutex = text
  Descs <- MCDescs
  Thresholds = {1}
  NsPerMs = 1
  IntMax = 7
  Skewed = TRUE
  OneOperator = TRUE
  MaxTime = 3
  MaxSessions = 2
SYMMETRY MCSymmetry
INVARIANTS NoUseAfterFree HolderIsTimed OffMeansUnpatched
PROPERTY LongHoldsReported
