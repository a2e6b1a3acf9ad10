SPECIFICATION Spec
CONSTANTS
  t1 = t1  t2 = t2  ctl = ctl  m = m  text = text
  d1 = d1  d2 = d2  d3 = d3
  None = None
  Tasks <- MCOneTask
  Ctl = ctl
  Mutexes <- MCMutexes
  TextMutex = text
  Descs <- MCDescs
  Thresholds = {1}
  NsPerMs = 1
  IntMax = 7
  Skewed = FALSE
  OneOperator = FALSE
  MaxTime = 1
  MaxSessions = 1
INVARIANT OffMeansUnpatched
