SPECIFICATION Spec
CONSTANTS
  Cpus = {c0, c1}
  Cpu0 = c0
  Loads = {1, 3}
  Thresholds = {0, 2}
  OtherAlarm = TRUE
  LateTimers = FALSE
  Period = 2
  MaxUpdates = 5
INVARIANT AlarmInTime
PROPERTY BadTimeIsLatestOnceArmed
