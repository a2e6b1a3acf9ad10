SPECIFICATION Spec
CONSTANTS
  Writers = {w1, w2}
  Dumpers = {d1}
  Nobody = Nobody
  BufSize = 13
  HeadSize = 4
  Word = 2
  Payloads <- MCPayloads
  UserSizes = {13, 26}
  MaxRecords = 6
SYMMETRY MCSymmetry
INVARIANTS
  HistoryKept
  CutOnlyAtTheEnd
  ReportIsOwnBackup
PROPERTIES
  NoRepeat
  ImplementsRecordLog
