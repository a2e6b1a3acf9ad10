SPECIFICATION FairSpec
CONSTANTS
  op = op  c2 = c2  v1 = v1  v2 = v2
  None = None
  Zero = v1
  Operator = op
  Monitors <- MCAll
  Clients <- MCTwo
  Commands <- MCLogs
  Values <- MCOneValue
  MaxRecords = 1
PROPERTY LogsAll
