SPECIFICATION Spec
CONSTANTS
  op = op  c2 = c2  v1 = v1  v2 = v2
  None = None
  Zero = v1
  Operator = op
  Monitors <- MCAll
  Clients <- MCTwo
  Commands <- MCReports
  Values <- MCOneValue
  MaxRecords = 2
INVARIANTS DecodesOnlyReports EachRecordOnce
