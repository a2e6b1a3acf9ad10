SPECIFICATION Spec
CONSTANTS
  c1 = c1  c2 = c2
  k1 = k1  k2 = k2  k3 = k3
  d1 = d1  d2 = d2  d3 = d3
  CPUs = {c1, c2}
  Keys = {k1, k2, k3}
  Descs = {d1, d2, d3}
  None = None
  Tables <- mcTables
  Plain <- mcPlain
  MaxObj = 1
  Limited <- mcLimited
  MaxCalls = 3
  MaxDumps = 1
SYMMETRY mcSymmetry
CHECK_DEADLOCK FALSE
INVARIANTS
  ReadsOwnPacket
  ReadsCurrentHeader
  SeesOnlyIp
  GivenOnce
  Tallied
  LimitKept
