SPECIFICATION FairSpec
CONSTANTS
  Watched <- mcWatched
  Fallible <- mcFallible
  Callers = {c1}
  Users = {u1}
  CPUs = {p1, p2}
  None = None
  MaxEvents = 2
INVARIANTS
  UsesOnlyWhatIsUp
  ExitsOnlyWhatIsUp
  LeavesNothing
  SamplesEveryCpu
PROPERTIES
  UnloadEnds
CHECK_DEADLOCK FALSE
