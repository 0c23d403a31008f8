CONSTANTS
  m1 = m1
  m2 = m2
  p1 = p1
  p2 = p2
  h1 = h1
  h2 = h2
  NoCR = NoCR
  NoProc = NoProc
  Members = {m1, m2}
  PlanOrder <- SameOrder
  AppSeq <- Applied
  Unfinished = {m2}
  Selections <- Everything
  Procs = {p1}
  Handlers = {h1}
  MaxRollbacks = 1
  MaxRequests = 4
  MaxCrashes = 1
SPECIFICATION FairSpec
INVARIANTS
  RunningIsDriven
  RollingBackHasRollback
PROPERTIES
  RollbackEnds
CHECK_DEADLOCK FALSE
