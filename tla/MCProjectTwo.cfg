CONSTANTS
  m1 = m1
  m2 = m2
  p1 = p1
  p2 = p2
  h1 = h1
  h2 = h2
  NoCR = NoCR
  NoProc = NoProc
  Members = {m1, m2}
  PlanOrder <- PlannedOrder
  AppSeq <- Applied
  Unfinished = {m2}
  Selections <- Everything
  Procs = {p1, p2}
  Handlers = {h1}
  MaxRollbacks = 1
  MaxRequests = 3
  MaxCrashes = 1
SPECIFICATION Spec
INVARIANTS
  UnwindsInOrder
CHECK_DEADLOCK FALSE
