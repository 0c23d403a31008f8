CONSTANTS
  c1 = c1
  c2 = c2
  d1 = d1
  d2 = d2
  x1 = x1
  x2 = x2
  x3 = x3
  NoConn = NoConn
  Off = Off
  Conns = {c1, c2}
  Allowlists = {x1, x2, x3}
  AgentRejects = {x3}
  Callers = {d1, d2}
  Limit = 1
  MaxChanges = 2
  MaxFaults = 1
SPECIFICATION FairSpec
INVARIANTS
  CountIsExact
  OnlineUnlessEvicted
  NobodyHangs
PROPERTIES
  TakesEffectUnlessEvicted
CHECK_DEADLOCK FALSE
