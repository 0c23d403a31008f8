CONSTANTS
  e1 = e1
  e2 = e2
  Kinds = {"certificate"}
  NItems = 2
  Execs = {e1, e2}
  FirstExec = e1
  MaxRequests = 1
  MaxCrashes = 0
SPECIFICATION Spec
INVARIANTS
  RetryVerifies
CHECK_DEADLOCK FALSE
