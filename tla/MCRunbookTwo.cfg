CONSTANTS
  p1 = p1
  p2 = p2
  Runbooks <- ShortBooks
  Procs = {p1, p2}
  Outcomes = {"completed", "rollback_failed"}
  MaxCRs = 2
  MaxRequests = 1
  MaxRework = 0
  MaxCrashes = 1
SPECIFICATION Spec
INVARIANTS
  FiredOnce
  FiredIsRecorded
  NoStepSkipped
CHECK_DEADLOCK FALSE
