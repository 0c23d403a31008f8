CONSTANTS
  p1 = p1
  p2 = p2
  Runbooks <- Books
  Procs = {p1}
  Outcomes = {"completed", "failed", "abandoned"}
  MaxCRs = 3
  MaxRequests = 1
  MaxRework = 0
  MaxCrashes = 1
SPECIFICATION FairSpec
INVARIANTS
  WaitingIsResumable
PROPERTIES
  RunbookAdvances
CHECK_DEADLOCK FALSE
