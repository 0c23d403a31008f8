CONSTANTS
  e1 = e1
  e2 = e2
  NSteps = 4
  Execs = {e1, e2}
  FirstExec = e1
  MaxRequests = 6
  MaxCrashes = 1
SPECIFICATION FairSpec
INVARIANTS
  AppliedOnce
  CompletedIsRecorded
  PausedIsResumable
  RolledBackIsUndone
PROPERTIES
  ExecutingEnds
CHECK_DEADLOCK FALSE
