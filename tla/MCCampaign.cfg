CONSTANTS
  e1 = e1
  e2 = e2
  Kinds = {"certificate", "fanout", "k8s"}
  NItems = 2
  Execs = {e1, e2}
  FirstExec = e1
  MaxRequests = 4
  MaxCrashes = 1
SPECIFICATION FairSpec
INVARIANTS
  PushedOnce
  CompletedIsVerified
  RollbackFindsChanges
  RolledBackIsUndone
PROPERTIES
  ExecutingEnds
CHECK_DEADLOCK FALSE
