CONSTANTS
  c1 = c1
  c2 = c2
  a1 = a1
  p1 = p1
  p2 = p2
  t1 = t1
  t2 = t2
  NoCR = NoCR
  NoProc = NoProc
  CRs = {c1}
  Assets = {a1}
  AssetsOf <- OneAsset
  NoVerify = {}
  Unguarded = {c1}
  Scheduled = {c1}
  Procs = {p1, p2}
  Tasks = {t1, t2}
  PreflightResults = {TRUE, FALSE}
  VerifyResults = {TRUE}
  RollbackResults = {"rolled_back", "rollback_failed"}
  MaxRuns = 3
  MaxCrashes = 1
SPECIFICATION FairSpec
PROPERTIES
  ImplementsLifecycle
  ScheduledStarts
CHECK_DEADLOCK FALSE
