CONSTANTS
  c1 = c1
  c2 = c2
  a1 = a1
  p1 = p1
  p2 = p2
  t1 = t1
  t2 = t2
  NoCR = NoCR
  NoProc = NoProc
  CRs = {c1, c2}
  Assets = {a1}
  AssetsOf <- OneAsset
  NoVerify = {c1}
  Unguarded = {}
  Scheduled = {}
  Procs = {p1}
  Tasks = {t1, t2}
  PreflightResults = {TRUE}
  VerifyResults = {TRUE, FALSE}
  RollbackResults = {"rolled_back", "rollback_partial"}
  MaxRuns = 3
  MaxCrashes = 1
SPECIFICATION Spec
SYMMETRY TaskSymmetry
INVARIANTS
  TypeOK
  RunHasOwner
  InFlightHasOwner
  SeqDistinct
PROPERTIES
  StampOnTop
CHECK_DEADLOCK FALSE
