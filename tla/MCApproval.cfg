CONSTANTS
  ann = ann
  bob = bob
  eve = eve
  h1 = h1
  h2 = h2
  NoUser = NoUser
  Users = {ann, bob, eve}
  Role <- Roles
  Requester = eve
  Handlers = {h1, h2}
  Risks = {"medium", "critical"}
  WindowsConfigured = TRUE
  HardWindow = TRUE
  Emergency = FALSE
  MaxPlans = 2
  MaxVotes = 2
SPECIFICATION Spec
SYMMETRY Slots
INVARIANTS
  TypeOK
  GrantedByApprover
  SubmittedHasPlan
  RanWhatWasApproved
  AwaitingUnsatisfied
PROPERTIES
  LifecycleForward
CHECK_DEADLOCK FALSE
