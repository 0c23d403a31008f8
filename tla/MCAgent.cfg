CONSTANTS
  a1 = a1
  a2 = a2
  h1 = h1
  h2 = h2
  NoAgent = NoAgent
  NoHandler = NoHandler
  Agents = {a1}
  Handlers = {h1, h2}
  MaxJobs = 2
  MaxFaults = 3
SPECIFICATION FairSpec
INVARIANTS
  RunsOnce
  DispatchTruthful
  RunningIsHeld
PROPERTIES
  JobSettles
CHECK_DEADLOCK FALSE
