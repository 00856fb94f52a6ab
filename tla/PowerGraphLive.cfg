SPECIFICATION FairSpec
CONSTANTS
  NumDevices = 3
  NumStates = 2
  NumStages = 3
  LogDepth = 2
  Entries <- RailEntries
  Unwritten = Unwritten
  Devs <- MCDevs
  States <- MCStates
  Transitions <- Rail
  SafeState = 1
  FirstTransition <- RailSearch
  DevStates <- MCDevStates
  Broken = {}
  Deaf = {}
  Clients = {c1, c2}
  Requests <- UnsafeRequests
  WorkqFirst = TRUE
  MaxFails = 2
  MaxReqs = 2
INVARIANTS
  LogExclusive
  LogInv
PROPERTIES
  ComesToRest
  SafeReached
  KeepsNewest
CHECK_DEADLOCK FALSE
