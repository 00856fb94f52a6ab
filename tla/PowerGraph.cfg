SPECIFICATION Spec
CONSTANTS
  NumDevices = 3
  NumStates = 2
  NumStages = 3
  LogDepth = 2
  Entries <- MCEntries
  Unwritten = Unwritten
  Devs <- MixedDevs
  States <- MixedStates
  Transitions <- Mixed
  SafeState = 1
  FirstTransition <- MixedSearch
  DevStates <- MCDevStates
  Broken = {3}
  Deaf = {3}
  Clients = {c1, c2}
  Requests <- MixedRequests
  WorkqFirst = FALSE
  MaxFails = 2
  MaxReqs = 2
INVARIANTS
  TypeOK
  OnePending
  StageOrder
  NoLostWakeup
PROPERTY StateChangesAlongTransition
CHECK_DEADLOCK FALSE
