SPECIFICATION Spec
CONSTANTS
  NumDevices = 3
  NumStates = 2
  NumStages = 3
  LogDepth = 2
  Entries <- MCEntries
  Unwritten = Unwritten
  Devs <- MCDevs
  States <- MCStates
  Transitions <- Rail
  SafeState = 1
  FirstTransition <- RailSearch
  DevStates <- MCDevStates
  Broken = {}
  Deaf = {}
  Clients = {c1, c2}
  Requests <- SafeRequests
  WorkqFirst = TRUE
  MaxFails = 0
  MaxReqs = 4
INVARIANT NotBusyAtRest
CHECK_DEADLOCK FALSE
