SPECIFICATION Spec
CONSTANTS
  NumDevices = 3
  NumStates = 2
  NumStages = 3
  NULL = NULL
  LogDepth = 1
  Entries <- MCEntries
  Unwritten = Unwritten
  States <- MCStates
  Transitions <- MCTransitions
  SafeState = 1
  FirstTransition <- MCFirst
  Requests <- MCRequests
  MaxReqs = 1
  Pins = {1}
  FallPins = {1}
  RisePins = {}
  Delay <- OnWorkOffNone
  MaxErrors = 1
  MaxGlitches = 1
  Nodes <- MCNodes
  InitialState = 0
  MaxBusErrors = 1
  Commands = {c1, c2}
  Expected <- MCExpected
INVARIANTS
  RailTypeOK
  DriversKeepPromises
  RestAsDeclared
  NoDanglingCallback
PROPERTIES
  PoweredFirst
  CommandsEnd
  RailRests
CHECK_DEADLOCK FALSE
