SPECIFICATION WalkSpec
CONSTANTS
  States <- MCStates
  MaxTransitions = 4
  Tables <- AllTables
  From = 0
  To = 3
  SafeState = 1
INVARIANTS
  WalkTypeOK
  FoundIffReachable
  NeverRevisits
CHECK_DEADLOCK FALSE
