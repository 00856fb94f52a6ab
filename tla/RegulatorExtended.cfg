SPECIFICATION FairSpec
CONSTANTS
  Pins = {1, 2, 3}
  FallPins = {1, 2}
  RisePins = {1}
  Delay <- OnWorkOffBusy
  AlwaysOn = FALSE
  BootOn = TRUE
  Simulate = TRUE
  WorkqFirst = TRUE
  ScheduleFails = TRUE
  MaxErrors = 2
  MaxGlitches = 2
  MaxSets = 3
INVARIANTS
  RTypeOK
  NeverStuck
  MonitorArmed
  OutputFollows
PROPERTIES
  AnswersLikeDevice
  Settles
CHECK_DEADLOCK FALSE
