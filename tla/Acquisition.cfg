SPECIFICATION Spec
CONSTANTS
  NumValues = 2
  InitialActiveLoop = FALSE
  NumChannels = 3
  InitialActive = TRUE
  MaxFailures = 3
  Adc = 1
  SlowSync = TRUE
INVARIANTS
  AcquisitionTypeOK
  StoppedStays
  OwnSample
PROPERTY KeepsSampling
CHECK_DEADLOCK FALSE
