SPECIFICATION Spec
CONSTANTS
  ValueMax = 63
  NumFiltered = 1
  ParamScale = 6
  Period = 13
  DefaultAlpha = 3
  FilterOn = FALSE
  NumInputs = 2
  WeightScale = 1
  DefaultWeights <- OneAndNone
  MixOn = TRUE
  ParamDesc <- Descs
  Written <- Values
  Stacks <- Garbage
  MaxEdits = 4
PROPERTY LoadsWhatWasSaved
