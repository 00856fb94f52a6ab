SPECIFICATION Spec
CONSTANTS
  ValueMax = 2147483647
  NumFiltered = 2
  ParamScale = 2
  Period = 1
  DefaultAlpha = 1
  FilterOn = TRUE
  NumInputs = 2
  WeightScale = 2
  DefaultWeights <- OneAndHalf
  MixOn = TRUE
  Readable = {"x0", "x1"}
  Program <- Quotients
  NumResults = 2
  CalcOn = FALSE
  NumPeaks = 1
  MinMaxOn = FALSE
  NumWatched = 2
  Minimum = 0
  Maximum = 1
  MonitorOn = TRUE
  Readings <- Answers
  Alphas = {0, 2, 3}
  MaxCalls = 2
  MaxOutput = 2
INVARIANTS
  PipelineTypeOK
  SmoothedInRange
  NothingStale
  PeaksExact
  ResultsCurrent
  NoFalseAlarm
