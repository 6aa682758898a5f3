SPECIFICATION CadenceSpec
CONSTANTS
  Intervals <- TwoRates
  DefaultInterval = 5
  MinStamp = 1
  NoFrame = NoFrame
  Waits <- StepAndStall
  Lags <- FreshOrOld
  Until = 8
INVARIANTS RateBounded
PROPERTIES StrictStamps
