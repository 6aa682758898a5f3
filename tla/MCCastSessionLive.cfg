SPECIFICATION FairSpec
CONSTANTS
  ChannelThreads <- OneChannelThread
  EarlyStop = FALSE
  Failures = {}
PROPERTY StopReturns
CHECK_DEADLOCK FALSE
