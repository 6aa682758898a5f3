SPECIFICATION Spec
CONSTANTS
  ChannelThreads <- OneChannelThread
  EarlyStop = TRUE
  Failures <- AllFailures
INVARIANT CancelSettles
CHECK_DEADLOCK FALSE
