SPECIFICATION FairSpec
CONSTANTS
  ChannelThreads <- OneChannelThread
  EarlyStop = FALSE
  Failures <- OnlyClose
PROPERTY TeardownEnds
CHECK_DEADLOCK FALSE
