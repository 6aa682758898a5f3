SPECIFICATION Spec
CONSTANTS
  ChannelThreads <- OneChannelThread
  EarlyStop = FALSE
  Failures <- AllFailures
INVARIANTS SessionInv NoZombieMedia NoThreadOverwritten Supervised Settled
PROPERTIES NoLateRevival
CHECK_DEADLOCK FALSE
