SPECIFICATION Spec
CONSTANTS
  Intervals <- OneInterval
  DefaultInterval = 2
  MinStamp = 1
  NoFrame = NoFrame
  Modes <- MonitorOnly
  Gaps <- LoopGaps
  Ages <- FewAges
  Pointers = {p1}
  NoPointer = NoPointer
  NoOverlay = NoOverlay
  MaxRetries = 2
  Horizon = 10
PROPERTIES DeliveredStampsAdvance
