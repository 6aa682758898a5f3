SPECIFICATION Spec
CONSTANTS
  Intervals <- ShortAndLong
  DefaultInterval = 2
  MinStamp = 2
  NoFrame = NoFrame
  Modes <- AllModes
  Gaps <- HurriedGaps
  Ages <- FewAges
  Pointers = {p1}
  NoPointer = NoPointer
  NoOverlay = NoOverlay
  MaxRetries = 2
  Horizon = 9
INVARIANTS OverlayMatches LeadsByFloors
PROPERTIES PacerSpec DeliversNewest
