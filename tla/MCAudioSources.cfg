SPECIFICATION Spec
CONSTANTS
  None = None
  MaxNow = 6
  IdleCap = 1
  StallAfter = 4
  Packets = {1, 2}
  Ages <- MixedAges
  MaxLate = 4
  Budgets <- TimeOrEvents
  Backends = {"wasapi", "pulse"}
  MaxReconnects = 1
  MaxUnplugs = 1
  MaxRefusals = 1
  SlowInit = TRUE
INVARIANTS CaptureOnTime SinkRestored
PROPERTIES StampsAdvance
