SPECIFICATION Spec
CONSTANTS
  None = None
  MaxNow = 60
  IdleCap = 1
  StallAfter = 60
  Packets = {1}
  Ages <- AheadAges
  MaxLate = 0
  Budgets <- TimeOrEvents
  Backends = {"wasapi"}
  MaxReconnects = 0
  MaxUnplugs = 0
  MaxRefusals = 0
  SlowInit = FALSE
INVARIANTS LeadBounded
VIEW FromNow
