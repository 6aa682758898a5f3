SPECIFICATION MCSpec
CONSTANTS
  left = left
  middle = middle
  right = right
  None = None
  Outputs <- TwoOutputs
  PrimaryOutput = right
  Windows <- SomeWindows
  Geometries <- TwoSizes
  Setups <- MostSetups
  MaxEvents = 2
  Ewmh = TRUE
  Kinds = {"monitor"}
  Buffers = {"bgrx"}
  EarlyStops = FALSE
  Desktops <- ThreeDesktops
  TestModes = {TRUE, FALSE}
  Freezes <- FreezeOne
  MaxScreen = 2
  MaxReconnects = 1
INVARIANTS NewestOffered LossFails CaptureQuiet
CHECK_DEADLOCK FALSE
