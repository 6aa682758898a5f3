SPECIFICATION Spec
CONSTANTS
  s1 = s1
  s2 = s2
  s3 = s3
  w1 = w1
  w2 = w2
  Sessions = {s1, s2}
  Starters = {w1, w2}
  Callers <- TwoStarters
  Programs <- AllPrograms
  Toggles = TRUE
  MaxStarts = 1
  MaxPosts <- ClicksAhead
  None = None
SYMMETRY Symmetric
INVARIANTS OneStream LiveIsShown TogglesAgree CallbacksQuiet TrayQuiet
CHECK_DEADLOCK FALSE
