SPECIFICATION AdaptiveSpec
CONSTANTS
  Settings <- MCSettings
  Windows <- MCWindows
  UserKbps = {8000}
  DelayRequests = {100, 250}
  RampUpTicks = 2
  CeilingTicks = 3
  UpshiftTicks = 3
  CalmTicks = 2
  TrendTicks = 2
  Cooldown = 2
  EmergencyCooldown = 1
  UpshiftAfter = 3
  FreshAge = 2
INVARIANT FloorIsReached
