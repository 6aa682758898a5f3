SPECIFICATION Spec
CONSTANTS
  FirstFrame = 0
  LastFrame = 5
  LastPacket <- OnePacket
  CacheFrames = 2
  IdRange = 4
  AheadLimit = 1
  SuppressFor = 1
INVARIANT NewestInFlightKept
