SPECIFICATION FairSpec
CONSTANTS
  FirstFrame = 4
  LastFrame = 6
  LastPacket <- OneOrTwo
  CacheFrames = 2
  IdRange = 6
  AheadLimit = 1
  SuppressFor = 2
INVARIANTS UnackedKept
PROPERTIES Suppressed LossRepaired
