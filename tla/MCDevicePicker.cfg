SPECIFICATION MCSpec
ACTION_CONSTRAINT StaysOn
CONSTANTS
  t1 = t1
  t2 = t2
  a1 = a1
  a2 = a2
  c1 = c1
  unnamed = unnamed
  TVs = {t1}
  Addresses = {a1, a2}
  Leases <- FixedLeases
  CloudIds = {unnamed}
  Unnamed = unnamed
  Reports <- OwnIds
  Probers = {}
  BatchSize = 1
  None = None
  Profiles <- Windows
  SavedDevices <- OneSaved
  MaxPosts = 1
INVARIANTS FrontEndAgrees SelectionCastable
