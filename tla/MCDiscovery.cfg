SPECIFICATION FairSpec
CONSTANTS
  t1 = t1
  t2 = t2
  a1 = a1
  a2 = a2
  c1 = c1
  unnamed = unnamed
  TVs = {t1}
  Addresses = {a1}
  Leases <- FixedLeases
  CloudIds <- Clouds
  Unnamed = unnamed
  Reports <- ManyIds
  Probers <- SubnetScan
  BatchSize = 1
  None = None
  Profiles <- CommandLine
  SavedDevices = {}
  MaxPosts = 1
INVARIANTS UniqueEntries StoppedQuiet
PROPERTIES SilentLeaves StopReturns
