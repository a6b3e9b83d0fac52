SPECIFICATION FairSpec
CONSTANTS
  Key = {a}
  View = {transcript, skim}
  CacheMax = 1
  None = None
  Slot = {1, 2}
  Stored = {}
  MaxRetries = 1
  MaxImports = 1
  MaxBumps = 2
PROPERTIES LoadingEnds
