SPECIFICATION FairSpec
CONSTANTS
  Key = {a, b}
  View = {transcript, skim}
  CacheMax = 1
  None = None
  Slot = {1, 2}
  Stored = {a}
  MaxRetries = 1
  MaxImports = 1
  MaxBumps = 1
INVARIANTS TypeOK CacheIsCurrent StreamsAreWatched
PROPERTIES ShownIsCurrent
