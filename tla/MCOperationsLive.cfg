CONSTANTS
  importA = importA
  importB = importB
  rescan = rescan
  import_sessions = import_sessions
  rescan_sources = rescan_sources
  Kind <- MCBothKind
  Key <- MCBothKey
  KindOf <- MCBothKindOf
  Client = {c1}
  MaxOps = 2
  MaxCrashes = 1
  MaxFaults = 0
SPECIFICATION FairSpec
CHECK_DEADLOCK FALSE
PROPERTIES Settles OutcomeShown
