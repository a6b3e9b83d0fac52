CONSTANTS
  importA = importA
  importB = importB
  rescan = rescan
  import_sessions = import_sessions
  rescan_sources = rescan_sources
  Kind <- MCImportKind
  Key <- MCImportKey
  KindOf <- MCImportKindOf
  Client = {c1, c2}
  MaxOps = 2
  MaxCrashes = 1
  MaxFaults = 1
SPECIFICATION Spec
SYMMETRY ClientSymmetry
CHECK_DEADLOCK FALSE
INVARIANTS TypeOK UniqueReservation OwnedOrStranded WriteLands
PROPERTIES NoStartAfterCancel RunsAtMostOnce CancelHonoured Lives
