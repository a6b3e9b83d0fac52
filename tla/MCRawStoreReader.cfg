CONSTANTS
  Key = {k1}
  Blob = {b1, b2}
  None = None
  MaxCrashes = 0
  MaxFaults = 0
SPECIFICATION Spec
INVARIANTS ReadersSeeBytes
