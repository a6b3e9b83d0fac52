CONSTANTS
  Key = {k1, k2, k3}
  Blob = {b1, b2, b3}
  None = None
  MaxCrashes = 2
  MaxFaults = 2
SPECIFICATION Spec
SYMMETRY StoreSymmetry
INVARIANTS NoDanglingRef RefsAreCounts
PROPERTIES BootCleans
