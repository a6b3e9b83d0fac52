SPECIFICATION FairSpec
CONSTANTS
  Roots <- MCRoots
  KeyOf <- MCKeyOf
  Task = {"poll", "import"}
  Request <- MCRequest
  Present = {1, 3}
  Content = {c, d}
  None = None
  MaxEdits = 2
  MaxFaults = 1
INVARIANTS StatusesAreOfTheStore ImportedIsStored
PROPERTIES CatchesUp
