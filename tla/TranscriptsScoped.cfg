SPECIFICATION Spec
CONSTANTS
  None = None
  CodexLine <- MCCodexLine
  ClaudeLine <- MCClaudeLine
  MaxLines = 2
INVARIANT ScopedWarningsAreShown
CHECK_DEADLOCK FALSE
