SPECIFICATION Spec
CONSTANTS
  None = None
  CodexLine <- MCCodexLine
  ClaudeLine <- MCClaudeLine
  MaxLines = 4
INVARIANTS EveryMessageIsRendered OutlineShowsTheSame  WarningIsOnItsRow EchoIsSafe
CHECK_DEADLOCK FALSE
