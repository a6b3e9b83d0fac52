SPECIFICATION Spec
CONSTANTS
  Batch = {b}
  MaxCalls = 3
  None = None
  Asked = Asked
  MaxOps = 1
  MaxFaults = 1
  Key = {j, k}
  Get = {1, 2}
  MaxClock = 1
  MaxFailed = 1
  Session = {1, 2, 3}
  PageSize = {1, 2}
  Corrupt = Corrupt
  Row = {x, y}
  NoRow = NoRow
  ImportedRow = {x}
  Entry = {1, 2}
  Read = {1, 2}
  Newline = Newline
  Other = Other
  MaxPayload = 6
  LineCap = 2
  PreviewByteCap = 5
  TextByteCap = 4
CHECK_DEADLOCK FALSE
INVARIANTS TypeOK OnePollPerOperation ListsAreFresh SelectedIsListed UrlMirrorsSelection RawReadsAreWatched  ReloadKeepsFilters PreviewIsPrefix
PROPERTIES OutcomeIsTold SummarySettles
