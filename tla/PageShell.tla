------------------------------- MODULE PageShell -------------------------------
(***************************************************************************)
(* The split pane of the page: the selected session and its mirror in the  *)
(* URL, the pane a narrow window shows, the tabs of the session pane and   *)
(* the fetch of its Raw tab.                                               *)
(*                                                                         *)
(* The lists are whatever rows they hold at the moment; PageLists says how *)
(* they come to hold them.  Moving through the history changes the URL at  *)
(* once and tells the page by a popstate event later.                      *)
(***************************************************************************)
EXTENDS Naturals, FiniteSets, Sequences

CONSTANTS
  Row,         \* row keys of the merged list
  NoRow,       \* no session selected
  ImportedRow, \* rows with a storedSessionUid
  Entry,       \* bound: history entries of this document
  Read         \* bound: raw fetches under way at one time

ASSUME ShellAssumption == NoRow \notin Row /\ ImportedRow \subseteq Row

VARIABLES
  entry, url,        \* browser: the entry shown, the ?session= of each
  popping,           \* a popstate event is queued
  selectedRowKey,
  narrowMode, isNarrow,
  listed, settled,   \* mergedRows; no list is loading
  activeTab, visitedTabs,
  rawState,          \* the state of RawTab, when it is mounted
  read               \* raw fetches under way

browserVars == <<entry, url, popping>>
modeVars == <<narrowMode, isNarrow>>
rowVars == <<listed, settled>>
paneVars == <<activeTab, visitedTabs, rawState, read>>
shellVars == <<browserVars, selectedRowKey, modeVars, rowVars, paneVars>>

TabId == <<"transcript", "skim", "raw", "metadata">>
Tab == {TabId[i] : i \in DOMAIN TabId}
DefaultTab == "transcript"

NoRead == [row |-> NoRow, aborted |-> FALSE]

ShellTypeOK ==
  /\ entry \in Entry /\ url \in [Entry -> Row \union {NoRow}] /\ popping \in BOOLEAN
  /\ selectedRowKey \in Row \union {NoRow}
  /\ narrowMode \in {"list", "session"} /\ isNarrow \in BOOLEAN
  /\ listed \subseteq Row /\ settled \in BOOLEAN
  /\ activeTab \in visitedTabs /\ visitedTabs \subseteq Tab
  /\ rawState \in {"unmounted", "not_imported", "loading", "success", "error"}
  /\ read \in [Read -> [row : Row \union {NoRow}, aborted : BOOLEAN]]

\* The page opens at any URL; a row in it is selected.
ShellInit ==
  /\ entry \in Entry /\ url \in [Entry -> Row \union {NoRow}] /\ popping = FALSE
  /\ selectedRowKey = url[entry]
  /\ narrowMode = IF selectedRowKey # NoRow THEN "session" ELSE "list"
  /\ isNarrow \in BOOLEAN
  /\ listed = {} /\ settled = FALSE
  /\ activeTab = DefaultTab /\ visitedTabs = {DefaultTab}
  /\ rawState = "unmounted" /\ read = [r \in Read |-> NoRead]

-----------------------------------------------------------------------------
(* The session pane *)

\* sessionViewState.
PaneState ==
  IF selectedRowKey = NoRow THEN "empty"
  ELSE IF selectedRowKey \in listed THEN "ready"
  ELSE IF settled THEN "session_not_found" ELSE "loading"

\* What the fetches are after the cleanup of the Raw tab.
Aborted == [r \in Read |-> IF read[r] = NoRead THEN NoRead ELSE [read[r] EXCEPT !.aborted = TRUE]]

\* Variant that forgets the visits and keeps the tab.
ResetPaneTab ==
  /\ visitedTabs' = {DefaultTab} /\ UNCHANGED activeTab
  /\ rawState' = "unmounted"
  /\ read' = Aborted

\* Variant whose cleanup only forgets the fetch.
ResetPaneOnly ==
  /\ activeTab' = DefaultTab /\ visitedTabs' = {DefaultTab}
  /\ rawState' = "unmounted"
  /\ UNCHANGED read

\* The tab shell is mounted anew for another row and unmounted with its row:
\* the Raw tab's cleanup aborts its fetch.
ResetPane ==
  /\ activeTab' = DefaultTab /\ visitedTabs' = {DefaultTab}
  /\ rawState' = "unmounted"
  /\ read' = Aborted

\* The effect of the Raw tab.
StartRead ==
  IF selectedRowKey \in ImportedRow
    THEN /\ \E r \in Read : read[r] = NoRead /\ read' = [read EXCEPT ![r].row = selectedRowKey]
         /\ rawState' = "loading"
    ELSE rawState' = "not_imported" /\ UNCHANGED read

\* A tab mounts when it is visited for the first time and stays mounted.
Activate(tab) ==
  /\ PaneState = "ready"
  /\ activeTab' = tab /\ visitedTabs' = visitedTabs \union {tab}
  /\ IF tab = "raw" /\ tab \notin visitedTabs THEN StartRead ELSE UNCHANGED <<rawState, read>>
  /\ UNCHANGED <<browserVars, selectedRowKey, modeVars, rowVars>>

\* The keys of the tab list, from tab i: the arrows wrap around.
Beside(i) == {IF i = 1 THEN Len(TabId) ELSE i - 1, IF i = Len(TabId) THEN 1 ELSE i + 1, 1, Len(TabId)}
PressKey == \E i \in DOMAIN TabId : activeTab = TabId[i] /\ \E j \in Beside(i) : Activate(TabId[j])

RetryRaw ==
  /\ rawState = "error"
  /\ StartRead
  /\ UNCHANGED <<browserVars, selectedRowKey, modeVars, rowVars, activeTab, visitedTabs>>

\* A fetch ends; one that was aborted changes nothing.
ReadEnds(r) ==
  /\ read[r] # NoRead
  /\ read' = [read EXCEPT ![r] = NoRead]
  /\ IF read[r].aborted THEN UNCHANGED rawState ELSE rawState' \in {"success", "error"}
  /\ UNCHANGED <<browserVars, selectedRowKey, modeVars, rowVars, activeTab, visitedTabs>>

\* New lists land; a pane whose row is gone is taken down.
RowsLand ==
  /\ settled' = TRUE /\ listed' \in SUBSET Row
  /\ IF PaneState = "ready" /\ selectedRowKey \notin listed' THEN ResetPane ELSE UNCHANGED paneVars
  /\ UNCHANGED <<browserVars, selectedRowKey, modeVars>>

-----------------------------------------------------------------------------
(* The selection *)

SelectsRow(k) ==
  /\ selectedRowKey' = k
  /\ IF k # selectedRowKey THEN ResetPane ELSE UNCHANGED paneVars

\* Variant that leaves the parameter of a session that was left.
WriteUrlOfSession(k) == url' = IF k = NoRow THEN url ELSE [url EXCEPT ![entry] = k]

\* buildUrl and replaceState: the entry shown, and only its session.
WriteUrl(k) == url' = [url EXCEPT ![entry] = k]

\* selectRow.
SelectRow(k) ==
  /\ SelectsRow(k) /\ WriteUrl(k)
  /\ UNCHANGED <<entry, popping, isNarrow, rowVars>>

ClickRow(k) == k \in listed /\ SelectRow(k) /\ narrowMode' = "session"

\* Where Escape is pressed; editable controls keep it, and outside of the
\* pane and the selected row it does nothing.
Escape(where) ==
  /\ where = "pane" \/ (where = "current_row" /\ selectedRowKey \in listed)
  /\ SelectRow(NoRow) /\ narrowMode' = "list"

ClearNotFound ==
  /\ PaneState = "session_not_found"
  /\ SelectRow(NoRow) /\ narrowMode' = "list"

BackToList ==
  /\ isNarrow /\ narrowMode = "session"
  /\ narrowMode' = "list"
  /\ UNCHANGED <<browserVars, selectedRowKey, isNarrow, rowVars, paneVars>>

Resize ==
  /\ isNarrow' = ~isNarrow
  /\ UNCHANGED <<browserVars, selectedRowKey, narrowMode, rowVars, paneVars>>

\* Back, Forward.
Traverse(e) ==
  /\ e # entry
  /\ entry' = e /\ popping' = TRUE
  /\ UNCHANGED <<url, selectedRowKey, modeVars, rowVars, paneVars>>

\* The popstate handler reads the URL as it is now.
PopState ==
  /\ popping /\ popping' = FALSE
  /\ SelectsRow(url[entry])
  /\ UNCHANGED <<entry, url, modeVars, rowVars>>

-----------------------------------------------------------------------------

ShellNext ==
  \/ \E tab \in Tab : Activate(tab)
  \/ PressKey \/ RetryRaw
  \/ \E r \in Read : ReadEnds(r)
  \/ RowsLand
  \/ \E k \in Row : ClickRow(k)
  \/ \E where \in {"pane", "current_row"} : Escape(where)
  \/ ClearNotFound \/ BackToList \/ Resize
  \/ \E e \in Entry : Traverse(e)
  \/ PopState

-----------------------------------------------------------------------------
(* Properties *)

\* The URL names the selected session, whatever mix of clicks, Escape and
\* history the user makes, except while the page has yet to hear of a move.
UrlMirrorsSelection == ~popping => url[entry] = selectedRowKey

\* Raw bytes are streamed only for the session whose pane is shown.
RawReadsAreWatched ==
  \A r \in Read : read[r] # NoRead /\ ~read[r].aborted =>
    read[r].row = selectedRowKey /\ PaneState = "ready" /\ rawState = "loading"

=============================================================================
