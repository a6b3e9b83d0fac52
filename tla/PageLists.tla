------------------------------- MODULE PageLists -------------------------------
(***************************************************************************)
(* The lists of the page and the rows the user selects in them: refetchAll *)
(* of App.tsx, the effect that reconciles the selection and the gestures   *)
(* that change it.  The mutation flows of PageFlows appear as their end: a *)
(* success the page has seen, which fetches the lists again.               *)
(*                                                                         *)
(* Of a list the model keeps what each session is ready for and the number *)
(* of operations that had succeeded when the server answered; the filters  *)
(* are whatever they are at the moment of a click.                         *)
(***************************************************************************)
EXTENDS Naturals, FiniteSets

CONSTANTS
  Key,         \* source session keys
  Get,         \* bound: refetches under way at one time
  MaxClock, MaxFailed   \* bounds: operations that succeed, lists that fail

ASSUME ListsAssumption == MaxClock \in Nat /\ MaxFailed \in Nat

VARIABLES
  clock,       \* server: operations that have succeeded
  session,     \* server: the inventory
  source,      \* sourceState
  store,       \* storedState
  refetch,     \* calls of refetchAll under way
  selected,
  fresh,       \* history: clock when the page handled the last success
  failed       \* lists that failed so far

listVars == <<clock, session, source, store, refetch, selected, fresh, failed>>

\* The status of a source session decides whether it can be imported.
Status == {"unlisted", "importable", "up_to_date"}
Nothing == [k \in Key |-> "unlisted"]

\* The source list, whose status wins, and the stored one.
Loading == [kind |-> "loading", rows |-> Nothing, ver |-> 0]
Failed == [kind |-> "error", rows |-> Nothing, ver |-> 0]
Answer(rows) == [kind |-> "ok", rows |-> rows, ver |-> clock]
Panel == [kind : {"loading", "error", "ok"}, rows : [Key -> Status], ver : 0 .. MaxClock]

NoRefetch == [on |-> FALSE, source |-> Loading, store |-> Loading]
Refetch == [on : BOOLEAN, source : Panel, store : Panel]

ListsTypeOK ==
  /\ clock \in 0 .. MaxClock /\ fresh \in 0 .. clock /\ failed \in 0 .. MaxFailed
  /\ session \in [Key -> Status]
  /\ source \in Panel /\ store \in Panel /\ refetch \in [Get -> Refetch]
  /\ selected \subseteq Key

\* The page has rendered and the effect of the first render has asked.
ListsInit ==
  /\ clock = 0 /\ fresh = 0 /\ failed = 0
  /\ session \in [Key -> Status]
  /\ source = Loading /\ store = Loading
  /\ \E g \in Get : refetch = [h \in Get |-> [NoRefetch EXCEPT !.on = (h = g)]]
  /\ selected = {}

ListFault == failed < MaxFailed /\ failed' = failed + 1

-----------------------------------------------------------------------------
(* The server *)

\* A rescan may find anything; an import brings sessions up to date.
ServerMoves ==
  /\ clock < MaxClock /\ clock' = clock + 1
  /\ \/ session' \in [Key -> Status]
     \/ \E keys \in SUBSET {k \in Key : session[k] # "unlisted"} :
          session' = [k \in Key |-> IF k \in keys THEN "up_to_date" ELSE session[k]]
  /\ UNCHANGED <<source, store, refetch, selected, fresh, failed>>

-----------------------------------------------------------------------------
(* The lists *)

\* Variant that lets the call before it go on.
StartRefetchBeside ==
  \E g \in Get : ~refetch[g].on /\ refetch' = [refetch EXCEPT ![g].on = TRUE]

\* refetchAll: the call before it is aborted, its answers are dropped.
StartRefetch ==
  \E g \in Get : refetch' = [h \in Get |-> [NoRefetch EXCEPT !.on = (h = g)]]

\* A Retry button of a panel, or Try Rescan of the session pane.
RefetchLists ==
  /\ StartRefetch
  /\ UNCHANGED <<clock, session, source, store, selected, fresh, failed>>

SourceAnswers(g) ==
  /\ refetch[g].on /\ refetch[g].source = Loading
  /\ \/ /\ refetch' = [refetch EXCEPT ![g].source = Answer(session)]
        /\ UNCHANGED failed
     \/ /\ ListFault /\ refetch' = [refetch EXCEPT ![g].source = Failed]
  /\ UNCHANGED <<clock, session, source, store, selected, fresh>>

StoredAnswers(g) ==
  /\ refetch[g].on /\ refetch[g].store = Loading
  /\ \/ /\ refetch' = [refetch EXCEPT ![g].store = Answer(Nothing)]
        /\ UNCHANGED failed
     \/ /\ ListFault /\ refetch' = [refetch EXCEPT ![g].store = Failed]
  /\ UNCHANGED <<clock, session, source, store, selected, fresh>>

Listed(panel) == {k \in Key : panel.rows[k] # "unlisted"}

\* Variant without the effect.
LandUnpruned(g) ==
  /\ source' = refetch[g].source /\ store' = refetch[g].store
  /\ UNCHANGED selected

\* The panels, and the effect that drops selected keys no longer listed.
Land(g) ==
  /\ source' = refetch[g].source /\ store' = refetch[g].store
  /\ selected' = IF refetch[g].source.kind = "ok" THEN selected \intersect Listed(refetch[g].source)
                 ELSE selected

RefetchEnds(g) ==
  /\ refetch[g].on /\ refetch[g].source # Loading /\ refetch[g].store # Loading
  /\ Land(g)
  /\ refetch' = [refetch EXCEPT ![g] = NoRefetch]
  /\ UNCHANGED <<clock, session, fresh, failed>>

-----------------------------------------------------------------------------
(* The selection *)

\* isImportable over the merged rows.
Importable == {k \in Key : source.rows[k] = "importable"}

Selects(S) ==
  /\ selected' = S
  /\ UNCHANGED <<clock, session, source, store, refetch, fresh, failed>>

Toggle(k) == k \in Importable /\ Selects((selected \ {k}) \union ({k} \ selected))

\* The bulk gestures act on the importable rows the filters show.
ToggleAll(shown) == Selects(IF shown # {} /\ shown \subseteq selected THEN selected \ shown
                            ELSE selected \union shown)
ClearHidden(shown) == Selects(selected \intersect shown)
ClearSelection == Selects({})

\* The end of handleRescan or handleImport, when the operation succeeded.
HandleSuccess(kind) ==
  /\ fresh' = clock
  /\ selected' = IF kind = "import" THEN {} ELSE selected
  /\ StartRefetch
  /\ UNCHANGED <<clock, session, source, store, failed>>

-----------------------------------------------------------------------------

ListStep(g) == SourceAnswers(g) \/ StoredAnswers(g) \/ RefetchEnds(g)

ListsNext ==
  \/ ServerMoves \/ RefetchLists
  \/ \E g \in Get : ListStep(g)
  \/ \E k \in Key : Toggle(k)
  \/ \E shown \in SUBSET Importable : ToggleAll(shown) \/ ClearHidden(shown)
  \/ ClearSelection
  \/ \E kind \in {"rescan", "import"} : HandleSuccess(kind)

-----------------------------------------------------------------------------
(* Properties *)

\* When nothing is being fetched, lists that loaded are no older than the
\* last success the page has told of, though refetches overlap.
ListsAreFresh ==
  (\A g \in Get : ~refetch[g].on) =>
    \A panel \in {source, store} : panel.kind = "ok" => panel.ver >= fresh

\* A key that a rescan has removed is never left in the selection.
SelectedIsListed == source.kind = "ok" => selected \subseteq Listed(source)

=============================================================================
