------------------------------- MODULE PageTable -------------------------------
(***************************************************************************)
(* The table of the page: the two lists merged into rows, the filters and  *)
(* the sort, the pages the rows are cut into, and the filters kept in      *)
(* localStorage.                                                           *)
(*                                                                         *)
(* The effects of App.tsx run after every render, in the order they are    *)
(* written, until none of them sets state: an action is a gesture or a     *)
(* list that lands together with the effects it sets off.  Of the filters  *)
(* the model keeps status, "importable only", the sort direction and the   *)
(* page size; tool, storage, project and search narrow the rows likewise.  *)
(***************************************************************************)
EXTENDS Integers, FiniteSets, Sequences, SequencesExt

CONSTANTS
  Session,     \* sessions, by tool and source id: integers
  PageSize,    \* 50, 100 and 200 in the unit of the smallest
  Corrupt      \* what a damaged entry of localStorage holds

ASSUME TableAssumption ==
  /\ Session \subseteq Nat \ {0} /\ IsFiniteSet(Session)
  /\ PageSize \subseteq Nat \ {0} /\ 1 \in PageSize /\ Corrupt \notin PageSize

VARIABLES
  sourceList, storedList,   \* the lists as they landed last
  filters, blob,            \* useSessionFilters; its entry of localStorage
  storage,                  \* localStorage works, or it is off
  pageIndex

tableVars == <<sourceList, storedList, filters, blob, storage, pageIndex>>

SyncStatus == {"not_stored", "up_to_date"}
ImportableStatus == {"not_stored"}
Filters == [status : SUBSET SyncStatus, importableOnly : BOOLEAN,
            direction : {"asc", "desc"}, pageSize : PageSize]

ASSUME CorruptIsNoFilters == Corrupt \notin Filters

DefaultFilters == [status |-> {}, importableOnly |-> FALSE, direction |-> "desc", pageSize |-> 1]

TableTypeOK ==
  /\ sourceList \in [Session -> SyncStatus \union {"unlisted"}]
  /\ storedList \subseteq Session
  /\ filters \in Filters /\ blob \in Filters \union {Corrupt}
  /\ storage \in {"works", "off"}
  /\ pageIndex \in Nat

-----------------------------------------------------------------------------
(* The rows *)

\* mergeSessions: a row for every source session, with the stored session it
\* joins, and one for every stored session left over.
SourceRows == {[key |-> <<0, s>>, stored |-> s \in storedList, status |-> sourceList[s]] :
                 s \in {t \in Session : sourceList[t] # "unlisted"}}
StoredRows == {[key |-> <<1, s>>, stored |-> TRUE, status |-> "up_to_date"] :
                 s \in {t \in storedList : sourceList[t] = "unlisted"}}
MergedRows == SourceRows \union StoredRows

EffectiveStatus(f) ==
  IF f.importableOnly THEN ImportableStatus ELSE IF f.status = {} THEN SyncStatus ELSE f.status

Matches(row, f) == row.status \in EffectiveStatus(f)

\* The field sorted by is when the session was ingested, 0 for never, which
\* comes first ascending and last descending; the row key breaks ties.
IngestedAt(row) == IF row.stored THEN row.key[2] ELSE 0
KeyBefore(a, b) == a[1] < b[1] \/ (a[1] = b[1] /\ a[2] < b[2])
Before(a, b, direction) ==
  LET x == IngestedAt(a)  y == IngestedAt(b) IN
  IF x = y THEN KeyBefore(a.key, b.key) ELSE IF direction = "asc" THEN x < y ELSE x > y

MatchingRows == {row \in MergedRows : Matches(row, filters)}
RowsBefore(row) == {r \in MatchingRows : Before(r, row, filters.direction)}

\* applyFilters and applySort: the row at index i has i rows before it.
FilteredRows ==
  [i \in 1 .. Cardinality(MatchingRows) |->
     CHOOSE row \in MatchingRows : Cardinality(RowsBefore(row)) = i - 1]

-----------------------------------------------------------------------------
(* The pages *)

TotalPages(n, size) == IF n = 0 THEN 1 ELSE (n + size - 1) \div size

\* Variant that takes the number of pages for the last index.
ClampLate(p, n, size) == IF p > TotalPages(n, size) THEN TotalPages(n, size) ELSE p

\* applyPagination: the index it falls back to, and the slice.
Clamp(p, n, size) == IF p >= TotalPages(n, size) THEN TotalPages(n, size) - 1 ELSE p
PageRows(rows, p, size) ==
  LET start == Clamp(p, Len(rows), size) * size
      end == IF start + size < Len(rows) THEN start + size ELSE Len(rows)
  IN SubSeq(rows, start + 1, end)

\* The three effects after a render, in order: the index is clamped; a filter
\* that was set goes back to the first page; another page size keeps the row
\* the page began with, counted from the index the first two left.  The
\* render they set off clamps once more.
Effects(reset, oldSize) ==
  LET n == Len(FilteredRows')
      size == filters'.pageSize
      clamped == Clamp(pageIndex, n, size)
      first == IF reset THEN 0 ELSE clamped
      resized == IF oldSize = size THEN first ELSE (first * oldSize) \div size
  IN pageIndex' = Clamp(resized, n, size)

-----------------------------------------------------------------------------
(* The filters *)

\* decodeFilters: a field that does not decode is the default; one bad entry
\* drops the whole list of statuses.
Decode(f, name, valid) == IF f[name] \in valid THEN f[name] ELSE DefaultFilters[name]
DecodeFilters(raw) ==
  IF raw = Corrupt THEN DefaultFilters
  ELSE [status |-> Decode(raw, "status", SUBSET SyncStatus),
        importableOnly |-> Decode(raw, "importableOnly", BOOLEAN),
        direction |-> Decode(raw, "direction", {"asc", "desc"}),
        pageSize |-> Decode(raw, "pageSize", PageSize)]

\* safeSet does nothing, and says nothing, when there is no localStorage.
Persist(next) == blob' = IF storage = "works" THEN next ELSE blob

\* What localStorage may hold when the page opens: nothing readable, or a
\* blob of which one field is damaged.
OldBlob ==
  {Corrupt} \union
  {[DefaultFilters EXCEPT !.direction = "asc", !.importableOnly = TRUE, !.status = s, !.pageSize = n] :
     s \in {{"not_stored"}, {"not_stored", Corrupt}}, n \in PageSize \union {Corrupt}}

TableBegin(raw, works) ==
  /\ sourceList = [s \in Session |-> "unlisted"] /\ storedList = {}
  /\ filters = DecodeFilters(raw) /\ pageIndex = 0
  /\ storage = works
  \* the effect of the first render heals the entry
  /\ blob = IF works = "works" THEN filters ELSE Corrupt

TableInit == \/ \E raw \in OldBlob : TableBegin(raw, "works")
             \/ TableBegin(Corrupt, "off")

\* setFilter and setImportableOnly.
SetFilters(next, reset) ==
  /\ filters' = next
  /\ Persist(next)
  /\ UNCHANGED <<sourceList, storedList, storage>>
  /\ Effects(reset, filters.pageSize)

\* The chip "All", and a chip that adds its status or takes it away.
SetStatus(S) ==
  /\ S = {} \/ \E v \in SyncStatus : S = (filters.status \ {v}) \union ({v} \ filters.status)
  /\ SetFilters([filters EXCEPT !.status = S], TRUE)
SetDirection(d) == SetFilters([filters EXCEPT !.direction = d], d # filters.direction)

\* The page sizes are below a table with rows.
SetPageSize(n) == FilteredRows # <<>> /\ SetFilters([filters EXCEPT !.pageSize = n], FALSE)

\* Turned on, it also clears the statuses; turned off, it leaves them.
ToggleImportableOnly ==
  SetFilters([filters EXCEPT !.importableOnly = ~@, !.status = IF filters.importableOnly THEN @ ELSE {}], TRUE)

\* Clear filters is offered when they hide every row.
NoMatchesAfterFilter == MergedRows # {} /\ FilteredRows = <<>>

\* Variant that forgets to write the defaults.
ResetAllInMemory ==
  /\ NoMatchesAfterFilter
  /\ filters' = DefaultFilters
  /\ UNCHANGED <<sourceList, storedList, storage, blob>>
  /\ Effects(TRUE, filters.pageSize)

ResetAll ==
  /\ NoMatchesAfterFilter
  /\ filters' = DefaultFilters
  /\ Persist(DefaultFilters)
  /\ UNCHANGED <<sourceList, storedList, storage>>
  /\ Effects(TRUE, filters.pageSize)

\* Prev and Next are there while the page has a neighbour.
ChangePage(p) ==
  /\ p \in 0 .. TotalPages(Len(FilteredRows), filters.pageSize) - 1
  /\ pageIndex' = p
  /\ UNCHANGED <<sourceList, storedList, filters, blob, storage>>
PrevPage == ChangePage(pageIndex - 1)
NextPage == ChangePage(pageIndex + 1)

\* New lists land; one session has changed in them.
ListsLand(s, status, stored) ==
  /\ sourceList' = [sourceList EXCEPT ![s] = status]
  /\ storedList' = IF stored THEN storedList \union {s} ELSE storedList \ {s}
  /\ UNCHANGED <<filters, blob, storage>>
  /\ Effects(FALSE, filters.pageSize)

\* The page is loaded again.
Reload ==
  /\ sourceList' = [s \in Session |-> "unlisted"] /\ storedList' = {}
  /\ filters' = DecodeFilters(blob) /\ pageIndex' = 0
  /\ Persist(filters')
  /\ UNCHANGED storage

TableNext ==
  \/ \E S \in SUBSET SyncStatus : SetStatus(S)
  \/ \E d \in {"asc", "desc"} : SetDirection(d)
  \/ \E n \in PageSize : SetPageSize(n)
  \/ ToggleImportableOnly \/ ResetAll
  \/ PrevPage \/ NextPage
  \/ \E s \in Session, status \in SyncStatus \union {"unlisted"}, stored \in BOOLEAN :
       ListsLand(s, status, stored)
  \/ Reload

-----------------------------------------------------------------------------
(* Properties *)

\* Leafing through the pages shows every listed session the filters let
\* through, once; the page shown is one of them, empty only if they all are.
PagesCoverTheRows ==
  LET rows == FilteredRows
      size == filters.pageSize
      pages == [p \in 1 .. TotalPages(Len(rows), size) |-> PageRows(rows, p - 1, size)]
      leafed == FlattenSeq(pages)
      ids == [i \in DOMAIN leafed |-> leafed[i].key[2]]
      listed == {s \in Session : sourceList[s] # "unlisted"} \union storedList
  IN /\ leafed = rows /\ IsInjective(ids)
     /\ filters = [DefaultFilters EXCEPT !.direction = filters.direction, !.pageSize = size]
          => ToSet(ids) = listed
     /\ pageIndex + 1 \in DOMAIN pages
     /\ rows # <<>> => pages[pageIndex + 1] # <<>>

\* The filters survive a reload, whatever localStorage held to begin with.
ReloadKeepsFilters == storage = "works" => DecodeFilters(blob) = filters

=============================================================================
