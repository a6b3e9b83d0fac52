------------------------- MODULE ParsedSessionsProofs -------------------------
(***************************************************************************)
(* Theorems about ParsedSessions: whatever fetches overlap with resets,    *)
(* the cache holds nothing from before the last reset, no tab begins to    *)
(* show such a result, and bytes are streamed only for a tab that is       *)
(* there; for any number of sessions, tabs, fetches, imports and resets.   *)
(***************************************************************************)
EXTENDS ParsedSessions, FiniteSetTheorems, SequenceTheorems, TLAPS

\* The cache as a least recently used list.
IsCache(c) ==
  /\ c \in Seq(Entry)
  /\ \A i, j \in DOMAIN c : c[i].key = c[j].key => i = j

\* The server is never behind the last reset; a known session is stored.
ServerAhead ==
  /\ \A k \in Key : version[k] >= floor[k]
  /\ \A k \in known : version[k] >= 1

\* A fetch under way is for a stored session, in an epoch that has begun.
FetchesKnown ==
  \A s \in Slot : fetch[s].pc # "free" => fetch[s].key \in known /\ fetch[s].epoch <= cacheEpoch

HasBytes(f) == f.pc \in {"streaming", "streamed"} \/ (f.pc = "settled" /\ f.result = "parsed")

\* A fetch that has ended says how.
SettledHasResult == \A s \in Slot : fetch[s].pc = "settled" => fetch[s].result # "none"

\* The bytes of a fetch started since the last reset are as new as the reset.
BytesAreCurrent ==
  \A s \in Slot : HasBytes(fetch[s]) =>
    fetch[s].ver >= 1 /\ (fetch[s].epoch = cacheEpoch => fetch[s].ver >= floor[fetch[s].key])

\* A reset empties inFlight: who joins a fetch joins one of its own epoch.
InFlightIsCurrent ==
  \A k \in Key : inFlight[k] # None =>
    /\ fetch[inFlight[k]].pc # "free" /\ fetch[inFlight[k]].key = k
    /\ fetch[inFlight[k]].epoch = cacheEpoch

\* A tab waits for a fetch of its session.
WaitsForPane ==
  \A v \in View : view[v].waits # None =>
    /\ fetch[view[v].waits].pc # "free" /\ fetch[view[v].waits].key = pane
    /\ view[v].epoch <= cacheEpoch
    /\ view[v].epoch = cacheEpoch => fetch[view[v].waits].epoch = cacheEpoch

WaitersLoad == \A v \in View : view[v].waits # None => view[v].ui = "loading"

\* A tab with a result is a tab of a stored session.
ShownIsKnown == \A v \in View : view[v].ui = "success" => pane \in known

Inv ==
  /\ TypeOK /\ ServerAhead /\ FetchesKnown /\ SettledHasResult /\ BytesAreCurrent
  /\ InFlightIsCurrent /\ WaitsForPane /\ WaitersLoad /\ ShownIsKnown
  /\ CacheIsCurrent /\ StreamsAreWatched

-----------------------------------------------------------------------------
(* The cache *)

\* Without its i-th element a sequence keeps the others in order.
LEMMA RemoveAtFacts ==
  ASSUME NEW S, NEW c \in Seq(S), NEW i \in 1 .. Len(c)
  PROVE  /\ RemoveAt(c, i) \in Seq(S) /\ Len(RemoveAt(c, i)) = Len(c) - 1
         /\ \A j \in 1 .. Len(c) - 1 : RemoveAt(c, i)[j] = IF j < i THEN c[j] ELSE c[j + 1]
<1>1. /\ SubSeq(c, 1, i - 1) \in Seq(S) /\ Len(SubSeq(c, 1, i - 1)) = i - 1
      /\ \A j \in 1 .. i - 1 : SubSeq(c, 1, i - 1)[j] = c[j]
  OBVIOUS
<1>2. /\ SubSeq(c, i + 1, Len(c)) \in Seq(S) /\ Len(SubSeq(c, i + 1, Len(c))) = Len(c) - i
      /\ \A j \in 1 .. Len(c) - i : SubSeq(c, i + 1, Len(c))[j] = c[i + j]
  OBVIOUS
<1>. DEFINE p == SubSeq(c, 1, i - 1)
            q == SubSeq(c, i + 1, Len(c))
<1>3. RemoveAt(c, i) = p \o q
  BY DEF RemoveAt
<1>4. Len(c) \in Nat
  OBVIOUS
<1>. HIDE DEF p, q
<1>5. /\ p \o q \in Seq(S) /\ Len(p \o q) = Len(p) + Len(q)
      /\ \A j \in 1 .. Len(p) + Len(q) : (p \o q)[j] = IF j <= Len(p) THEN p[j] ELSE q[j - Len(p)]
  BY <1>1, <1>2, ConcatProperties DEF p, q
<1>6. Len(p) = i - 1 /\ Len(q) = Len(c) - i
  BY <1>1, <1>2 DEF p, q
<1>7. \A j \in 1 .. Len(c) - 1 : (p \o q)[j] = IF j < i THEN c[j] ELSE c[j + 1]
  <2>. SUFFICES ASSUME NEW j \in 1 .. Len(c) - 1
                PROVE  (p \o q)[j] = IF j < i THEN c[j] ELSE c[j + 1]
    OBVIOUS
  <2>1. CASE j < i
    <3>1. (p \o q)[j] = p[j]
      BY <1>4, <1>5, <1>6, <2>1
    <3>2. p[j] = c[j]
      BY <1>1, <1>4, <2>1 DEF p
    <3>. QED BY <2>1, <3>1, <3>2
  <2>2. CASE ~(j < i)
    <3>1. (p \o q)[j] = q[j - (i - 1)]
      BY <1>4, <1>5, <1>6, <2>2
    <3>2. j - (i - 1) \in 1 .. Len(c) - i /\ i + (j - (i - 1)) = j + 1
      BY <1>4, <2>2
    <3>3. q[j - (i - 1)] = c[j + 1]
      BY <1>2, <3>2 DEF q
    <3>. QED BY <2>2, <3>1, <3>3
  <2>. QED BY <2>1, <2>2
<1>. QED BY <1>3, <1>4, <1>5, <1>6, <1>7

\* Where the j-th entry was before the i-th of n moved to the end.
CameFrom(j, i, n) == IF j = n THEN i ELSE IF j < i THEN j ELSE j + 1

LEMMA CameFromFacts ==
  ASSUME NEW n \in Nat, NEW i \in 1 .. n, NEW j \in 1 .. n
  PROVE  /\ CameFrom(j, i, n) \in 1 .. n
         /\ \A m \in 1 .. n : CameFrom(m, i, n) = CameFrom(j, i, n) => m = j
BY DEF CameFrom

MovedToEnd(c, i) == Append(RemoveAt(c, i), c[i])

LEMMA MoveToEnd ==
  ASSUME NEW S, NEW c \in Seq(S), NEW i \in 1 .. Len(c)
  PROVE  /\ MovedToEnd(c, i) \in Seq(S) /\ Len(MovedToEnd(c, i)) = Len(c)
         /\ \A j \in 1 .. Len(c) : MovedToEnd(c, i)[j] = c[CameFrom(j, i, Len(c))]
<1>0. PICK n \in Nat : n = Len(c)
  OBVIOUS
<1>. DEFINE d == MovedToEnd(c, i)
<1>. DEFINE rest == RemoveAt(c, i)
<1>1. /\ rest \in Seq(S) /\ Len(rest) = n - 1
      /\ \A j \in 1 .. n - 1 : rest[j] = IF j < i THEN c[j] ELSE c[j + 1]
  BY <1>0, RemoveAtFacts
<1>2. c[i] \in S /\ d = Append(rest, c[i])
  BY DEF MovedToEnd
<1>. HIDE DEF rest, d
<1>3. /\ d \in Seq(S) /\ Len(d) = Len(rest) + 1
      /\ \A j \in 1 .. Len(rest) : d[j] = rest[j]
      /\ d[Len(rest) + 1] = c[i]
  BY <1>1, <1>2, AppendProperties
<1>4. Len(d) = n
  BY <1>1, <1>3
<1>5. ASSUME NEW j \in 1 .. n PROVE d[j] = c[CameFrom(j, i, n)]
  <2>1. CASE j = n
    <3>1. Len(rest) + 1 = j
      BY <1>1, <2>1
    <3>. QED BY <1>3, <2>1, <3>1 DEF CameFrom
  <2>2. CASE j # n
    <3>1. j \in 1 .. n - 1
      BY <2>2
    <3>2. d[j] = rest[j]
      BY <1>1, <1>3, <3>1
    <3>. QED BY <1>1, <2>2, <3>1, <3>2 DEF CameFrom
  <2>. QED BY <2>1, <2>2
<1>. QED BY <1>0, <1>3, <1>4, <1>5 DEF d

\* A hit leaves the same entries.
LEMMA TouchedKeeps ==
  ASSUME IsCache(cache), NEW k, Cached(k)
  PROVE  /\ IsCache(Touched(k)) /\ Len(Touched(k)) = Len(cache)
         /\ Range(Touched(k)) \subseteq Range(cache)
         /\ Hit(k) \in Range(cache) /\ Hit(k) \in Entry /\ Hit(k).key = k
<1>1. PICK n \in Nat : n = Len(cache) /\ DOMAIN cache = 1 .. n
  BY DEF IsCache
<1>2. PICK i \in 1 .. n : i = HitAt(k) /\ cache[i].key = k
  BY <1>1 DEF Cached, HitAt
<1>3. PICK d : d = Touched(k)
  OBVIOUS
<1>4. Hit(k) = cache[i] /\ cache[i] \in Entry /\ d = MovedToEnd(cache, i)
  BY <1>1, <1>2, <1>3 DEF Hit, Touched, IsCache, MovedToEnd
<1>5. /\ d \in Seq(Entry) /\ Len(d) = n
      /\ \A j \in 1 .. n : d[j] = cache[CameFrom(j, i, n)]
  <2>1. cache \in Seq(Entry)
    BY DEF IsCache
  <2>. QED BY <1>1, <1>4, <2>1, MoveToEnd
<1>6. DOMAIN d = 1 .. n
  BY <1>5
<1>7. \A a, b \in 1 .. n : d[a].key = d[b].key => a = b
  <2>. SUFFICES ASSUME NEW a \in 1 .. n, NEW b \in 1 .. n, d[a].key = d[b].key PROVE a = b
    OBVIOUS
  <2>1. CameFrom(a, i, n) \in 1 .. n /\ CameFrom(b, i, n) \in 1 .. n
    BY CameFromFacts
  <2>2. CameFrom(a, i, n) = CameFrom(b, i, n)
    BY <1>1, <1>5, <2>1 DEF IsCache
  <2>. QED BY <2>2, CameFromFacts
<1>8. Range(d) \subseteq Range(cache)
  BY <1>1, <1>5, <1>6, CameFromFacts DEF Range
<1>9. Hit(k) \in Range(cache) /\ Hit(k).key = k
  BY <1>1, <1>2, <1>4 DEF Range
<1>. QED BY <1>1, <1>3, <1>4, <1>5, <1>6, <1>7, <1>8, <1>9 DEF IsCache

\* A set leaves what was there, and the entry.
LEMMA SetEntryKeeps ==
  ASSUME NEW c, IsCache(c), NEW e \in Entry
  PROVE  IsCache(SetEntry(c, e)) /\ Range(SetEntry(c, e)) \subseteq Range(c) \union {e}
<1>1. c \in Seq(Entry) /\ DOMAIN c = 1 .. Len(c) /\ Len(c) \in Nat
  BY DEF IsCache
<1>2. CASE \E i \in DOMAIN c : c[i].key = e.key
  <2>. DEFINE d == [i \in DOMAIN c |-> IF c[i].key = e.key THEN e ELSE c[i]]
  <2>1. SetEntry(c, e) = d
    BY <1>2 DEF SetEntry
  <2>2. DOMAIN d = 1 .. Len(c) /\ \A i \in 1 .. Len(c) : d[i] \in Entry /\ d[i].key = c[i].key
    BY <1>1
  <2>3. d \in Seq(Entry)
    BY <1>1, <2>2
  <2>4. Range(d) \subseteq Range(c) \union {e}
    BY DEF Range
  <2>. QED BY <1>1, <2>1, <2>2, <2>3, <2>4 DEF IsCache
<1>3. CASE ~ \E i \in DOMAIN c : c[i].key = e.key
  <2>1. SetEntry(c, e) = Append(c, e)
    BY <1>3 DEF SetEntry
  <2>2. /\ Append(c, e) \in Seq(Entry) /\ Len(Append(c, e)) = Len(c) + 1
        /\ DOMAIN Append(c, e) = 1 .. Len(c) + 1
        /\ \A i \in 1 .. Len(c) + 1 : Append(c, e)[i] = IF i = Len(c) + 1 THEN e ELSE c[i]
    BY <1>1
  <2>3. Range(Append(c, e)) \subseteq Range(c) \union {e}
    BY <1>1, <2>2 DEF Range
  <2>4. \A i, j \in 1 .. Len(c) + 1 : Append(c, e)[i].key = Append(c, e)[j].key => i = j
    BY <1>1, <1>3, <2>2 DEF IsCache
  <2>. QED BY <2>1, <2>2, <2>3, <2>4 DEF IsCache
<1>. QED BY <1>2, <1>3

\* Eviction takes from the front down to the cap.
LEMMA EvictKeeps ==
  ASSUME NEW c, IsCache(c)
  PROVE  IsCache(Evict(c)) /\ Len(Evict(c)) <= CacheMax /\ Range(Evict(c)) \subseteq Range(c)
<1>1. c \in Seq(Entry) /\ DOMAIN c = 1 .. Len(c) /\ Len(c) \in Nat /\ CacheMax \in Nat \ {0}
  BY CacheAssumption DEF IsCache
<1>2. CASE Len(c) <= CacheMax
  BY <1>1, <1>2 DEF Evict
<1>3. CASE Len(c) > CacheMax
  <2>. DEFINE n == Len(c) - CacheMax
  <2>1. Evict(c) = SubSeq(c, n + 1, Len(c))
    BY <1>1, <1>3 DEF Evict
  <2>2. /\ SubSeq(c, n + 1, Len(c)) \in Seq(Entry) /\ Len(SubSeq(c, n + 1, Len(c))) = CacheMax
        /\ \A j \in 1 .. CacheMax : SubSeq(c, n + 1, Len(c))[j] = c[n + j]
    BY <1>1, <1>3
  <2>3. \A j \in 1 .. CacheMax : n + j \in 1 .. Len(c)
    BY <1>1, <1>3
  <2>4. DOMAIN Evict(c) = 1 .. CacheMax /\ \A j \in 1 .. CacheMax : Evict(c)[j] = c[n + j]
    BY <2>1, <2>2
  <2>5. Range(Evict(c)) \subseteq Range(c)
    BY <1>1, <2>3, <2>4 DEF Range
  <2>6. \A i, j \in 1 .. CacheMax : Evict(c)[i].key = Evict(c)[j].key => i = j
    <3>. SUFFICES ASSUME NEW i \in 1 .. CacheMax, NEW j \in 1 .. CacheMax,
                         c[n + i].key = c[n + j].key
                  PROVE  i = j
      BY <2>4
    <3>1. n + i = n + j
      BY <1>1, <2>3 DEF IsCache
    <3>. QED BY <1>1, <3>1
  <2>7. Evict(c) \in Seq(Entry) /\ Len(Evict(c)) = CacheMax
    BY <2>1, <2>2
  <2>. QED BY <1>1, <2>4, <2>5, <2>6, <2>7 DEF IsCache
<1>. QED BY <1>1, <1>2, <1>3

-----------------------------------------------------------------------------
(* The start, and the steps that touch neither a fetch nor a tab *)

LEMMA InitInv == Init => Inv
<1>. SUFFICES ASSUME Init PROVE Inv
  OBVIOUS
<1>1. version \in [Key -> 0 .. MaxVersion] /\ floor = version /\ known \subseteq Key
  BY CacheAssumption DEF Init, MaxVersion
<1>2. fetch \in [Slot -> Fetch] /\ view \in [View -> Instance]
  BY CacheAssumption DEF Init, NoFetch, Fetch, Unmounted, Instance, MaxVersion
<1>3. cache = <<>> /\ cache \in Seq(Entry) /\ Len(cache) <= CacheMax /\ DOMAIN cache = {}
  BY CacheAssumption DEF Init
<1>4. TypeOK
  <2>1. cacheEpoch \in 0 .. MaxBumps /\ retries \in 0 .. MaxRetries /\ pane \in Key \union {None}
    BY CacheAssumption DEF Init
  <2>2. inFlight \in [Key -> Slot \union {None}] /\ orphaned \subseteq View /\ refetchDue \in BOOLEAN
    BY DEF Init
  <2>. QED BY <1>1, <1>2, <1>3, <2>1, <2>2 DEF TypeOK
<1>5. ServerAhead
  BY CacheAssumption DEF Init, ServerAhead
<1>6. FetchesKnown /\ SettledHasResult /\ BytesAreCurrent /\ InFlightIsCurrent /\ WaitsForPane /\ WaitersLoad /\ ShownIsKnown
  BY DEF Init, FetchesKnown, SettledHasResult, BytesAreCurrent, HasBytes, InFlightIsCurrent, WaitsForPane, WaitersLoad, ShownIsKnown,
         NoFetch, Unmounted
<1>7. CacheIsCurrent
  BY <1>3 DEF CacheIsCurrent, Range
<1>8. StreamsAreWatched
  BY DEF Init, StreamsAreWatched, NoFetch
<1>. QED BY <1>4, <1>5, <1>6, <1>7, <1>8 DEF Inv

\* The server only moves ahead.
LEMMA ImportKeeps ==
  ASSUME Inv, NEW k \in Key, Import(k)
  PROVE  Inv'
<1>1. UNCHANGED <<pane, known, store, fetch, view, refetchDue, floor, orphaned, retries>>
  BY DEF Import
<1>2. Cardinality({k} \intersect Stored) \in {0, 1}
  <2>1. {k} \intersect Stored = {} \/ {k} \intersect Stored = {k}
    OBVIOUS
  <2>. QED BY <2>1, FS_EmptySet, FS_Singleton
<1>3. version[k] \in Nat /\ version[k] < MaxVersion
  BY <1>2, CacheAssumption DEF Inv, TypeOK, Import, MaxVersion
<1>4. /\ version' \in [Key -> 0 .. MaxVersion]
      /\ \A j \in Key : version'[j] >= version[j]
  BY <1>3, CacheAssumption DEF Inv, TypeOK, Import, MaxVersion
<1>5. TypeOK'
  BY <1>1, <1>4 DEF Inv, TypeOK, store
<1>6. ServerAhead'
  BY <1>1, <1>4 DEF Inv, TypeOK, ServerAhead
<1>7. FetchesKnown' /\ SettledHasResult' /\ BytesAreCurrent' /\ InFlightIsCurrent' /\ WaitsForPane' /\ WaitersLoad' /\ ShownIsKnown'
  BY <1>1 DEF Inv, store, FetchesKnown, SettledHasResult, BytesAreCurrent, InFlightIsCurrent, WaitsForPane, WaitersLoad, ShownIsKnown
<1>8. CacheIsCurrent' /\ StreamsAreWatched'
  BY <1>1 DEF Inv, store, CacheIsCurrent, StreamsAreWatched
<1>. QED BY <1>5, <1>6, <1>7, <1>8 DEF Inv

\* A tab that is to run its effect again is otherwise what it was.
LEMMA DueFacts ==
  ASSUME NEW inst \in Instance
  PROVE  /\ [inst EXCEPT !.due = TRUE] \in Instance
         /\ [inst EXCEPT !.retried = TRUE, !.due = TRUE] \in Instance
         /\ \A b \in {[inst EXCEPT !.due = TRUE], [inst EXCEPT !.retried = TRUE, !.due = TRUE]} :
              /\ b.waits = inst.waits /\ b.owner = inst.owner /\ b.epoch = inst.epoch /\ b.ui = inst.ui
BY DEF Instance

\* A retry marks its tab.
LEMMA RetryKeeps ==
  ASSUME Inv, NEW v \in View, Retry(v)
  PROVE  Inv' /\ \A w \in View : view'[w].ui = "success" => view'[w] = view[w]
<1>1. UNCHANGED <<version, pane, known, store, fetch, refetchDue, floor, orphaned>>
  BY DEF Retry
<1>2. view' \in [View -> Instance]
  <2>1. [view[v] EXCEPT !.retried = TRUE, !.due = TRUE] \in Instance
    BY DueFacts DEF Inv, TypeOK
  <2>2. view' = [view EXCEPT ![v] = [view[v] EXCEPT !.retried = TRUE, !.due = TRUE]]
    BY DEF Retry, Inv, TypeOK
  <2>. QED BY <2>1, <2>2 DEF Inv, TypeOK
<1>3. retries' \in 0 .. MaxRetries
  BY CacheAssumption DEF Inv, TypeOK, Retry
<1>4. \A w \in View : /\ view'[w].waits = view[w].waits /\ view'[w].owner = view[w].owner
                      /\ view'[w].epoch = view[w].epoch /\ view'[w].ui = view[w].ui
  BY DEF Inv, TypeOK, Retry, Instance
<1>5. TypeOK'
  BY <1>3, <1>1, <1>2 DEF Inv, TypeOK, store
<1>6. FetchesKnown' /\ SettledHasResult' /\ BytesAreCurrent' /\ InFlightIsCurrent' /\ ServerAhead' /\ CacheIsCurrent'
  BY <1>1 DEF Inv, store, FetchesKnown, SettledHasResult, BytesAreCurrent, InFlightIsCurrent, ServerAhead, CacheIsCurrent
<1>7. WaitsForPane' /\ WaitersLoad' /\ ShownIsKnown' /\ StreamsAreWatched'
  BY <1>1, <1>4 DEF Inv, store, WaitsForPane, WaitersLoad, ShownIsKnown, StreamsAreWatched
<1>8. \A w \in View : view'[w].ui = "success" => view'[w] = view[w]
  BY DEF Inv, TypeOK, Retry, Instance
<1>. QED BY <1>5, <1>6, <1>7, <1>8 DEF Inv

\* The lists come to know sessions that have become stored ones; a tab with
\* a result is not told to run again.
LEMMA RefetchKeeps ==
  ASSUME Inv, Refetch
  PROVE  Inv' /\ \A w \in View : view'[w].ui = "success" => view'[w] = view[w]
<1>1. UNCHANGED <<version, pane, store, fetch, floor, orphaned, retries>> /\ refetchDue' = FALSE
  BY DEF Refetch
<1>2. known' \subseteq Key /\ known \subseteq known' /\ \A k \in known' : version[k] >= 1
  BY DEF Inv, TypeOK, Refetch, ServerAhead
<1>3. \A w \in View : view'[w] = view[w]
                      \/ (view'[w] = [view[w] EXCEPT !.due = TRUE] /\ pane \in known' \ known)
  BY DEF Refetch
<1>4. \A w \in View : view[w] \in Instance
  BY DEF Inv, TypeOK
<1>5. \A w \in View : /\ view'[w].waits = view[w].waits /\ view'[w].owner = view[w].owner
                      /\ view'[w].epoch = view[w].epoch /\ view'[w].ui = view[w].ui
                      /\ view'[w] \in Instance
  <2>. TAKE w \in View
  <2>1. view'[w] = view[w] \/ view'[w] = [view[w] EXCEPT !.due = TRUE]
    BY <1>3
  <2>. QED BY <2>1, <1>4, DueFacts
<1>6. view' \in [View -> Instance]
  BY <1>5 DEF Refetch
<1>7. TypeOK'
  BY <1>1, <1>2, <1>6 DEF Inv, TypeOK, store
<1>8. FetchesKnown' /\ SettledHasResult' /\ BytesAreCurrent' /\ InFlightIsCurrent' /\ ServerAhead' /\ CacheIsCurrent'
  BY <1>1, <1>2 DEF Inv, store, FetchesKnown, SettledHasResult, BytesAreCurrent, InFlightIsCurrent, ServerAhead, CacheIsCurrent
<1>9. WaitsForPane' /\ WaitersLoad' /\ ShownIsKnown' /\ StreamsAreWatched'
  BY <1>1, <1>2, <1>5 DEF Inv, store, WaitsForPane, WaitersLoad, ShownIsKnown, StreamsAreWatched
<1>10. \A w \in View : view'[w].ui = "success" => view'[w] = view[w]
  BY <1>3, <1>5 DEF Inv, ShownIsKnown
<1>. QED BY <1>7, <1>8, <1>9, <1>10 DEF Inv

-----------------------------------------------------------------------------
(* Cleanups and resets *)

\* f after an abort, or as it was.
Alike(f, g) == /\ f.pc = g.pc /\ f.key = g.key /\ f.ver = g.ver /\ f.epoch = g.epoch
               /\ f.result = g.result /\ (g.aborted => f.aborted)

LEMMA CleanUpFacts ==
  ASSUME TypeOK, NEW S \in SUBSET View
  PROVE  /\ CleanUp(S) \in [Slot -> Fetch]
         /\ \A s \in Slot : Alike(CleanUp(S)[s], fetch[s])
         /\ \A s \in Slot, v \in S : view[v].owner /\ view[v].waits = s => CleanUp(S)[s].aborted
<1>1. \A s \in Slot : /\ fetch[s] \in Fetch
                      /\ [fetch[s] EXCEPT !.aborted = TRUE] \in Fetch
                      /\ Alike([fetch[s] EXCEPT !.aborted = TRUE], fetch[s])
                      /\ [fetch[s] EXCEPT !.aborted = TRUE].aborted
  BY DEF TypeOK, Fetch, Alike
<1>2. \A s \in Slot : Alike(fetch[s], fetch[s])
  BY DEF Alike
<1>3. CleanUp(S) \in [Slot -> Fetch] /\ \A s \in Slot : Alike(CleanUp(S)[s], fetch[s])
  BY <1>1, <1>2 DEF CleanUp
<1>4. ASSUME NEW s \in Slot, NEW v \in S, view[v].owner, view[v].waits = s
      PROVE  CleanUp(S)[s].aborted
  <2>1. s \in Aborts(S)
    BY <1>4, CacheAssumption DEF Aborts
  <2>. QED BY <1>1, <2>1 DEF CleanUp
<1>. QED BY <1>3, <1>4

\* Aborting fetches disturbs nothing that is said of them.
LEMMA AbortKeeps ==
  ASSUME Inv, fetch' \in [Slot -> Fetch], \A s \in Slot : Alike(fetch'[s], fetch[s]),
         UNCHANGED <<known, cacheEpoch, floor>>
  PROVE  FetchesKnown' /\ SettledHasResult' /\ BytesAreCurrent'
BY DEF Inv, FetchesKnown, SettledHasResult, BytesAreCurrent, HasBytes, Alike

LEMMA SelectKeeps ==
  ASSUME Inv, NEW k \in Key \union {None}, Select(k)
  PROVE  Inv'
<1>1. /\ UNCHANGED <<version, known, store, refetchDue, floor, retries>>
      /\ pane' = k /\ fetch' = CleanUp(View) /\ view' = [v \in View |-> Unmounted] /\ orphaned' = {}
  BY DEF Select
<1>2. /\ fetch' \in [Slot -> Fetch] /\ \A s \in Slot : Alike(fetch'[s], fetch[s])
      /\ \A s \in Slot, v \in View : view[v].owner /\ view[v].waits = s => fetch'[s].aborted
  BY <1>1, CleanUpFacts DEF Inv
<1>3. view' \in [View -> Instance]
  BY <1>1, CacheAssumption DEF Unmounted, Instance, MaxVersion
<1>4. TypeOK'
  BY <1>1, <1>2, <1>3 DEF Inv, TypeOK, store
<1>5. FetchesKnown' /\ SettledHasResult' /\ BytesAreCurrent'
  BY <1>1, <1>2, AbortKeeps DEF store
<1>6. ServerAhead' /\ CacheIsCurrent'
  BY <1>1 DEF Inv, store, ServerAhead, CacheIsCurrent
<1>7. InFlightIsCurrent'
  BY <1>1, <1>2 DEF Inv, TypeOK, store, InFlightIsCurrent, Alike
<1>8. WaitsForPane' /\ WaitersLoad' /\ ShownIsKnown'
  BY <1>1 DEF WaitsForPane, WaitersLoad, ShownIsKnown, Unmounted
<1>9. StreamsAreWatched'
  BY <1>2 DEF Inv, StreamsAreWatched, Alike
<1>. QED BY <1>4, <1>5, <1>6, <1>7, <1>8, <1>9 DEF Inv

\* A reset starts an epoch no fetch is of.
LEMMA BumpKeeps ==
  ASSUME Inv, BumpCacheEpoch
  PROVE  Inv'
<1>1. /\ UNCHANGED <<version, pane, known, view, orphaned, retries>>
      /\ cacheEpoch' = cacheEpoch + 1 /\ cacheEpoch' \in 0 .. MaxBumps /\ cacheEpoch \in 0 .. MaxBumps
      /\ cache' = <<>> /\ inFlight' = [k \in Key |-> None] /\ floor' = version /\ refetchDue' = TRUE
  BY CacheAssumption DEF Inv, TypeOK, BumpCacheEpoch
<1>2. \A s \in Slot : /\ fetch[s] \in Fetch /\ Alike(fetch[s], fetch[s])
                      /\ [fetch[s] EXCEPT !.aborted = TRUE] \in Fetch
                      /\ Alike([fetch[s] EXCEPT !.aborted = TRUE], fetch[s])
  BY DEF Inv, TypeOK, Fetch, Alike
<1>3. fetch' \in [Slot -> Fetch] /\ \A s \in Slot : Alike(fetch'[s], fetch[s])
  BY <1>2 DEF BumpCacheEpoch
<1>4. cache' \in Seq(Entry) /\ Len(cache') <= CacheMax /\ DOMAIN cache' = {}
  BY <1>1, CacheAssumption
<1>5. TypeOK'
  BY <1>1, <1>3, <1>4 DEF Inv, TypeOK
<1>6. \A s \in Slot : fetch[s].pc # "free" => fetch[s].epoch \in Nat /\ fetch[s].epoch < cacheEpoch'
  <2>. SUFFICES ASSUME NEW s \in Slot, fetch[s].pc # "free"
                PROVE  fetch[s].epoch \in Nat /\ fetch[s].epoch < cacheEpoch'
    OBVIOUS
  <2>1. fetch[s].epoch \in 0 .. MaxBumps
    BY <1>2 DEF Fetch
  <2>2. fetch[s].epoch <= cacheEpoch
    BY DEF Inv, FetchesKnown
  <2>3. cacheEpoch \in 0 .. MaxBumps /\ cacheEpoch' = cacheEpoch + 1 /\ MaxBumps \in Nat
    BY <1>1, CacheAssumption
  <2>. QED BY <2>1, <2>2, <2>3
<1>7. FetchesKnown' /\ SettledHasResult' /\ BytesAreCurrent'
  BY <1>1, <1>3, <1>6 DEF Inv, FetchesKnown, SettledHasResult, BytesAreCurrent, HasBytes, Alike
<1>8. ServerAhead' /\ CacheIsCurrent' /\ InFlightIsCurrent'
  BY <1>1, <1>4 DEF Inv, TypeOK, ServerAhead, CacheIsCurrent, Range, InFlightIsCurrent
<1>9. \A v \in View : view[v].waits # None => view[v].waits \in Slot /\ view[v].epoch \in Nat
  BY DEF Inv, TypeOK, Instance
<1>10. WaitsForPane' /\ WaitersLoad' /\ ShownIsKnown'
  BY <1>1, <1>3, <1>9 DEF Inv, WaitsForPane, WaitersLoad, ShownIsKnown, Alike
<1>11. StreamsAreWatched'
  BY <1>1, <1>3 DEF Inv, StreamsAreWatched, Alike
<1>. QED BY <1>5, <1>7, <1>8, <1>10, <1>11 DEF Inv

-----------------------------------------------------------------------------
(* A run of the effect *)

\* What a tab shows once it begins to is as new as the last reset.
ShowsCurrent ==
  \A v \in View : view'[v].ui = "success" /\ view'[v] # view[v] => view'[v].ver >= floor'[pane']

LEMMA UnmountedFacts == Unmounted \in Instance /\ ~Unmounted.owner
BY CacheAssumption DEF Unmounted, Instance, MaxVersion

\* The instances a run of the effect leaves.
LEMMA NoRawFacts ==
  ASSUME NEW inst \in Instance,
         NEW new, new = [inst EXCEPT !.ui = "no_raw", !.ver = 0, !.due = FALSE,
                                     !.waits = None, !.owner = FALSE, !.epoch = 0]
  PROVE  new \in Instance /\ new.waits = None /\ new.owner = FALSE /\ new.ui = "no_raw"
<1>1. 0 \in 0 .. MaxVersion /\ 0 \in 0 .. MaxBumps
  BY CacheAssumption DEF MaxVersion
<1>. QED BY <1>1 DEF Instance

Hits(inst, n) == [inst EXCEPT !.ui = "success", !.ver = n, !.due = FALSE,
                              !.waits = None, !.owner = FALSE, !.epoch = 0]

LEMMA HitFacts ==
  ASSUME NEW inst \in Instance, NEW n \in 0 .. MaxVersion
  PROVE  /\ Hits(inst, n) \in Instance /\ Hits(inst, n).waits = None /\ Hits(inst, n).owner = FALSE
         /\ Hits(inst, n).ui = "success" /\ Hits(inst, n).ver = n
<1>1. 0 \in 0 .. MaxVersion /\ 0 \in 0 .. MaxBumps
  BY CacheAssumption DEF MaxVersion
<1>. QED BY <1>1 DEF Hits, Instance

LEMMA LoadingFacts ==
  ASSUME NEW inst \in Instance, NEW s \in Slot, NEW owns \in BOOLEAN, cacheEpoch \in 0 .. MaxBumps
  PROVE  /\ Loading(inst, s, owns) \in Instance /\ Loading(inst, s, owns).waits = s
         /\ Loading(inst, s, owns).owner = owns /\ Loading(inst, s, owns).epoch = cacheEpoch
         /\ Loading(inst, s, owns).ui = "loading"
<1>1. 0 \in 0 .. MaxVersion /\ 0 \in 0 .. MaxBumps
  BY CacheAssumption DEF MaxVersion
<1>. QED BY <1>1 DEF Loading, Instance

\* The record of a fetch that starts; doomed when its tab is gone already.
Begun(k, doomed) == [FreshFetch(k) EXCEPT !.aborted = doomed]

LEMMA FreshFacts ==
  ASSUME NEW k \in Key, NEW doomed \in BOOLEAN, cacheEpoch \in 0 .. MaxBumps
  PROVE  /\ Begun(k, doomed) \in Fetch /\ Begun(k, doomed).pc = "requested"
         /\ Begun(k, doomed).key = k /\ Begun(k, doomed).epoch = cacheEpoch
         /\ Begun(k, doomed).aborted = doomed
<1>1. 0 \in 0 .. MaxVersion /\ 0 \in 0 .. MaxBumps
  BY CacheAssumption DEF MaxVersion
<1>. QED BY <1>1 DEF Begun, FreshFetch, NoFetch, Fetch

\* A run that starts no fetch: the cleanup aborts what the tab owned.
LEMMA NoFetchKeeps ==
  ASSUME Inv, NEW v \in View, NEW new \in Instance, new.owner = FALSE,
         new.waits # None => /\ fetch[new.waits].pc # "free" /\ fetch[new.waits].key = pane
                             /\ new.epoch = cacheEpoch /\ fetch[new.waits].epoch = cacheEpoch
                             /\ new.ui = "loading",
         new.ui = "success" => pane \in known,
         IsCache(cache'), Len(cache') <= CacheMax, Range(cache') \subseteq Range(cache),
         fetch' = CleanUp({v}), view' = [view EXCEPT ![v] = new],
         UNCHANGED <<version, pane, known, inFlight, cacheEpoch, refetchDue, floor, retries>>,
         orphaned' \subseteq View
  PROVE  Inv'
<1>1. /\ fetch' \in [Slot -> Fetch] /\ \A s \in Slot : Alike(fetch'[s], fetch[s])
      /\ \A s \in Slot : view[v].owner /\ view[v].waits = s => fetch'[s].aborted
  BY CleanUpFacts DEF Inv
<1>2. view' \in [View -> Instance] /\ view'[v] = new /\ \A w \in View : w # v => view'[w] = view[w]
  BY DEF Inv, TypeOK
<1>3. TypeOK'
  BY <1>1, <1>2 DEF Inv, TypeOK, IsCache
<1>4. FetchesKnown' /\ SettledHasResult' /\ BytesAreCurrent'
  BY <1>1, AbortKeeps
<1>5. ServerAhead' /\ CacheIsCurrent'
  BY DEF Inv, ServerAhead, CacheIsCurrent
<1>6. InFlightIsCurrent'
  <2>. SUFFICES ASSUME NEW k \in Key, inFlight[k] # None
                PROVE  /\ fetch'[inFlight[k]].pc # "free" /\ fetch'[inFlight[k]].key = k
                       /\ fetch'[inFlight[k]].epoch = cacheEpoch
    BY DEF InFlightIsCurrent
  <2>1. inFlight[k] \in Slot
    BY DEF Inv, TypeOK
  <2>2. Alike(fetch'[inFlight[k]], fetch[inFlight[k]])
    BY <1>1, <2>1
  <2>. QED BY <2>2 DEF Inv, InFlightIsCurrent, Alike
<1>7. WaitsForPane'
  <2>. SUFFICES ASSUME NEW w \in View, view'[w].waits # None
                PROVE  /\ fetch'[view'[w].waits].pc # "free" /\ fetch'[view'[w].waits].key = pane
                       /\ view'[w].epoch <= cacheEpoch
                       /\ view'[w].epoch = cacheEpoch => fetch'[view'[w].waits].epoch = cacheEpoch
    BY DEF WaitsForPane
  <2>1. view'[w].waits \in Slot
    BY <1>2 DEF Instance
  <2>2. Alike(fetch'[view'[w].waits], fetch[view'[w].waits])
    BY <1>1, <2>1
  <2>3. cacheEpoch \in Nat
    BY CacheAssumption DEF Inv, TypeOK
  <2>4. CASE w = v
    BY <1>2, <2>2, <2>3, <2>4 DEF Alike
  <2>5. CASE w # v
    BY <1>2, <2>2, <2>5 DEF Inv, WaitsForPane, Alike
  <2>. QED BY <2>4, <2>5
<1>8. ShownIsKnown' /\ WaitersLoad'
  BY <1>2 DEF Inv, ShownIsKnown, WaitersLoad
<1>9. StreamsAreWatched'
  <2>. SUFFICES ASSUME NEW s \in Slot, fetch'[s].pc \in {"requested", "streaming"}, ~fetch'[s].aborted
                PROVE  fetch'[s].key = pane /\ \E w \in View : view'[w].owner /\ view'[w].waits = s
    BY DEF StreamsAreWatched
  <2>1. Alike(fetch'[s], fetch[s])
    BY <1>1
  <2>2. fetch[s].key = pane /\ \E w \in View : view[w].owner /\ view[w].waits = s
    BY <2>1 DEF Inv, StreamsAreWatched, Alike
  <2>. QED BY <1>1, <1>2, <2>1, <2>2 DEF Alike
<1>. QED BY <1>3, <1>4, <1>5, <1>6, <1>7, <1>8, <1>9 DEF Inv

\* A run that starts a fetch in a free slot, which nobody waits for.
LEMMA NewFetchKeeps ==
  ASSUME Inv, NEW v \in View, NEW inst \in Instance, NEW s \in Slot, Free(s), pane \in known,
         NEW doomed \in BOOLEAN,
         inFlight' = [inFlight EXCEPT ![pane] = s],
         fetch' = [CleanUp({v}) EXCEPT ![s] = Begun(pane, doomed)],
         view' = [view EXCEPT ![v] = Loading(inst, s, ~doomed)],
         UNCHANGED <<version, pane, known, cache, cacheEpoch, refetchDue, floor, retries>>,
         orphaned' \subseteq View
  PROVE  Inv' /\ view'[v].ui = "loading"
<1>. DEFINE new == Begun(pane, doomed)
            tab == Loading(inst, s, ~doomed)
<1>1. /\ CleanUp({v}) \in [Slot -> Fetch] /\ \A t \in Slot : Alike(CleanUp({v})[t], fetch[t])
      /\ \A t \in Slot : view[v].owner /\ view[v].waits = t => CleanUp({v})[t].aborted
  BY CleanUpFacts DEF Inv
<1>2. cacheEpoch \in 0 .. MaxBumps /\ cacheEpoch \in Nat /\ pane \in Key
  BY CacheAssumption DEF Inv, TypeOK
<1>3. new \in Fetch /\ new.pc = "requested" /\ new.key = pane /\ new.epoch = cacheEpoch /\ new.aborted = doomed
  BY <1>2, FreshFacts
<1>4. tab \in Instance /\ tab.waits = s /\ tab.owner = ~doomed /\ tab.epoch = cacheEpoch /\ tab.ui = "loading"
  BY <1>2, LoadingFacts
<1>. HIDE DEF new, tab
<1>5. /\ fetch' \in [Slot -> Fetch] /\ fetch'[s] = new
      /\ \A t \in Slot : t # s => Alike(fetch'[t], fetch[t])
      /\ \A t \in Slot : t # s /\ view[v].owner /\ view[v].waits = t => fetch'[t].aborted
  BY <1>1, <1>3 DEF new
<1>6. view' \in [View -> Instance] /\ view'[v] = tab /\ \A w \in View : w # v => view'[w] = view[w]
  BY <1>4 DEF Inv, TypeOK, tab
<1>7. inFlight' \in [Key -> Slot \union {None}] /\ inFlight'[pane] = s
      /\ \A k \in Key : k # pane => inFlight'[k] = inFlight[k]
  BY <1>2 DEF Inv, TypeOK
<1>8. TypeOK'
  BY <1>5, <1>6, <1>7 DEF Inv, TypeOK
<1>9. FetchesKnown'
  <2>. SUFFICES ASSUME NEW t \in Slot, fetch'[t].pc # "free"
                PROVE  fetch'[t].key \in known /\ fetch'[t].epoch <= cacheEpoch
    BY DEF FetchesKnown
  <2>1. CASE t = s
    <3>1. fetch'[t] = new
      BY <1>5, <2>1
    <3>2. new.key \in known /\ new.epoch <= cacheEpoch
      BY <1>2, <1>3
    <3>. QED BY <3>1, <3>2
  <2>2. CASE t # s
    BY <1>5, <2>2 DEF Inv, FetchesKnown, Alike
  <2>. QED BY <2>1, <2>2
<1>10. SettledHasResult' /\ BytesAreCurrent'
  <2>1. fetch'[s].pc = "requested"
    BY <1>3, <1>5
  <2>2. ASSUME NEW t \in Slot, t # s
        PROVE  /\ fetch'[t].pc = fetch[t].pc /\ fetch'[t].result = fetch[t].result
               /\ fetch'[t].ver = fetch[t].ver /\ fetch'[t].key = fetch[t].key /\ fetch'[t].epoch = fetch[t].epoch
    BY <1>5, <2>2 DEF Alike
  <2>3. SettledHasResult'
    BY <2>1, <2>2 DEF Inv, SettledHasResult
  <2>4. BytesAreCurrent'
    BY <2>1, <2>2 DEF Inv, BytesAreCurrent, HasBytes
  <2>. QED BY <2>3, <2>4
<1>11. ServerAhead' /\ CacheIsCurrent'
  BY DEF Inv, ServerAhead, CacheIsCurrent
<1>12. InFlightIsCurrent'
  <2>1. \A k \in Key : inFlight[k] # None => inFlight[k] \in Slot /\ inFlight[k] # s
    BY DEF Inv, TypeOK, InFlightIsCurrent, Free
  <2>. SUFFICES ASSUME NEW k \in Key, inFlight'[k] # None
                PROVE  /\ fetch'[inFlight'[k]].pc # "free" /\ fetch'[inFlight'[k]].key = k
                       /\ fetch'[inFlight'[k]].epoch = cacheEpoch
    BY DEF InFlightIsCurrent
  <2>2. CASE k = pane
    BY <1>3, <1>5, <1>7, <2>2
  <2>3. CASE k # pane
    <3>1. inFlight'[k] = inFlight[k] /\ inFlight[k] \in Slot /\ inFlight[k] # s
      BY <1>7, <2>1, <2>3
    <3>2. Alike(fetch'[inFlight[k]], fetch[inFlight[k]])
      BY <1>5, <3>1
    <3>. QED BY <3>1, <3>2 DEF Inv, InFlightIsCurrent, Alike
  <2>. QED BY <2>2, <2>3
<1>13. WaitsForPane'
  <2>1. \A w \in View : view[w].waits # None => view[w].waits \in Slot /\ view[w].waits # s
    BY DEF Inv, TypeOK, Instance, WaitsForPane, Free
  <2>. SUFFICES ASSUME NEW w \in View, view'[w].waits # None
                PROVE  /\ fetch'[view'[w].waits].pc # "free" /\ fetch'[view'[w].waits].key = pane
                       /\ view'[w].epoch <= cacheEpoch
                       /\ view'[w].epoch = cacheEpoch => fetch'[view'[w].waits].epoch = cacheEpoch
    BY DEF WaitsForPane
  <2>2. CASE w = v
    <3>1. view'[w] = tab /\ fetch'[tab.waits] = new
      BY <1>4, <1>5, <1>6, <2>2
    <3>2. new.pc # "free" /\ new.key = pane /\ tab.epoch <= cacheEpoch /\ new.epoch = cacheEpoch
      BY <1>2, <1>3, <1>4
    <3>. QED BY <3>1, <3>2
  <2>3. CASE w # v
    <3>1. view'[w] = view[w] /\ view[w].waits \in Slot /\ view[w].waits # s
      BY <1>6, <2>1, <2>3
    <3>2. Alike(fetch'[view[w].waits], fetch[view[w].waits])
      BY <1>5, <3>1
    <3>. QED BY <3>1, <3>2 DEF Inv, WaitsForPane, Alike
  <2>. QED BY <2>2, <2>3
<1>14. ShownIsKnown' /\ WaitersLoad'
  BY <1>4, <1>6 DEF Inv, ShownIsKnown, WaitersLoad
<1>15. StreamsAreWatched'
  <2>. SUFFICES ASSUME NEW t \in Slot, fetch'[t].pc \in {"requested", "streaming"}, ~fetch'[t].aborted
                PROVE  fetch'[t].key = pane' /\ \E w \in View : view'[w].owner /\ view'[w].waits = t
    BY DEF StreamsAreWatched
  <2>1. CASE t = s
    <3>1. fetch'[t] = new /\ view'[v] = tab
      BY <1>5, <1>6, <2>1
    <3>2. new.key = pane' /\ ~doomed /\ tab.waits = t
      BY <1>3, <1>4, <2>1, <3>1
    <3>3. view'[v].owner /\ view'[v].waits = t
      BY <1>4, <3>1, <3>2
    <3>4. \E w \in View : view'[w].owner /\ view'[w].waits = t
      BY <3>3
    <3>5. fetch'[t].key = pane'
      BY <3>1, <3>2
    <3>. QED BY <3>4, <3>5
  <2>2. CASE t # s
    <3>1. Alike(fetch'[t], fetch[t])
      BY <1>5, <2>2
    <3>2. fetch[t].key = pane /\ \E w \in View : view[w].owner /\ view[w].waits = t
      BY <3>1 DEF Inv, StreamsAreWatched, Alike
    <3>3. PICK w \in View : view[w].owner /\ view[w].waits = t
      BY <3>2
    <3>4. w # v
      BY <1>5, <2>2, <3>1, <3>3
    <3>5. view'[w] = view[w]
      BY <1>6, <3>4
    <3>6. \E u \in View : view'[u].owner /\ view'[u].waits = t
      BY <3>3, <3>5
    <3>7. fetch'[t].key = pane'
      BY <3>1, <3>2 DEF Alike
    <3>. QED BY <3>6, <3>7
  <2>. QED BY <2>1, <2>2
<1>. QED BY <1>4, <1>6, <1>8, <1>9, <1>10, <1>11, <1>12, <1>13, <1>14, <1>15 DEF Inv

LEMMA EffectKeeps ==
  ASSUME Inv, NEW v \in View, NEW inst \in Instance, Effect(v, inst, CleanUp({v})),
         UNCHANGED <<version, pane, known, cacheEpoch, refetchDue, floor, retries>>,
         orphaned' \subseteq View
  PROVE  Inv' /\ ShowsCurrent
<1>1. IsCache(cache) /\ Len(cache) <= CacheMax
  BY DEF Inv, TypeOK, IsCache
<1>2. \A w \in View : w # v => view'[w] = view[w]
  BY DEF Inv, TypeOK, Effect
<1>3. CASE /\ pane \notin known
           /\ view' = [view EXCEPT ![v] = [inst EXCEPT !.ui = "no_raw", !.ver = 0, !.due = FALSE,
                                              !.waits = None, !.owner = FALSE, !.epoch = 0]]
           /\ fetch' = CleanUp({v})
           /\ UNCHANGED <<cache, inFlight>>
  <2>. DEFINE new == [inst EXCEPT !.ui = "no_raw", !.ver = 0, !.due = FALSE,
                                  !.waits = None, !.owner = FALSE, !.epoch = 0]
  <2>1. new \in Instance /\ new.waits = None /\ new.owner = FALSE /\ new.ui = "no_raw"
    BY NoRawFacts
  <2>2. view' = [view EXCEPT ![v] = new]
    BY <1>3
  <2>. HIDE DEF new
  <2>3. Inv'
    BY <1>1, <1>3, <2>1, <2>2, NoFetchKeeps
  <2>. QED BY <1>2, <2>1, <2>2, <2>3 DEF ShowsCurrent, Inv, TypeOK
<1>4. CASE /\ pane \in known /\ ~inst.retried /\ Cached(pane)
           /\ view' = [view EXCEPT ![v] = [inst EXCEPT !.ui = "success", !.ver = Hit(pane).ver, !.due = FALSE,
                                              !.waits = None, !.owner = FALSE, !.epoch = 0]]
           /\ cache' = Touched(pane)
           /\ fetch' = CleanUp({v})
           /\ UNCHANGED inFlight
  <2>. DEFINE new == Hits(inst, Hit(pane).ver)
  <2>1. /\ IsCache(cache') /\ Len(cache') <= CacheMax /\ Range(cache') \subseteq Range(cache)
        /\ Hit(pane) \in Range(cache) /\ Hit(pane) \in Entry /\ Hit(pane).key = pane
    BY <1>1, <1>4, TouchedKeeps
  <2>2. Hit(pane).ver \in 0 .. MaxVersion
    BY <2>1, CacheAssumption DEF Entry, MaxVersion
  <2>3. new \in Instance /\ new.waits = None /\ new.owner = FALSE /\ new.ui = "success" /\ new.ver = Hit(pane).ver
    BY <2>2, HitFacts
  <2>4. view' = [view EXCEPT ![v] = new]
    BY <1>4 DEF Hits
  <2>. HIDE DEF new
  <2>5. Inv'
    BY <1>4, <2>1, <2>3, <2>4, NoFetchKeeps
  <2>6. Hit(pane).ver >= floor[pane]
    BY <2>1 DEF Inv, CacheIsCurrent
  <2>7. view'[v] = new
    BY <2>4 DEF Inv, TypeOK
  <2>. QED BY <1>2, <2>3, <2>5, <2>6, <2>7 DEF ShowsCurrent
<1>5. CASE /\ pane \in known /\ ~inst.retried /\ ~Cached(pane) /\ inFlight[pane] # None
           /\ view' = [view EXCEPT ![v] = Loading(inst, inFlight[pane], FALSE)]
           /\ fetch' = CleanUp({v})
           /\ UNCHANGED <<cache, inFlight>>
  <2>. DEFINE s == inFlight[pane]
              new == Loading(inst, s, FALSE)
  <2>1. pane \in Key /\ s \in Slot /\ cacheEpoch \in 0 .. MaxBumps
    BY <1>5 DEF Inv, TypeOK
  <2>2. fetch[s].pc # "free" /\ fetch[s].key = pane /\ fetch[s].epoch = cacheEpoch
    BY <1>5, <2>1 DEF Inv, InFlightIsCurrent
  <2>3. view' = [view EXCEPT ![v] = new]
    BY <1>5
  <2>. HIDE DEF s
  <2>4. new \in Instance /\ new.waits = s /\ new.owner = FALSE /\ new.epoch = cacheEpoch /\ new.ui = "loading"
    BY <2>1, LoadingFacts
  <2>. HIDE DEF new
  <2>5. Inv'
    BY <1>1, <1>5, <2>2, <2>3, <2>4, NoFetchKeeps
  <2>6. view'[v] = new
    BY <2>3 DEF Inv, TypeOK
  <2>. QED BY <1>2, <2>4, <2>5, <2>6 DEF ShowsCurrent
<1>6. CASE /\ pane \in known /\ (inst.retried \/ (~Cached(pane) /\ inFlight[pane] = None))
           /\ \E s \in Slot :
                /\ Free(s) /\ \A t \in Slot : Free(t) => s <= t
                /\ inFlight' = [inFlight EXCEPT ![pane] = s]
                /\ \E doomed \in IF view[v] = Unmounted THEN BOOLEAN ELSE {FALSE} :
                     /\ fetch' = [CleanUp({v}) EXCEPT ![s] = Begun(pane, doomed)]
                     /\ view' = [view EXCEPT ![v] = Loading(inst, s, ~doomed)]
           /\ UNCHANGED cache
  <2>1. PICK s \in Slot, doomed \in BOOLEAN :
          /\ Free(s) /\ inFlight' = [inFlight EXCEPT ![pane] = s]
          /\ fetch' = [CleanUp({v}) EXCEPT ![s] = Begun(pane, doomed)]
          /\ view' = [view EXCEPT ![v] = Loading(inst, s, ~doomed)]
    BY <1>6
  <2>2. Inv' /\ view'[v].ui = "loading"
    BY <1>6, <2>1, NewFetchKeeps
  <2>. QED BY <1>2, <2>2 DEF ShowsCurrent
<1>. QED BY <1>3, <1>4, <1>5, <1>6 DEF Effect, Begun

LEMMA MountKeeps ==
  ASSUME Inv, NEW v \in View, Mount(v)
  PROVE  Inv' /\ ShowsCurrent
<1>1. Aborts({v}) = {}
  BY UnmountedFacts DEF Mount, Aborts
<1>2. CleanUp({v}) = fetch
  BY <1>1 DEF CleanUp, Inv, TypeOK
<1>3. Effect(v, Unmounted, CleanUp({v}))
  BY <1>2 DEF Mount
<1>. QED BY <1>3, UnmountedFacts, EffectKeeps DEF Mount, Inv, TypeOK

LEMMA RerunKeeps ==
  ASSUME Inv, NEW v \in View, Rerun(v)
  PROVE  Inv' /\ ShowsCurrent
<1>1. view[v] \in Instance /\ orphaned' \subseteq View
  BY DEF Rerun, Inv, TypeOK
<1>. QED BY <1>1, EffectKeeps DEF Rerun

-----------------------------------------------------------------------------
(* A fetch *)

\* A fetch goes on: it stays that of its session and its epoch.
LEMMA FetchMoves ==
  ASSUME Inv, NEW s \in Slot, NEW f \in Fetch, fetch' = [fetch EXCEPT ![s] = f],
         fetch[s].pc # "free", f.pc # "free",
         f.key = fetch[s].key, f.epoch = fetch[s].epoch, f.aborted = fetch[s].aborted,
         f.pc = "settled" => f.result # "none",
         HasBytes(f) => f.ver >= 1 /\ (f.epoch = cacheEpoch => f.ver >= floor[f.key]),
         f.pc \in {"requested", "streaming"} => fetch[s].pc \in {"requested", "streaming"},
         IsCache(cache'), Len(cache') <= CacheMax, CacheIsCurrent',
         UNCHANGED <<version, pane, known, inFlight, cacheEpoch, view, refetchDue, floor, orphaned, retries>>
  PROVE  Inv'
<1>1. /\ fetch' \in [Slot -> Fetch] /\ fetch'[s] = f
      /\ \A t \in Slot : t # s => fetch'[t] = fetch[t]
  BY DEF Inv, TypeOK
<1>2. \A t \in Slot : /\ fetch'[t].key = fetch[t].key /\ fetch'[t].epoch = fetch[t].epoch
                      /\ fetch'[t].aborted = fetch[t].aborted
                      /\ fetch'[t].pc # "free" <=> fetch[t].pc # "free"
                      /\ fetch'[t].pc \in {"requested", "streaming"} => fetch[t].pc \in {"requested", "streaming"}
  BY <1>1
<1>3. TypeOK'
  BY <1>1 DEF Inv, TypeOK, IsCache
<1>4. FetchesKnown'
  BY <1>2 DEF Inv, FetchesKnown
<1>5. SettledHasResult' /\ BytesAreCurrent'
  BY <1>1 DEF Inv, SettledHasResult, BytesAreCurrent
<1>6. InFlightIsCurrent'
  <2>1. \A k \in Key : inFlight[k] # None => inFlight[k] \in Slot
    BY DEF Inv, TypeOK
  <2>. QED BY <1>2, <2>1 DEF Inv, InFlightIsCurrent
<1>7. WaitsForPane'
  <2>1. \A v \in View : view[v].waits # None => view[v].waits \in Slot
    BY DEF Inv, TypeOK, Instance
  <2>. QED BY <1>2, <2>1 DEF Inv, WaitsForPane
<1>8. ServerAhead' /\ WaitersLoad' /\ ShownIsKnown'
  BY DEF Inv, ServerAhead, WaitersLoad, ShownIsKnown
<1>9. StreamsAreWatched'
  BY <1>2 DEF Inv, StreamsAreWatched
<1>. QED BY <1>3, <1>4, <1>5, <1>6, <1>7, <1>8, <1>9 DEF Inv

\* The steps before the parser: bytes come from the server as it is.
LEMMA StreamKeeps ==
  ASSUME Inv, NEW s \in Slot, Answer(s) \/ FetchFails(s) \/ AbortNoticed(s) \/ StreamEnds(s)
  PROVE  Inv' /\ UNCHANGED view
<1>1. /\ UNCHANGED <<version, pane, known, store, view, refetchDue, floor, orphaned, retries>>
      /\ fetch[s].pc \in {"requested", "streaming"}
  BY DEF Answer, FetchFails, AbortNoticed, StreamEnds
<1>2. fetch[s] \in Fetch /\ fetch[s].key \in known /\ fetch[s].key \in Key
  BY <1>1 DEF Inv, TypeOK, FetchesKnown
<1>3. IsCache(cache') /\ Len(cache') <= CacheMax /\ CacheIsCurrent'
  BY <1>1 DEF Inv, TypeOK, IsCache, CacheIsCurrent, store
<1>4. CASE Answer(s)
  <2>. DEFINE f == [fetch[s] EXCEPT !.pc = "streaming", !.ver = version[fetch[s].key]]
  <2>1. version[fetch[s].key] \in 0 .. MaxVersion
    BY <1>2 DEF Inv, TypeOK
  <2>2. version[fetch[s].key] >= 1 /\ version[fetch[s].key] >= floor[fetch[s].key]
    BY <1>2 DEF Inv, ServerAhead
  <2>3. /\ f \in Fetch /\ f.pc = "streaming" /\ f.key = fetch[s].key /\ f.epoch = fetch[s].epoch
        /\ f.aborted = fetch[s].aborted /\ f.ver = version[fetch[s].key]
    BY <1>2, <2>1 DEF Fetch
  <2>4. fetch' = [fetch EXCEPT ![s] = f]
    BY <1>4 DEF Answer, Inv, TypeOK
  <2>. HIDE DEF f
  <2>. QED BY <1>1, <1>3, <2>2, <2>3, <2>4, FetchMoves DEF store
<1>5. CASE FetchFails(s) \/ AbortNoticed(s)
  <2>1. PICK result \in {"failed", "aborted"} : Settle(s, result)
    BY <1>5 DEF FetchFails, AbortNoticed
  <2>. DEFINE f == [fetch[s] EXCEPT !.pc = "settled", !.result = result]
  <2>2. /\ f \in Fetch /\ f.pc = "settled" /\ f.key = fetch[s].key /\ f.epoch = fetch[s].epoch
        /\ f.aborted = fetch[s].aborted /\ f.result = result
    BY <1>2 DEF Fetch
  <2>3. fetch' = [fetch EXCEPT ![s] = f]
    BY <2>1 DEF Settle, Inv, TypeOK
  <2>. HIDE DEF f
  <2>4. ~HasBytes(f)
    BY <2>2 DEF HasBytes
  <2>. QED BY <1>1, <1>3, <2>2, <2>3, <2>4, FetchMoves DEF store
<1>6. CASE StreamEnds(s)
  <2>. DEFINE f == [fetch[s] EXCEPT !.pc = "streamed"]
  <2>1. /\ f \in Fetch /\ f.pc = "streamed" /\ f.key = fetch[s].key /\ f.epoch = fetch[s].epoch
        /\ f.aborted = fetch[s].aborted /\ f.ver = fetch[s].ver
    BY <1>2 DEF Fetch
  <2>2. fetch' = [fetch EXCEPT ![s] = f]
    BY <1>6 DEF StreamEnds, Advance, Inv, TypeOK
  <2>3. fetch[s].ver >= 1 /\ (fetch[s].epoch = cacheEpoch => fetch[s].ver >= floor[fetch[s].key])
    BY <1>6 DEF StreamEnds, Inv, BytesAreCurrent, HasBytes
  <2>. HIDE DEF f
  <2>. QED BY <1>1, <1>3, <2>1, <2>2, <2>3, FetchMoves DEF store
<1>. QED BY <1>1, <1>4, <1>5, <1>6

\* The cache takes the result of its own epoch.
LEMMA ParseKeeps ==
  ASSUME Inv, NEW s \in Slot, Parse(s)
  PROVE  Inv' /\ UNCHANGED view
<1>1. /\ UNCHANGED <<version, pane, known, inFlight, cacheEpoch, view, refetchDue, floor, orphaned, retries>>
      /\ fetch[s].pc = "streamed"
  BY DEF Parse
<1>2. fetch[s] \in Fetch /\ fetch[s].key \in Key
  BY <1>1 DEF Inv, TypeOK, FetchesKnown
<1>3. fetch[s].ver >= 1 /\ (fetch[s].epoch = cacheEpoch => fetch[s].ver >= floor[fetch[s].key])
  BY <1>1 DEF Inv, BytesAreCurrent, HasBytes
<1>. DEFINE f == [fetch[s] EXCEPT !.pc = "settled", !.result = "parsed"]
            e == ParsedEntry(s)
<1>4. /\ f \in Fetch /\ f.pc = "settled" /\ f.key = fetch[s].key /\ f.epoch = fetch[s].epoch
      /\ f.aborted = fetch[s].aborted /\ f.ver = fetch[s].ver /\ f.result = "parsed"
  BY <1>2 DEF Fetch
<1>5. fetch' = [fetch EXCEPT ![s] = f]
  BY DEF Parse, Settle, Inv, TypeOK
<1>6. e \in Entry /\ e.key = fetch[s].key /\ e.ver = fetch[s].ver
  <2>1. fetch[s].ver \in 0 .. MaxVersion /\ MaxVersion \in Nat
    BY <1>2, CacheAssumption DEF Fetch, MaxVersion
  <2>2. fetch[s].ver \in 1 .. MaxVersion
    BY <1>3, <2>1
  <2>. QED BY <1>2, <2>2 DEF ParsedEntry, Entry
<1>. HIDE DEF f, e
<1>7. IsCache(cache) /\ Len(cache) <= CacheMax /\ CacheIsCurrent
  BY DEF Inv, TypeOK, IsCache
<1>8. IsCache(cache') /\ Len(cache') <= CacheMax /\ CacheIsCurrent'
  <2>1. CASE fetch[s].epoch = cacheEpoch
    <3>1. cache' = Evict(SetEntry(cache, e))
      BY <2>1 DEF Parse, e
    <3>2. IsCache(SetEntry(cache, e)) /\ Range(SetEntry(cache, e)) \subseteq Range(cache) \union {e}
      BY <1>6, <1>7, SetEntryKeeps
    <3>3. IsCache(cache') /\ Len(cache') <= CacheMax /\ Range(cache') \subseteq Range(SetEntry(cache, e))
      BY <3>1, <3>2, EvictKeeps
    <3>4. e.ver >= floor[e.key]
      BY <1>3, <1>6, <2>1
    <3>. QED BY <1>1, <1>7, <3>2, <3>3, <3>4 DEF CacheIsCurrent
  <2>2. CASE fetch[s].epoch # cacheEpoch
    <3>1. cache' = cache
      BY <2>2 DEF Parse
    <3>. QED BY <1>1, <1>7, <3>1 DEF CacheIsCurrent
  <2>. QED BY <2>1, <2>2
<1>. QED BY <1>1, <1>3, <1>4, <1>5, <1>8, FetchMoves

\* What a tab is once its fetch has ended.
LEMMA HeardFacts ==
  ASSUME NEW inst \in Instance, NEW f \in Fetch,
         NEW heard \in {Told(inst), [Told(inst) EXCEPT !.retried = TRUE, !.due = TRUE],
                       Fails(inst), Shows(inst, f)}
  PROVE  /\ heard \in Instance /\ heard.waits = None /\ heard.owner = FALSE
         /\ heard.ui \in {inst.ui, "error", "success"}
<1>1. 0 \in 0 .. MaxVersion /\ 0 \in 0 .. MaxBumps /\ f.ver \in 0 .. MaxVersion
  BY CacheAssumption DEF MaxVersion, Fetch
<1>2. /\ Told(inst) \in Instance /\ Told(inst).waits = None /\ Told(inst).owner = FALSE
      /\ Told(inst).ui = inst.ui
  BY <1>1 DEF Told, Instance
<1>3. CASE heard = Told(inst)
  BY <1>2, <1>3
<1>4. CASE heard = [Told(inst) EXCEPT !.retried = TRUE, !.due = TRUE]
  BY <1>2, <1>4, DueFacts
<1>. HIDE DEF Told
<1>5. CASE heard = Fails(inst)
  BY <1>1, <1>2, <1>5 DEF Fails, Instance
<1>6. CASE heard = Shows(inst, f)
  BY <1>1, <1>2, <1>6 DEF Shows, Instance
<1>. QED BY <1>3, <1>4, <1>5, <1>6

LEMMA ShowsFacts ==
  ASSUME NEW inst \in Instance, NEW f
  PROVE  /\ Shows(inst, f).ver = f.ver
         /\ Told(inst).ui = inst.ui /\ Fails(inst).ui = "error"
         /\ [Told(inst) EXCEPT !.retried = TRUE, !.due = TRUE].ui = inst.ui
BY DEF Shows, Told, Fails, Instance

\* The callbacks show a result of this epoch, and nobody waits any more.
LEMMA TellKeeps ==
  ASSUME Inv, NEW s \in Slot, Tell(s)
  PROVE  Inv' /\ ShowsCurrent
<1>1. /\ UNCHANGED <<version, pane, known, cache, cacheEpoch, refetchDue, floor, retries>>
      /\ fetch[s].pc = "settled" /\ fetch' = [fetch EXCEPT ![s] = NoFetch]
      /\ inFlight' = [k \in Key |-> IF inFlight[k] = s THEN None ELSE inFlight[k]]
  BY DEF Tell
<1>2. fetch[s] \in Fetch /\ fetch[s].key \in known
  BY <1>1 DEF Inv, TypeOK, FetchesKnown
<1>3. NoFetch \in Fetch /\ NoFetch.pc = "free"
  BY CacheAssumption DEF NoFetch, Fetch, MaxVersion
<1>4. /\ fetch' \in [Slot -> Fetch] /\ fetch'[s].pc = "free"
      /\ \A t \in Slot : t # s => fetch'[t] = fetch[t]
  BY <1>1, <1>3 DEF Inv, TypeOK
<1>5. \A k \in Key : inFlight'[k] # None =>
        inFlight'[k] = inFlight[k] /\ inFlight[k] \in Slot /\ inFlight[k] # s
  BY <1>1 DEF Inv, TypeOK
<1>6. inFlight' \in [Key -> Slot \union {None}]
  BY <1>1 DEF Inv, TypeOK
<1>7. \A v \in View : view[v].waits # s => view'[v] = view[v]
  BY DEF Tell
<1>8. ASSUME NEW v \in View, view[v].waits = s
      PROVE  /\ view'[v] \in Instance /\ view'[v].waits = None /\ view'[v].owner = FALSE
             /\ view'[v].ui = "success" =>
                  pane \in known /\ view'[v].ver >= floor[pane]
  <2>1. view[v] \in Instance /\ view[v].ui = "loading" /\ fetch[s].key = pane
        /\ (view[v].epoch = cacheEpoch => fetch[s].epoch = cacheEpoch)
    BY <1>8, CacheAssumption DEF Inv, TypeOK, WaitersLoad, WaitsForPane
  <2>2. view'[v] = IF view[v].owner THEN OwnerHears(view[v], fetch[s]) ELSE JoinedHears(view[v], fetch[s])
    BY <1>8 DEF Tell
  <2>3. \/ view'[v] \in {Told(view[v]), [Told(view[v]) EXCEPT !.retried = TRUE, !.due = TRUE], Fails(view[v])}
        \/ /\ view'[v] = Shows(view[v], fetch[s])
           /\ view[v].owner => fetch[s].epoch = cacheEpoch /\ fetch[s].result = "parsed"
           /\ ~view[v].owner => view[v].epoch = cacheEpoch /\ fetch[s].result \notin {"failed", "aborted"}
    BY <2>2 DEF OwnerHears, JoinedHears
  <2>4. view'[v] \in Instance /\ view'[v].waits = None /\ view'[v].owner = FALSE
    <3>1. view'[v] \in {Told(view[v]), [Told(view[v]) EXCEPT !.retried = TRUE, !.due = TRUE],
                         Fails(view[v]), Shows(view[v], fetch[s])}
      BY <2>3
    <3>. QED BY <1>2, <2>1, <3>1, HeardFacts
  <2>5. CASE view'[v] \in {Told(view[v]), [Told(view[v]) EXCEPT !.retried = TRUE, !.due = TRUE], Fails(view[v])}
    <3>1. view'[v].ui \in {"loading", "error"}
      BY <2>1, <2>5, ShowsFacts
    <3>. QED BY <2>4, <3>1
  <2>6. CASE /\ view'[v] = Shows(view[v], fetch[s])
             /\ view[v].owner => fetch[s].epoch = cacheEpoch /\ fetch[s].result = "parsed"
             /\ ~view[v].owner => view[v].epoch = cacheEpoch /\ fetch[s].result \notin {"failed", "aborted"}
    <3>1. fetch[s].epoch = cacheEpoch
      BY <2>1, <2>6
    <3>2. fetch[s].result = "parsed"
      <4>1. fetch[s].result \in {"none", "parsed", "failed", "aborted"}
        BY <1>2 DEF Fetch
      <4>2. fetch[s].result # "none"
        BY <1>1 DEF Inv, SettledHasResult
      <4>. QED BY <2>6, <4>1, <4>2
    <3>3. fetch[s].ver >= floor[pane]
      BY <1>1, <2>1, <3>1, <3>2 DEF Inv, BytesAreCurrent, HasBytes
    <3>4. view'[v].ver = fetch[s].ver
      BY <2>1, <2>6, ShowsFacts
    <3>. QED BY <1>2, <2>1, <2>4, <3>3, <3>4
  <2>. QED BY <2>3, <2>5, <2>6
<1>9. view' \in [View -> Instance]
  <2>1. view' = [v \in View |-> view'[v]]
    BY DEF Tell
  <2>2. \A v \in View : view'[v] \in Instance
    BY <1>7, <1>8 DEF Inv, TypeOK
  <2>. QED BY <2>1, <2>2
<1>10. TypeOK'
  <2>1. orphaned' \subseteq View
    BY DEF Tell, Inv, TypeOK
  <2>. QED BY <1>1, <1>4, <1>6, <1>9, <2>1 DEF Inv, TypeOK
<1>11. FetchesKnown' /\ BytesAreCurrent' /\ SettledHasResult'
  BY <1>1, <1>4 DEF Inv, FetchesKnown, BytesAreCurrent, HasBytes, SettledHasResult
<1>12. InFlightIsCurrent'
  BY <1>1, <1>4, <1>5 DEF Inv, InFlightIsCurrent
<1>13. WaitsForPane' /\ WaitersLoad'
  <2>. SUFFICES ASSUME NEW v \in View, view'[v].waits # None
                PROVE  /\ fetch'[view'[v].waits].pc # "free" /\ fetch'[view'[v].waits].key = pane
                       /\ view'[v].epoch <= cacheEpoch
                       /\ view'[v].epoch = cacheEpoch => fetch'[view'[v].waits].epoch = cacheEpoch
                       /\ view'[v].ui = "loading"
    BY <1>1 DEF WaitsForPane, WaitersLoad
  <2>1. view'[v] = view[v] /\ view[v].waits # s
    BY <1>7, <1>8
  <2>2. view[v].waits \in Slot
    BY <2>1 DEF Inv, TypeOK, Instance
  <2>. QED BY <1>4, <2>1, <2>2 DEF Inv, WaitsForPane, WaitersLoad
<1>14. ShownIsKnown' /\ ShowsCurrent
  BY <1>1, <1>7, <1>8 DEF Inv, ShownIsKnown, ShowsCurrent
<1>15. ServerAhead' /\ CacheIsCurrent'
  BY <1>1 DEF Inv, ServerAhead, CacheIsCurrent
<1>16. StreamsAreWatched'
  <2>. SUFFICES ASSUME NEW t \in Slot, fetch'[t].pc \in {"requested", "streaming"}, ~fetch'[t].aborted
                PROVE  fetch'[t].key = pane /\ \E w \in View : view'[w].owner /\ view'[w].waits = t
    BY <1>1 DEF StreamsAreWatched
  <2>1. t # s /\ fetch'[t] = fetch[t]
    BY <1>4
  <2>2. fetch[t].key = pane
    BY <2>1 DEF Inv, StreamsAreWatched
  <2>3. PICK w \in View : view[w].owner /\ view[w].waits = t
    BY <2>1 DEF Inv, StreamsAreWatched
  <2>4. view'[w] = view[w]
    BY <1>7, <2>1, <2>3
  <2>5. \E u \in View : view'[u].owner /\ view'[u].waits = t
    BY <2>3, <2>4
  <2>. QED BY <2>1, <2>2, <2>5
<1>. QED BY <1>10, <1>11, <1>12, <1>13, <1>14, <1>15, <1>16 DEF Inv

-----------------------------------------------------------------------------
(* The theorems *)

LEMMA NextKeeps == Inv /\ [Next]_vars => Inv' /\ (ShowsCurrent \/ UNCHANGED vars)
<1>. SUFFICES ASSUME Inv, [Next]_vars PROVE Inv' /\ (ShowsCurrent \/ UNCHANGED vars)
  OBVIOUS
<1>1. CASE UNCHANGED vars
  BY <1>1 DEF vars, store, Inv, TypeOK, ServerAhead, FetchesKnown, BytesAreCurrent, SettledHasResult,
     InFlightIsCurrent, WaitsForPane, WaitersLoad, ShownIsKnown, CacheIsCurrent, StreamsAreWatched
<1>2. CASE \E k \in Key \union {None} : Select(k)
  BY <1>2, SelectKeeps DEF ShowsCurrent, Select, Unmounted
<1>3. CASE \E v \in View : Mount(v) \/ Retry(v) \/ Rerun(v)
  BY <1>3, MountKeeps, RetryKeeps, RerunKeeps DEF ShowsCurrent
<1>4. CASE \E k \in Key : Import(k)
  BY <1>4, ImportKeeps DEF ShowsCurrent, Import
<1>5. CASE BumpCacheEpoch \/ Refetch
  BY <1>5, BumpKeeps, RefetchKeeps DEF ShowsCurrent, BumpCacheEpoch
<1>6. CASE \E s \in Slot : FetchStep(s)
  BY <1>6, StreamKeeps, ParseKeeps, TellKeeps DEF FetchStep, ShowsCurrent
<1>. QED BY <1>1, <1>2, <1>3, <1>4, <1>5, <1>6 DEF Next

\* The cache, the fetches and the tabs keep their types: the cache never
\* exceeds its cap and holds a session once.
THEOREM TypeCorrect == Spec => []TypeOK
<1>1. Inv => TypeOK
  BY DEF Inv
<1>2. Inv /\ [Next]_vars => Inv'
  BY NextKeeps
<1>. QED BY InitInv, <1>1, <1>2, PTL DEF Spec

\* Whatever fetches overlap with whatever resets, the cache holds nothing
\* that was read before the last one (cacheEpoch of useParsedSession.ts).
THEOREM CacheStaysCurrent == Spec => []CacheIsCurrent
<1>1. Inv => CacheIsCurrent
  BY DEF Inv
<1>2. Inv /\ [Next]_vars => Inv'
  BY NextKeeps
<1>. QED BY InitInv, <1>1, <1>2, PTL DEF Spec

\* Bytes are streamed only while the tab that asked for them is there (the
\* cleanups of the hook and the aborts of a reset).
THEOREM StreamsStayWatched == Spec => []StreamsAreWatched
<1>1. Inv => StreamsAreWatched
  BY DEF Inv
<1>2. Inv /\ [Next]_vars => Inv'
  BY NextKeeps
<1>. QED BY InitInv, <1>1, <1>2, PTL DEF Spec

\* No tab begins to show a result from before the last reset, whether it
\* fetched, joined or found it.
THEOREM OnlyCurrentIsShown == Spec => ShownIsCurrent
<1>1. Inv /\ [Next]_vars =>
        [\A v \in View : view'[v].ui = "success" /\ view'[v] # view[v] => view'[v].ver >= floor'[pane']]_vars
  BY NextKeeps DEF ShowsCurrent
<1>2. Inv /\ [Next]_vars => Inv'
  BY NextKeeps
<1>. QED BY InitInv, <1>1, <1>2, PTL DEF Spec, ShownIsCurrent

=============================================================================
