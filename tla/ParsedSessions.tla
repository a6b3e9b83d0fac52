---------------------------- MODULE ParsedSessions ----------------------------
(***************************************************************************)
(* The parsed-session cache of the page: useParsedSession, the hook the    *)
(* Transcript and Skim tabs share.  A tab reads the cache, joins a fetch   *)
(* that is under way for its session, or starts one; rescans and imports   *)
(* reset everything and abort what is under way.                           *)
(*                                                                         *)
(* JavaScript runs one task at a time, so an action is the code between    *)
(* two awaits.  A payload is the version of the stored bytes it was made   *)
(* from.                                                                   *)
(***************************************************************************)
EXTENDS Naturals, Sequences, FiniteSets, SequencesExt

CONSTANTS
  Key,          \* stored sessions
  View,         \* the tabs that use the hook, in one session pane
  CacheMax,     \* USE_PARSED_SESSION_CACHE_MAX
  None,         \* no session, no fetch
  Slot,         \* bound: fetches under way at one time
  Stored,       \* sessions stored when the page opens
  MaxImports, MaxBumps, MaxRetries   \* bounds: imports of one session, resets, retries

ASSUME CacheAssumption ==
  /\ Slot \subseteq Nat /\ None \notin Key \union Slot
  /\ CacheMax \in Nat \ {0} /\ MaxImports \in Nat \ {0} /\ MaxBumps \in Nat
  /\ Stored \subseteq Key /\ MaxRetries \in Nat

VARIABLES
  version,      \* server: imports so far of every session, 0 for none
  pane,         \* the selected session
  known,        \* sessions whose row has a storedSessionUid on this page
  cache,        \* in insertion order, the least recently used first
  inFlight,     \* per session: inFlight and inFlightControllers
  cacheEpoch,
  fetch,        \* the asynchronous functions under way
  view,         \* the hook instances
  refetchDue,   \* the lists are fetched again after a reset
  floor,        \* history: the versions at the last reset
  orphaned,     \* history: tabs whose result was dropped for a reset
  retries       \* clicks of Retry so far

store == <<cache, inFlight, cacheEpoch>>
vars == <<version, pane, known, store, fetch, view, refetchDue, floor, orphaned, retries>>

MaxVersion == MaxImports + 1   \* a stored session starts at 1

Entry == [key : Key, ver : 1 .. MaxVersion]

NoFetch == [pc |-> "free", key |-> None, ver |-> 0, epoch |-> 0, aborted |-> FALSE, result |-> "none"]
Fetch == [pc : {"free", "requested", "streaming", "streamed", "settled"},
          key : Key \union {None}, ver : 0 .. MaxVersion, epoch : 0 .. MaxBumps,
          aborted : BOOLEAN, result : {"none", "parsed", "failed", "aborted"}]

\* A hook instance.  retried: retryNonce > 0; due: a dependency of the
\* effect has changed; waits: the fetch its callbacks are attached to.
Unmounted == [ui |-> "none", ver |-> 0, retried |-> FALSE, due |-> FALSE,
              waits |-> None, owner |-> FALSE, epoch |-> 0]
Instance == [ui : {"none", "no_raw", "loading", "success", "error"}, ver : 0 .. MaxVersion,
             retried : BOOLEAN, due : BOOLEAN,
             waits : Slot \union {None}, owner : BOOLEAN, epoch : 0 .. MaxBumps]

\* The cache never exceeds its cap, and holds a session once.
TypeOK ==
  /\ version \in [Key -> 0 .. MaxVersion] /\ floor \in [Key -> 0 .. MaxVersion]
  /\ pane \in Key \union {None}
  /\ known \subseteq Key
  /\ cache \in Seq(Entry) /\ Len(cache) <= CacheMax
  /\ \A i, j \in DOMAIN cache : cache[i].key = cache[j].key => i = j
  /\ inFlight \in [Key -> Slot \union {None}]
  /\ cacheEpoch \in 0 .. MaxBumps
  /\ fetch \in [Slot -> Fetch]
  /\ view \in [View -> Instance]
  /\ refetchDue \in BOOLEAN
  /\ orphaned \subseteq View /\ retries \in 0 .. MaxRetries

Init ==
  /\ version = [k \in Key |-> IF k \in Stored THEN 1 ELSE 0]
  /\ floor = version
  /\ pane = None
  /\ known = Stored
  /\ cache = <<>>
  /\ inFlight = [k \in Key |-> None]
  /\ cacheEpoch = 0
  /\ fetch = [s \in Slot |-> NoFetch]
  /\ view = [v \in View |-> Unmounted]
  /\ refetchDue = FALSE
  /\ orphaned = {}
  /\ retries = 0

-----------------------------------------------------------------------------
(* The effect of the hook *)

Cached(k) == \E i \in DOMAIN cache : cache[i].key = k
HitAt(k) == CHOOSE i \in DOMAIN cache : cache[i].key = k
Hit(k) == cache[HitAt(k)]

\* A hit moves the entry to the end: delete, then set.
Touched(k) == Append(RemoveAt(cache, HitAt(k)), Hit(k))

Loading(inst, s, owns) ==
  [inst EXCEPT !.ui = "loading", !.ver = 0, !.due = FALSE, !.waits = s, !.owner = owns,
               !.epoch = cacheEpoch]

Free(s) == fetch[s].pc = "free"
FreshFetch(k) == [NoFetch EXCEPT !.pc = "requested", !.key = k, !.epoch = cacheEpoch]

\* The four outcomes of one run of the effect for instance inst of view v,
\* with fs the fetches after the cleanup of the run before.  A retry skips
\* the cache and the fetch under way.
Effect(v, inst, fs) ==
  LET k == pane IN
  \/ /\ k \notin known
     /\ view' = [view EXCEPT ![v] = [inst EXCEPT !.ui = "no_raw", !.ver = 0, !.due = FALSE,
                                                 !.waits = None, !.owner = FALSE, !.epoch = 0]]
     /\ fetch' = fs
     /\ UNCHANGED <<cache, inFlight>>
  \/ /\ k \in known /\ ~inst.retried /\ Cached(k)
     /\ view' = [view EXCEPT ![v] = [inst EXCEPT !.ui = "success", !.ver = Hit(k).ver, !.due = FALSE,
                                                 !.waits = None, !.owner = FALSE, !.epoch = 0]]
     /\ cache' = Touched(k)
     /\ fetch' = fs
     /\ UNCHANGED inFlight
  \/ /\ k \in known /\ ~inst.retried /\ ~Cached(k) /\ inFlight[k] # None
     /\ view' = [view EXCEPT ![v] = Loading(inst, inFlight[k], FALSE)]
     /\ fetch' = fs
     /\ UNCHANGED <<cache, inFlight>>
  \/ /\ k \in known /\ (inst.retried \/ (~Cached(k) /\ inFlight[k] = None))
     /\ \E s \in Slot :
          /\ Free(s) /\ \A t \in Slot : Free(t) => s <= t
          /\ inFlight' = [inFlight EXCEPT ![k] = s]
          \* Under React's StrictMode a mount runs the effect, its cleanup, and
          \* the effect again, which joins the fetch the cleanup aborted
          /\ \E doomed \in IF view[v] = Unmounted THEN BOOLEAN ELSE {FALSE} :
               /\ fetch' = [fs EXCEPT ![s] = [FreshFetch(k) EXCEPT !.aborted = doomed]]
               /\ view' = [view EXCEPT ![v] = Loading(inst, s, ~doomed)]
     /\ UNCHANGED cache

\* Variant that leaves the fetch to the tabs that may have joined it.
CleanUpJoinable(S) == fetch

\* The cleanup of the effects of the views in S: an owner aborts its fetch.
Aborts(S) == {view[v].waits : v \in {w \in S : view[w].owner}} \ {None}
CleanUp(S) ==
  [s \in Slot |-> IF s \in Aborts(S) THEN [fetch[s] EXCEPT !.aborted = TRUE] ELSE fetch[s]]

-----------------------------------------------------------------------------
(* The user and React *)

\* Another row, or none: the pane's key changes and every tab unmounts.
Select(k) ==
  /\ k # pane
  /\ pane' = k
  /\ fetch' = CleanUp(View)
  /\ view' = [v \in View |-> Unmounted]
  /\ orphaned' = {}
  /\ UNCHANGED <<version, known, store, refetchDue, floor, retries>>

\* A tab of the pane is visited for the first time; then it stays mounted.
Mount(v) ==
  /\ pane # None /\ view[v] = Unmounted
  /\ Effect(v, Unmounted, fetch)
  /\ UNCHANGED <<version, pane, known, cacheEpoch, refetchDue, floor, orphaned, retries>>

\* retry: only from the error state.
Retry(v) ==
  /\ view[v].ui = "error" /\ retries < MaxRetries
  /\ retries' = retries + 1
  /\ view' = [view EXCEPT ![v].retried = TRUE, ![v].due = TRUE]
  /\ UNCHANGED <<version, pane, known, store, fetch, refetchDue, floor, orphaned>>

\* React runs the effect again: the cleanup, then the effect.
Rerun(v) ==
  /\ view[v].due
  /\ Effect(v, view[v], CleanUp({v}))
  /\ orphaned' = orphaned \ {v}
  /\ UNCHANGED <<version, pane, known, cacheEpoch, refetchDue, floor, retries>>

\* The server stores new bytes for a session.
Import(k) ==
  /\ version[k] < MaxImports + Cardinality({k} \intersect Stored)
  /\ version' = [version EXCEPT ![k] = @ + 1]
  /\ UNCHANGED <<pane, known, store, fetch, view, refetchDue, floor, orphaned, retries>>

\* Variant that leaves what is under way to finish.
BumpCacheOnly ==
  /\ cacheEpoch < MaxBumps
  /\ cacheEpoch' = cacheEpoch
  /\ cache' = <<>>
  /\ inFlight' = [k \in Key |-> None]
  /\ floor' = version
  /\ refetchDue' = TRUE
  /\ UNCHANGED <<version, pane, known, fetch, view, orphaned, retries>>

\* bumpCacheEpoch, when the page sees a rescan or an import succeed.
BumpCacheEpoch ==
  /\ cacheEpoch < MaxBumps
  /\ cacheEpoch' = cacheEpoch + 1
  /\ cache' = <<>>
  /\ fetch' = [s \in Slot |-> IF \E k \in Key : inFlight[k] = s
                               THEN [fetch[s] EXCEPT !.aborted = TRUE] ELSE fetch[s]]
  /\ inFlight' = [k \in Key |-> None]
  /\ floor' = version
  /\ refetchDue' = TRUE
  /\ UNCHANGED <<version, pane, known, view, orphaned, retries>>

\* refetchAll: the effect depends on the uid and the tool of the row alone,
\* so only a session that has become a stored one runs it again.
Refetch ==
  /\ refetchDue
  /\ refetchDue' = FALSE
  /\ known' = {k \in Key : version[k] > 0}
  /\ view' = [v \in View |->
                IF view[v] # Unmounted /\ pane \in known' \ known
                  THEN [view[v] EXCEPT !.due = TRUE] ELSE view[v]]
  /\ UNCHANGED <<version, pane, store, fetch, floor, orphaned, retries>>

-----------------------------------------------------------------------------
(* A fetch *)

Advance(s, pc) == fetch' = [fetch EXCEPT ![s].pc = pc]
Settle(s, result) == fetch' = [fetch EXCEPT ![s].pc = "settled", ![s].result = result]

\* The server opens the bytes it has.
Answer(s) ==
  /\ fetch[s].pc = "requested" /\ ~fetch[s].aborted
  /\ fetch' = [fetch EXCEPT ![s].pc = "streaming", ![s].ver = version[fetch[s].key]]
  /\ UNCHANGED <<version, pane, known, store, view, refetchDue, floor, orphaned, retries>>

\* The request or a read fails.  An error response wins over an abort.
FetchFails(s) ==
  /\ \/ fetch[s].pc = "requested"
     \/ fetch[s].pc = "streaming" /\ ~fetch[s].aborted
  /\ Settle(s, "failed")
  /\ UNCHANGED <<version, pane, known, store, view, refetchDue, floor, orphaned, retries>>

AbortNoticed(s) ==
  /\ fetch[s].pc \in {"requested", "streaming"} /\ fetch[s].aborted
  /\ Settle(s, "aborted")
  /\ UNCHANGED <<version, pane, known, store, view, refetchDue, floor, orphaned, retries>>

\* The last look at the signal: an abort after it is too late.
StreamEnds(s) ==
  /\ fetch[s].pc = "streaming" /\ ~fetch[s].aborted
  /\ Advance(s, "streamed")
  /\ UNCHANGED <<version, pane, known, store, view, refetchDue, floor, orphaned, retries>>

\* Map.set keeps the place of a key it already holds.
SetEntry(c, e) ==
  IF \E i \in DOMAIN c : c[i].key = e.key
    THEN [i \in DOMAIN c |-> IF c[i].key = e.key THEN e ELSE c[i]]
    ELSE Append(c, e)

\* Variant that drops an entry too late.
EvictOne(c) == IF Len(c) > CacheMax + 1 THEN Tail(c) ELSE c

Evict(c) == IF Len(c) > CacheMax THEN SubSeq(c, Len(c) - CacheMax + 1, Len(c)) ELSE c

ParsedEntry(s) == [key |-> fetch[s].key, ver |-> fetch[s].ver]

\* dispatchParser never throws; the cache is written in the epoch the fetch
\* was started in.
Parse(s) ==
  /\ fetch[s].pc = "streamed"
  /\ cache' = IF fetch[s].epoch = cacheEpoch THEN Evict(SetEntry(cache, ParsedEntry(s))) ELSE cache
  /\ Settle(s, "parsed")
  /\ UNCHANGED <<version, pane, known, inFlight, cacheEpoch, view, refetchDue, floor, orphaned, retries>>

Told(inst) == [inst EXCEPT !.waits = None, !.owner = FALSE, !.epoch = 0]
Shows(inst, f) == [Told(inst) EXCEPT !.ui = "success", !.ver = f.ver]
Fails(inst) == [Told(inst) EXCEPT !.ui = "error", !.ver = 0]

\* The callbacks of the instance that started fetch f.
OwnerHears(inst, f) ==
  IF f.result = "failed" THEN Fails(inst)
  ELSE IF f.result = "parsed" /\ f.epoch = cacheEpoch THEN Shows(inst, f)
  ELSE Told(inst)

\* Variant whose joined tabs show whatever arrives.
JoinedHearsAnyEpoch(inst, f) ==
  IF f.result = "failed" THEN Fails(inst)
  ELSE IF f.result = "parsed" THEN Shows(inst, f)
  ELSE [Told(inst) EXCEPT !.retried = TRUE, !.due = TRUE]

\* Variant whose joined tabs ignore an abort.
JoinedHearsQuietly(inst, f) ==
  IF f.result = "failed" THEN Fails(inst)
  ELSE IF f.result = "parsed" /\ inst.epoch = cacheEpoch THEN Shows(inst, f)
  ELSE Told(inst)

\* The callbacks of an instance that joined: an abort, which came from its
\* owner's cleanup or a reset, makes it fetch for itself.
JoinedHears(inst, f) ==
  IF f.result = "failed" THEN Fails(inst)
  ELSE IF f.result = "aborted" THEN [Told(inst) EXCEPT !.retried = TRUE, !.due = TRUE]
  ELSE IF inst.epoch = cacheEpoch THEN Shows(inst, f)
  ELSE Told(inst)

\* A settled promise runs its callbacks one after the other, the owner's
\* first: they take the fetch out of inFlight if it is still the one there.
\* A callback of an instance whose effect was cleaned up does nothing.
Tell(s) ==
  /\ fetch[s].pc = "settled"
  /\ fetch' = [fetch EXCEPT ![s] = NoFetch]
  /\ inFlight' = [k \in Key |-> IF inFlight[k] = s THEN None ELSE inFlight[k]]
  /\ view' = [v \in View |->
                IF view[v].waits # s THEN view[v]
                ELSE IF view[v].owner THEN OwnerHears(view[v], fetch[s])
                ELSE JoinedHears(view[v], fetch[s])]
  /\ orphaned' = orphaned \union
       {v \in View : view[v].waits = s /\ view[v].epoch # cacheEpoch /\ view'[v] = Told(view[v])}
  /\ UNCHANGED <<version, pane, known, cache, cacheEpoch, refetchDue, floor, retries>>

-----------------------------------------------------------------------------

FetchStep(s) ==
  Answer(s) \/ FetchFails(s) \/ AbortNoticed(s) \/ StreamEnds(s) \/ Parse(s) \/ Tell(s)

Next ==
  \/ \E k \in Key \union {None} : Select(k)
  \/ \E v \in View : Mount(v) \/ Retry(v) \/ Rerun(v)
  \/ \E k \in Key : Import(k)
  \/ BumpCacheEpoch \/ Refetch
  \/ \E s \in Slot : FetchStep(s)

Spec == Init /\ [][Next]_vars

\* Promises settle, callbacks run and React renders; the user owes nothing.
FairSpec ==
  /\ Spec
  /\ \A s \in Slot : WF_vars(FetchStep(s))
  /\ \A v \in View : WF_vars(Rerun(v))
  /\ WF_vars(Refetch)

-----------------------------------------------------------------------------
(* Properties *)

\* What the cache holds was read after the last reset: bytes that were
\* replaced before the page learned of it are never served from the cache,
\* though fetches of them may still be finishing.
CacheIsCurrent == \A e \in Range(cache) : e.ver >= floor[e.key]

\* A result a tab begins to show is as new as the last reset, whether the
\* tab fetched it, joined the fetch or found it.
ShownIsCurrent ==
  [][\A v \in View : view'[v].ui = "success" /\ view'[v] # view[v] => view'[v].ver >= floor'[pane']]_vars

\* A session's bytes are streamed only while a tab of its pane, the one that
\* asked for them, is there: leaving a pane, retrying and a reset abort the
\* rest.
StreamsAreWatched ==
  \A s \in Slot : fetch[s].pc \in {"requested", "streaming"} /\ ~fetch[s].aborted =>
    fetch[s].key = pane /\ \E v \in View : view[v].owner /\ view[v].waits = s

\* A tab that loads ends up with a result or an error, or is unmounted,
\* even when the tab it joined is gone; the exception is a result that was
\* dropped for a reset.
LoadingEnds ==
  \A v \in View : view[v].ui = "loading" ~> view[v].ui # "loading" \/ v \in orphaned

=============================================================================
