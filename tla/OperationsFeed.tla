--------------------------- MODULE OperationsFeed ---------------------------
(***************************************************************************)
(* The live feed of operations, client side: the useOperationsFeed hook of *)
(* one page, on top of the server of OperationsSse.  It merges the frames  *)
(* of an EventSource it reopens by itself, the list it fetches on a resync *)
(* and the lists it polls while the stream stays down.                     *)
(***************************************************************************)
EXTENDS OperationsSse

CONSTANTS
  ListLimit,   \* FALLBACK_LIST_LIMIT
  PollAfter,   \* POLLING_ACTIVATION_THRESHOLD
  MaxDrops     \* bound: connections that break or are refused

ASSUME ClientAssumption == {ListLimit, PollAfter, MaxDrops} \subseteq Nat

VARIABLES
  view,       \* operations: the stage shown of every row
  lastSeq,    \* lastEventSeqRef
  failures,   \* failureCountRef, up to PollAfter
  feedStatus, \* status
  polling,    \* pollIntervalRef is set
  resyncFetch, pollFetch,   \* the list requests under way
  drops,
  lastBoot,   \* history: the boot whose event lastSeq is
  spoiled     \* history: why the view may be wrong since the last connect

clientVars == <<view, lastSeq, failures, feedStatus, polling, resyncFetch, pollFetch>>
vars == <<serverVars, clientVars, drops, lastBoot, spoiled>>

EmptyView == [o \in Op |-> Absent]
NoFetch == [pc |-> "none", rows |-> EmptyView]
Asked == [pc |-> "asked", rows |-> EmptyView]
Fetch == [pc : {"none", "asked", "answered"}, rows : [Op -> Stage]]

TypeOK ==
  /\ ServerTypeOK
  /\ view \in [Op -> Stage]
  /\ lastSeq \in Nat
  /\ failures \in 0 .. PollAfter
  /\ feedStatus \in {"connecting", "streaming", "polling", "reconnecting"}
  /\ polling \in BOOLEAN
  /\ resyncFetch \in Fetch /\ pollFetch \in Fetch
  /\ drops \in 0 .. MaxDrops
  /\ lastBoot \in 0 .. MaxRestarts
  /\ spoiled \subseteq {"overtaken", "blind", "truncated"}

Init ==
  /\ ServerInit
  /\ view = EmptyView
  /\ lastSeq = NoSeq
  /\ failures = 0
  /\ feedStatus = "connecting"
  /\ polling = FALSE
  /\ resyncFetch = NoFetch
  /\ pollFetch = NoFetch
  /\ drops = 0
  /\ lastBoot = 0
  /\ spoiled = {}

-----------------------------------------------------------------------------
(* The EventSource *)

\* connect, and the server's subscribe.
Connect == Subscribe(lastSeq) /\ UNCHANGED <<clientVars, drops, lastBoot, spoiled>>

\* The event that finished o has yet to reach the page.
Coming(o) ==
  \/ unpublished[o] = Done
  \/ \E e \in Range(conn.backlog) \union Range(chan.events) \union Range(wire) :
       e.op = o /\ e.stage = Done

\* A row shown as unfinished has finished, is too old for the snapshot, and
\* no replay reaches back to the event.
LeftBehind(shown) ==
  \E o \in Op : /\ shown[o] \in Active /\ row[o] = Done
               /\ o \notin Newest({p \in Op : row[p] = Done}, DoneLimit)
               /\ ~Coming(o)

\* The snapshot mends the view, but for what it is too short for.
SendSnapshot ==
  /\ ListDone
  /\ spoiled' = IF LeftBehind(view) THEN {"truncated"} ELSE {}
  /\ UNCHANGED <<clientVars, drops, lastBoot>>

\* Variant that leaves the poll under way to arrive.
StopInterval == polling' = FALSE /\ UNCHANGED pollFetch

\* stopPolling aborts the request under way as well.
StopPolling == polling' = FALSE /\ pollFetch' = NoFetch

\* handleSnapshotFrame and handleTransitionFrame
Alive == failures' = 0 /\ feedStatus' = "streaming" /\ StopPolling

Show(f) == view' = [view EXCEPT ![f.op] = f.stage]

\* The next frame of the stream.
Deliver ==
  /\ wire # <<>>
  /\ LET f == Head(wire) IN
       \/ /\ f.kind = "snapshot"
          /\ Show(f) /\ Alive
          /\ UNCHANGED <<lastSeq, resyncFetch, lastBoot>>
       \/ /\ f.kind = "transition"
          /\ Show(f) /\ Alive
          /\ lastSeq' = IF f.seq > lastSeq THEN f.seq ELSE lastSeq
          /\ lastBoot' = IF f.seq > lastSeq THEN restarts ELSE lastBoot
          /\ UNCHANGED resyncFetch
       \/ /\ f.kind = "resync"   \* handleResync drops the map and asks for the list
          /\ view' = EmptyView /\ lastSeq' = NoSeq
          /\ resyncFetch' = Asked
          /\ UNCHANGED <<failures, feedStatus, polling, pollFetch, lastBoot>>
  /\ wire' = Tail(wire)
  /\ UNCHANGED <<row, unpublished, hub, conn, chan, restarts, faults, drops, spoiled>>

\* handleError: close, and reconnect after a pause that Connect stands for;
\* poll once the whole ladder of pauses has failed.
HandleError ==
  /\ failures' = IF failures < PollAfter THEN failures + 1 ELSE failures
  /\ IF failures >= PollAfter /\ ~polling
       THEN polling' = TRUE /\ pollFetch' = Asked /\ feedStatus' = "polling"
       ELSE /\ feedStatus' = IF polling THEN feedStatus ELSE "reconnecting"
            /\ UNCHANGED <<polling, pollFetch>>
  /\ UNCHANGED <<view, lastSeq, lastBoot>>

\* The connection breaks, or an attempt to open it fails.
Drop ==
  /\ drops < MaxDrops
  /\ drops' = drops + 1
  /\ Hangup
  /\ HandleError
  /\ UNCHANGED <<row, unpublished, hub, restarts, faults, resyncFetch, spoiled>>

\* The bridge has closed the stream after a lag.
StreamEnds ==
  /\ conn.pc = "closing" /\ wire = <<>>
  /\ Hangup
  /\ HandleError
  /\ UNCHANGED <<row, unpublished, hub, restarts, faults, resyncFetch, drops, spoiled>>

\* A list asked for on a resync fails with the server; a poll is repeated
\* by its interval.
Restart ==
  /\ Reboot
  /\ resyncFetch' = IF resyncFetch.pc = "asked" THEN NoFetch ELSE resyncFetch
  /\ IF conn.pc = "none"
       THEN UNCHANGED <<view, lastSeq, failures, feedStatus, polling, pollFetch, lastBoot>>
       ELSE HandleError
  /\ UNCHANGED <<drops, spoiled>>

-----------------------------------------------------------------------------
(* GET /api/v1/operations?limit=50 *)

\* The rows submitted last, whatever their stage.
Listed == [o \in Op |-> IF o \in Newest({p \in Op : row[p] # Absent}, ListLimit)
                          THEN row[o] ELSE Absent]

AnswerResync ==
  /\ resyncFetch.pc = "asked"
  /\ resyncFetch' = [pc |-> "answered", rows |-> Listed]
  /\ UNCHANGED <<serverVars, view, lastSeq, failures, feedStatus, polling, pollFetch,
                 drops, lastBoot, spoiled>>

\* A failed request leaves the map to the stream.
ResyncFails ==
  /\ resyncFetch.pc # "none"
  /\ drops < MaxDrops
  /\ drops' = drops + 1
  /\ resyncFetch' = NoFetch
  /\ UNCHANGED <<serverVars, view, lastSeq, failures, feedStatus, polling, pollFetch,
                 lastBoot, spoiled>>

\* What a list that replaces the map spoils: it takes back what the stream
\* has shown, or what the snapshot that was sent will not mend.
Mishaps(rows) ==
  (IF \E o \in Op : rows[o] < view[o] THEN {"overtaken"} ELSE {})
    \union (IF conn.pc = "live" /\ LeftBehind(rows) THEN {"truncated"} ELSE {})

\* The answer replaces the map, whatever the stream has shown meanwhile.
ResyncArrives ==
  /\ resyncFetch.pc = "answered"
  /\ view' = resyncFetch.rows
  /\ feedStatus' = "streaming"
  /\ resyncFetch' = NoFetch
  /\ spoiled' = spoiled \union Mishaps(resyncFetch.rows)
  /\ UNCHANGED <<serverVars, lastSeq, failures, polling, pollFetch, drops, lastBoot>>

\* The interval of the poll aborts the request before it.
PollTick ==
  /\ polling
  /\ pollFetch' = Asked
  /\ UNCHANGED <<serverVars, view, lastSeq, failures, feedStatus, polling, resyncFetch,
                 drops, lastBoot, spoiled>>

AnswerPoll ==
  /\ pollFetch.pc = "asked"
  /\ pollFetch' = [pc |-> "answered", rows |-> Listed]
  /\ UNCHANGED <<serverVars, view, lastSeq, failures, feedStatus, polling, resyncFetch,
                 drops, lastBoot, spoiled>>

PollArrives ==
  /\ pollFetch.pc = "answered"
  /\ view' = pollFetch.rows
  /\ pollFetch' = NoFetch
  /\ spoiled' = spoiled \union (Mishaps(pollFetch.rows) \ {"overtaken"})
  /\ UNCHANGED <<serverVars, lastSeq, failures, feedStatus, polling, resyncFetch,
                 drops, lastBoot>>

-----------------------------------------------------------------------------

ServerMoves == ServerStep /\ UNCHANGED <<clientVars, drops, lastBoot, spoiled>>

ListError ==
  /\ ListFails
  /\ spoiled' = spoiled \union {"blind"}
  /\ UNCHANGED <<clientVars, drops, lastBoot>>

Submissions == (\E o \in Op : Commit(o)) /\ UNCHANGED <<clientVars, drops, lastBoot, spoiled>>

Next ==
  \/ Submissions \/ ServerMoves \/ ListError
  \/ Connect \/ SendSnapshot \/ Deliver \/ Drop \/ StreamEnds \/ Restart
  \/ AnswerResync \/ ResyncFails \/ ResyncArrives
  \/ PollTick \/ AnswerPoll \/ PollArrives

Spec == Init /\ [][Next]_vars

\* Publishers, the handler and its bridge run; the hook's timers fire; a
\* request that is not lost is answered and the answer arrives.  Nobody has
\* to submit, and breaks are not owed.
FairSpec ==
  /\ Spec
  /\ WF_vars(SendSnapshot)
  /\ WF_vars(ServerMoves)
  /\ WF_vars(Connect) /\ WF_vars(Deliver) /\ WF_vars(StreamEnds)
  /\ WF_vars(AnswerResync \/ ResyncArrives)
  /\ WF_vars(AnswerPoll \/ PollArrives)

-----------------------------------------------------------------------------
(* Properties *)

\* Connected, and nothing on its way.
Settled ==
  /\ conn.pc = "live" /\ wire = <<>> /\ chan = NoChan
  /\ \A o \in Op : unpublished[o] = Absent
  /\ resyncFetch = NoFetch /\ pollFetch = NoFetch

\* Every row that is shown is shown as it is, and every unfinished one is
\* shown.
ViewIsRight ==
  \A o \in Op : /\ view[o] # Absent => view[o] = row[o]
                /\ row[o] \in Active => view[o] = row[o]

\* Once everything has arrived the page is right, through drops, restarts,
\* lags and evictions, unless one of the three named mishaps spoiled it:
\* the stream alone, subscribed before the snapshot is read and replayed
\* from the ring, loses nothing.
SettledViewIsRight == Settled /\ spoiled = {} => ViewIsRight

\* A client never steps over an event of one boot of the server: what the
\* ring has lost is announced by a resync.
NoSilentGap ==
  [][lastSeq' > lastSeq /\ lastSeq # NoSeq /\ lastBoot = restarts => lastSeq' = lastSeq + 1]_vars

\* The page ends up right, for ever, once the breaks are over.
Converges == <>[](spoiled = {} => ViewIsRight)

=============================================================================
