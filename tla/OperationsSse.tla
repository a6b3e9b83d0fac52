---------------------------- MODULE OperationsSse ----------------------------
(***************************************************************************)
(* The live feed of operations, server side: the broadcaster with its ring *)
(* of recent events, and one SSE connection served from it.                *)
(*                                                                         *)
(* The ledger is reduced to what the feed can tell apart: the stage of     *)
(* each row.  A row's commits are published in the order they are made,    *)
(* each before the next one, which is what a worker does; the publish of a *)
(* cancel request, which may come late, is the subject of Operations.      *)
(***************************************************************************)
EXTENDS Naturals, Sequences, SequencesExt

CONSTANTS
  MaxOps,     \* bound: operations, numbered in the order they are submitted
  RingCap,    \* RING_BUFFER_CAPACITY
  ChanCap,    \* BROADCAST_CHANNEL_CAPACITY
  WireCap,    \* capacity of the bridge's mpsc channel
  DoneLimit,  \* finished rows in a snapshot
  MaxRestarts, MaxFaults   \* bounds: server restarts, store errors

ASSUME CapacityAssumption ==
  /\ {MaxOps, RingCap, ChanCap, WireCap} \subseteq Nat \ {0}
  /\ {DoneLimit, MaxRestarts, MaxFaults} \subseteq Nat

VARIABLES
  row,          \* the committed stage of every row
  unpublished,  \* a stage that is committed and not published, or Absent
  hub,          \* OperationsBroadcaster: next_seq and the ring
  conn,         \* the handler of the client's connection
  chan,         \* its broadcast receiver
  wire,         \* frames on their way to the client
  restarts, faults

serverVars == <<row, unpublished, hub, conn, chan, wire, restarts, faults>>

Op == 1 .. MaxOps

Absent == 0
Queued == 1
Running == 2
Done == 3
Stage == Absent .. Done
Active == {Queued, Running}

NoSeq == 0   \* no Last-Event-ID; the broadcaster starts at 1

Event == [op : Op, stage : Stage, seq : Nat]
Frame == [kind : {"snapshot", "transition", "resync"}, op : Op, stage : Stage, seq : Nat]

Conn == [pc : {"none", "subscribed", "listed", "live", "closing"}, resync : BOOLEAN,
         backlog : Seq(Event), lastBacklog : Nat, active : Seq(Frame)]

NewHub == [next |-> 1, ring |-> <<>>]
NoConn == [pc |-> "none", resync |-> FALSE, backlog |-> <<>>, lastBacklog |-> NoSeq, active |-> <<>>]
NoChan == [events |-> <<>>, lagged |-> FALSE]

ServerTypeOK ==
  /\ row \in [Op -> Stage]
  /\ unpublished \in [Op -> Stage]
  /\ hub \in [next : Nat \ {0}, ring : Seq(Event)]
  /\ conn \in Conn
  /\ chan \in [events : Seq(Event), lagged : BOOLEAN]
  /\ Len(hub.ring) <= RingCap /\ Len(chan.events) <= ChanCap
  /\ wire \in Seq(Frame)
  /\ restarts \in 0 .. MaxRestarts /\ faults \in 0 .. MaxFaults

ServerInit ==
  /\ row = [o \in Op |-> Absent]
  /\ unpublished = [o \in Op |-> Absent]
  /\ hub = NewHub
  /\ conn = NoConn
  /\ chan = NoChan
  /\ wire = <<>>
  /\ restarts = 0
  /\ faults = 0

-----------------------------------------------------------------------------
(* The ledger and the broadcaster *)

\* A submit, a claim or a terminal write commits.
Commit(o) ==
  /\ row[o] < Done /\ unpublished[o] = Absent
  /\ \A p \in Op : p < o => row[p] # Absent
  /\ row' = [row EXCEPT ![o] = @ + 1]
  /\ unpublished' = [unpublished EXCEPT ![o] = row[o] + 1]
  /\ UNCHANGED <<hub, conn, chan, wire, restarts, faults>>

\* At most cap of the newest.
Push(s, e, cap) == Append(IF Len(s) >= cap THEN Tail(s) ELSE s, e)

\* OperationsBroadcaster::publish: one mutex for the number, the ring and
\* the receivers.  A receiver that is full loses its oldest event.
Publish(o) ==
  /\ unpublished[o] # Absent
  /\ unpublished' = [unpublished EXCEPT ![o] = Absent]
  /\ LET e == [op |-> o, stage |-> unpublished[o], seq |-> hub.next] IN
       /\ hub' = [next |-> hub.next + 1, ring |-> Push(hub.ring, e, RingCap)]
       /\ chan' = IF conn.pc \in {"none", "closing"} THEN chan
                  ELSE [events |-> Push(chan.events, e, ChanCap),
                        lagged |-> chan.lagged \/ Len(chan.events) = ChanCap]
  /\ UNCHANGED <<row, conn, wire, restarts, faults>>

-----------------------------------------------------------------------------
(* GET /api/v1/operations/events: operations_events *)

\* Variant that misses the eviction of exactly one event.
EvictedTwo(last) == last # NoSeq /\ hub.ring # <<>> /\ last + 2 < hub.ring[1].seq

\* The ring no longer holds the event after the client's last.
Evicted(last) == last # NoSeq /\ hub.ring # <<>> /\ last + 1 < hub.ring[1].seq

\* The events after the client's last; the ring is in order, so they are its end.
Newer(last) ==
  LET n == IF last = NoSeq \/ Evicted(last) THEN 0
           ELSE Cardinality({i \in DOMAIN hub.ring : hub.ring[i].seq > last})
  IN SubSeq(hub.ring, Len(hub.ring) - n + 1, Len(hub.ring))

\* OperationsBroadcaster::subscribe
Subscribe(last) ==
  /\ conn.pc = "none"
  /\ conn' = [NoConn EXCEPT !.pc = "subscribed",
                            !.resync = Evicted(last),
                            !.backlog = Newer(last),
                            !.lastBacklog = IF Newer(last) = <<>> THEN NoSeq ELSE Last(Newer(last)).seq]
  /\ chan' = NoChan
  /\ UNCHANGED <<row, unpublished, hub, wire, restarts, faults>>

RowFrame(o) == [kind |-> "snapshot", op |-> o, stage |-> row[o], seq |-> NoSeq]
EventFrame(e) == [kind |-> "transition", op |-> e.op, stage |-> e.stage, seq |-> e.seq]
ResyncFrame == [kind |-> "resync", op |-> 1, stage |-> Absent, seq |-> NoSeq]

\* The n rows of S submitted last.
Newest(S, n) == {o \in S : Cardinality({p \in S : p > o}) < n}

\* The snapshot frames of the rows of S, in the order of submission.
Nth(S, i) == CHOOSE o \in S : Cardinality({p \in S : p <= o}) = i
RowFrames(S) == [i \in 1 .. Cardinality(S) |-> RowFrame(Nth(S, i))]

\* operations_snapshot_for_sse lists the unfinished rows, then, in a second
\* query, the finished ones.
ListActive ==
  /\ conn.pc = "subscribed"
  /\ conn' = [conn EXCEPT !.pc = "listed",
                          !.active = RowFrames({o \in Op : row[o] \in Active})]
  /\ UNCHANGED <<row, unpublished, hub, chan, wire, restarts, faults>>

\* The bridge task starts: it sends the resync, the snapshot and the backlog.
StartBridge(snapshot) ==
  /\ conn' = [conn EXCEPT !.pc = "live", !.resync = FALSE, !.active = <<>>, !.backlog = <<>>]
  /\ wire' = (IF conn.resync THEN <<ResyncFrame>> ELSE <<>>)
               \o snapshot \o [i \in DOMAIN conn.backlog |-> EventFrame(conn.backlog[i])]
  /\ UNCHANGED <<row, unpublished, hub, chan, restarts>>

ListDone ==
  /\ conn.pc = "listed"
  /\ StartBridge(conn.active
       \o RowFrames(Newest({o \in Op : row[o] = Done}, DoneLimit)))
  /\ UNCHANGED faults

\* A store error in either query leaves an empty snapshot.
ListFails ==
  /\ conn.pc \in {"subscribed", "listed"}
  /\ faults < MaxFaults
  /\ faults' = faults + 1
  /\ StartBridge(<<>>)

\* Variant that goes on after losing events.
BridgeThroughLag ==
  /\ conn.pc = "live" /\ Len(wire) < WireCap
  /\ chan.events # <<>>
  /\ wire' = Append(wire, EventFrame(Head(chan.events)))
  /\ chan' = [events |-> Tail(chan.events), lagged |-> FALSE]
  /\ UNCHANGED <<row, unpublished, hub, conn, restarts, faults>>

\* The bridge's live loop; a full wire holds it back.
Bridge ==
  /\ conn.pc = "live" /\ Len(wire) < WireCap
  /\ \/ /\ chan.lagged
        /\ wire' = Append(wire, ResyncFrame)
        /\ conn' = [conn EXCEPT !.pc = "closing"]
        /\ chan' = NoChan
     \/ /\ ~chan.lagged /\ chan.events # <<>>
        /\ LET e == Head(chan.events) IN
             wire' = IF e.seq <= conn.lastBacklog THEN wire ELSE Append(wire, EventFrame(e))
        /\ chan' = [chan EXCEPT !.events = Tail(@)]
        /\ UNCHANGED conn
  /\ UNCHANGED <<row, unpublished, hub, restarts, faults>>

\* The connection is gone: with it its receiver and the frames under way.
Hangup == conn' = NoConn /\ chan' = NoChan /\ wire' = <<>>

\* The process stops and boots again: claimed rows are interrupted, and the
\* broadcaster is a new one.
Reboot ==
  /\ restarts < MaxRestarts
  /\ restarts' = restarts + 1
  /\ row' = [o \in Op |-> IF row[o] = Running THEN Done ELSE row[o]]
  /\ unpublished' = [o \in Op |-> Absent]
  /\ hub' = NewHub
  /\ Hangup
  /\ UNCHANGED faults

ServerStep ==
  \/ \E o \in Op : Publish(o)
  \/ ListActive \/ Bridge

=============================================================================
