------------------------- MODULE OperationsFeedProofs -------------------------
(***************************************************************************)
(* Theorems about OperationsFeed, for any number of operations, capacity   *)
(* of the ring, the channel and the wire, and number of faults: types, no  *)
(* event stepped over in silence, and a page that is right once everything *)
(* has arrived.                                                            *)
(***************************************************************************)
EXTENDS OperationsFeed, FiniteSetTheorems, SequenceTheorems, TLAPS

-----------------------------------------------------------------------------
(* The numbers of events: the ring, the receiver, the backlog and the wire *)
(* hold consecutive events, up to the next one but for what comes after.   *)

Open == conn.pc \in {"subscribed", "listed", "live"}
Waiting == conn.pc \in {"subscribed", "listed"}

\* s ends just before the event numbered next.
EndsBefore(s, next) == \A i \in 1 .. Len(s) : s[i].seq + Len(s) + 1 = next + i

IsEvent(f) == f.kind = "transition"

\* What is there in which state of the connection.
Shape ==
  /\ ~Open => chan = NoChan
  /\ wire # <<>> => conn.pc \in {"live", "closing"}
  /\ ~Waiting => conn.backlog = <<>>
  /\ \A i \in 1 .. Len(conn.active) : conn.active[i].kind = "snapshot"
  /\ conn.pc = "live" => \A i \in 2 .. Len(wire) : wire[i].kind # "resync"

Numbered ==
  /\ EndsBefore(hub.ring, hub.next)
  /\ hub.next > 1 => hub.ring # <<>>
  /\ Open => EndsBefore(chan.events, hub.next)
  /\ EndsBefore(conn.backlog, conn.lastBacklog + 1)
  /\ Open => conn.lastBacklog < hub.next
  /\ Open => \A i \in 1 .. Len(chan.events) : chan.events[i].seq > conn.lastBacklog
  /\ conn.resync => conn.backlog = <<>>

\* The snapshot comes first, then events one by one.
WireInOrder ==
  /\ \A i, j \in 1 .. Len(wire) : i < j /\ IsEvent(wire[i]) => wire[j].kind # "snapshot"
  /\ \A i \in 1 .. Len(wire) - 1 :
       IsEvent(wire[i]) /\ IsEvent(wire[i + 1]) => wire[i + 1].seq = wire[i].seq + 1

\* What the receiver holds follows what was sent on.
NothingBetween ==
  /\ Waiting /\ ~chan.lagged /\ conn.backlog # <<>> =>
       conn.lastBacklog + Len(chan.events) + 1 = hub.next
  /\ conn.pc = "live" /\ ~chan.lagged /\ wire # <<>> /\ IsEvent(wire[Len(wire)]) =>
       wire[Len(wire)].seq + Len(chan.events) + 1 = hub.next

\* The event after the client's last is not behind what it will get first.
Reaches(n) == n <= lastSeq + 1
NothingBefore ==
  /\ Waiting /\ ~conn.resync /\ conn.backlog # <<>> => Reaches(conn.backlog[1].seq)
  /\ Waiting /\ ~conn.resync /\ conn.backlog = <<>> /\ ~chan.lagged =>
       hub.next <= lastSeq + 1 + Len(chan.events)
  /\ \A i \in 1 .. Len(wire) :
       IsEvent(wire[i]) /\ (\A j \in 1 .. i - 1 : wire[j].kind = "snapshot") => Reaches(wire[i].seq)
  /\ conn.pc = "live" /\ ~chan.lagged /\ (\A i \in 1 .. Len(wire) : wire[i].kind = "snapshot") =>
       hub.next <= lastSeq + 1 + Len(chan.events)

\* The client's last event is one of this boot.
Resumes == lastSeq # NoSeq /\ lastBoot = restarts

OrderInv ==
  /\ Shape /\ Numbered /\ WireInOrder /\ NothingBetween
  /\ lastBoot <= restarts
  /\ Resumes => NothingBefore

-----------------------------------------------------------------------------
(* The stages: whatever is on its way about a row ends with its stage.     *)

\* x tells of o; a resync tells of no row.
Of(x, o) == x.op = o /\ x.stage # Absent
Tells(s, o) == \E i \in 1 .. Len(s) : Of(s[i], o)

\* The last that s tells of o is v.
LastIs(s, o, v) ==
  \A i \in 1 .. Len(s) :
    Of(s[i], o) => s[i].stage = v \/ \E j \in i + 1 .. Len(s) : Of(s[j], o)

\* Nothing runs ahead of the ledger.
Behind(s) == \A i \in 1 .. Len(s) : s[i].stage <= row[s[i].op]
StagesPast ==
  /\ Behind(hub.ring) /\ Behind(chan.events) /\ Behind(conn.backlog)
  /\ Behind(conn.active) /\ Behind(wire)
  /\ \A o \in Op : /\ view[o] <= row[o]
                   /\ resyncFetch.rows[o] <= row[o]
                   /\ pollFetch.rows[o] <= row[o]

\* Only a resync tells of no row.
AllTell ==
  /\ \A i \in 1 .. Len(hub.ring) : hub.ring[i].stage # Absent
  /\ \A i \in 1 .. Len(chan.events) : chan.events[i].stage # Absent
  /\ \A i \in 1 .. Len(conn.backlog) : conn.backlog[i].stage # Absent
  /\ \A i \in 1 .. Len(conn.active) : conn.active[i].stage # Absent
  /\ \A i \in 1 .. Len(wire) : wire[i].kind = "resync" <=> wire[i].stage = Absent

\* Nothing about o has yet to enter the wire, or to leave it.
Quiet(o) == unpublished[o] = Absent /\ ~Tells(chan.events, o)
Heard(o) == Quiet(o) /\ ~Tells(wire, o)

Published ==
  \A o \in Op : /\ unpublished[o] # Absent => unpublished[o] = row[o]
                /\ unpublished[o] = Absent => LastIs(hub.ring, o, row[o])

\* The receiver ends with the stage of a row, the backlog if it holds nothing.
Received ==
  Open /\ ~chan.lagged =>
    \A o \in Op : unpublished[o] = Absent =>
      /\ LastIs(chan.events, o, row[o])
      /\ Waiting /\ ~Tells(chan.events, o) => LastIs(conn.backlog, o, row[o])

\* The first half of the snapshot.
ActiveListed ==
  conn.pc = "listed" /\ ~chan.lagged =>
    \A o \in Op : Quiet(o) =>
      /\ row[o] \in Active => Tells(conn.active, o)
      /\ LastIs(conn.active, o, row[o])

Sent ==
  conn.pc = "live" /\ ~chan.lagged =>
    \A o \in Op : Quiet(o) => LastIs(wire, o, row[o])

\* A page that needs to show o.
DoneRows == {o \in Op : row[o] = Done}
Needed(o) == row[o] \in Active \/ o \in Newest(DoneRows, DoneLimit)
SeenRight(o) == (view[o] # Absent \/ Needed(o)) => view[o] = row[o]

\* The map may still be replaced by a list that was asked for without the stream.
Replaceable ==
  polling \/ pollFetch # NoFetch \/ \E i \in 1 .. Len(wire) : wire[i].kind = "resync"

Shown ==
  conn.pc = "live" /\ ~chan.lagged /\ spoiled = {} =>
    \A o \in Op : Heard(o) =>
      /\ SeenRight(o)
      /\ Replaceable => ~Needed(o)

StageInv == StagesPast /\ AllTell /\ Published /\ Received /\ ActiveListed /\ Sent /\ Shown

FeedInv == TypeOK /\ OrderInv /\ StageInv

-----------------------------------------------------------------------------
(* Sequences *)

LEMMA OfTail ==
  ASSUME NEW S, NEW s \in Seq(S), s # <<>>, NEW o, NEW v
  PROVE  /\ Tells(s, o) <=> Of(Head(s), o) \/ Tells(Tail(s), o)
         /\ LastIs(s, o, v) => LastIs(Tail(s), o, v)
         /\ LastIs(s, o, v) /\ Of(Head(s), o) /\ ~Tells(Tail(s), o) => Head(s).stage = v
<1>1. /\ Len(s) \in Nat \ {0} /\ Head(s) = s[1] /\ Len(Tail(s)) = Len(s) - 1
      /\ \A i \in 1 .. Len(s) - 1 : Tail(s)[i] = s[i + 1]
  BY HeadTailProperties, EmptySeq
<1>2. \A i \in 1 .. Len(s) : i = 1 \/ (i - 1 \in 1 .. Len(s) - 1 /\ s[i] = Tail(s)[i - 1])
  BY <1>1
<1>3. Tells(s, o) <=> Of(Head(s), o) \/ Tells(Tail(s), o)
  BY <1>1, <1>2 DEF Tells
<1>4. ASSUME LastIs(s, o, v), NEW i \in 1 .. Len(s) - 1, Of(Tail(s)[i], o)
      PROVE  Tail(s)[i].stage = v \/ \E j \in i + 1 .. Len(s) - 1 : Of(Tail(s)[j], o)
  <2>1. s[i + 1].stage = v \/ \E j \in i + 2 .. Len(s) : Of(s[j], o)
    BY <1>1, <1>4 DEF LastIs
  <2>2. ASSUME NEW j \in i + 2 .. Len(s), Of(s[j], o)
        PROVE  j - 1 \in i + 1 .. Len(s) - 1 /\ Of(Tail(s)[j - 1], o)
    BY <1>1, <1>2, <2>2
  <2>. QED BY <1>1, <2>1, <2>2
<1>5. LastIs(s, o, v) => LastIs(Tail(s), o, v)
  BY <1>1, <1>4 DEF LastIs
<1>6. LastIs(s, o, v) /\ Of(Head(s), o) /\ ~Tells(Tail(s), o) => Head(s).stage = v
  <2>. SUFFICES ASSUME LastIs(s, o, v), Of(s[1], o), ~Tells(Tail(s), o) PROVE s[1].stage = v
    BY <1>1
  <2>1. s[1].stage = v \/ \E j \in 2 .. Len(s) : Of(s[j], o)
    BY <1>1 DEF LastIs
  <2>2. ASSUME NEW j \in 2 .. Len(s), Of(s[j], o) PROVE FALSE
    <3>. DEFINE i == j - 1
    <3>1. i \in 1 .. Len(Tail(s)) /\ Tail(s)[i] = s[j]
      BY <1>1
    <3>. QED BY <2>2, <3>1 DEF Tells
  <2>. QED BY <2>1, <2>2
<1>. QED BY <1>3, <1>5, <1>6

LEMMA OfConcat ==
  ASSUME NEW S, NEW s \in Seq(S), NEW t \in Seq(S), NEW o, NEW v
  PROVE  /\ Tells(s \o t, o) <=> Tells(s, o) \/ Tells(t, o)
         /\ LastIs(t, o, v) /\ (LastIs(s, o, v) \/ Tells(t, o)) => LastIs(s \o t, o, v)
<1>1. /\ Len(s) \in Nat /\ Len(t) \in Nat /\ Len(s \o t) = Len(s) + Len(t)
      /\ \A i \in 1 .. Len(s) : (s \o t)[i] = s[i]
      /\ \A i \in 1 .. Len(t) : (s \o t)[Len(s) + i] = t[i]
  BY ConcatProperties, LenProperties
<1>2. \A i \in 1 .. Len(s) + Len(t) :
        i \in 1 .. Len(s) \/ (i - Len(s) \in 1 .. Len(t) /\ (s \o t)[i] = t[i - Len(s)])
  BY <1>1
<1>3. Tells(s \o t, o) <=> Tells(s, o) \/ Tells(t, o)
  <2>1. \A i \in 1 .. Len(s) : i \in 1 .. Len(s) + Len(t)
    BY <1>1
  <2>2. \A i \in 1 .. Len(t) : Len(s) + i \in 1 .. Len(s) + Len(t)
    BY <1>1
  <2>. QED BY <1>1, <1>2, <2>1, <2>2 DEF Tells
<1>4. ASSUME LastIs(t, o, v), LastIs(s, o, v) \/ Tells(t, o),
             NEW i \in 1 .. Len(s) + Len(t), Of((s \o t)[i], o)
      PROVE  (s \o t)[i].stage = v \/ \E j \in i + 1 .. Len(s) + Len(t) : Of((s \o t)[j], o)
  <2>1. CASE i \in 1 .. Len(s)
    <3>1. CASE Tells(t, o)
      <4>1. PICK j \in 1 .. Len(t) : Of(t[j], o)
        BY <3>1 DEF Tells
      <4>2. Len(s) + j \in i + 1 .. Len(s) + Len(t) /\ Of((s \o t)[Len(s) + j], o)
        BY <1>1, <2>1, <4>1
      <4>. QED BY <4>2
    <3>2. CASE LastIs(s, o, v)
      <4>1. s[i].stage = v \/ \E j \in i + 1 .. Len(s) : Of(s[j], o)
        BY <1>1, <1>4, <2>1, <3>2 DEF LastIs
      <4>2. ASSUME NEW j \in i + 1 .. Len(s), Of(s[j], o)
            PROVE  j \in i + 1 .. Len(s) + Len(t) /\ Of((s \o t)[j], o)
        BY <1>1, <2>1, <4>2
      <4>. QED BY <1>1, <2>1, <4>1, <4>2
    <3>. QED BY <1>4, <3>1, <3>2
  <2>2. CASE i - Len(s) \in 1 .. Len(t) /\ (s \o t)[i] = t[i - Len(s)]
    <3>. DEFINE m == i - Len(s)
    <3>1. t[m].stage = v \/ \E j \in m + 1 .. Len(t) : Of(t[j], o)
      BY <1>4, <2>2 DEF LastIs
    <3>2. ASSUME NEW j \in m + 1 .. Len(t), Of(t[j], o)
          PROVE  Len(s) + j \in i + 1 .. Len(s) + Len(t) /\ Of((s \o t)[Len(s) + j], o)
      BY <1>1, <2>2, <3>2
    <3>. QED BY <2>2, <3>1, <3>2
  <2>. QED BY <1>2, <2>1, <2>2
<1>5. LastIs(t, o, v) /\ (LastIs(s, o, v) \/ Tells(t, o)) => LastIs(s \o t, o, v)
  <2>. SUFFICES ASSUME LastIs(t, o, v), LastIs(s, o, v) \/ Tells(t, o) PROVE LastIs(s \o t, o, v)
    OBVIOUS
  <2>1. \A i \in 1 .. Len(s) + Len(t) : Of((s \o t)[i], o) =>
          (s \o t)[i].stage = v \/ \E j \in i + 1 .. Len(s) + Len(t) : Of((s \o t)[j], o)
    BY <1>4
  <2>. QED BY <1>1, <2>1 DEF LastIs
<1>. QED BY <1>3, <1>5

LEMMA OfSingle ==
  ASSUME NEW e, NEW o, NEW v
  PROVE  /\ Tells(<<e>>, o) <=> Of(e, o)
         /\ LastIs(<<e>>, o, v) <=> (Of(e, o) => e.stage = v)
BY DEF Tells, LastIs

LEMMA OfEmpty == \A o, v : ~Tells(<<>>, o) /\ LastIs(<<>>, o, v)
BY DEF Tells, LastIs

LEMMA OfAppend ==
  ASSUME NEW S, NEW s \in Seq(S), NEW e \in S, NEW o, NEW v
  PROVE  /\ Tells(Append(s, e), o) <=> Tells(s, o) \/ Of(e, o)
         /\ Of(e, o) /\ e.stage = v => LastIs(Append(s, e), o, v)
         /\ ~Of(e, o) /\ LastIs(s, o, v) => LastIs(Append(s, e), o, v)
<1>. DEFINE t == <<e>>
<1>1. Append(s, e) = s \o t /\ t \in Seq(S)
  BY AppendIsConcat
<1>2. /\ Tells(t, o) <=> Of(e, o)
      /\ LastIs(t, o, v) <=> (Of(e, o) => e.stage = v)
  BY OfSingle
<1>. HIDE DEF t
<1>3. /\ Tells(s \o t, o) <=> Tells(s, o) \/ Tells(t, o)
      /\ LastIs(t, o, v) /\ (LastIs(s, o, v) \/ Tells(t, o)) => LastIs(s \o t, o, v)
  BY <1>1, OfConcat
<1>. QED BY <1>1, <1>2, <1>3, Zenon

\* A push keeps the end of what was there, and puts e after it.
LEMMA PushFacts ==
  ASSUME NEW S, NEW s \in Seq(S), NEW e \in S, NEW cap \in Nat \ {0}, Len(s) <= cap
  PROVE  /\ Push(s, e, cap) \in Seq(S) /\ Push(s, e, cap) # <<>>
         /\ Len(Push(s, e, cap)) = IF Len(s) = cap THEN cap ELSE Len(s) + 1
         /\ Push(s, e, cap)[Len(Push(s, e, cap))] = e
         /\ \A i \in 1 .. Len(Push(s, e, cap)) - 1 :
              Push(s, e, cap)[i] = s[i + Len(s) + 1 - Len(Push(s, e, cap))]
<1>. DEFINE t == IF Len(s) >= cap THEN Tail(s) ELSE s
<1>1. Len(s) \in Nat
  BY LenProperties
<1>2. /\ t \in Seq(S) /\ Len(t) = IF Len(s) = cap THEN cap - 1 ELSE Len(s)
      /\ \A i \in 1 .. Len(t) : t[i] = s[i + Len(s) - Len(t)]
  <2>1. CASE Len(s) = cap
    <3>1. s # <<>>
      BY <1>1, <2>1, EmptySeq
    <3>2. t = Tail(s)
      BY <1>1, <2>1
    <3>3. /\ Tail(s) \in Seq(S) /\ Len(Tail(s)) = Len(s) - 1
          /\ \A i \in 1 .. Len(s) - 1 : Tail(s)[i] = s[i + 1]
      BY <3>1, HeadTailProperties
    <3>. QED BY <1>1, <2>1, <3>2, <3>3
  <2>2. CASE Len(s) # cap
    <3>1. t = s
      BY <1>1, <2>2
    <3>2. \A i \in 1 .. Len(s) : i + Len(s) - Len(s) = i
      BY <1>1
    <3>. QED BY <1>1, <2>2, <3>1, <3>2
  <2>. QED BY <2>1, <2>2
<1>. DEFINE p == Push(s, e, cap)
<1>3. p = Append(t, e)
  BY DEF Push
<1>. HIDE DEF t, p
<1>4. /\ Append(t, e) \in Seq(S) /\ Append(t, e) # <<>>
      /\ Len(Append(t, e)) = Len(t) + 1
      /\ \A i \in 1 .. Len(t) : Append(t, e)[i] = t[i]
      /\ Append(t, e)[Len(t) + 1] = e
  BY <1>2, AppendProperties
<1>5. /\ p \in Seq(S) /\ p # <<>> /\ Len(p) = Len(t) + 1 /\ p[Len(p)] = e
      /\ Len(p) = IF Len(s) = cap THEN cap ELSE Len(s) + 1
  BY <1>1, <1>2, <1>3, <1>4
<1>6. ASSUME NEW i \in 1 .. Len(p) - 1
      PROVE  p[i] = s[i + Len(s) + 1 - Len(p)]
  <2>1. i \in 1 .. Len(t) /\ Len(t) \in Nat
    BY <1>1, <1>2, <1>5
  <2>2. p[i] = t[i] /\ t[i] = s[i + Len(s) - Len(t)]
    BY <1>2, <1>3, <1>4, <2>1
  <2>3. i + Len(s) - Len(t) = i + Len(s) + 1 - Len(p)
    BY <1>1, <1>5, <2>1
  <2>. QED BY <2>2, <2>3
<1>. QED BY <1>5, <1>6 DEF p

LEMMA PushTells ==
  ASSUME NEW S, NEW s \in Seq(S), NEW e \in S, NEW cap \in Nat \ {0}, Len(s) <= cap, NEW o, NEW v
  PROVE  /\ Of(e, o) => Tells(Push(s, e, cap), o)
         /\ Of(e, o) /\ e.stage = v => LastIs(Push(s, e, cap), o, v)
         /\ ~Of(e, o) /\ LastIs(s, o, v) => LastIs(Push(s, e, cap), o, v)
         /\ Tells(s, o) /\ Len(s) # cap => Tells(Push(s, e, cap), o)
<1>1. Len(s) \in Nat
  BY LenProperties
<1>2. CASE Len(s) = cap
  <2>1. s # <<>>
    BY <1>1, <1>2, EmptySeq
  <2>2. Push(s, e, cap) = Append(Tail(s), e)
    BY <1>1, <1>2 DEF Push
  <2>3. Tail(s) \in Seq(S)
    BY <2>1, HeadTailProperties
  <2>4. LastIs(s, o, v) => LastIs(Tail(s), o, v)
    BY <2>1, OfTail
  <2>5. /\ Tells(Append(Tail(s), e), o) <=> Tells(Tail(s), o) \/ Of(e, o)
        /\ Of(e, o) /\ e.stage = v => LastIs(Append(Tail(s), e), o, v)
        /\ ~Of(e, o) /\ LastIs(Tail(s), o, v) => LastIs(Append(Tail(s), e), o, v)
    BY <2>3, OfAppend
  <2>. QED BY <1>2, <2>2, <2>4, <2>5, Zenon
<1>3. CASE Len(s) # cap
  <2>1. Push(s, e, cap) = Append(s, e)
    BY <1>1, <1>3 DEF Push
  <2>2. /\ Tells(Append(s, e), o) <=> Tells(s, o) \/ Of(e, o)
        /\ Of(e, o) /\ e.stage = v => LastIs(Append(s, e), o, v)
        /\ ~Of(e, o) /\ LastIs(s, o, v) => LastIs(Append(s, e), o, v)
    BY OfAppend
  <2>. QED BY <2>1, <2>2, Zenon
<1>. QED BY <1>2, <1>3

\* The end of a sequence tells the last there is.
LEMMA OfSuffix ==
  ASSUME NEW S, NEW s \in Seq(S), NEW m \in 1 .. Len(s) + 1, NEW o, NEW v, LastIs(s, o, v)
  PROVE  LastIs(SubSeq(s, m, Len(s)), o, v)
<1>. DEFINE t == SubSeq(s, m, Len(s))
<1>1. Len(s) \in Nat /\ \A i \in 1 .. Len(s) : s[i] \in S
  BY LenProperties, ElementOfSeq
<1>2. Len(t) = Len(s) - m + 1 /\ \A i \in 1 .. Len(t) : t[i] = s[m + i - 1]
  BY <1>1, SubSeqProperties
<1>. HIDE DEF t
<1>3. SUFFICES ASSUME NEW i \in 1 .. Len(t), Of(t[i], o)
               PROVE  t[i].stage = v \/ \E j \in i + 1 .. Len(t) : Of(t[j], o)
  BY DEF LastIs, t
<1>. DEFINE n == m + i - 1
<1>4. n \in 1 .. Len(s) /\ t[i] = s[n]
  BY <1>1, <1>2
<1>5. s[n].stage = v \/ \E k \in n + 1 .. Len(s) : Of(s[k], o)
  BY <1>3, <1>4 DEF LastIs
<1>6. ASSUME NEW k \in n + 1 .. Len(s), Of(s[k], o)
      PROVE  \E j \in i + 1 .. Len(t) : Of(t[j], o)
  <2>. DEFINE j == k - m + 1
  <2>1. j \in i + 1 .. Len(t) /\ j \in 1 .. Len(t) /\ m + j - 1 = k
    BY <1>1, <1>2
  <2>2. t[j] = s[k]
    BY <1>2, <2>1
  <2>. QED BY <1>6, <2>1, <2>2
<1>. QED BY <1>4, <1>5, <1>6

LEMMA EndsFacts ==
  ASSUME NEW s \in Seq(Event), NEW n \in Nat, EndsBefore(s, n)
  PROVE  /\ s # <<>> => EndsBefore(Tail(s), n)
         /\ \A e \in Event, cap \in Nat \ {0} :
              e.seq = n /\ Len(s) <= cap => EndsBefore(Push(s, e, cap), n + 1)
         /\ \A m \in 1 .. Len(s) + 1 : EndsBefore(SubSeq(s, m, Len(s)), n)
<1>0. Len(s) \in Nat /\ \A i \in 1 .. Len(s) : s[i] \in Event
  BY LenProperties, ElementOfSeq
<1>1. Len(s) \in Nat /\ \A i \in 1 .. Len(s) : s[i].seq \in Nat
  BY <1>0 DEF Event
<1>2. \A i \in 1 .. Len(s) : s[i].seq + Len(s) + 1 = n + i
  BY DEF EndsBefore
<1>3. ASSUME s # <<>> PROVE EndsBefore(Tail(s), n)
  <2>1. /\ Len(Tail(s)) = Len(s) - 1
        /\ \A i \in 1 .. Len(s) - 1 : Tail(s)[i] = s[i + 1]
    BY <1>3, HeadTailProperties
  <2>2. SUFFICES ASSUME NEW i \in 1 .. Len(s) - 1 PROVE Tail(s)[i].seq + Len(s) = n + i
    BY <1>1, <2>1 DEF EndsBefore
  <2>. DEFINE j == i + 1
              x == s[j].seq
  <2>3. j \in 1 .. Len(s) /\ j = i + 1 /\ Tail(s)[i].seq = x
    BY <1>1, <2>1
  <2>4. x \in Nat /\ x + Len(s) + 1 = n + j
    BY <1>1, <1>2, <2>3
  <2>. HIDE DEF j, x
  <2>5. x + Len(s) = n + i
    BY <1>1, <2>3, <2>4
  <2>. QED BY <2>3, <2>5
<1>4. ASSUME NEW e \in Event, NEW cap \in Nat \ {0}, e.seq = n, Len(s) <= cap
      PROVE  EndsBefore(Push(s, e, cap), n + 1)
  <2>. DEFINE p == Push(s, e, cap)
  <2>1. /\ Len(p) = IF Len(s) = cap THEN cap ELSE Len(s) + 1
        /\ p[Len(p)] = e
        /\ \A i \in 1 .. Len(p) - 1 : p[i] = s[i + Len(s) + 1 - Len(p)]
    BY <1>4, PushFacts
  <2>. HIDE DEF p
  <2>2. Len(p) \in Nat \ {0} /\ Len(p) <= Len(s) + 1
    BY <1>1, <1>4, <2>1
  <2>3. SUFFICES ASSUME NEW i \in 1 .. Len(p) PROVE p[i].seq + Len(p) + 1 = n + 1 + i
    BY DEF EndsBefore, p
  <2>4. CASE i = Len(p)
    <3>1. p[i].seq = n
      BY <1>4, <2>1, <2>4
    <3>. QED BY <2>2, <2>4, <3>1
  <2>5. CASE i # Len(p)
    <3>. DEFINE j == i + Len(s) + 1 - Len(p)
                x == s[j].seq
    <3>1. i \in 1 .. Len(p) - 1 /\ j \in 1 .. Len(s) /\ j = i + Len(s) + 1 - Len(p)
      BY <1>1, <2>2, <2>5
    <3>2. p[i].seq = x
      BY <2>1, <3>1
    <3>3. x \in Nat /\ x + Len(s) + 1 = n + j
      BY <1>1, <1>2, <3>1
    <3>. HIDE DEF j, x
    <3>4. x + Len(p) + 1 = n + 1 + i
      BY <1>1, <2>2, <3>1, <3>3
    <3>. QED BY <3>2, <3>4
  <2>. QED BY <2>4, <2>5
<1>5. ASSUME NEW m \in 1 .. Len(s) + 1 PROVE EndsBefore(SubSeq(s, m, Len(s)), n)
  <2>. DEFINE t == SubSeq(s, m, Len(s))
  <2>1. Len(t) = Len(s) - m + 1 /\ \A i \in 1 .. Len(t) : t[i] = s[m + i - 1]
    BY <1>1, SubSeqProperties
  <2>. HIDE DEF t
  <2>2. SUFFICES ASSUME NEW i \in 1 .. Len(t) PROVE t[i].seq + Len(t) + 1 = n + i
    BY DEF EndsBefore, t
  <2>. DEFINE j == m + i - 1
              x == s[j].seq
  <2>3. j \in 1 .. Len(s) /\ j = m + i - 1 /\ t[i].seq = x
    BY <1>1, <2>1
  <2>4. x \in Nat /\ x + Len(s) + 1 = n + j
    BY <1>1, <1>2, <2>3
  <2>. HIDE DEF j, x
  <2>5. x + Len(t) + 1 = n + i
    BY <1>1, <2>1, <2>3, <2>4
  <2>. QED BY <2>3, <2>5
<1>. QED BY <1>3, <1>4, <1>5

\* The replay is an end of the ring; it starts right after the client's last
\* event, or the ring has lost that one and the replay is empty.
LEMMA NewerFacts ==
  ASSUME hub.ring \in Seq(Event), hub.next \in Nat, EndsBefore(hub.ring, hub.next),
         hub.next > 1 => hub.ring # <<>>, NEW last \in Nat
  PROVE  \E m \in 1 .. Len(hub.ring) + 1 :
           /\ Newer(last) = SubSeq(hub.ring, m, Len(hub.ring))
           /\ Evicted(last) => m = Len(hub.ring) + 1
           /\ last # NoSeq /\ ~Evicted(last) =>
                /\ m <= Len(hub.ring) => hub.ring[m].seq <= last + 1
                /\ m = Len(hub.ring) + 1 => hub.next <= last + 1
<1>. DEFINE ring == hub.ring
            L == Len(hub.ring)
            C == {i \in DOMAIN ring : ring[i].seq > last}
            n == IF last = NoSeq \/ Evicted(last) THEN 0 ELSE Cardinality(C)
<1>0. L \in Nat /\ DOMAIN ring = 1 .. L /\ \A i \in 1 .. L : ring[i] \in Event
  BY LenProperties, ElementOfSeq
<1>1. L \in Nat /\ DOMAIN ring = 1 .. L /\ \A i \in 1 .. L : ring[i].seq \in Nat
  BY <1>0 DEF Event
<1>2. IsFiniteSet(1 .. L) /\ Cardinality(1 .. L) = L
  BY <1>1, FS_Interval
<1>3. C \in SUBSET (1 .. L)
  BY <1>1
<1>4. IsFiniteSet(C) /\ Cardinality(C) <= L /\ Cardinality(C) \in Nat
  BY <1>2, <1>3, FS_Subset, FS_CardinalityType
<1>5. n \in 0 .. L /\ Newer(last) = SubSeq(ring, L - n + 1, L)
  <2>1. n \in 0 .. L
    BY <1>1, <1>4
  <2>2. Newer(last) = SubSeq(ring, L - n + 1, L)
    BY DEF Newer
  <2>. QED BY <2>1, <2>2
<1>. DEFINE m == L - n + 1
<1>6. m \in 1 .. L + 1 /\ (Evicted(last) => m = L + 1)
  <2>1. Evicted(last) => n = 0
    OBVIOUS
  <2>. HIDE DEF n
  <2>. QED BY <1>1, <1>5, <2>1
<1>7. ASSUME last # NoSeq, ~Evicted(last)
      PROVE  (m <= L => ring[m].seq <= last + 1) /\ (m = L + 1 => hub.next <= last + 1)
  <2>1. n = Cardinality(C)
    BY <1>7
  <2>2. CASE ring = <<>>
    <3>1. hub.next <= 1 /\ last > 0
      BY <1>7, <2>2 DEF NoSeq
    <3>2. L = 0
      BY <2>2
    <3>. HIDE DEF L, n, C
    <3>. QED BY <1>6, <3>1, <3>2
  <2>3. CASE ring # <<>>
    <3>1. L \in Nat \ {0}
      BY <2>3, EmptySeq
    <3>2. ring[1].seq <= last + 1
      BY <1>1, <1>7, <2>3, <3>1 DEF Evicted
    <3>3. \A i \in 1 .. L : ring[i].seq + L + 1 = hub.next + i
      BY DEF EndsBefore
    <3>4. ASSUME NEW i \in 1 .. L PROVE ring[i].seq = hub.next + i - L - 1
      <4>. DEFINE x == ring[i].seq
                  y == hub.next
      <4>1. x \in Nat /\ y \in Nat /\ L \in Nat /\ i \in Nat /\ x + L + 1 = y + i
        BY <1>1, <3>3
      <4>. HIDE DEF L, x, y
      <4>2. x = y + i - L - 1
        BY <4>1
      <4>. QED BY <4>2 DEF x, y
    <3>. DEFINE k == last + 1 + L - hub.next
    <3>5. k \in Nat /\ \A i \in 1 .. L : ring[i].seq > last <=> i > k
      <4>1. ring[1].seq = hub.next + 1 - L - 1
        BY <3>1, <3>4
      <4>. HIDE DEF ring, L
      <4>2. k \in Nat
        BY <1>1, <3>2, <4>1
      <4>3. ASSUME NEW i \in 1 .. L PROVE ring[i].seq > last <=> i > k
        <5>. DEFINE x == ring[i].seq
        <5>1. x \in Nat /\ x = hub.next + i - L - 1
          BY <1>1, <3>4
        <5>. HIDE DEF x
        <5>2. x > last <=> i > k
          BY <1>1, <5>1
        <5>. QED BY <5>2 DEF x
      <4>. QED BY <4>2, <4>3
    <3>6. C = k + 1 .. L
      BY <1>1, <3>5
    <3>. HIDE DEF C, n
    <3>7. n = IF k + 1 > L THEN 0 ELSE L - k
      <4>1. k + 1 \in Int /\ L \in Int
        BY <1>1, <3>5
      <4>2. Cardinality(k + 1 .. L) = IF k + 1 > L THEN 0 ELSE L - (k + 1) + 1
        BY <4>1, FS_Interval
      <4>. HIDE DEF L
      <4>. QED BY <1>1, <2>1, <3>5, <3>6, <4>2
    <3>8. CASE k + 1 > L
      BY <1>1, <3>5, <3>7, <3>8
    <3>9. CASE k + 1 <= L
      <4>1. m = k + 1 /\ m \in 1 .. L
        BY <1>1, <3>5, <3>7, <3>9
      <4>2. ring[m].seq = last + 1
        BY <1>1, <3>4, <4>1
      <4>. QED BY <1>1, <4>1, <4>2
    <3>. QED BY <1>1, <3>5, <3>8, <3>9
  <2>. QED BY <2>2, <2>3
<1>. HIDE DEF n, C
<1>. QED BY <1>5, <1>6, <1>7

-----------------------------------------------------------------------------
(* Frames *)

EventFrames(s) == [i \in DOMAIN s |-> EventFrame(s[i])]

\* Events keep, as frames, what they tell.
LEMMA EventFramesFacts ==
  ASSUME NEW s \in Seq(Event)
  PROVE  /\ EventFrames(s) \in Seq(Frame) /\ Len(EventFrames(s)) = Len(s)
         /\ \A i \in 1 .. Len(s) : EventFrames(s)[i] = EventFrame(s[i])
         /\ \A o : Tells(EventFrames(s), o) <=> Tells(s, o)
         /\ \A o, v : LastIs(s, o, v) => LastIs(EventFrames(s), o, v)
<1>. DEFINE t == EventFrames(s)
<1>1. Len(s) \in Nat /\ DOMAIN s = 1 .. Len(s) /\ \A i \in 1 .. Len(s) : s[i] \in Event
  BY LenProperties, ElementOfSeq
<1>2. \A i \in 1 .. Len(s) : EventFrame(s[i]) \in Frame
  BY <1>1 DEF EventFrame, Event, Frame
<1>3. t = [i \in 1 .. Len(s) |-> EventFrame(s[i])]
  BY <1>1 DEF EventFrames
<1>4. t \in Seq(Frame) /\ Len(t) = Len(s) /\ \A i \in 1 .. Len(s) : t[i] = EventFrame(s[i])
  <2>. DEFINE e == [i \in 1 .. Len(s) |-> EventFrame(s[i])]
  <2>1. e \in [1 .. Len(s) -> Frame]
    BY <1>2
  <2>2. \A i \in 1 .. Len(s) : e[i] = EventFrame(s[i])
    OBVIOUS
  <2>. HIDE DEF e
  <2>3. e \in Seq(Frame) /\ Len(e) = Len(s)
    BY <1>1, <2>1
  <2>. QED BY <1>3, <2>2, <2>3 DEF e
<1>5. \A i \in 1 .. Len(s) : t[i].stage = s[i].stage /\ \A o : Of(t[i], o) <=> Of(s[i], o)
  <2>. HIDE DEF t
  <2>1. SUFFICES ASSUME NEW i \in 1 .. Len(s)
                 PROVE  t[i].stage = s[i].stage /\ \A o : Of(t[i], o) <=> Of(s[i], o)
    OBVIOUS
  <2>. DEFINE e == s[i]
  <2>2. t[i] = EventFrame(e)
    BY <1>4
  <2>. HIDE DEF e
  <2>3. t[i].op = e.op /\ t[i].stage = e.stage
    BY <2>2 DEF EventFrame
  <2>4. t[i].op = s[i].op /\ t[i].stage = s[i].stage
    BY <2>3 DEF e
  <2>. QED BY <2>4 DEF Of
<1>. HIDE DEF t
<1>6. \A o : Tells(t, o) <=> Tells(s, o)
  BY <1>4, <1>5 DEF Tells
<1>7. ASSUME NEW o, NEW v, LastIs(s, o, v) PROVE LastIs(t, o, v)
  <2>1. SUFFICES ASSUME NEW i \in 1 .. Len(s), Of(t[i], o)
                 PROVE  t[i].stage = v \/ \E j \in i + 1 .. Len(s) : Of(t[j], o)
    BY <1>4 DEF LastIs
  <2>2. s[i].stage = v \/ \E j \in i + 1 .. Len(s) : Of(s[j], o)
    BY <1>5, <1>7, <2>1 DEF LastIs
  <2>3. \A j \in i + 1 .. Len(s) : j \in 1 .. Len(s)
    BY <1>1
  <2>. QED BY <1>5, <2>2, <2>3
<1>. QED BY <1>4, <1>6, <1>7 DEF t

\* Rows have ranks, and every rank up to their number is some row's.
LEMMA NthFacts ==
  ASSUME NEW S \in SUBSET Op, MaxOps \in Nat
  PROVE  /\ Cardinality(S) \in Nat
         /\ \A i \in 1 .. Cardinality(S) : Nth(S, i) \in S
         /\ \A o \in S : \E i \in 1 .. Cardinality(S) : Nth(S, i) = o
<1>. DEFINE upTo(o) == {p \in S : p <= o}
            rank == [o \in S |-> Cardinality(upTo(o))]
            n == Cardinality(S)
<1>1. IsFiniteSet(S) /\ n \in Nat /\ S \subseteq Nat
  <2>1. IsFiniteSet(1 .. MaxOps)
    BY FS_Interval
  <2>2. S \in SUBSET (1 .. MaxOps) /\ S \subseteq Nat
    BY DEF Op
  <2>3. IsFiniteSet(S)
    BY <2>1, <2>2, FS_Subset
  <2>. QED BY <2>2, <2>3, FS_CardinalityType
<1>2. ASSUME NEW o \in S
      PROVE  IsFiniteSet(upTo(o)) /\ Cardinality(upTo(o)) \in 1 .. n
  <2>1. upTo(o) \in SUBSET S
    OBVIOUS
  <2>2. o \in upTo(o)
    BY <1>1
  <2>. HIDE DEF upTo
  <2>3. /\ IsFiniteSet(upTo(o)) /\ Cardinality(upTo(o)) <= n
        /\ Cardinality(upTo(o)) \in Nat /\ Cardinality(upTo(o)) # 0
    BY <1>1, <2>1, <2>2, FS_Subset, FS_CardinalityType, FS_EmptySet
  <2>. QED BY <1>1, <2>3
<1>3. ASSUME NEW o \in S, NEW p \in S, o < p
      PROVE  Cardinality(upTo(o)) # Cardinality(upTo(p))
  <2>1. upTo(o) \in SUBSET upTo(p)
    <3>1. \A q \in S : q <= o => q <= p
      BY <1>1, <1>3
    <3>. QED BY <3>1
  <2>2. p \in upTo(p) /\ p \notin upTo(o)
    BY <1>1, <1>3
  <2>. HIDE DEF upTo
  <2>. QED BY <1>2, <2>1, <2>2, FS_Subset
<1>. HIDE DEF upTo
<1>4. rank \in [S -> 1 .. n]
  BY <1>2
<1>5. \A o, p \in S : rank[o] = rank[p] => o = p
  <2>. SUFFICES ASSUME NEW o \in S, NEW p \in S, rank[o] = rank[p] PROVE o = p
    OBVIOUS
  <2>1. Cardinality(upTo(o)) = Cardinality(upTo(p))
    OBVIOUS
  <2>2. o \in Nat /\ p \in Nat
    BY <1>1
  <2>3. ~(o < p) /\ ~(p < o)
    BY <1>3, <2>1
  <2>. QED BY <2>2, <2>3
<1>6. \A o \in S : Cardinality(upTo(o)) = rank[o]
  OBVIOUS
<1>. HIDE DEF rank
<1>7. rank \in Injection(S, 1 .. n)
  BY <1>4, <1>5 DEF Injection, IsInjective
<1>8. IsFiniteSet(1 .. n) /\ Cardinality(1 .. n) = n
  BY <1>1, FS_Interval
<1>9. rank \in Surjection(S, 1 .. n)
  BY <1>7, <1>8, FS_Injection
<1>10. \A i \in 1 .. n : \E o \in S : rank[o] = i
  BY <1>9 DEF Surjection
<1>11. ASSUME NEW i \in 1 .. n
       PROVE  Nth(S, i) \in S /\ rank[Nth(S, i)] = i
  <2>1. \E o \in S : Cardinality({p \in S : p <= o}) = i
    BY <1>6, <1>10 DEF upTo
  <2>2. Nth(S, i) \in S /\ Cardinality({p \in S : p <= Nth(S, i)}) = i
    BY <2>1 DEF Nth
  <2>. QED BY <1>6, <2>2 DEF upTo
<1>12. ASSUME NEW o \in S
       PROVE  \E i \in 1 .. n : Nth(S, i) = o
  <2>1. rank[o] \in 1 .. n
    BY <1>4
  <2>2. Nth(S, rank[o]) \in S /\ rank[Nth(S, rank[o])] = rank[o]
    BY <1>11, <2>1
  <2>. QED BY <1>5, <2>1, <2>2
<1>. QED BY <1>1, <1>11, <1>12

\* The snapshot of S tells of every row of S, and as it is.
LEMMA RowFramesFacts ==
  ASSUME NEW S \in SUBSET Op, MaxOps \in Nat, row \in [Op -> Stage], \A o \in S : row[o] # Absent
  PROVE  /\ RowFrames(S) \in Seq(Frame)
         /\ \A i \in 1 .. Len(RowFrames(S)) :
              /\ RowFrames(S)[i].kind = "snapshot" /\ RowFrames(S)[i].stage # Absent
              /\ RowFrames(S)[i].op \in S /\ RowFrames(S)[i].stage = row[RowFrames(S)[i].op]
         /\ \A o \in S : Tells(RowFrames(S), o)
         /\ \A o : LastIs(RowFrames(S), o, row[o])
<1>. DEFINE n == Cardinality(S)
            t == RowFrames(S)
<1>1. /\ n \in Nat
      /\ \A i \in 1 .. n : Nth(S, i) \in S
      /\ \A o \in S : \E i \in 1 .. n : Nth(S, i) = o
  BY NthFacts
<1>2. t = [i \in 1 .. n |-> RowFrame(Nth(S, i))]
  BY DEF RowFrames
<1>. HIDE DEF n, t
<1>3. \A i \in 1 .. n : RowFrame(Nth(S, i)) \in Frame
  BY <1>1 DEF RowFrame, Frame, NoSeq
<1>4. t \in [1 .. n -> Frame] /\ \A i \in 1 .. n : t[i] = RowFrame(Nth(S, i))
  BY <1>2, <1>3
<1>5. t \in Seq(Frame) /\ Len(t) = n
  BY <1>1, <1>4
<1>6. \A i \in 1 .. n : /\ t[i].kind = "snapshot" /\ t[i].op = Nth(S, i) /\ t[i].op \in S
                        /\ t[i].stage = row[t[i].op] /\ t[i].stage # Absent
  BY <1>1, <1>4 DEF RowFrame
<1>7. \A o \in S : Tells(t, o)
  BY <1>1, <1>5, <1>6 DEF Tells, Of
<1>8. \A o : LastIs(t, o, row[o])
  BY <1>5, <1>6 DEF LastIs, Of
<1>. QED BY <1>5, <1>6, <1>7, <1>8 DEF t

\* A row among the newest of more is among the newest.
LEMMA NewestOfMore ==
  ASSUME MaxOps \in Nat, NEW T \in SUBSET Op, NEW S \in SUBSET T, NEW n \in Nat, NEW o \in S,
         o \in Newest(T, n)
  PROVE  o \in Newest(S, n)
<1>. DEFINE after(U) == {p \in U : p > o}
<1>1. IsFiniteSet(T)
  <2>1. IsFiniteSet(1 .. MaxOps)
    BY FS_Interval
  <2>2. T \in SUBSET (1 .. MaxOps)
    BY DEF Op
  <2>. QED BY <2>1, <2>2, FS_Subset
<1>2. IsFiniteSet(after(T))
  BY <1>1, FS_Subset
<1>3. after(S) \in SUBSET after(T)
  OBVIOUS
<1>4. /\ Cardinality(after(S)) \in Nat /\ Cardinality(after(T)) \in Nat
      /\ Cardinality(after(S)) <= Cardinality(after(T))
  <2>. HIDE DEF after
  <2>. QED BY <1>2, <1>3, FS_Subset, FS_CardinalityType
<1>5. Cardinality(after(T)) < n
  BY DEF Newest
<1>6. Cardinality(after(S)) < n
  <2>. HIDE DEF after
  <2>. QED BY <1>4, <1>5
<1>. QED BY <1>6 DEF Newest

-----------------------------------------------------------------------------
(* Types *)

LEMMA Constants ==
  /\ MaxOps \in Nat \ {0} /\ RingCap \in Nat \ {0} /\ ChanCap \in Nat \ {0}
  /\ DoneLimit \in Nat /\ MaxRestarts \in Nat /\ MaxFaults \in Nat
  /\ ListLimit \in Nat /\ PollAfter \in Nat /\ MaxDrops \in Nat
  /\ 1 \in Op /\ Op \subseteq Nat
BY CapacityAssumption, ClientAssumption DEF Op

LEMMA StageFacts ==
  /\ Absent \in Stage /\ Queued \in Stage /\ Running \in Stage /\ Done \in Stage
  /\ Stage \subseteq Nat /\ Active \subseteq Stage
  /\ \A s \in Stage : /\ s < Done => s + 1 \in Stage \ {Absent}
                      /\ s \notin Active <=> s = Absent \/ s = Done
BY DEF Stage, Absent, Queued, Running, Done, Active

LEMMA FrameFacts ==
  /\ ResyncFrame \in Frame /\ ResyncFrame.kind = "resync" /\ ResyncFrame.stage = Absent
  /\ \A e \in Event : /\ EventFrame(e) \in Frame /\ IsEvent(EventFrame(e))
                      /\ EventFrame(e).seq = e.seq /\ EventFrame(e).op = e.op
                      /\ EventFrame(e).stage = e.stage
<1>1. /\ ResyncFrame \in Frame /\ ResyncFrame.kind = "resync" /\ ResyncFrame.stage = Absent
  BY Constants, StageFacts DEF ResyncFrame, Frame, NoSeq
<1>2. ASSUME NEW e \in Event
      PROVE  /\ EventFrame(e) \in Frame /\ IsEvent(EventFrame(e))
             /\ EventFrame(e).seq = e.seq /\ EventFrame(e).op = e.op
             /\ EventFrame(e).stage = e.stage
  BY DEF EventFrame, Frame, Event, IsEvent
<1>. QED BY <1>1, <1>2

\* The connection, its receiver and the wire.
LinkTypeOK ==
  /\ conn \in Conn
  /\ chan \in [events : Seq(Event), lagged : BOOLEAN] /\ Len(chan.events) <= ChanCap
  /\ wire \in Seq(Frame)

LEMMA HangupFacts ==
  ASSUME Hangup
  PROVE  /\ LinkTypeOK' /\ conn' = NoConn /\ chan' = NoChan /\ wire' = <<>>
         /\ conn'.pc = "none" /\ conn'.backlog = <<>> /\ conn'.active = <<>>
         /\ conn'.lastBacklog = 0 /\ conn'.resync = FALSE
         /\ chan'.events = <<>> /\ chan'.lagged = FALSE
<1>1. conn' = NoConn /\ chan' = NoChan /\ wire' = <<>>
  BY DEF Hangup
<1>2. /\ NoConn.pc = "none" /\ NoConn.backlog = <<>> /\ NoConn.active = <<>>
      /\ NoConn.lastBacklog = 0 /\ NoConn.resync = FALSE
      /\ NoChan.events = <<>> /\ NoChan.lagged = FALSE
  BY DEF NoConn, NoChan, NoSeq
<1>3. NoConn \in Conn
  BY DEF NoConn, Conn, NoSeq
<1>4. NoChan \in [events : Seq(Event), lagged : BOOLEAN] /\ Len(<<>>) <= ChanCap
  BY Constants DEF NoChan
<1>. QED BY <1>1, <1>2, <1>3, <1>4 DEF LinkTypeOK

\* What an event that is published does to the ring and to the receiver.
LEMMA PublishFacts ==
  ASSUME ServerTypeOK, NEW o \in Op, Publish(o)
  PROVE  \E e \in Event :
           /\ e.op = o /\ e.stage = unpublished[o] /\ e.seq = hub.next /\ Of(e, o)
           /\ \A p : p # o => ~Of(e, p)
           /\ hub'.next = hub.next + 1 /\ hub'.ring = Push(hub.ring, e, RingCap)
           /\ ~Open => chan' = chan
           /\ Open => /\ chan'.events = Push(chan.events, e, ChanCap)
                      /\ chan'.lagged = (chan.lagged \/ Len(chan.events) = ChanCap)
           /\ unpublished'[o] = Absent /\ \A p \in Op : p # o => unpublished'[p] = unpublished[p]
           /\ UNCHANGED <<row, conn, wire, restarts, faults>>
           /\ ServerTypeOK'
<1>. DEFINE e == [op |-> o, stage |-> unpublished[o], seq |-> hub.next]
<1>1. e \in Event
  BY DEF ServerTypeOK, Event
<1>2. /\ e.op = o /\ e.stage = unpublished[o] /\ e.seq = hub.next /\ Of(e, o)
      /\ \A p : p # o => ~Of(e, p)
  BY DEF Publish, Of
<1>3. /\ hub' = [next |-> hub.next + 1, ring |-> Push(hub.ring, e, RingCap)]
      /\ chan' = IF conn.pc \in {"none", "closing"} THEN chan
                 ELSE [events |-> Push(chan.events, e, ChanCap),
                       lagged |-> chan.lagged \/ Len(chan.events) = ChanCap]
      /\ unpublished' = [unpublished EXCEPT ![o] = Absent]
      /\ UNCHANGED <<row, conn, wire, restarts, faults>>
  BY DEF Publish
<1>. HIDE DEF e
<1>4. hub'.next = hub.next + 1 /\ hub'.ring = Push(hub.ring, e, RingCap)
  BY <1>3
<1>5. Open <=> conn.pc \notin {"none", "closing"}
  BY DEF ServerTypeOK, Conn, Open
<1>6. /\ ~Open => chan' = chan
      /\ Open => /\ chan' = [events |-> Push(chan.events, e, ChanCap),
                             lagged |-> chan.lagged \/ Len(chan.events) = ChanCap]
                 /\ chan'.events = Push(chan.events, e, ChanCap)
                 /\ chan'.lagged = (chan.lagged \/ Len(chan.events) = ChanCap)
  BY <1>3, <1>5
<1>7. /\ unpublished' \in [Op -> Stage] /\ unpublished'[o] = Absent
      /\ \A p \in Op : p # o => unpublished'[p] = unpublished[p]
  BY <1>3, StageFacts DEF ServerTypeOK
<1>8. /\ Push(hub.ring, e, RingCap) \in Seq(Event)
      /\ Len(Push(hub.ring, e, RingCap)) <= RingCap
  <2>1. /\ hub.ring \in Seq(Event) /\ Len(hub.ring) <= RingCap /\ Len(hub.ring) \in Nat
    BY LenProperties DEF ServerTypeOK
  <2>2. /\ Push(hub.ring, e, RingCap) \in Seq(Event)
        /\ Len(Push(hub.ring, e, RingCap)) = IF Len(hub.ring) = RingCap THEN RingCap ELSE Len(hub.ring) + 1
    BY <1>1, <2>1, Constants, PushFacts
  <2>. QED BY <2>1, <2>2, Constants
<1>9. /\ Push(chan.events, e, ChanCap) \in Seq(Event)
      /\ Len(Push(chan.events, e, ChanCap)) <= ChanCap
  <2>1. /\ chan.events \in Seq(Event) /\ Len(chan.events) <= ChanCap /\ Len(chan.events) \in Nat
    BY LenProperties DEF ServerTypeOK
  <2>2. /\ Push(chan.events, e, ChanCap) \in Seq(Event)
        /\ Len(Push(chan.events, e, ChanCap)) = IF Len(chan.events) = ChanCap THEN ChanCap ELSE Len(chan.events) + 1
    BY <1>1, <2>1, Constants, PushFacts
  <2>. QED BY <2>1, <2>2, Constants
<1>10. hub' \in [next : Nat \ {0}, ring : Seq(Event)] /\ Len(hub'.ring) <= RingCap
  BY <1>3, <1>4, <1>8 DEF ServerTypeOK
<1>11. chan' \in [events : Seq(Event), lagged : BOOLEAN] /\ Len(chan'.events) <= ChanCap
  BY <1>6, <1>9 DEF ServerTypeOK
<1>12. ServerTypeOK'
  BY <1>3, <1>7, <1>10, <1>11 DEF ServerTypeOK
<1>. QED BY <1>1, <1>2, <1>3, <1>4, <1>6, <1>7, <1>12

\* What a subscription finds.
LEMMA SubscribeFacts ==
  ASSUME ServerTypeOK, Numbered, NEW last \in Nat, Subscribe(last)
  PROVE  /\ conn.pc = "none" /\ conn'.pc = "subscribed"
         /\ conn'.resync = Evicted(last) /\ conn'.active = <<>>
         /\ conn'.lastBacklog < hub.next /\ EndsBefore(conn'.backlog, conn'.lastBacklog + 1)
         /\ conn'.backlog # <<>> => conn'.lastBacklog + 1 = hub.next
         /\ conn'.resync => conn'.backlog = <<>>
         /\ chan'.events = <<>> /\ chan'.lagged = FALSE
         /\ LinkTypeOK'
         /\ UNCHANGED <<row, unpublished, hub, wire, restarts, faults>>
         /\ \E m \in 1 .. Len(hub.ring) + 1 : conn'.backlog = SubSeq(hub.ring, m, Len(hub.ring))
         /\ last # NoSeq /\ ~conn'.resync =>
              /\ conn'.backlog # <<>> => conn'.backlog[1].seq <= last + 1
              /\ conn'.backlog = <<>> => hub.next <= last + 1
<1>1. /\ hub.ring \in Seq(Event) /\ hub.next \in Nat \ {0} /\ EndsBefore(hub.ring, hub.next)
      /\ hub.next > 1 => hub.ring # <<>>
      /\ Len(hub.ring) \in Nat
  BY LenProperties DEF ServerTypeOK, Numbered
<1>2. PICK m \in 1 .. Len(hub.ring) + 1 :
           /\ Newer(last) = SubSeq(hub.ring, m, Len(hub.ring))
           /\ Evicted(last) => m = Len(hub.ring) + 1
           /\ last # NoSeq /\ ~Evicted(last) =>
                /\ m <= Len(hub.ring) => hub.ring[m].seq <= last + 1
                /\ m = Len(hub.ring) + 1 => hub.next <= last + 1
  BY <1>1, NewerFacts
<1>. DEFINE b == Newer(last)
            lb == IF b = <<>> THEN NoSeq ELSE Last(b).seq
<1>3. /\ conn' = [NoConn EXCEPT !.pc = "subscribed", !.resync = Evicted(last),
                                !.backlog = b, !.lastBacklog = lb]
      /\ chan' = NoChan /\ conn.pc = "none"
      /\ UNCHANGED <<row, unpublished, hub, wire, restarts, faults>>
  BY DEF Subscribe
<1>4. /\ b \in Seq(Event) /\ Len(b) = Len(hub.ring) - m + 1
      /\ \A i \in 1 .. Len(b) : b[i] = hub.ring[m + i - 1]
      /\ EndsBefore(b, hub.next)
  <2>1. \A i \in m .. Len(hub.ring) : hub.ring[i] \in Event
    BY <1>1, ElementOfSeq
  <2>2. EndsBefore(SubSeq(hub.ring, m, Len(hub.ring)), hub.next)
    BY <1>1, EndsFacts
  <2>3. /\ SubSeq(hub.ring, m, Len(hub.ring)) \in Seq(Event)
        /\ Len(SubSeq(hub.ring, m, Len(hub.ring)))
             = IF m <= Len(hub.ring) THEN Len(hub.ring) - m + 1 ELSE 0
        /\ \A i \in 1 .. Len(hub.ring) - m + 1 :
             SubSeq(hub.ring, m, Len(hub.ring))[i] = hub.ring[m + i - 1]
    BY <1>1, <2>1, SubSeqProperties
  <2>4. Len(hub.ring) - m + 1 = IF m <= Len(hub.ring) THEN Len(hub.ring) - m + 1 ELSE 0
    BY <1>1
  <2>. HIDE DEF b
  <2>5. b = SubSeq(hub.ring, m, Len(hub.ring))
    BY <1>2 DEF b
  <2>. QED BY <2>2, <2>3, <2>4, <2>5
<1>. HIDE DEF b
<1>5. b = <<>> <=> m = Len(hub.ring) + 1
  <2>1. b = <<>> <=> Len(b) = 0
    BY <1>4, EmptySeq
  <2>. QED BY <1>1, <1>4, <2>1
<1>6. /\ lb \in Nat /\ lb < hub.next
      /\ b # <<>> => lb + 1 = hub.next
  <2>1. CASE b = <<>>
    BY <1>1, <2>1 DEF NoSeq
  <2>2. CASE b # <<>>
    <3>. DEFINE n == Len(b)
                x == b[n]
    <3>1. n \in 1 .. Len(b) /\ n \in Nat
      BY <1>4, <2>2, EmptySeq
    <3>2. lb = x.seq
      BY <2>2 DEF Last
    <3>3. x \in Event
      BY <1>4, <3>1, ElementOfSeq
    <3>4. x.seq \in Nat
      BY <3>3 DEF Event
    <3>5. x.seq + n + 1 = hub.next + n
      BY <1>4, <3>1 DEF EndsBefore
    <3>. HIDE DEF n, x, lb
    <3>. QED BY <1>1, <2>2, <3>1, <3>2, <3>4, <3>5
  <2>. QED BY <2>1, <2>2
<1>. HIDE DEF lb
<1>7. /\ conn' = [pc |-> "subscribed", resync |-> Evicted(last), backlog |-> b,
                  lastBacklog |-> lb, active |-> <<>>]
  BY <1>3 DEF NoConn
<1>8. Evicted(last) \in BOOLEAN
  BY DEF Evicted
<1>9. /\ conn' \in Conn /\ conn'.pc = "subscribed" /\ conn'.resync = Evicted(last)
      /\ conn'.active = <<>> /\ conn'.backlog = b /\ conn'.lastBacklog = lb
  BY <1>4, <1>6, <1>7, <1>8 DEF Conn
<1>10. /\ chan' \in [events : Seq(Event), lagged : BOOLEAN] /\ Len(chan'.events) <= ChanCap
       /\ chan'.events = <<>> /\ chan'.lagged = FALSE
  <2>1. Len(<<>>) <= ChanCap
    BY Constants
  <2>. QED BY <1>3, <2>1 DEF NoChan
<1>11. LinkTypeOK'
  BY <1>3, <1>9, <1>10 DEF LinkTypeOK, ServerTypeOK
<1>12. EndsBefore(b, lb + 1)
  <2>1. CASE b = <<>>
    BY <2>1 DEF EndsBefore
  <2>2. CASE b # <<>>
    BY <1>4, <1>6, <2>2
  <2>. QED BY <2>1, <2>2
<1>13. ASSUME last # NoSeq, ~Evicted(last)
       PROVE  (b # <<>> => b[1].seq <= last + 1) /\ (b = <<>> => hub.next <= last + 1)
  <2>1. ASSUME b # <<>> PROVE b[1].seq <= last + 1
    <3>1. m <= Len(hub.ring) /\ 1 \in 1 .. Len(b) /\ m + 1 - 1 = m
      BY <1>1, <1>2, <1>4, <1>5, <2>1
    <3>2. b[1] = hub.ring[m]
      BY <1>4, <3>1
    <3>. QED BY <1>2, <1>13, <3>1, <3>2
  <2>. QED BY <1>2, <1>5, <1>13, <2>1
<1>14. Evicted(last) => b = <<>>
  BY <1>2, <1>5
<1>. QED BY <1>2, <1>3, <1>6, <1>9, <1>10, <1>11, <1>12, <1>13, <1>14 DEF b

\* A row moves one stage on, with its event to come.
LEMMA CommitFacts ==
  ASSUME ServerTypeOK, NEW o \in Op, Commit(o)
  PROVE  /\ row' \in [Op -> Stage] /\ row'[o] = row[o] + 1 /\ row[o] < Done
         /\ unpublished'[o] = row'[o] /\ unpublished'[o] # Absent
         /\ \A p \in Op : p # o => row'[p] = row[p] /\ unpublished'[p] = unpublished[p]
         /\ UNCHANGED <<hub, conn, chan, wire, restarts, faults>>
         /\ ServerTypeOK'
<1>1. /\ row' = [row EXCEPT ![o] = @ + 1]
      /\ unpublished' = [unpublished EXCEPT ![o] = row[o] + 1]
      /\ UNCHANGED <<hub, conn, chan, wire, restarts, faults>>
      /\ row[o] < Done /\ row \in [Op -> Stage] /\ unpublished \in [Op -> Stage]
  BY DEF Commit, ServerTypeOK
<1>2. row[o] + 1 \in Stage \ {Absent}
  BY <1>1, StageFacts
<1>3. /\ row' \in [Op -> Stage] /\ unpublished' \in [Op -> Stage]
      /\ row'[o] = row[o] + 1 /\ unpublished'[o] = row[o] + 1
      /\ \A p \in Op : p # o => row'[p] = row[p] /\ unpublished'[p] = unpublished[p]
  BY <1>1, <1>2
<1>4. ServerTypeOK'
  BY <1>1, <1>3 DEF ServerTypeOK
<1>. QED BY <1>1, <1>2, <1>3, <1>4

ActiveRows == {o \in Op : row[o] \in Active}

LEMMA ListActiveFacts ==
  ASSUME ServerTypeOK, ListActive
  PROVE  /\ conn.pc = "subscribed" /\ conn'.pc = "listed"
         /\ conn'.active = RowFrames(ActiveRows)
         /\ conn'.resync = conn.resync /\ conn'.backlog = conn.backlog
         /\ conn'.lastBacklog = conn.lastBacklog
         /\ UNCHANGED <<row, unpublished, hub, chan, wire, restarts, faults>>
         /\ LinkTypeOK'
<1>1. /\ conn' = [conn EXCEPT !.pc = "listed", !.active = RowFrames(ActiveRows)]
      /\ conn \in Conn /\ conn.pc = "subscribed"
      /\ UNCHANGED <<row, unpublished, hub, chan, wire, restarts, faults>>
  BY DEF ListActive, ServerTypeOK, ActiveRows
<1>2. RowFrames(ActiveRows) \in Seq(Frame)
  <2>1. ActiveRows \in SUBSET Op /\ \A o \in ActiveRows : row[o] # Absent
    BY DEF ActiveRows, Active, Absent, Queued, Running
  <2>2. row \in [Op -> Stage]
    BY DEF ServerTypeOK
  <2>. QED BY <2>1, <2>2, Constants, RowFramesFacts
<1>3. conn' \in Conn
  BY <1>1, <1>2 DEF Conn
<1>4. LinkTypeOK'
  BY <1>1, <1>3 DEF LinkTypeOK, ServerTypeOK
<1>5. /\ conn'.pc = "listed" /\ conn'.active = RowFrames(ActiveRows)
      /\ conn'.resync = conn.resync /\ conn'.backlog = conn.backlog
      /\ conn'.lastBacklog = conn.lastBacklog
  BY <1>1 DEF Conn
<1>. QED BY <1>1, <1>4, <1>5

\* What the bridge starts with.
Announced == IF conn.resync THEN <<ResyncFrame>> ELSE <<>>

LEMMA StartBridgeFacts ==
  ASSUME ServerTypeOK, NEW snapshot \in Seq(Frame), StartBridge(snapshot)
  PROVE  /\ conn'.pc = "live" /\ conn'.backlog = <<>> /\ conn'.active = <<>>
         /\ conn'.resync = FALSE /\ conn'.lastBacklog = conn.lastBacklog
         /\ Announced \in Seq(Frame) /\ Len(Announced) = IF conn.resync THEN 1 ELSE 0
         /\ conn.resync => Announced[1] = ResyncFrame
         /\ wire' = (Announced \o snapshot) \o EventFrames(conn.backlog)
         /\ UNCHANGED <<row, unpublished, hub, chan, restarts>>
         /\ LinkTypeOK'
<1>0. /\ conn' = [conn EXCEPT !.pc = "live", !.resync = FALSE, !.active = <<>>, !.backlog = <<>>]
      /\ conn \in Conn
  BY DEF StartBridge, ServerTypeOK
<1>1. /\ wire' = (Announced \o snapshot) \o EventFrames(conn.backlog)
      /\ UNCHANGED <<row, unpublished, hub, chan, restarts>>
  BY DEF StartBridge, Announced, EventFrames
<1>2. Announced \in Seq(Frame) /\ Len(Announced) = IF conn.resync THEN 1 ELSE 0
  BY FrameFacts DEF Announced
<1>3. conn.resync => Announced[1] = ResyncFrame
  BY DEF Announced
<1>4. EventFrames(conn.backlog) \in Seq(Frame)
  BY <1>0, EventFramesFacts DEF Conn
<1>. HIDE DEF Announced
<1>5. wire' \in Seq(Frame)
  BY <1>1, <1>2, <1>4, ConcatProperties
<1>6. conn' \in Conn
  <2>1. <<>> \in Seq(Event) /\ <<>> \in Seq(Frame)
    OBVIOUS
  <2>. QED BY <1>0, <2>1 DEF Conn
<1>7. LinkTypeOK'
  BY <1>1, <1>5, <1>6 DEF LinkTypeOK, ServerTypeOK
<1>8. /\ conn'.pc = "live" /\ conn'.backlog = <<>> /\ conn'.active = <<>>
      /\ conn'.resync = FALSE /\ conn'.lastBacklog = conn.lastBacklog
  BY <1>0 DEF Conn
<1>. QED BY <1>1, <1>2, <1>3, <1>7, <1>8

\* The bridge closes after a lag.
BridgeCloses ==
  /\ conn.pc = "live" /\ chan.lagged
  /\ wire' = Append(wire, ResyncFrame)
  /\ conn' = [conn EXCEPT !.pc = "closing"]
  /\ chan' = NoChan

\* It sends on the next event; the backlog's end is behind it.
BridgeSends(e) ==
  /\ conn.pc = "live" /\ ~chan.lagged
  /\ chan.events # <<>> /\ e = Head(chan.events) /\ e \in Event
  /\ wire' = Append(wire, EventFrame(e))
  /\ chan'.events = Tail(chan.events) /\ chan'.lagged = FALSE
  /\ conn' = conn

LEMMA BridgeFacts ==
  ASSUME ServerTypeOK, Numbered, Bridge
  PROVE  /\ BridgeCloses \/ \E e \in Event : BridgeSends(e)
         /\ BridgeCloses => /\ conn'.pc = "closing" /\ conn'.backlog = conn.backlog
                            /\ conn'.active = conn.active /\ conn'.resync = conn.resync
                            /\ conn'.lastBacklog = conn.lastBacklog
         /\ UNCHANGED <<row, unpublished, hub, restarts, faults>>
         /\ LinkTypeOK'
<1>1. /\ conn \in Conn /\ chan \in [events : Seq(Event), lagged : BOOLEAN] /\ wire \in Seq(Frame)
      /\ Len(chan.events) <= ChanCap /\ conn.pc = "live"
  BY DEF ServerTypeOK, Bridge
<1>2. UNCHANGED <<row, unpublished, hub, restarts, faults>>
  BY DEF Bridge
<1>3. CASE chan.lagged
  <2>1. /\ wire' = Append(wire, ResyncFrame) /\ conn' = [conn EXCEPT !.pc = "closing"]
        /\ chan' = NoChan
    BY <1>3 DEF Bridge
  <2>2. wire' \in Seq(Frame)
    BY <1>1, <2>1, FrameFacts, AppendProperties
  <2>3. conn' \in Conn
    BY <1>1, <2>1 DEF Conn
  <2>4. /\ conn'.pc = "closing" /\ conn'.backlog = conn.backlog
        /\ conn'.active = conn.active /\ conn'.resync = conn.resync
        /\ conn'.lastBacklog = conn.lastBacklog
    BY <1>1, <2>1 DEF Conn
  <2>5. chan' \in [events : Seq(Event), lagged : BOOLEAN] /\ Len(chan'.events) <= ChanCap
    BY <2>1, Constants DEF NoChan
  <2>. QED BY <1>1, <1>2, <1>3, <2>1, <2>2, <2>3, <2>4, <2>5 DEF BridgeCloses, LinkTypeOK
<1>4. CASE ~chan.lagged
  <2>. DEFINE e == Head(chan.events)
  <2>1. /\ chan.events # <<>>
        /\ wire' = IF e.seq <= conn.lastBacklog THEN wire ELSE Append(wire, EventFrame(e))
        /\ chan' = [chan EXCEPT !.events = Tail(@)]
        /\ conn' = conn
    BY <1>4 DEF Bridge
  <2>2. /\ e \in Event /\ Tail(chan.events) \in Seq(Event) /\ e = chan.events[1]
        /\ Len(Tail(chan.events)) = Len(chan.events) - 1 /\ Len(chan.events) \in Nat \ {0}
    BY <1>1, <2>1, HeadTailProperties, EmptySeq
  <2>3. e.seq > conn.lastBacklog
    BY <1>1, <2>2 DEF Numbered, Open
  <2>4. e.seq \in Nat /\ conn.lastBacklog \in Nat
    BY <1>1, <2>2 DEF Event, Conn
  <2>. HIDE DEF e
  <2>5. wire' = Append(wire, EventFrame(e))
    BY <2>1, <2>3, <2>4
  <2>6. /\ chan' \in [events : Seq(Event), lagged : BOOLEAN]
        /\ chan'.events = Tail(chan.events) /\ chan'.lagged = FALSE
    BY <1>1, <1>4, <2>1, <2>2
  <2>7. Len(chan'.events) <= ChanCap
    BY <1>1, <2>2, <2>6, Constants
  <2>8. wire' \in Seq(Frame)
    BY <1>1, <2>2, <2>5, FrameFacts, AppendProperties
  <2>9. LinkTypeOK'
    BY <1>1, <2>1, <2>6, <2>7, <2>8 DEF LinkTypeOK
  <2>10. BridgeSends(e)
    BY <1>1, <1>4, <2>1, <2>2, <2>5, <2>6 DEF BridgeSends, e
  <2>. QED BY <1>2, <1>4, <2>2, <2>9, <2>10 DEF BridgeCloses
<1>. QED BY <1>3, <1>4

LEMMA RebootFacts ==
  ASSUME ServerTypeOK, Reboot
  PROVE  /\ Hangup /\ hub' = NewHub /\ hub'.next = 1 /\ hub'.ring = <<>>
         /\ restarts' = restarts + 1 /\ row' \in [Op -> Stage]
         /\ \A o \in Op : unpublished'[o] = Absent /\ row[o] <= row'[o]
         /\ ServerTypeOK'
<1>1. /\ Hangup /\ hub' = NewHub /\ restarts < MaxRestarts /\ restarts' = restarts + 1 /\ faults' = faults
      /\ row' = [o \in Op |-> IF row[o] = Running THEN Done ELSE row[o]]
      /\ unpublished' = [o \in Op |-> Absent]
      /\ row \in [Op -> Stage] /\ restarts \in 0 .. MaxRestarts
  BY DEF Reboot, ServerTypeOK
<1>2. row' \in [Op -> Stage] /\ unpublished' \in [Op -> Stage]
  BY <1>1, StageFacts
<1>3. \A o \in Op : unpublished'[o] = Absent /\ row[o] <= row'[o]
  <2>1. SUFFICES ASSUME NEW o \in Op PROVE unpublished'[o] = Absent /\ row[o] <= row'[o]
    OBVIOUS
  <2>2. row[o] \in Nat /\ row'[o] = IF row[o] = Running THEN Done ELSE row[o]
    BY <1>1, StageFacts
  <2>3. Running <= Done
    BY DEF Running, Done
  <2>. QED BY <1>1, <2>2, <2>3
<1>4. /\ hub'.next = 1 /\ hub'.ring = <<>>
      /\ hub' \in [next : Nat \ {0}, ring : Seq(Event)] /\ Len(hub'.ring) <= RingCap
  BY <1>1, Constants DEF NewHub
<1>5. restarts' \in 0 .. MaxRestarts
  BY <1>1, Constants
<1>6. ServerTypeOK'
  BY <1>1, <1>2, <1>4, <1>5, HangupFacts DEF ServerTypeOK, LinkTypeOK
<1>. QED BY <1>1, <1>2, <1>3, <1>4, <1>6

\* The hook's part of the types.
ClientTypeOK ==
  /\ view \in [Op -> Stage] /\ lastSeq \in Nat
  /\ failures \in 0 .. PollAfter
  /\ feedStatus \in {"connecting", "streaming", "polling", "reconnecting"}
  /\ polling \in BOOLEAN
  /\ resyncFetch \in Fetch /\ pollFetch \in Fetch
  /\ drops \in 0 .. MaxDrops
  /\ lastBoot \in 0 .. MaxRestarts
  /\ spoiled \subseteq {"overtaken", "blind", "truncated"}

LEMMA FetchFacts ==
  /\ EmptyView \in [Op -> Stage] /\ \A o \in Op : EmptyView[o] = Absent
  /\ NoFetch \in Fetch /\ Asked \in Fetch
  /\ NoFetch.pc = "none" /\ NoFetch.rows = EmptyView
  /\ Asked.pc = "asked" /\ Asked.rows = EmptyView
  /\ \A rows \in [Op -> Stage] : [pc |-> "answered", rows |-> rows] \in Fetch
BY StageFacts DEF EmptyView, NoFetch, Asked, Fetch

LEMMA ListedFacts ==
  ASSUME ServerTypeOK
  PROVE  Listed \in [Op -> Stage] /\ \A o \in Op : Listed[o] <= row[o]
<1>1. row \in [Op -> Stage] /\ \A o \in Op : row[o] \in Nat
  BY StageFacts DEF ServerTypeOK
<1>2. \A o \in Op : Listed[o] \in {Absent, row[o]}
  BY DEF Listed
<1>3. Absent = 0
  BY DEF Absent
<1>4. Listed \in [Op -> Stage]
  BY <1>1, StageFacts DEF Listed
<1>. QED BY <1>1, <1>2, <1>3, <1>4

LEMMA HandleErrorFacts ==
  ASSUME ClientTypeOK, HandleError
  PROVE  /\ UNCHANGED <<view, lastSeq, lastBoot>>
         /\ failures' \in 0 .. PollAfter
         /\ feedStatus' \in {"connecting", "streaming", "polling", "reconnecting"}
         /\ polling' \in BOOLEAN /\ pollFetch' \in Fetch
         /\ pollFetch' \in {pollFetch, Asked}
<1>1. UNCHANGED <<view, lastSeq, lastBoot>>
  BY DEF HandleError
<1>2. failures' \in 0 .. PollAfter
  BY Constants DEF HandleError, ClientTypeOK
<1>3. /\ feedStatus' \in {"connecting", "streaming", "polling", "reconnecting"}
      /\ polling' \in BOOLEAN /\ pollFetch' \in {pollFetch, Asked}
  BY DEF HandleError, ClientTypeOK
<1>4. pollFetch' \in Fetch
  BY <1>3, FetchFacts DEF ClientTypeOK
<1>. QED BY <1>1, <1>2, <1>3, <1>4

\* What a frame does to the hook.
LEMMA DeliverFacts ==
  ASSUME TypeOK, Deliver
  PROVE  \E f \in Frame :
           /\ wire # <<>> /\ f = wire[1] /\ f = Head(wire) /\ wire' = Tail(wire)
           /\ UNCHANGED <<row, unpublished, hub, conn, chan, restarts, faults, drops, spoiled>>
           /\ f.kind # "resync" =>
                /\ view' = [view EXCEPT ![f.op] = f.stage]
                /\ polling' = FALSE /\ pollFetch' = NoFetch /\ resyncFetch' = resyncFetch
           /\ IsEvent(f) =>
                /\ lastSeq' = IF f.seq > lastSeq THEN f.seq ELSE lastSeq
                /\ lastBoot' = IF f.seq > lastSeq THEN restarts ELSE lastBoot
           /\ f.kind = "snapshot" => UNCHANGED <<lastSeq, lastBoot>>
           /\ f.kind = "resync" =>
                /\ view' = EmptyView /\ lastSeq' = NoSeq /\ lastBoot' = lastBoot
                /\ resyncFetch' = Asked /\ UNCHANGED <<polling, pollFetch>>
           /\ TypeOK'
<1>. DEFINE f == Head(wire)
<1>1. /\ wire \in Seq(Frame) /\ wire # <<>> /\ wire' = Tail(wire)
      /\ UNCHANGED <<row, unpublished, hub, conn, chan, restarts, faults, drops, spoiled>>
  BY DEF Deliver, TypeOK, ServerTypeOK
<1>2. f \in Frame /\ f = wire[1] /\ Tail(wire) \in Seq(Frame)
  BY <1>1, HeadTailProperties
<1>3. f.kind \in {"snapshot", "transition", "resync"} /\ f.op \in Op /\ f.stage \in Stage /\ f.seq \in Nat
  BY <1>2 DEF Frame
<1>4. \/ /\ f.kind = "snapshot"
         /\ Show(f) /\ Alive
         /\ UNCHANGED <<lastSeq, resyncFetch, lastBoot>>
      \/ /\ f.kind = "transition"
         /\ Show(f) /\ Alive
         /\ lastSeq' = IF f.seq > lastSeq THEN f.seq ELSE lastSeq
         /\ lastBoot' = IF f.seq > lastSeq THEN restarts ELSE lastBoot
         /\ UNCHANGED resyncFetch
      \/ /\ f.kind = "resync"
         /\ view' = EmptyView /\ lastSeq' = NoSeq
         /\ resyncFetch' = Asked
         /\ UNCHANGED <<failures, feedStatus, polling, pollFetch, lastBoot>>
  BY DEF Deliver
<1>. HIDE DEF f
<1>5. /\ f.kind # "resync" =>
           /\ view' = [view EXCEPT ![f.op] = f.stage]
           /\ failures' = 0 /\ feedStatus' = "streaming"
           /\ polling' = FALSE /\ pollFetch' = NoFetch /\ resyncFetch' = resyncFetch
      /\ IsEvent(f) =>
           /\ lastSeq' = IF f.seq > lastSeq THEN f.seq ELSE lastSeq
           /\ lastBoot' = IF f.seq > lastSeq THEN restarts ELSE lastBoot
      /\ f.kind = "snapshot" => UNCHANGED <<lastSeq, lastBoot>>
      /\ f.kind = "resync" =>
           /\ view' = EmptyView /\ lastSeq' = NoSeq /\ lastBoot' = lastBoot
           /\ resyncFetch' = Asked /\ UNCHANGED <<failures, feedStatus, polling, pollFetch>>
  BY <1>4 DEF Show, Alive, StopPolling, IsEvent
<1>6. ServerTypeOK'
  BY <1>1, <1>2 DEF TypeOK, ServerTypeOK
<1>7. ClientTypeOK
  BY DEF TypeOK, ClientTypeOK
<1>8. ClientTypeOK'
  <2>1. CASE f.kind = "resync"
    BY <1>1, <1>5, <1>7, <2>1, FetchFacts DEF ClientTypeOK, NoSeq
  <2>2. CASE f.kind # "resync"
    <3>1. view' \in [Op -> Stage]
      BY <1>3, <1>5, <1>7, <2>2 DEF ClientTypeOK
    <3>2. lastSeq' \in Nat /\ lastBoot' \in 0 .. MaxRestarts
      BY <1>3, <1>5, <1>7, <2>2 DEF ClientTypeOK, IsEvent, TypeOK, ServerTypeOK
    <3>3. failures' \in 0 .. PollAfter
      BY <1>5, <2>2, Constants
    <3>. QED BY <1>1, <1>5, <1>7, <2>2, <3>1, <3>2, <3>3, FetchFacts DEF ClientTypeOK
  <2>. QED BY <2>1, <2>2
<1>9. TypeOK'
  BY <1>6, <1>8 DEF TypeOK, ClientTypeOK
<1>10. f = Head(wire)
  BY DEF f
<1>. QED BY <1>1, <1>2, <1>5, <1>9, <1>10

-----------------------------------------------------------------------------
(* Types are kept *)

LEMMA TypeStart == Init => TypeOK
<1>. SUFFICES ASSUME Init PROVE TypeOK
  OBVIOUS
<1>1. conn \in Conn /\ chan \in [events : Seq(Event), lagged : BOOLEAN] /\ Len(chan.events) <= ChanCap
  BY Constants DEF Init, ServerInit, NoConn, NoChan, Conn, NoSeq
<1>2. hub \in [next : Nat \ {0}, ring : Seq(Event)] /\ Len(hub.ring) <= RingCap
  BY Constants DEF Init, ServerInit, NewHub
<1>3. ServerTypeOK
  BY <1>1, <1>2, Constants, StageFacts DEF Init, ServerInit, ServerTypeOK
<1>4. view \in [Op -> Stage] /\ resyncFetch \in Fetch /\ pollFetch \in Fetch
  BY FetchFacts DEF Init
<1>5. failures \in 0 .. PollAfter /\ drops \in 0 .. MaxDrops /\ lastBoot \in 0 .. MaxRestarts
  BY Constants DEF Init
<1>6. ClientTypeOK
  BY <1>4, <1>5 DEF Init, ClientTypeOK, NoSeq
<1>. QED BY <1>3, <1>6 DEF TypeOK, ClientTypeOK

\* A step of the server, and what it leaves alone.
LEMMA LinkTypes ==
  ASSUME ServerTypeOK, LinkTypeOK', UNCHANGED <<row, unpublished, hub, restarts>>,
         faults' \in 0 .. MaxFaults
  PROVE  ServerTypeOK'
BY DEF ServerTypeOK, LinkTypeOK

\* The hook of a page whose connection is gone.
LEMMA ErrorTypes ==
  ASSUME ClientTypeOK, HandleError, drops' \in 0 .. MaxDrops,
         resyncFetch' \in Fetch, UNCHANGED spoiled
  PROVE  ClientTypeOK'
BY HandleErrorFacts DEF ClientTypeOK

LEMMA SnapshotFacts ==
  ASSUME ServerTypeOK, conn.pc = "listed"
  PROVE  /\ RowFrames(Newest(DoneRows, DoneLimit)) \in Seq(Frame)
         /\ conn.active \in Seq(Frame)
         /\ conn.active \o RowFrames(Newest(DoneRows, DoneLimit)) \in Seq(Frame)
         /\ Newest(DoneRows, DoneLimit) \in SUBSET DoneRows
         /\ DoneRows \in SUBSET Op
         /\ \A o \in Newest(DoneRows, DoneLimit) : row[o] # Absent
         /\ ListDone => StartBridge(conn.active \o RowFrames(Newest(DoneRows, DoneLimit)))
<1>. DEFINE T == Newest(DoneRows, DoneLimit)
<1>1. T \in SUBSET DoneRows /\ DoneRows \in SUBSET Op /\ \A o \in T : row[o] # Absent
  BY DEF Newest, DoneRows, Done, Absent
<1>2. ListDone => StartBridge(conn.active \o RowFrames(T))
  BY DEF ListDone, DoneRows
<1>. HIDE DEF T
<1>3. RowFrames(T) \in Seq(Frame)
  <2>1. T \in SUBSET Op /\ row \in [Op -> Stage]
    BY <1>1 DEF ServerTypeOK
  <2>. QED BY <1>1, <2>1, Constants, RowFramesFacts
<1>4. conn.active \in Seq(Frame)
  BY DEF ServerTypeOK, Conn
<1>5. conn.active \o RowFrames(T) \in Seq(Frame)
  BY <1>3, <1>4, ConcatProperties
<1>. QED BY <1>1, <1>2, <1>3, <1>4, <1>5 DEF T

LEMMA TypeKeeps ==
  ASSUME TypeOK, Numbered, [Next]_vars
  PROVE  TypeOK'
<1>1. ServerTypeOK /\ ClientTypeOK
  BY DEF TypeOK, ClientTypeOK
<1>2. SUFFICES ServerTypeOK' /\ ClientTypeOK'
  BY DEF TypeOK, ClientTypeOK
<1>3. CASE Submissions
  <2>1. PICK o \in Op : Commit(o)
    BY <1>3 DEF Submissions
  <2>2. ServerTypeOK'
    BY <1>1, <2>1, CommitFacts
  <2>. QED BY <1>1, <1>3, <2>2 DEF Submissions, ClientTypeOK, clientVars
<1>4. CASE ServerMoves
  <2>1. ASSUME NEW o \in Op, Publish(o) PROVE ServerTypeOK'
    BY <1>1, <2>1, PublishFacts
  <2>2. ASSUME ListActive \/ Bridge PROVE ServerTypeOK'
    <3>1. LinkTypeOK' /\ UNCHANGED <<row, unpublished, hub, restarts>> /\ faults' = faults
      BY <1>1, <2>2, BridgeFacts, ListActiveFacts
    <3>2. faults' \in 0 .. MaxFaults
      BY <1>1, <3>1 DEF ServerTypeOK
    <3>. QED BY <1>1, <3>1, <3>2, LinkTypes
  <2>3. ServerTypeOK'
    BY <1>4, <2>1, <2>2 DEF ServerMoves, ServerStep
  <2>. QED BY <1>1, <1>4, <2>3 DEF ServerMoves, ClientTypeOK, clientVars
<1>5. CASE ListError
  <2>1. /\ StartBridge(<<>>) /\ faults' = faults + 1 /\ faults < MaxFaults
        /\ spoiled' = spoiled \union {"blind"} /\ UNCHANGED <<clientVars, drops, lastBoot>>
    BY <1>5 DEF ListError, ListFails
  <2>2. LinkTypeOK' /\ UNCHANGED <<row, unpublished, hub, restarts>>
    <3>1. <<>> \in Seq(Frame)
      OBVIOUS
    <3>. QED BY <1>1, <2>1, <3>1, StartBridgeFacts
  <2>3. faults' \in 0 .. MaxFaults
    BY <1>1, <2>1, Constants DEF ServerTypeOK
  <2>4. ClientTypeOK'
    BY <1>1, <2>1 DEF ClientTypeOK, clientVars
  <2>. QED BY <1>1, <2>2, <2>3, <2>4, LinkTypes
<1>6. CASE Connect
  <2>1. Subscribe(lastSeq) /\ UNCHANGED <<clientVars, drops, lastBoot, spoiled>>
    BY <1>6 DEF Connect
  <2>2. LinkTypeOK' /\ UNCHANGED <<row, unpublished, hub, restarts, faults>>
    BY <1>1, <2>1, SubscribeFacts DEF ClientTypeOK
  <2>3. ServerTypeOK'
    BY <1>1, <2>2, LinkTypes DEF ServerTypeOK
  <2>. QED BY <1>1, <2>1, <2>3 DEF ClientTypeOK, clientVars
<1>7. CASE SendSnapshot
  <2>1. /\ ListDone /\ conn.pc = "listed" /\ UNCHANGED <<clientVars, drops, lastBoot, faults>>
        /\ spoiled' \subseteq {"truncated"}
    BY <1>7 DEF SendSnapshot, ListDone
  <2>2. LinkTypeOK' /\ UNCHANGED <<row, unpublished, hub, restarts>>
    <3>1. /\ StartBridge(conn.active \o RowFrames(Newest(DoneRows, DoneLimit)))
          /\ conn.active \o RowFrames(Newest(DoneRows, DoneLimit)) \in Seq(Frame)
      BY <1>1, <2>1, SnapshotFacts
    <3>. QED BY <1>1, <3>1, StartBridgeFacts
  <2>3. ServerTypeOK'
    BY <1>1, <2>1, <2>2, LinkTypes DEF ServerTypeOK
  <2>. QED BY <1>1, <2>1, <2>3 DEF ClientTypeOK, clientVars
<1>8. CASE Deliver
  <2>1. TypeOK'
    BY <1>8, DeliverFacts
  <2>. QED BY <2>1 DEF TypeOK, ClientTypeOK
<1>9. CASE Drop \/ StreamEnds
  <2>1. /\ Hangup /\ HandleError
        /\ UNCHANGED <<row, unpublished, hub, restarts, faults, resyncFetch, spoiled>>
    BY <1>9 DEF Drop, StreamEnds
  <2>2. drops' \in 0 .. MaxDrops
    BY <1>1, <1>9, Constants DEF Drop, StreamEnds, ClientTypeOK
  <2>3. ServerTypeOK'
    BY <1>1, <2>1, HangupFacts, LinkTypes DEF ServerTypeOK
  <2>. QED BY <1>1, <2>1, <2>2, <2>3, ErrorTypes DEF ClientTypeOK
<1>10. CASE Restart
  <2>1. /\ Reboot /\ UNCHANGED <<drops, spoiled>>
        /\ resyncFetch' \in {resyncFetch, NoFetch}
        /\ \/ UNCHANGED <<view, lastSeq, failures, feedStatus, polling, pollFetch, lastBoot>>
           \/ HandleError
    BY <1>10 DEF Restart
  <2>2. ServerTypeOK'
    BY <1>1, <2>1, RebootFacts
  <2>3. resyncFetch' \in Fetch
    BY <1>1, <2>1, FetchFacts DEF ClientTypeOK
  <2>4. ClientTypeOK'
    BY <1>1, <2>1, <2>3, ErrorTypes DEF ClientTypeOK
  <2>. QED BY <2>2, <2>4
<1>11. ASSUME UNCHANGED serverVars PROVE ServerTypeOK'
  BY <1>1, <1>11 DEF serverVars, ServerTypeOK
<1>12. CASE AnswerResync \/ AnswerPoll \/ PollTick
  <2>1. [pc |-> "answered", rows |-> Listed] \in Fetch
    BY <1>1, ListedFacts, FetchFacts
  <2>2. UNCHANGED serverVars
    BY <1>12 DEF AnswerResync, AnswerPoll, PollTick
  <2>3. ClientTypeOK'
    BY <1>1, <1>12, <2>1, FetchFacts DEF AnswerResync, AnswerPoll, PollTick, ClientTypeOK
  <2>. QED BY <1>11, <2>2, <2>3
<1>13. CASE ResyncFails
  <2>1. drops' \in 0 .. MaxDrops /\ UNCHANGED serverVars
    BY <1>1, <1>13, Constants DEF ResyncFails, ClientTypeOK
  <2>2. ClientTypeOK'
    BY <1>1, <1>13, <2>1, FetchFacts DEF ResyncFails, ClientTypeOK
  <2>. QED BY <1>11, <2>1, <2>2
<1>14. CASE ResyncArrives \/ PollArrives
  <2>1. resyncFetch.rows \in [Op -> Stage] /\ pollFetch.rows \in [Op -> Stage]
    BY <1>1 DEF ClientTypeOK, Fetch
  <2>2. \A rows : Mishaps(rows) \subseteq {"overtaken", "truncated"}
    BY DEF Mishaps
  <2>3. /\ spoiled' \subseteq spoiled \union {"overtaken", "truncated"}
        /\ view' \in {resyncFetch.rows, pollFetch.rows}
        /\ resyncFetch' \in {resyncFetch, NoFetch} /\ pollFetch' \in {pollFetch, NoFetch}
        /\ feedStatus' \in {feedStatus, "streaming"}
        /\ UNCHANGED <<serverVars, lastSeq, failures, polling, drops, lastBoot>>
    BY <1>14, <2>2 DEF ResyncArrives, PollArrives
  <2>4. ClientTypeOK'
    BY <1>1, <2>1, <2>3, FetchFacts DEF ClientTypeOK
  <2>. QED BY <1>11, <2>3, <2>4
<1>15. CASE UNCHANGED vars
  BY <1>1, <1>11, <1>15 DEF vars, clientVars, ClientTypeOK
<1>. QED BY <1>3, <1>4, <1>5, <1>6, <1>7, <1>8, <1>9, <1>10, <1>12, <1>13, <1>14, <1>15 DEF Next

-----------------------------------------------------------------------------
(* The order of events is kept *)

orderVars == <<hub, conn, chan, wire, restarts, lastSeq, lastBoot>>

LEMMA OrderStutters ==
  ASSUME OrderInv, UNCHANGED orderVars
  PROVE  OrderInv'
BY DEF OrderInv, orderVars, Shape, Numbered, WireInOrder, NothingBetween, NothingBefore, Resumes,
       Reaches, Open, Waiting, EndsBefore, IsEvent

LEMMA OrderStart == Init => OrderInv
<1>. SUFFICES ASSUME Init PROVE OrderInv
  OBVIOUS
<1>1. /\ conn.pc = "none" /\ conn.backlog = <<>> /\ conn.active = <<>> /\ conn.resync = FALSE
      /\ conn.lastBacklog = 0 /\ chan = NoChan /\ wire = <<>>
      /\ hub.next = 1 /\ hub.ring = <<>> /\ lastSeq = NoSeq /\ lastBoot = 0 /\ restarts = 0
  BY DEF Init, ServerInit, NoConn, NewHub, NoSeq
<1>. QED BY <1>1 DEF OrderInv, Shape, Numbered, WireInOrder, NothingBetween, Resumes,
                     Open, Waiting, EndsBefore, IsEvent

\* A connection that is gone, on this boot or on the next.
LEMMA HangupOrder ==
  ASSUME TypeOK, OrderInv, Hangup, UNCHANGED <<lastSeq, lastBoot>>,
         \/ UNCHANGED <<hub, restarts>>
         \/ hub'.next = 1 /\ hub'.ring = <<>> /\ restarts' = restarts + 1
  PROVE  OrderInv'
<1>1. /\ conn'.pc = "none" /\ conn'.backlog = <<>> /\ conn'.active = <<>>
      /\ conn'.lastBacklog = 0 /\ conn'.resync = FALSE /\ chan' = NoChan /\ wire' = <<>>
  BY HangupFacts
<1>2. Shape' /\ WireInOrder' /\ NothingBetween' /\ NothingBefore'
  BY <1>1 DEF Shape, WireInOrder, NothingBetween, NothingBefore, Open, Waiting
<1>3. EndsBefore(hub'.ring, hub'.next) /\ (hub'.next > 1 => hub'.ring # <<>>)
  BY DEF OrderInv, Numbered, EndsBefore
<1>4. Numbered'
  BY <1>1, <1>3 DEF Numbered, EndsBefore, Open
<1>5. lastBoot' <= restarts'
  BY DEF OrderInv, TypeOK, ServerTypeOK
<1>. QED BY <1>2, <1>4, <1>5 DEF OrderInv

LEMMA LinkFacts ==
  ASSUME TypeOK
  PROVE  /\ hub.next \in Nat \ {0} /\ hub.ring \in Seq(Event) /\ Len(hub.ring) \in Nat
         /\ Len(hub.ring) <= RingCap
         /\ chan.events \in Seq(Event) /\ Len(chan.events) \in Nat /\ Len(chan.events) <= ChanCap
         /\ conn \in Conn /\ conn.backlog \in Seq(Event) /\ Len(conn.backlog) \in Nat
         /\ conn.lastBacklog \in Nat /\ conn.active \in Seq(Frame) /\ Len(conn.active) \in Nat
         /\ wire \in Seq(Frame) /\ Len(wire) \in Nat
         /\ \A i \in 1 .. Len(wire) :
              /\ wire[i].seq \in Nat /\ wire[i].op \in Op /\ wire[i].stage \in Stage
              /\ wire[i].kind \in {"snapshot", "transition", "resync"}
         /\ \A i \in 1 .. Len(conn.backlog) : conn.backlog[i].seq \in Nat
         /\ lastSeq \in Nat /\ lastBoot \in Nat /\ restarts \in Nat
<1>1. /\ hub.next \in Nat \ {0} /\ hub.ring \in Seq(Event) /\ Len(hub.ring) <= RingCap
      /\ chan.events \in Seq(Event) /\ Len(chan.events) <= ChanCap
      /\ conn \in Conn /\ wire \in Seq(Frame)
      /\ lastSeq \in Nat /\ lastBoot \in Nat /\ restarts \in Nat
  BY DEF TypeOK, ServerTypeOK
<1>2. /\ conn.backlog \in Seq(Event) /\ conn.lastBacklog \in Nat /\ conn.active \in Seq(Frame)
  BY <1>1 DEF Conn
<1>3. \A i \in 1 .. Len(wire) : wire[i] \in Frame
  BY <1>1, ElementOfSeq
<1>4. \A i \in 1 .. Len(conn.backlog) : conn.backlog[i] \in Event
  BY <1>2, ElementOfSeq
<1>5. /\ \A f \in Frame : /\ f.seq \in Nat /\ f.op \in Op /\ f.stage \in Stage
                          /\ f.kind \in {"snapshot", "transition", "resync"}
      /\ \A e \in Event : e.seq \in Nat
  BY DEF Frame, Event
<1>6. Len(hub.ring) \in Nat /\ Len(chan.events) \in Nat
  BY <1>1, LenProperties
<1>7. Len(conn.backlog) \in Nat /\ Len(conn.active) \in Nat /\ Len(wire) \in Nat
  BY <1>1, <1>2, LenProperties
<1>. QED BY <1>1, <1>2, <1>3, <1>4, <1>5, <1>6, <1>7

LEMMA PushNumbers ==
  ASSUME NEW s \in Seq(Event), NEW e \in Event, NEW cap \in Nat \ {0}, Len(s) <= cap
  PROVE  /\ Len(s) # cap => Len(Push(s, e, cap)) = Len(s) + 1
         /\ \A n : (\A i \in 1 .. Len(s) : s[i].seq > n) /\ e.seq > n =>
                \A i \in 1 .. Len(Push(s, e, cap)) : Push(s, e, cap)[i].seq > n
<1>. DEFINE p == Push(s, e, cap)
<1>1. /\ Len(p) = IF Len(s) = cap THEN cap ELSE Len(s) + 1
      /\ p[Len(p)] = e
      /\ \A i \in 1 .. Len(p) - 1 : p[i] = s[i + Len(s) + 1 - Len(p)]
  BY PushFacts
<1>. HIDE DEF p
<1>2. Len(s) \in Nat
  BY LenProperties
<1>3. ASSUME NEW n, \A i \in 1 .. Len(s) : s[i].seq > n, e.seq > n, NEW i \in 1 .. Len(p)
      PROVE  p[i].seq > n
  <2>1. CASE i = Len(p)
    BY <1>1, <1>3, <2>1
  <2>2. CASE i # Len(p)
    <3>. DEFINE j == i + Len(s) + 1 - Len(p)
    <3>1. j \in 1 .. Len(s) /\ i \in 1 .. Len(p) - 1
      BY <1>1, <1>2, <2>2
    <3>2. p[i] = s[j]
      BY <1>1, <3>1
    <3>. QED BY <1>3, <3>1, <3>2
  <2>. QED BY <2>1, <2>2
<1>. QED BY <1>1, <1>3 DEF p

LEMMA PublishOrder ==
  ASSUME TypeOK, OrderInv, NEW o \in Op, Publish(o), UNCHANGED <<lastSeq, lastBoot>>
  PROVE  OrderInv'
<1>1. PICK e \in Event :
           /\ e.seq = hub.next
           /\ hub'.next = hub.next + 1 /\ hub'.ring = Push(hub.ring, e, RingCap)
           /\ ~Open => chan' = chan
           /\ Open => /\ chan'.events = Push(chan.events, e, ChanCap)
                      /\ chan'.lagged = (chan.lagged \/ Len(chan.events) = ChanCap)
           /\ UNCHANGED <<conn, wire, restarts>>
  BY PublishFacts DEF TypeOK
<1>2. /\ hub.next \in Nat /\ hub.ring \in Seq(Event) /\ Len(hub.ring) <= RingCap
      /\ chan.events \in Seq(Event) /\ Len(chan.events) \in Nat /\ Len(chan.events) <= ChanCap
      /\ RingCap \in Nat \ {0} /\ ChanCap \in Nat \ {0}
      /\ conn.lastBacklog \in Nat /\ lastSeq \in Nat
  BY LinkFacts, Constants
<1>3. Shape /\ Numbered /\ WireInOrder /\ NothingBetween
  BY DEF OrderInv
<1>4. Shape'
  BY <1>1, <1>3 DEF Shape, Open, Waiting
<1>5. WireInOrder'
  BY <1>1, <1>3 DEF WireInOrder, IsEvent
<1>6. /\ EndsBefore(Push(hub.ring, e, RingCap), hub.next + 1)
      /\ Push(hub.ring, e, RingCap) # <<>>
  <2>1. EndsBefore(hub.ring, hub.next)
    BY <1>3 DEF Numbered
  <2>2. EndsBefore(Push(hub.ring, e, RingCap), hub.next + 1)
    BY <1>2, <1>1, <2>1, EndsFacts
  <2>3. Push(hub.ring, e, RingCap) # <<>>
    BY <1>2, PushFacts
  <2>. QED BY <2>2, <2>3
<1>. DEFINE s == chan.events
            p == Push(s, e, ChanCap)
<1>7. ASSUME Len(s) # ChanCap PROVE Len(p) = Len(s) + 1
  BY <1>2, <1>7, PushNumbers
<1>8. Open => EndsBefore(p, hub.next + 1)
  <2>. SUFFICES ASSUME Open PROVE EndsBefore(p, hub.next + 1)
    OBVIOUS
  <2>1. EndsBefore(s, hub.next)
    BY <1>3 DEF Numbered
  <2>. QED BY <1>2, <1>1, <2>1, EndsFacts
<1>9. Open => \A i \in 1 .. Len(p) : p[i].seq > conn.lastBacklog
  <2>. SUFFICES ASSUME Open PROVE \A i \in 1 .. Len(p) : p[i].seq > conn.lastBacklog
    OBVIOUS
  <2>1. \A i \in 1 .. Len(s) : s[i].seq > conn.lastBacklog
    BY <1>3 DEF Numbered
  <2>2. e.seq > conn.lastBacklog
    BY <1>2, <1>1, <1>3 DEF Numbered
  <2>. QED BY <1>2, <2>1, <2>2, PushNumbers
<1>. HIDE DEF p
<1>10. Open' <=> Open
  BY <1>1 DEF Open
<1>11. Open => chan'.events = p
  BY <1>1 DEF p
<1>12. Numbered'
  <2>1. Open => hub.next + 1 > conn.lastBacklog
    BY <1>2, <1>3 DEF Numbered
  <2>2. /\ EndsBefore(conn.backlog, conn.lastBacklog + 1)
        /\ conn.resync => conn.backlog = <<>>
    BY <1>3 DEF Numbered
  <2>. QED BY <1>1, <1>6, <1>8, <1>9, <1>10, <1>11, <2>1, <2>2 DEF Numbered, EndsBefore
<1>13. Open /\ ~chan'.lagged =>
         ~chan.lagged /\ Len(chan'.events) = Len(chan.events) + 1 /\ hub'.next = hub.next + 1
  BY <1>1, <1>7, <1>11 DEF p
<1>. DEFINE L == Len(chan.events)
            M == Len(chan'.events)
            next == hub.next
<1>14. /\ L \in Nat /\ next \in Nat /\ conn.lastBacklog \in Nat /\ lastSeq \in Nat
       /\ Open /\ ~chan'.lagged => M = L + 1 /\ hub'.next = next + 1
  BY <1>2, <1>13
<1>. HIDE DEF L, M, next
<1>15. NothingBetween'
  <2>1. ASSUME Waiting, ~chan'.lagged, conn.backlog # <<>>
        PROVE  conn.lastBacklog + Len(chan'.events) + 1 = hub'.next
    <3>1. Open /\ conn.lastBacklog + L + 1 = next
      BY <1>3, <1>13, <2>1 DEF NothingBetween, Open, Waiting, L, next
    <3>2. conn.lastBacklog + M + 1 = hub'.next
      BY <1>14, <2>1, <3>1
    <3>. QED BY <3>2 DEF M
  <2>2. ASSUME conn.pc = "live", ~chan'.lagged, wire # <<>>, IsEvent(wire[Len(wire)])
        PROVE  wire[Len(wire)].seq + Len(chan'.events) + 1 = hub'.next
    <3>1. Open
      BY <2>2 DEF Open
    <3>. DEFINE x == wire[Len(wire)].seq
    <3>2. x + L + 1 = next
      BY <1>3, <1>13, <2>2, <3>1 DEF NothingBetween, L, next
    <3>3. x \in Nat
      BY <2>2, LinkFacts, EmptySeq
    <3>. HIDE DEF x
    <3>4. x + M + 1 = hub'.next
      BY <1>14, <2>2, <3>1, <3>2, <3>3
    <3>. QED BY <3>4 DEF x, M
  <2>. QED BY <1>1, <2>1, <2>2 DEF NothingBetween, Waiting, IsEvent
<1>16. Resumes' => NothingBefore'
  <2>1. SUFFICES ASSUME Resumes PROVE NothingBefore'
    BY <1>1 DEF Resumes
  <2>2. NothingBefore
    BY <2>1 DEF OrderInv
  <2>3. ASSUME Open, ~chan'.lagged, hub.next <= lastSeq + 1 + Len(chan.events)
        PROVE  hub'.next <= lastSeq + 1 + Len(chan'.events)
    <3>1. next <= lastSeq + 1 + L
      BY <2>3 DEF next, L
    <3>2. hub'.next <= lastSeq + 1 + M
      BY <1>14, <2>3, <3>1
    <3>. QED BY <3>2 DEF M
  <2>4. ASSUME Waiting, ~conn.resync, conn.backlog = <<>>, ~chan'.lagged
        PROVE  hub'.next <= lastSeq + 1 + Len(chan'.events)
    BY <1>13, <2>2, <2>3, <2>4 DEF NothingBefore, Open, Waiting
  <2>5. ASSUME conn.pc = "live", ~chan'.lagged, \A i \in 1 .. Len(wire) : wire[i].kind = "snapshot"
        PROVE  hub'.next <= lastSeq + 1 + Len(chan'.events)
    BY <1>13, <2>2, <2>3, <2>5 DEF NothingBefore, Open
  <2>. QED BY <1>1, <2>2, <2>4, <2>5 DEF NothingBefore, Waiting, IsEvent, Reaches
<1>. QED BY <1>1, <1>4, <1>5, <1>12, <1>15, <1>16 DEF OrderInv

LEMMA ConnectOrder ==
  ASSUME TypeOK, OrderInv, Connect
  PROVE  OrderInv'
<1>1. Subscribe(lastSeq) /\ UNCHANGED <<lastSeq, lastBoot>>
  BY DEF Connect, clientVars
<1>2. ServerTypeOK /\ Numbered /\ lastSeq \in Nat /\ Shape
  BY DEF OrderInv, TypeOK
<1>3. /\ conn.pc = "none" /\ conn'.pc = "subscribed" /\ conn'.active = <<>>
      /\ conn'.lastBacklog < hub.next /\ EndsBefore(conn'.backlog, conn'.lastBacklog + 1)
      /\ conn'.backlog # <<>> => conn'.lastBacklog + 1 = hub.next
      /\ conn'.resync => conn'.backlog = <<>>
      /\ chan'.events = <<>> /\ chan'.lagged = FALSE
      /\ UNCHANGED <<hub, wire, restarts>>
      /\ lastSeq # NoSeq /\ ~conn'.resync =>
           /\ conn'.backlog # <<>> => conn'.backlog[1].seq <= lastSeq + 1
           /\ conn'.backlog = <<>> => hub.next <= lastSeq + 1
  BY <1>1, <1>2, SubscribeFacts
<1>4. wire = <<>> /\ wire' = <<>>
  BY <1>2, <1>3 DEF Shape
<1>5. Shape'
  BY <1>3, <1>4 DEF Shape, Open, Waiting
<1>6. Numbered'
  <2>1. EndsBefore(hub.ring, hub.next) /\ (hub.next > 1 => hub.ring # <<>>)
    BY <1>2 DEF Numbered
  <2>. QED BY <1>3, <2>1 DEF Numbered, EndsBefore
<1>7. WireInOrder'
  BY <1>4 DEF WireInOrder
<1>8. NothingBetween'
  <2>1. ASSUME conn'.backlog # <<>> PROVE conn'.lastBacklog + Len(chan'.events) + 1 = hub'.next
    <3>1. Len(chan'.events) = 0 /\ conn'.lastBacklog \in Nat
      BY <1>1, <1>2, <1>3, SubscribeFacts DEF LinkTypeOK, Conn
    <3>. QED BY <1>3, <2>1, <3>1
  <2>. QED BY <1>3, <1>4, <2>1 DEF NothingBetween
<1>9. Resumes' => NothingBefore'
  <2>1. SUFFICES ASSUME lastSeq # NoSeq PROVE NothingBefore'
    BY <1>1 DEF Resumes
  <2>2. Len(chan'.events) = 0 /\ lastSeq + 1 + 0 = lastSeq + 1
    BY <1>2, <1>3
  <2>. QED BY <1>1, <1>3, <1>4, <2>1, <2>2 DEF NothingBefore, Reaches
<1>10. lastBoot' <= restarts'
  BY <1>1, <1>3 DEF OrderInv
<1>. QED BY <1>5, <1>6, <1>7, <1>8, <1>9, <1>10 DEF OrderInv

LEMMA ListActiveOrder ==
  ASSUME TypeOK, OrderInv, ListActive, UNCHANGED <<lastSeq, lastBoot>>
  PROVE  OrderInv'
<1>1. /\ conn.pc = "subscribed" /\ conn'.pc = "listed"
      /\ conn'.active = RowFrames(ActiveRows)
      /\ conn'.resync = conn.resync /\ conn'.backlog = conn.backlog
      /\ conn'.lastBacklog = conn.lastBacklog
      /\ UNCHANGED <<hub, chan, wire, restarts>>
  BY ListActiveFacts DEF TypeOK
<1>2. \A i \in 1 .. Len(conn'.active) : conn'.active[i].kind = "snapshot"
  <2>1. ActiveRows \in SUBSET Op /\ \A o \in ActiveRows : row[o] # Absent
    BY DEF ActiveRows, Active, Absent, Queued, Running
  <2>2. row \in [Op -> Stage]
    BY DEF TypeOK, ServerTypeOK
  <2>. QED BY <1>1, <2>1, <2>2, Constants, RowFramesFacts
<1>3. (Open' <=> Open) /\ (Waiting' <=> Waiting) /\ Waiting /\ conn'.pc # "live" /\ conn.pc # "live"
  BY <1>1 DEF Open, Waiting
<1>4. Shape'
  <2>1. wire = <<>>
    BY <1>1 DEF OrderInv, Shape
  <2>. QED BY <1>1, <1>2, <1>3, <2>1 DEF OrderInv, Shape
<1>5. Numbered' /\ WireInOrder' /\ NothingBetween'
  BY <1>1, <1>3 DEF OrderInv, Numbered, WireInOrder, NothingBetween, EndsBefore, IsEvent
<1>6. Resumes' => NothingBefore'
  BY <1>1, <1>3 DEF OrderInv, Resumes, NothingBefore, Reaches, IsEvent
<1>. QED BY <1>1, <1>4, <1>5, <1>6 DEF OrderInv

\* What the client is sent first: a resync, the snapshot and the backlog.
LEMMA FirstFrames ==
  ASSUME TypeOK, NEW snapshot \in Seq(Frame), StartBridge(snapshot)
  PROVE  LET r == Len(Announced)
             n == Len(snapshot)
             b == Len(conn.backlog)
         IN
           /\ r = (IF conn.resync THEN 1 ELSE 0) /\ n \in Nat /\ b \in Nat
           /\ Len(wire') = r + n + b
           /\ \A i \in 1 .. r : wire'[i] = ResyncFrame
           /\ \A i \in r + 1 .. r + n : wire'[i] = snapshot[i - r]
           /\ \A i \in r + n + 1 .. r + n + b :
                /\ conn.backlog[i - r - n] \in Event
                /\ wire'[i] = EventFrame(conn.backlog[i - r - n])
<1>. DEFINE r == Len(Announced)
            n == Len(snapshot)
            b == Len(conn.backlog)
            m == EventFrames(conn.backlog)
            head == Announced \o snapshot
<1>1. /\ Announced \in Seq(Frame) /\ r = IF conn.resync THEN 1 ELSE 0
      /\ conn.resync => Announced[1] = ResyncFrame
      /\ wire' = head \o m
  BY StartBridgeFacts DEF TypeOK
<1>2. /\ conn.backlog \in Seq(Event) /\ b \in Nat /\ n \in Nat
      /\ \A i \in 1 .. b : conn.backlog[i] \in Event
  BY LinkFacts, LenProperties, ElementOfSeq
<1>3. m \in Seq(Frame) /\ Len(m) = b /\ \A i \in 1 .. b : m[i] = EventFrame(conn.backlog[i])
  BY <1>2, EventFramesFacts
<1>4. r \in {0, 1} /\ \A i \in 1 .. r : Announced[i] = ResyncFrame
  BY <1>1
<1>5. /\ head \in Seq(Frame) /\ Len(head) = r + n
      /\ \A i \in 1 .. r + n : head[i] = IF i <= r THEN Announced[i] ELSE snapshot[i - r]
  BY <1>1, ConcatProperties
<1>. HIDE DEF head, m
<1>6. /\ Len(wire') = r + n + b
      /\ \A i \in 1 .. r + n + b : wire'[i] = IF i <= r + n THEN head[i] ELSE m[i - (r + n)]
  <2>1. /\ Len(head \o m) = Len(head) + Len(m)
        /\ \A i \in 1 .. Len(head) + Len(m) :
             (head \o m)[i] = IF i <= Len(head) THEN head[i] ELSE m[i - Len(head)]
    <3>1. head \in Seq(Frame) /\ m \in Seq(Frame)
      BY <1>3, <1>5
    <3>. QED BY <3>1, ConcatProperties
  <2>. QED BY <1>1, <1>3, <1>5, <2>1
<1>. HIDE DEF r, n, b
<1>7. \A i \in 1 .. r : wire'[i] = ResyncFrame
  <2>. SUFFICES ASSUME NEW i \in 1 .. r PROVE wire'[i] = ResyncFrame
    OBVIOUS
  <2>1. i \in 1 .. r + n + b /\ i \in 1 .. r + n /\ i <= r + n /\ i <= r
    BY <1>2, <1>4
  <2>. QED BY <1>4, <1>5, <1>6, <2>1
<1>8. \A i \in r + 1 .. r + n : wire'[i] = snapshot[i - r]
  <2>. SUFFICES ASSUME NEW i \in r + 1 .. r + n PROVE wire'[i] = snapshot[i - r]
    OBVIOUS
  <2>1. i \in 1 .. r + n + b /\ i \in 1 .. r + n /\ i <= r + n /\ ~(i <= r)
    BY <1>2, <1>4
  <2>. QED BY <1>5, <1>6, <2>1
<1>9. \A i \in r + n + 1 .. r + n + b :
        /\ conn.backlog[i - r - n] \in Event
        /\ wire'[i] = EventFrame(conn.backlog[i - r - n])
  <2>. SUFFICES ASSUME NEW i \in r + n + 1 .. r + n + b
                PROVE  /\ conn.backlog[i - r - n] \in Event
                       /\ wire'[i] = EventFrame(conn.backlog[i - r - n])
    OBVIOUS
  <2>1. /\ i \in 1 .. r + n + b /\ ~(i <= r + n)
        /\ i - r - n \in 1 .. b /\ i - (r + n) = i - r - n
    BY <1>2, <1>4
  <2>2. wire'[i] = m[i - r - n]
    BY <1>6, <2>1
  <2>. QED BY <1>2, <1>3, <2>1, <2>2
<1>10. r = (IF conn.resync THEN 1 ELSE 0) /\ n \in Nat /\ b \in Nat /\ Len(wire') = r + n + b
  BY <1>1, <1>2, <1>6
<1>. QED BY <1>7, <1>8, <1>9, <1>10 DEF r, n, b

LEMMA StartBridgeOrder ==
  ASSUME TypeOK, OrderInv, Waiting, NEW snapshot \in Seq(Frame),
         \A i \in 1 .. Len(snapshot) : snapshot[i].kind = "snapshot",
         StartBridge(snapshot), UNCHANGED <<lastSeq, lastBoot>>
  PROVE  OrderInv'
<1>. DEFINE r == Len(Announced)
            n == Len(snapshot)
            b == Len(conn.backlog)
            lb == conn.lastBacklog
            next == hub.next
            L == Len(chan.events)
<1>1. /\ r = (IF conn.resync THEN 1 ELSE 0) /\ n \in Nat /\ b \in Nat
      /\ Len(wire') = r + n + b
      /\ \A i \in 1 .. r : wire'[i] = ResyncFrame
      /\ \A i \in r + 1 .. r + n : wire'[i] = snapshot[i - r]
      /\ \A i \in r + n + 1 .. r + n + b :
           /\ conn.backlog[i - r - n] \in Event
           /\ wire'[i] = EventFrame(conn.backlog[i - r - n])
  BY FirstFrames
<1>2. /\ conn'.pc = "live" /\ conn'.backlog = <<>> /\ conn'.active = <<>> /\ conn'.resync = FALSE
      /\ conn'.lastBacklog = lb /\ UNCHANGED <<hub, chan, restarts>>
  BY StartBridgeFacts DEF TypeOK
<1>3. /\ lb \in Nat /\ next \in Nat /\ L \in Nat /\ lastSeq \in Nat
      /\ \A i \in 1 .. b : conn.backlog[i].seq \in Nat
  BY LinkFacts
<1>4. \A i \in 1 .. b : conn.backlog[i].seq + b + 1 = lb + 1 + i
  BY DEF OrderInv, Numbered, EndsBefore
<1>5. Open /\ Open' /\ Waiting /\ ~Waiting'
  BY <1>2 DEF Open, Waiting
<1>6. (conn.resync => b = 0) /\ (conn.backlog = <<>> <=> b = 0)
  <2>1. conn.backlog = <<>> <=> b = 0
    BY LinkFacts, EmptySeq
  <2>. QED BY <2>1 DEF OrderInv, Numbered
<1>. HIDE DEF r, n, b
<1>7. r \in 0 .. 1
  BY <1>1
\* The three parts of the wire.
<1>8. \A i \in 1 .. r : wire'[i].kind = "resync"
  BY <1>1, FrameFacts
<1>9. \A i \in r + 1 .. r + n : wire'[i].kind = "snapshot"
  <2>. SUFFICES ASSUME NEW i \in r + 1 .. r + n PROVE wire'[i].kind = "snapshot"
    OBVIOUS
  <2>1. i - r \in 1 .. Len(snapshot)
    BY <1>1, <1>7 DEF n
  <2>. QED BY <1>1, <2>1
<1>10. \A i \in r + n + 1 .. r + n + b :
         /\ wire'[i].kind = "transition" /\ wire'[i].seq \in Nat
         /\ wire'[i].seq + b + r + n = lb + i
  <2>. SUFFICES ASSUME NEW i \in r + n + 1 .. r + n + b
                PROVE  /\ wire'[i].kind = "transition" /\ wire'[i].seq \in Nat
                       /\ wire'[i].seq + b + r + n = lb + i
    OBVIOUS
  <2>. DEFINE k == i - r - n
              e == conn.backlog[k]
  <2>1. k \in 1 .. b /\ k = i - r - n
    BY <1>1, <1>7
  <2>2. e \in Event /\ wire'[i] = EventFrame(e)
    BY <1>1
  <2>3. wire'[i].kind = "transition" /\ wire'[i].seq = e.seq
    BY <2>2, FrameFacts DEF IsEvent
  <2>. DEFINE x == e.seq
  <2>4. x \in Nat /\ x + b + 1 = lb + 1 + k
    BY <1>3, <1>4, <2>1
  <2>. HIDE DEF x, k, lb
  <2>5. x + b + r + n = lb + i
    BY <1>1, <1>3, <1>7, <2>1, <2>4
  <2>. QED BY <2>3, <2>4, <2>5 DEF x
<1>. HIDE DEF lb, next, L
<1>11. \A i \in 1 .. Len(wire') :
         \/ i \in 1 .. r \/ i \in r + 1 .. r + n \/ i \in r + n + 1 .. r + n + b
  BY <1>1, <1>7
<1>12. Shape'
  <2>1. ASSUME NEW i \in 2 .. Len(wire') PROVE wire'[i].kind # "resync"
    <3>1. i \in 1 .. Len(wire') /\ i \notin 1 .. r
      BY <1>1, <1>7
    <3>. QED BY <1>9, <1>10, <1>11, <3>1
  <2>. QED BY <1>2, <1>5, <2>1 DEF Shape
<1>13. Numbered'
  BY <1>2, <1>5 DEF OrderInv, Numbered, EndsBefore, lb
<1>14. WireInOrder'
  <2>1. ASSUME NEW i \in 1 .. Len(wire'), wire'[i].kind = "transition"
        PROVE  i \in r + n + 1 .. r + n + b
    BY <1>8, <1>9, <1>11, <2>1
  <2>2. ASSUME NEW i \in 1 .. Len(wire'), NEW j \in 1 .. Len(wire'), i < j, IsEvent(wire'[i])
        PROVE  wire'[j].kind # "snapshot"
    <3>1. i \in r + n + 1 .. r + n + b
      BY <2>1, <2>2 DEF IsEvent
    <3>2. j \in r + n + 1 .. r + n + b
      BY <1>1, <1>7, <2>2, <3>1
    <3>. QED BY <1>10, <3>2
  <2>3. ASSUME NEW i \in 1 .. Len(wire') - 1, IsEvent(wire'[i])
        PROVE  wire'[i + 1].seq = wire'[i].seq + 1
    <3>1. i \in 1 .. Len(wire')
      BY <1>1, <1>7
    <3>2. i \in r + n + 1 .. r + n + b
      BY <2>1, <2>3, <3>1 DEF IsEvent
    <3>3. i + 1 \in r + n + 1 .. r + n + b
      BY <1>1, <1>7, <3>2
    <3>. DEFINE x == wire'[i].seq
                y == wire'[i + 1].seq
    <3>4. /\ x \in Nat /\ x + b + r + n = lb + i
          /\ y \in Nat /\ y + b + r + n = lb + (i + 1)
      BY <1>10, <3>2, <3>3
    <3>. HIDE DEF x, y
    <3>5. y = x + 1
      BY <1>1, <1>3, <1>7, <3>2, <3>4 DEF lb
    <3>. QED BY <3>5 DEF x, y
  <2>. QED BY <2>2, <2>3 DEF WireInOrder
<1>15. NothingBetween'
  <2>1. ASSUME ~chan.lagged, wire' # <<>>, IsEvent(wire'[Len(wire')])
        PROVE  wire'[Len(wire')].seq + L + 1 = next
    <3>. DEFINE m == r + n + b
    <3>1. m \in Nat /\ m # 0
      <4>1. wire' \in Seq(Frame)
        BY StartBridgeFacts DEF TypeOK, LinkTypeOK
      <4>2. Len(wire') # 0
        BY <2>1, <4>1, EmptySeq
      <4>. QED BY <1>1, <1>7, <4>2
    <3>2. m \in 1 .. Len(wire') /\ m = Len(wire')
      BY <1>1, <3>1
    <3>3. m \in r + n + 1 .. r + n + b
      BY <1>8, <1>9, <1>11, <2>1, <3>2 DEF IsEvent
    <3>4. b # 0
      BY <1>1, <1>7, <3>3
    <3>5. lb + L + 1 = next
      BY <1>6, <2>1, <3>4 DEF OrderInv, NothingBetween, lb, L, next
    <3>. DEFINE x == wire'[m].seq
    <3>6. x \in Nat /\ x + b + r + n = lb + m
      BY <1>10, <3>3
    <3>. HIDE DEF x
    <3>7. r \in Nat /\ n \in Nat /\ b \in Nat /\ lb \in Nat /\ L \in Nat /\ next \in Nat
      BY <1>1, <1>3, <1>7 DEF lb, L, next
    <3>8. x = lb
      BY <3>6, <3>7
    <3>. QED BY <3>2, <3>5, <3>8 DEF x
  <2>. QED BY <1>2, <1>5, <2>1 DEF NothingBetween, L, next
<1>16. Resumes' => NothingBefore'
  <2>1. SUFFICES ASSUME Resumes PROVE NothingBefore'
    BY <1>2 DEF Resumes
  <2>2. NothingBefore
    BY <2>1 DEF OrderInv
  <2>3. ASSUME NEW i \in 1 .. Len(wire'), IsEvent(wire'[i]),
               \A j \in 1 .. i - 1 : wire'[j].kind = "snapshot"
        PROVE  wire'[i].seq <= lastSeq + 1
    <3>1. i \in r + n + 1 .. r + n + b
      BY <1>8, <1>9, <1>11, <2>3 DEF IsEvent
    <3>2. r = 0
      <4>. SUFFICES ASSUME r = 1 PROVE FALSE
        BY <1>7
      <4>1. 1 \in 1 .. i - 1 /\ 1 \in 1 .. r
        BY <1>1, <3>1
      <4>. QED BY <1>8, <2>3, <4>1
    <3>3. i = n + 1
      <4>. SUFFICES ASSUME i # n + 1 PROVE FALSE
        OBVIOUS
      <4>1. i - 1 \in 1 .. i - 1 /\ i - 1 \in r + n + 1 .. r + n + b
        BY <1>1, <3>1, <3>2
      <4>. QED BY <1>10, <2>3, <4>1
    <3>4. b # 0 /\ i - r - n = 1
      BY <1>1, <3>1, <3>2, <3>3
    <3>5. conn.backlog[1].seq <= lastSeq + 1
      <4>1. ~conn.resync
        BY <1>1, <3>2
      <4>. QED BY <1>5, <1>6, <2>2, <3>4, <4>1 DEF NothingBefore, Reaches
    <3>6. conn.backlog[1] \in Event /\ wire'[i] = EventFrame(conn.backlog[1])
      BY <1>1, <3>1, <3>4
    <3>. QED BY <3>5, <3>6, FrameFacts
  <2>4. ASSUME ~chan.lagged, \A i \in 1 .. Len(wire') : wire'[i].kind = "snapshot"
        PROVE  next <= lastSeq + 1 + L
    <3>1. r = 0
      <4>. SUFFICES ASSUME r = 1 PROVE FALSE
        BY <1>7
      <4>1. 1 \in 1 .. Len(wire') /\ 1 \in 1 .. r
        BY <1>1
      <4>. QED BY <1>8, <2>4, <4>1
    <3>2. b = 0
      <4>. SUFFICES ASSUME b # 0 PROVE FALSE
        OBVIOUS
      <4>1. r + n + b \in 1 .. Len(wire') /\ r + n + b \in r + n + 1 .. r + n + b
        BY <1>1, <1>7
      <4>. QED BY <1>10, <2>4, <4>1
    <3>3. ~conn.resync
      BY <1>1, <3>1
    <3>. QED BY <1>5, <1>6, <2>2, <2>4, <3>2, <3>3 DEF NothingBefore, next, L
  <2>. QED BY <1>2, <1>5, <2>3, <2>4 DEF NothingBefore, Reaches, next, L
<1>17. lastBoot' <= restarts'
  BY <1>2 DEF OrderInv
<1>. QED BY <1>12, <1>13, <1>14, <1>15, <1>16, <1>17 DEF OrderInv

LEMMA BridgeOrder ==
  ASSUME TypeOK, OrderInv, Bridge, UNCHANGED <<lastSeq, lastBoot>>
  PROVE  OrderInv'
<1>1. /\ BridgeCloses \/ \E e \in Event : BridgeSends(e)
      /\ BridgeCloses => /\ conn'.pc = "closing" /\ conn'.backlog = conn.backlog
                         /\ conn'.active = conn.active /\ conn'.resync = conn.resync
                         /\ conn'.lastBacklog = conn.lastBacklog
      /\ UNCHANGED <<hub, restarts>>
  BY BridgeFacts DEF TypeOK, OrderInv
<1>2. Shape /\ Numbered /\ WireInOrder /\ NothingBetween /\ conn.pc = "live" /\ Open
  BY DEF OrderInv, Bridge, Open
<1>3. lastBoot' <= restarts' /\ (Resumes' <=> Resumes)
  BY <1>1 DEF OrderInv, Resumes
<1>. DEFINE W == Len(wire)
<1>4. wire \in Seq(Frame) /\ W \in Nat
  BY LinkFacts
<1>5. CASE BridgeCloses
  <2>1. /\ Len(wire') = W + 1 /\ wire'[W + 1] = ResyncFrame
        /\ \A i \in 1 .. W : wire'[i] = wire[i]
    <3>1. wire' = Append(wire, ResyncFrame)
      BY <1>5 DEF BridgeCloses
    <3>. QED BY <1>4, <3>1, FrameFacts, AppendProperties
  <2>2. chan' = NoChan /\ conn'.pc = "closing" /\ ~Open' /\ ~Waiting' /\ ~Waiting
    BY <1>1, <1>2, <1>5 DEF BridgeCloses, Open, Waiting
  <2>. HIDE DEF W
  <2>3. \A i \in 1 .. W + 1 : i \in 1 .. W \/ i = W + 1
    BY <1>4
  <2>4. \A i \in 1 .. W : i \in 1 .. W + 1
    BY <1>4
  <2>5. ~IsEvent(wire'[W + 1]) /\ wire'[W + 1].kind # "snapshot"
    BY <2>1, FrameFacts DEF IsEvent
  <2>6. Shape'
    BY <1>1, <1>2, <1>5, <2>2 DEF Shape
  <2>7. Numbered'
    BY <1>1, <1>2, <1>5, <2>2 DEF Numbered, EndsBefore
  <2>8. WireInOrder'
    <3>1. ASSUME NEW i \in 1 .. W + 1, NEW j \in 1 .. W + 1, i < j, IsEvent(wire'[i])
          PROVE  wire'[j].kind # "snapshot"
      BY <1>2, <2>1, <2>3, <2>5, <3>1 DEF WireInOrder, W
    <3>2. ASSUME NEW i \in 1 .. W, IsEvent(wire'[i]), IsEvent(wire'[i + 1])
          PROVE  wire'[i + 1].seq = wire'[i].seq + 1
      <4>1. i # W
        BY <2>5, <3>2
      <4>2. i \in 1 .. W - 1 /\ i + 1 \in 1 .. W
        BY <1>4, <4>1
      <4>3. wire'[i] = wire[i] /\ wire'[i + 1] = wire[i + 1]
        BY <2>1, <4>2
      <4>. QED BY <1>2, <3>2, <4>2, <4>3 DEF WireInOrder, W
    <3>3. Len(wire') = W + 1 /\ Len(wire') - 1 = W
      BY <1>4, <2>1
    <3>4. \A i, j \in 1 .. Len(wire') : i < j /\ IsEvent(wire'[i]) => wire'[j].kind # "snapshot"
      BY <3>1, <3>3
    <3>5. \A i \in 1 .. Len(wire') - 1 :
            IsEvent(wire'[i]) /\ IsEvent(wire'[i + 1]) => wire'[i + 1].seq = wire'[i].seq + 1
      <4>. SUFFICES ASSUME NEW i \in 1 .. Len(wire') - 1, IsEvent(wire'[i]), IsEvent(wire'[i + 1])
                    PROVE  wire'[i + 1].seq = wire'[i].seq + 1
        OBVIOUS
      <4>1. i \in 1 .. W
        BY <3>3
      <4>. QED BY <3>2, <4>1
    <3>. QED BY <3>4, <3>5 DEF WireInOrder
  <2>9. NothingBetween'
    BY <2>2 DEF NothingBetween
  <2>10. Resumes => NothingBefore'
    <3>. SUFFICES ASSUME Resumes PROVE NothingBefore'
      OBVIOUS
    <3>1. NothingBefore
      BY DEF OrderInv
    <3>2. ASSUME NEW i \in 1 .. W + 1, IsEvent(wire'[i]),
                 \A j \in 1 .. i - 1 : wire'[j].kind = "snapshot"
          PROVE  wire'[i].seq <= lastSeq + 1
      <4>1. i \in 1 .. W /\ wire'[i] = wire[i]
        BY <2>1, <2>3, <2>5, <3>2
      <4>2. \A j \in 1 .. i - 1 : wire[j].kind = "snapshot"
        <5>1. \A j \in 1 .. i - 1 : j \in 1 .. W
          BY <1>4, <4>1
        <5>. QED BY <2>1, <3>2, <5>1
      <4>. QED BY <3>1, <3>2, <4>1, <4>2 DEF NothingBefore, Reaches, W
    <3>. QED BY <2>1, <2>2, <3>2 DEF NothingBefore, Reaches
  <2>. QED BY <1>3, <2>6, <2>7, <2>8, <2>9, <2>10 DEF OrderInv
<1>6. CASE \E e \in Event : BridgeSends(e)
  <2>1. PICK e \in Event : BridgeSends(e)
    BY <1>6
  <2>. DEFINE f == EventFrame(e)
              L == Len(chan.events)
              M == Len(chan'.events)
              next == hub.next
              x == e.seq
  <2>2. /\ ~chan.lagged /\ chan.events # <<>> /\ e = chan.events[1] /\ conn' = conn
        /\ chan'.events = Tail(chan.events) /\ chan'.lagged = FALSE
        /\ wire' = Append(wire, f) /\ L \in Nat \ {0} /\ M = L - 1
        /\ \A i \in 1 .. L - 1 : chan'.events[i] = chan.events[i + 1]
    <3>1. /\ ~chan.lagged /\ chan.events # <<>> /\ e = Head(chan.events) /\ conn' = conn
          /\ chan'.events = Tail(chan.events) /\ chan'.lagged = FALSE
          /\ wire' = Append(wire, f)
      BY <2>1 DEF BridgeSends
    <3>2. chan.events \in Seq(Event)
      BY LinkFacts
    <3>3. /\ Head(chan.events) = chan.events[1] /\ Len(Tail(chan.events)) = L - 1
          /\ L \in Nat \ {0} /\ \A i \in 1 .. L - 1 : Tail(chan.events)[i] = chan.events[i + 1]
      BY <3>1, <3>2, HeadTailProperties, EmptySeq
    <3>. QED BY <3>1, <3>3
  <2>3. f \in Frame /\ IsEvent(f) /\ f.seq = x /\ x \in Nat
    <3>1. x \in Nat
      BY DEF Event
    <3>. QED BY <3>1, FrameFacts
  <2>4. /\ Len(wire') = W + 1 /\ wire'[W + 1] = f
        /\ \A i \in 1 .. W : wire'[i] = wire[i]
    <3>. HIDE DEF f
    <3>. QED BY <1>4, <2>2, <2>3, AppendProperties
  <2>5. EndsBefore(chan.events, next) /\ next \in Nat /\ lastSeq \in Nat
    BY <1>2, LinkFacts DEF Numbered
  <2>6. x + L = next
    <3>1. 1 \in 1 .. L
      BY <2>2
    <3>2. x + L + 1 = next + 1
      BY <2>2, <2>5, <3>1 DEF EndsBefore
    <3>. HIDE DEF x, L, next
    <3>. QED BY <2>2, <2>3, <2>5, <3>2
  <2>7. Open' /\ ~Waiting' /\ conn'.pc = "live"
    BY <1>2, <2>2 DEF Open, Waiting
  <2>8. Numbered'
    <3>1. EndsBefore(chan'.events, next)
      BY <2>2, <2>5, LinkFacts, EndsFacts
    <3>2. \A i \in 1 .. M : chan'.events[i].seq > conn.lastBacklog
      <4>1. \A i \in 1 .. L - 1 : i + 1 \in 1 .. L
        BY <2>2
      <4>2. \A i \in 1 .. L : chan.events[i].seq > conn.lastBacklog
        BY <1>2 DEF Numbered
      <4>. QED BY <2>2, <4>1, <4>2
    <3>. QED BY <1>1, <1>2, <2>2, <2>7, <3>1, <3>2 DEF Numbered, EndsBefore
  <2>. HIDE DEF W, f, x, L, M, next
  <2>9. \A i \in 1 .. W + 1 : i \in 1 .. W \/ i = W + 1
    BY <1>4
  <2>10. wire'[W + 1].kind = "transition"
    BY <2>3, <2>4 DEF IsEvent
  <2>11. Shape'
    <3>1. ASSUME NEW i \in 2 .. W + 1 PROVE wire'[i].kind # "resync"
      <4>1. CASE i = W + 1
        BY <2>10, <4>1
      <4>2. CASE i # W + 1
        <5>1. i \in 2 .. W /\ i \in 1 .. W
          BY <1>4, <4>2
        <5>. QED BY <1>2, <2>4, <5>1 DEF Shape, W
      <4>. QED BY <4>1, <4>2
    <3>. QED BY <1>2, <2>2, <2>4, <2>7, <3>1 DEF Shape, Waiting
  <2>12. WireInOrder'
    <3>1. ASSUME NEW i \in 1 .. W + 1, NEW j \in 1 .. W + 1, i < j, IsEvent(wire'[i])
          PROVE  wire'[j].kind # "snapshot"
      <4>1. CASE j = W + 1
        BY <2>10, <4>1
      <4>2. CASE j \in 1 .. W
        <5>1. i \in 1 .. W
          BY <1>4, <3>1, <4>2
        <5>2. wire'[i] = wire[i] /\ wire'[j] = wire[j]
          BY <2>4, <4>2, <5>1
        <5>. QED BY <1>2, <3>1, <4>2, <5>1, <5>2 DEF WireInOrder, W
      <4>. QED BY <2>9, <4>1, <4>2
    <3>2. ASSUME NEW i \in 1 .. W, IsEvent(wire'[i]), IsEvent(wire'[i + 1])
          PROVE  wire'[i + 1].seq = wire'[i].seq + 1
      <4>1. CASE i = W
        <5>. DEFINE y == wire[W].seq
        <5>1. wire # <<>> /\ IsEvent(wire[W]) /\ y \in Nat
          BY <1>4, <2>4, <3>2, <4>1, LinkFacts DEF W
        <5>2. y + L + 1 = next
          BY <1>2, <2>2, <5>1 DEF NothingBetween, W, L, next
        <5>. HIDE DEF y
        <5>3. x = y + 1
          BY <2>2, <2>3, <2>5, <2>6, <5>1, <5>2
        <5>. QED BY <2>3, <2>4, <4>1, <5>3 DEF y
      <4>2. CASE i # W
        <5>1. i \in 1 .. W - 1 /\ i + 1 \in 1 .. W
          BY <1>4, <4>2
        <5>2. wire'[i] = wire[i] /\ wire'[i + 1] = wire[i + 1]
          BY <2>4, <5>1
        <5>. QED BY <1>2, <3>2, <5>1, <5>2 DEF WireInOrder, W
      <4>. QED BY <4>1, <4>2
    <3>3. Len(wire') = W + 1 /\ Len(wire') - 1 = W
      BY <1>4, <2>4
    <3>4. \A i, j \in 1 .. Len(wire') : i < j /\ IsEvent(wire'[i]) => wire'[j].kind # "snapshot"
      BY <3>1, <3>3
    <3>5. \A i \in 1 .. Len(wire') - 1 :
            IsEvent(wire'[i]) /\ IsEvent(wire'[i + 1]) => wire'[i + 1].seq = wire'[i].seq + 1
      <4>. SUFFICES ASSUME NEW i \in 1 .. Len(wire') - 1, IsEvent(wire'[i]), IsEvent(wire'[i + 1])
                    PROVE  wire'[i + 1].seq = wire'[i].seq + 1
        OBVIOUS
      <4>1. i \in 1 .. W
        BY <3>3
      <4>. QED BY <3>2, <4>1
    <3>. QED BY <3>4, <3>5 DEF WireInOrder
  <2>13. NothingBetween'
    <3>1. x + M + 1 = next
      BY <2>2, <2>3, <2>5, <2>6
    <3>2. wire'[Len(wire')].seq = x
      BY <2>3, <2>4
    <3>. QED BY <1>1, <2>7, <3>1, <3>2 DEF NothingBetween, M, next
  <2>14. Resumes => NothingBefore'
    <3>. SUFFICES ASSUME Resumes PROVE NothingBefore'
      OBVIOUS
    <3>1. NothingBefore
      BY DEF OrderInv
    <3>2. ASSUME NEW i \in 1 .. W + 1, IsEvent(wire'[i]),
                 \A j \in 1 .. i - 1 : wire'[j].kind = "snapshot"
          PROVE  wire'[i].seq <= lastSeq + 1
      <4>1. \A j \in 1 .. i - 1 : j \in 1 .. W /\ wire'[j] = wire[j]
        <5>1. \A j \in 1 .. i - 1 : j \in 1 .. W
          BY <1>4
        <5>. QED BY <2>4, <5>1
      <4>2. CASE i = W + 1
        <5>1. \A j \in 1 .. W : wire[j].kind = "snapshot"
          <6>1. TAKE j \in 1 .. W
          <6>2. j \in 1 .. i - 1
            BY <1>4, <4>2
          <6>. QED BY <3>2, <4>1, <6>2
        <5>2. next <= lastSeq + 1 + L
          BY <1>2, <2>2, <3>1, <5>1 DEF NothingBefore, W, L, next
        <5>3. x <= lastSeq + 1
          BY <2>2, <2>3, <2>5, <2>6, <5>2
        <5>. QED BY <2>3, <2>4, <4>2, <5>3
      <4>3. CASE i \in 1 .. W
        <5>1. wire'[i] = wire[i] /\ \A j \in 1 .. i - 1 : wire[j].kind = "snapshot"
          BY <2>4, <3>2, <4>1, <4>3
        <5>. QED BY <3>1, <3>2, <4>3, <5>1 DEF NothingBefore, Reaches, W
      <4>. QED BY <2>9, <4>2, <4>3
    <3>3. ~(\A i \in 1 .. W + 1 : wire'[i].kind = "snapshot")
      <4>1. W + 1 \in 1 .. W + 1
        BY <1>4
      <4>. QED BY <2>10, <4>1
    <3>. QED BY <2>4, <2>7, <3>2, <3>3 DEF NothingBefore, Reaches
  <2>. QED BY <1>3, <2>8, <2>11, <2>12, <2>13, <2>14 DEF OrderInv
<1>. QED BY <1>1, <1>5, <1>6

\* A frame taken off the wire.  An event moves the client's last one up to it,
\* and no snapshot comes after it.
LEMMA DeliverOrder ==
  ASSUME TypeOK, OrderInv, Deliver
  PROVE  OrderInv'
<1>1. PICK f \in Frame :
           /\ wire # <<>> /\ f = wire[1] /\ wire' = Tail(wire)
           /\ UNCHANGED <<hub, conn, chan, restarts>>
           /\ IsEvent(f) =>
                /\ lastSeq' = IF f.seq > lastSeq THEN f.seq ELSE lastSeq
                /\ lastBoot' = IF f.seq > lastSeq THEN restarts ELSE lastBoot
           /\ f.kind = "snapshot" => UNCHANGED <<lastSeq, lastBoot>>
           /\ f.kind = "resync" => lastSeq' = NoSeq /\ lastBoot' = lastBoot
  BY DeliverFacts
<1>2. Shape /\ Numbered /\ WireInOrder /\ NothingBetween
  BY DEF OrderInv
<1>3. ~Waiting /\ ~Waiting'
  BY <1>1, <1>2 DEF Shape, Waiting
<1>4. f.kind \in {"snapshot", "transition", "resync"} /\ f.seq \in Nat /\ lastSeq \in Nat
  BY LinkFacts DEF Frame
<1>. DEFINE W == Len(wire)
            L == Len(chan.events)
            next == hub.next
            x == f.seq
<1>5. /\ W \in Nat \ {0} /\ Len(wire') = W - 1 /\ wire' \in Seq(Frame)
      /\ \A i \in 1 .. W - 1 : wire'[i] = wire[i + 1]
  <2>1. wire \in Seq(Frame)
    BY LinkFacts
  <2>. QED BY <1>1, <2>1, HeadTailProperties, EmptySeq
<1>6. L \in Nat /\ next \in Nat
  BY LinkFacts
<1>. HIDE DEF W, L, next, x
<1>7. \A i \in 1 .. W - 1 : i \in 1 .. W /\ i + 1 \in 1 .. W
  BY <1>5
<1>8. Shape'
  <2>1. ASSUME conn.pc = "live", NEW i \in 2 .. W - 1 PROVE wire'[i].kind # "resync"
    <3>1. i \in 1 .. W - 1 /\ i + 1 \in 2 .. W
      BY <1>5
    <3>. QED BY <1>2, <1>5, <2>1, <3>1 DEF Shape, W
  <2>2. Open' = Open
    BY <1>1 DEF Open
  <2>. QED BY <1>1, <1>2, <1>3, <1>5, <2>1, <2>2 DEF Shape
<1>9. Numbered'
  BY <1>1, <1>2 DEF Numbered, Open, EndsBefore
<1>10. WireInOrder'
  <2>1. ASSUME NEW i \in 1 .. W - 1, NEW j \in 1 .. W - 1, i < j, IsEvent(wire'[i])
        PROVE  wire'[j].kind # "snapshot"
    <3>1. i + 1 \in 1 .. W /\ j + 1 \in 1 .. W /\ i + 1 < j + 1
      BY <1>7, <2>1
    <3>2. wire'[i] = wire[i + 1] /\ wire'[j] = wire[j + 1]
      BY <1>5
    <3>. QED BY <1>2, <2>1, <3>1, <3>2 DEF WireInOrder, W
  <2>2. ASSUME NEW i \in 1 .. Len(wire') - 1, IsEvent(wire'[i]), IsEvent(wire'[i + 1])
        PROVE  wire'[i + 1].seq = wire'[i].seq + 1
    <3>1. i \in 1 .. W - 1 /\ i + 1 \in 1 .. W - 1
      BY <1>5
    <3>2. wire'[i] = wire[i + 1] /\ wire'[i + 1] = wire[(i + 1) + 1]
      BY <1>5, <3>1
    <3>. QED BY <1>2, <2>2, <3>1, <3>2 DEF WireInOrder, W
  <2>3. \A i, j \in 1 .. Len(wire') : i < j /\ IsEvent(wire'[i]) => wire'[j].kind # "snapshot"
    BY <1>5, <2>1
  <2>4. \A i \in 1 .. Len(wire') - 1 :
          IsEvent(wire'[i]) /\ IsEvent(wire'[i + 1]) => wire'[i + 1].seq = wire'[i].seq + 1
    BY <2>2
  <2>. QED BY <2>3, <2>4 DEF WireInOrder
<1>11. NothingBetween'
  <2>1. ASSUME wire' # <<>> PROVE wire'[Len(wire')] = wire[W]
    <3>1. Len(wire') # 0
      BY <1>5, <2>1, EmptySeq
    <3>2. W - 1 \in 1 .. W - 1 /\ (W - 1) + 1 = W
      BY <1>5, <3>1
    <3>. QED BY <1>5, <3>2
  <2>. QED BY <1>1, <1>2, <1>3, <2>1 DEF NothingBetween, W
<1>12. Resumes' => NothingBefore'
  <2>. SUFFICES ASSUME Resumes' PROVE NothingBefore'
    OBVIOUS
  <2>1. SUFFICES
          /\ \A i \in 1 .. W - 1 :
               IsEvent(wire'[i]) /\ (\A j \in 1 .. i - 1 : wire'[j].kind = "snapshot") =>
                 wire'[i].seq <= lastSeq' + 1
          /\ conn.pc = "live" /\ ~chan.lagged /\ (\A i \in 1 .. W - 1 : wire'[i].kind = "snapshot") =>
               next <= lastSeq' + 1 + L
    BY <1>1, <1>3, <1>5 DEF NothingBefore, Reaches, next, L
  <2>2. CASE f.kind = "snapshot"
    <3>1. Resumes /\ NothingBefore /\ lastSeq' = lastSeq
      BY <1>1, <2>2 DEF Resumes, OrderInv
    <3>2. ASSUME NEW i \in 1 .. W - 1, IsEvent(wire'[i]), \A j \in 1 .. i - 1 : wire'[j].kind = "snapshot"
          PROVE  wire'[i].seq <= lastSeq + 1
      <4>1. ASSUME NEW k \in 1 .. (i + 1) - 1 PROVE wire[k].kind = "snapshot"
        <5>1. CASE k = 1
          BY <1>1, <2>2, <5>1
        <5>2. CASE k # 1
          <6>. DEFINE j == k - 1
          <6>1. j \in 1 .. i - 1 /\ j \in 1 .. W - 1 /\ j + 1 = k
            BY <1>5, <5>2
          <6>2. wire'[j] = wire[k]
            BY <1>5, <6>1
          <6>. QED BY <3>2, <6>1, <6>2
        <5>. QED BY <5>1, <5>2
      <4>2. i + 1 \in 1 .. W /\ wire'[i] = wire[i + 1]
        BY <1>5, <1>7
      <4>. QED BY <3>1, <3>2, <4>1, <4>2 DEF NothingBefore, Reaches, W
    <3>3. ASSUME conn.pc = "live", ~chan.lagged, \A i \in 1 .. W - 1 : wire'[i].kind = "snapshot"
          PROVE  next <= lastSeq + 1 + L
      <4>1. ASSUME NEW k \in 1 .. W PROVE wire[k].kind = "snapshot"
        <5>1. CASE k = 1
          BY <1>1, <2>2, <5>1
        <5>2. CASE k # 1
          <6>. DEFINE j == k - 1
          <6>1. j \in 1 .. W - 1 /\ j + 1 = k
            BY <1>5, <5>2
          <6>2. wire'[j] = wire[k]
            BY <1>5, <6>1
          <6>. QED BY <3>3, <6>1, <6>2
        <5>. QED BY <5>1, <5>2
      <4>. QED BY <3>1, <3>3, <4>1 DEF NothingBefore, W, next, L
    <3>. QED BY <3>1, <3>2, <3>3
  <2>3. CASE IsEvent(f)
    <3>. DEFINE q == lastSeq'
    <3>1. x \in Nat /\ q \in Nat /\ x <= q
      BY <1>1, <1>4, <2>3 DEF x
    <3>. HIDE DEF q
    <3>2. W # 1 => 2 \in 1 .. W /\ 1 \in 1 .. W - 1 /\ 1 \in 1 .. W
      BY <1>5
    <3>3. W # 1 => wire'[1] = wire[2] /\ wire'[1].kind # "snapshot"
      <4>. SUFFICES ASSUME W # 1 PROVE wire'[1] = wire[2] /\ wire'[1].kind # "snapshot"
        OBVIOUS
      <4>1. wire'[1] = wire[1 + 1] /\ 1 + 1 = 2 /\ 1 < 2
        BY <1>5, <3>2
      <4>2. wire[2].kind # "snapshot"
        BY <1>1, <1>2, <2>3, <3>2, <4>1 DEF WireInOrder, W
      <4>. QED BY <4>1, <4>2
    <3>4. ASSUME NEW i \in 1 .. W - 1, IsEvent(wire'[i]), \A j \in 1 .. i - 1 : wire'[j].kind = "snapshot"
          PROVE  wire'[i].seq <= lastSeq' + 1
      <4>1. W # 1
        BY <1>5
      <4>2. i = 1
        <5>. SUFFICES ASSUME i # 1 PROVE FALSE
          OBVIOUS
        <5>1. 1 \in 1 .. i - 1
          BY <1>5
        <5>. QED BY <3>3, <3>4, <4>1, <5>1
      <4>3. wire'[1].seq = x + 1
        <5>1. IsEvent(wire[1]) /\ IsEvent(wire[1 + 1]) /\ wire'[1] = wire[1 + 1]
          BY <1>1, <1>5, <2>3, <3>2, <3>4, <4>1, <4>2
        <5>. QED BY <1>1, <1>2, <3>2, <4>1, <5>1 DEF WireInOrder, W, x
      <4>4. x + 1 <= q + 1
        BY <3>1
      <4>. QED BY <4>2, <4>3, <4>4 DEF q
    <3>5. ASSUME conn.pc = "live", ~chan.lagged, \A i \in 1 .. W - 1 : wire'[i].kind = "snapshot"
          PROVE  next <= lastSeq' + 1 + L
      <4>1. W = 1
        BY <3>2, <3>3, <3>5
      <4>2. x + L + 1 = next
        BY <1>1, <1>2, <2>3, <3>5, <4>1 DEF NothingBetween, W, x, L, next
      <4>3. next <= q + 1 + L
        BY <1>6, <3>1, <4>2
      <4>. QED BY <4>3 DEF q
    <3>. QED BY <3>4, <3>5
  <2>4. CASE f.kind = "resync"
    BY <1>1, <2>4 DEF Resumes
  <2>. QED BY <1>4, <2>2, <2>3, <2>4 DEF IsEvent
<1>13. lastBoot' <= restarts'
  <2>1. lastBoot' \in {lastBoot, restarts}
    BY <1>1, <1>4 DEF IsEvent
  <2>2. lastBoot <= restarts /\ restarts \in Nat
    BY LinkFacts DEF OrderInv
  <2>. QED BY <1>1, <2>1, <2>2
<1>. QED BY <1>8, <1>9, <1>10, <1>11, <1>12, <1>13 DEF OrderInv

LEMMA OrderKeeps ==
  ASSUME TypeOK, OrderInv, [Next]_vars
  PROVE  OrderInv'
<1>0. ServerTypeOK /\ ClientTypeOK
  BY DEF TypeOK, ClientTypeOK
<1>1. CASE Submissions
  <2>1. PICK o \in Op : Commit(o)
    BY <1>1 DEF Submissions
  <2>2. UNCHANGED orderVars
    BY <1>0, <1>1, <2>1, CommitFacts DEF Submissions, orderVars, clientVars
  <2>. QED BY <2>2, OrderStutters
<1>2. CASE ServerMoves
  <2>1. UNCHANGED <<lastSeq, lastBoot>>
    BY <1>2 DEF ServerMoves, clientVars
  <2>. QED BY <1>2, <2>1, PublishOrder, ListActiveOrder, BridgeOrder DEF ServerMoves, ServerStep
<1>3. CASE ListError
  <2>1. StartBridge(<<>>) /\ Waiting /\ UNCHANGED <<lastSeq, lastBoot>> /\ <<>> \in Seq(Frame)
    BY <1>3 DEF ListError, ListFails, Waiting, clientVars
  <2>2. \A i \in 1 .. Len(<<>>) : <<>>[i].kind = "snapshot"
    OBVIOUS
  <2>. QED BY <2>1, <2>2, StartBridgeOrder
<1>4. CASE Connect
  BY <1>4, ConnectOrder
<1>5. CASE SendSnapshot
  <2>. DEFINE T == Newest(DoneRows, DoneLimit)
              s == conn.active \o RowFrames(T)
  <2>1. ListDone /\ conn.pc = "listed" /\ Waiting /\ UNCHANGED <<lastSeq, lastBoot>>
    BY <1>5 DEF SendSnapshot, ListDone, Waiting, clientVars
  <2>2. /\ RowFrames(T) \in Seq(Frame) /\ conn.active \in Seq(Frame) /\ s \in Seq(Frame)
        /\ T \in SUBSET Op /\ \A o \in T : row[o] # Absent
        /\ StartBridge(s)
    BY <1>0, <2>1, SnapshotFacts
  <2>3. \A i \in 1 .. Len(RowFrames(T)) : RowFrames(T)[i].kind = "snapshot"
    <3>. HIDE DEF T
    <3>1. MaxOps \in Nat /\ row \in [Op -> Stage]
      BY <1>0, Constants DEF ServerTypeOK
    <3>. QED BY <2>2, <3>1, RowFramesFacts
  <2>4. \A i \in 1 .. Len(conn.active) : conn.active[i].kind = "snapshot"
    BY DEF OrderInv, Shape
  <2>5. \A i \in 1 .. Len(s) : s[i].kind = "snapshot"
    <3>. HIDE DEF T
    <3>. DEFINE t == RowFrames(T)
                a == conn.active
    <3>. HIDE DEF t
    <3>1. /\ Len(a) \in Nat /\ Len(t) \in Nat /\ Len(a \o t) = Len(a) + Len(t)
          /\ \A i \in 1 .. Len(a) : (a \o t)[i] = a[i]
          /\ \A i \in 1 .. Len(t) : (a \o t)[Len(a) + i] = t[i]
      BY <2>2, ConcatProperties, LenProperties DEF t
    <3>2. ASSUME NEW i \in 1 .. Len(a) + Len(t) PROVE (a \o t)[i].kind = "snapshot"
      <4>1. CASE i \in 1 .. Len(a)
        BY <2>4, <3>1, <4>1
      <4>2. CASE i \notin 1 .. Len(a)
        <5>1. i - Len(a) \in 1 .. Len(t) /\ Len(a) + (i - Len(a)) = i
          BY <3>1, <4>2
        <5>2. (a \o t)[i] = t[i - Len(a)]
          BY <3>1, <5>1
        <5>. QED BY <2>3, <5>1, <5>2 DEF t
      <4>. QED BY <4>1, <4>2
    <3>. QED BY <3>1, <3>2 DEF t
  <2>. HIDE DEF s
  <2>. QED BY <2>1, <2>2, <2>5, StartBridgeOrder
<1>6. CASE Deliver
  BY <1>6, DeliverOrder
<1>7. CASE Drop \/ StreamEnds
  <2>1. Hangup /\ HandleError /\ UNCHANGED <<hub, restarts>>
    BY <1>7 DEF Drop, StreamEnds
  <2>2. UNCHANGED <<lastSeq, lastBoot>>
    BY <2>1 DEF HandleError
  <2>. QED BY <2>1, <2>2, HangupOrder
<1>8. CASE Restart
  <2>1. Reboot /\ UNCHANGED <<lastSeq, lastBoot>>
    BY <1>8 DEF Restart, HandleError
  <2>2. Hangup /\ hub'.next = 1 /\ hub'.ring = <<>> /\ restarts' = restarts + 1
    BY <1>0, <2>1, RebootFacts
  <2>. QED BY <2>1, <2>2, HangupOrder
<1>9. CASE AnswerResync \/ ResyncFails \/ ResyncArrives \/ PollTick \/ AnswerPoll \/ PollArrives
  <2>1. UNCHANGED orderVars
    BY <1>9 DEF AnswerResync, ResyncFails, ResyncArrives, PollTick, AnswerPoll, PollArrives,
                serverVars, orderVars
  <2>. QED BY <2>1, OrderStutters
<1>10. CASE UNCHANGED vars
  <2>1. UNCHANGED orderVars
    BY <1>10 DEF vars, serverVars, clientVars, orderVars
  <2>. QED BY <2>1, OrderStutters
<1>. QED BY <1>1, <1>2, <1>3, <1>4, <1>5, <1>6, <1>7, <1>8, <1>9, <1>10 DEF Next

\* Only a frame moves the client's last event, and by one if the event is one
\* of the same boot: the ring, the receiver and the wire left nothing out.
LEMMA GapKeeps ==
  ASSUME TypeOK, OrderInv, Next
  PROVE  lastSeq' > lastSeq /\ lastSeq # NoSeq /\ lastBoot = restarts => lastSeq' = lastSeq + 1
<1>. SUFFICES ASSUME lastSeq' > lastSeq, lastSeq # NoSeq, lastBoot = restarts
              PROVE  lastSeq' = lastSeq + 1
  OBVIOUS
<1>1. lastSeq \in Nat
  BY LinkFacts
<1>2. CASE Deliver
  <2>1. PICK f \in Frame :
             /\ wire # <<>> /\ f = wire[1]
             /\ IsEvent(f) => lastSeq' = IF f.seq > lastSeq THEN f.seq ELSE lastSeq
             /\ f.kind = "snapshot" => UNCHANGED lastSeq
             /\ f.kind = "resync" => lastSeq' = NoSeq
    BY <1>2, DeliverFacts
  <2>2. f.kind \in {"snapshot", "transition", "resync"} /\ f.seq \in Nat
    BY DEF Frame
  <2>3. IsEvent(f) /\ lastSeq' = f.seq
    BY <1>1, <2>1, <2>2 DEF NoSeq, IsEvent
  <2>4. 1 \in 1 .. Len(wire) /\ \A j \in 1 .. 1 - 1 : wire[j].kind = "snapshot"
    <3>1. Len(wire) \in Nat \ {0}
      BY <2>1, LinkFacts, EmptySeq
    <3>. QED BY <3>1
  <2>5. NothingBefore
    BY DEF OrderInv, Resumes
  <2>6. f.seq <= lastSeq + 1
    BY <2>1, <2>3, <2>4, <2>5 DEF NothingBefore, Reaches
  <2>. QED BY <1>1, <2>2, <2>3, <2>6
<1>3. CASE ~Deliver
  <2>1. UNCHANGED lastSeq
    BY <1>3 DEF Next, Submissions, ServerMoves, ListError, Connect, SendSnapshot, Drop, StreamEnds,
                Restart, HandleError, AnswerResync, ResyncFails, ResyncArrives, PollTick,
                AnswerPoll, PollArrives, clientVars
  <2>. QED BY <1>1, <2>1
<1>. QED BY <1>2, <1>3

-----------------------------------------------------------------------------
(* The stages are kept *)

\* What t holds is in s, or is e.
From(t, s, e) == \A i \in 1 .. Len(t) : t[i] = e \/ \E j \in 1 .. Len(s) : t[i] = s[j]

LEMMA FromFacts ==
  ASSUME NEW S, NEW s \in Seq(S), NEW e \in S
  PROVE  /\ \A cap \in Nat \ {0} : Len(s) <= cap => From(Push(s, e, cap), s, e)
         /\ From(Append(s, e), s, e)
         /\ \A m \in 1 .. Len(s) + 1 : \A i \in 1 .. Len(SubSeq(s, m, Len(s))) :
              \E j \in 1 .. Len(s) : SubSeq(s, m, Len(s))[i] = s[j]
         /\ s # <<>> => \A i \in 1 .. Len(Tail(s)) : \E j \in 1 .. Len(s) : Tail(s)[i] = s[j]
<1>1. Len(s) \in Nat
  BY LenProperties
<1>2. ASSUME NEW cap \in Nat \ {0}, Len(s) <= cap, NEW i \in 1 .. Len(Push(s, e, cap))
      PROVE  Push(s, e, cap)[i] = e \/ \E j \in 1 .. Len(s) : Push(s, e, cap)[i] = s[j]
  <2>. DEFINE p == Push(s, e, cap)
  <2>1. /\ Len(p) = IF Len(s) = cap THEN cap ELSE Len(s) + 1
        /\ p[Len(p)] = e
        /\ \A k \in 1 .. Len(p) - 1 : p[k] = s[k + Len(s) + 1 - Len(p)]
    BY <1>2, PushFacts
  <2>. HIDE DEF p
  <2>2. i \in 1 .. Len(p) /\ Len(p) \in Nat /\ Len(p) <= Len(s) + 1 /\ Len(s) <= Len(p)
    BY <1>1, <1>2, <2>1 DEF p
  <2>3. CASE i = Len(p)
    BY <2>1, <2>3 DEF p
  <2>4. CASE i # Len(p)
    <3>. DEFINE j == i + Len(s) + 1 - Len(p)
    <3>1. i \in 1 .. Len(p) - 1 /\ j \in 1 .. Len(s)
      BY <1>1, <2>2, <2>4
    <3>2. p[i] = s[j]
      BY <2>1, <3>1
    <3>. QED BY <3>1, <3>2 DEF p
  <2>. QED BY <2>3, <2>4
<1>3. ASSUME NEW i \in 1 .. Len(Append(s, e))
      PROVE  Append(s, e)[i] = e \/ \E j \in 1 .. Len(s) : Append(s, e)[i] = s[j]
  <2>1. /\ Len(Append(s, e)) = Len(s) + 1 /\ Append(s, e)[Len(s) + 1] = e
        /\ \A k \in 1 .. Len(s) : Append(s, e)[k] = s[k]
    BY AppendProperties
  <2>2. i \in 1 .. Len(s) \/ i = Len(s) + 1
    BY <1>1, <2>1
  <2>. QED BY <2>1, <2>2
<1>4. ASSUME NEW m \in 1 .. Len(s) + 1, NEW i \in 1 .. Len(SubSeq(s, m, Len(s)))
      PROVE  \E j \in 1 .. Len(s) : SubSeq(s, m, Len(s))[i] = s[j]
  <2>. DEFINE t == SubSeq(s, m, Len(s))
  <2>1. \A j \in 1 .. Len(s) : s[j] \in S
    BY ElementOfSeq
  <2>2. Len(t) = Len(s) - m + 1 /\ \A j \in 1 .. Len(t) : t[j] = s[m + j - 1]
    BY <1>1, <2>1, SubSeqProperties
  <2>3. m + i - 1 \in 1 .. Len(s)
    BY <1>1, <2>2
  <2>. QED BY <2>2, <2>3
<1>5. ASSUME s # <<>>, NEW i \in 1 .. Len(Tail(s))
      PROVE  \E j \in 1 .. Len(s) : Tail(s)[i] = s[j]
  <2>1. Len(Tail(s)) = Len(s) - 1 /\ \A k \in 1 .. Len(s) - 1 : Tail(s)[k] = s[k + 1]
    BY <1>5, HeadTailProperties
  <2>2. i + 1 \in 1 .. Len(s)
    BY <1>1, <2>1
  <2>. QED BY <2>1, <2>2
<1>. QED BY <1>2, <1>3, <1>4, <1>5 DEF From

LEMMA LinkElements ==
  ASSUME TypeOK
  PROVE  /\ \A i \in 1 .. Len(hub.ring) : hub.ring[i] \in Event
         /\ \A i \in 1 .. Len(chan.events) : chan.events[i] \in Event
         /\ \A i \in 1 .. Len(conn.backlog) : conn.backlog[i] \in Event
         /\ \A i \in 1 .. Len(conn.active) : conn.active[i] \in Frame
         /\ \A i \in 1 .. Len(wire) : wire[i] \in Frame
         /\ \A x \in Event \union Frame : x.op \in Op /\ x.stage \in Stage /\ x.stage \in Nat
         /\ row \in [Op -> Stage] /\ unpublished \in [Op -> Stage] /\ view \in [Op -> Stage]
         /\ \A o \in Op : row[o] \in Stage /\ row[o] \in Nat /\ view[o] \in Stage /\ view[o] \in Nat
<1>1. /\ \A i \in 1 .. Len(hub.ring) : hub.ring[i] \in Event
      /\ \A i \in 1 .. Len(chan.events) : chan.events[i] \in Event
  <2>1. hub.ring \in Seq(Event) /\ chan.events \in Seq(Event)
    BY LinkFacts
  <2>. QED BY <2>1, ElementOfSeq
<1>2. \A i \in 1 .. Len(conn.backlog) : conn.backlog[i] \in Event
  <2>1. conn.backlog \in Seq(Event)
    BY LinkFacts
  <2>. QED BY <2>1, ElementOfSeq
<1>3. /\ \A i \in 1 .. Len(conn.active) : conn.active[i] \in Frame
      /\ \A i \in 1 .. Len(wire) : wire[i] \in Frame
  <2>1. conn.active \in Seq(Frame) /\ wire \in Seq(Frame)
    BY LinkFacts
  <2>. QED BY <2>1, ElementOfSeq
<1>4. \A x \in Event \union Frame : x.op \in Op /\ x.stage \in Stage /\ x.stage \in Nat
  BY StageFacts DEF Event, Frame
<1>5. row \in [Op -> Stage] /\ unpublished \in [Op -> Stage] /\ view \in [Op -> Stage]
  BY DEF TypeOK, ServerTypeOK
<1>6. \A o \in Op : row[o] \in Stage /\ row[o] \in Nat /\ view[o] \in Stage /\ view[o] \in Nat
  BY <1>5, StageFacts
<1>. QED BY <1>1, <1>2, <1>3, <1>4, <1>5, <1>6

\* The ledger only moves on.
LEMMA LaterStages ==
  ASSUME TypeOK, StagesPast, row' \in [Op -> Stage], \A o \in Op : row[o] <= row'[o]
  PROVE  /\ \A i \in 1 .. Len(hub.ring) : hub.ring[i].stage <= row'[hub.ring[i].op]
         /\ \A i \in 1 .. Len(chan.events) : chan.events[i].stage <= row'[chan.events[i].op]
         /\ \A i \in 1 .. Len(conn.backlog) : conn.backlog[i].stage <= row'[conn.backlog[i].op]
         /\ \A i \in 1 .. Len(conn.active) : conn.active[i].stage <= row'[conn.active[i].op]
         /\ \A i \in 1 .. Len(wire) : wire[i].stage <= row'[wire[i].op]
         /\ \A o \in Op : /\ view[o] <= row'[o]
                          /\ resyncFetch.rows[o] <= row'[o]
                          /\ pollFetch.rows[o] <= row'[o]
<1>1. ASSUME NEW x \in Event \union Frame, x.stage <= row[x.op] PROVE x.stage <= row'[x.op]
  <2>1. x.op \in Op /\ x.stage \in Nat
    BY StageFacts DEF Event, Frame
  <2>2. row[x.op] \in Nat /\ row'[x.op] \in Nat /\ row[x.op] <= row'[x.op]
    BY <2>1, StageFacts DEF TypeOK, ServerTypeOK
  <2>. QED BY <1>1, <2>1, <2>2
<1>2. ASSUME NEW o \in Op, NEW v \in Nat, v <= row[o] PROVE v <= row'[o]
  <2>1. row[o] \in Nat /\ row'[o] \in Nat /\ row[o] <= row'[o]
    BY StageFacts DEF TypeOK, ServerTypeOK
  <2>. QED BY <1>2, <2>1
<1>3. \A o \in Op : view[o] \in Nat /\ resyncFetch.rows[o] \in Nat /\ pollFetch.rows[o] \in Nat
  BY StageFacts DEF TypeOK, Fetch
<1>4. /\ \A i \in 1 .. Len(hub.ring) : hub.ring[i].stage <= row'[hub.ring[i].op]
      /\ \A i \in 1 .. Len(chan.events) : chan.events[i].stage <= row'[chan.events[i].op]
      /\ \A i \in 1 .. Len(conn.backlog) : conn.backlog[i].stage <= row'[conn.backlog[i].op]
  BY <1>1, LinkElements DEF StagesPast, Behind
<1>5. /\ \A i \in 1 .. Len(conn.active) : conn.active[i].stage <= row'[conn.active[i].op]
      /\ \A i \in 1 .. Len(wire) : wire[i].stage <= row'[wire[i].op]
  BY <1>1, LinkElements DEF StagesPast, Behind
<1>6. \A o \in Op : /\ view[o] <= row'[o]
                    /\ resyncFetch.rows[o] <= row'[o]
                    /\ pollFetch.rows[o] <= row'[o]
  BY <1>2, <1>3 DEF StagesPast
<1>. QED BY <1>4, <1>5, <1>6

stageVars == <<row, unpublished, hub, conn, chan, wire, view, resyncFetch, pollFetch, polling, spoiled>>

LEMMA StageStutters ==
  ASSUME StageInv, UNCHANGED stageVars
  PROVE  StageInv'
<1>1. StagesPast' /\ AllTell' /\ Published'
  BY DEF StageInv, stageVars, StagesPast, AllTell, Published, Behind
<1>2. Received' /\ ActiveListed' /\ Sent'
  BY DEF StageInv, stageVars, Received, ActiveListed, Sent, Open, Waiting, Quiet
<1>3. Shown'
  BY DEF StageInv, stageVars, Shown, Heard, Quiet, SeenRight, Needed, DoneRows, Replaceable
<1>. QED BY <1>1, <1>2, <1>3 DEF StageInv

\* A row that moves on has its event to come; what the page needs to show of
\* the others only shrinks.
LEMMA CommitStage ==
  ASSUME TypeOK, StageInv, NEW o \in Op, Commit(o),
         UNCHANGED <<view, resyncFetch, pollFetch, polling, spoiled>>
  PROVE  StageInv'
<1>1. /\ row' \in [Op -> Stage] /\ row'[o] = row[o] + 1
      /\ unpublished'[o] = row'[o] /\ unpublished'[o] # Absent
      /\ \A p \in Op : p # o => row'[p] = row[p] /\ unpublished'[p] = unpublished[p]
      /\ UNCHANGED <<hub, conn, chan, wire>>
  BY CommitFacts DEF TypeOK
<1>2. \A p \in Op : row[p] <= row'[p]
  <2>1. TAKE p \in Op
  <2>2. row[p] \in Nat /\ row'[p] \in {row[p], row[p] + 1}
    BY <1>1, LinkElements
  <2>. QED BY <2>2
<1>3. StagesPast'
  BY <1>1, <1>2, LaterStages DEF StageInv, StagesPast, Behind
<1>4. AllTell'
  BY <1>1 DEF StageInv, AllTell
<1>5. \A p \in Op : unpublished'[p] = Absent =>
        p # o /\ row'[p] = row[p] /\ unpublished[p] = Absent
  BY <1>1
<1>6. Published'
  BY <1>1, <1>5 DEF StageInv, Published
<1>7. Received'
  BY <1>1, <1>5 DEF StageInv, Received, Open, Waiting
<1>8. ActiveListed' /\ Sent'
  BY <1>1, <1>5 DEF StageInv, ActiveListed, Sent, Quiet
<1>9. Shown'
  <2>1. ASSUME NEW p \in Op, row'[p] = row[p], Needed(p)' PROVE Needed(p)
    <3>1. CASE row[p] \in Active
      BY <3>1 DEF Needed
    <3>2. CASE p \in Newest(DoneRows', DoneLimit)
      <4>. DEFINE S == DoneRows
                  T == DoneRows'
      <4>1. T \in SUBSET Op /\ S \in SUBSET T
        <5>1. \A q \in Op : row[q] = Done => row'[q] = Done
          <6>1. row[o] # Done
            BY DEF Commit, Done
          <6>. QED BY <1>1, <6>1
        <5>. QED BY <5>1 DEF DoneRows
      <4>2. p \in S
        <5>1. p \in DoneRows'
          BY <3>2 DEF Newest
        <5>. QED BY <2>1, <5>1 DEF DoneRows
      <4>. HIDE DEF S, T
      <4>3. p \in Newest(S, DoneLimit)
        BY <3>2, <4>1, <4>2, Constants, NewestOfMore DEF T
      <4>. QED BY <4>3 DEF Needed, S
    <3>. QED BY <2>1, <3>1, <3>2 DEF Needed
  <2>2. ASSUME NEW p \in Op, Heard(p)'
        PROVE  Heard(p) /\ row'[p] = row[p]
    BY <1>1, <1>5, <2>2 DEF Heard, Quiet
  <2>3. Replaceable' => Replaceable
    BY <1>1 DEF Replaceable
  <2>4. SUFFICES ASSUME conn.pc = "live", ~chan.lagged, spoiled = {}, NEW p \in Op, Heard(p)'
                 PROVE  SeenRight(p)' /\ (Replaceable' => ~Needed(p)')
    BY <1>1 DEF Shown
  <2>5. SeenRight(p) /\ (Replaceable => ~Needed(p)) /\ row'[p] = row[p] /\ view'[p] = view[p]
    BY <2>2, <2>4 DEF StageInv, Shown
  <2>6. SeenRight(p)'
    BY <2>1, <2>5 DEF SeenRight
  <2>7. Replaceable' => ~Needed(p)'
    BY <2>1, <2>3, <2>5
  <2>. QED BY <2>6, <2>7
<1>. QED BY <1>3, <1>4, <1>6, <1>7, <1>8, <1>9 DEF StageInv

\* An event that is published is the last there is about its row, in the ring
\* and, if nothing is lost, in the receiver.
LEMMA PublishStage ==
  ASSUME TypeOK, StageInv, NEW o \in Op, Publish(o),
         UNCHANGED <<view, resyncFetch, pollFetch, polling, spoiled>>
  PROVE  StageInv'
<1>1. PICK e \in Event :
           /\ e.op = o /\ e.stage = unpublished[o] /\ Of(e, o)
           /\ \A p : p # o => ~Of(e, p)
           /\ hub'.ring = Push(hub.ring, e, RingCap)
           /\ ~Open => chan' = chan
           /\ Open => /\ chan'.events = Push(chan.events, e, ChanCap)
                      /\ chan'.lagged = (chan.lagged \/ Len(chan.events) = ChanCap)
           /\ unpublished'[o] = Absent /\ \A p \in Op : p # o => unpublished'[p] = unpublished[p]
           /\ UNCHANGED <<row, conn, wire>>
  BY PublishFacts DEF TypeOK
<1>2. /\ hub.ring \in Seq(Event) /\ Len(hub.ring) <= RingCap /\ RingCap \in Nat \ {0}
      /\ chan.events \in Seq(Event) /\ Len(chan.events) <= ChanCap /\ ChanCap \in Nat \ {0}
  BY LinkFacts, Constants
<1>3. e.stage = row[o] /\ e.stage # Absent /\ e.stage <= row[e.op]
  <2>1. e.stage = row[o] /\ e.stage # Absent
    BY <1>1 DEF StageInv, Published, Publish
  <2>2. row[o] \in Nat
    BY LinkElements
  <2>. QED BY <1>1, <2>1, <2>2
<1>4. /\ From(hub'.ring, hub.ring, e)
      /\ Open => From(chan'.events, chan.events, e)
  BY <1>1, <1>2, FromFacts
<1>5. StagesPast'
  <2>1. \A i \in 1 .. Len(hub'.ring) : hub'.ring[i].stage <= row[hub'.ring[i].op]
    BY <1>3, <1>4 DEF From, StageInv, StagesPast, Behind
  <2>2. \A i \in 1 .. Len(chan'.events) : chan'.events[i].stage <= row[chan'.events[i].op]
    BY <1>1, <1>3, <1>4 DEF From, StageInv, StagesPast, Behind
  <2>. QED BY <1>1, <2>1, <2>2 DEF StageInv, StagesPast, Behind
<1>6. AllTell'
  <2>1. \A i \in 1 .. Len(hub'.ring) : hub'.ring[i].stage # Absent
    BY <1>3, <1>4 DEF From, StageInv, AllTell
  <2>2. \A i \in 1 .. Len(chan'.events) : chan'.events[i].stage # Absent
    BY <1>1, <1>3, <1>4 DEF From, StageInv, AllTell
  <2>. QED BY <1>1, <2>1, <2>2 DEF StageInv, AllTell
<1>7. LastIs(hub'.ring, o, row[o])
  BY <1>1, <1>2, <1>3, PushTells
<1>8. Published'
  <2>1. ASSUME NEW p \in Op, p # o, unpublished[p] = Absent PROVE LastIs(hub'.ring, p, row[p])
    <3>1. LastIs(hub.ring, p, row[p]) /\ ~Of(e, p)
      BY <1>1, <2>1 DEF StageInv, Published
    <3>. QED BY <1>1, <1>2, <3>1, PushTells
  <2>. QED BY <1>1, <1>7, <2>1 DEF StageInv, Published
\* What the receiver holds about a row that is all published.
<1>9. ASSUME Open, ~chan'.lagged
      PROVE  /\ ~chan.lagged /\ LastIs(chan'.events, o, row[o]) /\ Tells(chan'.events, o)
             /\ \A p \in Op : p # o =>
                  /\ LastIs(chan.events, p, row[p]) => LastIs(chan'.events, p, row[p])
                  /\ ~Tells(chan'.events, p) => ~Tells(chan.events, p)
  <2>1. ~chan.lagged /\ Len(chan.events) # ChanCap /\ chan'.events = Push(chan.events, e, ChanCap)
    BY <1>1, <1>9
  <2>2. LastIs(chan'.events, o, row[o]) /\ Tells(chan'.events, o)
    <3>1. LastIs(Push(chan.events, e, ChanCap), o, row[o])
      BY <1>1, <1>2, <1>3, PushTells
    <3>2. Tells(Push(chan.events, e, ChanCap), o)
      BY <1>1, <1>2, PushTells
    <3>. QED BY <2>1, <3>1, <3>2
  <2>3. ASSUME NEW p \in Op, p # o
        PROVE  /\ LastIs(chan.events, p, row[p]) => LastIs(chan'.events, p, row[p])
               /\ ~Tells(chan'.events, p) => ~Tells(chan.events, p)
    <3>1. ~Of(e, p)
      BY <1>1, <2>3
    <3>. QED BY <1>2, <2>1, <3>1, PushTells
  <2>. QED BY <2>1, <2>2, <2>3
<1>10. Open' = Open /\ Waiting' = Waiting /\ conn' = conn /\ row' = row
  BY <1>1 DEF Open, Waiting
<1>11. Received'
  <2>1. SUFFICES ASSUME Open, ~chan'.lagged, NEW p \in Op, unpublished'[p] = Absent
                 PROVE  /\ LastIs(chan'.events, p, row[p])
                        /\ Waiting /\ ~Tells(chan'.events, p) => LastIs(conn.backlog, p, row[p])
    BY <1>10 DEF Received
  <2>2. CASE p = o
    BY <1>9, <2>1, <2>2
  <2>3. CASE p # o
    <3>1. unpublished[p] = Absent
      BY <1>1, <2>1, <2>3
    <3>2. /\ LastIs(chan.events, p, row[p])
          /\ Waiting /\ ~Tells(chan.events, p) => LastIs(conn.backlog, p, row[p])
      BY <1>9, <2>1, <3>1 DEF StageInv, Received
    <3>. QED BY <1>9, <2>1, <2>3, <3>2
  <2>. QED BY <2>2, <2>3
<1>12. ASSUME Open, ~chan'.lagged, NEW p \in Op, Quiet(p)' PROVE Quiet(p) /\ ~chan.lagged
  <2>1. unpublished'[p] = Absent /\ ~Tells(chan'.events, p)
    BY <1>12 DEF Quiet
  <2>2. p # o
    BY <1>9, <1>12, <2>1
  <2>3. unpublished[p] = Absent /\ ~Tells(chan.events, p)
    BY <1>1, <1>9, <1>12, <2>1, <2>2
  <2>. QED BY <1>9, <1>12, <2>3 DEF Quiet
<1>13. ActiveListed'
  <2>1. ASSUME conn.pc = "listed", ~chan'.lagged, NEW p \in Op, Quiet(p)'
        PROVE  /\ row[p] \in Active => Tells(conn.active, p)
               /\ LastIs(conn.active, p, row[p])
    BY <1>12, <2>1 DEF StageInv, ActiveListed, Open
  <2>. QED BY <1>10, <2>1 DEF ActiveListed
<1>14. Sent'
  <2>1. ASSUME conn.pc = "live", ~chan'.lagged, NEW p \in Op, Quiet(p)'
        PROVE  LastIs(wire, p, row[p])
    BY <1>12, <2>1 DEF StageInv, Sent, Open
  <2>. QED BY <1>1, <1>10, <2>1 DEF Sent
<1>15. Shown'
  <2>1. SUFFICES ASSUME conn.pc = "live", ~chan'.lagged, spoiled = {}, NEW p \in Op, Heard(p)'
                 PROVE  SeenRight(p)' /\ (Replaceable' => ~Needed(p)')
    BY <1>10 DEF Shown
  <2>2. Quiet(p)' /\ ~Tells(wire, p)
    BY <1>1, <2>1 DEF Heard
  <2>3. Heard(p) /\ ~chan.lagged
    BY <1>12, <2>1, <2>2 DEF Heard, Open
  <2>4. SeenRight(p) /\ (Replaceable => ~Needed(p))
    BY <2>1, <2>3 DEF StageInv, Shown
  <2>5. SeenRight(p)' = SeenRight(p) /\ Needed(p)' = Needed(p) /\ Replaceable' = Replaceable
    BY <1>1, <1>10 DEF SeenRight, Needed, DoneRows, Replaceable
  <2>. QED BY <2>4, <2>5
<1>. QED BY <1>5, <1>6, <1>8, <1>11, <1>13, <1>14, <1>15 DEF StageInv

\* The replay is an end of the ring, and the ring ends with every stage.
LEMMA ConnectStage ==
  ASSUME TypeOK, OrderInv, StageInv, Connect
  PROVE  StageInv'
<1>1. Subscribe(lastSeq) /\ UNCHANGED <<view, resyncFetch, pollFetch, polling, spoiled>>
  BY DEF Connect, clientVars
<1>2. ServerTypeOK /\ Numbered /\ lastSeq \in Nat /\ hub.ring \in Seq(Event)
  BY LinkFacts DEF OrderInv, TypeOK
<1>3. /\ conn'.pc = "subscribed" /\ conn'.active = <<>>
      /\ chan'.events = <<>> /\ chan'.lagged = FALSE
      /\ UNCHANGED <<row, unpublished, hub, wire>>
      /\ \E m \in 1 .. Len(hub.ring) + 1 : conn'.backlog = SubSeq(hub.ring, m, Len(hub.ring))
  BY <1>1, <1>2, SubscribeFacts
<1>4. PICK m \in 1 .. Len(hub.ring) + 1 : conn'.backlog = SubSeq(hub.ring, m, Len(hub.ring))
  BY <1>3
<1>5. \A i \in 1 .. Len(conn'.backlog) : \E j \in 1 .. Len(hub.ring) : conn'.backlog[i] = hub.ring[j]
  <2>1. [op |-> 1, stage |-> Absent, seq |-> NoSeq] \in Event
    BY Constants, StageFacts DEF Event, NoSeq
  <2>2. PICK e : e \in Event
    BY <2>1
  <2>3. \A n \in 1 .. Len(hub.ring) + 1 : \A i \in 1 .. Len(SubSeq(hub.ring, n, Len(hub.ring))) :
          \E j \in 1 .. Len(hub.ring) : SubSeq(hub.ring, n, Len(hub.ring))[i] = hub.ring[j]
    BY <1>2, <2>2, FromFacts
  <2>. QED BY <1>4, <2>3
<1>6. StagesPast' /\ AllTell'
  <2>1. \A i \in 1 .. Len(conn'.backlog) :
          conn'.backlog[i].stage <= row[conn'.backlog[i].op] /\ conn'.backlog[i].stage # Absent
    BY <1>5 DEF StageInv, StagesPast, AllTell, Behind
  <2>. QED BY <1>1, <1>3, <2>1 DEF StageInv, StagesPast, AllTell, Behind
<1>7. Published'
  BY <1>3 DEF StageInv, Published
<1>8. Received'
  <2>1. ASSUME NEW o \in Op, unpublished[o] = Absent
        PROVE  LastIs(chan'.events, o, row[o]) /\ LastIs(conn'.backlog, o, row[o])
    <3>1. LastIs(chan'.events, o, row[o])
      BY <1>3, OfEmpty
    <3>2. LastIs(hub.ring, o, row[o])
      BY <2>1 DEF StageInv, Published
    <3>3. LastIs(SubSeq(hub.ring, m, Len(hub.ring)), o, row[o])
      BY <1>2, <3>2, OfSuffix
    <3>. QED BY <1>4, <3>1, <3>3
  <2>. QED BY <1>3, <2>1 DEF Received
<1>9. ActiveListed' /\ Sent' /\ Shown'
  BY <1>3 DEF ActiveListed, Sent, Shown
<1>. QED BY <1>6, <1>7, <1>8, <1>9 DEF StageInv

LEMMA ListActiveStage ==
  ASSUME TypeOK, StageInv, ListActive,
         UNCHANGED <<view, resyncFetch, pollFetch, polling, spoiled>>
  PROVE  StageInv'
<1>1. /\ conn.pc = "subscribed" /\ conn'.pc = "listed" /\ conn'.active = RowFrames(ActiveRows)
      /\ conn'.backlog = conn.backlog
      /\ UNCHANGED <<row, unpublished, hub, chan, wire>>
  BY ListActiveFacts DEF TypeOK
<1>2. /\ \A i \in 1 .. Len(conn'.active) :
           conn'.active[i].stage # Absent /\ conn'.active[i].stage = row[conn'.active[i].op]
      /\ \A o \in ActiveRows : Tells(conn'.active, o)
      /\ \A o : LastIs(conn'.active, o, row[o])
  <2>1. ActiveRows \in SUBSET Op /\ \A o \in ActiveRows : row[o] # Absent
    BY DEF ActiveRows, Active, Absent, Queued, Running
  <2>. QED BY <1>1, <2>1, LinkElements, Constants, RowFramesFacts
<1>3. StagesPast' /\ AllTell'
  <2>1. ASSUME NEW i \in 1 .. Len(conn'.active)
        PROVE  conn'.active[i].stage <= row[conn'.active[i].op]
    <3>1. conn'.active[i] \in Frame
      <4>1. conn'.active \in Seq(Frame)
        BY ListActiveFacts DEF TypeOK, LinkTypeOK, Conn
      <4>. QED BY <4>1, ElementOfSeq
    <3>. DEFINE v == conn'.active[i].stage
    <3>2. v \in Nat /\ v = row[conn'.active[i].op]
      BY <1>2, <3>1, LinkElements
    <3>. HIDE DEF v
    <3>3. v <= row[conn'.active[i].op]
      BY <3>2
    <3>. QED BY <3>3 DEF v
  <2>. QED BY <1>1, <1>2, <2>1 DEF StageInv, StagesPast, AllTell, Behind
<1>4. Published'
  BY <1>1 DEF StageInv, Published
<1>5. Received'
  BY <1>1 DEF StageInv, Received, Open, Waiting
<1>6. ActiveListed'
  BY <1>1, <1>2 DEF ActiveListed, ActiveRows
<1>7. Sent' /\ Shown'
  BY <1>1 DEF Sent, Shown
<1>. QED BY <1>3, <1>4, <1>5, <1>6, <1>7 DEF StageInv

\* The first frames: the backlog ends with the stage of a row it tells of, and
\* the snapshot shows the others.
LEMMA StartBridgeStage ==
  ASSUME TypeOK, OrderInv, StageInv, Waiting, NEW snapshot \in Seq(Frame), StartBridge(snapshot),
         \A i \in 1 .. Len(snapshot) : /\ snapshot[i].kind = "snapshot" /\ snapshot[i].stage # Absent
                                       /\ snapshot[i].stage <= row[snapshot[i].op],
         ~chan.lagged => \A o \in Op : Quiet(o) => LastIs(snapshot, o, row[o]),
         UNCHANGED <<view, resyncFetch, pollFetch>>
  PROVE  /\ (StagesPast /\ AllTell /\ Published /\ Received /\ ActiveListed /\ Sent)'
         /\ conn'.pc = "live" /\ UNCHANGED <<row, unpublished, chan>>
         /\ \A o : Tells(wire', o) <=> Tells(snapshot, o) \/ Tells(conn.backlog, o)
<1>1. /\ conn'.pc = "live" /\ conn'.backlog = <<>> /\ conn'.active = <<>>
      /\ Announced \in Seq(Frame)
      /\ wire' = (Announced \o snapshot) \o EventFrames(conn.backlog)
      /\ UNCHANGED <<row, unpublished, hub, chan>>
  BY StartBridgeFacts DEF TypeOK
<1>2. conn.backlog \in Seq(Event)
  BY LinkFacts
<1>3. /\ EventFrames(conn.backlog) \in Seq(Frame)
      /\ \A o : Tells(EventFrames(conn.backlog), o) <=> Tells(conn.backlog, o)
      /\ \A o, v : LastIs(conn.backlog, o, v) => LastIs(EventFrames(conn.backlog), o, v)
  BY <1>2, EventFramesFacts
<1>4. \A o, v : ~Tells(Announced, o) /\ LastIs(Announced, o, v)
  <2>1. CASE conn.resync
    <3>1. Announced = <<ResyncFrame>> /\ \A o : ~Of(ResyncFrame, o)
      BY <2>1, FrameFacts DEF Announced, Of
    <3>. HIDE DEF Announced
    <3>. QED BY <3>1, OfSingle
  <2>2. CASE ~conn.resync
    <3>1. Announced = <<>>
      BY <2>2 DEF Announced
    <3>. QED BY <3>1, OfEmpty
  <2>. QED BY <2>1, <2>2
<1>. DEFINE a == Announced
            b == EventFrames(conn.backlog)
<1>. HIDE DEF a, b
<1>5. a \in Seq(Frame) /\ b \in Seq(Frame) /\ a \o snapshot \in Seq(Frame)
  BY <1>1, <1>3, ConcatProperties DEF a, b
<1>6. \A o : /\ Tells(a \o snapshot, o) <=> Tells(snapshot, o)
             /\ LastIs(snapshot, o, row[o]) => LastIs(a \o snapshot, o, row[o])
  <2>1. TAKE o
  <2>2. ~Tells(a, o) /\ LastIs(a, o, row[o])
    BY <1>4 DEF a
  <2>. QED BY <1>5, <2>2, OfConcat
<1>7. \A o : /\ Tells(wire', o) <=> Tells(snapshot, o) \/ Tells(conn.backlog, o)
             /\ LastIs(snapshot, o, row[o]) /\ LastIs(conn.backlog, o, row[o]) =>
                  LastIs(wire', o, row[o])
  <2>1. TAKE o
  <2>. DEFINE s == a \o snapshot
  <2>. HIDE DEF s
  <2>2. /\ Tells(s, o) <=> Tells(snapshot, o)
        /\ LastIs(snapshot, o, row[o]) => LastIs(s, o, row[o])
    BY <1>6 DEF s
  <2>3. /\ Tells(b, o) <=> Tells(conn.backlog, o)
        /\ LastIs(conn.backlog, o, row[o]) => LastIs(b, o, row[o])
    BY <1>3 DEF b
  <2>4. wire' = s \o b /\ s \in Seq(Frame)
    BY <1>1, <1>5 DEF s, a, b
  <2>5. /\ Tells(s \o b, o) <=> Tells(s, o) \/ Tells(b, o)
        /\ LastIs(b, o, row[o]) /\ LastIs(s, o, row[o]) => LastIs(s \o b, o, row[o])
    BY <1>5, <2>4, OfConcat
  <2>. QED BY <2>2, <2>3, <2>4, <2>5
<1>8. \A i \in 1 .. Len(wire') :
        /\ wire'[i].kind = "resync" <=> wire'[i].stage = Absent
        /\ wire'[i].stage <= row[wire'[i].op]
  <2>. DEFINE r == Len(Announced)
              n == Len(snapshot)
              k == Len(conn.backlog)
  <2>1. /\ r = (IF conn.resync THEN 1 ELSE 0) /\ n \in Nat /\ k \in Nat
        /\ Len(wire') = r + n + k
        /\ \A i \in 1 .. r : wire'[i] = ResyncFrame
        /\ \A i \in r + 1 .. r + n : wire'[i] = snapshot[i - r]
        /\ \A i \in r + n + 1 .. r + n + k :
             conn.backlog[i - r - n] \in Event /\ wire'[i] = EventFrame(conn.backlog[i - r - n])
    BY FirstFrames
  <2>. HIDE DEF r, k
  <2>2. r \in 0 .. 1
    BY <2>1
  <2>. HIDE DEF n
  <2>3. SUFFICES ASSUME NEW i \in 1 .. Len(wire')
                 PROVE  /\ wire'[i].kind = "resync" <=> wire'[i].stage = Absent
                        /\ wire'[i].stage <= row[wire'[i].op]
    OBVIOUS
  <2>4. \/ i \in 1 .. r \/ i \in r + 1 .. r + n \/ i \in r + n + 1 .. r + n + k
    BY <2>1, <2>2
  <2>5. CASE i \in 1 .. r
    <3>1. wire'[i] = ResyncFrame
      BY <2>1, <2>5
    <3>2. row[ResyncFrame.op] \in Nat
      BY FrameFacts, LinkElements
    <3>3. Absent <= row[ResyncFrame.op]
      BY <3>2 DEF Absent
    <3>. QED BY <3>1, <3>3, FrameFacts
  <2>6. CASE i \in r + 1 .. r + n
    <3>1. i - r \in 1 .. Len(snapshot)
      BY <2>1, <2>2, <2>6 DEF n
    <3>. QED BY <2>1, <2>6, <3>1
  <2>7. CASE i \in r + n + 1 .. r + n + k
    <3>. DEFINE e == conn.backlog[i - r - n]
    <3>1. i - r - n \in 1 .. k
      BY <2>1, <2>2, <2>7
    <3>2. e \in Event /\ wire'[i] = EventFrame(e)
      BY <2>1, <2>7
    <3>3. e.stage # Absent /\ e.stage <= row[e.op]
      BY <3>1 DEF StageInv, AllTell, StagesPast, Behind, k
    <3>. QED BY <3>2, <3>3, FrameFacts DEF IsEvent
  <2>. QED BY <2>4, <2>5, <2>6, <2>7
<1>9. StagesPast' /\ AllTell'
  <2>1. Len(conn'.backlog) = 0 /\ Len(conn'.active) = 0
    BY <1>1
  <2>. QED BY <1>1, <1>8, <2>1 DEF StageInv, StagesPast, AllTell, Behind
<1>10. Published'
  BY <1>1 DEF StageInv, Published
<1>11. Received'
  BY <1>1 DEF StageInv, Received, Open, Waiting
<1>12. ActiveListed'
  BY <1>1 DEF ActiveListed
<1>13. Sent'
  <2>1. SUFFICES ASSUME ~chan.lagged, NEW o \in Op, Quiet(o) PROVE LastIs(wire', o, row[o])
    BY <1>1 DEF Sent, Quiet
  <2>2. LastIs(conn.backlog, o, row[o])
    BY <2>1 DEF StageInv, Received, Open, Waiting, Quiet
  <2>. QED BY <1>7, <2>1, <2>2
<1>. QED BY <1>1, <1>7, <1>9, <1>10, <1>11, <1>12, <1>13

\* What is not on its way is not coming.
LEMMA NotComing ==
  ASSUME TypeOK, NEW o \in Op, Quiet(o), ~Tells(conn.backlog, o), ~Tells(wire, o)
  PROVE  ~Coming(o)
<1>1. unpublished[o] # Done
  BY DEF Quiet, Done, Absent
<1>2. ASSUME NEW s, ~Tells(s, o), DOMAIN s = 1 .. Len(s), NEW x \in Range(s), x.op = o, x.stage = Done
      PROVE FALSE
  BY <1>2 DEF Range, Tells, Of, Done, Absent
<1>3. /\ DOMAIN conn.backlog = 1 .. Len(conn.backlog)
      /\ DOMAIN chan.events = 1 .. Len(chan.events)
      /\ DOMAIN wire = 1 .. Len(wire)
  BY LinkFacts, LenProperties
<1>. QED BY <1>1, <1>2, <1>3 DEF Coming, Quiet

\* A row the page may forget, nothing of which is coming, is shown right by
\* any list that leaves nothing behind.
LEMMA ForgottenRight ==
  ASSUME TypeOK, NEW rows \in [Op -> Stage], NEW o \in Op, rows[o] <= row[o], rows[o] # Absent,
         ~LeftBehind(rows), ~Needed(o), ~Coming(o)
  PROVE  rows[o] = row[o]
<1>1. row[o] \in Stage /\ row[o] \notin Active
  BY LinkElements DEF Needed
<1>2. o \notin Newest({p \in Op : row[p] = Done}, DoneLimit)
  BY DEF Needed, DoneRows
<1>3. row[o] = Done
  <2>1. rows[o] \in Nat /\ rows[o] \in Stage
    BY StageFacts
  <2>2. row[o] = Absent => FALSE
    BY <2>1 DEF Absent
  <2>. QED BY <1>1, <2>2, StageFacts
<1>4. rows[o] \notin Active
  BY <1>2, <1>3 DEF LeftBehind
<1>. QED BY <1>3, <1>4, StageFacts

\* What the snapshot does not tell of, the page need not show, or shows.
LEMMA SnapshotStage ==
  ASSUME TypeOK, OrderInv, StageInv, SendSnapshot
  PROVE  StageInv'
<1>. DEFINE T == Newest(DoneRows, DoneLimit)
            s == conn.active \o RowFrames(T)
<1>1. /\ ListDone /\ conn.pc = "listed" /\ Waiting /\ wire = <<>>
      /\ spoiled' = IF LeftBehind(view) THEN {"truncated"} ELSE {}
      /\ UNCHANGED <<view, resyncFetch, pollFetch, polling>>
  BY DEF SendSnapshot, ListDone, Waiting, clientVars, OrderInv, Shape
<1>2. /\ RowFrames(T) \in Seq(Frame) /\ conn.active \in Seq(Frame) /\ s \in Seq(Frame)
      /\ T \in SUBSET Op /\ \A o \in T : row[o] # Absent
      /\ StartBridge(s)
  BY <1>1, SnapshotFacts DEF TypeOK
<1>3. /\ \A i \in 1 .. Len(RowFrames(T)) :
           /\ RowFrames(T)[i].kind = "snapshot" /\ RowFrames(T)[i].stage # Absent
           /\ RowFrames(T)[i].stage = row[RowFrames(T)[i].op]
      /\ \A o \in T : Tells(RowFrames(T), o)
      /\ \A o : LastIs(RowFrames(T), o, row[o])
  BY <1>2, LinkElements, Constants, RowFramesFacts
<1>. HIDE DEF T
<1>. DEFINE a == conn.active
            t == RowFrames(T)
<1>. HIDE DEF t
<1>4. \A i \in 1 .. Len(t) : /\ t[i].kind = "snapshot" /\ t[i].stage # Absent
                             /\ t[i].stage <= row[t[i].op]
  <2>1. TAKE i \in 1 .. Len(t)
  <2>2. t[i] \in Frame
    BY <1>2, ElementOfSeq DEF t
  <2>3. row[t[i].op] \in Nat
    BY <2>2, LinkElements
  <2>4. t[i].stage <= row[t[i].op]
    <3>1. t[i].stage = row[t[i].op]
      BY <1>3 DEF t
    <3>. QED BY <2>3, <3>1
  <2>. QED BY <1>3, <2>4 DEF t
<1>5. \A i \in 1 .. Len(a) : /\ a[i].kind = "snapshot" /\ a[i].stage # Absent
                             /\ a[i].stage <= row[a[i].op]
  BY DEF OrderInv, Shape, StageInv, AllTell, StagesPast, Behind
<1>6. \A i \in 1 .. Len(s) : /\ s[i].kind = "snapshot" /\ s[i].stage # Absent
                             /\ s[i].stage <= row[s[i].op]
  <2>1. /\ Len(a) \in Nat /\ Len(t) \in Nat /\ Len(a \o t) = Len(a) + Len(t)
        /\ \A i \in 1 .. Len(a) : (a \o t)[i] = a[i]
        /\ \A i \in 1 .. Len(t) : (a \o t)[Len(a) + i] = t[i]
    BY <1>2, ConcatProperties, LenProperties DEF t
  <2>2. \A i \in 1 .. Len(a \o t) :
          i \in 1 .. Len(a) \/ (i - Len(a) \in 1 .. Len(t) /\ (a \o t)[i] = t[i - Len(a)])
    BY <2>1
  <2>. HIDE DEF a
  <2>3. \A i \in 1 .. Len(a \o t) : /\ (a \o t)[i].kind = "snapshot" /\ (a \o t)[i].stage # Absent
                                    /\ (a \o t)[i].stage <= row[(a \o t)[i].op]
    BY <1>4, <1>5, <2>1, <2>2
  <2>. QED BY <2>3 DEF a, t
<1>7. \A o : /\ Tells(s, o) <=> Tells(conn.active, o) \/ Tells(t, o)
             /\ LastIs(conn.active, o, row[o]) => LastIs(s, o, row[o])
  <2>1. TAKE o
  <2>2. LastIs(t, o, row[o])
    BY <1>3 DEF t
  <2>3. t \in Seq(Frame) /\ conn.active \in Seq(Frame)
    BY <1>2 DEF t
  <2>4. /\ Tells(conn.active \o t, o) <=> Tells(conn.active, o) \/ Tells(t, o)
        /\ LastIs(t, o, row[o]) /\ LastIs(conn.active, o, row[o]) => LastIs(conn.active \o t, o, row[o])
    BY <2>3, OfConcat
  <2>. QED BY <2>2, <2>4 DEF t
<1>. HIDE DEF s
<1>8. ~chan.lagged => \A o \in Op : Quiet(o) => LastIs(s, o, row[o])
  BY <1>1, <1>7 DEF StageInv, ActiveListed
<1>9. /\ (StagesPast /\ AllTell /\ Published /\ Received /\ ActiveListed /\ Sent)'
      /\ conn'.pc = "live" /\ UNCHANGED <<row, unpublished, chan>>
      /\ \A o : Tells(wire', o) <=> Tells(s, o) \/ Tells(conn.backlog, o)
  BY <1>1, <1>2, <1>6, <1>8, StartBridgeStage
<1>10. Shown'
  <2>1. SUFFICES ASSUME ~chan.lagged, ~LeftBehind(view), NEW o \in Op, Heard(o)'
                 PROVE  SeenRight(o)' /\ ~Needed(o)'
    BY <1>1, <1>9 DEF Shown
  <2>2. Quiet(o) /\ ~Tells(conn.active, o) /\ ~Tells(t, o) /\ ~Tells(conn.backlog, o)
    BY <1>7, <1>9, <2>1 DEF Heard, Quiet
  <2>3. row[o] \notin Active
    BY <1>1, <2>1, <2>2 DEF StageInv, ActiveListed
  <2>4. o \notin Newest(DoneRows, DoneLimit)
    BY <1>3, <2>2 DEF t, T
  <2>5. ~Needed(o)
    BY <2>3, <2>4 DEF Needed
  <2>6. ~Coming(o)
    <3>1. ~Tells(wire, o)
      BY <1>1, OfEmpty
    <3>. QED BY <2>2, <3>1, NotComing
  <2>7. view[o] # Absent => view[o] = row[o]
    <3>1. view \in [Op -> Stage] /\ view[o] <= row[o]
      BY LinkElements DEF StageInv, StagesPast
    <3>. QED BY <2>1, <2>5, <2>6, <3>1, ForgottenRight
  <2>8. ~Needed(o)' /\ view'[o] = view[o] /\ row'[o] = row[o]
    BY <1>1, <1>9, <2>5 DEF Needed, DoneRows
  <2>. QED BY <2>7, <2>8 DEF SeenRight
<1>. QED BY <1>9, <1>10 DEF StageInv

\* A snapshot that is empty leaves the page blind.
LEMMA ListErrorStage ==
  ASSUME TypeOK, OrderInv, StageInv, ListError
  PROVE  StageInv'
<1>1. /\ StartBridge(<<>>) /\ Waiting /\ "blind" \in spoiled'
      /\ UNCHANGED <<view, resyncFetch, pollFetch>>
  BY DEF ListError, ListFails, Waiting, clientVars
<1>2. <<>> \in Seq(Frame) /\ Len(<<>>) = 0 /\ \A o, v : LastIs(<<>>, o, v)
  BY OfEmpty
<1>3. (StagesPast /\ AllTell /\ Published /\ Received /\ ActiveListed /\ Sent)'
  <2>1. \A i \in 1 .. Len(<<>>) : /\ <<>>[i].kind = "snapshot" /\ <<>>[i].stage # Absent
                                  /\ <<>>[i].stage <= row[<<>>[i].op]
    BY <1>2
  <2>2. ~chan.lagged => \A o \in Op : Quiet(o) => LastIs(<<>>, o, row[o])
    BY <1>2
  <2>. DEFINE s == <<>>
  <2>. HIDE DEF s
  <2>3. /\ s \in Seq(Frame) /\ StartBridge(s)
        /\ \A i \in 1 .. Len(s) : /\ s[i].kind = "snapshot" /\ s[i].stage # Absent
                                 /\ s[i].stage <= row[s[i].op]
        /\ ~chan.lagged => \A o \in Op : Quiet(o) => LastIs(s, o, row[o])
    BY <1>1, <1>2, <2>1, <2>2 DEF s
  <2>. QED BY <1>1, <2>3, StartBridgeStage
<1>4. Shown'
  BY <1>1 DEF Shown
<1>. QED BY <1>3, <1>4 DEF StageInv

\* The bridge moves an event from the receiver to the wire, or closes.
LEMMA BridgeStage ==
  ASSUME TypeOK, OrderInv, StageInv, Bridge,
         UNCHANGED <<view, resyncFetch, pollFetch, polling, spoiled>>
  PROVE  StageInv'
<1>1. /\ BridgeCloses \/ \E e \in Event : BridgeSends(e)
      /\ BridgeCloses => /\ conn'.pc = "closing" /\ conn'.backlog = conn.backlog
                         /\ conn'.active = conn.active
      /\ UNCHANGED <<row, unpublished, hub>>
  BY BridgeFacts DEF TypeOK, OrderInv
<1>2. wire \in Seq(Frame) /\ chan.events \in Seq(Event) /\ conn.pc = "live"
  BY LinkFacts DEF Bridge
<1>3. Published'
  BY <1>1 DEF StageInv, Published
<1>4. ASSUME NEW g \in Frame, wire' = Append(wire, g), g.stage <= row[g.op],
             g.kind = "resync" <=> g.stage = Absent
      PROVE  \A i \in 1 .. Len(wire') : /\ wire'[i].stage <= row[wire'[i].op]
                                        /\ wire'[i].kind = "resync" <=> wire'[i].stage = Absent
  <2>1. From(wire', wire, g)
    BY <1>2, <1>4, FromFacts
  <2>2. \A i \in 1 .. Len(wire) : /\ wire[i].stage <= row[wire[i].op]
                                  /\ wire[i].kind = "resync" <=> wire[i].stage = Absent
    BY DEF StageInv, StagesPast, AllTell, Behind
  <2>. QED BY <1>4, <2>1, <2>2 DEF From
<1>5. CASE BridgeCloses
  <2>1. /\ wire' = Append(wire, ResyncFrame) /\ chan' = NoChan /\ conn'.pc = "closing"
        /\ conn'.backlog = conn.backlog /\ conn'.active = conn.active
    BY <1>1, <1>5 DEF BridgeCloses
  <2>2. Absent <= row[ResyncFrame.op]
    <3>1. row[ResyncFrame.op] \in Nat
      BY FrameFacts, LinkElements
    <3>. QED BY <3>1 DEF Absent
  <2>3. \A i \in 1 .. Len(wire') : /\ wire'[i].stage <= row[wire'[i].op]
                                   /\ wire'[i].kind = "resync" <=> wire'[i].stage = Absent
    BY <1>4, <2>1, <2>2, FrameFacts
  <2>4. Len(chan'.events) = 0
    BY <2>1 DEF NoChan
  <2>5. StagesPast' /\ AllTell'
    BY <1>1, <2>1, <2>3, <2>4 DEF StageInv, StagesPast, AllTell, Behind
  <2>6. Received' /\ ActiveListed' /\ Sent' /\ Shown'
    BY <2>1 DEF Received, ActiveListed, Sent, Shown, Open
  <2>. QED BY <1>3, <2>5, <2>6 DEF StageInv
<1>6. CASE \E e \in Event : BridgeSends(e)
  <2>1. PICK e \in Event : BridgeSends(e)
    BY <1>6
  <2>. DEFINE g == EventFrame(e)
  <2>2. /\ ~chan.lagged /\ chan.events # <<>> /\ e = Head(chan.events) /\ conn' = conn
        /\ chan'.events = Tail(chan.events) /\ chan'.lagged = FALSE
        /\ wire' = Append(wire, g)
    BY <2>1 DEF BridgeSends
  <2>3. /\ g \in Frame /\ g.kind = "transition" /\ g.op = e.op /\ g.stage = e.stage
        /\ \A o : Of(g, o) <=> Of(e, o)
    BY FrameFacts DEF IsEvent, Of
  <2>. HIDE DEF g
  <2>4. e.stage # Absent /\ e.stage <= row[e.op]
    <3>1. e = chan.events[1] /\ 1 \in 1 .. Len(chan.events)
      BY <1>2, <2>2, EmptySeq, LenProperties
    <3>. QED BY <3>1 DEF StageInv, AllTell, StagesPast, Behind
  <2>5. \A i \in 1 .. Len(wire') : /\ wire'[i].stage <= row[wire'[i].op]
                                   /\ wire'[i].kind = "resync" <=> wire'[i].stage = Absent
    BY <1>4, <2>2, <2>3, <2>4
  <2>6. \A i \in 1 .. Len(chan'.events) : /\ chan'.events[i].stage <= row[chan'.events[i].op]
                                          /\ chan'.events[i].stage # Absent
    <3>1. \A i \in 1 .. Len(Tail(chan.events)) :
            \E j \in 1 .. Len(chan.events) : Tail(chan.events)[i] = chan.events[j]
      BY <1>2, <2>2, FromFacts
    <3>2. \A j \in 1 .. Len(chan.events) : /\ chan.events[j].stage <= row[chan.events[j].op]
                                           /\ chan.events[j].stage # Absent
      BY DEF StageInv, StagesPast, AllTell, Behind
    <3>. QED BY <2>2, <3>1, <3>2
  <2>7. StagesPast' /\ AllTell'
    BY <1>1, <2>2, <2>5, <2>6 DEF StageInv, StagesPast, AllTell, Behind
  <2>8. \A o : /\ Tells(chan.events, o) <=> Of(e, o) \/ Tells(chan'.events, o)
               /\ LastIs(chan.events, o, row[o]) => LastIs(chan'.events, o, row[o])
               /\ LastIs(chan.events, o, row[o]) /\ Of(e, o) /\ ~Tells(chan'.events, o) =>
                    e.stage = row[o]
    <3>1. TAKE o
    <3>2. /\ Tells(chan.events, o) <=> Of(Head(chan.events), o) \/ Tells(Tail(chan.events), o)
          /\ LastIs(chan.events, o, row[o]) => LastIs(Tail(chan.events), o, row[o])
          /\ LastIs(chan.events, o, row[o]) /\ Of(Head(chan.events), o)
               /\ ~Tells(Tail(chan.events), o) => Head(chan.events).stage = row[o]
      BY <1>2, <2>2, OfTail
    <3>. QED BY <2>2, <3>2, Zenon
  <2>9. \A o : /\ Tells(wire', o) <=> Tells(wire, o) \/ Of(e, o)
               /\ Of(e, o) /\ e.stage = row[o] => LastIs(wire', o, row[o])
               /\ ~Of(e, o) /\ LastIs(wire, o, row[o]) => LastIs(wire', o, row[o])
    <3>1. TAKE o
    <3>2. /\ Tells(Append(wire, g), o) <=> Tells(wire, o) \/ Of(g, o)
          /\ Of(g, o) /\ g.stage = row[o] => LastIs(Append(wire, g), o, row[o])
          /\ ~Of(g, o) /\ LastIs(wire, o, row[o]) => LastIs(Append(wire, g), o, row[o])
      BY <1>2, <2>3, OfAppend
    <3>. QED BY <2>2, <2>3, <3>2, Zenon
  <2>10. \A o \in Op : unpublished[o] = Absent => LastIs(chan.events, o, row[o])
    BY <1>2, <2>2 DEF StageInv, Received, Open
  <2>11. Received'
    BY <1>1, <1>2, <2>2, <2>8, <2>10 DEF Received, Waiting
  <2>12. Sent'
    <3>1. SUFFICES ASSUME NEW o \in Op, unpublished[o] = Absent, ~Tells(chan'.events, o)
                   PROVE  LastIs(wire', o, row[o])
      BY <1>1, <2>2 DEF Sent, Quiet
    <3>2. CASE Of(e, o)
      BY <2>8, <2>9, <2>10, <3>1, <3>2
    <3>3. CASE ~Of(e, o)
      <4>1. Quiet(o)
        BY <2>8, <3>1, <3>3 DEF Quiet
      <4>2. LastIs(wire, o, row[o])
        BY <1>2, <2>2, <4>1 DEF StageInv, Sent
      <4>. QED BY <2>9, <3>3, <4>2
    <3>. QED BY <3>2, <3>3
  <2>13. ActiveListed'
    BY <1>2, <2>2 DEF ActiveListed
  <2>14. Shown'
    <3>1. SUFFICES ASSUME spoiled = {}, NEW o \in Op, Heard(o)'
                   PROVE  SeenRight(o)' /\ (Replaceable' => ~Needed(o)')
      BY <1>2, <2>2 DEF Shown
    <3>2. Heard(o)
      BY <1>1, <2>8, <2>9, <3>1 DEF Heard, Quiet
    <3>3. SeenRight(o) /\ (Replaceable => ~Needed(o))
      BY <1>2, <2>2, <3>1, <3>2 DEF StageInv, Shown
    <3>4. (SeenRight(o)' <=> SeenRight(o)) /\ (Needed(o)' <=> Needed(o))
      BY <1>1 DEF SeenRight, Needed, DoneRows
    <3>5. Replaceable' => Replaceable
      <4>1. ASSUME NEW i \in 1 .. Len(wire'), wire'[i].kind = "resync"
            PROVE  \E j \in 1 .. Len(wire) : wire[j].kind = "resync"
        <5>1. From(wire', wire, g)
          BY <1>2, <2>2, <2>3, FromFacts
        <5>. QED BY <2>3, <4>1, <5>1 DEF From
      <4>. QED BY <4>1 DEF Replaceable
    <3>. QED BY <3>3, <3>4, <3>5
  <2>. QED BY <1>3, <2>7, <2>11, <2>12, <2>13, <2>14 DEF StageInv
<1>. QED BY <1>1, <1>5, <1>6

\* A frame brings its row up to date if it is the last about it; and it stops
\* the poll, so that what was shown stays.
LEMMA DeliverStage ==
  ASSUME TypeOK, OrderInv, StageInv, Deliver
  PROVE  StageInv'
<1>1. PICK f \in Frame :
           /\ wire # <<>> /\ f = wire[1] /\ f = Head(wire) /\ wire' = Tail(wire)
           /\ UNCHANGED <<row, unpublished, hub, conn, chan, spoiled>>
           /\ f.kind # "resync" =>
                /\ view' = [view EXCEPT ![f.op] = f.stage]
                /\ polling' = FALSE /\ pollFetch' = NoFetch /\ resyncFetch' = resyncFetch
           /\ f.kind = "resync" =>
                /\ view' = EmptyView /\ resyncFetch' = Asked /\ UNCHANGED <<polling, pollFetch>>
  BY DeliverFacts
<1>2. wire \in Seq(Frame) /\ Len(wire) \in Nat \ {0} /\ 1 \in 1 .. Len(wire)
  BY <1>1, LinkFacts, EmptySeq
<1>3. /\ f.op \in Op /\ f.stage <= row[f.op] /\ view \in [Op -> Stage]
      /\ f.kind = "resync" <=> f.stage = Absent
      /\ \A o \in Op : Of(f, o) <=> f.op = o /\ f.kind # "resync"
  <2>1. f.stage <= row[f.op] /\ (f.kind = "resync" <=> f.stage = Absent)
    BY <1>1, <1>2 DEF StageInv, AllTell, StagesPast, Behind
  <2>. QED BY <2>1, LinkElements DEF Of
<1>4. \A i \in 1 .. Len(wire') : \E j \in 1 .. Len(wire) : wire'[i] = wire[j]
  BY <1>1, <1>2, FromFacts
<1>5. StagesPast'
  <2>1. \A i \in 1 .. Len(wire') : wire'[i].stage <= row[wire'[i].op]
    BY <1>4 DEF StageInv, StagesPast, Behind
  <2>2. ASSUME NEW o \in Op
        PROVE  view'[o] <= row[o] /\ resyncFetch'.rows[o] <= row[o] /\ pollFetch'.rows[o] <= row[o]
    <3>1. view[o] <= row[o] /\ resyncFetch.rows[o] <= row[o] /\ pollFetch.rows[o] <= row[o]
      BY DEF StageInv, StagesPast
    <3>2. EmptyView[o] <= row[o] /\ NoFetch.rows[o] <= row[o] /\ Asked.rows[o] <= row[o]
      <4>1. row[o] \in Nat
        BY LinkElements
      <4>2. EmptyView[o] = 0 /\ NoFetch.rows = EmptyView /\ Asked.rows = EmptyView
        BY FetchFacts DEF Absent
      <4>. QED BY <4>1, <4>2
    <3>3. CASE f.kind = "resync"
      BY <1>1, <3>1, <3>2, <3>3
    <3>4. CASE f.kind # "resync"
      <4>1. view'[o] = IF o = f.op THEN f.stage ELSE view[o]
        BY <1>1, <1>3, <3>4
      <4>. QED BY <1>1, <1>3, <3>1, <3>2, <3>4, <4>1
    <3>. QED BY <3>3, <3>4
  <2>. QED BY <1>1, <2>1, <2>2 DEF StageInv, StagesPast, Behind
<1>6. AllTell'
  <2>1. \A i \in 1 .. Len(wire') : wire'[i].kind = "resync" <=> wire'[i].stage = Absent
    BY <1>4 DEF StageInv, AllTell
  <2>. QED BY <1>1, <2>1 DEF StageInv, AllTell
<1>7. Published' /\ Received' /\ ActiveListed'
  BY <1>1 DEF StageInv, Published, Received, ActiveListed, Open, Waiting, Quiet
<1>8. \A o : /\ Tells(wire, o) <=> Of(f, o) \/ Tells(wire', o)
             /\ LastIs(wire, o, row[o]) => LastIs(wire', o, row[o])
             /\ LastIs(wire, o, row[o]) /\ Of(f, o) /\ ~Tells(wire', o) => f.stage = row[o]
  <2>1. TAKE o
  <2>2. /\ Tells(wire, o) <=> Of(Head(wire), o) \/ Tells(Tail(wire), o)
        /\ LastIs(wire, o, row[o]) => LastIs(Tail(wire), o, row[o])
        /\ LastIs(wire, o, row[o]) /\ Of(Head(wire), o)
             /\ ~Tells(Tail(wire), o) => Head(wire).stage = row[o]
    BY <1>1, <1>2, OfTail
  <2>. QED BY <1>1, <2>2, Zenon
<1>9. Sent'
  BY <1>1, <1>8 DEF StageInv, Sent, Quiet
<1>10. Shown'
  <2>1. SUFFICES ASSUME conn.pc = "live", ~chan.lagged, spoiled = {}, NEW o \in Op, Heard(o)'
                 PROVE  SeenRight(o)' /\ (Replaceable' => ~Needed(o)')
    BY <1>1 DEF Shown
  <2>2. Quiet(o) /\ ~Tells(wire', o)
    BY <1>1, <2>1 DEF Heard, Quiet
  <2>3. Needed(o)' <=> Needed(o)
    BY <1>1 DEF Needed, DoneRows
  <2>4. ~Of(f, o) => SeenRight(o) /\ (Replaceable => ~Needed(o))
    BY <1>8, <2>1, <2>2 DEF StageInv, Shown, Heard
  <2>5. CASE f.kind = "resync"
    <3>1. Replaceable
      BY <1>1, <1>2, <2>5 DEF Replaceable
    <3>2. ~Needed(o)
      BY <1>3, <2>4, <2>5, <3>1
    <3>3. view'[o] = Absent
      BY <1>1, <2>5, FetchFacts
    <3>. QED BY <2>3, <3>2, <3>3 DEF SeenRight
  <2>6. CASE f.kind # "resync"
    <3>1. ~Replaceable'
      <4>1. ASSUME NEW i \in 1 .. Len(wire') PROVE wire'[i].kind # "resync"
        <5>1. Len(wire') = Len(wire) - 1 /\ \A j \in 1 .. Len(wire) - 1 : wire'[j] = wire[j + 1]
          BY <1>1, <1>2, HeadTailProperties
        <5>2. i \in 1 .. Len(wire) - 1 /\ i + 1 \in 2 .. Len(wire)
          BY <1>2, <5>1
        <5>. QED BY <2>1, <5>1, <5>2 DEF OrderInv, Shape
      <4>. QED BY <1>1, <2>6, <4>1 DEF Replaceable
    <3>2. CASE Of(f, o)
      <4>1. LastIs(wire, o, row[o])
        BY <2>1, <2>2 DEF StageInv, Sent
      <4>2. f.stage = row[o]
        BY <1>8, <2>2, <3>2, <4>1
      <4>3. view'[o] = row[o] /\ row' = row
        BY <1>1, <1>3, <2>6, <3>2, <4>2 DEF Of
      <4>. QED BY <3>1, <4>3 DEF SeenRight
    <3>3. CASE ~Of(f, o)
      <4>1. view'[o] = view[o] /\ row' = row
        BY <1>1, <1>3, <2>6, <3>3
      <4>. QED BY <2>3, <2>4, <3>1, <3>3, <4>1 DEF SeenRight
    <3>. QED BY <3>2, <3>3
  <2>. QED BY <2>5, <2>6
<1>. QED BY <1>5, <1>6, <1>7, <1>9, <1>10 DEF StageInv

\* Nothing is on its way on a connection that is gone.
LEMMA HangupStage ==
  ASSUME TypeOK, StageInv, Hangup, UNCHANGED view,
         resyncFetch' \in {resyncFetch, NoFetch}, pollFetch' \in {pollFetch, Asked},
         \/ UNCHANGED <<row, unpublished, hub>>
         \/ /\ hub'.ring = <<>> /\ row' \in [Op -> Stage]
            /\ \A o \in Op : unpublished'[o] = Absent /\ row[o] <= row'[o]
  PROVE  StageInv'
<1>1. /\ conn'.pc = "none" /\ conn'.backlog = <<>> /\ conn'.active = <<>>
      /\ chan'.events = <<>> /\ wire' = <<>>
  BY HangupFacts
<1>2. Received' /\ ActiveListed' /\ Sent' /\ Shown'
  BY <1>1 DEF Received, ActiveListed, Sent, Shown, Open
<1>3. row' \in [Op -> Stage] /\ \A o \in Op : row[o] <= row'[o]
  <2>1. row \in [Op -> Stage] /\ \A o \in Op : row[o] <= row[o]
    BY LinkElements
  <2>. QED BY <2>1
<1>4. \A o \in Op : /\ view'[o] <= row'[o] /\ resyncFetch'.rows[o] <= row'[o]
                    /\ pollFetch'.rows[o] <= row'[o]
  <2>1. TAKE o \in Op
  <2>2. view[o] <= row'[o] /\ resyncFetch.rows[o] <= row'[o] /\ pollFetch.rows[o] <= row'[o]
    BY <1>3, LaterStages DEF StageInv
  <2>3. NoFetch.rows[o] <= row'[o] /\ Asked.rows[o] <= row'[o]
    <3>1. row'[o] \in Nat
      BY <1>3, StageFacts
    <3>2. NoFetch.rows[o] = 0 /\ Asked.rows[o] = 0
      BY FetchFacts DEF Absent
    <3>. QED BY <3>1, <3>2
  <2>. QED BY <2>2, <2>3
<1>5. /\ \A i \in 1 .. Len(hub'.ring) : /\ hub'.ring[i].stage <= row'[hub'.ring[i].op]
                                        /\ hub'.ring[i].stage # Absent
      /\ Published'
  <2>1. CASE UNCHANGED <<row, unpublished, hub>>
    BY <2>1 DEF StageInv, StagesPast, AllTell, Behind, Published
  <2>2. CASE hub'.ring = <<>> /\ \A o \in Op : unpublished'[o] = Absent
    <3>1. Len(hub'.ring) = 0 /\ \A o, v : LastIs(hub'.ring, o, v)
      BY <2>2, OfEmpty
    <3>. QED BY <2>2, <3>1 DEF Published
  <2>. QED BY <2>1, <2>2
<1>6. Len(conn'.backlog) = 0 /\ Len(conn'.active) = 0 /\ Len(chan'.events) = 0 /\ Len(wire') = 0
  BY <1>1
<1>7. StagesPast' /\ AllTell'
  BY <1>4, <1>5, <1>6 DEF StagesPast, AllTell, Behind
<1>. QED BY <1>2, <1>5, <1>7 DEF StageInv

\* A list that is asked for, answered or given up.
LEMMA FetchStage ==
  ASSUME TypeOK, StageInv, AnswerResync \/ ResyncFails \/ PollTick \/ AnswerPoll
  PROVE  StageInv'
<1>1. UNCHANGED <<row, unpublished, hub, conn, chan, wire, view, polling, spoiled>>
  BY DEF AnswerResync, ResyncFails, PollTick, AnswerPoll, serverVars
<1>2. \A o \in Op : resyncFetch'.rows[o] <= row[o] /\ pollFetch'.rows[o] <= row[o]
  <2>1. TAKE o \in Op
  <2>2. /\ resyncFetch.rows[o] <= row[o] /\ pollFetch.rows[o] <= row[o] /\ Listed[o] <= row[o]
    BY ListedFacts DEF StageInv, StagesPast, TypeOK
  <2>3. NoFetch.rows[o] <= row[o] /\ Asked.rows[o] <= row[o]
    <3>1. row[o] \in Nat
      BY LinkElements
    <3>2. NoFetch.rows[o] = 0 /\ Asked.rows[o] = 0
      BY FetchFacts DEF Absent
    <3>. QED BY <3>1, <3>2
  <2>4. /\ resyncFetch' \in {resyncFetch, NoFetch, [pc |-> "answered", rows |-> Listed]}
        /\ pollFetch' \in {pollFetch, Asked, [pc |-> "answered", rows |-> Listed]}
    BY DEF AnswerResync, ResyncFails, PollTick, AnswerPoll
  <2>5. [pc |-> "answered", rows |-> Listed].rows = Listed
    OBVIOUS
  <2>. QED BY <2>2, <2>3, <2>4, <2>5
<1>3. StagesPast' /\ AllTell' /\ Published'
  BY <1>1, <1>2 DEF StageInv, StagesPast, AllTell, Published, Behind
<1>4. Received' /\ ActiveListed' /\ Sent'
  BY <1>1 DEF StageInv, Received, ActiveListed, Sent, Open, Waiting, Quiet
<1>5. Replaceable' => Replaceable
  <2>1. pollFetch' # pollFetch => polling \/ pollFetch # NoFetch
    BY FetchFacts DEF AnswerResync, ResyncFails, PollTick, AnswerPoll
  <2>. QED BY <1>1, <2>1 DEF Replaceable
<1>6. Shown'
  <2>1. \A o \in Op : /\ Heard(o)' <=> Heard(o)
                      /\ SeenRight(o)' <=> SeenRight(o)
                      /\ Needed(o)' <=> Needed(o)
    BY <1>1 DEF Heard, Quiet, SeenRight, Needed, DoneRows
  <2>. QED BY <1>1, <1>5, <2>1 DEF StageInv, Shown
<1>. QED BY <1>3, <1>4, <1>6 DEF StageInv

\* A list that replaces the map: what it takes back, or leaves behind, is a
\* mishap; a polled one arrives only while no row that is heard is needed.
LEMMA ArrivalStage ==
  ASSUME TypeOK, OrderInv, StageInv, ResyncArrives \/ PollArrives
  PROVE  StageInv'
<1>. DEFINE rows == view'
<1>1. /\ UNCHANGED <<row, unpublished, hub, conn, chan, wire, polling>>
      /\ resyncFetch' \in {resyncFetch, NoFetch} /\ pollFetch' \in {pollFetch, NoFetch}
      /\ rows \in [Op -> Stage] /\ \A o \in Op : rows[o] <= row[o]
  <2>1. resyncFetch.rows \in [Op -> Stage] /\ pollFetch.rows \in [Op -> Stage]
    BY DEF TypeOK, Fetch
  <2>2. \A o \in Op : resyncFetch.rows[o] <= row[o] /\ pollFetch.rows[o] <= row[o]
    BY DEF StageInv, StagesPast
  <2>3. view' \in {resyncFetch.rows, pollFetch.rows}
    BY DEF ResyncArrives, PollArrives
  <2>4. /\ UNCHANGED <<row, unpublished, hub, conn, chan, wire, polling>>
        /\ resyncFetch' \in {resyncFetch, NoFetch} /\ pollFetch' \in {pollFetch, NoFetch}
    BY DEF ResyncArrives, PollArrives, serverVars
  <2>. QED BY <2>1, <2>2, <2>3, <2>4
<1>2. StagesPast' /\ AllTell' /\ Published'
  <2>1. \A o \in Op : resyncFetch'.rows[o] <= row[o] /\ pollFetch'.rows[o] <= row[o]
    <3>1. TAKE o \in Op
    <3>2. resyncFetch.rows[o] <= row[o] /\ pollFetch.rows[o] <= row[o]
      BY DEF StageInv, StagesPast
    <3>3. NoFetch.rows[o] <= row[o]
      <4>1. row[o] \in Nat
        BY LinkElements
      <4>2. NoFetch.rows[o] = 0
        BY FetchFacts DEF Absent
      <4>. QED BY <4>1, <4>2
    <3>. QED BY <1>1, <3>2, <3>3
  <2>. QED BY <1>1, <2>1 DEF StageInv, StagesPast, AllTell, Published, Behind
<1>3. Received' /\ ActiveListed' /\ Sent'
  BY <1>1 DEF StageInv, Received, ActiveListed, Sent, Open, Waiting, Quiet
<1>. HIDE DEF rows
<1>4. ASSUME conn.pc = "live", ~chan.lagged, spoiled' = {}, NEW o \in Op, Heard(o)
      PROVE  /\ rows[o] # Absent \/ Needed(o) => rows[o] = row[o]
             /\ Replaceable => ~Needed(o)
  <2>1. spoiled = {} /\ ~LeftBehind(rows)
    <3>1. \/ spoiled' = spoiled \union Mishaps(rows)
          \/ spoiled' = spoiled \union (Mishaps(rows) \ {"overtaken"})
      BY DEF ResyncArrives, PollArrives, rows
    <3>2. LeftBehind(rows) => "truncated" \in Mishaps(rows)
      BY <1>4 DEF Mishaps
    <3>. QED BY <1>4, <3>1, <3>2
  <2>2. SeenRight(o) /\ (Replaceable => ~Needed(o))
    BY <1>4, <2>1 DEF StageInv, Shown
  <2>3. ~Coming(o)
    <3>1. ~Tells(conn.backlog, o)
      BY <1>4, OfEmpty DEF OrderInv, Shape, Waiting
    <3>. QED BY <1>4, <3>1, NotComing DEF Heard
  <2>4. CASE ~Needed(o)
    BY <1>1, <2>1, <2>2, <2>3, <2>4, ForgottenRight
  <2>5. CASE Needed(o)
    <3>1. ResyncArrives
      <4>1. PollArrives => Replaceable
        BY FetchFacts DEF PollArrives, Replaceable
      <4>. QED BY <2>2, <2>5, <4>1
    <3>2. ~(rows[o] < view[o])
      <4>1. "overtaken" \notin Mishaps(rows)
        BY <1>4, <3>1 DEF ResyncArrives, rows
      <4>. QED BY <4>1 DEF Mishaps
    <3>3. view[o] = row[o]
      BY <2>2, <2>5 DEF SeenRight
    <3>4. rows[o] \in Nat /\ row[o] \in Nat /\ rows[o] <= row[o]
      BY <1>1, LinkElements, StageFacts
    <3>5. rows[o] = row[o]
      BY <3>2, <3>3, <3>4
    <3>. QED BY <2>2, <3>5
  <2>. QED BY <2>4, <2>5
<1>5. Shown'
  <2>1. \A o \in Op : (Heard(o)' <=> Heard(o)) /\ (Needed(o)' <=> Needed(o))
    BY <1>1 DEF Heard, Quiet, Needed, DoneRows
  <2>2. Replaceable' => Replaceable
    BY <1>1 DEF Replaceable
  <2>3. SUFFICES ASSUME conn.pc = "live", ~chan.lagged, spoiled' = {}, NEW o \in Op, Heard(o)'
                 PROVE  SeenRight(o)' /\ (Replaceable' => ~Needed(o)')
    BY <1>1 DEF Shown
  <2>4. /\ rows[o] # Absent \/ Needed(o) => rows[o] = row[o]
        /\ Replaceable => ~Needed(o)
    BY <1>4, <2>1, <2>3
  <2>. QED BY <1>1, <2>1, <2>2, <2>4 DEF SeenRight, rows
<1>. QED BY <1>2, <1>3, <1>5 DEF StageInv

LEMMA StageKeeps ==
  ASSUME TypeOK, OrderInv, StageInv, [Next]_vars
  PROVE  StageInv'
<1>0. ServerTypeOK /\ ClientTypeOK
  BY DEF TypeOK, ClientTypeOK
<1>1. CASE Submissions
  BY <1>1, CommitStage DEF Submissions, clientVars
<1>2. CASE ServerMoves
  <2>1. UNCHANGED <<view, resyncFetch, pollFetch, polling, spoiled>>
    BY <1>2 DEF ServerMoves, clientVars
  <2>. QED BY <1>2, <2>1, PublishStage, ListActiveStage, BridgeStage DEF ServerMoves, ServerStep
<1>3. CASE ListError
  BY <1>3, ListErrorStage
<1>4. CASE Connect
  BY <1>4, ConnectStage
<1>5. CASE SendSnapshot
  BY <1>5, SnapshotStage
<1>6. CASE Deliver
  BY <1>6, DeliverStage
<1>7. CASE Drop \/ StreamEnds
  <2>1. /\ Hangup /\ HandleError /\ UNCHANGED <<row, unpublished, hub, resyncFetch>>
    BY <1>7 DEF Drop, StreamEnds
  <2>2. UNCHANGED view /\ pollFetch' \in {pollFetch, Asked}
    BY <1>0, <2>1, HandleErrorFacts
  <2>. QED BY <2>1, <2>2, HangupStage
<1>8. CASE Restart
  <2>1. /\ Reboot /\ resyncFetch' \in {resyncFetch, NoFetch}
        /\ UNCHANGED <<view, pollFetch>> \/ HandleError
    BY <1>8 DEF Restart
  <2>2. UNCHANGED view /\ pollFetch' \in {pollFetch, Asked}
    BY <1>0, <2>1, HandleErrorFacts
  <2>3. /\ Hangup /\ hub'.ring = <<>> /\ row' \in [Op -> Stage]
        /\ \A o \in Op : unpublished'[o] = Absent /\ row[o] <= row'[o]
    BY <1>0, <2>1, RebootFacts
  <2>. QED BY <2>1, <2>2, <2>3, HangupStage
<1>9. CASE AnswerResync \/ ResyncFails \/ PollTick \/ AnswerPoll
  BY <1>9, FetchStage
<1>10. CASE ResyncArrives \/ PollArrives
  BY <1>10, ArrivalStage
<1>11. CASE UNCHANGED vars
  <2>1. UNCHANGED stageVars
    BY <1>11 DEF vars, serverVars, clientVars, stageVars
  <2>. QED BY <2>1, StageStutters
<1>. QED BY <1>1, <1>2, <1>3, <1>4, <1>5, <1>6, <1>7, <1>8, <1>9, <1>10, <1>11 DEF Next

-----------------------------------------------------------------------------
(* The theorems *)

LEMMA FeedStart == Init => FeedInv
<1>. SUFFICES ASSUME Init PROVE FeedInv
  OBVIOUS
<1>1. TypeOK /\ OrderInv
  BY TypeStart, OrderStart
<1>2. /\ hub.ring = <<>> /\ conn.pc = "none" /\ conn.backlog = <<>> /\ conn.active = <<>>
      /\ chan.events = <<>> /\ wire = <<>>
      /\ view = EmptyView /\ resyncFetch = NoFetch /\ pollFetch = NoFetch
      /\ \A o \in Op : unpublished[o] = Absent
  BY DEF Init, ServerInit, NewHub, NoConn, NoChan
<1>3. Received /\ ActiveListed /\ Sent /\ Shown
  BY <1>2 DEF Received, ActiveListed, Sent, Shown, Open
<1>4. Published
  BY <1>2, OfEmpty DEF Published
<1>5. Len(hub.ring) = 0 /\ Len(conn.backlog) = 0 /\ Len(conn.active) = 0 /\ Len(chan.events) = 0
      /\ Len(wire) = 0
  BY <1>2
<1>6. \A o \in Op : /\ view[o] <= row[o] /\ resyncFetch.rows[o] <= row[o]
                    /\ pollFetch.rows[o] <= row[o]
  <2>1. TAKE o \in Op
  <2>2. row[o] \in Nat /\ view[o] = 0 /\ resyncFetch.rows[o] = 0 /\ pollFetch.rows[o] = 0
    BY <1>1, <1>2, LinkElements, FetchFacts DEF Absent
  <2>. QED BY <2>2
<1>7. StagesPast /\ AllTell
  BY <1>5, <1>6 DEF StagesPast, AllTell, Behind
<1>. QED BY <1>1, <1>3, <1>4, <1>7 DEF FeedInv, StageInv

LEMMA FeedKeeps == FeedInv /\ [Next]_vars => FeedInv'
<1>. SUFFICES ASSUME FeedInv, [Next]_vars PROVE FeedInv'
  OBVIOUS
<1>1. TypeOK /\ OrderInv /\ StageInv /\ Numbered
  BY DEF FeedInv, OrderInv
<1>2. TypeOK'
  BY <1>1, TypeKeeps
<1>3. OrderInv'
  BY <1>1, OrderKeeps
<1>4. StageInv'
  BY <1>1, StageKeeps
<1>. QED BY <1>2, <1>3, <1>4 DEF FeedInv

LEMMA FeedInvHolds == Spec => []FeedInv
BY FeedStart, FeedKeeps, PTL DEF Spec

\* The state of the server and of the hook is well formed: the ring and the
\* receiver never hold more than their capacities (publish), and what is on
\* the wire is a frame.
THEOREM FeedTypeCorrect == Spec => []TypeOK
<1>1. FeedInv => TypeOK
  BY DEF FeedInv
<1>. QED BY <1>1, FeedInvHolds, PTL

\* An event is stepped over only on a resync: subscribe notices that the ring
\* has lost the event after Last-Event-ID, the bridge that its receiver has
\* lagged, and the snapshot, the backlog and the live events leave no gap.
THEOREM NoGapIsSilent == Spec => NoSilentGap
<1>. DEFINE OneOn == lastSeq' > lastSeq /\ lastSeq # NoSeq /\ lastBoot = restarts => lastSeq' = lastSeq + 1
<1>1. FeedInv /\ [Next]_vars => [OneOn]_vars
  <2>1. ASSUME FeedInv, Next PROVE OneOn
    BY <2>1, GapKeeps DEF FeedInv
  <2>. HIDE DEF OneOn
  <2>. QED BY <2>1
<1>2. Spec => [][OneOn]_vars
  <2>. HIDE DEF OneOn
  <2>. QED BY <1>1, FeedInvHolds, PTL DEF Spec
<1>. QED BY <1>2 DEF NoSilentGap

\* A page that has received everything is right, whatever was dropped, lagged,
\* evicted or restarted on the way, unless a list came late, the store failed
\* or the snapshot was too short.
LEMMA SettledIsRight == FeedInv => SettledViewIsRight
<1>. SUFFICES ASSUME FeedInv, Settled, spoiled = {}, NEW o \in Op
              PROVE  /\ view[o] # Absent => view[o] = row[o]
                     /\ row[o] \in Active => view[o] = row[o]
  BY DEF SettledViewIsRight, ViewIsRight
<1>1. /\ conn.pc = "live" /\ wire = <<>> /\ chan.events = <<>> /\ ~chan.lagged
      /\ unpublished[o] = Absent
  BY DEF Settled, NoChan
<1>2. Heard(o)
  BY <1>1, OfEmpty DEF Heard, Quiet
<1>3. SeenRight(o)
  BY <1>1, <1>2 DEF FeedInv, StageInv, Shown
<1>. QED BY <1>3 DEF SeenRight, Needed

\* Once the stream is live and all has arrived, the page shows every row it
\* shows, and every unfinished one, as it is (handleSnapshotFrame,
\* handleTransitionFrame, handleResync and the polls together).
THEOREM SettledViewRight == Spec => []SettledViewIsRight
BY SettledIsRight, FeedInvHolds, PTL

=============================================================================
