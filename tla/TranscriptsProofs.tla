-------------------------- MODULE TranscriptsProofs --------------------------
(***************************************************************************)
(* Theorems about Transcripts: what the parsers keep, line after line, of  *)
(* the messages and warnings they produce, where the echoes point once the *)
(* document has ended, and what the transcript and the outline show of it, *)
(* for documents of any length and of any records.                         *)
(***************************************************************************)
EXTENDS Transcripts, RenderProofs

-----------------------------------------------------------------------------
(* What a line adds *)

\* What a line adds: messages numbered on from the ones there are, and
\* warnings that point at nothing or at one of them that is not known.
NewMessages(ms) ==
  /\ ms \in Seq(Message)
  /\ \A i \in 1 .. Len(ms) : /\ ms[i].index = Len(messages) + i - 1 /\ ms[i].line = lineOrdinal
                             /\ ms[i].echo # NoEcho => ms[i].echo.line = lineOrdinal
NewWarnings(ws, at) ==
  /\ ws \in Seq(ParseWarning)
  /\ \A k \in 1 .. Len(ws) : /\ ws[k].line = lineOrdinal
                             /\ ws[k].index # NoIndex => ws[k].index \in at
UnknownIn(ms) == {x \in Len(messages) .. Len(messages) + Len(ms) - 1 : ms[x + 1 - Len(messages)].kind = "unknown"}
Batch(ms, ws) == NewMessages(ms) /\ NewWarnings(ws, UnknownIn(ms))

\* Messages are numbered in order, and a warning that points at one is of its
\* line and is about a record that is not known.
Numbered == \A i \in 1 .. Len(messages) : messages[i].index = i - 1
WarningsPoint ==
  \A k \in 1 .. Len(warnings) : warnings[k].index # NoIndex =>
    /\ warnings[k].index \in 0 .. Len(messages) - 1
    /\ messages[warnings[k].index + 1].line = warnings[k].line
    /\ messages[warnings[k].index + 1].kind = "unknown"
\* Until the document ends, an echo points at its own line.
EchoesAtHome ==
  \A i \in 1 .. Len(messages) : messages[i].echo # NoEcho => messages[i].echo.line = messages[i].line

ParserInv == TypeOK /\ Numbered /\ WarningsPoint /\ (IF parsed THEN EchoIsSafe ELSE EchoesAtHome)

\* The numbers a step reads.
LEMMA CountsAreNatural ==
  ASSUME TypeOK
  PROVE  Len(messages) \in Nat /\ Len(warnings) \in Nat /\ lineOrdinal \in Nat
BY DEF TypeOK

\* Two sequences of warnings, one after the other.
LEMMA MoreWarnings ==
  ASSUME TypeOK, NEW at, NEW u, NEW v, NewWarnings(u, at), NewWarnings(v, at)
  PROVE  NewWarnings(u \o v, at)
<1>1. u \in Seq(ParseWarning) /\ v \in Seq(ParseWarning) /\ Len(u) \in Nat /\ Len(v) \in Nat
  BY DEF NewWarnings
<1>2. /\ u \o v \in Seq(ParseWarning) /\ Len(u \o v) = Len(u) + Len(v)
      /\ \A i \in 1 .. Len(u) + Len(v) : (u \o v)[i] = IF i <= Len(u) THEN u[i] ELSE v[i - Len(u)]
  BY <1>1, ConcatProperties
<1>3. ASSUME NEW k \in 1 .. Len(u) + Len(v)
      PROVE  /\ (u \o v)[k].line = lineOrdinal
             /\ (u \o v)[k].index # NoIndex => (u \o v)[k].index \in at
  <2>1. CASE k <= Len(u)
    <3>1. k \in 1 .. Len(u) /\ (u \o v)[k] = u[k]
      BY <1>1, <1>2, <2>1
    <3>. QED BY <3>1 DEF NewWarnings
  <2>2. CASE ~(k <= Len(u))
    <3>1. k - Len(u) \in 1 .. Len(v) /\ (u \o v)[k] = v[k - Len(u)]
      BY <1>1, <1>2, <2>2
    <3>. QED BY <3>1 DEF NewWarnings
  <2>. QED BY <2>1, <2>2
<1>. QED BY <1>2, <1>3 DEF NewWarnings

\* One warning, and none.
LEMMA OneWarning ==
  ASSUME TypeOK, NEW at \in SUBSET Nat, NEW severity \in {"error", "warning"},
         NEW category \in {"lexer", "schema", "payload", "timestamp"},
         NEW index, index = NoIndex \/ index \in at
  PROVE  NewWarnings(<<NewWarning(severity, category, index)>>, at) /\ NewWarnings(<<>>, at)
<1>1. NewWarning(severity, category, index) \in ParseWarning
  BY CountsAreNatural DEF NewWarning, ParseWarning
<1>2. NewWarnings(<<>>, at)
  BY DEF NewWarnings
<1>3. NewWarnings(<<NewWarning(severity, category, index)>>, at)
  BY <1>1 DEF NewWarnings, NewWarning
<1>. QED BY <1>2, <1>3

\* One message, and none.
LEMMA OneMessage ==
  ASSUME TypeOK, NEW m \in Message, m.index = Len(messages), m.line = lineOrdinal,
         m.echo # NoEcho => m.echo.line = lineOrdinal
  PROVE  NewMessages(<<m>>) /\ NewMessages(<<>>)
<1>1. NewMessages(<<>>)
  BY DEF NewMessages
<1>2. NewMessages(<<m>>)
  BY CountsAreNatural DEF NewMessages
<1>. QED BY <1>1, <1>2

\* What a line adds keeps the invariant.
LEMMA EmitsKeeps ==
  ASSUME ParserInv, ~parsed, NEW ms, NEW ws, Batch(ms, ws), Emits(ms, ws), sessionMetaSeen' \in BOOLEAN
  PROVE  ParserInv'
<1>. DEFINE a == Len(messages)
            b == Len(warnings)
<1>1. /\ messages \in Seq(Message) /\ warnings \in Seq(ParseWarning) /\ lineOrdinal \in Nat
      /\ ms \in Seq(Message) /\ ws \in Seq(ParseWarning)
      /\ a \in Nat /\ b \in Nat /\ Len(ms) \in Nat /\ Len(ws) \in Nat
  BY DEF ParserInv, TypeOK, Batch, NewMessages, NewWarnings
<1>2. /\ messages' = messages \o ms /\ warnings' = warnings \o ws
      /\ lineOrdinal' = lineOrdinal + 1 /\ UNCHANGED <<tool, parsed>>
  BY DEF Emits
<1>3. /\ messages' \in Seq(Message) /\ Len(messages') = a + Len(ms)
      /\ \A i \in 1 .. a + Len(ms) : messages'[i] = IF i <= a THEN messages[i] ELSE ms[i - a]
  BY <1>1, <1>2, ConcatProperties
<1>4. /\ warnings' \in Seq(ParseWarning) /\ Len(warnings') = b + Len(ws)
      /\ \A i \in 1 .. b + Len(ws) : warnings'[i] = IF i <= b THEN warnings[i] ELSE ws[i - b]
  BY <1>1, <1>2, ConcatProperties
<1>. HIDE DEF a, b
<1>5. TypeOK'
  BY <1>1, <1>2, <1>3, <1>4 DEF ParserInv, TypeOK
<1>6. \A i \in 1 .. a : i \in 1 .. a + Len(ms) /\ messages'[i] = messages[i]
  BY <1>1, <1>3
<1>7. \A i \in 1 .. Len(ms) : a + i \in 1 .. a + Len(ms) /\ messages'[a + i] = ms[i]
  BY <1>1, <1>3
<1>8. \A i \in 1 .. a + Len(ms) : i \in 1 .. a \/ (i - a \in 1 .. Len(ms) /\ a + (i - a) = i)
  BY <1>1
<1>9. \A i \in 1 .. Len(ms) : /\ ms[i].index = a + i - 1 /\ ms[i].line = lineOrdinal
                              /\ ms[i].echo # NoEcho => ms[i].echo.line = lineOrdinal
  BY DEF Batch, NewMessages, a
<1>10. Numbered'
  <2>. SUFFICES ASSUME NEW i \in 1 .. a + Len(ms) PROVE messages'[i].index = i - 1
    BY <1>3 DEF Numbered
  <2>1. CASE i \in 1 .. a
    BY <1>6, <2>1 DEF ParserInv, Numbered, a
  <2>2. CASE i - a \in 1 .. Len(ms) /\ a + (i - a) = i
    <3>1. messages'[i] = ms[i - a] /\ ms[i - a].index = a + (i - a) - 1
      BY <1>7, <1>9, <2>2
    <3>. QED BY <1>1, <2>2, <3>1
  <2>. QED BY <1>8, <2>1, <2>2
<1>11. EchoesAtHome'
  <2>. SUFFICES ASSUME NEW i \in 1 .. a + Len(ms)
                PROVE  messages'[i].echo # NoEcho => messages'[i].echo.line = messages'[i].line
    BY <1>3 DEF EchoesAtHome, NoEcho
  <2>1. CASE i \in 1 .. a
    BY <1>6, <2>1 DEF ParserInv, EchoesAtHome, a
  <2>2. CASE i - a \in 1 .. Len(ms) /\ a + (i - a) = i
    <3>1. messages'[i] = ms[i - a]
      BY <1>7, <2>2
    <3>. QED BY <1>9, <2>2, <3>1
  <2>. QED BY <1>8, <2>1, <2>2
<1>12. ASSUME NEW k \in 1 .. b + Len(ws), warnings'[k].index # NoIndex
       PROVE  /\ warnings'[k].index \in 0 .. a + Len(ms) - 1
              /\ messages'[warnings'[k].index + 1].line = warnings'[k].line
              /\ messages'[warnings'[k].index + 1].kind = "unknown"
  <2>1. CASE k <= b
    <3>1. k \in 1 .. b /\ warnings'[k] = warnings[k]
      BY <1>1, <1>4, <2>1
    <3>2. /\ warnings[k].index \in 0 .. a - 1
          /\ messages[warnings[k].index + 1].line = warnings[k].line
          /\ messages[warnings[k].index + 1].kind = "unknown"
      BY <1>12, <3>1 DEF ParserInv, WarningsPoint, a, b
    <3>3. warnings[k].index + 1 \in 1 .. a
      BY <1>1, <3>2
    <3>4. messages'[warnings[k].index + 1] = messages[warnings[k].index + 1]
      BY <1>6, <3>3
    <3>5. warnings[k].index \in 0 .. a + Len(ms) - 1
      BY <1>1, <3>2
    <3>. QED BY <3>1, <3>2, <3>4, <3>5
  <2>2. CASE ~(k <= b)
    <3>1. k - b \in 1 .. Len(ws) /\ warnings'[k] = ws[k - b]
      BY <1>1, <1>4, <2>2
    <3>2. ws[k - b].line = lineOrdinal /\ ws[k - b].index \in UnknownIn(ms)
      BY <1>12, <3>1 DEF Batch, NewWarnings
    <3>3. PICK x \in a .. a + Len(ms) - 1 : ws[k - b].index = x /\ ms[x + 1 - a].kind = "unknown"
      BY <3>2 DEF UnknownIn, a
    <3>4. x + 1 - a \in 1 .. Len(ms) /\ a + (x + 1 - a) = x + 1 /\ x \in 0 .. a + Len(ms) - 1
      BY <1>1, <3>3
    <3>5. messages'[x + 1].line = lineOrdinal /\ messages'[x + 1].kind = "unknown"
      BY <1>7, <1>9, <3>3, <3>4
    <3>. QED BY <3>1, <3>2, <3>3, <3>4, <3>5
  <2>. QED BY <2>1, <2>2
<1>13. WarningsPoint'
  <2>1. Len(messages') = a + Len(ms) /\ Len(warnings') = b + Len(ws)
    BY <1>3, <1>4
  <2>2. \A k \in 1 .. Len(warnings') : warnings'[k].index # NoIndex =>
          /\ warnings'[k].index \in 0 .. Len(messages') - 1
          /\ messages'[warnings'[k].index + 1].line = warnings'[k].line
          /\ messages'[warnings'[k].index + 1].kind = "unknown"
    <3>. QED BY <1>1, <1>12, <2>1
  <2>. QED BY <2>2 DEF WarningsPoint, NoIndex
<1>. QED BY <1>2, <1>5, <1>10, <1>11, <1>13 DEF ParserInv

-----------------------------------------------------------------------------
(* The items of a record *)

\* What the items before have added.
Out == {o \in [ms : Seq(Message), ws : Seq(ParseWarning)] : Batch(o.ms, o.ws)}

\* A batch, as what the fold hands on.
LEMMA OutOf ==
  ASSUME NEW a, NEW b, NewMessages(a), NewWarnings(b, UnknownIn(a))
  PROVE  [ms |-> a, ws |-> b] \in Out
<1>1. a \in Seq(Message) /\ b \in Seq(ParseWarning)
  BY DEF NewMessages, NewWarnings
<1>2. [ms |-> a, ws |-> b] \in [ms : Seq(Message), ws : Seq(ParseWarning)]
  BY <1>1
<1>. QED BY <1>2 DEF Out, Batch

\* One more item, and it is still a batch: its message is numbered on from the
\* messages of the items before, and its warning points at it or at none.
LEMMA TakeItemKeeps ==
  ASSUME TypeOK, NEW l \in ClaudeLine, l.form = "items", l.type \in {"user", "assistant"},
         NEW i \in 1 .. Len(l.items), NEW o \in Out
  PROVE  TakeItem(l, o, l.items[i]) \in Out
<1>. DEFINE item == l.items[i]
            m == [NewMessage(ItemKind(l, item), item.text) EXCEPT !.index = Len(messages) + Len(o.ms)]
            At(index) == NewWarning("warning", "payload", index)
<1>1. /\ o.ms \in Seq(Message) /\ o.ws \in Seq(ParseWarning) /\ Len(o.ms) \in Nat /\ Len(o.ws) \in Nat
      /\ NewMessages(o.ms) /\ NewWarnings(o.ws, UnknownIn(o.ms)) /\ o = [ms |-> o.ms, ws |-> o.ws]
  BY DEF Out, Batch
<1>2. /\ Len(messages) \in Nat /\ lineOrdinal \in Nat
      /\ item \in [type : STRING, text : Text \union {None}]
      /\ item.type # "not_object" => item.text \in Text
  <2>1. /\ l.items \in Seq([type : STRING, text : Text \union {None}])
        /\ \A j \in DOMAIN l.items : l.items[j].type # "not_object" => l.items[j].text # None
    BY ClaudeAssumption
  <2>2. i \in DOMAIN l.items /\ Len(l.items) \in Nat
    BY <2>1
  <2>3. item \in [type : STRING, text : Text \union {None}]
    BY <2>1, ElementOfSeq
  <2>. QED BY <2>1, <2>2, <2>3, CountsAreNatural
<1>3. ItemKind(l, item) \in MessageKind
  BY DEF ItemKind, UserItemKind, AssistantItemKind, MessageKind
<1>. HIDE DEF item
<1>4. m = [line |-> lineOrdinal, index |-> Len(messages) + Len(o.ms), kind |-> ItemKind(l, item),
           text |-> item.text, sub |-> None, echo |-> NoEcho]
  BY DEF NewMessage
<1>. HIDE DEF m
<1>5. item.type # "not_object" => m \in Message
  BY <1>2, <1>3, <1>4 DEF Message
<1>6. ASSUME item.type # "not_object" 
      PROVE  /\ NewMessages(Append(o.ms, m))
             /\ UnknownIn(o.ms) \subseteq UnknownIn(Append(o.ms, m))
             /\ m.kind = "unknown" => m.index \in UnknownIn(Append(o.ms, m))
  <2>1. /\ Append(o.ms, m) \in Seq(Message) /\ Len(Append(o.ms, m)) = Len(o.ms) + 1
        /\ \A j \in 1 .. Len(o.ms) : Append(o.ms, m)[j] = o.ms[j]
        /\ Append(o.ms, m)[Len(o.ms) + 1] = m
    BY <1>1, <1>5, <1>6, AppendProperties
  <2>2. \A j \in 1 .. Len(o.ms) + 1 : j \in 1 .. Len(o.ms) \/ j = Len(o.ms) + 1
    BY <1>1
  <2>3. m.index = Len(messages) + (Len(o.ms) + 1) - 1 /\ m.line = lineOrdinal /\ m.echo = NoEcho
    BY <1>1, <1>2, <1>4
  <2>4. ASSUME NEW j \in 1 .. Len(o.ms) + 1
        PROVE  LET n == Append(o.ms, m)[j]
               IN /\ n.index = Len(messages) + j - 1 /\ n.line = lineOrdinal
                  /\ n.echo # NoEcho => n.echo.line = lineOrdinal
    <3>1. CASE j \in 1 .. Len(o.ms)
      BY <1>1, <2>1, <3>1 DEF NewMessages
    <3>2. CASE j = Len(o.ms) + 1
      BY <2>1, <2>3, <3>2
    <3>. QED BY <2>2, <3>1, <3>2
  <2>5. UnknownIn(o.ms) \subseteq UnknownIn(Append(o.ms, m))
    <3>. SUFFICES ASSUME NEW x \in UnknownIn(o.ms) PROVE x \in UnknownIn(Append(o.ms, m))
      OBVIOUS
    <3>1. x \in Len(messages) .. Len(messages) + Len(o.ms) - 1 /\ o.ms[x + 1 - Len(messages)].kind = "unknown"
      BY DEF UnknownIn
    <3>2. x + 1 - Len(messages) \in 1 .. Len(o.ms) /\ x \in Len(messages) .. Len(messages) + (Len(o.ms) + 1) - 1
      BY <1>1, <1>2, <3>1
    <3>. QED BY <2>1, <3>1, <3>2 DEF UnknownIn
  <2>6. m.index \in Len(messages) .. Len(messages) + (Len(o.ms) + 1) - 1 /\ m.index + 1 - Len(messages) = Len(o.ms) + 1
    BY <1>1, <1>2, <1>4
  <2>7. m.kind = "unknown" => m.index \in UnknownIn(Append(o.ms, m))
    BY <2>1, <2>6 DEF UnknownIn
  <2>8. NewMessages(Append(o.ms, m))
    BY <2>1, <2>4 DEF NewMessages
  <2>. QED BY <2>5, <2>7, <2>8
<1>7. ASSUME NEW index, NEW at \in SUBSET Nat, UnknownIn(o.ms) \subseteq at, index = NoIndex \/ index \in at
      PROVE  Append(o.ws, At(index)) \in Seq(ParseWarning) /\ NewWarnings(Append(o.ws, At(index)), at)
  <2>1. NewWarnings(<<NewWarning("warning", "payload", index)>>, at)
    BY <1>7, OneWarning
  <2>2. NewWarnings(o.ws, at)
    BY <1>1, <1>7 DEF NewWarnings
  <2>3. At(index) \in ParseWarning
    BY <1>2, <1>7 DEF NewWarning, ParseWarning
  <2>. HIDE DEF At
  <2>4. Append(o.ws, At(index)) = o.ws \o <<At(index)>>
    BY <1>1, <2>3, AppendIsConcat
  <2>5. NewWarnings(o.ws \o <<At(index)>>, at)
    BY <2>1, <2>2, MoreWarnings DEF At
  <2>. QED BY <2>4, <2>5 DEF NewWarnings
<1>. HIDE DEF At
<1>8. CASE item.type = "not_object"
  <2>1. TakeItem(l, o, item) = [ms |-> o.ms, ws |-> Append(o.ws, At(NoIndex))]
    BY <1>1, <1>8 DEF TakeItem, At
  <2>2. NewWarnings(Append(o.ws, At(NoIndex)), UnknownIn(o.ms))
    <3>1. UnknownIn(o.ms) \in SUBSET Nat
      BY <1>1, <1>2 DEF UnknownIn
    <3>. QED BY <1>7, <3>1
  <2>3. TakeItem(l, o, item) \in Out
    BY <1>1, <2>1, <2>2, OutOf
  <2>. QED BY <2>3 DEF item
<1>9. CASE item.type # "not_object" /\ m.kind = "unknown"
  <2>1. TakeItem(l, o, item) = [ms |-> Append(o.ms, m), ws |-> Append(o.ws, At(m.index))]
    BY <1>1, <1>9 DEF TakeItem, At, m
  <2>. DEFINE at == UnknownIn(Append(o.ms, m))
  <2>2. NewMessages(Append(o.ms, m)) /\ UnknownIn(o.ms) \subseteq at /\ m.index \in at /\ at \in SUBSET Nat
    <3>1. at \in SUBSET Nat
      <4>1. Append(o.ms, m) \in Seq(Message)
        BY <1>1, <1>5, <1>9
      <4>2. Len(Append(o.ms, m)) \in Nat
        BY <4>1
      <4>. QED BY <1>2, <4>2 DEF UnknownIn
    <3>. QED BY <1>6, <1>9, <3>1
  <2>. HIDE DEF at
  <2>3. Append(o.ws, At(m.index)) \in Seq(ParseWarning) /\ NewWarnings(Append(o.ws, At(m.index)), at)
    BY <1>7, <2>2
  <2>4. TakeItem(l, o, item) \in Out
    BY <2>1, <2>2, <2>3, OutOf DEF at
  <2>. QED BY <2>4 DEF item
<1>10. CASE item.type # "not_object" /\ m.kind # "unknown"
  <2>1. TakeItem(l, o, item) = [ms |-> Append(o.ms, m), ws |-> o.ws]
    BY <1>1, <1>10 DEF TakeItem, m
  <2>2. NewMessages(Append(o.ms, m)) /\ NewWarnings(o.ws, UnknownIn(Append(o.ms, m)))
    BY <1>1, <1>6, <1>10 DEF NewWarnings
  <2>3. TakeItem(l, o, item) \in Out
    BY <2>1, <2>2, OutOf
  <2>. QED BY <2>3 DEF item
<1>. QED BY <1>8, <1>9, <1>10

\* The items of a record add a batch.
LEMMA ItemsAreABatch ==
  ASSUME TypeOK, NEW l \in ClaudeLine, l.form = "items", l.type \in {"user", "assistant"}
  PROVE  FoldLeft(LAMBDA acc, item : TakeItem(l, acc, item), [ms |-> <<>>, ws |-> <<>>], l.items) \in Out
<1>. DEFINE n == Len(l.items)
            base == [ms |-> <<>>, ws |-> <<>>]
            step == [i \in 1 .. n |-> [o \in Out |-> TakeItem(l, o, l.items[i])]]
            Folds(g) == g = [s \in SUBSET (1 .. n) |->
                               IF s = {} THEN base ELSE TakeItem(l, g[s \ {Max(s)}], l.items[Max(s)])]
<1>1. n \in Nat /\ DOMAIN l.items = 1 .. n
  BY ClaudeAssumption
<1>2. base \in Out
  <2>1. NewMessages(<<>>) /\ NewWarnings(<<>>, UnknownIn(<<>>))
    BY DEF NewMessages, NewWarnings
  <2>. QED BY <2>1, OutOf
<1>3. \A i \in 1 .. n, o \in Out : TakeItem(l, o, l.items[i]) \in Out
  BY TakeItemKeeps
<1>. HIDE DEF n, base
<1>4. step \in [1 .. n -> [Out -> Out]]
  BY <1>3
<1>5. \A s \in SUBSET (1 .. n) : s # {} => Max(s) \in 1 .. n /\ s \ {Max(s)} \in SUBSET (1 .. n)
  BY <1>1, SomePosition
<1>6. \E g : Folds(g)
  <2>1. PICK g : Folding(g, n, Out, base, step)
    <3>. HIDE DEF step
    <3>. QED BY <1>1, <1>2, <1>4, FoldSolves
  <2>2. /\ g \in [SUBSET (1 .. n) -> Out]
        /\ \A s \in SUBSET (1 .. n) : g[s] = IF s = {} THEN base ELSE step[Max(s)][g[s \ {Max(s)}]]
    BY <2>1 DEF Folding
  <2>3. \A s \in SUBSET (1 .. n) : g[s] = IF s = {} THEN base ELSE TakeItem(l, g[s \ {Max(s)}], l.items[Max(s)])
    BY <1>5, <2>2
  <2>4. g = [s \in SUBSET (1 .. n) |-> g[s]]
    BY <2>2
  <2>5. Folds(g)
    BY <2>3, <2>4
  <2>. HIDE DEF Folds
  <2>. QED BY <2>5
<1>. HIDE DEF step
<1>. DEFINE f == CHOOSE g : Folds(g)
<1>7. Folds(f)
  <2>. HIDE DEF Folds
  <2>. QED BY <1>6
<1>8. FoldLeft(LAMBDA acc, item : TakeItem(l, acc, item), base, l.items) = f[1 .. n]
  BY <1>1 DEF FoldLeft, MapThenFoldSet
<1>. HIDE DEF f
<1>9. \A k \in 0 .. n : f[1 .. k] = IF k = 0 THEN base ELSE TakeItem(l, f[1 .. k - 1], l.items[k])
  <2>. SUFFICES ASSUME NEW k \in 0 .. n
                PROVE  f[1 .. k] = IF k = 0 THEN base ELSE TakeItem(l, f[1 .. k - 1], l.items[k])
    OBVIOUS
  <2>. DEFINE s == 1 .. k
  <2>1. s \in SUBSET (1 .. n) /\ (s = {} <=> k = 0)
    BY <1>1
  <2>2. k # 0 => Max(s) = k /\ s \ {k} = 1 .. k - 1
    BY <1>1, LastPosition
  <2>. HIDE DEF s
  <2>3. f[s] = IF s = {} THEN base ELSE TakeItem(l, f[s \ {Max(s)}], l.items[Max(s)])
    BY <1>7, <2>1
  <2>4. f[s] = IF k = 0 THEN base ELSE TakeItem(l, f[1 .. k - 1], l.items[k])
    BY <2>1, <2>2, <2>3
  <2>. QED BY <2>4 DEF s
<1>. HIDE DEF Folds
<1>. DEFINE D == {k \in 0 .. n : f[1 .. k] \notin Out}
<1>10. ASSUME D # {} PROVE FALSE
  <2>1. PICK k \in D : \A j \in D : k <= j
    <3>1. D \subseteq Nat
      OBVIOUS
    <3>. HIDE DEF D
    <3>. QED BY <1>10, <3>1, LeastNatural
  <2>2. k # 0
    BY <1>2, <1>9, <2>1
  <2>3. k \in 1 .. n /\ k - 1 \in 0 .. n /\ ~(k <= k - 1)
    BY <1>1, <2>1, <2>2
  <2>4. f[1 .. k - 1] \in Out
    BY <2>1, <2>3
  <2>. QED BY <1>3, <1>9, <2>1, <2>2, <2>3, <2>4
<1>11. n \in 0 .. n /\ n \notin D
  BY <1>1, <1>10
<1>. QED BY <1>8, <1>11 DEF base

-----------------------------------------------------------------------------
(* One line *)

\* A message as the parsers begin it.
Fresh(m) == /\ m \in Message /\ m.index = Len(messages) /\ m.line = lineOrdinal
            /\ m.echo # NoEcho => m.echo.line = lineOrdinal

\* Every message the parsers begin is fresh, an echo because it points at itself.
LEMMA FreshMessages ==
  ASSUME TypeOK
  PROVE  /\ \A kind \in MessageKind, text \in Text : Fresh(NewMessage(kind, text))
         /\ \A sub \in Subtype : Fresh(Boundary(sub)) /\ Fresh(Metadata(sub))
         /\ \A kind \in {"user", "assistant"} :
              Fresh([Metadata("echo") EXCEPT !.text = "blank", !.echo = [line |-> lineOrdinal, kind |-> kind]])
<1>1. Len(messages) \in Nat /\ lineOrdinal \in Nat
  BY CountsAreNatural
<1>2. \A kind \in MessageKind, text \in Text : Fresh(NewMessage(kind, text))
  BY <1>1 DEF Fresh, NewMessage, Message
<1>3. \A sub \in Subtype : Fresh(Boundary(sub)) /\ Fresh(Metadata(sub))
  BY <1>1 DEF Fresh, NewMessage, Message, Boundary, Metadata, MessageKind, Text
<1>4. ASSUME NEW kind \in {"user", "assistant"}
      PROVE  Fresh([Metadata("echo") EXCEPT !.text = "blank", !.echo = [line |-> lineOrdinal, kind |-> kind]])
  <2>. DEFINE e == [line |-> lineOrdinal, kind |-> kind]
  <2>1. e \in Echo /\ e.line = lineOrdinal
    BY <1>1 DEF Echo
  <2>. HIDE DEF e
  <2>2. [Metadata("echo") EXCEPT !.text = "blank", !.echo = e] =
        [line |-> lineOrdinal, index |-> Len(messages), kind |-> "metadata", text |-> "blank",
         sub |-> "echo", echo |-> e]
    <3>. DEFINE Of(text, echo) == [line |-> lineOrdinal, index |-> Len(messages), kind |-> "metadata",
                                   text |-> text, sub |-> "echo", echo |-> echo]
    <3>1. Metadata("echo") = Of("words", NoEcho)
      BY DEF Metadata, NewMessage
    <3>2. [Of("words", NoEcho) EXCEPT !.text = "blank"] = Of("blank", NoEcho)
      OBVIOUS
    <3>3. [Of("blank", NoEcho) EXCEPT !.echo = e] = Of("blank", e)
      OBVIOUS
    <3>4. [Metadata("echo") EXCEPT !.text = "blank", !.echo = e] =
          [[Metadata("echo") EXCEPT !.text = "blank"] EXCEPT !.echo = e]
      OBVIOUS
    <3>. HIDE DEF Of
    <3>5. [Metadata("echo") EXCEPT !.text = "blank", !.echo = e] = Of("blank", e)
      BY <3>1, <3>2, <3>3, <3>4, Zenon
    <3>. QED BY <3>5 DEF Of
  <2>3. Fresh([line |-> lineOrdinal, index |-> Len(messages), kind |-> "metadata", text |-> "blank",
               sub |-> "echo", echo |-> e])
    BY <1>1, <2>1 DEF Fresh, Message, MessageKind, Text, Subtype
  <2>4. Fresh([Metadata("echo") EXCEPT !.text = "blank", !.echo = e])
    BY <2>2, <2>3
  <2>. QED BY <2>4 DEF e
<1>. QED BY <1>2, <1>3, <1>4

\* A fresh message is a batch of one.
LEMMA FreshIsNew ==
  ASSUME TypeOK, NEW m, Fresh(m)
  PROVE  NewMessages(<<m>>) /\ NewMessages(<<>>) /\ Len(<<m>>) = 1
BY OneMessage DEF Fresh

LEMMA NothingIsNew ==
  ASSUME TypeOK
  PROVE  NewMessages(<<>>) /\ UnknownIn(<<>>) \in SUBSET Nat
BY CountsAreNatural DEF NewMessages, UnknownIn

\* Bad timestamps leave one warning or two, at no message.
LEMMA CodexStamps ==
  ASSUME TypeOK, NEW l \in CodexLine, NEW at \in SUBSET Nat
  PROVE  NewWarnings(CodexStampWarnings(l), at)
<1>1. NewWarnings(<<NewWarning("warning", "timestamp", NoIndex)>>, at) /\ NewWarnings(<<>>, at)
  BY OneWarning
<1>. DEFINE bad == <<NewWarning("warning", "timestamp", NoIndex)>>
            inner == IF l.stamp # "ok" /\ l.payload # None /\ l.inner = "bad" THEN bad ELSE <<>>
<1>2. NewWarnings(bad, at) /\ NewWarnings(inner, at)
  BY <1>1
<1>. HIDE DEF bad, inner
<1>3. NewWarnings(bad \o inner, at)
  BY <1>2, MoreWarnings
<1>4. CodexStampWarnings(l) = IF l.stamp = "bad" THEN bad \o inner ELSE inner
  BY DEF CodexStampWarnings, bad, inner
<1>. QED BY <1>2, <1>3, <1>4

\* A record that gives one message, with the warnings before it.
LEMMA OneKeeps ==
  ASSUME ParserInv, ~parsed, NEW m, Fresh(m), NEW at \in SUBSET {x \in {Len(messages)} : m.kind = "unknown"},
         NEW u, NEW v, NewWarnings(u, at), NewWarnings(v, at),
         Emits(<<m>>, u \o v), sessionMetaSeen' \in BOOLEAN
  PROVE  ParserInv'
<1>1. TypeOK
  BY DEF ParserInv
<1>2. NewWarnings(u \o v, at)
  BY <1>1, MoreWarnings
<1>3. at \subseteq UnknownIn(<<m>>)
  <2>1. Len(messages) \in Len(messages) .. Len(messages) + 1 - 1 /\ Len(messages) + 1 - Len(messages) = 1
    BY <1>1, CountsAreNatural
  <2>. QED BY <2>1 DEF UnknownIn
<1>4. NewWarnings(u \o v, UnknownIn(<<m>>))
  BY <1>2, <1>3 DEF NewWarnings
<1>5. Batch(<<m>>, u \o v)
  BY <1>1, <1>4, FreshIsNew DEF Batch
<1>. QED BY <1>5, EmitsKeeps

\* A record that is not known: the warning points at the message it became.
LEMMA UnknownKeeps ==
  ASSUME ParserInv, ~parsed, NEW u, NewWarnings(u, {}), NEW severity \in {"error", "warning"},
         NEW category \in {"lexer", "schema", "payload", "timestamp"},
         Unknown(u, severity, category), sessionMetaSeen' \in BOOLEAN
  PROVE  ParserInv'
<1>1. TypeOK
  BY DEF ParserInv
<1>2. Fresh(NewMessage("unknown", "record"))
  BY <1>1, FreshMessages DEF MessageKind, Text
<1>. DEFINE at == {Len(messages)}
<1>3. at \in SUBSET Nat /\ at \in SUBSET {x \in {Len(messages)} : NewMessage("unknown", "record").kind = "unknown"}
  BY <1>1, CountsAreNatural DEF NewMessage
<1>4. NewWarnings(<<NewWarning(severity, category, Len(messages))>>, at)
  BY <1>1, <1>3, OneWarning
<1>5. NewWarnings(u, at)
  BY DEF NewWarnings
<1>. HIDE DEF at
<1>. QED BY <1>2, <1>3, <1>4, <1>5, OneKeeps DEF Unknown

\* One record of a Codex session, class by class.
LEMMA CodexKeeps ==
  ASSUME ParserInv, ~parsed, NEW l \in CodexLine, ReadCodex(l)
  PROVE  ParserInv'
<1>1. TypeOK /\ sessionMetaSeen \in BOOLEAN
  BY DEF ParserInv, TypeOK
<1>2. NewWarnings(CodexStampWarnings(l), {})
  BY <1>1, CodexStamps
<1>3. /\ \A kind \in MessageKind, text \in Text : Fresh(NewMessage(kind, text))
      /\ \A sub \in Subtype : Fresh(Boundary(sub)) /\ Fresh(Metadata(sub))
      /\ \A kind \in {"user", "assistant"} :
           Fresh([Metadata("echo") EXCEPT !.text = "blank", !.echo = [line |-> lineOrdinal, kind |-> kind]])
  BY <1>1, FreshMessages
<1>4. /\ NewWarnings(<<>>, {})
      /\ NewWarnings(<<NewWarning("error", "schema", NoIndex)>>, {})
      /\ NewWarnings(<<NewWarning("warning", "payload", NoIndex)>>, {})
  BY <1>1, OneWarning
<1>5. ASSUME NEW m, Fresh(m), NEW ws, NewWarnings(ws, {}), CodexEmits(l, m, ws), sessionMetaSeen' \in BOOLEAN
      PROVE  ParserInv'
  BY <1>2, <1>5, OneKeeps DEF CodexEmits
<1>6. ASSUME NEW severity \in {"error", "warning"}, CodexUnknown(l, severity, "schema"), sessionMetaSeen' \in BOOLEAN
      PROVE  ParserInv'
  BY <1>2, <1>6, UnknownKeeps DEF CodexUnknown
<1>7. CASE CodexLexes(l)
  <2>1. Emits(<<>>, <<NewWarning("error", "lexer", NoIndex)>>) /\ sessionMetaSeen' \in BOOLEAN
    BY <1>1, <1>7 DEF CodexLexes
  <2>2. NewWarnings(<<NewWarning("error", "lexer", NoIndex)>>, UnknownIn(<<>>)) /\ NewMessages(<<>>)
    BY <1>1, NothingIsNew, OneWarning
  <2>3. Batch(<<>>, <<NewWarning("error", "lexer", NoIndex)>>)
    BY <2>2 DEF Batch
  <2>. QED BY <2>1, <2>3, EmitsKeeps
<1>8. CASE CodexUntyped(l)
  BY <1>1, <1>3, <1>4, <1>5, <1>8 DEF CodexUntyped, MessageKind, Text
<1>9. CASE SessionMeta(l)
  BY <1>3, <1>4, <1>5, <1>9 DEF SessionMeta, MessageKind, Text, Subtype
<1>10. CASE ResponseEcho(l)
  BY <1>1, <1>3, <1>4, <1>5, <1>10 DEF ResponseEcho
<1>11. CASE ResponseTool(l)
  BY <1>1, <1>3, <1>4, <1>5, <1>11 DEF ResponseTool, MessageKind, Text
<1>12. CASE ResponseNote(l)
  BY <1>1, <1>3, <1>4, <1>5, <1>12 DEF ResponseNote, MessageKind, Text
<1>13. CASE ResponseUnknown(l) \/ EventUnknown(l) \/ CodexOther(l)
  BY <1>1, <1>6, <1>13 DEF ResponseUnknown, EventUnknown, CodexOther
<1>14. CASE TurnContext(l) \/ EventTelemetry(l)
  BY <1>1, <1>3, <1>4, <1>5, <1>14 DEF TurnContext, EventTelemetry, Subtype
<1>15. CASE EventSpeech(l)
  <2>1. l.field = None \/ l.field \in Text
    BY CodexAssumption DEF Text
  <2>. DEFINE kind == IF l.payload = "user_message" THEN "user" ELSE "assistant"
              text == IF l.field = None THEN "blank" ELSE l.field
              ws == IF l.field = None THEN <<NewWarning("warning", "payload", NoIndex)>> ELSE <<>>
  <2>2. CodexEmits(l, NewMessage(kind, text), ws) /\ sessionMetaSeen' \in BOOLEAN
    BY <1>1, <1>15 DEF EventSpeech
  <2>3. kind \in MessageKind /\ text \in Text /\ NewWarnings(ws, {})
    BY <1>4, <2>1 DEF MessageKind, Text
  <2>. HIDE DEF kind, text, ws
  <2>. QED BY <1>3, <1>5, <2>2, <2>3
<1>16. CASE EventTask(l)
  BY <1>1, <1>3, <1>4, <1>5, <1>16 DEF EventTask, TaskNote, MessageKind, Text
<1>17. CASE EventExec(l)
  <2>. DEFINE m == IF l.payload = "exec_command" THEN NewMessage("tool_use", "words")
                   ELSE NewMessage("tool_result", IF l.field = "failure" THEN "failure" ELSE "words")
              ws == IF l.field = None THEN <<NewWarning("warning", "payload", NoIndex)>> ELSE <<>>
  <2>1. CodexEmits(l, m, ws) /\ sessionMetaSeen' \in BOOLEAN
    BY <1>1, <1>17 DEF EventExec
  <2>2. Fresh(m) /\ NewWarnings(ws, {})
    BY <1>3, <1>4 DEF MessageKind, Text
  <2>. HIDE DEF m, ws
  <2>. QED BY <1>5, <2>1, <2>2
<1>18. CASE EventToolEnd(l)
  BY <1>1, <1>3, <1>4, <1>5, <1>18 DEF EventToolEnd, MessageKind, Text
<1>19. CASE EventBoundary(l) \/ Compacted(l)
  BY <1>1, <1>3, <1>4, <1>5, <1>19 DEF EventBoundary, Compacted, Subtype
<1>20. CASE EventNote(l)
  BY <1>1, <1>3, <1>4, <1>5, <1>20 DEF EventNote, MessageKind, Text
<1>. QED BY <1>7, <1>8, <1>9, <1>10, <1>11, <1>12, <1>13, <1>14, <1>15, <1>16, <1>17, <1>18, <1>19, <1>20
         DEF ReadCodex

\* One record of a Claude Code session, class by class.
LEMMA ClaudeKeeps ==
  ASSUME ParserInv, ~parsed, NEW l \in ClaudeLine, ReadClaude(l)
  PROVE  ParserInv'
<1>1. TypeOK /\ sessionMetaSeen' \in BOOLEAN
  BY DEF ParserInv, TypeOK, ReadClaude
<1>2. \A at \in SUBSET Nat : /\ NewWarnings(<<>>, at)
                     /\ NewWarnings(<<NewWarning("error", "schema", NoIndex)>>, at)
                     /\ NewWarnings(<<NewWarning("error", "lexer", NoIndex)>>, at)
                     /\ NewWarnings(<<NewWarning("warning", "schema", NoIndex)>>, at)
                     /\ NewWarnings(<<NewWarning("warning", "timestamp", NoIndex)>>, at)
  BY <1>1, OneWarning
<1>3. \A at \in SUBSET Nat : NewWarnings(ClaudeStampWarnings(l), at) /\ NewWarnings(RoleWarnings(l), at)
  BY <1>2 DEF ClaudeStampWarnings, RoleWarnings
<1>4. \A at \in SUBSET Nat : NewWarnings(ClaudeStampWarnings(l) \o RoleWarnings(l), at)
  BY <1>1, <1>3, MoreWarnings
<1>5. \A kind \in MessageKind, text \in Text : Fresh(NewMessage(kind, text))
  BY <1>1, FreshMessages
<1>6. CASE ClaudeLexes(l)
  <2>1. NewWarnings(<<NewWarning("error", "lexer", NoIndex)>>, UnknownIn(<<>>)) /\ NewMessages(<<>>)
    BY <1>1, <1>2, NothingIsNew
  <2>2. Batch(<<>>, <<NewWarning("error", "lexer", NoIndex)>>)
    BY <2>1 DEF Batch
  <2>. QED BY <1>1, <1>6, <2>2, EmitsKeeps DEF ClaudeLexes
<1>7. CASE ClaudeUntyped(l)
  <2>1. Fresh(NewMessage("unknown", "record"))
    BY <1>5 DEF MessageKind, Text
  <2>2. NewWarnings(ClaudeStampWarnings(l), {}) /\ NewWarnings(<<NewWarning("error", "schema", NoIndex)>>, {})
    BY <1>2, <1>3
  <2>. QED BY <1>1, <1>7, <2>1, <2>2, OneKeeps DEF ClaudeUntyped
<1>8. CASE ClaudeItems(l)
  <2>. DEFINE out == FoldLeft(LAMBDA acc, item : TakeItem(l, acc, item), [ms |-> <<>>, ws |-> <<>>], l.items)
              stamps == ClaudeStampWarnings(l) \o RoleWarnings(l)
  <2>1. out \in Out
    BY <1>1, <1>8, ItemsAreABatch DEF ClaudeItems
  <2>2. Emits(out.ms, ClaudeStampWarnings(l) \o RoleWarnings(l) \o out.ws)
    BY <1>8 DEF ClaudeItems
  <2>. HIDE DEF out
  <2>3. NewMessages(out.ms) /\ NewWarnings(out.ws, UnknownIn(out.ms)) /\ UnknownIn(out.ms) \in SUBSET Nat
    <3>1. Len(messages) \in Nat
      BY <1>1, CountsAreNatural
    <3>. QED BY <2>1, <3>1 DEF Out, Batch, UnknownIn
  <2>4. NewWarnings(stamps \o out.ws, UnknownIn(out.ms))
    BY <1>1, <1>4, <2>3, MoreWarnings
  <2>5. Batch(out.ms, stamps \o out.ws)
    BY <2>3, <2>4 DEF Batch
  <2>. QED BY <1>1, <2>2, <2>5, EmitsKeeps
<1>9. CASE ClaudeSpeech(l)
  <2>1. l.type \in MessageKind /\ l.text \in Text
    BY <1>9, ClaudeAssumption DEF ClaudeSpeech, MessageKind
  <2>2. Fresh(NewMessage(l.type, l.text))
    BY <1>5, <2>1
  <2>3. Emits(<<NewMessage(l.type, l.text)>>, ClaudeStampWarnings(l) \o RoleWarnings(l))
    BY <1>9 DEF ClaudeSpeech
  <2>4. NewWarnings(ClaudeStampWarnings(l), {}) /\ NewWarnings(RoleWarnings(l), {})
    BY <1>3
  <2>. QED BY <1>1, <2>2, <2>3, <2>4, OneKeeps
<1>10. CASE ClaudeNoContent(l)
  BY <1>1, <1>4, <1>10, UnknownKeeps DEF ClaudeNoContent
<1>11. ASSUME NEW m, Fresh(m), Emits(<<m>>, ClaudeStampWarnings(l)) PROVE ParserInv'
  <2>1. UnknownIn(<<m>>) \in SUBSET Nat
    BY <1>1, CountsAreNatural DEF UnknownIn
  <2>2. Batch(<<m>>, ClaudeStampWarnings(l))
    BY <1>1, <1>3, <1>11, <2>1, FreshIsNew DEF Batch
  <2>. QED BY <1>1, <1>11, <2>2, EmitsKeeps
<1>12. CASE ClaudeNote(l)
  BY <1>5, <1>11, <1>12 DEF ClaudeNote, MessageKind, Text
<1>13. CASE ClaudeMetadata(l)
  <2>1. MetaOf(l.type) \in Subtype
    BY <1>13 DEF ClaudeMetadata, ClaudeMetaType, MetaOf, Subtype
  <2>2. Fresh([NewMessage("metadata", "words") EXCEPT !.sub = MetaOf(l.type)])
    <3>1. Fresh(Metadata(MetaOf(l.type)))
      BY <1>1, <2>1, FreshMessages
    <3>. QED BY <3>1 DEF Metadata
  <2>3. Emits(<<[NewMessage("metadata", "words") EXCEPT !.sub = MetaOf(l.type)]>>, ClaudeStampWarnings(l))
    BY <1>13 DEF ClaudeMetadata
  <2>. QED BY <1>11, <2>2, <2>3
<1>14. CASE ClaudeOther(l)
  BY <1>1, <1>3, <1>14, UnknownKeeps DEF ClaudeOther
<1>. QED BY <1>6, <1>7, <1>8, <1>9, <1>10, <1>12, <1>13, <1>14 DEF ReadClaude

-----------------------------------------------------------------------------
(* The end of the document *)

\* What stops the search forward is the first that can.
LEMMA FirstAfter ==
  ASSUME NEW ms \in Seq(Message), NEW i \in 1 .. Len(ms), NEW kind,
         StopsAt(ms, i, kind) # 0
  PROVE  LET j == StopsAt(ms, i, kind)
         IN /\ j \in i + 1 .. Len(ms) /\ (ms[j].kind = kind \/ IsEchoOf(ms[j], kind))
            /\ \A k \in i + 1 .. j - 1 : ~(ms[k].kind = kind \/ IsEchoOf(ms[k], kind))
<1>. DEFINE at == {j \in i + 1 .. Len(ms) : ms[j].kind = kind \/ IsEchoOf(ms[j], kind)}
<1>1. Len(ms) \in Nat /\ at \subseteq Nat /\ at # {}
  BY DEF StopsAt
<1>. DEFINE j == CHOOSE x \in at : \A k \in at : x <= k
<1>2. StopsAt(ms, i, kind) = j
  BY <1>1 DEF StopsAt
<1>3. \E x \in at : \A k \in at : x <= k
  <2>. HIDE DEF at
  <2>. QED BY <1>1, LeastNatural
<1>4. j \in at /\ \A k \in at : j <= k
  <2>. HIDE DEF at
  <2>. QED BY <1>3
<1>. HIDE DEF j
<1>5. ASSUME NEW k \in i + 1 .. j - 1 PROVE k \notin at
  BY <1>1, <1>4
<1>6. \A k \in i + 1 .. j - 1 : k \in i + 1 .. Len(ms)
  BY <1>1, <1>4
<1>. QED BY <1>2, <1>4, <1>5, <1>6

\* Nothing stops it: what it would stop at does not follow.
LEMMA NothingAfter ==
  ASSUME NEW ms \in Seq(Message), NEW i \in 1 .. Len(ms), NEW kind, StopsAt(ms, i, kind) = 0
  PROVE  \A k \in i + 1 .. Len(ms) : ~(ms[k].kind = kind \/ IsEchoOf(ms[k], kind))
<1>. DEFINE at == {j \in i + 1 .. Len(ms) : ms[j].kind = kind \/ IsEchoOf(ms[j], kind)}
<1>1. Len(ms) \in Nat /\ at \subseteq Nat /\ 0 \notin at
  BY DEF at
<1>2. ASSUME at # {} PROVE FALSE
  <2>1. \E x \in at : \A k \in at : x <= k
    <3>. HIDE DEF at
    <3>. QED BY <1>1, <1>2, LeastNatural
  <2>2. (CHOOSE x \in at : \A k \in at : x <= k) \in at
    <3>. HIDE DEF at
    <3>. QED BY <2>1
  <2>3. StopsAt(ms, i, kind) = CHOOSE x \in at : \A k \in at : x <= k
    BY <1>2 DEF StopsAt
  <2>. HIDE DEF at
  <2>. QED BY <1>1, <2>2, <2>3
<1>. QED BY <1>2

\* What the search backward finds is the last that can be.
LEMMA NearestBefore ==
  ASSUME NEW ms \in Seq(Message), NEW i \in 1 .. Len(ms), NEW kind, LastBefore(ms, i, kind) # 0
  PROVE  LET j == LastBefore(ms, i, kind)
         IN /\ j \in 1 .. i - 1 /\ ms[j].kind = kind
            /\ \A k \in j + 1 .. i - 1 : ms[k].kind # kind
<1>. DEFINE at == {j \in 1 .. i - 1 : ms[j].kind = kind}
<1>1. i \in Nat /\ i - 1 \in Nat /\ at \in SUBSET (1 .. i - 1) /\ at # {}
  BY DEF LastBefore
<1>. DEFINE j == CHOOSE x \in at : \A k \in at : k <= x
<1>2. LastBefore(ms, i, kind) = j
  BY <1>1 DEF LastBefore
<1>3. \E x \in at : \A k \in at : k <= x
  <2>1. Max(at) \in at /\ \A k \in at : Max(at) >= k
    <3>. HIDE DEF at
    <3>. QED BY <1>1, SomePosition
  <2>2. \A k \in at : k <= Max(at)
    BY <1>1, <2>1
  <2>. HIDE DEF at
  <2>. QED BY <2>1, <2>2
<1>4. j \in at /\ \A k \in at : k <= j
  <2>. HIDE DEF at
  <2>. QED BY <1>3
<1>. HIDE DEF j
<1>5. ASSUME NEW k \in j + 1 .. i - 1 PROVE k \notin at
  BY <1>1, <1>4
<1>6. \A k \in j + 1 .. i - 1 : k \in 1 .. i - 1
  BY <1>1, <1>4
<1>. QED BY <1>2, <1>4, <1>5, <1>6

\* Where an echo comes to point.
LEMMA CanonicalIsSafe ==
  ASSUME NEW ms \in Seq(Message), NEW i \in 1 .. Len(ms), NEW kind, Canonical(ms, i, kind) # 0
  PROVE  LET j == Canonical(ms, i, kind)
             SameKind(m) == m.kind = kind \/ IsEchoOf(m, kind)
         IN /\ j \in 1 .. Len(ms) /\ ms[j].kind = kind
            /\ \/ j > i /\ \A k \in i + 1 .. j - 1 : ~SameKind(ms[k])
               \/ /\ j < i /\ \A k \in i + 1 .. Len(ms) : ~SameKind(ms[k])
                  /\ \A k \in j + 1 .. i - 1 : ms[k].kind # kind
<1>. DEFINE SameKind(m) == m.kind = kind \/ IsEchoOf(m, kind)
            c == Canonical(ms, i, kind)
<1>1. Len(ms) \in Nat /\ i \in Nat
  OBVIOUS
<1>2. CASE StopsAt(ms, i, kind) = 0
  <2>1. c = LastBefore(ms, i, kind) /\ c # 0
    BY <1>2 DEF Canonical
  <2>2. c \in 1 .. i - 1 /\ ms[c].kind = kind /\ \A k \in c + 1 .. i - 1 : ms[k].kind # kind
    BY <2>1, NearestBefore
  <2>3. \A k \in i + 1 .. Len(ms) : ~SameKind(ms[k])
    BY <1>2, NothingAfter
  <2>. HIDE DEF c, SameKind
  <2>4. c \in 1 .. Len(ms) /\ c < i
    BY <1>1, <2>2
  <2>. QED BY <2>2, <2>3, <2>4 DEF c, SameKind
<1>3. CASE StopsAt(ms, i, kind) # 0
  <2>1. c = StopsAt(ms, i, kind) /\ ms[c].kind = kind
    BY <1>3 DEF Canonical
  <2>2. c \in i + 1 .. Len(ms) /\ \A k \in i + 1 .. c - 1 : ~SameKind(ms[k])
    BY <1>3, <2>1, FirstAfter
  <2>. HIDE DEF c, SameKind
  <2>3. c \in 1 .. Len(ms) /\ c > i
    BY <1>1, <2>2
  <2>. QED BY <2>1, <2>2, <2>3 DEF c, SameKind
<1>. QED BY <1>2, <1>3

\* What resolving the echo of a message leaves as it is.
Same(n, m) ==
  /\ n.line = m.line /\ n.index = m.index /\ n.kind = m.kind /\ n.text = m.text /\ n.sub = m.sub
  /\ n.echo.kind = m.echo.kind /\ (n.echo = NoEcho <=> m.echo = NoEcho)

\* Another line for an echo to point at.
LEMMA PointsElsewhere ==
  ASSUME NEW m \in Message, m.echo # NoEcho, NEW x \in Nat, NEW n, n = [m EXCEPT !.echo.line = x]
  PROVE  n \in Message /\ n.echo.line = x /\ Same(n, m)
<1>. DEFINE e == [m.echo EXCEPT !.line = x]
<1>1. m.echo \in Echo
  BY DEF Message
<1>2. e \in Echo /\ e.line = x /\ e.kind = m.echo.kind /\ e # NoEcho
  BY <1>1 DEF Echo, NoEcho
<1>. HIDE DEF e
<1>3. n = [m EXCEPT !.echo = e]
  BY DEF e
<1>4. n \in Message /\ n.echo = e /\ n.line = m.line /\ n.index = m.index /\ n.kind = m.kind
      /\ n.text = m.text /\ n.sub = m.sub
  BY <1>2, <1>3 DEF Message
<1>. QED BY <1>2, <1>4 DEF Same

\* The pass changes where echoes point and nothing else.
LEMMA ResolvedAreTheSame ==
  ASSUME NEW ms \in Seq(Message)
  PROVE  /\ ResolveEchoes(ms) \in Seq(Message) /\ Len(ResolveEchoes(ms)) = Len(ms)
         /\ \A i \in 1 .. Len(ms) :
              /\ Same(ResolveEchoes(ms)[i], ms[i])
              /\ \/ ResolveEchoes(ms)[i] = ms[i]
                 \/ LET c == Canonical(ms, i, ms[i].echo.kind)
                    IN c # 0 /\ ResolveEchoes(ms)[i].echo.line = ms[c].line
<1>. DEFINE r == ResolveEchoes(ms)
<1>1. Len(ms) \in Nat /\ DOMAIN ms = 1 .. Len(ms) /\ \A i \in 1 .. Len(ms) : ms[i] \in Message
  OBVIOUS
<1>2. ASSUME NEW i \in 1 .. Len(ms)
      PROVE  /\ r[i] \in Message /\ Same(r[i], ms[i])
             /\ \/ r[i] = ms[i]
                \/ LET c == Canonical(ms, i, ms[i].echo.kind) IN c # 0 /\ r[i].echo.line = ms[c].line
  <2>. DEFINE c == Canonical(ms, i, ms[i].echo.kind)
  <2>1. CASE ms[i].echo = NoEcho \/ c = 0
    <3>1. r[i] = ms[i]
      BY <1>1, <2>1 DEF ResolveEchoes
    <3>. QED BY <1>1, <3>1 DEF Same
  <2>2. CASE ~(ms[i].echo = NoEcho \/ c = 0)
    <3>1. r[i] = [ms[i] EXCEPT !.echo.line = ms[c].line]
      BY <1>1, <2>2 DEF ResolveEchoes
    <3>2. c \in 1 .. Len(ms)
      BY <2>2, CanonicalIsSafe
    <3>3. ms[c].line \in Nat
      BY <1>1, <3>2 DEF Message
    <3>. HIDE DEF r, c
    <3>4. r[i] \in Message /\ r[i].echo.line = ms[c].line /\ Same(r[i], ms[i])
      BY <1>1, <2>2, <3>1, <3>3, PointsElsewhere
    <3>. QED BY <2>2, <3>4 DEF c
  <2>. QED BY <2>1, <2>2
<1>3. r = [i \in 1 .. Len(ms) |-> r[i]]
  BY <1>1 DEF ResolveEchoes
<1>. HIDE DEF r
<1>4. r \in Seq(Message) /\ Len(r) = Len(ms)
  <2>1. r \in [1 .. Len(ms) -> Message]
    BY <1>2, <1>3
  <2>. QED BY <1>1, <2>1
<1>. QED BY <1>2, <1>4 DEF r

\* An echo that was resolved is safe.
LEMMA ResolvedAreSafe ==
  ASSUME TypeOK, EchoesAtHome, messages' = ResolveEchoes(messages)
  PROVE  EchoIsSafe'
<1>1. messages \in Seq(Message) /\ Len(messages) \in Nat /\ DOMAIN messages = 1 .. Len(messages)
  BY DEF TypeOK
<1>2. /\ messages' \in Seq(Message) /\ Len(messages') = Len(messages)
      /\ \A i \in 1 .. Len(messages) :
           /\ Same(messages'[i], messages[i])
           /\ \/ messages'[i] = messages[i]
              \/ LET c == Canonical(messages, i, messages[i].echo.kind)
                 IN c # 0 /\ messages'[i].echo.line = messages[c].line
  BY <1>1, ResolvedAreTheSame
<1>3. DOMAIN messages' = 1 .. Len(messages)
  BY <1>2
<1>4. \A k \in 1 .. Len(messages) :
        /\ messages'[k].kind = messages[k].kind /\ messages'[k].line = messages[k].line
        /\ \A kind : IsEchoOf(messages'[k], kind) <=> IsEchoOf(messages[k], kind)
  BY <1>2 DEF Same, IsEchoOf
<1>5. ASSUME NEW i \in 1 .. Len(messages), messages'[i].echo # NoEcho
      PROVE  LET e == messages'[i].echo
                 SameKind(m) == m.kind = e.kind \/ IsEchoOf(m, e.kind)
                 target == {j \in DOMAIN messages' : messages'[j].kind = e.kind /\ messages'[j].line = e.line}
             IN \/ e.line = messages'[i].line
                \/ \E j \in target : j > i /\ \A k \in i + 1 .. j - 1 : ~SameKind(messages'[k])
                \/ \E j \in target : /\ j < i
                                     /\ \A k \in i + 1 .. Len(messages') : ~SameKind(messages'[k])
                                     /\ \A k \in j + 1 .. i - 1 : messages'[k].kind # e.kind
  <2>. DEFINE kind == messages[i].echo.kind
              c == Canonical(messages, i, kind)
  <2>1. messages[i].echo # NoEcho /\ messages'[i].echo.kind = kind /\ messages'[i].line = messages[i].line
    BY <1>2, <1>5 DEF Same
  <2>2. CASE messages'[i] = messages[i]
    BY <1>1, <2>1, <2>2 DEF EchoesAtHome
  <2>3. CASE c # 0 /\ messages'[i].echo.line = messages[c].line
    <3>1. /\ c \in 1 .. Len(messages) /\ messages[c].kind = kind
          /\ \/ /\ c > i
                /\ \A k \in i + 1 .. c - 1 : ~(messages[k].kind = kind \/ IsEchoOf(messages[k], kind))
             \/ /\ c < i
                /\ \A k \in i + 1 .. Len(messages) : ~(messages[k].kind = kind \/ IsEchoOf(messages[k], kind))
                /\ \A k \in c + 1 .. i - 1 : messages[k].kind # kind
      BY <1>1, <2>3, CanonicalIsSafe
    <3>2. /\ \A k \in i + 1 .. c - 1 : k \in 1 .. Len(messages)
          /\ \A k \in i + 1 .. Len(messages) : k \in 1 .. Len(messages)
          /\ \A k \in c + 1 .. i - 1 : k \in 1 .. Len(messages)
      BY <1>1, <3>1
    <3>. HIDE DEF c, kind
    <3>3. messages'[c].kind = kind /\ messages'[c].line = messages'[i].echo.line
      BY <1>4, <2>3, <3>1
    <3>4. c \in {j \in DOMAIN messages' : /\ messages'[j].kind = messages'[i].echo.kind
                                          /\ messages'[j].line = messages'[i].echo.line}
      BY <1>3, <2>1, <3>1, <3>3
    <3>5. CASE /\ c > i
               /\ \A k \in i + 1 .. c - 1 : ~(messages[k].kind = kind \/ IsEchoOf(messages[k], kind))
      <4>1. ASSUME NEW k \in i + 1 .. c - 1
            PROVE  ~(messages'[k].kind = kind \/ IsEchoOf(messages'[k], kind))
        BY <1>4, <3>2, <3>5
      <4>. QED BY <2>1, <3>4, <3>5, <4>1
    <3>6. CASE /\ c < i
               /\ \A k \in i + 1 .. Len(messages) : ~(messages[k].kind = kind \/ IsEchoOf(messages[k], kind))
               /\ \A k \in c + 1 .. i - 1 : messages[k].kind # kind
      <4>1. ASSUME NEW k \in i + 1 .. Len(messages)
            PROVE  ~(messages'[k].kind = kind \/ IsEchoOf(messages'[k], kind))
        BY <1>4, <3>2, <3>6
      <4>2. ASSUME NEW k \in c + 1 .. i - 1 PROVE messages'[k].kind # kind
        BY <1>4, <3>2, <3>6
      <4>. QED BY <1>2, <2>1, <3>4, <3>6, <4>1, <4>2
    <3>. QED BY <3>1, <3>5, <3>6
  <2>. QED BY <1>2, <2>2, <2>3
<1>. QED BY <1>3, <1>5 DEF EchoIsSafe, NoEcho

\* The end of the document keeps the invariant.
LEMMA FinishKeeps ==
  ASSUME ParserInv, Finish
  PROVE  ParserInv'
<1>1. /\ TypeOK /\ Numbered /\ WarningsPoint /\ EchoesAtHome
      /\ parsed' = TRUE /\ UNCHANGED <<tool, lineOrdinal, sessionMetaSeen>>
  BY DEF ParserInv, Finish
<1>2. messages \in Seq(Message) /\ Len(messages) \in Nat /\ DOMAIN messages = 1 .. Len(messages)
  BY <1>1 DEF TypeOK
<1>3. /\ messages' \in Seq(Message) /\ Len(messages') = Len(messages)
      /\ \A i \in 1 .. Len(messages) : /\ messages'[i].index = messages[i].index
                                       /\ messages'[i].line = messages[i].line
                                       /\ messages'[i].kind = messages[i].kind
  <2>1. CASE tool = "codex"
    <3>1. messages' = ResolveEchoes(messages)
      BY <2>1 DEF Finish
    <3>. QED BY <1>2, <3>1, ResolvedAreTheSame DEF Same
  <2>2. CASE tool # "codex"
    BY <1>2, <2>2 DEF Finish
  <2>. QED BY <2>1, <2>2
<1>4. EchoIsSafe'
  <2>1. CASE tool = "codex"
    BY <1>1, <2>1, ResolvedAreSafe DEF Finish
  <2>2. CASE tool # "codex"
    <3>1. messages' = messages
      BY <2>2 DEF Finish
    <3>2. \A i \in DOMAIN messages' : messages'[i].echo # NoEcho => messages'[i].echo.line = messages'[i].line
      BY <1>1, <1>2, <3>1 DEF EchoesAtHome
    <3>. QED BY <3>2 DEF EchoIsSafe, NoEcho
  <2>. QED BY <2>1, <2>2
<1>5. Numbered'
  BY <1>1, <1>3 DEF Numbered
<1>6. CASE tool = "other"
  <2>1. warnings' = <<NewWarning("error", "schema", NoIndex)>>
    BY <1>6 DEF Finish
  <2>2. NewWarnings(warnings', {})
    BY <1>1, <2>1, OneWarning
  <2>3. warnings' \in Seq(ParseWarning)
    BY <2>2 DEF NewWarnings
  <2>4. \A k \in 1 .. Len(warnings') : warnings'[k].index = NoIndex
    BY <2>1 DEF NewWarning
  <2>5. WarningsPoint'
    BY <2>4 DEF WarningsPoint, NoIndex
  <2>6. TypeOK'
    BY <1>1, <1>3, <2>3 DEF TypeOK
  <2>. QED BY <1>1, <1>4, <1>5, <2>5, <2>6 DEF ParserInv
<1>7. CASE tool # "other"
  <2>1. warnings' = warnings
    BY <1>7 DEF Finish
  <2>2. \A x \in 0 .. Len(messages) - 1 : /\ messages'[x + 1].line = messages[x + 1].line
                                          /\ messages'[x + 1].kind = messages[x + 1].kind
    BY <1>2, <1>3
  <2>3. WarningsPoint'
    BY <1>1, <1>3, <2>1, <2>2 DEF WarningsPoint, NoIndex
  <2>4. TypeOK'
    BY <1>1, <1>3, <2>1 DEF TypeOK
  <2>. QED BY <1>1, <1>4, <1>5, <2>3, <2>4 DEF ParserInv
<1>. QED BY <1>6, <1>7

-----------------------------------------------------------------------------
(* The theorems *)

\* What is true after every line, and after the end.
THEOREM ParserInvHolds == Spec => []ParserInv
<1>1. Init => ParserInv
  <2>. SUFFICES ASSUME Init PROVE ParserInv
    OBVIOUS
  <2>1. messages = <<>> /\ warnings = <<>> /\ parsed = FALSE
    BY DEF Init
  <2>2. TypeOK
    <3>1. <<>> \in Seq(Message) /\ <<>> \in Seq(ParseWarning)
      OBVIOUS
    <3>. QED BY <3>1 DEF Init, TypeOK
  <2>. QED BY <2>1, <2>2 DEF ParserInv, Numbered, WarningsPoint, EchoesAtHome
<1>2. ParserInv /\ [Next]_outVars => ParserInv'
  <2>. SUFFICES ASSUME ParserInv, [Next]_outVars PROVE ParserInv'
    OBVIOUS
  <2>1. CASE ReadLine
    <3>1. ~parsed
      BY <2>1 DEF ReadLine
    <3>2. ASSUME NEW l \in CodexLine, ReadCodex(l) PROVE ParserInv'
      BY <3>1, <3>2, CodexKeeps
    <3>3. ASSUME NEW l \in ClaudeLine, ReadClaude(l) PROVE ParserInv'
      BY <3>1, <3>3, ClaudeKeeps
    <3>. QED BY <2>1, <3>2, <3>3 DEF ReadLine
  <2>2. CASE Finish
    BY <2>2, FinishKeeps
  <2>3. CASE UNCHANGED outVars
    BY <2>3 DEF outVars, ParserInv, TypeOK, Numbered, WarningsPoint, EchoesAtHome, EchoIsSafe
  <2>. QED BY <2>1, <2>2, <2>3 DEF Next
<1>. QED BY <1>1, <1>2, PTL DEF Spec

\* The parsers emit messages and warnings of the types parsers/types.ts declares.
THEOREM TranscriptTypeCorrect == Spec => []TypeOK
<1>1. ParserInv => TypeOK
  BY DEF ParserInv
<1>. QED BY <1>1, ParserInvHolds, PTL

\* An echo points ahead at the nearest message it can be a copy of, or back when
\* nothing of its kind follows, or at itself (resolveEchoBackPointers of
\* codex.ts), in documents of any length.
THEOREM EchoesAreSafe == Spec => []EchoIsSafe
<1>1. ParserInv => EchoIsSafe
  BY DEF ParserInv, EchoIsSafe
<1>. QED BY <1>1, ParserInvHolds, PTL

\* Message i of a session is numbered i, and a warning that names a message
\* names one of its own line that is of no known kind (nextMessageIndex,
\* pushWarning).
THEOREM WarningsPointHome == Spec => [](Numbered /\ WarningsPoint)
<1>1. ParserInv => Numbered /\ WarningsPoint
  BY DEF ParserInv
<1>. QED BY <1>1, ParserInvHolds, PTL

\* The messages of a session are a run from 0, and the transcript of the
\* model is the one the lemmas are about.
LEMMA SessionIsARun ==
  ASSUME TypeOK, Numbered
  PROVE  /\ Run(messages, 0) /\ warnings \in Seq(ParseWarning) /\ DOMAIN messages = 1 .. Len(messages)
         /\ NotBlank = Spoken(messages) /\ Visible = Each(Says, messages)
<1>1. messages \in Seq(Message) /\ warnings \in Seq(ParseWarning) /\ Len(messages) \in Nat
  BY DEF TypeOK
<1>2. \A i \in 1 .. Len(messages) : messages[i].index = 0 + i - 1
  BY DEF Numbered
<1>3. Run(messages, 0)
  BY <1>1, <1>2 DEF Run
<1>4. NotBlank = Spoken(messages)
  BY DEF NotBlank, Spoken
<1>5. Visible = Only(Positions(messages), Spoken(messages))
  BY <1>4 DEF Visible, Positions
<1>6. Visible = Each(Says, messages)
  BY <1>3, <1>5, SpokenIs
<1>. QED BY <1>1, <1>3, <1>4, <1>6

\* The transcript shows every message that has something to say, once and in
\* the order of the session, whatever was paired, grouped and clustered on the
\* way (buildRenderHints and renderTopLevelHints), in sessions of any length.
THEOREM NothingIsHidden == Spec => []EveryMessageIsRendered
<1>1. ParserInv => EveryMessageIsRendered
  <2>. SUFFICES ASSUME ParserInv PROVE EveryMessageIsRendered
    OBVIOUS
  <2>1. TypeOK /\ Numbered
    BY DEF ParserInv
  <2>2. Run(messages, 0) /\ warnings \in Seq(ParseWarning) /\ Visible = Each(Says, messages)
        /\ DOMAIN messages = 1 .. Len(messages)
    BY <2>1, SessionIsARun
  <2>3. ShownIn(TranscriptRows(messages, warnings)) = Visible
    BY <2>2, RowsAreTyped
  <2>. QED BY <2>1, <2>2, <2>3 DEF EveryMessageIsRendered, Numbered
<1>. QED BY <1>1, ParserInvHolds, PTL

\* The outline with every block opened shows the same as the transcript: its
\* blocks are a partition of the session (buildSkim, SkimView), whatever turns,
\* boundaries and oversized messages it has.
THEOREM NothingIsLeftOut == Spec => []OutlineShowsTheSame
<1>1. ParserInv => OutlineShowsTheSame
  <2>. SUFFICES ASSUME ParserInv PROVE OutlineShowsTheSame
    OBVIOUS
  <2>1. /\ Run(messages, 0) /\ warnings \in Seq(ParseWarning)
        /\ NotBlank = Spoken(messages) /\ Visible = Each(Says, messages)
    BY SessionIsARun DEF ParserInv
  <2>2. Only(ShownIn(SkimRows(messages, warnings)), Spoken(messages)) = Each(Says, messages)
    BY <2>1, OutlineShowsIt
  <2>. QED BY <2>1, <2>2 DEF OutlineShowsTheSame
<1>. QED BY <1>1, ParserInvHolds, PTL

\* A warning about a record that is not known is a chip on the row of the
\* message the record became, and on no other.
LEMMA ItsRow ==
  ASSUME TypeOK, Numbered, WarningsPoint, NEW w \in ToSet(warnings), w.index # NoIndex
  PROVE  LET rows == TranscriptRows(messages, warnings)
             withChip == {k \in DOMAIN rows : \E c \in ToSet(rows[k].chips) : c.index = w.index /\ c.line = w.line}
         IN /\ Cardinality(withChip) = 1
            /\ \A k \in withChip : \E x \in ToSet(rows[k].shown) : x = w.index /\ messages[x + 1].line = w.line
<1>. DEFINE rows == TranscriptRows(messages, warnings)
            withChip == {k \in DOMAIN rows : \E c \in ToSet(rows[k].chips) : c.index = w.index /\ c.line = w.line}
<1>1. Run(messages, 0) /\ warnings \in Seq(ParseWarning)
  BY SessionIsARun
<1>2. /\ w.index \in 0 .. Len(messages) - 1 /\ messages[w.index + 1].line = w.line
      /\ messages[w.index + 1].kind = "unknown"
  <2>1. PICK k \in 1 .. Len(warnings) : warnings[k] = w
    BY <1>1, SetOf
  <2>. QED BY <2>1 DEF WarningsPoint
<1>3. rows \in Seq(Rows) /\ DOMAIN rows = 1 .. Len(rows)
  BY <1>1, RowsAreTyped
<1>4. \A k \in DOMAIN rows : OnItsRow(rows[k])
  <2>1. \A k \in DOMAIN rows : rows[k] \in ToSet(rows)
    BY DEF ToSet
  <2>. QED BY <1>1, <2>1, RowsKeepTheirChips
<1>5. \A k \in withChip : w.index \in ToSet(rows[k].shown)
  BY <1>4 DEF OnItsRow
<1>6. \A k, l \in withChip : k = l
  <2>1. \A k, l \in DOMAIN rows : w.index \in ToSet(rows[k].shown) /\ w.index \in ToSet(rows[l].shown) => k = l
    BY <1>1, OneRowEach
  <2>. QED BY <1>5, <2>1
<1>7. PICK r \in ToSet(rows) : Chip(w) \in ToSet(r.chips)
  BY <1>1, <1>2, UnknownHasItsChip
<1>8. PICK j \in DOMAIN rows : rows[j] = r
  BY <1>7 DEF ToSet
<1>9. Chip(w).index = w.index /\ Chip(w).line = w.line
  BY DEF Chip
<1>10. j \in withChip
  BY <1>7, <1>8, <1>9
<1>. HIDE DEF withChip
<1>11. withChip = {j}
  BY <1>6, <1>10
<1>12. Cardinality(withChip) = 1
  BY <1>11, FS_Singleton
<1>. HIDE DEF rows
<1>. QED BY <1>2, <1>5, <1>12 DEF withChip, rows

\* A warning that names a message is a chip on the one row that shows that
\* message, and the message is of the line the warning is about: no chip is
\* lost where calls are gathered in groups (buildRenderHints, pushWarning).
THEOREM WarningsAreOnTheirRows == Spec => []WarningIsOnItsRow
<1>1. ParserInv => WarningIsOnItsRow
  <2>. SUFFICES ASSUME ParserInv, NEW w \in ToSet(warnings), w.index # NoIndex
                PROVE  LET rows == TranscriptRows(messages, warnings)
                           withChip == {k \in DOMAIN rows : \E c \in ToSet(rows[k].chips) :
                                          c.index = w.index /\ c.line = w.line}
                       IN /\ Cardinality(withChip) = 1
                          /\ \A k \in withChip : \E x \in ToSet(rows[k].shown) :
                               x = w.index /\ messages[x + 1].line = w.line
    BY DEF WarningIsOnItsRow
  <2>1. TypeOK /\ Numbered /\ WarningsPoint
    BY DEF ParserInv
  <2>. QED BY <2>1, ItsRow
<1>. QED BY <1>1, ParserInvHolds, PTL

\* A folded group hides only calls, their results and what the assistant says,
\* a cluster only metadata, and "all succeeded" on a group is true of every call
\* inside (groupConsecutiveLifecycles, aggregateStatus), in sessions of any length.
THEOREM SignalsAreVisible == Spec => []SignalsStayVisible
<1>1. ParserInv => SignalsStayVisible
  <2>. SUFFICES ASSUME ParserInv, NEW row \in ToSet(TranscriptRows(messages, warnings))
                PROVE  LET X == ToSet(row.shown)
                           calls == CallsIn(messages, X)
                           results == ResultsIn(messages, X)
                       IN /\ row.kind = "group" =>
                               /\ \A m \in Inside(messages, X) : m.kind \in {"tool_use", "tool_result", "assistant"}
                               /\ Cardinality(results) <= Cardinality(calls)
                               /\ row.status = "all-success" =>
                                    /\ Cardinality(results) = Cardinality(calls)
                                    /\ \A m \in results : m.text # "failure"
                          /\ row.kind = "cluster" => \A m \in Inside(messages, X) : m.kind = "metadata"
    BY DEF SignalsStayVisible, CallsIn, ResultsIn, Inside
  <2>1. Run(messages, 0) /\ warnings \in Seq(ParseWarning)
    BY SessionIsARun DEF ParserInv
  <2>. DEFINE H == FirstOf(messages, warnings)
  <2>2. CASE row.kind = "group"
    <3>1. row \in GroupRows(messages, H)
      BY <2>1, <2>2, RowsOfAKind
    <3>2. PICK b \in Seq(Riders(messages, H)) : row = GroupRow(messages, b)
      BY <3>1 DEF GroupRows
    <3>3. H \subseteq PlainHints
      BY <2>1, FirstAre
    <3>4. b \in Seq(Gatherable)
      <4>. HIDE DEF H
      <4>. QED BY <3>2, <3>3, RidersAre
    <3>5. \A h \in ToSet(b) : RidesFor(messages, h)
      <4>1. \A h \in ToSet(b) : h \in Riders(messages, H)
        <5>. HIDE DEF H
        <5>. QED BY <3>2, SetOf
      <4>. QED BY <2>1, <4>1, RidersStandFor
    <3>. QED BY <2>1, <2>2, <3>2, <3>4, <3>5, GroupRowIsSafe
  <2>3. CASE row.kind = "cluster"
    <3>1. row \in ClusterRows(H)
      BY <2>1, <2>3, RowsOfAKind
    <3>. QED BY <2>1, <2>3, <3>1, ClusterRowIsSafe
  <2>. QED BY <2>2, <2>3
<1>. QED BY <1>1, ParserInvHolds, PTL

=============================================================================
