------------------------------ MODULE PageProofs ------------------------------
(***************************************************************************)
(* Theorems about Page: of the readers of raw sessions, of its flows, its  *)
(* table, its lists and its split pane.  A read that loops over the buffer *)
(* ends and takes the lines of the buffer, so that what it has taken is    *)
(* the beginning of the payload however the network cuts it, for payloads  *)
(* and caps of any size.                                                   *)
(***************************************************************************)
EXTENDS Page, FiniteSetTheorems, SequenceTheorems, WellFoundedInduction, TLAPS

-----------------------------------------------------------------------------
(* The readers of raw sessions *)

\* A set of numbers has a least one: induction, as a least counterexample.
LEMMA LeastNatural ==
  ASSUME NEW T, T \subseteq Nat, T # {}
  PROVE  \E x \in T : \A y \in T : x <= y
<1>. DEFINE R == OpToRel(<, Nat)
<1>1. IsWellFoundedOn(R, Nat)
  BY NatLessThanWellFounded
<1>. HIDE DEF R
<1>2. PICK x \in T : \A y \in T : ~(<<y, x>> \in R)
  BY <1>1, WFMin
<1>3. \A y \in T : ~(y < x)
  BY <1>2 DEF R, OpToRel
<1>. QED BY <1>2, <1>3

\* The first newline of a text.
LEMMA NewlineFacts ==
  ASSUME NEW t \in Seq(Byte)
  PROVE  /\ NewlineIn(t) \in 0 .. Len(t)
         /\ NewlineIn(t) # 0 => t[NewlineIn(t)] = Newline
         /\ \A i \in 1 .. Len(t) : t[i] = Newline => NewlineIn(t) # 0 /\ NewlineIn(t) <= i
<1>. DEFINE I == {i \in 1 .. Len(t) : t[i] = Newline}
<1>1. NewlineIn(t) = IF I # {} THEN Min(I) ELSE 0
  BY DEF NewlineIn, SelectInSeq
<1>2. Len(t) \in Nat /\ I \subseteq Nat
  BY LenProperties
<1>3. I # {} => \E x \in I : \A y \in I : x <= y
  <2>. HIDE DEF I
  <2>. QED BY <1>2, LeastNatural
<1>4. I # {} => Min(I) \in I /\ \A y \in I : Min(I) <= y
  <2>. HIDE DEF I
  <2>. QED BY <1>3 DEF Min
<1>5. CASE I = {}
  BY <1>1, <1>2, <1>5
<1>6. CASE I # {}
  <2>1. NewlineIn(t) \in I /\ \A y \in I : NewlineIn(t) <= y
    BY <1>1, <1>4, <1>6
  <2>2. NewlineIn(t) # 0
    BY <2>1
  <2>. QED BY <1>2, <2>1, <2>2
<1>. QED BY <1>5, <1>6

-----------------------------------------------------------------------------
(* The loop over the buffer is a recursive function: that there is one, and *)
(* what it computes, by the length of the text.                             *)

Rest(s) ==
  LET i == NewlineIn(s.text) IN
  [lines |-> Append(s.lines, SubSeq(s.text, 1, i - 1)), text |-> SubSeq(s.text, i + 1, Len(s.text))]
IsDrained(s) == NewlineIn(s.text) = 0 \/ Len(s.lines) >= LineCap

\* One line is taken, and the text is shorter.
LEMMA RestFacts ==
  ASSUME NEW s \in Buffer, NewlineIn(s.text) # 0
  PROVE  /\ Rest(s) \in Buffer
         /\ Len(s.text) \in Nat /\ Len(Rest(s).text) \in Nat /\ Len(Rest(s).text) < Len(s.text)
<1>. DEFINE i == NewlineIn(s.text)
<1>1. s.text \in Seq(Byte) /\ s.lines \in Seq(Seq(Byte)) /\ Len(s.text) \in Nat
  BY DEF Buffer
<1>2. i \in 1 .. Len(s.text)
  BY <1>1, NewlineFacts
<1>. HIDE DEF i
<1>3. \A k \in 1 .. Len(s.text) : s.text[k] \in Byte
  BY <1>1, ElementOfSeq
<1>4. SubSeq(s.text, 1, i - 1) \in Seq(Byte)
  BY <1>1, <1>2, <1>3, SubSeqProperties
<1>5. SubSeq(s.text, i + 1, Len(s.text)) \in Seq(Byte) /\ Len(SubSeq(s.text, i + 1, Len(s.text))) = Len(s.text) - i
  <2>1. /\ SubSeq(s.text, i + 1, Len(s.text)) \in Seq(Byte)
        /\ Len(SubSeq(s.text, i + 1, Len(s.text))) =
             IF i + 1 <= Len(s.text) THEN Len(s.text) - (i + 1) + 1 ELSE 0
    BY <1>1, <1>2, <1>3, SubSeqProperties
  <2>. QED BY <1>1, <1>2, <2>1
<1>6. Append(s.lines, SubSeq(s.text, 1, i - 1)) \in Seq(Seq(Byte))
  BY <1>1, <1>4, AppendProperties
<1>. QED BY <1>1, <1>2, <1>5, <1>6 DEF Rest, Buffer, i

LEMMA DrainStep ==
  /\ DOMAIN Drain = Buffer
  /\ \A s \in Buffer : Drain[s] = IF IsDrained(s) THEN s ELSE Drain[Rest(s)]
<1>. DEFINE Step(g, s) == IF IsDrained(s) THEN s ELSE g[Rest(s)]
            Short(n) == {s \in Buffer : Len(s.text) <= n}
            Solves(g, n) == g = [s \in Short(n) |-> Step(g, s)]
<1>1. \A s \in Buffer : Len(s.text) \in Nat
  BY DEF Buffer
<1>2. \A n \in Nat : \A s \in Short(n) : ~IsDrained(s) => n # 0 /\ Rest(s) \in Short(n - 1)
  <2>. SUFFICES ASSUME NEW n \in Nat, NEW s \in Short(n), ~IsDrained(s)
                PROVE  n # 0 /\ Rest(s) \in Short(n - 1)
    OBVIOUS
  <2>1. NewlineIn(s.text) # 0
    BY DEF IsDrained
  <2>. QED BY <2>1, RestFacts
<1>3. ASSUME NEW n \in Nat PROVE \E g : Solves(g, n)
  <2>. DEFINE D == {k \in Nat : ~\E g : Solves(g, k)}
  <2>1. ASSUME D # {} PROVE FALSE
    <3>1. PICK k \in D : \A l \in D : k <= l
      <4>1. D \subseteq Nat
        OBVIOUS
      <4>. HIDE DEF D
      <4>. QED BY <2>1, <4>1, LeastNatural
    <3>2. CASE k = 0
      <4>. DEFINE h == [s \in Short(0) |-> s]
      <4>1. \A s \in Short(0) : Step(h, s) = s
        BY <1>2
      <4>2. Solves(h, 0)
        <5>. HIDE DEF Short, Step
        <5>. QED BY <4>1
      <4>. QED BY <3>1, <3>2, <4>2
    <3>3. CASE k # 0
      <4>1. k - 1 \in Nat /\ k - 1 \notin D
        <5>1. k \in Nat \ {0}
          BY <3>1, <3>3
        <5>. HIDE DEF D
        <5>. QED BY <3>1, <5>1
      <4>2. PICK g : Solves(g, k - 1)
        BY <4>1
      <4>. DEFINE h == [s \in Short(k) |-> Step(g, s)]
      <4>3. \A s \in Short(k - 1) : s \in Short(k) /\ h[s] = g[s]
        <5>1. \A s \in Short(k - 1) : g[s] = Step(g, s)
          <6>. HIDE DEF Short, Step
          <6>. QED BY <4>2
        <5>2. \A s \in Short(k - 1) : s \in Short(k)
          BY <1>1, <3>1
        <5>. HIDE DEF Short, Step
        <5>. QED BY <5>1, <5>2
      <4>4. \A s \in Short(k) : Step(g, s) = Step(h, s)
        <5>1. \A s \in Short(k) : ~IsDrained(s) => Rest(s) \in Short(k - 1)
          BY <1>2, <3>1
        <5>. HIDE DEF Short, h
        <5>. QED BY <4>3, <5>1
      <4>5. Solves(h, k)
        <5>. HIDE DEF Short, Step
        <5>. QED BY <4>4
      <4>. QED BY <3>1, <4>5
    <3>. QED BY <3>2, <3>3
  <2>. HIDE DEF Solves
  <2>. QED BY <2>1
<1>4. ASSUME NEW g, NEW h, NEW m \in Nat, NEW n \in Nat, Solves(g, m), Solves(h, n)
      PROVE  \A s \in Short(m) \intersect Short(n) : g[s] = h[s]
  <2>. DEFINE D == {k \in Nat : \E s \in Short(m) \intersect Short(n) : Len(s.text) = k /\ g[s] # h[s]}
  <2>1. ASSUME D # {} PROVE FALSE
    <3>1. PICK k \in D : \A l \in D : k <= l
      <4>1. D \subseteq Nat
        OBVIOUS
      <4>. HIDE DEF D
      <4>. QED BY <2>1, <4>1, LeastNatural
    <3>2. PICK s \in Short(m) \intersect Short(n) : Len(s.text) = k /\ g[s] # h[s]
      BY <3>1
    <3>3. g[s] = Step(g, s) /\ h[s] = Step(h, s)
      <4>. HIDE DEF Short, Step
      <4>. QED BY <1>4, <3>2
    <3>4. ~IsDrained(s)
      BY <3>2, <3>3
    <3>5. /\ Rest(s) \in Short(m) \intersect Short(n)
          /\ Len(Rest(s).text) \in Nat /\ Len(Rest(s).text) < k
      <4>1. s \in Buffer /\ NewlineIn(s.text) # 0
        BY <3>4 DEF IsDrained
      <4>. QED BY <3>2, <4>1, RestFacts
    <3>6. g[Rest(s)] = h[Rest(s)]
      <4>1. Len(Rest(s).text) \notin D
        BY <3>1, <3>5
      <4>. QED BY <3>5, <4>1
    <3>. QED BY <3>2, <3>3, <3>4, <3>6
  <2>2. \A s \in Short(m) \intersect Short(n) : Len(s.text) \in Nat
    BY <1>1
  <2>. QED BY <2>1, <2>2
<1>. DEFINE G(n) == CHOOSE g : Solves(g, n)
            f == [s \in Buffer |-> G(Len(s.text))[s]]
<1>5. \A n \in Nat : Solves(G(n), n)
  <2>. HIDE DEF Solves
  <2>. QED BY <1>3
<1>6. ASSUME NEW s \in Buffer PROVE f[s] = Step(f, s)
  <2>. DEFINE n == Len(s.text)
  <2>1. n \in Nat /\ s \in Short(n)
    BY <1>1
  <2>2. f[s] = Step(G(n), s)
    <3>1. Solves(G(n), n)
      BY <1>5, <2>1
    <3>. HIDE DEF Short, Step, G
    <3>2. G(n)[s] = Step(G(n), s)
      BY <2>1, <3>1
    <3>. QED BY <3>2
  <2>3. ASSUME ~IsDrained(s) PROVE G(n)[Rest(s)] = f[Rest(s)]
    <3>. DEFINE m == Len(Rest(s).text)
    <3>1. Rest(s) \in Buffer /\ m \in Nat /\ m < n
      BY <2>3, RestFacts DEF IsDrained
    <3>2. Rest(s) \in Short(m) \intersect Short(n)
      BY <2>1, <3>1
    <3>3. Solves(G(m), m) /\ Solves(G(n), n)
      BY <1>5, <2>1, <3>1
    <3>4. f[Rest(s)] = G(m)[Rest(s)]
      <4>. HIDE DEF G
      <4>. QED BY <3>1
    <3>. HIDE DEF Solves, Short, G, f, m, n
    <3>. QED BY <1>4, <2>1, <3>1, <3>2, <3>3, <3>4
  <2>. HIDE DEF f, G
  <2>. QED BY <2>2, <2>3
<1>7. f = [s \in Buffer |-> Step(f, s)]
  <2>1. DOMAIN f = Buffer /\ f = [s \in Buffer |-> f[s]]
    <3>. HIDE DEF G
    <3>. QED OBVIOUS
  <2>. HIDE DEF f, Step
  <2>. QED BY <1>6, <2>1
<1>8. Drain = CHOOSE g : g = [s \in Buffer |-> Step(g, s)]
  BY DEF Drain, IsDrained, Rest
<1>9. Drain = [s \in Buffer |-> Step(Drain, s)]
  <2>. HIDE DEF f, Step
  <2>. QED BY <1>7, <1>8
<1>. QED BY <1>9

-----------------------------------------------------------------------------
(* Where the lines of a text begin.                                        *)

Ends(t, i) == {j \in LineEnds(t) : j <= i}
\* A line ends at i, or the text begins after it, and k lines end by then.
EndsLine(t, k, i) == i \in {0} \union LineEnds(t) /\ Cardinality(Ends(t, i)) = k
Lines(t) == Cardinality(LineEnds(t))

LEMMA EndsFacts ==
  ASSUME NEW t \in Seq(Byte)
  PROVE  /\ Len(t) \in Nat /\ IsFiniteSet(LineEnds(t)) /\ LineEnds(t) \subseteq 1 .. Len(t) /\ Lines(t) \in Nat
         /\ \A i \in 0 .. Len(t) : /\ Ends(t, i) \in SUBSET LineEnds(t) /\ IsFiniteSet(Ends(t, i))
                                   /\ Cardinality(Ends(t, i)) \in Nat /\ Cardinality(Ends(t, i)) <= Lines(t)
<1>1. Len(t) \in Nat /\ LineEnds(t) \in SUBSET (1 .. Len(t))
  BY LenProperties DEF LineEnds
<1>2. IsFiniteSet(LineEnds(t)) /\ Lines(t) \in Nat
  <2>1. IsFiniteSet(1 .. Len(t))
    BY <1>1, FS_Interval
  <2>. QED BY <1>1, <2>1, FS_Subset, FS_CardinalityType DEF Lines
<1>3. ASSUME NEW i \in 0 .. Len(t)
      PROVE  /\ Ends(t, i) \in SUBSET LineEnds(t) /\ IsFiniteSet(Ends(t, i))
             /\ Cardinality(Ends(t, i)) \in Nat /\ Cardinality(Ends(t, i)) <= Lines(t)
  <2>1. Ends(t, i) \in SUBSET LineEnds(t)
    BY DEF Ends
  <2>. QED BY <1>2, <2>1, FS_Subset, FS_CardinalityType DEF Lines
<1>. QED BY <1>1, <1>2, <1>3

\* A line ends at one place.
LEMMA OneEnd ==
  ASSUME NEW t \in Seq(Byte), NEW k, NEW i, NEW j, EndsLine(t, k, i), EndsLine(t, k, j)
  PROVE  i = j
<1>1. i \in 0 .. Len(t) /\ j \in 0 .. Len(t)
  BY EndsFacts DEF EndsLine
<1>2. ASSUME NEW a \in 0 .. Len(t), NEW b \in LineEnds(t), a < b PROVE Cardinality(Ends(t, a)) # Cardinality(Ends(t, b))
  <2>1. b \in 0 .. Len(t)
    BY EndsFacts
  <2>2. Ends(t, a) \in SUBSET Ends(t, b) /\ b \in Ends(t, b) /\ b \notin Ends(t, a)
    BY <1>2, <2>1, EndsFacts DEF Ends
  <2>3. IsFiniteSet(Ends(t, b))
    BY <2>1, EndsFacts
  <2>. QED BY <2>2, <2>3, FS_Subset
<1>3. i < j => j \in LineEnds(t)
  BY <1>1 DEF EndsLine
<1>4. j < i => i \in LineEnds(t)
  BY <1>1 DEF EndsLine
<1>5. ~(i < j) /\ ~(j < i)
  BY <1>1, <1>2, <1>3, <1>4 DEF EndsLine
<1>. QED BY <1>1, <1>5

\* The newline that follows the end of line k ends line k + 1.
LEMMA NextEnd ==
  ASSUME NEW t \in Seq(Byte), NEW k \in Nat, NEW p, EndsLine(t, k, p),
         NEW q \in LineEnds(t), p < q, \A j \in LineEnds(t) : p < j => q <= j
  PROVE  EndsLine(t, k + 1, q) /\ k + 1 <= Lines(t)
<1>1. p \in 0 .. Len(t) /\ q \in 0 .. Len(t)
  BY EndsFacts DEF EndsLine
<1>2. Ends(t, q) = Ends(t, p) \union {q} /\ q \notin Ends(t, p)
  BY <1>1, EndsFacts DEF Ends
<1>3. IsFiniteSet(Ends(t, p)) /\ Cardinality(Ends(t, p)) = k
  BY <1>1, EndsFacts DEF EndsLine
<1>4. Cardinality(Ends(t, q)) = k + 1
  BY <1>2, <1>3, FS_AddElement
<1>. QED BY <1>1, <1>4, EndsFacts DEF EndsLine

\* No line ends after the last.
LEMMA LastEnd ==
  ASSUME NEW t \in Seq(Byte), NEW k, NEW p, EndsLine(t, k, p), \A j \in LineEnds(t) : j <= p
  PROVE  k = Lines(t)
BY DEF EndsLine, Ends, Lines

\* A line, from the end of the one before.
LEMMA LineFacts ==
  ASSUME NEW t \in Seq(Byte), NEW k \in Nat, NEW p, EndsLine(t, k, p)
  PROVE  /\ \A q : EndsLine(t, k + 1, q) /\ k + 1 <= Lines(t) => LineOf(t, k + 1) = SubSeq(t, p + 1, q - 1)
         /\ k + 1 > Lines(t) => LineOf(t, k + 1) = SubSeq(t, p + 1, Len(t))
<1>. DEFINE End(m) == IF m = 0 THEN 0 ELSE CHOOSE i \in LineEnds(t) : Cardinality({j \in LineEnds(t) : j <= i}) = m
            n == k + 1
<1>1. LineOf(t, n) = SubSeq(t, End(n - 1) + 1, IF n <= Lines(t) THEN End(n) - 1 ELSE Len(t))
  BY DEF LineOf, Lines
<1>2. Cardinality(Ends(t, 0)) = 0
  <2>1. Ends(t, 0) = {}
    BY EndsFacts DEF Ends
  <2>. QED BY <2>1, FS_EmptySet
<1>3. ASSUME NEW m \in Nat, NEW i, EndsLine(t, m, i) PROVE End(m) = i
  <2>1. CASE m = 0
    <3>1. EndsLine(t, 0, 0)
      BY <1>2 DEF EndsLine
    <3>. QED BY <1>3, <2>1, <3>1, OneEnd
  <2>2. CASE m # 0
    <3>1. i \in LineEnds(t)
      BY <1>2, <1>3, <2>2 DEF EndsLine
    <3>2. Cardinality({j \in LineEnds(t) : j <= i}) = m
      BY <1>3 DEF EndsLine, Ends
    <3>3. End(m) \in LineEnds(t) /\ Cardinality({j \in LineEnds(t) : j <= End(m)}) = m
      BY <2>2, <3>1, <3>2
    <3>4. EndsLine(t, m, End(m))
      <4>. HIDE DEF End
      <4>. QED BY <3>3 DEF EndsLine, Ends
    <3>. HIDE DEF End
    <3>. QED BY <1>3, <3>4, OneEnd
  <2>. QED BY <2>1, <2>2
<1>4. n - 1 = k /\ n \in Nat /\ End(k) = p
  <2>. HIDE DEF End
  <2>. QED BY <1>3
<1>. HIDE DEF End
<1>. QED BY <1>1, <1>3, <1>4, EndsFacts

\* The same, for a line that ends.
LEMMA LineBetween ==
  ASSUME NEW t \in Seq(Byte), NEW k \in Nat, NEW p, NEW q,
         EndsLine(t, k, p), EndsLine(t, k + 1, q), k + 1 <= Lines(t)
  PROVE  LineOf(t, k + 1) = SubSeq(t, p + 1, q - 1)
BY LineFacts

\* A part of a part.
LEMMA PartOfPart ==
  ASSUME NEW S, NEW t \in Seq(S), NEW a \in 1 .. Len(t) + 1, NEW b \in a - 1 .. Len(t),
         NEW m \in 1 .. b - a + 2, NEW n \in m - 1 .. b - a + 1
  PROVE  SubSeq(SubSeq(t, a, b), m, n) = SubSeq(t, a + m - 1, a + n - 1)
<1>1. /\ Len(t) \in Nat /\ a \in Nat \ {0} /\ b \in Nat /\ m \in Nat \ {0} /\ n \in Nat
      /\ a <= b + 1 /\ b <= Len(t) /\ m <= n + 1 /\ n <= b - a + 1
      /\ \A i \in 1 .. Len(t) : t[i] \in S
  BY LenProperties, ElementOfSeq
<1>. DEFINE u == SubSeq(t, a, b)
<1>2. u \in Seq(S) /\ Len(u) = b - a + 1 /\ \A i \in 1 .. b - a + 1 : u[i] = t[a + i - 1]
  <2>1. \A i \in a .. b : t[i] \in S
    BY <1>1
  <2>. QED BY <1>1, <2>1, SubSeqProperties
<1>. HIDE DEF u
<1>3. /\ SubSeq(u, m, n) \in Seq(S) /\ Len(SubSeq(u, m, n)) = n - m + 1
      /\ \A i \in 1 .. n - m + 1 : SubSeq(u, m, n)[i] = u[m + i - 1]
  <2>1. \A i \in m .. n : u[i] \in S
    BY <1>1, <1>2
  <2>. QED BY <1>1, <2>1, SubSeqProperties
<1>. DEFINE v == SubSeq(t, a + m - 1, a + n - 1)
<1>4. /\ v \in Seq(S) /\ Len(v) = n - m + 1
      /\ \A i \in 1 .. n - m + 1 : v[i] = t[a + m - 1 + i - 1]
  <2>1. \A i \in a + m - 1 .. a + n - 1 : t[i] \in S
    BY <1>1
  <2>2. a + m - 1 \in Int /\ a + n - 1 \in Int
    BY <1>1
  <2>3. (a + n - 1) - (a + m - 1) + 1 = n - m + 1
    BY <1>1
  <2>. QED BY <1>1, <2>1, <2>2, <2>3, SubSeqProperties
<1>. HIDE DEF v
<1>5. \A i \in 1 .. n - m + 1 : SubSeq(u, m, n)[i] = v[i]
  BY <1>1, <1>2, <1>3, <1>4
<1>6. SubSeq(u, m, n) = v
  BY <1>1, <1>3, <1>4, <1>5, SeqEqual
<1>. QED BY <1>6 DEF u, v

-----------------------------------------------------------------------------
(* What the loop computes                                                  *)

\* The lines are the first ones of the payload, and text is what follows them
\* up to e.
Shows(ls) == \A n \in 1 .. Len(ls) : n <= Lines(payload) /\ ls[n] = LineOf(payload, n)
Follows(ls, t, e) == \E p \in 0 .. e : EndsLine(payload, Len(ls), p) /\ t = SubSeq(payload, p + 1, e)
Taken(s, e) == s \in Buffer /\ Shows(s.lines) /\ Len(s.lines) <= LineCap /\ Follows(s.lines, s.text, e)

LEMMA RestIsTaken ==
  ASSUME payload \in Seq(Byte), NEW e \in 0 .. Len(payload), NEW s, Taken(s, e), ~IsDrained(s)
  PROVE  Taken(Rest(s), e)
<1>. DEFINE i == NewlineIn(s.text)
            k == Len(s.lines)
            t == s.text
            line == SubSeq(t, 1, i - 1)
<1>1. PICK p \in 0 .. e : EndsLine(payload, k, p) /\ t = SubSeq(payload, p + 1, e)
  BY DEF Taken, Follows
<1>2. t \in Seq(Byte) /\ s.lines \in Seq(Seq(Byte)) /\ k \in Nat /\ Len(t) \in Nat /\ Len(payload) \in Nat
  BY DEF Taken, Buffer
<1>3. i \in 1 .. Len(t) /\ t[i] = Newline /\ \A j \in 1 .. Len(t) : t[j] = Newline => i <= j
  BY <1>2, NewlineFacts DEF IsDrained
<1>4. Len(t) = e - p /\ \A j \in 1 .. e - p : t[j] = payload[p + j]
  <2>1. \A j \in p + 1 .. e : payload[j] \in Byte
    BY <1>1, <1>2, ElementOfSeq
  <2>2. p + 1 \in Int /\ e \in Int /\ e - (p + 1) + 1 = e - p
    BY <1>1
  <2>3. /\ Len(t) = IF p + 1 <= e THEN e - (p + 1) + 1 ELSE 0
        /\ \A j \in 1 .. e - (p + 1) + 1 : t[j] = payload[p + 1 + j - 1]
    BY <1>1, <2>1, <2>2, SubSeqProperties
  <2>. QED BY <1>1, <1>2, <2>2, <2>3
<1>. DEFINE q == p + i
<1>. HIDE DEF i, t, k
<1>5. q \in 1 .. e /\ q \in LineEnds(payload) /\ p < q
  <2>1. i \in 1 .. e - p /\ t[i] = payload[p + i] /\ t[i] = Newline
    BY <1>3, <1>4
  <2>2. q \in 1 .. e /\ q \in 1 .. Len(payload) /\ p < q
    BY <1>1, <1>2, <2>1
  <2>. QED BY <2>1, <2>2 DEF LineEnds
<1>6. \A j \in LineEnds(payload) : p < j => q <= j
  <2>. SUFFICES ASSUME NEW j \in LineEnds(payload), p < j, j < q PROVE FALSE
    BY <1>1, <1>2, <1>5, EndsFacts
  <2>1. j \in 1 .. Len(payload) /\ payload[j] = Newline
    BY DEF LineEnds
  <2>2. j - p \in 1 .. e - p /\ p + (j - p) = j
    BY <1>1, <1>2, <1>5, <2>1
  <2>3. t[j - p] = Newline
    BY <1>4, <2>1, <2>2
  <2>4. i <= j - p
    BY <1>3, <1>4, <2>2, <2>3
  <2>. QED BY <1>1, <1>2, <1>3, <2>1, <2>4
<1>. HIDE DEF q
<1>7. EndsLine(payload, k + 1, q) /\ k + 1 <= Lines(payload)
  BY <1>1, <1>2, <1>5, <1>6, NextEnd
<1>8. LineOf(payload, k + 1) = SubSeq(payload, p + 1, q - 1)
  <2>1. payload \in Seq(Byte) /\ k \in Nat /\ EndsLine(payload, k, p)
    BY <1>1, <1>2
  <2>. QED BY <1>7, <2>1, LineBetween
<1>9. SubSeq(t, 1, i - 1) = SubSeq(payload, p + 1, q - 1) /\ SubSeq(t, i + 1, Len(t)) = SubSeq(payload, q + 1, e)
  <2>1. /\ p + 1 \in 1 .. Len(payload) + 1 /\ e \in p + 1 - 1 .. Len(payload)
        /\ 1 \in 1 .. e - (p + 1) + 2 /\ i - 1 \in 1 - 1 .. e - (p + 1) + 1
        /\ i + 1 \in 1 .. e - (p + 1) + 2 /\ e - p \in i + 1 - 1 .. e - (p + 1) + 1
        /\ p + 1 + 1 - 1 = p + 1 /\ p + 1 + (i - 1) - 1 = q - 1
        /\ p + 1 + (i + 1) - 1 = q + 1 /\ p + 1 + (e - p) - 1 = e
    BY <1>1, <1>2, <1>3, <1>4 DEF q
  <2>2. SubSeq(SubSeq(payload, p + 1, e), 1, i - 1) = SubSeq(payload, p + 1 + 1 - 1, p + 1 + (i - 1) - 1)
    <3>. DEFINE a == p + 1
                m == i - 1
    <3>1. /\ a \in 1 .. Len(payload) + 1 /\ e \in a - 1 .. Len(payload)
          /\ 1 \in 1 .. e - a + 2 /\ m \in 1 - 1 .. e - a + 1
      BY <2>1
    <3>. HIDE DEF a, m
    <3>2. SubSeq(SubSeq(payload, a, e), 1, m) = SubSeq(payload, a + 1 - 1, a + m - 1)
      BY <1>2, <3>1, PartOfPart
    <3>. QED BY <3>2 DEF a, m
  <2>3. SubSeq(SubSeq(payload, p + 1, e), i + 1, e - p) = SubSeq(payload, q + 1, e)
    <3>. DEFINE a == p + 1
                m == i + 1
                n == e - p
    <3>1. a \in 1 .. Len(payload) + 1 /\ e \in a - 1 .. Len(payload) /\ m \in 1 .. e - a + 2 /\ n \in m - 1 .. e - a + 1
      BY <2>1
    <3>2. a + m - 1 = q + 1 /\ a + n - 1 = e
      BY <2>1
    <3>. HIDE DEF a, m, n
    <3>3. SubSeq(SubSeq(payload, a, e), m, n) = SubSeq(payload, a + m - 1, a + n - 1)
      BY <3>1, PartOfPart
    <3>4. SubSeq(SubSeq(payload, a, e), m, n) = SubSeq(payload, q + 1, e)
      BY <3>2, <3>3
    <3>. QED BY <3>4 DEF a, m, n
  <2>. QED BY <1>1, <1>4, <2>1, <2>2, <2>3
<1>. DEFINE r == Rest(s)
<1>10. r.lines = Append(s.lines, line) /\ r.text = SubSeq(t, i + 1, Len(t))
  BY DEF Rest, i, t
<1>11. r \in Buffer
  BY RestFacts DEF Taken, IsDrained
<1>12. line \in Seq(Byte)
  <2>1. \A j \in 1 .. i - 1 : t[j] \in Byte
    BY <1>2, <1>3, ElementOfSeq
  <2>2. i - 1 \in Int
    BY <1>2, <1>3
  <2>. QED BY <2>1, <2>2, SubSeqProperties
<1>. HIDE DEF line, r
<1>13. /\ Len(r.lines) = k + 1 /\ r.lines[k + 1] = line
       /\ \A n \in 1 .. k : r.lines[n] = s.lines[n]
  BY <1>2, <1>10, <1>12, AppendProperties DEF k
<1>14. Shows(r.lines)
  <2>. SUFFICES ASSUME NEW n \in 1 .. k + 1 PROVE n <= Lines(payload) /\ r.lines[n] = LineOf(payload, n)
    BY <1>13 DEF Shows
  <2>1. CASE n = k + 1
    BY <1>7, <1>8, <1>9, <1>13, <2>1 DEF line
  <2>2. CASE n # k + 1
    <3>1. n \in 1 .. k
      BY <1>2, <2>2
    <3>. QED BY <1>13, <3>1 DEF Taken, Shows, k
  <2>. QED BY <2>1, <2>2
<1>15. Len(r.lines) <= LineCap
  <2>1. ~(k >= LineCap)
    BY DEF IsDrained, k
  <2>. QED BY <1>2, <1>13, <2>1, ReadersAssumption
<1>16. Follows(r.lines, r.text, e)
  <2>1. q \in 0 .. e /\ EndsLine(payload, Len(r.lines), q) /\ r.text = SubSeq(payload, q + 1, e)
    <3>1. q \in 0 .. e
      BY <1>2, <1>5
    <3>. QED BY <1>7, <1>9, <1>10, <1>13, <3>1
  <2>. QED BY <2>1 DEF Follows
<1>. QED BY <1>11, <1>14, <1>15, <1>16 DEF Taken, r

\* By the length of the text.
LEMMA DrainFacts ==
  ASSUME payload \in Seq(Byte), NEW e \in 0 .. Len(payload), NEW s, Taken(s, e)
  PROVE  Taken(Drain[s], e) /\ IsDrained(Drain[s])
<1>. DEFINE Right(b) == Taken(Drain[b], e) /\ IsDrained(Drain[b])
            D == {k \in Nat : \E b \in Buffer : Taken(b, e) /\ Len(b.text) = k /\ ~Right(b)}
<1>1. ASSUME D # {} PROVE FALSE
  <2>1. PICK k \in D : \A l \in D : k <= l
    <3>1. D \subseteq Nat
      OBVIOUS
    <3>. HIDE DEF D
    <3>. QED BY <1>1, <3>1, LeastNatural
  <2>2. PICK b \in Buffer : Taken(b, e) /\ Len(b.text) = k /\ ~Right(b)
    BY <2>1
  <2>3. ~IsDrained(b)
    <3>. SUFFICES ASSUME IsDrained(b) PROVE FALSE
      OBVIOUS
    <3>1. Drain[b] = b
      BY DrainStep
    <3>. QED BY <2>2, <3>1
  <2>4. Drain[b] = Drain[Rest(b)]
    BY <2>3, DrainStep
  <2>5. Taken(Rest(b), e)
    BY <2>2, <2>3, RestIsTaken
  <2>6. /\ Rest(b) \in Buffer /\ k \in Nat
        /\ Len(Rest(b).text) \in Nat /\ Len(Rest(b).text) < k
    BY <2>2, <2>3, RestFacts DEF IsDrained
  <2>7. ~Right(Rest(b))
    BY <2>2, <2>4
  <2>. HIDE DEF Right
  <2>8. Len(Rest(b).text) \in D
    BY <2>5, <2>6, <2>7
  <2>. HIDE DEF D
  <2>. QED BY <2>1, <2>6, <2>8
<1>2. s \in Buffer /\ Len(s.text) \in Nat
  BY DEF Taken, Buffer
<1>. HIDE DEF Right
<1>3. Right(s)
  BY <1>1, <1>2
<1>. QED BY <1>3 DEF Right

-----------------------------------------------------------------------------
(* The two reads                                                           *)

ReadersTyped ==
  /\ reader \in {"text", "preview"} /\ payload \in BoundedSeq(Byte, MaxPayload)
  /\ reading \in {"open", "success", "error", "aborted"}
  /\ signalled \in BOOLEAN /\ got \in 0 .. Len(payload)
  /\ capped \in {"no", "bytes", "lines"}

\* streamRawText has the bytes that have come, up to its cap.
TextIsRead ==
  reader = "text" =>
    /\ lines = <<>> /\ text = SubSeq(payload, 1, IF got < TextByteCap THEN got ELSE TextByteCap)
    /\ reading = "open" => got <= TextByteCap /\ capped = "no"
    /\ reading = "success" => /\ got = Len(payload) \/ got > TextByteCap
                              /\ (capped = "bytes") = (Len(payload) > TextByteCap)

\* consumeRawPreview has the first lines, and what came after them; once it is
\* done, the last one may have had no end.
Unended == IF payload # <<>> /\ Last(payload) = Other THEN 1 ELSE 0
PreviewIsRead ==
  reader = "preview" =>
    /\ lines \in Seq(Seq(Byte)) /\ Len(lines) <= LineCap
    /\ reading = "open" => /\ capped = "no" /\ text \in Seq(Byte) /\ NewlineIn(text) = 0
                           /\ Len(lines) < LineCap
                           /\ Shows(lines) /\ Follows(lines, text, got)
    /\ reading = "success" =>
         /\ \A n \in 1 .. Len(lines) : n <= Lines(payload) + Unended /\ lines[n] = LineOf(payload, n)
         /\ capped = "no" => Len(lines) = Lines(payload) + Unended

ReadersInv == ReadersTyped /\ TextIsRead /\ PreviewIsRead

LEMMA PayloadIsText == ReadersTyped => payload \in Seq(Byte) /\ Len(payload) \in Nat /\ got \in Nat
<1>. SUFFICES ASSUME ReadersTyped PROVE payload \in Seq(Byte) /\ Len(payload) \in Nat /\ got \in Nat
  OBVIOUS
<1>1. PICK m \in 0 .. MaxPayload : payload \in [1 .. m -> Byte]
  BY DEF ReadersTyped, BoundedSeq, SeqOf
<1>2. payload \in Seq(Byte)
  BY <1>1, ReadersAssumption
<1>. QED BY <1>2, LenProperties DEF ReadersTyped

LEMMA NoLines ==
  ASSUME payload \in Seq(Byte)
  PROVE  Shows(<<>>) /\ EndsLine(payload, 0, 0)
<1>1. Ends(payload, 0) = {}
  BY EndsFacts DEF Ends
<1>2. Len(<<>>) = 0
  BY EmptySeq
<1>3. Shows(<<>>)
  BY <1>2 DEF Shows
<1>. QED BY <1>1, <1>3, FS_EmptySet DEF EndsLine

LEMMA ReadersStart == \A who \in {"text", "preview"}, sent \in BoundedSeq(Byte, MaxPayload) :
                        ReadersBegin(who, sent) => ReadersInv
<1>. SUFFICES ASSUME NEW who \in {"text", "preview"}, NEW sent \in BoundedSeq(Byte, MaxPayload),
                     ReadersBegin(who, sent)
              PROVE  ReadersInv
  OBVIOUS
<1>1. /\ reader = who /\ payload = sent /\ reading = "open" /\ signalled = FALSE
      /\ got = 0 /\ text = <<>> /\ lines = <<>> /\ capped = "no"
  BY DEF ReadersBegin
<1>2. Len(payload) \in Nat /\ payload \in Seq(Byte)
  <2>1. PICK m \in 0 .. MaxPayload : payload \in [1 .. m -> Byte]
    BY <1>1 DEF BoundedSeq, SeqOf
  <2>2. payload \in Seq(Byte)
    BY <2>1, ReadersAssumption
  <2>. QED BY <2>2, LenProperties
<1>3. ReadersTyped
  <2>1. reader \in {"text", "preview"} /\ payload \in BoundedSeq(Byte, MaxPayload)
    BY <1>1
  <2>2. got \in 0 .. Len(payload)
    BY <1>1, <1>2
  <2>. QED BY <1>1, <2>1, <2>2 DEF ReadersTyped
<1>4. TextIsRead
  <2>1. SubSeq(payload, 1, 0) = <<>>
    BY SubSeqEmpty
  <2>. QED BY <1>1, <2>1, ReadersAssumption DEF TextIsRead
<1>5. PreviewIsRead
  <2>1. SubSeq(payload, 0 + 1, 0) = <<>>
    BY SubSeqEmpty
  <2>2. Follows(<<>>, <<>>, 0)
    <3>1. Len(<<>>) = 0 /\ 0 \in 0 .. 0
      BY EmptySeq
    <3>. QED BY <1>2, <2>1, <3>1, NoLines DEF Follows
  <2>3. NewlineIn(<<>>) = 0
    <3>1. <<>> \in Seq(Byte) /\ Len(<<>>) = 0
      BY EmptySeq
    <3>2. NewlineIn(<<>>) \in 0 .. 0
      BY <3>1, NewlineFacts
    <3>. QED BY <3>2
  <2>. QED BY <1>1, <1>2, <2>2, <2>3, NoLines, ReadersAssumption DEF PreviewIsRead
<1>. QED BY <1>3, <1>4, <1>5 DEF ReadersInv

\* A chunk is what comes next.
LEMMA ChunkFacts ==
  ASSUME ReadersTyped, NEW chunk \in Chunks
  PROVE  \E n \in got + 1 .. Len(payload) :
           /\ chunk = SubSeq(payload, got + 1, n) /\ got + Len(chunk) = n /\ Len(chunk) \in Nat
           /\ chunk \in Seq(Byte)
           /\ \A p \in 0 .. got : SubSeq(payload, p + 1, got) \o chunk = SubSeq(payload, p + 1, n)
<1>1. payload \in Seq(Byte) /\ Len(payload) \in Nat /\ got \in Nat
  BY PayloadIsText
<1>2. PICK n \in got + 1 .. Len(payload) : chunk = SubSeq(payload, got + 1, n)
  BY DEF Chunks
<1>3. \A i \in got + 1 .. n : payload[i] \in Byte
  BY <1>1, ElementOfSeq
<1>4. chunk \in Seq(Byte) /\ Len(chunk) = IF got + 1 <= n THEN n - (got + 1) + 1 ELSE 0
  BY <1>1, <1>2, <1>3, SubSeqProperties
<1>5. ASSUME NEW p \in 0 .. got PROVE SubSeq(payload, p + 1, got) \o chunk = SubSeq(payload, p + 1, n)
  <2>1. p + 1 \in 1 .. Len(payload) + 1 /\ got \in p + 1 - 1 .. Len(payload) /\ n \in got .. Len(payload)
    BY <1>1
  <2>. QED BY <1>1, <1>2, <2>1, ConcatAdjacentSubSeq
<1>. QED BY <1>1, <1>2, <1>4, <1>5

LEMMA TextChunkKeeps ==
  ASSUME ReadersInv, reading = "open", NEW chunk \in Chunks, got' = got + Len(chunk), TextChunk(chunk),
         UNCHANGED <<reader, payload, signalled>>
  PROVE  ReadersInv'
<1>. DEFINE room == TextByteCap - Len(text)
            cap == TextByteCap
<1>1. ReadersTyped /\ payload \in Seq(Byte) /\ Len(payload) \in Nat /\ got \in Nat /\ cap \in Nat \ {0}
  BY PayloadIsText, ReadersAssumption DEF ReadersInv
<1>2. PICK n \in got + 1 .. Len(payload) :
        /\ chunk = SubSeq(payload, got + 1, n) /\ got + Len(chunk) = n /\ Len(chunk) \in Nat
        /\ \A p \in 0 .. got : SubSeq(payload, p + 1, got) \o chunk = SubSeq(payload, p + 1, n)
  BY <1>1, ChunkFacts
<1>3. /\ reader = "text" /\ lines = <<>> /\ got <= cap /\ capped = "no"
      /\ text = SubSeq(payload, 1, got)
  <2>1. /\ reader = "text" /\ lines = <<>> /\ got <= cap /\ capped = "no"
        /\ text = SubSeq(payload, 1, IF got < cap THEN got ELSE cap)
    BY DEF ReadersInv, TextIsRead, TextChunk
  <2>2. (IF got < cap THEN got ELSE cap) = got
    BY <1>1, <2>1
  <2>. QED BY <2>1, <2>2
<1>4. \A i \in 1 .. Len(payload) : payload[i] \in Byte
  BY <1>1, ElementOfSeq
<1>5. Len(text) = got
  BY <1>1, <1>2, <1>3, <1>4, SubSeqProperties
<1>6. text \o chunk = SubSeq(payload, 1, n) /\ got' = n /\ lines' = <<>>
  <2>1. 0 \in 0 .. got /\ 0 + 1 = 1
    BY <1>1
  <2>2. SubSeq(payload, 0 + 1, got) \o chunk = SubSeq(payload, 0 + 1, n)
    BY <1>2, <2>1
  <2>. QED BY <1>2, <1>3, <2>1, <2>2 DEF TextChunk
<1>7. got' \in 0 .. Len(payload')
  BY <1>1, <1>2, <1>6
<1>8. CASE Len(chunk) > room
  <2>1. text' = text \o SubSeq(chunk, 1, room) /\ capped' = "bytes" /\ reading' = "success"
    BY <1>8 DEF TextChunk
  <2>2. n > cap /\ room \in 0 .. Len(chunk)
    BY <1>1, <1>2, <1>3, <1>5, <1>8
  <2>3. SubSeq(chunk, 1, room) = SubSeq(payload, got + 1, cap)
    <3>. DEFINE a == got + 1
                m == 1
    <3>1. /\ a \in 1 .. Len(payload) + 1 /\ n \in a - 1 .. Len(payload)
          /\ m \in 1 .. n - a + 2 /\ room \in m - 1 .. n - a + 1
          /\ a + m - 1 = got + 1 /\ a + room - 1 = cap
      BY <1>1, <1>2, <1>3, <1>5, <2>2
    <3>. HIDE DEF a, m, room
    <3>2. SubSeq(SubSeq(payload, a, n), m, room) = SubSeq(payload, a + m - 1, a + room - 1)
      BY <1>1, <3>1, PartOfPart
    <3>3. SubSeq(SubSeq(payload, a, n), m, room) = SubSeq(payload, got + 1, cap)
      BY <3>1, <3>2
    <3>. QED BY <1>2, <3>3 DEF a, m
  <2>4. text' = SubSeq(payload, 1, cap)
    <3>1. 1 \in 1 .. Len(payload) + 1 /\ got \in 1 - 1 .. Len(payload) /\ cap \in got .. Len(payload)
      BY <1>1, <1>2, <1>3, <2>2
    <3>2. SubSeq(payload, 1, got) \o SubSeq(payload, got + 1, cap) = SubSeq(payload, 1, cap)
      BY <1>1, <3>1, ConcatAdjacentSubSeq
    <3>. QED BY <1>3, <2>1, <2>3, <3>2
  <2>5. ReadersTyped'
    BY <1>1, <1>7, <2>1 DEF ReadersTyped
  <2>6. TextIsRead'
    <3>1. got' > cap /\ (IF got' < cap THEN got' ELSE cap) = cap /\ Len(payload) > cap
      BY <1>1, <1>2, <1>6, <2>2
    <3>. QED BY <1>6, <2>1, <2>4, <3>1 DEF TextIsRead
  <2>7. PreviewIsRead'
    BY <1>3 DEF PreviewIsRead
  <2>. QED BY <2>5, <2>6, <2>7 DEF ReadersInv
<1>9. CASE ~(Len(chunk) > room)
  <2>1. text' = text \o chunk /\ capped' = "no" /\ reading' = "open"
    BY <1>3, <1>9 DEF TextChunk
  <2>2. got' <= cap /\ (IF got' < cap THEN got' ELSE cap) = got'
    BY <1>1, <1>2, <1>5, <1>6, <1>9
  <2>3. text' = SubSeq(payload', 1, got')
    BY <1>6, <2>1
  <2>4. ReadersTyped'
    BY <1>1, <1>7, <2>1 DEF ReadersTyped
  <2>5. TextIsRead'
    BY <1>6, <2>1, <2>2, <2>3 DEF TextIsRead
  <2>6. PreviewIsRead'
    BY <1>3 DEF PreviewIsRead
  <2>. QED BY <2>4, <2>5, <2>6 DEF ReadersInv
<1>. QED BY <1>8, <1>9

LEMMA PreviewChunkKeeps ==
  ASSUME ReadersInv, reading = "open", NEW chunk \in Chunks, got' = got + Len(chunk), PreviewChunk(chunk),
         UNCHANGED <<reader, payload, signalled>>
  PROVE  ReadersInv'
<1>1. ReadersTyped /\ payload \in Seq(Byte) /\ Len(payload) \in Nat /\ got \in Nat
  BY PayloadIsText DEF ReadersInv
<1>2. PICK n \in got + 1 .. Len(payload) :
        /\ chunk = SubSeq(payload, got + 1, n) /\ got + Len(chunk) = n /\ chunk \in Seq(Byte)
        /\ \A p \in 0 .. got : SubSeq(payload, p + 1, got) \o chunk = SubSeq(payload, p + 1, n)
  BY <1>1, ChunkFacts
<1>3. /\ reader = "preview" /\ lines \in Seq(Seq(Byte)) /\ Len(lines) <= LineCap /\ capped = "no"
      /\ text \in Seq(Byte) /\ Shows(lines) /\ Follows(lines, text, got)
  BY DEF ReadersInv, PreviewIsRead, PreviewChunk
<1>. DEFINE b == [lines |-> lines, text |-> text \o chunk]
            d == Drain[b]
<1>4. n \in 0 .. Len(payload) /\ got' = n /\ got' \in 0 .. Len(payload')
  BY <1>1, <1>2
<1>5. Taken(b, n)
  <2>1. text \o chunk \in Seq(Byte)
    BY <1>2, <1>3, ConcatProperties
  <2>2. b \in Buffer /\ b.lines = lines /\ b.text = text \o chunk
    BY <1>3, <2>1 DEF Buffer
  <2>3. PICK p \in 0 .. got : EndsLine(payload, Len(lines), p) /\ text = SubSeq(payload, p + 1, got)
    BY <1>3 DEF Follows
  <2>4. p \in 0 .. n /\ text \o chunk = SubSeq(payload, p + 1, n)
    BY <1>1, <1>2, <2>3
  <2>. HIDE DEF b
  <2>5. Follows(b.lines, b.text, n)
    BY <2>2, <2>3, <2>4 DEF Follows
  <2>. QED BY <1>3, <2>2, <2>5 DEF Taken
<1>. HIDE DEF b
<1>6. Taken(d, n) /\ IsDrained(d)
  BY <1>1, <1>4, <1>5, DrainFacts
<1>7. /\ lines' = d.lines /\ text' = d.text
      /\ capped' = IF Len(lines') >= LineCap THEN "lines" ELSE IF got' >= PreviewByteCap THEN "bytes" ELSE "no"
      /\ reading' = IF capped' = "no" THEN "open" ELSE "success"
  BY DEF PreviewChunk, Drained, b
<1>. HIDE DEF d
<1>8. /\ lines' \in Seq(Seq(Byte)) /\ text' \in Seq(Byte) /\ Len(lines') <= LineCap
      /\ Shows(lines') /\ Follows(lines', text', n) /\ Len(lines') \in Nat
      /\ NewlineIn(text') = 0 \/ Len(lines') >= LineCap
  BY <1>6, <1>7 DEF Taken, Buffer, IsDrained
<1>9. ReadersTyped'
  BY <1>1, <1>4, <1>7 DEF ReadersTyped
<1>10. TextIsRead'
  BY <1>3 DEF TextIsRead
<1>11. ASSUME reading' = "open" PROVE /\ capped' = "no" /\ NewlineIn(text') = 0 /\ Len(lines') < LineCap
                                      /\ Shows(lines)' /\ Follows(lines, text, got)'
  <2>1. capped' = "no" /\ ~(Len(lines') >= LineCap)
    BY <1>7, <1>11
  <2>2. Shows(lines)' /\ Follows(lines, text, got)'
    BY <1>4, <1>8 DEF Shows, Follows
  <2>. QED BY <1>8, <2>1, <2>2, ReadersAssumption
<1>12. ASSUME reading' = "success"
       PROVE  /\ capped' # "no"
              /\ \A i \in 1 .. Len(lines') : i <= Lines(payload) + Unended /\ lines'[i] = LineOf(payload, i)
  <2>1. capped' # "no"
    BY <1>7, <1>12
  <2>2. Lines(payload) \in Nat /\ Unended \in {0, 1}
    BY <1>1, EndsFacts DEF Unended
  <2>. QED BY <1>8, <2>1, <2>2 DEF Shows
<1>13. PreviewIsRead'
  <2>1. Unended' = Unended
    BY DEF Unended
  <2>. QED BY <1>8, <1>11, <1>12, <2>1 DEF PreviewIsRead
<1>. QED BY <1>9, <1>10, <1>13 DEF ReadersInv

\* What is left when the stream ends is a line if there is any.
LEMMA DoneKeeps ==
  ASSUME ReadersInv, StreamDone
  PROVE  ReadersInv'
<1>1. ReadersTyped /\ payload \in Seq(Byte) /\ Len(payload) \in Nat /\ got = Len(payload)
  BY PayloadIsText DEF ReadersInv, StreamDone
<1>2. /\ reading = "open" /\ reading' = "success" /\ UNCHANGED <<reader, payload, signalled, got>>
      /\ capped' \in {"lines", capped}
  BY DEF StreamDone
<1>3. ReadersTyped'
  BY <1>1, <1>2 DEF ReadersTyped
<1>4. TextIsRead'
  <2>. SUFFICES ASSUME reader = "text" PROVE TextIsRead'
    BY <1>2 DEF TextIsRead
  <2>1. UNCHANGED <<lines, text, capped>> /\ capped = "no" /\ got <= TextByteCap
    BY DEF StreamDone, ReadersInv, TextIsRead
  <2>2. ~(Len(payload) > TextByteCap)
    BY <1>1, <2>1, ReadersAssumption
  <2>. QED BY <1>1, <1>2, <2>1, <2>2 DEF ReadersInv, TextIsRead
<1>5. PreviewIsRead'
  <2>. SUFFICES ASSUME reader = "preview" PROVE PreviewIsRead'
    BY <1>2 DEF PreviewIsRead
  <2>1. /\ lines \in Seq(Seq(Byte)) /\ capped = "no" /\ text \in Seq(Byte) /\ NewlineIn(text) = 0
        /\ Len(lines) < LineCap /\ Shows(lines) /\ Len(lines) \in Nat
    BY <1>2 DEF ReadersInv, PreviewIsRead
  <2>2. PICK p \in 0 .. got : EndsLine(payload, Len(lines), p) /\ text = SubSeq(payload, p + 1, got)
    BY <1>2 DEF ReadersInv, PreviewIsRead, Follows
  <2>. DEFINE k == Len(lines)
  <2>3. \A i \in 1 .. Len(payload) : payload[i] \in Byte
    BY <1>1, ElementOfSeq
  <2>4. Len(text) = got - p /\ \A i \in 1 .. got - p : text[i] = payload[p + i]
    <3>1. p + 1 \in Int /\ got \in Int /\ got - (p + 1) + 1 = got - p
      BY <1>1
    <3>2. /\ Len(text) = IF p + 1 <= got THEN got - (p + 1) + 1 ELSE 0
          /\ \A i \in 1 .. got - (p + 1) + 1 : text[i] = payload[p + 1 + i - 1]
      BY <1>1, <2>2, <2>3, <3>1, SubSeqProperties
    <3>3. Len(text) = got - p
      BY <1>1, <3>1, <3>2
    <3>4. ASSUME NEW i \in 1 .. got - p PROVE text[i] = payload[p + i]
      <4>1. p + 1 + i - 1 = p + i /\ i \in 1 .. got - (p + 1) + 1
        BY <1>1, <3>1
      <4>. QED BY <3>2, <4>1
    <3>. QED BY <3>3, <3>4
  <2>5. \A i \in p + 1 .. got : payload[i] # Newline
    <3>. SUFFICES ASSUME NEW i \in p + 1 .. got, payload[i] = Newline PROVE FALSE
      OBVIOUS
    <3>1. i - p \in 1 .. got - p /\ p + (i - p) = i
      BY <1>1
    <3>2. i - p \in 1 .. Len(text) /\ text[i - p] = Newline
      BY <2>4, <3>1
    <3>. QED BY <2>1, <3>2, NewlineFacts
  <2>6. \A j \in LineEnds(payload) : j <= p
    BY <1>1, <2>5 DEF LineEnds
  <2>7. k = Lines(payload) /\ k \in Nat
    BY <1>1, <2>1, <2>2, <2>6, LastEnd
  <2>. HIDE DEF k
  <2>8. CASE text = <<>>
    <3>1. p = got
      <4>1. Len(text) = 0
        BY <2>8, EmptySeq
      <4>. QED BY <1>1, <2>4, <4>1
    <3>2. Unended = 0
      <4>. SUFFICES ASSUME payload # <<>> PROVE Last(payload) # Other
        BY DEF Unended
      <4>1. p # 0
        BY <1>1, <3>1, EmptySeq
      <4>2. payload[p] = Newline
        BY <2>2, <4>1 DEF EndsLine, LineEnds
      <4>. QED BY <1>1, <3>1, <4>2, ReadersAssumption DEF Last
    <3>3. UNCHANGED <<lines, text, capped>>
      BY <2>8 DEF StreamDone
    <3>4. \A n \in 1 .. Len(lines) : n <= Lines(payload) + 0 /\ lines[n] = LineOf(payload, n)
      BY <2>1, <2>7 DEF Shows
    <3>5. Len(lines) = Lines(payload) + 0
      BY <2>7 DEF k
    <3>6. Unended' = 0 /\ Len(lines) <= LineCap
      BY <1>2, <2>1, <3>2, ReadersAssumption DEF Unended
    <3>. QED BY <1>2, <2>1, <3>3, <3>4, <3>5, <3>6 DEF PreviewIsRead
  <2>9. CASE text # <<>>
    <3>1. /\ lines' = Append(lines, text) /\ text' = <<>>
          /\ capped' = IF Len(lines') >= LineCap THEN "lines" ELSE capped
      BY <2>9 DEF StreamDone
    <3>2. p < got
      <4>1. Len(text) # 0
        BY <2>1, <2>9, EmptySeq
      <4>. QED BY <1>1, <2>4, <4>1
    <3>3. Unended = 1
      <4>1. payload # <<>> /\ got \in p + 1 .. got /\ got \in 1 .. Len(payload)
        BY <1>1, <3>2, EmptySeq
      <4>2. payload[got] # Newline /\ payload[got] \in Byte
        BY <2>3, <2>5, <4>1
      <4>. QED BY <1>1, <4>1, <4>2 DEF Unended, Last, Byte
    <3>4. text = LineOf(payload, k + 1)
      <4>1. k + 1 > Lines(payload)
        BY <2>7
      <4>. QED BY <1>1, <2>2, <2>7, <4>1, LineFacts DEF k
    <3>5. /\ lines' \in Seq(Seq(Byte)) /\ Len(lines') = k + 1 /\ lines'[k + 1] = text
          /\ \A n \in 1 .. k : lines'[n] = lines[n]
      BY <2>1, <3>1, AppendProperties DEF k
    <3>6. ASSUME NEW n \in 1 .. k + 1 PROVE n <= Lines(payload) + 1 /\ lines'[n] = LineOf(payload, n)
      <4>1. CASE n = k + 1
        BY <2>7, <3>4, <3>5, <4>1
      <4>2. CASE n # k + 1
        <5>1. n \in 1 .. k
          BY <2>7, <4>2
        <5>. QED BY <2>1, <2>7, <3>5, <5>1 DEF Shows, k
      <4>. QED BY <4>1, <4>2
    <3>7. Len(lines') <= LineCap /\ Len(lines') = Lines(payload) + 1
      BY <2>1, <2>7, <3>5, ReadersAssumption DEF k
    <3>8. Unended' = 1
      BY <1>2, <3>3 DEF Unended
    <3>. QED BY <1>2, <3>5, <3>6, <3>7, <3>8 DEF PreviewIsRead
  <2>. QED BY <2>8, <2>9
<1>. QED BY <1>3, <1>4, <1>5 DEF ReadersInv

LEMMA ReadersKeep == ReadersInv /\ [ReadersNext]_readerVars => ReadersInv'
<1>. SUFFICES ASSUME ReadersInv, [ReadersNext]_readerVars PROVE ReadersInv'
  OBVIOUS
<1>1. CASE ChunkArrives
  BY <1>1, TextChunkKeeps, PreviewChunkKeeps DEF ChunkArrives
<1>2. CASE StreamDone
  BY <1>2, DoneKeeps
<1>3. CASE NetworkFails \/ Abort \/ AbortSeen \/ UNCHANGED readerVars
  <2>1. /\ UNCHANGED <<reader, payload, got, text, lines, capped>>
        /\ reading' \in {reading, "error", "aborted"} /\ signalled' \in {signalled, TRUE}
    BY <1>3 DEF NetworkFails, Abort, AbortSeen, readerVars
  <2>2. ReadersTyped'
    BY <2>1 DEF ReadersInv, ReadersTyped
  <2>3. TextIsRead'
    BY <2>1 DEF ReadersInv, TextIsRead
  <2>4. PreviewIsRead'
    <3>1. Unended' = Unended
      BY <2>1 DEF Unended
    <3>2. Shows(lines)' <=> Shows(lines)
      BY <2>1 DEF Shows
    <3>3. Follows(lines, text, got)' <=> Follows(lines, text, got)
      BY <2>1 DEF Follows
    <3>. QED BY <2>1, <3>1, <3>2, <3>3 DEF ReadersInv, PreviewIsRead
  <2>. QED BY <2>2, <2>3, <2>4 DEF ReadersInv
<1>. QED BY <1>1, <1>2, <1>3 DEF ReadersNext

LEMMA ReadIsPrefix == ReadersInv => PreviewIsPrefix
<1>. SUFFICES ASSUME ReadersInv, reading = "success" PROVE PreviewIsPrefix
  BY DEF PreviewIsPrefix
<1>1. ReadersTyped /\ payload \in Seq(Byte) /\ Len(payload) \in Nat /\ got \in 0 .. Len(payload)
  BY PayloadIsText DEF ReadersInv, ReadersTyped
<1>2. CASE reader = "text"
  <2>1. /\ text = SubSeq(payload, 1, IF got < TextByteCap THEN got ELSE TextByteCap)
        /\ got = Len(payload) \/ got > TextByteCap
        /\ (capped = "bytes") = (Len(payload) > TextByteCap)
    BY <1>2 DEF ReadersInv, TextIsRead
  <2>2. (IF got < TextByteCap THEN got ELSE TextByteCap)
          = IF Len(payload) < TextByteCap THEN Len(payload) ELSE TextByteCap
    BY <1>1, <2>1, ReadersAssumption
  <2>. QED BY <1>2, <2>1, <2>2 DEF PreviewIsPrefix
<1>3. CASE reader # "text"
  <2>1. reader = "preview"
    BY <1>1, <1>3 DEF ReadersTyped
  <2>2. /\ lines \in Seq(Seq(Byte))
        /\ \A n \in 1 .. Len(lines) : n <= Lines(payload) + Unended /\ lines[n] = LineOf(payload, n)
        /\ capped = "no" => Len(lines) = Lines(payload) + Unended
    BY <2>1 DEF ReadersInv, PreviewIsRead
  <2>3. DOMAIN lines = 1 .. Len(lines)
    BY <2>2, LenProperties
  <2>. DEFINE unended == payload # <<>> /\ Last(payload) = Other
              all == Cardinality(LineEnds(payload)) + (IF unended THEN 1 ELSE 0)
  <2>4. all = Lines(payload) + Unended
    BY DEF Lines, Unended
  <2>. HIDE DEF all
  <2>5. /\ \A n \in DOMAIN lines : n <= all /\ lines[n] = LineOf(payload, n)
        /\ capped = "no" => Len(lines) = all
    BY <2>2, <2>3, <2>4
  <2>. QED BY <1>3, <2>5 DEF PreviewIsPrefix, all
<1>. QED BY <1>2, <1>3

LEMMA ReadersTypes == ReadersInv => ReadersTypeOK
<1>. SUFFICES ASSUME ReadersInv PROVE ReadersTypeOK
  OBVIOUS
<1>1. ReadersTyped /\ payload \in Seq(Byte) /\ Len(payload) \in Nat /\ got \in 0 .. Len(payload)
  BY PayloadIsText DEF ReadersInv, ReadersTyped
<1>2. Len(lines) <= LineCap
  BY <1>1, EmptySeq, ReadersAssumption DEF ReadersInv, ReadersTyped, TextIsRead, PreviewIsRead
<1>3. ASSUME reader = "text" PROVE IsPrefix(text, payload)
  <2>. DEFINE m == IF got < TextByteCap THEN got ELSE TextByteCap
  <2>1. m \in 0 .. Len(payload) /\ text = SubSeq(payload, 1, m)
    BY <1>1, <1>3, ReadersAssumption DEF ReadersInv, TextIsRead
  <2>. HIDE DEF m
  <2>2. \A i \in 1 .. m : payload[i] \in Byte
    BY <1>1, <2>1, ElementOfSeq
  <2>3. text \in Seq(Byte) /\ Len(text) = m
    BY <1>1, <2>1, <2>2, SubSeqProperties
  <2>4. SubSeq(text, 1, Len(text)) = text
    BY <2>3, SubSeqFull
  <2>. QED BY <1>1, <2>1, <2>3, <2>4 DEF IsPrefix
<1>. QED BY <1>1, <1>2, <1>3 DEF ReadersTyped, ReadersTypeOK

-----------------------------------------------------------------------------
(* The flows: one handler polls an operation. *)

\* A handler past its submission holds an operation.
HoldsOperation ==
  \A f \in Flow : flow[f].pc \in {"count", "poll", "recount"} => flow[f].op \in OpId

\* Whoever polls and has not been told to stop is in the controllers.
PollersAreKnown ==
  \A f \in Flow : flow[f].pc = "poll" /\ ~flow[f].aborted => poller[flow[f].op] = f

FlowsInv == FlowsTypeOK /\ HoldsOperation /\ PollersAreKnown

\* What the server counts is in the range of a count.
LEMMA CountInRange == Cardinality(ActiveOps) \in 0 .. MaxOps
<1>1. IsFiniteSet(OpId) /\ Cardinality(OpId) = MaxOps
  BY FlowsAssumption, FS_Interval DEF OpId
<1>2. ActiveOps \subseteq OpId
  BY DEF ActiveOps
<1>3. IsFiniteSet(ActiveOps) /\ Cardinality(ActiveOps) <= MaxOps
  BY <1>1, <1>2, FS_Subset
<1>4. Cardinality(ActiveOps) \in Nat
  BY <1>3, FS_CardinalityType
<1>. QED BY <1>3, <1>4, FlowsAssumption

\* Invariant at the start: nothing is under way.
LEMMA FlowsStart == FlowsBegin(None) \/ FlowsBegin(Asked) => FlowsInv
<1>. SUFFICES ASSUME NEW asked \in {None, Asked}, FlowsBegin(asked) PROVE FlowsInv
  OBVIOUS
<1>1. FlowsTypeOK
  BY FlowsAssumption DEF FlowsBegin, FlowsTypeOK, Idle, NoOp, Op, Call, Count
<1>2. HoldsOperation /\ PollersAreKnown
  BY DEF FlowsBegin, HoldsOperation, PollersAreKnown, Idle
<1>. QED BY <1>1, <1>2 DEF FlowsInv

\* A step of the server, of the user or of the summary alone leaves the
\* calls and the controllers as they are.
LEMMA OtherSteps ==
  ASSUME FlowsInv,
         \/ \E o \in OpId : OpEnds(o)
         \/ \E kind \in Kind : Dismiss(kind)
         \/ Tick \/ TickCounted \/ TickReturns \/ ManualRefresh
  PROVE  FlowsInv'
<1>1. UNCHANGED callVars
  BY DEF OpEnds, Answers, Dismiss, Tick, TickCounted, TickReturns, ManualRefresh
<1>2. HoldsOperation' /\ PollersAreKnown'
  BY <1>1 DEF FlowsInv, HoldsOperation, PollersAreKnown, callVars
<1>3. op' \in [OpId -> Op]
  <2>1. CASE \E o \in OpId : OpEnds(o)
    BY <2>1 DEF FlowsInv, FlowsTypeOK, OpEnds, Answers, Op
  <2>2. CASE UNCHANGED op
    BY <2>2 DEF FlowsInv, FlowsTypeOK
  <2>. QED BY <2>1, <2>2 DEF Dismiss, Tick, TickCounted, TickReturns, ManualRefresh
<1>4. running' \in 0 .. MaxOps /\ tick' \in Count /\ retryable' \subseteq Kind
       /\ faults' \in 0 .. MaxFaults /\ told' \subseteq OpId
  <2>1. CASE \E o \in OpId : OpEnds(o)
    BY <2>1 DEF FlowsInv, FlowsTypeOK, OpEnds, Answers, summaryVars
  <2>2. CASE \E kind \in Kind : Dismiss(kind)
    BY <2>2 DEF FlowsInv, FlowsTypeOK, Dismiss, summaryVars
  <2>3. CASE Tick \/ ManualRefresh
    BY <2>3 DEF FlowsInv, FlowsTypeOK, Tick, ManualRefresh, Count
  <2>4. CASE TickCounted
    BY <2>4, CountInRange DEF FlowsInv, FlowsTypeOK, TickCounted, Count
  <2>5. CASE TickReturns
    BY <2>5, FlowsAssumption DEF FlowsInv, FlowsTypeOK, TickReturns, Count, Fault
  <2>. QED BY <2>1, <2>2, <2>3, <2>4, <2>5
<1>. QED BY <1>1, <1>2, <1>3, <1>4 DEF FlowsInv, FlowsTypeOK, callVars

\* A call that starts has no operation yet.
LEMMA StartKeeps ==
  ASSUME FlowsInv, NEW r \in Request, Start(r)
  PROVE  FlowsInv'
<1>1. PICK f \in Flow : flow' = [flow EXCEPT ![f] = [Idle EXCEPT !.pc = "submit", !.req = r]]
  BY DEF Start
<1>2. UNCHANGED <<op, poller, running, tick, retryable, faults, told>> /\ pending' = KindOf(r)
  BY DEF Start, summaryVars
<1>3. flow' \in [Flow -> Call] /\ pending' \in Kind \union {None}
  BY <1>1, <1>2 DEF FlowsInv, FlowsTypeOK, Call, Idle, Count, KindOf, Kind
<1>4. HoldsOperation' /\ PollersAreKnown'
  BY <1>1, <1>2 DEF FlowsInv, FlowsTypeOK, HoldsOperation, PollersAreKnown, Idle
<1>. QED BY <1>2, <1>3, <1>4 DEF FlowsInv, FlowsTypeOK

\* A call that has not begun to poll changes its own record alone.
LEMMA BeforePoll ==
  ASSUME FlowsInv, NEW f \in Flow, Submitted(f) \/ SubmitFails(f) \/ Counted(f)
  PROVE  FlowsInv'
<1>1. UNCHANGED poller
  BY DEF Submitted, SubmitFails, Counted
<1>2. CASE Submitted(f)
  <2>1. PICK o \in OpId :
          /\ flow' = [flow EXCEPT ![f].pc = "count", ![f].op = o, ![f].count = Asked]
          /\ op' = IF op[o].status = "absent"
                     THEN [op EXCEPT ![o] = [req |-> flow[f].req, status |-> "active"]] ELSE op
    BY <1>2 DEF Submitted, Holding, NextOp
  <2>2. flow[f] \in Call
    BY DEF FlowsInv, FlowsTypeOK
  <2>3. flow' \in [Flow -> Call] /\ op' \in [OpId -> Op]
    BY <2>1, <2>2 DEF FlowsInv, FlowsTypeOK, Call, Count, Op
  <2>4. HoldsOperation' /\ PollersAreKnown'
    BY <1>1, <2>1 DEF FlowsInv, FlowsTypeOK, HoldsOperation, PollersAreKnown
  <2>. QED BY <1>1, <1>2, <2>3, <2>4 DEF FlowsInv, FlowsTypeOK, Submitted, summaryVars
<1>3. CASE SubmitFails(f)
  <2>1. flow[f] \in Call /\ flow[f].pc = "submit"
    BY <1>3 DEF FlowsInv, FlowsTypeOK, SubmitFails
  <2>2. flow' = [flow EXCEPT ![f] = Done] /\ Done \in Call
    BY <1>3 DEF SubmitFails, Done, Idle, Call, Count
  <2>3. retryable' \subseteq Kind /\ faults' \in 0 .. MaxFaults
    BY <1>3, FlowsAssumption DEF FlowsInv, FlowsTypeOK, SubmitFails, Problem, Fault, KindOf, Kind
  <2>4. HoldsOperation' /\ PollersAreKnown'
    BY <1>1, <2>2 DEF FlowsInv, FlowsTypeOK, HoldsOperation, PollersAreKnown, Done, Idle
  <2>. QED BY <1>1, <1>3, <2>2, <2>3, <2>4 DEF FlowsInv, FlowsTypeOK, SubmitFails, summaryVars
<1>4. CASE Counted(f)
  <2>1. flow' = [flow EXCEPT ![f].count = Cardinality(ActiveOps)]
    BY <1>4 DEF Counted
  <2>2. flow' \in [Flow -> Call]
    BY <2>1, CountInRange DEF FlowsInv, FlowsTypeOK, Call, Count
  <2>3. HoldsOperation' /\ PollersAreKnown'
    BY <1>1, <2>1 DEF FlowsInv, FlowsTypeOK, HoldsOperation, PollersAreKnown
  <2>. QED BY <1>1, <1>4, <2>2, <2>3 DEF FlowsInv, FlowsTypeOK, Counted, summaryVars
<1>. QED BY <1>2, <1>3, <1>4

\* What an answer to a summary request leaves.
LEMMA SummaryFits ==
  ASSUME FlowsTypeOK, NEW f \in Flow, SummaryReturns(f)
  PROVE  running' \in 0 .. MaxOps /\ faults' \in 0 .. MaxFaults
BY FlowsAssumption DEF FlowsTypeOK, SummaryReturns, Fault

\* A poll that begins takes the operation over from whoever polled it.
LEMMA BeginPollKeeps ==
  ASSUME FlowsInv, NEW f \in Flow, BeginPoll(f)
  PROVE  FlowsInv'
<1>. DEFINE o == flow[f].op
<1>1. o \in OpId /\ flow \in [Flow -> Call] /\ poller \in [OpId -> {0} \union Flow]
  BY DEF FlowsInv, FlowsTypeOK, HoldsOperation, BeginPoll
<1>2. poller' = [poller EXCEPT ![o] = f]
  BY DEF BeginPoll
<1>3. \A e \in Flow : flow'[e] =
        IF e = f THEN [flow[f] EXCEPT !.pc = "poll", !.count = None]
        ELSE IF e = poller[o] THEN [flow[e] EXCEPT !.aborted = TRUE] ELSE flow[e]
  BY DEF BeginPoll
<1>4. flow' \in [Flow -> Call]
  <2>1. flow' = [e \in Flow |-> flow'[e]]
    BY DEF BeginPoll
  <2>2. flow[f] \in Call /\ \A e \in Flow : flow[e] \in Call
    BY <1>1
  <2>3. [flow[f] EXCEPT !.pc = "poll", !.count = None] \in Call
    BY <2>2 DEF Call, Count
  <2>4. \A c \in Call : [c EXCEPT !.aborted = TRUE] \in Call
    BY DEF Call
  <2>5. \A e \in Flow : flow'[e] \in Call
    BY <1>3, <2>2, <2>3, <2>4
  <2>. QED BY <2>1, <2>5
<1>5. HoldsOperation'
  <2>. SUFFICES ASSUME NEW e \in Flow, flow'[e].pc \in {"count", "poll", "recount"}
                PROVE  flow'[e].op \in OpId
    BY DEF HoldsOperation
  <2>1. CASE e = f
    <3>1. flow[f] \in Call /\ flow'[f] = [flow[f] EXCEPT !.pc = "poll", !.count = None]
      BY <1>1, <1>3
    <3>2. flow'[f].op = o
      BY <3>1 DEF Call
    <3>. QED BY <2>1, <3>2, <1>1
  <2>2. CASE e # f /\ e = poller[o]
    <3>1. flow'[e] = [flow[e] EXCEPT !.aborted = TRUE] /\ flow[e] \in Call
      BY <2>2, <1>1, <1>3
    <3>2. flow'[e].op = flow[e].op /\ flow'[e].pc = flow[e].pc
      BY <3>1 DEF Call
    <3>. QED BY <3>2 DEF FlowsInv, HoldsOperation
  <2>3. CASE e # f /\ e # poller[o]
    BY <2>3, <1>3 DEF FlowsInv, HoldsOperation
  <2>. QED BY <2>1, <2>2, <2>3
<1>6. PollersAreKnown'
  <2>. SUFFICES ASSUME NEW e \in Flow, flow'[e].pc = "poll", ~flow'[e].aborted
                PROVE  poller'[flow'[e].op] = e
    BY DEF PollersAreKnown
  <2>1. CASE e = f
    BY <2>1, <1>1, <1>2, <1>3 DEF Call
  <2>2. CASE e # f
    <3>1. flow'[e] = flow[e] /\ e # poller[o]
      BY <2>2, <1>1, <1>3 DEF Call
    <3>2. poller[flow[e].op] = e /\ flow[e].op \in OpId
      BY <3>1 DEF FlowsInv, PollersAreKnown, HoldsOperation
    <3>. QED BY <3>1, <3>2, <1>1, <1>2
  <2>. QED BY <2>1, <2>2
<1>7. running' \in 0 .. MaxOps /\ faults' \in 0 .. MaxFaults
  BY SummaryFits DEF FlowsInv, BeginPoll
<1>. QED BY <1>1, <1>2, <1>4, <1>5, <1>6, <1>7 DEF FlowsInv, FlowsTypeOK, BeginPoll

\* A poll that ends takes itself out and leaves a later one in.
LEMMA PollStops ==
  ASSUME FlowsInv, NEW f \in Flow, flow[f].pc = "poll", Release(f), NEW c \in Call,
         flow' = [flow EXCEPT ![f] = c], c.pc # "poll", c.pc = "recount" => c.op \in OpId, c.pc # "count"
  PROVE  /\ flow' \in [Flow -> Call] /\ poller' \in [OpId -> {0} \union Flow]
         /\ HoldsOperation' /\ PollersAreKnown'
<1>1. flow[f].op \in OpId /\ flow \in [Flow -> Call] /\ poller \in [OpId -> {0} \union Flow]
  BY DEF FlowsInv, FlowsTypeOK, HoldsOperation
<1>2. flow' \in [Flow -> Call] /\ poller' \in [OpId -> {0} \union Flow]
  BY <1>1 DEF Release
<1>3. HoldsOperation'
  BY <1>1 DEF FlowsInv, HoldsOperation
<1>4. PollersAreKnown'
  <2>. SUFFICES ASSUME NEW e \in Flow, flow'[e].pc = "poll", ~flow'[e].aborted
                PROVE  poller'[flow'[e].op] = e
    BY DEF PollersAreKnown
  <2>1. e # f /\ flow'[e] = flow[e]
    BY <1>1
  <2>2. poller[flow[e].op] = e /\ flow[e].op \in OpId
    BY <2>1 DEF FlowsInv, PollersAreKnown, HoldsOperation
  <2>. QED BY <2>1, <2>2, <1>1 DEF Release
<1>. QED BY <1>2, <1>3, <1>4

\* The end of a poll, of the three kinds.
LEMMA AfterPoll ==
  ASSUME FlowsInv, NEW f \in Flow, PollEnds(f) \/ PollFails(f) \/ PollAborted(f)
  PROVE  FlowsInv'
<1>1. flow[f] \in Call /\ flow[f].op \in OpId /\ flow[f].pc = "poll" /\ Release(f)
  BY DEF FlowsInv, FlowsTypeOK, HoldsOperation, PollEnds, PollFails, PollAborted
<1>2. Done \in Call /\ Done.pc = "done"
  BY DEF Done, Idle, Call, Count
<1>3. CASE PollEnds(f)
  <2>. DEFINE c == [flow[f] EXCEPT !.pc = "recount", !.count = Asked]
  <2>1. flow' = [flow EXCEPT ![f] = c]
    BY <1>3 DEF PollEnds, FlowsInv, FlowsTypeOK
  <2>2. c \in Call /\ c.pc = "recount" /\ c.op \in OpId
    BY <1>1 DEF Call, Count
  <2>. HIDE DEF c
  <2>3. flow' \in [Flow -> Call] /\ poller' \in [OpId -> {0} \union Flow] /\ HoldsOperation' /\ PollersAreKnown'
    BY <1>1, <2>1, <2>2, PollStops
  <2>. QED BY <1>3, <2>3 DEF FlowsInv, FlowsTypeOK, PollEnds, summaryVars
<1>4. CASE PollFails(f) \/ PollAborted(f)
  <2>1. flow' = [flow EXCEPT ![f] = Done]
    BY <1>4 DEF PollFails, PollAborted
  <2>2. flow' \in [Flow -> Call] /\ poller' \in [OpId -> {0} \union Flow] /\ HoldsOperation' /\ PollersAreKnown'
    BY <1>1, <1>2, <2>1, PollStops
  <2>3. KindOf(flow[f].req) \in Kind
    BY DEF KindOf, Kind
  <2>4. retryable' \subseteq Kind
    BY <1>4, <2>3 DEF FlowsInv, FlowsTypeOK, PollFails, PollAborted, Problem
  <2>5. faults' \in 0 .. MaxFaults
    BY <1>4, FlowsAssumption DEF FlowsInv, FlowsTypeOK, PollFails, PollAborted, Fault
  <2>6. told' \subseteq OpId
    BY <1>1, <1>4 DEF FlowsInv, FlowsTypeOK, PollFails, PollAborted
  <2>. QED BY <1>4, <2>2, <2>4, <2>5, <2>6 DEF FlowsInv, FlowsTypeOK, PollFails, PollAborted, summaryVars
<1>. QED BY <1>3, <1>4

\* The toast.
LEMMA ConcludeKeeps ==
  ASSUME FlowsInv, NEW f \in Flow, Conclude(f)
  PROVE  FlowsInv'
<1>1. flow[f] \in Call /\ flow[f].op \in OpId /\ flow[f].pc = "recount"
  BY DEF FlowsInv, FlowsTypeOK, HoldsOperation, Conclude
<1>2. flow' = [flow EXCEPT ![f] = Done] /\ Done \in Call /\ UNCHANGED poller
  BY DEF Conclude, Done, Idle, Call, Count
<1>3. HoldsOperation' /\ PollersAreKnown'
  BY <1>2 DEF FlowsInv, FlowsTypeOK, HoldsOperation, PollersAreKnown, Done, Idle
<1>4. running' \in 0 .. MaxOps /\ faults' \in 0 .. MaxFaults
  BY SummaryFits DEF FlowsInv, Conclude
<1>5. retryable' \subseteq Kind /\ told' \subseteq OpId
  BY <1>1 DEF FlowsInv, FlowsTypeOK, Conclude, Problem, KindOf, Kind
<1>. QED BY <1>2, <1>3, <1>4, <1>5 DEF FlowsInv, FlowsTypeOK, Conclude

\* Every step keeps the invariant.
LEMMA FlowsKeep == FlowsInv /\ [FlowsNext]_flowVars => FlowsInv'
<1>. SUFFICES ASSUME FlowsInv, [FlowsNext]_flowVars PROVE FlowsInv'
  OBVIOUS
<1>1. CASE UNCHANGED flowVars
  BY <1>1 DEF FlowsInv, FlowsTypeOK, HoldsOperation, PollersAreKnown, flowVars, callVars, summaryVars
<1>2. CASE \E r \in Request : Click(r) \/ Retry(r)
  BY <1>2, StartKeeps DEF Click, Retry
<1>3. CASE \E f \in Flow : FlowStep(f)
  BY <1>3, BeforePoll, BeginPollKeeps, AfterPoll, ConcludeKeeps DEF FlowStep
<1>4. CASE (\E o \in OpId : OpEnds(o)) \/ (\E kind \in Kind : Dismiss(kind)) \/ SummaryStep \/ ManualRefresh
  BY <1>4, OtherSteps DEF SummaryStep
<1>. QED BY <1>1, <1>2, <1>3, <1>4 DEF FlowsNext

-----------------------------------------------------------------------------
(* The table: what its numbers and its rows are. *)

LEMMA DivFacts ==
  ASSUME NEW a \in Nat, NEW b \in Nat \ {0}
  PROVE  a \div b \in Nat /\ b * (a \div b) <= a /\ a < b * (a \div b) + b
OBVIOUS

LEMMA TotalFacts ==
  ASSUME NEW n \in Nat, NEW size \in Nat \ {0}
  PROVE  /\ TotalPages(n, size) \in Nat \ {0}
         /\ n <= TotalPages(n, size) * size
         /\ n # 0 => (TotalPages(n, size) - 1) * size < n
<1>1. CASE n = 0
  BY <1>1, SMT DEF TotalPages
<1>2. CASE n # 0
  <2>. DEFINE a == n + size - 1
              t == a \div size
  <2>1. a \in Nat /\ TotalPages(n, size) = t
    BY <1>2 DEF TotalPages
  <2>2. t \in Nat /\ size * t <= a /\ a < size * t + size
    BY <2>1, DivFacts
  <2>. HIDE DEF t
  <2>3. t # 0
    <3>. SUFFICES ASSUME t = 0 PROVE FALSE
      OBVIOUS
    <3>. QED BY <1>2, <2>2
  <2>4. (t - 1) * size = size * t - size /\ t * size = size * t
    BY <2>2
  <2>. QED BY <1>2, <2>1, <2>2, <2>3, <2>4
<1>. QED BY <1>1, <1>2

LEMMA ClampFacts ==
  ASSUME NEW p \in Nat, NEW n \in Nat, NEW size \in Nat \ {0}
  PROVE  /\ Clamp(p, n, size) \in 0 .. TotalPages(n, size) - 1
         /\ p < TotalPages(n, size) => Clamp(p, n, size) = p
<1>1. TotalPages(n, size) \in Nat \ {0}
  BY TotalFacts
<1>. QED BY <1>1 DEF Clamp

-----------------------------------------------------------------------------
\* What the rows are made from.
RowsTypeOK ==
  /\ sourceList \in [Session -> SyncStatus \union {"unlisted"}]
  /\ storedList \subseteq Session
  /\ filters \in Filters

\* Every session that is listed has one row.
LEMMA RowsAreSessions ==
  ASSUME RowsTypeOK
  PROVE  /\ IsFiniteSet(MergedRows)
         /\ \A row \in MergedRows : row.key \in {0, 1} \X Session
         /\ \A row \in MergedRows : row.stored \in BOOLEAN /\ row.status \in SyncStatus
         /\ \A r, row \in MergedRows : r.key[2] = row.key[2] => r = row
         /\ {row.key[2] : row \in MergedRows}
              = {s \in Session : sourceList[s] # "unlisted"} \union storedList
<1>. DEFINE SourceRow(s) == [key |-> <<0, s>>, stored |-> s \in storedList, status |-> sourceList[s]]
            StoredRow(s) == [key |-> <<1, s>>, stored |-> TRUE, status |-> "up_to_date"]
            A == {t \in Session : sourceList[t] # "unlisted"}
            B == {t \in storedList : sourceList[t] = "unlisted"}
            RowOf(s) == IF s \in A THEN SourceRow(s) ELSE StoredRow(s)
<1>1. A \subseteq Session /\ B \subseteq Session /\ A \intersect B = {} /\ A \union B = A \union storedList
  BY DEF RowsTypeOK
<1>2. MergedRows = {SourceRow(s) : s \in A} \union {StoredRow(s) : s \in B}
  BY DEF MergedRows, SourceRows, StoredRows
<1>3. \A s \in A \union B : /\ RowOf(s).key \in {<<0, s>>, <<1, s>>}
                            /\ RowOf(s).stored \in BOOLEAN /\ RowOf(s).status \in SyncStatus
  <2>1. \A s \in A : SourceRow(s).key = <<0, s>> /\ SourceRow(s).stored \in BOOLEAN
                     /\ SourceRow(s).status \in SyncStatus
    BY DEF RowsTypeOK
  <2>2. \A s \in B : StoredRow(s).key = <<1, s>> /\ StoredRow(s).stored \in BOOLEAN
                     /\ StoredRow(s).status \in SyncStatus
    BY DEF SyncStatus
  <2>. HIDE DEF A, B, SourceRow, StoredRow
  <2>. QED BY <2>1, <2>2
<1>. HIDE DEF SourceRow, StoredRow
<1>4. \A row : row \in MergedRows <=> \E s \in A \union B : row = RowOf(s)
  BY <1>1, <1>2
<1>5. \A s \in A \union B : /\ RowOf(s).key \in {0, 1} \X Session /\ RowOf(s).key[2] = s
  <2>. SUFFICES ASSUME NEW s \in A \union B
                PROVE  RowOf(s).key \in {0, 1} \X Session /\ RowOf(s).key[2] = s
    OBVIOUS
  <2>1. s \in Session /\ RowOf(s).key \in {<<0, s>>, <<1, s>>}
    BY <1>1, <1>3
  <2>. HIDE DEF RowOf
  <2>. QED BY <2>1
<1>. HIDE DEF A, B, RowOf
<1>6. \A row \in MergedRows : row.key \in {0, 1} \X Session
  BY <1>4, <1>5
<1>7. \A row \in MergedRows : row.stored \in BOOLEAN /\ row.status \in SyncStatus
  BY <1>3, <1>4
<1>8. \A r, row \in MergedRows : r.key[2] = row.key[2] => r = row
  BY <1>4, <1>5
<1>9. {row.key[2] : row \in MergedRows} = A \union B
  BY <1>4, <1>5
<1>10. IsFiniteSet(MergedRows)
  <2>. DEFINE f == [row \in MergedRows |-> row.key[2]]
  <2>1. \A row \in MergedRows : row.key[2] \in Session
    BY <1>1, <1>4, <1>5
  <2>2. f \in Injection(MergedRows, Session)
    BY <1>8, <2>1 DEF Injection, IsInjective
  <2>. HIDE DEF f
  <2>. QED BY <2>2, TableAssumption, FS_Injection
<1>. QED BY <1>1, <1>6, <1>7, <1>8, <1>9, <1>10 DEF A

\* The comparison puts any two rows in one order.
LEMMA BeforeIsAnOrder ==
  ASSUME RowsTypeOK, NEW d \in {"asc", "desc"},
         NEW p \in MergedRows, NEW q \in MergedRows, NEW r \in MergedRows
  PROVE  /\ ~Before(p, p, d)
         /\ p # q => Before(p, q, d) \/ Before(q, p, d)
         /\ Before(p, q, d) /\ Before(q, r, d) => Before(p, r, d)
<1>1. \A x \in {p, q, r} : x.key[1] \in Nat /\ x.key[2] \in Nat /\ IngestedAt(x) \in Nat
  <2>. SUFFICES ASSUME NEW x \in {p, q, r}
                PROVE  x.key[1] \in Nat /\ x.key[2] \in Nat /\ IngestedAt(x) \in Nat
    OBVIOUS
  <2>1. x.key \in {0, 1} \X Session
    BY RowsAreSessions
  <2>2. x.key[1] \in Nat /\ x.key[2] \in Nat
    <3>1. PICK a \in {0, 1}, s \in Session : x.key = <<a, s>>
      BY <2>1
    <3>. QED BY <3>1, TableAssumption
  <2>. QED BY <2>2 DEF IngestedAt
<1>2. p # q => p.key[2] # q.key[2]
  BY RowsAreSessions
<1>. DEFINE a1 == p.key[1]  b1 == q.key[1]  c1 == r.key[1]
            a2 == p.key[2]  b2 == q.key[2]  c2 == r.key[2]
            a3 == IngestedAt(p)  b3 == IngestedAt(q)  c3 == IngestedAt(r)
<1>3. /\ a1 \in Nat /\ b1 \in Nat /\ c1 \in Nat
      /\ a2 \in Nat /\ b2 \in Nat /\ c2 \in Nat
      /\ a3 \in Nat /\ b3 \in Nat /\ c3 \in Nat
  BY <1>1
<1>4. /\ Before(p, p, d) <=> (a1 < a1 \/ (a1 = a1 /\ a2 < a2))
      /\ Before(p, q, d) <=> IF a3 = b3 THEN a1 < b1 \/ (a1 = b1 /\ a2 < b2)
                           ELSE IF d = "asc" THEN a3 < b3 ELSE a3 > b3
      /\ Before(q, p, d) <=> IF b3 = a3 THEN b1 < a1 \/ (b1 = a1 /\ b2 < a2)
                           ELSE IF d = "asc" THEN b3 < a3 ELSE b3 > a3
      /\ Before(q, r, d) <=> IF b3 = c3 THEN b1 < c1 \/ (b1 = c1 /\ b2 < c2)
                           ELSE IF d = "asc" THEN b3 < c3 ELSE b3 > c3
      /\ Before(p, r, d) <=> IF a3 = c3 THEN a1 < c1 \/ (a1 = c1 /\ a2 < c2)
                           ELSE IF d = "asc" THEN a3 < c3 ELSE a3 > c3
  BY DEF Before, KeyBefore
<1>. HIDE DEF a1, b1, c1, a2, b2, c2, a3, b3, c3
<1>5. ~Before(p, p, d)
  BY <1>3, <1>4
<1>6. ASSUME p # q PROVE Before(p, q, d) \/ Before(q, p, d)
  <2>1. a2 # b2
    BY <1>2, <1>6 DEF a2, b2
  <2>. QED BY <1>3, <1>4, <2>1
<1>7. ASSUME Before(p, q, d), Before(q, r, d) PROVE Before(p, r, d)
  <2>1. CASE d = "asc"
    BY <1>3, <1>4, <1>7, <2>1
  <2>2. CASE d # "asc"
    BY <1>3, <1>4, <1>7, <2>2
  <2>. QED BY <2>1, <2>2
<1>. QED BY <1>5, <1>6, <1>7

\* The rows are the matching ones, each once.
LEMMA RowsOnce ==
  ASSUME RowsTypeOK
  PROVE  /\ Cardinality(MatchingRows) \in Nat
         /\ FilteredRows \in Seq(MatchingRows) /\ Len(FilteredRows) = Cardinality(MatchingRows)
         /\ \A i, j \in 1 .. Len(FilteredRows) : FilteredRows[i] = FilteredRows[j] => i = j
         /\ \A row \in MatchingRows : \E i \in 1 .. Len(FilteredRows) : FilteredRows[i] = row
<1>. DEFINE S == MatchingRows
            n == Cardinality(S)
            upTo(row) == {row} \union RowsBefore(row)
            rank == [row \in S |-> Cardinality(upTo(row))]
<1>1. IsFiniteSet(S) /\ n \in Nat
  <2>1. S \in SUBSET MergedRows
    BY DEF MatchingRows
  <2>2. IsFiniteSet(S)
    BY <2>1, RowsAreSessions, FS_Subset
  <2>. QED BY <2>2, FS_CardinalityType
<1>2. \A p, q, r \in S : /\ p \notin RowsBefore(p)
                         /\ p # q => p \in RowsBefore(q) \/ q \in RowsBefore(p)
                         /\ p \in RowsBefore(q) /\ q \in RowsBefore(r) => p \in RowsBefore(r)
  <2>1. S \subseteq MergedRows /\ filters.direction \in {"asc", "desc"}
    BY DEF MatchingRows, RowsTypeOK, Filters
  <2>. QED BY <2>1, BeforeIsAnOrder DEF RowsBefore
<1>3. \A p \in S : RowsBefore(p) \in SUBSET S
  BY DEF RowsBefore
<1>. HIDE DEF S
<1>4. ASSUME NEW p \in S
      PROVE  /\ IsFiniteSet(upTo(p)) /\ Cardinality(upTo(p)) \in 1 .. n
             /\ Cardinality(RowsBefore(p)) = Cardinality(upTo(p)) - 1
  <2>1. upTo(p) \in SUBSET S /\ p \notin RowsBefore(p) /\ RowsBefore(p) \in SUBSET S
    BY <1>2, <1>3
  <2>2. IsFiniteSet(RowsBefore(p)) /\ Cardinality(RowsBefore(p)) \in Nat
    BY <1>1, <2>1, FS_Subset, FS_CardinalityType
  <2>3. upTo(p) = RowsBefore(p) \union {p}
    OBVIOUS
  <2>4. IsFiniteSet(upTo(p)) /\ Cardinality(upTo(p)) = Cardinality(RowsBefore(p)) + 1
    BY <2>1, <2>2, <2>3, FS_AddElement
  <2>5. Cardinality(upTo(p)) <= n
    BY <1>1, <2>1, FS_Subset
  <2>. QED BY <1>1, <2>2, <2>4, <2>5
<1>5. ASSUME NEW p \in S, NEW q \in S, p \in RowsBefore(q)
      PROVE  Cardinality(upTo(p)) # Cardinality(upTo(q))
  <2>1. upTo(p) \in SUBSET upTo(q) /\ q \in upTo(q) /\ q \notin upTo(p)
    BY <1>2, <1>3, <1>5
  <2>. HIDE DEF upTo
  <2>. QED BY <1>4, <2>1, FS_Subset
<1>. HIDE DEF upTo
<1>6. rank \in [S -> 1 .. n]
  BY <1>4
<1>7. \A p, q \in S : rank[p] = rank[q] => p = q
  BY <1>2, <1>5
<1>8. \A p \in S : Cardinality(RowsBefore(p)) = rank[p] - 1
  BY <1>4
<1>. HIDE DEF rank
<1>9. rank \in Injection(S, 1 .. n)
  BY <1>6, <1>7 DEF Injection, IsInjective
<1>10. IsFiniteSet(1 .. n) /\ Cardinality(1 .. n) = n
  BY <1>1, FS_Interval
<1>11. rank \in Surjection(S, 1 .. n)
  BY <1>9, <1>10, FS_Injection
<1>12. \A i \in 1 .. n : \E p \in S : rank[p] = i
  BY <1>11 DEF Surjection
<1>13. FilteredRows = [i \in 1 .. n |-> CHOOSE row \in S : Cardinality(RowsBefore(row)) = i - 1]
  BY DEF FilteredRows, S
<1>14. ASSUME NEW i \in 1 .. n
       PROVE  FilteredRows[i] \in S /\ rank[FilteredRows[i]] = i
  <2>1. i \in Nat /\ FilteredRows[i] = CHOOSE row \in S : Cardinality(RowsBefore(row)) = i - 1
    BY <1>1, <1>13
  <2>2. \E p \in S : Cardinality(RowsBefore(p)) = i - 1
    BY <1>8, <1>12
  <2>3. FilteredRows[i] \in S /\ Cardinality(RowsBefore(FilteredRows[i])) = i - 1
    BY <2>1, <2>2
  <2>4. rank[FilteredRows[i]] \in 1 .. n
    BY <1>6, <2>3
  <2>. QED BY <1>1, <1>8, <2>1, <2>3, <2>4
<1>15. FilteredRows \in Seq(S) /\ Len(FilteredRows) = n
  BY <1>1, <1>13, <1>14
<1>16. \A i, j \in 1 .. n : FilteredRows[i] = FilteredRows[j] => i = j
  BY <1>14
<1>17. ASSUME NEW p \in S PROVE \E i \in 1 .. n : FilteredRows[i] = p
  <2>1. rank[p] \in 1 .. n
    BY <1>6
  <2>2. FilteredRows[rank[p]] \in S /\ rank[FilteredRows[rank[p]]] = rank[p]
    BY <1>14, <2>1
  <2>. QED BY <1>7, <2>1, <2>2
<1>. QED BY <1>1, <1>15, <1>16, <1>17 DEF S

LEMMA ProductGrows == \A a, b, c \in Nat : a <= b => a * c <= b * c
<1>. SUFFICES ASSUME NEW a \in Nat, NEW b \in Nat, NEW c \in Nat, a <= b PROVE a * c <= b * c
  OBVIOUS
<1>1. (b - a) * c \in Nat /\ (b - a) * c = b * c - a * c
  OBVIOUS
<1>. QED BY <1>1

\* Pages laid end to end are the rows.
LEMMA PagesAreTheRows ==
  ASSUME NEW S, NEW rows \in Seq(S), NEW size \in Nat \ {0},
         NEW pages, pages = [p \in 1 .. TotalPages(Len(rows), size) |-> PageRows(rows, p - 1, size)]
  PROVE  /\ FlattenSeq(pages) = rows
         /\ rows # <<>> => \A p \in 1 .. TotalPages(Len(rows), size) : pages[p] # <<>>
<1>. DEFINE n == Len(rows)
            total == TotalPages(n, size)
            first(p) == (p - 1) * size
            last(p) == IF first(p) + size < n THEN first(p) + size ELSE n
            flat(g) == [i \in 1 .. total |-> IF i = 1 THEN pages[i] ELSE g[i - 1] \o pages[i]]
            upTo == [p \in 1 .. total |-> SubSeq(rows, 1, last(p))]
<1>1. /\ n \in Nat /\ total \in Nat \ {0} /\ n <= total * size
      /\ n # 0 => (total - 1) * size < n
  BY TotalFacts, LenProperties
<1>2. ASSUME NEW p \in 1 .. total
      PROVE  /\ first(p) \in 0 .. n /\ last(p) \in first(p) .. n
             /\ n # 0 => first(p) < last(p)
             /\ pages[p] = SubSeq(rows, first(p) + 1, last(p))
             /\ p # 1 => p - 1 \in 1 .. total /\ last(p - 1) = first(p)
             /\ p = 1 => first(p) = 0
             /\ p = total => last(p) = n
  <2>1. p \in Nat \ {0} /\ p - 1 \in Nat /\ total - 1 \in Nat /\ p - 1 <= total - 1
    BY <1>1
  <2>2. first(p) \in Nat /\ first(p) <= (total - 1) * size /\ (n # 0 => first(p) < n)
    BY <1>1, <2>1, ProductGrows
  <2>3. n = 0 => p = 1 /\ total = 1
    BY <1>1, <2>1 DEF TotalPages
  <2>4. first(p) + size = p * size /\ (p # 1 => (p - 1 - 1) * size + size = first(p)) /\ (p = 1 => first(p) = 0)
    BY <2>1
  <2>. HIDE DEF total
  <2>5. Clamp(p - 1, n, size) = p - 1
    BY <1>1, <2>1, ClampFacts DEF total
  <2>6. pages[p] = PageRows(rows, p - 1, size)
    BY DEF total
  <2>7. pages[p] = SubSeq(rows, first(p) + 1, last(p))
    BY <2>5, <2>6 DEF PageRows
  <2>. HIDE DEF first
  <2>8. first(p) \in 0 .. n /\ last(p) \in first(p) .. n /\ (n # 0 => first(p) < last(p))
    BY <1>1, <2>2, <2>3, <2>4
  <2>9. p # 1 => p - 1 \in 1 .. total /\ last(p - 1) = first(p)
    <3>. SUFFICES ASSUME p # 1 PROVE p - 1 \in 1 .. total /\ last(p - 1) = first(p)
      OBVIOUS
    <3>1. first(p - 1) = (p - 1 - 1) * size
      BY DEF first
    <3>. QED BY <1>1, <2>1, <2>2, <2>3, <2>4, <3>1
  <2>10. p = total => last(p) = n
    BY <1>1, <2>4
  <2>. QED BY <2>4, <2>7, <2>8, <2>9, <2>10
<1>. HIDE DEF first, last
<1>3. upTo = flat(upTo)
  <2>. SUFFICES ASSUME NEW p \in 1 .. total
                PROVE  SubSeq(rows, 1, last(p)) = IF p = 1 THEN pages[p] ELSE upTo[p - 1] \o pages[p]
    BY <1>1
  <2>1. CASE p = 1
    <3>1. first(p) + 1 = 1 /\ pages[p] = SubSeq(rows, first(p) + 1, last(p))
      BY <1>2, <2>1
    <3>2. pages[p] = SubSeq(rows, 1, last(p))
      BY <3>1
    <3>. QED BY <2>1, <3>2
  <2>2. CASE p # 1
    <3>1. upTo[p - 1] = SubSeq(rows, 1, first(p)) /\ pages[p] = SubSeq(rows, first(p) + 1, last(p))
      BY <1>2, <2>2
    <3>2. first(p) \in 0 .. n /\ last(p) \in first(p) .. n
      BY <1>2
    <3>3. 1 \in 1 .. n + 1 /\ first(p) \in 1 - 1 .. n
      BY <1>1, <3>2
    <3>4. SubSeq(rows, 1, first(p)) \o SubSeq(rows, first(p) + 1, last(p)) = SubSeq(rows, 1, last(p))
      BY <3>2, <3>3, ConcatAdjacentSubSeq
    <3>. QED BY <2>2, <3>1, <3>4
  <2>. QED BY <2>1, <2>2
<1>4. ASSUME NEW g, g = flat(g) PROVE g = upTo
  <2>. DEFINE D == {p \in 1 .. total : g[p] # upTo[p]}
  <2>1. ASSUME D # {} PROVE FALSE
    <3>1. D \subseteq Nat
      BY <1>1
    <3>. HIDE DEF D
    <3>2. PICK p \in D : \A q \in D : p <= q
      BY <2>1, <3>1, LeastNatural
    <3>3. p \in 1 .. total /\ g[p] # upTo[p] /\ (p # 1 => p - 1 \notin D)
      <4>1. p \in Nat /\ ~(p <= p - 1)
        BY <3>1, <3>2
      <4>2. p - 1 \notin D
        BY <3>2, <4>1
      <4>. HIDE DEF upTo
      <4>. QED BY <3>2, <4>2 DEF D
    <3>4. p # 1 => p - 1 \in 1 .. total /\ g[p - 1] = upTo[p - 1]
      BY <1>1, <3>3 DEF D
    <3>5. /\ g[p] = IF p = 1 THEN pages[p] ELSE g[p - 1] \o pages[p]
          /\ upTo[p] = IF p = 1 THEN pages[p] ELSE upTo[p - 1] \o pages[p]
      <4>. HIDE DEF upTo
      <4>. QED BY <1>3, <1>4, <3>3
    <3>. QED BY <3>3, <3>4, <3>5
  <2>2. g = [p \in 1 .. total |-> g[p]]
    BY <1>4
  <2>. QED BY <2>1, <2>2
<1>5. (CHOOSE g : g = flat(g)) = upTo
  <2>. HIDE DEF upTo, flat
  <2>. QED BY <1>3, <1>4
<1>6. Len(pages) = total /\ total # 0
  BY <1>1
<1>7. FlattenSeq(pages) = (CHOOSE g : g = flat(g))[total]
  <2>. HIDE DEF total
  <2>. QED BY <1>6 DEF FlattenSeq
<1>8. upTo[total] = rows
  <2>1. last(total) = n
    BY <1>1, <1>2
  <2>2. upTo[total] = SubSeq(rows, 1, n)
    BY <1>1, <2>1
  <2>. QED BY <2>2, SubSeqFull
<1>9. ASSUME rows # <<>>, NEW p \in 1 .. total PROVE pages[p] # <<>>
  <2>1. n # 0
    BY <1>9, EmptySeq
  <2>2. first(p) \in 0 .. n /\ last(p) \in first(p) .. n /\ first(p) < last(p)
    BY <1>2, <2>1
  <2>3. \A i \in first(p) + 1 .. last(p) : rows[i] \in S
    BY <1>1, <2>2, ElementOfSeq
  <2>4. Len(pages[p]) = last(p) - (first(p) + 1) + 1
    BY <1>1, <1>2, <2>2, <2>3, SubSeqProperties
  <2>. QED BY <1>1, <2>2, <2>4
<1>. QED BY <1>5, <1>7, <1>8, <1>9

-----------------------------------------------------------------------------
\* What is written is what is shown.
FiltersAreKept == filters \in Filters /\ (storage = "works" => blob = filters)

\* A blob decodes to filters, and filters to themselves.
LEMMA DecodeFacts ==
  ASSUME NEW raw
  PROVE  DecodeFilters(raw) \in Filters /\ (raw \in Filters => DecodeFilters(raw) = raw)
<1>1. DefaultFilters \in Filters
  BY TableAssumption DEF DefaultFilters, Filters
<1>2. CASE raw = Corrupt
  BY <1>1, <1>2, CorruptIsNoFilters DEF DecodeFilters
<1>3. CASE raw # Corrupt
  <2>1. /\ Decode(raw, "status", SUBSET SyncStatus) \in SUBSET SyncStatus
        /\ Decode(raw, "importableOnly", BOOLEAN) \in BOOLEAN
        /\ Decode(raw, "direction", {"asc", "desc"}) \in {"asc", "desc"}
        /\ Decode(raw, "pageSize", PageSize) \in PageSize
    BY TableAssumption DEF Decode, DefaultFilters
  <2>2. DecodeFilters(raw) \in Filters
    BY <1>3, <2>1 DEF DecodeFilters, Filters
  <2>3. raw \in Filters => DecodeFilters(raw) = raw
    BY <1>3 DEF DecodeFilters, Decode, Filters
  <2>. QED BY <2>2, <2>3
<1>. QED BY <1>2, <1>3

LEMMA FiltersStart == TableInit => FiltersAreKept
BY DecodeFacts DEF TableInit, TableBegin, FiltersAreKept

LEMMA SetKeeps ==
  ASSUME FiltersAreKept, NEW next \in Filters, NEW reset, SetFilters(next, reset)
  PROVE  FiltersAreKept'
BY DEF FiltersAreKept, SetFilters, Persist

LEMMA FiltersKeep == FiltersAreKept /\ [TableNext]_tableVars => FiltersAreKept'
<1>. SUFFICES ASSUME FiltersAreKept, [TableNext]_tableVars PROVE FiltersAreKept'
  OBVIOUS
<1>1. filters \in Filters
  BY DEF FiltersAreKept
<1>2. CASE \E S \in SUBSET SyncStatus : SetStatus(S)
  <2>1. PICK S \in SUBSET SyncStatus : SetFilters([filters EXCEPT !.status = S], TRUE)
    BY <1>2 DEF SetStatus
  <2>2. [filters EXCEPT !.status = S] \in Filters
    BY <1>1 DEF Filters
  <2>. QED BY <2>1, <2>2, SetKeeps
<1>3. CASE \E d \in {"asc", "desc"} : SetDirection(d)
  <2>1. PICK d \in {"asc", "desc"} : SetFilters([filters EXCEPT !.direction = d], d # filters.direction)
    BY <1>3 DEF SetDirection
  <2>2. [filters EXCEPT !.direction = d] \in Filters
    BY <1>1 DEF Filters
  <2>. QED BY <2>1, <2>2, SetKeeps
<1>4. CASE \E n \in PageSize : SetPageSize(n)
  <2>1. PICK n \in PageSize : SetFilters([filters EXCEPT !.pageSize = n], FALSE)
    BY <1>4 DEF SetPageSize
  <2>2. [filters EXCEPT !.pageSize = n] \in Filters
    BY <1>1 DEF Filters
  <2>. QED BY <2>1, <2>2, SetKeeps
<1>5. CASE ToggleImportableOnly
  <2>. DEFINE status == IF filters.importableOnly THEN filters.status ELSE {}
              next == [filters EXCEPT !.importableOnly = ~filters.importableOnly, !.status = status]
  <2>1. next \in Filters
    BY <1>1 DEF Filters
  <2>2. SetFilters(next, TRUE)
    BY <1>5 DEF ToggleImportableOnly
  <2>. QED BY <2>1, <2>2, SetKeeps
<1>6. CASE ResetAll
  BY <1>6, TableAssumption DEF ResetAll, Persist, FiltersAreKept, DefaultFilters, Filters
<1>7. CASE Reload
  BY <1>7, DecodeFacts DEF Reload, Persist, FiltersAreKept
<1>8. CASE UNCHANGED <<filters, blob, storage>>
  BY <1>8 DEF FiltersAreKept
<1>9. PrevPage \/ NextPage => UNCHANGED <<filters, blob, storage>>
  BY DEF PrevPage, NextPage, ChangePage
<1>10. (\E s \in Session, status \in SyncStatus \union {"unlisted"}, stored \in BOOLEAN :
          ListsLand(s, status, stored)) => UNCHANGED <<filters, blob, storage>>
  BY DEF ListsLand
<1>. QED BY <1>2, <1>3, <1>4, <1>5, <1>6, <1>7, <1>8, <1>9, <1>10 DEF TableNext, tableVars


-----------------------------------------------------------------------------
\* The page shown is one of the pages.
OnAPage == pageIndex \in 0 .. TotalPages(Len(FilteredRows), filters.pageSize) - 1

TableInv == TableTypeOK /\ FiltersAreKept /\ OnAPage

LEMMA SizeIsPositive == \A f \in Filters : f.pageSize \in Nat \ {0}
BY TableAssumption DEF Filters

LEMMA CountIsNatural == RowsTypeOK => Len(FilteredRows) \in Nat
BY RowsOnce

LEMMA CountWillBeNatural == (RowsTypeOK => Len(FilteredRows) \in Nat)'
BY CountIsNatural, PTL

\* The same lists and filters give the same rows.
LEMMA SameRows ==
  ASSUME UNCHANGED <<sourceList, storedList, filters>>
  PROVE  FilteredRows' = FilteredRows
BY DEF FilteredRows, MatchingRows, RowsBefore, MergedRows, SourceRows, StoredRows, Matches, EffectiveStatus

\* An empty list has one page.
Unlisted == RowsTypeOK /\ sourceList = [s \in Session |-> "unlisted"] /\ storedList = {}
LEMMA NoRows == Unlisted => TotalPages(Len(FilteredRows), filters.pageSize) = 1
<1>. SUFFICES ASSUME Unlisted PROVE TotalPages(Len(FilteredRows), filters.pageSize) = 1
  OBVIOUS
<1>1. MergedRows = {}
  BY DEF Unlisted, MergedRows, SourceRows, StoredRows
<1>2. Cardinality(MatchingRows) = 0
  BY <1>1, FS_EmptySet DEF MatchingRows
<1>. QED BY <1>2, RowsOnce DEF Unlisted, TotalPages

LEMMA NoRowsThen == (Unlisted => TotalPages(Len(FilteredRows), filters.pageSize) = 1)'
BY NoRows, PTL

\* Whatever the effects recompute, the last one clamps.
LEMMA EffectsFacts ==
  ASSUME RowsTypeOK', pageIndex \in Nat, NEW reset \in BOOLEAN, NEW oldSize \in Nat \ {0},
         Effects(reset, oldSize)
  PROVE  pageIndex' \in Nat /\ OnAPage'
<1>. DEFINE n == Len(FilteredRows')
            size == filters'.pageSize
            clamped == Clamp(pageIndex, n, size)
            first == IF reset THEN 0 ELSE clamped
            resized == IF oldSize = size THEN first ELSE (first * oldSize) \div size
<1>1. n \in Nat /\ size \in Nat \ {0}
  BY CountWillBeNatural, SizeIsPositive DEF RowsTypeOK
<1>2. pageIndex' = Clamp(resized, n, size)
  BY DEF Effects
<1>3. TotalPages(n, size) \in Nat \ {0}
  BY <1>1, TotalFacts
<1>. HIDE DEF n, size
<1>4. first \in Nat
  <2>1. clamped \in 0 .. TotalPages(n, size) - 1
    BY <1>1, ClampFacts
  <2>. HIDE DEF clamped
  <2>. QED BY <1>3, <2>1
<1>5. resized \in Nat
  <2>. HIDE DEF first
  <2>1. first * oldSize \in Nat
    BY <1>4
  <2>2. (first * oldSize) \div size \in Nat
    BY <1>1, <2>1, DivFacts
  <2>. QED BY <1>4, <2>2
<1>. HIDE DEF resized
<1>6. Clamp(resized, n, size) \in 0 .. TotalPages(n, size) - 1
  BY <1>1, <1>5, ClampFacts
<1>. QED BY <1>2, <1>3, <1>6 DEF OnAPage, n, size

LEMMA TableStart == TableInit => TableInv
<1>. SUFFICES ASSUME TableInit PROVE TableInv
  OBVIOUS
<1>1. FiltersAreKept
  BY FiltersStart
<1>2. /\ sourceList = [s \in Session |-> "unlisted"] /\ storedList = {} /\ pageIndex = 0
      /\ storage \in {"works", "off"} /\ blob \in {filters, Corrupt}
  BY DEF TableInit, TableBegin
<1>3. TableTypeOK /\ RowsTypeOK
  BY <1>1, <1>2 DEF TableTypeOK, RowsTypeOK, FiltersAreKept
<1>4. OnAPage
  BY <1>2, <1>3, NoRows DEF OnAPage, Unlisted
<1>. QED BY <1>1, <1>3, <1>4 DEF TableInv

LEMMA TableKeep == TableInv /\ [TableNext]_tableVars => TableInv'
<1>. SUFFICES ASSUME TableInv, [TableNext]_tableVars PROVE TableInv'
  OBVIOUS
<1>1. FiltersAreKept'
  BY FiltersKeep DEF TableInv
<1>2. ASSUME NEW reset \in BOOLEAN, NEW next, SetFilters(next, reset) PROVE TableInv'
  <2>1. pageIndex' \in Nat => TableTypeOK'
    BY <1>1, <1>2 DEF TableInv, TableTypeOK, SetFilters, Persist, FiltersAreKept
  <2>2. RowsTypeOK'
    BY <1>1, <1>2 DEF TableInv, TableTypeOK, RowsTypeOK, SetFilters, FiltersAreKept
  <2>3. filters.pageSize \in Nat \ {0} /\ pageIndex \in Nat
    BY SizeIsPositive DEF TableInv, TableTypeOK
  <2>4. Effects(reset, filters.pageSize)
    BY <1>2 DEF SetFilters
  <2>5. pageIndex' \in Nat /\ OnAPage'
    BY <2>2, <2>3, <2>4, EffectsFacts
  <2>. QED BY <1>1, <2>1, <2>5 DEF TableInv
<1>3. CASE \E S \in SUBSET SyncStatus : SetStatus(S)
  BY <1>2, <1>3 DEF SetStatus
<1>4. CASE \E d \in {"asc", "desc"} : SetDirection(d)
  BY <1>2, <1>4 DEF SetDirection
<1>5. CASE \E n \in PageSize : SetPageSize(n)
  BY <1>2, <1>5 DEF SetPageSize
<1>6. CASE ToggleImportableOnly
  BY <1>2, <1>6 DEF ToggleImportableOnly
<1>7. CASE ResetAll
  BY <1>2, <1>7 DEF ResetAll, SetFilters
<1>8. CASE PrevPage \/ NextPage
  <2>1. PICK p \in Int : ChangePage(p)
    BY <1>8 DEF PrevPage, NextPage, TableInv, TableTypeOK
  <2>2. FilteredRows' = FilteredRows /\ UNCHANGED <<sourceList, storedList, filters, blob, storage>>
    BY <2>1, SameRows DEF ChangePage
  <2>3. OnAPage'
    BY <2>1, <2>2 DEF ChangePage, OnAPage
  <2>4. pageIndex' \in Nat
    BY <2>1 DEF ChangePage
  <2>. QED BY <1>1, <2>2, <2>3, <2>4 DEF TableInv, TableTypeOK
<1>9. CASE \E s \in Session, status \in SyncStatus \union {"unlisted"}, stored \in BOOLEAN :
             ListsLand(s, status, stored)
  <2>1. PICK s \in Session, status \in SyncStatus \union {"unlisted"}, stored \in BOOLEAN :
               ListsLand(s, status, stored)
    BY <1>9
  <2>2. /\ sourceList' \in [Session -> SyncStatus \union {"unlisted"}] /\ storedList' \subseteq Session
        /\ UNCHANGED <<filters, blob, storage>> /\ Effects(FALSE, filters.pageSize)
    BY <2>1 DEF ListsLand, TableInv, TableTypeOK
  <2>3. RowsTypeOK'
    BY <2>2 DEF TableInv, TableTypeOK, RowsTypeOK
  <2>4. filters.pageSize \in Nat \ {0} /\ pageIndex \in Nat
    BY SizeIsPositive DEF TableInv, TableTypeOK
  <2>5. pageIndex' \in Nat /\ OnAPage'
    BY <2>2, <2>3, <2>4, EffectsFacts
  <2>. QED BY <1>1, <2>2, <2>5 DEF TableInv, TableTypeOK
<1>10. CASE Reload
  <2>1. /\ sourceList' = [s \in Session |-> "unlisted"] /\ storedList' = {} /\ pageIndex' = 0
        /\ storage' \in {"works", "off"} /\ blob' \in {blob, filters'} /\ filters' \in Filters
    BY <1>10, DecodeFacts DEF Reload, Persist, TableInv, TableTypeOK
  <2>2. TableTypeOK' /\ RowsTypeOK'
    BY <2>1 DEF TableInv, TableTypeOK, RowsTypeOK
  <2>3. TotalPages(Len(FilteredRows), filters.pageSize)' = 1
    BY <2>1, <2>2, NoRowsThen DEF Unlisted
  <2>. QED BY <1>1, <2>1, <2>2, <2>3 DEF TableInv, OnAPage
<1>11. CASE UNCHANGED tableVars
  BY <1>11, <1>1, SameRows DEF tableVars, TableInv, TableTypeOK, OnAPage
<1>. QED BY <1>3, <1>4, <1>5, <1>6, <1>7, <1>8, <1>9, <1>10, <1>11 DEF TableNext

LEMMA PagesCover == TableInv => PagesCoverTheRows
<1>. SUFFICES ASSUME TableInv PROVE PagesCoverTheRows
  OBVIOUS
<1>. DEFINE rows == FilteredRows
            size == filters.pageSize
            pages == [p \in 1 .. TotalPages(Len(rows), size) |-> PageRows(rows, p - 1, size)]
            leafed == FlattenSeq(pages)
            ids == [i \in DOMAIN leafed |-> leafed[i].key[2]]
            known == {s \in Session : sourceList[s] # "unlisted"} \union storedList
<1>1. RowsTypeOK
  BY DEF TableInv, TableTypeOK, RowsTypeOK
<1>2. rows \in Seq(MatchingRows) /\ size \in Nat \ {0}
  BY <1>1, RowsOnce, SizeIsPositive DEF RowsTypeOK
<1>3. /\ leafed = rows
      /\ rows # <<>> => \A p \in 1 .. TotalPages(Len(rows), size) : pages[p] # <<>>
  <2>. HIDE DEF rows, size
  <2>. QED BY <1>2, PagesAreTheRows
<1>4. pageIndex + 1 \in 1 .. TotalPages(Len(rows), size)
  <2>1. TotalPages(Len(rows), size) \in Nat \ {0}
    BY <1>2, TotalFacts, LenProperties
  <2>. QED BY <2>1 DEF TableInv, OnAPage
<1>. HIDE DEF leafed
<1>5. DOMAIN leafed = 1 .. Len(rows) /\ MatchingRows \subseteq MergedRows
  BY <1>2, <1>3, LenProperties DEF MatchingRows
<1>6. \A i \in 1 .. Len(rows) : rows[i] \in MatchingRows /\ ids[i] = rows[i].key[2]
  BY <1>2, <1>3, <1>5, ElementOfSeq
<1>7. IsInjective(ids)
  <2>1. ASSUME NEW i \in 1 .. Len(rows), NEW j \in 1 .. Len(rows), ids[i] = ids[j]
        PROVE  i = j
    <3>1. rows[i] = rows[j]
      BY <1>1, <1>5, <1>6, <2>1, RowsAreSessions
    <3>. QED BY <1>1, <3>1, RowsOnce
  <2>. QED BY <1>5, <2>1 DEF IsInjective
<1>8. ASSUME filters = [DefaultFilters EXCEPT !.direction = filters.direction, !.pageSize = size]
      PROVE  ToSet(ids) = known
  <2>1. filters.status = {} /\ filters.importableOnly = FALSE
    BY <1>8 DEF DefaultFilters
  <2>2. MatchingRows = MergedRows
    BY <1>1, <2>1, RowsAreSessions DEF MatchingRows, Matches, EffectiveStatus
  <2>3. ToSet(ids) = {rows[i].key[2] : i \in 1 .. Len(rows)}
    BY <1>5, <1>6 DEF ToSet
  <2>4. {rows[i].key[2] : i \in 1 .. Len(rows)} = {row.key[2] : row \in MergedRows}
    BY <1>1, <1>6, <2>2, RowsOnce
  <2>. QED BY <1>1, <2>3, <2>4, RowsAreSessions
<1>. QED BY <1>3, <1>4, <1>7, <1>8 DEF PagesCoverTheRows, leafed

-----------------------------------------------------------------------------
(* The lists: whatever refetches overlap and whatever lists fail, what the *)
(* page shows when nothing is being fetched is no older than the last      *)
(* success it has told of.                                                 *)

\* A panel that was answered after the last success.
Recent(panel) == panel.kind = "ok" => panel.ver >= fresh

\* One call of refetchAll is under way at a time.
OneRefetch == \A g, h \in Get : refetch[g].on /\ refetch[h].on => g = h

\* A success starts a call, so the calls under way ask after it.
AnswersAreRecent ==
  \A g \in Get : refetch[g].on => Recent(refetch[g].source) /\ Recent(refetch[g].store)

\* Older lists are shown only while newer ones are being fetched.
ShownAreRecent == (\A g \in Get : ~refetch[g].on) => Recent(source) /\ Recent(store)

ListsInv ==
  /\ ListsTypeOK
  /\ OneRefetch /\ AnswersAreRecent /\ ShownAreRecent /\ SelectedIsListed

-----------------------------------------------------------------------------

LEMMA PanelTypes ==
  ASSUME ListsTypeOK
  PROVE  /\ Loading \in Panel /\ Failed \in Panel /\ NoRefetch \in Refetch
         /\ \A rows \in [Key -> Status] : Answer(rows) \in Panel
         /\ Nothing \in [Key -> Status]
<1>1. Nothing \in [Key -> Status]
  BY DEF Nothing, Status
<1>2. 0 \in 0 .. MaxClock /\ clock \in 0 .. MaxClock
  BY ListsAssumption DEF ListsTypeOK
<1>3. Loading \in Panel /\ Failed \in Panel
  BY <1>1, <1>2 DEF Loading, Failed, Panel
<1>4. \A rows \in [Key -> Status] : Answer(rows) \in Panel
  BY <1>2 DEF Answer, Panel
<1>. QED BY <1>1, <1>3, <1>4 DEF NoRefetch, Refetch

\* Init of the invariant.
LEMMA ListsStart == ListsInit => ListsInv
<1>. SUFFICES ASSUME ListsInit PROVE ListsInv
  OBVIOUS
<1>1. Nothing \in [Key -> Status] /\ Loading \in Panel
  BY ListsAssumption DEF Nothing, Status, Loading, Panel
<1>2. PICK g \in Get : refetch = [h \in Get |-> [NoRefetch EXCEPT !.on = (h = g)]]
  BY DEF ListsInit
<1>3. \A h \in Get : /\ refetch[h] \in Refetch
                     /\ refetch[h].on <=> h = g
                     /\ refetch[h].source = Loading /\ refetch[h].store = Loading
  BY <1>1, <1>2 DEF NoRefetch, Refetch
<1>4. refetch \in [Get -> Refetch]
  BY <1>2, <1>3
<1>5. ListsTypeOK
  BY <1>1, <1>4, ListsAssumption DEF ListsInit, ListsTypeOK
<1>6. OneRefetch /\ AnswersAreRecent /\ ShownAreRecent /\ SelectedIsListed
  BY <1>3 DEF ListsInit, OneRefetch, AnswersAreRecent, ShownAreRecent, SelectedIsListed, Recent, Loading
<1>. QED BY <1>5, <1>6 DEF ListsInv

\* A call that starts is the only one, and has no answers.
LEMMA RefetchStarts ==
  ASSUME ListsTypeOK, StartRefetch
  PROVE  /\ refetch' \in [Get -> Refetch]
         /\ OneRefetch' /\ AnswersAreRecent' /\ ShownAreRecent'
<1>1. PICK g \in Get : refetch' = [h \in Get |-> [NoRefetch EXCEPT !.on = (h = g)]]
  BY DEF StartRefetch
<1>2. \A h \in Get : /\ refetch'[h] \in Refetch
                     /\ refetch'[h].on <=> h = g
                     /\ refetch'[h].source = Loading /\ refetch'[h].store = Loading
  BY <1>1, PanelTypes DEF NoRefetch, Refetch
<1>3. refetch' \in [Get -> Refetch]
  BY <1>1, <1>2
<1>4. OneRefetch' /\ AnswersAreRecent' /\ ShownAreRecent'
  BY <1>2 DEF OneRefetch, AnswersAreRecent, ShownAreRecent, Recent, Loading
<1>. QED BY <1>3, <1>4

-----------------------------------------------------------------------------
(* One step of the lists *)

LEMMA ServerKeeps ==
  ASSUME ListsInv, ServerMoves
  PROVE  ListsInv'
<1>1. clock' \in 0 .. MaxClock /\ fresh' \in 0 .. clock'
  BY ListsAssumption DEF ListsInv, ListsTypeOK, ServerMoves
<1>2. session' \in [Key -> Status]
  BY DEF ListsInv, ListsTypeOK, ServerMoves, Status
<1>3. UNCHANGED <<source, store, refetch, selected, fresh, failed>>
  BY DEF ServerMoves
<1>. QED BY <1>1, <1>2, <1>3 DEF ListsInv, ListsTypeOK, OneRefetch, AnswersAreRecent,
            ShownAreRecent, SelectedIsListed, Recent, Listed

LEMMA RefetchListsKeeps ==
  ASSUME ListsInv, RefetchLists
  PROVE  ListsInv'
<1>1. StartRefetch /\ UNCHANGED <<clock, session, source, store, selected, fresh, failed>>
  BY DEF RefetchLists
<1>. QED BY <1>1, RefetchStarts DEF ListsInv, ListsTypeOK, SelectedIsListed, Listed

\* An answer is as new as the server, which no success is ahead of.
LEMMA AnswerKeeps ==
  ASSUME ListsInv, NEW g \in Get, SourceAnswers(g) \/ StoredAnswers(g)
  PROVE  ListsInv'
<1>1. UNCHANGED <<clock, session, source, store, selected, fresh>> /\ refetch[g].on
  BY DEF SourceAnswers, StoredAnswers
<1>2. failed' \in 0 .. MaxFailed
  BY ListsAssumption DEF ListsInv, ListsTypeOK, SourceAnswers, StoredAnswers, ListFault
<1>3. PICK panel \in {Failed, Answer(session), Answer(Nothing)} :
        \/ refetch' = [refetch EXCEPT ![g].source = panel]
        \/ refetch' = [refetch EXCEPT ![g].store = panel]
  BY DEF SourceAnswers, StoredAnswers
<1>4. panel \in Panel
  BY PanelTypes DEF ListsInv, ListsTypeOK
<1>5. Recent(panel)
  BY DEF ListsInv, ListsTypeOK, Recent, Failed, Answer
<1>6. refetch' \in [Get -> Refetch]
  BY <1>3, <1>4 DEF ListsInv, ListsTypeOK, Refetch
<1>7. \A h \in Get : /\ refetch'[h].on = refetch[h].on
                     /\ refetch'[h].source \in {refetch[h].source, panel}
                     /\ refetch'[h].store \in {refetch[h].store, panel}
  BY <1>3 DEF ListsInv, ListsTypeOK, Refetch
<1>8. AnswersAreRecent'
  BY <1>1, <1>5, <1>7 DEF ListsInv, AnswersAreRecent, Recent
<1>9. OneRefetch' /\ ShownAreRecent'
  BY <1>1, <1>7 DEF ListsInv, OneRefetch, ShownAreRecent
<1>. QED BY <1>1, <1>2, <1>6, <1>8, <1>9 DEF ListsInv, ListsTypeOK, SelectedIsListed, Listed

\* The lists land, and the selection with them.
LEMMA EndKeeps ==
  ASSUME ListsInv, NEW g \in Get, RefetchEnds(g)
  PROVE  ListsInv'
<1>1. /\ refetch[g].on /\ UNCHANGED <<clock, session, fresh, failed>>
      /\ source' = refetch[g].source /\ store' = refetch[g].store
      /\ refetch' = [refetch EXCEPT ![g] = NoRefetch]
  BY DEF RefetchEnds, Land
<1>2. source' \in Panel /\ store' \in Panel
  BY <1>1 DEF ListsInv, ListsTypeOK, Refetch
<1>3. refetch' \in [Get -> Refetch]
  BY <1>1, PanelTypes DEF ListsInv, ListsTypeOK
<1>4. Recent(source)' /\ Recent(store)'
  BY <1>1 DEF ListsInv, AnswersAreRecent, Recent
<1>5. \A h \in Get : refetch'[h].on => h # g /\ refetch'[h] = refetch[h]
  BY <1>1 DEF ListsInv, ListsTypeOK, NoRefetch
<1>6. OneRefetch' /\ AnswersAreRecent' /\ ShownAreRecent'
  BY <1>1, <1>4, <1>5 DEF ListsInv, OneRefetch, AnswersAreRecent, ShownAreRecent, Recent
<1>7. SelectedIsListed' /\ selected' \subseteq Key
  BY <1>1 DEF ListsInv, ListsTypeOK, SelectedIsListed, RefetchEnds, Land, Listed
<1>. QED BY <1>1, <1>2, <1>3, <1>6, <1>7 DEF ListsInv, ListsTypeOK

\* The gestures select rows that are listed.
LEMMA SelectionKeeps ==
  ASSUME ListsInv, NEW S \in SUBSET Key, Selects(S), S \subseteq selected \union Importable
  PROVE  ListsInv'
<1>1. Importable \subseteq Listed(source)
  BY DEF Importable, Listed
<1>2. SelectedIsListed'
  BY <1>1 DEF ListsInv, SelectedIsListed, Selects, Listed
<1>. QED BY <1>2 DEF ListsInv, ListsTypeOK, Selects, OneRefetch, AnswersAreRecent, ShownAreRecent, Recent

LEMMA GestureKeeps ==
  ASSUME ListsInv,
         \/ \E k \in Key : Toggle(k)
         \/ \E shown \in SUBSET Importable : ToggleAll(shown) \/ ClearHidden(shown)
         \/ ClearSelection
  PROVE  ListsInv'
<1>1. Importable \subseteq Key /\ selected \subseteq Key
  BY DEF ListsInv, ListsTypeOK, Importable
<1>2. CASE \E k \in Key : Toggle(k)
  <2>1. PICK k \in Key : k \in Importable /\ Selects((selected \ {k}) \union ({k} \ selected))
    BY <1>2 DEF Toggle
  <2>. QED BY <1>1, <2>1, SelectionKeeps
<1>3. CASE \E shown \in SUBSET Importable : ToggleAll(shown) \/ ClearHidden(shown)
  <2>1. PICK shown \in SUBSET Importable :
          Selects(selected \ shown) \/ Selects(selected \union shown) \/ Selects(selected \intersect shown)
    BY <1>3 DEF ToggleAll, ClearHidden
  <2>. QED BY <1>1, <2>1, SelectionKeeps
<1>4. CASE ClearSelection
  BY <1>1, <1>4, SelectionKeeps DEF ClearSelection
<1>. QED BY <1>2, <1>3, <1>4

LEMMA SuccessKeeps ==
  ASSUME ListsInv, NEW kind \in {"rescan", "import"}, HandleSuccess(kind)
  PROVE  ListsInv'
<1>1. StartRefetch /\ UNCHANGED <<clock, session, source, store, failed>> /\ fresh' = clock
  BY DEF HandleSuccess
<1>2. selected' \subseteq selected
  BY DEF HandleSuccess
<1>3. fresh' \in 0 .. clock'
  BY <1>1, ListsAssumption DEF ListsInv, ListsTypeOK
<1>. QED BY <1>1, <1>2, <1>3, RefetchStarts DEF ListsInv, ListsTypeOK, SelectedIsListed, Listed

LEMMA ListsKeep == ListsInv /\ [ListsNext]_listVars => ListsInv'
<1>. SUFFICES ASSUME ListsInv, [ListsNext]_listVars PROVE ListsInv'
  OBVIOUS
<1>1. CASE UNCHANGED listVars
  BY <1>1 DEF ListsInv, ListsTypeOK, OneRefetch, AnswersAreRecent, ShownAreRecent, SelectedIsListed,
              Recent, Listed, listVars
<1>2. CASE \E g \in Get : ListStep(g)
  BY <1>2, AnswerKeeps, EndKeeps DEF ListStep
<1>. QED BY <1>1, <1>2, ServerKeeps, RefetchListsKeeps, GestureKeeps, SuccessKeeps DEF ListsNext

-----------------------------------------------------------------------------
(* The split pane *)

\* A fetch of the Raw tab that was not aborted.
Live(r) == read[r] # NoRead /\ ~read[r].aborted

\* One fetch is live at a time: a second one starts when the first has ended.
OneLiveRead == \A r, q \in Read : Live(r) /\ Live(q) => r = q

\* The Raw tab has a state only in a pane that is shown, once it is visited.
RawMounted == rawState # "unmounted" => PaneState = "ready" /\ "raw" \in visitedTabs

ShellInv ==
  /\ ShellTypeOK /\ UrlMirrorsSelection
  /\ RawReadsAreWatched /\ OneLiveRead /\ RawMounted

-----------------------------------------------------------------------------

\* What the pane is ready for.
LEMMA PaneReady == PaneState = "ready" <=> selectedRowKey # NoRow /\ selectedRowKey \in listed
BY DEF PaneState

LEMMA PaneReadyNext ==
  PaneState' = "ready" <=> selectedRowKey' # NoRow /\ selectedRowKey' \in listed'
BY DEF PaneState

LEMMA TabsKnown == Tab = {"transcript", "skim", "raw", "metadata"}
BY DEF Tab, TabId

LEMMA ShellStart == ShellInit => ShellInv
<1>. SUFFICES ASSUME ShellInit PROVE ShellInv
  OBVIOUS
<1>1. ShellTypeOK
  BY TabsKnown DEF ShellInit, ShellTypeOK, DefaultTab, NoRead
<1>2. UrlMirrorsSelection /\ RawReadsAreWatched /\ OneLiveRead /\ RawMounted
  BY DEF ShellInit, UrlMirrorsSelection, RawReadsAreWatched, OneLiveRead, RawMounted, Live
<1>. QED BY <1>1, <1>2 DEF ShellInv

-----------------------------------------------------------------------------
(* The fetches *)

\* A pane that is taken down leaves no live fetch.
LEMMA ResetEnds ==
  ASSUME ShellTypeOK, ResetPane
  PROVE  /\ activeTab' \in visitedTabs' /\ visitedTabs' \subseteq Tab
         /\ read' \in [Read -> [row : Row \union {NoRow}, aborted : BOOLEAN]]
         /\ rawState' = "unmounted"
         /\ RawReadsAreWatched' /\ OneLiveRead' /\ RawMounted'
<1>1. read' \in [Read -> [row : Row \union {NoRow}, aborted : BOOLEAN]]
  BY DEF ShellTypeOK, ResetPane, Aborted, NoRead
<1>2. \A r \in Read : ~Live(r)'
  BY DEF ShellTypeOK, ResetPane, Aborted, Live
<1>3. RawReadsAreWatched' /\ OneLiveRead'
  BY <1>2 DEF RawReadsAreWatched, OneLiveRead, Live
<1>. QED BY <1>1, <1>3, TabsKnown DEF ResetPane, RawMounted, DefaultTab

\* A fetch that starts where none is live is the only one.
LEMMA StartWatched ==
  ASSUME ShellInv, StartRead, PaneState = "ready", rawState \in {"unmounted", "error"},
         UNCHANGED <<selectedRowKey, rowVars>>, "raw" \in visitedTabs'
  PROVE  /\ read' \in [Read -> [row : Row \union {NoRow}, aborted : BOOLEAN]]
         /\ rawState' \in {"not_imported", "loading"}
         /\ RawReadsAreWatched' /\ OneLiveRead' /\ RawMounted'
<1>1. \A r \in Read : ~Live(r)
  BY DEF ShellInv, RawReadsAreWatched, Live
<1>2. PaneState' = "ready"
  BY PaneReady, PaneReadyNext DEF rowVars
<1>3. CASE selectedRowKey \notin ImportedRow
  <2>1. read' = read /\ rawState' = "not_imported"
    BY <1>3 DEF StartRead
  <2>2. \A r \in Read : ~Live(r)'
    BY <1>1, <2>1 DEF Live
  <2>. QED BY <1>2, <2>1, <2>2 DEF ShellInv, ShellTypeOK, RawReadsAreWatched, OneLiveRead,
                                    RawMounted, Live
<1>4. CASE selectedRowKey \in ImportedRow
  <2>1. PICK r \in Read : read[r] = NoRead /\ read' = [read EXCEPT ![r].row = selectedRowKey]
    BY <1>4 DEF StartRead
  <2>2. rawState' = "loading"
    BY <1>4 DEF StartRead
  <2>3. read' \in [Read -> [row : Row \union {NoRow}, aborted : BOOLEAN]]
    BY <2>1 DEF ShellInv, ShellTypeOK
  <2>4. read'[r].row = selectedRowKey
    BY <2>1 DEF ShellInv, ShellTypeOK
  <2>5. \A q \in Read : q # r => ~Live(q)'
    BY <1>1, <2>1 DEF ShellInv, ShellTypeOK, Live
  <2>6. OneLiveRead'
    BY <2>5 DEF OneLiveRead
  <2>7. RawReadsAreWatched'
    BY <1>2, <2>2, <2>4, <2>5 DEF RawReadsAreWatched, Live
  <2>. QED BY <1>2, <2>2, <2>3, <2>6, <2>7 DEF RawMounted
<1>. QED BY <1>3, <1>4

-----------------------------------------------------------------------------
(* One step *)

LEMMA ActivateKeeps ==
  ASSUME ShellInv, NEW tab \in Tab, Activate(tab)
  PROVE  ShellInv'
<1>1. PaneState' = "ready" /\ PaneState = "ready"
  BY PaneReady, PaneReadyNext DEF Activate, rowVars
<1>2. UrlMirrorsSelection'
  BY DEF ShellInv, UrlMirrorsSelection, Activate, browserVars
<1>3. activeTab' \in visitedTabs' /\ visitedTabs' \subseteq Tab
  BY DEF ShellInv, ShellTypeOK, Activate
<1>4. CASE tab = "raw" /\ tab \notin visitedTabs
  <2>1. StartRead /\ rawState = "unmounted" /\ "raw" \in visitedTabs'
    BY <1>4 DEF ShellInv, RawMounted, Activate
  <2>2. UNCHANGED <<selectedRowKey, rowVars>>
    BY DEF Activate
  <2>3. /\ read' \in [Read -> [row : Row \union {NoRow}, aborted : BOOLEAN]]
        /\ rawState' \in {"not_imported", "loading"}
        /\ RawReadsAreWatched' /\ OneLiveRead' /\ RawMounted'
    BY <1>1, <2>1, <2>2, StartWatched
  <2>. QED BY <1>2, <1>3, <2>3 DEF ShellInv, ShellTypeOK, Activate, browserVars, modeVars, rowVars
<1>5. CASE ~(tab = "raw" /\ tab \notin visitedTabs)
  <2>1. UNCHANGED <<rawState, read, selectedRowKey>>
    BY <1>5 DEF Activate
  <2>2. RawReadsAreWatched' /\ OneLiveRead'
    BY <1>1, <2>1 DEF ShellInv, RawReadsAreWatched, OneLiveRead, Live
  <2>3. RawMounted'
    BY <1>1, <2>1 DEF ShellInv, RawMounted, Activate
  <2>. QED BY <1>2, <1>3, <2>1, <2>2, <2>3
           DEF ShellInv, ShellTypeOK, Activate, browserVars, modeVars, rowVars
<1>. QED BY <1>4, <1>5

LEMMA PressKeyKeeps ==
  ASSUME ShellInv, PressKey
  PROVE  ShellInv'
<1>1. PICK i \in DOMAIN TabId : \E j \in Beside(i) : Activate(TabId[j])
  BY DEF PressKey
<1>2. PICK j \in Beside(i) : Activate(TabId[j])
  BY <1>1
<1>3. DOMAIN TabId = 1 .. 4 /\ Len(TabId) = 4
  BY DEF TabId
<1>4. j \in DOMAIN TabId
  BY <1>3 DEF Beside
<1>. QED BY <1>2, <1>4, ActivateKeeps DEF Tab

LEMMA RetryKeeps ==
  ASSUME ShellInv, RetryRaw
  PROVE  ShellInv'
<1>1. StartRead /\ rawState = "error" /\ UNCHANGED <<selectedRowKey, rowVars>>
  BY DEF RetryRaw
<1>2. PaneState = "ready" /\ "raw" \in visitedTabs'
  BY <1>1 DEF ShellInv, RawMounted, RetryRaw
<1>3. /\ read' \in [Read -> [row : Row \union {NoRow}, aborted : BOOLEAN]]
      /\ rawState' \in {"not_imported", "loading"}
      /\ RawReadsAreWatched' /\ OneLiveRead' /\ RawMounted'
  BY <1>1, <1>2, StartWatched
<1>. QED BY <1>3 DEF ShellInv, ShellTypeOK, UrlMirrorsSelection, RetryRaw, browserVars, modeVars, rowVars

LEMMA ReadEndsKeeps ==
  ASSUME ShellInv, NEW r \in Read, ReadEnds(r)
  PROVE  ShellInv'
<1>1. read' \in [Read -> [row : Row \union {NoRow}, aborted : BOOLEAN]]
  BY DEF ShellInv, ShellTypeOK, ReadEnds, NoRead
<1>2. ~Live(r)' /\ \A q \in Read : Live(q)' => Live(q) /\ q # r /\ read'[q] = read[q]
  BY DEF ShellInv, ShellTypeOK, ReadEnds, Live
<1>3. OneLiveRead'
  BY <1>2 DEF ShellInv, OneLiveRead
<1>4. PaneState' = PaneState
  BY DEF ReadEnds, rowVars, PaneState
<1>5. RawReadsAreWatched' /\ RawMounted' /\ rawState' \in {"unmounted", "not_imported", "loading", "success", "error"}
  <2>1. CASE read[r].aborted
    BY <1>2, <1>4, <2>1 DEF ShellInv, ShellTypeOK, RawReadsAreWatched, RawMounted, ReadEnds, Live
  <2>2. CASE ~read[r].aborted
    <3>1. Live(r)
      BY <2>2 DEF ReadEnds, Live
    <3>2. \A q \in Read : ~Live(q)'
      BY <1>2, <3>1 DEF ShellInv, OneLiveRead
    <3>3. rawState = "loading"
      BY <3>1 DEF ShellInv, RawReadsAreWatched, Live
    <3>. QED BY <1>4, <2>2, <3>2, <3>3 DEF ShellInv, RawReadsAreWatched, RawMounted, ReadEnds, Live
  <2>. QED BY <2>1, <2>2
<1>. QED BY <1>1, <1>3, <1>5
         DEF ShellInv, ShellTypeOK, UrlMirrorsSelection, ReadEnds, browserVars, modeVars, rowVars

LEMMA RowsLandKeeps ==
  ASSUME ShellInv, RowsLand
  PROVE  ShellInv'
<1>1. UNCHANGED <<browserVars, selectedRowKey, modeVars>> /\ listed' \subseteq Row /\ settled' = TRUE
  BY DEF RowsLand
<1>2. UrlMirrorsSelection'
  BY <1>1 DEF ShellInv, UrlMirrorsSelection, browserVars
<1>3. CASE ResetPane
  BY <1>1, <1>2, <1>3, ResetEnds DEF ShellInv, ShellTypeOK, browserVars, modeVars
<1>4. CASE ~(PaneState = "ready" /\ selectedRowKey \notin listed') /\ UNCHANGED paneVars
  <2>1. PaneState = "ready" => PaneState' = "ready"
    BY <1>1, <1>4, PaneReady, PaneReadyNext
  <2>. QED BY <1>1, <1>2, <1>4, <2>1
           DEF ShellInv, ShellTypeOK, RawReadsAreWatched, OneLiveRead, RawMounted, Live, paneVars,
               browserVars, modeVars
<1>. QED BY <1>3, <1>4 DEF RowsLand

\* Every way to select a row: the pane of another row is taken down.
LEMMA SelectKeeps ==
  ASSUME ShellInv, NEW k \in Row \union {NoRow}, SelectsRow(k), UNCHANGED rowVars,
         entry' \in Entry, url' \in [Entry -> Row \union {NoRow}], popping' \in BOOLEAN,
         narrowMode' \in {"list", "session"}, isNarrow' \in BOOLEAN, UrlMirrorsSelection'
  PROVE  ShellInv'
<1>1. selectedRowKey' = k
  BY DEF SelectsRow
<1>2. CASE k # selectedRowKey
  BY <1>1, <1>2, ResetEnds DEF ShellInv, ShellTypeOK, SelectsRow, rowVars
<1>3. CASE k = selectedRowKey
  <2>1. PaneState' = PaneState /\ UNCHANGED paneVars /\ UNCHANGED selectedRowKey
    BY <1>1, <1>3 DEF PaneState, SelectsRow, rowVars
  <2>. QED BY <2>1 DEF ShellInv, ShellTypeOK, RawReadsAreWatched, OneLiveRead, RawMounted, Live,
                        paneVars, rowVars
<1>. QED BY <1>2, <1>3

LEMMA SelectRowKeeps ==
  ASSUME ShellInv, NEW k \in Row \union {NoRow}, SelectRow(k), narrowMode' \in {"list", "session"}
  PROVE  ShellInv'
<1>1. SelectsRow(k) /\ UNCHANGED <<entry, popping, isNarrow, rowVars>>
  BY DEF SelectRow
<1>2. url' = [url EXCEPT ![entry] = k]
  BY DEF SelectRow, WriteUrl
<1>3. url' \in [Entry -> Row \union {NoRow}] /\ url'[entry] = k
  BY <1>2 DEF ShellInv, ShellTypeOK
<1>4. UrlMirrorsSelection'
  BY <1>1, <1>3 DEF UrlMirrorsSelection, SelectsRow
<1>. QED BY <1>1, <1>3, <1>4, SelectKeeps DEF ShellInv, ShellTypeOK

\* Moves of the window and of the history leave the pane as it is.
LEMMA MovesKeep ==
  ASSUME ShellInv, BackToList \/ Resize \/ \E e \in Entry : Traverse(e)
  PROVE  ShellInv'
<1>1. UNCHANGED <<selectedRowKey, rowVars, paneVars>>
  BY DEF BackToList, Resize, Traverse
<1>2. PaneState' = PaneState
  BY <1>1 DEF PaneState, rowVars
<1>3. RawReadsAreWatched' /\ OneLiveRead' /\ RawMounted'
  BY <1>1, <1>2 DEF ShellInv, RawReadsAreWatched, OneLiveRead, RawMounted, Live, paneVars
<1>4. UrlMirrorsSelection'
  BY DEF ShellInv, UrlMirrorsSelection, BackToList, Resize, Traverse, browserVars
<1>5. ShellTypeOK'
  BY DEF ShellInv, ShellTypeOK, BackToList, Resize, Traverse, browserVars, modeVars, rowVars, paneVars
<1>. QED BY <1>3, <1>4, <1>5 DEF ShellInv

LEMMA PopKeeps ==
  ASSUME ShellInv, PopState
  PROVE  ShellInv'
<1>1. SelectsRow(url[entry]) /\ UNCHANGED <<entry, url, modeVars, rowVars>> /\ popping' = FALSE
  BY DEF PopState
<1>2. url[entry] \in Row \union {NoRow}
  BY DEF ShellInv, ShellTypeOK
<1>3. UrlMirrorsSelection'
  BY <1>1 DEF UrlMirrorsSelection, SelectsRow
<1>. QED BY <1>1, <1>2, <1>3, SelectKeeps DEF ShellInv, ShellTypeOK, modeVars

LEMMA ShellKeep == ShellInv /\ [ShellNext]_shellVars => ShellInv'
<1>. SUFFICES ASSUME ShellInv, [ShellNext]_shellVars PROVE ShellInv'
  OBVIOUS
<1>1. CASE \E k \in Row : ClickRow(k)
  BY <1>1, SelectRowKeeps DEF ClickRow
<1>2. CASE \E where \in {"pane", "current_row"} : Escape(where)
  BY <1>2, SelectRowKeeps DEF Escape
<1>3. CASE ClearNotFound
  BY <1>3, SelectRowKeeps DEF ClearNotFound
<1>4. CASE UNCHANGED shellVars
  <2>1. PaneState' = PaneState
    BY <1>4 DEF PaneState, shellVars, rowVars
  <2>. QED BY <1>4, <2>1 DEF ShellInv, ShellTypeOK, UrlMirrorsSelection, RawReadsAreWatched, OneLiveRead,
                RawMounted, Live, shellVars, browserVars, modeVars, rowVars, paneVars
<1>. QED BY <1>1, <1>2, <1>3, <1>4, ActivateKeeps, PressKeyKeeps, RetryKeeps, ReadEndsKeeps,
            RowsLandKeeps, MovesKeep, PopKeeps DEF ShellNext

-----------------------------------------------------------------------------
(* The page *)

\* Every part starts in one of its own initial states, or in its state at rest,
\* which is one of them.
LEMMA PageStart == Init => FlowsInv /\ ListsInv /\ TableInv /\ ShellInv /\ ReadersInv
<1>. SUFFICES ASSUME Init PROVE FlowsInv /\ ListsInv /\ TableInv /\ ShellInv /\ ReadersInv
  OBVIOUS
<1>1. FlowsBegin(None) \/ FlowsBegin(Asked)
  BY DEF Init, FlowsRest, FlowsInit
<1>2. ListsInit /\ ShellInit
  BY DEF Init, ListsRest, ShellRest
<1>3. TableInit
  BY DEF Init, TableRest, TableInit
<1>4. ReadersInv
  <2>1. <<>> \in BoundedSeq(Byte, MaxPayload)
    <3>1. 0 \in 0 .. MaxPayload
      BY ReadersAssumption
    <3>2. <<>> \in [1 .. 0 -> Byte]
      OBVIOUS
    <3>. QED BY <3>1, <3>2 DEF BoundedSeq, SeqOf
  <2>2. \E who \in {"text", "preview"}, sent \in BoundedSeq(Byte, MaxPayload) : ReadersBegin(who, sent)
    BY <2>1 DEF Init, ReadersRest, ReadersInit
  <2>. QED BY <2>2, ReadersStart
<1>. QED BY <1>1, <1>2, <1>3, <1>4, FlowsStart, ListsStart, TableStart, ShellStart

\* A step of the page is a step of one part, and a stutter of the others.
LEMMA PageSteps ==
  [Next]_vars => /\ [FlowsNext]_flowVars /\ [ListsNext]_listVars
                 /\ [TableNext]_tableVars /\ [ShellNext]_shellVars /\ [ReadersNext]_readerVars
BY DEF Next, vars

\* The page keeps its types.
THEOREM PageTypeCorrect == Spec => []TypeOK
<1>. DEFINE I == /\ part \in {"flows", "lists", "table", "shell", "readers"}
                 /\ FlowsInv /\ ListsInv /\ TableInv /\ ShellInv /\ ReadersInv
<1>1. Init => I
  BY PageStart DEF Init
<1>2. I /\ [Next]_vars => I'
  <2>1. [Next]_vars => UNCHANGED part
    BY DEF Next, vars
  <2>. QED BY <2>1, PageSteps, FlowsKeep, ListsKeep, TableKeep, ShellKeep, ReadersKeep
<1>3. I => TypeOK
  BY ReadersTypes DEF TypeOK, FlowsInv, ListsInv, TableInv, ShellInv
<1>. HIDE DEF I
<1>. QED BY <1>1, <1>2, <1>3, PTL DEF Spec

\* A resubmission, a second click or the queue of handlers never makes two
\* calls poll one operation (the AbortControllers of App.tsx).
THEOREM PageOnePoll == Spec => []OnePollPerOperation
<1>1. Init => FlowsInv
  BY PageStart
<1>2. FlowsInv /\ [Next]_vars => FlowsInv'
  BY PageSteps, FlowsKeep
<1>3. FlowsInv => OnePollPerOperation
  BY DEF FlowsInv, PollersAreKnown, OnePollPerOperation
<1>. QED BY <1>1, <1>2, <1>3, PTL DEF Spec

\* Lists that stay on the page were answered after the last success it told
\* of (refetchAll of App.tsx, its abort of the call before).
THEOREM PageListsAreFresh == Spec => []ListsAreFresh
<1>1. Init => ListsInv
  BY PageStart
<1>2. ListsInv /\ [Next]_vars => ListsInv'
  BY PageSteps, ListsKeep
<1>3. ListsInv => ListsAreFresh
  BY DEF ListsInv, ShownAreRecent, ListsAreFresh, Recent
<1>. QED BY <1>1, <1>2, <1>3, PTL DEF Spec

\* The selection names only rows of the source list (the effect of App.tsx
\* that reconciles it).
THEOREM PageSelectedIsListed == Spec => []SelectedIsListed
<1>1. Init => ListsInv
  BY PageStart
<1>2. ListsInv /\ [Next]_vars => ListsInv'
  BY PageSteps, ListsKeep
<1>3. ListsInv => SelectedIsListed
  BY DEF ListsInv
<1>. QED BY <1>1, <1>2, <1>3, PTL DEF Spec

\* Clicks, Escape, Back and Forward in any mix: once the page has handled the
\* popstate events, the URL names the session it shows (selectRow and the
\* popstate listener of useSelectedSession.ts).
THEOREM PageUrlMirrors == Spec => []UrlMirrorsSelection
<1>1. Init => ShellInv
  BY PageStart
<1>2. ShellInv /\ [Next]_vars => ShellInv'
  BY PageSteps, ShellKeep
<1>3. ShellInv => UrlMirrorsSelection
  BY DEF ShellInv
<1>. QED BY <1>1, <1>2, <1>3, PTL DEF Spec

\* Loading the page again shows the filters it showed, whatever was in
\* localStorage before (decodeFilters and the persist effect of
\* useSessionFilters.ts).
THEOREM PageFiltersSurvive == Spec => []ReloadKeepsFilters
<1>1. Init => TableInv
  BY PageStart
<1>2. TableInv /\ [Next]_vars => TableInv'
  BY PageSteps, TableKeep
<1>3. TableInv => ReloadKeepsFilters
  BY DecodeFacts DEF TableInv, FiltersAreKept, ReloadKeepsFilters
<1>. QED BY <1>1, <1>2, <1>3, PTL DEF Spec

\* Leafing through the pages shows every listed session the filters let
\* through, once, and the page shown is one of them (applyPagination and the
\* three effects of App.tsx).
THEOREM PagePagesCover == Spec => []PagesCoverTheRows
<1>1. Init => TableInv
  BY PageStart
<1>2. TableInv /\ [Next]_vars => TableInv'
  BY PageSteps, TableKeep
<1>. QED BY <1>1, <1>2, PagesCover, PTL DEF Spec

\* However the network cuts a raw session into chunks, a read that succeeds
\* has its first lines or bytes, and all of it unless it was capped
\* (streamRawText and consumeRawPreview).
THEOREM PagePreviewIsPrefix == Spec => []PreviewIsPrefix
<1>1. Init => ReadersInv
  BY PageStart
<1>2. ReadersInv /\ [Next]_vars => ReadersInv'
  BY PageSteps, ReadersKeep
<1>. QED BY <1>1, <1>2, ReadIsPrefix, PTL DEF Spec

\* Raw bytes are streamed only for the session whose pane is shown and waits
\* for them (the effect of RawTab and its cleanup).
THEOREM PageRawReadsWatched == Spec => []RawReadsAreWatched
<1>1. Init => ShellInv
  BY PageStart
<1>2. ShellInv /\ [Next]_vars => ShellInv'
  BY PageSteps, ShellKeep
<1>3. ShellInv => RawReadsAreWatched
  BY DEF ShellInv
<1>. QED BY <1>1, <1>2, <1>3, PTL DEF Spec

===============================================================================
