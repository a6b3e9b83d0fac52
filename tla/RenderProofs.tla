---------------------------- MODULE RenderProofs ----------------------------
(***************************************************************************)
(* Lemmas about the rows of the transcript and of the outline, for         *)
(* TranscriptsProofs, over runs of messages of any length: what the first  *)
(* pass gives a message, how hints become rows, why gathering calls in     *)
(* groups and metadata in clusters changes neither what is shown nor which *)
(* chips are, what a folded group may hide, and why the blocks of the      *)
(* outline are a partition of the session.  Before them, lemmas about      *)
(* flattened sequences and left folds.                                     *)
(***************************************************************************)
EXTENDS TranscriptViews, SequenceTheorems, FiniteSetTheorems, WellFoundedInduction, TLAPS

-----------------------------------------------------------------------------
(* Positions, and folds over them *)

\* A set of numbers has a least one: induction, as a least counterexample.
LEMMA LeastNatural ==
  ASSUME NEW T, T \subseteq Nat, T # {}
  PROVE  \E x \in T : \A y \in T : x <= y
<1>. DEFINE R == OpToRel(<, Nat)
<1>1. IsWellFoundedOn(R, Nat)
  BY NatLessThanWellFounded
<1>. HIDE DEF R
<1>2. PICK x \in T : \A y \in T : ~(<<y, x>> \in R)
  BY <1>1, WFMin
<1>3. \A y \in T : ~(y < x)
  BY <1>2 DEF R, OpToRel
<1>. QED BY <1>2, <1>3

\* The last of the first n positions.
LEMMA LastPosition == \A n \in Nat \ {0} : Max(1 .. n) = n /\ (1 .. n) \ {n} = 1 .. n - 1
<1>. SUFFICES ASSUME NEW n \in Nat \ {0} PROVE Max(1 .. n) = n /\ (1 .. n) \ {n} = 1 .. n - 1
  OBVIOUS
<1>1. n \in 1 .. n /\ \A y \in 1 .. n : n >= y
  OBVIOUS
<1>2. \A x \in 1 .. n : (\A y \in 1 .. n : x >= y) => x = n
  BY <1>1
<1>3. Max(1 .. n) = n
  BY <1>1, <1>2 DEF Max
<1>. QED BY <1>3

\* A set of positions has a last one.
LEMMA SomePosition ==
  ASSUME NEW n \in Nat, NEW s \in SUBSET (1 .. n), s # {}
  PROVE  Max(s) \in s /\ \A y \in s : Max(s) >= y
<1>. DEFINE T == {n - y : y \in s}
<1>1. T \subseteq Nat
  OBVIOUS
<1>2. T # {}
  OBVIOUS
<1>3. \E x \in T : \A y \in T : x <= y
  <2>. HIDE DEF T
  <2>. QED BY <1>1, <1>2, LeastNatural
<1>4. PICK m \in s : \A y \in s : n - m <= n - y
  BY <1>3
<1>5. \A y \in s : m >= y
  BY <1>4
<1>. QED BY <1>4, <1>5 DEF Max

\* g folds the first n positions, set by set.
Folding(g, n, V, base, step) ==
  /\ g \in [SUBSET (1 .. n) -> V]
  /\ \A s \in SUBSET (1 .. n) : g[s] = IF s = {} THEN base ELSE step[Max(s)][g[s \ {Max(s)}]]

\* The recursion a left fold is defined by has a solution: on the sets of the
\* first k positions for every k.
LEMMA FoldSolves ==
  ASSUME NEW n \in Nat, NEW V, NEW base \in V, NEW step \in [1 .. n -> [V -> V]]
  PROVE  \E g : Folding(g, n, V, base, step)
<1>. DEFINE Solves(g, k) ==
              /\ g \in [SUBSET (1 .. k) -> V]
              /\ \A s \in SUBSET (1 .. k) : g[s] = IF s = {} THEN base ELSE step[Max(s)][g[s \ {Max(s)}]]
            D == {k \in 0 .. n : ~\E g : Solves(g, k)}
<1>1. ASSUME D # {} PROVE FALSE
  <2>1. PICK k \in D : \A j \in D : k <= j
    <3>1. D \subseteq Nat
      OBVIOUS
    <3>. HIDE DEF D
    <3>. QED BY <1>1, <3>1, LeastNatural
  <2>2. CASE k = 0
    <3>. DEFINE h == [s \in SUBSET (1 .. 0) |-> base]
    <3>1. \A s \in SUBSET (1 .. 0) : s = {}
      OBVIOUS
    <3>2. Solves(h, 0)
      BY <3>1
    <3>. HIDE DEF Solves
    <3>. QED BY <2>1, <2>2, <3>2
  <2>3. CASE k # 0
    <3>1. k \in 1 .. n /\ k - 1 \in 0 .. n /\ k - 1 \notin D
      <4>1. k \in 1 .. n /\ k - 1 \in 0 .. n /\ ~(k <= k - 1)
        BY <2>1, <2>3
      <4>. HIDE DEF D
      <4>. QED BY <2>1, <4>1
    <3>2. PICK g : Solves(g, k - 1)
      BY <3>1
    <3>. DEFINE h == [s \in SUBSET (1 .. k) |-> IF k \in s THEN step[k][g[s \ {k}]] ELSE g[s]]
    <3>3. \A s \in SUBSET (1 .. k) :
            /\ s \ {k} \in SUBSET (1 .. k - 1)
            /\ k \in s => Max(s) = k
            /\ k \notin s => s \in SUBSET (1 .. k - 1)
      <4>. SUFFICES ASSUME NEW s \in SUBSET (1 .. k)
                    PROVE  /\ s \ {k} \in SUBSET (1 .. k - 1)
                           /\ k \in s => Max(s) = k
                           /\ k \notin s => s \in SUBSET (1 .. k - 1)
        OBVIOUS
      <4>1. k \in s => Max(s) = k
        <5>. SUFFICES ASSUME k \in s PROVE Max(s) = k
          OBVIOUS
        <5>1. k \in Nat /\ s # {}
          BY <3>1
        <5>2. Max(s) \in s /\ Max(s) >= k
          BY <5>1, SomePosition
        <5>3. Max(s) \in 1 .. k
          BY <5>2
        <5>. QED BY <3>1, <5>2, <5>3
      <4>. QED BY <3>1, <4>1
    <3>4. \A s \in SUBSET (1 .. k) : k \notin s => h[s] = g[s]
      OBVIOUS
    <3>5. h \in [SUBSET (1 .. k) -> V]
      <4>1. \A s \in SUBSET (1 .. k) : (IF k \in s THEN step[k][g[s \ {k}]] ELSE g[s]) \in V
        BY <3>1, <3>2, <3>3
      <4>. QED BY <4>1
    <3>6. ASSUME NEW s \in SUBSET (1 .. k)
          PROVE  h[s] = IF s = {} THEN base ELSE step[Max(s)][h[s \ {Max(s)}]]
      <4>1. CASE k \in s
        <5>1. h[s] = step[k][g[s \ {k}]] /\ Max(s) = k /\ s # {}
          BY <3>3, <4>1
        <5>2. s \ {k} \in SUBSET (1 .. k) /\ k \notin s \ {k}
          OBVIOUS
        <5>3. h[s \ {k}] = g[s \ {k}]
          BY <3>4, <5>2
        <5>. HIDE DEF h
        <5>. QED BY <5>1, <5>3
      <4>2. CASE k \notin s
        <5>1. s \in SUBSET (1 .. k - 1) /\ h[s] = g[s]
          BY <3>3, <3>4, <4>2
        <5>2. g[s] = IF s = {} THEN base ELSE step[Max(s)][g[s \ {Max(s)}]]
          BY <3>2, <5>1
        <5>3. s \ {Max(s)} \in SUBSET (1 .. k) /\ k \notin s \ {Max(s)}
          BY <4>2
        <5>4. h[s \ {Max(s)}] = g[s \ {Max(s)}]
          BY <3>4, <5>3
        <5>. HIDE DEF h
        <5>. QED BY <5>1, <5>2, <5>4
      <4>. QED BY <4>1, <4>2
    <3>7. Solves(h, k)
      <4>. HIDE DEF h
      <4>. QED BY <3>5, <3>6
    <3>. HIDE DEF Solves
    <3>. QED BY <2>1, <3>7
  <2>. QED BY <2>2, <2>3
<1>2. \E g : Solves(g, n)
  <2>. HIDE DEF Solves
  <2>. QED BY <1>1
<1>. QED BY <1>2 DEF Folding

\* Induction over the first n positions.
LEMMA Upward ==
  ASSUME NEW n \in Nat, NEW D, 0 \in D, \A k \in 1 .. n : k - 1 \in D => k \in D
  PROVE  \A k \in 0 .. n : k \in D
<1>. DEFINE T == {k \in 0 .. n : k \notin D}
<1>1. T \subseteq Nat
  OBVIOUS
<1>2. ASSUME T # {} PROVE FALSE
  <2>1. PICK x \in T : \A y \in T : x <= y
    <3>. HIDE DEF T
    <3>. QED BY <1>1, <1>2, LeastNatural
  <2>2. x \in 1 .. n /\ x - 1 \in 0 .. n /\ ~(x <= x - 1)
    BY <2>1
  <2>3. x - 1 \in D
    BY <2>1, <2>2
  <2>. QED BY <2>1, <2>2, <2>3
<1>. QED BY <1>2

\* f holds what a fold has after each of n steps.
Walks(f, n, V, base, step) ==
  /\ f \in [0 .. n -> V] /\ f[0] = base
  /\ \A k \in 1 .. n : f[k] = step[k][f[k - 1]]

LEMMA WalkExists ==
  ASSUME NEW n \in Nat, NEW V, NEW base \in V, NEW step \in [1 .. n -> [V -> V]]
  PROVE  \E f : Walks(f, n, V, base, step)
<1>1. PICK g : Folding(g, n, V, base, step)
  BY FoldSolves
<1>2. /\ g \in [SUBSET (1 .. n) -> V]
      /\ \A s \in SUBSET (1 .. n) : g[s] = IF s = {} THEN base ELSE step[Max(s)][g[s \ {Max(s)}]]
  BY <1>1 DEF Folding
<1>. DEFINE f == [k \in 0 .. n |-> g[1 .. k]]
<1>3. \A k \in 0 .. n : 1 .. k \in SUBSET (1 .. n)
  OBVIOUS
<1>4. f \in [0 .. n -> V]
  BY <1>2, <1>3
<1>5. f[0] = base
  <2>1. 0 \in 0 .. n
    OBVIOUS
  <2>2. 1 .. 0 = {}
    OBVIOUS
  <2>. QED BY <1>2, <1>3, <2>1, <2>2
<1>6. ASSUME NEW k \in 1 .. n PROVE f[k] = step[k][f[k - 1]]
  <2>1. k \in 0 .. n /\ k - 1 \in 0 .. n /\ k \in Nat \ {0}
    OBVIOUS
  <2>2. 1 .. k # {}
    <3>1. 1 \in 1 .. k
      OBVIOUS
    <3>. QED BY <3>1
  <2>3. Max(1 .. k) = k /\ (1 .. k) \ {k} = 1 .. k - 1
    BY <2>1, LastPosition
  <2>4. g[1 .. k] = step[k][g[1 .. k - 1]]
    BY <1>2, <1>3, <2>1, <2>3, <2>2
  <2>. QED BY <2>1, <2>4
<1>. HIDE DEF f
<1>. QED BY <1>4, <1>5, <1>6 DEF Walks

\* What a left fold computes is such a walk.
LEMMA FoldWalks ==
  ASSUME NEW n \in Nat, NEW V, NEW base \in V, NEW step \in [1 .. n -> [V -> V]], NEW iter,
         iter[1 .. 0] = base,
         \A k \in 1 .. n : iter[1 .. k - 1] \in V => iter[1 .. k] = step[k][iter[1 .. k - 1]]
  PROVE  \E f : Walks(f, n, V, base, step) /\ f[n] = iter[1 .. n]
<1>1. PICK f : Walks(f, n, V, base, step)
  BY WalkExists
<1>2. f \in [0 .. n -> V] /\ f[0] = base /\ \A k \in 1 .. n : f[k] = step[k][f[k - 1]]
  BY <1>1 DEF Walks
<1>. DEFINE D == {k \in 0 .. n : f[k] = iter[1 .. k]}
<1>3. 0 \in D
  BY <1>2
<1>4. ASSUME NEW k \in 1 .. n, k - 1 \in D PROVE k \in D
  <2>1. k \in 0 .. n /\ k - 1 \in 0 .. n
    OBVIOUS
  <2>2. f[k - 1] = iter[1 .. k - 1] /\ f[k - 1] \in V
    BY <1>2, <1>4, <2>1
  <2>3. iter[1 .. k] = step[k][iter[1 .. k - 1]] /\ f[k] = step[k][f[k - 1]]
    BY <1>2, <2>2
  <2>. QED BY <2>1, <2>2, <2>3
<1>5. n \in D
  <2>1. n \in 0 .. n
    OBVIOUS
  <2>. HIDE DEF D
  <2>. QED BY <1>3, <1>4, <2>1, Upward
<1>. QED BY <1>1, <1>5

-----------------------------------------------------------------------------
(* Flattened sequences *)

\* f holds what the first sequences are together.
Joins(f, ss, T) ==
  /\ f \in [0 .. Len(ss) -> Seq(T)] /\ f[0] = <<>>
  /\ \A k \in 1 .. Len(ss) : f[k] = f[k - 1] \o ss[k]

LEMMA FlattenJoins ==
  ASSUME NEW T, NEW ss \in Seq(Seq(T))
  PROVE  \E f : Joins(f, ss, T) /\ FlattenSeq(ss) = f[Len(ss)]
<1>. DEFINE n == Len(ss)
            step == [k \in 1 .. n |-> [s \in Seq(T) |-> s \o ss[k]]]
            Solves(g) == g = [i \in 1 .. n |-> IF i = 1 THEN ss[i] ELSE g[i - 1] \o ss[i]]
<1>1. n \in Nat /\ \A k \in 1 .. n : ss[k] \in Seq(T)
  OBVIOUS
<1>2. step \in [1 .. n -> [Seq(T) -> Seq(T)]]
  BY <1>1, ConcatProperties
<1>3. PICK f : Walks(f, n, Seq(T), <<>>, step)
  <2>1. <<>> \in Seq(T)
    OBVIOUS
  <2>. HIDE DEF step, n
  <2>. QED BY <1>1, <1>2, <2>1, WalkExists
<1>4. /\ f \in [0 .. n -> Seq(T)] /\ f[0] = <<>>
      /\ \A k \in 1 .. n : f[k] = step[k][f[k - 1]]
  BY <1>3 DEF Walks
<1>5. \A k \in 1 .. n : f[k] = f[k - 1] \o ss[k]
  <2>1. \A k \in 1 .. n : f[k - 1] \in Seq(T)
    <3>1. \A k \in 1 .. n : k - 1 \in 0 .. n
      BY <1>1
    <3>. QED BY <1>4, <3>1
  <2>. QED BY <1>4, <2>1
<1>6. Joins(f, ss, T)
  BY <1>4, <1>5 DEF Joins
<1>7. CASE n = 0
  <2>1. ss = <<>>
    BY <1>7
  <2>. QED BY <1>4, <1>6, <1>7, <2>1 DEF FlattenSeq
<1>8. CASE n # 0
  <2>. DEFINE h == [i \in 1 .. n |-> f[i]]
  <2>1. \A i \in 1 .. n : h[i] = IF i = 1 THEN ss[i] ELSE h[i - 1] \o ss[i]
    <3>1. ASSUME NEW i \in 1 .. n, i = 1 PROVE h[i] = ss[i]
      <4>1. f[1] = f[0] \o ss[1] /\ ss[1] \in Seq(T)
        <5>1. 1 \in 1 .. n /\ 1 - 1 = 0
          BY <3>1
        <5>. QED BY <1>1, <1>5, <5>1
      <4>2. <<>> \o ss[1] = ss[1]
        BY <4>1, ConcatEmptySeq
      <4>. QED BY <1>4, <3>1, <4>1, <4>2
    <3>2. ASSUME NEW i \in 1 .. n, i # 1 PROVE h[i] = h[i - 1] \o ss[i]
      <4>1. i - 1 \in 1 .. n
        BY <1>1, <3>2
      <4>. QED BY <1>5, <4>1
    <3>. QED BY <3>1, <3>2
  <2>2. Solves(h)
    <3>1. h = [i \in 1 .. n |-> h[i]]
      OBVIOUS
    <3>. HIDE DEF h, n
    <3>. QED BY <2>1, <3>1
  <2>. DEFINE c == CHOOSE g : Solves(g)
  <2>3. Solves(c)
    <3>. HIDE DEF Solves, h
    <3>. QED BY <2>2
  <2>4. FlattenSeq(ss) = c[n]
    BY <1>8 DEF FlattenSeq
  <2>. HIDE DEF c, h
  <2>5. \A i \in 1 .. n : c[i] = IF i = 1 THEN ss[i] ELSE c[i - 1] \o ss[i]
    <3>. HIDE DEF n
    <3>. QED BY <2>3
  <2>. HIDE DEF Solves
  <2>. DEFINE D == {k \in 0 .. n : k # 0 => c[k] = f[k]}
  <2>6. 0 \in D
    BY <1>1
  <2>7. ASSUME NEW k \in 1 .. n, k - 1 \in D PROVE k \in D
    <3>1. k \in 0 .. n
      BY <1>1
    <3>2. CASE k = 1
      <4>1. f[1] = f[0] \o ss[1] /\ ss[1] \in Seq(T) /\ c[1] = ss[1]
        <5>1. 1 \in 1 .. n /\ 1 - 1 = 0
          BY <3>2
        <5>. QED BY <1>1, <1>5, <2>5, <5>1
      <4>2. <<>> \o ss[1] = ss[1]
        BY <4>1, ConcatEmptySeq
      <4>. QED BY <1>4, <3>1, <3>2, <4>1, <4>2
    <3>3. CASE k # 1
      <4>1. k - 1 # 0
        BY <1>1, <3>3
      <4>2. c[k - 1] = f[k - 1] /\ c[k] = c[k - 1] \o ss[k] /\ f[k] = f[k - 1] \o ss[k]
        BY <1>5, <2>5, <2>7, <3>3, <4>1
      <4>. QED BY <3>1, <4>2
    <3>. QED BY <3>2, <3>3
  <2>8. n \in D
    <3>1. n \in 0 .. n
      BY <1>1
    <3>. HIDE DEF D, n
    <3>. QED BY <1>1, <2>6, <2>7, <3>1, Upward
  <2>. QED BY <1>6, <1>8, <2>4, <2>8
<1>. QED BY <1>7, <1>8

LEMMA FlattenTyped ==
  ASSUME NEW T, NEW ss \in Seq(Seq(T))
  PROVE  FlattenSeq(ss) \in Seq(T)
<1>1. Len(ss) \in 0 .. Len(ss)
  OBVIOUS
<1>2. PICK f : Joins(f, ss, T) /\ FlattenSeq(ss) = f[Len(ss)]
  BY FlattenJoins
<1>. QED BY <1>1, <1>2 DEF Joins

LEMMA FlattenEmpty == FlattenSeq(<<>>) = <<>>
BY DEF FlattenSeq

-----------------------------------------------------------------------------
(* Induction over sequences *)

\* The first k elements.
Upto(s, k) == [i \in 1 .. k |-> s[i]]

LEMMA UptoGrows ==
  ASSUME NEW T, NEW s \in Seq(T)
  PROVE  /\ Upto(s, 0) = <<>> /\ Upto(s, Len(s)) = s
         /\ \A k \in 0 .. Len(s) : Upto(s, k) \in Seq(T)
         /\ \A k \in 1 .. Len(s) : Upto(s, k) = Upto(s, k - 1) \o <<s[k]>>
<1>. DEFINE n == Len(s)
<1>1. n \in Nat /\ (\A k \in 1 .. n : s[k] \in T) /\ s = [i \in 1 .. n |-> s[i]]
  OBVIOUS
<1>2. Upto(s, n) = s
  BY <1>1 DEF Upto
<1>. HIDE DEF n
<1>3. ASSUME NEW k \in 0 .. n PROVE Upto(s, k) \in Seq(T) /\ Len(Upto(s, k)) = k
  <2>1. k \in Nat /\ \A i \in 1 .. k : s[i] \in T
    BY <1>1
  <2>. QED BY <2>1 DEF Upto
<1>4. Upto(s, 0) = <<>>
  <2>1. 0 \in 0 .. n
    BY <1>1
  <2>. QED BY <1>3, <2>1
<1>5. ASSUME NEW k \in 1 .. n PROVE Upto(s, k) = Upto(s, k - 1) \o <<s[k]>>
  <2>1. k \in 0 .. n /\ k - 1 \in 0 .. n /\ s[k] \in T /\ (k - 1) + 1 = k /\ k \in Nat
    BY <1>1
  <2>. DEFINE a == Upto(s, k - 1)
              b == <<s[k]>>
              c == Upto(s, k)
              d == a \o b
  <2>2. a \in Seq(T) /\ Len(a) = k - 1 /\ c \in Seq(T) /\ Len(c) = k
    BY <1>3, <2>1
  <2>3. b \in Seq(T) /\ Len(b) = 1 /\ b[1] = s[k]
    BY <2>1
  <2>4. (\A i \in 1 .. k - 1 : a[i] = s[i]) /\ \A i \in 1 .. k : c[i] = s[i]
    BY DEF Upto
  <2>. HIDE DEF a, b, c
  <2>5. d \in Seq(T) /\ Len(d) = Len(a) + Len(b)
        /\ \A i \in 1 .. Len(a) + Len(b) : d[i] = IF i <= Len(a) THEN a[i] ELSE b[i - Len(a)]
    BY <2>2, <2>3, ConcatProperties
  <2>6. Len(d) = k /\ \A i \in 1 .. k : d[i] = c[i]
    <3>1. Len(a) + Len(b) = k
      BY <2>1, <2>2, <2>3
    <3>2. ASSUME NEW i \in 1 .. k PROVE d[i] = c[i]
      <4>1. CASE i <= k - 1
        <5>1. i \in 1 .. k - 1
          BY <2>1, <4>1
        <5>. QED BY <2>2, <2>4, <2>5, <3>1, <4>1, <5>1
      <4>2. CASE ~(i <= k - 1)
        <5>1. i = k /\ i - (k - 1) = 1
          BY <2>1, <4>2
        <5>. QED BY <2>2, <2>3, <2>4, <2>5, <3>1, <4>2, <5>1
      <4>. QED BY <4>1, <4>2
    <3>. QED BY <2>5, <3>1, <3>2
  <2>. HIDE DEF d
  <2>7. d = c
    BY <2>2, <2>5, <2>6, SeqEqual
  <2>. QED BY <2>7 DEF d, c, a, b
<1>. QED BY <1>2, <1>3, <1>4, <1>5 DEF n

\* The elements behind the first k.
Rest(s, k) == [i \in 1 .. Len(s) - k |-> s[k + i]]

LEMMA RestShrinks ==
  ASSUME NEW T, NEW s \in Seq(T)
  PROVE  /\ Rest(s, 0) = s /\ Rest(s, Len(s)) = <<>>
         /\ \A k \in 0 .. Len(s) : Rest(s, k) \in Seq(T)
         /\ \A k \in 1 .. Len(s) : Rest(s, k - 1) = <<s[k]>> \o Rest(s, k)
<1>. DEFINE n == Len(s)
<1>1. n \in Nat /\ (\A k \in 1 .. n : s[k] \in T) /\ s = [i \in 1 .. n |-> s[i]]
  OBVIOUS
<1>2. Rest(s, 0) = s
  <2>1. n - 0 = n /\ \A i \in 1 .. n : 0 + i = i
    BY <1>1
  <2>2. Rest(s, 0) = [i \in 1 .. n |-> s[i]]
    BY <2>1 DEF Rest
  <2>. QED BY <1>1, <2>2
<1>3. Rest(s, n) = <<>>
  <2>1. n - n = 0
    BY <1>1
  <2>2. Rest(s, n) = [i \in 1 .. 0 |-> s[n + i]]
    BY <2>1 DEF Rest
  <2>3. [i \in 1 .. 0 |-> s[n + i]] \in Seq(T) /\ Len([i \in 1 .. 0 |-> s[n + i]]) = 0
    OBVIOUS
  <2>. QED BY <2>2, <2>3
<1>4. ASSUME NEW k \in 0 .. n PROVE Rest(s, k) \in Seq(T) /\ Len(Rest(s, k)) = n - k
  <2>1. n - k \in Nat /\ \A i \in 1 .. n - k : k + i \in 1 .. n
    BY <1>1
  <2>2. Rest(s, k) \in [1 .. n - k -> T]
    BY <1>1, <2>1 DEF Rest
  <2>. QED BY <2>1, <2>2
<1>5. ASSUME NEW k \in 1 .. n PROVE Rest(s, k - 1) = <<s[k]>> \o Rest(s, k)
  <2>. DEFINE one == <<s[k]>>
              t == Rest(s, k)
              c == one \o t
              r == Rest(s, k - 1)
  <2>1. k \in 0 .. n /\ k - 1 \in 0 .. n /\ n - (k - 1) = 1 + (n - k) /\ n - k \in Nat
    BY <1>1
  <2>2. one \in Seq(T) /\ Len(one) = 1 /\ one[1] = s[k]
    BY <1>1
  <2>3. t \in Seq(T) /\ Len(t) = n - k
    BY <1>4, <2>1
  <2>4. r \in Seq(T) /\ Len(r) = 1 + (n - k)
    BY <1>4, <2>1
  <2>5. \A i \in 1 .. n - k : t[i] = s[k + i]
    BY DEF Rest
  <2>6. \A i \in 1 .. 1 + (n - k) : r[i] = s[(k - 1) + i]
    BY <2>1 DEF Rest
  <2>. HIDE DEF one, t, r, n
  <2>7. /\ c \in Seq(T) /\ Len(c) = Len(one) + Len(t)
        /\ \A i \in 1 .. Len(one) + Len(t) : c[i] = IF i <= Len(one) THEN one[i] ELSE t[i - Len(one)]
    BY <2>2, <2>3, ConcatProperties
  <2>8. \A i \in 1 .. 1 + (n - k) : c[i] = IF i <= 1 THEN one[i] ELSE t[i - 1]
    BY <2>2, <2>3, <2>7
  <2>9. ASSUME NEW i \in 1 .. 1 + (n - k) PROVE c[i] = r[i]
    <3>1. CASE i = 1
      <4>1. (k - 1) + i = k /\ i <= 1
        BY <2>1, <3>1
      <4>. QED BY <2>2, <2>6, <2>8, <3>1, <4>1
    <3>2. CASE i # 1
      <4>1. ~(i <= 1) /\ i - 1 \in 1 .. n - k /\ k + (i - 1) = (k - 1) + i
        BY <2>1, <3>2
      <4>. QED BY <2>5, <2>6, <2>8, <4>1
    <3>. QED BY <3>1, <3>2
  <2>10. Len(c) = 1 + (n - k)
    BY <2>2, <2>3, <2>7
  <2>. HIDE DEF c
  <2>11. c = r
    BY <2>4, <2>7, <2>9, <2>10, SeqEqual
  <2>. QED BY <2>11 DEF c, r, one, t
<1>. QED BY <1>2, <1>3, <1>4, <1>5

\* What the empty sequence has, and what one more element keeps, all have.
LEMMA OneByOne ==
  ASSUME NEW T, NEW D, <<>> \in D, \A a \in Seq(T), x \in T : a \in D => a \o <<x>> \in D
  PROVE  \A s \in Seq(T) : s \in D
<1>. SUFFICES ASSUME NEW s \in Seq(T) PROVE s \in D
  OBVIOUS
<1>. DEFINE n == Len(s)
            E == {k \in 0 .. n : Upto(s, k) \in D}
<1>1. n \in Nat /\ \A k \in 1 .. n : s[k] \in T
  OBVIOUS
<1>2. /\ Upto(s, 0) = <<>> /\ Upto(s, n) = s
      /\ \A k \in 0 .. n : Upto(s, k) \in Seq(T)
      /\ \A k \in 1 .. n : Upto(s, k) = Upto(s, k - 1) \o <<s[k]>>
  BY UptoGrows
<1>. HIDE DEF n
<1>3. 0 \in E
  BY <1>1, <1>2
<1>4. ASSUME NEW k \in 1 .. n, k - 1 \in E PROVE k \in E
  <2>1. k \in 0 .. n /\ k - 1 \in 0 .. n
    BY <1>1
  <2>2. Upto(s, k - 1) \in Seq(T) /\ Upto(s, k - 1) \in D /\ s[k] \in T
    BY <1>1, <1>2, <1>4, <2>1
  <2>. QED BY <1>2, <2>1, <2>2
<1>5. n \in E
  <2>1. n \in 0 .. n
    BY <1>1
  <2>. HIDE DEF E
  <2>. QED BY <1>1, <1>3, <1>4, <2>1, Upward
<1>. QED BY <1>2, <1>5

\* A sequence and one more element.
LEMMA OneMore ==
  ASSUME NEW T, NEW a \in Seq(T), NEW x \in T
  PROVE  /\ a \o <<x>> \in Seq(T) /\ Len(a \o <<x>>) = Len(a) + 1 /\ a \o <<x>> = Append(a, x)
         /\ (a \o <<x>>)[Len(a) + 1] = x
         /\ \A i \in 1 .. Len(a) : (a \o <<x>>)[i] = a[i]
<1>1. Append(a, x) = a \o <<x>>
  BY AppendIsConcat
<1>2. /\ Append(a, x) \in Seq(T) /\ Len(Append(a, x)) = Len(a) + 1
      /\ \A i \in 1 .. Len(a) : Append(a, x)[i] = a[i]
  BY AppendProperties
<1>3. Append(a, x)[Len(a) + 1] = x
  BY AppendProperties
<1>. QED BY <1>1, <1>2, <1>3

-----------------------------------------------------------------------------
(* Flattened sequences: pieces *)

LEMMA FlattenMore ==
  ASSUME NEW T, NEW ss \in Seq(Seq(T)), NEW s \in Seq(T)
  PROVE  FlattenSeq(ss \o <<s>>) = FlattenSeq(ss) \o s
<1>. DEFINE n == Len(ss)
            tt == ss \o <<s>>
<1>1. tt \in Seq(Seq(T)) /\ Len(tt) = n + 1 /\ n \in Nat /\ tt[n + 1] = s /\ \A i \in 1 .. n : tt[i] = ss[i]
  BY OneMore
<1>. HIDE DEF tt
<1>2. PICK f : Joins(f, ss, T) /\ FlattenSeq(ss) = f[n]
  BY FlattenJoins
<1>3. PICK g : Joins(g, tt, T) /\ FlattenSeq(tt) = g[n + 1]
  BY <1>1, FlattenJoins
<1>. HIDE DEF n
<1>4. f[0] = <<>> /\ \A k \in 1 .. n : f[k] = f[k - 1] \o ss[k]
  BY <1>2 DEF Joins, n
<1>5. g[0] = <<>> /\ \A k \in 1 .. n + 1 : g[k] = g[k - 1] \o tt[k]
  BY <1>1, <1>3 DEF Joins
<1>. DEFINE D == {k \in 0 .. n : f[k] = g[k]}
<1>6. 0 \in D
  BY <1>1, <1>4, <1>5
<1>7. ASSUME NEW k \in 1 .. n, k - 1 \in D PROVE k \in D
  <2>1. k \in 0 .. n /\ k \in 1 .. n + 1
    BY <1>1
  <2>2. g[k] = g[k - 1] \o ss[k] /\ f[k] = f[k - 1] \o ss[k] /\ f[k - 1] = g[k - 1]
    BY <1>1, <1>4, <1>5, <1>7, <2>1
  <2>. QED BY <2>1, <2>2
<1>8. n \in D
  <2>1. n \in 0 .. n
    BY <1>1
  <2>. HIDE DEF D
  <2>. QED BY <1>1, <1>6, <1>7, <2>1, Upward
<1>9. g[n + 1] = g[n] \o s
  <2>1. n + 1 \in 1 .. n + 1 /\ (n + 1) - 1 = n
    BY <1>1
  <2>. QED BY <1>1, <1>5, <2>1
<1>. QED BY <1>2, <1>3, <1>8, <1>9 DEF tt

LEMMA FlattenOne ==
  ASSUME NEW T, NEW s \in Seq(T)
  PROVE  FlattenSeq(<<s>>) = s
<1>1. <<>> \in Seq(Seq(T)) /\ <<>> \o <<s>> = <<s>>
  OBVIOUS
<1>2. FlattenSeq(<<>> \o <<s>>) = FlattenSeq(<<>>) \o s
  BY <1>1, FlattenMore
<1>3. <<>> \o s = s
  BY ConcatEmptySeq
<1>. QED BY <1>1, <1>2, <1>3, FlattenEmpty

LEMMA FlattenConcat ==
  ASSUME NEW T, NEW a \in Seq(Seq(T)), NEW b \in Seq(Seq(T))
  PROVE  FlattenSeq(a \o b) = FlattenSeq(a) \o FlattenSeq(b)
<1>. DEFINE D == {c \in Seq(Seq(T)) : FlattenSeq(a \o c) = FlattenSeq(a) \o FlattenSeq(c)}
<1>1. <<>> \in D
  <2>1. a \o <<>> = a
    BY ConcatEmptySeq
  <2>2. FlattenSeq(a) \in Seq(T)
    BY FlattenTyped
  <2>3. FlattenSeq(a) \o <<>> = FlattenSeq(a)
    BY <2>2, ConcatEmptySeq
  <2>4. <<>> \in Seq(Seq(T))
    OBVIOUS
  <2>. QED BY <2>1, <2>3, <2>4, FlattenEmpty
<1>2. ASSUME NEW c \in Seq(Seq(T)), NEW s \in Seq(T), c \in D PROVE c \o <<s>> \in D
  <2>1. c \o <<s>> \in Seq(Seq(T)) /\ <<s>> \in Seq(Seq(T)) /\ a \o c \in Seq(Seq(T))
    BY ConcatProperties
  <2>2. a \o (c \o <<s>>) = (a \o c) \o <<s>>
    BY <2>1, ConcatAssociative
  <2>3. FlattenSeq((a \o c) \o <<s>>) = FlattenSeq(a \o c) \o s
    BY <2>1, FlattenMore
  <2>4. FlattenSeq(c \o <<s>>) = FlattenSeq(c) \o s
    BY FlattenMore
  <2>5. FlattenSeq(a) \in Seq(T) /\ FlattenSeq(c) \in Seq(T)
    BY FlattenTyped
  <2>6. (FlattenSeq(a) \o FlattenSeq(c)) \o s = FlattenSeq(a) \o (FlattenSeq(c) \o s)
    BY <2>5, ConcatAssociative
  <2>. QED BY <1>2, <2>1, <2>2, <2>3, <2>4, <2>6
<1>. HIDE DEF D
<1>3. b \in D
  BY <1>1, <1>2, OneByOne
<1>. QED BY <1>3 DEF D

LEMMA SetOfConcat ==
  ASSUME NEW T, NEW a \in Seq(T), NEW b \in Seq(T)
  PROVE  ToSet(a \o b) = ToSet(a) \union ToSet(b)
<1>. DEFINE m == Len(a)
            n == Len(b)
            c == a \o b
<1>1. /\ c \in Seq(T) /\ Len(c) = m + n /\ m \in Nat /\ n \in Nat
      /\ \A i \in 1 .. m + n : c[i] = IF i <= m THEN a[i] ELSE b[i - m]
  BY ConcatProperties
<1>2. DOMAIN a = 1 .. m /\ DOMAIN b = 1 .. n /\ DOMAIN c = 1 .. m + n
  BY <1>1
<1>. HIDE DEF m, n, c
<1>3. \A i \in 1 .. m : i \in 1 .. m + n /\ c[i] = a[i]
  BY <1>1
<1>4. \A i \in 1 .. n : m + i \in 1 .. m + n /\ c[m + i] = b[i]
  <2>1. ASSUME NEW i \in 1 .. n PROVE m + i \in 1 .. m + n /\ ~(m + i <= m) /\ (m + i) - m = i
    BY <1>1
  <2>. QED BY <1>1, <2>1
<1>5. \A i \in 1 .. m + n : i \in 1 .. m \/ (i - m \in 1 .. n /\ c[i] = b[i - m])
  BY <1>1
<1>6. ToSet(a) = {a[i] : i \in 1 .. m} /\ ToSet(b) = {b[i] : i \in 1 .. n} /\ ToSet(c) = {c[i] : i \in 1 .. m + n}
  BY <1>2 DEF ToSet
<1>7. ToSet(c) \subseteq ToSet(a) \union ToSet(b)
  <2>1. \A i \in 1 .. m + n : c[i] \in ToSet(a) \/ c[i] \in ToSet(b)
    BY <1>3, <1>5, <1>6
  <2>. QED BY <1>6, <2>1
<1>8. ToSet(a) \subseteq ToSet(c)
  BY <1>3, <1>6
<1>9. ToSet(b) \subseteq ToSet(c)
  <2>1. \A i \in 1 .. n : b[i] \in ToSet(c)
    BY <1>4, <1>6
  <2>. QED BY <1>6, <2>1
<1>. QED BY <1>7, <1>8, <1>9 DEF c

LEMMA SetOf ==
  ASSUME NEW T, NEW s \in Seq(T)
  PROVE  ToSet(s) = {s[i] : i \in 1 .. Len(s)} /\ ToSet(s) \subseteq T
BY DEF ToSet

LEMMA SetOfOne == \A x : ToSet(<<x>>) = {x}
BY DEF ToSet

LEMMA SetOfNone == ToSet(<<>>) = {}
BY DEF ToSet

LEMMA SetOfFlatten ==
  ASSUME NEW T, NEW ss \in Seq(Seq(T))
  PROVE  ToSet(FlattenSeq(ss)) = UNION {ToSet(s) : s \in ToSet(ss)}
<1>. DEFINE D == {c \in Seq(Seq(T)) : ToSet(FlattenSeq(c)) = UNION {ToSet(s) : s \in ToSet(c)}}
<1>1. <<>> \in D
  <2>1. <<>> \in Seq(Seq(T))
    OBVIOUS
  <2>. QED BY <2>1, FlattenEmpty, SetOfNone
<1>2. ASSUME NEW c \in Seq(Seq(T)), NEW s \in Seq(T), c \in D PROVE c \o <<s>> \in D
  <2>1. c \o <<s>> \in Seq(Seq(T)) /\ <<s>> \in Seq(Seq(T)) /\ FlattenSeq(c) \in Seq(T)
    BY ConcatProperties, FlattenTyped
  <2>2. FlattenSeq(c \o <<s>>) = FlattenSeq(c) \o s
    BY FlattenMore
  <2>3. ToSet(FlattenSeq(c) \o s) = ToSet(FlattenSeq(c)) \union ToSet(s)
    BY <2>1, SetOfConcat
  <2>4. ToSet(c \o <<s>>) = ToSet(c) \union {s}
    <3>. DEFINE one == <<s>>
                U == Seq(T)
    <3>1. c \in Seq(U) /\ one \in Seq(U) /\ ToSet(one) = {s}
      BY <2>1, SetOfOne
    <3>. HIDE DEF one, U
    <3>2. ToSet(c \o one) = ToSet(c) \union ToSet(one)
      BY <3>1, SetOfConcat
    <3>. QED BY <3>1, <3>2 DEF one
  <2>. QED BY <1>2, <2>1, <2>2, <2>3, <2>4
<1>. HIDE DEF D
<1>3. ss \in D
  BY <1>1, <1>2, OneByOne
<1>. QED BY <1>3 DEF D

\* A sequence of which only the first is not empty.
LEMMA FlattenFirst ==
  ASSUME NEW T, NEW ss \in Seq(Seq(T)), ss # <<>>, \A i \in 2 .. Len(ss) : ss[i] = <<>>
  PROVE  FlattenSeq(ss) = ss[1]
<1>. DEFINE n == Len(ss)
<1>1. n \in Nat \ {0} /\ (\A k \in 1 .. n : ss[k] \in Seq(T)) /\ 1 \in 1 .. n
  OBVIOUS
<1>2. PICK f : Joins(f, ss, T) /\ FlattenSeq(ss) = f[n]
  BY FlattenJoins
<1>3. f \in [0 .. n -> Seq(T)] /\ f[0] = <<>> /\ \A k \in 1 .. n : f[k] = f[k - 1] \o ss[k]
  BY <1>2 DEF Joins
<1>4. \A i \in 2 .. n : ss[i] = <<>>
  OBVIOUS
<1>. HIDE DEF n
<1>. DEFINE D == {k \in 0 .. n : k # 0 => f[k] = ss[1]}
<1>5. 0 \in D
  BY <1>1
<1>6. ASSUME NEW k \in 1 .. n, k - 1 \in D PROVE k \in D
  <2>1. k \in 0 .. n
    BY <1>1
  <2>2. CASE k = 1
    <3>1. 1 - 1 = 0
      OBVIOUS
    <3>2. f[1] = <<>> \o ss[1] /\ ss[1] \in Seq(T)
      BY <1>1, <1>3, <3>1
    <3>3. <<>> \o ss[1] = ss[1]
      BY <3>2, ConcatEmptySeq
    <3>. QED BY <2>1, <2>2, <3>2, <3>3
  <2>3. CASE k # 1
    <3>1. k - 1 # 0 /\ k \in 2 .. n
      BY <1>1, <2>3
    <3>2. f[k] = ss[1] \o <<>>
      BY <1>3, <1>4, <1>6, <3>1
    <3>3. ss[1] \o <<>> = ss[1]
      BY <1>1, ConcatEmptySeq
    <3>. QED BY <2>1, <3>2, <3>3
  <2>. QED BY <2>2, <2>3
<1>7. n \in D
  <2>1. n \in 0 .. n /\ n \in Nat
    BY <1>1
  <2>. HIDE DEF D
  <2>. QED BY <1>5, <1>6, <2>1, Upward
<1>. QED BY <1>1, <1>2, <1>7

\* Sequences of one element each.
Ones(s) == [i \in 1 .. Len(s) |-> <<s[i]>>]

LEMMA FlattenOnes ==
  ASSUME NEW T, NEW s \in Seq(T)
  PROVE  FlattenSeq(Ones(s)) = s
<1>. DEFINE D == {c \in Seq(T) : FlattenSeq(Ones(c)) = c}
<1>1. <<>> \in D
  <2>1. <<>> \in Seq(T) /\ Len(<<>>) = 0
    OBVIOUS
  <2>2. Ones(<<>>) = <<>>
    BY <2>1 DEF Ones
  <2>. QED BY <2>1, <2>2, FlattenEmpty
<1>2. ASSUME NEW c \in Seq(T), NEW x \in T, c \in D PROVE c \o <<x>> \in D
  <2>. DEFINE n == Len(c)
              d == c \o <<x>>
              one == Ones(c) \o <<<<x>>>>
  <2>1. d \in Seq(T) /\ Len(d) = n + 1 /\ n \in Nat /\ d[n + 1] = x /\ \A i \in 1 .. n : d[i] = c[i]
    BY OneMore
  <2>2. \A i \in 1 .. n : c[i] \in T
    OBVIOUS
  <2>. HIDE DEF n, d
  <2>3. Ones(c) \in Seq(Seq(T)) /\ Len(Ones(c)) = n /\ \A i \in 1 .. n : Ones(c)[i] = <<c[i]>>
    BY <2>1, <2>2 DEF Ones, n
  <2>4. Ones(d) \in Seq(Seq(T)) /\ Len(Ones(d)) = n + 1 /\ \A i \in 1 .. n + 1 : Ones(d)[i] = <<d[i]>>
    <3>1. \A i \in 1 .. n + 1 : d[i] \in T
      BY <2>1
    <3>. QED BY <2>1, <3>1 DEF Ones
  <2>5. /\ one \in Seq(Seq(T)) /\ Len(one) = n + 1 /\ one[n + 1] = <<x>>
        /\ \A i \in 1 .. n : one[i] = Ones(c)[i]
    <3>1. <<x>> \in Seq(T)
      OBVIOUS
    <3>. QED BY <2>3, <3>1, OneMore
  <2>. HIDE DEF one
  <2>6. \A i \in 1 .. n + 1 : one[i] = Ones(d)[i]
    <3>1. \A i \in 1 .. n + 1 : i \in 1 .. n \/ i = n + 1
      BY <2>1
    <3>2. ASSUME NEW i \in 1 .. n PROVE one[i] = Ones(d)[i]
      <4>1. i \in 1 .. n + 1 /\ d[i] = c[i]
        BY <2>1
      <4>2. one[i] = Ones(c)[i] /\ Ones(c)[i] = <<c[i]>>
        BY <2>3, <2>5
      <4>3. Ones(d)[i] = <<d[i]>>
        BY <2>4, <4>1
      <4>. QED BY <4>1, <4>2, <4>3
    <3>3. one[n + 1] = Ones(d)[n + 1]
      <4>1. n + 1 \in 1 .. n + 1
        BY <2>1
      <4>2. Ones(d)[n + 1] = <<d[n + 1]>>
        BY <2>4, <4>1
      <4>. QED BY <2>1, <2>5, <4>2
    <3>. QED BY <3>1, <3>2, <3>3
  <2>7. Ones(d) = one
    BY <2>4, <2>5, <2>6, SeqEqual
  <2>8. FlattenSeq(one) = FlattenSeq(Ones(c)) \o <<x>>
    <3>1. <<x>> \in Seq(T)
      OBVIOUS
    <3>. QED BY <2>3, <3>1, FlattenMore DEF one
  <2>. QED BY <1>2, <2>1, <2>7, <2>8 DEF d
<1>. HIDE DEF D
<1>3. s \in D
  BY <1>1, <1>2, OneByOne
<1>. QED BY <1>3 DEF D

LEMMA InjectivePieces ==
  ASSUME NEW T, NEW a \in Seq(T), NEW b \in Seq(T), IsInjective(a \o b)
  PROVE  IsInjective(a) /\ ToSet(a) \cap ToSet(b) = {}
<1>. DEFINE m == Len(a)
            n == Len(b)
            c == a \o b
<1>1. /\ c \in Seq(T) /\ Len(c) = m + n /\ m \in Nat /\ n \in Nat
      /\ \A i \in 1 .. m + n : c[i] = IF i <= m THEN a[i] ELSE b[i - m]
  BY ConcatProperties
<1>2. DOMAIN a = 1 .. m /\ DOMAIN b = 1 .. n /\ DOMAIN c = 1 .. m + n
  BY <1>1
<1>3. \A i, j \in 1 .. m + n : c[i] = c[j] => i = j
  BY <1>2 DEF IsInjective
<1>. HIDE DEF m, n, c
<1>4. \A i \in 1 .. m : i \in 1 .. m + n /\ c[i] = a[i]
  BY <1>1
<1>5. ASSUME NEW i \in 1 .. n PROVE m + i \in 1 .. m + n /\ c[m + i] = b[i] /\ \A j \in 1 .. m : j # m + i
  <2>1. m + i \in 1 .. m + n /\ ~(m + i <= m) /\ (m + i) - m = i
    BY <1>1
  <2>2. \A j \in 1 .. m : j # m + i
    BY <1>1
  <2>. QED BY <1>1, <2>1, <2>2
<1>6. IsInjective(a)
  BY <1>2, <1>3, <1>4 DEF IsInjective
<1>7. ToSet(a) \cap ToSet(b) = {}
  BY <1>2, <1>3, <1>4, <1>5 DEF ToSet
<1>. QED BY <1>6, <1>7

\* Without repetitions no element is in two of the sequences.
Disjoint(ss) == \A i, j \in 1 .. Len(ss) : i < j => ToSet(ss[i]) \cap ToSet(ss[j]) = {}

LEMMA FlattenApart ==
  ASSUME NEW T, NEW ss \in Seq(Seq(T)), IsInjective(FlattenSeq(ss))
  PROVE  Disjoint(ss)
<1>. DEFINE D == {c \in Seq(Seq(T)) : IsInjective(FlattenSeq(c)) => Disjoint(c)}
<1>1. <<>> \in D
  <2>1. <<>> \in Seq(Seq(T)) /\ Len(<<>>) = 0
    OBVIOUS
  <2>. QED BY <2>1 DEF Disjoint
<1>2. ASSUME NEW c \in Seq(Seq(T)), NEW s \in Seq(T), c \in D PROVE c \o <<s>> \in D
  <2>. DEFINE n == Len(c)
              d == c \o <<s>>
  <2>1. d \in Seq(Seq(T)) /\ Len(d) = n + 1 /\ n \in Nat /\ d[n + 1] = s /\ \A i \in 1 .. n : d[i] = c[i]
    BY OneMore
  <2>2. FlattenSeq(d) = FlattenSeq(c) \o s /\ FlattenSeq(c) \in Seq(T)
    BY FlattenMore, FlattenTyped
  <2>3. \A i \in 1 .. n : ToSet(c[i]) \subseteq ToSet(FlattenSeq(c))
    <3>1. \A i \in 1 .. n : c[i] \in ToSet(c)
      BY SetOf
    <3>. QED BY <3>1, SetOfFlatten
  <2>. HIDE DEF d
  <2>4. ASSUME IsInjective(FlattenSeq(d)) PROVE Disjoint(d)
    <3>1. IsInjective(FlattenSeq(c)) /\ ToSet(FlattenSeq(c)) \cap ToSet(s) = {}
      BY <2>2, <2>4, InjectivePieces
    <3>2. Disjoint(c)
      BY <1>2, <3>1
    <3>3. ASSUME NEW i \in 1 .. n + 1, NEW j \in 1 .. n + 1, i < j PROVE ToSet(d[i]) \cap ToSet(d[j]) = {}
      <4>1. i \in 1 .. n /\ (j \in 1 .. n \/ j = n + 1)
        BY <2>1, <3>3
      <4>2. CASE j \in 1 .. n
        BY <2>1, <3>2, <3>3, <4>1, <4>2 DEF Disjoint
      <4>3. CASE j = n + 1
        BY <2>1, <2>3, <3>1, <4>1, <4>3
      <4>. QED BY <4>1, <4>2, <4>3
    <3>. QED BY <2>1, <3>3 DEF Disjoint
  <2>. QED BY <2>1, <2>4 DEF d
<1>. HIDE DEF D
<1>3. ss \in D
  BY <1>1, <1>2, OneByOne
<1>. QED BY <1>3 DEF D

-----------------------------------------------------------------------------
(* Sequences an element each *)

Maps(F, S, T) == F \in [S -> Seq(T)]
Images(F, s) == [k \in DOMAIN s |-> F[s[k]]]
Each(F, s) == FlattenSeq(Images(F, s))

LEMMA EachTyped ==
  ASSUME NEW S, NEW T, NEW F, Maps(F, S, T), NEW s \in Seq(S)
  PROVE  /\ Images(F, s) \in Seq(Seq(T)) /\ Len(Images(F, s)) = Len(s)
         /\ \A k \in 1 .. Len(s) : Images(F, s)[k] = F[s[k]]
         /\ Each(F, s) \in Seq(T)
<1>1. DOMAIN s = 1 .. Len(s) /\ Len(s) \in Nat /\ \A k \in 1 .. Len(s) : s[k] \in S
  OBVIOUS
<1>2. \A k \in 1 .. Len(s) : F[s[k]] \in Seq(T)
  BY <1>1 DEF Maps
<1>3. /\ Images(F, s) \in Seq(Seq(T)) /\ Len(Images(F, s)) = Len(s)
      /\ \A k \in 1 .. Len(s) : Images(F, s)[k] = F[s[k]]
  BY <1>1, <1>2 DEF Images
<1>. QED BY <1>3, FlattenTyped DEF Each

LEMMA EachEmpty ==
  ASSUME NEW F
  PROVE  Each(F, <<>>) = <<>>
<1>1. Images(F, <<>>) = <<>>
  BY DEF Images
<1>. QED BY <1>1, FlattenEmpty DEF Each

LEMMA EachOne ==
  ASSUME NEW S, NEW T, NEW F, Maps(F, S, T), NEW x \in S
  PROVE  Each(F, <<x>>) = F[x]
<1>1. F[x] \in Seq(T)
  BY DEF Maps
<1>2. Images(F, <<x>>) = <<F[x]>>
  BY DEF Images
<1>. QED BY <1>1, <1>2, FlattenOne DEF Each

LEMMA EachConcat ==
  ASSUME NEW S, NEW T, NEW F, Maps(F, S, T), NEW a \in Seq(S), NEW b \in Seq(S)
  PROVE  Each(F, a \o b) = Each(F, a) \o Each(F, b)
<1>. DEFINE m == Len(a)
            n == Len(b)
            c == a \o b
            p == Images(F, a)
            q == Images(F, b)
            r == Images(F, c)
            t == p \o q
<1>1. /\ c \in Seq(S) /\ Len(c) = m + n /\ m \in Nat /\ n \in Nat
      /\ \A k \in 1 .. m + n : c[k] = IF k <= m THEN a[k] ELSE b[k - m]
  BY ConcatProperties
<1>2. /\ p \in Seq(Seq(T)) /\ Len(p) = m /\ \A k \in 1 .. m : p[k] = F[a[k]]
      /\ q \in Seq(Seq(T)) /\ Len(q) = n /\ \A k \in 1 .. n : q[k] = F[b[k]]
  BY EachTyped
<1>. HIDE DEF c, m, n, p, q
<1>3. r \in Seq(Seq(T)) /\ Len(r) = m + n /\ \A k \in 1 .. m + n : r[k] = F[c[k]]
  <2>1. c \in Seq(S)
    BY <1>1
  <2>2. r \in Seq(Seq(T)) /\ Len(r) = Len(c) /\ \A k \in 1 .. Len(c) : r[k] = F[c[k]]
    BY <2>1, EachTyped
  <2>. HIDE DEF r
  <2>. QED BY <1>1, <2>2
<1>. HIDE DEF r
<1>4. /\ t \in Seq(Seq(T)) /\ Len(t) = m + n
      /\ \A k \in 1 .. m + n : t[k] = IF k <= m THEN p[k] ELSE q[k - m]
  <2>. DEFINE W == Seq(T)
  <2>1. p \in Seq(W) /\ q \in Seq(W)
    BY <1>2
  <2>. HIDE DEF W
  <2>2. /\ t \in Seq(W) /\ Len(t) = Len(p) + Len(q)
        /\ \A k \in 1 .. Len(p) + Len(q) : t[k] = IF k <= Len(p) THEN p[k] ELSE q[k - Len(p)]
    BY <2>1, ConcatProperties
  <2>. HIDE DEF t
  <2>. QED BY <1>2, <2>2 DEF W
<1>. HIDE DEF t
<1>5. ASSUME NEW k \in 1 .. m + n PROVE r[k] = t[k]
  <2>1. CASE k <= m
    <3>1. k \in 1 .. m
      BY <1>1, <2>1
    <3>2. c[k] = a[k] /\ t[k] = p[k] /\ r[k] = F[c[k]]
      BY <1>1, <1>3, <1>4, <2>1
    <3>. QED BY <1>2, <3>1, <3>2
  <2>2. CASE ~(k <= m)
    <3>1. k - m \in 1 .. n
      BY <1>1, <2>2
    <3>2. c[k] = b[k - m] /\ t[k] = q[k - m] /\ r[k] = F[c[k]]
      BY <1>1, <1>3, <1>4, <2>2
    <3>. QED BY <1>2, <3>1, <3>2
  <2>. QED BY <2>1, <2>2
<1>6. r = t
  BY <1>3, <1>4, <1>5, SeqEqual
<1>7. FlattenSeq(p \o q) = FlattenSeq(p) \o FlattenSeq(q)
  BY <1>2, FlattenConcat
<1>. QED BY <1>6, <1>7 DEF Each, c, p, q, r, t

LEMMA EachOfFlatten ==
  ASSUME NEW S, NEW T, NEW F, Maps(F, S, T), NEW ss \in Seq(Seq(S))
  PROVE  Each(F, FlattenSeq(ss)) = FlattenSeq([k \in DOMAIN ss |-> Each(F, ss[k])])
<1>. DEFINE G == [s \in Seq(S) |-> Each(F, s)]
            D == {c \in Seq(Seq(S)) : Each(F, FlattenSeq(c)) = Each(G, c)}
<1>1. Maps(G, Seq(S), T)
  BY EachTyped DEF Maps
<1>. HIDE DEF G
<1>2. <<>> \in D
  <2>1. <<>> \in Seq(Seq(S))
    OBVIOUS
  <2>. QED BY <2>1, FlattenEmpty, EachEmpty
<1>3. ASSUME NEW c \in Seq(Seq(S)), NEW s \in Seq(S), c \in D PROVE c \o <<s>> \in D
  <2>1. c \o <<s>> \in Seq(Seq(S)) /\ <<s>> \in Seq(Seq(S)) /\ FlattenSeq(c) \in Seq(S)
    BY ConcatProperties, FlattenTyped
  <2>2. FlattenSeq(c \o <<s>>) = FlattenSeq(c) \o s
    BY FlattenMore
  <2>3. Each(F, FlattenSeq(c) \o s) = Each(F, FlattenSeq(c)) \o Each(F, s)
    BY <2>1, EachConcat
  <2>4. Each(G, c \o <<s>>) = Each(G, c) \o Each(F, s)
    <3>. DEFINE U == Seq(S)
                one == <<s>>
    <3>1. Maps(G, U, T) /\ c \in Seq(U) /\ one \in Seq(U) /\ s \in U
      BY <1>1, <2>1
    <3>2. G[s] = Each(F, s)
      BY DEF G
    <3>. HIDE DEF U
    <3>3. Each(G, one) = Each(F, s)
      BY <3>1, <3>2, EachOne
    <3>. HIDE DEF one
    <3>4. Each(G, c \o one) = Each(G, c) \o Each(G, one)
      BY <3>1, EachConcat
    <3>. QED BY <3>3, <3>4 DEF one
  <2>. QED BY <1>3, <2>1, <2>2, <2>3, <2>4
<1>. HIDE DEF D
<1>4. ss \in D
  BY <1>2, <1>3, OneByOne
<1>5. [k \in DOMAIN ss |-> Each(F, ss[k])] = Images(G, ss)
  BY DEF G, Images
<1>. QED BY <1>4, <1>5 DEF D, Each

LEMMA SetOfEach ==
  ASSUME NEW S, NEW T, NEW F, Maps(F, S, T), NEW s \in Seq(S)
  PROVE  ToSet(Each(F, s)) = UNION {ToSet(F[x]) : x \in ToSet(s)}
<1>. DEFINE ss == Images(F, s)
<1>1. /\ ss \in Seq(Seq(T)) /\ Len(ss) = Len(s) /\ \A k \in 1 .. Len(s) : ss[k] = F[s[k]]
      /\ Each(F, s) = FlattenSeq(ss)
  BY EachTyped DEF Each
<1>. HIDE DEF ss
<1>2. ToSet(FlattenSeq(ss)) = UNION {ToSet(x) : x \in ToSet(ss)}
  BY <1>1, SetOfFlatten
<1>3. ToSet(ss) = {F[x] : x \in ToSet(s)}
  <2>1. ToSet(ss) = {ss[k] : k \in 1 .. Len(s)}
    BY <1>1, SetOf
  <2>2. ToSet(s) = {s[k] : k \in 1 .. Len(s)}
    BY SetOf
  <2>3. \A k \in 1 .. Len(s) : s[k] \in ToSet(s) /\ ss[k] = F[s[k]]
    BY <1>1, <2>2
  <2>4. \A x \in ToSet(s) : \E k \in 1 .. Len(s) : F[x] = ss[k]
    BY <1>1, <2>2
  <2>. QED BY <2>1, <2>3, <2>4
<1>. QED BY <1>1, <1>2, <1>3

-----------------------------------------------------------------------------
(* What hints and rows are made of *)

Chips == [line : Nat, index : Int, bucket : {"render-normally", "collapse-by-default"}]

PlainKind == {"boundary", "lifecycle", "standalone", "metadata", "warning-only"}
MemberKind == {"group-member", "group-text-member"}
ClusterKind == {"metadata-cluster-head", "metadata-cluster-member"}
HintKind == PlainKind \union MemberKind \union ClusterKind \union {"group-head"}
Statuses == {"in-flight", "all-success", "all-failed", "mixed", None}

Hints == [kind : HintKind, at : Int, pair : Int, chips : Seq(Chips), task : BOOLEAN,
          head : Int, indices : Seq(Int), status : Statuses]
RowKind == {"boundary", "lifecycle", "standalone", "metadata", "group", "cluster",
            "user_turn", "oversized_user_message"}
Rows == [kind : RowKind, shown : Seq(Int), chips : Seq(Chips), folded : BOOLEAN, status : Statuses]

LEMMA LeastOf ==
  ASSUME NEW T, T \subseteq Nat, T # {}
  PROVE  Min(T) \in T /\ \A y \in T : Min(T) <= y
<1>1. \E x \in T : \A y \in T : x <= y
  BY LeastNatural
<1>. QED BY <1>1 DEF Min

\* A set with the same least element.
LEMMA SameLeast ==
  ASSUME NEW T, T \subseteq Nat, NEW x \in T, \A y \in T : x <= y
  PROVE  Min(T) = x
<1>1. Min(T) \in T /\ \A y \in T : Min(T) <= y
  BY LeastOf
<1>2. Min(T) <= x /\ x <= Min(T) /\ Min(T) \in Nat /\ x \in Nat
  BY <1>1
<1>. QED BY <1>2

-----------------------------------------------------------------------------
(* Sequences that keep some of their elements *)

Keeping(S, T) == [x \in T |-> IF x \in S THEN <<x>> ELSE <<>>]

LEMMA OnlyIsEach ==
  ASSUME NEW S, NEW T, NEW s \in Seq(T)
  PROVE  Maps(Keeping(S, T), T, T) /\ Only(s, S) = Each(Keeping(S, T), s)
<1>1. Maps(Keeping(S, T), T, T)
  BY DEF Maps, Keeping
<1>2. [k \in DOMAIN s |-> IF s[k] \in S THEN <<s[k]>> ELSE <<>>] = Images(Keeping(S, T), s)
  BY DEF Images, Keeping
<1>. QED BY <1>1, <1>2 DEF Only, Each

LEMMA OnlyTyped ==
  ASSUME NEW S, NEW T, NEW s \in Seq(T)
  PROVE  Only(s, S) \in Seq(T) /\ ToSet(Only(s, S)) = ToSet(s) \cap S
<1>. DEFINE F == Keeping(S, T)
<1>1. Maps(F, T, T) /\ Only(s, S) = Each(F, s)
  BY OnlyIsEach
<1>2. Each(F, s) \in Seq(T) /\ ToSet(Each(F, s)) = UNION {ToSet(F[x]) : x \in ToSet(s)}
  BY <1>1, EachTyped, SetOfEach
<1>3. \A x \in T : ToSet(F[x]) = {x} \cap S
  BY SetOfOne, SetOfNone DEF Keeping
<1>4. ToSet(s) \subseteq T
  BY SetOf
<1>. HIDE DEF F
<1>5. UNION {ToSet(F[x]) : x \in ToSet(s)} = ToSet(s) \cap S
  BY <1>3, <1>4
<1>. QED BY <1>1, <1>2, <1>5

LEMMA OnlyConcat ==
  ASSUME NEW S, NEW T, NEW a \in Seq(T), NEW b \in Seq(T)
  PROVE  Only(a \o b, S) = Only(a, S) \o Only(b, S)
<1>. DEFINE F == Keeping(S, T)
<1>1. a \o b \in Seq(T)
  BY ConcatProperties
<1>2. Maps(F, T, T) /\ Only(a, S) = Each(F, a) /\ Only(b, S) = Each(F, b) /\ Only(a \o b, S) = Each(F, a \o b)
  BY <1>1, OnlyIsEach
<1>. HIDE DEF F
<1>3. Each(F, a \o b) = Each(F, a) \o Each(F, b)
  BY <1>2, EachConcat
<1>. QED BY <1>2, <1>3

LEMMA OnlyOne ==
  ASSUME NEW S, NEW x
  PROVE  Only(<<x>>, S) = IF x \in S THEN <<x>> ELSE <<>>
<1>. DEFINE T == {x}
            F == Keeping(S, T)
            one == <<x>>
<1>1. one \in Seq(T) /\ x \in T
  OBVIOUS
<1>. HIDE DEF T
<1>2. F[x] = IF x \in S THEN one ELSE <<>>
  BY <1>1 DEF Keeping
<1>3. Maps(F, T, T) /\ Only(one, S) = Each(F, one)
  <2>. HIDE DEF one, F
  <2>. QED BY <1>1, OnlyIsEach DEF F
<1>. HIDE DEF F
<1>4. Each(F, one) = F[x]
  BY <1>1, <1>3, EachOne
<1>. QED BY <1>2, <1>3, <1>4

\* g says where the elements that are kept are from.
Picks(g, s, S) ==
  LET t == Only(s, S) IN
  /\ g \in [1 .. Len(t) -> 1 .. Len(s)]
  /\ \A k \in 1 .. Len(t) : t[k] = s[g[k]] /\ s[g[k]] \in S
  /\ \A k, l \in 1 .. Len(t) : k < l => g[k] < g[l]
  /\ \A i \in 1 .. Len(s) : s[i] \in S => \E k \in 1 .. Len(t) : g[k] = i

LEMMA OnlyPicks ==
  ASSUME NEW S, NEW T, NEW s \in Seq(T)
  PROVE  \E g : Picks(g, s, S)
<1>. DEFINE D == {c \in Seq(T) : \E g : Picks(g, c, S)}
<1>1. <<>> \in D
  <2>1. Only(<<>>, S) = <<>>
    BY FlattenEmpty DEF Only
  <2>2. <<>> \in Seq(T) /\ Len(<<>>) = 0
    OBVIOUS
  <2>3. Picks([k \in 1 .. 0 |-> 1], <<>>, S)
    <3>1. \A k \in 1 .. 0 : FALSE
      OBVIOUS
    <3>. QED BY <2>1, <2>2, <3>1 DEF Picks
  <2>. QED BY <2>2, <2>3
<1>2. ASSUME NEW c \in Seq(T), NEW x \in T, c \in D PROVE c \o <<x>> \in D
  <2>. DEFINE n == Len(c)
              d == c \o <<x>>
              t == Only(c, S)
              m == Len(t)
              u == Only(d, S)
  <2>1. d \in Seq(T) /\ Len(d) = n + 1 /\ n \in Nat /\ d[n + 1] = x /\ \A i \in 1 .. n : d[i] = c[i]
    BY OneMore
  <2>2. t \in Seq(T) /\ m \in Nat
    BY OnlyTyped
  <2>3. u = t \o Only(<<x>>, S)
    <3>1. <<x>> \in Seq(T)
      OBVIOUS
    <3>. QED BY <3>1, OnlyConcat
  <2>4. PICK g : Picks(g, c, S)
    BY <1>2
  <2>5. /\ g \in [1 .. m -> 1 .. n]
        /\ \A k \in 1 .. m : t[k] = c[g[k]] /\ c[g[k]] \in S
        /\ \A k, l \in 1 .. m : k < l => g[k] < g[l]
        /\ \A i \in 1 .. n : c[i] \in S => \E k \in 1 .. m : g[k] = i
    BY <2>4 DEF Picks
  <2>. HIDE DEF n, d, t, m
  <2>6. CASE x \in S
    <3>1. u = t \o <<x>>
      BY <2>3, <2>6, OnlyOne
    <3>. HIDE DEF u
    <3>2. u \in Seq(T) /\ Len(u) = m + 1 /\ u[m + 1] = x /\ \A i \in 1 .. m : u[i] = t[i]
      BY <2>2, <3>1, OneMore DEF m
    <3>. DEFINE h == [k \in 1 .. m + 1 |-> IF k = m + 1 THEN n + 1 ELSE g[k]]
    <3>3. h[m + 1] = n + 1 /\ \A k \in 1 .. m : h[k] = g[k] /\ g[k] \in 1 .. n /\ k \in 1 .. m + 1
      BY <2>2, <2>5
    <3>4. \A k \in 1 .. m + 1 : k \in 1 .. m \/ k = m + 1
      BY <2>2
    <3>5. h \in [1 .. m + 1 -> 1 .. n + 1]
      <4>1. n + 1 \in 1 .. n + 1 /\ \A y \in 1 .. n : y \in 1 .. n + 1
        BY <2>1
      <4>2. ASSUME NEW k \in 1 .. m + 1 PROVE (IF k = m + 1 THEN n + 1 ELSE g[k]) \in 1 .. n + 1
        BY <3>3, <3>4, <4>1
      <4>. QED BY <4>2
    <3>. HIDE DEF h
    <3>6. \A k \in 1 .. m + 1 : u[k] = d[h[k]] /\ d[h[k]] \in S
      <4>1. \A k \in 1 .. m : u[k] = d[h[k]] /\ d[h[k]] \in S
        BY <2>1, <2>5, <3>2, <3>3
      <4>. QED BY <2>1, <2>6, <3>2, <3>3, <3>4, <4>1
    <3>7. ASSUME NEW k \in 1 .. m + 1, NEW l \in 1 .. m + 1, k < l PROVE h[k] < h[l]
      <4>1. k \in 1 .. m
        BY <2>2, <3>7
      <4>2. CASE l \in 1 .. m
        BY <2>5, <3>3, <3>7, <4>1, <4>2
      <4>3. CASE l = m + 1
        <5>1. h[l] = n + 1 /\ h[k] \in 1 .. n
          BY <3>3, <4>1, <4>3
        <5>. QED BY <2>1, <5>1
      <4>. QED BY <3>4, <4>2, <4>3
    <3>8. ASSUME NEW i \in 1 .. n + 1, d[i] \in S PROVE \E k \in 1 .. m + 1 : h[k] = i
      <4>1. CASE i \in 1 .. n
        <5>1. PICK k \in 1 .. m : g[k] = i
          BY <2>1, <2>5, <3>8, <4>1
        <5>. QED BY <3>3, <5>1
      <4>2. CASE i = n + 1
        <5>1. m + 1 \in 1 .. m + 1
          BY <2>2
        <5>. QED BY <3>3, <4>2, <5>1
      <4>3. i \in 1 .. n \/ i = n + 1
        BY <2>1
      <4>. QED BY <4>1, <4>2, <4>3
    <3>9. Picks(h, d, S)
      BY <2>1, <3>2, <3>5, <3>6, <3>7, <3>8 DEF Picks, u
    <3>. QED BY <2>1, <3>9 DEF d
  <2>7. CASE x \notin S
    <3>1. u = t
      <4>1. t \o <<>> = t
        BY <2>2, ConcatEmptySeq
      <4>. QED BY <2>3, <2>7, <4>1, OnlyOne
    <3>. HIDE DEF u
    <3>2. g \in [1 .. m -> 1 .. n + 1] /\ \A k \in 1 .. m : g[k] \in 1 .. n
      <4>1. \A y \in 1 .. n : y \in 1 .. n + 1
        BY <2>1
      <4>2. 1 .. n \subseteq 1 .. n + 1
        BY <4>1
      <4>. QED BY <2>5, <4>2
    <3>3. \A k \in 1 .. m : u[k] = d[g[k]] /\ d[g[k]] \in S
      BY <2>1, <2>5, <3>1, <3>2
    <3>4. \A i \in 1 .. n + 1 : d[i] \in S => \E k \in 1 .. m : g[k] = i
      <4>1. \A i \in 1 .. n + 1 : i \in 1 .. n \/ i = n + 1
        BY <2>1
      <4>. QED BY <2>1, <2>5, <2>7, <4>1
    <3>5. Picks(g, d, S)
      BY <2>1, <2>5, <3>1, <3>2, <3>3, <3>4 DEF Picks, u, m
    <3>. QED BY <2>1, <3>5 DEF d
  <2>. QED BY <2>6, <2>7
<1>. HIDE DEF D
<1>3. s \in D
  BY <1>1, <1>2, OneByOne
<1>. QED BY <1>3 DEF D

-----------------------------------------------------------------------------
(* Types of rows *)

Showing == [h \in Hints |-> MemberShows(h)]
Chipping == [h \in Hints |-> InlineWarnings(h.chips)]

LEMMA ShowingTyped == Maps(Showing, Hints, Int) /\ Maps(Chipping, Hints, Chips)
<1>1. \A h \in Hints : MemberShows(h) \in Seq(Int)
  BY DEF Hints, MemberShows, CallShows
<1>2. ASSUME NEW h \in Hints PROVE InlineWarnings(h.chips) \in Seq(Chips)
  <2>1. h.chips \in Seq(Chips)
    BY DEF Hints
  <2>. QED BY <2>1, OnlyTyped DEF InlineWarnings
<1>. QED BY <1>1, <1>2 DEF Maps, Showing, Chipping

LEMMA RowTyped ==
  ASSUME NEW kind \in RowKind, NEW shown \in Seq(Int), NEW chips \in Seq(Chips), NEW status \in Statuses
  PROVE  /\ Row(kind, shown, chips, TRUE, status) \in Rows
         /\ Row(kind, shown, chips, FALSE, status) \in Rows
BY DEF Row, Rows

LEMMA OneTyped ==
  ASSUME NEW r \in Rows
  PROVE  <<r>> \in Seq(Rows)
OBVIOUS

Stops(hints, i) == {j \in i + 1 .. Len(hints) + 1 : j = Len(hints) + 1 \/ ~Belongs(hints, i, j)}

\* Where the walk from a group head stops, and what it has passed.
LEMMA WalkStops ==
  ASSUME NEW hints \in Seq(Hints), NEW i \in 1 .. Len(hints)
  PROVE  /\ Min(Stops(hints, i)) \in i + 1 .. Len(hints) + 1
         /\ Min(Stops(hints, i)) \in Stops(hints, i)
         /\ \A y \in Stops(hints, i) : Min(Stops(hints, i)) <= y
         /\ MembersOf(hints, i) \in Seq(Hints)
         /\ Len(MembersOf(hints, i)) = Min(Stops(hints, i)) - (i + 1)
         /\ \A k \in 1 .. Min(Stops(hints, i)) - (i + 1) : MembersOf(hints, i)[k] = hints[i + k]
<1>. DEFINE T == Stops(hints, i)
            x == Min(T)
<1>1. Len(hints) \in Nat /\ i \in Nat /\ i <= Len(hints) /\ 1 <= i
  OBVIOUS
<1>2. T \subseteq i + 1 .. Len(hints) + 1 /\ Len(hints) + 1 \in T
  BY <1>1 DEF Stops
<1>3. T \subseteq Nat /\ T # {}
  BY <1>1, <1>2
<1>. HIDE DEF T
<1>4. x \in T /\ \A y \in T : x <= y
  BY <1>3, LeastOf
<1>. HIDE DEF x
<1>5. x \in i + 1 .. Len(hints) + 1
  BY <1>2, <1>4
<1>6. MembersOf(hints, i) = SubSeq(hints, i + 1, x - 1)
  BY DEF MembersOf, Stops, T, x
<1>7. i + 1 \in Int /\ x - 1 \in Int /\ \A k \in i + 1 .. x - 1 : k \in 1 .. Len(hints)
  BY <1>1, <1>5
<1>8. \A k \in i + 1 .. x - 1 : hints[k] \in Hints
  BY <1>7
<1>. DEFINE a == i + 1
            b == x - 1
<1>9. /\ SubSeq(hints, a, b) \in Seq(Hints)
      /\ Len(SubSeq(hints, a, b)) = IF a <= b THEN b - a + 1 ELSE 0
      /\ \A k \in 1 .. b - a + 1 : SubSeq(hints, a, b)[k] = hints[a + k - 1]
  <2>1. a \in Int /\ b \in Int /\ \A k \in a .. b : hints[k] \in Hints
    BY <1>7, <1>8
  <2>. HIDE DEF a, b
  <2>. QED BY <2>1, SubSeqProperties
<1>10. (IF a <= b THEN b - a + 1 ELSE 0) = x - (i + 1) /\ b - a + 1 = x - (i + 1)
  BY <1>1, <1>5
<1>11. ASSUME NEW k \in 1 .. x - (i + 1) PROVE MembersOf(hints, i)[k] = hints[i + k]
  <2>1. a + k - 1 = i + k /\ k \in 1 .. b - a + 1
    BY <1>1, <1>5
  <2>. HIDE DEF a, b
  <2>. QED BY <1>6, <1>9, <2>1 DEF a, b
<1>12. Len(MembersOf(hints, i)) = x - (i + 1) /\ MembersOf(hints, i) \in Seq(Hints)
  <2>. HIDE DEF a, b
  <2>. QED BY <1>6, <1>9, <1>10 DEF a, b
<1>. QED BY <1>4, <1>5, <1>11, <1>12 DEF x, T

LEMMA GroupHeadRowIs ==
  ASSUME NEW hints \in Seq(Hints), NEW i \in 1 .. Len(hints)
  PROVE  /\ GroupHeadRow(hints, i) =
              Row("group", Each(Showing, MembersOf(hints, i)), Each(Chipping, MembersOf(hints, i)),
                  TRUE, hints[i].status)
         /\ GroupHeadRow(hints, i) \in Rows
<1>. DEFINE ms == MembersOf(hints, i)
<1>1. ms \in Seq(Hints) /\ hints[i] \in Hints
  BY WalkStops
<1>. HIDE DEF ms
<1>2. \A k \in DOMAIN ms : ms[k] \in Hints
  BY <1>1
<1>3. [k \in DOMAIN ms |-> MemberShows(ms[k])] = Images(Showing, ms)
  BY <1>2 DEF Showing, Images
<1>4. [k \in DOMAIN ms |-> InlineWarnings(ms[k].chips)] = Images(Chipping, ms)
  BY <1>2 DEF Chipping, Images
<1>5. GroupHeadRow(hints, i) = Row("group", Each(Showing, ms), Each(Chipping, ms), TRUE, hints[i].status)
  BY <1>3, <1>4 DEF GroupHeadRow, Each, ms
<1>6. Each(Showing, ms) \in Seq(Int) /\ Each(Chipping, ms) \in Seq(Chips)
  BY <1>1, ShowingTyped, EachTyped
<1>7. hints[i].status \in Statuses
  BY <1>1 DEF Hints
<1>8. GroupHeadRow(hints, i) \in Rows
  BY <1>5, <1>6, <1>7, RowTyped DEF RowKind
<1>. QED BY <1>5, <1>8 DEF ms

LEMMA HintRowTyped ==
  ASSUME NEW h \in Hints, h.kind \in PlainKind
  PROVE  HintRow(h) \in Seq(Rows)
<1>1. h.at \in Int /\ h.pair \in Int /\ h.chips \in Seq(Chips)
  BY DEF Hints
<1>2. InlineWarnings(h.chips) \in Seq(Chips)
  BY <1>1, OnlyTyped DEF InlineWarnings
<1>3. CallShows(h) \in Seq(Int) /\ <<h.at>> \in Seq(Int) /\ <<>> \in Seq(Chips)
  BY <1>1 DEF CallShows
<1>4. None \in Statuses
  BY DEF Statuses
<1>5. CASE h.kind = "boundary"
  <2>1. HintRow(h) = <<Row("boundary", <<h.at>>, <<>>, FALSE, None)>>
    BY <1>5 DEF HintRow
  <2>. QED BY <1>3, <1>4, <2>1, RowTyped, OneTyped DEF RowKind
<1>6. CASE h.kind = "lifecycle"
  <2>1. HintRow(h) = <<Row("lifecycle", CallShows(h), InlineWarnings(h.chips), FALSE, None)>>
    BY <1>6 DEF HintRow
  <2>. QED BY <1>2, <1>3, <1>4, <2>1, RowTyped, OneTyped DEF RowKind
<1>7. CASE h.kind = "standalone"
  <2>1. HintRow(h) = <<Row("standalone", <<h.at>>, InlineWarnings(h.chips), FALSE, None)>>
    BY <1>7 DEF HintRow
  <2>. QED BY <1>2, <1>3, <1>4, <2>1, RowTyped, OneTyped DEF RowKind
<1>8. CASE h.kind = "metadata"
  <2>1. HintRow(h) = <<Row("metadata", <<h.at>>, <<>>, FALSE, None)>>
    BY <1>8 DEF HintRow
  <2>. QED BY <1>3, <1>4, <2>1, RowTyped, OneTyped DEF RowKind
<1>9. CASE h.kind = "warning-only"
  <2>1. HintRow(h) = <<>>
    BY <1>9 DEF HintRow
  <2>. QED BY <2>1
<1>. QED BY <1>5, <1>6, <1>7, <1>8, <1>9 DEF PlainKind

LEMMA RowsAtTyped ==
  ASSUME NEW hints \in Seq(Hints), NEW i \in 1 .. Len(hints)
  PROVE  RowsAt(hints, i) \in Seq(Rows)
<1>1. hints[i] \in Hints
  OBVIOUS
<1>2. CASE IsMember(hints[i]) \/ hints[i].kind = "metadata-cluster-member"
  <2>1. RowsAt(hints, i) = <<>>
    BY <1>2 DEF RowsAt, IsMember
  <2>. QED BY <2>1
<1>3. CASE hints[i].kind = "metadata-cluster-head"
  <2>1. hints[i].indices \in Seq(Int) /\ <<>> \in Seq(Chips) /\ None \in Statuses
    BY <1>1 DEF Hints, Statuses
  <2>2. RowsAt(hints, i) = <<Row("cluster", hints[i].indices, <<>>, TRUE, None)>>
    BY <1>3 DEF RowsAt, IsMember
  <2>. QED BY <2>1, <2>2, RowTyped, OneTyped DEF RowKind
<1>4. CASE hints[i].kind = "group-head"
  <2>1. RowsAt(hints, i) = <<GroupHeadRow(hints, i)>>
    BY <1>4 DEF RowsAt, IsMember
  <2>2. GroupHeadRow(hints, i) \in Rows
    BY GroupHeadRowIs
  <2>. QED BY <2>1, <2>2
<1>5. CASE hints[i].kind \in PlainKind
  <2>1. RowsAt(hints, i) = HintRow(hints[i])
    BY <1>5 DEF RowsAt, IsMember, PlainKind
  <2>. QED BY <1>1, <1>5, <2>1, HintRowTyped
<1>6. hints[i].kind \in HintKind
  BY <1>1 DEF Hints
<1>. QED BY <1>2, <1>3, <1>4, <1>5, <1>6 DEF HintKind, MemberKind, ClusterKind, IsMember

RowsOf(hints) == [i \in DOMAIN hints |-> RowsAt(hints, i)]

LEMMA TopLevelTyped ==
  ASSUME NEW hints \in Seq(Hints)
  PROVE  /\ RowsOf(hints) \in Seq(Seq(Rows)) /\ Len(RowsOf(hints)) = Len(hints)
         /\ \A i \in 1 .. Len(hints) : RowsOf(hints)[i] = RowsAt(hints, i)
         /\ TopLevelRows(hints) = FlattenSeq(RowsOf(hints))
         /\ TopLevelRows(hints) \in Seq(Rows)
<1>1. DOMAIN hints = 1 .. Len(hints) /\ Len(hints) \in Nat
  OBVIOUS
<1>2. \A i \in 1 .. Len(hints) : RowsAt(hints, i) \in Seq(Rows)
  BY RowsAtTyped
<1>3. RowsOf(hints) \in [1 .. Len(hints) -> Seq(Rows)]
  BY <1>1, <1>2 DEF RowsOf
<1>4. RowsOf(hints) \in Seq(Seq(Rows)) /\ Len(RowsOf(hints)) = Len(hints)
  BY <1>1, <1>3
<1>5. TopLevelRows(hints) = FlattenSeq(RowsOf(hints))
  BY DEF TopLevelRows, RowsOf
<1>6. FlattenSeq(RowsOf(hints)) \in Seq(Rows)
  BY <1>4, FlattenTyped
<1>. QED BY <1>1, <1>4, <1>5, <1>6 DEF RowsOf

-----------------------------------------------------------------------------
(* Rows depend on nothing but the hints of their group *)

\* A set of numbers counts the same when it is moved.
IsMoved(A, B, a, b, p) ==
  /\ a \in Int /\ b \in Int /\ p \in Nat /\ A \subseteq a .. b
  /\ \A k \in A : p + k \in B
  /\ \A y \in B : y \in Int /\ y - p \in A

LEMMA Moved ==
  ASSUME NEW a, NEW b, NEW p, NEW A, NEW B, IsMoved(A, B, a, b, p)
  PROVE  Cardinality(A) = Cardinality(B)
<1>. USE DEF IsMoved
<1>1. IsFiniteSet(A)
  <2>1. IsFiniteSet(a .. b)
    BY FS_Interval
  <2>. QED BY <2>1, FS_Subset
<1>. DEFINE f == [k \in A |-> p + k]
<1>2. \A k, l \in A : p + k = p + l => k = l
  <2>1. \A k \in A : k \in Int
    OBVIOUS
  <2>. QED BY <2>1
<1>3. f \in [A -> B]
  OBVIOUS
<1>4. \A k, l \in A : f[k] = f[l] => k = l
  BY <1>2
<1>5. \A y \in B : \E k \in A : f[k] = y
  <2>1. \A y \in B : y - p \in A /\ p + (y - p) = y
    OBVIOUS
  <2>. QED BY <2>1
<1>. HIDE DEF f
<1>6. f \in Bijection(A, B)
  BY <1>3, <1>4, <1>5 DEF Bijection, Injection, Surjection, IsInjective
<1>7. ExistsBijection(A, B)
  BY <1>6 DEF ExistsBijection
<1>. QED BY <1>1, <1>7, FS_Bijection

\* d is the piece of c behind the first p, and no member follows it.
LiesIn(d, c, p) ==
  /\ c \in Seq(Hints) /\ d \in Seq(Hints) /\ p \in Nat /\ p + Len(d) <= Len(c)
  /\ \A k \in 1 .. Len(d) : c[p + k] = d[k]
  /\ p + Len(d) < Len(c) => ~IsMember(c[p + Len(d) + 1])

LEMMA SameBelongs ==
  ASSUME NEW c, NEW d, NEW p, LiesIn(d, c, p), NEW i \in 1 .. Len(d), NEW j \in 1 .. Len(d)
  PROVE  Belongs(c, p + i, p + j) <=> Belongs(d, i, j)
<1>. DEFINE n == Len(d)
            A == {k \in i + 1 .. j : d[k].kind = "group-member"}
            B == {k \in (p + i) + 1 .. p + j : c[k].kind = "group-member"}
<1>1. p \in Nat /\ n \in Nat /\ i \in 1 .. n /\ j \in 1 .. n /\ \A k \in 1 .. n : c[p + k] = d[k]
  BY DEF LiesIn
<1>. HIDE DEF n
<1>2. ASSUME NEW k \in A PROVE p + k \in B
  <2>1. k \in i + 1 .. j /\ k \in 1 .. n /\ d[k].kind = "group-member"
    BY <1>1
  <2>2. p + k \in (p + i) + 1 .. p + j
    BY <1>1, <2>1
  <2>. QED BY <1>1, <2>1, <2>2
<1>3. ASSUME NEW y \in B PROVE y \in Int /\ y - p \in A
  <2>1. y \in (p + i) + 1 .. p + j /\ c[y].kind = "group-member"
    OBVIOUS
  <2>2. y - p \in i + 1 .. j /\ y - p \in 1 .. n /\ p + (y - p) = y
    BY <1>1, <2>1
  <2>. QED BY <1>1, <2>1, <2>2
<1>4. Cardinality(A) = Cardinality(B)
  <2>1. A \subseteq i + 1 .. j /\ i + 1 \in Int /\ j \in Int
    BY <1>1
  <2>. HIDE DEF A, B
  <2>2. IsMoved(A, B, i + 1, j, p)
    BY <1>1, <1>2, <1>3, <2>1 DEF IsMoved
  <2>. QED BY <2>2, Moved
<1>5. CallsUpTo(c, p + i, p + j) = CallsUpTo(d, i, j)
  BY <1>4 DEF CallsUpTo
<1>. QED BY <1>1, <1>5 DEF Belongs

LEMMA SameMembers ==
  ASSUME NEW c, NEW d, NEW p, LiesIn(d, c, p), NEW i \in 1 .. Len(d)
  PROVE  MembersOf(c, p + i) = MembersOf(d, i)
<1>. DEFINE n == Len(d)
            m == Len(c)
            x == Min(Stops(d, i))
            y == Min(Stops(c, p + i))
<1>1. /\ c \in Seq(Hints) /\ d \in Seq(Hints) /\ p \in Nat /\ n \in Nat /\ m \in Nat /\ p + n <= m
      /\ \A k \in 1 .. n : c[p + k] = d[k]
      /\ p + n < m => ~IsMember(c[p + n + 1])
      /\ i \in 1 .. n /\ p + i \in 1 .. m
  BY DEF LiesIn
<1>2. /\ x \in i + 1 .. n + 1 /\ x \in Stops(d, i) /\ \A z \in Stops(d, i) : x <= z
      /\ MembersOf(d, i) \in Seq(Hints) /\ Len(MembersOf(d, i)) = x - (i + 1)
      /\ \A k \in 1 .. x - (i + 1) : MembersOf(d, i)[k] = d[i + k]
  BY <1>1, WalkStops
<1>3. /\ MembersOf(c, p + i) \in Seq(Hints) /\ Len(MembersOf(c, p + i)) = y - ((p + i) + 1)
      /\ \A k \in 1 .. y - ((p + i) + 1) : MembersOf(c, p + i)[k] = c[(p + i) + k]
  <2>. DEFINE j == p + i
  <2>1. c \in Seq(Hints) /\ j \in 1 .. Len(c)
    BY <1>1
  <2>. HIDE DEF j
  <2>2. /\ MembersOf(c, j) \in Seq(Hints) /\ Len(MembersOf(c, j)) = Min(Stops(c, j)) - (j + 1)
        /\ \A k \in 1 .. Min(Stops(c, j)) - (j + 1) : MembersOf(c, j)[k] = c[j + k]
    BY <2>1, WalkStops
  <2>. QED BY <2>2 DEF j
<1>. HIDE DEF n, m, x
<1>4. p + x \in Stops(c, p + i)
  <2>1. p + x \in (p + i) + 1 .. m + 1
    <3>1. p \in Int /\ i \in Int /\ x \in Int /\ n \in Int /\ m \in Int /\ i + 1 <= x /\ x <= n + 1 /\ p + n <= m
      BY <1>1, <1>2
    <3>. QED BY <3>1
  <2>2. CASE x = n + 1
    <3>1. p + x = m + 1 \/ (p + n < m /\ p + x = p + n + 1)
      BY <1>1, <2>2
    <3>2. p + x = m + 1 \/ ~IsMember(c[p + x])
      BY <1>1, <3>1
    <3>. QED BY <2>1, <3>2 DEF Stops, Belongs, m
  <2>3. CASE x # n + 1
    <3>1. x \in 1 .. n
      BY <1>1, <1>2, <2>3
    <3>2. ~Belongs(d, i, x)
      BY <1>2, <2>3 DEF Stops, n
    <3>3. ~Belongs(c, p + i, p + x)
      BY <1>1, <3>1, <3>2, SameBelongs DEF n
    <3>. QED BY <2>1, <3>3 DEF Stops, m
  <2>. QED BY <2>2, <2>3
<1>5. ASSUME NEW z \in Stops(c, p + i) PROVE p + x <= z
  <2>1. z \in (p + i) + 1 .. m + 1 /\ (z = m + 1 \/ ~Belongs(c, p + i, z))
    BY DEF Stops, m
  <2>2. CASE z > p + n
    BY <1>1, <1>2, <2>1, <2>2
  <2>3. CASE ~(z > p + n)
    <3>1. z - p \in i + 1 .. n + 1 /\ z - p \in 1 .. n /\ p + (z - p) = z /\ z # m + 1
      <4>1. /\ p \in Nat /\ i \in Nat /\ n \in Int /\ m \in Int /\ p + n <= m
            /\ z \in Int /\ (p + i) + 1 <= z /\ z <= p + n
        BY <1>1, <2>1, <2>3
      <4>. QED BY <4>1
    <3>2. ~Belongs(d, i, z - p)
      <4>1. ~Belongs(c, p + i, p + (z - p)) /\ z - p \in 1 .. Len(d) /\ i \in 1 .. Len(d)
        BY <2>1, <3>1 DEF n
      <4>. QED BY <4>1, SameBelongs
    <3>3. z - p \in Stops(d, i)
      BY <3>1, <3>2 DEF Stops, n
    <3>4. x <= z - p
      BY <1>2, <3>3
    <3>. QED BY <1>1, <1>2, <2>1, <3>4
  <2>. QED BY <2>2, <2>3
<1>6. y = p + x
  <2>. DEFINE T == Stops(c, p + i)
              w == p + x
  <2>1. T \subseteq Nat
    BY <1>1 DEF Stops, m
  <2>2. w \in T /\ \A z \in T : w <= z
    BY <1>4, <1>5
  <2>. HIDE DEF T, w
  <2>3. Min(T) = w
    BY <2>1, <2>2, SameLeast
  <2>. QED BY <2>3 DEF T, w
<1>. HIDE DEF y
<1>7. y - ((p + i) + 1) = x - (i + 1)
  BY <1>1, <1>2, <1>6
<1>8. ASSUME NEW k \in 1 .. x - (i + 1) PROVE c[(p + i) + k] = d[i + k]
  <2>1. i + k \in 1 .. n /\ (p + i) + k = p + (i + k)
    BY <1>1, <1>2
  <2>. QED BY <1>1, <2>1
<1>. DEFINE r == MembersOf(c, p + i)
            s == MembersOf(d, i)
<1>9. Len(r) = Len(s) /\ \A k \in 1 .. Len(r) : r[k] = s[k]
  BY <1>2, <1>3, <1>7, <1>8
<1>10. r \in Seq(Hints) /\ s \in Seq(Hints)
  BY <1>2, <1>3
<1>. HIDE DEF r, s
<1>11. r = s
  BY <1>9, <1>10, SeqEqual
<1>. QED BY <1>11 DEF r, s

LEMMA SameRows ==
  ASSUME NEW c, NEW d, NEW p, LiesIn(d, c, p), NEW i \in 1 .. Len(d)
  PROVE  RowsAt(c, p + i) = RowsAt(d, i)
<1>1. c[p + i] = d[i]
  BY DEF LiesIn
<1>2. MembersOf(c, p + i) = MembersOf(d, i)
  BY SameMembers
<1>3. GroupHeadRow(c, p + i) = GroupHeadRow(d, i)
  BY <1>1, <1>2 DEF GroupHeadRow
<1>. QED BY <1>1, <1>3 DEF RowsAt

\* Hints that do not begin in the middle of a group.
Starts(s) == s = <<>> \/ ~IsMember(s[1])

LEMMA RowsOfPieces ==
  ASSUME NEW a \in Seq(Hints), NEW b \in Seq(Hints), Starts(b)
  PROVE  TopLevelRows(a \o b) = TopLevelRows(a) \o TopLevelRows(b)
<1>. DEFINE m == Len(a)
            n == Len(b)
            c == a \o b
<1>1. /\ c \in Seq(Hints) /\ Len(c) = m + n /\ m \in Nat /\ n \in Nat
      /\ \A k \in 1 .. m + n : c[k] = IF k <= m THEN a[k] ELSE b[k - m]
  BY ConcatProperties
<1>. HIDE DEF c
<1>2. LiesIn(a, c, 0)
  <2>1. m + 0 = m /\ 0 + m <= m + n /\ 0 \in Nat
    BY <1>1
  <2>2. \A k \in 1 .. m : c[0 + k] = a[k]
    <3>1. \A k \in 1 .. m : 0 + k = k /\ k \in 1 .. m + n /\ k <= m
      BY <1>1
    <3>. QED BY <1>1, <3>1
  <2>3. ASSUME 0 + m < m + n PROVE ~IsMember(c[0 + m + 1])
    <3>1. 0 + m + 1 = m + 1 /\ m + 1 \in 1 .. m + n /\ ~(m + 1 <= m) /\ (m + 1) - m = 1 /\ n # 0
      BY <1>1, <2>3
    <3>2. c[m + 1] = b[1] /\ b # <<>>
      BY <1>1, <3>1
    <3>. QED BY <3>1, <3>2 DEF Starts
  <2>. QED BY <1>1, <2>1, <2>2, <2>3 DEF LiesIn
<1>3. LiesIn(b, c, m)
  <2>1. \A k \in 1 .. n : c[m + k] = b[k]
    <3>1. \A k \in 1 .. n : m + k \in 1 .. m + n /\ ~(m + k <= m) /\ (m + k) - m = k
      BY <1>1
    <3>. QED BY <1>1, <3>1
  <2>2. ~(m + n < Len(c)) /\ m + n <= Len(c)
    BY <1>1
  <2>. QED BY <1>1, <2>1, <2>2 DEF LiesIn
<1>. DEFINE p == RowsOf(a)
            q == RowsOf(b)
            r == RowsOf(c)
            t == p \o q
<1>4. /\ p \in Seq(Seq(Rows)) /\ Len(p) = m /\ \A k \in 1 .. m : p[k] = RowsAt(a, k)
      /\ q \in Seq(Seq(Rows)) /\ Len(q) = n /\ \A k \in 1 .. n : q[k] = RowsAt(b, k)
      /\ TopLevelRows(a) = FlattenSeq(p) /\ TopLevelRows(b) = FlattenSeq(q)
  BY TopLevelTyped
<1>5. r \in Seq(Seq(Rows)) /\ Len(r) = m + n /\ (\A k \in 1 .. m + n : r[k] = RowsAt(c, k))
        /\ TopLevelRows(c) = FlattenSeq(r)
  <2>1. c \in Seq(Hints)
    BY <1>1
  <2>2. r \in Seq(Seq(Rows)) /\ Len(r) = Len(c) /\ (\A k \in 1 .. Len(c) : r[k] = RowsAt(c, k))
          /\ TopLevelRows(c) = FlattenSeq(r)
    BY <2>1, TopLevelTyped
  <2>. HIDE DEF r
  <2>. QED BY <1>1, <2>2
<1>. HIDE DEF p, q, r
<1>6. /\ t \in Seq(Seq(Rows)) /\ Len(t) = m + n
      /\ \A k \in 1 .. m + n : t[k] = IF k <= m THEN p[k] ELSE q[k - m]
  <2>. DEFINE U == Seq(Rows)
  <2>1. p \in Seq(U) /\ q \in Seq(U) /\ Len(p) = m /\ Len(q) = n
    BY <1>4
  <2>. HIDE DEF U, m, n
  <2>2. /\ p \o q \in Seq(U) /\ Len(p \o q) = Len(p) + Len(q)
        /\ \A k \in 1 .. Len(p) + Len(q) : (p \o q)[k] = IF k <= Len(p) THEN p[k] ELSE q[k - Len(p)]
    BY <2>1, ConcatProperties
  <2>3. p \o q \in Seq(U) /\ Len(p \o q) = m + n
    BY <2>1, <2>2
  <2>4. \A k \in 1 .. m + n : (p \o q)[k] = IF k <= m THEN p[k] ELSE q[k - m]
    BY <2>1, <2>2
  <2>. QED BY <2>3, <2>4 DEF U, t
<1>. HIDE DEF t
<1>7. ASSUME NEW k \in 1 .. m + n PROVE r[k] = t[k]
  <2>1. CASE k <= m
    <3>1. k \in 1 .. m /\ 0 + k = k
      BY <1>1, <2>1
    <3>2. RowsAt(c, 0 + k) = RowsAt(a, k)
      BY <1>2, <3>1, SameRows
    <3>3. t[k] = p[k] /\ r[k] = RowsAt(c, k)
      BY <1>5, <1>6, <2>1
    <3>. QED BY <1>4, <3>1, <3>2, <3>3
  <2>2. CASE ~(k <= m)
    <3>1. k - m \in 1 .. n /\ m + (k - m) = k
      BY <1>1, <2>2
    <3>2. RowsAt(c, m + (k - m)) = RowsAt(b, k - m)
      BY <1>3, <3>1, SameRows
    <3>3. t[k] = q[k - m] /\ r[k] = RowsAt(c, k)
      BY <1>5, <1>6, <2>2
    <3>. QED BY <1>4, <3>1, <3>2, <3>3
  <2>. QED BY <2>1, <2>2
<1>8. r = t
  BY <1>5, <1>6, <1>7, SeqEqual
<1>9. FlattenSeq(p \o q) = FlattenSeq(p) \o FlattenSeq(q)
  BY <1>4, FlattenConcat
<1>. QED BY <1>4, <1>5, <1>8, <1>9 DEF c, t

-----------------------------------------------------------------------------
(* What a sequence of hints shows *)

ShownBy == [r \in Rows |-> r.shown]
Shown(hints) == ShownIn(TopLevelRows(hints))
Rendered(hints) == ToSet(TopLevelRows(hints))
ChipsOn(rows) == UNION {ToSet(r.chips) : r \in rows}

\* x shows what y shows, and the rows it has instead of y's are in X.
SameView(x, y, X) ==
  /\ Shown(x) = Shown(y)
  /\ ChipsOn(Rendered(x)) = ChipsOn(Rendered(y))
  /\ Rendered(x) \subseteq Rendered(y) \union X

LEMMA ShownIsEach ==
  ASSUME NEW rows \in Seq(Rows)
  PROVE  Maps(ShownBy, Rows, Int) /\ ShownIn(rows) = Each(ShownBy, rows)
<1>1. Maps(ShownBy, Rows, Int)
  BY DEF Maps, ShownBy, Rows
<1>2. \A k \in DOMAIN rows : rows[k] \in Rows
  OBVIOUS
<1>3. [k \in DOMAIN rows |-> rows[k].shown] = Images(ShownBy, rows)
  BY <1>2 DEF Images, ShownBy
<1>. QED BY <1>1, <1>3 DEF ShownIn, Each

LEMMA ShownInOne ==
  ASSUME NEW row \in Rows
  PROVE  ShownIn(<<row>>) = row.shown
<1>1. <<row>> \in Seq(Rows)
  BY OneTyped
<1>2. ShownIn(<<row>>) = Each(ShownBy, <<row>>) /\ Maps(ShownBy, Rows, Int)
  BY <1>1, ShownIsEach
<1>3. Each(ShownBy, <<row>>) = ShownBy[row]
  BY <1>2, EachOne
<1>. QED BY <1>2, <1>3 DEF ShownBy

LEMMA ViewOfPieces ==
  ASSUME NEW a \in Seq(Hints), NEW b \in Seq(Hints), Starts(b)
  PROVE  Shown(a \o b) = Shown(a) \o Shown(b) /\ Rendered(a \o b) = Rendered(a) \union Rendered(b)
<1>. DEFINE r == TopLevelRows(a)
            q == TopLevelRows(b)
<1>1. TopLevelRows(a \o b) = r \o q /\ r \in Seq(Rows) /\ q \in Seq(Rows) /\ r \o q \in Seq(Rows)
  BY RowsOfPieces, TopLevelTyped, ConcatProperties
<1>. HIDE DEF r, q
<1>2. ToSet(r \o q) = ToSet(r) \union ToSet(q)
  BY <1>1, SetOfConcat
<1>3. ShownIn(r) = Each(ShownBy, r) /\ ShownIn(q) = Each(ShownBy, q) /\ ShownIn(r \o q) = Each(ShownBy, r \o q)
  BY <1>1, ShownIsEach
<1>4. Each(ShownBy, r \o q) = Each(ShownBy, r) \o Each(ShownBy, q)
  <2>1. Maps(ShownBy, Rows, Int)
    BY <1>1, ShownIsEach
  <2>. QED BY <1>1, <2>1, EachConcat
<1>5. ShownIn(r \o q) = ShownIn(r) \o ShownIn(q)
  BY <1>3, <1>4
<1>. QED BY <1>1, <1>2, <1>5 DEF Shown, Rendered, r, q

\* Hints appended behind: what stood before looks the same.
LEMMA SameViewBefore ==
  ASSUME NEW X, NEW x \in Seq(Hints), NEW y \in Seq(Hints), NEW b \in Seq(Hints), Starts(b), SameView(x, y, X)
  PROVE  SameView(x \o b, y \o b, X)
<1>1. Shown(x \o b) = Shown(x) \o Shown(b) /\ Rendered(x \o b) = Rendered(x) \union Rendered(b)
  BY ViewOfPieces
<1>2. Shown(y \o b) = Shown(y) \o Shown(b) /\ Rendered(y \o b) = Rendered(y) \union Rendered(b)
  BY ViewOfPieces
<1>. DEFINE u == x \o b
            v == y \o b
<1>. HIDE DEF u, v
<1>3. /\ Shown(x) = Shown(y) /\ ChipsOn(Rendered(x)) = ChipsOn(Rendered(y))
      /\ Rendered(x) \subseteq Rendered(y) \union X
  BY DEF SameView
<1>4. Shown(u) = Shown(v)
  BY <1>1, <1>2, <1>3 DEF u, v
<1>5. ChipsOn(Rendered(u)) = ChipsOn(Rendered(v))
  <2>1. ChipsOn(Rendered(u)) = ChipsOn(Rendered(x)) \union ChipsOn(Rendered(b))
    BY <1>1 DEF ChipsOn, u
  <2>2. ChipsOn(Rendered(v)) = ChipsOn(Rendered(y)) \union ChipsOn(Rendered(b))
    BY <1>2 DEF ChipsOn, v
  <2>. QED BY <1>3, <2>1, <2>2
<1>6. Rendered(u) \subseteq Rendered(v) \union X
  BY <1>1, <1>2, <1>3 DEF u, v
<1>. QED BY <1>4, <1>5, <1>6 DEF SameView, u, v

\* Hints put in front change nothing of the view of those behind.
LEMMA SameViewBehind ==
  ASSUME NEW X, NEW a \in Seq(Hints), NEW x \in Seq(Hints), NEW y \in Seq(Hints), Starts(x), Starts(y), SameView(x, y, X)
  PROVE  SameView(a \o x, a \o y, X)
<1>1. Shown(a \o x) = Shown(a) \o Shown(x) /\ Rendered(a \o x) = Rendered(a) \union Rendered(x)
  BY ViewOfPieces
<1>2. Shown(a \o y) = Shown(a) \o Shown(y) /\ Rendered(a \o y) = Rendered(a) \union Rendered(y)
  BY ViewOfPieces
<1>. DEFINE u == a \o x
            v == a \o y
<1>. HIDE DEF u, v
<1>3. /\ Shown(x) = Shown(y) /\ ChipsOn(Rendered(x)) = ChipsOn(Rendered(y))
      /\ Rendered(x) \subseteq Rendered(y) \union X
  BY DEF SameView
<1>4. Shown(u) = Shown(v)
  BY <1>1, <1>2, <1>3 DEF u, v
<1>5. ChipsOn(Rendered(u)) = ChipsOn(Rendered(v))
  <2>1. ChipsOn(Rendered(u)) = ChipsOn(Rendered(a)) \union ChipsOn(Rendered(x))
    BY <1>1 DEF ChipsOn, u
  <2>2. ChipsOn(Rendered(v)) = ChipsOn(Rendered(a)) \union ChipsOn(Rendered(y))
    BY <1>2 DEF ChipsOn, v
  <2>. QED BY <1>3, <2>1, <2>2
<1>6. Rendered(u) \subseteq Rendered(v) \union X
  BY <1>1, <1>2, <1>3 DEF u, v
<1>. QED BY <1>4, <1>5, <1>6 DEF SameView, u, v

LEMMA SameViewTwice ==
  ASSUME NEW X, NEW x, NEW y, NEW z, SameView(x, y, X), SameView(y, z, X)
  PROVE  SameView(x, z, X)
BY DEF SameView

-----------------------------------------------------------------------------
(* Hints no pass has gathered: each has its own rows *)

PlainHints == {h \in Hints : h.kind \in PlainKind}
RowFor == [h \in PlainHints |-> HintRow(h)]
ShownFor == [h \in PlainHints |-> ShownIn(HintRow(h))]

LEMMA RowForTyped == Maps(RowFor, PlainHints, Rows) /\ Maps(ShownFor, PlainHints, Int)
<1>1. ASSUME NEW h \in PlainHints PROVE HintRow(h) \in Seq(Rows) /\ ShownIn(HintRow(h)) \in Seq(Int)
  <2>. DEFINE rows == HintRow(h)
  <2>1. rows \in Seq(Rows)
    BY HintRowTyped DEF PlainHints
  <2>. HIDE DEF rows
  <2>2. Maps(ShownBy, Rows, Int) /\ ShownIn(rows) = Each(ShownBy, rows)
    BY <2>1, ShownIsEach
  <2>3. Each(ShownBy, rows) \in Seq(Int)
    BY <2>1, <2>2, EachTyped
  <2>. QED BY <2>1, <2>2, <2>3 DEF rows
<1>. QED BY <1>1 DEF Maps, RowFor, ShownFor

LEMMA PlainView ==
  ASSUME NEW s \in Seq(PlainHints)
  PROVE  /\ s \in Seq(Hints) /\ Starts(s)
         /\ TopLevelRows(s) = Each(RowFor, s) /\ TopLevelRows(s) \in Seq(Rows)
         /\ Shown(s) = Each(ShownFor, s)
         /\ Rendered(s) = UNION {ToSet(HintRow(h)) : h \in ToSet(s)}
<1>1. s \in Seq(Hints) /\ \A k \in DOMAIN s : s[k] \in Hints /\ s[k].kind \in PlainKind
  BY DEF PlainHints
<1>2. Starts(s)
  <2>1. ASSUME s # <<>> PROVE ~IsMember(s[1])
    <3>1. 1 \in DOMAIN s
      BY <2>1
    <3>2. s[1].kind \in PlainKind
      BY <1>1, <3>1
    <3>. QED BY <3>2 DEF PlainKind, IsMember
  <2>. QED BY <2>1 DEF Starts
<1>3. \A k \in DOMAIN s : RowsAt(s, k) = RowFor[s[k]] /\ s[k] \in PlainHints
  <2>1. ASSUME NEW k \in DOMAIN s PROVE RowsAt(s, k) = HintRow(s[k])
    <3>1. s[k].kind \in PlainKind
      BY <1>1
    <3>. QED BY <3>1 DEF RowsAt, IsMember, PlainKind
  <2>2. \A k \in DOMAIN s : s[k] \in PlainHints
    BY <1>1 DEF PlainHints
  <2>. QED BY <2>1, <2>2 DEF RowFor
<1>4. RowsOf(s) = Images(RowFor, s)
  BY <1>3 DEF RowsOf, Images
<1>5. TopLevelRows(s) = Each(RowFor, s) /\ TopLevelRows(s) \in Seq(Rows)
  BY <1>1, <1>4, TopLevelTyped DEF Each
<1>. DEFINE ss == Images(RowFor, s)
<1>6. ss \in Seq(Seq(Rows)) /\ Len(ss) = Len(s) /\ (\A k \in 1 .. Len(s) : ss[k] = RowFor[s[k]])
       /\ TopLevelRows(s) = FlattenSeq(ss)
  BY <1>5, RowForTyped, EachTyped DEF Each
<1>. HIDE DEF ss
<1>7. Shown(s) = Each(ShownFor, s)
  <2>1. Shown(s) = Each(ShownBy, FlattenSeq(ss)) /\ Maps(ShownBy, Rows, Int)
    BY <1>5, <1>6, ShownIsEach DEF Shown
  <2>2. Each(ShownBy, FlattenSeq(ss)) = FlattenSeq([k \in DOMAIN ss |-> Each(ShownBy, ss[k])])
    BY <1>6, <2>1, EachOfFlatten
  <2>3. ASSUME NEW k \in DOMAIN s PROVE Each(ShownBy, ss[k]) = ShownFor[s[k]]
    <3>1. ss[k] = RowFor[s[k]] /\ s[k] \in PlainHints
      BY <1>3, <1>6
    <3>2. ss[k] = HintRow(s[k]) /\ RowFor[s[k]] \in Seq(Rows)
      BY <3>1, RowForTyped DEF RowFor, Maps
    <3>. DEFINE rows == HintRow(s[k])
    <3>3. rows \in Seq(Rows)
      BY <3>1, <3>2
    <3>4. ShownFor[s[k]] = ShownIn(rows)
      BY <3>1 DEF ShownFor
    <3>. HIDE DEF rows
    <3>5. ShownIn(rows) = Each(ShownBy, rows)
      BY <3>3, ShownIsEach
    <3>. QED BY <3>2, <3>4, <3>5 DEF rows
  <2>4. DOMAIN ss = DOMAIN s
    BY <1>6
  <2>5. [k \in DOMAIN ss |-> Each(ShownBy, ss[k])] = Images(ShownFor, s)
    BY <2>3, <2>4 DEF Images
  <2>. QED BY <2>1, <2>2, <2>5 DEF Each
<1>8. Rendered(s) = UNION {ToSet(HintRow(h)) : h \in ToSet(s)}
  <2>1. Rendered(s) = UNION {ToSet(RowFor[h]) : h \in ToSet(s)}
    BY <1>5, RowForTyped, SetOfEach DEF Rendered
  <2>2. ToSet(s) \subseteq PlainHints
    BY SetOf
  <2>3. \A h \in ToSet(s) : RowFor[h] = HintRow(h)
    BY <2>2 DEF RowFor
  <2>. QED BY <2>1, <2>3
<1>. QED BY <1>1, <1>2, <1>5, <1>7, <1>8

-----------------------------------------------------------------------------
(* The hints a group may gather *)

Gatherable == {h \in Hints : h.kind \in {"lifecycle", "standalone"}}
ChipsFor == [h \in Gatherable |-> InlineWarnings(h.chips)]

LEMMA GatherableRow ==
  ASSUME NEW h \in Gatherable
  PROVE  /\ h \in PlainHints /\ h \in Hints
         /\ ShownFor[h] = IF IsCall(h) THEN CallShows(h) ELSE <<h.at>>
         /\ HintRow(h) = <<Row(h.kind, ShownFor[h], ChipsFor[h], FALSE, None)>>
         /\ ShownFor[h] \in Seq(Int) /\ ChipsFor[h] \in Seq(Chips)
<1>1. h \in Hints /\ h.kind \in {"lifecycle", "standalone"} /\ h \in PlainHints
  BY DEF Gatherable, PlainHints, PlainKind
<1>. DEFINE shows == IF IsCall(h) THEN CallShows(h) ELSE <<h.at>>
<1>2. shows \in Seq(Int) /\ h.chips \in Seq(Chips)
  BY <1>1 DEF Hints, CallShows
<1>3. ChipsFor[h] = InlineWarnings(h.chips) /\ ChipsFor[h] \in Seq(Chips)
  BY <1>2, OnlyTyped DEF InlineWarnings, ChipsFor
<1>4. HintRow(h) = <<Row(h.kind, shows, InlineWarnings(h.chips), FALSE, None)>>
  <2>1. CASE h.kind = "lifecycle"
    BY <2>1 DEF HintRow, IsCall
  <2>2. CASE h.kind = "standalone"
    BY <2>2 DEF HintRow, IsCall
  <2>. QED BY <1>1, <2>1, <2>2
<1>. DEFINE row == Row(h.kind, shows, InlineWarnings(h.chips), FALSE, None)
<1>. HIDE DEF shows
<1>5. row \in Rows /\ row.shown = shows
  <2>1. h.kind \in RowKind /\ None \in Statuses /\ InlineWarnings(h.chips) \in Seq(Chips)
    BY <1>1, <1>3 DEF RowKind, Statuses
  <2>. QED BY <1>2, <2>1, RowTyped DEF Row
<1>. HIDE DEF row
<1>6. ShownIn(<<row>>) = shows
  BY <1>5, ShownInOne
<1>7. ShownFor[h] = shows
  BY <1>1, <1>4, <1>6 DEF ShownFor, row
<1>. QED BY <1>1, <1>2, <1>3, <1>4, <1>7 DEF shows


LEMMA ChipsForTyped == Maps(ChipsFor, Gatherable, Chips)
<1>1. \A h \in Gatherable : ChipsFor[h] \in Seq(Chips)
  BY GatherableRow
<1>. QED BY <1>1 DEF Maps, ChipsFor

Joined(first, h) == [h EXCEPT !.head = first, !.kind = IF IsCall(h) THEN "group-member" ELSE "group-text-member"]

LEMMA JoinedIs ==
  ASSUME NEW first \in Int, NEW h \in Gatherable
  PROVE  /\ Joined(first, h) \in Hints /\ IsMember(Joined(first, h))
         /\ Joined(first, h).kind = "group-member" <=> IsCall(h)
         /\ Joined(first, h).head = first
         /\ Showing[Joined(first, h)] = ShownFor[h]
         /\ Chipping[Joined(first, h)] = ChipsFor[h]
<1>1. h \in Hints /\ ShownFor[h] = (IF IsCall(h) THEN CallShows(h) ELSE <<h.at>>)
        /\ ChipsFor[h] = InlineWarnings(h.chips)
  BY GatherableRow DEF ChipsFor
<1>. DEFINE k == IF IsCall(h) THEN "group-member" ELSE "group-text-member"
            a == [h EXCEPT !.head = first]
            j == [a EXCEPT !.kind = k]
<1>2. k \in MemberKind /\ k \in HintKind /\ (k = "group-member" <=> IsCall(h))
  BY DEF MemberKind, HintKind
<1>. HIDE DEF k
<1>3. a \in Hints /\ a.head = first /\ a.at = h.at /\ a.pair = h.pair /\ a.chips = h.chips
  BY <1>1 DEF Hints
<1>. HIDE DEF a
<1>4. j \in Hints /\ j.kind = k /\ j.head = first /\ j.at = h.at /\ j.pair = h.pair /\ j.chips = h.chips
  BY <1>2, <1>3 DEF Hints
<1>5. Joined(first, h) = j
  BY DEF Joined, a, k
<1>. HIDE DEF j
<1>6. IsMember(j)
  BY <1>2, <1>4 DEF MemberKind, IsMember
<1>7. Showing[j] = ShownFor[h] /\ Chipping[j] = ChipsFor[h]
  <2>1. MemberShows(j) = IF IsCall(h) THEN CallShows(j) ELSE <<j.at>>
    BY <1>2, <1>4 DEF MemberShows
  <2>2. CallShows(j) = CallShows(h)
    BY <1>4 DEF CallShows
  <2>. QED BY <1>1, <1>4, <2>1, <2>2 DEF Showing, Chipping
<1>. QED BY <1>2, <1>4, <1>5, <1>6, <1>7

LEMMA CallsAre ==
  ASSUME NEW b \in Seq(Gatherable)
  PROVE  /\ Calls(b) \in Seq(Gatherable) /\ \A k \in 1 .. Len(Calls(b)) : IsCall(Calls(b)[k])
         /\ ToSet(Calls(b)) = {h \in ToSet(b) : IsCall(h)}
         /\ \E g : Picks(g, b, {h \in ToSet(b) : IsCall(h)})
<1>. DEFINE S == {h \in ToSet(b) : IsCall(h)}
            c == Only(b, S)
<1>1. Calls(b) = c
  BY DEF Calls
<1>2. c \in Seq(Gatherable) /\ ToSet(c) = ToSet(b) \cap S
  BY OnlyTyped
<1>3. \E g : Picks(g, b, S)
  BY OnlyPicks
<1>. HIDE DEF c
<1>4. ToSet(c) = S
  BY <1>2
<1>5. \A k \in 1 .. Len(c) : c[k] \in ToSet(c)
  BY <1>2, SetOf
<1>. QED BY <1>1, <1>2, <1>3, <1>4, <1>5

-----------------------------------------------------------------------------
(* A group in place of its calls *)

HeadOf(ms, b) ==
  [Calls(b)[1] EXCEPT !.kind = "group-head", !.pair = NoIndex, !.chips = <<>>,
     !.head = Calls(b)[1].at, !.indices = [k \in DOMAIN Calls(b) |-> Calls(b)[k].at],
     !.status = AggregateStatus(ms, Calls(b))]
GroupOf(ms, b) == <<HeadOf(ms, b)>> \o [k \in DOMAIN b |-> Joined(Calls(b)[1].at, b[k])]
GroupRow(ms, b) == Row("group", Each(ShownFor, b), Each(ChipsFor, b), TRUE, AggregateStatus(ms, Calls(b)))

LEMMA StatusTyped == \A ms, calls : AggregateStatus(ms, calls) \in Statuses
<1>. TAKE ms, calls
<1>. DEFINE pending == {k \in DOMAIN calls : calls[k].pair = NoIndex}
            failed == {k \in DOMAIN calls \ pending : DetectFailure(MessageAt(ms, calls[k].pair))}
            status == CASE pending # {} -> "in-flight"
                        [] pending = {} /\ failed = {} -> "all-success"
                        [] pending = {} /\ failed # {} /\ failed = DOMAIN calls -> "all-failed"
                        [] OTHER -> "mixed"
<1>1. AggregateStatus(ms, calls) = status
  BY DEF AggregateStatus
<1>. HIDE DEF pending, failed
<1>2. status \in {"in-flight", "all-success", "all-failed", "mixed"}
  OBVIOUS
<1>. HIDE DEF status
<1>. QED BY <1>1, <1>2 DEF Statuses

LEMMA HeadIs ==
  ASSUME NEW ms, NEW b \in Seq(Gatherable), Calls(b) # <<>>
  PROVE  /\ HeadOf(ms, b) \in Hints /\ HeadOf(ms, b).kind = "group-head"
         /\ HeadOf(ms, b).indices = [k \in DOMAIN Calls(b) |-> Calls(b)[k].at]
         /\ Len(HeadOf(ms, b).indices) = Len(Calls(b))
         /\ HeadOf(ms, b).indices[1] = Calls(b)[1].at
         /\ HeadOf(ms, b).status = AggregateStatus(ms, Calls(b))
         /\ Calls(b)[1].at \in Int
<1>. DEFINE c == Calls(b)
            at == c[1].at
            indices == [k \in DOMAIN c |-> c[k].at]
            status == AggregateStatus(ms, c)
<1>1. c \in Seq(Gatherable) /\ c # <<>>
  BY CallsAre
<1>2. 1 \in DOMAIN c /\ DOMAIN c = 1 .. Len(c) /\ Len(c) \in Nat /\ \A k \in DOMAIN c : c[k] \in Hints
  BY <1>1 DEF Gatherable
<1>3. at \in Int /\ (\A k \in DOMAIN c : c[k].at \in Int)
  BY <1>2 DEF Hints
<1>4. indices \in Seq(Int) /\ Len(indices) = Len(c) /\ indices[1] = at
  BY <1>2, <1>3
<1>5. status \in Statuses
  BY StatusTyped
<1>6. NoIndex \in Int /\ <<>> \in Seq(Chips)
  BY DEF NoIndex
<1>. DEFINE first == c[1]
            n1 == [first EXCEPT !.kind = "group-head"]
            n2 == [n1 EXCEPT !.pair = NoIndex]
            n3 == [n2 EXCEPT !.chips = <<>>]
            n4 == [n3 EXCEPT !.head = at]
            n5 == [n4 EXCEPT !.indices = indices]
            n6 == [n5 EXCEPT !.status = status]
<1>7. HeadOf(ms, b) = n6
  BY DEF HeadOf
<1>8. first \in Hints
  BY <1>2
<1>. HIDE DEF c, at, indices, status, first
<1>9. n1 \in Hints /\ n1.kind = "group-head"
  BY <1>8 DEF Hints, HintKind
<1>. HIDE DEF n1
<1>10. n2 \in Hints /\ n2.kind = "group-head"
  BY <1>6, <1>9 DEF Hints
<1>. HIDE DEF n2
<1>11. n3 \in Hints /\ n3.kind = "group-head"
  BY <1>6, <1>10 DEF Hints
<1>. HIDE DEF n3
<1>12. n4 \in Hints /\ n4.kind = "group-head"
  BY <1>3, <1>11 DEF Hints
<1>. HIDE DEF n4
<1>13. n5 \in Hints /\ n5.kind = "group-head" /\ n5.indices = indices
  BY <1>4, <1>12 DEF Hints
<1>. HIDE DEF n5
<1>14. n6 \in Hints /\ n6.kind = "group-head" /\ n6.indices = indices /\ n6.status = status
  BY <1>5, <1>13 DEF Hints
<1>. HIDE DEF n6
<1>. QED BY <1>3, <1>4, <1>7, <1>14 DEF c, at, indices, status

LEMMA GroupTyped ==
  ASSUME NEW ms, NEW b \in Seq(Gatherable), Calls(b) # <<>>
  PROVE  /\ GroupOf(ms, b) \in Seq(Hints) /\ Len(GroupOf(ms, b)) = Len(b) + 1
         /\ GroupOf(ms, b)[1] = HeadOf(ms, b)
         /\ \A k \in 1 .. Len(b) : GroupOf(ms, b)[k + 1] = Joined(Calls(b)[1].at, b[k])
<1>. DEFINE at == Calls(b)[1].at
            h == HeadOf(ms, b)
            t == [k \in DOMAIN b |-> Joined(at, b[k])]
            s == <<h>>
            n == Len(b)
<1>1. at \in Int /\ h \in Hints
  BY HeadIs
<1>2. DOMAIN b = 1 .. n /\ n \in Nat /\ \A k \in 1 .. n : b[k] \in Gatherable
  OBVIOUS
<1>3. GroupOf(ms, b) = s \o t
  BY DEF GroupOf
<1>. HIDE DEF at, h, n
<1>4. t \in Seq(Hints) /\ Len(t) = n /\ \A k \in 1 .. n : t[k] = Joined(at, b[k])
  <2>1. \A k \in 1 .. n : Joined(at, b[k]) \in Hints
    BY <1>1, <1>2, JoinedIs
  <2>. QED BY <1>2, <2>1
<1>5. s \in Seq(Hints) /\ Len(s) = 1 /\ s[1] = h
  BY <1>1
<1>. HIDE DEF t, s
<1>6. /\ s \o t \in Seq(Hints) /\ Len(s \o t) = 1 + n
      /\ \A k \in 1 .. 1 + n : (s \o t)[k] = IF k <= 1 THEN s[k] ELSE t[k - 1]
  <2>1. /\ s \o t \in Seq(Hints) /\ Len(s \o t) = Len(s) + Len(t)
        /\ \A k \in 1 .. Len(s) + Len(t) : (s \o t)[k] = IF k <= Len(s) THEN s[k] ELSE t[k - Len(s)]
    BY <1>4, <1>5, ConcatProperties
  <2>. QED BY <1>4, <1>5, <2>1
<1>7. (s \o t)[1] = h
  <2>1. 1 \in 1 .. 1 + n
    BY <1>2
  <2>. QED BY <1>5, <1>6, <2>1
<1>8. ASSUME NEW k \in 1 .. n PROVE (s \o t)[k + 1] = Joined(at, b[k])
  <2>1. k + 1 \in 1 .. 1 + n /\ ~(k + 1 <= 1) /\ (k + 1) - 1 = k
    BY <1>2
  <2>. QED BY <1>4, <1>6, <2>1
<1>9. 1 + n = n + 1
  BY <1>2
<1>. QED BY <1>3, <1>6, <1>7, <1>8, <1>9 DEF at, h, n

\* No more calls follow the head of a group than it counts.
LEMMA GroupCalls ==
  ASSUME NEW ms, NEW b \in Seq(Gatherable), Calls(b) # <<>>, NEW j \in 2 .. Len(b) + 1
  PROVE  CallsUpTo(GroupOf(ms, b), 1, j) <= Len(Calls(b))
<1>. DEFINE g == GroupOf(ms, b)
            c == Calls(b)
            n == Len(b)
            m == Len(c)
            S == {h \in ToSet(b) : IsCall(h)}
            A == {k \in 2 .. j : g[k].kind = "group-member"}
            at == c[1].at
<1>1. n \in Nat /\ (\A i \in 1 .. n : b[i] \in Gatherable) /\ j \in 2 .. n + 1 /\ at \in Int
  <2>1. at \in Int
    BY HeadIs
  <2>. QED BY <2>1
<1>2. PICK pk : Picks(pk, b, S)
  BY CallsAre
<1>3. pk \in [1 .. m -> 1 .. n] /\ \A i \in 1 .. n : b[i] \in S => \E l \in 1 .. m : pk[l] = i
  BY <1>2 DEF Picks, Calls
<1>4. c \in Seq(Gatherable) /\ m \in Nat
  BY CallsAre
<1>5. \A i \in 1 .. n : b[i] \in ToSet(b)
  BY SetOf
<1>6. ASSUME NEW k \in A PROVE \E l \in 1 .. m : pk[l] = k - 1
  <2>1. k \in 2 .. j /\ g[k].kind = "group-member"
    OBVIOUS
  <2>2. k - 1 \in 1 .. n /\ (k - 1) + 1 = k
    BY <1>1, <2>1
  <2>3. g[k] = Joined(at, b[k - 1])
    BY <2>2, GroupTyped
  <2>4. IsCall(b[k - 1])
    BY <1>1, <2>1, <2>2, <2>3, JoinedIs
  <2>5. b[k - 1] \in S
    BY <1>5, <2>2, <2>4
  <2>. QED BY <1>3, <2>2, <2>5
<1>. DEFINE f == [k \in A |-> CHOOSE l \in 1 .. m : pk[l] = k - 1]
            B == 1 .. m
<1>7. A \subseteq 2 .. j
  OBVIOUS
<1>. HIDE DEF A, S, g, c, n, m
<1>8. \A k \in A : f[k] \in 1 .. m /\ pk[f[k]] = k - 1
  BY <1>6
<1>9. f \in [A -> B]
  BY <1>8
<1>. HIDE DEF f
<1>10. \A k, l \in A : f[k] = f[l] => k = l
  <2>1. \A k, l \in A : f[k] = f[l] => k - 1 = l - 1
    BY <1>8
  <2>2. \A k \in A : k \in Int
    BY <1>1, <1>7
  <2>. QED BY <2>1, <2>2
<1>11. f \in Injection(A, B)
  BY <1>9, <1>10 DEF Injection, IsInjective
<1>12. IsFiniteSet(B) /\ Cardinality(B) = m
  <2>1. IsFiniteSet(1 .. m) /\ Cardinality(1 .. m) = IF 1 > m THEN 0 ELSE m - 1 + 1
    <3>1. 1 \in Int /\ m \in Int
      BY <1>4
    <3>. QED BY <3>1, FS_Interval
  <2>2. m = 0 \/ ~(1 > m)
    BY <1>4
  <2>3. (IF 1 > m THEN 0 ELSE m - 1 + 1) = m
    BY <1>4, <2>2
  <2>. QED BY <2>1, <2>3 DEF B
<1>. HIDE DEF B
<1>13. Cardinality(A) <= Cardinality(B)
  BY <1>11, <1>12, FS_Injection
<1>14. CallsUpTo(g, 1, j) = Cardinality(A)
  BY DEF CallsUpTo, A
<1>. QED BY <1>12, <1>13, <1>14 DEF g, c, m

LEMMA GroupMembers ==
  ASSUME NEW ms, NEW b \in Seq(Gatherable), Calls(b) # <<>>
  PROVE  /\ MembersOf(GroupOf(ms, b), 1) \in Seq(Hints) /\ Len(MembersOf(GroupOf(ms, b), 1)) = Len(b)
         /\ \A k \in 1 .. Len(b) : MembersOf(GroupOf(ms, b), 1)[k] = Joined(Calls(b)[1].at, b[k])
<1>. DEFINE g == GroupOf(ms, b)
            at == Calls(b)[1].at
            n == Len(b)
            T == Stops(g, 1)
<1>1. /\ g \in Seq(Hints) /\ Len(g) = n + 1 /\ g[1] = HeadOf(ms, b)
      /\ \A k \in 1 .. n : g[k + 1] = Joined(at, b[k])
  BY GroupTyped
<1>2. n \in Nat /\ at \in Int /\ \A k \in 1 .. n : b[k] \in Gatherable
  <2>1. at \in Int
    BY HeadIs
  <2>. QED BY <2>1
<1>3. ASSUME NEW j \in 2 .. n + 1 PROVE Belongs(g, 1, j)
  <2>1. j - 1 \in 1 .. n /\ (j - 1) + 1 = j
    BY <1>2
  <2>2. g[j] = Joined(at, b[j - 1]) /\ b[j - 1] \in Gatherable
    BY <1>1, <1>2, <2>1
  <2>3. IsMember(g[j]) /\ g[j].head = at
    <3>. HIDE DEF g, at
    <3>. QED BY <1>2, <2>2, JoinedIs
  <2>4. g[1].indices[1] = at /\ Len(g[1].indices) = Len(Calls(b))
    <3>1. HeadOf(ms, b).indices[1] = at /\ Len(HeadOf(ms, b).indices) = Len(Calls(b))
      BY HeadIs
    <3>. QED BY <1>1, <3>1
  <2>5. CallsUpTo(g, 1, j) <= Len(g[1].indices)
    BY <2>4, GroupCalls
  <2>. QED BY <2>3, <2>4, <2>5 DEF Belongs
<1>4. /\ Min(T) \in 1 + 1 .. Len(g) + 1 /\ Min(T) \in T
      /\ MembersOf(g, 1) \in Seq(Hints) /\ Len(MembersOf(g, 1)) = Min(T) - (1 + 1)
      /\ \A k \in 1 .. Min(T) - (1 + 1) : MembersOf(g, 1)[k] = g[1 + k]
  <2>1. 1 \in 1 .. Len(g)
    BY <1>1, <1>2
  <2>. HIDE DEF g
  <2>. QED BY <1>1, <2>1, WalkStops
<1>. DEFINE x == Min(T)
<1>5. x \in 2 .. n + 2 /\ (x = n + 2 \/ ~Belongs(g, 1, x))
  BY <1>1, <1>2, <1>4 DEF Stops
<1>. HIDE DEF x
<1>6. x = n + 2
  BY <1>2, <1>3, <1>5
<1>7. x - (1 + 1) = n
  BY <1>2, <1>6
<1>8. Len(MembersOf(g, 1)) = n /\ MembersOf(g, 1) \in Seq(Hints) /\ \A k \in 1 .. n : MembersOf(g, 1)[k] = g[1 + k]
  BY <1>4, <1>7 DEF x
<1>9. \A k \in 1 .. n : 1 + k = k + 1
  BY <1>2
<1>. QED BY <1>1, <1>8, <1>9

LEMMA PlainChips ==
  ASSUME NEW b \in Seq(Gatherable)
  PROVE  /\ b \in Seq(PlainHints)
         /\ Rendered(b) = {Row(h.kind, ShownFor[h], ChipsFor[h], FALSE, None) : h \in ToSet(b)}
         /\ ChipsOn(Rendered(b)) = ToSet(Each(ChipsFor, b))
<1>1. ToSet(b) \subseteq Gatherable
  BY SetOf
<1>2. b \in Seq(PlainHints)
  BY DEF Gatherable, PlainHints, PlainKind
<1>3. Rendered(b) = UNION {ToSet(HintRow(h)) : h \in ToSet(b)}
  BY <1>2, PlainView
<1>. DEFINE row(h) == Row(h.kind, ShownFor[h], ChipsFor[h], FALSE, None)
<1>4. \A h \in ToSet(b) : ToSet(HintRow(h)) = {row(h)}
  BY <1>1, GatherableRow, SetOfOne
<1>5. \A h \in ToSet(b) : row(h).chips = ChipsFor[h]
  BY DEF Row
<1>. HIDE DEF row
<1>6. Rendered(b) = {row(h) : h \in ToSet(b)}
  BY <1>3, <1>4
<1>7. ToSet(Each(ChipsFor, b)) = UNION {ToSet(ChipsFor[h]) : h \in ToSet(b)}
  BY ChipsForTyped, SetOfEach
<1>8. ChipsOn(Rendered(b)) = UNION {ToSet(ChipsFor[h]) : h \in ToSet(b)}
  BY <1>5, <1>6 DEF ChipsOn
<1>. QED BY <1>2, <1>6, <1>7, <1>8 DEF row

\* A group shows what its members show, and has all of their chips.
LEMMA GroupView ==
  ASSUME NEW ms, NEW b \in Seq(Gatherable), Calls(b) # <<>>
  PROVE  /\ SameView(GroupOf(ms, b), b, {GroupRow(ms, b)})
         /\ Starts(GroupOf(ms, b)) /\ GroupRow(ms, b) \in Rows
<1>. DEFINE g == GroupOf(ms, b)
            n == Len(b)
            r == MembersOf(g, 1)
            row == GroupRow(ms, b)
            at == Calls(b)[1].at
<1>1. g \in Seq(Hints) /\ Len(g) = n + 1 /\ g[1] = HeadOf(ms, b) /\ \A k \in 1 .. n : g[k + 1] = Joined(at, b[k])
  BY GroupTyped
<1>2. n \in Nat /\ (\A k \in 1 .. n : b[k] \in Gatherable) /\ DOMAIN b = 1 .. n
  OBVIOUS
<1>3. at \in Int
  BY HeadIs
<1>4. g[1].kind = "group-head" /\ g[1].status = AggregateStatus(ms, Calls(b))
  <2>1. HeadOf(ms, b).kind = "group-head" /\ HeadOf(ms, b).status = AggregateStatus(ms, Calls(b))
    BY HeadIs
  <2>. QED BY <1>1, <2>1
<1>5. r \in Seq(Hints) /\ Len(r) = n /\ \A k \in 1 .. n : r[k] = Joined(at, b[k])
  BY GroupMembers
<1>6. Starts(g)
  BY <1>4 DEF Starts, IsMember
<1>7. 1 \in 1 .. Len(g)
  BY <1>1, <1>2
<1>8. /\ GroupHeadRow(g, 1) = Row("group", Each(Showing, r), Each(Chipping, r), TRUE, g[1].status)
      /\ GroupHeadRow(g, 1) \in Rows
  <2>. HIDE DEF g
  <2>. QED BY <1>1, <1>7, GroupHeadRowIs
<1>. HIDE DEF g, n, r, at
<1>9. Each(Showing, r) = Each(ShownFor, b) /\ Each(Chipping, r) = Each(ChipsFor, b)
  <2>1. DOMAIN r = 1 .. n
    BY <1>2, <1>5
  <2>2. \A k \in 1 .. n : Showing[r[k]] = ShownFor[b[k]] /\ Chipping[r[k]] = ChipsFor[b[k]]
    BY <1>2, <1>3, <1>5, JoinedIs
  <2>3. Images(Showing, r) = Images(ShownFor, b) /\ Images(Chipping, r) = Images(ChipsFor, b)
    BY <1>2, <2>1, <2>2 DEF Images
  <2>. QED BY <2>3 DEF Each
<1>10. GroupHeadRow(g, 1) = row /\ row \in Rows
  BY <1>4, <1>8, <1>9 DEF GroupRow
<1>11. TopLevelRows(g) = <<row>>
  <2>. DEFINE ss == RowsOf(g)
  <2>1. /\ ss \in Seq(Seq(Rows)) /\ Len(ss) = n + 1 /\ (\A i \in 1 .. n + 1 : ss[i] = RowsAt(g, i))
        /\ TopLevelRows(g) = FlattenSeq(ss)
    BY <1>1, TopLevelTyped
  <2>2. RowsAt(g, 1) = <<GroupHeadRow(g, 1)>>
    BY <1>4 DEF RowsAt, IsMember
  <2>3. ASSUME NEW i \in 2 .. n + 1 PROVE RowsAt(g, i) = <<>>
    <3>1. i - 1 \in 1 .. n /\ (i - 1) + 1 = i
      BY <1>2
    <3>2. g[i] = Joined(at, b[i - 1]) /\ b[i - 1] \in Gatherable
      BY <1>1, <1>2, <3>1
    <3>3. IsMember(g[i])
      BY <1>3, <3>2, JoinedIs
    <3>4. g[i].kind \in {"group-member", "group-text-member"}
      BY <3>3 DEF IsMember
    <3>. QED BY <3>4 DEF RowsAt, IsMember
  <2>. HIDE DEF ss
  <2>4. ss # <<>> /\ ss[1] = <<row>> /\ \A i \in 2 .. Len(ss) : ss[i] = <<>>
    <3>1. ss # <<>> /\ 1 \in 1 .. n + 1
      BY <1>2, <2>1
    <3>2. \A i \in 2 .. n + 1 : i \in 1 .. n + 1
      OBVIOUS
    <3>. QED BY <1>10, <2>1, <2>2, <2>3, <3>1, <3>2
  <2>5. FlattenSeq(ss) = ss[1]
    BY <2>1, <2>4, FlattenFirst
  <2>. QED BY <2>1, <2>4, <2>5
<1>12. b \in Seq(PlainHints) /\ ChipsOn(Rendered(b)) = ToSet(Each(ChipsFor, b))
  BY PlainChips
<1>13. row.shown = Each(ShownFor, b) /\ row.chips = Each(ChipsFor, b)
  BY DEF GroupRow, Row
<1>. HIDE DEF row
<1>14. Shown(g) = Shown(b)
  <2>1. Shown(g) = row.shown
    BY <1>10, <1>11, ShownInOne DEF Shown
  <2>2. Shown(b) = Each(ShownFor, b)
    BY <1>12, PlainView
  <2>. QED BY <1>13, <2>1, <2>2
<1>15. Rendered(g) = {row}
  BY <1>11, SetOfOne DEF Rendered
<1>16. ChipsOn(Rendered(g)) = ChipsOn(Rendered(b))
  BY <1>12, <1>13, <1>15 DEF ChipsOn
<1>17. SameView(g, b, {row})
  BY <1>14, <1>15, <1>16 DEF SameView
<1>. QED BY <1>6, <1>10, <1>17 DEF g, row

-----------------------------------------------------------------------------
(* A cluster in place of its metadata *)

MetaHints == {h \in Hints : h.kind = "metadata"}
AtsOf(b) == [k \in DOMAIN b |-> b[k].at]
Clustered(first, h) == [h EXCEPT !.kind = "metadata-cluster-member", !.head = first]
ClusterHead(b) == [b[1] EXCEPT !.kind = "metadata-cluster-head", !.head = b[1].at, !.indices = AtsOf(b)]
ClusterOf(b) == <<ClusterHead(b)>> \o [k \in DOMAIN b |-> Clustered(b[1].at, b[k])]
ClusterRow(b) == Row("cluster", AtsOf(b), <<>>, TRUE, None)

LEMMA ClusterTyped ==
  ASSUME NEW b \in Seq(MetaHints), b # <<>>
  PROVE  /\ ClusterOf(b) \in Seq(Hints) /\ Len(ClusterOf(b)) = Len(b) + 1
         /\ ClusterOf(b)[1].kind = "metadata-cluster-head" /\ ClusterOf(b)[1].indices = AtsOf(b)
         /\ \A k \in 1 .. Len(b) : ClusterOf(b)[k + 1].kind = "metadata-cluster-member"
         /\ AtsOf(b) \in Seq(Int)
<1>. DEFINE n == Len(b)
            at == b[1].at
            ats == AtsOf(b)
            h == ClusterHead(b)
            t == [k \in DOMAIN b |-> Clustered(at, b[k])]
            s == <<h>>
<1>1. DOMAIN b = 1 .. n /\ n \in Nat /\ 1 \in 1 .. n /\ \A k \in 1 .. n : b[k] \in Hints
  BY DEF MetaHints
<1>2. at \in Int /\ ats \in Seq(Int)
  <2>1. \A k \in 1 .. n : b[k].at \in Int
    BY <1>1 DEF Hints
  <2>. QED BY <1>1, <2>1 DEF AtsOf
<1>3. h \in Hints /\ h.kind = "metadata-cluster-head" /\ h.indices = ats
  <2>. DEFINE first == b[1]
              n1 == [first EXCEPT !.kind = "metadata-cluster-head"]
              n2 == [n1 EXCEPT !.head = at]
              n3 == [n2 EXCEPT !.indices = ats]
  <2>1. h = n3 /\ first \in Hints
    BY <1>1 DEF ClusterHead
  <2>. HIDE DEF first, ats, at, h
  <2>2. n1 \in Hints /\ n1.kind = "metadata-cluster-head"
    BY <2>1 DEF Hints, HintKind, ClusterKind
  <2>. HIDE DEF n1
  <2>3. n2 \in Hints /\ n2.kind = "metadata-cluster-head"
    BY <1>2, <2>2 DEF Hints
  <2>. HIDE DEF n2
  <2>4. n3 \in Hints /\ n3.kind = "metadata-cluster-head" /\ n3.indices = ats
    BY <1>2, <2>3 DEF Hints
  <2>. QED BY <2>1, <2>4
<1>4. \A k \in 1 .. n : Clustered(at, b[k]) \in Hints /\ Clustered(at, b[k]).kind = "metadata-cluster-member"
  <2>. SUFFICES ASSUME NEW k \in 1 .. n
                PROVE  Clustered(at, b[k]) \in Hints /\ Clustered(at, b[k]).kind = "metadata-cluster-member"
    OBVIOUS
  <2>. DEFINE e == b[k]
              n1 == [e EXCEPT !.kind = "metadata-cluster-member"]
              n2 == [n1 EXCEPT !.head = at]
  <2>1. Clustered(at, e) = n2 /\ e \in Hints
    BY <1>1 DEF Clustered
  <2>. HIDE DEF e, at
  <2>2. n1 \in Hints /\ n1.kind = "metadata-cluster-member"
    BY <2>1 DEF Hints, HintKind, ClusterKind
  <2>. HIDE DEF n1
  <2>3. n2 \in Hints /\ n2.kind = "metadata-cluster-member"
    BY <1>2, <2>2 DEF Hints
  <2>. QED BY <2>1, <2>3 DEF e
<1>5. ClusterOf(b) = s \o t
  BY DEF ClusterOf
<1>. HIDE DEF at, h, n, ats
<1>6. t \in Seq(Hints) /\ Len(t) = n /\ \A k \in 1 .. n : t[k].kind = "metadata-cluster-member"
  <2>1. t \in [1 .. n -> Hints]
    BY <1>1, <1>4
  <2>2. t \in Seq(Hints) /\ Len(t) = n
    BY <1>1, <2>1
  <2>. QED BY <1>1, <1>4, <2>2
<1>7. s \in Seq(Hints) /\ Len(s) = 1 /\ s[1] = h
  BY <1>3
<1>. HIDE DEF t, s
<1>8. /\ s \o t \in Seq(Hints) /\ Len(s \o t) = n + 1
      /\ \A k \in 1 .. n + 1 : (s \o t)[k] = IF k <= 1 THEN s[k] ELSE t[k - 1]
  <2>1. /\ s \o t \in Seq(Hints) /\ Len(s \o t) = Len(s) + Len(t)
        /\ \A k \in 1 .. Len(s) + Len(t) : (s \o t)[k] = IF k <= Len(s) THEN s[k] ELSE t[k - Len(s)]
    BY <1>6, <1>7, ConcatProperties
  <2>2. 1 + n = n + 1
    BY <1>1
  <2>. QED BY <1>6, <1>7, <2>1, <2>2
<1>9. (s \o t)[1] = h
  <2>1. 1 \in 1 .. n + 1
    BY <1>1
  <2>. QED BY <1>7, <1>8, <2>1
<1>10. ASSUME NEW k \in 1 .. n PROVE (s \o t)[k + 1].kind = "metadata-cluster-member"
  <2>1. k + 1 \in 1 .. n + 1 /\ ~(k + 1 <= 1) /\ (k + 1) - 1 = k
    BY <1>1
  <2>. QED BY <1>6, <1>8, <2>1
<1>. QED BY <1>2, <1>3, <1>5, <1>8, <1>9, <1>10 DEF n, ats

\* A cluster shows what its metadata shows, and has no chips as they have none.
LEMMA ClusterView ==
  ASSUME NEW b \in Seq(MetaHints), b # <<>>
  PROVE  /\ SameView(ClusterOf(b), b, {ClusterRow(b)})
         /\ Starts(ClusterOf(b)) /\ ClusterRow(b) \in Rows
<1>. DEFINE g == ClusterOf(b)
            n == Len(b)
            row == ClusterRow(b)
            ats == AtsOf(b)
<1>1. /\ g \in Seq(Hints) /\ Len(g) = n + 1
      /\ g[1].kind = "metadata-cluster-head" /\ g[1].indices = ats /\ ats \in Seq(Int)
      /\ \A k \in 1 .. n : g[k + 1].kind = "metadata-cluster-member"
  BY ClusterTyped
<1>2. n \in Nat /\ (\A k \in 1 .. n : b[k] \in MetaHints) /\ DOMAIN b = 1 .. n
  OBVIOUS
<1>3. Starts(g)
  BY <1>1 DEF Starts, IsMember
<1>4. row \in Rows /\ row.shown = ats /\ row.chips = <<>>
  <2>1. <<>> \in Seq(Chips) /\ None \in Statuses
    BY DEF Statuses
  <2>. QED BY <1>1, <2>1, RowTyped DEF ClusterRow, Row, RowKind
<1>. HIDE DEF g, n
<1>5. TopLevelRows(g) = <<row>>
  <2>. DEFINE ss == RowsOf(g)
  <2>1. /\ ss \in Seq(Seq(Rows)) /\ Len(ss) = n + 1 /\ (\A i \in 1 .. n + 1 : ss[i] = RowsAt(g, i))
        /\ TopLevelRows(g) = FlattenSeq(ss)
    BY <1>1, TopLevelTyped
  <2>2. RowsAt(g, 1) = <<row>>
    BY <1>1 DEF RowsAt, IsMember, ClusterRow
  <2>3. ASSUME NEW i \in 2 .. n + 1 PROVE RowsAt(g, i) = <<>>
    <3>1. i - 1 \in 1 .. n /\ (i - 1) + 1 = i
      BY <1>2
    <3>2. g[i].kind = "metadata-cluster-member"
      BY <1>1, <3>1
    <3>. QED BY <3>2 DEF RowsAt
  <2>. HIDE DEF ss, row
  <2>4. ss # <<>> /\ ss[1] = <<row>> /\ \A i \in 2 .. Len(ss) : ss[i] = <<>>
    <3>1. ss # <<>> /\ 1 \in 1 .. n + 1
      BY <1>2, <2>1
    <3>2. \A i \in 2 .. n + 1 : i \in 1 .. n + 1
      OBVIOUS
    <3>. QED BY <2>1, <2>2, <2>3, <3>1, <3>2
  <2>5. FlattenSeq(ss) = ss[1]
    BY <2>1, <2>4, FlattenFirst
  <2>. QED BY <2>1, <2>4, <2>5
<1>. HIDE DEF row
<1>6. ASSUME NEW h \in MetaHints
      PROVE  h \in PlainHints /\ HintRow(h) = <<Row("metadata", <<h.at>>, <<>>, FALSE, None)>> /\ ShownFor[h] = <<h.at>>
  <2>. DEFINE own == Row("metadata", <<h.at>>, <<>>, FALSE, None)
  <2>1. h \in PlainHints /\ h.kind = "metadata"
    BY DEF MetaHints, PlainHints, PlainKind
  <2>2. HintRow(h) = <<own>>
    BY <2>1 DEF HintRow
  <2>3. own \in Rows /\ own.shown = <<h.at>>
    <3>1. <<h.at>> \in Seq(Int) /\ <<>> \in Seq(Chips) /\ None \in Statuses
      BY DEF MetaHints, Hints, Statuses
    <3>. QED BY <3>1, RowTyped DEF Row, RowKind
  <2>. HIDE DEF own
  <2>4. ShownIn(<<own>>) = own.shown
    BY <2>3, ShownInOne
  <2>5. ShownFor[h] = <<h.at>>
    BY <2>1, <2>2, <2>3, <2>4 DEF ShownFor
  <2>. QED BY <2>1, <2>2, <2>5 DEF own
<1>7. b \in Seq(PlainHints)
  <2>1. MetaHints \subseteq PlainHints
    BY <1>6
  <2>. QED BY <2>1
<1>8. Shown(b) = Each(ShownFor, b) /\ Rendered(b) = UNION {ToSet(HintRow(h)) : h \in ToSet(b)}
  BY <1>7, PlainView
<1>9. Each(ShownFor, b) = ats
  <2>1. DOMAIN ats = 1 .. n /\ Len(ats) = n /\ \A k \in 1 .. n : ats[k] = b[k].at
    BY <1>1, <1>2 DEF AtsOf
  <2>2. \A k \in 1 .. n : ShownFor[b[k]] = <<ats[k]>>
    BY <1>2, <1>6, <2>1
  <2>3. Images(ShownFor, b) = Ones(ats)
    BY <1>2, <2>1, <2>2 DEF Images, Ones
  <2>. HIDE DEF ats
  <2>4. FlattenSeq(Ones(ats)) = ats
    BY <1>1, FlattenOnes
  <2>. QED BY <2>3, <2>4 DEF Each
<1>10. Shown(g) = Shown(b)
  <2>1. Shown(g) = row.shown
    BY <1>4, <1>5, ShownInOne DEF Shown
  <2>. QED BY <1>4, <1>8, <1>9, <2>1
<1>11. Rendered(g) = {row}
  BY <1>5, SetOfOne DEF Rendered
<1>12. ChipsOn(Rendered(g)) = {}
  BY <1>4, <1>11, SetOfNone DEF ChipsOn
<1>13. ChipsOn(Rendered(b)) = {}
  <2>1. ToSet(b) \subseteq MetaHints
    BY SetOf
  <2>2. \A h \in ToSet(b) : ToSet(HintRow(h)) = {Row("metadata", <<h.at>>, <<>>, FALSE, None)}
    BY <1>6, <2>1, SetOfOne
  <2>3. \A r \in Rendered(b) : r.chips = <<>>
    <3>1. ASSUME NEW h \in ToSet(b), NEW r \in ToSet(HintRow(h)) PROVE r.chips = <<>>
      <4>1. r = Row("metadata", <<h.at>>, <<>>, FALSE, None)
        BY <2>2
      <4>. QED BY <4>1 DEF Row
    <3>. QED BY <1>8, <3>1
  <2>. QED BY <2>3, SetOfNone DEF ChipsOn
<1>14. SameView(g, b, {row})
  BY <1>10, <1>11, <1>12, <1>13 DEF SameView
<1>. QED BY <1>3, <1>4, <1>14 DEF g, row

-----------------------------------------------------------------------------
(* The second pass keeps the view *)

\* Every member of a group follows another one or the head.
Linked(s) == Starts(s) /\ \A k \in 2 .. Len(s) : IsMember(s[k]) => s[k - 1].kind \in MemberKind \union {"group-head"}

\* H: the hints of the first pass.  From(H): what may stand after the second,
\* whose metadata are still those of the first.
From(H) == {h \in Hints : h.kind = "metadata" => h \in H}
Riders(ms, H) == {h \in H : IsCall(h) \/ IsPassthrough(ms, h)}
GroupRows(ms, H) == {GroupRow(ms, b) : b \in {c \in Seq(Riders(ms, H)) : ~(Len(Calls(c)) < GROUP_THRESHOLD)}}

LEMMA LinkedPieces ==
  ASSUME NEW a \in Seq(Hints), NEW b \in Seq(Hints), Linked(a), Linked(b)
  PROVE  Linked(a \o b)
<1>. DEFINE m == Len(a)
            n == Len(b)
            c == a \o b
            Kinds == MemberKind \union {"group-head"}
<1>1. /\ c \in Seq(Hints) /\ Len(c) = m + n /\ m \in Nat /\ n \in Nat
      /\ \A k \in 1 .. m + n : c[k] = IF k <= m THEN a[k] ELSE b[k - m]
  BY ConcatProperties
<1>2. /\ Starts(a) /\ Starts(b)
      /\ \A k \in 2 .. m : IsMember(a[k]) => a[k - 1].kind \in Kinds
      /\ \A k \in 2 .. n : IsMember(b[k]) => b[k - 1].kind \in Kinds
  BY DEF Linked
<1>3. n # 0 => ~IsMember(b[1])
  BY <1>2 DEF Starts
<1>4. m # 0 => ~IsMember(a[1])
  BY <1>2 DEF Starts
<1>. HIDE DEF c, m, n, Kinds
<1>5. Starts(c)
  <2>1. ASSUME c # <<>> PROVE ~IsMember(c[1])
    <3>1. m + n # 0
      BY <1>1, <2>1
    <3>2. 1 \in 1 .. m + n
      BY <1>1, <3>1
    <3>3. CASE m # 0
      <4>1. 1 <= m
        BY <1>1, <3>3
      <4>. QED BY <1>1, <1>4, <3>2, <3>3, <4>1
    <3>4. CASE m = 0
      <4>1. ~(1 <= m) /\ 1 - m = 1 /\ n # 0
        BY <1>1, <3>1, <3>4
      <4>. QED BY <1>1, <1>3, <3>2, <4>1
    <3>. QED BY <3>3, <3>4
  <2>. QED BY <2>1 DEF Starts
<1>6. ASSUME NEW k \in 2 .. m + n, IsMember(c[k]) PROVE c[k - 1].kind \in Kinds
  <2>1. k \in 1 .. m + n /\ k - 1 \in 1 .. m + n
    BY <1>1
  <2>2. CASE k <= m
    <3>1. k \in 2 .. m /\ k - 1 <= m
      BY <1>1, <2>2
    <3>2. c[k] = a[k] /\ c[k - 1] = a[k - 1]
      BY <1>1, <2>1, <2>2, <3>1
    <3>. QED BY <1>2, <1>6, <3>1, <3>2
  <2>3. CASE ~(k <= m)
    <3>1. c[k] = b[k - m]
      BY <1>1, <2>1, <2>3
    <3>2. CASE k - m = 1
      <4>1. n # 0
        BY <1>1, <3>2
      <4>. QED BY <1>3, <1>6, <3>1, <3>2, <4>1
    <3>3. CASE k - m # 1
      <4>1. k - m \in 2 .. n /\ ~(k - 1 <= m) /\ (k - 1) - m = (k - m) - 1
        BY <1>1, <2>3, <3>3
      <4>2. c[k - 1] = b[(k - m) - 1]
        BY <1>1, <2>1, <4>1
      <4>. QED BY <1>2, <1>6, <3>1, <4>1, <4>2
    <3>. QED BY <3>2, <3>3
  <2>. QED BY <2>2, <2>3
<1>. QED BY <1>1, <1>5, <1>6 DEF Linked, c, Kinds

LEMMA PlainIsLinked ==
  ASSUME NEW s \in Seq(PlainHints)
  PROVE  Linked(s)
<1>1. Starts(s)
  BY PlainView
<1>2. ASSUME NEW k \in 2 .. Len(s) PROVE ~IsMember(s[k])
  <2>1. k \in 1 .. Len(s)
    OBVIOUS
  <2>2. s[k].kind \in PlainKind
    BY <2>1 DEF PlainHints
  <2>. QED BY <2>2 DEF PlainKind, IsMember
<1>. QED BY <1>1, <1>2 DEF Linked

LEMMA GroupIsLinked ==
  ASSUME NEW ms, NEW b \in Seq(Gatherable), Calls(b) # <<>>
  PROVE  Linked(GroupOf(ms, b))
<1>. DEFINE g == GroupOf(ms, b)
            n == Len(b)
            at == Calls(b)[1].at
<1>1. g \in Seq(Hints) /\ Len(g) = n + 1 /\ g[1] = HeadOf(ms, b) /\ \A k \in 1 .. n : g[k + 1] = Joined(at, b[k])
  BY GroupTyped
<1>2. n \in Nat /\ (\A k \in 1 .. n : b[k] \in Gatherable)
  OBVIOUS
<1>3. at \in Int
  BY HeadIs
<1>4. g[1].kind = "group-head"
  <2>1. HeadOf(ms, b).kind = "group-head"
    BY HeadIs
  <2>. QED BY <1>1, <2>1
<1>5. Starts(g)
  BY GroupView
<1>. HIDE DEF g, n, at
<1>6. ASSUME NEW k \in 2 .. n + 1 PROVE g[k - 1].kind \in MemberKind \union {"group-head"}
  <2>1. CASE k = 2
    <3>1. k - 1 = 1
      BY <2>1
    <3>. QED BY <1>4, <3>1
  <2>2. CASE k # 2
    <3>1. k - 2 \in 1 .. n /\ (k - 2) + 1 = k - 1
      BY <1>2, <2>2
    <3>2. g[k - 1] = Joined(at, b[k - 2]) /\ b[k - 2] \in Gatherable
      BY <1>1, <1>2, <3>1
    <3>3. IsMember(g[k - 1])
      BY <1>3, <3>2, JoinedIs
    <3>. QED BY <3>3 DEF IsMember, MemberKind
  <2>. QED BY <2>1, <2>2
<1>. QED BY <1>1, <1>5, <1>6 DEF Linked, g

LEMMA RidersAre ==
  ASSUME NEW ms, NEW H, H \subseteq PlainHints
  PROVE  /\ Riders(ms, H) \subseteq Gatherable /\ Riders(ms, H) \subseteq H
         /\ H \subseteq From(H) /\ From(H) \subseteq Hints
         /\ \A b \in Seq(Riders(ms, H)) : b \in Seq(Gatherable) /\ b \in Seq(PlainHints) /\ b \in Seq(From(H))
<1>1. Riders(ms, H) \subseteq Gatherable
  BY DEF Riders, Gatherable, PlainHints, IsCall, IsPassthrough
<1>2. Riders(ms, H) \subseteq H
  BY DEF Riders
<1>3. H \subseteq From(H) /\ From(H) \subseteq Hints
  BY DEF From, PlainHints
<1>4. \A b \in Seq(Riders(ms, H)) : b \in Seq(Gatherable)
  BY <1>1
<1>5. \A b \in Seq(Riders(ms, H)) : b \in Seq(PlainHints)
  BY <1>2
<1>6. \A b \in Seq(Riders(ms, H)) : b \in Seq(From(H))
  <2>1. Riders(ms, H) \subseteq From(H)
    BY <1>2, <1>3
  <2>. QED BY <2>1
<1>. QED BY <1>1, <1>2, <1>3, <1>4, <1>5, <1>6

\* The buffer as it is flushed.
Gathered(ms, b) == IF Len(Calls(b)) < GROUP_THRESHOLD THEN b ELSE GroupOf(ms, b)

LEMMA GatheredIs ==
  ASSUME NEW ms, NEW H, H \subseteq PlainHints, NEW b \in Seq(Riders(ms, H))
  PROVE  /\ Gathered(ms, b) \in Seq(From(H)) /\ Gathered(ms, b) \in Seq(Hints)
         /\ Linked(Gathered(ms, b)) /\ Starts(Gathered(ms, b))
         /\ SameView(Gathered(ms, b), b, GroupRows(ms, H))
<1>1. b \in Seq(Gatherable) /\ b \in Seq(PlainHints) /\ b \in Seq(From(H)) /\ b \in Seq(Hints)
  <2>1. b \in Seq(Hints)
    BY RidersAre, PlainView
  <2>. QED BY <2>1, RidersAre
<1>2. CASE Len(Calls(b)) < GROUP_THRESHOLD
  <2>1. Gathered(ms, b) = b
    BY <1>2 DEF Gathered
  <2>2. Linked(b) /\ Starts(b)
    BY <1>1, PlainIsLinked DEF Linked
  <2>3. SameView(b, b, GroupRows(ms, H))
    BY DEF SameView
  <2>. QED BY <1>1, <2>1, <2>2, <2>3
<1>3. CASE ~(Len(Calls(b)) < GROUP_THRESHOLD)
  <2>1. Gathered(ms, b) = GroupOf(ms, b)
    BY <1>3 DEF Gathered
  <2>2. Calls(b) # <<>>
    <3>1. Calls(b) = <<>> => Len(Calls(b)) = 0
      OBVIOUS
    <3>. QED BY <1>3, <3>1 DEF GROUP_THRESHOLD
  <2>. DEFINE g == GroupOf(ms, b)
              n == Len(b)
              at == Calls(b)[1].at
  <2>3. g \in Seq(Hints) /\ Len(g) = n + 1 /\ g[1] = HeadOf(ms, b) /\ \A k \in 1 .. n : g[k + 1] = Joined(at, b[k])
    BY <1>1, <2>2, GroupTyped
  <2>4. at \in Int /\ HeadOf(ms, b).kind = "group-head"
    BY <1>1, <2>2, HeadIs
  <2>5. n \in Nat /\ \A k \in 1 .. n : b[k] \in Gatherable
    BY <1>1
  <2>. HIDE DEF g, n, at
  <2>6. ASSUME NEW k \in 1 .. n + 1 PROVE g[k] \in From(H)
    <3>1. g[k] \in Hints
      BY <2>3
    <3>2. CASE k = 1
      <4>1. g[k].kind = "group-head"
        BY <2>3, <2>4, <3>2
      <4>. QED BY <3>1, <4>1 DEF From
    <3>3. CASE k # 1
      <4>1. k - 1 \in 1 .. n /\ (k - 1) + 1 = k
        BY <2>5, <3>3
      <4>2. g[k] = Joined(at, b[k - 1]) /\ b[k - 1] \in Gatherable
        BY <2>3, <2>5, <4>1
      <4>3. IsMember(g[k])
        BY <2>4, <4>2, JoinedIs
      <4>. QED BY <3>1, <4>3 DEF From, IsMember
    <3>. QED BY <3>2, <3>3
  <2>7. g \in Seq(From(H))
    <3>1. g \in [1 .. Len(g) -> Hints] /\ Len(g) \in Nat
      BY <2>3
    <3>2. g \in [1 .. Len(g) -> From(H)]
      BY <2>3, <2>6, <3>1
    <3>. QED BY <3>1, <3>2
  <2>8. Linked(g) /\ Starts(g)
    BY <1>1, <2>2, GroupIsLinked DEF Linked, g
  <2>9. SameView(g, b, {GroupRow(ms, b)})
    BY <1>1, <2>2, GroupView DEF g
  <2>10. GroupRow(ms, b) \in GroupRows(ms, H)
    BY <1>3 DEF GroupRows
  <2>11. SameView(g, b, GroupRows(ms, H))
    BY <2>9, <2>10 DEF SameView
  <2>. QED BY <2>1, <2>3, <2>7, <2>8, <2>11 DEF g
<1>. QED BY <1>2, <1>3

LEMMA FlushGroupIs ==
  ASSUME NEW ms, NEW b \in Seq(Gatherable), NEW out \in Seq(Hints), NEW acc,
         acc.out = out, acc.buffer = b
  PROVE  FlushGroup(ms, acc) = [out |-> out \o Gathered(ms, b), buffer |-> <<>>]
<1>1. CASE Len(Calls(b)) < GROUP_THRESHOLD
  BY <1>1 DEF FlushGroup, Gathered
<1>2. CASE ~(Len(Calls(b)) < GROUP_THRESHOLD)
  <2>. DEFINE head == <<HeadOf(ms, b)>>
              t == [k \in DOMAIN b |-> Joined(Calls(b)[1].at, b[k])]
  <2>1. FlushGroup(ms, acc) = [out |-> out \o head \o t, buffer |-> <<>>]
    BY <1>2 DEF FlushGroup, HeadOf, Joined
  <2>2. Gathered(ms, b) = head \o t
    BY <1>2 DEF Gathered, GroupOf
  <2>3. Calls(b) # <<>>
    <3>1. Calls(b) = <<>> => Len(Calls(b)) = 0
      OBVIOUS
    <3>. QED BY <1>2, <3>1 DEF GROUP_THRESHOLD
  <2>4. head \in Seq(Hints)
    <3>1. HeadOf(ms, b) \in Hints
      BY <2>3, HeadIs
    <3>. QED BY <3>1
  <2>5. t \in Seq(Hints)
    <3>1. Calls(b)[1].at \in Int
      BY <2>3, HeadIs
    <3>2. \A k \in DOMAIN b : Joined(Calls(b)[1].at, b[k]) \in Hints
      BY <3>1, JoinedIs
    <3>. QED BY <3>2
  <2>. HIDE DEF head, t
  <2>6. (out \o head) \o t = out \o (head \o t)
    BY <2>4, <2>5, ConcatAssociative
  <2>. QED BY <2>1, <2>2, <2>6
<1>. QED BY <1>1, <1>2

Halfway(ms, H) == [out : Seq(From(H)), buffer : Seq(Riders(ms, H))]

\* The pass has read s, and what it has and holds looks like s.
GroupedSoFar(ms, H, acc, s) ==
  /\ acc \in Halfway(ms, H)
  /\ Linked(acc.out)
  /\ SameView(acc.out \o acc.buffer, s, GroupRows(ms, H))

LEMMA FlushTyped ==
  ASSUME NEW ms, NEW H, H \subseteq PlainHints, NEW acc \in Halfway(ms, H)
  PROVE  /\ FlushGroup(ms, acc) = [out |-> acc.out \o Gathered(ms, acc.buffer), buffer |-> <<>>]
         /\ FlushGroup(ms, acc) \in Halfway(ms, H)
         /\ acc.out \in Seq(Hints) /\ acc.buffer \in Seq(Hints) /\ Starts(acc.buffer)
<1>. DEFINE out == acc.out
            b == acc.buffer
            w == Gathered(ms, b)
<1>1. out \in Seq(From(H)) /\ b \in Seq(Riders(ms, H))
  BY DEF Halfway
<1>2. out \in Seq(Hints)
  BY <1>1, RidersAre
<1>3. b \in Seq(Gatherable) /\ b \in Seq(PlainHints)
  BY <1>1, RidersAre
<1>4. b \in Seq(Hints) /\ Starts(b)
  BY <1>3, PlainView
<1>5. FlushGroup(ms, acc) = [out |-> out \o w, buffer |-> <<>>]
  <2>. HIDE DEF out, b
  <2>. QED BY <1>2, <1>3, FlushGroupIs DEF out, b
<1>6. w \in Seq(From(H))
  BY <1>1, GatheredIs
<1>. HIDE DEF out, b, w
<1>7. out \o w \in Seq(From(H))
  BY <1>1, <1>6, ConcatProperties
<1>8. FlushGroup(ms, acc) \in Halfway(ms, H)
  <2>1. <<>> \in Seq(Riders(ms, H))
    OBVIOUS
  <2>. QED BY <1>5, <1>7, <2>1 DEF Halfway
<1>. QED BY <1>2, <1>4, <1>5, <1>8 DEF out, b, w

LEMMA FlushKeeps ==
  ASSUME NEW ms, NEW H, H \subseteq PlainHints, NEW acc, NEW s \in Seq(Hints), GroupedSoFar(ms, H, acc, s)
  PROVE  /\ FlushGroup(ms, acc) \in Halfway(ms, H)
         /\ FlushGroup(ms, acc).buffer = <<>>
         /\ Linked(FlushGroup(ms, acc).out)
         /\ SameView(FlushGroup(ms, acc).out, s, GroupRows(ms, H))
<1>. DEFINE out == acc.out
            b == acc.buffer
            w == Gathered(ms, b)
            X == GroupRows(ms, H)
            done == FlushGroup(ms, acc)
<1>1. acc \in Halfway(ms, H) /\ Linked(out) /\ SameView(out \o b, s, X)
  BY DEF GroupedSoFar
<1>2. done = [out |-> out \o w, buffer |-> <<>>] /\ done \in Halfway(ms, H)
        /\ out \in Seq(Hints) /\ b \in Seq(Hints) /\ Starts(b)
  BY <1>1, FlushTyped
<1>3. w \in Seq(Hints) /\ Linked(w) /\ Starts(w) /\ SameView(w, b, X)
  <2>1. b \in Seq(Riders(ms, H))
    BY <1>1 DEF Halfway
  <2>. QED BY <2>1, GatheredIs
<1>. HIDE DEF out, b, w, X, done
<1>4. done.out = out \o w /\ done.buffer = <<>>
  BY <1>2
<1>5. Linked(out \o w)
  BY <1>1, <1>2, <1>3, LinkedPieces
<1>6. SameView(out \o w, out \o b, X)
  BY <1>2, <1>3, SameViewBehind
<1>7. SameView(out \o w, s, X)
  <2>. DEFINE x == out \o w
              y == out \o b
  <2>1. SameView(x, y, X) /\ SameView(y, s, X)
    BY <1>1, <1>6
  <2>. HIDE DEF x, y
  <2>2. SameView(x, s, X)
    BY <2>1, SameViewTwice
  <2>. QED BY <2>2 DEF x
<1>. QED BY <1>2, <1>4, <1>5, <1>7 DEF done, X

LEMMA TakeCallKeeps ==
  ASSUME NEW ms, NEW H, H \subseteq PlainHints, NEW acc, NEW s \in Seq(Hints), GroupedSoFar(ms, H, acc, s),
         NEW h \in H
  PROVE  GroupedSoFar(ms, H, TakeCall(ms, acc, h), s \o <<h>>)
<1>. DEFINE out == acc.out
            b == acc.buffer
            X == GroupRows(ms, H)
            one == <<h>>
            next == TakeCall(ms, acc, h)
<1>1. acc \in Halfway(ms, H) /\ Linked(out) /\ SameView(out \o b, s, X)
  BY DEF GroupedSoFar
<1>2. out \in Seq(Hints) /\ b \in Seq(Hints)
  BY <1>1, FlushTyped
<1>3. one \in Seq(PlainHints) /\ h \in From(H)
  <2>1. h \in From(H)
    BY RidersAre
  <2>2. h \in PlainHints
    OBVIOUS
  <2>. QED BY <2>1, <2>2
<1>4. one \in Seq(Hints) /\ Starts(one) /\ Linked(one)
  <2>. HIDE DEF one
  <2>. QED BY <1>3, PlainView, PlainIsLinked
<1>5. CASE IsCall(h) \/ IsPassthrough(ms, h)
  <2>1. h \in Riders(ms, H)
    BY <1>5 DEF Riders
  <2>2. next = [acc EXCEPT !.buffer = Append(b, h)]
    BY <1>5 DEF TakeCall
  <2>3. acc.out \in Seq(From(H)) /\ b \in Seq(Riders(ms, H))
    BY <1>1 DEF Halfway
  <2>4. Append(b, h) = b \o one /\ Append(b, h) \in Seq(Riders(ms, H))
    BY <2>1, <2>3, OneMore
  <2>5. next \in Halfway(ms, H) /\ next.out = out /\ next.buffer = b \o one
    <3>. DEFINE more == Append(b, h)
    <3>1. more \in Seq(Riders(ms, H)) /\ more = b \o one
      BY <2>4
    <3>. HIDE DEF more
    <3>2. next = [acc EXCEPT !.buffer = more]
      BY <2>2 DEF more
    <3>. HIDE DEF next
    <3>3. next \in Halfway(ms, H) /\ next.out = out /\ next.buffer = more
      BY <1>1, <3>1, <3>2 DEF Halfway
    <3>. QED BY <3>1, <3>3
  <2>. HIDE DEF out, b, X, one, next
  <2>6. (out \o b) \o one = out \o (b \o one)
    BY <1>2, <1>4, ConcatAssociative
  <2>7. SameView((out \o b) \o one, s \o one, X)
    <3>1. out \o b \in Seq(Hints)
      BY <1>2, ConcatProperties
    <3>. DEFINE x == out \o b
    <3>. HIDE DEF x
    <3>2. SameView(x \o one, s \o one, X)
      BY <1>1, <1>4, <3>1, SameViewBefore DEF x
    <3>. QED BY <3>2 DEF x
  <2>8. SameView(next.out \o next.buffer, s \o one, X)
    BY <2>5, <2>6, <2>7
  <2>. QED BY <1>1, <2>5, <2>8 DEF GroupedSoFar, next, X, one
<1>6. CASE ~(IsCall(h) \/ IsPassthrough(ms, h))
  <2>. DEFINE done == FlushGroup(ms, acc)
              o == done.out
  <2>1. done \in Halfway(ms, H) /\ done.buffer = <<>> /\ Linked(o) /\ SameView(o, s, X)
    BY FlushKeeps
  <2>2. next = [done EXCEPT !.out = Append(o, h)]
    BY <1>6 DEF TakeCall
  <2>3. o \in Seq(From(H)) /\ o \in Seq(Hints)
    <3>1. o \in Seq(Hints)
      <4>. HIDE DEF done
      <4>. QED BY <2>1, FlushTyped
    <3>. QED BY <2>1, <3>1 DEF Halfway
  <2>. HIDE DEF done
  <2>4. Append(o, h) = o \o one /\ Append(o, h) \in Seq(From(H))
    BY <1>3, <2>3, OneMore
  <2>5. next \in Halfway(ms, H) /\ next.out = o \o one /\ next.buffer = <<>>
    <3>. DEFINE more == Append(o, h)
    <3>1. more \in Seq(From(H)) /\ more = o \o one
      BY <2>4
    <3>. HIDE DEF more
    <3>2. next = [done EXCEPT !.out = more]
      BY <2>2 DEF more
    <3>. HIDE DEF next, o
    <3>3. next \in Halfway(ms, H) /\ next.out = more /\ next.buffer = done.buffer
      BY <2>1, <3>1, <3>2 DEF Halfway
    <3>. QED BY <2>1, <3>1, <3>3
  <2>. HIDE DEF o, X, one, next
  <2>6. Linked(o \o one)
    BY <1>4, <2>1, <2>3, LinkedPieces
  <2>7. SameView(o \o one, s \o one, X)
    BY <1>4, <2>1, <2>3, SameViewBefore
  <2>8. (o \o one) \o <<>> = o \o one
    <3>1. o \o one \in Seq(Hints)
      BY <1>4, <2>3, ConcatProperties
    <3>. QED BY <3>1, ConcatEmptySeq
  <2>9. SameView(next.out \o next.buffer, s \o one, X)
    BY <2>5, <2>7, <2>8
  <2>. QED BY <2>5, <2>6, <2>9 DEF GroupedSoFar, next, X, one
<1>. QED BY <1>5, <1>6

LEMMA TakeCallTyped ==
  ASSUME NEW ms, NEW H, H \subseteq PlainHints, NEW acc \in Halfway(ms, H), NEW h \in H
  PROVE  TakeCall(ms, acc, h) \in Halfway(ms, H)
<1>1. h \in From(H)
  BY RidersAre
<1>2. CASE IsCall(h) \/ IsPassthrough(ms, h)
  <2>. DEFINE more == Append(acc.buffer, h)
  <2>1. TakeCall(ms, acc, h) = [acc EXCEPT !.buffer = more]
    BY <1>2 DEF TakeCall
  <2>2. more \in Seq(Riders(ms, H))
    BY <1>2 DEF Riders, Halfway
  <2>. HIDE DEF more
  <2>. QED BY <2>1, <2>2 DEF Halfway
<1>3. CASE ~(IsCall(h) \/ IsPassthrough(ms, h))
  <2>. DEFINE done == FlushGroup(ms, acc)
              more == Append(done.out, h)
  <2>1. done \in Halfway(ms, H)
    BY FlushTyped
  <2>2. TakeCall(ms, acc, h) = [done EXCEPT !.out = more]
    BY <1>3 DEF TakeCall
  <2>. HIDE DEF done
  <2>3. more \in Seq(From(H))
    BY <1>1, <2>1 DEF Halfway
  <2>. HIDE DEF more
  <2>. QED BY <2>1, <2>2, <2>3 DEF Halfway
<1>. QED BY <1>2, <1>3

\* What the second pass makes of the hints of the first looks the same; a
\* row it adds is that of a group.
LEMMA GroupPass ==
  ASSUME NEW ms, NEW H, H \subseteq PlainHints, NEW hs \in Seq(H)
  PROVE  /\ GroupLifecycles(ms, hs) \in Seq(From(H))
         /\ Linked(GroupLifecycles(ms, hs))
         /\ SameView(GroupLifecycles(ms, hs), hs, GroupRows(ms, H))
<1>. DEFINE n == Len(hs)
            V == Halfway(ms, H)
            base == [out |-> <<>>, buffer |-> <<>>]
            step == [i \in 1 .. n |-> [o \in V |-> TakeCall(ms, o, hs[i])]]
            Folds(g) == g = [s \in SUBSET (1 .. n) |->
                               IF s = {} THEN base ELSE TakeCall(ms, g[s \ {Max(s)}], hs[Max(s)])]
<1>1. n \in Nat /\ DOMAIN hs = 1 .. n /\ \A i \in 1 .. n : hs[i] \in H
  OBVIOUS
<1>2. base \in V
  <2>1. <<>> \in Seq(From(H)) /\ <<>> \in Seq(Riders(ms, H))
    OBVIOUS
  <2>. QED BY <2>1 DEF Halfway
<1>3. \A i \in 1 .. n, o \in V : TakeCall(ms, o, hs[i]) \in V
  BY <1>1, TakeCallTyped
<1>. HIDE DEF n, base, V
<1>4. step \in [1 .. n -> [V -> V]]
  BY <1>3
<1>5. \A s \in SUBSET (1 .. n) : s # {} => Max(s) \in 1 .. n /\ s \ {Max(s)} \in SUBSET (1 .. n)
  BY <1>1, SomePosition
<1>6. \E g : Folds(g)
  <2>1. PICK g : Folding(g, n, V, base, step)
    <3>. HIDE DEF step
    <3>. QED BY <1>1, <1>2, <1>4, FoldSolves
  <2>2. /\ g \in [SUBSET (1 .. n) -> V]
        /\ \A s \in SUBSET (1 .. n) : g[s] = IF s = {} THEN base ELSE step[Max(s)][g[s \ {Max(s)}]]
    BY <2>1 DEF Folding
  <2>3. \A s \in SUBSET (1 .. n) : g[s] = IF s = {} THEN base ELSE TakeCall(ms, g[s \ {Max(s)}], hs[Max(s)])
    BY <1>5, <2>2
  <2>4. g = [s \in SUBSET (1 .. n) |-> g[s]]
    BY <2>2
  <2>5. Folds(g)
    BY <2>3, <2>4
  <2>. HIDE DEF Folds
  <2>. QED BY <2>5
<1>. HIDE DEF step
<1>. DEFINE f == CHOOSE g : Folds(g)
            fold == FoldLeft(LAMBDA acc, h : TakeCall(ms, acc, h), base, hs)
<1>7. Folds(f)
  <2>. HIDE DEF Folds
  <2>. QED BY <1>6
<1>8. fold = f[1 .. n]
  BY <1>1 DEF FoldLeft, MapThenFoldSet
<1>9. GroupLifecycles(ms, hs) = FlushGroup(ms, fold).out
  BY DEF GroupLifecycles, base
<1>. HIDE DEF f, fold
<1>10. f[1 .. 0] = base /\ \A k \in 1 .. n : f[1 .. k] = TakeCall(ms, f[1 .. k - 1], hs[k])
  <2>1. f[1 .. 0] = base
    <3>. DEFINE s == 1 .. 0
    <3>1. s = {} /\ s \in SUBSET (1 .. n)
      OBVIOUS
    <3>. HIDE DEF s
    <3>2. f[s] = base
      BY <1>7, <3>1
    <3>. QED BY <3>2 DEF s
  <2>2. ASSUME NEW k \in 1 .. n PROVE f[1 .. k] = TakeCall(ms, f[1 .. k - 1], hs[k])
    <3>. DEFINE s == 1 .. k
    <3>1. s \in SUBSET (1 .. n) /\ s # {}
      <4>1. k \in s
        BY <1>1
      <4>2. \A i \in s : i \in 1 .. n
        BY <1>1
      <4>. HIDE DEF s
      <4>. QED BY <4>1, <4>2
    <3>2. Max(s) = k /\ s \ {k} = 1 .. k - 1
      BY <1>1, LastPosition
    <3>. HIDE DEF s
    <3>3. f[s] = TakeCall(ms, f[s \ {Max(s)}], hs[Max(s)])
      BY <1>7, <3>1
    <3>4. f[s] = TakeCall(ms, f[1 .. k - 1], hs[k])
      BY <3>2, <3>3
    <3>. QED BY <3>4 DEF s
  <2>. QED BY <2>1, <2>2
<1>. HIDE DEF Folds
<1>11. /\ Upto(hs, 0) = <<>> /\ Upto(hs, n) = hs
       /\ \A k \in 0 .. n : Upto(hs, k) \in Seq(H)
       /\ \A k \in 1 .. n : Upto(hs, k) = Upto(hs, k - 1) \o <<hs[k]>>
  BY UptoGrows DEF n
<1>12. \A k \in 0 .. n : Upto(hs, k) \in Seq(Hints)
  <2>1. H \subseteq Hints
    BY DEF PlainHints
  <2>. QED BY <1>11, <2>1
<1>. DEFINE D == {k \in 0 .. n : GroupedSoFar(ms, H, f[1 .. k], Upto(hs, k))}
<1>13. 0 \in D
  <2>1. 0 \in 0 .. n
    BY <1>1
  <2>2. Linked(base.out) /\ base.out \o base.buffer = <<>>
    <3>1. base.out = <<>> /\ base.buffer = <<>>
      BY DEF base
    <3>2. <<>> \in Seq(PlainHints) /\ <<>> \o <<>> = <<>>
      OBVIOUS
    <3>3. Linked(<<>>)
      BY <3>2, PlainIsLinked
    <3>. QED BY <3>1, <3>2, <3>3
  <2>3. SameView(<<>>, <<>>, GroupRows(ms, H))
    BY DEF SameView
  <2>4. GroupedSoFar(ms, H, base, <<>>)
    BY <1>2, <2>2, <2>3 DEF GroupedSoFar, V
  <2>. QED BY <1>10, <1>11, <2>1, <2>4
<1>14. ASSUME NEW k \in 1 .. n, k - 1 \in D PROVE k \in D
  <2>1. k \in 0 .. n /\ k - 1 \in 0 .. n
    BY <1>1
  <2>. DEFINE acc == f[1 .. k - 1]
              s == Upto(hs, k - 1)
              h == hs[k]
  <2>2. GroupedSoFar(ms, H, acc, s)
    BY <1>14
  <2>3. s \in Seq(Hints) /\ h \in H
    BY <1>1, <1>12, <2>1
  <2>. HIDE DEF acc, s, h
  <2>4. GroupedSoFar(ms, H, TakeCall(ms, acc, h), s \o <<h>>)
    BY <2>2, <2>3, TakeCallKeeps
  <2>5. f[1 .. k] = TakeCall(ms, acc, h) /\ Upto(hs, k) = s \o <<h>>
    BY <1>10, <1>11 DEF acc, s, h
  <2>. QED BY <2>1, <2>4, <2>5
<1>15. n \in D
  <2>1. n \in 0 .. n
    BY <1>1
  <2>. HIDE DEF D
  <2>. QED BY <1>1, <1>13, <1>14, <2>1, Upward
<1>16. GroupedSoFar(ms, H, fold, hs)
  BY <1>8, <1>11, <1>15
<1>17. hs \in Seq(Hints)
  <2>1. n \in 0 .. n
    BY <1>1
  <2>. QED BY <1>11, <1>12, <2>1
<1>. DEFINE done == FlushGroup(ms, fold)
<1>18. done \in Halfway(ms, H) /\ Linked(done.out) /\ SameView(done.out, hs, GroupRows(ms, H))
  BY <1>16, <1>17, FlushKeeps
<1>19. done.out \in Seq(From(H))
  <2>. HIDE DEF done
  <2>. QED BY <1>18 DEF Halfway
<1>. QED BY <1>9, <1>18, <1>19

-----------------------------------------------------------------------------
(* The third pass keeps the view *)

MetaIn(H) == {h \in H : h.kind = "metadata"}
ClusterRows(H) == {ClusterRow(b) : b \in Seq(MetaIn(H))}
Clustering(H) == [out : Seq(Hints), buffer : Seq(MetaIn(H))]
Compact(b) == IF Len(b) < METADATA_COLLAPSE_THRESHOLD THEN b ELSE ClusterOf(b)

LEMMA MetaInIs ==
  ASSUME NEW H, H \subseteq PlainHints
  PROVE  /\ MetaIn(H) \subseteq MetaHints /\ MetaIn(H) \subseteq PlainHints
         /\ \A b \in Seq(MetaIn(H)) : b \in Seq(MetaHints) /\ b \in Seq(PlainHints)
<1>1. MetaIn(H) \subseteq MetaHints /\ MetaIn(H) \subseteq PlainHints
  BY DEF MetaIn, MetaHints, PlainHints
<1>2. \A b \in Seq(MetaIn(H)) : b \in Seq(MetaHints)
  BY <1>1
<1>3. \A b \in Seq(MetaIn(H)) : b \in Seq(PlainHints)
  BY <1>1
<1>. QED BY <1>1, <1>2, <1>3

LEMMA CompactIs ==
  ASSUME NEW H, H \subseteq PlainHints, NEW b \in Seq(MetaIn(H))
  PROVE  /\ b \in Seq(Hints) /\ Starts(b)
         /\ Compact(b) \in Seq(Hints) /\ Starts(Compact(b))
         /\ SameView(Compact(b), b, ClusterRows(H))
<1>1. b \in Seq(Hints) /\ Starts(b) /\ b \in Seq(MetaHints)
  <2>1. b \in Seq(MetaHints) /\ b \in Seq(PlainHints)
    BY MetaInIs
  <2>. QED BY <2>1, PlainView
<1>2. CASE Len(b) < METADATA_COLLAPSE_THRESHOLD
  <2>1. SameView(b, b, ClusterRows(H))
    BY DEF SameView
  <2>. QED BY <1>1, <1>2, <2>1 DEF Compact
<1>3. CASE ~(Len(b) < METADATA_COLLAPSE_THRESHOLD)
  <2>1. Compact(b) = ClusterOf(b)
    BY <1>3 DEF Compact
  <2>2. b # <<>>
    <3>1. b = <<>> => Len(b) = 0
      OBVIOUS
    <3>. QED BY <1>3, <3>1 DEF METADATA_COLLAPSE_THRESHOLD
  <2>3. SameView(ClusterOf(b), b, {ClusterRow(b)}) /\ Starts(ClusterOf(b)) /\ ClusterOf(b) \in Seq(Hints)
    BY <1>1, <2>2, ClusterView, ClusterTyped
  <2>4. SameView(ClusterOf(b), b, ClusterRows(H))
    BY <2>3 DEF SameView, ClusterRows
  <2>. QED BY <1>1, <2>1, <2>3, <2>4
<1>. QED BY <1>2, <1>3

LEMMA FlushClusterIs ==
  ASSUME NEW H, H \subseteq PlainHints, NEW acc \in Clustering(H)
  PROVE  /\ FlushCluster(acc) = [out |-> acc.out \o Compact(acc.buffer), buffer |-> <<>>]
         /\ FlushCluster(acc) \in Clustering(H)
<1>. DEFINE out == acc.out
            b == acc.buffer
            w == Compact(b)
<1>1. out \in Seq(Hints) /\ b \in Seq(MetaIn(H))
  BY DEF Clustering
<1>2. w \in Seq(Hints)
  BY <1>1, CompactIs
<1>3. FlushCluster(acc) = [out |-> out \o w, buffer |-> <<>>]
  <2>1. CASE Len(b) < METADATA_COLLAPSE_THRESHOLD
    BY <2>1 DEF FlushCluster, Compact
  <2>2. CASE ~(Len(b) < METADATA_COLLAPSE_THRESHOLD)
    <3>. DEFINE head == <<ClusterHead(b)>>
                t == [k \in DOMAIN b |-> Clustered(b[1].at, b[k])]
    <3>1. FlushCluster(acc) = [out |-> out \o head \o t, buffer |-> <<>>]
      BY <2>2 DEF FlushCluster, ClusterHead, AtsOf, Clustered
    <3>2. w = head \o t
      BY <2>2 DEF Compact, ClusterOf
    <3>3. b # <<>> /\ b \in Seq(Hints)
      <4>1. b = <<>> => Len(b) = 0
        OBVIOUS
      <4>2. b \in Seq(Hints)
        BY <1>1, CompactIs
      <4>. QED BY <2>2, <4>1, <4>2 DEF METADATA_COLLAPSE_THRESHOLD
    <3>4. DOMAIN b = 1 .. Len(b) /\ 1 \in 1 .. Len(b) /\ \A k \in 1 .. Len(b) : b[k] \in Hints
      BY <3>3
    <3>5. b[1].at \in Int /\ AtsOf(b) \in Seq(Int)
      <4>1. \A k \in 1 .. Len(b) : b[k].at \in Int
        BY <3>4 DEF Hints
      <4>2. AtsOf(b) \in [1 .. Len(b) -> Int]
        BY <3>4, <4>1 DEF AtsOf
      <4>3. Len(b) \in Nat
        BY <3>3
      <4>. QED BY <3>4, <4>1, <4>2, <4>3
    <3>6. head \in Seq(Hints)
      <4>. DEFINE first == b[1]
                  at == first.at
                  ats == AtsOf(b)
                  n1 == [first EXCEPT !.kind = "metadata-cluster-head"]
                  n2 == [n1 EXCEPT !.head = at]
                  n3 == [n2 EXCEPT !.indices = ats]
      <4>1. ClusterHead(b) = n3 /\ first \in Hints /\ at \in Int /\ ats \in Seq(Int)
        BY <3>4, <3>5 DEF ClusterHead
      <4>. HIDE DEF first, ats, at
      <4>2. n1 \in Hints
        BY <4>1 DEF Hints, HintKind, ClusterKind
      <4>. HIDE DEF n1
      <4>3. n2 \in Hints
        BY <4>1, <4>2 DEF Hints
      <4>. HIDE DEF n2
      <4>4. n3 \in Hints
        BY <4>1, <4>3 DEF Hints
      <4>. HIDE DEF n3
      <4>. QED BY <4>1, <4>4
    <3>7. t \in Seq(Hints)
      <4>. DEFINE at == b[1].at
      <4>1. ASSUME NEW e \in Hints PROVE Clustered(at, e) \in Hints
        <5>. DEFINE n1 == [e EXCEPT !.kind = "metadata-cluster-member"]
                    n2 == [n1 EXCEPT !.head = at]
        <5>1. Clustered(at, e) = n2 /\ at \in Int
          BY <3>5 DEF Clustered
        <5>. HIDE DEF at
        <5>2. n1 \in Hints
          BY DEF Hints, HintKind, ClusterKind
        <5>. HIDE DEF n1
        <5>3. n2 \in Hints
          BY <5>1, <5>2 DEF Hints
        <5>. QED BY <5>1, <5>3
      <4>2. \A k \in DOMAIN b : Clustered(at, b[k]) \in Hints
        BY <3>4, <4>1
      <4>. HIDE DEF at
      <4>3. [k \in DOMAIN b |-> Clustered(at, b[k])] \in [1 .. Len(b) -> Hints] /\ Len(b) \in Nat
        BY <3>3, <3>4, <4>2
      <4>. QED BY <4>3 DEF at
    <3>. HIDE DEF head, t, out
    <3>8. (out \o head) \o t = out \o (head \o t)
      BY <1>1, <3>6, <3>7, ConcatAssociative
    <3>. QED BY <3>1, <3>2, <3>8
  <2>. QED BY <2>1, <2>2
<1>. HIDE DEF w
<1>4. FlushCluster(acc) \in Clustering(H)
  <2>1. out \o w \in Seq(Hints) /\ <<>> \in Seq(MetaIn(H))
    BY <1>1, <1>2, ConcatProperties
  <2>. HIDE DEF out
  <2>. QED BY <1>3, <2>1 DEF Clustering
<1>. QED BY <1>3, <1>4 DEF w

LEMMA FlushClusterKeeps ==
  ASSUME NEW H, H \subseteq PlainHints, NEW acc \in Clustering(H), NEW rest \in Seq(Hints), NEW y,
         acc.buffer # <<>> => Starts(rest),
         SameView((acc.out \o acc.buffer) \o rest, y, ClusterRows(H))
  PROVE  SameView(FlushCluster(acc).out \o rest, y, ClusterRows(H))
<1>. DEFINE out == acc.out
            b == acc.buffer
            w == Compact(b)
            X == ClusterRows(H)
            u == out \o w
            v == out \o b
            r == u \o rest
            q == v \o rest
<1>1. out \in Seq(Hints) /\ b \in Seq(MetaIn(H))
  BY DEF Clustering
<1>2. b \in Seq(Hints) /\ Starts(b) /\ w \in Seq(Hints) /\ Starts(w) /\ SameView(w, b, X)
  BY <1>1, CompactIs
<1>3. FlushCluster(acc).out = u
  <2>1. FlushCluster(acc) = [out |-> out \o w, buffer |-> <<>>]
    BY FlushClusterIs
  <2>. HIDE DEF out, w
  <2>. QED BY <2>1
<1>4. SameView(q, y, X) /\ (b # <<>> => Starts(rest))
  OBVIOUS
<1>5. CASE b = <<>>
  <2>1. w = b
    BY <1>5 DEF Compact, METADATA_COLLAPSE_THRESHOLD
  <2>. QED BY <1>3, <1>4, <2>1
<1>6. CASE b # <<>>
  <2>. HIDE DEF out, b, w, X
  <2>1. SameView(u, v, X) /\ u \in Seq(Hints) /\ v \in Seq(Hints)
    BY <1>1, <1>2, SameViewBehind, ConcatProperties
  <2>. HIDE DEF u, v
  <2>2. SameView(r, q, X)
    BY <1>4, <1>6, <2>1, SameViewBefore
  <2>. HIDE DEF r, q
  <2>3. SameView(r, y, X)
    BY <1>4, <2>2, SameViewTwice
  <2>. QED BY <1>3, <2>3 DEF r, X
<1>. QED BY <1>5, <1>6

\* The pass has read the first k hints of gs; what it has, what it holds and
\* what it has not read yet look like gs.  What it holds is metadata.
ClusteredSoFar(H, gs, acc, k) ==
  /\ acc \in Clustering(H)
  /\ acc.buffer # <<>> => k # 0 /\ gs[k].kind = "metadata"
  /\ SameView((acc.out \o acc.buffer) \o Rest(gs, k), gs, ClusterRows(H))

LEMMA TakeMetadataTyped ==
  ASSUME NEW H, H \subseteq PlainHints, NEW acc \in Clustering(H), NEW h \in From(H)
  PROVE  /\ TakeMetadata(acc, h) \in Clustering(H)
         /\ h.kind = "metadata" => /\ TakeMetadata(acc, h).out = acc.out
                                   /\ TakeMetadata(acc, h).buffer = acc.buffer \o <<h>>
         /\ h.kind # "metadata" => /\ TakeMetadata(acc, h).out = FlushCluster(acc).out \o <<h>>
                                   /\ TakeMetadata(acc, h).buffer = <<>>
<1>1. h \in Hints
  BY DEF From
<1>2. CASE h.kind = "metadata"
  <2>. DEFINE b == acc.buffer
              more == Append(b, h)
              next == TakeMetadata(acc, h)
  <2>1. h \in MetaIn(H) /\ b \in Seq(MetaIn(H))
    BY <1>2 DEF From, MetaIn, Clustering
  <2>2. next = [acc EXCEPT !.buffer = more]
    BY <1>2 DEF TakeMetadata
  <2>3. more = b \o <<h>> /\ more \in Seq(MetaIn(H))
    <3>. HIDE DEF b
    <3>. QED BY <2>1, OneMore
  <2>. HIDE DEF next, more
  <2>4. next \in Clustering(H) /\ next.out = acc.out /\ next.buffer = more
    BY <2>2, <2>3 DEF Clustering
  <2>. QED BY <1>2, <2>3, <2>4 DEF next
<1>3. CASE h.kind # "metadata"
  <2>. DEFINE done == FlushCluster(acc)
              o == done.out
              more == Append(o, h)
              next == TakeMetadata(acc, h)
  <2>1. done \in Clustering(H) /\ done.buffer = <<>>
    <3>1. done = [out |-> acc.out \o Compact(acc.buffer), buffer |-> <<>>] /\ done \in Clustering(H)
      BY FlushClusterIs
    <3>. HIDE DEF done
    <3>. QED BY <3>1
  <2>2. next = [done EXCEPT !.out = more]
    BY <1>3 DEF TakeMetadata
  <2>3. o \in Seq(Hints)
    <3>. HIDE DEF done
    <3>. QED BY <2>1 DEF Clustering
  <2>4. more = o \o <<h>> /\ more \in Seq(Hints)
    <3>. HIDE DEF o
    <3>. QED BY <1>1, <2>3, OneMore
  <2>. HIDE DEF next, more, done
  <2>5. next \in Clustering(H) /\ next.out = more /\ next.buffer = done.buffer
    BY <2>1, <2>2, <2>4 DEF Clustering
  <2>. QED BY <1>3, <2>1, <2>4, <2>5 DEF next, done
<1>. QED BY <1>2, <1>3

LEMMA TakeMetadataKeeps ==
  ASSUME NEW H, H \subseteq PlainHints, NEW gs \in Seq(From(H)), Linked(gs), NEW acc, NEW k \in 1 .. Len(gs),
         ClusteredSoFar(H, gs, acc, k - 1)
  PROVE  ClusteredSoFar(H, gs, TakeMetadata(acc, gs[k]), k)
<1>. DEFINE n == Len(gs)
            h == gs[k]
            one == <<h>>
            out == acc.out
            b == acc.buffer
            rest == Rest(gs, k)
            X == ClusterRows(H)
            next == TakeMetadata(acc, h)
<1>1. /\ acc \in Clustering(H) /\ (b # <<>> => k - 1 # 0 /\ gs[k - 1].kind = "metadata")
      /\ SameView((out \o b) \o Rest(gs, k - 1), gs, X)
  BY DEF ClusteredSoFar
<1>2. n \in Nat /\ h \in From(H) /\ k \in Nat /\ k # 0
  OBVIOUS
<1>3. gs \in Seq(Hints)
  <2>1. From(H) \subseteq Hints
    BY DEF From
  <2>. QED BY <2>1
<1>4. rest \in Seq(Hints) /\ Rest(gs, k - 1) = one \o rest
  <2>1. k \in 0 .. n
    BY <1>2
  <2>. QED BY <1>3, <2>1, RestShrinks
<1>5. one \in Seq(Hints)
  <2>1. h \in Hints
    BY <1>3
  <2>. QED BY <2>1
<1>6. out \in Seq(Hints) /\ b \in Seq(Hints)
  <2>1. out \in Seq(Hints) /\ b \in Seq(MetaIn(H))
    BY <1>1 DEF Clustering
  <2>. QED BY <2>1, CompactIs
<1>7. /\ next \in Clustering(H)
      /\ h.kind = "metadata" => next.out = out /\ next.buffer = b \o one
      /\ h.kind # "metadata" => next.out = FlushCluster(acc).out \o one /\ next.buffer = <<>>
  <2>. HIDE DEF h
  <2>. QED BY <1>1, <1>2, TakeMetadataTyped
<1>8. CASE h.kind = "metadata"
  <2>. HIDE DEF out, b, one, rest, X, next
  <2>1. (out \o b) \o (one \o rest) = (out \o (b \o one)) \o rest
    <3>. DEFINE u == out \o b
    <3>1. u \in Seq(Hints)
      BY <1>6, ConcatProperties
    <3>2. u \o one = out \o (b \o one)
      <4>1. out \in Seq(Hints) /\ b \in Seq(Hints) /\ one \in Seq(Hints)
        BY <1>5, <1>6
      <4>. QED BY <4>1, ConcatAssociative, SMTT(30)
    <3>. HIDE DEF u
    <3>3. (u \o one) \o rest = u \o (one \o rest)
      <4>1. u \in Seq(Hints) /\ one \in Seq(Hints) /\ rest \in Seq(Hints)
        BY <1>4, <1>5, <3>1
      <4>. QED BY <4>1, ConcatAssociative
    <3>. QED BY <3>2, <3>3 DEF u
  <2>2. SameView((next.out \o next.buffer) \o rest, gs, X)
    BY <1>1, <1>4, <1>7, <1>8, <2>1
  <2>. QED BY <1>2, <1>7, <1>8, <2>2 DEF ClusteredSoFar, next, rest, X, h
<1>9. CASE h.kind # "metadata"
  <2>. DEFINE more == one \o rest
              o == FlushCluster(acc).out
  <2>1. more \in Seq(Hints)
    BY <1>4, <1>5, ConcatProperties
  <2>2. b # <<>> => Starts(more)
    <3>1. ASSUME b # <<>> PROVE ~IsMember(h)
      <4>1. gs[k - 1].kind = "metadata" /\ k \in 2 .. n
        BY <1>1, <1>2, <3>1
      <4>2. IsMember(gs[k]) => gs[k - 1].kind \in MemberKind \union {"group-head"}
        BY <4>1 DEF Linked
      <4>. QED BY <4>1, <4>2 DEF MemberKind
    <3>2. more[1] = h
      <4>1. Len(one) = 1 /\ one[1] = h
        OBVIOUS
      <4>. HIDE DEF one, rest
      <4>2. /\ Len(one \o rest) = Len(one) + Len(rest)
            /\ \A i \in 1 .. Len(one) + Len(rest) : (one \o rest)[i] = IF i <= Len(one) THEN one[i] ELSE rest[i - Len(one)]
        BY <1>4, <1>5, ConcatProperties
      <4>3. 1 \in 1 .. Len(one) + Len(rest)
        BY <1>4, <4>1
      <4>. QED BY <4>1, <4>2, <4>3
    <3>. HIDE DEF more
    <3>. QED BY <3>1, <3>2 DEF Starts
  <2>3. SameView((out \o b) \o more, gs, X)
    BY <1>1, <1>4
  <2>. HIDE DEF more
  <2>4. SameView(o \o more, gs, X)
    BY <1>1, <2>1, <2>2, <2>3, FlushClusterKeeps
  <2>5. o \in Seq(Hints)
    <3>. DEFINE done == FlushCluster(acc)
    <3>1. done \in Clustering(H)
      BY <1>1, FlushClusterIs
    <3>. HIDE DEF done
    <3>2. done.out \in Seq(Hints)
      BY <3>1 DEF Clustering
    <3>. QED BY <3>2 DEF done
  <2>. HIDE DEF o, one, rest, X, next
  <2>6. (o \o one) \o <<>> = o \o one /\ (o \o one) \o rest = o \o more
    <3>1. o \o one \in Seq(Hints)
      BY <1>5, <2>5, ConcatProperties
    <3>2. (o \o one) \o <<>> = o \o one
      BY <3>1, ConcatEmptySeq
    <3>3. (o \o one) \o rest = o \o (one \o rest)
      <4>1. o \in Seq(Hints) /\ one \in Seq(Hints) /\ rest \in Seq(Hints)
        BY <1>4, <1>5, <2>5
      <4>. QED BY <4>1, ConcatAssociative, SMTT(30)
    <3>. QED BY <3>2, <3>3 DEF more
  <2>7. next.out = o \o one /\ next.buffer = <<>>
    BY <1>7, <1>9 DEF o
  <2>8. SameView((next.out \o next.buffer) \o rest, gs, X)
    BY <2>4, <2>6, <2>7
  <2>. QED BY <1>7, <2>7, <2>8 DEF ClusteredSoFar, next, rest, X
<1>. QED BY <1>8, <1>9

\* What the third pass makes of the hints of the second looks the same; a
\* row it adds is that of a cluster.
LEMMA ClusterPass ==
  ASSUME NEW H, H \subseteq PlainHints, NEW gs \in Seq(From(H)), Linked(gs)
  PROVE  /\ ClusterMetadata(gs) \in Seq(Hints)
         /\ SameView(ClusterMetadata(gs), gs, ClusterRows(H))
<1>. DEFINE n == Len(gs)
            V == Clustering(H)
            base == [out |-> <<>>, buffer |-> <<>>]
            step == [i \in 1 .. n |-> [o \in V |-> TakeMetadata(o, gs[i])]]
            Folds(g) == g = [s \in SUBSET (1 .. n) |->
                               IF s = {} THEN base ELSE TakeMetadata(g[s \ {Max(s)}], gs[Max(s)])]
<1>1. n \in Nat /\ DOMAIN gs = 1 .. n /\ \A i \in 1 .. n : gs[i] \in From(H)
  OBVIOUS
<1>2. base \in V
  <2>1. <<>> \in Seq(Hints) /\ <<>> \in Seq(MetaIn(H))
    OBVIOUS
  <2>. QED BY <2>1 DEF Clustering
<1>3. \A i \in 1 .. n, o \in V : TakeMetadata(o, gs[i]) \in V
  BY <1>1, TakeMetadataTyped
<1>. HIDE DEF n, base, V
<1>4. step \in [1 .. n -> [V -> V]]
  BY <1>3
<1>5. \A s \in SUBSET (1 .. n) : s # {} => Max(s) \in 1 .. n /\ s \ {Max(s)} \in SUBSET (1 .. n)
  BY <1>1, SomePosition
<1>6. \E g : Folds(g)
  <2>1. PICK g : Folding(g, n, V, base, step)
    <3>. HIDE DEF step
    <3>. QED BY <1>1, <1>2, <1>4, FoldSolves
  <2>2. /\ g \in [SUBSET (1 .. n) -> V]
        /\ \A s \in SUBSET (1 .. n) : g[s] = IF s = {} THEN base ELSE step[Max(s)][g[s \ {Max(s)}]]
    BY <2>1 DEF Folding
  <2>3. \A s \in SUBSET (1 .. n) : g[s] = IF s = {} THEN base ELSE TakeMetadata(g[s \ {Max(s)}], gs[Max(s)])
    BY <1>5, <2>2
  <2>4. g = [s \in SUBSET (1 .. n) |-> g[s]]
    BY <2>2
  <2>5. Folds(g)
    BY <2>3, <2>4
  <2>. HIDE DEF Folds
  <2>. QED BY <2>5
<1>. HIDE DEF step
<1>. DEFINE f == CHOOSE g : Folds(g)
            fold == FoldLeft(TakeMetadata, base, gs)
<1>7. Folds(f)
  <2>. HIDE DEF Folds
  <2>. QED BY <1>6
<1>8. fold = f[1 .. n]
  BY <1>1 DEF FoldLeft, MapThenFoldSet
<1>9. ClusterMetadata(gs) = FlushCluster(fold).out
  BY DEF ClusterMetadata, base
<1>. HIDE DEF f, fold
<1>10. f[1 .. 0] = base /\ \A k \in 1 .. n : f[1 .. k] = TakeMetadata(f[1 .. k - 1], gs[k])
  <2>1. f[1 .. 0] = base
    <3>. DEFINE s == 1 .. 0
    <3>1. s = {} /\ s \in SUBSET (1 .. n)
      OBVIOUS
    <3>. HIDE DEF s
    <3>2. f[s] = base
      BY <1>7, <3>1
    <3>. QED BY <3>2 DEF s
  <2>2. ASSUME NEW k \in 1 .. n PROVE f[1 .. k] = TakeMetadata(f[1 .. k - 1], gs[k])
    <3>. DEFINE s == 1 .. k
    <3>1. s \in SUBSET (1 .. n) /\ s # {}
      <4>1. k \in s
        BY <1>1
      <4>2. \A i \in s : i \in 1 .. n
        BY <1>1
      <4>. HIDE DEF s
      <4>. QED BY <4>1, <4>2
    <3>2. Max(s) = k /\ s \ {k} = 1 .. k - 1
      BY <1>1, LastPosition
    <3>. HIDE DEF s
    <3>3. f[s] = TakeMetadata(f[s \ {Max(s)}], gs[Max(s)])
      BY <1>7, <3>1
    <3>4. f[s] = TakeMetadata(f[1 .. k - 1], gs[k])
      BY <3>2, <3>3
    <3>. QED BY <3>4 DEF s
  <2>. QED BY <2>1, <2>2
<1>. HIDE DEF Folds
<1>11. gs \in Seq(Hints)
  <2>1. From(H) \subseteq Hints
    BY DEF From
  <2>. QED BY <2>1
<1>12. Rest(gs, 0) = gs /\ Rest(gs, n) = <<>>
  BY <1>11, RestShrinks DEF n
<1>. DEFINE D == {k \in 0 .. n : ClusteredSoFar(H, gs, f[1 .. k], k)}
<1>13. 0 \in D
  <2>1. 0 \in 0 .. n
    BY <1>1
  <2>2. base.out = <<>> /\ base.buffer = <<>>
    BY DEF base
  <2>3. (base.out \o base.buffer) \o gs = gs
    <3>1. <<>> \o gs = gs /\ <<>> \o <<>> = <<>>
      BY <1>11, ConcatEmptySeq
    <3>. QED BY <2>2, <3>1
  <2>4. SameView(gs, gs, ClusterRows(H))
    BY DEF SameView
  <2>5. ClusteredSoFar(H, gs, base, 0)
    BY <1>2, <1>12, <2>2, <2>3, <2>4 DEF ClusteredSoFar, V
  <2>. QED BY <1>10, <2>1, <2>5
<1>14. ASSUME NEW k \in 1 .. n, k - 1 \in D PROVE k \in D
  <2>1. k \in 0 .. n
    BY <1>1
  <2>2. ClusteredSoFar(H, gs, f[1 .. k - 1], k - 1)
    BY <1>14
  <2>3. k \in 1 .. Len(gs)
    BY DEF n
  <2>4. ClusteredSoFar(H, gs, TakeMetadata(f[1 .. k - 1], gs[k]), k)
    BY <2>2, <2>3, TakeMetadataKeeps
  <2>. QED BY <1>10, <2>1, <2>4
<1>15. n \in D
  <2>1. n \in 0 .. n
    BY <1>1
  <2>. HIDE DEF D
  <2>. QED BY <1>1, <1>13, <1>14, <2>1, Upward
<1>16. ClusteredSoFar(H, gs, fold, n)
  BY <1>8, <1>15
<1>17. fold \in Clustering(H) /\ SameView((fold.out \o fold.buffer) \o <<>>, gs, ClusterRows(H))
  BY <1>12, <1>16 DEF ClusteredSoFar
<1>. DEFINE done == FlushCluster(fold)
            none == <<>>
<1>18. done.out \in Seq(Hints)
  <2>1. done \in Clustering(H)
    BY <1>17, FlushClusterIs
  <2>. HIDE DEF done
  <2>. QED BY <2>1 DEF Clustering
<1>19. SameView(done.out \o none, gs, ClusterRows(H))
  <2>1. none \in Seq(Hints) /\ Starts(none)
    BY DEF Starts
  <2>2. SameView((fold.out \o fold.buffer) \o none, gs, ClusterRows(H))
    BY <1>17
  <2>. HIDE DEF none
  <2>. QED BY <1>17, <2>1, <2>2, FlushClusterKeeps
<1>20. done.out \o none = done.out
  BY <1>18, ConcatEmptySeq
<1>. QED BY <1>9, <1>18, <1>19, <1>20

-----------------------------------------------------------------------------
(* The rows of the transcript and the hints of the first pass *)

FirstHints(ms, ws) == FlattenSeq([i \in DOMAIN ms |-> HintsOf(ms, ws, i)])

\* Whatever is grouped and clustered on the way: the transcript shows what
\* the hints of the first pass show, with the same chips, and a row that is
\* no hint's own is a group or a cluster of such hints.
LEMMA RowsShowTheHints ==
  ASSUME NEW ms, NEW ws, NEW H, H \subseteq PlainHints, FirstHints(ms, ws) \in Seq(H)
  PROVE  /\ TranscriptRows(ms, ws) \in Seq(Rows)
         /\ ShownIn(TranscriptRows(ms, ws)) = Each(ShownFor, FirstHints(ms, ws))
         /\ ChipsOn(ToSet(TranscriptRows(ms, ws))) = ChipsOn(Rendered(FirstHints(ms, ws)))
         /\ ToSet(TranscriptRows(ms, ws)) \subseteq
              Rendered(FirstHints(ms, ws)) \union GroupRows(ms, H) \union ClusterRows(H)
<1>. DEFINE hs == FirstHints(ms, ws)
            gs == GroupLifecycles(ms, hs)
            rs == ClusterMetadata(gs)
<1>1. TranscriptRows(ms, ws) = TopLevelRows(rs)
  BY DEF TranscriptRows, RenderedHints, FirstHints
<1>2. hs \in Seq(H) /\ hs \in Seq(PlainHints)
  <2>1. hs \in Seq(H)
    OBVIOUS
  <2>. HIDE DEF hs
  <2>2. hs \in Seq(PlainHints)
    BY <2>1
  <2>. QED BY <2>1, <2>2
<1>. HIDE DEF hs
<1>3. gs \in Seq(From(H)) /\ Linked(gs) /\ SameView(gs, hs, GroupRows(ms, H))
  BY <1>2, GroupPass
<1>. HIDE DEF gs
<1>4. rs \in Seq(Hints) /\ SameView(rs, gs, ClusterRows(H))
  BY <1>3, ClusterPass
<1>. HIDE DEF rs
<1>5. TopLevelRows(rs) \in Seq(Rows)
  BY <1>4, TopLevelTyped
<1>6. Shown(rs) = Each(ShownFor, hs)
  <2>1. Shown(hs) = Each(ShownFor, hs)
    BY <1>2, PlainView
  <2>. QED BY <1>3, <1>4, <2>1 DEF SameView
<1>7. ChipsOn(Rendered(rs)) = ChipsOn(Rendered(hs))
  BY <1>3, <1>4 DEF SameView
<1>8. Rendered(rs) \subseteq Rendered(hs) \union GroupRows(ms, H) \union ClusterRows(H)
  BY <1>3, <1>4 DEF SameView
<1>. QED BY <1>1, <1>5, <1>6, <1>7, <1>8 DEF Shown, Rendered, hs

-----------------------------------------------------------------------------
(* The first pass *)

\* A run of messages that are numbered from base on.
Run(ms, base) ==
  /\ ms \in Seq(Message) /\ base \in Nat
  /\ \A i \in 1 .. Len(ms) : ms[i].index = base + i - 1

LEMMA ChipTyped ==
  ASSUME NEW w \in ParseWarning
  PROVE  /\ Chip(w) \in Chips /\ Chip(w).index = w.index /\ Chip(w).line = w.line
         /\ Chip(w).bucket # "warning-only"
<1>1. w.line \in Nat /\ w.index \in Int
  BY DEF ParseWarning, NoIndex
<1>2. w.severity \in {"error", "warning"} /\ w.category \in {"lexer", "schema", "payload", "timestamp"}
  BY DEF ParseWarning
<1>3. CASE w.severity = "error"
  <2>1. ClassifyWarning(w) = "render-normally"
    BY <1>3 DEF ClassifyWarning
  <2>. QED BY <1>1, <2>1 DEF Chip, Chips
<1>4. CASE w.severity = "warning" /\ w.category \in {"schema", "payload"}
  <2>1. ClassifyWarning(w) = "render-normally"
    BY <1>4 DEF ClassifyWarning
  <2>. QED BY <1>1, <2>1 DEF Chip, Chips
<1>5. CASE w.severity = "warning" /\ w.category \in {"lexer", "timestamp"}
  <2>1. ClassifyWarning(w) = "collapse-by-default"
    BY <1>5 DEF ClassifyWarning
  <2>. QED BY <1>1, <2>1 DEF Chip, Chips
<1>. QED BY <1>2, <1>3, <1>4, <1>5

LEMMA InlineIs ==
  ASSUME NEW ms \in Seq(Message), NEW ws \in Seq(ParseWarning), NEW index \in Int
  PROVE  /\ InlineByIndex(ms, ws, index) \in Seq(Chips)
         /\ \A k \in 1 .. Len(InlineByIndex(ms, ws, index)) :
              /\ InlineByIndex(ms, ws, index)[k].index = index
              /\ InlineByIndex(ms, ws, index)[k].bucket # "warning-only"
         /\ index < Len(ms) => \A w \in ToSet(ws) : w.index = index => Chip(w) \in ToSet(InlineByIndex(ms, ws, index))
<1>. DEFINE S == {w \in ToSet(ws) : w.index = index}
            own == Only(ws, S)
            cs == [k \in DOMAIN own |-> Chip(own[k])]
            t == InlineByIndex(ms, ws, index)
<1>1. own \in Seq(ParseWarning) /\ ToSet(own) = ToSet(ws) \cap S
  BY OnlyTyped
<1>2. t = IF index >= Len(ms) THEN <<>> ELSE cs
  BY DEF InlineByIndex
<1>3. \A w \in S : w.index = index /\ w \in ToSet(ws)
  OBVIOUS
<1>4. \A w \in ToSet(ws) : w.index = index => w \in S
  OBVIOUS
<1>. HIDE DEF own, S, t
<1>5. DOMAIN own = 1 .. Len(own) /\ Len(own) \in Nat /\ ToSet(own) = {own[k] : k \in 1 .. Len(own)}
  BY <1>1, SetOf
<1>6. \A k \in 1 .. Len(own) : own[k] \in ParseWarning /\ own[k].index = index
  BY <1>1, <1>3, <1>5
<1>7. \A k \in 1 .. Len(own) : /\ Chip(own[k]) \in Chips /\ Chip(own[k]).index = index
                               /\ Chip(own[k]).bucket # "warning-only"
  BY <1>6, ChipTyped
<1>8. cs \in Seq(Chips) /\ Len(cs) = Len(own) /\ \A k \in 1 .. Len(own) : cs[k] = Chip(own[k])
  BY <1>5, <1>7
<1>9. ASSUME NEW w \in ToSet(ws), w.index = index PROVE Chip(w) \in ToSet(cs)
  <2>1. w \in ToSet(own)
    BY <1>1, <1>4, <1>9
  <2>2. PICK k \in 1 .. Len(own) : own[k] = w
    BY <1>5, <2>1
  <2>3. cs[k] = Chip(w) /\ k \in 1 .. Len(cs)
    BY <1>8, <2>2
  <2>. HIDE DEF cs
  <2>. QED BY <1>8, <2>3, SetOf
<1>. HIDE DEF cs
<1>10. CASE index >= Len(ms)
  <2>1. t = <<>>
    BY <1>2, <1>10
  <2>2. <<>> \in Seq(Chips) /\ \A k \in 1 .. Len(<<>>) : FALSE
    OBVIOUS
  <2>3. ASSUME index < Len(ms) PROVE FALSE
    <3>. QED BY <1>10, <2>3
  <2>. QED BY <2>1, <2>2, <2>3 DEF t
<1>11. CASE ~(index >= Len(ms))
  <2>1. t = cs
    BY <1>2, <1>11
  <2>. QED BY <1>7, <1>8, <1>9, <2>1 DEF t
<1>. QED BY <1>10, <1>11

LEMMA HintTyped ==
  ASSUME NEW kind \in HintKind, NEW m \in Message
  PROVE  /\ Hint(kind, m) \in Hints /\ Hint(kind, m).kind = kind /\ Hint(kind, m).at = m.index
         /\ Hint(kind, m).pair = NoIndex /\ Hint(kind, m).chips = <<>>
<1>1. m.index \in Int /\ NoIndex \in Int /\ <<>> \in Seq(Chips) /\ <<>> \in Seq(Int) /\ None \in Statuses
  BY DEF Message, NoIndex, Statuses
<1>. QED BY <1>1 DEF Hint, Hints

\* Whether the hint h stands for the message at position i alone, with its
\* result when it is a call that has one.
Stands(ms, i, h) ==
  LET m == ms[i] IN
  /\ h \in PlainHints /\ h.at = m.index
  /\ h.pair = IF PairsForward(ms, i) THEN ms[i + 1].index ELSE NoIndex
  /\ h.kind = CASE m.kind = "boundary" -> "boundary"
                [] m.kind = "metadata" -> "metadata"
                [] m.kind = "tool_use" -> "lifecycle"
                [] IsBlank(m) -> "warning-only"
                [] m.kind \in {"tool_result", "user", "assistant", "system", "unknown"} /\ ~IsBlank(m) -> "standalone"

\* The chips of a hint are of the messages it stands for.
ChipsBelong(h) == \A k \in 1 .. Len(h.chips) : h.chips[k].index = h.at \/ (h.pair # NoIndex /\ h.chips[k].index = h.pair)

LEMMA LifecycleIs ==
  ASSUME NEW ms, NEW base, Run(ms, base), NEW ws \in Seq(ParseWarning), NEW i \in 1 .. Len(ms), ms[i].kind = "tool_use"
  PROVE  Stands(ms, i, Lifecycle(ms, ws, i)) /\ ChipsBelong(Lifecycle(ms, ws, i))
<1>. DEFINE m == ms[i]
            pair == IF PairsForward(ms, i) THEN ms[i + 1].index ELSE NoIndex
            own == InlineByIndex(ms, ws, m.index)
            its == IF pair = NoIndex THEN <<>> ELSE InlineByIndex(ms, ws, pair)
            chips == own \o its
            h0 == Hint("lifecycle", m)
            h1 == [h0 EXCEPT !.pair = pair]
            h2 == [h1 EXCEPT !.chips = chips]
<1>1. ms \in Seq(Message) /\ m \in Message /\ Len(ms) \in Nat
  BY DEF Run
<1>2. pair \in Int /\ m.index \in Int
  <2>1. PairsForward(ms, i) => i + 1 \in 1 .. Len(ms)
    BY <1>1 DEF PairsForward
  <2>2. \A j \in 1 .. Len(ms) : ms[j].index \in Int
    <3>1. \A j \in 1 .. Len(ms) : ms[j] \in Message
      BY <1>1
    <3>. QED BY <3>1 DEF Message
  <2>. QED BY <2>1, <2>2 DEF NoIndex
<1>3. Lifecycle(ms, ws, i) = h2
  BY DEF Lifecycle
<1>4. h0 \in Hints /\ h0.kind = "lifecycle" /\ h0.at = m.index
  BY <1>1, HintTyped DEF HintKind, PlainKind
<1>. HIDE DEF m, pair, h0
<1>5. own \in Seq(Chips) /\ \A k \in 1 .. Len(own) : own[k].index = m.index
  BY <1>1, <1>2, InlineIs
<1>6. its \in Seq(Chips) /\ \A k \in 1 .. Len(its) : pair # NoIndex /\ its[k].index = pair
  <2>1. CASE pair = NoIndex
    <3>1. its = <<>>
      BY <2>1
    <3>2. <<>> \in Seq(Chips) /\ \A k \in 1 .. Len(<<>>) : FALSE
      OBVIOUS
    <3>. QED BY <3>1, <3>2
  <2>2. CASE pair # NoIndex
    <3>1. its = InlineByIndex(ms, ws, pair)
      BY <2>2
    <3>. QED BY <1>1, <1>2, <2>2, <3>1, InlineIs
  <2>. QED BY <2>1, <2>2
<1>. HIDE DEF own, its
<1>7. chips \in Seq(Chips) /\ \A k \in 1 .. Len(chips) : chips[k].index = m.index \/ (pair # NoIndex /\ chips[k].index = pair)
  <2>1. /\ own \o its \in Seq(Chips) /\ Len(own \o its) = Len(own) + Len(its)
        /\ \A k \in 1 .. Len(own) + Len(its) : (own \o its)[k] = IF k <= Len(own) THEN own[k] ELSE its[k - Len(own)]
    BY <1>5, <1>6, ConcatProperties
  <2>2. ASSUME NEW k \in 1 .. Len(own) + Len(its)
        PROVE  (own \o its)[k].index = m.index \/ (pair # NoIndex /\ (own \o its)[k].index = pair)
    <3>1. Len(own) \in Nat /\ Len(its) \in Nat
      BY <1>5, <1>6
    <3>2. CASE k <= Len(own)
      <4>1. k \in 1 .. Len(own)
        BY <3>1, <3>2
      <4>. QED BY <1>5, <2>1, <3>2, <4>1
    <3>3. CASE ~(k <= Len(own))
      <4>1. k - Len(own) \in 1 .. Len(its)
        BY <3>1, <3>3
      <4>. QED BY <1>6, <2>1, <3>3, <4>1
    <3>. QED BY <3>2, <3>3
  <2>. QED BY <2>1, <2>2
<1>. HIDE DEF chips
<1>8. h1 \in Hints /\ h1.kind = "lifecycle" /\ h1.at = m.index /\ h1.pair = pair
  BY <1>2, <1>4 DEF Hints
<1>. HIDE DEF h1
<1>9. h2 \in Hints /\ h2.kind = "lifecycle" /\ h2.at = m.index /\ h2.pair = pair /\ h2.chips = chips
  BY <1>7, <1>8 DEF Hints
<1>. HIDE DEF h2
<1>10. ChipsBelong(h2)
  BY <1>7, <1>9 DEF ChipsBelong
<1>11. h2 \in PlainHints
  BY <1>9 DEF PlainHints, PlainKind
<1>12. Stands(ms, i, h2)
  BY <1>9, <1>11 DEF Stands, m, pair, IsBlank
<1>. QED BY <1>3, <1>10, <1>12

\* A message gets one hint, unless it is the result of the call before it or
\* has nothing to say and no warning.
LEMMA HintsOfIs ==
  ASSUME NEW ms, NEW base, Run(ms, base), NEW ws \in Seq(ParseWarning), NEW i \in 1 .. Len(ms)
  PROVE  /\ ConsumedByPrev(ms, i) => HintsOf(ms, ws, i) = <<>>
         /\ ~ConsumedByPrev(ms, i) =>
              \/ HintsOf(ms, ws, i) = <<>> /\ IsBlank(ms[i])
              \/ \E h : /\ HintsOf(ms, ws, i) = <<h>> /\ Stands(ms, i, h) /\ ChipsBelong(h)
                        /\ ms[i].kind = "unknown" => h.chips = InlineByIndex(ms, ws, ms[i].index)
<1>. DEFINE m == ms[i]
            attached == InlineByIndex(ms, ws, m.index)
            WarningOnly == attached # <<>> /\ \A k \in DOMAIN attached : attached[k].bucket = "warning-only"
            Goal == \/ HintsOf(ms, ws, i) = <<>> /\ IsBlank(m)
                    \/ \E h : /\ HintsOf(ms, ws, i) = <<h>> /\ Stands(ms, i, h) /\ ChipsBelong(h)
                              /\ m.kind = "unknown" => h.chips = attached
<1>1. ms \in Seq(Message) /\ m \in Message
  BY DEF Run
<1>2. m.index \in Int /\ m.line \in Nat /\ m.kind \in MessageKind
  BY <1>1 DEF Message
<1>. HIDE DEF m
<1>3. /\ attached \in Seq(Chips) /\ (\A k \in 1 .. Len(attached) : attached[k].index = m.index)
      /\ \A k \in 1 .. Len(attached) : attached[k].bucket # "warning-only"
  BY <1>1, <1>2, InlineIs
<1>. HIDE DEF attached
<1>4. ~WarningOnly
  <2>1. attached # <<>> => 1 \in DOMAIN attached /\ 1 \in 1 .. Len(attached)
    BY <1>3
  <2>. QED BY <1>3, <2>1
<1>5. CASE ConsumedByPrev(ms, i)
  <2>1. m.kind = "tool_result"
    <3>1. (i - 1) + 1 = i
      OBVIOUS
    <3>. QED BY <1>5, <3>1 DEF ConsumedByPrev, PairsForward, m
  <2>. QED BY <1>5, <2>1 DEF HintsOf, IsBlank, m
<1>6. CASE ~ConsumedByPrev(ms, i)
  <2>1. m.kind # "tool_use" => ~PairsForward(ms, i)
    BY DEF PairsForward, m
  <2>2. CASE m.kind = "boundary"
    <3>. DEFINE h == Hint("boundary", m)
    <3>1. HintsOf(ms, ws, i) = <<h>>
      BY <1>6, <2>2 DEF HintsOf, IsBlank, m
    <3>2. h \in Hints /\ h.kind = "boundary" /\ h.at = m.index /\ h.pair = NoIndex /\ h.chips = <<>>
      BY <1>1, HintTyped DEF HintKind, PlainKind
    <3>. HIDE DEF h
    <3>3. Stands(ms, i, h) /\ ChipsBelong(h)
      BY <2>1, <2>2, <3>2 DEF Stands, ChipsBelong, PlainHints, PlainKind, IsBlank, m
    <3>. QED BY <1>6, <2>2, <3>1, <3>3 DEF m
  <2>3. CASE m.kind = "metadata"
    <3>. DEFINE h == Hint("metadata", m)
    <3>1. HintsOf(ms, ws, i) = <<h>>
      BY <1>6, <2>3 DEF HintsOf, IsBlank, m
    <3>2. h \in Hints /\ h.kind = "metadata" /\ h.at = m.index /\ h.pair = NoIndex /\ h.chips = <<>>
      BY <1>1, HintTyped DEF HintKind, PlainKind
    <3>. HIDE DEF h
    <3>3. Stands(ms, i, h) /\ ChipsBelong(h)
      BY <2>1, <2>3, <3>2 DEF Stands, ChipsBelong, PlainHints, PlainKind, IsBlank, m
    <3>. QED BY <1>6, <2>3, <3>1, <3>3 DEF m
  <2>4. CASE m.kind = "tool_use"
    <3>. DEFINE h == Lifecycle(ms, ws, i)
    <3>1. HintsOf(ms, ws, i) = <<h>>
      BY <1>6, <2>4 DEF HintsOf, IsBlank, m
    <3>2. Stands(ms, i, h) /\ ChipsBelong(h)
      BY <2>4, LifecycleIs DEF m
    <3>. HIDE DEF h
    <3>. QED BY <1>6, <2>4, <3>1, <3>2 DEF m
  <2>5. CASE m.kind = "tool_result"
    <3>. DEFINE stray == Stray(m)
                chips == Append(attached, stray)
                h == [Hint("standalone", m) EXCEPT !.chips = chips]
    <3>1. HintsOf(ms, ws, i) = <<h>>
      BY <1>6, <2>5 DEF HintsOf, IsBlank, m, attached
    <3>2. stray \in Chips /\ stray.index = m.index
      BY <1>2 DEF Stray, Chips
    <3>. HIDE DEF stray
    <3>3. chips \in Seq(Chips) /\ \A k \in 1 .. Len(chips) : chips[k].index = m.index
      BY <1>3, <3>2
    <3>. HIDE DEF chips
    <3>. DEFINE h0 == Hint("standalone", m)
    <3>4. h0 \in Hints /\ h0.kind = "standalone" /\ h0.at = m.index /\ h0.pair = NoIndex
      BY <1>1, HintTyped DEF HintKind, PlainKind
    <3>. HIDE DEF h0
    <3>5. h \in Hints /\ h.kind = "standalone" /\ h.at = m.index /\ h.pair = NoIndex /\ h.chips = chips
      BY <3>3, <3>4 DEF Hints, h0
    <3>. HIDE DEF h
    <3>6. Stands(ms, i, h)
      BY <2>1, <2>5, <3>5 DEF Stands, PlainHints, PlainKind, IsBlank, m
    <3>7. ChipsBelong(h)
      BY <3>3, <3>5 DEF ChipsBelong
    <3>. QED BY <1>6, <2>5, <3>1, <3>6, <3>7 DEF m
  <2>6. CASE IsBlank(m)
    <3>. DEFINE h == [Hint("warning-only", m) EXCEPT !.chips = attached]
    <3>1. HintsOf(ms, ws, i) = IF attached = <<>> THEN <<>> ELSE <<h>>
      BY <1>6, <2>6 DEF HintsOf, IsBlank, m, attached
    <3>. DEFINE h0 == Hint("warning-only", m)
    <3>2. h0 \in Hints /\ h0.kind = "warning-only" /\ h0.at = m.index /\ h0.pair = NoIndex
      BY <1>1, HintTyped DEF HintKind, PlainKind
    <3>. HIDE DEF h0
    <3>3. h \in Hints /\ h.kind = "warning-only" /\ h.at = m.index /\ h.pair = NoIndex /\ h.chips = attached
      BY <1>3, <3>2 DEF Hints, h0
    <3>. HIDE DEF h
    <3>4. Stands(ms, i, h)
      BY <2>1, <2>6, <3>3 DEF Stands, PlainHints, PlainKind, IsBlank, m
    <3>5. ChipsBelong(h)
      BY <1>3, <3>3 DEF ChipsBelong
    <3>. QED BY <1>6, <2>6, <3>1, <3>3, <3>4, <3>5 DEF m, attached
  <2>7. CASE m.kind \in {"user", "assistant", "system", "unknown"} /\ ~IsBlank(m)
    <3>. DEFINE task == IsTaskNote(m)
                h == [Hint("standalone", m) EXCEPT !.chips = attached, !.task = task]
    <3>1. HintsOf(ms, ws, i) = <<h>>
      <4>1. HintsOf(ms, ws, i) =
              <<[Hint(IF WarningOnly /\ ~IsTaskNote(m) THEN "warning-only" ELSE "standalone", m)
                   EXCEPT !.chips = attached, !.task = IsTaskNote(m)]>>
        BY <1>6, <2>7 DEF HintsOf, m, attached
      <4>. HIDE DEF WarningOnly
      <4>. QED BY <1>4, <4>1
    <3>2. task \in BOOLEAN
      BY DEF IsTaskNote
    <3>. HIDE DEF task
    <3>. DEFINE h0 == Hint("standalone", m)
                h1 == [h0 EXCEPT !.chips = attached]
                h2 == [h1 EXCEPT !.task = task]
    <3>3. h0 \in Hints /\ h0.kind = "standalone" /\ h0.at = m.index /\ h0.pair = NoIndex
      BY <1>1, HintTyped DEF HintKind, PlainKind
    <3>. HIDE DEF h0
    <3>4. h = h2
      BY DEF h0
    <3>5. h1 \in Hints /\ h1.kind = "standalone" /\ h1.at = m.index /\ h1.pair = NoIndex /\ h1.chips = attached
      BY <1>3, <3>3 DEF Hints
    <3>. HIDE DEF h, h1
    <3>6. h2 \in Hints /\ h2.kind = "standalone" /\ h2.at = m.index /\ h2.pair = NoIndex /\ h2.chips = attached
      BY <3>2, <3>5 DEF Hints
    <3>. HIDE DEF h2
    <3>7. Stands(ms, i, h)
      BY <2>1, <2>7, <3>4, <3>6 DEF Stands, PlainHints, PlainKind, IsBlank, m
    <3>8. ChipsBelong(h)
      BY <1>3, <3>4, <3>6 DEF ChipsBelong
    <3>. QED BY <1>6, <3>1, <3>4, <3>6, <3>7, <3>8 DEF m, attached
  <2>. QED BY <1>2, <2>2, <2>3, <2>4, <2>5, <2>6, <2>7 DEF MessageKind
<1>. QED BY <1>5, <1>6

LEMMA PlainShows ==
  ASSUME NEW h \in PlainHints
  PROVE  /\ h.kind = "warning-only" => ShownFor[h] = <<>> /\ HintRow(h) = <<>>
         /\ h.kind = "lifecycle" => ShownFor[h] = CallShows(h)
         /\ h.kind \in {"boundary", "metadata", "standalone"} => ShownFor[h] = <<h.at>>
<1>1. ASSUME h.kind = "warning-only" PROVE ShownFor[h] = <<>> /\ HintRow(h) = <<>>
  <2>1. HintRow(h) = <<>>
    BY <1>1 DEF HintRow
  <2>2. <<>> \in Seq(Rows)
    OBVIOUS
  <2>3. ShownIn(<<>>) = <<>>
    BY <2>2, ShownIsEach, EachEmpty
  <2>. QED BY <2>1, <2>3 DEF ShownFor
<1>2. ASSUME h.kind \in {"lifecycle", "standalone"}
      PROVE  ShownFor[h] = IF h.kind = "lifecycle" THEN CallShows(h) ELSE <<h.at>>
  <2>1. h \in Gatherable
    BY <1>2 DEF Gatherable, PlainHints
  <2>. QED BY <2>1, GatherableRow DEF IsCall
<1>3. ASSUME h.kind \in {"boundary", "metadata"} PROVE ShownFor[h] = <<h.at>>
  <2>. DEFINE own == Row(h.kind, <<h.at>>, <<>>, FALSE, None)
  <2>1. HintRow(h) = <<own>>
    BY <1>3 DEF HintRow
  <2>2. own \in Rows /\ own.shown = <<h.at>>
    <3>1. <<h.at>> \in Seq(Int) /\ <<>> \in Seq(Chips) /\ None \in Statuses
      BY DEF PlainHints, Hints, Statuses
    <3>. QED BY <1>3, <3>1, RowTyped DEF Row, RowKind
  <2>. HIDE DEF own
  <2>3. ShownIn(<<own>>) = own.shown
    BY <2>2, ShownInOne
  <2>. QED BY <2>1, <2>2, <2>3 DEF ShownFor
<1>. QED BY <1>1, <1>2, <1>3

\* The hints of the first pass.
FirstOf(ms, ws) == UNION {ToSet(HintsOf(ms, ws, i)) : i \in 1 .. Len(ms)}
HintsFor(ms, ws) == [i \in DOMAIN ms |-> HintsOf(ms, ws, i)]

LEMMA FirstAre ==
  ASSUME NEW ms, NEW base, Run(ms, base), NEW ws \in Seq(ParseWarning)
  PROVE  /\ HintsFor(ms, ws) \in Seq(Seq(FirstOf(ms, ws))) /\ Len(HintsFor(ms, ws)) = Len(ms)
         /\ \A i \in 1 .. Len(ms) : HintsFor(ms, ws)[i] = HintsOf(ms, ws, i)
         /\ FirstHints(ms, ws) = FlattenSeq(HintsFor(ms, ws))
         /\ FirstHints(ms, ws) \in Seq(FirstOf(ms, ws))
         /\ ToSet(FirstHints(ms, ws)) = FirstOf(ms, ws)
         /\ FirstOf(ms, ws) \subseteq PlainHints
         /\ \A h \in FirstOf(ms, ws) : \E i \in 1 .. Len(ms) :
              ~ConsumedByPrev(ms, i) /\ Stands(ms, i, h) /\ ChipsBelong(h)
<1>. DEFINE n == Len(ms)
            H == FirstOf(ms, ws)
            ss == HintsFor(ms, ws)
<1>1. n \in Nat /\ DOMAIN ms = 1 .. n
  BY DEF Run
<1>2. ASSUME NEW i \in 1 .. n
      PROVE  /\ HintsOf(ms, ws, i) \in Seq(ToSet(HintsOf(ms, ws, i)))
             /\ \A h \in ToSet(HintsOf(ms, ws, i)) : ~ConsumedByPrev(ms, i) /\ Stands(ms, i, h) /\ ChipsBelong(h)
  <2>1. CASE HintsOf(ms, ws, i) = <<>>
    <3>1. <<>> \in Seq(ToSet(<<>>))
      OBVIOUS
    <3>. QED BY <2>1, <3>1, SetOfNone
  <2>2. CASE ~ConsumedByPrev(ms, i) /\ \E h : HintsOf(ms, ws, i) = <<h>> /\ Stands(ms, i, h) /\ ChipsBelong(h)
    <3>1. PICK h : HintsOf(ms, ws, i) = <<h>> /\ Stands(ms, i, h) /\ ChipsBelong(h)
      BY <2>2
    <3>2. ToSet(<<h>>) = {h} /\ <<h>> \in Seq({h})
      BY SetOfOne
    <3>. QED BY <2>2, <3>1, <3>2
  <2>. QED BY <2>1, <2>2, HintsOfIs
<1>3. \A i \in 1 .. n : HintsOf(ms, ws, i) \in Seq(H)
  <2>1. ASSUME NEW i \in 1 .. n PROVE ToSet(HintsOf(ms, ws, i)) \subseteq H
    BY DEF FirstOf
  <2>2. ASSUME NEW i \in 1 .. n PROVE HintsOf(ms, ws, i) \in Seq(H)
    <3>. DEFINE S == ToSet(HintsOf(ms, ws, i))
                s == HintsOf(ms, ws, i)
    <3>1. s \in Seq(S) /\ S \subseteq H
      BY <1>2, <2>1
    <3>. HIDE DEF S, s, H
    <3>2. s \in Seq(H)
      BY <3>1
    <3>. QED BY <3>2 DEF s
  <2>. QED BY <2>2
<1>4. \A h \in H : \E i \in 1 .. n : ~ConsumedByPrev(ms, i) /\ Stands(ms, i, h) /\ ChipsBelong(h)
  BY <1>2 DEF FirstOf
<1>5. H \subseteq PlainHints
  BY <1>4 DEF Stands
<1>6. \A i \in 1 .. n : ss[i] = HintsOf(ms, ws, i)
  BY <1>1 DEF HintsFor
<1>. HIDE DEF H, n
<1>7. ss \in [1 .. n -> Seq(H)]
  BY <1>1, <1>3 DEF HintsFor
<1>8. ss \in Seq(Seq(H)) /\ Len(ss) = n
  BY <1>1, <1>7
<1>9. FirstHints(ms, ws) = FlattenSeq(ss)
  BY DEF FirstHints, HintsFor
<1>. HIDE DEF ss
<1>10. FlattenSeq(ss) \in Seq(H)
  BY <1>8, FlattenTyped
<1>11. ToSet(FlattenSeq(ss)) = H
  <2>. DEFINE U == Seq(H)
  <2>1. ToSet(FlattenSeq(ss)) = UNION {ToSet(s) : s \in ToSet(ss)}
    BY <1>8, SetOfFlatten
  <2>2. ss \in Seq(U)
    BY <1>8
  <2>. HIDE DEF U
  <2>3. ToSet(ss) = {ss[i] : i \in 1 .. n}
    BY <1>8, <2>2, SetOf
  <2>4. UNION {ToSet(s) : s \in ToSet(ss)} = UNION {ToSet(ss[i]) : i \in 1 .. n}
    BY <2>3
  <2>5. UNION {ToSet(ss[i]) : i \in 1 .. n} = UNION {ToSet(HintsOf(ms, ws, i)) : i \in 1 .. n}
    BY <1>6
  <2>. QED BY <2>1, <2>4, <2>5 DEF H, FirstOf, n
<1>. QED BY <1>4, <1>5, <1>6, <1>8, <1>9, <1>10, <1>11 DEF H, n, ss

\* What a message has to say.
Says == [m \in Message |-> IF IsBlank(m) THEN <<>> ELSE <<m.index>>]

LEMMA SaysTyped == Maps(Says, Message, Int)
<1>1. ASSUME NEW m \in Message PROVE (IF IsBlank(m) THEN <<>> ELSE <<m.index>>) \in Seq(Int)
  <2>1. m.index \in Int
    BY DEF Message
  <2>. QED BY <2>1
<1>. QED BY <1>1 DEF Maps, Says

\* What the hint of a message shows: the message, and its result when it is
\* a call that has one.
LEMMA HintShows ==
  ASSUME NEW ms, NEW base, Run(ms, base), NEW ws \in Seq(ParseWarning), NEW i \in 1 .. Len(ms)
  PROVE  /\ ConsumedByPrev(ms, i) => Each(ShownFor, HintsOf(ms, ws, i)) = <<>>
         /\ ~ConsumedByPrev(ms, i) =>
              Each(ShownFor, HintsOf(ms, ws, i)) =
                IF PairsForward(ms, i) THEN <<ms[i].index, ms[i + 1].index>> ELSE Says[ms[i]]
<1>. DEFINE m == ms[i]
<1>1. ms \in Seq(Message) /\ m \in Message /\ Len(ms) \in Nat
  BY DEF Run
<1>2. m.kind \in MessageKind /\ m.index \in Int
  BY <1>1 DEF Message
<1>3. Each(ShownFor, <<>>) = <<>>
  BY EachEmpty
<1>4. Says[m] = IF IsBlank(m) THEN <<>> ELSE <<m.index>>
  BY <1>1 DEF Says
<1>5. PairsForward(ms, i) => m.kind = "tool_use" /\ i + 1 \in 1 .. Len(ms)
  BY <1>1 DEF PairsForward
<1>6. PairsForward(ms, i) => ms[i + 1].index # NoIndex
  <2>1. i + 1 \in 1 .. Len(ms) => ms[i + 1] \in Message
    BY <1>1
  <2>. QED BY <1>5, <2>1 DEF Message, NoIndex
<1>7. ASSUME NEW h, Stands(ms, i, h)
      PROVE  Each(ShownFor, <<h>>) = IF PairsForward(ms, i) THEN <<m.index, ms[i + 1].index>> ELSE Says[m]
  <2>1. h \in PlainHints /\ h.at = m.index /\ h.pair = IF PairsForward(ms, i) THEN ms[i + 1].index ELSE NoIndex
    BY <1>7 DEF Stands
  <2>2. Each(ShownFor, <<h>>) = ShownFor[h]
    BY <2>1, RowForTyped, EachOne
  <2>3. CASE m.kind = "tool_use"
    <3>1. h.kind = "lifecycle" /\ ~IsBlank(m)
      BY <1>7, <2>3 DEF Stands, IsBlank
    <3>2. ShownFor[h] = CallShows(h)
      BY <2>1, <3>1, PlainShows
    <3>. QED BY <1>4, <1>6, <2>1, <2>2, <3>1, <3>2 DEF CallShows
  <2>4. CASE m.kind \in {"boundary", "metadata"}
    <3>1. h.kind \in {"boundary", "metadata"} /\ ~IsBlank(m) /\ ~PairsForward(ms, i)
      BY <1>5, <1>7, <2>4 DEF Stands, IsBlank
    <3>. QED BY <1>4, <2>1, <2>2, <3>1, PlainShows
  <2>5. CASE IsBlank(m)
    <3>1. h.kind = "warning-only" /\ ~PairsForward(ms, i)
      BY <1>5, <1>7, <2>5 DEF Stands, IsBlank
    <3>. QED BY <1>4, <2>1, <2>2, <2>5, <3>1, PlainShows
  <2>6. CASE m.kind \in {"tool_result", "user", "assistant", "system", "unknown"} /\ ~IsBlank(m)
    <3>1. h.kind = "standalone" /\ ~PairsForward(ms, i)
      BY <1>5, <1>7, <2>6 DEF Stands, IsBlank
    <3>. QED BY <1>4, <2>1, <2>2, <2>6, <3>1, PlainShows
  <2>. QED BY <1>2, <2>3, <2>4, <2>5, <2>6 DEF MessageKind
<1>8. IsBlank(m) => ~PairsForward(ms, i)
  BY <1>5 DEF IsBlank
<1>. HIDE DEF m
<1>9. CASE ConsumedByPrev(ms, i)
  <2>1. HintsOf(ms, ws, i) = <<>>
    BY <1>9, HintsOfIs
  <2>. QED BY <1>3, <1>9, <2>1
<1>10. CASE ~ConsumedByPrev(ms, i)
  <2>1. CASE HintsOf(ms, ws, i) = <<>> /\ IsBlank(m)
    BY <1>3, <1>4, <1>8, <1>10, <2>1 DEF m
  <2>2. CASE \E h : HintsOf(ms, ws, i) = <<h>> /\ Stands(ms, i, h)
    BY <1>7, <1>10, <2>2 DEF m
  <2>3. \/ HintsOf(ms, ws, i) = <<>> /\ IsBlank(m)
        \/ \E h : HintsOf(ms, ws, i) = <<h>> /\ Stands(ms, i, h)
    BY <1>10, HintsOfIs DEF m
  <2>. QED BY <2>1, <2>2, <2>3
<1>. QED BY <1>9, <1>10

\* The hints of the first pass show every message that has something to say,
\* in order.
LEMMA FirstShows ==
  ASSUME NEW ms, NEW base, Run(ms, base), NEW ws \in Seq(ParseWarning)
  PROVE  Each(ShownFor, FirstHints(ms, ws)) = Each(Says, ms)
<1>. DEFINE n == Len(ms)
            H == FirstOf(ms, ws)
            ss == HintsFor(ms, ws)
            a == [i \in 1 .. n |-> Each(ShownFor, HintsOf(ms, ws, i))]
            b == Images(Says, ms)
            After(k) == IF k # 0 /\ PairsForward(ms, k) THEN <<ms[k + 1].index>> ELSE <<>>
<1>1. ms \in Seq(Message) /\ n \in Nat /\ DOMAIN ms = 1 .. n /\ \A i \in 1 .. n : ms[i] \in Message
  BY DEF Run
<1>2. FirstHints(ms, ws) = FlattenSeq(ss) /\ ss \in Seq(Seq(PlainHints)) /\ Len(ss) = n
       /\ \A i \in 1 .. n : ss[i] = HintsOf(ms, ws, i)
  <2>1. /\ ss \in Seq(Seq(H)) /\ Len(ss) = n /\ H \subseteq PlainHints /\ FirstHints(ms, ws) = FlattenSeq(ss)
        /\ \A i \in 1 .. n : ss[i] = HintsOf(ms, ws, i)
    BY FirstAre
  <2>. HIDE DEF ss, H
  <2>2. Seq(H) \subseteq Seq(PlainHints)
    BY <2>1
  <2>3. ss \in Seq(Seq(PlainHints))
    <3>. DEFINE U == Seq(H)
                W == Seq(PlainHints)
    <3>1. ss \in Seq(U) /\ U \subseteq W
      BY <2>1, <2>2
    <3>. HIDE DEF U, W
    <3>2. ss \in Seq(W)
      BY <3>1
    <3>. QED BY <3>2 DEF W
  <2>. QED BY <2>1, <2>3
<1>. HIDE DEF ss
<1>3. Each(ShownFor, FirstHints(ms, ws)) = FlattenSeq(a)
  <2>1. Each(ShownFor, FlattenSeq(ss)) = FlattenSeq([k \in DOMAIN ss |-> Each(ShownFor, ss[k])])
    BY <1>2, RowForTyped, EachOfFlatten
  <2>2. DOMAIN ss = 1 .. n
    BY <1>2
  <2>3. [k \in DOMAIN ss |-> Each(ShownFor, ss[k])] = a
    BY <1>2, <2>2
  <2>. HIDE DEF a
  <2>. QED BY <1>2, <2>1, <2>3
<1>4. a \in Seq(Seq(Int)) /\ Len(a) = n
  <2>1. \A i \in 1 .. n : Each(ShownFor, HintsOf(ms, ws, i)) \in Seq(Int)
    <3>1. \A i \in 1 .. n : HintsOf(ms, ws, i) \in Seq(PlainHints)
      <4>. DEFINE W == Seq(PlainHints)
      <4>1. ss \in Seq(W)
        BY <1>2
      <4>. HIDE DEF W
      <4>2. \A i \in 1 .. n : ss[i] \in W
        BY <1>2, <4>1
      <4>. QED BY <1>2, <4>2 DEF W
    <3>. QED BY <3>1, RowForTyped, EachTyped
  <2>2. a \in [1 .. n -> Seq(Int)]
    BY <2>1
  <2>. HIDE DEF a
  <2>. QED BY <1>1, <2>2
<1>5. b \in Seq(Seq(Int)) /\ Len(b) = n /\ \A i \in 1 .. n : b[i] = Says[ms[i]]
  BY <1>1, SaysTyped, EachTyped
<1>6. \A i \in 1 .. n : a[i] = Each(ShownFor, HintsOf(ms, ws, i))
  OBVIOUS
<1>. HIDE DEF a, b
<1>7. /\ Upto(a, 0) = <<>> /\ Upto(a, n) = a
      /\ \A k \in 0 .. n : Upto(a, k) \in Seq(Seq(Int))
      /\ \A k \in 1 .. n : Upto(a, k) = Upto(a, k - 1) \o <<a[k]>>
  <2>. DEFINE U == Seq(Int)
  <2>1. a \in Seq(U)
    BY <1>4
  <2>. HIDE DEF U
  <2>2. /\ Upto(a, 0) = <<>> /\ Upto(a, n) = a
        /\ \A k \in 0 .. n : Upto(a, k) \in Seq(U)
        /\ \A k \in 1 .. n : Upto(a, k) = Upto(a, k - 1) \o <<a[k]>>
    BY <1>4, <2>1, UptoGrows
  <2>. QED BY <2>2 DEF U
<1>8. /\ Upto(b, 0) = <<>> /\ Upto(b, n) = b
      /\ \A k \in 0 .. n : Upto(b, k) \in Seq(Seq(Int))
      /\ \A k \in 1 .. n : Upto(b, k) = Upto(b, k - 1) \o <<b[k]>>
  <2>. DEFINE U == Seq(Int)
  <2>1. b \in Seq(U)
    BY <1>5
  <2>. HIDE DEF U
  <2>2. /\ Upto(b, 0) = <<>> /\ Upto(b, n) = b
        /\ \A k \in 0 .. n : Upto(b, k) \in Seq(U)
        /\ \A k \in 1 .. n : Upto(b, k) = Upto(b, k - 1) \o <<b[k]>>
    BY <1>5, <2>1, UptoGrows
  <2>. QED BY <2>2 DEF U
<1>9. \A i \in 1 .. n : a[i] \in Seq(Int) /\ b[i] \in Seq(Int)
  <2>. DEFINE U == Seq(Int)
  <2>1. a \in Seq(U) /\ b \in Seq(U)
    BY <1>4, <1>5
  <2>. HIDE DEF U
  <2>2. \A i \in 1 .. n : a[i] \in U /\ b[i] \in U
    BY <1>4, <1>5, <2>1
  <2>. QED BY <2>2 DEF U
<1>. DEFINE D == {k \in 0 .. n : FlattenSeq(Upto(a, k)) = FlattenSeq(Upto(b, k)) \o After(k)}
<1>10. 0 \in D
  <2>1. 0 \in 0 .. n /\ After(0) = <<>> /\ <<>> \o <<>> = <<>>
    BY <1>1
  <2>. QED BY <1>7, <1>8, <2>1, FlattenEmpty
<1>11. ASSUME NEW k \in 1 .. n, k - 1 \in D PROVE k \in D
  <2>. DEFINE x == FlattenSeq(Upto(a, k - 1))
              y == FlattenSeq(Upto(b, k - 1))
              m == ms[k]
  <2>1. k \in 0 .. n /\ k - 1 \in 0 .. n /\ k # 0
    BY <1>1
  <2>2. FlattenSeq(Upto(a, k)) = x \o a[k] /\ x \in Seq(Int)
    <3>. DEFINE u == Upto(a, k - 1)
    <3>1. u \in Seq(Seq(Int)) /\ Upto(a, k) = u \o <<a[k]>> /\ a[k] \in Seq(Int)
      BY <1>7, <1>9, <2>1
    <3>. HIDE DEF u
    <3>2. FlattenSeq(u \o <<a[k]>>) = FlattenSeq(u) \o a[k] /\ FlattenSeq(u) \in Seq(Int)
      BY <3>1, FlattenMore, FlattenTyped
    <3>. QED BY <3>1, <3>2 DEF u
  <2>3. FlattenSeq(Upto(b, k)) = y \o b[k] /\ y \in Seq(Int)
    <3>. DEFINE u == Upto(b, k - 1)
    <3>1. u \in Seq(Seq(Int)) /\ Upto(b, k) = u \o <<b[k]>> /\ b[k] \in Seq(Int)
      BY <1>8, <1>9, <2>1
    <3>. HIDE DEF u
    <3>2. FlattenSeq(u \o <<b[k]>>) = FlattenSeq(u) \o b[k] /\ FlattenSeq(u) \in Seq(Int)
      BY <3>1, FlattenMore, FlattenTyped
    <3>. QED BY <3>1, <3>2 DEF u
  <2>4. x = y \o After(k - 1)
    BY <1>11
  <2>. HIDE DEF x, y
  <2>5. b[k] = (IF IsBlank(m) THEN <<>> ELSE <<m.index>>) /\ m \in Message /\ m.index \in Int
    <3>1. m \in Message
      BY <1>1
    <3>2. b[k] = Says[m]
      BY <1>5
    <3>. HIDE DEF m
    <3>3. Says[m] = IF IsBlank(m) THEN <<>> ELSE <<m.index>>
      BY <3>1 DEF Says
    <3>4. m.index \in Int
      BY <3>1 DEF Message
    <3>. QED BY <3>1, <3>2, <3>3, <3>4
  <2>6. CASE ConsumedByPrev(ms, k)
    <3>1. k > 1 /\ PairsForward(ms, k - 1) /\ (k - 1) + 1 = k /\ k - 1 # 0
      BY <1>1, <2>6 DEF ConsumedByPrev
    <3>2. m.kind = "tool_result"
      BY <3>1 DEF PairsForward
    <3>3. ~IsBlank(m) /\ ~PairsForward(ms, k)
      BY <3>2 DEF IsBlank, PairsForward
    <3>4. After(k - 1) = <<m.index>> /\ After(k) = <<>>
      BY <3>1, <3>3
    <3>5. a[k] = <<>>
      BY <1>6, <2>6, HintShows
    <3>6. b[k] = <<m.index>>
      BY <2>5, <3>3
    <3>. DEFINE one == <<m.index>>
    <3>7. one \in Seq(Int)
      BY <2>5
    <3>. HIDE DEF one
    <3>8. y \o one \in Seq(Int)
      BY <2>3, <3>7, ConcatProperties
    <3>9. (y \o one) \o <<>> = y \o one
      BY <3>8, ConcatEmptySeq
    <3>. QED BY <2>1, <2>2, <2>3, <2>4, <3>4, <3>5, <3>6, <3>9 DEF one
  <2>7. CASE ~ConsumedByPrev(ms, k)
    <3>1. After(k - 1) = <<>>
      <4>1. ASSUME k - 1 # 0, PairsForward(ms, k - 1) PROVE FALSE
        <5>1. k > 1
          BY <1>1, <4>1
        <5>. QED BY <2>7, <4>1, <5>1 DEF ConsumedByPrev
      <4>. QED BY <4>1
    <3>2. x = y
      BY <2>3, <2>4, <3>1, ConcatEmptySeq
    <3>3. a[k] = IF PairsForward(ms, k) THEN <<m.index, ms[k + 1].index>> ELSE b[k]
      BY <1>5, <1>6, <2>7, HintShows
    <3>4. CASE PairsForward(ms, k)
      <4>. DEFINE one == <<m.index>>
                  two == <<ms[k + 1].index>>
      <4>1. m.kind = "tool_use" /\ k + 1 \in 1 .. n
        BY <1>1, <3>4 DEF PairsForward
      <4>2. ms[k + 1].index \in Int
        <5>1. ms[k + 1] \in Message
          BY <1>1, <4>1
        <5>. QED BY <5>1 DEF Message
      <4>3. b[k] = one
        BY <2>5, <4>1 DEF IsBlank
      <4>4. After(k) = two
        BY <2>1, <3>4
      <4>5. a[k] = one \o two /\ one \in Seq(Int) /\ two \in Seq(Int)
        BY <2>5, <3>3, <3>4, <4>2
      <4>. HIDE DEF one, two
      <4>6. y \o (one \o two) = (y \o one) \o two
        <5>. DEFINE W == Int
        <5>1. y \in Seq(W) /\ one \in Seq(W) /\ two \in Seq(W)
          BY <2>3, <4>5
        <5>. HIDE DEF W
        <5>. QED BY <5>1, ConcatAssociative, SMTT(30)
      <4>7. y \o a[k] = (y \o b[k]) \o After(k)
        BY <4>3, <4>4, <4>5, <4>6
      <4>. QED BY <2>1, <2>2, <2>3, <3>2, <4>7
    <3>5. CASE ~PairsForward(ms, k)
      <4>1. After(k) = <<>> /\ a[k] = b[k]
        BY <3>3, <3>5
      <4>2. y \o b[k] \in Seq(Int)
        BY <1>9, <2>3, ConcatProperties
      <4>3. (y \o b[k]) \o <<>> = y \o b[k]
        BY <4>2, ConcatEmptySeq
      <4>. QED BY <2>1, <2>2, <2>3, <3>2, <4>1, <4>3
    <3>. QED BY <3>4, <3>5
  <2>. QED BY <2>6, <2>7
<1>12. n \in D
  <2>1. n \in 0 .. n
    BY <1>1
  <2>. HIDE DEF D
  <2>. QED BY <1>1, <1>10, <1>11, <2>1, Upward
<1>13. After(n) = <<>>
  <2>1. ~PairsForward(ms, n)
    BY <1>1 DEF PairsForward
  <2>. QED BY <2>1
<1>14. FlattenSeq(a) = FlattenSeq(b) \o <<>>
  BY <1>7, <1>8, <1>12, <1>13
<1>15. FlattenSeq(b) \in Seq(Int)
  BY <1>5, FlattenTyped
<1>16. FlattenSeq(a) = FlattenSeq(b)
  BY <1>14, <1>15, ConcatEmptySeq
<1>. QED BY <1>3, <1>16 DEF Each, b

-----------------------------------------------------------------------------
(* What the transcript shows *)

LEMMA RowsAreTyped ==
  ASSUME NEW ms, NEW base, Run(ms, base), NEW ws \in Seq(ParseWarning)
  PROVE  /\ TranscriptRows(ms, ws) \in Seq(Rows)
         /\ ShownIn(TranscriptRows(ms, ws)) = Each(Says, ms)
         /\ ShownIn(TranscriptRows(ms, ws)) \in Seq(Int)
<1>. DEFINE H == FirstOf(ms, ws)
            t == TranscriptRows(ms, ws)
<1>1. ms \in Seq(Message)
  BY DEF Run
<1>2. H \subseteq PlainHints /\ FirstHints(ms, ws) \in Seq(H)
  BY FirstAre
<1>. HIDE DEF H
<1>3. t \in Seq(Rows) /\ ShownIn(t) = Each(ShownFor, FirstHints(ms, ws))
  BY <1>1, <1>2, RowsShowTheHints
<1>4. ShownIn(t) = Each(Says, ms)
  BY <1>3, FirstShows
<1>5. Each(Says, ms) \in Seq(Int)
  BY <1>1, SaysTyped, EachTyped
<1>. QED BY <1>3, <1>4, <1>5

\* The positions from 0, and the ones of a run that have something to say.
Positions(ms) == [i \in DOMAIN ms |-> i - 1]
Spoken(ms) == {x \in 0 .. Len(ms) - 1 : ~IsBlank(ms[x + 1])}

LEMMA SpokenIs ==
  ASSUME NEW ms, Run(ms, 0)
  PROVE  Only(Positions(ms), Spoken(ms)) = Each(Says, ms)
<1>. DEFINE n == Len(ms)
            p == Positions(ms)
            S == Spoken(ms)
            a == [k \in DOMAIN p |-> IF p[k] \in S THEN <<p[k]>> ELSE <<>>]
            b == Images(Says, ms)
<1>1. n \in Nat /\ DOMAIN ms = 1 .. n /\ \A i \in 1 .. n : ms[i] \in Message /\ ms[i].index = i - 1
  BY DEF Run
<1>2. DOMAIN p = 1 .. n /\ \A k \in 1 .. n : p[k] = k - 1
  BY <1>1 DEF Positions
<1>3. ASSUME NEW k \in 1 .. n PROVE (IF p[k] \in S THEN <<p[k]>> ELSE <<>>) = Says[ms[k]]
  <2>1. p[k] = k - 1 /\ k - 1 \in 0 .. n - 1 /\ (k - 1) + 1 = k
    BY <1>1, <1>2
  <2>2. p[k] \in S <=> ~IsBlank(ms[k])
    BY <2>1 DEF Spoken
  <2>3. Says[ms[k]] = IF IsBlank(ms[k]) THEN <<>> ELSE <<ms[k].index>>
    BY <1>1 DEF Says
  <2>. QED BY <1>1, <2>1, <2>2, <2>3
<1>4. b = [k \in 1 .. n |-> Says[ms[k]]]
  BY <1>1 DEF Images
<1>. HIDE DEF p, S, b, n
<1>5. a = [k \in 1 .. n |-> Says[ms[k]]]
  BY <1>2, <1>3
<1>6. Only(p, S) = FlattenSeq(a)
  BY DEF Only
<1>. HIDE DEF a
<1>. QED BY <1>4, <1>5, <1>6 DEF Each, p, S, b

-----------------------------------------------------------------------------
(* Chips and the rows they are on *)

\* The chips on a row are of messages the row shows.
OnItsRow(r) == \A c \in ToSet(r.chips) : c.index \in ToSet(r.shown)
Anchored(h) == h \in Gatherable => \A c \in ToSet(ChipsFor[h]) : c.index \in ToSet(ShownFor[h])

LEMMA ChipsAreAnchored ==
  ASSUME NEW ms, NEW i \in 1 .. Len(ms), NEW h, Stands(ms, i, h), ChipsBelong(h)
  PROVE  Anchored(h)
<1>. SUFFICES ASSUME h \in Gatherable, NEW c \in ToSet(ChipsFor[h]) PROVE c.index \in ToSet(ShownFor[h])
  BY DEF Anchored
<1>1. h \in PlainHints /\ h.chips \in Seq(Chips)
  BY DEF Stands, PlainHints, Hints
<1>2. ShownFor[h] = IF IsCall(h) THEN CallShows(h) ELSE <<h.at>>
  BY GatherableRow
<1>3. ChipsFor[h] = InlineWarnings(h.chips)
  BY DEF ChipsFor
<1>4. c \in ToSet(h.chips)
  BY <1>1, <1>3, OnlyTyped DEF InlineWarnings
<1>5. c.index = h.at \/ (h.pair # NoIndex /\ c.index = h.pair)
  <2>1. PICK k \in 1 .. Len(h.chips) : h.chips[k] = c
    BY <1>1, <1>4, SetOf
  <2>. QED BY <2>1 DEF ChipsBelong
<1>6. CASE IsCall(h)
  <2>1. CASE h.pair = NoIndex
    <3>1. ShownFor[h] = <<h.at>>
      BY <1>2, <1>6, <2>1 DEF CallShows
    <3>. QED BY <1>5, <2>1, <3>1, SetOfOne
  <2>2. CASE h.pair # NoIndex
    <3>1. ShownFor[h] = <<h.at, h.pair>>
      BY <1>2, <1>6, <2>2 DEF CallShows
    <3>2. ToSet(<<h.at, h.pair>>) = {h.at, h.pair}
      BY DEF ToSet
    <3>. QED BY <1>5, <3>1, <3>2
  <2>. QED BY <2>1, <2>2
<1>7. CASE ~IsCall(h)
  <2>1. ms[i].kind # "tool_use"
    BY <1>7 DEF Stands, IsCall, IsBlank
  <2>2. h.pair = NoIndex
    BY <2>1 DEF Stands, PairsForward
  <2>3. ShownFor[h] = <<h.at>>
    BY <1>2, <1>7
  <2>. QED BY <1>5, <2>2, <2>3, SetOfOne
<1>. QED BY <1>6, <1>7

LEMMA HintRowKeepsChips ==
  ASSUME NEW h \in PlainHints, Anchored(h), NEW r \in ToSet(HintRow(h))
  PROVE  OnItsRow(r)
<1>1. CASE h.kind = "warning-only"
  BY <1>1, SetOfNone DEF HintRow
<1>2. CASE h.kind \in {"boundary", "metadata"}
  <2>1. HintRow(h) = <<Row(h.kind, <<h.at>>, <<>>, FALSE, None)>>
    BY <1>2 DEF HintRow
  <2>2. r.chips = <<>>
    BY <2>1, SetOfOne DEF Row
  <2>. QED BY <2>2, SetOfNone DEF OnItsRow
<1>3. CASE h.kind \in {"lifecycle", "standalone"}
  <2>1. h \in Gatherable
    BY <1>3 DEF Gatherable, PlainHints
  <2>2. HintRow(h) = <<Row(h.kind, ShownFor[h], ChipsFor[h], FALSE, None)>>
    BY <2>1, GatherableRow
  <2>3. r.chips = ChipsFor[h] /\ r.shown = ShownFor[h]
    BY <2>2, SetOfOne DEF Row
  <2>. QED BY <2>1, <2>3 DEF Anchored, OnItsRow
<1>. QED BY <1>1, <1>2, <1>3 DEF PlainHints, PlainKind

LEMMA GroupRowKeepsChips ==
  ASSUME NEW ms, NEW b \in Seq(Gatherable), \A h \in ToSet(b) : Anchored(h)
  PROVE  OnItsRow(GroupRow(ms, b))
<1>. SUFFICES ASSUME NEW c \in ToSet(Each(ChipsFor, b)) PROVE c.index \in ToSet(Each(ShownFor, b))
  BY DEF OnItsRow, GroupRow, Row
<1>1. b \in Seq(PlainHints)
  BY PlainChips
<1>2. ToSet(Each(ChipsFor, b)) = UNION {ToSet(ChipsFor[h]) : h \in ToSet(b)}
  BY ChipsForTyped, SetOfEach
<1>3. ToSet(Each(ShownFor, b)) = UNION {ToSet(ShownFor[h]) : h \in ToSet(b)}
  BY <1>1, RowForTyped, SetOfEach
<1>4. PICK h \in ToSet(b) : c \in ToSet(ChipsFor[h])
  BY <1>2
<1>5. h \in Gatherable
  BY SetOf
<1>6. c.index \in ToSet(ShownFor[h])
  BY <1>4, <1>5 DEF Anchored
<1>. QED BY <1>3, <1>6

LEMMA RowsKeepTheirChips ==
  ASSUME NEW ms, NEW base, Run(ms, base), NEW ws \in Seq(ParseWarning), NEW r \in ToSet(TranscriptRows(ms, ws))
  PROVE  OnItsRow(r)
<1>. DEFINE H == FirstOf(ms, ws)
            first == FirstHints(ms, ws)
<1>1. H \subseteq PlainHints /\ first \in Seq(H) /\ ToSet(first) = H /\ \A h \in H : Anchored(h)
  BY FirstAre, ChipsAreAnchored
<1>. HIDE DEF H
<1>2. r \in Rendered(first) \union GroupRows(ms, H) \union ClusterRows(H)
  BY <1>1, RowsShowTheHints
<1>3. CASE r \in Rendered(first)
  <2>1. first \in Seq(PlainHints)
    BY <1>1
  <2>. HIDE DEF first
  <2>2. PICK h \in ToSet(first) : r \in ToSet(HintRow(h))
    BY <1>3, <2>1, PlainView
  <2>. QED BY <1>1, <2>2, HintRowKeepsChips
<1>4. CASE r \in GroupRows(ms, H)
  <2>1. PICK b \in Seq(Riders(ms, H)) : r = GroupRow(ms, b)
    BY <1>4 DEF GroupRows
  <2>2. b \in Seq(Gatherable) /\ Riders(ms, H) \subseteq H
    BY <1>1, <2>1, RidersAre
  <2>3. \A h \in ToSet(b) : h \in Riders(ms, H)
    BY <2>1, SetOf
  <2>. QED BY <1>1, <2>1, <2>2, <2>3, GroupRowKeepsChips
<1>5. CASE r \in ClusterRows(H)
  <2>1. r.chips = <<>>
    BY <1>5 DEF ClusterRows, ClusterRow, Row
  <2>. QED BY <2>1, SetOfNone DEF OnItsRow
<1>. QED BY <1>2, <1>3, <1>4, <1>5

\* A warning of a record that is not known is on a row.
LEMMA UnknownHasItsChip ==
  ASSUME NEW ms, Run(ms, 0), NEW ws \in Seq(ParseWarning), NEW w \in ToSet(ws),
         w.index \in 0 .. Len(ms) - 1, ms[w.index + 1].kind = "unknown"
  PROVE  \E r \in ToSet(TranscriptRows(ms, ws)) : Chip(w) \in ToSet(r.chips)
<1>. DEFINE H == FirstOf(ms, ws)
            first == FirstHints(ms, ws)
            i == w.index + 1
            m == ms[i]
<1>1. ms \in Seq(Message) /\ Len(ms) \in Nat
  BY DEF Run
<1>2. i \in 1 .. Len(ms) /\ w.index \in Int /\ w.index < Len(ms) /\ i - 1 = w.index
  BY <1>1
<1>3. m.index = w.index
  BY <1>2 DEF Run
<1>4. ~ConsumedByPrev(ms, i) /\ ~IsBlank(m)
  <2>1. (i - 1) + 1 = i
    BY <1>2
  <2>. QED BY <2>1 DEF ConsumedByPrev, PairsForward, IsBlank
<1>. HIDE DEF i, m
<1>5. PICK h : HintsOf(ms, ws, i) = <<h>> /\ Stands(ms, i, h) /\ h.chips = InlineByIndex(ms, ws, w.index)
  BY <1>2, <1>3, <1>4, HintsOfIs DEF m, i
<1>6. h.kind = "standalone" /\ h \in PlainHints
  BY <1>4, <1>5 DEF Stands, m, i
<1>7. h \in Gatherable /\ h.chips \in Seq(Chips)
  BY <1>6 DEF Gatherable, PlainHints, Hints
<1>8. Chip(w) \in ToSet(h.chips) /\ Chip(w).bucket # "warning-only"
  <2>1. w \in ParseWarning
    BY SetOf
  <2>2. Chip(w) \in ToSet(InlineByIndex(ms, ws, w.index))
    BY <1>1, <1>2, InlineIs
  <2>. QED BY <1>5, <2>1, <2>2, ChipTyped
<1>9. Chip(w) \in ToSet(ChipsFor[h])
  <2>1. ChipsFor[h] = InlineWarnings(h.chips)
    BY <1>7 DEF ChipsFor
  <2>. QED BY <1>7, <1>8, <2>1, OnlyTyped DEF InlineWarnings
<1>. DEFINE r == Row(h.kind, ShownFor[h], ChipsFor[h], FALSE, None)
<1>10. HintRow(h) = <<r>> /\ r.chips = ChipsFor[h]
  BY <1>7, GatherableRow DEF Row
<1>. HIDE DEF r
<1>11. H \subseteq PlainHints /\ first \in Seq(H) /\ ToSet(first) = H
  BY FirstAre
<1>12. h \in H
  BY <1>2, <1>5, SetOfOne DEF FirstOf
<1>. HIDE DEF H
<1>13. ChipsOn(ToSet(TranscriptRows(ms, ws))) = ChipsOn(Rendered(first))
  BY <1>11, RowsShowTheHints
<1>14. r \in Rendered(first)
  <2>1. first \in Seq(PlainHints)
    BY <1>11
  <2>2. r \in ToSet(HintRow(h)) /\ h \in ToSet(first)
    BY <1>10, <1>11, <1>12, SetOfOne
  <2>. HIDE DEF first
  <2>3. Rendered(first) = UNION {ToSet(HintRow(x)) : x \in ToSet(first)}
    BY <2>1, PlainView
  <2>. QED BY <2>2, <2>3
<1>15. Chip(w) \in ChipsOn(Rendered(first))
  BY <1>9, <1>10, <1>14 DEF ChipsOn
<1>16. Chip(w) \in ChipsOn(ToSet(TranscriptRows(ms, ws)))
  BY <1>13, <1>15
<1>. QED BY <1>16 DEF ChipsOn

\* No message is on two rows.
LEMMA SpokenOnce ==
  ASSUME NEW ms, Run(ms, 0)
  PROVE  IsInjective(Each(Says, ms))
<1>. DEFINE p == Positions(ms)
            S == Spoken(ms)
            t == Only(p, S)
<1>1. Len(ms) \in Nat /\ DOMAIN ms = 1 .. Len(ms)
  BY DEF Run
<1>2. p \in Seq(Int) /\ Len(p) = Len(ms) /\ \A k \in 1 .. Len(ms) : p[k] = k - 1
  BY <1>1 DEF Positions
<1>. HIDE DEF p, S
<1>3. PICK g : Picks(g, p, S)
  BY <1>2, OnlyPicks
<1>4. /\ g \in [1 .. Len(t) -> 1 .. Len(ms)]
      /\ \A k \in 1 .. Len(t) : t[k] = p[g[k]]
      /\ \A k, l \in 1 .. Len(t) : k < l => g[k] < g[l]
  BY <1>2, <1>3 DEF Picks
<1>5. t \in Seq(Int)
  BY <1>2, OnlyTyped
<1>6. DOMAIN t = 1 .. Len(t) /\ Len(t) \in Nat
  BY <1>5
<1>. HIDE DEF t
<1>7. ASSUME NEW k \in 1 .. Len(t), NEW l \in 1 .. Len(t), t[k] = t[l] PROVE k = l
  <2>1. g[k] \in 1 .. Len(ms) /\ g[l] \in 1 .. Len(ms)
    BY <1>4
  <2>2. g[k] - 1 = g[l] - 1
    BY <1>2, <1>4, <1>7, <2>1
  <2>3. g[k] = g[l]
    BY <1>1, <2>1, <2>2
  <2>4. ~(g[k] < g[l]) /\ ~(g[l] < g[k])
    BY <1>1, <2>1, <2>3
  <2>5. ~(k < l) /\ ~(l < k)
    BY <1>4, <2>4
  <2>. QED BY <1>6, <2>5
<1>8. IsInjective(t)
  BY <1>6, <1>7 DEF IsInjective
<1>. QED BY <1>8, SpokenIs DEF t, p, S

LEMMA OneRowEach ==
  ASSUME NEW ms, Run(ms, 0), NEW ws \in Seq(ParseWarning),
         NEW k \in DOMAIN TranscriptRows(ms, ws), NEW l \in DOMAIN TranscriptRows(ms, ws), NEW x,
         x \in ToSet(TranscriptRows(ms, ws)[k].shown), x \in ToSet(TranscriptRows(ms, ws)[l].shown)
  PROVE  k = l
<1>. DEFINE rows == TranscriptRows(ms, ws)
            ss == Images(ShownBy, rows)
<1>1. rows \in Seq(Rows) /\ ShownIn(rows) = Each(Says, ms)
  BY RowsAreTyped
<1>2. DOMAIN rows = 1 .. Len(rows) /\ Len(rows) \in Nat /\ \A j \in 1 .. Len(rows) : rows[j] \in Rows
  BY <1>1
<1>. HIDE DEF rows
<1>3. Maps(ShownBy, Rows, Int) /\ ShownIn(rows) = FlattenSeq(ss)
  BY <1>1, ShownIsEach DEF Each
<1>4. ss \in Seq(Seq(Int)) /\ Len(ss) = Len(rows) /\ \A j \in 1 .. Len(rows) : ss[j] = ShownBy[rows[j]]
  BY <1>1, <1>3, EachTyped
<1>5. \A j \in 1 .. Len(rows) : ss[j] = rows[j].shown
  BY <1>2, <1>4 DEF ShownBy
<1>. HIDE DEF ss
<1>6. IsInjective(FlattenSeq(ss))
  BY <1>1, <1>3, SpokenOnce
<1>7. Disjoint(ss)
  BY <1>4, <1>6, FlattenApart
<1>8. k \in 1 .. Len(rows) /\ l \in 1 .. Len(rows) /\ x \in ToSet(ss[k]) /\ x \in ToSet(ss[l])
  BY <1>2, <1>5 DEF rows
<1>9. ~(k < l) /\ ~(l < k)
  BY <1>4, <1>7, <1>8 DEF Disjoint
<1>. QED BY <1>2, <1>8, <1>9

-----------------------------------------------------------------------------
(* What a folded group hides *)

LEMMA MessageAtIs ==
  ASSUME NEW ms, Run(ms, 0), NEW x \in 0 .. Len(ms) - 1
  PROVE  MessageAt(ms, x) = ms[x + 1] /\ ms[x + 1] \in Message /\ ms[x + 1].index = x /\ x + 1 \in 1 .. Len(ms)
<1>1. Len(ms) \in Nat /\ DOMAIN ms = 1 .. Len(ms) /\ x + 1 \in 1 .. Len(ms) /\ ms \in Seq(Message)
  BY DEF Run
<1>2. \A i \in 1 .. Len(ms) : ms[i].index = i - 1
  BY DEF Run
<1>3. ms[x + 1].index = x
  BY <1>1, <1>2
<1>4. \A i \in DOMAIN ms : ms[i].index = x => i = x + 1
  BY <1>1, <1>2
<1>5. (CHOOSE i \in DOMAIN ms : ms[i].index = x) = x + 1
  BY <1>1, <1>3, <1>4
<1>6. MessageAt(ms, x) = ms[x + 1]
  BY <1>5 DEF MessageAt
<1>7. ms[x + 1] \in Message
  BY <1>1
<1>. QED BY <1>1, <1>3, <1>6, <1>7

\* What a rider of a group stands for: a call, with the result right after it
\* when there is one, or something the assistant says.
RidesFor(ms, h) ==
  /\ h.at \in 0 .. Len(ms) - 1
  /\ IsCall(h) => /\ ms[h.at + 1].kind = "tool_use"
                  /\ h.pair # NoIndex =>
                       /\ h.pair = h.at + 1 /\ h.pair \in 0 .. Len(ms) - 1
                       /\ ms[h.pair + 1].kind = "tool_result"
  /\ ~IsCall(h) => ms[h.at + 1].kind = "assistant"

LEMMA RidersStandFor ==
  ASSUME NEW ms, Run(ms, 0), NEW ws \in Seq(ParseWarning), NEW h \in Riders(ms, FirstOf(ms, ws))
  PROVE  RidesFor(ms, h)
<1>1. Len(ms) \in Nat
  BY DEF Run
<1>2. PICK i \in 1 .. Len(ms) : Stands(ms, i, h)
  BY FirstAre DEF Riders
<1>3. h.at = ms[i].index
  BY <1>2 DEF Stands
<1>4. ms[i].index = i - 1
  BY DEF Run
<1>5. h.at = i - 1 /\ h.at \in 0 .. Len(ms) - 1 /\ h.at + 1 = i
  BY <1>1, <1>3, <1>4
<1>6. ASSUME IsCall(h) PROVE ms[i].kind = "tool_use"
  <2>1. ms[i].kind \in MessageKind
    <3>1. ms[i] \in Message
      BY DEF Run
    <3>. QED BY <3>1 DEF Message
  <2>2. h.kind = "lifecycle"
    BY <1>6 DEF IsCall
  <2>. QED BY <1>2, <2>1, <2>2 DEF Stands, MessageKind, IsBlank
<1>7. ASSUME IsCall(h), h.pair # NoIndex
      PROVE  h.pair = h.at + 1 /\ h.pair \in 0 .. Len(ms) - 1 /\ ms[h.pair + 1].kind = "tool_result"
  <2>1. PairsForward(ms, i) /\ h.pair = ms[i + 1].index
    BY <1>2, <1>7 DEF Stands
  <2>2. i < Len(ms) /\ ms[i + 1].kind = "tool_result"
    BY <2>1 DEF PairsForward
  <2>3. i + 1 \in 1 .. Len(ms)
    BY <1>1, <2>2
  <2>4. ms[i + 1].index = 0 + (i + 1) - 1
    BY <2>3 DEF Run
  <2>5. h.pair = i
    BY <2>1, <2>4
  <2>6. h.pair = h.at + 1 /\ h.pair \in 0 .. Len(ms) - 1 /\ h.pair + 1 = i + 1
    BY <1>1, <1>5, <2>3, <2>5
  <2>. QED BY <2>2, <2>6
<1>8. ASSUME ~IsCall(h) PROVE ms[i].kind = "assistant"
  <2>1. MessageAt(ms, h.at).kind = "assistant"
    BY <1>8 DEF Riders, IsPassthrough
  <2>. QED BY <1>5, <2>1, MessageAtIs
<1>. QED BY <1>5, <1>6, <1>7, <1>8 DEF RidesFor

\* What a set of positions holds.
Spots(ms, X) == X \subseteq 0 .. Len(ms) - 1
Inside(ms, X) == {ms[x + 1] : x \in X}
CallsIn(ms, X) == {m \in Inside(ms, X) : m.kind = "tool_use"}
ResultsIn(ms, X) == {m \in Inside(ms, X) : m.kind = "tool_result"}

LEMMA InsideIs ==
  ASSUME NEW ms, Run(ms, 0), NEW X, Spots(ms, X)
  PROVE  /\ IsFiniteSet(CallsIn(ms, X)) /\ IsFiniteSet(ResultsIn(ms, X))
         /\ \A m \in Inside(ms, X) : m.index \in X /\ m = ms[m.index + 1]
         /\ \A x \in X : ms[x + 1] \in Inside(ms, X) /\ ms[x + 1].index = x
<1>. DEFINE n == Len(ms)
            In == Inside(ms, X)
            f == [m \in In |-> m.index]
<1>1. n \in Nat
  BY DEF Run
<1>2. X \subseteq 0 .. n - 1 /\ \A x \in X : ms[x + 1].index = x
  BY MessageAtIs DEF Spots
<1>3. \A m \in In : m.index \in X /\ m = ms[m.index + 1]
  BY <1>2 DEF Inside
<1>4. \A x \in X : ms[x + 1] \in In
  BY DEF Inside
<1>. HIDE DEF In, n
<1>5. f \in Injection(In, 0 .. n - 1)
  <2>1. f \in [In -> 0 .. n - 1]
    BY <1>2, <1>3
  <2>2. \A a, b \in In : f[a] = f[b] => a = b
    BY <1>3
  <2>. HIDE DEF f
  <2>. QED BY <2>1, <2>2 DEF Injection, IsInjective
<1>6. IsFiniteSet(0 .. n - 1)
  BY <1>1, FS_Interval
<1>. HIDE DEF f
<1>7. IsFiniteSet(In)
  BY <1>5, <1>6, FS_Injection
<1>8. IsFiniteSet(CallsIn(ms, X)) /\ IsFiniteSet(ResultsIn(ms, X))
  <2>1. CallsIn(ms, X) \subseteq In /\ ResultsIn(ms, X) \subseteq In
    BY DEF CallsIn, ResultsIn, In
  <2>. QED BY <1>7, <2>1, FS_Subset
<1>. QED BY <1>2, <1>3, <1>4, <1>8 DEF In

\* Results that each have a call right before them are no more than the calls,
\* and calls that each have a result right after them no more than the results.
LEMMA NoMoreResults ==
  ASSUME NEW ms, Run(ms, 0), NEW X, Spots(ms, X),
         \A m \in ResultsIn(ms, X) : m.index - 1 \in X /\ ms[m.index].kind = "tool_use"
  PROVE  Cardinality(ResultsIn(ms, X)) <= Cardinality(CallsIn(ms, X))
<1>. DEFINE A == ResultsIn(ms, X)
            B == CallsIn(ms, X)
            f == [m \in A |-> ms[m.index]]
<1>1. \A m \in A : m.index \in X /\ m = ms[m.index + 1] /\ m.index \in Int
  <2>1. \A m \in Inside(ms, X) : m.index \in X /\ m = ms[m.index + 1]
    BY InsideIs
  <2>2. A \subseteq Inside(ms, X)
    BY DEF ResultsIn
  <2>3. \A x \in X : x \in Int
    <3>1. \A x \in 0 .. Len(ms) - 1 : x \in Int
      OBVIOUS
    <3>. QED BY <3>1 DEF Spots
  <2>. HIDE DEF A
  <2>. QED BY <2>1, <2>2, <2>3
<1>2. ASSUME NEW m \in A PROVE ms[m.index] \in B /\ ms[m.index].index = m.index - 1
  <2>1. m.index - 1 \in X /\ (m.index - 1) + 1 = m.index
    BY <1>1
  <2>2. ms[m.index] \in Inside(ms, X) /\ ms[m.index].index = m.index - 1
    BY <2>1, InsideIs
  <2>. QED BY <2>2 DEF CallsIn
<1>. HIDE DEF A, B
<1>3. f \in [A -> B] /\ \A m \in A : f[m] = ms[m.index]
  BY <1>2
<1>4. ASSUME NEW a \in A, NEW b \in A, f[a] = f[b] PROVE a = b
  <2>1. a.index - 1 = b.index - 1
    BY <1>2, <1>3, <1>4
  <2>2. a.index = b.index
    BY <1>1, <2>1
  <2>. QED BY <1>1, <2>2
<1>. HIDE DEF f
<1>5. f \in Injection(A, B)
  BY <1>3, <1>4 DEF Injection, IsInjective
<1>6. IsFiniteSet(B)
  BY InsideIs DEF B
<1>. QED BY <1>5, <1>6, FS_Injection DEF A, B

LEMMA NoMoreCalls ==
  ASSUME NEW ms, Run(ms, 0), NEW X, Spots(ms, X),
         \A m \in CallsIn(ms, X) : m.index + 1 \in X /\ ms[m.index + 2].kind = "tool_result"
  PROVE  Cardinality(CallsIn(ms, X)) <= Cardinality(ResultsIn(ms, X))
<1>. DEFINE A == CallsIn(ms, X)
            B == ResultsIn(ms, X)
            f == [m \in A |-> ms[m.index + 2]]
<1>1. \A m \in A : m.index \in X /\ m = ms[m.index + 1] /\ m.index \in Int
  <2>1. \A m \in Inside(ms, X) : m.index \in X /\ m = ms[m.index + 1]
    BY InsideIs
  <2>2. A \subseteq Inside(ms, X)
    BY DEF CallsIn
  <2>3. \A x \in X : x \in Int
    <3>1. \A x \in 0 .. Len(ms) - 1 : x \in Int
      OBVIOUS
    <3>. QED BY <3>1 DEF Spots
  <2>. HIDE DEF A
  <2>. QED BY <2>1, <2>2, <2>3
<1>2. ASSUME NEW m \in A PROVE ms[m.index + 2] \in B /\ ms[m.index + 2].index = m.index + 1
  <2>1. m.index + 1 \in X /\ (m.index + 1) + 1 = m.index + 2
    BY <1>1
  <2>2. ms[m.index + 2] \in Inside(ms, X) /\ ms[m.index + 2].index = m.index + 1
    BY <2>1, InsideIs
  <2>. QED BY <2>2 DEF ResultsIn
<1>. HIDE DEF A, B
<1>3. f \in [A -> B] /\ \A m \in A : f[m] = ms[m.index + 2]
  BY <1>2
<1>4. ASSUME NEW a \in A, NEW b \in A, f[a] = f[b] PROVE a = b
  <2>1. a.index + 1 = b.index + 1
    BY <1>2, <1>3, <1>4
  <2>2. a.index = b.index
    BY <1>1, <2>1
  <2>. QED BY <1>1, <2>2
<1>. HIDE DEF f
<1>5. f \in Injection(A, B)
  BY <1>3, <1>4 DEF Injection, IsInjective
<1>6. IsFiniteSet(B)
  BY InsideIs DEF B
<1>. QED BY <1>5, <1>6, FS_Injection DEF A, B

\* What the group of the riders b shows.
LEMMA GroupShows ==
  ASSUME NEW ms, NEW b \in Seq(Gatherable), \A h \in ToSet(b) : RidesFor(ms, h), Len(ms) \in Nat
  PROVE  /\ Spots(ms, ToSet(GroupRow(ms, b).shown))
         /\ \A x \in ToSet(GroupRow(ms, b).shown) : \E h \in ToSet(b) :
              x = h.at \/ (IsCall(h) /\ h.pair # NoIndex /\ x = h.pair)
         /\ \A h \in ToSet(b) : /\ h.at \in ToSet(GroupRow(ms, b).shown)
                                /\ IsCall(h) /\ h.pair # NoIndex => h.pair \in ToSet(GroupRow(ms, b).shown)
<1>. DEFINE X == ToSet(Each(ShownFor, b))
<1>1. GroupRow(ms, b).shown = Each(ShownFor, b)
  BY DEF GroupRow, Row
<1>2. b \in Seq(PlainHints)
  BY PlainChips
<1>3. X = UNION {ToSet(ShownFor[h]) : h \in ToSet(b)}
  BY <1>2, RowForTyped, SetOfEach
<1>4. ASSUME NEW h \in ToSet(b)
      PROVE  ToSet(ShownFor[h]) = {h.at} \union {x \in {h.pair} : IsCall(h) /\ h.pair # NoIndex}
  <2>1. h \in Gatherable
    BY SetOf
  <2>2. ShownFor[h] = IF IsCall(h) THEN CallShows(h) ELSE <<h.at>>
    BY <2>1, GatherableRow
  <2>3. ToSet(<<h.at, h.pair>>) = {h.at, h.pair}
    BY DEF ToSet
  <2>4. CASE IsCall(h) /\ h.pair # NoIndex
    <3>1. ShownFor[h] = <<h.at, h.pair>>
      BY <2>2, <2>4 DEF CallShows
    <3>. QED BY <2>3, <2>4, <3>1
  <2>5. CASE ~(IsCall(h) /\ h.pair # NoIndex)
    <3>1. ShownFor[h] = <<h.at>>
      BY <2>2, <2>5 DEF CallShows
    <3>. QED BY <2>5, <3>1, SetOfOne
  <2>. QED BY <2>4, <2>5
<1>. HIDE DEF X
<1>5. \A x \in X : \E h \in ToSet(b) : x = h.at \/ (IsCall(h) /\ h.pair # NoIndex /\ x = h.pair)
  BY <1>3, <1>4
<1>6. \A h \in ToSet(b) : h.at \in X /\ (IsCall(h) /\ h.pair # NoIndex => h.pair \in X)
  BY <1>3, <1>4
<1>7. X \subseteq 0 .. Len(ms) - 1
  BY <1>5 DEF RidesFor
<1>. QED BY <1>1, <1>5, <1>6, <1>7 DEF X, Spots

\* A group that reports that all succeeded has a result for every call of its
\* own, and none of them is of a failure.
LEMMA AllSucceeded ==
  ASSUME NEW ms, NEW b \in Seq(Gatherable), AggregateStatus(ms, Calls(b)) = "all-success",
         NEW h \in ToSet(b), IsCall(h)
  PROVE  h.pair # NoIndex /\ ~DetectFailure(MessageAt(ms, h.pair))
<1>. DEFINE calls == Calls(b)
            pending == {k \in DOMAIN calls : calls[k].pair = NoIndex}
            failed == {k \in DOMAIN calls \ pending : DetectFailure(MessageAt(ms, calls[k].pair))}
<1>1. h \in ToSet(calls)
  BY CallsAre
<1>2. PICK k \in DOMAIN calls : calls[k] = h
  BY <1>1 DEF ToSet
<1>3. AggregateStatus(ms, calls) =
        CASE pending # {} -> "in-flight"
          [] pending = {} /\ failed = {} -> "all-success"
          [] pending = {} /\ failed # {} /\ failed = DOMAIN calls -> "all-failed"
          [] OTHER -> "mixed"
  BY DEF AggregateStatus
<1>. HIDE DEF calls, pending, failed
<1>4. AggregateStatus(ms, calls) = "all-success"
  BY DEF calls
<1>5. pending = {} /\ failed = {}
  BY <1>3, <1>4
<1>6. k \notin pending /\ k \notin failed
  BY <1>5
<1>7. calls[k].pair # NoIndex
  BY <1>2, <1>6 DEF pending
<1>8. ~DetectFailure(MessageAt(ms, calls[k].pair))
  BY <1>2, <1>6 DEF failed
<1>. QED BY <1>2, <1>7, <1>8

LEMMA GroupRowIsSafe ==
  ASSUME NEW ms, Run(ms, 0), NEW b \in Seq(Gatherable), \A h \in ToSet(b) : RidesFor(ms, h)
  PROVE  LET X == ToSet(GroupRow(ms, b).shown)
         IN /\ \A m \in Inside(ms, X) : m.kind \in {"tool_use", "tool_result", "assistant"}
            /\ Cardinality(ResultsIn(ms, X)) <= Cardinality(CallsIn(ms, X))
            /\ GroupRow(ms, b).status = "all-success" =>
                 /\ Cardinality(ResultsIn(ms, X)) = Cardinality(CallsIn(ms, X))
                 /\ \A m \in ResultsIn(ms, X) : m.text # "failure"
<1>. DEFINE X == ToSet(GroupRow(ms, b).shown)
<1>1. Len(ms) \in Nat
  BY DEF Run
<1>2. /\ Spots(ms, X)
      /\ \A x \in X : \E h \in ToSet(b) : x = h.at \/ (IsCall(h) /\ h.pair # NoIndex /\ x = h.pair)
      /\ \A h \in ToSet(b) : h.at \in X /\ (IsCall(h) /\ h.pair # NoIndex => h.pair \in X)
  BY <1>1, GroupShows
<1>3. GroupRow(ms, b).status = AggregateStatus(ms, Calls(b))
  BY DEF GroupRow, Row
<1>. HIDE DEF X
<1>4. \A m \in Inside(ms, X) : m.index \in X /\ m = ms[m.index + 1]
  BY <1>2, InsideIs
<1>5. ASSUME NEW m \in Inside(ms, X)
      PROVE  \E h \in ToSet(b) :
               \/ /\ m.index = h.at
                  /\ m.kind = IF IsCall(h) THEN "tool_use" ELSE "assistant"
               \/ /\ IsCall(h) /\ h.pair # NoIndex /\ m.index = h.pair
                  /\ m.kind = "tool_result"
  <2>1. PICK h \in ToSet(b) : m.index = h.at \/ (IsCall(h) /\ h.pair # NoIndex /\ m.index = h.pair)
    BY <1>2, <1>4
  <2>2. RidesFor(ms, h) /\ m = ms[m.index + 1]
    BY <1>4
  <2>3. CASE m.index = h.at
    BY <2>2, <2>3 DEF RidesFor
  <2>4. CASE IsCall(h) /\ h.pair # NoIndex /\ m.index = h.pair
    BY <2>2, <2>4 DEF RidesFor
  <2>. QED BY <2>1, <2>3, <2>4
<1>6. \A m \in Inside(ms, X) : m.kind \in {"tool_use", "tool_result", "assistant"}
  BY <1>5
<1>7. ASSUME NEW m \in ResultsIn(ms, X)
      PROVE  \E h \in ToSet(b) : IsCall(h) /\ h.pair # NoIndex /\ m.index = h.pair
  BY <1>5 DEF ResultsIn
<1>8. ASSUME NEW m \in ResultsIn(ms, X) PROVE m.index - 1 \in X /\ ms[m.index].kind = "tool_use"
  <2>1. PICK h \in ToSet(b) : IsCall(h) /\ h.pair # NoIndex /\ m.index = h.pair
    BY <1>7
  <2>2. h.at \in 0 .. Len(ms) - 1 /\ ms[h.at + 1].kind = "tool_use" /\ h.pair = h.at + 1
    BY <2>1 DEF RidesFor
  <2>3. m.index - 1 = h.at /\ m.index = h.at + 1
    BY <1>1, <2>1, <2>2
  <2>. QED BY <1>2, <2>2, <2>3
<1>9. Cardinality(ResultsIn(ms, X)) <= Cardinality(CallsIn(ms, X))
  BY <1>2, <1>8, NoMoreResults
<1>10. ASSUME GroupRow(ms, b).status = "all-success"
       PROVE  /\ Cardinality(ResultsIn(ms, X)) = Cardinality(CallsIn(ms, X))
              /\ \A m \in ResultsIn(ms, X) : m.text # "failure"
  <2>1. \A h \in ToSet(b) : IsCall(h) => h.pair # NoIndex /\ ~DetectFailure(MessageAt(ms, h.pair))
    BY <1>3, <1>10, AllSucceeded
  <2>2. ASSUME NEW m \in CallsIn(ms, X) PROVE m.index + 1 \in X /\ ms[m.index + 2].kind = "tool_result"
    <3>1. PICK h \in ToSet(b) : m.index = h.at /\ IsCall(h)
      BY <1>5 DEF CallsIn
    <3>2. h.pair # NoIndex
      BY <2>1, <3>1
    <3>3. h.at \in 0 .. Len(ms) - 1 /\ h.pair = h.at + 1 /\ ms[h.pair + 1].kind = "tool_result"
      BY <3>1, <3>2 DEF RidesFor
    <3>4. m.index + 1 = h.pair /\ m.index + 2 = h.pair + 1
      BY <1>1, <3>1, <3>3
    <3>. QED BY <1>2, <3>1, <3>2, <3>3, <3>4
  <2>3. Cardinality(CallsIn(ms, X)) <= Cardinality(ResultsIn(ms, X))
    BY <1>2, <2>2, NoMoreCalls
  <2>4. Cardinality(CallsIn(ms, X)) \in Nat /\ Cardinality(ResultsIn(ms, X)) \in Nat
    BY <1>2, InsideIs, FS_CardinalityType
  <2>5. ASSUME NEW m \in ResultsIn(ms, X) PROVE m.text # "failure"
    <3>1. PICK h \in ToSet(b) : IsCall(h) /\ h.pair # NoIndex /\ m.index = h.pair
      BY <1>7
    <3>2. h.pair \in 0 .. Len(ms) - 1
      BY <3>1 DEF RidesFor
    <3>3. MessageAt(ms, h.pair) = ms[h.pair + 1]
      BY <3>2, MessageAtIs
    <3>4. m = ms[m.index + 1] /\ m.kind = "tool_result"
      BY <1>4 DEF ResultsIn
    <3>5. ~DetectFailure(m)
      BY <2>1, <3>1, <3>3, <3>4
    <3>. QED BY <3>4, <3>5 DEF DetectFailure
  <2>. QED BY <1>9, <2>3, <2>4, <2>5
<1>. QED BY <1>6, <1>9, <1>10 DEF X

\* What a row of its kind is.
LEMMA RowsOfAKind ==
  ASSUME NEW ms, NEW base, Run(ms, base), NEW ws \in Seq(ParseWarning), NEW r \in ToSet(TranscriptRows(ms, ws))
  PROVE  /\ r.kind = "group" => r \in GroupRows(ms, FirstOf(ms, ws))
         /\ r.kind = "cluster" => r \in ClusterRows(FirstOf(ms, ws))
<1>. DEFINE H == FirstOf(ms, ws)
            first == FirstHints(ms, ws)
<1>1. H \subseteq PlainHints /\ first \in Seq(H)
  BY FirstAre
<1>. HIDE DEF H
<1>2. r \in Rendered(first) \union GroupRows(ms, H) \union ClusterRows(H)
  BY <1>1, RowsShowTheHints
<1>3. ASSUME r \in Rendered(first) PROVE r.kind \notin {"group", "cluster"}
  <2>1. first \in Seq(PlainHints)
    BY <1>1
  <2>. HIDE DEF first
  <2>2. PICK h \in ToSet(first) : r \in ToSet(HintRow(h))
    BY <1>3, <2>1, PlainView
  <2>3. h \in PlainHints
    BY <2>1, SetOf
  <2>4. h.kind \in PlainKind
    BY <2>3 DEF PlainHints
  <2>5. \A kind, shown, chips : ToSet(<<Row(kind, shown, chips, FALSE, None)>>) = {Row(kind, shown, chips, FALSE, None)}
    BY SetOfOne
  <2>6. r.kind = h.kind
    BY <2>2, <2>4, <2>5, SetOfNone DEF HintRow, Row, PlainKind
  <2>. QED BY <2>4, <2>6 DEF PlainKind
<1>4. r \in GroupRows(ms, H) => r.kind = "group"
  BY DEF GroupRows, GroupRow, Row
<1>5. r \in ClusterRows(H) => r.kind = "cluster"
  BY DEF ClusterRows, ClusterRow, Row
<1>. QED BY <1>2, <1>3, <1>4, <1>5 DEF H

\* What a cluster holds.
LEMMA ClusterRowIsSafe ==
  ASSUME NEW ms, Run(ms, 0), NEW ws \in Seq(ParseWarning), NEW r \in ClusterRows(FirstOf(ms, ws))
  PROVE  \A m \in Inside(ms, ToSet(r.shown)) : m.kind = "metadata"
<1>. SUFFICES ASSUME NEW x \in ToSet(r.shown) PROVE ms[x + 1].kind = "metadata"
  BY DEF Inside
<1>1. PICK b \in Seq(MetaIn(FirstOf(ms, ws))) : r = ClusterRow(b)
  BY DEF ClusterRows
<1>2. r.shown = AtsOf(b)
  BY <1>1 DEF ClusterRow, Row
<1>3. PICK k \in DOMAIN b : x = b[k].at
  BY <1>2 DEF AtsOf, ToSet
<1>4. b[k] \in MetaIn(FirstOf(ms, ws))
  BY <1>1, <1>3
<1>. DEFINE h == b[k]
<1>5. h \in FirstOf(ms, ws) /\ h.kind = "metadata"
  BY <1>4 DEF MetaIn
<1>. HIDE DEF h
<1>6. PICK i \in 1 .. Len(ms) : Stands(ms, i, h)
  BY <1>5, FirstAre
<1>7. ms[i].index = i - 1 /\ h.at = ms[i].index
  BY <1>6 DEF Run, Stands
<1>8. ms[i].kind = "metadata"
  <2>1. ms[i].kind \in MessageKind
    <3>1. ms[i] \in Message
      BY DEF Run
    <3>. QED BY <3>1 DEF Message
  <2>. QED BY <1>5, <1>6, <2>1 DEF Stands, MessageKind, IsBlank
<1>9. x + 1 = i
  BY <1>3, <1>7 DEF h
<1>. QED BY <1>8, <1>9

-----------------------------------------------------------------------------
(* Parts of a session *)

\* The messages from a to z, counted from 0.
Piece(ms, a, z) == [i \in 1 .. z + 1 - a |-> ms[a + i]]
Ends(ms, a, z) == a \in 0 .. Len(ms) /\ z \in a - 1 .. Len(ms) - 1

LEMMA PieceIs ==
  ASSUME NEW ms, Run(ms, 0), NEW a, NEW z, Ends(ms, a, z)
  PROVE  /\ Piece(ms, a, z) \in Seq(Message) /\ Len(Piece(ms, a, z)) = z + 1 - a /\ a \in Nat /\ z \in Int
         /\ \A i \in 1 .. z + 1 - a : Piece(ms, a, z)[i] = ms[a + i] /\ a + i \in 1 .. Len(ms)
         /\ Run(Piece(ms, a, z), a)
<1>1. ms \in Seq(Message) /\ Len(ms) \in Nat /\ \A i \in 1 .. Len(ms) : ms[i] \in Message /\ ms[i].index = i - 1
  BY DEF Run
<1>2. a \in Nat /\ z \in Int /\ z + 1 - a \in Nat
  BY <1>1 DEF Ends
<1>3. ASSUME NEW i \in 1 .. z + 1 - a PROVE a + i \in 1 .. Len(ms)
  <2>1. z <= Len(ms) - 1 /\ i <= z + 1 - a /\ 1 <= i
    BY <1>1, <1>2 DEF Ends
  <2>. QED BY <1>1, <1>2, <2>1
<1>4. Piece(ms, a, z) \in [1 .. z + 1 - a -> Message]
  BY <1>1, <1>3 DEF Piece
<1>5. Piece(ms, a, z) \in Seq(Message) /\ Len(Piece(ms, a, z)) = z + 1 - a
  BY <1>2, <1>4
<1>6. \A i \in 1 .. z + 1 - a : Piece(ms, a, z)[i] = ms[a + i]
  BY DEF Piece
<1>7. \A i \in 1 .. Len(Piece(ms, a, z)) : Piece(ms, a, z)[i] \in Message /\ Piece(ms, a, z)[i].index = a + (i - 1)
  <2>1. ASSUME NEW i \in 1 .. z + 1 - a PROVE Piece(ms, a, z)[i] \in Message /\ Piece(ms, a, z)[i].index = a + (i - 1)
    <3>1. Piece(ms, a, z)[i] = ms[a + i] /\ ms[a + i] \in Message /\ ms[a + i].index = (a + i) - 1
      BY <1>1, <1>3, <1>6
    <3>. QED BY <1>2, <3>1
  <2>. QED BY <1>5, <2>1
<1>. DEFINE p == Piece(ms, a, z)
<1>8. Run(p, a)
  <2>1. p \in Seq(Message) /\ \A i \in 1 .. Len(p) : p[i] \in Message /\ p[i].index = a + (i - 1)
    BY <1>5, <1>7
  <2>. HIDE DEF p
  <2>. QED BY <1>2, <2>1 DEF Run
<1>. QED BY <1>2, <1>3, <1>5, <1>6, <1>8

LEMMA SliceIs ==
  ASSUME NEW ms, Run(ms, 0), NEW range, Ends(ms, range.start, range.end)
  PROVE  Slice(ms, range) = Piece(ms, range.start, range.end)
<1>. DEFINE a == range.start
            z == range.end
            n == Len(ms)
            lo == Max({0, a})
            hi == Min({n - 1, z})
<1>1. n \in Nat /\ a \in Nat /\ z \in Int /\ z <= n - 1 /\ a - 1 <= z
  BY DEF Run, Ends
<1>2. Slice(ms, range) = IF hi < lo THEN <<>> ELSE SubSeq(ms, lo + 1, hi + 1)
  BY DEF Slice
<1>. HIDE DEF a, z, n
<1>3. lo = a
  <2>. DEFINE S == {0, a}
  <2>1. a \in S /\ (\A y \in S : a >= y) /\ \A x \in S : (\A y \in S : x >= y) => x = a
    BY <1>1
  <2>2. (CHOOSE x \in S : \A y \in S : x >= y) = a
    <3>. HIDE DEF S
    <3>. QED BY <2>1
  <2>. QED BY <2>2 DEF Max
<1>4. hi = z
  <2>. DEFINE S == {n - 1, z}
  <2>1. z \in S /\ (\A y \in S : z <= y) /\ \A x \in S : (\A y \in S : x <= y) => x = z
    BY <1>1
  <2>2. (CHOOSE x \in S : \A y \in S : x <= y) = z
    <3>. HIDE DEF S
    <3>. QED BY <2>1
  <2>. QED BY <2>2 DEF Min
<1>. HIDE DEF lo, hi
<1>5. Slice(ms, range) = IF z < a THEN <<>> ELSE SubSeq(ms, a + 1, z + 1)
  BY <1>2, <1>3, <1>4
<1>6. Piece(ms, a, z) \in Seq(Message) /\ Len(Piece(ms, a, z)) = z + 1 - a
      /\ \A i \in 1 .. z + 1 - a : Piece(ms, a, z)[i] = ms[a + i] /\ a + i \in 1 .. n
  BY PieceIs DEF a, z, n
<1>7. CASE z < a
  <2>1. Slice(ms, range) = <<>>
    BY <1>5, <1>7
  <2>2. z + 1 - a = 0
    BY <1>1, <1>7
  <2>3. Piece(ms, a, z) = <<>>
    BY <1>6, <2>2, EmptySeq
  <2>. QED BY <2>1, <2>3 DEF a, z
<1>8. CASE ~(z < a)
  <2>. DEFINE s == SubSeq(ms, a + 1, z + 1)
              p == Piece(ms, a, z)
  <2>1. Slice(ms, range) = s
    BY <1>5, <1>8
  <2>2. a + 1 \in Int /\ z + 1 \in Int /\ a + 1 <= z + 1 /\ (z + 1) - (a + 1) + 1 = z + 1 - a
    BY <1>1, <1>8
  <2>3. \A i \in a + 1 .. z + 1 : ms[i] \in Message
    <3>1. \A i \in 1 .. n : ms[i] \in Message
      BY DEF Run, n
    <3>2. \A i \in a + 1 .. z + 1 : i \in 1 .. n
      BY <1>1
    <3>. QED BY <3>1, <3>2
  <2>4. /\ s \in Seq(Message) /\ Len(s) = z + 1 - a
        /\ \A i \in 1 .. z + 1 - a : s[i] = ms[(a + 1) + i - 1]
    <3>1. /\ s \in Seq(Message)
          /\ Len(s) = IF a + 1 <= z + 1 THEN (z + 1) - (a + 1) + 1 ELSE 0
          /\ \A i \in 1 .. (z + 1) - (a + 1) + 1 : s[i] = ms[(a + 1) + i - 1]
      BY <2>2, <2>3, SubSeqProperties
    <3>. HIDE DEF s
    <3>. QED BY <2>2, <3>1
  <2>. HIDE DEF s, p
  <2>5. \A i \in 1 .. z + 1 - a : s[i] = p[i]
    <3>1. \A i \in 1 .. z + 1 - a : (a + 1) + i - 1 = a + i
      BY <1>1
    <3>. QED BY <1>6, <2>4, <3>1 DEF p
  <2>6. s = p
    BY <1>6, <2>4, <2>5, SeqEqual DEF p
  <2>. QED BY <2>1, <2>6 DEF p, a, z
<1>. QED BY <1>7, <1>8 DEF a, z

\* A piece with its first message apart, and behind what was before it.
LEMMA PieceSplits ==
  ASSUME NEW ms, Run(ms, 0), NEW a, NEW z, Ends(ms, a, z)
  PROVE  /\ a <= z => Ends(ms, a + 1, z) /\ Piece(ms, a, z) = <<ms[a + 1]>> \o Piece(ms, a + 1, z) /\ ms[a + 1] \in Message
         /\ Upto(ms, a) \o Piece(ms, a, z) = Upto(ms, z + 1)
         /\ Upto(ms, a) \in Seq(Message) /\ Upto(ms, z + 1) \in Seq(Message)
<1>. DEFINE n == Len(ms)
            p == Piece(ms, a, z)
            q == Piece(ms, a + 1, z)
            u == Upto(ms, a)
            v == Upto(ms, z + 1)
<1>1. ms \in Seq(Message) /\ n \in Nat /\ \A i \in 1 .. n : ms[i] \in Message
  BY DEF Run
<1>2. a \in Nat /\ z \in Int /\ a <= n /\ z <= n - 1 /\ a - 1 <= z
  BY <1>1 DEF Ends
<1>3. p \in Seq(Message) /\ Len(p) = z + 1 - a /\ \A i \in 1 .. z + 1 - a : p[i] = ms[a + i]
  BY PieceIs
<1>4. u \in Seq(Message) /\ Len(u) = a /\ \A i \in 1 .. a : u[i] = ms[i]
  <2>1. \A i \in 1 .. a : ms[i] \in Message
    BY <1>1, <1>2
  <2>. QED BY <1>2, <2>1 DEF Upto
<1>5. v \in Seq(Message) /\ Len(v) = z + 1 /\ \A i \in 1 .. z + 1 : v[i] = ms[i]
  <2>1. z + 1 \in Nat /\ \A i \in 1 .. z + 1 : ms[i] \in Message
    BY <1>1, <1>2
  <2>. QED BY <2>1 DEF Upto
<1>6. a <= z => Ends(ms, a + 1, z)
  BY <1>1, <1>2 DEF Ends
<1>. HIDE DEF n, p, q, u, v
<1>7. ASSUME a <= z PROVE p = <<ms[a + 1]>> \o q /\ ms[a + 1] \in Message
  <2>. DEFINE one == <<ms[a + 1]>>
              w == one \o q
  <2>1. a + 1 \in 1 .. n
    BY <1>1, <1>2, <1>7
  <2>2. one \in Seq(Message) /\ Len(one) = 1 /\ one[1] = ms[a + 1]
    BY <1>1, <2>1
  <2>3. q \in Seq(Message) /\ Len(q) = z + 1 - (a + 1) /\ \A i \in 1 .. z + 1 - (a + 1) : q[i] = ms[(a + 1) + i]
    BY <1>6, <1>7, PieceIs DEF q
  <2>. HIDE DEF one
  <2>4. w \in Seq(Message) /\ Len(w) = Len(one) + Len(q)
        /\ \A i \in 1 .. Len(one) + Len(q) : w[i] = IF i <= Len(one) THEN one[i] ELSE q[i - Len(one)]
    <3>1. one \in Seq(Message) /\ q \in Seq(Message)
      BY <2>2, <2>3
    <3>. QED BY <3>1, ConcatProperties
  <2>. HIDE DEF w
  <2>5. Len(w) = z + 1 - a
    BY <1>2, <2>2, <2>3, <2>4
  <2>6. \A i \in 1 .. z + 1 - a : w[i] = IF i <= 1 THEN one[i] ELSE q[i - 1]
    BY <2>2, <2>4, <2>5
  <2>7. ASSUME NEW i \in 1 .. z + 1 - a PROVE w[i] = p[i]
    <3>1. CASE i = 1
      <4>1. w[i] = ms[a + 1]
        BY <2>2, <2>6, <3>1
      <4>. QED BY <1>3, <3>1, <4>1
    <3>2. CASE i # 1
      <4>1. i - 1 \in 1 .. z + 1 - (a + 1) /\ (a + 1) + (i - 1) = a + i /\ ~(i <= 1)
        BY <1>2, <3>2
      <4>2. w[i] = q[i - 1]
        BY <2>6, <4>1
      <4>3. q[i - 1] = ms[(a + 1) + (i - 1)]
        BY <2>3, <4>1
      <4>. QED BY <1>3, <4>1, <4>2, <4>3
    <3>. QED BY <3>1, <3>2
  <2>8. w = p
    BY <1>3, <2>4, <2>5, <2>7, SeqEqual
  <2>. QED BY <1>1, <2>1, <2>8 DEF w, one
<1>8. u \o p = v
  <2>. DEFINE w == u \o p
  <2>1. w \in Seq(Message) /\ Len(w) = Len(u) + Len(p)
        /\ \A i \in 1 .. Len(u) + Len(p) : w[i] = IF i <= Len(u) THEN u[i] ELSE p[i - Len(u)]
    BY <1>3, <1>4, ConcatProperties
  <2>. HIDE DEF w
  <2>2. Len(w) = z + 1 /\ Len(u) + Len(p) = z + 1
    BY <1>2, <1>3, <1>4, <2>1
  <2>3. \A i \in 1 .. z + 1 : w[i] = IF i <= a THEN u[i] ELSE p[i - a]
    BY <1>4, <2>1, <2>2
  <2>4. ASSUME NEW i \in 1 .. z + 1 PROVE w[i] = v[i]
    <3>1. CASE i <= a
      <4>1. i \in 1 .. a
        BY <1>2, <3>1
      <4>. QED BY <1>4, <1>5, <2>3, <3>1, <4>1
    <3>2. CASE ~(i <= a)
      <4>1. i - a \in 1 .. z + 1 - a /\ a + (i - a) = i
        BY <1>2, <3>2
      <4>2. w[i] = p[i - a]
        BY <2>3, <3>2
      <4>3. p[i - a] = ms[a + (i - a)]
        BY <1>3, <4>1
      <4>. QED BY <1>5, <4>1, <4>2, <4>3
    <3>. QED BY <3>1, <3>2
  <2>5. w = v
    BY <1>5, <2>1, <2>2, <2>4, SeqEqual
  <2>. QED BY <2>5 DEF w
<1>. QED BY <1>4, <1>5, <1>6, <1>7, <1>8 DEF p, q, u, v

\* Sequences nothing is left out of.
LEMMA OnlyAll ==
  ASSUME NEW T, NEW s \in Seq(T), NEW S, ToSet(s) \subseteq S
  PROVE  Only(s, S) = s
<1>. DEFINE t == [k \in DOMAIN s |-> IF s[k] \in S THEN <<s[k]>> ELSE <<>>]
<1>1. DOMAIN s = 1 .. Len(s) /\ \A k \in 1 .. Len(s) : s[k] \in S
  <2>1. ToSet(s) = {s[k] : k \in 1 .. Len(s)}
    BY SetOf
  <2>. QED BY <2>1
<1>2. t = Ones(s)
  BY <1>1 DEF Ones
<1>3. Only(s, S) = FlattenSeq(t)
  BY DEF Only
<1>. HIDE DEF t
<1>. QED BY <1>2, <1>3, FlattenOnes

\* What a piece has to say is said by the session.
LEMMA PieceSays ==
  ASSUME NEW ms, Run(ms, 0), NEW a, NEW z, Ends(ms, a, z)
  PROVE  /\ Each(Says, Piece(ms, a, z)) \in Seq(Int)
         /\ Only(Each(Says, Piece(ms, a, z)), Spoken(ms)) = Each(Says, Piece(ms, a, z))
         /\ Each(Says, Upto(ms, a)) \o Each(Says, Piece(ms, a, z)) = Each(Says, Upto(ms, z + 1))
         /\ a <= z => Each(Says, Piece(ms, a, z)) = Says[ms[a + 1]] \o Each(Says, Piece(ms, a + 1, z))
<1>. DEFINE p == Piece(ms, a, z)
            S == Spoken(ms)
            t == Each(Says, p)
<1>1. p \in Seq(Message) /\ Len(p) = z + 1 - a
      /\ \A i \in 1 .. z + 1 - a : p[i] = ms[a + i] /\ a + i \in 1 .. Len(ms)
  BY PieceIs
<1>2. Upto(ms, a) \in Seq(Message) /\ Upto(ms, a) \o p = Upto(ms, z + 1)
  BY PieceSplits
<1>. HIDE DEF p, S
<1>3. t \in Seq(Int) /\ ToSet(t) = UNION {ToSet(Says[m]) : m \in ToSet(p)}
  BY <1>1, SaysTyped, EachTyped, SetOfEach
<1>4. ASSUME NEW m \in ToSet(p) PROVE ToSet(Says[m]) \subseteq S
  <2>1. PICK i \in 1 .. z + 1 - a : p[i] = m
    BY <1>1, SetOf
  <2>. DEFINE j == a + i
  <2>2. m = ms[j] /\ j \in 1 .. Len(ms)
    BY <1>1, <2>1
  <2>. HIDE DEF j
  <2>3. m \in Message /\ m.index = j - 1 /\ Len(ms) \in Nat
    BY <2>2 DEF Run
  <2>4. Says[m] = IF IsBlank(m) THEN <<>> ELSE <<m.index>>
    BY <2>3 DEF Says
  <2>5. CASE IsBlank(m)
    BY <2>4, <2>5, SetOfNone
  <2>6. CASE ~IsBlank(m)
    <3>1. j - 1 \in 0 .. Len(ms) - 1 /\ (j - 1) + 1 = j
      BY <2>2, <2>3
    <3>2. m.index \in S
      BY <2>2, <2>3, <2>6, <3>1 DEF S, Spoken
    <3>. QED BY <2>4, <2>6, <3>2, SetOfOne
  <2>. QED BY <2>5, <2>6
<1>5. ToSet(t) \subseteq S
  BY <1>3, <1>4
<1>6. Only(t, S) = t
  <2>. HIDE DEF t
  <2>. QED BY <1>3, <1>5, OnlyAll
<1>7. Each(Says, Upto(ms, a)) \o t = Each(Says, Upto(ms, z + 1))
  <2>. DEFINE u == Upto(ms, a)
  <2>1. u \in Seq(Message) /\ u \o p = Upto(ms, z + 1)
    BY <1>2
  <2>2. p \in Seq(Message) /\ Maps(Says, Message, Int)
    BY <1>1, SaysTyped
  <2>. HIDE DEF u
  <2>3. Each(Says, u \o p) = Each(Says, u) \o Each(Says, p)
    <3>1. u \in Seq(Message) /\ p \in Seq(Message) /\ Maps(Says, Message, Int)
      BY <2>1, <2>2
    <3>. QED BY <3>1, EachConcat
  <2>. QED BY <2>1, <2>3 DEF u
<1>8. ASSUME a <= z PROVE t = Says[ms[a + 1]] \o Each(Says, Piece(ms, a + 1, z))
  <2>. DEFINE m == ms[a + 1]
              q == Piece(ms, a + 1, z)
  <2>1. p = <<m>> \o q /\ m \in Message /\ Ends(ms, a + 1, z)
    BY <1>8, PieceSplits DEF p
  <2>2. q \in Seq(Message)
    BY <2>1, PieceIs
  <2>. HIDE DEF m, q
  <2>. DEFINE one == <<m>>
  <2>3. one \in Seq(Message) /\ Each(Says, one) = Says[m]
    BY <2>1, SaysTyped, EachOne
  <2>. HIDE DEF one
  <2>4. Each(Says, one \o q) = Each(Says, one) \o Each(Says, q)
    <3>1. one \in Seq(Message) /\ q \in Seq(Message) /\ Maps(Says, Message, Int)
      BY <2>2, <2>3, SaysTyped
    <3>. QED BY <3>1, EachConcat
  <2>. QED BY <2>1, <2>3, <2>4 DEF one, m, q
<1>. QED BY <1>3, <1>6, <1>7, <1>8 DEF p, S
LEMMA NoPiece ==
  ASSUME NEW ms, Run(ms, 0), NEW a, NEW z, Ends(ms, a, z), z < a
  PROVE  Piece(ms, a, z) = <<>> /\ Each(Says, Piece(ms, a, z)) = <<>>
<1>. DEFINE p == Piece(ms, a, z)
<1>1. p \in Seq(Message) /\ Len(p) = z + 1 - a /\ a \in Nat /\ z \in Int
  BY PieceIs
<1>2. z + 1 - a = 0
  BY <1>1 DEF Ends, Run
<1>. HIDE DEF p
<1>3. p = <<>>
  BY <1>1, <1>2, EmptySeq
<1>. QED BY <1>3, EachEmpty DEF p

\* The transcript of a part shows what the part has to say.
LEMMA PartShows ==
  ASSUME NEW ms, Run(ms, 0), NEW ws \in Seq(ParseWarning), NEW range, Ends(ms, range.start, range.end)
  PROVE  LET rows == TranscriptRows(Slice(ms, range), ws)
         IN rows \in Seq(Rows) /\ ShownIn(rows) = Each(Says, Piece(ms, range.start, range.end))
<1>. DEFINE p == Piece(ms, range.start, range.end)
<1>1. Slice(ms, range) = p
  BY SliceIs
<1>2. Run(p, range.start)
  BY PieceIs
<1>. HIDE DEF p
<1>3. TranscriptRows(p, ws) \in Seq(Rows) /\ ShownIn(TranscriptRows(p, ws)) = Each(Says, p)
  BY <1>2, RowsAreTyped
<1>. QED BY <1>1, <1>3 DEF p

-----------------------------------------------------------------------------
(* Blocks of an outline *)

AnyBlock == [kind : {"user_turn", "agent_only", "boundary", "oversized_user_message"}, start : Int, end : Int]
BlocksOf(ms) ==
  {b \in AnyBlock : /\ Ends(ms, b.start, b.end)
                    /\ b.kind # "agent_only" => b.start <= b.end
                    /\ b.kind \in {"boundary", "oversized_user_message"} => b.start = b.end}

\* What a block shows when it is opened.
Opened(ms) == [b \in BlocksOf(ms) |-> Each(Says, Piece(ms, b.start, b.end))]

LEMMA OpenedTyped ==
  ASSUME NEW ms, Run(ms, 0)
  PROVE  Maps(Opened(ms), BlocksOf(ms), Int)
<1>1. ASSUME NEW b \in BlocksOf(ms) PROVE Each(Says, Piece(ms, b.start, b.end)) \in Seq(Int)
  <2>1. Ends(ms, b.start, b.end)
    BY DEF BlocksOf
  <2>. QED BY <2>1, PieceSays
<1>. QED BY <1>1 DEF Maps, Opened

\* A row of one message, in front of the rows of what follows it.
LEMMA HeadedShow ==
  ASSUME NEW ms, Run(ms, 0), NEW a, NEW z, Ends(ms, a, z), a <= z,
         NEW row \in Rows, row.shown = <<a>>,
         NEW rows \in Seq(Rows), ShownIn(rows) = Each(Says, Piece(ms, a + 1, z))
  PROVE  /\ <<row>> \o rows \in Seq(Rows)
         /\ Only(ShownIn(<<row>> \o rows), Spoken(ms)) = Each(Says, Piece(ms, a, z))
<1>. DEFINE one == <<row>>
            S == Spoken(ms)
            x == <<a>>
            y == Each(Says, Piece(ms, a + 1, z))
<1>1. one \in Seq(Rows) /\ ShownIn(one) = x
  BY OneTyped, ShownInOne
<1>2. one \o rows \in Seq(Rows)
  <2>. HIDE DEF one
  <2>. QED BY <1>1, ConcatProperties
<1>3. Ends(ms, a + 1, z) /\ a \in Int /\ a + 1 \in 1 .. Len(ms)
  <2>1. Ends(ms, a + 1, z)
    BY PieceSplits
  <2>2. Len(ms) \in Nat
    BY DEF Run
  <2>. QED BY <2>1, <2>2 DEF Ends
<1>4. x \in Seq(Int)
  BY <1>3
<1>5. y \in Seq(Int) /\ Only(y, S) = y
  BY <1>3, PieceSays
<1>6. Only(x, S) = Says[ms[a + 1]]
  <2>1. Only(x, S) = IF a \in S THEN <<a>> ELSE <<>>
    BY OnlyOne
  <2>2. ms[a + 1] \in Message /\ ms[a + 1].index = a
    BY <1>3 DEF Run
  <2>3. Says[ms[a + 1]] = IF IsBlank(ms[a + 1]) THEN <<>> ELSE <<a>>
    BY <2>2 DEF Says
  <2>4. a \in 0 .. Len(ms) - 1
    <3>1. Len(ms) \in Nat
      BY DEF Run
    <3>. QED BY <1>3, <3>1
  <2>5. a \in S <=> ~IsBlank(ms[a + 1])
    BY <2>4 DEF Spoken
  <2>. QED BY <2>1, <2>3, <2>5
<1>7. Each(Says, Piece(ms, a, z)) = Says[ms[a + 1]] \o y
  BY PieceSays
<1>. HIDE DEF one, S, x, y
<1>8. ShownIn(one \o rows) = x \o y
  <2>1. ShownIn(one) = Each(ShownBy, one) /\ ShownIn(rows) = Each(ShownBy, rows)
        /\ ShownIn(one \o rows) = Each(ShownBy, one \o rows)
    BY <1>1, <1>2, ShownIsEach
  <2>2. Maps(ShownBy, Rows, Int)
    BY <1>1, ShownIsEach
  <2>3. Each(ShownBy, one \o rows) = Each(ShownBy, one) \o Each(ShownBy, rows)
    BY <1>1, <2>2, EachConcat
  <2>. QED BY <1>1, <2>1, <2>3 DEF y
<1>9. Only(x \o y, S) = Only(x, S) \o Only(y, S)
  BY <1>4, <1>5, OnlyConcat
<1>10. Only(ShownIn(one \o rows), S) = Each(Says, Piece(ms, a, z))
  BY <1>5, <1>6, <1>7, <1>8, <1>9
<1>. QED BY <1>2, <1>10 DEF one, S

BlockRows(ms, ws, b) == BlockHeader(b) \o ScopedRows(b, ms, ws)

\* An opened block shows what its part of the session has to say.
LEMMA BlockShows ==
  ASSUME NEW ms, Run(ms, 0), NEW ws \in Seq(ParseWarning), NEW b \in BlocksOf(ms)
  PROVE  /\ BlockRows(ms, ws, b) \in Seq(Rows)
         /\ Only(ShownIn(BlockRows(ms, ws, b)), Spoken(ms)) = Opened(ms)[b]
<1>. DEFINE a == b.start
            z == b.end
            shut == b.kind = "oversized_user_message"
            row == Row(b.kind, <<a>>, <<>>, shut, None)
            rows == ScopedRows(b, ms, ws)
<1>1. /\ b \in AnyBlock /\ Ends(ms, a, z) /\ (b.kind # "agent_only" => a <= z)
      /\ b.kind \in {"boundary", "oversized_user_message"} => a = z
  BY DEF BlocksOf
<1>2. Opened(ms)[b] = Each(Says, Piece(ms, a, z)) /\ a \in Int /\ z \in Int
  BY <1>1 DEF Opened, AnyBlock
<1>3. (row \in Rows /\ row.shown = <<a>>) \/ b.kind = "agent_only"
  <2>1. b.kind = "agent_only" \/ b.kind \in RowKind
    BY <1>1 DEF AnyBlock, RowKind
  <2>2. <<a>> \in Seq(Int) /\ <<>> \in Seq(Chips) /\ shut \in BOOLEAN /\ None \in Statuses
    BY <1>2 DEF Statuses
  <2>. QED BY <2>1, <2>2 DEF Rows, Row
<1>4. CASE b.kind = "agent_only"
  <2>. DEFINE range == [start |-> a, end |-> z]
  <2>1. BlockHeader(b) = <<>> /\ ScopeOf(b) = range /\ range.start = a /\ range.end = z
    BY <1>4 DEF BlockHeader, ScopeOf
  <2>. HIDE DEF range
  <2>2. rows \in Seq(Rows) /\ ShownIn(rows) = Each(Says, Piece(ms, a, z))
    <3>1. Ends(ms, range.start, range.end)
      BY <1>1, <2>1
    <3>2. rows = TranscriptRows(Slice(ms, range), ws)
      BY <2>1 DEF ScopedRows
    <3>. HIDE DEF rows
    <3>. QED BY <2>1, <3>1, <3>2, PartShows
  <2>3. BlockRows(ms, ws, b) = <<>> \o rows
    BY <2>1 DEF BlockRows
  <2>. HIDE DEF rows
  <2>4. <<>> \o rows = rows
    BY <2>2, ConcatEmptySeq
  <2>5. Only(Each(Says, Piece(ms, a, z)), Spoken(ms)) = Each(Says, Piece(ms, a, z))
    BY <1>1, PieceSays
  <2>. QED BY <1>2, <2>2, <2>3, <2>4, <2>5
<1>5. CASE b.kind # "agent_only"
  <2>1. BlockRows(ms, ws, b) = <<row>> \o rows
    BY <1>5 DEF BlockRows, BlockHeader
  <2>2. Ends(ms, a + 1, z)
    BY <1>1, <1>5, PieceSplits
  <2>3. rows \in Seq(Rows) /\ ShownIn(rows) = Each(Says, Piece(ms, a + 1, z))
    <3>1. CASE b.kind = "user_turn"
      <4>. DEFINE range == [start |-> a + 1, end |-> z]
      <4>1. ScopeOf(b) = range /\ range.start = a + 1 /\ range.end = z
        BY <3>1 DEF ScopeOf, ReactionRange
      <4>. HIDE DEF range
      <4>2. Ends(ms, range.start, range.end)
        BY <2>2, <4>1
      <4>3. rows = TranscriptRows(Slice(ms, range), ws)
        BY <4>1 DEF ScopedRows
      <4>. HIDE DEF rows
      <4>. QED BY <4>1, <4>2, <4>3, PartShows
    <3>2. CASE b.kind # "user_turn"
      <4>. DEFINE range == [start |-> 0, end |-> -1]
      <4>1. ScopeOf(b) = range /\ range.start = 0 /\ range.end = -1
        BY <1>5, <3>2 DEF ScopeOf
      <4>. HIDE DEF range
      <4>2. Ends(ms, 0, -1)
        <5>1. Len(ms) \in Nat
          BY DEF Run
        <5>. QED BY <5>1 DEF Ends
      <4>3. rows = TranscriptRows(Slice(ms, range), ws)
        BY <4>1 DEF ScopedRows
      <4>4. Ends(ms, range.start, range.end)
        BY <4>1, <4>2
      <4>. HIDE DEF rows
      <4>5. rows \in Seq(Rows) /\ ShownIn(rows) = Each(Says, Piece(ms, 0, -1))
        BY <4>1, <4>3, <4>4, PartShows
      <4>6. Each(Says, Piece(ms, 0, -1)) = <<>>
        BY <4>2, NoPiece
      <4>7. b.kind \in {"boundary", "oversized_user_message"}
        BY <1>1, <1>5, <3>2 DEF AnyBlock
      <4>8. z < a + 1
        BY <1>1, <1>2, <4>7
      <4>9. Each(Says, Piece(ms, a + 1, z)) = <<>>
        BY <2>2, <4>8, NoPiece
      <4>. QED BY <4>5, <4>6, <4>9
    <3>. QED BY <3>1, <3>2
  <2>4. row \in Rows /\ row.shown = <<a>> /\ a <= z
    BY <1>1, <1>3, <1>5
  <2>. HIDE DEF row, rows
  <2>5. /\ <<row>> \o rows \in Seq(Rows)
        /\ Only(ShownIn(<<row>> \o rows), Spoken(ms)) = Each(Says, Piece(ms, a, z))
    BY <1>1, <2>3, <2>4, HeadedShow
  <2>. QED BY <1>2, <2>1, <2>5
<1>. QED BY <1>4, <1>5

\* The outline shows what its blocks show.
LEMMA SkimShows ==
  ASSUME NEW ms, Run(ms, 0), NEW ws \in Seq(ParseWarning), BuildSkim(ms) \in Seq(BlocksOf(ms))
  PROVE  Only(ShownIn(SkimRows(ms, ws)), Spoken(ms)) = Each(Opened(ms), BuildSkim(ms))
<1>. DEFINE B == BlocksOf(ms)
            blocks == BuildSkim(ms)
            S == Spoken(ms)
            F == [b \in B |-> BlockRows(ms, ws, b)]
            ss == Images(F, blocks)
            tt == [k \in DOMAIN ss |-> Each(ShownBy, ss[k])]
            K == Keeping(S, Int)
            O == Opened(ms)
<1>1. /\ Maps(F, B, Rows)
      /\ \A b \in B : BlockRows(ms, ws, b) \in Seq(Rows) /\ Only(ShownIn(BlockRows(ms, ws, b)), S) = O[b]
  BY BlockShows DEF Maps
<1>2. SkimRows(ms, ws) = FlattenSeq([k \in DOMAIN blocks |-> BlockRows(ms, ws, blocks[k])])
  BY DEF SkimRows, BlockRows
<1>3. blocks \in Seq(B) /\ DOMAIN blocks = 1 .. Len(blocks) /\ \A k \in 1 .. Len(blocks) : blocks[k] \in B
  OBVIOUS
<1>4. [k \in DOMAIN blocks |-> BlockRows(ms, ws, blocks[k])] = ss
  BY <1>3 DEF Images
<1>5. \A b \in B : F[b] = BlockRows(ms, ws, b)
  OBVIOUS
<1>. HIDE DEF B, blocks, S, F, O
<1>6. ss \in Seq(Seq(Rows)) /\ Len(ss) = Len(blocks) /\ \A k \in 1 .. Len(blocks) : ss[k] = F[blocks[k]]
  BY <1>1, <1>3, EachTyped
<1>7. FlattenSeq(ss) \in Seq(Rows)
  <2>. HIDE DEF ss
  <2>. QED BY <1>6, FlattenTyped
<1>8. SkimRows(ms, ws) = FlattenSeq(ss)
  BY <1>2, <1>4
<1>. HIDE DEF ss
<1>9. ShownIn(FlattenSeq(ss)) = Each(ShownBy, FlattenSeq(ss)) /\ Maps(ShownBy, Rows, Int)
  BY <1>7, ShownIsEach
<1>10. Each(ShownBy, FlattenSeq(ss)) = FlattenSeq(tt)
  <2>1. Maps(ShownBy, Rows, Int)
    BY <1>9
  <2>. QED BY <1>6, <2>1, EachOfFlatten
<1>11. DOMAIN ss = 1 .. Len(blocks) /\ Len(blocks) \in Nat
  <2>. DEFINE R == Seq(Rows)
  <2>1. ss \in Seq(R)
    BY <1>6
  <2>. HIDE DEF R
  <2>. QED BY <1>3, <1>6, <2>1
<1>12. \A k \in 1 .. Len(blocks) : tt[k] = ShownIn(BlockRows(ms, ws, blocks[k])) /\ tt[k] \in Seq(Int)
  <2>. SUFFICES ASSUME NEW k \in 1 .. Len(blocks)
                PROVE  tt[k] = ShownIn(BlockRows(ms, ws, blocks[k])) /\ tt[k] \in Seq(Int)
    OBVIOUS
  <2>. DEFINE r == BlockRows(ms, ws, blocks[k])
  <2>1. ss[k] = r /\ r \in Seq(Rows)
    BY <1>1, <1>3, <1>5, <1>6
  <2>2. tt[k] = Each(ShownBy, r)
    BY <1>11, <2>1
  <2>. HIDE DEF r, tt
  <2>3. ShownIn(r) = Each(ShownBy, r)
    BY <2>1, ShownIsEach
  <2>4. Each(ShownBy, r) \in Seq(Int)
    BY <1>9, <2>1, EachTyped
  <2>. QED BY <2>2, <2>3, <2>4 DEF r
<1>13. DOMAIN tt = 1 .. Len(blocks)
  BY <1>11
<1>. HIDE DEF tt
<1>14. tt \in Seq(Seq(Int))
  <2>1. tt = [k \in 1 .. Len(blocks) |-> tt[k]]
    <3>1. tt = [k \in DOMAIN tt |-> tt[k]]
      BY DEF tt
    <3>. QED BY <1>13, <3>1
  <2>. QED BY <1>11, <1>12, <2>1
<1>15. FlattenSeq(tt) \in Seq(Int)
  BY <1>14, FlattenTyped
<1>16. Only(FlattenSeq(tt), S) = Each(K, FlattenSeq(tt)) /\ Maps(K, Int, Int)
  BY <1>15, OnlyIsEach
<1>17. Each(K, FlattenSeq(tt)) = FlattenSeq([k \in DOMAIN tt |-> Each(K, tt[k])])
  <2>1. Maps(K, Int, Int)
    BY <1>16
  <2>. HIDE DEF K
  <2>. QED BY <1>14, <2>1, EachOfFlatten
<1>18. \A k \in 1 .. Len(blocks) : Each(K, tt[k]) = O[blocks[k]]
  <2>. SUFFICES ASSUME NEW k \in 1 .. Len(blocks) PROVE Each(K, tt[k]) = O[blocks[k]]
    OBVIOUS
  <2>1. tt[k] \in Seq(Int) /\ tt[k] = ShownIn(BlockRows(ms, ws, blocks[k]))
    BY <1>12
  <2>2. Only(tt[k], S) = Each(K, tt[k])
    BY <2>1, OnlyIsEach
  <2>3. Only(tt[k], S) = O[blocks[k]]
    BY <1>1, <1>3, <2>1
  <2>. QED BY <2>2, <2>3
<1>19. [k \in DOMAIN tt |-> Each(K, tt[k])] = Images(O, blocks)
  BY <1>3, <1>13, <1>18 DEF Images
<1>20. Only(ShownIn(SkimRows(ms, ws)), S) = Each(O, blocks)
  BY <1>8, <1>9, <1>10, <1>16, <1>17, <1>19 DEF Each
<1>. QED BY <1>20 DEF S, O, blocks
-----------------------------------------------------------------------------
(* How an outline is built *)

Regions == [kind : {"user_turn", "agent_only"}, start : Int]
Skims == [blocks : Seq(AnyBlock), open : Regions \union {NoRegion}]

\* The blocks show what was before the region that is open, or everything so
\* far; k messages have been read.
OutlinedSoFar(ms, k, skim) ==
  /\ skim \in Skims /\ skim.blocks \in Seq(BlocksOf(ms))
  /\ skim.open = NoRegion => Each(Opened(ms), skim.blocks) = Each(Says, Upto(ms, k))
  /\ skim.open # NoRegion =>
       /\ skim.open.start \in 0 .. k - 1
       /\ Each(Opened(ms), skim.blocks) = Each(Says, Upto(ms, skim.open.start))

LEMMA BlockMore ==
  ASSUME NEW ms, Run(ms, 0), NEW blocks \in Seq(BlocksOf(ms)), NEW b \in BlocksOf(ms),
         Each(Opened(ms), blocks) = Each(Says, Upto(ms, b.start))
  PROVE  /\ Append(blocks, b) \in Seq(BlocksOf(ms))
         /\ Each(Opened(ms), Append(blocks, b)) = Each(Says, Upto(ms, b.end + 1))
<1>. DEFINE B == BlocksOf(ms)
            O == Opened(ms)
            one == <<b>>
            p == Each(Says, Piece(ms, b.start, b.end))
<1>1. Maps(O, B, Int)
  BY OpenedTyped
<1>2. one \in Seq(B)
  OBVIOUS
<1>3. b \in B /\ blocks \in Seq(B) /\ Append(blocks, b) = blocks \o one /\ Append(blocks, b) \in Seq(B)
  <2>. HIDE DEF B
  <2>1. b \in B /\ blocks \in Seq(B)
    BY DEF B
  <2>. QED BY <2>1, OneMore
<1>4. O[b] = p
  BY DEF Opened
<1>5. Ends(ms, b.start, b.end)
  BY DEF BlocksOf
<1>6. Each(Says, Upto(ms, b.start)) \o p = Each(Says, Upto(ms, b.end + 1))
  BY <1>5, PieceSays
<1>. HIDE DEF B, O, p
<1>7. Each(O, one) = O[b]
  BY <1>1, <1>3, EachOne
<1>. HIDE DEF one
<1>8. Each(O, blocks \o one) = Each(O, blocks) \o Each(O, one)
  <2>1. Maps(O, B, Int) /\ blocks \in Seq(B) /\ one \in Seq(B)
    BY <1>1, <1>2, <1>3
  <2>. QED BY <2>1, EachConcat
<1>9. Each(O, blocks) = Each(Says, Upto(ms, b.start))
  BY DEF O
<1>10. Each(O, Append(blocks, b)) = Each(Says, Upto(ms, b.end + 1))
  BY <1>3, <1>4, <1>6, <1>7, <1>8, <1>9
<1>. QED BY <1>3, <1>10 DEF B, O

\* Closing what is open ends it where the next message stands.
LEMMA ClosingKeeps ==
  ASSUME NEW ms, Run(ms, 0), NEW k \in 0 .. Len(ms), NEW skim, OutlinedSoFar(ms, k, skim)
  PROVE  /\ OutlinedSoFar(ms, k, CloseOpenRegions(skim, k - 1))
         /\ CloseOpenRegions(skim, k - 1).open = NoRegion
<1>. DEFINE c == CloseOpenRegions(skim, k - 1)
            b == Block(skim.open.kind, skim.open.start, k - 1)
<1>1. CASE skim.open = NoRegion
  <2>1. c = skim
    BY <1>1 DEF CloseOpenRegions
  <2>. QED BY <1>1, <2>1
<1>2. CASE skim.open # NoRegion
  <2>1. /\ skim \in Skims /\ skim.blocks \in Seq(BlocksOf(ms)) /\ skim.open \in Regions
        /\ skim.open.start \in 0 .. k - 1
        /\ Each(Opened(ms), skim.blocks) = Each(Says, Upto(ms, skim.open.start))
    BY <1>2 DEF OutlinedSoFar, Skims
  <2>2. k \in Nat /\ k <= Len(ms) /\ Len(ms) \in Nat
    BY DEF Run
  <2>3. b.start = skim.open.start /\ b.end = k - 1 /\ b.kind = skim.open.kind
    BY DEF Block
  <2>4. b \in BlocksOf(ms)
    <3>1. b \in AnyBlock
      BY <2>1, <2>2 DEF Block, AnyBlock, Regions
    <3>2. Ends(ms, b.start, b.end) /\ b.start <= b.end
      BY <2>1, <2>2, <2>3 DEF Ends
    <3>3. b.kind \in {"user_turn", "agent_only"}
      BY <2>1, <2>3 DEF Regions
    <3>. HIDE DEF b
    <3>. QED BY <3>1, <3>2, <3>3 DEF BlocksOf
  <2>5. c = [blocks |-> Append(skim.blocks, b), open |-> NoRegion]
    BY <1>2 DEF CloseOpenRegions
  <2>. HIDE DEF b, c
  <2>6. /\ Append(skim.blocks, b) \in Seq(BlocksOf(ms))
        /\ Each(Opened(ms), Append(skim.blocks, b)) = Each(Says, Upto(ms, b.end + 1))
    <3>. DEFINE blocks == skim.blocks
    <3>1. blocks \in Seq(BlocksOf(ms)) /\ Each(Opened(ms), blocks) = Each(Says, Upto(ms, b.start))
      BY <2>1, <2>3
    <3>. HIDE DEF blocks
    <3>2. /\ Append(blocks, b) \in Seq(BlocksOf(ms))
          /\ Each(Opened(ms), Append(blocks, b)) = Each(Says, Upto(ms, b.end + 1))
      BY <2>4, <3>1, BlockMore
    <3>. QED BY <3>2 DEF blocks
  <2>7. b.end + 1 = k
    BY <2>2, <2>3
  <2>8. Append(skim.blocks, b) \in Seq(AnyBlock)
    <3>1. skim.blocks \in Seq(AnyBlock)
      BY <2>1 DEF Skims
    <3>2. b \in AnyBlock
      BY <2>4 DEF BlocksOf
    <3>. QED BY <3>1, <3>2
  <2>9. c.blocks = Append(skim.blocks, b) /\ c.open = NoRegion /\ c \in Skims
    BY <2>5, <2>8 DEF Skims
  <2>10. OutlinedSoFar(ms, k, c)
    BY <2>6, <2>7, <2>9 DEF OutlinedSoFar
  <2>. QED BY <2>9, <2>10 DEF c
<1>. QED BY <1>1, <1>2

LEMMA TakeMessageTyped ==
  ASSUME NEW skim \in Skims, NEW m \in Message, NEW i \in Int
  PROVE  TakeMessage(skim, m, i) \in Skims
<1>1. ASSUME NEW e \in Int PROVE CloseOpenRegions(skim, e) \in Skims
  <2>1. CASE skim.open = NoRegion
    BY <2>1 DEF CloseOpenRegions
  <2>2. CASE skim.open # NoRegion
    <3>1. skim.open \in Regions /\ skim.blocks \in Seq(AnyBlock)
      BY <2>2 DEF Skims
    <3>2. Block(skim.open.kind, skim.open.start, e) \in AnyBlock
      BY <3>1 DEF Block, AnyBlock, Regions
    <3>3. Append(skim.blocks, Block(skim.open.kind, skim.open.start, e)) \in Seq(AnyBlock)
      BY <3>1, <3>2
    <3>. QED BY <2>2, <3>3 DEF CloseOpenRegions, Skims
  <2>. QED BY <2>1, <2>2
<1>. DEFINE c == CloseOpenRegions(skim, i - 1)
<1>2. c \in Skims
  BY <1>1
<1>3. ASSUME NEW kind \in {"boundary", "oversized_user_message"} PROVE StandsAlone(skim, kind, i) \in Skims
  <2>1. StandsAlone(skim, kind, i) = [c EXCEPT !.blocks = Append(@, Block(kind, i, i))]
    BY DEF StandsAlone
  <2>. HIDE DEF c
  <2>2. Block(kind, i, i) \in AnyBlock /\ c.blocks \in Seq(AnyBlock)
    BY <1>2 DEF Block, AnyBlock, Skims
  <2>3. Append(c.blocks, Block(kind, i, i)) \in Seq(AnyBlock)
    BY <2>2
  <2>. QED BY <1>2, <2>1, <2>3 DEF Skims
<1>4. CASE m.kind = "boundary"
  BY <1>3, <1>4 DEF TakeMessage
<1>5. CASE m.kind = "user" /\ Oversized(m)
  <2>1. TakeMessage(skim, m, i) = StandsAlone(skim, "oversized_user_message", i)
    BY <1>5 DEF TakeMessage
  <2>. QED BY <1>3, <2>1
<1>6. CASE m.kind = "user" /\ ~Oversized(m)
  <2>1. TakeMessage(skim, m, i) = [c EXCEPT !.open = [kind |-> "user_turn", start |-> i]]
    BY <1>6 DEF TakeMessage
  <2>. HIDE DEF c
  <2>. QED BY <1>2, <2>1 DEF Skims, Regions
<1>7. CASE m.kind \notin {"boundary", "user"}
  <2>1. TakeMessage(skim, m, i) = Extend(skim, m, i)
    BY <1>7 DEF TakeMessage
  <2>. QED BY <2>1 DEF Extend, Skims, Regions
<1>. QED BY <1>4, <1>5, <1>6, <1>7

LEMMA TakeMessageKeeps ==
  ASSUME NEW ms, Run(ms, 0), NEW k \in 1 .. Len(ms), NEW skim, OutlinedSoFar(ms, k - 1, skim)
  PROVE  OutlinedSoFar(ms, k, TakeMessage(skim, ms[k], k - 1))
<1>. DEFINE i == k - 1
            m == ms[k]
            new == TakeMessage(skim, m, i)
            c == CloseOpenRegions(skim, i - 1)
<1>. SUFFICES OutlinedSoFar(ms, k, new)
  OBVIOUS
<1>1. i \in Nat /\ i \in 0 .. Len(ms) /\ i + 1 = k /\ k \in 1 .. Len(ms) /\ Len(ms) \in Nat
  BY DEF Run
<1>2. skim \in Skims /\ OutlinedSoFar(ms, i, skim)
  BY DEF OutlinedSoFar
<1>3. m \in Message
  BY DEF Run
<1>. HIDE DEF i, m
<1>4. new \in Skims
  BY <1>1, <1>2, <1>3, TakeMessageTyped
<1>5. OutlinedSoFar(ms, i, c) /\ c.open = NoRegion
  BY <1>1, <1>2, ClosingKeeps
<1>. HIDE DEF c, new
<1>6. c \in Skims /\ c.blocks \in Seq(BlocksOf(ms)) /\ Each(Opened(ms), c.blocks) = Each(Says, Upto(ms, i))
  BY <1>5 DEF OutlinedSoFar
<1>7. ASSUME NEW kind \in {"boundary", "oversized_user_message"}, new = StandsAlone(skim, kind, i)
      PROVE  OutlinedSoFar(ms, k, new)
  <2>. DEFINE b == Block(kind, i, i)
  <2>1. new = [c EXCEPT !.blocks = Append(@, b)]
    BY <1>7 DEF StandsAlone, c
  <2>2. b.start = i /\ b.end = i /\ b.kind = kind /\ b \in AnyBlock
    BY <1>1 DEF Block, AnyBlock
  <2>. HIDE DEF b
  <2>3. Ends(ms, i, i)
    BY <1>1 DEF Ends
  <2>4. b \in BlocksOf(ms)
    BY <1>1, <2>2, <2>3 DEF BlocksOf
  <2>. DEFINE blocks == c.blocks
  <2>5. blocks \in Seq(BlocksOf(ms)) /\ Each(Opened(ms), blocks) = Each(Says, Upto(ms, b.start))
    BY <1>6, <2>2
  <2>. HIDE DEF blocks
  <2>6. /\ Append(blocks, b) \in Seq(BlocksOf(ms))
        /\ Each(Opened(ms), Append(blocks, b)) = Each(Says, Upto(ms, b.end + 1))
    BY <2>4, <2>5, BlockMore
  <2>7. new.blocks = Append(blocks, b) /\ new.open = NoRegion
    BY <1>5, <1>6, <2>1 DEF Skims, blocks
  <2>. QED BY <1>1, <1>4, <2>2, <2>6, <2>7 DEF OutlinedSoFar
<1>8. ASSUME NEW s \in Skims, OutlinedSoFar(ms, i, s), s.open = NoRegion, NEW kind,
             new = [s EXCEPT !.open = [kind |-> kind, start |-> i]]
      PROVE  OutlinedSoFar(ms, k, new)
  <2>. DEFINE region == [kind |-> kind, start |-> i]
  <2>1. region # NoRegion /\ region.start = i
    BY <1>1 DEF NoRegion, NoIndex
  <2>2. new = [s EXCEPT !.open = region]
    BY <1>8
  <2>. HIDE DEF region
  <2>3. new.blocks = s.blocks /\ new.open = region
    BY <2>2, <1>8 DEF Skims
  <2>4. s.blocks \in Seq(BlocksOf(ms)) /\ Each(Opened(ms), s.blocks) = Each(Says, Upto(ms, i))
    BY <1>8 DEF OutlinedSoFar
  <2>5. i \in 0 .. k - 1
    BY <1>1
  <2>. QED BY <1>4, <2>1, <2>3, <2>4, <2>5 DEF OutlinedSoFar
<1>9. CASE m.kind = "boundary"
  <2>1. new = StandsAlone(skim, "boundary", i)
    BY <1>9 DEF TakeMessage, new
  <2>. QED BY <1>7, <2>1
<1>10. CASE m.kind = "user" /\ Oversized(m)
  <2>1. new = StandsAlone(skim, "oversized_user_message", i)
    BY <1>10 DEF TakeMessage, new
  <2>. QED BY <1>7, <2>1
<1>11. CASE m.kind = "user" /\ ~Oversized(m)
  <2>1. new = [c EXCEPT !.open = [kind |-> "user_turn", start |-> i]]
    BY <1>11 DEF TakeMessage, new, c
  <2>. QED BY <1>5, <1>6, <1>8, <2>1
<1>12. CASE m.kind \notin {"boundary", "user"}
  <2>1. new = Extend(skim, m, i)
    BY <1>12 DEF TakeMessage, new
  <2>2. CASE skim.open = NoRegion
    <3>1. new = [skim EXCEPT !.open = [kind |-> "agent_only", start |-> i]]
      BY <2>1, <2>2 DEF Extend
    <3>. QED BY <1>2, <1>8, <2>2, <3>1
  <2>3. CASE skim.open # NoRegion
    <3>1. new = skim
      BY <2>1, <2>3 DEF Extend
    <3>2. /\ skim.blocks \in Seq(BlocksOf(ms)) /\ skim.open.start \in 0 .. i - 1
          /\ Each(Opened(ms), skim.blocks) = Each(Says, Upto(ms, skim.open.start))
      BY <1>2, <2>3 DEF OutlinedSoFar
    <3>3. skim.open.start \in 0 .. k - 1
      BY <1>1, <3>2
    <3>. QED BY <1>2, <2>3, <3>1, <3>2, <3>3 DEF OutlinedSoFar
  <2>. QED BY <2>2, <2>3
<1>. QED BY <1>9, <1>10, <1>11, <1>12
\* The blocks of an outline are parts of the session, one behind the other.
LEMMA OutlineIsAPartition ==
  ASSUME NEW ms, Run(ms, 0)
  PROVE  BuildSkim(ms) \in Seq(BlocksOf(ms)) /\ Each(Opened(ms), BuildSkim(ms)) = Each(Says, ms)
<1>. DEFINE n == Len(ms)
            V == Skims
            base == EmptySkim
            p == [i \in DOMAIN ms |-> i]
            step == [i \in 1 .. n |-> [o \in V |-> TakeMessage(o, ms[i], i - 1)]]
            Folds(g) == g = [s \in SUBSET (1 .. n) |->
                               IF s = {} THEN base
                               ELSE TakeMessage(g[s \ {Max(s)}], ms[p[Max(s)]], p[Max(s)] - 1)]
<1>1. n \in Nat /\ DOMAIN ms = 1 .. n /\ ms \in Seq(Message) /\ \A i \in 1 .. n : ms[i] \in Message
  BY DEF Run
<1>2. DOMAIN p = 1 .. n /\ \A i \in 1 .. n : p[i] = i
  BY <1>1
<1>3. /\ base \in V /\ base.blocks = <<>> /\ base.open = NoRegion
  BY DEF EmptySkim, Skims
<1>4. \A i \in 1 .. n, o \in V : TakeMessage(o, ms[i], i - 1) \in V
  BY <1>1, TakeMessageTyped
<1>. HIDE DEF n, base, V, p
<1>5. step \in [1 .. n -> [V -> V]]
  BY <1>4
<1>6. \A s \in SUBSET (1 .. n) : s # {} => Max(s) \in 1 .. n /\ s \ {Max(s)} \in SUBSET (1 .. n)
  BY <1>1, SomePosition
<1>7. \E g : Folds(g)
  <2>1. PICK g : Folding(g, n, V, base, step)
    <3>. HIDE DEF step
    <3>. QED BY <1>1, <1>3, <1>5, FoldSolves
  <2>2. /\ g \in [SUBSET (1 .. n) -> V]
        /\ \A s \in SUBSET (1 .. n) : g[s] = IF s = {} THEN base ELSE step[Max(s)][g[s \ {Max(s)}]]
    BY <2>1 DEF Folding
  <2>3. \A s \in SUBSET (1 .. n) :
          g[s] = IF s = {} THEN base ELSE TakeMessage(g[s \ {Max(s)}], ms[p[Max(s)]], p[Max(s)] - 1)
    BY <1>2, <1>6, <2>2
  <2>4. g = [s \in SUBSET (1 .. n) |-> g[s]]
    BY <2>2
  <2>5. Folds(g)
    BY <2>3, <2>4
  <2>. HIDE DEF Folds
  <2>. QED BY <2>5
<1>. HIDE DEF step
<1>. DEFINE f == CHOOSE g : Folds(g)
            fold == FoldLeft(LAMBDA skim, i : TakeMessage(skim, ms[i], i - 1), base, p)
<1>8. Folds(f)
  <2>. HIDE DEF Folds
  <2>. QED BY <1>7
<1>9. fold = f[1 .. n]
  BY <1>2 DEF FoldLeft, MapThenFoldSet
<1>10. ms # <<>> => BuildSkim(ms) = CloseOpenRegions(fold, n - 1).blocks
  BY DEF BuildSkim, base, n, p
<1>. HIDE DEF f, fold
<1>11. f[1 .. 0] = base /\ \A k \in 1 .. n : f[1 .. k] = TakeMessage(f[1 .. k - 1], ms[k], k - 1)
  <2>1. f[1 .. 0] = base
    <3>. DEFINE s == 1 .. 0
    <3>1. s = {} /\ s \in SUBSET (1 .. n)
      OBVIOUS
    <3>. HIDE DEF s
    <3>2. f[s] = base
      BY <1>8, <3>1
    <3>. QED BY <3>2 DEF s
  <2>2. ASSUME NEW k \in 1 .. n PROVE f[1 .. k] = TakeMessage(f[1 .. k - 1], ms[k], k - 1)
    <3>. DEFINE s == 1 .. k
    <3>1. s \in SUBSET (1 .. n) /\ s # {}
      <4>1. k \in s
        BY <1>1
      <4>2. \A i \in s : i \in 1 .. n
        BY <1>1
      <4>. HIDE DEF s
      <4>. QED BY <4>1, <4>2
    <3>2. Max(s) = k /\ s \ {k} = 1 .. k - 1
      BY <1>1, LastPosition
    <3>. HIDE DEF s
    <3>3. f[s] = TakeMessage(f[s \ {Max(s)}], ms[p[Max(s)]], p[Max(s)] - 1)
      BY <1>8, <3>1
    <3>4. p[k] = k
      BY <1>2
    <3>5. f[s] = TakeMessage(f[1 .. k - 1], ms[k], k - 1)
      BY <3>2, <3>3, <3>4
    <3>. QED BY <3>5 DEF s
  <2>. QED BY <2>1, <2>2
<1>. HIDE DEF Folds
<1>12. Upto(ms, 0) = <<>> /\ Upto(ms, n) = ms
  BY <1>1, UptoGrows DEF n
<1>13. <<>> \in Seq(BlocksOf(ms)) /\ Each(Opened(ms), <<>>) = <<>> /\ Each(Says, <<>>) = <<>>
  BY EachEmpty
<1>. DEFINE D == {k \in 0 .. n : OutlinedSoFar(ms, k, f[1 .. k])}
<1>14. 0 \in D
  <2>1. OutlinedSoFar(ms, 0, base)
    BY <1>3, <1>12, <1>13 DEF OutlinedSoFar, V
  <2>. QED BY <1>1, <1>11, <2>1
<1>15. ASSUME NEW k \in 1 .. n, k - 1 \in D PROVE k \in D
  <2>. DEFINE skim == f[1 .. k - 1]
  <2>1. OutlinedSoFar(ms, k - 1, skim) /\ f[1 .. k] = TakeMessage(skim, ms[k], k - 1) /\ k \in 1 .. Len(ms)
    BY <1>11, <1>15 DEF n
  <2>. HIDE DEF skim
  <2>2. OutlinedSoFar(ms, k, TakeMessage(skim, ms[k], k - 1))
    BY <2>1, TakeMessageKeeps
  <2>3. k \in 0 .. n
    BY <1>1
  <2>. QED BY <2>1, <2>2, <2>3
<1>16. OutlinedSoFar(ms, n, fold)
  <2>1. n \in 0 .. n
    BY <1>1
  <2>2. n \in D
    <3>. HIDE DEF D
    <3>. QED BY <1>1, <1>14, <1>15, <2>1, Upward
  <2>. QED BY <1>9, <2>2
<1>17. CASE ms = <<>>
  <2>. DEFINE b == Block("agent_only", 0, -1)
              one == <<b>>
  <2>1. n = 0
    BY <1>17 DEF n
  <2>2. b.start = 0 /\ b.end = -1 /\ b \in AnyBlock /\ b.kind = "agent_only"
    BY DEF Block, AnyBlock
  <2>3. BuildSkim(ms) = one
    BY <1>17 DEF BuildSkim
  <2>. HIDE DEF b
  <2>4. b \in BlocksOf(ms)
    <3>1. Ends(ms, 0, -1)
      BY <2>1 DEF Ends, n
    <3>. QED BY <2>2, <3>1 DEF BlocksOf
  <2>5. Each(Opened(ms), <<>>) = Each(Says, Upto(ms, b.start)) /\ <<>> \in Seq(BlocksOf(ms))
    BY <1>12, <1>13, <2>2
  <2>6. /\ Append(<<>>, b) \in Seq(BlocksOf(ms))
        /\ Each(Opened(ms), Append(<<>>, b)) = Each(Says, Upto(ms, b.end + 1))
    <3>. DEFINE none == <<>>
    <3>1. none \in Seq(BlocksOf(ms)) /\ Each(Opened(ms), none) = Each(Says, Upto(ms, b.start))
      BY <2>5
    <3>. HIDE DEF none
    <3>2. /\ Append(none, b) \in Seq(BlocksOf(ms))
          /\ Each(Opened(ms), Append(none, b)) = Each(Says, Upto(ms, b.end + 1))
      BY <2>4, <3>1, BlockMore
    <3>. QED BY <3>2 DEF none
  <2>7. Append(<<>>, b) = one
    OBVIOUS
  <2>8. Upto(ms, b.end + 1) = ms
    <3>1. b.end + 1 = n
      BY <2>1, <2>2
    <3>. QED BY <1>12, <3>1
  <2>. QED BY <2>3, <2>6, <2>7, <2>8
<1>18. CASE ms # <<>>
  <2>. DEFINE c == CloseOpenRegions(fold, n - 1)
  <2>1. n \in 0 .. Len(ms)
    BY <1>1 DEF n
  <2>2. OutlinedSoFar(ms, n, c) /\ c.open = NoRegion
    BY <1>16, <2>1, ClosingKeeps
  <2>3. BuildSkim(ms) = c.blocks
    BY <1>10, <1>18
  <2>. HIDE DEF c
  <2>4. c.blocks \in Seq(BlocksOf(ms)) /\ Each(Opened(ms), c.blocks) = Each(Says, Upto(ms, n))
    BY <2>2 DEF OutlinedSoFar
  <2>. QED BY <1>12, <2>3, <2>4
<1>. QED BY <1>17, <1>18

LEMMA OutlineShowsIt ==
  ASSUME NEW ms, Run(ms, 0), NEW ws \in Seq(ParseWarning)
  PROVE  Only(ShownIn(SkimRows(ms, ws)), Spoken(ms)) = Each(Says, ms)
<1>1. BuildSkim(ms) \in Seq(BlocksOf(ms)) /\ Each(Opened(ms), BuildSkim(ms)) = Each(Says, ms)
  BY OutlineIsAPartition
<1>2. Only(ShownIn(SkimRows(ms, ws)), Spoken(ms)) = Each(Opened(ms), BuildSkim(ms))
  BY <1>1, SkimShows
<1>. QED BY <1>1, <1>2
=============================================================================
