---------------------------- MODULE FilterProofs ----------------------------
(***************************************************************************)
(* What Filter computes, for every sequence.  The induction theorems of    *)
(* the library range over operators; the one here ranges over sets, which  *)
(* the provers can instantiate.                                            *)
(***************************************************************************)
EXTENDS Filter, TLAPS, WellFoundedInduction, SequenceTheorems

\* Induction: a set of naturals with zero and the successors of its elements.
LEMMA SetInduction ==
  ASSUME NEW T \in SUBSET Nat, 0 \in T, \A n \in T : n + 1 \in T
  PROVE  T = Nat
<1>. DEFINE LessThan == {p \in Nat \X Nat : p[1] < p[2]}
            Rest == Nat \ T
<1>1. IsWellFoundedOn(LessThan, Nat)
  BY NatLessThanWellFounded DEF OpToRel
<1>. HIDE DEF LessThan
<1>2. SUFFICES ASSUME Rest # {} PROVE FALSE
  OBVIOUS
<1>3. PICK n \in Rest : \A m \in Rest : <<m, n>> \notin LessThan
  BY <1>1, <1>2, WFMin
<1>4. ASSUME NEW m \in Rest PROVE ~(m < n)
  <2>1. <<m, n>> \notin LessThan
    BY <1>3
  <2>. QED
    BY <2>1 DEF LessThan
<1>. QED
  BY <1>4

\* The same up to a bound.
LEMMA IntervalInduction ==
  ASSUME NEW N \in Nat, NEW T, 0 \in T, \A n \in 0 .. N - 1 : n \in T => n + 1 \in T
  PROVE  0 .. N \subseteq T
<1>. DEFINE U == {n \in Nat : n > N \/ n \in T}
<1>1. U \in SUBSET Nat /\ 0 \in U /\ \A n \in U : n + 1 \in U
  OBVIOUS
<1>2. U = Nat
  BY <1>1, SetInduction
<1>. QED
  BY <1>2

\* What Filter has kept of the first n elements, by what it kept of n - 1.
FilterStep(s, S, f, n) ==
  IF n = 0 THEN <<>> ELSE IF s[n] \in S THEN Append(f[n - 1], s[n]) ELSE f[n - 1]

\* The recursive function of Filter exists.
LEMMA FilterUnfolds ==
  ASSUME NEW s, NEW S, Len(s) \in Nat
  PROVE  \E f : /\ f = [n \in 0 .. Len(s) |-> FilterStep(s, S, f, n)]
                /\ Filter(s, S) = f[Len(s)]
<1>. DEFINE Rec(f, N) == f = [n \in 0 .. N |-> FilterStep(s, S, f, n)]
            T == {N \in 0 .. Len(s) : \E f : Rec(f, N)}
<1>1. 0 \in T
  <2>1. Rec([n \in 0 .. 0 |-> <<>>], 0)
    BY DEF FilterStep
  <2>. QED
    BY <2>1
<1>2. ASSUME NEW N \in 0 .. Len(s) - 1, N \in T PROVE N + 1 \in T
  <2>1. PICK f : Rec(f, N)
    BY <1>2
  <2>. DEFINE g == [n \in 0 .. N + 1 |->
                      IF n = N + 1 THEN FilterStep(s, S, f, n) ELSE f[n]]
  <2>2. \A n \in 0 .. N + 1 : g[n] = FilterStep(s, S, f, n)
    <3>1. \A n \in 0 .. N : f[n] = FilterStep(s, S, f, n)
      BY <2>1
    <3>. QED
      BY <3>1
  <2>3. \A n \in 0 .. N : g[n] = f[n]
    OBVIOUS
  <2>4. \A n \in 0 .. N + 1 : FilterStep(s, S, f, n) = FilterStep(s, S, g, n)
    BY <2>3 DEF FilterStep
  <2>5. g = [n \in 0 .. N + 1 |-> g[n]]
    OBVIOUS
  <2>. HIDE DEF g
  <2>6. Rec(g, N + 1)
    BY <2>2, <2>4, <2>5
  <2>7. N + 1 \in 0 .. Len(s)
    OBVIOUS
  <2>. HIDE DEF Rec
  <2>. QED
    BY <2>6, <2>7
<1>3. Len(s) \in T
  <2>. HIDE DEF T
  <2>1. 0 .. Len(s) \subseteq T
     BY <1>1, <1>2, IntervalInduction
  <2>. QED
    BY <2>1
<1>. DEFINE Next(f, n) == IF n = 0 THEN <<>>
                          ELSE IF s[n] \in S THEN Append(f[n - 1], s[n]) ELSE f[n - 1]
            upTo == CHOOSE f : f = [n \in 0 .. Len(s) |-> Next(f, n)]
<1>4. upTo = [n \in 0 .. Len(s) |-> Next(upTo, n)]
  <2>1. \E f : f = [n \in 0 .. Len(s) |-> Next(f, n)]
    BY <1>3 DEF FilterStep
  <2>. QED
    BY <2>1
<1>5. Filter(s, S) = upTo[Len(s)]
  BY DEF Filter
<1>. HIDE DEF upTo
<1>. QED
  BY <1>4, <1>5 DEF FilterStep

\* Filter keeps the elements of s at the positions e, which increase and leave out
\* none whose element is in S.
Picks(s, S, e, t, n) ==
  /\ Len(e) = Len(t)
  /\ \A i \in 1 .. Len(t) : t[i] = s[e[i]] /\ s[e[i]] \in S
  /\ \A i, j \in 1 .. Len(t) : i < j => e[i] < e[j]
  /\ \A k \in 1 .. n : s[k] \in S => \E i \in 1 .. Len(t) : e[i] = k

LEMMA PicksNext ==
  ASSUME NEW E, NEW s \in Seq(E), NEW S, NEW n \in 0 .. Len(s) - 1,
         NEW e \in Seq(1 .. n), NEW t \in Seq(E), Picks(s, S, e, t, n)
  PROVE  IF s[n + 1] \in S
         THEN /\ Append(e, n + 1) \in Seq(1 .. n + 1) /\ Append(t, s[n + 1]) \in Seq(E)
              /\ Picks(s, S, Append(e, n + 1), Append(t, s[n + 1]), n + 1)
         ELSE e \in Seq(1 .. n + 1) /\ Picks(s, S, e, t, n + 1)
<1>1. s[n + 1] \in E /\ Len(e) \in Nat /\ Len(t) = Len(e)
  BY DEF Picks
<1>2. e \in Seq(1 .. n + 1) /\ \A i \in 1 .. Len(t) : e[i] \in 1 .. n
  <2>1. \A i \in 1 .. Len(e) : e[i] \in 1 .. n
    OBVIOUS
  <2>2. e \in [1 .. Len(e) -> 1 .. n + 1]
    BY <2>1, LenProperties
  <2>. QED
    BY <1>1, <2>1, <2>2, SeqDef
<1>3. CASE s[n + 1] \in S
  <2>. DEFINE f == Append(e, n + 1)
              u == Append(t, s[n + 1])
  <2>1. f \in Seq(1 .. n + 1) /\ u \in Seq(E) /\ Len(f) = Len(t) + 1 /\ Len(u) = Len(t) + 1
    BY <1>1, <1>2
  <2>2. /\ \A i \in 1 .. Len(t) : f[i] = e[i] /\ u[i] = t[i]
        /\ f[Len(t) + 1] = n + 1 /\ u[Len(t) + 1] = s[n + 1]
    BY <1>1, <1>2
  <2>. HIDE DEF f, u
  <2>3. \A i \in 1 .. Len(u) : i \in 1 .. Len(t) \/ i = Len(t) + 1
    BY <1>1, <2>1
  <2>4. \A i \in 1 .. Len(u) : u[i] = s[f[i]] /\ s[f[i]] \in S
    <3>1. \A i \in 1 .. Len(t) : u[i] = s[f[i]] /\ s[f[i]] \in S
      BY <2>2 DEF Picks
    <3>2. u[Len(t) + 1] = s[f[Len(t) + 1]] /\ s[f[Len(t) + 1]] \in S
      BY <1>3, <2>2
    <3>. QED
      BY <2>3, <3>1, <3>2
  <2>5. \A i, j \in 1 .. Len(u) : i < j => f[i] < f[j]
    <3>1. \A i, j \in 1 .. Len(t) : i < j => f[i] < f[j]
      BY <2>2 DEF Picks
    <3>2. \A i \in 1 .. Len(t) : f[i] < f[Len(t) + 1]
      BY <1>2, <2>2
    <3>. QED
      BY <1>1, <2>3, <3>1, <3>2
  <2>6. \A k \in 1 .. n + 1 : s[k] \in S => \E i \in 1 .. Len(u) : f[i] = k
    <3>1. ASSUME NEW k \in 1 .. n, s[k] \in S PROVE \E i \in 1 .. Len(u) : f[i] = k
      <4>1. PICK i \in 1 .. Len(t) : e[i] = k
        BY <3>1 DEF Picks
      <4>2. i \in 1 .. Len(u)
        BY <1>1, <2>1
      <4>3. f[i] = k
        BY <2>2, <4>1
      <4>. QED
        BY <4>2, <4>3
    <3>2. Len(t) + 1 \in 1 .. Len(u) /\ f[Len(t) + 1] = n + 1
      BY <1>1, <2>1, <2>2
    <3>. QED
      BY <3>1, <3>2
  <2>7. Picks(s, S, f, u, n + 1)
    BY <2>1, <2>4, <2>5, <2>6 DEF Picks
  <2>. QED
    BY <1>3, <2>1, <2>7 DEF f, u
<1>4. CASE s[n + 1] \notin S
  <2>1. Picks(s, S, e, t, n + 1)
    BY <1>4 DEF Picks
  <2>. QED
    BY <1>2, <1>4, <2>1
<1>. QED
  BY <1>3, <1>4

LEMMA FilterPicks ==
  ASSUME NEW E, NEW s \in Seq(E), NEW S
  PROVE  /\ Filter(s, S) \in Seq(E)
         /\ \E e \in Seq(1 .. Len(s)) : Picks(s, S, e, Filter(s, S), Len(s))
<1>1. Len(s) \in Nat
  OBVIOUS
<1>2. PICK f : /\ f = [n \in 0 .. Len(s) |-> FilterStep(s, S, f, n)]
               /\ Filter(s, S) = f[Len(s)]
  BY <1>1, FilterUnfolds
<1>3. \A n \in 0 .. Len(s) : f[n] = FilterStep(s, S, f, n)
  BY <1>2
<1>. DEFINE T == {n \in 0 .. Len(s) :
                    f[n] \in Seq(E) /\ \E e \in Seq(1 .. n) : Picks(s, S, e, f[n], n)}
<1>4. 0 \in T
  <2>1. f[0] = <<>>
    BY <1>1, <1>3 DEF FilterStep
  <2>2. Picks(s, S, <<>>, <<>>, 0) /\ <<>> \in Seq(1 .. 0) /\ <<>> \in Seq(E)
    BY DEF Picks
  <2>. HIDE DEF Picks
  <2>3. 0 \in 0 .. Len(s)
    BY <1>1
  <2>. QED
    BY <2>1, <2>2, <2>3
<1>5. ASSUME NEW n \in 0 .. Len(s) - 1, n \in T PROVE n + 1 \in T
  <2>1. PICK e \in Seq(1 .. n) : f[n] \in Seq(E) /\ Picks(s, S, e, f[n], n)
    BY <1>5
  <2>2. f[n + 1] = IF s[n + 1] \in S THEN Append(f[n], s[n + 1]) ELSE f[n]
    BY <1>1, <1>3 DEF FilterStep
  <2>3. f[n + 1] \in Seq(E) /\ \E g \in Seq(1 .. n + 1) : Picks(s, S, g, f[n + 1], n + 1)
    <3>1. CASE s[n + 1] \in S
      <4>1. /\ Append(e, n + 1) \in Seq(1 .. n + 1) /\ Append(f[n], s[n + 1]) \in Seq(E)
            /\ Picks(s, S, Append(e, n + 1), Append(f[n], s[n + 1]), n + 1)
        BY <2>1, <3>1, PicksNext
      <4>. QED
        BY <2>2, <3>1, <4>1
    <3>2. CASE s[n + 1] \notin S
      BY <2>1, <2>2, <3>2, PicksNext
    <3>. QED
      BY <3>1, <3>2
  <2>. QED
    BY <1>1, <2>3
<1>. HIDE DEF T
<1>6. Len(s) \in T
  <2>1. 0 .. Len(s) \subseteq T
    BY <1>1, <1>4, <1>5, IntervalInduction
  <2>. QED
    BY <1>1, <2>1
<1>. QED
  BY <1>2, <1>6 DEF T

\* What a filtered sequence contains.
LEMMA FilterFacts ==
  ASSUME NEW E, NEW s \in Seq(E), NEW S, NEW t, t = Filter(s, S)
  PROVE  /\ t \in Seq(E)
         /\ \A i \in 1 .. Len(t) : t[i] \in S /\ \E k \in 1 .. Len(s) : t[i] = s[k]
         /\ \A k \in 1 .. Len(s) : s[k] \in S => \E i \in 1 .. Len(t) : t[i] = s[k]
<1>1. t \in Seq(E)
  BY FilterPicks
<1>2. PICK e \in Seq(1 .. Len(s)) : Picks(s, S, e, t, Len(s))
  BY FilterPicks
<1>3. \A i \in 1 .. Len(t) : e[i] \in 1 .. Len(s) /\ t[i] = s[e[i]] /\ s[e[i]] \in S
  <2>1. Len(e) = Len(t)
    BY <1>2 DEF Picks
  <2>2. \A i \in 1 .. Len(e) : e[i] \in 1 .. Len(s)
    OBVIOUS
  <2>. QED
    BY <1>2, <2>1, <2>2 DEF Picks
<1>4. ASSUME NEW k \in 1 .. Len(s), s[k] \in S PROVE \E i \in 1 .. Len(t) : t[i] = s[k]
  <2>1. PICK i \in 1 .. Len(t) : e[i] = k
    BY <1>2, <1>4 DEF Picks
  <2>. QED
    BY <1>3, <2>1
<1>. QED
  BY <1>1, <1>3, <1>4

\* And its order.
LEMMA FilterKeepsOrder ==
  ASSUME NEW E, NEW s \in Seq(E), NEW S, NEW t, t = Filter(s, S),
         NEW i \in 1 .. Len(t), NEW j \in 1 .. Len(t), i < j
  PROVE  \E k, l \in 1 .. Len(s) : k < l /\ t[i] = s[k] /\ t[j] = s[l]
<1>1. PICK e \in Seq(1 .. Len(s)) : Picks(s, S, e, t, Len(s))
  BY FilterPicks
<1>2. Len(e) = Len(t) /\ e[i] < e[j] /\ t[i] = s[e[i]] /\ t[j] = s[e[j]]
  BY <1>1 DEF Picks
<1>3. e[i] \in 1 .. Len(s) /\ e[j] \in 1 .. Len(s)
  BY <1>2
<1>. QED
  BY <1>2, <1>3

\* Filtering a sequence by a set of its elements: s has exactly those, in the order
\* of g.
AreIn(S, g) == \A t \in S : \E k \in 1 .. Len(g) : g[k] = t

Selects(E, g, S, s) ==
  /\ s \in Seq(E)
  /\ \A i \in 1 .. Len(s) : s[i] \in S
  /\ AreIn(S, s)
  /\ \A i, j \in 1 .. Len(s) :
       i < j => \E k, l \in 1 .. Len(g) : k < l /\ s[i] = g[k] /\ s[j] = g[l]

LEMMA FilterSelects ==
  ASSUME NEW E, NEW g \in Seq(E), NEW S \in SUBSET E, AreIn(S, g)
  PROVE  Selects(E, g, S, Filter(g, S))
<1>. DEFINE s == Filter(g, S)
<1>1. /\ s \in Seq(E)
      /\ \A i \in 1 .. Len(s) : s[i] \in S
      /\ \A k \in 1 .. Len(g) : g[k] \in S => \E i \in 1 .. Len(s) : s[i] = g[k]
  BY FilterFacts
<1>2. \A i, j \in 1 .. Len(s) :
        i < j => \E k, l \in 1 .. Len(g) : k < l /\ s[i] = g[k] /\ s[j] = g[l]
  BY FilterKeepsOrder
<1>. HIDE DEF s
<1>3. AreIn(S, s)
  <2>1. ASSUME NEW t \in S PROVE \E i \in 1 .. Len(s) : s[i] = t
    <3>1. PICK k \in 1 .. Len(g) : g[k] = t
      BY DEF AreIn
    <3>. QED
      BY <1>1, <3>1
  <2>. QED
    BY <2>1 DEF AreIn
<1>4. Selects(E, g, S, s)
  BY <1>1, <1>2, <1>3 DEF Selects
<1>. QED
  BY <1>4 DEF s
=============================================================================
