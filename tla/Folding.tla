------------------------------ MODULE Folding ------------------------------
(***************************************************************************)
(* Facts about FoldLeft of an operator, and the least element of a set of  *)
(* numbers, on which induction rests here.  FoldLeft is a function defined *)
(* by recursion over the subsets of the positions of a sequence; Fold is   *)
(* the same, written so that it can be reasoned about.                     *)
(***************************************************************************)
EXTENDS Integers, Sequences, TLAPS, FiniteSetTheorems

CONSTANT op(_,_)

Last(d) == CHOOSE x \in d : \A y \in d : x >= y
Iterates(iter, b, s, S) ==
  iter = [d \in SUBSET S |-> IF d = {} THEN b ELSE op(iter[d \ {Last(d)}], s[Last(d)])]

Fold(b, s) == (CHOOSE iter : Iterates(iter, b, s, DOMAIN s))[DOMAIN s]

\* The values a fold comes past.
Trace(g, b, s, n) ==
  /\ DOMAIN g = 0..n
  /\ g[0] = b
  /\ \A i \in 1..n : g[i] = op(g[i - 1], s[i])

\* A set of numbers that has an element has a least one.
LEMMA Least ==
  ASSUME NEW T, T \subseteq Nat, T # {}
  PROVE  \E x \in T : \A y \in T : x <= y
<1> DEFINE upTo(n) == 0..n
           U == {upTo(n) : n \in T}
<1>1. U \subseteq FiniteSubsetsOf(Nat)
  <2> SUFFICES ASSUME NEW n \in T
               PROVE  0..n \in SUBSET Nat /\ IsFiniteSet(0..n)
    BY DEF FiniteSubsetsOf
  <2>1. 0 \in Int /\ n \in Int /\ 0..n \subseteq Nat
    OBVIOUS
  <2> QED
    BY <2>1, FS_Interval
<1>2. PICK s \in U : \A t \in U : <<t, s>> \notin StrictSubsetOrdering(Nat)
  <2> HIDE DEF U
  <2>1. U # {}
    BY DEF U
  <2> QED
    BY <1>1, <2>1, FS_StrictSubsetOrderingWellFounded, WFMin
<1>3. PICK x \in T : s = 0..x
  OBVIOUS
<1>4. ASSUME NEW y \in T, y < x
      PROVE  FALSE
  <2>1. <<0..y, 0..x>> \in StrictSubsetOrdering(Nat)
    BY <1>4 DEF StrictSubsetOrdering
  <2> QED
    BY <2>1, <1>2, <1>3
<1> QED
  BY <1>4

LEMMA LastIsGreatest ==
  ASSUME NEW k \in Nat, NEW d, d \subseteq 1..k, d # {}
  PROVE  Last(d) \in d /\ \A y \in d : Last(d) >= y
<1> DEFINE T == {k - y : y \in d}
<1>1. T \subseteq Nat /\ T # {}
  <2>1. \A y \in d : y \in 1..k /\ k - y \in Nat
    OBVIOUS
  <2> QED
    BY <2>1
<1>2. PICK x \in T : \A y \in T : x <= y
  <2> HIDE DEF T
  <2> QED
    BY <1>1, Least
<1>3. PICK z \in d : x = k - z
  OBVIOUS
<1>4. \A y \in d : z >= y
  <2> TAKE y \in d
  <2>1. k - z <= k - y /\ k \in Int /\ y \in Int /\ z \in Int
    BY <1>2, <1>3
  <2> QED
    BY <2>1
<1> QED
  BY <1>4 DEF Last

LEMMA LastIs ==
  ASSUME NEW k \in Nat, NEW d, d \subseteq 1..(k + 1), k + 1 \in d
  PROVE  Last(d) = k + 1
<1> DEFINE n == k + 1
<1>1. n \in Nat /\ d \subseteq 1..n /\ d # {} /\ n \in d
  OBVIOUS
<1>2. Last(d) \in d /\ \A y \in d : Last(d) >= y
  <2> HIDE DEF n
  <2> QED
    BY <1>1, LastIsGreatest
<1>3. Last(d) \in 1..(k + 1) /\ Last(d) >= k + 1
  BY <1>1, <1>2
<1> QED
  BY <1>3

\* There is such a function on the subsets of 1..n.
LEMMA IterationExists ==
  ASSUME NEW b, NEW s, NEW n \in Nat
  PROVE  \E iter : Iterates(iter, b, s, 1..n)
<1> DEFINE T == {k \in Nat : ~ \E iter : Iterates(iter, b, s, 1..k)}
<1>1. ASSUME T # {} PROVE FALSE
  <2>1. PICK x \in T : \A y \in T : x <= y
    <3>1. T \subseteq Nat
      OBVIOUS
    <3> HIDE DEF T
    <3> QED
      BY <1>1, <3>1, Least
  <2>2. x # 0
    <3>1. Iterates([d \in SUBSET (1..0) |-> b], b, s, 1..0)
      BY DEF Iterates
    <3> QED
      BY <3>1
  <2>3. PICK k \in Nat : x = k + 1
    <3>1. x \in Nat /\ x - 1 \in Nat /\ x = (x - 1) + 1
      BY <2>2
    <3> QED
      BY <3>1
  <2>4. PICK f : Iterates(f, b, s, 1..k)
    BY <2>1, <2>3
  <2> DEFINE h == [d \in SUBSET (1..(k + 1)) |->
                     IF d \subseteq 1..k THEN f[d] ELSE op(f[d \ {k + 1}], s[k + 1])]
  <2>5. ASSUME NEW d \in SUBSET (1..(k + 1))
        PROVE  h[d] = IF d = {} THEN b ELSE op(h[d \ {Last(d)}], s[Last(d)])
    <3>1. CASE d \subseteq 1..k
      <4>1. d # {} => Last(d) \in d
        BY <3>1, LastIsGreatest
      <4>2. d \ {Last(d)} \subseteq 1..k /\ d \ {Last(d)} \in SUBSET (1..(k + 1))
        BY <3>1
      <4>3. h[d] = f[d] /\ h[d \ {Last(d)}] = f[d \ {Last(d)}]
        BY <3>1, <4>2
      <4>4. f[d] = IF d = {} THEN b ELSE op(f[d \ {Last(d)}], s[Last(d)])
        BY <2>4, <3>1 DEF Iterates
      <4> QED
        BY <4>3, <4>4
    <3>2. CASE ~(d \subseteq 1..k)
      <4>1. k + 1 \in d
        BY <3>2
      <4>2. Last(d) = k + 1
        BY <4>1, LastIs
      <4>3. d \ {k + 1} \subseteq 1..k /\ d \ {k + 1} \in SUBSET (1..(k + 1))
        OBVIOUS
      <4>4. h[d \ {k + 1}] = f[d \ {k + 1}]
        BY <4>3
      <4> QED
        BY <3>2, <4>1, <4>2, <4>4
    <3> QED
      BY <3>1, <3>2
  <2>6. Iterates(h, b, s, 1..(k + 1))
    <3>1. h = [d \in SUBSET (1..(k + 1)) |-> h[d]]
      OBVIOUS
    <3> HIDE DEF h
    <3> QED
      BY <2>5, <3>1 DEF Iterates
  <2> QED
    BY <2>3, <2>6
<1> QED
  BY <1>1

\* The values of a fold exist ...
LEMMA FoldHasTrace ==
  ASSUME NEW b, NEW s, NEW n \in Nat, DOMAIN s = 1..n
  PROVE  \E g : Trace(g, b, s, n) /\ Fold(b, s) = g[n]
<1> DEFINE f == CHOOSE iter : Iterates(iter, b, s, DOMAIN s)
<1>1. Iterates(f, b, s, 1..n)
  BY IterationExists
<1>2. Fold(b, s) = f[1..n]
  BY DEF Fold
<1> HIDE DEF f
<1> DEFINE g == [i \in 0..n |-> f[1..i]]
<1>3. g[0] = b
  <2>1. 1..0 = {} /\ {} \in SUBSET (1..n)
    OBVIOUS
  <2>2. f[{}] = b
    BY <1>1 DEF Iterates
  <2> QED
    BY <2>1, <2>2
<1>4. ASSUME NEW i \in 1..n
      PROVE  g[i] = op(g[i - 1], s[i])
  <2>1. /\ i - 1 \in Nat /\ i = (i - 1) + 1 /\ i - 1 \in 0..n /\ i \in 0..n
        /\ 1..i \in SUBSET (1..n) /\ i \in 1..i
    OBVIOUS
  <2>2. Last(1..i) = i
    <3> DEFINE j == i - 1
    <3>1. j \in Nat /\ i = j + 1 /\ 1..i \subseteq 1..(j + 1) /\ j + 1 \in 1..i
      OBVIOUS
    <3> HIDE DEF j
    <3> QED
      BY <3>1, LastIs
  <2>3. (1..i) \ {i} = 1..(i - 1)
    OBVIOUS
  <2>4. f[1..i] = op(f[(1..i) \ {Last(1..i)}], s[Last(1..i)])
    BY <1>1, <2>1 DEF Iterates
  <2> QED
    BY <2>1, <2>2, <2>3, <2>4
<1>5. Trace(g, b, s, n)
  BY <1>3, <1>4 DEF Trace
<1>6. g[n] = Fold(b, s)
  BY <1>2
<1> QED
  BY <1>5, <1>6

\* ... and are the only ones.
LEMMA TraceIsUnique ==
  ASSUME NEW b, NEW s, NEW n \in Nat, NEW g, NEW h, Trace(g, b, s, n), Trace(h, b, s, n)
  PROVE  g[n] = h[n]
<1> DEFINE T == {i \in 0..n : g[i] # h[i]}
<1>1. ASSUME T # {} PROVE FALSE
  <2>1. T \subseteq Nat
    OBVIOUS
  <2>2. PICK x \in T : \A y \in T : x <= y
    <3> HIDE DEF T
    <3> QED
      BY <1>1, <2>1, Least
  <2>3. x # 0
    BY DEF Trace
  <2>4. x - 1 \in 0..n /\ x \in 1..n /\ x - 1 < x
    BY <2>3
  <2>5. g[x - 1] = h[x - 1]
    BY <2>2, <2>4
  <2>6. g[x] = h[x]
    BY <2>4, <2>5 DEF Trace
  <2> QED
    BY <2>6
<1> QED
  BY <1>1

LEMMA FoldIs ==
  ASSUME NEW b, NEW s, NEW n \in Nat, DOMAIN s = 1..n, NEW g, Trace(g, b, s, n)
  PROVE  Fold(b, s) = g[n]
  BY FoldHasTrace, TraceIsUnique

LEMMA FoldEmpty ==
  ASSUME NEW b
  PROVE  Fold(b, <<>>) = b
<1>1. Trace([i \in 0..0 |-> b], b, <<>>, 0)
  BY DEF Trace
<1>2. DOMAIN <<>> = 1..0
  OBVIOUS
<1> QED
  BY <1>1, <1>2, FoldIs

LEMMA FoldOne ==
  ASSUME NEW b, NEW x
  PROVE  Fold(b, <<x>>) = op(b, x)
<1> DEFINE g == [i \in 0..1 |-> IF i = 0 THEN b ELSE op(b, x)]
           s == <<x>>
<1>1. Trace(g, b, s, 1)
  BY DEF Trace
<1>2. DOMAIN s = 1..1
  OBVIOUS
<1>3. g[1] = op(b, x)
  OBVIOUS
<1> QED
  BY <1>1, <1>2, <1>3, FoldIs

LEMMA FoldTwo ==
  ASSUME NEW b, NEW x, NEW y
  PROVE  Fold(b, <<x, y>>) = op(op(b, x), y)
<1> DEFINE g == [i \in 0..2 |-> IF i = 0 THEN b ELSE IF i = 1 THEN op(b, x) ELSE op(op(b, x), y)]
           s == <<x, y>>
<1>1. Trace(g, b, s, 2)
  BY DEF Trace
<1>2. DOMAIN s = 1..2
  OBVIOUS
<1>3. g[2] = op(op(b, x), y)
  OBVIOUS
<1> QED
  BY <1>1, <1>2, <1>3, FoldIs

\* Folding two sequences one after the other goes on where the first ended.
LEMMA FoldConcat ==
  ASSUME NEW S, NEW s \in Seq(S), NEW t \in Seq(S), NEW b
  PROVE  Fold(b, s \o t) = Fold(Fold(b, s), t)
<1> DEFINE m == Len(s)
           n == Len(t)
<1>1. m \in Nat /\ n \in Nat /\ DOMAIN s = 1..m /\ DOMAIN t = 1..n
  OBVIOUS
<1>2. /\ DOMAIN (s \o t) = 1..(m + n)
      /\ \A i \in 1..m : (s \o t)[i] = s[i]
      /\ \A i \in (m + 1)..(m + n) : (s \o t)[i] = t[i - m]
  OBVIOUS
<1>3. PICK g : Trace(g, b, s, m) /\ Fold(b, s) = g[m]
  BY <1>1, FoldHasTrace
<1>4. PICK h : Trace(h, g[m], t, n) /\ Fold(g[m], t) = h[n]
  BY <1>1, FoldHasTrace
<1> DEFINE c == s \o t
           f == [i \in 0..(m + n) |-> IF i <= m THEN g[i] ELSE h[i - m]]
<1>5. DOMAIN c = 1..(m + n) /\ m + n \in Nat
  BY <1>1, <1>2
<1>6. ASSUME NEW i \in 1..(m + n)
      PROVE  f[i] = op(f[i - 1], c[i])
  <2>1. CASE i <= m
    <3>1. i \in 1..m /\ i - 1 <= m /\ i - 1 \in 0..(m + n) /\ i \in 0..(m + n)
      BY <1>1, <2>1
    <3>2. g[i] = op(g[i - 1], s[i])
      BY <1>3, <3>1 DEF Trace
    <3> QED
      BY <1>2, <2>1, <3>1, <3>2
  <2>2. CASE i > m
    <3>1. i - m \in 1..n /\ i \in 0..(m + n) /\ i - 1 \in 0..(m + n) /\ i \in (m + 1)..(m + n)
      BY <1>1, <2>2
    <3>2. f[i] = h[i - m] /\ c[i] = t[i - m]
      BY <1>2, <2>2, <3>1, <1>1
    <3>3. h[i - m] = op(h[(i - m) - 1], t[i - m])
      BY <1>4, <3>1 DEF Trace
    <3>4. f[i - 1] = h[(i - m) - 1]
      <4>1. CASE i - 1 = m
        <5>1. (i - m) - 1 = 0
          BY <4>1, <1>1
        <5>2. h[0] = g[m]
          BY <1>4 DEF Trace
        <5> QED
          BY <4>1, <5>1, <5>2, <3>1, <1>1
      <4>2. CASE i - 1 > m
        <5>1. (i - 1) - m = (i - m) - 1 /\ ~(i - 1 <= m)
          BY <1>1, <4>2
        <5> QED
          BY <5>1, <3>1
      <4> QED
        BY <2>2, <4>1, <4>2, <1>1
    <3> QED
      BY <3>2, <3>3, <3>4
  <2> QED
    BY <2>1, <2>2, <1>1
<1>7. f[0] = b
  BY <1>1, <1>3 DEF Trace
<1>8. Trace(f, b, c, m + n)
  BY <1>6, <1>7 DEF Trace
<1>9. f[m + n] = h[n]
  <2>1. CASE n = 0
    <3>1. m + n <= m /\ m + n \in 0..(m + n) /\ m + n = m
      BY <1>1, <2>1
    <3>2. h[0] = g[m]
      BY <1>4 DEF Trace
    <3> QED
      BY <2>1, <3>1, <3>2
  <2>2. CASE n # 0
    <3>1. ~(m + n <= m) /\ m + n \in 0..(m + n) /\ (m + n) - m = n
      BY <1>1, <2>2
    <3> QED
      BY <3>1
  <2> QED
    BY <2>1, <2>2
<1>10. Fold(b, c) = f[m + n]
  <2> HIDE DEF c, f, m, n
  <2> QED
    BY <1>5, <1>8, FoldIs
<1> QED
  BY <1>3, <1>4, <1>9, <1>10
=============================================================================
