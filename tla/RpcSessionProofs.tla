-------------------------- MODULE RpcSessionProofs --------------------------
(***************************************************************************)
(* What RpcSession checks of two small programs holds of any two, however  *)
(* many clients, services and calls they have and whatever interceptors    *)
(* are in their chains.  First the chains: what a fold of wrappers makes   *)
(* of the handler.  Then the invariant, the metas the programs build, and  *)
(* the frames on the wire as rows.  Then the steps: a call ends in one way *)
(* only (Settles), and a frame is taken and answered in one way only.      *)
(***************************************************************************)
EXTENDS RpcSession, RpcMetaProofs

-----------------------------------------------------------------------------
(* Counting in sequences                                                   *)

\* The places of a sequence are finitely many.
LEMMA PlacesAreFinite ==
  ASSUME NEW S, NEW s \in Seq(S), NEW T, T \subseteq DOMAIN s
  PROVE  IsFiniteSet(T) /\ Cardinality(T) \in Nat
<1>1. Len(s) \in Nat /\ DOMAIN s = 1..Len(s) /\ 1 \in Int /\ Len(s) \in Int
  OBVIOUS
<1>2. IsFiniteSet(1..Len(s))
  BY <1>1, FS_Interval
<1>3. IsFiniteSet(T)
  BY <1>1, <1>2, FS_Subset
<1> QED
  BY <1>3, FS_CardinalityType

\* How many elements of a sequence are of a kind.
Count(s, W) == Cardinality({i \in DOMAIN s : s[i] \in W})

LEMMA CountIsNat ==
  ASSUME NEW S, NEW s \in Seq(S), NEW W
  PROVE  Count(s, W) \in Nat
  BY PlacesAreFinite DEF Count

LEMMA CountConcat ==
  ASSUME NEW S, NEW s \in Seq(S), NEW t \in Seq(S), NEW W
  PROVE  Count(s \o t, W) = Count(s, W) + Count(t, W)
<1> DEFINE m == Len(s)
           n == Len(t)
           A == {i \in DOMAIN s : s[i] \in W}
           B == {i \in DOMAIN t : t[i] \in W}
           C == {i \in (m + 1)..(m + n) : t[i - m] \in W}
           D == {i \in DOMAIN (s \o t) : (s \o t)[i] \in W}
<1>1. /\ m \in Nat /\ n \in Nat /\ DOMAIN s = 1..m /\ DOMAIN t = 1..n
      /\ s \o t \in Seq(S)
      /\ DOMAIN (s \o t) = 1..(m + n)
      /\ \A i \in 1..m : (s \o t)[i] = s[i]
      /\ \A i \in (m + 1)..(m + n) : (s \o t)[i] = t[i - m]
  OBVIOUS
<1>2. IsFiniteSet(A) /\ IsFiniteSet(B)
  BY PlacesAreFinite
<1>3. IsFiniteSet(D)
  BY <1>1, PlacesAreFinite
<1>4. D = A \cup C /\ A \cap C = {} /\ C \subseteq D
  BY <1>1
<1>5. IsFiniteSet(C)
  <2> HIDE DEF A, C, D
  <2> QED
    BY <1>3, <1>4, FS_Subset
<1>6. Cardinality(C) = Cardinality(B)
  <2> DEFINE f == [i \in B |-> i + m]
  <2>1. f \in Bijection(B, C)
    <3>1. \A i \in B : i \in 1..n /\ i + m \in C
      BY <1>1
    <3>2. \A i \in C : i - m \in B /\ (i - m) + m = i
      BY <1>1
    <3>3. \A i, j \in B : i + m = j + m => i = j
      BY <1>1
    <3> HIDE DEF B, C, m
    <3>4. f \in [B -> C]
      BY <3>1
    <3>5. f \in Injection(B, C)
      BY <3>3, <3>4 DEF Injection, IsInjective
    <3>6. f \in Surjection(B, C)
      <4>1. \A y \in C : f[y - m] = y
        BY <3>2
      <4> QED
        BY <3>2, <3>4, <4>1 DEF Surjection
    <3> QED
      BY <3>5, <3>6 DEF Bijection
  <2> HIDE DEF B, C, f
  <2> QED
    BY <1>2, <2>1, FS_Bijection DEF ExistsBijection
<1>7. Cardinality(D) = Cardinality(A) + Cardinality(C) - Cardinality(A \cap C)
  <2> HIDE DEF A, C, D
  <2> QED
    BY <1>2, <1>4, <1>5, FS_Union
<1>8. Cardinality(A \cap C) = 0
  BY <1>4, FS_EmptySet
<1>9. Cardinality(A) \in Nat /\ Cardinality(C) \in Nat
  <2> HIDE DEF A, C
  <2> QED
    BY <1>2, <1>5, FS_CardinalityType
<1> HIDE DEF A, B, C, D
<1>10. Cardinality(D) = Cardinality(A) + Cardinality(B)
  BY <1>6, <1>7, <1>8, <1>9
<1> QED
  BY <1>10 DEF A, B, D, Count

-----------------------------------------------------------------------------
(* Interceptor chains                                                      *)

ChainFold == INSTANCE Folding WITH op <- Wrapper

IteratesChain(iter, b, s, S) ==
  iter = [d \in SUBSET S |->
            IF d = {} THEN b ELSE Wrapper(iter[d \ {Max(d)}], s[Max(d)])]

LEMMA ChainFoldLeft ==
  ASSUME NEW b, NEW s
  PROVE  FoldLeft(Wrapper, b, s) = ChainFold!Fold(b, s)
<1>1. FoldLeft(Wrapper, b, s) =
        (CHOOSE iter : IteratesChain(iter, b, s, DOMAIN s))[DOMAIN s]
  BY DEF FoldLeft, MapThenFoldSet, IteratesChain
<1>2. ASSUME NEW iter
      PROVE  IteratesChain(iter, b, s, DOMAIN s) <=> ChainFold!Iterates(iter, b, s, DOMAIN s)
  BY DEF IteratesChain, ChainFold!Iterates, ChainFold!Last, Max
<1>3. (CHOOSE iter : IteratesChain(iter, b, s, DOMAIN s)) =
        (CHOOSE iter : ChainFold!Iterates(iter, b, s, DOMAIN s))
  BY <1>2
<1> QED
  BY <1>1, <1>3 DEF ChainFold!Fold

\* The rounds of makeInterceptor's loop: g[i] combines the last i interceptors.
User(chain, j) == [at |-> j, kind |-> chain[j], survives |-> NextSurvives(chain, j)]

Rounds(g, chain, handler) ==
  LET n == Len(chain) IN
  /\ g[0] = Innermost(n + 1, handler)
  /\ \A i \in 1..n : g[i] = Wrapper(g[i - 1], User(chain, n - i + 1))

LEMMA RunHasRounds ==
  ASSUME NEW S, NEW chain \in Seq(S), NEW handler
  PROVE  \E g : Rounds(g, chain, handler) /\ Run(chain, handler) = g[Len(chain)].fresh
<1> DEFINE n == Len(chain)
           u == UserInterceptors(chain)
           r == Reverse(u)
           b == Innermost(n + 1, handler)
<1>1. n \in Nat /\ DOMAIN chain = 1..n
  OBVIOUS
<1>2. u \in Seq({User(chain, j) : j \in 1..n}) /\ Len(u) = n /\ \A j \in 1..n : u[j] = User(chain, j)
  BY <1>1 DEF UserInterceptors, User
<1> HIDE DEF u
<1>3. DOMAIN r = 1..n /\ \A i \in 1..n : r[i] = User(chain, n - i + 1)
  <2>1. \A i \in 1..n : n - i + 1 \in 1..n
    BY <1>1
  <2> QED
    BY <1>1, <1>2, <2>1 DEF Reverse
<1> HIDE DEF r, n
<1>4. PICK g : ChainFold!Trace(g, b, r, n) /\ ChainFold!Fold(b, r) = g[n]
  BY <1>1, <1>3, ChainFold!FoldHasTrace
<1>5. Run(chain, handler) = g[n].fresh
  BY <1>4, ChainFoldLeft DEF Run, r, u, n
<1>6. Rounds(g, chain, handler)
  BY <1>3, <1>4 DEF Rounds, ChainFold!Trace, n
<1> QED
  BY <1>5, <1>6 DEF n

\* Where a run has come past a place, and how often.
At(visits, i) == Cardinality({k \in DOMAIN visits : visits[k] = i})

LEMMA AtOne ==
  ASSUME NEW x, NEW i
  PROVE  At(<<x>>, i) = IF x = i THEN 1 ELSE 0
<1>1. CASE x = i
  <2>1. {k \in DOMAIN <<x>> : <<x>>[k] = i} = {1}
    BY <1>1
  <2> QED
    BY <1>1, <2>1, FS_Singleton DEF At
<1>2. CASE x # i
  <2>1. {k \in DOMAIN <<x>> : <<x>>[k] = i} = {}
    BY <1>2
  <2> QED
    BY <1>2, <2>1, FS_EmptySet DEF At
<1> QED
  BY <1>1, <1>2

LEMMA AtConcat ==
  ASSUME NEW s \in Seq(Nat), NEW t \in Seq(Nat), NEW i
  PROVE  At(s \o t, i) = At(s, i) + At(t, i)
<1>1. ASSUME NEW v
      PROVE  At(v, i) = Count(v, {i})
  BY DEF At, Count
<1> QED
  BY <1>1, CountConcat

LEMMA AtIsNat ==
  ASSUME NEW s \in Seq(Nat), NEW i
  PROVE  At(s, i) \in Nat
  BY PlacesAreFinite DEF At

\* A chain of which the handler is behind: a run meets the handler rest times, and a
\* second one again times; what an interceptor around it makes of these.
Meets(path, i, n) == path.visits \in Seq(Nat) /\ At(path.visits, i) <= n

LEMMA InterceptorMeets ==
  ASSUME NEW at \in Nat, NEW kind, NEW rest, NEW again, NEW i, at # i,
         NEW a \in Nat, NEW b \in Nat, Meets(rest, i, a), Meets(again, i, b)
  PROVE  Meets(Interceptor(at, kind, rest, again), i, IF kind = "twice" THEN a + b ELSE a)
<1> DEFINE v == rest.visits
           w == again.visits
           here == <<at>>
           p == Interceptor(at, kind, rest, again)
<1>1. v \in Seq(Nat) /\ w \in Seq(Nat) /\ At(v, i) <= a /\ At(w, i) <= b
  BY DEF Meets
<1>2. p.visits \in {here, here \o v} \/ (kind = "twice" /\ p.visits = here \o (v \o w))
  BY DEF Interceptor, Then, Path, Caught
<1>3. here \in Seq(Nat)
  OBVIOUS
<1>4. At(here, i) = 0
  BY AtOne
<1> HIDE DEF v, w, here, p
<1>5. v \o w \in Seq(Nat) /\ here \o v \in Seq(Nat) /\ here \o (v \o w) \in Seq(Nat)
  BY <1>1, <1>3
<1>6. At(v, i) \in Nat /\ At(w, i) \in Nat
  BY <1>1, AtIsNat
<1>7. At(here \o v, i) = At(here, i) + At(v, i)
  BY <1>1, <1>3, AtConcat
<1>8. At(v \o w, i) = At(v, i) + At(w, i)
  BY <1>1, AtConcat
<1>9. At(here \o (v \o w), i) = At(here, i) + At(v \o w, i)
  BY <1>3, <1>5, AtConcat
<1>10. p.visits \in Seq(Nat)
  BY <1>1, <1>2, <1>3, <1>5
<1>11. At(p.visits, i) <= a \/ (kind = "twice" /\ At(p.visits, i) <= a + b)
  <2>1. CASE p.visits = here
    BY <1>4, <2>1
  <2>2. CASE p.visits = here \o v
    BY <1>1, <1>4, <1>6, <1>7, <2>2
  <2>3. CASE kind = "twice" /\ p.visits = here \o (v \o w)
    BY <1>1, <1>4, <1>6, <1>8, <1>9, <2>3
  <2> QED
    BY <1>2, <2>1, <2>2, <2>3
<1>12. At(p.visits, i) \in Nat
  BY <1>10, AtIsNat
<1> QED
  BY <1>10, <1>11, <1>12 DEF Meets, p

\* Round i: a fresh next leads to the handler no more often than the last interceptor
\* repeats it, a spent one never.
LEMMA RoundsMeet ==
  ASSUME NEW S, NEW chain \in Seq(S), NEW handler, NEW g, Rounds(g, chain, handler)
  PROVE  /\ g[Len(chain)].fresh.visits \in Seq(Nat)
         /\ At(g[Len(chain)].fresh.visits, Len(chain) + 1) <= Repeats(chain)
<1> DEFINE n == Len(chain)
           z == n + 1
           R == Repeats(chain)
           P(i) == /\ Meets(g[i].fresh, z, IF i = 0 THEN 1 ELSE R)
                   /\ Meets(g[i].spent, z, 0)
<1>1. n \in Nat /\ DOMAIN chain = 1..n /\ R \in {1, 2} /\ z \in Nat
  BY DEF Repeats
<1>2. P(0)
  <2>1. g[0].fresh = Path(<<z>>, handler) /\ g[0].spent = Path(<<>>, "throw")
    BY DEF Rounds, Innermost, Callee
  <2>2. At(<<z>>, z) = 1
    BY AtOne
  <2>3. At(<<>>, z) = 0
    <3>1. {k \in DOMAIN <<>> : <<>>[k] = z} = {}
      OBVIOUS
    <3> QED
      BY <3>1, FS_EmptySet DEF At
  <2>4. <<z>> \in Seq(Nat) /\ <<>> \in Seq(Nat)
    BY <1>1
  <2> QED
    BY <2>1, <2>2, <2>3, <2>4 DEF Meets, Path
<1>3. ASSUME NEW i \in 1..n, P(i - 1)
      PROVE  P(i)
  <2> DEFINE u == User(chain, n - i + 1)
             r == g[i - 1]
             at == n - i + 1
             kind == chain[at]
             a == IF i = 1 THEN 1 ELSE R
             again == IF u.survives THEN r.fresh ELSE r.spent
  <2>1. at \in Nat /\ at # z /\ (at = n <=> i = 1) /\ a \in Nat
    BY <1>1
  <2>2. u.at = at /\ u.kind = kind /\ u.survives = (i = 1)
    BY <2>1 DEF User, NextSurvives
  <2>3. Meets(r.fresh, z, a) /\ Meets(r.spent, z, 0)
    BY <1>3
  <2>4. Meets(again, z, IF i = 1 THEN a ELSE 0)
    BY <2>2, <2>3
  <2>5. /\ g[i].fresh = Interceptor(at, kind, r.fresh, again)
        /\ g[i].spent = Interceptor(at, kind, r.spent, r.spent)
    <3>1. g[i] = Wrapper(r, u)
      BY DEF Rounds
    <3> HIDE DEF u, r, at, kind
    <3> QED
      BY <2>2, <3>1 DEF Wrapper, Callee
  <2>6. kind = "twice" /\ i = 1 => R = 2
    <3>1. chain # <<>> /\ (i = 1 => at = n)
      BY <1>1
    <3> QED
      BY <3>1 DEF Repeats
  <2> HIDE DEF u, r, at, kind, again
  <2>7. Meets(g[i].spent, z, 0)
    <3>1. Meets(g[i].spent, z, IF kind = "twice" THEN 0 + 0 ELSE 0)
      BY <2>1, <2>3, <2>5, InterceptorMeets
    <3> QED
      BY <3>1 DEF Meets
  <2>8. Meets(g[i].fresh, z, R)
    <3>1. CASE i = 1
      <4>1. Meets(r.fresh, z, 1) /\ Meets(again, z, 1)
        BY <2>3, <2>4, <3>1
      <4>2. Meets(g[i].fresh, z, IF kind = "twice" THEN 1 + 1 ELSE 1)
        BY <2>1, <2>5, <4>1, InterceptorMeets
      <4> QED
        BY <1>1, <2>6, <3>1, <4>2, AtIsNat DEF Meets
    <3>2. CASE i # 1
      <4>1. Meets(r.fresh, z, R) /\ Meets(again, z, 0)
        BY <2>3, <2>4, <3>2
      <4>2. Meets(g[i].fresh, z, IF kind = "twice" THEN R + 0 ELSE R)
        BY <1>1, <2>1, <2>5, <4>1, InterceptorMeets
      <4> QED
        BY <1>1, <4>2 DEF Meets
    <3> QED
      BY <3>1, <3>2
  <2> QED
    BY <1>1, <2>7, <2>8
<1> DEFINE T == {i \in 0..n : ~P(i)}
<1>4. T = {}
  <2> SUFFICES ASSUME T # {} PROVE FALSE
    OBVIOUS
  <2>1. T \subseteq Nat
    BY <1>1
  <2>2. PICK x \in T : \A y \in T : x <= y
    <3> HIDE DEF T
    <3> QED
      BY <2>1, ChainFold!Least
  <2> HIDE DEF P
  <2>3. x \in 1..n /\ x - 1 \in 0..n /\ ~P(x)
    BY <1>1, <1>2
  <2>4. P(x - 1)
    BY <2>2, <2>3
  <2> QED
    BY <1>3, <2>3, <2>4
<1>5. P(n)
  <2> HIDE DEF P
  <2> QED
    BY <1>1, <1>4
<1>6. g[n].fresh.visits \in Seq(Nat) /\ At(g[n].fresh.visits, z) <= R
  BY <1>1, <1>5, AtIsNat DEF Meets
<1> QED
  BY <1>6

\* The handler runs once, or twice if the last interceptor calls next twice.
LEMMA VisitsBounded ==
  ASSUME NEW S, NEW chain \in Seq(S), NEW handler
  PROVE  /\ Visits(chain, handler, Len(chain) + 1) \in Nat
         /\ Visits(chain, handler, Len(chain) + 1) <= Repeats(chain)
<1>1. PICK g : Rounds(g, chain, handler) /\ Run(chain, handler) = g[Len(chain)].fresh
  BY RunHasRounds
<1>2. /\ Run(chain, handler).visits \in Seq(Nat)
      /\ At(Run(chain, handler).visits, Len(chain) + 1) <= Repeats(chain)
  BY <1>1, RoundsMeet
<1>3. At(Run(chain, handler).visits, Len(chain) + 1) \in Nat
  BY <1>2, AtIsNat
<1>4. Visits(chain, handler, Len(chain) + 1) = At(Run(chain, handler).visits, Len(chain) + 1)
  BY DEF Visits, At
<1> QED
  BY <1>2, <1>3, <1>4

LEMMA TimesIsNat ==
  ASSUME NEW S, NEW chain \in Seq(S), NEW kind
  PROVE  Times(chain, kind) \in Nat
<1>1. PICK g : Rounds(g, chain, "ok") /\ Run(chain, "ok") = g[Len(chain)].fresh
  BY RunHasRounds
<1>2. Run(chain, "ok").visits \in Seq(Nat)
  BY <1>1, RoundsMeet
<1> DEFINE v == Run(chain, "ok").visits
           T == {k \in DOMAIN v : LET i == v[k] IN i <= Len(chain) /\ chain[i] = kind}
<1>3. T \subseteq DOMAIN v
  OBVIOUS
<1> HIDE DEF v, T
<1>4. Cardinality(T) \in Nat
  BY <1>2, <1>3, PlacesAreFinite DEF v
<1> QED
  BY <1>4 DEF Times, T, v

\* Round i, of a chain that calls next once at most: the last i interceptors run in
\* their order, up to the first that stops.
Orderly(v, chain, i) ==
  LET n == Len(chain)
      z == n - i + Len(v)
  IN
  /\ v \in Seq(Nat) /\ Len(v) >= 1 /\ z <= n + 1
  /\ \A j \in 1..Len(v) : v[j] = n - i + j
  /\ \A j \in (n - i + 1)..(z - 1) : chain[j] \notin Stoppers
  /\ z <= n => chain[z] \in Stoppers

LEMMA RoundsOrderly ==
  ASSUME NEW S, NEW chain \in Seq(S), NEW handler, NEW g, Rounds(g, chain, handler),
         \A i \in DOMAIN chain : chain[i] # "twice"
  PROVE  Orderly(g[Len(chain)].fresh.visits, chain, Len(chain))
<1> DEFINE n == Len(chain)
           P(i) == Orderly(g[i].fresh.visits, chain, i)
<1>1. n \in Nat /\ DOMAIN chain = 1..n
  OBVIOUS
<1>2. P(0)
  <2>1. g[0].fresh.visits = <<n + 1>>
    BY DEF Rounds, Innermost, Callee, Path
  <2>2. Orderly(<<n + 1>>, chain, 0)
    BY <1>1 DEF Orderly
  <2> QED
    BY <2>1, <2>2
<1>3. ASSUME NEW i \in 1..n, P(i - 1)
      PROVE  P(i)
  <2> DEFINE at == n - i + 1
             kind == chain[at]
             r == g[i - 1].fresh
             v == r.visits
             w == g[i].fresh.visits
  <2>1. at \in 1..n /\ kind # "twice"
    BY <1>1
  <2>2. \E again : g[i].fresh = Interceptor(at, kind, r, again)
    <3> DEFINE u == User(chain, at)
    <3>1. u.at = at /\ u.kind = kind
      BY DEF User
    <3>2. g[i] = Wrapper(g[i - 1], u)
      BY DEF Rounds
    <3> HIDE DEF u, at, kind
    <3> QED
      BY <3>1, <3>2 DEF Wrapper, Callee
  <2>3. w = IF kind \in Stoppers THEN <<at>> ELSE <<at>> \o v
    <3>1. PICK again : g[i].fresh = Interceptor(at, kind, r, again)
      BY <2>2
    <3> HIDE DEF at, kind, r
    <3>2. CASE kind \in Stoppers
      BY <3>1, <3>2 DEF Interceptor, Path, Stoppers
    <3>3. CASE kind \notin Stoppers
      BY <2>1, <3>1, <3>3 DEF Interceptor, Then, Caught, Path, Stoppers, v
    <3> QED
      BY <3>2, <3>3
  <2>4. Orderly(v, chain, i - 1)
    BY <1>3
  <2> HIDE DEF v, w
  <2>5. CASE kind \in Stoppers
    <3>1. Orderly(<<at>>, chain, i)
      BY <1>1, <2>1, <2>5 DEF Orderly
    <3> QED
      BY <2>3, <2>5, <3>1 DEF w
  <2>6. CASE kind \notin Stoppers
    <3> DEFINE x == <<at>> \o v
               y == n - i + Len(x)
    <3>1. v \in Seq(Nat) /\ Len(v) >= 1 /\ Len(v) \in Nat
      BY <2>4 DEF Orderly
    <3>2. <<at>> \in Seq(Nat) /\ Len(<<at>>) = 1 /\ <<at>>[1] = at
      BY <2>1
    <3>3. x \in Seq(Nat) /\ Len(x) = 1 + Len(v) /\ x[1] = at
          /\ \A j \in 2..(1 + Len(v)) : x[j] = v[j - 1]
      BY <3>1, <3>2
    <3>4. y = n - (i - 1) + Len(v) /\ y <= n + 1 /\ (y <= n => chain[y] \in Stoppers)
      BY <1>1, <2>4, <3>1, <3>3 DEF Orderly
    <3> HIDE DEF x
    <3>5. \A j \in 1..Len(x) : x[j] = n - i + j
      <4> SUFFICES ASSUME NEW j \in 1..Len(x)
                   PROVE  x[j] = n - i + j
        OBVIOUS
      <4>1. CASE j = 1
        BY <3>3, <4>1
      <4>2. CASE j # 1
        <5>1. j \in 2..(1 + Len(v)) /\ j - 1 \in 1..Len(v)
          BY <3>1, <3>3, <4>2
        <5>2. v[j - 1] = n - (i - 1) + (j - 1)
          BY <2>4, <5>1 DEF Orderly
        <5> QED
          BY <1>1, <3>3, <5>1, <5>2
      <4> QED
        BY <4>1, <4>2
    <3>6. \A j \in (n - i + 1)..(y - 1) : chain[j] \notin Stoppers
      <4> SUFFICES ASSUME NEW j \in (n - i + 1)..(y - 1)
                   PROVE  chain[j] \notin Stoppers
        OBVIOUS
      <4>1. CASE j = at
        BY <2>6, <4>1
      <4>2. CASE j # at
        <5>1. j \in (n - (i - 1) + 1)..(n - (i - 1) + Len(v) - 1)
          BY <1>1, <3>1, <3>4, <4>2
        <5> QED
          BY <2>4, <5>1 DEF Orderly
      <4> QED
        BY <4>1, <4>2
    <3>7. Orderly(x, chain, i)
      BY <3>1, <3>3, <3>4, <3>5, <3>6 DEF Orderly
    <3> QED
      BY <2>3, <2>6, <3>7 DEF w, x
  <2> QED
    BY <2>5, <2>6
<1> DEFINE T == {i \in 0..n : ~P(i)}
<1>4. T = {}
  <2> SUFFICES ASSUME T # {} PROVE FALSE
    OBVIOUS
  <2>1. T \subseteq Nat
    BY <1>1
  <2>2. PICK x \in T : \A y \in T : x <= y
    <3> HIDE DEF T
    <3> QED
      BY <2>1, ChainFold!Least
  <2> HIDE DEF P
  <2>3. x \in 1..n /\ x - 1 \in 0..n /\ ~P(x)
    BY <1>1, <1>2
  <2>4. P(x - 1)
    BY <2>2, <2>3
  <2> QED
    BY <1>3, <2>3, <2>4
<1>5. P(n)
  <2> HIDE DEF P
  <2> QED
    BY <1>1, <1>4
<1> QED
  BY <1>5

\* Interceptors that call next once at most run in the order of the list.
LEMMA ChainInOrder ==
  ASSUME NEW S, NEW chain \in Seq(S), \A i \in DOMAIN chain : chain[i] # "twice"
  PROVE  InOrder(chain)
<1> DEFINE n == Len(chain)
           v == Run(chain, "ok").visits
           z == Len(v)
<1>1. PICK g : Rounds(g, chain, "ok") /\ Run(chain, "ok") = g[n].fresh
  BY RunHasRounds
<1>2. Orderly(v, chain, n)
  BY <1>1, RoundsOrderly
<1>3. n \in Nat /\ DOMAIN chain = 1..n
  OBVIOUS
<1> HIDE DEF v
<1>4. /\ v \in Seq(Nat) /\ z \in Nat /\ z >= 1 /\ z <= n + 1
      /\ \A j \in 1..z : v[j] = j
      /\ \A j \in 1..(z - 1) : chain[j] \notin Stoppers
      /\ z <= n => chain[z] \in Stoppers
  BY <1>2, <1>3 DEF Orderly
<1>5. z = LastReached(chain)
  <2>1. CASE z <= n
    <3>1. z \in Stops(chain) /\ \A j \in Stops(chain) : z <= j
      BY <1>3, <1>4, <2>1 DEF Stops
    <3>2. \A i \in Stops(chain) : (\A j \in Stops(chain) : i <= j) => i = z
      BY <1>3, <1>4, <3>1 DEF Stops
    <3> QED
      BY <3>1, <3>2 DEF LastReached
  <2>2. CASE ~(z <= n)
    <3>1. z = n + 1 /\ Stops(chain) = {}
      BY <1>3, <1>4, <2>2 DEF Stops
    <3> QED
      BY <3>1 DEF LastReached
  <2> QED
    BY <2>1, <2>2
<1>6. v = [i \in 1..z |-> i]
  BY <1>4
<1> QED
  BY <1>5, <1>6 DEF InOrder, v

-----------------------------------------------------------------------------
(* The inductive invariant                                                 *)

Born(k) == k[2] < mSequenceID[k[1]]

Types ==
  /\ prog \in Programs
  /\ linked \in BOOLEAN
  /\ armed \subseteq Calls
  /\ callbacks \in [Calls -> Nat]

\* The tables of the clients, and what their numbers say of the calls.
Tables ==
  /\ mSequenceID \in [Clients -> Nat]
  /\ mStubHandleMap \in [Clients -> SUBSET Nat]
  /\ mTimeoutHandleMap \in [Clients -> SUBSET Nat]
  /\ \A c \in Clients : /\ mSequenceID[c] <= MaxCalls[c]
                        /\ mStubHandleMap[c] \subseteq 0..(mSequenceID[c] - 1)
                        /\ mTimeoutHandleMap[c] \subseteq mStubHandleMap[c]
  /\ phase \in [Calls -> Phases]
  /\ \A k \in Calls : /\ phase[k] = "unborn" <=> ~Born(k)
                      /\ phase[k] = "open" <=> k[2] \in mStubHandleMap[k[1]]

ErrorType == [failed : BOOLEAN, code : Codes \cup {0}]

\* How calls ended.
Endings ==
  /\ cause \in [Calls -> Calls]
  /\ told \in [Calls -> ErrorType]
  /\ \A k \in Calls : phase[k] \notin Ended => cause[k] = k /\ told[k] = NoError

\* A client is registered where it lives and for its service.
Registry ==
  /\ created \subseteq Clients
  /\ clientAt \in [Ends -> [ServiceIDs -> Clients \cup {Nobody}]]
  /\ \A e \in Ends, id \in ServiceIDs :
       clientAt[e][id] # Nobody =>
         prog.home[clientAt[e][id]] = e /\ prog.idOf[clientAt[e][id]] = id

Names(service, seq, k) == service = idOf(k) /\ seq = k[2]

\* What is under way: requests of the calls they are about, and answers to these,
\* where only an error of the chain may have lost its number.
Asks(e, f) ==
  /\ f.meta.type = REQUEST /\ e = Other(home(f.about))
  /\ Names(f.meta.service_id, request_info(f.meta).sequence_id, f.about)

Answers(e, f) ==
  LET r == response_info(f.meta) IN
  /\ f.meta.type = RESPONSE /\ e = home(f.about)
  /\ r.error_code \in Codes \cup {0}
  /\ ~r.failed \/ r.error_code # 0 => served[f.about] > 0
  /\ \/ Names(f.meta.service_id, r.sequence_id, f.about)
     \/ /\ f.meta.service_id = 0 /\ r.sequence_id = 0 /\ r.failed /\ r.error_code = 0
        /\ served[f.about] > 0

Fits(e, f) ==
  /\ f.fields = SerializeMeta(f.meta) /\ IsMeta(f.meta)
  /\ f.about \in Calls /\ Born(f.about)
  /\ Asks(e, f) \/ Answers(e, f)

Wires ==
  /\ wire = [e \in Ends |-> wire[e]]
  /\ \A e \in Ends : wire[e] \in Seq(Range(wire[e]))
  /\ \A e \in Ends : \A f \in Range(wire[e]) : Fits(e, f)

\* A reply object knows its request, which a service method has run for.
Held(r) ==
  /\ IsMeta(r.meta) /\ r.about \in Calls /\ Born(r.about)
  /\ r.end = Other(home(r.about)) /\ served[r.about] > 0
  /\ Names(r.meta.service_id, request_info(r.meta).sequence_id, r.about)

HeldBack == \A r \in kept : Held(r)

Asked(w, k) == Cardinality({i \in DOMAIN w : w[i].about = k /\ w[i].meta.type = REQUEST})

Budget(k) ==
  served[k] + Asked(wire[Other(home(k))], k) * Repeats(prog.in[Other(home(k))])
    <= Times(prog.out[home(k)], "send") * Repeats(prog.in[Other(home(k))])

InBudget ==
  /\ served \in [Calls -> Nat]
  /\ \A k \in Calls : Budget(k) /\ (~Born(k) => served[k] = 0)

Session == Types /\ Tables /\ Endings /\ Registry /\ Wires /\ HeldBack /\ InBudget

-----------------------------------------------------------------------------
(* Calls and programs                                                      *)

LEMMA EndsAre == \A e \in Ends : Other(e) \in Ends /\ Other(e) # e /\ Other(Other(e)) = e
  BY DEF Ends, Other

LEMMA CallIs ==
  ASSUME NEW k \in Calls
  PROVE  k = <<k[1], k[2]>> /\ k[1] \in Clients /\ k[2] \in Nat /\ k[2] < MaxCalls[k[1]]
  BY CallsAreBounded DEF Calls

LEMMA IsCall ==
  ASSUME NEW c \in Clients, NEW s \in Nat, s < MaxCalls[c]
  PROVE  <<c, s>> \in Calls
<1>1. MaxCalls[c] \in Nat /\ s \in 0..(MaxCalls[c] - 1)
  BY CallsAreBounded
<1>2. <<c, s>> \in {c} \X (0..(MaxCalls[c] - 1))
  BY <1>1
<1> QED
  BY <1>2 DEF Calls

LEMMA ProgramIs ==
  ASSUME NEW p \in Programs
  PROVE  /\ p.home \in [Clients -> Ends] /\ p.idOf \in [Clients -> ServiceIDs]
         /\ p.out \in [Ends -> Seq(Kinds)] /\ p.in \in [Ends -> Seq(Kinds)]
         /\ p.makes \in [Clients -> SUBSET (CallKinds \X Methods)]
  BY ProgramsAreSuch DEF ProgramType

LEMMA CallsHome ==
  ASSUME prog \in Programs, NEW k \in Calls
  PROVE  home(k) \in Ends /\ Other(home(k)) \in Ends /\ idOf(k) \in ServiceIDs
  BY ProgramIs, CallIs, EndsAre DEF home, idOf

-----------------------------------------------------------------------------
(* The metas                                                               *)

LEMMA NewMetaIs ==
  /\ IsMeta(NewMeta) /\ request_info(NewMeta) = NewRequest
  /\ NewMeta.service_id = 0 /\ NewRequest.sequence_id = 0
  BY NewMetaIsMeta DEF NewMeta, NewRequest, Deref, request_info

LEMMA EmptyRow == <<>> \in Seq(Leaf) /\ <<>> \in Seq(Field) /\ DOMAIN <<>> = {}
  OBVIOUS

CallArguments(q, id, method, b, t) ==
  q \in Nat /\ id \in Nat /\ method \in Nat /\ b \in BOOLEAN /\ t \in Nat

IsRequestOf(m, q, id) ==
  /\ IsMeta(m) /\ m.type = REQUEST /\ m.service_id = id
  /\ request_info(m).sequence_id = q

LEMMA RequestMetaIs ==
  ASSUME NEW q, NEW id, NEW method, NEW b, NEW t, CallArguments(q, id, method, b, t)
  PROVE  IsRequestOf(RequestMeta(q, id, method, b, t), q, id)
<1>0. q \in Nat /\ id \in Nat /\ method \in Nat /\ b \in BOOLEAN /\ t \in Nat
  BY DEF CallArguments
<1> DEFINE r == [NewRequest EXCEPT !.intMethod = method, !.sequence_id = q,
                   !.expect_response = b, !.timeout = t]
           m == RequestMeta(q, id, method, b, t)
<1>1. r = [intMethod |-> method, strMethod |-> Empty, expect_response |-> b,
           sequence_id |-> q, timeout |-> t, unknown |-> <<>>]
  <2> DEFINE r1 == [NewRequest EXCEPT !.intMethod = method]
             r2 == [r1 EXCEPT !.sequence_id = q]
             r3 == [r2 EXCEPT !.expect_response = b]
             r4 == [r3 EXCEPT !.timeout = t]
             no == FALSE
  <2>1. r = r4
    BY DEF NewRequest
  <2>2. NewRequest = [intMethod |-> 0, strMethod |-> Empty, expect_response |-> no,
                      sequence_id |-> 0, timeout |-> 0, unknown |-> <<>>]
    BY DEF NewRequest
  <2> HIDE DEF r1, r2, r3, r4, r, no
  <2>3. r1 = [intMethod |-> method, strMethod |-> Empty, expect_response |-> no,
              sequence_id |-> 0, timeout |-> 0, unknown |-> <<>>]
    BY <2>2 DEF r1
  <2>4. r2 = [intMethod |-> method, strMethod |-> Empty, expect_response |-> no,
              sequence_id |-> q, timeout |-> 0, unknown |-> <<>>]
    BY <2>3 DEF r2
  <2>5. r3 = [intMethod |-> method, strMethod |-> Empty, expect_response |-> b,
              sequence_id |-> q, timeout |-> 0, unknown |-> <<>>]
    BY <2>4 DEF r3
  <2>6. r4 = [intMethod |-> method, strMethod |-> Empty, expect_response |-> b,
              sequence_id |-> q, timeout |-> t, unknown |-> <<>>]
    BY <2>5 DEF r4
  <2> QED
    BY <2>1, <2>6
<1>2. m = [type |-> REQUEST, service_id |-> id, encoding |-> BINARY, request_info |-> Ptr(r),
           response_info |-> Null, meta_data |-> [k \in {} |-> Empty], unknown |-> <<>>]
  <2> DEFINE m1 == [NewMeta EXCEPT !.service_id = id]
             m2 == [m1 EXCEPT !.request_info = Ptr(r)]
  <2> HIDE DEF r
  <2>1. m = m2
    BY DEF NewMeta, RequestMeta, r
  <2> HIDE DEF m1, m2, m
  <2>2. m1 = [type |-> REQUEST, service_id |-> id, encoding |-> BINARY, request_info |-> Null,
              response_info |-> Null, meta_data |-> [k \in {} |-> Empty], unknown |-> <<>>]
    BY DEF m1, NewMeta
  <2>3. m2 = [type |-> REQUEST, service_id |-> id, encoding |-> BINARY, request_info |-> Ptr(r),
              response_info |-> Null, meta_data |-> [k \in {} |-> Empty], unknown |-> <<>>]
    BY <2>2 DEF m2
  <2> QED
    BY <2>1, <2>3
<1>3. IsRequest(r)
  <2> HIDE DEF r
  <2> QED
    BY <1>0, <1>1, EmptyRow, EmptyIsText DEF IsRequest
<1>4. r.sequence_id = q
  BY <1>1
<1> HIDE DEF r, m
<1>5. Ptr(r)[1] = r /\ Ptr(r) # Null
  BY DEF Ptr, Null
<1>6. IsMap([k \in {} |-> Empty])
  BY FS_EmptySet DEF IsMap
<1>7. /\ m.type = REQUEST /\ m.service_id = id /\ m.request_info = Ptr(r)
      /\ m.response_info = Null /\ m.meta_data = [k \in {} |-> Empty] /\ m.unknown = <<>>
  BY <1>2
<1>8. m \in [type : Nat, service_id : Nat, encoding : Nat, request_info : {m.request_info},
             response_info : {m.response_info}, meta_data : {m.meta_data}, unknown : Seq(Field)]
  BY <1>0, <1>2, EmptyRow DEF REQUEST, BINARY
<1>9. IsMeta(m)
  BY <1>3, <1>5, <1>6, <1>7, <1>8, EmptyRow DEF IsMeta
<1>10. request_info(m).sequence_id = q
  BY <1>4, <1>5, <1>7 DEF request_info, Deref
<1> QED
  BY <1>7, <1>9, <1>10 DEF m, IsRequestOf

\* An answer with any response in it.
AnswerWith(id, r) ==
  [type |-> RESPONSE, service_id |-> id, encoding |-> BINARY, request_info |-> Null,
   response_info |-> Ptr(r), meta_data |-> [k \in {} |-> Empty], unknown |-> <<>>]

LEMMA AnswerWithIs ==
  ASSUME NEW id, id \in Nat, NEW r, IsResponse(r)
  PROVE  LET m == AnswerWith(id, r) IN
         /\ IsMeta(m) /\ m.type = RESPONSE /\ m.service_id = id /\ response_info(m) = r
<1> DEFINE m == AnswerWith(id, r)
<1>5. Ptr(r)[1] = r /\ Ptr(r) # Null
  BY DEF Ptr, Null
<1>6. IsMap([k \in {} |-> Empty])
  BY FS_EmptySet DEF IsMap
<1>7. /\ m.type = RESPONSE /\ m.service_id = id /\ m.response_info = Ptr(r)
      /\ m.request_info = Null /\ m.meta_data = [k \in {} |-> Empty] /\ m.unknown = <<>>
  BY DEF AnswerWith
<1>8. m \in [type : Nat, service_id : Nat, encoding : Nat, request_info : {m.request_info},
             response_info : {m.response_info}, meta_data : {m.meta_data}, unknown : Seq(Field)]
  BY EmptyRow DEF AnswerWith, RESPONSE, BINARY
<1> HIDE DEF m
<1>9. IsMeta(m)
  BY <1>5, <1>6, <1>7, <1>8, EmptyRow DEF IsMeta
<1>10. response_info(m) = r
  BY <1>5, <1>7 DEF response_info, Deref
<1> QED
  BY <1>7, <1>9, <1>10 DEF m

\* How the program sets an answer, a field at a time.
LEMMA AnswerIsSet ==
  ASSUME NEW id, NEW r
  PROVE  [NewMeta EXCEPT !.type = RESPONSE, !.service_id = id, !.response_info = Ptr(r)]
           = AnswerWith(id, r)
<1> DEFINE m1 == [NewMeta EXCEPT !.type = RESPONSE]
           m2 == [m1 EXCEPT !.service_id = id]
           m3 == [m2 EXCEPT !.response_info = Ptr(r)]
<1>1. [NewMeta EXCEPT !.type = RESPONSE, !.service_id = id, !.response_info = Ptr(r)] = m3
  BY DEF NewMeta
<1> HIDE DEF m1, m2, m3
<1>2. m1 = [type |-> RESPONSE, service_id |-> 0, encoding |-> BINARY, request_info |-> Null,
            response_info |-> Null, meta_data |-> [k \in {} |-> Empty], unknown |-> <<>>]
  BY DEF m1, NewMeta
<1>3. m2 = [type |-> RESPONSE, service_id |-> id, encoding |-> BINARY, request_info |-> Null,
            response_info |-> Null, meta_data |-> [k \in {} |-> Empty], unknown |-> <<>>]
  BY <1>2 DEF m2
<1>4. m3 = AnswerWith(id, r)
  BY <1>3 DEF m3, AnswerWith
<1> QED
  BY <1>1, <1>4

\* The answers of the program: a reply leaves failed at its default.
LEMMA ReplyIsSet ==
  ASSUME NEW q
  PROVE  \E no \in BOOLEAN :
           /\ ~no
           /\ ReplyMeta(q) = AnswerWith(q.service_id,
                ResponseOf(request_info(q).sequence_id, no, 0, Empty, no, <<>>))
<1> DEFINE no == FALSE
           s == request_info(q).sequence_id
           r == [NewResponse EXCEPT !.sequence_id = s]
<1>1. ReplyMeta(q) =
        [NewMeta EXCEPT !.type = RESPONSE, !.service_id = q.service_id, !.response_info = Ptr(r)]
  BY DEF ReplyMeta
<1>2. NewResponse = [sequence_id |-> 0, failed |-> no, error_code |-> 0, reason |-> Empty,
                     timeout |-> no, unknown |-> <<>>]
  BY DEF NewResponse
<1>3. ~no /\ no \in BOOLEAN
  OBVIOUS
<1> HIDE DEF no, s
<1>4. r = ResponseOf(s, no, 0, Empty, no, <<>>)
  BY <1>2 DEF ResponseOf
<1> HIDE DEF r
<1>5. ReplyMeta(q) = AnswerWith(q.service_id, r)
  BY <1>1, AnswerIsSet
<1> QED
  BY <1>3, <1>4, <1>5 DEF s

LEMMA ErrorIsSet ==
  ASSUME NEW id, NEW s, NEW code, NEW reason
  PROVE  \E no \in BOOLEAN, yes \in BOOLEAN :
           /\ yes
           /\ ErrorMeta(id, s, code, reason) =
                AnswerWith(id, ResponseOf(s, yes, code, reason, no, <<>>))
<1> DEFINE no == FALSE
           yes == TRUE
           r1 == [NewResponse EXCEPT !.sequence_id = s]
           r2 == [r1 EXCEPT !.failed = yes]
           r3 == [r2 EXCEPT !.error_code = code]
           r4 == [r3 EXCEPT !.reason = reason]
           r == [NewResponse EXCEPT !.sequence_id = s, !.failed = yes, !.error_code = code,
                                    !.reason = reason]
<1>1. ErrorMeta(id, s, code, reason) =
        [NewMeta EXCEPT !.type = RESPONSE, !.service_id = id, !.response_info = Ptr(r)]
  BY DEF ErrorMeta
<1>2. NewResponse = [sequence_id |-> 0, failed |-> no, error_code |-> 0, reason |-> Empty,
                     timeout |-> no, unknown |-> <<>>]
  BY DEF NewResponse
<1>3. no \in BOOLEAN /\ yes /\ yes \in BOOLEAN
  OBVIOUS
<1> HIDE DEF no, yes
<1>4. r = r4
  BY <1>2
<1> HIDE DEF r1, r2, r3, r4, r
<1>5. r1 = ResponseOf(s, no, 0, Empty, no, <<>>)
  BY <1>2 DEF r1, ResponseOf
<1>6. r2 = ResponseOf(s, yes, 0, Empty, no, <<>>)
  BY <1>5 DEF r2, ResponseOf
<1>7. r3 = ResponseOf(s, yes, code, Empty, no, <<>>)
  BY <1>6 DEF r3, ResponseOf
<1>8. r4 = ResponseOf(s, yes, code, reason, no, <<>>)
  BY <1>7 DEF r4, ResponseOf
<1>9. ErrorMeta(id, s, code, reason) = AnswerWith(id, r)
  BY <1>1, AnswerIsSet
<1> QED
  BY <1>3, <1>4, <1>8, <1>9

LEMMA ReplyMetaIs ==
  ASSUME NEW q, IsMeta(q)
  PROVE  LET m == ReplyMeta(q)
             r == response_info(m)
         IN
         /\ IsMeta(m) /\ m.type = RESPONSE /\ m.service_id = q.service_id
         /\ r.sequence_id = request_info(q).sequence_id /\ ~r.failed /\ r.error_code = 0
<1> DEFINE s == request_info(q).sequence_id
<1>1. q.service_id \in Nat /\ s \in Nat
  BY DEF IsMeta, IsRequest, request_info, Deref, NewRequest
<1>2. PICK no \in BOOLEAN :
        ~no /\ ReplyMeta(q) = AnswerWith(q.service_id, ResponseOf(s, no, 0, Empty, no, <<>>))
  BY ReplyIsSet
<1> HIDE DEF s
<1> DEFINE r == ResponseOf(s, no, 0, Empty, no, <<>>)
<1>3. IsResponse(r) /\ r.sequence_id = s /\ r.error_code = 0 /\ ~r.failed
  BY <1>1, <1>2, EmptyRow, EmptyIsText DEF ResponseOf, IsResponse
<1> HIDE DEF r
<1>4. ReplyMeta(q) = AnswerWith(q.service_id, r)
  BY <1>2 DEF r
<1> QED
  BY <1>1, <1>3, <1>4, AnswerWithIs DEF s

Numbers(id, s, code) == id \in Nat /\ s \in Nat /\ code \in Int

IsError(m, id, s, code) ==
  /\ IsMeta(m) /\ m.type = RESPONSE /\ m.service_id = id
  /\ response_info(m).sequence_id = s /\ response_info(m).failed
  /\ response_info(m).error_code = code

LEMMA ErrorMetaIs ==
  ASSUME NEW id, NEW s, NEW code, Numbers(id, s, code), NEW x \in DOMAIN Reasons
  PROVE  IsError(ErrorMeta(id, s, code, Reasons[x]), id, s, code)
<1> DEFINE reason == Reasons[x]
<1>1. reason \in Texts
  BY ReasonsAreTexts
<1> HIDE DEF reason
<1>2. PICK no \in BOOLEAN, yes \in BOOLEAN :
        /\ yes
        /\ ErrorMeta(id, s, code, reason) =
             AnswerWith(id, ResponseOf(s, yes, code, reason, no, <<>>))
  BY ErrorIsSet
<1> DEFINE r == ResponseOf(s, yes, code, reason, no, <<>>)
           m == ErrorMeta(id, s, code, reason)
<1>3. IsResponse(r) /\ r.sequence_id = s /\ r.failed /\ r.error_code = code
  BY <1>1, <1>2, EmptyRow DEF ResponseOf, IsResponse, Numbers
<1> HIDE DEF r
<1>4. m = AnswerWith(id, r)
  BY <1>2 DEF r
<1> HIDE DEF m
<1>5. IsMeta(m) /\ m.type = RESPONSE /\ m.service_id = id /\ response_info(m) = r
  BY <1>3, <1>4, AnswerWithIs DEF Numbers
<1>6. IsError(m, id, s, code)
  BY <1>3, <1>5 DEF IsError
<1> QED
  BY <1>6 DEF m, reason

LEMMA StampedIs ==
  ASSUME NEW e, NEW m, IsMeta(m)
  PROVE  LET n == Stamped(e, m) IN
         /\ IsMeta(n) /\ n.type = m.type /\ n.service_id = m.service_id
         /\ n.request_info = m.request_info /\ n.response_info = m.response_info
<1> DEFINE n == [m EXCEPT !.unknown = <<Extra>>]
<1>1. CASE e \in prog.newer
  <2>1. Stamped(e, m) = n
    BY <1>1 DEF Stamped
  <2>2. m = [type |-> m.type, service_id |-> m.service_id, encoding |-> m.encoding,
             request_info |-> m.request_info, response_info |-> m.response_info,
             meta_data |-> m.meta_data, unknown |-> m.unknown]
    BY DEF IsMeta
  <2>3. n = [type |-> m.type, service_id |-> m.service_id, encoding |-> m.encoding,
             request_info |-> m.request_info, response_info |-> m.response_info,
             meta_data |-> m.meta_data, unknown |-> <<Extra>>]
    BY <2>2
  <2>4. <<Extra>> \in Seq(Field) /\ DOMAIN <<Extra>> = {1} /\ <<Extra>>[1] = Extra
    BY ExtraIsUnknown
  <2> HIDE DEF n
  <2>5. /\ n.type = m.type /\ n.service_id = m.service_id /\ n.encoding = m.encoding
        /\ n.request_info = m.request_info /\ n.response_info = m.response_info
        /\ n.meta_data = m.meta_data /\ n.unknown = <<Extra>>
    BY <2>3
  <2>6. m.type \in Nat /\ m.service_id \in Nat /\ m.encoding \in Nat
    BY DEF IsMeta
  <2>7. n \in [type : Nat, service_id : Nat, encoding : Nat, request_info : {n.request_info},
               response_info : {n.response_info}, meta_data : {n.meta_data}, unknown : Seq(Field)]
    BY <2>3, <2>4, <2>5, <2>6
  <2>8. IsMeta(n)
    BY <2>4, <2>5, <2>7, ExtraIsUnknown DEF IsMeta
  <2> QED
    BY <2>1, <2>5, <2>8
<1>2. CASE e \notin prog.newer
  BY <1>2 DEF Stamped
<1> QED
  BY <1>1, <1>2

-----------------------------------------------------------------------------
(* What is on the wire                                                     *)

LEMMA ElementsOfRow ==
  ASSUME NEW S, NEW s, s \in Seq(S)
  PROVE  Range(s) \subseteq S
<1>1. \A i \in DOMAIN s : s[i] \in S
  OBVIOUS
<1> QED
  BY <1>1 DEF Range

LEMMA RowOfElements ==
  ASSUME NEW S, NEW s, s \in Seq(S)
  PROVE  s \in Seq(Range(s))
<1>1. \A i \in DOMAIN s : s[i] \in Range(s)
  BY DEF Range
<1>2. Len(s) \in Nat /\ DOMAIN s = 1..Len(s) /\ s = [i \in 1..Len(s) |-> s[i]]
  OBVIOUS
<1>3. [i \in 1..Len(s) |-> s[i]] \in Seq(Range(s))
  BY <1>1, <1>2
<1> QED
  BY <1>2, <1>3

LEMMA SeqWiden ==
  ASSUME NEW S, NEW T, S \subseteq T, NEW s \in Seq(S)
  PROVE  s \in Seq(T)
<1>1. Len(s) \in Nat /\ DOMAIN s = 1..Len(s) /\ s = [i \in 1..Len(s) |-> s[i]]
  OBVIOUS
<1>2. \A i \in 1..Len(s) : s[i] \in T
  OBVIOUS
<1> QED
  BY <1>1, <1>2

\* A row is a sequence of what is in it.
Row(s) == s \in Seq(Range(s))

LEMMA RowConcat ==
  ASSUME NEW s, NEW t, Row(s), Row(t)
  PROVE  Row(s \o t) /\ Range(s \o t) \subseteq Range(s) \cup Range(t)
<1> DEFINE S == Range(s) \cup Range(t)
<1>1. s \in Seq(S) /\ t \in Seq(S)
  BY SeqWiden DEF Row
<1> HIDE DEF S
<1>2. s \o t \in Seq(S)
  BY <1>1
<1>3. s \o t \in Seq(Range(s \o t)) /\ Range(s \o t) \subseteq S
  BY <1>2, RowOfElements, ElementsOfRow
<1> QED
  BY <1>3 DEF Row, S

LEMMA RowKeeps ==
  ASSUME NEW s, NEW t, Row(s), Row(t)
  PROVE  Range(s) \subseteq Range(s \o t)
<1> DEFINE S == Range(s) \cup Range(t)
<1>1. s \in Seq(S) /\ t \in Seq(S)
  BY SeqWiden DEF Row
<1> HIDE DEF S
<1>2. \A i \in DOMAIN s : i \in DOMAIN (s \o t) /\ (s \o t)[i] = s[i]
  BY <1>1
<1> QED
  BY <1>2 DEF Range

LEMMA RowTail ==
  ASSUME NEW s, Row(s), s # <<>>
  PROVE  /\ Row(Tail(s)) /\ Range(Tail(s)) \subseteq Range(s) /\ Head(s) \in Range(s)
         /\ \A i \in DOMAIN s : s[i] = Head(s) \/ s[i] \in Range(Tail(s))
<1> DEFINE S == Range(s)
<1>1. s \in Seq(S)
  BY DEF Row
<1> HIDE DEF S
<1>2. Tail(s) \in Seq(S) /\ Head(s) \in S
  BY <1>1
<1>3. \A i \in DOMAIN s : i = 1 \/ (i - 1 \in DOMAIN Tail(s) /\ Tail(s)[i - 1] = s[i])
  BY <1>1
<1>4. Head(s) = s[1]
  BY <1>1
<1>5. \A i \in DOMAIN s : s[i] = Head(s) \/ s[i] \in Range(Tail(s))
  <2> SUFFICES ASSUME NEW i \in DOMAIN s
               PROVE  s[i] = Head(s) \/ s[i] \in Range(Tail(s))
    OBVIOUS
  <2>1. CASE i = 1
    BY <1>4, <2>1
  <2>2. CASE i - 1 \in DOMAIN Tail(s) /\ Tail(s)[i - 1] = s[i]
    BY <2>2 DEF Range
  <2> QED
    BY <1>3, <2>1, <2>2
<1>6. Tail(s) \in Seq(Range(Tail(s))) /\ Range(Tail(s)) \subseteq S
  BY <1>2, RowOfElements, ElementsOfRow
<1> QED
  BY <1>2, <1>5, <1>6 DEF Row, S

LEMMA RowEmpty == Row(<<>>) /\ Range(<<>>) = {}
  BY DEF Row, Range

LEMMA RowSame ==
  ASSUME NEW x, NEW n \in Nat
  PROVE  /\ Row([i \in 1..n |-> x]) /\ Range([i \in 1..n |-> x]) \subseteq {x}
         /\ Len([i \in 1..n |-> x]) = n
<1> DEFINE s == [i \in 1..n |-> x]
<1>1. s \in Seq({x}) /\ Len(s) = n
  OBVIOUS
<1> DEFINE S == {x}
<1>2. s \in Seq(S)
  BY <1>1
<1> HIDE DEF s, S
<1>3. s \in Seq(Range(s)) /\ Range(s) \subseteq S
  BY <1>2, RowOfElements, ElementsOfRow
<1> QED
  BY <1>1, <1>3 DEF Row, s, S

\* Requests among them.
LEMMA AskedIsNat ==
  ASSUME NEW w, Row(w), NEW k
  PROVE  Asked(w, k) \in Nat
<1> DEFINE S == Range(w)
           T == {i \in DOMAIN w : w[i].about = k /\ w[i].meta.type = REQUEST}
<1>1. w \in Seq(S) /\ T \subseteq DOMAIN w
  BY DEF Row
<1> HIDE DEF S, T
<1>2. Cardinality(T) \in Nat
  BY <1>1, PlacesAreFinite
<1> QED
  BY <1>2 DEF Asked, T

LEMMA AskedConcat ==
  ASSUME NEW s, Row(s), NEW t, Row(t), NEW k
  PROVE  Asked(s \o t, k) = Asked(s, k) + Asked(t, k)
<1> DEFINE S == Range(s) \cup Range(t)
           W == {f \in S : f.about = k /\ f.meta.type = REQUEST}
<1>1. s \in Seq(S) /\ t \in Seq(S)
  BY SeqWiden DEF Row
<1>2. ASSUME NEW w, w \in Seq(S)
      PROVE  Asked(w, k) = Count(w, W)
  <2>1. \A i \in DOMAIN w : w[i] \in W <=> w[i].about = k /\ w[i].meta.type = REQUEST
    <3> HIDE DEF S
    <3>1. \A i \in DOMAIN w : w[i] \in S
      BY <1>2
    <3> QED
      BY <3>1
  <2> HIDE DEF W
  <2>2. {i \in DOMAIN w : w[i] \in W}
          = {i \in DOMAIN w : w[i].about = k /\ w[i].meta.type = REQUEST}
    BY <2>1
  <2> QED
    BY <2>2 DEF Asked, Count
<1> HIDE DEF S, W
<1>3. s \o t \in Seq(S)
  BY <1>1
<1>4. Count(s \o t, W) = Count(s, W) + Count(t, W)
  BY <1>1, CountConcat
<1>5. Asked(s \o t, k) = Count(s \o t, W)
  BY <1>2, <1>3
<1>6. Asked(s, k) = Count(s, W) /\ Asked(t, k) = Count(t, W)
  BY <1>1, <1>2
<1> QED
  BY <1>4, <1>5, <1>6

LEMMA AskedNone ==
  ASSUME NEW w, NEW k, \A f \in Range(w) : f.about # k \/ f.meta.type # REQUEST
  PROVE  Asked(w, k) = 0
<1>1. {i \in DOMAIN w : w[i].about = k /\ w[i].meta.type = REQUEST} = {}
  BY DEF Range
<1> QED
  BY <1>1, FS_EmptySet DEF Asked

LEMMA AskedAll ==
  ASSUME NEW w, NEW k, Row(w), \A f \in Range(w) : f.about = k /\ f.meta.type = REQUEST
  PROVE  Asked(w, k) = Len(w)
<1>1. Len(w) \in Nat /\ DOMAIN w = 1..Len(w)
  <2> DEFINE S == Range(w)
  <2>1. w \in Seq(S)
    BY DEF Row
  <2> HIDE DEF S
  <2> QED
    BY <2>1
<1>2. {i \in DOMAIN w : w[i].about = k /\ w[i].meta.type = REQUEST} = 1..Len(w)
  <2>1. \A i \in DOMAIN w : w[i] \in Range(w)
    BY DEF Range
  <2> QED
    BY <1>1, <2>1
<1>3. Cardinality(1..Len(w)) = Len(w)
  <2>1. 1 \in Int /\ Len(w) \in Int /\ (IF 1 > Len(w) THEN 0 ELSE Len(w) - 1 + 1) = Len(w)
    BY <1>1
  <2> QED
    BY <2>1, FS_Interval
<1> QED
  BY <1>2, <1>3 DEF Asked

LEMMA AskedTail ==
  ASSUME NEW w, Row(w), w # <<>>, NEW k
  PROVE  Asked(w, k) =
           Asked(Tail(w), k) + IF Head(w).about = k /\ Head(w).meta.type = REQUEST THEN 1 ELSE 0
<1> DEFINE S == Range(w)
           h == <<Head(w)>>
           t == Tail(w)
<1>1. w \in Seq(S)
  BY DEF Row
<1> HIDE DEF S
<1>2. w = h \o t /\ Head(w) \in S
  BY <1>1
<1>3. Row(t)
  BY RowTail
<1>4. Row(h) /\ Range(h) = {Head(w)} /\ Len(h) = 1
  BY DEF Row, Range
<1> HIDE DEF h, t
<1>5. Asked(w, k) = Asked(h, k) + Asked(t, k)
  BY <1>2, <1>3, <1>4, AskedConcat
<1>6. Asked(t, k) \in Nat
  BY <1>3, AskedIsNat
<1>7. Asked(h, k) = IF Head(w).about = k /\ Head(w).meta.type = REQUEST THEN 1 ELSE 0
  <2>1. CASE Head(w).about = k /\ Head(w).meta.type = REQUEST
    <3>1. Asked(h, k) = Len(h)
      BY <1>4, <2>1, AskedAll
    <3> QED
      BY <1>4, <2>1, <3>1
  <2>2. CASE ~(Head(w).about = k /\ Head(w).meta.type = REQUEST)
    <3>1. Asked(h, k) = 0
      BY <1>4, <2>2, AskedNone
    <3> QED
      BY <2>2, <3>1
  <2> QED
    BY <2>1, <2>2
<1> QED
  BY <1>5, <1>6, <1>7 DEF t

\* What a chain writes of a message is that message, once for each sender.
LEMMA WrittenRow ==
  ASSUME prog \in Programs, NEW e \in Ends, NEW m, NEW k
  PROVE  /\ Row(Written(e, m, k)) /\ Range(Written(e, m, k)) \subseteq {Frame(e, m, k)}
         /\ Len(Written(e, m, k)) <= Times(prog.out[e], "send")
<1> DEFINE n == Times(prog.out[e], "send")
           x == Frame(e, m, k)
           w == Written(e, m, k)
<1>1. n \in Nat
  BY ProgramIs, TimesIsNat
<1> HIDE DEF x, n
<1>2. CASE linked
  <2>1. w = [i \in 1..n |-> x]
    BY <1>2 DEF Written, x, n
  <2> HIDE DEF w
  <2>2. Row(w) /\ Range(w) \subseteq {x} /\ Len(w) = n
    BY <1>1, <2>1, RowSame
  <2> QED
    BY <1>1, <2>2 DEF w, x, n
<1>3. CASE ~linked
  <2>1. w = <<>> /\ Len(<<>>) = 0
    BY <1>3 DEF Written
  <2> QED
    BY <1>1, <2>1, RowEmpty DEF x, n
<1> QED
  BY <1>2, <1>3

LEMMA WrittenIs ==
  ASSUME prog \in Programs, NEW e \in Ends, NEW m, IsMeta(m), NEW k
  PROVE  /\ Row(Written(e, m, k))
         /\ Len(Written(e, m, k)) <= Times(prog.out[e], "send")
         /\ \A f \in Range(Written(e, m, k)) :
              /\ f.fields = SerializeMeta(f.meta) /\ IsMeta(f.meta) /\ f.about = k
              /\ f.meta.type = m.type /\ f.meta.service_id = m.service_id
              /\ request_info(f.meta) = request_info(m)
              /\ response_info(f.meta) = response_info(m)
<1> DEFINE x == Frame(e, m, k)
           w == Written(e, m, k)
<1>1. Row(w) /\ Range(w) \subseteq {x} /\ Len(w) <= Times(prog.out[e], "send")
  BY WrittenRow
<1>2. /\ x.fields = SerializeMeta(x.meta) /\ x.meta = Stamped(e, m) /\ x.about = k
  BY DEF Frame
<1>3. LET s == Stamped(e, m) IN
      /\ IsMeta(s) /\ s.type = m.type /\ s.service_id = m.service_id
      /\ s.request_info = m.request_info /\ s.response_info = m.response_info
  BY StampedIs
<1>4. request_info(Stamped(e, m)) = request_info(m) /\ response_info(Stamped(e, m)) = response_info(m)
  BY <1>3 DEF request_info, response_info
<1> HIDE DEF x, w
<1>5. ASSUME NEW f \in Range(w)
      PROVE  /\ f.fields = SerializeMeta(f.meta) /\ IsMeta(f.meta) /\ f.about = k
             /\ f.meta.type = m.type /\ f.meta.service_id = m.service_id
             /\ request_info(f.meta) = request_info(m)
             /\ response_info(f.meta) = response_info(m)
  <2>1. f = x
    BY <1>1
  <2> QED
    BY <1>2, <1>3, <1>4, <2>1
<1> QED
  BY <1>1, <1>5 DEF w

-----------------------------------------------------------------------------
(* What stays as it is                                                     *)

\* No step takes back what services have done or calls that were made.
Onward ==
  /\ prog' = prog
  /\ \A k \in Calls : Born(k) => Born(k)'
  /\ \A k \in Calls : served[k] > 0 => served'[k] > 0

LEMMA FitsStays ==
  ASSUME Onward, NEW e, NEW f, Fits(e, f)
  PROVE  Fits(e, f)'
<1>1. f.about \in Calls /\ Born(f.about)'
  BY DEF Fits, Onward
<1>2. CASE Asks(e, f)
  <2>1. Asks(e, f)'
    BY <1>2 DEF Asks, Names, Onward, home, idOf
  <2> QED
    BY <1>1, <2>1 DEF Fits
<1>3. CASE Answers(e, f)
  <2>1. Answers(e, f)'
    BY <1>1, <1>3 DEF Answers, Names, Onward, home, idOf
  <2> QED
    BY <1>1, <2>1 DEF Fits
<1> QED
  BY <1>2, <1>3 DEF Fits

LEMMA HeldStays ==
  ASSUME Onward, NEW r, Held(r)
  PROVE  Held(r)'
  BY DEF Held, Onward, Names, home, idOf

\* What is on the wire was there before, or fits.
LEMMA WiresKept ==
  ASSUME Wires, Onward, wire' = [e \in Ends |-> wire'[e]],
         \A e \in Ends : Row(wire'[e]),
         \A e \in Ends : \A f \in Range(wire'[e]) : f \in Range(wire[e]) \/ Fits(e, f)'
  PROVE  Wires'
<1>1. ASSUME NEW e \in Ends, NEW f \in Range(wire'[e])
      PROVE  Fits(e, f)'
  BY <1>1, FitsStays DEF Wires
<1> QED
  BY <1>1 DEF Wires, Row

LEMMA HeldBackKept ==
  ASSUME HeldBack, Onward, \A r \in kept' : r \in kept \/ Held(r)'
  PROVE  HeldBack'
<1>1. ASSUME NEW r \in kept'
      PROVE  Held(r)'
  BY <1>1, HeldStays DEF HeldBack
<1> QED
  BY <1>1 DEF HeldBack

LEMMA RepeatsAre == \A chain : Repeats(chain) \in {1, 2}
  BY DEF Repeats

\* A step that asks nothing and serves nothing.
LEMMA InBudgetKept ==
  ASSUME InBudget, Onward, prog \in Programs, served' = served, Wires,
         \A e \in Ends : Row(wire'[e]),
         \A e \in Ends, k \in Calls : Asked(wire'[e], k) <= Asked(wire[e], k)
  PROVE  InBudget'
<1>1. ASSUME NEW k \in Calls
      PROVE  Budget(k)' /\ (~Born(k)' => served'[k] = 0)
  <2> DEFINE e == Other(home(k))
             R == Repeats(prog.in[e])
             T == Times(prog.out[home(k)], "send")
             x == Asked(wire[e], k)
             y == Asked(wire'[e], k)
  <2>1. home(k) \in Ends /\ e \in Ends
    BY CallsHome
  <2>2. x \in Nat /\ y \in Nat /\ y <= x
    BY <2>1, AskedIsNat DEF Wires, Row
  <2>3. R \in {1, 2}
    BY RepeatsAre
  <2>4. T \in Nat
    BY <2>1, ProgramIs, TimesIsNat
  <2>5. served[k] \in Nat /\ (~Born(k) => served[k] = 0)
    BY DEF InBudget
  <2>6. served[k] + x * R <= T * R
    BY DEF InBudget, Budget
  <2> HIDE DEF x, y, R, T
  <2>7. served[k] + y * R <= T * R
    <3>1. CASE R = 1
      BY <2>2, <2>4, <2>5, <2>6, <3>1
    <3>2. CASE R = 2
      BY <2>2, <2>4, <2>5, <2>6, <3>2
    <3> QED
      BY <2>3, <3>1, <3>2
  <2>8. home(k)' = home(k) /\ prog' = prog
    BY DEF home, Onward
  <2>9. Budget(k)'
    BY <2>7, <2>8 DEF Budget, x, y, R, T
  <2> QED
    BY <2>5, <2>9 DEF Onward
<1> QED
  BY <1>1 DEF InBudget

-----------------------------------------------------------------------------
(* What an end says                                                        *)

\* Frames that end e writes about call k to the other end; none of them asks.
Replies(e, k, frames) ==
  /\ Row(frames)
  /\ \A f \in Range(frames) :
       /\ f.fields = SerializeMeta(f.meta) /\ IsMeta(f.meta) /\ f.about = k
       /\ f.meta.type = RESPONSE /\ response_info(f.meta).error_code \in Codes \cup {0}
       /\ \/ Names(f.meta.service_id, response_info(f.meta).sequence_id, k)
          \/ /\ f.meta.service_id = 0 /\ response_info(f.meta).sequence_id = 0
             /\ response_info(f.meta).failed /\ response_info(f.meta).error_code = 0

\* They say that a service method has run: by what it answered, or by the number
\* that an error has lost to the reply object.
Claims(frames) ==
  \E f \in Range(frames) :
    \/ ~response_info(f.meta).failed \/ response_info(f.meta).error_code # 0
    \/ ~Names(f.meta.service_id, response_info(f.meta).sequence_id, f.about)

LEMMA NoReplies ==
  ASSUME NEW e, NEW k
  PROVE  Replies(e, k, <<>>) /\ ~Claims(<<>>)
  BY RowEmpty DEF Replies, Claims

LEMMA RepliesTogether ==
  ASSUME NEW e, NEW k, NEW s, NEW t, Replies(e, k, s), Replies(e, k, t)
  PROVE  Replies(e, k, s \o t) /\ (Claims(s \o t) => Claims(s) \/ Claims(t))
<1>1. Row(s \o t) /\ Range(s \o t) \subseteq Range(s) \cup Range(t)
  BY RowConcat DEF Replies
<1> QED
  BY <1>1 DEF Replies, Claims

LEMMA AnswerReplies ==
  ASSUME prog \in Programs, NEW e \in Ends, NEW m, IsMeta(m), NEW k,
         Names(m.service_id, request_info(m).sequence_id, k), NEW code \in Codes \cup {0}
  PROVE  Replies(e, k, Written(e, Answer(m, code), k))
<1> DEFINE a == Answer(m, code)
           w == Written(e, a, k)
<1>1. m.service_id \in Nat /\ request_info(m).sequence_id \in Nat
  BY DEF IsMeta, IsRequest, request_info, Deref, NewRequest
<1>2. code \in Int
  BY CodesAreNumbers
<1>3. /\ IsMeta(a) /\ a.type = RESPONSE /\ a.service_id = m.service_id
      /\ response_info(a).sequence_id = request_info(m).sequence_id
      /\ response_info(a).error_code = code
  <2>1. CASE code = 0
    <3>1. a = ReplyMeta(m)
      BY <2>1 DEF Answer
    <3> HIDE DEF a
    <3> QED
      BY <2>1, <3>1, ReplyMetaIs
  <2>2. CASE code # 0
    <3> DEFINE x == "service"
    <3>1. x \in DOMAIN Reasons /\ Reasons.service = Reasons[x]
      BY DEF Reasons
    <3> HIDE DEF x
    <3>2. a = ErrorMeta(m.service_id, request_info(m).sequence_id, code, Reasons[x])
      BY <2>2, <3>1 DEF Answer
    <3> HIDE DEF a
    <3>3. Numbers(m.service_id, request_info(m).sequence_id, code)
      BY <1>1, <1>2 DEF Numbers
    <3>4. IsError(a, m.service_id, request_info(m).sequence_id, code)
      BY <3>1, <3>2, <3>3, ErrorMetaIs
    <3> QED
      BY <3>4 DEF IsError
  <2> QED
    BY <2>1, <2>2
<1> HIDE DEF a
<1>4. Row(w)
  BY <1>3, WrittenIs
<1>5. ASSUME NEW f \in Range(w)
      PROVE  /\ f.fields = SerializeMeta(f.meta) /\ IsMeta(f.meta) /\ f.about = k
             /\ f.meta.type = a.type /\ f.meta.service_id = a.service_id
             /\ response_info(f.meta) = response_info(a)
  BY <1>3, WrittenIs
<1> HIDE DEF w
<1>6. \A f \in Range(w) : Names(f.meta.service_id, response_info(f.meta).sequence_id, k)
  BY <1>3, <1>5
<1>7. Replies(e, k, w)
  BY <1>3, <1>4, <1>5, <1>6 DEF Replies
<1> QED
  BY <1>7 DEF w, a

LEMMA ErrorReplies ==
  ASSUME prog \in Programs, NEW e \in Ends, NEW id, id \in Nat, NEW s, s \in Nat, NEW k,
         NEW x \in DOMAIN Reasons, Names(id, s, k) \/ (id = 0 /\ s = 0)
  PROVE  LET w == Written(e, ErrorMeta(id, s, 0, Reasons[x]), k)
         IN Replies(e, k, w) /\ (Names(id, s, k) => ~Claims(w))
<1> DEFINE a == ErrorMeta(id, s, 0, Reasons[x])
           w == Written(e, a, k)
<1>0. Numbers(id, s, 0)
  BY DEF Numbers
<1>1. IsError(a, id, s, 0)
  BY <1>0, ErrorMetaIs
<1> HIDE DEF a
<1>2. /\ IsMeta(a) /\ a.type = RESPONSE /\ a.service_id = id
      /\ response_info(a).sequence_id = s /\ response_info(a).failed
      /\ response_info(a).error_code = 0
  BY <1>1 DEF IsError
<1>3. Row(w)
  BY <1>2, WrittenIs
<1>4. ASSUME NEW f \in Range(w)
      PROVE  /\ f.fields = SerializeMeta(f.meta) /\ IsMeta(f.meta) /\ f.about = k
             /\ f.meta.type = a.type /\ f.meta.service_id = a.service_id
             /\ response_info(f.meta) = response_info(a)
  BY <1>2, WrittenIs
<1> HIDE DEF w
<1>5. ASSUME NEW f \in Range(w)
      PROVE  \/ Names(f.meta.service_id, response_info(f.meta).sequence_id, k)
             \/ f.meta.service_id = 0 /\ response_info(f.meta).sequence_id = 0
  BY <1>2, <1>4
<1>6. Replies(e, k, w)
  BY <1>2, <1>3, <1>4, <1>5 DEF Replies
<1>7. Names(id, s, k) => ~Claims(w)
  BY <1>2, <1>4 DEF Claims
<1> QED
  BY <1>6, <1>7 DEF w, a

\* Replies fit where they go to.
LEMMA RepliesFit ==
  ASSUME Onward, NEW k \in Calls, Born(k), NEW e, e = home(k), NEW frames,
         Replies(Other(e), k, frames), Claims(frames) => served'[k] > 0
  PROVE  \A f \in Range(frames) : Fits(e, f)'
<1> SUFFICES ASSUME NEW f \in Range(frames)
             PROVE  Fits(e, f)'
  OBVIOUS
<1> DEFINE r == response_info(f.meta)
<1>1. /\ f.fields = SerializeMeta(f.meta) /\ IsMeta(f.meta) /\ f.about = k
      /\ f.meta.type = RESPONSE /\ r.error_code \in Codes \cup {0}
      /\ \/ Names(f.meta.service_id, r.sequence_id, k)
         \/ /\ f.meta.service_id = 0 /\ r.sequence_id = 0
            /\ r.failed /\ r.error_code = 0
  BY DEF Replies
<1>2. ~r.failed \/ r.error_code # 0 \/ ~Names(f.meta.service_id, r.sequence_id, k)
        => served'[f.about] > 0
  BY <1>1 DEF Claims
<1>3. home(f.about)' = e /\ idOf(f.about)' = idOf(k) /\ Born(f.about)'
  BY <1>1 DEF Onward, home, idOf
<1>4. \/ Names(f.meta.service_id, r.sequence_id, f.about)'
      \/ /\ f.meta.service_id = 0 /\ r.sequence_id = 0 /\ r.failed /\ r.error_code = 0
         /\ served'[f.about] > 0
  BY <1>1, <1>2, <1>3 DEF Names
<1>5. Answers(e, f)'
  BY <1>1, <1>2, <1>3, <1>4 DEF Answers
<1> QED
  BY <1>1, <1>3, <1>5 DEF Fits

-----------------------------------------------------------------------------
(* How calls end                                                           *)

Accounts == Tables /\ Endings /\ AnswerMeetsItsCall /\ AnswerProvesExecution

StaysEnded ==
  \A k \in Calls : phase[k] \in Ended => UNCHANGED <<phase[k], cause[k], told[k], callbacks[k]>>

LEMMA TimeoutMetaIs ==
  ASSUME NEW s
  PROVE  TimeoutMeta(s).service_id = 0 /\ response_info(TimeoutMeta(s)).sequence_id = s
<1> DEFINE r == [NewResponse EXCEPT !.timeout = TRUE, !.sequence_id = s]
           m == TimeoutMeta(s)
<1>1. r.sequence_id = s
  BY DEF NewResponse
<1>2. m.service_id = 0 /\ m.response_info = Ptr(r)
  <2> HIDE DEF r
  <2>1. [NewMeta EXCEPT !.type = RESPONSE, !.response_info = Ptr(r)].service_id = 0
    BY DEF NewMeta
  <2>2. [NewMeta EXCEPT !.type = RESPONSE, !.response_info = Ptr(r)].response_info = Ptr(r)
    BY DEF NewMeta
  <2> QED
    BY <2>1, <2>2 DEF TimeoutMeta, r
<1> HIDE DEF r, m
<1>3. Ptr(r)[1] = r /\ Ptr(r) # Null
  BY DEF Ptr, Null
<1>4. response_info(m) = r
  BY <1>2, <1>3 DEF response_info, Deref
<1> QED
  BY <1>1, <1>2, <1>4 DEF m

\* What ends an open call k, the answer to k2 or k2's timer, was meant for k or is
\* one of the known mistakes.
MayEnd(k, k2, how, error) ==
  /\ k \in Calls /\ k2 \in Calls /\ phase[k] = "open" /\ how \in Ended /\ error \in ErrorType
  /\ home(k) = home(k2)
  /\ \/ idOf(k) = idOf(k2) /\ k[2] = k2[2]
     \/ /\ how \in {"responded", "lost"} /\ idOf(k) = 0 /\ k[2] = 0
        /\ error.failed /\ error.code = 0 /\ served[k2] > 0
     \/ how \in {"timedout", "dropped"} /\ idOf(k) = 0 /\ k[2] = k2[2]
  /\ how = "responded" /\ (~error.failed \/ error.code # 0) => served[k2] > 0

\* How often the callbacks of a call run that ends so.
Runs(k, how) ==
  CASE how = "responded" -> 1..Repeats(prog.in[home(k)])
    [] how = "timedout" -> {1}
    [] OTHER -> {0}

Finishes(k, k2, how, runs, error) ==
  /\ MayEnd(k, k2, how, error) /\ Forget(k[1], k[2]) /\ End(k, k2, how, runs, error)
  /\ runs \in Nat /\ runs \in Runs(k, how)

LEMMA QuietAccounts ==
  ASSUME Accounts, Onward, UNCHANGED tables, UNCHANGED <<phase, cause, told, callbacks>>
  PROVE  Accounts' /\ StaysEnded
<1>1. Tables'
  BY DEF Accounts, Tables, tables, Born
<1>2. Endings'
  BY DEF Accounts, Endings
<1>3. AnswerMeetsItsCall'
  <2>1. \A k \in Calls : cause[k] \in Calls
    BY DEF Accounts, Endings
  <2> QED
    BY <2>1 DEF Accounts, AnswerMeetsItsCall, home, idOf, Onward
<1>4. AnswerProvesExecution'
  <2>1. \A k \in Calls : cause[k] \in Calls
    BY DEF Accounts, Endings
  <2> QED
    BY <2>1 DEF Accounts, AnswerProvesExecution, Onward
<1>5. StaysEnded
  BY DEF StaysEnded
<1> QED
  BY <1>1, <1>2, <1>3, <1>4, <1>5 DEF Accounts

LEMMA EndAccounts ==
  ASSUME Accounts, Types, prog' = prog, NEW k \in Calls, NEW k2, NEW how, NEW runs, NEW error,
         Finishes(k, k2, how, runs, error)
  PROVE  Accounts' /\ StaysEnded /\ callbacks' \in [Calls -> Nat]
<1>1. /\ k2 \in Calls /\ phase[k] = "open" /\ how \in Ended /\ error \in ErrorType
      /\ phase[k] \notin Ended /\ how \in Phases /\ how # "open" /\ how # "unborn"
  BY DEF Finishes, MayEnd, Ended, Phases
<1>2. /\ phase' = [phase EXCEPT ![k] = how]
      /\ cause' = [cause EXCEPT ![k] = k2]
      /\ told' = [told EXCEPT ![k] = error]
      /\ callbacks' = [callbacks EXCEPT ![k] = @ + runs] /\ runs \in Nat
      /\ served' = served
  BY DEF Finishes, End
<1>3. /\ phase \in [Calls -> Phases] /\ cause \in [Calls -> Calls] /\ told \in [Calls -> ErrorType]
      /\ callbacks \in [Calls -> Nat]
  BY DEF Accounts, Tables, Endings, Types
<1>4. \A j \in Calls : j # k => /\ phase'[j] = phase[j] /\ cause'[j] = cause[j]
                                /\ told'[j] = told[j] /\ callbacks'[j] = callbacks[j]
  BY <1>2, <1>3
<1>5. phase'[k] = how /\ cause'[k] = k2 /\ told'[k] = error
  BY <1>2, <1>3
<1>6. Tables'
  <2>1. k[1] \in Clients /\ k = <<k[1], k[2]>>
    BY CallIs
  <2>2. /\ mSequenceID' = mSequenceID
        /\ mStubHandleMap' = [mStubHandleMap EXCEPT ![k[1]] = @ \ {k[2]}]
        /\ mTimeoutHandleMap' = [mTimeoutHandleMap EXCEPT ![k[1]] = @ \ {k[2]}]
    BY DEF Finishes, Forget
  <2>3. Tables
    BY DEF Accounts
  <2>4. /\ mSequenceID' \in [Clients -> Nat] /\ mStubHandleMap' \in [Clients -> SUBSET Nat]
        /\ mTimeoutHandleMap' \in [Clients -> SUBSET Nat]
    BY <2>2, <2>3 DEF Tables
  <2>5. \A c \in Clients : /\ mSequenceID'[c] <= MaxCalls[c]
                           /\ mStubHandleMap'[c] \subseteq 0..(mSequenceID'[c] - 1)
                           /\ mTimeoutHandleMap'[c] \subseteq mStubHandleMap'[c]
    <3> SUFFICES ASSUME NEW c \in Clients
                 PROVE  /\ mSequenceID'[c] <= MaxCalls[c]
                        /\ mStubHandleMap'[c] \subseteq 0..(mSequenceID'[c] - 1)
                        /\ mTimeoutHandleMap'[c] \subseteq mStubHandleMap'[c]
      OBVIOUS
    <3>1. CASE c = k[1]
      BY <2>1, <2>2, <2>3, <3>1 DEF Tables
    <3>2. CASE c # k[1]
      BY <2>1, <2>2, <2>3, <3>2 DEF Tables
    <3> QED
      BY <3>1, <3>2
  <2>6. phase' \in [Calls -> Phases]
    BY <1>1, <1>2, <1>3
  <2>7. ASSUME NEW j \in Calls
        PROVE  /\ phase'[j] = "unborn" <=> ~Born(j)'
               /\ phase'[j] = "open" <=> j[2] \in mStubHandleMap'[j[1]]
    <3>1. j = <<j[1], j[2]>> /\ j[1] \in Clients
      BY CallIs
    <3>2. Born(j)' <=> Born(j)
      BY <2>2 DEF Born
    <3>3. CASE j = k
      <4>1. k[2] \notin mStubHandleMap'[k[1]]
        BY <2>1, <2>2, <2>3 DEF Tables
      <4>2. Born(k)
        BY <1>1, <2>3 DEF Tables
      <4> QED
        BY <1>1, <1>5, <3>2, <3>3, <4>1, <4>2
    <3>4. CASE j # k
      <4>1. j[1] # k[1] \/ j[2] # k[2]
        BY <2>1, <3>1, <3>4
      <4>2. j[2] \in mStubHandleMap'[j[1]] <=> j[2] \in mStubHandleMap[j[1]]
        BY <2>1, <2>2, <2>3, <3>1, <4>1 DEF Tables
      <4> QED
        BY <1>4, <2>3, <3>2, <3>4, <4>2 DEF Tables
    <3> QED
      BY <3>3, <3>4
  <2> QED
    BY <2>4, <2>5, <2>6, <2>7 DEF Tables
<1>7. Endings'
  <2>1. cause' \in [Calls -> Calls] /\ told' \in [Calls -> ErrorType]
    BY <1>1, <1>2, <1>3
  <2>2. ASSUME NEW j \in Calls, phase'[j] \notin Ended
        PROVE  cause'[j] = j /\ told'[j] = NoError
    <3>1. j # k
      BY <1>1, <1>5, <2>2
    <3> QED
      BY <1>4, <2>2, <3>1 DEF Accounts, Endings
  <2> QED
    BY <2>1, <2>2 DEF Endings
<1>8. AnswerMeetsItsCall'
  <2>1. \A j \in Calls : home(j)' = home(j) /\ idOf(j)' = idOf(j)
    BY DEF home, idOf
  <2>2. ASSUME NEW j \in Calls, cause'[j] # j
        PROVE  /\ home(j) = home(cause'[j])
               /\ \/ idOf(j) = idOf(cause'[j]) /\ j[2] = cause'[j][2]
                  \/ /\ phase'[j] \in {"responded", "lost"} /\ idOf(j) = 0 /\ j[2] = 0
                     /\ told'[j].failed /\ told'[j].code = 0 /\ served'[cause'[j]] > 0
                  \/ phase'[j] \in {"timedout", "dropped"} /\ idOf(j) = 0 /\ j[2] = cause'[j][2]
    <3>1. CASE j = k
      BY <1>2, <1>5, <3>1 DEF Finishes, MayEnd
    <3>2. CASE j # k
      BY <1>2, <1>4, <2>2, <3>2 DEF Accounts, AnswerMeetsItsCall
    <3> QED
      BY <3>1, <3>2
  <2> QED
    BY <2>2 DEF AnswerMeetsItsCall, home, idOf
<1>9. AnswerProvesExecution'
  <2>1. ASSUME NEW j \in Calls, phase'[j] = "responded" /\ (~told'[j].failed \/ told'[j].code # 0)
        PROVE  served'[cause'[j]] > 0
    <3>1. CASE j = k
      BY <1>2, <1>5, <2>1, <3>1 DEF Finishes, MayEnd
    <3>2. CASE j # k
      BY <1>2, <1>4, <2>1, <3>2 DEF Accounts, AnswerProvesExecution
    <3> QED
      BY <3>1, <3>2
  <2> QED
    BY <2>1 DEF AnswerProvesExecution
<1>10. StaysEnded
  BY <1>1, <1>4 DEF StaysEnded
<1>11. callbacks' \in [Calls -> Nat]
  BY <1>2, <1>3
<1> QED
  BY <1>6, <1>7, <1>8, <1>9, <1>10, <1>11 DEF Accounts

LEMMA StubIsCall ==
  ASSUME Tables, NEW c \in Clients, NEW s \in mStubHandleMap[c]
  PROVE  <<c, s>> \in Calls /\ phase[<<c, s>>] = "open" /\ Born(<<c, s>>)
<1>1. s \in Nat /\ s < mSequenceID[c] /\ mSequenceID[c] <= MaxCalls[c]
  BY DEF Tables
<1>2. s < MaxCalls[c]
  BY <1>1, CallsAreBounded DEF Tables
<1>3. <<c, s>> \in Calls
  BY <1>1, <1>2, IsCall
<1> QED
  BY <1>1, <1>3 DEF Tables, Born

LEMMA ForgetsNothing ==
  ASSUME Tables, NEW c \in Clients, NEW s, s \notin mStubHandleMap[c], Forget(c, s)
  PROVE  UNCHANGED tables
<1>1. s \notin mTimeoutHandleMap[c]
  BY DEF Tables
<1>2. mStubHandleMap[c] \ {s} = mStubHandleMap[c] /\ mTimeoutHandleMap[c] \ {s} = mTimeoutHandleMap[c]
  BY <1>1
<1>3. [mStubHandleMap EXCEPT ![c] = @ \ {s}] = mStubHandleMap
  BY <1>2 DEF Tables
<1>4. [mTimeoutHandleMap EXCEPT ![c] = @ \ {s}] = mTimeoutHandleMap
  BY <1>2 DEF Tables
<1> QED
  BY <1>3, <1>4 DEF Forget, tables

NoErrorYet == NoError \in ErrorType /\ NoError.code = 0
LEMMA NoErrorIs == NoErrorYet
  BY DEF NoErrorYet, NoError, ErrorType

\* A step either leaves all calls as they are or ends one of them.
Settles ==
  \/ UNCHANGED <<tables, history>>
  \/ \E k \in Calls, k2 \in Calls, how \in Ended, runs \in Nat, error \in ErrorType :
       Finishes(k, k2, how, runs, error)

LEMMA FinishSettles ==
  ASSUME NEW k, NEW k2, NEW how, NEW runs, NEW error, Finishes(k, k2, how, runs, error)
  PROVE  Settles
<1>1. k \in Calls /\ k2 \in Calls /\ how \in Ended /\ runs \in Nat /\ error \in ErrorType
  BY DEF Finishes, MayEnd
<1> QED
  BY <1>1 DEF Settles

LEMMA TimeoutSettles ==
  ASSUME Tables, NEW c \in Clients, NEW s, NEW k2 \in Calls, ProcessTimeout(c, s, k2),
         prog.home[c] = home(k2), s = k2[2], prog.idOf[c] = 0 \/ <<c, s>> = k2
  PROVE  Settles
<1> DEFINE k == <<c, s>>
<1>1. k[1] = c /\ k[2] = s /\ home(k) = prog.home[c] /\ idOf(k) = prog.idOf[c]
  BY DEF home, idOf
<1>2. Forget(k[1], k[2])
  BY <1>1 DEF ProcessTimeout
<1>3. idOf(k) = 0 \/ k = k2
  BY <1>1
<1>4. ASSUME s \in mStubHandleMap[c], NEW how \in {"timedout", "dropped"}
      PROVE  MayEnd(k, k2, how, NoError)
  <2>1. k \in Calls /\ phase[k] = "open"
    BY <1>4, StubIsCall
  <2>2. how \in Ended /\ how # "responded"
    BY <1>4 DEF Ended
  <2>3. NoError \in ErrorType
    BY NoErrorIs DEF NoErrorYet
  <2> HIDE DEF k
  <2>4. \/ idOf(k) = idOf(k2) /\ k[2] = k2[2]
        \/ how \in {"timedout", "dropped"} /\ idOf(k) = 0 /\ k[2] = k2[2]
    BY <1>1, <1>3, <1>4
  <2> QED
    BY <1>1, <2>1, <2>2, <2>3, <2>4 DEF MayEnd
<1>5. CASE s \in mTimeoutHandleMap[c]
  <2>1. s \in mStubHandleMap[c]
    BY <1>5 DEF Tables
  <2>2. End(k, k2, "timedout", 1, NoError)
    BY <1>5 DEF ProcessTimeout
  <2>3. Finishes(k, k2, "timedout", 1, NoError)
    BY <1>2, <1>4, <2>1, <2>2 DEF Finishes, Runs
  <2> QED
    BY <2>3, FinishSettles
<1>6. CASE s \notin mTimeoutHandleMap[c] /\ s \in mStubHandleMap[c]
  <2>1. End(k, k2, "dropped", 0, NoError)
    BY <1>6 DEF ProcessTimeout
  <2>2. Finishes(k, k2, "dropped", 0, NoError)
    BY <1>2, <1>4, <1>6, <2>1 DEF Finishes, Runs
  <2> QED
    BY <2>2, FinishSettles
<1>7. CASE s \notin mTimeoutHandleMap[c] /\ s \notin mStubHandleMap[c]
  <2>1. UNCHANGED history
    BY <1>7 DEF ProcessTimeout
  <2>2. UNCHANGED tables
    BY <1>1, <1>2, <1>7, ForgetsNothing
  <2> QED
    BY <2>1, <2>2 DEF Settles
<1> QED
  BY <1>5, <1>6, <1>7

LEMMA CheckTimeoutSettles ==
  ASSUME Session, NEW c \in Clients, CheckTimeout(c)
  PROVE  Settles
<1>1. PICK s \in mTimeoutHandleMap[c] : ProcessTimeout(c, s, <<c, s>>)
  BY DEF CheckTimeout
<1>2. Tables
  BY DEF Session
<1>3. <<c, s>> \in Calls
  BY <1>2, StubIsCall DEF Tables
<1> DEFINE k == <<c, s>>
<1>4. prog.home[c] = home(k) /\ s = k[2]
  BY DEF home
<1>5. ProcessTimeout(c, s, k)
  BY <1>1
<1> QED
  BY <1>2, <1>3, <1>4, <1>5, TimeoutSettles

LEMMA RegisteredIs ==
  ASSUME Session, NEW e \in Ends, NEW id \in ServiceIDs, clientAt[e][id] # Nobody
  PROVE  /\ clientAt[e][id] \in Clients
         /\ prog.home[clientAt[e][id]] = e /\ prog.idOf[clientAt[e][id]] = id
  BY DEF Session, Registry

LEMMA FireTimerSettles ==
  ASSUME Session, FireTimer
  PROVE  Settles
<1> DEFINE C(k) == clientAt[home(k)][TimeoutMeta(k[2]).service_id]
<1>1. PICK k \in armed :
        IF C(k) # Nobody
          THEN ProcessTimeout(C(k), response_info(TimeoutMeta(k[2])).sequence_id, k)
          ELSE UNCHANGED <<tables, history>>
  BY DEF FireTimer
<1>2. k \in Calls /\ home(k) \in Ends
  BY CallsHome DEF Session, Types
<1>3. C(k) = clientAt[home(k)][0] /\ response_info(TimeoutMeta(k[2])).sequence_id = k[2]
  BY TimeoutMetaIs
<1> DEFINE c == C(k)
<1> HIDE DEF C
<1>4. CASE c = Nobody
  BY <1>1, <1>4 DEF Settles
<1>5. CASE c # Nobody
  <2>1. c \in Clients /\ prog.home[c] = home(k) /\ prog.idOf[c] = 0
    BY <1>2, <1>3, <1>5, RegisteredIs, ServicesAreNumbered
  <2>2. ProcessTimeout(c, k[2], k)
    BY <1>1, <1>3, <1>5
  <2> HIDE DEF c
  <2> QED
    BY <1>2, <2>1, <2>2, TimeoutSettles DEF Session
<1> QED
  BY <1>4, <1>5

LEMMA HeadFits ==
  ASSUME Wires, NEW e \in Ends, wire[e] # <<>>
  PROVE  LET f == Head(wire[e]) IN Fits(e, f) /\ ParseMeta(f.fields) = f.meta
<1> DEFINE f == Head(wire[e])
<1>1. f \in Range(wire[e])
  BY RowTail DEF Wires, Row
<1>2. Fits(e, f)
  BY <1>1 DEF Wires
<1> HIDE DEF f
<1>3. ParseMeta(f.fields) = f.meta
  BY <1>2, ParsedIsWritten DEF Fits
<1> QED
  BY <1>2, <1>3 DEF f

LEMMA TakeResponseSettles ==
  ASSUME Session, NEW e \in Ends, NEW f, Fits(e, f), TakeResponse(e, f.meta, f.about)
  PROVE  Settles
<1> DEFINE m == f.meta
           k2 == f.about
           r == response_info(m)
           c == clientAt[e][m.service_id]
           s == r.sequence_id
           k == <<c, s>>
           runs == Visits(prog.in[e], "ok", Len(prog.in[e]) + 1)
<1>1. /\ k2 \in Calls /\ e = home(k2) /\ r.error_code \in Codes \cup {0}
      /\ ~r.failed \/ r.error_code # 0 => served[k2] > 0
      /\ \/ m.service_id = idOf(k2) /\ s = k2[2]
         \/ m.service_id = 0 /\ s = 0 /\ r.failed /\ r.error_code = 0 /\ served[k2] > 0
      /\ IsMeta(m)
  <2>1. m.type = RESPONSE /\ REQUEST # RESPONSE
    BY DEF TakeResponse, REQUEST, RESPONSE
  <2> QED
    BY <2>1 DEF Fits, Asks, Answers, Names
<1>2. m.service_id \in ServiceIDs
  BY <1>1, CallsHome, ServicesAreNumbered DEF Session, Types
<1>3. runs \in Nat /\ runs <= Repeats(prog.in[e])
  <2>1. prog.in[e] \in Seq(Kinds)
    BY ProgramIs DEF Session, Types
  <2> QED
    BY <2>1, VisitsBounded
<1>4. r.failed \in BOOLEAN
  BY <1>1 DEF IsMeta, IsResponse, response_info, Deref, NewResponse
<1>5. CASE c = Nobody
  BY <1>5 DEF TakeResponse, Settles
<1>6. CASE c # Nobody /\ ~Found(c, s)
  <2>1. c \in Clients
    BY <1>2, <1>6, RegisteredIs
  <2>2. /\ mTimeoutHandleMap' = [mTimeoutHandleMap EXCEPT ![c] = @ \ {s}]
        /\ UNCHANGED <<mSequenceID, mStubHandleMap, history>>
    BY <1>6 DEF TakeResponse
  <2>3. Tables /\ s \notin mStubHandleMap[c]
    BY <1>6 DEF Session, Found
  <2> HIDE DEF c, s
  <2>4. mStubHandleMap' = [mStubHandleMap EXCEPT ![c] = @ \ {s}]
    <3>1. mStubHandleMap[c] \ {s} = mStubHandleMap[c]
      BY <2>3
    <3> QED
      BY <2>2, <2>3, <3>1 DEF Tables
  <2>5. UNCHANGED tables
    BY <2>1, <2>2, <2>3, <2>4, ForgetsNothing DEF Forget
  <2> QED
    BY <2>2, <2>5 DEF Settles
<1>7. CASE c # Nobody /\ Found(c, s)
  <2>1. c \in Clients /\ prog.home[c] = e /\ prog.idOf[c] = m.service_id
    BY <1>2, <1>7, RegisteredIs
  <2>2. /\ Forget(c, s)
        /\ \/ runs > 0 /\ End(k, k2, "responded", runs, ErrorOf(m))
           \/ End(k, k2, "lost", 0, ErrorOf(m))
    BY <1>7 DEF TakeResponse
  <2>3. k[1] = c /\ k[2] = s /\ home(k) = e /\ idOf(k) = m.service_id
    BY <2>1 DEF home, idOf
  <2>4. k \in Calls /\ phase[k] = "open"
    BY <1>7, <2>1, StubIsCall DEF Session, Found
  <2>5. /\ ErrorOf(m) \in ErrorType /\ ErrorOf(m).failed = r.failed
        /\ ErrorOf(m).code = IF r.failed THEN r.error_code ELSE 0
    BY <1>1, <1>4 DEF ErrorOf, ErrorType
  <2> DEFINE error == ErrorOf(m)
  <2> HIDE DEF c, s, k, runs, m, k2, error
  <2>6. ASSUME NEW how \in {"responded", "lost"}
        PROVE  MayEnd(k, k2, how, error)
    <3>1. r.failed /\ r.error_code = 0 => error.failed /\ error.code = 0
      BY <2>5 DEF error
    <3>2. \/ idOf(k) = idOf(k2) /\ k[2] = k2[2]
          \/ idOf(k) = 0 /\ k[2] = 0 /\ error.failed /\ error.code = 0 /\ served[k2] > 0
      BY <1>1, <2>3, <3>1
    <3>3. ~error.failed \/ error.code # 0 => served[k2] > 0
      BY <1>1, <1>4, <2>5 DEF error
    <3>4. how \in Ended /\ error \in ErrorType
      BY <2>5 DEF Ended, error
    <3> QED
      BY <1>1, <2>3, <2>4, <3>2, <3>3, <3>4 DEF MayEnd
  <2>7. CASE runs > 0 /\ End(k, k2, "responded", runs, error)
    <3>1. runs \in Runs(k, "responded")
      BY <1>3, <2>3, <2>7, RepeatsAre DEF Runs
    <3>2. Finishes(k, k2, "responded", runs, error)
      BY <1>3, <2>2, <2>3, <2>6, <2>7, <3>1 DEF Finishes
    <3> QED
      BY <3>2, FinishSettles
  <2>8. CASE End(k, k2, "lost", 0, error)
    <3>1. Finishes(k, k2, "lost", 0, error)
      BY <2>2, <2>3, <2>6, <2>8 DEF Finishes, Runs
    <3> QED
      BY <3>1, FinishSettles
  <2> QED
    BY <2>2, <2>7, <2>8 DEF error
<1> QED
  BY <1>5, <1>6, <1>7

-----------------------------------------------------------------------------
(* The steps                                                               *)

Invariant == Session /\ AnswerMeetsItsCall /\ AnswerProvesExecution

LEMMA InvariantIs == Invariant <=> /\ Types /\ Accounts /\ Registry /\ Wires /\ HeldBack /\ InBudget
  BY DEF Invariant, Session, Accounts

LEMMA Settled ==
  ASSUME Invariant, prog' = prog, Settles
  PROVE  /\ Accounts' /\ StaysEnded /\ callbacks' \in [Calls -> Nat]
         /\ served' = served /\ mSequenceID' = mSequenceID /\ Onward
<1>1. Accounts /\ Types
  BY InvariantIs
<1>2. served' = served /\ mSequenceID' = mSequenceID
  BY DEF Settles, Finishes, Forget, End, tables, history
<1>3. Onward
  BY <1>2 DEF Onward, Born
<1>4. CASE UNCHANGED <<tables, history>>
  <2>1. UNCHANGED tables /\ UNCHANGED <<phase, cause, told, callbacks>>
    BY <1>4 DEF history
  <2> QED
    BY <1>1, <1>2, <1>3, <2>1, QuietAccounts DEF Types
<1>5. CASE \E k \in Calls, k2 \in Calls, how \in Ended, runs \in Nat, error \in ErrorType :
             Finishes(k, k2, how, runs, error)
  <2>1. PICK k \in Calls, k2 \in Calls, how \in Ended, runs \in Nat, error \in ErrorType :
          Finishes(k, k2, how, runs, error)
    BY <1>5
  <2> QED
    BY <1>1, <1>2, <1>3, <2>1, EndAccounts
<1> QED
  BY <1>4, <1>5 DEF Settles

\* Steps that touch no message.
LEMMA SameWire ==
  ASSUME Invariant, Onward, UNCHANGED <<wire, kept, served>>
  PROVE  Wires' /\ HeldBack' /\ InBudget'
<1>1. Types /\ Wires /\ HeldBack /\ InBudget
  BY InvariantIs
<1>2. \A e \in Ends : Row(wire'[e])
  BY <1>1 DEF Wires, Row
<1>3. Wires'
  <2>1. wire' = [e \in Ends |-> wire'[e]]
    BY <1>1 DEF Wires
  <2>2. \A e \in Ends : \A f \in Range(wire'[e]) : f \in Range(wire[e]) \/ Fits(e, f)'
    OBVIOUS
  <2> QED
    BY <1>1, <1>2, <2>1, <2>2, WiresKept
<1>4. HeldBack'
  BY <1>1, HeldBackKept
<1>5. InBudget'
  <2>1. ASSUME NEW e \in Ends, NEW k \in Calls
        PROVE  Asked(wire'[e], k) <= Asked(wire[e], k)
    <3>1. Asked(wire[e], k) \in Nat
      BY <1>1, AskedIsNat DEF Wires, Row
    <3> QED
      BY <3>1
  <2> QED
    BY <1>1, <1>2, <2>1, InBudgetKept DEF Types
<1> QED
  BY <1>3, <1>4, <1>5

LEMMA SameRegistry ==
  ASSUME Registry, prog' = prog, UNCHANGED objects
  PROVE  Registry'
  BY DEF Registry, objects

LEMMA TimeoutStep ==
  ASSUME Invariant, Settles, UNCHANGED <<prog, linked, objects, wire, kept>>, armed' \subseteq armed
  PROVE  Invariant' /\ StaysEnded
<1>1. Accounts' /\ StaysEnded /\ callbacks' \in [Calls -> Nat] /\ served' = served /\ Onward
  BY Settled
<1>2. Wires' /\ HeldBack' /\ InBudget'
  BY <1>1, SameWire
<1>3. Registry' /\ Types'
  BY <1>1, SameRegistry, InvariantIs DEF Types
<1> QED
  BY <1>1, <1>2, <1>3 DEF Invariant, Session, Accounts

LEMMA CheckTimeoutStep ==
  ASSUME Invariant, NEW c \in Clients, CheckTimeout(c)
  PROVE  Invariant' /\ StaysEnded
<1>1. Settles
  BY CheckTimeoutSettles DEF Invariant
<1>2. UNCHANGED <<prog, linked, objects, wire, kept>> /\ armed' \subseteq armed
  BY DEF CheckTimeout
<1> QED
  BY <1>1, <1>2, TimeoutStep

LEMMA FireTimerStep ==
  ASSUME Invariant, FireTimer
  PROVE  Invariant' /\ StaysEnded
<1>1. Settles
  BY FireTimerSettles DEF Invariant
<1>2. UNCHANGED <<prog, linked, objects, wire, kept>> /\ armed' \subseteq armed
  BY DEF FireTimer
<1> QED
  BY <1>1, <1>2, TimeoutStep

\* Steps that leave calls and messages alone.
LEMMA RegistryStep ==
  ASSUME Invariant, UNCHANGED <<prog, linked, tables, armed, wire, kept, history>>, Registry'
  PROVE  Invariant' /\ StaysEnded
<1>1. Onward
  BY DEF Onward, Born, tables, history
<1>2. Accounts' /\ StaysEnded
  BY <1>1, QuietAccounts, InvariantIs DEF history
<1>3. Wires' /\ HeldBack' /\ InBudget'
  BY <1>1, SameWire DEF history
<1>4. Types'
  BY InvariantIs DEF Types, history
<1> QED
  BY <1>2, <1>3, <1>4 DEF Invariant, Session, Accounts

LEMMA CreateStep ==
  ASSUME Invariant, NEW c \in Clients, Create(c)
  PROVE  Invariant' /\ StaysEnded
<1>1. Types /\ Registry
  BY InvariantIs
<1>2. prog' = prog /\ created' = created \cup {c} /\ clientAt' = Registered(prog.home[c], prog.idOf[c], c)
  BY DEF Create
<1>3. prog.home[c] \in Ends /\ prog.idOf[c] \in ServiceIDs
  BY <1>1, ProgramIs DEF Types
<1>4. Registry'
  <2>1. CASE clientAt' = clientAt
    BY <1>1, <1>2, <2>1 DEF Registry
  <2>2. CASE clientAt' = [clientAt EXCEPT ![prog.home[c]][prog.idOf[c]] = c]
    <3>1. \A e \in Ends, id \in ServiceIDs :
            clientAt'[e][id] = IF e = prog.home[c] /\ id = prog.idOf[c] THEN c ELSE clientAt[e][id]
      BY <1>1, <1>3, <2>2 DEF Registry
    <3>2. clientAt' \in [Ends -> [ServiceIDs -> Clients \cup {Nobody}]]
      BY <1>1, <1>3, <2>2 DEF Registry
    <3> QED
      BY <1>1, <1>2, <3>1, <3>2 DEF Registry
  <2> QED
    BY <1>2, <2>1, <2>2 DEF Registered
<1> QED
  BY <1>4, RegistryStep DEF Create

LEMMA UninstallStep ==
  ASSUME Invariant, NEW c \in Clients, Uninstall(c)
  PROVE  Invariant' /\ StaysEnded
<1>1. Types /\ Registry
  BY InvariantIs
<1>2. /\ prog' = prog /\ created' = created
      /\ clientAt' = [clientAt EXCEPT ![prog.home[c]][prog.idOf[c]] = Nobody]
  BY DEF Uninstall
<1>3. prog.home[c] \in Ends /\ prog.idOf[c] \in ServiceIDs
  BY <1>1, ProgramIs DEF Types
<1>4. Registry'
  <2>1. \A e \in Ends, id \in ServiceIDs :
          clientAt'[e][id] = IF e = prog.home[c] /\ id = prog.idOf[c] THEN Nobody ELSE clientAt[e][id]
    BY <1>1, <1>2, <1>3 DEF Registry
  <2>2. clientAt' \in [Ends -> [ServiceIDs -> Clients \cup {Nobody}]]
    BY <1>1, <1>2, <1>3 DEF Registry
  <2> QED
    BY <1>1, <1>2, <2>1, <2>2 DEF Registry
<1> QED
  BY <1>4, RegistryStep DEF Uninstall

LEMMA DisconnectStep ==
  ASSUME Invariant, Disconnect
  PROVE  Invariant' /\ StaysEnded
<1>1. Types /\ Accounts /\ Registry /\ Wires /\ HeldBack /\ InBudget
  BY InvariantIs
<1>2. /\ wire' = [e \in Ends |-> <<>>] /\ linked' = FALSE
      /\ UNCHANGED <<prog, created, tables, armed, kept, history>>
  BY DEF Disconnect
<1>3. Onward
  BY <1>2 DEF Onward, Born, tables, history
<1>4. Accounts' /\ StaysEnded
  BY <1>1, <1>2, <1>3, QuietAccounts DEF history
<1>5. Registry'
  <2>1. /\ clientAt' \in [Ends -> [ServiceIDs -> Clients \cup {Nobody}]]
        /\ \A e \in Ends, id \in ServiceIDs : clientAt'[e][id] \in {Nobody, clientAt[e][id]}
    BY <1>1 DEF Disconnect, Registry
  <2> QED
    BY <1>1, <1>2, <2>1 DEF Registry
<1>6. \A e \in Ends : wire'[e] = <<>>
  BY <1>2
<1>7. \A e \in Ends : Row(wire'[e]) /\ Range(wire'[e]) = {}
  BY <1>6, RowEmpty
<1>8. Wires'
  <2>1. wire' = [e \in Ends |-> wire'[e]]
    BY <1>2
  <2> QED
    BY <1>1, <1>3, <1>7, <2>1, WiresKept
<1>9. HeldBack'
  BY <1>1, <1>2, <1>3, HeldBackKept
<1>10. InBudget'
  <2>1. ASSUME NEW e \in Ends, NEW k \in Calls
        PROVE  Asked(wire'[e], k) <= Asked(wire[e], k)
    <3>1. Asked(wire[e], k) \in Nat
      BY <1>1, AskedIsNat DEF Wires, Row
    <3>2. Asked(wire'[e], k) = 0
      BY <1>7, AskedNone
    <3> QED
      BY <3>1, <3>2
  <2>2. served' = served
    BY <1>2 DEF history
  <2> QED
    BY <1>1, <1>3, <1>7, <2>1, <2>2, InBudgetKept DEF Types
<1>11. Types'
  BY <1>1, <1>2 DEF Types, history
<1> QED
  BY <1>4, <1>5, <1>8, <1>9, <1>10, <1>11 DEF Invariant, Session, Accounts

LEMMA RepliesAskNothing ==
  ASSUME NEW e, NEW k, NEW frames, Replies(e, k, frames), NEW j
  PROVE  Asked(frames, j) = 0
<1>1. \A f \in Range(frames) : f.meta.type # REQUEST
  BY DEF Replies, REQUEST, RESPONSE
<1> QED
  BY <1>1, AskedNone

\* End e writes frames behind what is under way to the other end.
LEMMA SentOn ==
  ASSUME Wires, NEW x \in Ends, NEW frames, wire' = [wire EXCEPT ![x] = @ \o frames],
         Row(frames)
  PROVE  /\ wire' = [e \in Ends |-> wire'[e]]
         /\ \A e \in Ends : Row(wire'[e])
         /\ \A e \in Ends : \A f \in Range(wire'[e]) :
              f \in Range(wire[e]) \/ (e = x /\ f \in Range(frames))
         /\ \A k : Asked(wire'[x], k) = Asked(wire[x], k) + Asked(frames, k)
         /\ \A e \in Ends : e # x => wire'[e] = wire[e]
<1>1. wire = [e \in Ends |-> wire[e]] /\ \A e \in Ends : Row(wire[e])
  BY DEF Wires, Row
<1>2. wire'[x] = wire[x] \o frames /\ \A e \in Ends : e # x => wire'[e] = wire[e]
  BY <1>1
<1>3. wire' = [e \in Ends |-> wire'[e]]
  BY <1>1
<1>4. /\ Row(wire[x] \o frames)
      /\ Range(wire[x] \o frames) \subseteq Range(wire[x]) \cup Range(frames)
  BY <1>1, RowConcat
<1>5. \A k : Asked(wire[x] \o frames, k) = Asked(wire[x], k) + Asked(frames, k)
  BY <1>1, AskedConcat
<1> QED
  BY <1>1, <1>2, <1>3, <1>4, <1>5

LEMMA AnswerKeptStep ==
  ASSUME Invariant, AnswerKept
  PROVE  Invariant' /\ StaysEnded
<1>1. Types /\ Accounts /\ Registry /\ Wires /\ HeldBack /\ InBudget
  BY InvariantIs
<1>2. PICK r \in kept, code \in {0} \cup Codes :
        /\ kept' = kept \ {r}
        /\ wire' = [wire EXCEPT ![Other(r.end)] =
             @ \o (IF Expects(r.meta) THEN Written(r.end, Answer(r.meta, code), r.about) ELSE <<>>)]
  BY DEF AnswerKept
<1>3. UNCHANGED <<prog, linked, objects, tables, armed, history>>
  BY DEF AnswerKept
<1>4. Onward
  BY <1>3 DEF Onward, Born, tables, history
<1> DEFINE k == r.about
           x == home(k)
           frames == IF Expects(r.meta) THEN Written(r.end, Answer(r.meta, code), r.about) ELSE <<>>
<1>5. /\ IsMeta(r.meta) /\ k \in Calls /\ Born(k) /\ r.end = Other(x) /\ served[k] > 0
      /\ Names(r.meta.service_id, request_info(r.meta).sequence_id, k)
  BY <1>1 DEF HeldBack, Held
<1>6. x \in Ends /\ r.end \in Ends /\ Other(r.end) = x
  BY <1>1, <1>5, CallsHome, EndsAre DEF Types
<1>7. Replies(r.end, k, frames)
  <2>1. CASE Expects(r.meta)
    BY <1>1, <1>5, <1>6, <2>1, AnswerReplies DEF Types
  <2>2. CASE ~Expects(r.meta)
    BY <2>2, NoReplies
  <2> QED
    BY <2>1, <2>2
<1>8. wire' = [wire EXCEPT ![x] = @ \o frames]
  BY <1>2, <1>6
<1> HIDE DEF frames, k
<1>9. served'[k] > 0
  BY <1>3, <1>5 DEF history
<1>10. ASSUME NEW e \in Ends, e = x, NEW f \in Range(frames)
       PROVE  Fits(e, f)'
  <2>1. Replies(Other(e), k, frames) /\ e = home(k)
    BY <1>5, <1>7, <1>10
  <2> QED
    BY <1>4, <1>5, <1>9, <1>10, <2>1, RepliesFit
<1>11. Row(frames)
  BY <1>7 DEF Replies
<1> HIDE DEF x
<1>12. /\ wire' = [e \in Ends |-> wire'[e]]
       /\ \A e \in Ends : Row(wire'[e])
       /\ \A e \in Ends : \A f \in Range(wire'[e]) :
            f \in Range(wire[e]) \/ (e = x /\ f \in Range(frames))
       /\ \A j : Asked(wire'[x], j) = Asked(wire[x], j) + Asked(frames, j)
       /\ \A e \in Ends : e # x => wire'[e] = wire[e]
  BY <1>1, <1>6, <1>8, <1>11, SentOn
<1>13. Wires'
  <2>1. ASSUME NEW e \in Ends, NEW f \in Range(wire'[e])
        PROVE  f \in Range(wire[e]) \/ Fits(e, f)'
    <3>1. CASE e = x /\ f \in Range(frames)
      BY <1>10, <3>1
    <3> QED
      BY <1>12, <3>1
  <2> QED
    BY <1>1, <1>4, <1>12, <2>1, WiresKept
<1>14. HeldBack'
  BY <1>1, <1>2, <1>4, HeldBackKept
<1>15. InBudget'
  <2>1. ASSUME NEW e \in Ends, NEW j \in Calls
        PROVE  Asked(wire'[e], j) <= Asked(wire[e], j)
    <3>1. Asked(wire[e], j) \in Nat
      BY <1>1, AskedIsNat DEF Wires, Row
    <3>2. Asked(frames, j) = 0
      BY <1>7, RepliesAskNothing
    <3> QED
      BY <1>12, <3>1, <3>2
  <2>2. served' = served
    BY <1>3 DEF history
  <2> QED
    BY <1>1, <1>4, <1>12, <2>1, <2>2, InBudgetKept DEF Types
<1>16. Accounts' /\ StaysEnded
  BY <1>1, <1>3, <1>4, QuietAccounts DEF history
<1>17. Registry' /\ Types'
  BY <1>1, <1>3, SameRegistry DEF Types, history
<1> QED
  BY <1>13, <1>14, <1>15, <1>16, <1>17 DEF Invariant, Session, Accounts

\* End e drops the head of what comes to it, and says frames to the other end.
LEMMA ReactedTo ==
  ASSUME Wires, NEW e \in Ends, wire[e] # <<>>, NEW frames, Row(frames), Reacted(e, frames)
  PROVE  /\ wire' = [x \in Ends |-> wire'[x]]
         /\ wire'[e] = Tail(wire[e])
         /\ \A x \in Ends : Row(wire'[x])
         /\ \A x \in Ends : \A f \in Range(wire'[x]) :
              f \in Range(wire[x]) \/ (x = Other(e) /\ f \in Range(frames))
         /\ \A k : Asked(wire'[Other(e)], k) = Asked(wire[Other(e)], k) + Asked(frames, k)
         /\ \A k : Asked(wire[e], k) = Asked(wire'[e], k) +
                     IF Head(wire[e]).about = k /\ Head(wire[e]).meta.type = REQUEST THEN 1 ELSE 0
         /\ \A x \in Ends : x = e \/ x = Other(e)
<1>1. wire = [x \in Ends |-> wire[x]] /\ \A x \in Ends : Row(wire[x])
  BY DEF Wires, Row
<1>2. Other(e) \in Ends /\ Other(e) # e /\ \A x \in Ends : x = e \/ x = Other(e)
  BY DEF Ends, Other
<1> DEFINE o == Other(e)
<1>3. wire' = [wire EXCEPT ![e] = Tail(wire[e]), ![o] = @ \o frames]
  BY DEF Reacted, Popped
<1> HIDE DEF o
<1>4. o \in Ends /\ o # e /\ \A x \in Ends : x = e \/ x = o
  BY <1>2 DEF o
<1>5. wire'[e] = Tail(wire[e]) /\ wire'[o] = wire[o] \o frames
  BY <1>1, <1>3, <1>4
<1>6. wire' = [x \in Ends |-> wire'[x]]
  BY <1>1, <1>3
<1>7. Row(Tail(wire[e])) /\ Range(Tail(wire[e])) \subseteq Range(wire[e])
  BY <1>1, RowTail
<1>8. /\ Row(wire[o] \o frames)
      /\ Range(wire[o] \o frames) \subseteq Range(wire[o]) \cup Range(frames)
  BY <1>1, <1>4, RowConcat
<1>9. \A k : Asked(wire[o] \o frames, k) = Asked(wire[o], k) + Asked(frames, k)
  BY <1>1, <1>4, AskedConcat
<1>10. \A k : Asked(wire[e], k) = Asked(Tail(wire[e]), k) +
                IF Head(wire[e]).about = k /\ Head(wire[e]).meta.type = REQUEST THEN 1 ELSE 0
  BY <1>1, AskedTail
<1>11. \A x \in Ends : Row(wire'[x])
  BY <1>4, <1>5, <1>7, <1>8
<1>12. \A x \in Ends : \A f \in Range(wire'[x]) :
         f \in Range(wire[x]) \/ (x = o /\ f \in Range(frames))
  BY <1>4, <1>5, <1>7, <1>8
<1>13. /\ \A k : Asked(wire'[o], k) = Asked(wire[o], k) + Asked(frames, k)
       /\ \A k : Asked(wire[e], k) = Asked(wire'[e], k) +
                   IF Head(wire[e]).about = k /\ Head(wire[e]).meta.type = REQUEST THEN 1 ELSE 0
  BY <1>5, <1>9, <1>10
<1> QED
  BY <1>4, <1>5, <1>6, <1>11, <1>12, <1>13 DEF o

\* The same when the frames answer the head.
LEMMA AnsweredTo ==
  ASSUME Invariant, Onward, NEW e \in Ends, wire[e] # <<>>, NEW frames, Reacted(e, frames),
         NEW k, k = Head(wire[e]).about, Replies(e, k, frames),
         Claims(frames) => served'[k] > 0,
         frames = <<>> \/ Head(wire[e]).meta.type = REQUEST
  PROVE  /\ Wires' /\ \A x \in Ends : Row(wire'[x])
         /\ \A x \in Ends, j \in Calls : Asked(wire'[x], j) <= Asked(wire[x], j)
         /\ Head(wire[e]).meta.type = REQUEST => Asked(wire'[e], k) + 1 <= Asked(wire[e], k)
<1>1. Types /\ Wires
  BY InvariantIs
<1> DEFINE f == Head(wire[e])
<1>2. Fits(e, f)
  BY <1>1, HeadFits
<1>3. /\ wire' = [x \in Ends |-> wire'[x]]
      /\ wire'[e] = Tail(wire[e])
      /\ \A x \in Ends : Row(wire'[x])
      /\ \A x \in Ends : \A g \in Range(wire'[x]) :
           g \in Range(wire[x]) \/ (x = Other(e) /\ g \in Range(frames))
      /\ \A j : Asked(wire'[Other(e)], j) = Asked(wire[Other(e)], j) + Asked(frames, j)
      /\ \A j : Asked(wire[e], j) = Asked(wire'[e], j) +
                  IF f.about = j /\ f.meta.type = REQUEST THEN 1 ELSE 0
      /\ \A x \in Ends : x = e \/ x = Other(e)
  BY <1>1, ReactedTo DEF Replies
<1>4. k = f.about
  OBVIOUS
<1> HIDE DEF f
<1>5. k \in Calls /\ Born(k)
  BY <1>2, <1>4 DEF Fits
<1>6. ASSUME NEW g \in Range(frames), NEW x \in Ends, x = Other(e)
      PROVE  Fits(x, g)'
  <2>1. frames # <<>>
    BY <1>6, RowEmpty
  <2>2. Asks(e, f)
    BY <1>2, <2>1 DEF Fits, Answers, f, REQUEST, RESPONSE
  <2>3. home(k) \in Ends /\ e = Other(home(k))
    BY <1>1, <1>4, <1>5, <2>2, CallsHome DEF Asks, Types
  <2>4. x = home(k) /\ Other(x) = e
    BY <1>6, <2>3, EndsAre
  <2> QED
    BY <1>5, <1>6, <2>4, RepliesFit
<1>7. Wires'
  <2>1. ASSUME NEW x \in Ends, NEW g \in Range(wire'[x])
        PROVE  g \in Range(wire[x]) \/ Fits(x, g)'
    <3>1. CASE x = Other(e) /\ g \in Range(frames)
      BY <1>6, <3>1
    <3> QED
      BY <1>3, <3>1
  <2> QED
    BY <1>1, <1>3, <2>1, WiresKept
<1>8. \A j : Asked(frames, j) = 0
  BY RepliesAskNothing
<1>9. \A x \in Ends : \A j : Asked(wire[x], j) \in Nat /\ Asked(wire'[x], j) \in Nat
  BY <1>1, <1>3, AskedIsNat DEF Wires, Row
<1>10. ASSUME NEW x \in Ends, NEW j \in Calls
       PROVE  Asked(wire'[x], j) <= Asked(wire[x], j)
  <2> DEFINE a == Asked(wire'[x], j)
             b == Asked(wire[x], j)
  <2>1. a \in Nat /\ b \in Nat
    BY <1>9
  <2>2. CASE x = Other(e)
    <3>1. b \in Nat /\ a = b + 0
      BY <1>3, <1>8, <2>1, <2>2
    <3> HIDE DEF a, b
    <3>2. a <= b
      BY <3>1
    <3> QED
      BY <3>2 DEF a, b
  <2>3. CASE x = e
    <3>1. b = a + 1 \/ b = a + 0
      BY <1>3, <2>3
    <3> HIDE DEF a, b
    <3>2. a <= b
      BY <2>1, <3>1
    <3> QED
      BY <3>2 DEF a, b
  <2> QED
    BY <1>3, <2>2, <2>3
<1>11. ASSUME f.meta.type = REQUEST
       PROVE  Asked(wire'[e], k) + 1 <= Asked(wire[e], k)
  <2> DEFINE a == Asked(wire'[e], k)
             b == Asked(wire[e], k)
  <2>1. a \in Nat /\ b \in Nat
    BY <1>9
  <2>2. b = a + 1
    BY <1>3, <1>4, <1>11
  <2> HIDE DEF a, b
  <2>3. a + 1 <= b
    BY <2>1, <2>2
  <2> QED
    BY <2>3 DEF a, b
<1> QED
  BY <1>3, <1>7, <1>10, <1>11 DEF f

\* A service method runs for the request that is taken off the wire.
LEMMA InBudgetServed ==
  ASSUME InBudget, Onward, Types, Wires, NEW k \in Calls, Born(k), NEW runs \in Nat,
         NEW e \in Ends, e = Other(home(k)), runs <= Repeats(prog.in[e]),
         served' = [served EXCEPT ![k] = @ + runs],
         \A x \in Ends : Row(wire'[x]),
         \A x \in Ends, j \in Calls : Asked(wire'[x], j) <= Asked(wire[x], j),
         Asked(wire'[e], k) + 1 <= Asked(wire[e], k)
  PROVE  InBudget'
<1>1. served \in [Calls -> Nat] /\ served' \in [Calls -> Nat]
  BY DEF InBudget
<1>2. ASSUME NEW j \in Calls
      PROVE  Budget(j)' /\ (~Born(j)' => served'[j] = 0)
  <2> DEFINE o == Other(home(j))
             R == Repeats(prog.in[o])
             T == Times(prog.out[home(j)], "send")
             x == Asked(wire[o], j)
             y == Asked(wire'[o], j)
  <2>1. home(j) \in Ends /\ o \in Ends
    BY CallsHome DEF Types
  <2>2. x \in Nat /\ y \in Nat /\ y <= x
    BY <2>1, AskedIsNat DEF Wires, Row
  <2>3. R \in {1, 2}
    BY RepeatsAre
  <2>4. T \in Nat
    BY <2>1, ProgramIs, TimesIsNat DEF Types
  <2>5. served[j] \in Nat /\ (~Born(j) => served[j] = 0)
    BY DEF InBudget
  <2>6. served[j] + x * R <= T * R
    BY DEF InBudget, Budget
  <2>7. IF j = k THEN served'[j] = served[j] + runs /\ runs <= R /\ y + 1 <= x
                 ELSE served'[j] = served[j]
    BY <1>1
  <2>8. home(j)' = home(j) /\ prog' = prog
    BY DEF home, Onward
  <2>9. served'[j] + y * R <= T * R
    <3> HIDE DEF x, y, R, T
    <3>1. CASE R = 1
      BY <2>2, <2>4, <2>5, <2>6, <2>7, <3>1
    <3>2. CASE R = 2
      BY <2>2, <2>4, <2>5, <2>6, <2>7, <3>2
    <3> QED
      BY <2>3, <3>1, <3>2
  <2>10. Budget(j)'
    BY <2>8, <2>9 DEF Budget
  <2>11. ~Born(j)' => served'[j] = 0
    <3>1. CASE j = k
      BY <3>1 DEF Onward
    <3>2. CASE j # k
      BY <2>5, <2>7, <3>2 DEF Onward
    <3> QED
      BY <3>1, <3>2
  <2> QED
    BY <2>10, <2>11
<1> QED
  BY <1>1, <1>2 DEF InBudget

ReplyObject(e, m, k, n) == [end |-> e, meta |-> m, about |-> k, run |-> n]

LEMMA RequestStep ==
  ASSUME Invariant, NEW e \in Ends, wire[e] # <<>>, NEW f, f = Head(wire[e]),
         f.meta.type = REQUEST, NEW frames, Reacted(e, frames), Replies(e, f.about, frames),
         Claims(frames) => served'[f.about] > 0,
         NEW runs \in Nat, runs <= Repeats(prog.in[e]),
         served' = [served EXCEPT ![f.about] = @ + runs],
         \/ kept' = kept
         \/ \E i : kept' = kept \cup {ReplyObject(e, f.meta, f.about, i)} /\ served'[f.about] > 0,
         UNCHANGED <<prog, linked, objects, armed, tables, phase, cause, told, callbacks>>
  PROVE  Invariant' /\ StaysEnded
<1>1. Types /\ Accounts /\ Registry /\ Wires /\ HeldBack /\ InBudget
  BY InvariantIs
<1> DEFINE k == f.about
<1>2. Fits(e, f) /\ k \in Calls /\ Born(k)
  BY <1>1, HeadFits DEF Fits
<1>3. Asks(e, f)
  BY <1>2 DEF Fits, Answers, REQUEST, RESPONSE
<1>4. served \in [Calls -> Nat]
  BY <1>1 DEF InBudget
<1>5. \A j \in Calls : served[j] > 0 => served'[j] > 0
  BY <1>2, <1>4
<1>6. Onward
  BY <1>5 DEF Onward, Born, tables
<1>7. k = Head(wire[e]).about /\ Head(wire[e]).meta.type = REQUEST
  OBVIOUS
<1> HIDE DEF k
<1>8. Replies(e, k, frames) /\ (Claims(frames) => served'[k] > 0)
  BY DEF k
<1>9. /\ Wires' /\ \A x \in Ends : Row(wire'[x])
      /\ \A x \in Ends, j \in Calls : Asked(wire'[x], j) <= Asked(wire[x], j)
      /\ Asked(wire'[e], k) + 1 <= Asked(wire[e], k)
  BY <1>6, <1>7, <1>8, AnsweredTo
<1>10. e = Other(home(k))
  BY <1>3 DEF Asks, k
<1>11. InBudget'
  <2>1. served' = [served EXCEPT ![k] = @ + runs]
    BY DEF k
  <2> QED
    BY <1>1, <1>2, <1>6, <1>9, <1>10, <2>1, InBudgetServed
<1>12. HeldBack'
  <2>1. ASSUME served'[k] > 0, NEW i
        PROVE  Held(ReplyObject(e, f.meta, k, i))'
    <3> DEFINE n == ReplyObject(e, f.meta, k, i)
    <3>1. n.end = e /\ n.meta = f.meta /\ n.about = k
      BY DEF ReplyObject
    <3> HIDE DEF n
    <3>2. home(k)' = home(k) /\ idOf(k)' = idOf(k) /\ Born(k)'
      BY <1>2, <1>6 DEF Onward, home, idOf
    <3>3. Names(f.meta.service_id, request_info(f.meta).sequence_id, k)
      BY <1>3 DEF Asks, k
    <3>4. Names(f.meta.service_id, request_info(f.meta).sequence_id, k)'
      BY <3>2, <3>3 DEF Names
    <3>5. IsMeta(f.meta)
      BY <1>2 DEF Fits
    <3>6. Held(n)'
      BY <1>2, <1>10, <2>1, <3>1, <3>2, <3>4, <3>5 DEF Held
    <3> QED
      BY <3>6 DEF n
  <2>2. \A r \in kept' : r \in kept \/ \E i : r = ReplyObject(e, f.meta, k, i) /\ served'[k] > 0
    BY DEF k
  <2>3. \A r \in kept' : r \in kept \/ Held(r)'
    BY <2>1, <2>2
  <2> QED
    BY <1>1, <1>6, <2>3, HeldBackKept
<1>13. Accounts' /\ StaysEnded
  BY <1>1, <1>6, QuietAccounts
<1>14. Registry' /\ Types'
  BY <1>1, SameRegistry DEF Types
<1> QED
  BY <1>9, <1>11, <1>12, <1>13, <1>14 DEF Invariant, Session, Accounts

LEMMA TakeRequestStep ==
  ASSUME Invariant, NEW e \in Ends, wire[e] # <<>>, NEW f, f = Head(wire[e]),
         TakeRequest(e, f.meta, f.about), UNCHANGED <<prog, linked, objects, armed>>
  PROVE  Invariant' /\ StaysEnded
<1> DEFINE m == f.meta
           k == f.about
<1>1. Types /\ Wires /\ served \in [Calls -> Nat]
  BY InvariantIs DEF InBudget
<1>2. Fits(e, f) /\ f.meta.type = REQUEST
  BY <1>1, HeadFits DEF TakeRequest
<1>3. /\ IsMeta(m) /\ k \in Calls
      /\ Names(m.service_id, request_info(m).sequence_id, k)
  BY <1>2 DEF Fits, Asks, Answers, REQUEST, RESPONSE
<1>4. m.service_id \in Nat /\ request_info(m).sequence_id \in Nat
  BY <1>3 DEF IsMeta, IsRequest, request_info, Deref, NewRequest
<1>5. UNCHANGED <<prog, linked, objects, armed, tables, phase, cause, told, callbacks>>
  BY DEF TakeRequest
<1> DEFINE none == 0
<1>6. none \in Nat /\ none <= Repeats(prog.in[e])
  BY RepeatsAre
<1>a. UNCHANGED served => served' = [served EXCEPT ![f.about] = @ + none]
  BY <1>1
<1> HIDE DEF none
<1>7. CASE DropRequest(e, m)
  <2>1. Reacted(e, <<>>) /\ UNCHANGED <<kept, served>>
    BY <1>7 DEF DropRequest
  <2>2. Replies(e, f.about, <<>>) /\ ~Claims(<<>>)
    BY NoReplies
  <2> QED
    BY <1>2, <1>5, <1>6, <1>a, <2>1, <2>2, RequestStep
<1>8. CASE UnknownMethod(e, m, k)
  <2> DEFINE x == "method"
             w == Written(e, ErrorMeta(m.service_id, request_info(m).sequence_id, 0, Reasons[x]), k)
  <2>1. x \in DOMAIN Reasons /\ Reasons.method = Reasons[x]
    BY DEF Reasons
  <2> HIDE DEF x
  <2>2. Reacted(e, w) /\ UNCHANGED <<kept, served>>
    BY <1>8, <2>1 DEF UnknownMethod
  <2>3. Replies(e, k, w) /\ ~Claims(w)
    BY <1>1, <1>3, <1>4, <2>1, ErrorReplies DEF Types
  <2> HIDE DEF w
  <2> QED
    BY <1>2, <1>5, <1>6, <1>a, <2>2, <2>3, RequestStep
<1>9. ASSUME NEW b \in prog.does, NEW code \in CodesOf(b), Serve(e, m, k, b, code)
      PROVE  Invariant' /\ StaysEnded
  <2> DEFINE answers == b \in {"reply", "fail", "reply and throw"} /\ Expects(m)
             handler == IF b \in {"throw", "reply and throw"} \/ (answers /\ OutboundThrows(e))
                          THEN "throw" ELSE "ok"
             path    == Run(prog.in[e], handler)
             runs    == Visits(prog.in[e], handler, Len(prog.in[e]) + 1)
             left    == IF runs > 0 THEN Moved(m).left ELSE m
             x       == "chain"
             reply   == IF runs > 0 /\ answers THEN Written(e, Answer(m, code), k) ELSE <<>>
             error   == IF path.outcome = "err"
               THEN Written(e, ErrorMeta(left.service_id, request_info(left).sequence_id, 0, Reasons[x]), k)
               ELSE <<>>
  <2>1. x \in DOMAIN Reasons /\ Reasons.chain = Reasons[x]
    BY DEF Reasons
  <2> HIDE DEF x
  <2>2. /\ Reacted(e, reply \o error)
        /\ served' = [served EXCEPT ![k] = @ + runs]
        /\ kept' = IF runs > 0 /\ b = "hold"
                   THEN kept \cup {[end |-> e, meta |-> m, about |-> k, run |-> served[k] + 1]}
                   ELSE kept
    BY <1>9, <2>1 DEF Serve
  <2>3. runs \in Nat /\ runs <= Repeats(prog.in[e])
    <3>1. prog.in[e] \in Seq(Kinds)
      BY <1>1, ProgramIs DEF Types
    <3> HIDE DEF handler
    <3> QED
      BY <3>1, VisitsBounded
  <2>4. code \in Codes \cup {0}
    BY <1>9 DEF CodesOf
  <2>5. /\ left.service_id \in Nat /\ request_info(left).sequence_id \in Nat
        /\ \/ Names(left.service_id, request_info(left).sequence_id, k)
           \/ runs > 0 /\ left.service_id = 0 /\ request_info(left).sequence_id = 0
    <3> HIDE DEF runs, m
    <3>1. CASE runs > 0
      <4>1. left = NewMeta
        BY <3>1 DEF Moved
      <4> QED
        BY <3>1, <4>1, NewMetaIs
    <3>2. CASE ~(runs > 0)
      BY <1>3, <1>4, <3>2
    <3> QED
      BY <3>1, <3>2
  <2> HIDE DEF answers, path, runs, left
  <2>6. Replies(e, k, reply) /\ (Claims(reply) => runs > 0)
    <3>1. CASE runs > 0 /\ answers
      BY <1>1, <1>3, <2>4, <3>1, AnswerReplies DEF Types
    <3>2. CASE ~(runs > 0 /\ answers)
      BY <3>2, NoReplies
    <3> QED
      BY <3>1, <3>2
  <2>7. Replies(e, k, error) /\ (Claims(error) => runs > 0)
    <3>1. CASE path.outcome = "err"
      BY <1>1, <2>1, <2>5, <3>1, ErrorReplies DEF Types
    <3>2. CASE path.outcome # "err"
      BY <3>2, NoReplies
    <3> QED
      BY <3>1, <3>2
  <2> HIDE DEF reply, error
  <2> DEFINE w == reply \o error
  <2>8. Replies(e, k, w) /\ (Claims(w) => runs > 0)
    BY <2>6, <2>7, RepliesTogether
  <2> HIDE DEF w
  <2>9. served'[k] = served[k] + runs /\ served[k] \in Nat
    BY <1>1, <1>3, <2>2
  <2>10. runs > 0 => served'[k] > 0
    BY <2>3, <2>9
  <2>11. \/ kept' = kept
         \/ \E i : kept' = kept \cup {ReplyObject(e, f.meta, f.about, i)} /\ served'[f.about] > 0
    <3>1. kept' = kept \/ (kept' = kept \cup {ReplyObject(e, m, k, served[k] + 1)} /\ runs > 0)
      BY <2>2 DEF ReplyObject
    <3> QED
      BY <2>10, <3>1
  <2>12. Reacted(e, w)
    BY <2>2 DEF w
  <2> QED
    BY <1>2, <1>5, <2>2, <2>3, <2>8, <2>10, <2>11, <2>12, RequestStep
<1> QED
  BY <1>7, <1>8, <1>9 DEF TakeRequest

LEMMA TakeResponseStep ==
  ASSUME Invariant, NEW e \in Ends, wire[e] # <<>>, NEW f, f = Head(wire[e]),
         TakeResponse(e, f.meta, f.about), UNCHANGED <<prog, linked, objects, armed>>
  PROVE  Invariant' /\ StaysEnded
<1>1. Types /\ Registry /\ Wires /\ HeldBack /\ InBudget /\ Session
  BY InvariantIs DEF Invariant
<1>2. Fits(e, f)
  BY <1>1, HeadFits
<1>3. Settles
  BY <1>1, <1>2, TakeResponseSettles
<1>4. Accounts' /\ StaysEnded /\ callbacks' \in [Calls -> Nat] /\ served' = served /\ Onward
  BY <1>3, Settled
<1>5. Reacted(e, <<>>) /\ kept' = kept
  BY DEF TakeResponse
<1>6. Replies(e, f.about, <<>>) /\ ~Claims(<<>>)
  BY NoReplies
<1>7. /\ Wires' /\ \A x \in Ends : Row(wire'[x])
      /\ \A x \in Ends, j \in Calls : Asked(wire'[x], j) <= Asked(wire[x], j)
  BY <1>4, <1>5, <1>6, AnsweredTo
<1>8. HeldBack'
  BY <1>1, <1>4, <1>5, HeldBackKept
<1>9. InBudget'
  BY <1>1, <1>4, <1>7, InBudgetKept DEF Types
<1>10. Registry' /\ Types'
  BY <1>1, <1>4, SameRegistry DEF Types
<1> QED
  BY <1>4, <1>7, <1>8, <1>9, <1>10 DEF Invariant, Session, Accounts

LEMMA ReceiveStep ==
  ASSUME Invariant, NEW e \in Ends, Receive(e)
  PROVE  Invariant' /\ StaysEnded
<1> DEFINE f == Head(wire[e])
<1>1. wire[e] # <<>> /\ UNCHANGED <<prog, linked, objects, armed>>
  BY DEF Receive
<1>2. ParseMeta(f.fields) = f.meta
  BY <1>1, HeadFits, InvariantIs
<1>3. TakeRequest(e, f.meta, f.about) \/ TakeResponse(e, f.meta, f.about)
  BY <1>2 DEF Receive
<1> QED
  BY <1>1, <1>3, TakeRequestStep, TakeResponseStep

\* A call that is made: its number is new, and open if it awaits a response.
LEMMA CallAccounts ==
  ASSUME Accounts, Onward, NEW c \in Clients, NEW s, s = mSequenceID[c], s < MaxCalls[c],
         NEW oneway \in BOOLEAN, NEW timed \in BOOLEAN, ~(oneway /\ timed),
         mSequenceID' = [mSequenceID EXCEPT ![c] = s + 1],
         mStubHandleMap' = [mStubHandleMap EXCEPT ![c] = IF oneway THEN @ ELSE @ \cup {s}],
         mTimeoutHandleMap' = [mTimeoutHandleMap EXCEPT ![c] = IF timed THEN @ \cup {s} ELSE @],
         phase' = [phase EXCEPT ![<<c, s>>] = IF oneway THEN "oneway" ELSE "open"],
         UNCHANGED <<cause, told, callbacks>>
  PROVE  Accounts' /\ StaysEnded
<1> DEFINE k == <<c, s>>
<1>1. Tables /\ s \in Nat /\ MaxCalls[c] \in Nat
  BY CallsAreBounded DEF Accounts, Tables
<1>2. k \in Calls /\ k[1] = c /\ k[2] = s
  BY <1>1, IsCall
<1>3. phase[k] = "unborn"
  BY <1>1, <1>2 DEF Tables, Born
<1> HIDE DEF k
<1>4. /\ \A j \in Calls : j # k => phase'[j] = phase[j]
      /\ phase'[k] = IF oneway THEN "oneway" ELSE "open"
      /\ phase' \in [Calls -> Phases]
  BY <1>1, <1>2 DEF Tables, Phases, k
<1>5. Tables'
  <2>1. /\ mSequenceID' \in [Clients -> Nat] /\ mStubHandleMap' \in [Clients -> SUBSET Nat]
        /\ mTimeoutHandleMap' \in [Clients -> SUBSET Nat]
    <3>1. s + 1 \in Nat /\ mStubHandleMap[c] \cup {s} \in SUBSET Nat
          /\ mTimeoutHandleMap[c] \cup {s} \in SUBSET Nat
      BY <1>1 DEF Tables
    <3> QED
      BY <1>1, <3>1 DEF Tables
  <2>2. \A d \in Clients : /\ mSequenceID'[d] <= MaxCalls[d]
                           /\ mStubHandleMap'[d] \subseteq 0..(mSequenceID'[d] - 1)
                           /\ mTimeoutHandleMap'[d] \subseteq mStubHandleMap'[d]
    <3> SUFFICES ASSUME NEW d \in Clients
                 PROVE  /\ mSequenceID'[d] <= MaxCalls[d]
                        /\ mStubHandleMap'[d] \subseteq 0..(mSequenceID'[d] - 1)
                        /\ mTimeoutHandleMap'[d] \subseteq mStubHandleMap'[d]
      OBVIOUS
    <3>1. CASE d = c
      <4>1. mSequenceID'[c] = s + 1 /\ s + 1 <= MaxCalls[c]
        BY <1>1 DEF Tables
      <4>2. mStubHandleMap'[c] = IF oneway THEN mStubHandleMap[c] ELSE mStubHandleMap[c] \cup {s}
        BY <1>1 DEF Tables
      <4>3. mTimeoutHandleMap'[c] = IF timed THEN mTimeoutHandleMap[c] \cup {s} ELSE mTimeoutHandleMap[c]
        BY <1>1 DEF Tables
      <4>4. mStubHandleMap[c] \subseteq 0..(s - 1) /\ mTimeoutHandleMap[c] \subseteq mStubHandleMap[c]
        BY <1>1 DEF Tables
      <4>5. mStubHandleMap'[c] \subseteq 0..s
        BY <1>1, <4>2, <4>4
      <4>6. mTimeoutHandleMap'[c] \subseteq mStubHandleMap'[c]
        BY <4>2, <4>3, <4>4
      <4>7. (s + 1) - 1 = s
        BY <1>1
      <4> QED
        BY <3>1, <4>1, <4>5, <4>6, <4>7
    <3>2. CASE d # c
      <4>1. /\ mSequenceID'[d] = mSequenceID[d] /\ mStubHandleMap'[d] = mStubHandleMap[d]
            /\ mTimeoutHandleMap'[d] = mTimeoutHandleMap[d]
        BY <1>1, <3>2 DEF Tables
      <4> QED
        BY <1>1, <4>1 DEF Tables
    <3> QED
      BY <3>1, <3>2
  <2>3. ASSUME NEW j \in Calls
        PROVE  /\ phase'[j] = "unborn" <=> ~Born(j)'
               /\ phase'[j] = "open" <=> j[2] \in mStubHandleMap'[j[1]]
    <3>1. j = <<j[1], j[2]>> /\ j[1] \in Clients /\ j[2] \in Nat
      BY CallIs
    <3>2. CASE j = k
      <4>1. mSequenceID'[c] = s + 1
        BY <1>1 DEF Tables
      <4>2. Born(j)'
        BY <1>1, <1>2, <3>2, <4>1 DEF Born
      <4>3. s \in mStubHandleMap'[c] <=> ~oneway
        <5>1. s \notin mStubHandleMap[c]
          BY <1>1 DEF Tables
        <5> QED
          BY <1>1, <5>1 DEF Tables
      <4> QED
        BY <1>2, <1>4, <3>2, <4>2, <4>3
    <3>3. CASE j # k
      <4>1. j[1] # c \/ j[2] # s
        BY <3>1, <3>3 DEF k
      <4>2. Born(j)' <=> Born(j)
        <5>1. CASE j[1] = c
          <6>1. mSequenceID'[j[1]] = s + 1 /\ mSequenceID[j[1]] = s
            BY <1>1, <5>1 DEF Tables
          <6> QED
            BY <1>1, <3>1, <4>1, <5>1, <6>1 DEF Born
        <5>2. CASE j[1] # c
          BY <1>1, <3>1, <5>2 DEF Born, Tables
        <5> QED
          BY <5>1, <5>2
      <4>3. j[2] \in mStubHandleMap'[j[1]] <=> j[2] \in mStubHandleMap[j[1]]
        BY <1>1, <3>1, <4>1 DEF Tables
      <4> QED
        BY <1>1, <1>4, <3>3, <4>2, <4>3 DEF Tables
    <3> QED
      BY <3>2, <3>3
  <2> QED
    BY <1>4, <2>1, <2>2, <2>3 DEF Tables
<1>6. ASSUME NEW j \in Calls
      PROVE  /\ phase'[j] \in Ended <=> phase[j] \in Ended
             /\ phase[j] \in Ended => phase'[j] = phase[j]
             /\ phase[j] \notin Ended => cause[j] = j
             /\ phase'[j] = "responded" => phase[j] = "responded"
  BY <1>3, <1>4 DEF Ended, Accounts, Endings
<1>7. Endings'
  BY <1>6 DEF Endings, Accounts
<1>8. AnswerMeetsItsCall'
  <2>1. ASSUME NEW j \in Calls, cause[j] # j
        PROVE  phase'[j] = phase[j]
    BY <1>6, <2>1
  <2>2. \A j \in Calls : cause[j] \in Calls
    BY DEF Accounts, Endings
  <2> QED
    BY <2>1, <2>2 DEF Accounts, AnswerMeetsItsCall, home, idOf, Onward
<1>9. AnswerProvesExecution'
  <2>1. \A j \in Calls : cause[j] \in Calls
    BY DEF Accounts, Endings
  <2> QED
    BY <1>6, <2>1 DEF Accounts, AnswerProvesExecution, Onward
<1>10. StaysEnded
  BY <1>6 DEF StaysEnded
<1> QED
  BY <1>5, <1>7, <1>8, <1>9, <1>10 DEF Accounts

LEMMA CallStep ==
  ASSUME Invariant, NEW c \in Clients, NEW kind \in CallKinds, NEW method \in Methods,
         Call(c, kind, method)
  PROVE  Invariant' /\ StaysEnded
<1>1. Types /\ Accounts /\ Registry /\ Wires /\ HeldBack /\ InBudget /\ Tables
  BY InvariantIs DEF Accounts
<1>0. PICK s : s = mSequenceID[c]
  OBVIOUS
<1> DEFINE k == <<c, s>>
           e == prog.home[c]
           o == Other(e)
           timed == kind = "timed"
           oneway == kind = "oneway"
           t == IF timed THEN 1 ELSE 0
           m == RequestMeta(s, prog.idOf[c], method, kind # "oneway", t)
           w == Written(e, m, k)
<1>2. /\ s < MaxCalls[c]
      /\ mSequenceID' = [mSequenceID EXCEPT ![c] = s + 1]
      /\ mStubHandleMap' = [mStubHandleMap EXCEPT ![c] = IF oneway THEN @ ELSE @ \cup {s}]
      /\ mTimeoutHandleMap' = [mTimeoutHandleMap EXCEPT ![c] = IF timed THEN @ \cup {s} ELSE @]
      /\ phase' = [phase EXCEPT ![k] = IF oneway THEN "oneway" ELSE "open"]
      /\ armed' \subseteq armed \cup {k}
      /\ wire' = [wire EXCEPT ![o] = @ \o w]
      /\ UNCHANGED <<prog, linked, objects, kept, cause, told, callbacks, served>>
  BY <1>0 DEF Call
<1>3. s \in Nat /\ k \in Calls /\ k[1] = c /\ k[2] = s
  BY <1>0, <1>1, <1>2, IsCall DEF Tables
<1>4. oneway \in BOOLEAN /\ timed \in BOOLEAN /\ ~(oneway /\ timed)
  OBVIOUS
<1>5. e \in Ends /\ o \in Ends /\ prog.idOf[c] \in ServiceIDs /\ prog.idOf[c] \in Nat
  BY <1>1, ProgramIs, EndsAre, ServicesAreNumbered DEF Types
<1>6. home(k) = e /\ idOf(k) = prog.idOf[c]
  BY <1>3 DEF home, idOf
<1>7. /\ IsMeta(m) /\ m.type = REQUEST /\ m.service_id = prog.idOf[c]
      /\ request_info(m).sequence_id = s
  <2> DEFINE b == kind # "oneway"
             id == prog.idOf[c]
  <2>1. method \in Nat /\ b \in BOOLEAN /\ t \in Nat /\ id \in Nat
    BY <1>5, MethodsAreNumbered
  <2>2. m = RequestMeta(s, id, method, b, t)
    OBVIOUS
  <2> HIDE DEF b, t, id, m
  <2>3. CallArguments(s, id, method, b, t)
    BY <1>3, <2>1 DEF CallArguments
  <2>4. IsRequestOf(m, s, id)
    BY <2>2, <2>3, RequestMetaIs
  <2> QED
    BY <2>4 DEF id, IsRequestOf
<1> HIDE DEF m, t
<1>8. ~Born(k) /\ Born(k)'
  <2>1. mSequenceID'[c] = s + 1
    BY <1>1, <1>2 DEF Tables
  <2> QED
    BY <1>0, <1>3, <2>1 DEF Born
<1>9. Onward
  <2>1. ASSUME NEW j \in Calls, Born(j)
        PROVE  Born(j)'
    <3>1. j[1] \in Clients /\ j[2] \in Nat
      BY CallIs
    <3>2. mSequenceID'[j[1]] = mSequenceID[j[1]] \/ mSequenceID'[j[1]] = mSequenceID[j[1]] + 1
      BY <1>0, <1>1, <1>2, <3>1 DEF Tables
    <3>3. mSequenceID[j[1]] \in Nat
      BY <1>1, <3>1 DEF Tables
    <3> QED
      BY <2>1, <3>1, <3>2, <3>3 DEF Born
  <2> QED
    BY <1>2, <2>1 DEF Onward
<1>10. Accounts' /\ StaysEnded
  <2> HIDE DEF timed, oneway
  <2> QED
    BY <1>0, <1>1, <1>2, <1>4, <1>9, CallAccounts
<1>11. /\ Row(w) /\ Len(w) <= Times(prog.out[e], "send")
       /\ \A f \in Range(w) :
            /\ f.fields = SerializeMeta(f.meta) /\ IsMeta(f.meta) /\ f.about = k
            /\ f.meta.type = m.type /\ f.meta.service_id = m.service_id
            /\ request_info(f.meta) = request_info(m)
  <2> HIDE DEF k, w
  <2> QED
    BY <1>1, <1>5, <1>7, WrittenIs DEF Types, w
<1> HIDE DEF w, k, o, e
<1>12. o = Other(home(k))
  BY <1>6 DEF o
<1>13. ASSUME NEW f \in Range(w), NEW x \in Ends, x = o
       PROVE  Fits(x, f)'
  <2>1. f.about = k /\ f.fields = SerializeMeta(f.meta) /\ IsMeta(f.meta)
    BY <1>11
  <2>2. home(k)' = home(k) /\ idOf(k)' = idOf(k)
    BY <1>2 DEF home, idOf
  <2>3. request_info(f.meta).sequence_id = k[2] /\ f.meta.service_id = idOf(k)
        /\ f.meta.type = REQUEST
    BY <1>3, <1>6, <1>7, <1>11
  <2>4. x = Other(home(k))'
    BY <1>12, <1>13, <2>2
  <2>5. Asks(x, f)'
    BY <2>1, <2>2, <2>3, <2>4 DEF Asks, Names
  <2> QED
    BY <1>3, <1>8, <2>1, <2>5 DEF Fits
<1>14. /\ wire' = [x \in Ends |-> wire'[x]]
       /\ \A x \in Ends : Row(wire'[x])
       /\ \A x \in Ends : \A f \in Range(wire'[x]) :
            f \in Range(wire[x]) \/ (x = o /\ f \in Range(w))
       /\ \A j : Asked(wire'[o], j) = Asked(wire[o], j) + Asked(w, j)
       /\ \A x \in Ends : x # o => wire'[x] = wire[x]
  BY <1>1, <1>2, <1>5, <1>11, SentOn
<1>15. Wires'
  <2>1. ASSUME NEW x \in Ends, NEW f \in Range(wire'[x])
        PROVE  f \in Range(wire[x]) \/ Fits(x, f)'
    <3>1. CASE x = o /\ f \in Range(w)
      BY <1>13, <3>1
    <3> QED
      BY <1>14, <3>1
  <2> QED
    BY <1>1, <1>9, <1>14, <2>1, WiresKept
<1>16. HeldBack'
  BY <1>1, <1>2, <1>9, HeldBackKept
<1>17. InBudget'
  <2>1. ASSUME NEW j \in Calls
        PROVE  Budget(j)' /\ (~Born(j)' => served'[j] = 0)
    <3> DEFINE q == Other(home(j))
               R == Repeats(prog.in[q])
               T == Times(prog.out[home(j)], "send")
               x == Asked(wire[q], j)
               y == Asked(wire'[q], j)
    <3>1. home(j) \in Ends /\ q \in Ends
      BY <1>1, CallsHome DEF Types
    <3>2. x \in Nat /\ y \in Nat
      BY <1>1, <1>14, <3>1, AskedIsNat DEF Wires, Row
    <3>3. R \in {1, 2}
      BY RepeatsAre
    <3>4. T \in Nat
      BY <1>1, <3>1, ProgramIs, TimesIsNat DEF Types
    <3>5. served[j] \in Nat /\ (~Born(j) => served[j] = 0)
      BY <1>1 DEF InBudget
    <3>6. served[j] + x * R <= T * R
      BY <1>1 DEF InBudget, Budget
    <3>7. home(j)' = home(j) /\ prog' = prog /\ served' = served
      BY <1>2 DEF home
    <3>8. served[j] + y * R <= T * R
      <4>1. CASE j = k
        <5>1. q = o
          BY <1>12, <4>1
        <5>2. \A f \in Range(wire[o]) : f.about # k
          BY <1>1, <1>5, <1>8 DEF Wires, Fits
        <5>3. x = 0
          BY <4>1, <5>1, <5>2, AskedNone
        <5>4. Asked(w, k) = Len(w)
          BY <1>7, <1>11, AskedAll
        <5>5. y = 0 + Len(w) /\ Len(w) <= T
          BY <1>6, <1>11, <1>14, <4>1, <5>1, <5>3, <5>4
        <5>6. Len(w) \in Nat
          BY <1>11, <5>4, AskedIsNat
        <5>7. served[j] = 0
          BY <1>8, <3>5, <4>1
        <5> HIDE DEF x, y, R, T
        <5>8. y <= T
          BY <5>5, <5>6
        <5>9. CASE R = 1
          BY <3>2, <3>4, <5>7, <5>8, <5>9
        <5>10. CASE R = 2
          BY <3>2, <3>4, <5>7, <5>8, <5>10
        <5> QED
          BY <3>3, <5>9, <5>10
      <4>2. CASE j # k
        <5>1. Asked(w, j) = 0
          <6>1. \A f \in Range(w) : f.about # j
            BY <1>11, <4>2
          <6> QED
            BY <6>1, AskedNone
        <5>2. y = x + 0 \/ y = x
          BY <1>14, <3>1, <5>1
        <5>3. y = x
          <6> HIDE DEF x, y
          <6> QED
            BY <3>2, <5>2
        <5> HIDE DEF x, y, R, T
        <5> QED
          BY <3>6, <5>3
      <4> QED
        BY <4>1, <4>2
    <3>9. Budget(j)'
      BY <3>7, <3>8 DEF Budget
    <3> QED
      BY <1>9, <3>5, <3>7, <3>9 DEF Onward
  <2>2. served' \in [Calls -> Nat]
    BY <1>1, <1>2 DEF InBudget
  <2> QED
    BY <2>1, <2>2 DEF InBudget
<1>18. Registry'
  BY <1>1, <1>2, SameRegistry
<1>19. Types'
  BY <1>1, <1>2, <1>3 DEF Types
<1> QED
  BY <1>10, <1>15, <1>16, <1>17, <1>18, <1>19 DEF Invariant, Session, Accounts

LEMMA InitEstablishes ==
  ASSUME Init
  PROVE  Invariant
<1>1. Types
  BY DEF Init, Types
<1>2. MaxCalls \in [Clients -> Nat] /\ \A k \in Calls : k[1] \in Clients /\ k[2] \in Nat
  BY CallsAreBounded, CallIs
<1>3. NoError \in ErrorType
  BY NoErrorIs DEF NoErrorYet
<1>4. Tables
  <2>1. phase \in [Calls -> Phases] /\ \A k \in Calls : phase[k] = "unborn"
    BY DEF Init, Phases
  <2>2. \A c \in Clients : /\ mSequenceID[c] = 0 /\ mStubHandleMap[c] = {} /\ mTimeoutHandleMap[c] = {}
    BY DEF Init
  <2>3. \A k \in Calls : ~Born(k)
    BY <1>2, <2>2 DEF Born
  <2>4. mSequenceID \in [Clients -> Nat] /\ mStubHandleMap \in [Clients -> SUBSET Nat]
        /\ mTimeoutHandleMap \in [Clients -> SUBSET Nat]
    BY DEF Init
  <2> QED
    BY <1>2, <2>1, <2>2, <2>3, <2>4 DEF Tables
<1>5. Endings
  BY <1>3 DEF Init, Endings
<1>6. AnswerMeetsItsCall
  BY DEF Init, AnswerMeetsItsCall
<1>7. AnswerProvesExecution
  BY DEF Init, AnswerProvesExecution
<1>8. Registry
  BY DEF Init, Registry
<1>9. \A e \in Ends : wire[e] = <<>>
  BY DEF Init
<1>10. Wires
  <2>1. \A e \in Ends : Row(wire[e]) /\ Range(wire[e]) = {}
    BY <1>9, RowEmpty
  <2>2. wire = [e \in Ends |-> wire[e]]
    BY DEF Init
  <2> QED
    BY <2>1, <2>2 DEF Wires, Row
<1>11. HeldBack
  BY DEF Init, HeldBack
<1>12. InBudget
  <2>1. ASSUME NEW k \in Calls
        PROVE  Budget(k) /\ served[k] = 0
    <3> DEFINE e == Other(home(k))
               R == Repeats(prog.in[e])
               T == Times(prog.out[home(k)], "send")
    <3>1. home(k) \in Ends /\ e \in Ends
      BY <1>1, CallsHome DEF Types
    <3>2. Asked(wire[e], k) = 0
      BY <1>9, <3>1, RowEmpty, AskedNone
    <3>3. T \in Nat /\ R \in {1, 2}
      BY <1>1, <3>1, ProgramIs, TimesIsNat, RepeatsAre DEF Types
    <3>4. served[k] = 0
      BY DEF Init
    <3> HIDE DEF e, R, T
    <3>5. 0 + 0 * R <= T * R
      BY <3>3
    <3> QED
      BY <3>2, <3>4, <3>5 DEF Budget, e, R, T
  <2>2. served \in [Calls -> Nat]
    BY DEF Init
  <2> QED
    BY <2>1, <2>2 DEF InBudget
<1> QED
  BY <1>1, <1>4, <1>5, <1>6, <1>7, <1>8, <1>10, <1>11, <1>12 DEF Invariant, Session

LEMMA StutterKeeps ==
  ASSUME Invariant, UNCHANGED vars
  PROVE  Invariant' /\ StaysEnded
<1>1. UNCHANGED <<prog, linked, tables, armed, wire, kept, history>> /\ UNCHANGED objects
  BY DEF vars
<1>2. Registry'
  BY <1>1, SameRegistry, InvariantIs
<1> QED
  BY <1>1, <1>2, RegistryStep

LEMMA StepKeeps ==
  ASSUME Invariant, [Next]_vars
  PROVE  Invariant' /\ StaysEnded
<1>1. CASE \E c \in Clients : Create(c) \/ Uninstall(c) \/ CheckTimeout(c)
  BY <1>1, CreateStep, UninstallStep, CheckTimeoutStep
<1>2. CASE \E c \in Clients, kind \in CallKinds, method \in Methods : Call(c, kind, method)
  BY <1>2, CallStep
<1>3. CASE \E e \in Ends : Receive(e)
  BY <1>3, ReceiveStep
<1>4. CASE FireTimer
  BY <1>4, FireTimerStep
<1>5. CASE AnswerKept
  BY <1>5, AnswerKeptStep
<1>6. CASE Disconnect
  BY <1>6, DisconnectStep
<1>7. CASE UNCHANGED vars
  BY <1>7, StutterKeeps
<1> QED
  BY <1>1, <1>2, <1>3, <1>4, <1>5, <1>6, <1>7 DEF Next

(***************************************************************************)
(* Every reachable state of the session is as the invariant says: tables   *)
(* and calls agree, what is under way and what is held back belongs to a   *)
(* call that was made, and services ran no more than was sent.             *)
(***************************************************************************)
THEOREM SessionInvariant == Spec => []Invariant
<1>1. Init => Invariant
  BY InitEstablishes
<1>2. Invariant /\ [Next]_vars => Invariant'
  BY StepKeeps
<1> QED
  BY <1>1, <1>2, PTL DEF Spec

\* What is in flight fits.
LEMMA InFlightFits ==
  ASSUME Invariant, NEW f \in InFlight
  PROVE  f.about \in Calls /\ IsMeta(f.meta) /\ ParseMeta(f.fields) = f.meta
<1>1. PICK e \in Ends : f \in Range(wire[e])
  BY DEF InFlight, Range
<1>2. Fits(e, f)
  BY <1>1, InvariantIs DEF Wires
<1> QED
  BY <1>2, ParsedIsWritten DEF Fits

\* Tables, calls, frames and reply objects are of their types, for any number of
\* clients and calls; in particular every frame on the wire parses to a meta.
THEOREM TypeCorrect == Spec => []TypeOK
<1>1. ASSUME Invariant
      PROVE  TypeOK
  <2>1. Types /\ Tables /\ Endings /\ Registry /\ Wires /\ HeldBack /\ InBudget
    BY <1>1, InvariantIs DEF Accounts
  <2>2. \A f \in InFlight : f.about \in Calls /\ IsMeta(ParseMeta(f.fields))
    BY <1>1, InFlightFits
  <2>3. wire \in [Ends -> Seq(InFlight)]
    <3>1. ASSUME NEW e \in Ends
          PROVE  wire[e] \in Seq(InFlight)
      <4>1. Range(wire[e]) \subseteq InFlight
        BY DEF InFlight, Range
      <4>2. wire[e] \in Seq(Range(wire[e]))
        BY <2>1 DEF Wires
      <4> DEFINE S == Range(wire[e])
                 T == InFlight
                 w == wire[e]
      <4>3. S \subseteq T /\ w \in Seq(S)
        BY <4>1, <4>2
      <4> HIDE DEF S, T, w
      <4>4. w \in Seq(T)
        BY <4>3, SeqWiden
      <4> QED
        BY <4>4 DEF w, T
    <3> DEFINE T == Seq(InFlight)
    <3>2. wire = [e \in Ends |-> wire[e]] /\ \A e \in Ends : wire[e] \in T
      BY <2>1, <3>1 DEF Wires
    <3> HIDE DEF T
    <3>3. wire \in [Ends -> T]
      BY <3>2
    <3> QED
      BY <3>3 DEF T
  <2>4. \A r \in kept : r.end \in Ends /\ r.about \in Calls
    BY <2>1, CallsHome DEF HeldBack, Held, Types
  <2> QED
    BY <2>1, <2>2, <2>3, <2>4
    DEF TypeOK, Types, Tables, Endings, Registry, InBudget, ErrorType
<1> QED
  BY <1>1, SessionInvariant, PTL

\* A response or a timer ends the call it was for, with the three exceptions that
\* handleRpcMsg and the stub tables leave, and no other, whatever the programs are:
\* a success, or an error with a code, meets its own call unless two clients share a
\* service, and only errors that came after the service had run are built blank.
THEOREM AnswersMeetTheirCalls == Spec => []AnswerMeetsItsCall
<1>1. Invariant => AnswerMeetsItsCall
  BY DEF Invariant
<1> QED
  BY <1>1, SessionInvariant, PTL

\* A caller that is told of success or of an error code is told so by a service
\* method that did run: no interceptor, parser or moved-from meta makes that up.
THEOREM AnswersProveExecution == Spec => []AnswerProvesExecution
<1>1. Invariant => AnswerProvesExecution
  BY DEF Invariant
<1> QED
  BY <1>1, SessionInvariant, PTL

\* What services ran and may still run of a call is no more than its end's senders
\* wrote of it, times what the inbound chain of the other end makes of one request.
THEOREM ExecutedNoMoreThanSent == Spec => []ExecutedAsSent
<1>1. ASSUME Invariant
      PROVE  ExecutedAsSent
  <2>1. Types /\ Wires /\ InBudget
    BY <1>1, InvariantIs
  <2>2. ASSUME NEW k \in Calls
        PROVE  served[k] + Asked(wire[Other(home(k))], k)
                 <= Times(prog.out[home(k)], "send") * Repeats(prog.in[Other(home(k))])
    <3> DEFINE e == Other(home(k))
               R == Repeats(prog.in[e])
               T == Times(prog.out[home(k)], "send")
               x == Asked(wire[e], k)
               n == served[k]
    <3>1. home(k) \in Ends /\ e \in Ends
      BY <2>1, CallsHome DEF Types
    <3>2. x \in Nat /\ n \in Nat
      BY <2>1, <3>1, AskedIsNat DEF Wires, Row, InBudget
    <3>3. T \in Nat /\ R \in {1, 2}
      BY <2>1, <3>1, ProgramIs, TimesIsNat, RepeatsAre DEF Types
    <3>4. n + x * R <= T * R
      BY <2>1 DEF InBudget, Budget
    <3> HIDE DEF x, n, R, T
    <3>5. n + x <= T * R
      <4>1. CASE R = 1
        BY <3>2, <3>3, <3>4, <4>1
      <4>2. CASE R = 2
        BY <3>2, <3>3, <3>4, <4>2
      <4> QED
        BY <3>3, <4>1, <4>2
    <3> QED
      BY <3>5 DEF x, n, R, T
  <2> QED
    BY <2>2 DEF ExecutedAsSent, Asked
<1> QED
  BY <1>1, SessionInvariant, PTL

\* ParseMeta gives back what SerializeMeta wrote, the fields of newer peers included;
\* MergeFrom agrees with reading one message after the other, and CopyFrom, a merge
\* into an empty message, is faithful: for all metas in flight and all that the codec
\* is tried on.
THEOREM ParsedAsWritten == Spec => []WrittenIsRead
<1>1. ASSUME Invariant
      PROVE  WrittenIsRead
  <2>1. \A m \in TriedOn : IsMeta(m)
    BY <1>1, InFlightFits, MessagesAreMetas DEF TriedOn
  <2> QED
    BY <2>1, ParsedIsWritten, ConcatenationIsMerge, CopyIsEqual, MessagesAreMetas DEF WrittenIsRead
<1> QED
  BY <1>1, SessionInvariant, PTL

\* ByteSizeLong and the writer agree: for all those metas the size that is announced,
\* as the length of a submessage and of the packet, is the size that is written.
THEOREM SizesAreAnnounced == Spec => []SizeAnnounced
<1>1. ASSUME Invariant
      PROVE  SizeAnnounced
  <2>1. \A m \in TriedOn : IsMeta(m)
    BY <1>1, InFlightFits, MessagesAreMetas DEF TriedOn
  <2> QED
    BY <2>1, AnnouncedIsWritten DEF SizeAnnounced
<1> QED
  BY <1>1, SessionInvariant, PTL

LEMMA ChainsAreSequences ==
  ASSUME NEW chain \in Chains
  PROVE  chain \in Seq(Kinds)
<1>1. PICK n \in 0..ChainLength : chain \in [1..n -> Kinds]
  BY DEF Chains
<1>2. n \in Nat
  BY LengthIsNumber
<1> DEFINE K == Kinds
<1> HIDE DEF K
<1>3. chain \in [1..n -> K] => chain \in Seq(K)
  BY <1>2
<1> QED
  BY <1>1, <1>3 DEF K

\* makeInterceptor runs every chain, of any length, in the order of its list up to
\* the first that stops, and the handler as often as the last interceptor lets it.
THEOREM ChainsInOrder == Spec => []ChainsRunInOrder
<1>1. ChainsRunInOrder
  <2>1. ASSUME NEW chain \in Chains
        PROVE  /\ "twice" \notin {chain[i] : i \in DOMAIN chain} => InOrder(chain)
               /\ Visits(chain, "ok", Len(chain) + 1) <= Repeats(chain)
    BY ChainsAreSequences, ChainInOrder, VisitsBounded
  <2> QED
    BY <2>1 DEF ChainsRunInOrder
<1> QED
  BY <1>1, PTL

\* A call that ended is not ended again: what processRpcResponse and checkTimeout find
\* in the tables afterwards is never its stub.
THEOREM CallsStayEnded == Spec => EndedForGood
<1>1. Invariant /\ [Next]_vars =>
        [\A k \in Calls : phase[k] \in Ended =>
           UNCHANGED <<phase[k], cause[k], told[k], callbacks[k]>>]_vars
  BY StepKeeps DEF StaysEnded
<1> QED
  BY <1>1, SessionInvariant, PTL DEF Spec, EndedForGood

-----------------------------------------------------------------------------
(* What a step does to the calls                                           *)

\* A call is made.
Begins(k, how) ==
  /\ phase[k] = "unborn" /\ how \in {"open", "oneway"}
  /\ phase' = [phase EXCEPT ![k] = how]
  /\ UNCHANGED callbacks

Moves ==
  \/ UNCHANGED <<phase, callbacks>>
  \/ \E k \in Calls : \E how \in {"open", "oneway"} : Begins(k, how)
  \/ \E k \in Calls, k2 \in Calls, how \in Ended, runs \in Nat, error \in ErrorType :
       Finishes(k, k2, how, runs, error)

LEMMA SettlesMoves ==
  ASSUME Settles
  PROVE  Moves
  BY DEF Settles, Moves, history

LEMMA CallMoves ==
  ASSUME Invariant, NEW c \in Clients, NEW kind \in CallKinds, NEW method, Call(c, kind, method)
  PROVE  Moves
<1> DEFINE s == mSequenceID[c]
           k == <<c, s>>
           how == IF kind = "oneway" THEN "oneway" ELSE "open"
<1>1. Tables
  BY DEF Invariant, Session
<1>2. s \in Nat /\ s < MaxCalls[c]
  BY <1>1 DEF Call, Tables
<1>3. k \in Calls /\ k[1] = c /\ k[2] = s
  BY <1>2, IsCall
<1>4. ~Born(k)
  BY <1>2, <1>3 DEF Born
<1>5. phase[k] = "unborn"
  BY <1>1, <1>3, <1>4 DEF Tables
<1>6. phase' = [phase EXCEPT ![k] = how] /\ UNCHANGED callbacks
  BY DEF Call
<1>7. how \in {"open", "oneway"}
  OBVIOUS
<1> QED
  BY <1>3, <1>5, <1>6, <1>7 DEF Moves, Begins

LEMMA ReceiveMoves ==
  ASSUME Invariant, NEW e \in Ends, Receive(e)
  PROVE  Moves
<1> DEFINE f == Head(wire[e])
<1>1. wire[e] # <<>> /\ Wires /\ Session
  BY InvariantIs DEF Receive, Invariant
<1>2. Fits(e, f) /\ ParseMeta(f.fields) = f.meta
  BY <1>1, HeadFits
<1>3. TakeRequest(e, f.meta, f.about) \/ TakeResponse(e, f.meta, f.about)
  BY <1>2 DEF Receive
<1>4. CASE TakeRequest(e, f.meta, f.about)
  BY <1>4 DEF TakeRequest, Moves
<1>5. CASE TakeResponse(e, f.meta, f.about)
  BY <1>1, <1>2, <1>5, TakeResponseSettles, SettlesMoves
<1> QED
  BY <1>3, <1>4, <1>5

LEMMA StepMoves ==
  ASSUME Invariant, [Next]_vars
  PROVE  Moves
<1>1. Session
  BY DEF Invariant
<1>2. CASE \E c \in Clients : Create(c) \/ Uninstall(c)
  BY <1>2 DEF Create, Uninstall, history, Moves
<1>3. CASE \E c \in Clients : CheckTimeout(c)
  BY <1>1, <1>3, CheckTimeoutSettles, SettlesMoves
<1>4. CASE \E c \in Clients, kind \in CallKinds, method \in Methods : Call(c, kind, method)
  BY <1>4, CallMoves
<1>5. CASE \E e \in Ends : Receive(e)
  BY <1>5, ReceiveMoves
<1>6. CASE FireTimer
  BY <1>1, <1>6, FireTimerSettles, SettlesMoves
<1>7. CASE AnswerKept \/ Disconnect \/ UNCHANGED vars
  BY <1>7 DEF AnswerKept, Disconnect, vars, history, Moves
<1> QED
  BY <1>2, <1>3, <1>4, <1>5, <1>6, <1>7 DEF Next

\* A step moves one call at most, and only forward: a call is made, open or one-way,
\* and an open call ends.  No message and no timer, however wrongly addressed, ends
\* two calls, ends a one-way call, or one that was not made yet.
CallsMoveForward ==
  [][\A k \in Calls : phase'[k] # phase[k] =>
       /\ \/ phase[k] = "unborn" /\ phase'[k] \in {"open", "oneway"}
          \/ phase[k] = "open" /\ phase'[k] \in Ended
       /\ \A j \in Calls \ {k} : UNCHANGED <<phase[j], callbacks[j]>>]_vars

THEOREM CallsOnlyMoveForward == Spec => CallsMoveForward
<1> DEFINE Forward ==
      \A k \in Calls : phase'[k] # phase[k] =>
        /\ \/ phase[k] = "unborn" /\ phase'[k] \in {"open", "oneway"}
           \/ phase[k] = "open" /\ phase'[k] \in Ended
        /\ \A j \in Calls \ {k} : UNCHANGED <<phase[j], callbacks[j]>>
<1>1. ASSUME Invariant, [Next]_vars
      PROVE  Forward
  <2>1. phase \in [Calls -> Phases] /\ callbacks \in [Calls -> Nat]
    BY <1>1 DEF Invariant, Session, Tables, Types
  <2>2. Moves
    BY <1>1, StepMoves
  <2>3. CASE UNCHANGED <<phase, callbacks>>
    BY <2>3
  <2>4. CASE \E k \in Calls : \E how \in {"open", "oneway"} : Begins(k, how)
    BY <2>1, <2>4 DEF Begins
  <2>5. CASE \E k \in Calls, k2 \in Calls, how \in Ended, runs \in Nat, error \in ErrorType :
               Finishes(k, k2, how, runs, error)
    BY <2>1, <2>5 DEF Finishes, MayEnd, End
  <2> QED
    BY <2>2, <2>3, <2>4, <2>5 DEF Moves
<1>2. Invariant /\ [Next]_vars => [Forward]_vars
  BY <1>1
<1> QED
  BY <1>2, SessionInvariant, PTL DEF Spec, CallsMoveForward

-----------------------------------------------------------------------------
(* How often callbacks run                                                 *)

\* The callback of a call that was answered ran, once, or twice if the interceptor
\* right before the handler calls next twice; the timeout callback of a call that
\* timed out ran once; no other callback ran at all.
CallbacksCounted ==
  \A k \in Calls :
    callbacks[k] \in IF phase[k] \in Ended THEN Runs(k, phase[k]) ELSE {0}

LEMMA MovesCount ==
  ASSUME Invariant, CallbacksCounted, prog' = prog, Moves
  PROVE  CallbacksCounted'
<1>1. /\ phase \in [Calls -> Phases] /\ callbacks \in [Calls -> Nat]
      /\ \A k \in Calls : \A how : Runs(k, how)' = Runs(k, how)
  BY DEF Invariant, Session, Tables, Types, Runs, home
<1>2. CASE UNCHANGED <<phase, callbacks>>
  BY <1>1, <1>2 DEF CallbacksCounted
<1>3. CASE \E k \in Calls : \E how \in {"open", "oneway"} : Begins(k, how)
  <2>1. PICK k \in Calls, how \in {"open", "oneway"} : Begins(k, how)
    BY <1>3
  <2>2. /\ phase[k] = "unborn" /\ phase'[k] = how /\ callbacks' = callbacks
        /\ \A j \in Calls \ {k} : phase'[j] = phase[j]
    BY <1>1, <2>1 DEF Begins
  <2>3. how \notin Ended /\ "unborn" \notin Ended
    BY DEF Ended
  <2> QED
    BY <1>1, <2>2, <2>3 DEF CallbacksCounted
<1>4. CASE \E k \in Calls, k2 \in Calls, how \in Ended, runs \in Nat, error \in ErrorType :
             Finishes(k, k2, how, runs, error)
  <2>1. PICK k \in Calls, k2 \in Calls, how \in Ended, runs \in Nat, error \in ErrorType :
          Finishes(k, k2, how, runs, error)
    BY <1>4
  <2>2. phase[k] = "open" /\ "open" \notin Ended /\ runs \in Runs(k, how)
    BY <2>1 DEF Finishes, MayEnd, Ended
  <2>3. /\ phase'[k] = how /\ callbacks'[k] = callbacks[k] + runs
        /\ \A j \in Calls \ {k} : phase'[j] = phase[j] /\ callbacks'[j] = callbacks[j]
    BY <1>1, <2>1 DEF Finishes, End
  <2>4. callbacks[k] = 0
    BY <2>2 DEF CallbacksCounted
  <2>5. callbacks'[k] \in Runs(k, how)
    BY <2>2, <2>3, <2>4
  <2> QED
    BY <1>1, <2>3, <2>5 DEF CallbacksCounted
<1> QED
  BY <1>2, <1>3, <1>4 DEF Moves

\* A caller's handler runs as often as the call ended, which is never more than once,
\* for one pass of the inbound chain, whatever is duplicated on the way.
THEOREM CallbacksAreCounted == Spec => []CallbacksCounted
<1>1. Init => CallbacksCounted
  BY DEF Init, CallbacksCounted, Ended
<1>2. ASSUME Invariant, CallbacksCounted, [Next]_vars
      PROVE  CallbacksCounted'
  <2>1. prog' = prog
    BY <1>2 DEF Next, Create, Uninstall, CheckTimeout, Call, Receive, FireTimer, AnswerKept,
                Disconnect, vars
  <2> QED
    BY <1>2, <2>1, StepMoves, MovesCount
<1>3. Invariant /\ CallbacksCounted /\ [Next]_vars => CallbacksCounted'
  BY <1>2
<1> QED
  BY <1>1, <1>3, SessionInvariant, PTL DEF Spec

-----------------------------------------------------------------------------
(* Where answers and timers may go wrong                                   *)

\* A call of a client that shares neither end nor service with another and whose
\* service is not 0.
Apart(k) ==
  /\ idOf(k) # 0
  /\ \A j \in Calls : home(j) = home(k) /\ idOf(j) = idOf(k) => j[1] = k[1]

\* Clients that keep apart have their own answers and timers only.
OwnAnswer == \A k \in Calls : Apart(k) => cause[k] = k

\* The three exceptions are what it takes: a program that gives every client a
\* service of its own, none of them 0, is never given the wrong answer.
THEOREM ApartHaveOwnAnswers == Spec => []OwnAnswer
<1>1. ASSUME Invariant
      PROVE  OwnAnswer
  <2>1. SUFFICES ASSUME NEW k \in Calls, Apart(k), cause[k] # k
                 PROVE  FALSE
    BY DEF OwnAnswer
  <2>2. cause[k] \in Calls /\ AnswerMeetsItsCall
    BY <1>1 DEF Invariant, Session, Endings
  <2>3. home(k) = home(cause[k]) /\ idOf(k) = idOf(cause[k]) /\ k[2] = cause[k][2]
    BY <2>1, <2>2 DEF AnswerMeetsItsCall, Apart
  <2>4. cause[k][1] = k[1]
    BY <2>1, <2>2, <2>3 DEF Apart
  <2> QED
    BY <2>1, <2>2, <2>3, <2>4, CallIs
<1> QED
  BY <1>1, SessionInvariant, PTL

\* The timer of withTimeoutCheck ends calls of service 0 and no others.
TimersEndServiceZero ==
  [][FireTimer => \A k \in Calls : phase'[k] # phase[k] => idOf(k) = 0]_vars

\* So withTimeoutCheck does not time out a call of any other service, in any program:
\* its meta names none, and handleRpcMsg looks the client up by that.
THEOREM TimersReachServiceZeroOnly == Spec => TimersEndServiceZero
<1>1. ASSUME Invariant, FireTimer, NEW k \in Calls, phase'[k] # phase[k]
      PROVE  idOf(k) = 0
  <2>1. /\ Session /\ phase \in [Calls -> Phases]
    BY <1>1 DEF Invariant, Session, Tables
  <2> DEFINE C(j) == clientAt[home(j)][TimeoutMeta(j[2]).service_id]
  <2>2. PICK j \in armed :
          IF C(j) # Nobody
            THEN ProcessTimeout(C(j), response_info(TimeoutMeta(j[2])).sequence_id, j)
            ELSE UNCHANGED <<tables, history>>
    BY <1>1 DEF FireTimer
  <2>3. j \in Calls /\ home(j) \in Ends
    BY <2>1, CallsHome DEF Session, Types
  <2>4. C(j) = clientAt[home(j)][0] /\ response_info(TimeoutMeta(j[2])).sequence_id = j[2]
    BY TimeoutMetaIs
  <2> DEFINE c == C(j)
  <2> HIDE DEF C
  <2>5. c # Nobody /\ ProcessTimeout(c, j[2], j)
    BY <1>1, <2>2, <2>4 DEF history
  <2>6. c \in Clients /\ prog.idOf[c] = 0
    BY <2>1, <2>3, <2>4, <2>5, RegisteredIs, ServicesAreNumbered
  <2> HIDE DEF c
  <2>7. \E how : phase' = [phase EXCEPT ![<<c, j[2]>>] = how]
    BY <1>1, <2>5 DEF ProcessTimeout, End, history
  <2>8. k = <<c, j[2]>>
    BY <1>1, <2>1, <2>7
  <2> QED
    BY <2>6, <2>8 DEF idOf
<1>2. Invariant /\ [Next]_vars =>
        [FireTimer => \A k \in Calls : phase'[k] # phase[k] => idOf(k) = 0]_vars
  BY <1>1
<1> QED
  BY <1>2, SessionInvariant, PTL DEF Spec, TimersEndServiceZero

-----------------------------------------------------------------------------
(* A response that is taken off the wire ends its call                     *)

\* The answer that call k waits for.
AnswersCall(f, k) ==
  f.meta.type = RESPONSE /\ f.meta.service_id = idOf(k) /\ response_info(f.meta).sequence_id = k[2]

LEMMA AwaitedIs ==
  ASSUME NEW k
  PROVE  Awaited(k) <=> \E f \in Range(wire[home(k)]) : AnswersCall(f, k)
  BY DEF Awaited, AnswersCall, Range

\* What is not taken off is still awaited.
LEMMA AwaitedStays ==
  ASSUME prog' = prog, NEW k, NEW f, AnswersCall(f, k), NEW e, e = home(k), f \in Range(wire'[e])
  PROVE  Awaited(k)'
<1>1. home(k)' = e /\ idOf(k)' = idOf(k)
  BY DEF home, idOf
<1>2. f \in Range(wire[home(k)])' /\ AnswersCall(f, k)'
  BY <1>1 DEF AnswersCall
<1>3. PICK i \in DOMAIN wire'[e] : wire'[e][i] = f
  BY DEF Range
<1> QED
  BY <1>1, <1>2, <1>3 DEF Awaited, AnswersCall

LEMMA AppendedStays ==
  ASSUME Invariant, prog' = prog, NEW k \in Calls, Awaited(k), NEW x \in Ends, NEW frames,
         Row(frames), wire' = [wire EXCEPT ![x] = @ \o frames]
  PROVE  Awaited(k)'
<1>1. Types /\ wire = [e \in Ends |-> wire[e]] /\ \A e \in Ends : Row(wire[e])
  BY InvariantIs DEF Wires, Row
<1>2. PICK e \in Ends : e = home(k)
  BY <1>1, CallsHome DEF Types
<1>3. PICK f \in Range(wire[e]) : AnswersCall(f, k)
  BY <1>2, AwaitedIs
<1>4. wire'[e] = wire[e] \/ wire'[e] = wire[e] \o frames
  BY <1>1
<1>5. f \in Range(wire'[e])
  BY <1>1, <1>3, <1>4, RowKeeps
<1> QED
  BY <1>2, <1>3, <1>5, AwaitedStays

\* What an end says to a request is a row of frames.
LEMMA RequestReacted ==
  ASSUME Types, NEW e \in Ends, NEW m, NEW k, TakeRequest(e, m, k)
  PROVE  \E frames : Row(frames) /\ Reacted(e, frames)
<1>1. \A x : Row(Written(e, x, k))
  BY WrittenRow DEF Types
<1>2. CASE DropRequest(e, m)
  BY <1>2, RowEmpty DEF DropRequest
<1>3. CASE UnknownMethod(e, m, k)
  BY <1>1, <1>3 DEF UnknownMethod
<1>4. ASSUME NEW b \in prog.does, NEW code \in CodesOf(b), Serve(e, m, k, b, code)
      PROVE  \E frames : Row(frames) /\ Reacted(e, frames)
  <2>1. \A s, t : Row(s) /\ Row(t) => Row(s \o t)
    BY RowConcat
  <2> DEFINE Says(s) == s = <<>> \/ \E x : s = Written(e, x, k)
  <2>2. \A s : Says(s) => Row(s)
    BY <1>1, RowEmpty
  <2>3. \E s, t : Says(s) /\ Says(t) /\ Reacted(e, s \o t)
    BY <1>4 DEF Serve
  <2> HIDE DEF Says
  <2> QED
    BY <2>1, <2>2, <2>3
<1> QED
  BY <1>2, <1>3, <1>4 DEF TakeRequest

LEMMA ReactedStays ==
  ASSUME Invariant, prog' = prog, NEW k \in Calls, NEW e \in Ends, wire[e] # <<>>, NEW frames,
         Row(frames), Reacted(e, frames), Awaited(k), ~Awaited(k)'
  PROVE  e = home(k) /\ AnswersCall(Head(wire[e]), k)
<1>1. Types /\ Wires /\ \A x \in Ends : Row(wire[x])
  BY InvariantIs DEF Wires, Row
<1>2. PICK h \in Ends : h = home(k)
  BY <1>1, CallsHome DEF Types
<1>3. PICK f \in Range(wire[h]) : AnswersCall(f, k)
  BY <1>2, AwaitedIs
<1>4. f \notin Range(wire'[h])
  BY <1>2, <1>3, AwaitedStays
<1>5. CASE h = e
  <2>1. wire'[e] = Tail(wire[e])
    BY <1>1, ReactedTo
  <2>2. PICK i \in DOMAIN wire[e] : wire[e][i] = f
    BY <1>3, <1>5 DEF Range
  <2>3. f = Head(wire[e])
    BY <1>1, <1>4, <1>5, <2>1, <2>2, RowTail
  <2> QED
    BY <1>2, <1>3, <1>5, <2>3
<1>6. CASE h # e
  <2> DEFINE o == Other(e)
  <2>1. h = o /\ o # e /\ o \in Ends
    BY <1>6 DEF Ends, Other
  <2>2. wire' = [wire EXCEPT ![e] = Tail(wire[e]), ![o] = @ \o frames]
    BY DEF Reacted, Popped
  <2> HIDE DEF o
  <2>3. wire'[h] = wire[h] \o frames
    BY <1>1, <2>1, <2>2 DEF Wires
  <2>4. f \in Range(wire'[h])
    BY <1>1, <1>3, <2>3, RowKeeps
  <2> QED
    BY <1>4, <2>4
<1> QED
  BY <1>5, <1>6

LEMMA ResponseEnds ==
  ASSUME Invariant, NEW e \in Ends, NEW k \in Calls, e = home(k), NEW f, AnswersCall(f, k),
         phase[k] = "open", clientAt[home(k)][idOf(k)] = k[1], TakeResponse(e, f.meta, f.about)
  PROVE  phase'[k] # "open"
<1>1. Tables
  BY InvariantIs DEF Accounts
<1>2. k = <<k[1], k[2]>> /\ k[1] \in Clients /\ k[1] # Nobody
  BY CallIs, NobodyIsNoClient
<1> DEFINE c == clientAt[e][f.meta.service_id]
           s == response_info(f.meta).sequence_id
<1>3. c = k[1] /\ s = k[2]
  BY DEF AnswersCall
<1>4. Found(c, s)
  BY <1>1, <1>3 DEF Found, Tables
<1>5. \E how \in {"responded", "lost"} : \E k2, runs, error : End(<<c, s>>, k2, how, runs, error)
  BY <1>2, <1>3, <1>4 DEF TakeResponse
<1>6. PICK how \in {"responded", "lost"} : phase' = [phase EXCEPT ![k] = how]
  BY <1>2, <1>3, <1>5 DEF End
<1> QED
  BY <1>1, <1>6 DEF Tables

LEMMA AwaitedStep ==
  ASSUME Invariant, [Next]_vars, NEW k \in Calls, phase[k] = "open",
         clientAt[home(k)][idOf(k)] = k[1], Awaited(k), ~Awaited(k)'
  PROVE  phase'[k] # "open" \/ ~linked'
<1>1. Types /\ HeldBack
  BY InvariantIs
<1>2. ASSUME prog' = prog, wire' = wire
      PROVE  FALSE
  <2>1. PICK e \in Ends : e = home(k)
    BY <1>1, CallsHome DEF Types
  <2>2. PICK f \in Range(wire[e]) : AnswersCall(f, k)
    BY <2>1, AwaitedIs
  <2> QED
    BY <1>2, <2>1, <2>2, AwaitedStays
<1>3. CASE \E c \in Clients : Create(c) \/ Uninstall(c) \/ CheckTimeout(c)
  BY <1>2, <1>3 DEF Create, Uninstall, CheckTimeout
<1>4. CASE \E c \in Clients, kind \in CallKinds, method \in Methods : Call(c, kind, method)
  <2>1. PICK c \in Clients, kind \in CallKinds, method \in Methods : Call(c, kind, method)
    BY <1>4
  <2>2. PICK e \in Ends : e = prog.home[c]
    BY <1>1, ProgramIs DEF Types
  <2>3. \E m, j : wire' = [wire EXCEPT ![Other(e)] = @ \o Written(e, m, j)] /\ prog' = prog
    BY <2>1, <2>2 DEF Call
  <2>4. PICK m, j : wire' = [wire EXCEPT ![Other(e)] = @ \o Written(e, m, j)] /\ prog' = prog
    BY <2>3
  <2>5. Row(Written(e, m, j)) /\ Other(e) \in Ends
    BY <1>1, WrittenRow, EndsAre DEF Types
  <2> QED
    BY <2>4, <2>5, AppendedStays
<1>5. CASE \E e \in Ends : Receive(e)
  <2>1. PICK e \in Ends : Receive(e)
    BY <1>5
  <2> DEFINE f == Head(wire[e])
  <2>2. wire[e] # <<>> /\ prog' = prog
    BY <2>1 DEF Receive
  <2>3. ParseMeta(f.fields) = f.meta
    BY <2>2, HeadFits, InvariantIs
  <2>4. TakeRequest(e, f.meta, f.about) \/ TakeResponse(e, f.meta, f.about)
    BY <2>1, <2>3 DEF Receive
  <2>5. \E frames : Row(frames) /\ Reacted(e, frames)
    <3>1. CASE TakeRequest(e, f.meta, f.about)
      BY <1>1, <3>1, RequestReacted
    <3>2. CASE TakeResponse(e, f.meta, f.about)
      BY <3>2, RowEmpty DEF TakeResponse
    <3> QED
      BY <2>4, <3>1, <3>2
  <2>6. e = home(k) /\ AnswersCall(f, k)
    BY <2>2, <2>5, ReactedStays
  <2>7. TakeResponse(e, f.meta, f.about)
    BY <2>4, <2>6 DEF TakeRequest, AnswersCall, REQUEST, RESPONSE
  <2> HIDE DEF f
  <2>8. phase'[k] # "open"
    BY <2>6, <2>7, ResponseEnds
  <2> QED
    BY <2>8
<1>6. CASE FireTimer
  BY <1>2, <1>6 DEF FireTimer
<1>7. CASE AnswerKept
  <2>1. PICK r \in kept, code \in {0} \cup Codes :
          wire' = [wire EXCEPT ![Other(r.end)] =
            @ \o (IF Expects(r.meta) THEN Written(r.end, Answer(r.meta, code), r.about) ELSE <<>>)]
    BY <1>7 DEF AnswerKept
  <2> DEFINE w == IF Expects(r.meta) THEN Written(r.end, Answer(r.meta, code), r.about) ELSE <<>>
  <2>2. r.end \in Ends /\ Other(r.end) \in Ends
    BY <1>1, CallsHome, EndsAre DEF HeldBack, Held, Types
  <2>3. Row(w)
    BY <1>1, <2>2, WrittenRow, RowEmpty DEF Types
  <2>4. wire' = [wire EXCEPT ![Other(r.end)] = @ \o w] /\ prog' = prog
    BY <1>7, <2>1 DEF AnswerKept
  <2> HIDE DEF w
  <2> QED
    BY <2>2, <2>3, <2>4, AppendedStays
<1>8. CASE Disconnect
  BY <1>8 DEF Disconnect
<1>9. CASE UNCHANGED vars
  BY <1>2, <1>9 DEF vars
<1> QED
  BY <1>3, <1>4, <1>5, <1>6, <1>7, <1>8, <1>9 DEF Next

\* A response that names an open call of the registered client ends that call when
\* it is handled, and nothing but a lost connection takes it away before.
THEOREM ResponsesEndTheirCalls == Spec => ResponseEndsItsCall
<1>1. Invariant /\ [Next]_vars =>
        [\A k \in Calls :
           (phase[k] = "open" /\ clientAt[home(k)][idOf(k)] = k[1] /\ Awaited(k) /\ ~Awaited(k)')
             => (phase'[k] # "open" \/ ~linked')]_vars
  BY AwaitedStep
<1> QED
  BY <1>1, SessionInvariant, PTL DEF Spec, ResponseEndsItsCall
=============================================================================
