--------------------------- MODULE RpcMetaProofs ---------------------------
(***************************************************************************)
(* Proofs about RpcMeta.  A fold over what was written goes field by field *)
(* (Folding!FoldConcat), so that reading a message back is a computation   *)
(* with one lemma for each field.                                          *)
(***************************************************************************)
EXTENDS RpcMeta, FiniteSetTheorems, TLAPS

RequestFold  == INSTANCE Folding WITH op <- ReadRequestField
ResponseFold == INSTANCE Folding WITH op <- ReadResponseField
KeyFold      == INSTANCE Folding WITH op <- EntryKey
ValueFold    == INSTANCE Folding WITH op <- EntryValue
MetaFold     == INSTANCE Folding WITH op <- ReadMetaField

\* FoldLeft of the library is the fold of Folding.
IteratesRequest(iter, b, s, S) ==
  iter = [d \in SUBSET S |->
            IF d = {} THEN b ELSE ReadRequestField(iter[d \ {Max(d)}], s[Max(d)])]

LEMMA RequestFoldLeft ==
  ASSUME NEW b, NEW s
  PROVE  FoldLeft(ReadRequestField, b, s) = RequestFold!Fold(b, s)
<1>1. FoldLeft(ReadRequestField, b, s) =
        (CHOOSE iter : IteratesRequest(iter, b, s, DOMAIN s))[DOMAIN s]
  BY DEF FoldLeft, MapThenFoldSet, IteratesRequest
<1>2. ASSUME NEW iter
      PROVE  IteratesRequest(iter, b, s, DOMAIN s) <=> RequestFold!Iterates(iter, b, s, DOMAIN s)
  BY DEF IteratesRequest, RequestFold!Iterates, RequestFold!Last, Max
<1>3. (CHOOSE iter : IteratesRequest(iter, b, s, DOMAIN s)) =
        (CHOOSE iter : RequestFold!Iterates(iter, b, s, DOMAIN s))
  BY <1>2
<1> QED
  BY <1>1, <1>3 DEF RequestFold!Fold

IteratesResponse(iter, b, s, S) ==
  iter = [d \in SUBSET S |->
            IF d = {} THEN b ELSE ReadResponseField(iter[d \ {Max(d)}], s[Max(d)])]

LEMMA ResponseFoldLeft ==
  ASSUME NEW b, NEW s
  PROVE  FoldLeft(ReadResponseField, b, s) = ResponseFold!Fold(b, s)
<1>1. FoldLeft(ReadResponseField, b, s) =
        (CHOOSE iter : IteratesResponse(iter, b, s, DOMAIN s))[DOMAIN s]
  BY DEF FoldLeft, MapThenFoldSet, IteratesResponse
<1>2. ASSUME NEW iter
      PROVE  IteratesResponse(iter, b, s, DOMAIN s) <=> ResponseFold!Iterates(iter, b, s, DOMAIN s)
  BY DEF IteratesResponse, ResponseFold!Iterates, ResponseFold!Last, Max
<1>3. (CHOOSE iter : IteratesResponse(iter, b, s, DOMAIN s)) =
        (CHOOSE iter : ResponseFold!Iterates(iter, b, s, DOMAIN s))
  BY <1>2
<1> QED
  BY <1>1, <1>3 DEF ResponseFold!Fold

IteratesKey(iter, b, s, S) ==
  iter = [d \in SUBSET S |->
            IF d = {} THEN b ELSE EntryKey(iter[d \ {Max(d)}], s[Max(d)])]

LEMMA KeyFoldLeft ==
  ASSUME NEW b, NEW s
  PROVE  FoldLeft(EntryKey, b, s) = KeyFold!Fold(b, s)
<1>1. FoldLeft(EntryKey, b, s) =
        (CHOOSE iter : IteratesKey(iter, b, s, DOMAIN s))[DOMAIN s]
  BY DEF FoldLeft, MapThenFoldSet, IteratesKey
<1>2. ASSUME NEW iter
      PROVE  IteratesKey(iter, b, s, DOMAIN s) <=> KeyFold!Iterates(iter, b, s, DOMAIN s)
  BY DEF IteratesKey, KeyFold!Iterates, KeyFold!Last, Max
<1>3. (CHOOSE iter : IteratesKey(iter, b, s, DOMAIN s)) =
        (CHOOSE iter : KeyFold!Iterates(iter, b, s, DOMAIN s))
  BY <1>2
<1> QED
  BY <1>1, <1>3 DEF KeyFold!Fold

IteratesValue(iter, b, s, S) ==
  iter = [d \in SUBSET S |->
            IF d = {} THEN b ELSE EntryValue(iter[d \ {Max(d)}], s[Max(d)])]

LEMMA ValueFoldLeft ==
  ASSUME NEW b, NEW s
  PROVE  FoldLeft(EntryValue, b, s) = ValueFold!Fold(b, s)
<1>1. FoldLeft(EntryValue, b, s) =
        (CHOOSE iter : IteratesValue(iter, b, s, DOMAIN s))[DOMAIN s]
  BY DEF FoldLeft, MapThenFoldSet, IteratesValue
<1>2. ASSUME NEW iter
      PROVE  IteratesValue(iter, b, s, DOMAIN s) <=> ValueFold!Iterates(iter, b, s, DOMAIN s)
  BY DEF IteratesValue, ValueFold!Iterates, ValueFold!Last, Max
<1>3. (CHOOSE iter : IteratesValue(iter, b, s, DOMAIN s)) =
        (CHOOSE iter : ValueFold!Iterates(iter, b, s, DOMAIN s))
  BY <1>2
<1> QED
  BY <1>1, <1>3 DEF ValueFold!Fold

IteratesMeta(iter, b, s, S) ==
  iter = [d \in SUBSET S |->
            IF d = {} THEN b ELSE ReadMetaField(iter[d \ {Max(d)}], s[Max(d)])]

LEMMA MetaFoldLeft ==
  ASSUME NEW b, NEW s
  PROVE  FoldLeft(ReadMetaField, b, s) = MetaFold!Fold(b, s)
<1>1. FoldLeft(ReadMetaField, b, s) =
        (CHOOSE iter : IteratesMeta(iter, b, s, DOMAIN s))[DOMAIN s]
  BY DEF FoldLeft, MapThenFoldSet, IteratesMeta
<1>2. ASSUME NEW iter
      PROVE  IteratesMeta(iter, b, s, DOMAIN s) <=> MetaFold!Iterates(iter, b, s, DOMAIN s)
  BY DEF IteratesMeta, MetaFold!Iterates, MetaFold!Last, Max
<1>3. (CHOOSE iter : IteratesMeta(iter, b, s, DOMAIN s)) =
        (CHOOSE iter : MetaFold!Iterates(iter, b, s, DOMAIN s))
  BY <1>2
<1> QED
  BY <1>1, <1>3 DEF MetaFold!Fold

\* A finite set can be enumerated, and an enumeration without repetition is complete.
LEMMA Enumeration ==
  ASSUME NEW S, IsFiniteSet(S)
  PROVE  /\ Cardinality(S) \in Nat
         /\ \E f \in [1..Cardinality(S) -> S] : \A a, b \in DOMAIN f : f[a] = f[b] => a = b
         /\ \A f \in [1..Cardinality(S) -> S] :
              (\A a, b \in DOMAIN f : f[a] = f[b] => a = b) =>
                 \A x \in S : \E i \in 1..Cardinality(S) : f[i] = x
<1> DEFINE n == Cardinality(S)
<1>1. n \in Nat /\ ExistsBijection(1..n, S)
  BY FS_CardinalityType
<1>2. IsFiniteSet(1..n) /\ Cardinality(1..n) = n
  <2>1. 1 \in Int /\ n \in Int /\ (IF 1 > n THEN 0 ELSE n - 1 + 1) = n
    BY <1>1
  <2> QED
    BY <2>1, FS_Interval
<1>3. ASSUME NEW f \in [1..n -> S], \A a, b \in DOMAIN f : f[a] = f[b] => a = b
      PROVE  \A x \in S : \E i \in 1..n : f[i] = x
  <2>1. f \in Injection(1..n, S)
    BY <1>3 DEF Injection, IsInjective
  <2>2. f \in Surjection(1..n, S)
    BY <1>2, <2>1, FS_Injection
  <2> QED
    BY <2>2 DEF Surjection
<1>4. PICK f \in Bijection(1..n, S) : TRUE
  BY <1>1 DEF ExistsBijection
<1>5. f \in [1..n -> S] /\ \A a, b \in DOMAIN f : f[a] = f[b] => a = b
  BY <1>4 DEF Bijection, Injection, IsInjective
<1> QED
  BY <1>1, <1>3, <1>5

\* A concatenation, element by element.
LEMMA ConcatByOne ==
  ASSUME NEW S, NEW s \in Seq(S), NEW u \in Seq(S)
  PROVE  /\ s \o SubSeq(u, 1, 0) = s
         /\ s \o SubSeq(u, 1, Len(u)) = s \o u
         /\ \A i \in 1..Len(u) :
              s \o SubSeq(u, 1, i) = Append(s \o SubSeq(u, 1, i - 1), u[i])
<1>1. SubSeq(u, 1, 0) = <<>> /\ s \o <<>> = s
  OBVIOUS
<1>2. SubSeq(u, 1, Len(u)) = u
  <2> DEFINE w == SubSeq(u, 1, Len(u))
  <2>1. w \in Seq(S) /\ Len(w) = Len(u) /\ \A i \in 1..Len(u) : w[i] = u[i]
    OBVIOUS
  <2> QED
    BY <2>1
<1>3. ASSUME NEW i \in 1..Len(u)
      PROVE  s \o SubSeq(u, 1, i) = Append(s \o SubSeq(u, 1, i - 1), u[i])
  <2> DEFINE a == SubSeq(u, 1, i)
             c == SubSeq(u, 1, i - 1)
             l == s \o a
             r == Append(s \o c, u[i])
  <2>1. /\ a \in Seq(S) /\ c \in Seq(S) /\ Len(a) = i /\ Len(c) = i - 1 /\ u[i] \in S
        /\ \A j \in 1..i : a[j] = u[j]
        /\ \A j \in 1..(i - 1) : c[j] = u[j]
    OBVIOUS
  <2>2. l \in Seq(S) /\ r \in Seq(S) /\ Len(l) = Len(s) + i /\ Len(r) = Len(s) + i
    BY <2>1
  <2>3. ASSUME NEW j \in 1..(Len(s) + i)
        PROVE  l[j] = r[j]
    <3> HIDE DEF a, c
    <3>1. CASE j <= Len(s)
      BY <2>1, <3>1
    <3>2. CASE j > Len(s) /\ j < Len(s) + i
      <4>1. l[j] = a[j - Len(s)] /\ r[j] = c[j - Len(s)]
        BY <2>1, <3>2
      <4> QED
        BY <4>1, <2>1, <3>2
    <3>3. CASE j = Len(s) + i
      <4>1. l[j] = a[j - Len(s)] /\ j - Len(s) = i
        BY <2>1, <3>3
      <4> DEFINE d == s \o c
      <4>2. r = Append(d, u[i])
        OBVIOUS
      <4>3. d \in Seq(S) /\ Len(d) = Len(s) + Len(c)
        <5>1. c \in Seq(S)
          BY <2>1
        <5> QED
          BY <5>1
      <4> HIDE DEF d, l, r
      <4>4. j = Len(d) + 1
        BY <2>1, <3>3, <4>3
      <4>5. r[j] = u[i]
        BY <4>2, <4>3, <4>4
      <4> QED
        BY <4>1, <4>5, <2>1
    <3>4. Len(s) \in Nat /\ i \in Int /\ j \in Int /\ j <= Len(s) + i
      OBVIOUS
    <3> HIDE DEF l, r
    <3> QED
      BY <3>1, <3>2, <3>3, <3>4
  <2> HIDE DEF l, r
  <2> QED
    BY <2>2, <2>3
<1> QED
  BY <1>1, <1>2, <1>3

\* The parts of what is written are sequences of fields.
LEMMA VarintIsSeq ==
  ASSUME NEW n, NEW v, n \in Nat, v \in Int
  PROVE  Varint(n, v) \in Seq(Leaf)
<1>1. [num |-> n, varint |-> v] \in Leaf
  BY DEF Leaf
<1>2. <<>> \in Seq(Leaf)
  OBVIOUS
<1> QED
  BY <1>1, <1>2 DEF Varint

LEMMA TextIsSeq ==
  ASSUME NEW n, NEW t, n \in Nat, t \in Texts
  PROVE  Text(n, t) \in Seq(Leaf)
<1>1. [num |-> n, bytes |-> t] \in Leaf
  BY DEF Leaf
<1>2. <<>> \in Seq(Leaf)
  OBVIOUS
<1> QED
  BY <1>1, <1>2 DEF Text

LEMMA FlagIsSeq ==
  ASSUME NEW n, NEW b, n \in Nat
  PROVE  Flag(n, b) \in Seq(Leaf)
<1>1. [num |-> n, varint |-> 1] \in Leaf
  BY DEF Leaf
<1>2. <<>> \in Seq(Leaf)
  OBVIOUS
<1> QED
  BY <1>1, <1>2 DEF Flag

RequestOf(m, s, e, q, t, u) ==
  [intMethod |-> m, strMethod |-> s, expect_response |-> e, sequence_id |-> q,
   timeout |-> t, unknown |-> u]

LEMMA RequestKept ==
  ASSUME NEW r, IsRequest(r)
  PROVE  r = RequestOf(r.intMethod, r.strMethod, r.expect_response,
                 r.sequence_id, r.timeout, r.unknown)
  BY DEF IsRequest, RequestOf

LEMMA RequestKeeps ==
  ASSUME NEW m, NEW s, NEW e, NEW q, NEW t, NEW p, NEW x
  PROVE  KeepUnknown(RequestOf(m, s, e, q, t, p), x) = RequestOf(m, s, e, q, t, Append(p, x))
  BY DEF KeepUnknown, RequestOf

\* What a request does not know is appended to what it did not know before.
LEMMA RequestUnknown ==
  ASSUME NEW m, NEW s, NEW e, NEW q, NEW t, NEW u \in Seq(Leaf),
         NEW w \in Seq(Leaf), \A i \in DOMAIN w : ~OfRequest(w[i])
  PROVE  RequestFold!Fold(RequestOf(m, s, e, q, t, u), w) = RequestOf(m, s, e, q, t, u \o w)
<1> DEFINE n == Len(w)
           part(i) == u \o SubSeq(w, 1, i)
           r == RequestOf(m, s, e, q, t, u)
           g == [i \in 0..n |-> RequestOf(m, s, e, q, t, part(i))]
<1>1. n \in Nat /\ DOMAIN w = 1..n /\ 0 \in 0..n /\ n \in 0..n
  OBVIOUS
<1>2. part(0) = u /\ part(n) = u \o w
  BY ConcatByOne
<1>3. ASSUME NEW i \in 1..n
      PROVE  part(i) = Append(part(i - 1), w[i])
  BY ConcatByOne
<1> HIDE DEF part, n
<1>4. g[0] = r /\ g[n] = RequestOf(m, s, e, q, t, u \o w)
  BY <1>1, <1>2
<1>5. ASSUME NEW i \in 1..n
      PROVE  g[i] = ReadRequestField(g[i - 1], w[i])
  <2>1. i \in 0..n /\ i - 1 \in 0..n
    BY <1>1
  <2>2. ReadRequestField(g[i - 1], w[i]) = KeepUnknown(g[i - 1], w[i])
    <3> HIDE DEF g
    <3> QED
      BY <1>1 DEF ReadRequestField, OfRequest
  <2>3. g[i - 1] = RequestOf(m, s, e, q, t, part(i - 1))
    BY <2>1
  <2>4. g[i] = RequestOf(m, s, e, q, t, Append(part(i - 1), w[i]))
    BY <2>1, <1>3
  <2> QED
    BY <2>2, <2>3, <2>4, RequestKeeps
<1>6. RequestFold!Trace(g, r, w, n)
  BY <1>4, <1>5 DEF RequestFold!Trace
<1> HIDE DEF g, r
<1>7. RequestFold!Fold(r, w) = g[n]
  BY <1>1, <1>6, RequestFold!FoldIs
<1> QED
  BY <1>4, <1>7 DEF r

\* What reading the known fields does, each absent at its default.
LEMMA RequestVarint ==
  ASSUME NEW r, NEW n, NEW v
  PROVE  RequestFold!Fold(r, Varint(n, v)) =
           IF v = 0 THEN r ELSE ReadRequestField(r, [num |-> n, varint |-> v])
  BY RequestFold!FoldEmpty, RequestFold!FoldOne DEF Varint

LEMMA RequestText ==
  ASSUME NEW r, NEW n, NEW v
  PROVE  RequestFold!Fold(r, Text(n, v)) =
           IF v = Empty THEN r ELSE ReadRequestField(r, [num |-> n, bytes |-> v])
  BY RequestFold!FoldEmpty, RequestFold!FoldOne DEF Text

LEMMA RequestFlag ==
  ASSUME NEW r, NEW n, NEW b, b \in BOOLEAN
  PROVE  RequestFold!Fold(r, Flag(n, b)) =
           IF b THEN ReadRequestField(r, [num |-> n, varint |-> 1]) ELSE r
  BY RequestFold!FoldEmpty, RequestFold!FoldOne DEF Flag

LEMMA RequestIntMethod ==
  ASSUME NEW m, NEW s, NEW e, NEW q, NEW t, NEW u, NEW v
  PROVE  RequestFold!Fold(RequestOf(m, s, e, q, t, u), Varint(1, v)) =
           RequestOf(Over(m, v, 0), s, e, q, t, u)
<1> DEFINE r == RequestOf(m, s, e, q, t, u)
           x == [num |-> 1, varint |-> v]
<1>1. ReadRequestField(r, x) = RequestOf(v, s, e, q, t, u)
  BY DEF ReadRequestField, Is, RequestOf
<1> HIDE DEF r
<1>2. RequestFold!Fold(r, Varint(1, v)) = IF v = 0 THEN r ELSE ReadRequestField(r, x)
  BY RequestVarint
<1> QED
  BY <1>1, <1>2 DEF Over, r

LEMMA RequestStrMethod ==
  ASSUME NEW m, NEW s, NEW e, NEW q, NEW t, NEW u, NEW v
  PROVE  RequestFold!Fold(RequestOf(m, s, e, q, t, u), Text(2, v)) =
           RequestOf(m, Over(s, v, Empty), e, q, t, u)
<1> DEFINE r == RequestOf(m, s, e, q, t, u)
           x == [num |-> 2, bytes |-> v]
<1>1. ReadRequestField(r, x) = RequestOf(m, v, e, q, t, u)
  BY DEF ReadRequestField, Is, RequestOf
<1> HIDE DEF r
<1>2. RequestFold!Fold(r, Text(2, v)) = IF v = Empty THEN r ELSE ReadRequestField(r, x)
  BY RequestText
<1> QED
  BY <1>1, <1>2 DEF Over, r

LEMMA RequestExpectResponse ==
  ASSUME NEW m, NEW s, NEW e, NEW q, NEW t, NEW u, NEW b, b \in BOOLEAN
  PROVE  RequestFold!Fold(RequestOf(m, s, e, q, t, u), Flag(3, b)) =
           RequestOf(m, s, Raised(e, b), q, t, u)
<1> DEFINE r == RequestOf(m, s, e, q, t, u)
           x == [num |-> 3, varint |-> 1]
<1>1. ReadRequestField(r, x) = RequestOf(m, s, TRUE, q, t, u)
  <2>1. ReadRequestField(r, x) = [r EXCEPT !.expect_response = (x.varint # 0)]
    BY DEF ReadRequestField, Is
  <2>2. (x.varint # 0) = TRUE
    OBVIOUS
  <2> QED
    BY <2>1, <2>2 DEF RequestOf
<1> HIDE DEF r
<1>2. RequestFold!Fold(r, Flag(3, b)) = IF b THEN ReadRequestField(r, x) ELSE r
  BY RequestFlag
<1>3. CASE b = TRUE
  BY <1>1, <1>2, <1>3 DEF Raised, r
<1>4. CASE b = FALSE
  BY <1>2, <1>4 DEF Raised, r
<1> QED
  BY <1>3, <1>4

LEMMA RequestSequenceId ==
  ASSUME NEW m, NEW s, NEW e, NEW q, NEW t, NEW u, NEW v
  PROVE  RequestFold!Fold(RequestOf(m, s, e, q, t, u), Varint(4, v)) =
           RequestOf(m, s, e, Over(q, v, 0), t, u)
<1> DEFINE r == RequestOf(m, s, e, q, t, u)
           x == [num |-> 4, varint |-> v]
<1>1. ReadRequestField(r, x) = RequestOf(m, s, e, v, t, u)
  BY DEF ReadRequestField, Is, RequestOf
<1> HIDE DEF r
<1>2. RequestFold!Fold(r, Varint(4, v)) = IF v = 0 THEN r ELSE ReadRequestField(r, x)
  BY RequestVarint
<1> QED
  BY <1>1, <1>2 DEF Over, r

LEMMA RequestTimeout ==
  ASSUME NEW m, NEW s, NEW e, NEW q, NEW t, NEW u, NEW v
  PROVE  RequestFold!Fold(RequestOf(m, s, e, q, t, u), Varint(5, v)) =
           RequestOf(m, s, e, q, Over(t, v, 0), u)
<1> DEFINE r == RequestOf(m, s, e, q, t, u)
           x == [num |-> 5, varint |-> v]
<1>1. ReadRequestField(r, x) = RequestOf(m, s, e, q, v, u)
  BY DEF ReadRequestField, Is, RequestOf
<1> HIDE DEF r
<1>2. RequestFold!Fold(r, Varint(5, v)) = IF v = 0 THEN r ELSE ReadRequestField(r, x)
  BY RequestVarint
<1> QED
  BY <1>1, <1>2 DEF Over, r

\* Reading what was written, field by field.
LEMMA RequestRead ==
  ASSUME NEW m, NEW s, NEW e, NEW q, NEW t, NEW u \in Seq(Leaf),
         NEW m2, NEW s2, NEW e2, NEW q2, NEW t2, NEW u2 \in Seq(Leaf),
         e2 \in BOOLEAN,
         Varint(1, m2) \in Seq(Leaf), Text(2, s2) \in Seq(Leaf),
         Flag(3, e2) \in Seq(Leaf), Varint(4, q2) \in Seq(Leaf),
         Varint(5, t2) \in Seq(Leaf),
         \A i \in DOMAIN u2 : ~OfRequest(u2[i])
  PROVE  RequestFold!Fold(RequestOf(m, s, e, q, t, u),
             Varint(1, m2) \o Text(2, s2) \o Flag(3, e2) \o Varint(4, q2) \o Varint(5, t2) \o u2)
           = RequestOf(Over(m, m2, 0), Over(s, s2, Empty), Raised(e, e2),
               Over(q, q2, 0), Over(t, t2, 0), u \o u2)
<1> DEFINE w1 == Varint(1, m2)
           w2 == Text(2, s2)
           w3 == Flag(3, e2)
           w4 == Varint(4, q2)
           w5 == Varint(5, t2)
           m3 == Over(m, m2, 0)
           s3 == Over(s, s2, Empty)
           e3 == Raised(e, e2)
           q3 == Over(q, q2, 0)
           t3 == Over(t, t2, 0)
           d2 == w1 \o w2
           d3 == d2 \o w3
           d4 == d3 \o w4
           d5 == d4 \o w5
           d6 == d5 \o u2
           r0 == RequestOf(m, s, e, q, t, u)
           r1 == RequestOf(m3, s, e, q, t, u)
           r2 == RequestOf(m3, s3, e, q, t, u)
           r3 == RequestOf(m3, s3, e3, q, t, u)
           r4 == RequestOf(m3, s3, e3, q3, t, u)
           r5 == RequestOf(m3, s3, e3, q3, t3, u)
           r6 == RequestOf(m3, s3, e3, q3, t3, u \o u2)
<1>1. /\ w1 \in Seq(Leaf)
      /\ w2 \in Seq(Leaf)
      /\ w3 \in Seq(Leaf)
      /\ w4 \in Seq(Leaf)
      /\ w5 \in Seq(Leaf)
  OBVIOUS
<1>2. RequestFold!Fold(r0, w1) = r1
  BY RequestIntMethod
<1>3. RequestFold!Fold(r1, w2) = r2
  <2> HIDE DEF m3
  <2> QED
    BY RequestStrMethod
<1>4. RequestFold!Fold(r2, w3) = r3
  <2> HIDE DEF m3, s3
  <2> QED
    BY RequestExpectResponse
<1>5. RequestFold!Fold(r3, w4) = r4
  <2> HIDE DEF m3, s3, e3
  <2> QED
    BY RequestSequenceId
<1>6. RequestFold!Fold(r4, w5) = r5
  <2> HIDE DEF m3, s3, e3, q3
  <2> QED
    BY RequestTimeout
<1>7. RequestFold!Fold(r5, u2) = r6
  <2> HIDE DEF m3, s3, e3, q3, t3
  <2> QED
    BY RequestUnknown
<1> HIDE DEF w1, w2, w3, w4, w5, r0, r1, r2, r3, r4, r5, r6
<1>8. RequestFold!Fold(r0, d2) = r2 /\ d2 \in Seq(Leaf)
  BY <1>1, <1>2, <1>3, RequestFold!FoldConcat
<1> HIDE DEF d2
<1>9. RequestFold!Fold(r0, d3) = r3 /\ d3 \in Seq(Leaf)
  BY <1>1, <1>8, <1>4, RequestFold!FoldConcat
<1> HIDE DEF d3
<1>10. RequestFold!Fold(r0, d4) = r4 /\ d4 \in Seq(Leaf)
  BY <1>1, <1>9, <1>5, RequestFold!FoldConcat
<1> HIDE DEF d4
<1>11. RequestFold!Fold(r0, d5) = r5 /\ d5 \in Seq(Leaf)
  BY <1>1, <1>10, <1>6, RequestFold!FoldConcat
<1> HIDE DEF d5
<1>12. RequestFold!Fold(r0, d6) = r6
  BY <1>1, <1>11, <1>7, RequestFold!FoldConcat
<1> QED
  BY <1>12 DEF d2, d3, d4, d5, w1, w2, w3, w4, w5, r0, r6

\* Reading a request that was written into one that is there is merging the two.
LEMMA RequestMerged ==
  ASSUME NEW r, NEW q, IsRequest(r), IsRequest(q)
  PROVE  RequestFold!Fold(r, SerializeRequest(q)) = MergeRequest(r, q)
<1> DEFINE m == r.intMethod
           s == r.strMethod
           e == r.expect_response
           q0 == r.sequence_id
           t == r.timeout
           u == r.unknown
           m2 == q.intMethod
           s2 == q.strMethod
           e2 == q.expect_response
           q2 == q.sequence_id
           t2 == q.timeout
           u2 == q.unknown
<1>1. r = RequestOf(m, s, e, q0, t, u)
  BY RequestKept
<1>2. /\ m2 \in Int /\ s2 \in Texts /\ e2 \in BOOLEAN /\ q2 \in Int /\ t2 \in Int
      /\ u \in Seq(Leaf) /\ u2 \in Seq(Leaf) /\ \A i \in DOMAIN u2 : ~OfRequest(u2[i])
  BY DEF IsRequest
<1>3. SerializeRequest(q) =
        Varint(1, m2) \o Text(2, s2) \o Flag(3, e2) \o Varint(4, q2) \o Varint(5, t2) \o u2
  BY DEF SerializeRequest
<1>4. MergeRequest(r, q) = RequestOf(Over(m, m2, 0), Over(s, s2, Empty), Raised(e, e2),
                             Over(q0, q2, 0), Over(t, t2, 0), u \o u2)
  BY DEF MergeRequest, RequestOf
<1>5. /\ Varint(1, m2) \in Seq(Leaf) /\ Text(2, s2) \in Seq(Leaf) /\ Flag(3, e2) \in Seq(Leaf)
      /\ Varint(4, q2) \in Seq(Leaf) /\ Varint(5, t2) \in Seq(Leaf)
  BY <1>2, VarintIsSeq, TextIsSeq, FlagIsSeq
<1>6. /\ e2 \in BOOLEAN /\ u \in Seq(Leaf) /\ u2 \in Seq(Leaf)
      /\ \A i \in DOMAIN u2 : ~OfRequest(u2[i])
  BY <1>2
<1> HIDE DEF m, s, e, q0, t, u, m2, s2, e2, q2, t2, u2
<1> QED
  BY <1>1, <1>3, <1>4, <1>5, <1>6, RequestRead

ResponseOf(q, f, c, s, t, u) ==
  [sequence_id |-> q, failed |-> f, error_code |-> c, reason |-> s, timeout |-> t,
   unknown |-> u]

LEMMA ResponseKept ==
  ASSUME NEW r, IsResponse(r)
  PROVE  r = ResponseOf(r.sequence_id, r.failed, r.error_code,
                 r.reason, r.timeout, r.unknown)
  BY DEF IsResponse, ResponseOf

LEMMA ResponseKeeps ==
  ASSUME NEW q, NEW f, NEW c, NEW s, NEW t, NEW p, NEW x
  PROVE  KeepUnknown(ResponseOf(q, f, c, s, t, p), x) = ResponseOf(q, f, c, s, t, Append(p, x))
  BY DEF KeepUnknown, ResponseOf

\* What a response does not know is appended to what it did not know before.
LEMMA ResponseUnknown ==
  ASSUME NEW q, NEW f, NEW c, NEW s, NEW t, NEW u \in Seq(Leaf),
         NEW w \in Seq(Leaf), \A i \in DOMAIN w : ~OfResponse(w[i])
  PROVE  ResponseFold!Fold(ResponseOf(q, f, c, s, t, u), w) = ResponseOf(q, f, c, s, t, u \o w)
<1> DEFINE n == Len(w)
           part(i) == u \o SubSeq(w, 1, i)
           r == ResponseOf(q, f, c, s, t, u)
           g == [i \in 0..n |-> ResponseOf(q, f, c, s, t, part(i))]
<1>1. n \in Nat /\ DOMAIN w = 1..n /\ 0 \in 0..n /\ n \in 0..n
  OBVIOUS
<1>2. part(0) = u /\ part(n) = u \o w
  BY ConcatByOne
<1>3. ASSUME NEW i \in 1..n
      PROVE  part(i) = Append(part(i - 1), w[i])
  BY ConcatByOne
<1> HIDE DEF part, n
<1>4. g[0] = r /\ g[n] = ResponseOf(q, f, c, s, t, u \o w)
  BY <1>1, <1>2
<1>5. ASSUME NEW i \in 1..n
      PROVE  g[i] = ReadResponseField(g[i - 1], w[i])
  <2>1. i \in 0..n /\ i - 1 \in 0..n
    BY <1>1
  <2>2. ReadResponseField(g[i - 1], w[i]) = KeepUnknown(g[i - 1], w[i])
    <3> HIDE DEF g
    <3> QED
      BY <1>1 DEF ReadResponseField, OfResponse
  <2>3. g[i - 1] = ResponseOf(q, f, c, s, t, part(i - 1))
    BY <2>1
  <2>4. g[i] = ResponseOf(q, f, c, s, t, Append(part(i - 1), w[i]))
    BY <2>1, <1>3
  <2> QED
    BY <2>2, <2>3, <2>4, ResponseKeeps
<1>6. ResponseFold!Trace(g, r, w, n)
  BY <1>4, <1>5 DEF ResponseFold!Trace
<1> HIDE DEF g, r
<1>7. ResponseFold!Fold(r, w) = g[n]
  BY <1>1, <1>6, ResponseFold!FoldIs
<1> QED
  BY <1>4, <1>7 DEF r

\* What reading the known fields does, each absent at its default.
LEMMA ResponseVarint ==
  ASSUME NEW r, NEW n, NEW v
  PROVE  ResponseFold!Fold(r, Varint(n, v)) =
           IF v = 0 THEN r ELSE ReadResponseField(r, [num |-> n, varint |-> v])
  BY ResponseFold!FoldEmpty, ResponseFold!FoldOne DEF Varint

LEMMA ResponseText ==
  ASSUME NEW r, NEW n, NEW v
  PROVE  ResponseFold!Fold(r, Text(n, v)) =
           IF v = Empty THEN r ELSE ReadResponseField(r, [num |-> n, bytes |-> v])
  BY ResponseFold!FoldEmpty, ResponseFold!FoldOne DEF Text

LEMMA ResponseFlag ==
  ASSUME NEW r, NEW n, NEW b, b \in BOOLEAN
  PROVE  ResponseFold!Fold(r, Flag(n, b)) =
           IF b THEN ReadResponseField(r, [num |-> n, varint |-> 1]) ELSE r
  BY ResponseFold!FoldEmpty, ResponseFold!FoldOne DEF Flag

LEMMA ResponseSequenceId ==
  ASSUME NEW q, NEW f, NEW c, NEW s, NEW t, NEW u, NEW v
  PROVE  ResponseFold!Fold(ResponseOf(q, f, c, s, t, u), Varint(1, v)) =
           ResponseOf(Over(q, v, 0), f, c, s, t, u)
<1> DEFINE r == ResponseOf(q, f, c, s, t, u)
           x == [num |-> 1, varint |-> v]
<1>1. ReadResponseField(r, x) = ResponseOf(v, f, c, s, t, u)
  BY DEF ReadResponseField, Is, ResponseOf
<1> HIDE DEF r
<1>2. ResponseFold!Fold(r, Varint(1, v)) = IF v = 0 THEN r ELSE ReadResponseField(r, x)
  BY ResponseVarint
<1> QED
  BY <1>1, <1>2 DEF Over, r

LEMMA ResponseFailed ==
  ASSUME NEW q, NEW f, NEW c, NEW s, NEW t, NEW u, NEW b, b \in BOOLEAN
  PROVE  ResponseFold!Fold(ResponseOf(q, f, c, s, t, u), Flag(2, b)) =
           ResponseOf(q, Raised(f, b), c, s, t, u)
<1> DEFINE r == ResponseOf(q, f, c, s, t, u)
           x == [num |-> 2, varint |-> 1]
<1>1. ReadResponseField(r, x) = ResponseOf(q, TRUE, c, s, t, u)
  <2>1. ReadResponseField(r, x) = [r EXCEPT !.failed = (x.varint # 0)]
    BY DEF ReadResponseField, Is
  <2>2. (x.varint # 0) = TRUE
    OBVIOUS
  <2> QED
    BY <2>1, <2>2 DEF ResponseOf
<1> HIDE DEF r
<1>2. ResponseFold!Fold(r, Flag(2, b)) = IF b THEN ReadResponseField(r, x) ELSE r
  BY ResponseFlag
<1>3. CASE b = TRUE
  BY <1>1, <1>2, <1>3 DEF Raised, r
<1>4. CASE b = FALSE
  BY <1>2, <1>4 DEF Raised, r
<1> QED
  BY <1>3, <1>4

LEMMA ResponseErrorCode ==
  ASSUME NEW q, NEW f, NEW c, NEW s, NEW t, NEW u, NEW v
  PROVE  ResponseFold!Fold(ResponseOf(q, f, c, s, t, u), Varint(3, v)) =
           ResponseOf(q, f, Over(c, v, 0), s, t, u)
<1> DEFINE r == ResponseOf(q, f, c, s, t, u)
           x == [num |-> 3, varint |-> v]
<1>1. ReadResponseField(r, x) = ResponseOf(q, f, v, s, t, u)
  BY DEF ReadResponseField, Is, ResponseOf
<1> HIDE DEF r
<1>2. ResponseFold!Fold(r, Varint(3, v)) = IF v = 0 THEN r ELSE ReadResponseField(r, x)
  BY ResponseVarint
<1> QED
  BY <1>1, <1>2 DEF Over, r

LEMMA ResponseReason ==
  ASSUME NEW q, NEW f, NEW c, NEW s, NEW t, NEW u, NEW v
  PROVE  ResponseFold!Fold(ResponseOf(q, f, c, s, t, u), Text(4, v)) =
           ResponseOf(q, f, c, Over(s, v, Empty), t, u)
<1> DEFINE r == ResponseOf(q, f, c, s, t, u)
           x == [num |-> 4, bytes |-> v]
<1>1. ReadResponseField(r, x) = ResponseOf(q, f, c, v, t, u)
  BY DEF ReadResponseField, Is, ResponseOf
<1> HIDE DEF r
<1>2. ResponseFold!Fold(r, Text(4, v)) = IF v = Empty THEN r ELSE ReadResponseField(r, x)
  BY ResponseText
<1> QED
  BY <1>1, <1>2 DEF Over, r

LEMMA ResponseTimeout ==
  ASSUME NEW q, NEW f, NEW c, NEW s, NEW t, NEW u, NEW b, b \in BOOLEAN
  PROVE  ResponseFold!Fold(ResponseOf(q, f, c, s, t, u), Flag(5, b)) =
           ResponseOf(q, f, c, s, Raised(t, b), u)
<1> DEFINE r == ResponseOf(q, f, c, s, t, u)
           x == [num |-> 5, varint |-> 1]
<1>1. ReadResponseField(r, x) = ResponseOf(q, f, c, s, TRUE, u)
  <2>1. ReadResponseField(r, x) = [r EXCEPT !.timeout = (x.varint # 0)]
    BY DEF ReadResponseField, Is
  <2>2. (x.varint # 0) = TRUE
    OBVIOUS
  <2> QED
    BY <2>1, <2>2 DEF ResponseOf
<1> HIDE DEF r
<1>2. ResponseFold!Fold(r, Flag(5, b)) = IF b THEN ReadResponseField(r, x) ELSE r
  BY ResponseFlag
<1>3. CASE b = TRUE
  BY <1>1, <1>2, <1>3 DEF Raised, r
<1>4. CASE b = FALSE
  BY <1>2, <1>4 DEF Raised, r
<1> QED
  BY <1>3, <1>4

\* Reading what was written, field by field.
LEMMA ResponseRead ==
  ASSUME NEW q, NEW f, NEW c, NEW s, NEW t, NEW u \in Seq(Leaf),
         NEW q2, NEW f2, NEW c2, NEW s2, NEW t2, NEW u2 \in Seq(Leaf),
         f2 \in BOOLEAN, t2 \in BOOLEAN,
         Varint(1, q2) \in Seq(Leaf), Flag(2, f2) \in Seq(Leaf),
         Varint(3, c2) \in Seq(Leaf), Text(4, s2) \in Seq(Leaf),
         Flag(5, t2) \in Seq(Leaf),
         \A i \in DOMAIN u2 : ~OfResponse(u2[i])
  PROVE  ResponseFold!Fold(ResponseOf(q, f, c, s, t, u),
             Varint(1, q2) \o Flag(2, f2) \o Varint(3, c2) \o Text(4, s2) \o Flag(5, t2) \o u2)
           = ResponseOf(Over(q, q2, 0), Raised(f, f2), Over(c, c2, 0),
               Over(s, s2, Empty), Raised(t, t2), u \o u2)
<1> DEFINE w1 == Varint(1, q2)
           w2 == Flag(2, f2)
           w3 == Varint(3, c2)
           w4 == Text(4, s2)
           w5 == Flag(5, t2)
           q3 == Over(q, q2, 0)
           f3 == Raised(f, f2)
           c3 == Over(c, c2, 0)
           s3 == Over(s, s2, Empty)
           t3 == Raised(t, t2)
           d2 == w1 \o w2
           d3 == d2 \o w3
           d4 == d3 \o w4
           d5 == d4 \o w5
           d6 == d5 \o u2
           r0 == ResponseOf(q, f, c, s, t, u)
           r1 == ResponseOf(q3, f, c, s, t, u)
           r2 == ResponseOf(q3, f3, c, s, t, u)
           r3 == ResponseOf(q3, f3, c3, s, t, u)
           r4 == ResponseOf(q3, f3, c3, s3, t, u)
           r5 == ResponseOf(q3, f3, c3, s3, t3, u)
           r6 == ResponseOf(q3, f3, c3, s3, t3, u \o u2)
<1>1. /\ w1 \in Seq(Leaf)
      /\ w2 \in Seq(Leaf)
      /\ w3 \in Seq(Leaf)
      /\ w4 \in Seq(Leaf)
      /\ w5 \in Seq(Leaf)
  OBVIOUS
<1>2. ResponseFold!Fold(r0, w1) = r1
  BY ResponseSequenceId
<1>3. ResponseFold!Fold(r1, w2) = r2
  <2> HIDE DEF q3
  <2> QED
    BY ResponseFailed
<1>4. ResponseFold!Fold(r2, w3) = r3
  <2> HIDE DEF q3, f3
  <2> QED
    BY ResponseErrorCode
<1>5. ResponseFold!Fold(r3, w4) = r4
  <2> HIDE DEF q3, f3, c3
  <2> QED
    BY ResponseReason
<1>6. ResponseFold!Fold(r4, w5) = r5
  <2> HIDE DEF q3, f3, c3, s3
  <2> QED
    BY ResponseTimeout
<1>7. ResponseFold!Fold(r5, u2) = r6
  <2> HIDE DEF q3, f3, c3, s3, t3
  <2> QED
    BY ResponseUnknown
<1> HIDE DEF w1, w2, w3, w4, w5, r0, r1, r2, r3, r4, r5, r6
<1>8. ResponseFold!Fold(r0, d2) = r2 /\ d2 \in Seq(Leaf)
  BY <1>1, <1>2, <1>3, ResponseFold!FoldConcat
<1> HIDE DEF d2
<1>9. ResponseFold!Fold(r0, d3) = r3 /\ d3 \in Seq(Leaf)
  BY <1>1, <1>8, <1>4, ResponseFold!FoldConcat
<1> HIDE DEF d3
<1>10. ResponseFold!Fold(r0, d4) = r4 /\ d4 \in Seq(Leaf)
  BY <1>1, <1>9, <1>5, ResponseFold!FoldConcat
<1> HIDE DEF d4
<1>11. ResponseFold!Fold(r0, d5) = r5 /\ d5 \in Seq(Leaf)
  BY <1>1, <1>10, <1>6, ResponseFold!FoldConcat
<1> HIDE DEF d5
<1>12. ResponseFold!Fold(r0, d6) = r6
  BY <1>1, <1>11, <1>7, ResponseFold!FoldConcat
<1> QED
  BY <1>12 DEF d2, d3, d4, d5, w1, w2, w3, w4, w5, r0, r6

\* Reading a response that was written into one that is there is merging the two.
LEMMA ResponseMerged ==
  ASSUME NEW r, NEW q, IsResponse(r), IsResponse(q)
  PROVE  ResponseFold!Fold(r, SerializeResponse(q)) = MergeResponse(r, q)
<1> DEFINE q0 == r.sequence_id
           f == r.failed
           c == r.error_code
           s == r.reason
           t == r.timeout
           u == r.unknown
           q2 == q.sequence_id
           f2 == q.failed
           c2 == q.error_code
           s2 == q.reason
           t2 == q.timeout
           u2 == q.unknown
<1>1. r = ResponseOf(q0, f, c, s, t, u)
  BY ResponseKept
<1>2. /\ q2 \in Int /\ f2 \in BOOLEAN /\ c2 \in Int /\ s2 \in Texts /\ t2 \in BOOLEAN
      /\ u \in Seq(Leaf) /\ u2 \in Seq(Leaf) /\ \A i \in DOMAIN u2 : ~OfResponse(u2[i])
  BY DEF IsResponse
<1>3. SerializeResponse(q) =
        Varint(1, q2) \o Flag(2, f2) \o Varint(3, c2) \o Text(4, s2) \o Flag(5, t2) \o u2
  BY DEF SerializeResponse
<1>4. MergeResponse(r, q) = ResponseOf(Over(q0, q2, 0), Raised(f, f2), Over(c, c2, 0),
                             Over(s, s2, Empty), Raised(t, t2), u \o u2)
  BY DEF MergeResponse, ResponseOf
<1>5. /\ Varint(1, q2) \in Seq(Leaf) /\ Flag(2, f2) \in Seq(Leaf) /\ Varint(3, c2) \in Seq(Leaf)
      /\ Text(4, s2) \in Seq(Leaf) /\ Flag(5, t2) \in Seq(Leaf)
  BY <1>2, VarintIsSeq, TextIsSeq, FlagIsSeq
<1>6. /\ f2 \in BOOLEAN /\ t2 \in BOOLEAN /\ u \in Seq(Leaf) /\ u2 \in Seq(Leaf)
      /\ \A i \in DOMAIN u2 : ~OfResponse(u2[i])
  BY <1>2
<1> HIDE DEF q0, f, c, s, t, u, q2, f2, c2, s2, t2, u2
<1> QED
  BY <1>1, <1>3, <1>4, <1>5, <1>6, ResponseRead

-----------------------------------------------------------------------------
(* The meta: its fields, its submessages, its map.                         *)

MetaOf(t, i, e, q, p, d, u) ==
  [type |-> t, service_id |-> i, encoding |-> e, request_info |-> q, response_info |-> p,
   meta_data |-> d, unknown |-> u]

LEMMA MetaKept ==
  ASSUME NEW m, IsMeta(m)
  PROVE  m = MetaOf(m.type, m.service_id, m.encoding, m.request_info, m.response_info,
                    m.meta_data, m.unknown)
  BY DEF IsMeta, MetaOf

LEMMA MetaKeeps ==
  ASSUME NEW t, NEW i, NEW e, NEW q, NEW p, NEW d, NEW w, NEW x
  PROVE  KeepUnknown(MetaOf(t, i, e, q, p, d, w), x) = MetaOf(t, i, e, q, p, d, Append(w, x))
  BY DEF KeepUnknown, MetaOf

\* What a meta does not know is appended to what it did not know before.
LEMMA MetaUnknown ==
  ASSUME NEW t, NEW i, NEW e, NEW q, NEW p, NEW d, NEW u \in Seq(Field),
         NEW w \in Seq(Field), \A j \in DOMAIN w : ~OfMeta(w[j])
  PROVE  MetaFold!Fold(MetaOf(t, i, e, q, p, d, u), w) = MetaOf(t, i, e, q, p, d, u \o w)
<1> DEFINE n == Len(w)
           part(j) == u \o SubSeq(w, 1, j)
           m == MetaOf(t, i, e, q, p, d, u)
           g == [j \in 0..n |-> MetaOf(t, i, e, q, p, d, part(j))]
<1>1. n \in Nat /\ DOMAIN w = 1..n /\ 0 \in 0..n /\ n \in 0..n
  OBVIOUS
<1>2. part(0) = u /\ part(n) = u \o w
  BY ConcatByOne
<1>3. ASSUME NEW j \in 1..n
      PROVE  part(j) = Append(part(j - 1), w[j])
  BY ConcatByOne
<1> HIDE DEF part, n
<1>4. g[0] = m /\ g[n] = MetaOf(t, i, e, q, p, d, u \o w)
  BY <1>1, <1>2
<1>5. ASSUME NEW j \in 1..n
      PROVE  g[j] = ReadMetaField(g[j - 1], w[j])
  <2>1. j \in 0..n /\ j - 1 \in 0..n
    BY <1>1
  <2>2. ReadMetaField(g[j - 1], w[j]) = KeepUnknown(g[j - 1], w[j])
    <3> HIDE DEF g
    <3> QED
      BY <1>1 DEF ReadMetaField, OfMeta
  <2>3. g[j - 1] = MetaOf(t, i, e, q, p, d, part(j - 1))
    BY <2>1
  <2>4. g[j] = MetaOf(t, i, e, q, p, d, Append(part(j - 1), w[j]))
    BY <2>1, <1>3
  <2> QED
    BY <2>2, <2>3, <2>4, MetaKeeps
<1>6. MetaFold!Trace(g, m, w, n)
  BY <1>4, <1>5 DEF MetaFold!Trace
<1> HIDE DEF g, m
<1>7. MetaFold!Fold(m, w) = g[n]
  BY <1>1, <1>6, MetaFold!FoldIs
<1> QED
  BY <1>4, <1>7 DEF m

LEMMA MetaVarint ==
  ASSUME NEW m, NEW n, NEW v
  PROVE  MetaFold!Fold(m, Varint(n, v)) =
           IF v = 0 THEN m ELSE ReadMetaField(m, [num |-> n, varint |-> v])
  BY MetaFold!FoldEmpty, MetaFold!FoldOne DEF Varint

LEMMA MetaType ==
  ASSUME NEW t, NEW i, NEW e, NEW q, NEW p, NEW d, NEW u, NEW v
  PROVE  MetaFold!Fold(MetaOf(t, i, e, q, p, d, u), Varint(1, v)) =
           MetaOf(Over(t, v, 0), i, e, q, p, d, u)
<1> DEFINE m == MetaOf(t, i, e, q, p, d, u)
           x == [num |-> 1, varint |-> v]
<1>1. ReadMetaField(m, x) = MetaOf(v, i, e, q, p, d, u)
  BY DEF ReadMetaField, Is, MetaOf
<1> HIDE DEF m
<1>2. MetaFold!Fold(m, Varint(1, v)) = IF v = 0 THEN m ELSE ReadMetaField(m, x)
  BY MetaVarint
<1> QED
  BY <1>1, <1>2 DEF Over, m

LEMMA MetaServiceId ==
  ASSUME NEW t, NEW i, NEW e, NEW q, NEW p, NEW d, NEW u, NEW v
  PROVE  MetaFold!Fold(MetaOf(t, i, e, q, p, d, u), Varint(2, v)) =
           MetaOf(t, Over(i, v, 0), e, q, p, d, u)
<1> DEFINE m == MetaOf(t, i, e, q, p, d, u)
           x == [num |-> 2, varint |-> v]
<1>1. ReadMetaField(m, x) = MetaOf(t, v, e, q, p, d, u)
  BY DEF ReadMetaField, Is, MetaOf
<1> HIDE DEF m
<1>2. MetaFold!Fold(m, Varint(2, v)) = IF v = 0 THEN m ELSE ReadMetaField(m, x)
  BY MetaVarint
<1> QED
  BY <1>1, <1>2 DEF Over, m

LEMMA MetaEncoding ==
  ASSUME NEW t, NEW i, NEW e, NEW q, NEW p, NEW d, NEW u, NEW v
  PROVE  MetaFold!Fold(MetaOf(t, i, e, q, p, d, u), Varint(3, v)) =
           MetaOf(t, i, Over(e, v, 0), q, p, d, u)
<1> DEFINE m == MetaOf(t, i, e, q, p, d, u)
           x == [num |-> 3, varint |-> v]
<1>1. ReadMetaField(m, x) = MetaOf(t, i, v, q, p, d, u)
  BY DEF ReadMetaField, Is, MetaOf
<1> HIDE DEF m
<1>2. MetaFold!Fold(m, Varint(3, v)) = IF v = 0 THEN m ELSE ReadMetaField(m, x)
  BY MetaVarint
<1> QED
  BY <1>1, <1>2 DEF Over, m

\* A submessage that may be absent.
IsRequestPtr(ptr)  == ptr = Null \/ (ptr = Ptr(ptr[1]) /\ IsRequest(ptr[1]))
IsResponsePtr(ptr) == ptr = Null \/ (ptr = Ptr(ptr[1]) /\ IsResponse(ptr[1]))

LEMMA NewMessages ==
  IsRequest(NewRequest) /\ IsResponse(NewResponse)
<1>1. <<>> \in Seq(Leaf) /\ DOMAIN <<>> = {}
  OBVIOUS
<1> QED
  BY <1>1, EmptyIsText DEF IsRequest, IsResponse, NewRequest, NewResponse

LEMMA MetaRequest ==
  ASSUME NEW t, NEW i, NEW e, NEW q, NEW p, NEW d, NEW u, NEW r,
         IsRequest(r), IsRequestPtr(q)
  PROVE  MetaFold!Fold(MetaOf(t, i, e, q, p, d, u), Nested(4, SerializeRequest(r))) =
           MetaOf(t, i, e, Ptr(MergeRequest(Deref(q, NewRequest), r)), p, d, u)
<1> DEFINE s == SerializeRequest(r)
           x == [num |-> 4, msg |-> s]
           m == MetaOf(t, i, e, q, p, d, u)
<1>1. IsRequest(Deref(q, NewRequest))
  BY NewMessages DEF Deref, IsRequestPtr
<1>2. ReadRequest(q, s) = Ptr(MergeRequest(Deref(q, NewRequest), r))
  BY <1>1, RequestMerged, RequestFoldLeft DEF ReadRequest
<1> HIDE DEF s
<1>3. ReadMetaField(m, x) = MetaOf(t, i, e, ReadRequest(q, s), p, d, u)
  BY DEF ReadMetaField, Is, MetaOf
<1>4. MetaFold!Fold(m, <<x>>) = ReadMetaField(m, x)
  BY MetaFold!FoldOne
<1> QED
  BY <1>2, <1>3, <1>4 DEF Nested, s

LEMMA MetaResponse ==
  ASSUME NEW t, NEW i, NEW e, NEW q, NEW p, NEW d, NEW u, NEW r,
         IsResponse(r), IsResponsePtr(p)
  PROVE  MetaFold!Fold(MetaOf(t, i, e, q, p, d, u), Nested(5, SerializeResponse(r))) =
           MetaOf(t, i, e, q, Ptr(MergeResponse(Deref(p, NewResponse), r)), d, u)
<1> DEFINE s == SerializeResponse(r)
           x == [num |-> 5, msg |-> s]
           m == MetaOf(t, i, e, q, p, d, u)
<1>1. IsResponse(Deref(p, NewResponse))
  BY NewMessages DEF Deref, IsResponsePtr
<1>2. ReadResponse(p, s) = Ptr(MergeResponse(Deref(p, NewResponse), r))
  BY <1>1, ResponseMerged, ResponseFoldLeft DEF ReadResponse
<1> HIDE DEF s
<1>3. ReadMetaField(m, x) = MetaOf(t, i, e, q, ReadResponse(p, s), d, u)
  BY DEF ReadMetaField, Is, MetaOf
<1>4. MetaFold!Fold(m, <<x>>) = ReadMetaField(m, x)
  BY MetaFold!FoldOne
<1> QED
  BY <1>2, <1>3, <1>4 DEF Nested, s

\* One entry of a map.
LEMMA EntryRead ==
  ASSUME NEW map, NEW k, NEW v
  PROVE  ReadEntry(map, Entry(k, v).msg) =
           [x \in DOMAIN map \cup {k} |-> IF x = k THEN v ELSE map[x]]
<1> DEFINE a == [num |-> 1, bytes |-> k]
           b == [num |-> 2, bytes |-> v]
<1>1. Entry(k, v).msg = <<a, b>>
  BY DEF Entry
<1>2. EntryKey(Empty, a) = k /\ EntryKey(k, b) = k
  BY DEF EntryKey, Is
<1>3. EntryValue(Empty, a) = Empty /\ EntryValue(Empty, b) = v
  BY DEF EntryValue, Is
<1> HIDE DEF a, b
<1>4. FoldLeft(EntryKey, Empty, <<a, b>>) = k
  <2>1. FoldLeft(EntryKey, Empty, <<a, b>>) = KeyFold!Fold(Empty, <<a, b>>)
    BY KeyFoldLeft
  <2>2. KeyFold!Fold(Empty, <<a, b>>) = EntryKey(EntryKey(Empty, a), b)
    BY KeyFold!FoldTwo
  <2> QED
    BY <1>2, <2>1, <2>2
<1>5. FoldLeft(EntryValue, Empty, <<a, b>>) = v
  <2>1. FoldLeft(EntryValue, Empty, <<a, b>>) = ValueFold!Fold(Empty, <<a, b>>)
    BY ValueFoldLeft
  <2>2. ValueFold!Fold(Empty, <<a, b>>) = EntryValue(EntryValue(Empty, a), b)
    BY ValueFold!FoldTwo
  <2> QED
    BY <1>3, <2>1, <2>2
<1> QED
  BY <1>1, <1>4, <1>5 DEF ReadEntry

\* What one entry does to the map of a meta.
LEMMA MetaEntry ==
  ASSUME NEW t, NEW i, NEW e, NEW q, NEW p, NEW d, NEW u, NEW k, NEW v
  PROVE  ReadMetaField(MetaOf(t, i, e, q, p, d, u), Entry(k, v)) =
           MetaOf(t, i, e, q, p, ReadEntry(d, Entry(k, v).msg), u)
<1> DEFINE s == Entry(k, v).msg
           m == MetaOf(t, i, e, q, p, d, u)
           x == [num |-> 6, msg |-> s]
<1>1. Entry(k, v) = x
  BY DEF Entry
<1> HIDE DEF s
<1>2. ReadMetaField(m, x) = MetaOf(t, i, e, q, p, ReadEntry(d, s), u)
  BY DEF ReadMetaField, Is, MetaOf
<1> QED
  BY <1>1, <1>2 DEF s

\* The entries of a map, in an order.
EntriesOf(map) == {Entry(k, map[k]) : k \in DOMAIN map}
KeyOf(x)       == x.msg[1].bytes

LEMMA EntriesInOrder ==
  ASSUME NEW map, IsMap(map), NEW z, z = SetToSeq(EntriesOf(map))
  PROVE  \E n \in Nat :
           /\ z \in [1..n -> EntriesOf(map)]
           /\ \A j \in 1..n :
                KeyOf(z[j]) \in DOMAIN map /\ z[j] = Entry(KeyOf(z[j]), map[KeyOf(z[j])])
           /\ DOMAIN map = {KeyOf(z[j]) : j \in 1..n}
<1> DEFINE E == EntriesOf(map)
           f == [k \in DOMAIN map |-> Entry(k, map[k])]
           n == Cardinality(E)
<1>1. IsFiniteSet(E)
  <2>1. f \in Surjection(DOMAIN map, E)
    BY DEF Surjection, EntriesOf
  <2>2. IsFiniteSet(DOMAIN map)
    BY DEF IsMap
  <2> QED
    BY <2>1, <2>2, FS_Surjection
<1> HIDE DEF E
<1>2. /\ n \in Nat /\ z \in [1..n -> E]
      /\ \A x \in E : \E j \in 1..n : z[j] = x
  <2>1. n \in Nat /\ \E h \in [1..n -> E] : IsInjective(h)
    BY <1>1, Enumeration DEF IsInjective
  <2>2. z \in [1..n -> E] /\ IsInjective(z)
    BY <2>1 DEF SetToSeq, E
  <2>3. \A x \in E : \E j \in 1..n : z[j] = x
    BY <1>1, <2>2, Enumeration DEF IsInjective
  <2> QED
    BY <2>1, <2>2, <2>3
<1>3. \A k : KeyOf(Entry(k, map[k])) = k
  BY DEF KeyOf, Entry
<1>4. ASSUME NEW j \in 1..n
      PROVE  KeyOf(z[j]) \in DOMAIN map /\ z[j] = Entry(KeyOf(z[j]), map[KeyOf(z[j])])
  <2>1. PICK k \in DOMAIN map : z[j] = Entry(k, map[k])
    BY <1>2 DEF E, EntriesOf
  <2> QED
    BY <1>3, <2>1
<1>5. ASSUME NEW k \in DOMAIN map
      PROVE  k \in {KeyOf(z[j]) : j \in 1..n}
  <2>1. PICK j \in 1..n : z[j] = Entry(k, map[k])
    BY <1>2 DEF E, EntriesOf
  <2> QED
    BY <1>3, <2>1
<1> HIDE DEF n
<1>6. DOMAIN map = {KeyOf(z[j]) : j \in 1..n}
  <2>1. {KeyOf(z[j]) : j \in 1..n} \subseteq DOMAIN map
    BY <1>4
  <2>2. DOMAIN map \subseteq {KeyOf(z[j]) : j \in 1..n}
    BY <1>5
  <2> QED
    BY <2>1, <2>2
<1> QED
  BY <1>2, <1>4, <1>6 DEF E

LEMMA MetaEntries ==
  ASSUME NEW t, NEW i, NEW e, NEW q, NEW p, NEW d, NEW u, NEW map,
         IsMap(d), IsMap(map)
  PROVE  MetaFold!Fold(MetaOf(t, i, e, q, p, d, u), SetToSeq(EntriesOf(map))) =
           MetaOf(t, i, e, q, p, MergeMaps(d, map), u)
<1> DEFINE z == SetToSeq(EntriesOf(map))
<1>1. PICK n \in Nat :
           /\ z \in [1..n -> EntriesOf(map)]
           /\ \A j \in 1..n :
                KeyOf(z[j]) \in DOMAIN map /\ z[j] = Entry(KeyOf(z[j]), map[KeyOf(z[j])])
           /\ DOMAIN map = {KeyOf(z[j]) : j \in 1..n}
  BY EntriesInOrder
<1> HIDE DEF z
<1> DEFINE seen(j) == {KeyOf(z[x]) : x \in 1..j}
           part(j) == [k \in DOMAIN d \cup seen(j) |-> IF k \in seen(j) THEN map[k] ELSE d[k]]
           m == MetaOf(t, i, e, q, p, d, u)
           g == [j \in 0..n |-> MetaOf(t, i, e, q, p, part(j), u)]
<1>2. part(0) = d
  <2>1. seen(0) = {} /\ d = [k \in DOMAIN d |-> d[k]]
    BY DEF IsMap
  <2> HIDE DEF seen
  <2> QED
    BY <2>1
<1>3. part(n) = MergeMaps(d, map)
  <2>1. seen(n) = DOMAIN map
    BY <1>1
  <2> HIDE DEF seen
  <2> QED
    BY <2>1 DEF MergeMaps
<1>4. ASSUME NEW j \in 1..n
      PROVE  ReadEntry(part(j - 1), z[j].msg) = part(j)
  <2> DEFINE k == KeyOf(z[j])
  <2>1. z[j] = Entry(k, map[k])
    BY <1>1
  <2>2. seen(j) = seen(j - 1) \cup {k}
    OBVIOUS
  <2> HIDE DEF seen, k
  <2>3. ReadEntry(part(j - 1), z[j].msg) =
          [x \in DOMAIN part(j - 1) \cup {k} |-> IF x = k THEN map[k] ELSE part(j - 1)[x]]
    <3> DEFINE old == part(j - 1)
               v   == map[k]
    <3> HIDE DEF old, v
    <3>1. ReadEntry(old, Entry(k, v).msg) =
          [x \in DOMAIN old \cup {k} |-> IF x = k THEN v ELSE old[x]]
      BY EntryRead
    <3> QED
      BY <2>1, <3>1 DEF old, v
  <2> QED
    BY <2>2, <2>3
<1> HIDE DEF part, seen
<1>5. ASSUME NEW j \in 1..n
      PROVE  g[j] = ReadMetaField(g[j - 1], z[j])
  <2>1. j \in 0..n /\ j - 1 \in 0..n
    OBVIOUS
  <2>2. z[j] = Entry(KeyOf(z[j]), map[KeyOf(z[j])])
    BY <1>1
  <2>3. g[j - 1] = MetaOf(t, i, e, q, p, part(j - 1), u) /\ g[j] = MetaOf(t, i, e, q, p, part(j), u)
    BY <2>1
  <2> HIDE DEF g
  <2>4. ReadMetaField(g[j - 1], z[j]) = MetaOf(t, i, e, q, p, ReadEntry(part(j - 1), z[j].msg), u)
    BY <2>2, <2>3, MetaEntry
  <2> QED
    BY <2>3, <2>4, <1>4
<1>6. g[0] = m /\ g[n] = MetaOf(t, i, e, q, p, MergeMaps(d, map), u)
  BY <1>2, <1>3
<1>7. MetaFold!Trace(g, m, z, n)
  BY <1>5, <1>6 DEF MetaFold!Trace
<1>8. DOMAIN z = 1..n
  BY <1>1
<1> HIDE DEF g, m
<1>9. MetaFold!Fold(m, z) = g[n]
  BY <1>7, <1>8, MetaFold!FoldIs
<1> QED
  BY <1>6, <1>9 DEF m, z

\* What is written of a submessage that may be absent, and how two of them merge.
RequestPart(ptr)  == IF ptr = Null THEN <<>> ELSE Nested(4, SerializeRequest(ptr[1]))
ResponsePart(ptr) == IF ptr = Null THEN <<>> ELSE Nested(5, SerializeResponse(ptr[1]))

MergeRequestPtr(ptr, from) ==
  IF from = Null THEN ptr ELSE Ptr(MergeRequest(Deref(ptr, NewRequest), from[1]))
MergeResponsePtr(ptr, from) ==
  IF from = Null THEN ptr ELSE Ptr(MergeResponse(Deref(ptr, NewResponse), from[1]))

LEMMA MetaRequestPart ==
  ASSUME NEW t, NEW i, NEW e, NEW q, NEW p, NEW d, NEW u, NEW r,
         IsRequestPtr(q), IsRequestPtr(r)
  PROVE  MetaFold!Fold(MetaOf(t, i, e, q, p, d, u), RequestPart(r)) =
           MetaOf(t, i, e, MergeRequestPtr(q, r), p, d, u)
<1>1. CASE r = Null
  BY <1>1, MetaFold!FoldEmpty DEF RequestPart, MergeRequestPtr
<1>2. CASE r # Null
  <2>1. IsRequest(r[1])
    BY <1>2 DEF IsRequestPtr
  <2>2. MetaFold!Fold(MetaOf(t, i, e, q, p, d, u), Nested(4, SerializeRequest(r[1]))) =
          MetaOf(t, i, e, Ptr(MergeRequest(Deref(q, NewRequest), r[1])), p, d, u)
    BY <2>1, MetaRequest
  <2> QED
    BY <1>2, <2>2 DEF RequestPart, MergeRequestPtr
<1> QED
  BY <1>1, <1>2

LEMMA MetaResponsePart ==
  ASSUME NEW t, NEW i, NEW e, NEW q, NEW p, NEW d, NEW u, NEW r,
         IsResponsePtr(p), IsResponsePtr(r)
  PROVE  MetaFold!Fold(MetaOf(t, i, e, q, p, d, u), ResponsePart(r)) =
           MetaOf(t, i, e, q, MergeResponsePtr(p, r), d, u)
<1>1. CASE r = Null
  BY <1>1, MetaFold!FoldEmpty DEF ResponsePart, MergeResponsePtr
<1>2. CASE r # Null
  <2>1. IsResponse(r[1])
    BY <1>2 DEF IsResponsePtr
  <2>2. MetaFold!Fold(MetaOf(t, i, e, q, p, d, u), Nested(5, SerializeResponse(r[1]))) =
          MetaOf(t, i, e, q, Ptr(MergeResponse(Deref(p, NewResponse), r[1])), d, u)
    BY <2>1, MetaResponse
  <2> QED
    BY <1>2, <2>2 DEF ResponsePart, MergeResponsePtr
<1> QED
  BY <1>1, <1>2

\* The parts of a meta are sequences of fields.
LEMMA RequestIsSeq ==
  ASSUME NEW r, IsRequest(r)
  PROVE  SerializeRequest(r) \in Seq(Leaf)
<1>1. /\ r.intMethod \in Int /\ r.sequence_id \in Int /\ r.timeout \in Int
      /\ r.strMethod \in Texts /\ r.unknown \in Seq(Leaf)
  BY DEF IsRequest
<1>2. /\ Varint(1, r.intMethod) \in Seq(Leaf) /\ Varint(4, r.sequence_id) \in Seq(Leaf)
      /\ Varint(5, r.timeout) \in Seq(Leaf)
  BY <1>1, VarintIsSeq
<1>3. Text(2, r.strMethod) \in Seq(Leaf)
  BY <1>1, TextIsSeq
<1>4. Flag(3, r.expect_response) \in Seq(Leaf)
  BY FlagIsSeq
<1>5. r.unknown \in Seq(Leaf)
  BY <1>1
<1> QED
  BY <1>2, <1>3, <1>4, <1>5 DEF SerializeRequest

LEMMA ResponseIsSeq ==
  ASSUME NEW r, IsResponse(r)
  PROVE  SerializeResponse(r) \in Seq(Leaf)
<1>1. /\ r.sequence_id \in Int /\ r.error_code \in Int
      /\ r.reason \in Texts /\ r.unknown \in Seq(Leaf)
  BY DEF IsResponse
<1>2. /\ Varint(1, r.sequence_id) \in Seq(Leaf) /\ Varint(3, r.error_code) \in Seq(Leaf)
  BY <1>1, VarintIsSeq
<1>3. Text(4, r.reason) \in Seq(Leaf)
  BY <1>1, TextIsSeq
<1>4. Flag(2, r.failed) \in Seq(Leaf) /\ Flag(5, r.timeout) \in Seq(Leaf)
  BY FlagIsSeq
<1>5. r.unknown \in Seq(Leaf)
  BY <1>1
<1> QED
  BY <1>2, <1>3, <1>4, <1>5 DEF SerializeResponse

LEMMA FieldSeqs ==
  /\ \A s \in Seq(Leaf) : s \in Seq(Field)
  /\ \A n, s : n \in Nat /\ s \in Seq(Leaf) => Nested(n, s) \in Seq(Field)
<1>1. Leaf \subseteq Field
  BY DEF Field
<1>2. ASSUME NEW s \in Seq(Leaf)
      PROVE  s \in Seq(Field)
  <2>1. \A i \in 1..Len(s) : s[i] \in Field
    BY <1>1
  <2> QED
    BY <2>1
<1>3. ASSUME NEW n, NEW s, n \in Nat, s \in Seq(Leaf)
      PROVE  Nested(n, s) \in Seq(Field)
  <2> DEFINE x == [num |-> n, msg |-> s]
  <2>1. x \in Field
    BY <1>3 DEF Field
  <2> HIDE DEF x
  <2>2. <<x>> \in Seq(Field)
    BY <2>1
  <2> QED
    BY <2>2 DEF Nested, x
<1> QED
  BY <1>2, <1>3

LEMMA EntriesAreSeq ==
  ASSUME NEW map, IsMap(map)
  PROVE  SetToSeq(EntriesOf(map)) \in Seq(Field)
<1>1. ASSUME NEW k \in DOMAIN map
      PROVE  Entry(k, map[k]) \in Field
  <2> DEFINE a == [num |-> 1, bytes |-> k]
             b == [num |-> 2, bytes |-> map[k]]
  <2>1. a \in Leaf /\ b \in Leaf
    BY DEF IsMap, Leaf
  <2> HIDE DEF a, b
  <2>2. <<a, b>> \in Seq(Leaf)
    BY <2>1
  <2>3. Entry(k, map[k]) = [num |-> 6, msg |-> <<a, b>>]
    BY DEF Entry, a, b
  <2> QED
    BY <2>2, <2>3 DEF Field
<1>2. EntriesOf(map) \subseteq Field
  BY <1>1 DEF EntriesOf
<1> DEFINE z == SetToSeq(EntriesOf(map))
<1>3. PICK n \in Nat : z \in [1..n -> EntriesOf(map)]
  BY EntriesInOrder
<1> HIDE DEF z
<1> QED
  BY <1>2, <1>3 DEF z

\* Reading what was written of a meta, field by field.
LEMMA MetaRead ==
  ASSUME NEW t, NEW i, NEW e, NEW q, NEW p, NEW d, NEW u \in Seq(Field),
         NEW t2, NEW i2, NEW e2, NEW q2, NEW p2, NEW d2, NEW u2 \in Seq(Field),
         Varint(1, t2) \in Seq(Field), Varint(2, i2) \in Seq(Field), Varint(3, e2) \in Seq(Field),
         RequestPart(q2) \in Seq(Field), ResponsePart(p2) \in Seq(Field),
         SetToSeq(EntriesOf(d2)) \in Seq(Field),
         IsRequestPtr(q), IsRequestPtr(q2), IsResponsePtr(p), IsResponsePtr(p2),
         IsMap(d), IsMap(d2), \A j \in DOMAIN u2 : ~OfMeta(u2[j])
  PROVE  MetaFold!Fold(MetaOf(t, i, e, q, p, d, u),
             Varint(1, t2) \o Varint(2, i2) \o Varint(3, e2) \o RequestPart(q2)
               \o ResponsePart(p2) \o SetToSeq(EntriesOf(d2)) \o u2)
           = MetaOf(Over(t, t2, 0), Over(i, i2, 0), Over(e, e2, 0), MergeRequestPtr(q, q2),
                    MergeResponsePtr(p, p2), MergeMaps(d, d2), u \o u2)
<1> DEFINE w1 == Varint(1, t2)
           w2 == Varint(2, i2)
           w3 == Varint(3, e2)
           w4 == RequestPart(q2)
           w5 == ResponsePart(p2)
           w6 == SetToSeq(EntriesOf(d2))
           t3 == Over(t, t2, 0)
           i3 == Over(i, i2, 0)
           e3 == Over(e, e2, 0)
           q3 == MergeRequestPtr(q, q2)
           p3 == MergeResponsePtr(p, p2)
           d3 == MergeMaps(d, d2)
           c2 == w1 \o w2
           c3 == c2 \o w3
           c4 == c3 \o w4
           c5 == c4 \o w5
           c6 == c5 \o w6
           c7 == c6 \o u2
           m0 == MetaOf(t, i, e, q, p, d, u)
           m1 == MetaOf(t3, i, e, q, p, d, u)
           m2 == MetaOf(t3, i3, e, q, p, d, u)
           m3 == MetaOf(t3, i3, e3, q, p, d, u)
           m4 == MetaOf(t3, i3, e3, q3, p, d, u)
           m5 == MetaOf(t3, i3, e3, q3, p3, d, u)
           m6 == MetaOf(t3, i3, e3, q3, p3, d3, u)
           m7 == MetaOf(t3, i3, e3, q3, p3, d3, u \o u2)
<1>1. /\ w1 \in Seq(Field) /\ w2 \in Seq(Field) /\ w3 \in Seq(Field)
      /\ w4 \in Seq(Field) /\ w5 \in Seq(Field) /\ w6 \in Seq(Field)
  OBVIOUS
<1>2. MetaFold!Fold(m0, w1) = m1
  BY MetaType
<1>3. MetaFold!Fold(m1, w2) = m2
  <2> HIDE DEF t3
  <2> QED
    BY MetaServiceId
<1>4. MetaFold!Fold(m2, w3) = m3
  <2> HIDE DEF t3, i3
  <2> QED
    BY MetaEncoding
<1>5. MetaFold!Fold(m3, w4) = m4
  <2> HIDE DEF t3, i3, e3
  <2> QED
    BY MetaRequestPart
<1>6. MetaFold!Fold(m4, w5) = m5
  <2> HIDE DEF t3, i3, e3, q3
  <2> QED
    BY MetaResponsePart
<1>7. MetaFold!Fold(m5, w6) = m6
  <2> HIDE DEF t3, i3, e3, q3, p3
  <2> QED
    BY MetaEntries
<1>8. MetaFold!Fold(m6, u2) = m7
  <2> HIDE DEF t3, i3, e3, q3, p3, d3
  <2> QED
    BY MetaUnknown
<1> HIDE DEF w1, w2, w3, w4, w5, w6, m0, m1, m2, m3, m4, m5, m6, m7
<1>9. MetaFold!Fold(m0, c2) = m2 /\ c2 \in Seq(Field)
  BY <1>1, <1>2, <1>3, MetaFold!FoldConcat
<1> HIDE DEF c2
<1>10. MetaFold!Fold(m0, c3) = m3 /\ c3 \in Seq(Field)
  BY <1>1, <1>9, <1>4, MetaFold!FoldConcat
<1> HIDE DEF c3
<1>11. MetaFold!Fold(m0, c4) = m4 /\ c4 \in Seq(Field)
  BY <1>1, <1>10, <1>5, MetaFold!FoldConcat
<1> HIDE DEF c4
<1>12. MetaFold!Fold(m0, c5) = m5 /\ c5 \in Seq(Field)
  BY <1>1, <1>11, <1>6, MetaFold!FoldConcat
<1> HIDE DEF c5
<1>13. MetaFold!Fold(m0, c6) = m6 /\ c6 \in Seq(Field)
  BY <1>1, <1>12, <1>7, MetaFold!FoldConcat
<1> HIDE DEF c6
<1>14. MetaFold!Fold(m0, c7) = m7 /\ c7 \in Seq(Field)
  BY <1>1, <1>13, <1>8, MetaFold!FoldConcat
<1> QED
  BY <1>14 DEF c2, c3, c4, c5, c6, w1, w2, w3, w4, w5, w6, m0, m7

\* Reading a meta that was written into one that is there is merging the two.
LEMMA MetaMerged ==
  ASSUME NEW m, NEW n, IsMeta(m), IsMeta(n)
  PROVE  MetaFold!Fold(m, SerializeMeta(n)) = Merge(m, n) /\ SerializeMeta(n) \in Seq(Field)
<1> DEFINE t == m.type
           i == m.service_id
           e == m.encoding
           q == m.request_info
           p == m.response_info
           d == m.meta_data
           u == m.unknown
           t2 == n.type
           i2 == n.service_id
           e2 == n.encoding
           q2 == n.request_info
           p2 == n.response_info
           d2 == n.meta_data
           u2 == n.unknown
           s == Varint(1, t2) \o Varint(2, i2) \o Varint(3, e2) \o RequestPart(q2)
                  \o ResponsePart(p2) \o SetToSeq(EntriesOf(d2)) \o u2
<1>1. m = MetaOf(t, i, e, q, p, d, u)
  BY MetaKept
<1>2. /\ IsRequestPtr(q) /\ IsRequestPtr(q2) /\ IsResponsePtr(p) /\ IsResponsePtr(p2)
      /\ IsMap(d) /\ IsMap(d2) /\ \A j \in DOMAIN u2 : ~OfMeta(u2[j])
      /\ u \in Seq(Field) /\ u2 \in Seq(Field)
  BY DEF IsMeta, IsRequestPtr, IsResponsePtr
<1>3. SerializeMeta(n) = s
  BY DEF SerializeMeta, RequestPart, ResponsePart, EntriesOf
<1>4. Merge(m, n) = MetaOf(Over(t, t2, 0), Over(i, i2, 0), Over(e, e2, 0),
                           MergeRequestPtr(q, q2), MergeResponsePtr(p, p2),
                           MergeMaps(d, d2), u \o u2)
  BY DEF Merge, MetaOf, REQUEST, BINARY, MergeRequestPtr, MergeResponsePtr,
         request_info, response_info
<1>5. /\ Varint(1, t2) \in Seq(Field) /\ Varint(2, i2) \in Seq(Field)
      /\ Varint(3, e2) \in Seq(Field)
  <2>1. t2 \in Int /\ i2 \in Int /\ e2 \in Int
    BY DEF IsMeta
  <2> QED
    BY <2>1, VarintIsSeq, FieldSeqs
<1>6. RequestPart(q2) \in Seq(Field)
  <2>1. CASE q2 = Null
    BY <2>1 DEF RequestPart
  <2>2. CASE q2 # Null
    <3>1. IsRequest(q2[1])
      BY <1>2, <2>2 DEF IsRequestPtr
    <3> QED
      BY <2>2, <3>1, RequestIsSeq, FieldSeqs DEF RequestPart
  <2> QED
    BY <2>1, <2>2
<1>7. ResponsePart(p2) \in Seq(Field)
  <2>1. CASE p2 = Null
    BY <2>1 DEF ResponsePart
  <2>2. CASE p2 # Null
    <3>1. IsResponse(p2[1])
      BY <1>2, <2>2 DEF IsResponsePtr
    <3> QED
      BY <2>2, <3>1, ResponseIsSeq, FieldSeqs DEF ResponsePart
  <2> QED
    BY <2>1, <2>2
<1>8. SetToSeq(EntriesOf(d2)) \in Seq(Field)
  BY <1>2, EntriesAreSeq
<1> HIDE DEF t, i, e, q, p, d, u, t2, i2, e2, q2, p2, d2, u2
<1>9. s \in Seq(Field)
  BY <1>2, <1>5, <1>6, <1>7, <1>8
<1>10. MetaFold!Fold(MetaOf(t, i, e, q, p, d, u), s)
         = MetaOf(Over(t, t2, 0), Over(i, i2, 0), Over(e, e2, 0),
                  MergeRequestPtr(q, q2), MergeResponsePtr(p, p2), MergeMaps(d, d2), u \o u2)
  BY <1>2, <1>5, <1>6, <1>7, <1>8, MetaRead
<1> HIDE DEF s
<1> QED
  BY <1>1, <1>3, <1>4, <1>9, <1>10

LEMMA NewMetaIsMeta ==
  IsMeta(NewMeta)
<1>1. <<>> \in Seq(Field) /\ DOMAIN <<>> = {}
  OBVIOUS
<1>2. IsMap([k \in {} |-> Empty])
  BY FS_EmptySet DEF IsMap
<1> QED
  BY <1>1, <1>2 DEF IsMeta, NewMeta, REQUEST, BINARY, Null

\* A request merged into a fresh one is copied.
LEMMA RequestCopied ==
  ASSUME NEW r, IsRequest(r)
  PROVE  MergeRequest(NewRequest, r) = r
<1>1. <<>> \o r.unknown = r.unknown
  BY DEF IsRequest
<1>2. Raised(FALSE, r.expect_response) = r.expect_response
  BY DEF IsRequest, Raised
<1> QED
  BY <1>1, <1>2, RequestKept DEF MergeRequest, NewRequest, Over, RequestOf

LEMMA ResponseCopied ==
  ASSUME NEW r, IsResponse(r)
  PROVE  MergeResponse(NewResponse, r) = r
<1>1. <<>> \o r.unknown = r.unknown
  BY DEF IsResponse
<1>2. Raised(FALSE, r.failed) = r.failed /\ Raised(FALSE, r.timeout) = r.timeout
  BY DEF IsResponse, Raised
<1> QED
  BY <1>1, <1>2, ResponseKept DEF MergeResponse, NewResponse, Over, ResponseOf

\* A copy is equal to what it was made of.
THEOREM CopyIsEqual ==
  ASSUME NEW m, IsMeta(m)
  PROVE  CopyOf(m) = m
<1>1. m = MetaOf(m.type, m.service_id, m.encoding, m.request_info, m.response_info,
                 m.meta_data, m.unknown)
  BY MetaKept
<1>2. <<>> \o m.unknown = m.unknown
  BY DEF IsMeta
<1>3. MergeMaps([k \in {} |-> Empty], m.meta_data) = m.meta_data
  BY DEF MergeMaps, IsMeta, IsMap
<1>4. MergeRequestPtr(Null, m.request_info) = m.request_info
  BY RequestCopied DEF IsMeta, MergeRequestPtr, Deref
<1>5. MergeResponsePtr(Null, m.response_info) = m.response_info
  BY ResponseCopied DEF IsMeta, MergeResponsePtr, Deref
<1>6. Merge(NewMeta, m) =
        MetaOf(Over(REQUEST, m.type, REQUEST), Over(0, m.service_id, 0),
               Over(BINARY, m.encoding, BINARY),
               MergeRequestPtr(Null, m.request_info), MergeResponsePtr(Null, m.response_info),
               MergeMaps([k \in {} |-> Empty], m.meta_data), <<>> \o m.unknown)
  BY DEF Merge, NewMeta, MetaOf, MergeRequestPtr, MergeResponsePtr, request_info, response_info
<1>7. /\ Over(REQUEST, m.type, REQUEST) = m.type
      /\ Over(0, m.service_id, 0) = m.service_id
      /\ Over(BINARY, m.encoding, BINARY) = m.encoding
  BY DEF Over
<1> QED
  BY <1>1, <1>2, <1>3, <1>4, <1>5, <1>6, <1>7 DEF CopyOf

\* What is parsed is what was written, whatever the message holds.
THEOREM ParsedIsWritten ==
  ASSUME NEW m, IsMeta(m)
  PROVE  ParseMeta(SerializeMeta(m)) = m
  BY MetaMerged, NewMetaIsMeta, CopyIsEqual, MetaFoldLeft DEF ParseMeta, CopyOf

\* Two messages that were written one after the other are read as their merge.
THEOREM ConcatenationIsMerge ==
  ASSUME NEW m, NEW n, IsMeta(m), IsMeta(n)
  PROVE  ParseMeta(SerializeMeta(m) \o SerializeMeta(n)) = Merge(m, n)
<1>1. ParseMeta(SerializeMeta(m) \o SerializeMeta(n)) =
        MetaFold!Fold(NewMeta, SerializeMeta(m) \o SerializeMeta(n))
  BY MetaFoldLeft DEF ParseMeta
<1>2. SerializeMeta(m) \in Seq(Field) /\ SerializeMeta(n) \in Seq(Field)
  BY MetaMerged
<1>3. MetaFold!Fold(NewMeta, SerializeMeta(m)) = m
  BY MetaMerged, NewMetaIsMeta, CopyIsEqual DEF CopyOf
<1>4. MetaFold!Fold(m, SerializeMeta(n)) = Merge(m, n)
  BY MetaMerged
<1> QED
  BY <1>1, <1>2, <1>3, <1>4, MetaFold!FoldConcat

-----------------------------------------------------------------------------
(* Sizes.  A total is a fold of Plus; the lemmas give the trace of one fold *)
(* from that of another instead of counting through the positions anew.     *)

SumFold == INSTANCE Folding WITH op <- Plus

IteratesSum(iter, b, s, S) ==
  iter = [d \in SUBSET S |-> IF d = {} THEN b ELSE Plus(iter[d \ {Max(d)}], s[Max(d)])]

LEMMA SumFoldLeft ==
  ASSUME NEW s
  PROVE  Total(s) = SumFold!Fold(0, s)
<1>1. FoldLeft(Plus, 0, s) = (CHOOSE iter : IteratesSum(iter, 0, s, DOMAIN s))[DOMAIN s]
  BY DEF FoldLeft, MapThenFoldSet, IteratesSum
<1>2. ASSUME NEW iter
      PROVE  IteratesSum(iter, 0, s, DOMAIN s) <=> SumFold!Iterates(iter, 0, s, DOMAIN s)
  BY DEF IteratesSum, SumFold!Iterates, SumFold!Last, Max
<1>3. (CHOOSE iter : IteratesSum(iter, 0, s, DOMAIN s)) =
        (CHOOSE iter : SumFold!Iterates(iter, 0, s, DOMAIN s))
  BY <1>2
<1> QED
  BY <1>1, <1>3 DEF SumFold!Fold, Total

\* The partial sums of n numbers.
Partial(g, s, n) ==
  /\ g \in [0..n -> Nat]
  /\ g[0] = 0
  /\ \A i \in 1..n : g[i] = g[i - 1] + s[i]

LEMMA PartialSums ==
  ASSUME NEW n \in Nat, NEW s \in [1..n -> Nat]
  PROVE  \E g : Partial(g, s, n) /\ Total(s) = g[n]
<1>1. PICK f : SumFold!Trace(f, 0, s, n) /\ SumFold!Fold(0, s) = f[n]
  BY SumFold!FoldHasTrace
<1> DEFINE g == [i \in 0..n |-> f[i]]
<1>2. g[0] = 0 /\ \A i \in 1..n : g[i] = g[i - 1] + s[i]
  BY <1>1 DEF SumFold!Trace, Plus
<1>5. g[n] = f[n] /\ g = [i \in 0..n |-> g[i]]
  OBVIOUS
<1> HIDE DEF g
<1> DEFINE T == {i \in 0..n : g[i] \notin Nat}
<1>3. ASSUME T # {} PROVE FALSE
  <2>1. T \subseteq Nat
    OBVIOUS
  <2>2. PICK x \in T : \A y \in T : x <= y
    <3> HIDE DEF T
    <3> QED
      BY <1>3, <2>1, SumFold!Least
  <2>3. x \in 1..n /\ x - 1 \in 0..n /\ x - 1 < x
    BY <1>2
  <2>4. g[x - 1] \in Nat
    BY <2>2, <2>3
  <2>5. s[x] \in Nat /\ g[x] = g[x - 1] + s[x]
    BY <1>2, <2>3
  <2> QED
    BY <2>4, <2>5
<1>4. \A i \in 0..n : g[i] \in Nat
  BY <1>3
<1> QED
  BY <1>1, <1>2, <1>4, <1>5, SumFoldLeft DEF Partial

LEMMA TotalIs ==
  ASSUME NEW n \in Nat, NEW s \in [1..n -> Nat], NEW g, Partial(g, s, n)
  PROVE  Total(s) = g[n] /\ g[n] \in Nat
<1>1. SumFold!Trace(g, 0, s, n)
  BY DEF SumFold!Trace, Partial, Plus
<1> QED
  BY <1>1, SumFoldLeft, SumFold!FoldIs DEF Partial

LEMMA TotalIsNat ==
  ASSUME NEW n \in Nat, NEW s \in [1..n -> Nat]
  PROVE  Total(s) \in Nat
  BY PartialSums, TotalIs

LEMMA TotalEmpty ==
  Total(<<>>) = 0
  BY SumFoldLeft, SumFold!FoldEmpty

LEMMA TotalOne ==
  ASSUME NEW a \in Nat
  PROVE  Total(<<a>>) = a
  BY SumFoldLeft, SumFold!FoldOne DEF Plus

\* A total goes over a concatenation.
LEMMA TotalConcat ==
  ASSUME NEW s \in Seq(Nat), NEW t \in Seq(Nat)
  PROVE  Total(s \o t) = Total(s) + Total(t)
<1> DEFINE n == Len(t)
<1>1. n \in Nat /\ t \in [1..n -> Nat] /\ Len(s) \in Nat /\ s \in [1..Len(s) -> Nat]
  OBVIOUS
<1>2. PICK g : Partial(g, t, n) /\ Total(t) = g[n]
  BY <1>1, PartialSums
<1> DEFINE b == Total(s)
           h == [i \in 0..n |-> b + g[i]]
<1>3. b \in Nat
  BY <1>1, TotalIsNat
<1> HIDE DEF b
<1>4. SumFold!Trace(h, b, t, n)
  <2>1. h[0] = b
    BY <1>2, <1>3 DEF Partial
  <2>2. ASSUME NEW i \in 1..n
        PROVE  h[i] = Plus(h[i - 1], t[i])
    <3>1. i \in 0..n /\ i - 1 \in 0..n /\ t[i] \in Nat
      OBVIOUS
    <3>2. g[i] = g[i - 1] + t[i] /\ g[i - 1] \in Nat
      BY <1>2, <3>1 DEF Partial
    <3>3. h[i] = b + g[i] /\ h[i - 1] = b + g[i - 1]
      BY <3>1
    <3> HIDE DEF h
    <3> QED
      BY <1>3, <3>1, <3>2, <3>3 DEF Plus
  <2> QED
    BY <2>1, <2>2 DEF SumFold!Trace
<1>5. SumFold!Fold(b, t) = h[n]
  <2> HIDE DEF h
  <2> QED
    BY <1>1, <1>4, SumFold!FoldIs
<1>6. Total(s \o t) = SumFold!Fold(b, t)
  BY SumFoldLeft, SumFold!FoldConcat DEF b
<1> QED
  BY <1>1, <1>2, <1>5, <1>6 DEF b

\* One more at each of n positions is n more in all.
LEMMA TotalOfMore ==
  ASSUME NEW n \in Nat, NEW s \in [1..n -> Nat]
  PROVE  Total([i \in 1..n |-> 1 + s[i]]) = n + Total(s)
<1> DEFINE t == [i \in 1..n |-> 1 + s[i]]
<1>1. PICK g : Partial(g, s, n) /\ Total(s) = g[n]
  BY PartialSums
<1> DEFINE h == [i \in 0..n |-> i + g[i]]
<1>2. t \in [1..n -> Nat]
  OBVIOUS
<1>3. Partial(h, t, n)
  <2>1. h \in [0..n -> Nat] /\ h[0] = 0
    BY <1>1 DEF Partial
  <2>2. ASSUME NEW i \in 1..n
        PROVE  h[i] = h[i - 1] + t[i]
    <3>1. i \in 0..n /\ i - 1 \in 0..n
      OBVIOUS
    <3>2. g[i] = g[i - 1] + s[i] /\ g[i - 1] \in Nat /\ s[i] \in Nat
      BY <1>1, <3>1 DEF Partial
    <3>3. h[i] = i + g[i] /\ h[i - 1] = (i - 1) + g[i - 1] /\ t[i] = 1 + s[i]
      BY <3>1
    <3> HIDE DEF h, t
    <3>4. ASSUME NEW a \in Nat, NEW b \in Nat
          PROVE  i + (a + b) = ((i - 1) + a) + (1 + b)
      OBVIOUS
    <3>5. i + (g[i - 1] + s[i]) = ((i - 1) + g[i - 1]) + (1 + s[i])
      BY <3>2, <3>4
    <3>6. h[i] = i + (g[i - 1] + s[i])
      BY <3>2, <3>3
    <3> QED
      BY <3>3, <3>5, <3>6
  <2> QED
    BY <2>1, <2>2 DEF Partial
<1>4. h[n] = n + Total(s)
  BY <1>1
<1> HIDE DEF t, h
<1>5. Total(t) = h[n]
  BY <1>2, <1>3, TotalIs
<1> QED
  BY <1>4, <1>5 DEF t

\* Adding v at one position adds v to the total.
LEMMA TotalOfOneMore ==
  ASSUME NEW n \in Nat, NEW s \in [1..n -> Nat], NEW t \in [1..n -> Nat],
         NEW j \in 1..n, NEW v \in Nat,
         \A i \in 1..n : t[i] = IF i = j THEN s[i] + v ELSE s[i]
  PROVE  Total(t) = Total(s) + v
<1>1. PICK g : Partial(g, s, n) /\ Total(s) = g[n]
  BY PartialSums
<1> DEFINE h == [i \in 0..n |-> IF i >= j THEN g[i] + v ELSE g[i]]
<1>2. Partial(h, t, n)
  <2>1. h \in [0..n -> Nat] /\ h[0] = 0
    BY <1>1 DEF Partial
  <2>2. ASSUME NEW i \in 1..n
        PROVE  h[i] = h[i - 1] + t[i]
    <3>1. i \in 0..n /\ i - 1 \in 0..n /\ i \in Nat /\ j \in Nat
      OBVIOUS
    <3>2. g[i] = g[i - 1] + s[i] /\ g[i - 1] \in Nat /\ g[i] \in Nat /\ s[i] \in Nat
      BY <1>1, <3>1 DEF Partial
    <3>3. h[i] = (IF i >= j THEN g[i] + v ELSE g[i])
          /\ h[i - 1] = (IF i - 1 >= j THEN g[i - 1] + v ELSE g[i - 1])
      BY <3>1
    <3>4. t[i] = IF i = j THEN s[i] + v ELSE s[i]
      OBVIOUS
    <3> HIDE DEF h
    <3>5. CASE i = j
      BY <3>1, <3>2, <3>3, <3>4, <3>5
    <3>6. CASE i > j
      BY <3>1, <3>2, <3>3, <3>4, <3>6
    <3>7. CASE i < j
      BY <3>1, <3>2, <3>3, <3>4, <3>7
    <3> QED
      BY <3>1, <3>5, <3>6, <3>7
  <2> QED
    BY <2>1, <2>2 DEF Partial
<1>3. h[n] = Total(s) + v
  BY <1>1
<1> HIDE DEF h
<1> QED
  BY <1>2, <1>3, TotalIs

\* The total over the elements of a set, in the order of an enumeration.
Enumerates(f, S, n) ==
  /\ f \in [1..n -> S]
  /\ \A i, j \in 1..n : f[i] = f[j] => i = j
  /\ \A x \in S : \E i \in 1..n : f[i] = x

Counted(f, w, A, n) == [i \in 1..n |-> IF f[i] \in A THEN w[f[i]] ELSE 0]

\* Counting one more element of the set counts its weight, wherever it stands.
LEMMA TotalOfElement ==
  ASSUME NEW n \in Nat, NEW S, NEW w \in [S -> Nat], NEW f, Enumerates(f, S, n),
         NEW A, NEW x \in S, x \notin A
  PROVE  Total(Counted(f, w, A \cup {x}, n)) = Total(Counted(f, w, A, n)) + w[x]
<1> DEFINE s == Counted(f, w, A, n)
           t == Counted(f, w, A \cup {x}, n)
<1>1. PICK j \in 1..n : f[j] = x
  BY DEF Enumerates
<1>2. s \in [1..n -> Nat] /\ t \in [1..n -> Nat] /\ w[x] \in Nat
  BY DEF Enumerates, Counted
<1>3. ASSUME NEW i \in 1..n
      PROVE  t[i] = IF i = j THEN s[i] + w[x] ELSE s[i]
  <2>1. CASE i = j
    BY <1>1, <1>2, <2>1 DEF Counted
  <2>2. CASE i # j
    <3>1. f[i] # x
      BY <1>1, <2>2 DEF Enumerates
    <3>2. /\ s[i] = IF f[i] \in A THEN w[f[i]] ELSE 0
          /\ t[i] = IF f[i] \in A \cup {x} THEN w[f[i]] ELSE 0
      BY DEF Counted
    <3> HIDE DEF s, t
    <3>3. f[i] \in A \cup {x} <=> f[i] \in A
      BY <3>1
    <3> QED
      BY <2>2, <3>2, <3>3
  <2> QED
    BY <2>1, <2>2
<1> HIDE DEF s, t
<1>4. Total(t) = Total(s) + w[x]
  BY <1>2, <1>3, TotalOfOneMore
<1> QED
  BY <1>4 DEF s, t

\* The order makes no difference.
LEMMA TotalOfSet ==
  ASSUME NEW n \in Nat, NEW S, NEW w \in [S -> Nat],
         NEW f, Enumerates(f, S, n), NEW h, Enumerates(h, S, n)
  PROVE  Total([i \in 1..n |-> w[f[i]]]) = Total([i \in 1..n |-> w[h[i]]])
<1> DEFINE first(k) == {f[i] : i \in 1..k}
           F(A) == Counted(f, w, A, n)
           H(A) == Counted(h, w, A, n)
           T == {k \in 0..n : Total(F(first(k))) # Total(H(first(k)))}
<1>1. ASSUME T # {} PROVE FALSE
  <2>1. T \subseteq Nat
    OBVIOUS
  <2>2. PICK k \in T : \A y \in T : k <= y
    <3> HIDE DEF T
    <3> QED
      BY <1>1, <2>1, SumFold!Least
  <2>3. Total(F(first(k))) # Total(H(first(k))) /\ k \in 0..n
    BY <2>2
  <2>4. k # 0
    <3>1. first(0) = {}
      OBVIOUS
    <3>2. F({}) = [i \in 1..n |-> 0] /\ H({}) = [i \in 1..n |-> 0]
      BY DEF Counted
    <3> HIDE DEF first, F, H, T
    <3> QED
      BY <2>3, <3>1, <3>2
  <2>5. k \in 1..n /\ k - 1 \in 0..n /\ k - 1 < k
    BY <2>3, <2>4
  <2>6. Total(F(first(k - 1))) = Total(H(first(k - 1)))
    <3>1. k - 1 \notin T
      <4> HIDE DEF T
      <4> QED
        BY <2>2, <2>1, <2>5
    <3> QED
      BY <2>5, <3>1
  <2> DEFINE A == first(k - 1)
             x == f[k]
  <2>7. first(k) = A \cup {x}
    BY <2>5
  <2>8. x \in S /\ x \notin A
    <3>1. x \in S
      BY <2>5 DEF Enumerates
    <3>2. \A i \in 1..(k - 1) : f[i] # f[k]
      BY <2>5 DEF Enumerates
    <3> QED
      BY <3>1, <3>2
  <2> HIDE DEF A, x
  <2>9. Total(F(A \cup {x})) = Total(F(A)) + w[x]
    BY <2>8, TotalOfElement
  <2>10. Total(H(A \cup {x})) = Total(H(A)) + w[x]
    BY <2>8, TotalOfElement
  <2>11. Total(F(A)) = Total(H(A))
    BY <2>6 DEF A
  <2> HIDE DEF F, H, T, first
  <2> QED
    BY <2>3, <2>7, <2>9, <2>10, <2>11
<1>2. Total(F(first(n))) = Total(H(first(n)))
  <2>1. n \in 0..n
    OBVIOUS
  <2> HIDE DEF F, H, first
  <2>2. n \notin T
    BY <1>1
  <2> QED
    BY <2>1, <2>2
<1>3. first(n) = S
  BY DEF Enumerates
<1>4. F(S) = [i \in 1..n |-> w[f[i]]] /\ H(S) = [i \in 1..n |-> w[h[i]]]
  BY DEF Enumerates, Counted
<1> HIDE DEF first, F, H, T
<1> QED
  BY <1>2, <1>3, <1>4

-----------------------------------------------------------------------------
(* Sizes of fields, of what is written and of what is announced.           *)

LeafSize(f) == FieldSize(f, LAMBDA m : 0)
Size(f)     == FieldSize(f, Leaves)

LEMMA VarintSizeIsNat ==
  ASSUME NEW v \in Int
  PROVE  VarintSize(v) \in Nat
<1>1. \A n : Short(n) \in Nat
  BY DEF Short
<1> QED
  BY <1>1 DEF VarintSize

LEMMA LengthDelimitedIsNat ==
  ASSUME NEW n \in Nat
  PROVE  LengthDelimited(n) \in Nat
  BY VarintSizeIsNat DEF LengthDelimited

LEMMA LeafSizes ==
  /\ \A n, v : LeafSize([num |-> n, varint |-> v]) = 1 + VarintSize(v)
  /\ \A n, s : LeafSize([num |-> n, bytes |-> s]) = 1 + LengthDelimited(Len(s))
  /\ \A f \in Leaf : LeafSize(f) \in Nat /\ LeafSize(f) = Size(f)
<1>1. \A n, v : LeafSize([num |-> n, varint |-> v]) = 1 + VarintSize(v)
  BY DEF LeafSize, FieldSize
<1>2. \A n, s : LeafSize([num |-> n, bytes |-> s]) = 1 + LengthDelimited(Len(s))
  BY DEF LeafSize, FieldSize
<1>3. ASSUME NEW f \in Leaf
      PROVE  LeafSize(f) \in Nat /\ LeafSize(f) = Size(f)
  <2>1. CASE f \in [num : Nat, varint : Int]
    <3>1. "varint" \in DOMAIN f /\ f.varint \in Int
      BY <2>1
    <3>2. VarintSize(f.varint) \in Nat
      BY <3>1, VarintSizeIsNat
    <3> QED
      BY <3>1, <3>2 DEF LeafSize, Size, FieldSize
  <2>2. CASE f \in [num : Nat, bytes : Texts]
    <3>1. "varint" \notin DOMAIN f /\ "bytes" \in DOMAIN f /\ f.bytes \in Texts
      BY <2>2
    <3>2. Len(f.bytes) \in Nat
      BY <3>1 DEF Texts
    <3>3. LengthDelimited(Len(f.bytes)) \in Nat
      BY <3>2, LengthDelimitedIsNat
    <3> QED
      BY <3>1, <3>3 DEF LeafSize, Size, FieldSize
  <2> QED
    BY <2>1, <2>2 DEF Leaf
<1> QED
  BY <1>1, <1>2, <1>3

LEMMA IsConcat ==
  ASSUME NEW S, NEW s \in Seq(S), NEW t \in Seq(S), NEW z \in Seq(S), Len(z) = Len(s) + Len(t),
         \A i \in 1..(Len(s) + Len(t)) : z[i] = (s \o t)[i]
  PROVE  z = s \o t
<1> DEFINE w == s \o t
<1>1. w \in Seq(S) /\ Len(w) = Len(s) + Len(t)
  OBVIOUS
<1>2. \A i \in 1..(Len(s) + Len(t)) : z[i] = w[i]
  OBVIOUS
<1> HIDE DEF w
<1>3. z = w
  BY <1>1, <1>2
<1> QED
  BY <1>3 DEF w

\* The leaves of a sequence add up over a concatenation.
LEMMA LeavesOf ==
  ASSUME NEW s \in Seq(Leaf)
  PROVE  /\ Leaves(s) = Total([i \in 1..Len(s) |-> LeafSize(s[i])])
         /\ [i \in 1..Len(s) |-> LeafSize(s[i])] \in Seq(Nat)
         /\ Leaves(s) \in Nat
<1> DEFINE z == [i \in 1..Len(s) |-> LeafSize(s[i])]
<1>1. Len(s) \in Nat /\ DOMAIN s = 1..Len(s) /\ \A i \in 1..Len(s) : s[i] \in Leaf
  OBVIOUS
<1>2. z \in [1..Len(s) -> Nat]
  BY <1>1, LeafSizes
<1>3. Leaves(s) = Total(z)
  BY <1>1 DEF Leaves, LeafSize
<1> HIDE DEF z
<1>4. z \in Seq(Nat) /\ Total(z) \in Nat
  BY <1>1, <1>2, TotalIsNat
<1> QED
  BY <1>3, <1>4 DEF z

LEMMA LeavesConcat ==
  ASSUME NEW s \in Seq(Leaf), NEW t \in Seq(Leaf)
  PROVE  Leaves(s \o t) = Leaves(s) + Leaves(t)
<1> DEFINE x == [i \in 1..Len(s) |-> LeafSize(s[i])]
           y == [i \in 1..Len(t) |-> LeafSize(t[i])]
           z == [i \in 1..Len(s \o t) |-> LeafSize((s \o t)[i])]
<1>1. x \in Seq(Nat) /\ y \in Seq(Nat) /\ Leaves(s) = Total(x) /\ Leaves(t) = Total(y)
  BY LeavesOf
<1>2. s \o t \in Seq(Leaf)
  OBVIOUS
<1>3. Leaves(s \o t) = Total(z) /\ z \in Seq(Nat)
  BY <1>2, LeavesOf
<1>4. Len(x) = Len(s) /\ Len(y) = Len(t) /\ Len(s \o t) = Len(s) + Len(t)
  OBVIOUS
<1>5. ASSUME NEW i \in 1..(Len(s) + Len(t))
      PROVE  z[i] = (x \o y)[i]
  <2>1. CASE i <= Len(s)
    <3>1. i \in 1..Len(s) /\ (s \o t)[i] = s[i]
      BY <2>1
    <3>2. (x \o y)[i] = x[i]
      <4> HIDE DEF x, y
      <4> QED
        BY <1>1, <1>4, <3>1
    <3> QED
      BY <1>4, <3>1, <3>2
  <2>2. CASE i > Len(s)
    <3>1. i - Len(s) \in 1..Len(t) /\ (s \o t)[i] = t[i - Len(s)]
      BY <2>2
    <3>2. (x \o y)[i] = y[i - Len(s)]
      <4> HIDE DEF x, y
      <4> QED
        BY <1>1, <1>4, <2>2, <3>1
    <3> QED
      BY <1>4, <3>1, <3>2
  <2> QED
    BY <2>1, <2>2
<1>6. Len(z) = Len(s) + Len(t)
  BY <1>4
<1> HIDE DEF x, y, z
<1>7. z = x \o y
  BY <1>1, <1>3, <1>4, <1>5, <1>6, IsConcat
<1> QED
  BY <1>1, <1>3, <1>7, TotalConcat

LEMMA LeavesOfNoneAndOne ==
  /\ Leaves(<<>>) = 0
  /\ \A f \in Leaf : Leaves(<<f>>) = LeafSize(f)
<1>1. Leaves(<<>>) = 0
  <2>1. [i \in DOMAIN <<>> |-> LeafSize(<<>>[i])] = <<>>
    OBVIOUS
  <2> QED
    BY <2>1, TotalEmpty DEF Leaves, LeafSize
<1>2. ASSUME NEW f \in Leaf
      PROVE  Leaves(<<f>>) = LeafSize(f)
  <2>1. [i \in 1..Len(<<f>>) |-> LeafSize(<<f>>[i])] = <<LeafSize(f)>>
    OBVIOUS
  <2>2. LeafSize(f) \in Nat /\ <<f>> \in Seq(Leaf)
    BY LeafSizes
  <2> QED
    BY <2>1, <2>2, TotalOne, LeavesOf
<1> QED
  BY <1>1, <1>2

\* What a field writes is what it is counted as.
LEMMA VarintLeaves ==
  ASSUME NEW n \in Nat, NEW v \in Int
  PROVE  Leaves(Varint(n, v)) = VarintLen(v) /\ VarintLen(v) \in Nat
<1>1. [num |-> n, varint |-> v] \in Leaf
  BY DEF Leaf
<1>2. Leaves(<<[num |-> n, varint |-> v]>>) = 1 + VarintSize(v)
  BY <1>1, LeavesOfNoneAndOne, LeafSizes
<1>3. Leaves(Varint(n, v)) = VarintLen(v)
  BY <1>2, LeavesOfNoneAndOne DEF Varint, VarintLen
<1>4. VarintLen(v) \in Nat
  BY VarintSizeIsNat DEF VarintLen
<1> QED
  BY <1>3, <1>4

LEMMA FlagLeaves ==
  ASSUME NEW n \in Nat, NEW b \in BOOLEAN
  PROVE  Leaves(Flag(n, b)) = FlagLen(b) /\ FlagLen(b) \in Nat
<1>1. [num |-> n, varint |-> 1] \in Leaf
  BY DEF Leaf
<1>2. Leaves(<<[num |-> n, varint |-> 1]>>) = 1 + VarintSize(1)
  BY <1>1, LeavesOfNoneAndOne, LeafSizes
<1>3. VarintSize(1) = 1
  <2>1. \A v \in Int : v = 1 => Short(v) = 1
    BY DEF Short
  <2>2. ThreeBytes \in Int /\ ThreeBytes > 1
    BY DEF ThreeBytes
  <2>3. \A v \in Int : v = 1 => VarintSize(v) = Short(v)
    BY <2>2 DEF VarintSize
  <2> QED
    BY <2>1, <2>3
<1> QED
  BY <1>2, <1>3, LeavesOfNoneAndOne DEF Flag, FlagLen

LEMMA TextLeaves ==
  ASSUME NEW n \in Nat, NEW s \in Texts
  PROVE  Leaves(Text(n, s)) = TextLen(s) /\ TextLen(s) \in Nat
<1>1. [num |-> n, bytes |-> s] \in Leaf
  BY DEF Leaf
<1>2. Leaves(<<[num |-> n, bytes |-> s]>>) = 1 + LengthDelimited(Len(s))
  BY <1>1, LeavesOfNoneAndOne, LeafSizes
<1>3. Leaves(Text(n, s)) = TextLen(s)
  BY <1>2, LeavesOfNoneAndOne DEF Text, TextLen
<1>4. Len(s) \in Nat
  BY DEF Texts
<1>5. TextLen(s) \in Nat
  BY <1>4, LengthDelimitedIsNat DEF TextLen
<1> QED
  BY <1>3, <1>5

\* A submessage announces the size it is written with.
LEMMA RequestSize ==
  ASSUME NEW r, IsRequest(r)
  PROVE  Leaves(SerializeRequest(r)) = RequestByteSize(r) /\ RequestByteSize(r) \in Nat
<1> DEFINE a == Varint(1, r.intMethod)
           b == Text(2, r.strMethod)
           c == Flag(3, r.expect_response)
           d == Varint(4, r.sequence_id)
           e == Varint(5, r.timeout)
           u == r.unknown
<1>1. /\ r.intMethod \in Int /\ r.sequence_id \in Int /\ r.timeout \in Int
      /\ r.strMethod \in Texts /\ r.expect_response \in BOOLEAN /\ r.unknown \in Seq(Leaf)
  BY DEF IsRequest
<1>2. /\ a \in Seq(Leaf) /\ b \in Seq(Leaf) /\ c \in Seq(Leaf)
      /\ d \in Seq(Leaf) /\ e \in Seq(Leaf) /\ u \in Seq(Leaf)
  BY <1>1, VarintIsSeq, TextIsSeq, FlagIsSeq
<1>3. /\ Leaves(a) = VarintLen(r.intMethod) /\ Leaves(b) = TextLen(r.strMethod)
      /\ Leaves(c) = FlagLen(r.expect_response) /\ Leaves(d) = VarintLen(r.sequence_id)
      /\ Leaves(e) = VarintLen(r.timeout)
  <2>1. 1 \in Nat /\ 2 \in Nat /\ 3 \in Nat /\ 4 \in Nat /\ 5 \in Nat
    OBVIOUS
  <2> QED
    BY <1>1, <2>1, VarintLeaves, TextLeaves, FlagLeaves
<1>4. SerializeRequest(r) = a \o b \o c \o d \o e \o u
  BY DEF SerializeRequest
<1>5. RequestByteSize(r) = Leaves(b) + Leaves(a) + Leaves(d) + Leaves(e) + Leaves(c) + Leaves(u)
  BY <1>3 DEF RequestByteSize
<1> HIDE DEF a, b, c, d, e, u
<1>6. /\ a \o b \in Seq(Leaf) /\ a \o b \o c \in Seq(Leaf) /\ a \o b \o c \o d \in Seq(Leaf)
      /\ a \o b \o c \o d \o e \in Seq(Leaf)
  BY <1>2
<1>7. Leaves(a \o b \o c \o d \o e \o u) =
        Leaves(a) + Leaves(b) + Leaves(c) + Leaves(d) + Leaves(e) + Leaves(u)
  <2>1. Leaves(a \o b) = Leaves(a) + Leaves(b)
    BY <1>2, LeavesConcat
  <2>2. Leaves(a \o b \o c) = Leaves(a \o b) + Leaves(c)
    BY <1>2, <1>6, LeavesConcat
  <2>3. Leaves(a \o b \o c \o d) = Leaves(a \o b \o c) + Leaves(d)
    BY <1>2, <1>6, LeavesConcat
  <2>4. Leaves(a \o b \o c \o d \o e) = Leaves(a \o b \o c \o d) + Leaves(e)
    BY <1>2, <1>6, LeavesConcat
  <2>5. Leaves(a \o b \o c \o d \o e \o u) = Leaves(a \o b \o c \o d \o e) + Leaves(u)
    BY <1>2, <1>6, LeavesConcat
  <2> QED
    BY <2>1, <2>2, <2>3, <2>4, <2>5
<1>8. /\ Leaves(a) \in Nat /\ Leaves(b) \in Nat /\ Leaves(c) \in Nat
      /\ Leaves(d) \in Nat /\ Leaves(e) \in Nat /\ Leaves(u) \in Nat
  BY <1>2, LeavesOf
<1> QED
  BY <1>4, <1>5, <1>7, <1>8

LEMMA ResponseSize ==
  ASSUME NEW r, IsResponse(r)
  PROVE  Leaves(SerializeResponse(r)) = ResponseByteSize(r) /\ ResponseByteSize(r) \in Nat
<1> DEFINE a == Varint(1, r.sequence_id)
           b == Flag(2, r.failed)
           c == Varint(3, r.error_code)
           d == Text(4, r.reason)
           e == Flag(5, r.timeout)
           u == r.unknown
<1>1. /\ r.sequence_id \in Int /\ r.error_code \in Int /\ r.failed \in BOOLEAN
      /\ r.reason \in Texts /\ r.timeout \in BOOLEAN /\ r.unknown \in Seq(Leaf)
  BY DEF IsResponse
<1>2. /\ a \in Seq(Leaf) /\ b \in Seq(Leaf) /\ c \in Seq(Leaf)
      /\ d \in Seq(Leaf) /\ e \in Seq(Leaf) /\ u \in Seq(Leaf)
  BY <1>1, VarintIsSeq, TextIsSeq, FlagIsSeq
<1>3. /\ Leaves(a) = VarintLen(r.sequence_id) /\ Leaves(b) = FlagLen(r.failed)
      /\ Leaves(c) = VarintLen(r.error_code) /\ Leaves(d) = TextLen(r.reason)
      /\ Leaves(e) = FlagLen(r.timeout)
  <2>1. 1 \in Nat /\ 2 \in Nat /\ 3 \in Nat /\ 4 \in Nat /\ 5 \in Nat
    OBVIOUS
  <2> QED
    BY <1>1, <2>1, VarintLeaves, TextLeaves, FlagLeaves
<1>4. SerializeResponse(r) = a \o b \o c \o d \o e \o u
  BY DEF SerializeResponse
<1>5. ResponseByteSize(r) = Leaves(d) + Leaves(a) + Leaves(b) + Leaves(e) + Leaves(c) + Leaves(u)
  BY <1>3 DEF ResponseByteSize, Int32Len
<1> HIDE DEF a, b, c, d, e, u
<1>6. /\ a \o b \in Seq(Leaf) /\ a \o b \o c \in Seq(Leaf) /\ a \o b \o c \o d \in Seq(Leaf)
      /\ a \o b \o c \o d \o e \in Seq(Leaf)
  BY <1>2
<1>7. Leaves(a \o b \o c \o d \o e \o u) =
        Leaves(a) + Leaves(b) + Leaves(c) + Leaves(d) + Leaves(e) + Leaves(u)
  <2>1. Leaves(a \o b) = Leaves(a) + Leaves(b)
    BY <1>2, LeavesConcat
  <2>2. Leaves(a \o b \o c) = Leaves(a \o b) + Leaves(c)
    BY <1>2, <1>6, LeavesConcat
  <2>3. Leaves(a \o b \o c \o d) = Leaves(a \o b \o c) + Leaves(d)
    BY <1>2, <1>6, LeavesConcat
  <2>4. Leaves(a \o b \o c \o d \o e) = Leaves(a \o b \o c \o d) + Leaves(e)
    BY <1>2, <1>6, LeavesConcat
  <2>5. Leaves(a \o b \o c \o d \o e \o u) = Leaves(a \o b \o c \o d \o e) + Leaves(u)
    BY <1>2, <1>6, LeavesConcat
  <2> QED
    BY <2>1, <2>2, <2>3, <2>4, <2>5
<1>8. /\ Leaves(a) \in Nat /\ Leaves(b) \in Nat /\ Leaves(c) \in Nat
      /\ Leaves(d) \in Nat /\ Leaves(e) \in Nat /\ Leaves(u) \in Nat
  BY <1>2, LeavesOf
<1> QED
  BY <1>4, <1>5, <1>7, <1>8

\* What is written of a meta, field by field.
LEMMA SizeOf ==
  ASSUME NEW f \in Field
  PROVE  Size(f) \in Nat
<1>1. CASE f \in Leaf
  BY <1>1, LeafSizes
<1>2. CASE f \in [num : Nat, msg : Seq(Leaf)]
  <2>1. "varint" \notin DOMAIN f /\ "bytes" \notin DOMAIN f /\ f.msg \in Seq(Leaf)
    BY <1>2
  <2>2. LengthDelimited(Leaves(f.msg)) \in Nat
    BY <2>1, LeavesOf, LengthDelimitedIsNat
  <2> QED
    BY <2>1, <2>2 DEF Size, FieldSize
<1> QED
  BY <1>1, <1>2 DEF Field

LEMMA WireSizeOf ==
  ASSUME NEW s \in Seq(Field)
  PROVE  /\ WireSize(s) = Total([i \in 1..Len(s) |-> Size(s[i])])
         /\ [i \in 1..Len(s) |-> Size(s[i])] \in Seq(Nat)
         /\ WireSize(s) \in Nat
<1> DEFINE z == [i \in 1..Len(s) |-> Size(s[i])]
<1>1. Len(s) \in Nat /\ DOMAIN s = 1..Len(s) /\ \A i \in 1..Len(s) : s[i] \in Field
  OBVIOUS
<1>2. z \in [1..Len(s) -> Nat]
  BY <1>1, SizeOf
<1>3. WireSize(s) = Total(z)
  BY <1>1 DEF WireSize, Size
<1> HIDE DEF z
<1>4. z \in Seq(Nat) /\ Total(z) \in Nat
  BY <1>1, <1>2, TotalIsNat
<1> QED
  BY <1>3, <1>4 DEF z

LEMMA WireSizeConcat ==
  ASSUME NEW s \in Seq(Field), NEW t \in Seq(Field)
  PROVE  WireSize(s \o t) = WireSize(s) + WireSize(t)
<1> DEFINE x == [i \in 1..Len(s) |-> Size(s[i])]
           y == [i \in 1..Len(t) |-> Size(t[i])]
           z == [i \in 1..Len(s \o t) |-> Size((s \o t)[i])]
<1>1. x \in Seq(Nat) /\ y \in Seq(Nat) /\ WireSize(s) = Total(x) /\ WireSize(t) = Total(y)
  BY WireSizeOf
<1>2. s \o t \in Seq(Field)
  OBVIOUS
<1>3. WireSize(s \o t) = Total(z) /\ z \in Seq(Nat)
  BY <1>2, WireSizeOf
<1>4. Len(x) = Len(s) /\ Len(y) = Len(t) /\ Len(s \o t) = Len(s) + Len(t)
  OBVIOUS
<1>5. ASSUME NEW i \in 1..(Len(s) + Len(t))
      PROVE  z[i] = (x \o y)[i]
  <2>1. CASE i <= Len(s)
    <3>1. i \in 1..Len(s) /\ (s \o t)[i] = s[i]
      BY <2>1
    <3>2. (x \o y)[i] = x[i]
      <4> HIDE DEF x, y
      <4> QED
        BY <1>1, <1>4, <3>1
    <3> QED
      BY <1>4, <3>1, <3>2
  <2>2. CASE i > Len(s)
    <3>1. i - Len(s) \in 1..Len(t) /\ (s \o t)[i] = t[i - Len(s)]
      BY <2>2
    <3>2. (x \o y)[i] = y[i - Len(s)]
      <4> HIDE DEF x, y
      <4> QED
        BY <1>1, <1>4, <2>2, <3>1
    <3> QED
      BY <1>4, <3>1, <3>2
  <2> QED
    BY <2>1, <2>2
<1>6. Len(z) = Len(s) + Len(t)
  BY <1>4
<1> HIDE DEF x, y, z
<1>7. z = x \o y
  BY <1>1, <1>3, <1>4, <1>5, <1>6, IsConcat
<1> QED
  BY <1>1, <1>3, <1>7, TotalConcat

LEMMA WireSizeOfLeaves ==
  ASSUME NEW s \in Seq(Leaf)
  PROVE  WireSize(s) = Leaves(s)
<1>1. \A i \in 1..Len(s) : s[i] \in Leaf /\ LeafSize(s[i]) = Size(s[i])
  BY LeafSizes
<1>2. [i \in 1..Len(s) |-> LeafSize(s[i])] = [i \in 1..Len(s) |-> Size(s[i])]
  BY <1>1
<1> QED
  BY <1>2, LeavesOf, WireSizeOf, FieldSeqs

LEMMA WireSizeOfNested ==
  ASSUME NEW n \in Nat, NEW s \in Seq(Leaf)
  PROVE  WireSize(Nested(n, s)) = 1 + LengthDelimited(Leaves(s))
<1> DEFINE f == [num |-> n, msg |-> s]
<1>1. f \in Field
  BY DEF Field
<1>2. Size(f) = 1 + LengthDelimited(Leaves(s))
  BY DEF Size, FieldSize
<1> HIDE DEF f
<1>3. [i \in 1..Len(<<f>>) |-> Size(<<f>>[i])] = <<Size(f)>>
  OBVIOUS
<1>4. Size(f) \in Nat /\ <<f>> \in Seq(Field)
  BY <1>1, SizeOf
<1>5. WireSize(<<f>>) = Size(f)
  BY <1>3, <1>4, TotalOne, WireSizeOf
<1> QED
  BY <1>2, <1>5 DEF Nested, f

\* The entry of a map.
LEMMA EntrySize ==
  ASSUME NEW k \in Texts, NEW v \in Texts
  PROVE  Size(Entry(k, v)) = 1 + EntryByteSize(k, v) /\ EntryByteSize(k, v) \in Nat
<1> DEFINE a == [num |-> 1, bytes |-> k]
           b == [num |-> 2, bytes |-> v]
<1>1. a \in Leaf /\ b \in Leaf
  BY DEF Leaf
<1>2. LeafSize(a) = 1 + LengthDelimited(Len(k)) /\ LeafSize(b) = 1 + LengthDelimited(Len(v))
  BY LeafSizes
<1>3. Entry(k, v) = [num |-> 6, msg |-> <<a, b>>]
  BY DEF Entry
<1> HIDE DEF a, b
<1>4. Leaves(<<a, b>>) = Leaves(<<a>>) + Leaves(<<b>>)
  <2>1. <<a>> \in Seq(Leaf) /\ <<b>> \in Seq(Leaf) /\ <<a, b>> \in Seq(Leaf)
    BY <1>1
  <2>2. <<a, b>> = <<a>> \o <<b>>
    <3>1. ASSUME NEW i \in 1..2
          PROVE  <<a, b>>[i] = (<<a>> \o <<b>>)[i]
      <4>1. i = 1 \/ i = 2
        OBVIOUS
      <4> QED
        BY <4>1, <2>1
    <3>2. Len(<<a>>) = 1 /\ Len(<<b>>) = 1 /\ Len(<<a, b>>) = 1 + 1
      OBVIOUS
    <3> QED
      BY <2>1, <3>1, <3>2, IsConcat
  <2> QED
    BY <2>1, <2>2, LeavesConcat
<1>5. LengthDelimited(Len(k)) \in Nat /\ LengthDelimited(Len(v)) \in Nat
  BY LengthDelimitedIsNat DEF Texts
<1>6. Leaves(<<a, b>>) = 2 + LengthDelimited(Len(k)) + LengthDelimited(Len(v))
  <2>1. Leaves(<<a>>) = LeafSize(a) /\ Leaves(<<b>>) = LeafSize(b)
    BY <1>1, LeavesOfNoneAndOne
  <2> QED
    BY <1>2, <1>4, <1>5, <2>1
<1>7. Size(Entry(k, v)) = 1 + LengthDelimited(Leaves(<<a, b>>))
  BY <1>3 DEF Size, FieldSize
<1>8. 2 + LengthDelimited(Len(k)) + LengthDelimited(Len(v)) \in Nat
  BY <1>5
<1> QED
  BY <1>6, <1>7, <1>8, LengthDelimitedIsNat DEF EntryByteSize

\* A set of as many elements as positions is enumerated by its SetToSeq.
LEMMA SetToSeqEnumerates ==
  ASSUME NEW S, IsFiniteSet(S)
  PROVE  Enumerates(SetToSeq(S), S, Cardinality(S)) /\ Cardinality(S) \in Nat
<1> DEFINE n == Cardinality(S)
           z == SetToSeq(S)
<1>1. n \in Nat /\ \E h \in [1..n -> S] : IsInjective(h)
  BY Enumeration DEF IsInjective
<1>2. z \in [1..n -> S] /\ IsInjective(z)
  BY <1>1 DEF SetToSeq
<1> HIDE DEF z
<1>3. \A x \in S : \E j \in 1..n : z[j] = x
  <2>1. z \in [1..n -> S] /\ \A i, j \in DOMAIN z : z[i] = z[j] => i = j
    BY <1>2 DEF IsInjective
  <2> QED
    BY <2>1, Enumeration
<1> HIDE DEF n
<1>4. \A i, j \in 1..n : z[i] = z[j] => i = j
  BY <1>2 DEF IsInjective
<1> QED
  BY <1>1, <1>2, <1>3, <1>4 DEF Enumerates, n, z

\* The entries, in their order, name the keys in an order of theirs.
LEMMA EntriesEnumerate ==
  ASSUME NEW map, IsMap(map), NEW z, z = SetToSeq(EntriesOf(map)),
         NEW n, n = Cardinality(DOMAIN map)
  PROVE  /\ n \in Nat
         /\ z \in [1..n -> EntriesOf(map)]
         /\ \A j \in 1..n : z[j] = Entry(KeyOf(z[j]), map[KeyOf(z[j])])
         /\ Enumerates([j \in 1..n |-> KeyOf(z[j])], DOMAIN map, n)
<1> DEFINE E == EntriesOf(map)
           f == [k \in DOMAIN map |-> Entry(k, map[k])]
<1>1. IsFiniteSet(DOMAIN map)
  BY DEF IsMap
<1>2. \A k : KeyOf(Entry(k, map[k])) = k
  BY DEF KeyOf, Entry
<1>3. f \in Bijection(DOMAIN map, E)
  <2>1. f \in Surjection(DOMAIN map, E)
    BY DEF Surjection, EntriesOf
  <2>2. f \in Injection(DOMAIN map, E)
    <3>1. f \in [DOMAIN map -> E]
      BY DEF EntriesOf
    <3>2. ASSUME NEW a \in DOMAIN map, NEW b \in DOMAIN map, f[a] = f[b]
          PROVE  a = b
      BY <1>2, <3>2
    <3> HIDE DEF f
    <3> QED
      BY <3>1, <3>2 DEF Injection, IsInjective
  <2> QED
    BY <2>1, <2>2 DEF Bijection
<1>4. IsFiniteSet(E) /\ Cardinality(E) = n
  <2>1. ExistsBijection(DOMAIN map, E)
    BY <1>3 DEF ExistsBijection
  <2> QED
    BY <1>1, <2>1, FS_Bijection
<1> HIDE DEF E, f
<1>5. Enumerates(z, E, n) /\ n \in Nat
  BY <1>4, SetToSeqEnumerates DEF E
<1>6. ASSUME NEW j \in 1..n
      PROVE  KeyOf(z[j]) \in DOMAIN map /\ z[j] = Entry(KeyOf(z[j]), map[KeyOf(z[j])])
  <2>1. PICK k \in DOMAIN map : z[j] = Entry(k, map[k])
    <3>1. z[j] \in E
      BY <1>5 DEF Enumerates
    <3> QED
      BY <3>1 DEF E, EntriesOf
  <2> QED
    BY <1>2, <2>1
<1>7. ASSUME NEW k \in DOMAIN map
      PROVE  \E j \in 1..n : KeyOf(z[j]) = k
  <2>1. PICK j \in 1..n : z[j] = Entry(k, map[k])
    <3>1. Entry(k, map[k]) \in E
      BY DEF E, EntriesOf
    <3> QED
      BY <1>5, <3>1 DEF Enumerates
  <2> QED
    BY <1>2, <2>1
<1>8. \A i, j \in 1..n : KeyOf(z[i]) = KeyOf(z[j]) => i = j
  BY <1>5, <1>6 DEF Enumerates
<1>9. Enumerates([j \in 1..n |-> KeyOf(z[j])], DOMAIN map, n)
  BY <1>6, <1>7, <1>8 DEF Enumerates
<1> QED
  BY <1>5, <1>6, <1>9 DEF Enumerates, E

\* What is counted over the keys of a map is what its entries take.
LEMMA EntriesSize ==
  ASSUME NEW map, IsMap(map), NEW keys, keys = SetToSeq(DOMAIN map)
  PROVE  /\ WireSize(SetToSeq(EntriesOf(map))) =
              Len(keys) + Total([i \in DOMAIN keys |-> EntryByteSize(keys[i], map[keys[i]])])
         /\ Len(keys) \in Nat
         /\ Total([i \in DOMAIN keys |-> EntryByteSize(keys[i], map[keys[i]])]) \in Nat
<1> DEFINE z == SetToSeq(EntriesOf(map))
           n == Cardinality(DOMAIN map)
           S == DOMAIN map
           w == [k \in S |-> EntryByteSize(k, map[k])]
           f == [j \in 1..n |-> KeyOf(z[j])]
           a == [i \in 1..n |-> w[f[i]]]
           b == [i \in 1..n |-> w[keys[i]]]
<1>1. /\ n \in Nat
      /\ z \in [1..n -> EntriesOf(map)]
      /\ \A j \in 1..n : z[j] = Entry(KeyOf(z[j]), map[KeyOf(z[j])])
      /\ Enumerates(f, S, n)
  BY EntriesEnumerate
<1>2. Enumerates(keys, S, n)
  BY SetToSeqEnumerates DEF IsMap
<1>3. z \in Seq(Field)
  BY EntriesAreSeq
<1>4. ASSUME NEW k \in S
      PROVE  Size(Entry(k, map[k])) = 1 + w[k] /\ w[k] \in Nat
  BY EntrySize DEF IsMap
<1>5. w \in [S -> Nat]
  BY <1>4
<1> HIDE DEF z, n, w, S
<1>6. \A i \in 1..n : f[i] \in S /\ keys[i] \in S
  BY <1>1, <1>2 DEF Enumerates
<1>7. a \in [1..n -> Nat] /\ b \in [1..n -> Nat]
  BY <1>5, <1>6
<1>8. Len(z) = n /\ keys \in [1..n -> S] /\ Len(keys) = n /\ DOMAIN keys = 1..n
  <2>1. keys \in [1..n -> S]
    BY <1>2 DEF Enumerates
  <2> QED
    BY <1>1, <2>1
<1>9. Total(a) = Total(b)
  <2> HIDE DEF f
  <2> QED
    BY <1>1, <1>2, <1>5, TotalOfSet
<1>10. WireSize(z) = Total([i \in 1..n |-> 1 + a[i]])
  <2>1. ASSUME NEW i \in 1..n
        PROVE  Size(z[i]) = 1 + a[i]
    <3>1. f[i] = KeyOf(z[i]) /\ f[i] \in S /\ a[i] = w[f[i]]
      BY <1>6
    <3>2. z[i] = Entry(f[i], map[f[i]])
      BY <1>1, <3>1
    <3> HIDE DEF f, a
    <3> QED
      BY <1>4, <3>1, <3>2
  <2>2. [i \in 1..n |-> Size(z[i])] = [i \in 1..n |-> 1 + a[i]]
    <3> HIDE DEF a
    <3> QED
      BY <2>1
  <2> QED
    BY <1>3, <1>8, <2>2, WireSizeOf
<1>11. Total([i \in 1..n |-> 1 + a[i]]) = n + Total(a)
  <2> HIDE DEF a
  <2> QED
    BY <1>1, <1>7, TotalOfMore
<1>12. [i \in DOMAIN keys |-> EntryByteSize(keys[i], map[keys[i]])] = b
  BY <1>6, <1>8 DEF w
<1>13. Total(b) \in Nat
  <2> HIDE DEF b
  <2> QED
    BY <1>1, <1>7, TotalIsNat
<1> HIDE DEF a, b
<1> QED
  BY <1>1, <1>8, <1>9, <1>10, <1>11, <1>12, <1>13 DEF z

\* A submessage that may be absent.
LEMMA PartSizes ==
  /\ \A q : IsRequestPtr(q) =>
       /\ WireSize(RequestPart(q)) =
            IF q = Null THEN 0 ELSE 1 + LengthDelimited(RequestByteSize(q[1]))
       /\ RequestPart(q) \in Seq(Field)
  /\ \A p : IsResponsePtr(p) =>
       /\ WireSize(ResponsePart(p)) =
            IF p = Null THEN 0 ELSE 1 + LengthDelimited(ResponseByteSize(p[1]))
       /\ ResponsePart(p) \in Seq(Field)
<1>1. <<>> \in Seq(Leaf) /\ WireSize(<<>>) = 0 /\ <<>> \in Seq(Field)
  <2>1. <<>> \in Seq(Leaf) /\ <<>> \in Seq(Field)
    OBVIOUS
  <2> QED
    BY <2>1, WireSizeOfLeaves, LeavesOfNoneAndOne
<1>2. ASSUME NEW q, IsRequestPtr(q)
      PROVE  /\ WireSize(RequestPart(q)) =
                  IF q = Null THEN 0 ELSE 1 + LengthDelimited(RequestByteSize(q[1]))
             /\ RequestPart(q) \in Seq(Field)
  <2>1. CASE q = Null
    BY <1>1, <2>1 DEF RequestPart
  <2>2. CASE q # Null
    <3>1. IsRequest(q[1])
      BY <1>2, <2>2 DEF IsRequestPtr
    <3>2. SerializeRequest(q[1]) \in Seq(Leaf) /\ Leaves(SerializeRequest(q[1])) = RequestByteSize(q[1])
      BY <3>1, RequestIsSeq, RequestSize
    <3>3. RequestPart(q) = Nested(4, SerializeRequest(q[1]))
      BY <2>2 DEF RequestPart
    <3>4. 4 \in Nat
      OBVIOUS
    <3> QED
      BY <2>2, <3>2, <3>3, <3>4, WireSizeOfNested, FieldSeqs
  <2> QED
    BY <2>1, <2>2
<1>3. ASSUME NEW p, IsResponsePtr(p)
      PROVE  /\ WireSize(ResponsePart(p)) =
                  IF p = Null THEN 0 ELSE 1 + LengthDelimited(ResponseByteSize(p[1]))
             /\ ResponsePart(p) \in Seq(Field)
  <2>1. CASE p = Null
    BY <1>1, <2>1 DEF ResponsePart
  <2>2. CASE p # Null
    <3>1. IsResponse(p[1])
      BY <1>3, <2>2 DEF IsResponsePtr
    <3>2. SerializeResponse(p[1]) \in Seq(Leaf) /\ Leaves(SerializeResponse(p[1])) = ResponseByteSize(p[1])
      BY <3>1, ResponseIsSeq, ResponseSize
    <3>3. ResponsePart(p) = Nested(5, SerializeResponse(p[1]))
      BY <2>2 DEF ResponsePart
    <3>4. 5 \in Nat
      OBVIOUS
    <3> QED
      BY <2>2, <3>2, <3>3, <3>4, WireSizeOfNested, FieldSeqs
  <2> QED
    BY <2>1, <2>2
<1> QED
  BY <1>2, <1>3

\* The size that a message announces, whatever it holds, is that of what is then
\* written of it: a length before a submessage or a packet never lies.
THEOREM AnnouncedIsWritten ==
  ASSUME NEW m, IsMeta(m)
  PROVE  MetaByteSize(m) = WireSize(SerializeMeta(m))
<1> DEFINE keys == SetToSeq(DOMAIN m.meta_data)
           a == Varint(1, m.type)
           b == Varint(2, m.service_id)
           c == Varint(3, m.encoding)
           q == RequestPart(m.request_info)
           p == ResponsePart(m.response_info)
           d == SetToSeq(EntriesOf(m.meta_data))
           u == m.unknown
           count == Len(keys)
           inner == Total([i \in DOMAIN keys |-> EntryByteSize(keys[i], m.meta_data[keys[i]])])
<1>1. /\ m.type \in Int /\ m.service_id \in Int /\ m.encoding \in Int /\ u \in Seq(Field)
      /\ IsRequestPtr(m.request_info) /\ IsResponsePtr(m.response_info) /\ IsMap(m.meta_data)
  BY DEF IsMeta, IsRequestPtr, IsResponsePtr
<1>2. /\ WireSize(a) = VarintLen(m.type) /\ WireSize(b) = VarintLen(m.service_id)
      /\ WireSize(c) = VarintLen(m.encoding)
      /\ a \in Seq(Field) /\ b \in Seq(Field) /\ c \in Seq(Field)
  <2>1. ASSUME NEW n \in Nat, NEW v \in Int
        PROVE  WireSize(Varint(n, v)) = VarintLen(v) /\ Varint(n, v) \in Seq(Field)
    <3>1. Varint(n, v) \in Seq(Leaf)
      BY VarintIsSeq
    <3> QED
      BY <3>1, WireSizeOfLeaves, VarintLeaves, FieldSeqs
  <2>2. 1 \in Nat /\ 2 \in Nat /\ 3 \in Nat
    OBVIOUS
  <2> QED
    BY <1>1, <2>1, <2>2
<1>3. q \in Seq(Field) /\ p \in Seq(Field) /\ d \in Seq(Field)
  BY <1>1, PartSizes, EntriesAreSeq
<1>4. WireSize(d) = count + inner /\ count \in Nat /\ inner \in Nat
  BY <1>1, EntriesSize
<1>5. SerializeMeta(m) = a \o b \o c \o q \o p \o d \o u
  BY DEF SerializeMeta, RequestPart, ResponsePart, EntriesOf
<1>6. MetaByteSize(m) =
        count + inner + WireSize(q) + WireSize(p)
          + WireSize(a) + WireSize(b) + WireSize(c) + WireSize(u)
  <2>1. /\ WireSize(q) = IF m.request_info = Null THEN 0
                         ELSE 1 + LengthDelimited(RequestByteSize(m.request_info[1]))
        /\ WireSize(p) = IF m.response_info = Null THEN 0
                         ELSE 1 + LengthDelimited(ResponseByteSize(m.response_info[1]))
    BY <1>1, PartSizes
  <2> HIDE DEF q, p, a, b, c, count, inner
  <2> QED
    BY <1>2, <2>1 DEF MetaByteSize, count, inner
<1> HIDE DEF a, b, c, q, p, d, u, count, inner
<1>7. /\ a \o b \in Seq(Field) /\ a \o b \o c \in Seq(Field) /\ a \o b \o c \o q \in Seq(Field)
      /\ a \o b \o c \o q \o p \in Seq(Field) /\ a \o b \o c \o q \o p \o d \in Seq(Field)
  BY <1>1, <1>2, <1>3
<1>8. WireSize(a \o b \o c \o q \o p \o d \o u) =
        WireSize(a) + WireSize(b) + WireSize(c) + WireSize(q) + WireSize(p) + WireSize(d)
          + WireSize(u)
  <2>1. WireSize(a \o b) = WireSize(a) + WireSize(b)
    BY <1>2, WireSizeConcat
  <2>2. WireSize(a \o b \o c) = WireSize(a \o b) + WireSize(c)
    BY <1>2, <1>7, WireSizeConcat
  <2>3. WireSize(a \o b \o c \o q) = WireSize(a \o b \o c) + WireSize(q)
    BY <1>3, <1>7, WireSizeConcat
  <2>4. WireSize(a \o b \o c \o q \o p) = WireSize(a \o b \o c \o q) + WireSize(p)
    BY <1>3, <1>7, WireSizeConcat
  <2>5. WireSize(a \o b \o c \o q \o p \o d) = WireSize(a \o b \o c \o q \o p) + WireSize(d)
    BY <1>3, <1>7, WireSizeConcat
  <2>6. WireSize(a \o b \o c \o q \o p \o d \o u) =
          WireSize(a \o b \o c \o q \o p \o d) + WireSize(u)
    BY <1>1, <1>7, WireSizeConcat
  <2> QED
    BY <2>1, <2>2, <2>3, <2>4, <2>5, <2>6
<1>9. /\ WireSize(a) \in Nat /\ WireSize(b) \in Nat /\ WireSize(c) \in Nat
      /\ WireSize(q) \in Nat /\ WireSize(p) \in Nat /\ WireSize(u) \in Nat
  BY <1>1, <1>2, <1>3, WireSizeOf
<1> QED
  BY <1>4, <1>5, <1>6, <1>8, <1>9
=============================================================================
