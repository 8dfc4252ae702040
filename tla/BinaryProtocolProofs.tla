------------------------ MODULE BinaryProtocolProofs ------------------------
(***************************************************************************)
(* Theorems about BinaryProtocol, for any packets, lengths and ways to cut *)
(* the stream.                                                             *)
(*                                                                         *)
(* What the parse loop relies on is a fact about bytes it has not seen     *)
(* yet: from the reader's position on, the stream is a row of whole        *)
(* packets, the next ones of those that were sent.  Layout states it by    *)
(* the offsets at which they end.                                          *)
(***************************************************************************)
EXTENDS BinaryProtocol, TLAPS

RowFold == INSTANCE Folding WITH op <- Sound

Byte(p, j) == [packet |-> p, place |-> j]
AllBytes   == UNION {ToSet(Bytes(p)) : p \in Packets}

\* The stream from the first byte that is kept: what is in the buffer and what is
\* still on its way.
Total == Len(buffer) + Len(wire)
At(buf, rest, i) == IF i <= Len(buf) THEN buf[i] ELSE rest[i - Len(buf)]

\* Packet m ends at off[m]; the reader is at the end of packet n.
Layout(n, off) ==
  /\ n \in 0..Len(sent)
  /\ off \in [n..Len(sent) -> Nat]
  /\ off[n] = pos
  /\ off[Len(sent)] = Total
  /\ \A a, b \in n..Len(sent) : a <= b => off[a] <= off[b]
  /\ \A m \in (n + 1)..Len(sent) :
       /\ off[m] = off[m - 1] + Size(sent[m])
       /\ \A j \in 1..Size(sent[m]) : At(buffer, wire, off[m - 1] + j) = Byte(sent[m], j)

\* Of the first n packets those that can be handled were delivered, in order.
DeliveredOf(n) == delivered = Requested(SubSeq(sent, 1, n))

\* How far the receiver has come.
Parsed(n) == DeliveredOf(n) /\ \E off : Layout(n, off)

Reader == savedPos = pos /\ (~parsing => pos = 0)

Stream ==
  /\ TypeOK
  /\ Reader
  /\ NothingHeldBack
  /\ \E n : Parsed(n)

USE LengthsAreNumbers, KindsOfPackets DEF Skip, Consumed

-----------------------------------------------------------------------------
(* Packets and their bytes                                                 *)

LEMMA SizeType == \A p \in Packets : Size(p) \in Nat /\ Size(p) >= HeadLen /\ HeadLen >= 1
BY DEF Size

LEMMA BytesType ==
  ASSUME NEW p \in Packets
  PROVE  /\ Bytes(p) \in Seq(AllBytes) /\ Len(Bytes(p)) = Size(p)
         /\ \A j \in 1..Size(p) : Bytes(p)[j] = Byte(p, j)
<1>1. Size(p) \in Nat
  BY SizeType
<1>2. \A j \in 1..Size(p) : Bytes(p)[j] = Byte(p, j)
  BY DEF Bytes, Byte
<1>3. DOMAIN Bytes(p) = 1..Size(p)
  BY DEF Bytes
<1>4. \A j \in 1..Size(p) : Bytes(p)[j] \in ToSet(Bytes(p))
  BY <1>3 DEF ToSet
<1>5. \A j \in 1..Size(p) : Bytes(p)[j] \in AllBytes
  BY <1>4 DEF AllBytes
<1>6. Bytes(p) = [j \in 1..Size(p) |-> Bytes(p)[j]]
  BY DEF Bytes
<1> QED
  BY <1>1, <1>2, <1>3, <1>5, <1>6

\* The tail of a sequence that remains when its first k elements are dropped.
LEMMA SubSeqType ==
  ASSUME NEW S, NEW s \in Seq(S), NEW k \in 0..Len(s)
  PROVE  /\ SubSeq(s, k + 1, Len(s)) \in Seq(S)
         /\ Len(SubSeq(s, k + 1, Len(s))) = Len(s) - k
         /\ \A i \in 1..(Len(s) - k) : SubSeq(s, k + 1, Len(s))[i] = s[i + k]
OBVIOUS

\* Two stretches of equal elements are equal.
LEMMA SameSubSeq ==
  ASSUME NEW S, NEW s \in Seq(S), NEW t \in Seq(S), NEW d \in Nat, NEW h \in Nat,
         d + Len(t) <= Len(s),
         \A i \in (h + 1)..Len(t) : s[d + i] = t[i]
  PROVE  SubSeq(s, d + h + 1, d + Len(t)) = SubSeq(t, h + 1, Len(t))
<1>1. Len(s) \in Nat /\ Len(t) \in Nat
  OBVIOUS
<1>2. SubSeq(s, d + h + 1, d + Len(t)) = [i \in 1..(Len(t) - h) |-> s[i + d + h]]
  BY <1>1
<1>3. SubSeq(t, h + 1, Len(t)) = [i \in 1..(Len(t) - h) |-> t[i + h]]
  BY <1>1
<1>4. \A i \in 1..(Len(t) - h) : s[i + d + h] = t[i + h]
  <2> SUFFICES ASSUME NEW i \in 1..(Len(t) - h) PROVE s[i + d + h] = t[i + h]
    OBVIOUS
  <2>1. i + h \in (h + 1)..Len(t) /\ d + (i + h) = i + d + h
    BY <1>1
  <2> QED
    BY <2>1
<1> QED
  BY <1>2, <1>3, <1>4

LEMMA ConcatType ==
  ASSUME NEW S, NEW s \in Seq(S), NEW t \in Seq(S)
  PROVE  /\ s \o t \in Seq(S) /\ Len(s \o t) = Len(s) + Len(t)
         /\ \A i \in 1..Len(s) : (s \o t)[i] = s[i]
         /\ \A j \in 1..Len(t) : (s \o t)[Len(s) + j] = t[j]
OBVIOUS

LEMMA TypeStep == TypeOK /\ [Next]_vars => TypeOK'
<1> SUFFICES ASSUME TypeOK, [Next]_vars PROVE TypeOK'
  OBVIOUS
<1>0. buffer \in Seq(AllBytes) /\ wire \in Seq(AllBytes) /\ Len(buffer) \in Nat /\ pos \in 0..Len(buffer)
  BY DEF TypeOK, AllBytes
<1>1. ASSUME NEW p \in Packets, Send(p) PROVE TypeOK'
  <2>1. wire' \in Seq(AllBytes)
    BY <1>0, <1>1, BytesType DEF Send
  <2> QED
    BY <1>1, <2>1 DEF Send, TypeOK, AllBytes
<1>2. CASE Arrive
  <2>1. PICK n \in 1..MaxReceive :
           /\ n <= Len(wire)
           /\ buffer' = buffer \o SubSeq(wire, 1, n)
           /\ wire' = SubSeq(wire, n + 1, Len(wire))
    BY <1>2 DEF Arrive
  <2>2. SubSeq(wire, 1, n) \in Seq(AllBytes) /\ SubSeq(wire, n + 1, Len(wire)) \in Seq(AllBytes)
    BY <1>0, <2>1
  <2>3. buffer' \in Seq(AllBytes) /\ wire' \in Seq(AllBytes)
    BY <1>0, <2>1, <2>2
  <2> QED
    BY <1>2, <2>3 DEF Arrive, TypeOK, AllBytes
<1>3. CASE ParsePacket
  <2>1. PICK p \in Packets : Heads(p) /\ Enough(pos, Size(p)) /\ Handle(p) /\ Skip(p)
    BY <1>3 DEF ParsePacket
  <2>2. pos' \in 0..Len(buffer) /\ savedPos' = pos' /\ buffer' = buffer /\ parsing' = parsing
    BY <1>0, <2>1, SizeType DEF Enough, GoTo
  <2>3. delivered' \in Seq(Packets \cup {Garbled})
    BY <2>1 DEF Handle, TypeOK
  <2> QED
    BY <1>3, <2>2, <2>3 DEF ParsePacket, TypeOK
<1>4. CASE ParseEnd
  <2>1. buffer' \in Seq(AllBytes)
    BY <1>0, <1>4, SubSeqType DEF ParseEnd, Return, TypeOK
  <2>2. Len(buffer') \in Nat
    BY <2>1
  <2>3. pos' = 0 /\ savedPos' = 0 /\ parsing' = FALSE /\ UNCHANGED <<sent, connected, wire, delivered>>
    BY <1>4 DEF ParseEnd, Return
  <2>4. pos' \in 0..Len(buffer') /\ savedPos' \in 0..pos'
    BY <2>2, <2>3
  <2> QED
    BY <2>1, <2>3, <2>4 DEF TypeOK, AllBytes
<1>5. CASE Disconnect
  BY <1>5 DEF Disconnect, TypeOK
<1>6. CASE UNCHANGED vars
  BY <1>6 DEF vars, TypeOK
<1> QED
  BY <1>1, <1>2, <1>3, <1>4, <1>5, <1>6 DEF Next, Parse

\* The first packet that was not parsed is the one whose head the reader sees.
LEMMA NextPacket ==
  ASSUME TypeOK, NEW n, NEW off, Layout(n, off), pos < Len(buffer)
  PROVE  /\ n + 1 \in DOMAIN sent
         /\ buffer[pos + 1] = Byte(sent[n + 1], 1)
         /\ off[n + 1] = pos + Size(sent[n + 1])
<1>1. n < Len(sent)
  BY DEF Layout, Total, TypeOK
<1>2. n + 1 \in (n + 1)..Len(sent) /\ sent[n + 1] \in Packets
  BY <1>1 DEF Layout, TypeOK
<1>3. off[n + 1] = pos + Size(sent[n + 1]) /\ \A j \in 1..Size(sent[n + 1]) : At(buffer, wire, pos + j) = Byte(sent[n + 1], j)
  <2>1. off[n + 1] = off[(n + 1) - 1] + Size(sent[n + 1])
        /\ \A j \in 1..Size(sent[n + 1]) : At(buffer, wire, off[(n + 1) - 1] + j) = Byte(sent[n + 1], j)
    BY <1>2 DEF Layout
  <2>2. off[(n + 1) - 1] = pos
    BY DEF Layout
  <2> QED
    BY <2>1, <2>2
<1>4. 1 \in 1..Size(sent[n + 1])
  BY <1>2, SizeType
<1>5. At(buffer, wire, pos + 1) = buffer[pos + 1]
  BY DEF At, TypeOK
<1> QED
  <2>1. DOMAIN sent = 1..Len(sent) /\ n \in Nat
    BY DEF TypeOK, Layout
  <2> QED
    BY <1>1, <1>2, <1>3, <1>4, <1>5, <2>1

\* What the reader takes for a packet is the next one that was sent.
LEMMA HeadIsNext ==
  ASSUME TypeOK, NEW n, NEW off, Layout(n, off), NEW p \in Packets, Heads(p)
  PROVE  n + 1 \in DOMAIN sent /\ p = sent[n + 1] /\ off[n + 1] = pos + Size(p)
<1>1. pos < Len(buffer)
  BY SizeType DEF Heads, Enough, TypeOK
<1>2. buffer[pos + 1] = Byte(sent[n + 1], 1)
  BY <1>1, NextPacket
<1>3. p = sent[n + 1]
  BY <1>2 DEF Heads, AtStart, Byte
<1> QED
  BY <1>1, <1>3, NextPacket

-----------------------------------------------------------------------------
(* What of a row of packets can be handled                                 *)

\* FoldLeft of the library is the fold of Folding.
IteratesRow(iter, b, s, S) ==
  iter = [d \in SUBSET S |-> IF d = {} THEN b ELSE Sound(iter[d \ {Max(d)}], s[Max(d)])]

LEMMA RowFoldLeft ==
  ASSUME NEW b, NEW s
  PROVE  FoldLeft(Sound, b, s) = RowFold!Fold(b, s)
<1>1. FoldLeft(Sound, b, s) = (CHOOSE iter : IteratesRow(iter, b, s, DOMAIN s))[DOMAIN s]
  BY DEF FoldLeft, MapThenFoldSet, IteratesRow
<1>2. ASSUME NEW iter
      PROVE  IteratesRow(iter, b, s, DOMAIN s) <=> RowFold!Iterates(iter, b, s, DOMAIN s)
  BY DEF IteratesRow, RowFold!Iterates, RowFold!Last, Max
<1>3. (CHOOSE iter : IteratesRow(iter, b, s, DOMAIN s)) =
        (CHOOSE iter : RowFold!Iterates(iter, b, s, DOMAIN s))
  BY <1>2
<1> QED
  BY <1>1, <1>3 DEF RowFold!Fold

LEMMA NothingRequested == Requested(<<>>) = <<>>
BY RowFoldLeft, RowFold!FoldEmpty DEF Requested

\* What is requested of the beginnings of a row are the values the fold comes past.
LEMMA RequestedTrace ==
  ASSUME NEW s \in Seq(Packets)
  PROVE  \E g : /\ \A n \in 0..Len(s) : Requested(SubSeq(s, 1, n)) = g[n]
                /\ g[0] = <<>>
                /\ \A n \in 1..Len(s) : g[n] = Sound(g[n - 1], s[n])
<1>0. Len(s) \in Nat /\ DOMAIN s = 1..Len(s)
  OBVIOUS
<1>1. PICK g : RowFold!Trace(g, <<>>, s, Len(s))
  BY <1>0, RowFold!FoldHasTrace
<1>2. ASSUME NEW n \in 0..Len(s)
      PROVE  Requested(SubSeq(s, 1, n)) = g[n]
  <2> DEFINE t == SubSeq(s, 1, n)
             h == [i \in 0..n |-> g[i]]
  <2>1. n \in Nat /\ DOMAIN t = 1..n /\ \A i \in 1..n : t[i] = s[i]
    BY <1>0
  <2>2. \A i \in 1..n : i \in 1..Len(s) /\ i - 1 \in 0..n /\ i \in 0..n
    BY <1>0
  <2>3. RowFold!Trace(h, <<>>, t, n)
    <3>1. h[0] = <<>> /\ DOMAIN h = 0..n
      BY <1>1 DEF RowFold!Trace
    <3>2. \A i \in 1..n : h[i] = Sound(h[i - 1], t[i])
      BY <1>1, <2>1, <2>2 DEF RowFold!Trace
    <3> QED
      BY <3>1, <3>2 DEF RowFold!Trace
  <2>4. RowFold!Fold(<<>>, t) = h[n]
    <3> HIDE DEF t, h
    <3> QED
      BY <2>1, <2>3, RowFold!FoldIs
  <2>5. FoldLeft(Sound, <<>>, t) = RowFold!Fold(<<>>, t)
    BY RowFoldLeft
  <2> QED
    BY <2>4, <2>5 DEF Requested
<1> QED
  BY <1>1, <1>2 DEF RowFold!Trace

\* One packet more.
LEMMA NextRequested ==
  ASSUME NEW s \in Seq(Packets), NEW n \in 0..Len(s), n + 1 \in DOMAIN s
  PROVE  Requested(SubSeq(s, 1, n + 1)) = Sound(Requested(SubSeq(s, 1, n)), s[n + 1])
<1>1. PICK g : /\ \A m \in 0..Len(s) : Requested(SubSeq(s, 1, m)) = g[m]
               /\ \A m \in 1..Len(s) : g[m] = Sound(g[m - 1], s[m])
  BY RequestedTrace
<1>2. n + 1 \in 0..Len(s) /\ n + 1 \in 1..Len(s) /\ (n + 1) - 1 = n
  OBVIOUS
<1> QED
  BY <1>1, <1>2

\* What is requested of a row begins with what is requested of a beginning of it.
LEMMA RequestedGrows ==
  ASSUME NEW s \in Seq(Packets), NEW n \in 0..Len(s)
  PROVE  IsPrefix(Requested(SubSeq(s, 1, n)), Requested(s))
<1>0. Len(s) \in Nat /\ SubSeq(s, 1, Len(s)) = s
  OBVIOUS
<1>1. PICK g : /\ \A m \in 0..Len(s) : Requested(SubSeq(s, 1, m)) = g[m]
               /\ g[0] = <<>>
               /\ \A m \in 1..Len(s) : g[m] = Sound(g[m - 1], s[m])
  BY RequestedTrace
<1> DEFINE Begins(t, u) == Len(t) <= Len(u) /\ \A i \in 1..Len(t) : t[i] = u[i]
           Good(m) == g[m] \in Seq(Packets) /\ (n <= m => Begins(g[n], g[m]))
           T == {m \in 0..Len(s) : ~Good(m)}
<1>2. ASSUME T # {} PROVE FALSE
  <2>1. PICK x \in T : \A y \in T : x <= y
    <3>1. T \subseteq Nat
      OBVIOUS
    <3> HIDE DEF T
    <3> QED
      BY <1>2, <3>1, RowFold!Least
  <2>2. x # 0
    <3>1. g[0] \in Seq(Packets) /\ (n <= 0 => n = 0)
      BY <1>1
    <3>2. Begins(g[0], g[0])
      BY <1>1
    <3> QED
      BY <3>1, <3>2
  <2>3. x \in 1..Len(s) /\ x - 1 \in 0..Len(s) /\ x - 1 < x /\ s[x] \in Packets
    BY <1>0, <2>2
  <2>4. Good(x - 1)
    BY <2>1, <2>3
  <2>5. g[x] = Sound(g[x - 1], s[x])
    BY <1>1, <2>3
  <2>6. g[x] \in Seq(Packets) /\ Begins(g[x - 1], g[x])
    <3>1. g[x - 1] \in Seq(Packets)
      BY <2>4
    <3>2. PICK u, p : u = g[x - 1] /\ p = s[x]
      OBVIOUS
    <3>3. /\ Append(u, p) \in Seq(Packets) /\ Len(u) <= Len(Append(u, p))
          /\ \A i \in 1..Len(u) : Append(u, p)[i] = u[i]
          /\ Len(u) <= Len(u)
      BY <2>3, <3>1, <3>2
    <3> QED
      BY <2>5, <3>1, <3>2, <3>3 DEF Sound
  <2>7. n <= x => Begins(g[n], g[x])
    <3>1. CASE n = x
      BY <2>6, <3>1
    <3>2. CASE n < x
      <4>1. n <= x - 1
        BY <3>2
      <4>2. Begins(g[n], g[x - 1]) /\ g[x - 1] \in Seq(Packets)
        BY <2>4, <4>1
      <4>3. n \in 0..(x - 1) /\ n \notin T
        BY <2>1, <2>3, <4>1
      <4>4. g[n] \in Seq(Packets)
        BY <4>3
      <4>5. Len(g[n]) \in Nat /\ Len(g[x - 1]) \in Nat /\ Len(g[x]) \in Nat
        BY <2>6, <4>2, <4>4
      <4> QED
        BY <2>6, <4>2, <4>5
    <3> QED
      BY <3>1, <3>2
  <2> QED
    BY <2>6, <2>7
<1>3. Good(Len(s)) /\ Good(n)
  <2>1. Len(s) \in 0..Len(s) /\ n \in 0..Len(s)
    BY <1>0
  <2> QED
    BY <1>2, <2>1
<1>4. Requested(SubSeq(s, 1, n)) = g[n] /\ Requested(s) = g[Len(s)]
  <2>1. Len(s) \in 0..Len(s)
    BY <1>0
  <2> QED
    BY <1>0, <1>1, <2>1
<1>5. PICK t, u : t = g[n] /\ u = g[Len(s)]
  OBVIOUS
<1>6. t \in Seq(Packets) /\ u \in Seq(Packets) /\ Begins(t, u)
  BY <1>3, <1>5
<1>7. SubSeq(t, 1, Len(t)) = SubSeq(u, 1, Len(t))
  BY <1>6
<1>8. Len(t) <= Len(u)
  BY <1>6
<1> QED
  BY <1>4, <1>5, <1>7, <1>8 DEF IsPrefix

\* A packet that is sent later is not among the first n.
LEMMA SameDelivered ==
  ASSUME TypeOK, NEW n \in 0..Len(sent), DeliveredOf(n), NEW p \in Packets,
         UNCHANGED delivered, sent' = Append(sent, p)
  PROVE  DeliveredOf(n)'
<1>1. SubSeq(Append(sent, p), 1, n) = SubSeq(sent, 1, n)
  BY DEF TypeOK
<1> QED
  BY <1>1 DEF DeliveredOf

-----------------------------------------------------------------------------
LEMMA InitStream == Init => Stream
<1> SUFFICES ASSUME Init PROVE Stream
  OBVIOUS
<1> USE DEF Init
<1>1. TypeOK
  <2>1. buffer \in Seq(AllBytes) /\ wire \in Seq(AllBytes) /\ sent \in Seq(Packets) /\ Len(buffer) = 0
        /\ delivered \in Seq(Packets \cup {Garbled})
    OBVIOUS
  <2>2. connected \in BOOLEAN /\ parsing \in BOOLEAN
    OBVIOUS
  <2>3. pos \in 0..Len(buffer) /\ savedPos \in 0..pos
    BY <2>1
  <2> QED
    BY <2>1, <2>2, <2>3 DEF TypeOK, AllBytes
<1>2. Reader /\ NothingHeldBack
  BY DEF Reader, NothingHeldBack
<1>3. DeliveredOf(0)
  <2>1. SubSeq(sent, 1, 0) = <<>>
    OBVIOUS
  <2> QED
    BY <2>1, NothingRequested DEF DeliveredOf
<1>4. Layout(0, [m \in 0..0 |-> 0])
  BY DEF Layout, Total
<1> QED
  BY <1>1, <1>2, <1>3, <1>4 DEF Stream, Parsed

\* What of Stream speaks of the reader and of what is left in the buffer.
LEMMA SmallStep ==
  ASSUME Stream, [Next]_vars
  PROVE  Reader' /\ NothingHeldBack'
<1>0. TypeOK /\ Reader /\ NothingHeldBack
  BY DEF Stream
<1>1. ASSUME NEW p \in Packets, Send(p) PROVE Reader' /\ NothingHeldBack'
  BY <1>0, <1>1 DEF Send, Reader, NothingHeldBack
<1>2. CASE Arrive
  BY <1>0, <1>2 DEF Arrive, Reader, NothingHeldBack
<1>3. CASE ParsePacket
  BY <1>0, <1>3 DEF ParsePacket, GoTo, Reader, NothingHeldBack
<1>4. CASE ParseEnd
  <2>1. Reader'
    BY <1>0, <1>4 DEF ParseEnd, Return, Reader
  <2>2. NothingHeldBack'
    <3> SUFFICES ASSUME buffer' # <<>> PROVE buffer'[1].place = 1 /\ Len(buffer') < Size(buffer'[1].packet)
      BY DEF NothingHeldBack
    <3>1. /\ buffer \in Seq(AllBytes) /\ pos \in 0..Len(buffer) /\ Len(buffer) \in Nat
          /\ buffer' = SubSeq(buffer, pos + 1, Len(buffer))
      BY <1>0, <1>4 DEF ParseEnd, Return, TypeOK, Reader, AllBytes
    <3>2. Len(buffer') = Len(buffer) - pos /\ \A i \in 1..(Len(buffer) - pos) : buffer'[i] = buffer[i + pos]
      BY <3>1, SubSeqType
    <3>3. pos < Len(buffer) /\ buffer'[1] = buffer[pos + 1]
      <4>1. Len(buffer') # 0
        BY <3>1
      <4> QED
        BY <3>1, <3>2, <4>1
    <3>4. PICK n, off : Layout(n, off)
      BY DEF Stream, Parsed
    <3>5. n + 1 \in DOMAIN sent /\ buffer[pos + 1] = Byte(sent[n + 1], 1)
      BY <1>0, <3>3, <3>4, NextPacket
    <3>6. sent[n + 1] \in Packets
      BY <1>0, <3>5 DEF TypeOK
    <3>9. /\ buffer'[1].place = 1 /\ buffer'[1].packet = sent[n + 1]
          /\ Size(sent[n + 1]) \in Nat /\ Size(sent[n + 1]) >= HeadLen
      BY <3>3, <3>5, <3>6, SizeType DEF Byte
    <3>7. CASE ~Enough(pos, HeadLen)
      BY <3>1, <3>2, <3>7, <3>9 DEF Enough
    <3>8. ASSUME NEW p \in Packets, Heads(p), ~Enough(pos, Size(p))
          PROVE  buffer'[1].place = 1 /\ Len(buffer') < Size(buffer'[1].packet)
      <4>1. p = sent[n + 1]
        BY <1>0, <3>4, <3>8, HeadIsNext
      <4> QED
        BY <3>1, <3>2, <3>8, <3>9, <4>1 DEF Enough
    <3> QED
      BY <1>4, <3>7, <3>8 DEF ParseEnd
  <2> QED
    BY <2>1, <2>2
<1>5. CASE Disconnect
  BY <1>0, <1>5 DEF Disconnect, Reader, NothingHeldBack
<1>6. CASE UNCHANGED vars
  BY <1>0, <1>6 DEF vars, Reader, NothingHeldBack
<1> QED
  BY <1>1, <1>2, <1>3, <1>4, <1>5, <1>6 DEF Next, Parse

\* No byte of a packet to come lies beyond the end of the stream.
LEMMA PlacesInside ==
  ASSUME TypeOK, NEW n, NEW off, Layout(n, off)
  PROVE  \A m \in (n + 1)..Len(sent) : \A j \in 1..Size(sent[m]) : off[m - 1] + j \in 1..Total
<1> SUFFICES ASSUME NEW m \in (n + 1)..Len(sent), NEW j \in 1..Size(sent[m])
             PROVE  off[m - 1] + j \in 1..Total
  OBVIOUS
<1>1. /\ Len(sent) \in Nat /\ n \in 0..Len(sent) /\ off \in [n..Len(sent) -> Nat] /\ off[Len(sent)] = Total
      /\ off[m] = off[m - 1] + Size(sent[m])
  BY DEF Layout, TypeOK
<1>2. m \in n..Len(sent) /\ m - 1 \in n..Len(sent) /\ m \in 1..Len(sent)
  BY <1>1
<1>3. sent[m] \in Packets
  BY <1>2 DEF TypeOK
<1>4. off[m] <= Total
  BY <1>1, <1>2 DEF Layout
<1>5. Total \in Nat /\ off[m - 1] \in Nat
  BY <1>1, <1>2
<1>6. Size(sent[m]) \in Nat
  BY <1>3, SizeType
<1> QED
  BY <1>1, <1>4, <1>5, <1>6

\* A packet is sent: it ends where the stream ends.
LEMMA SendLayout ==
  ASSUME TypeOK, NEW p \in Packets, Send(p), NEW n, NEW off, Layout(n, off)
  PROVE  \E o : Layout(n, o)'
<1> DEFINE last == Len(sent) + 1
<1>1. /\ buffer \in Seq(AllBytes) /\ wire \in Seq(AllBytes)
      /\ Len(buffer) \in Nat /\ Len(wire) \in Nat /\ Len(sent) \in Nat
  BY DEF TypeOK, AllBytes
<1>2. /\ Len(sent') = last /\ sent'[last] = p
      /\ \A m \in 1..Len(sent) : sent'[m] = sent[m]
      /\ buffer' = buffer /\ wire' = wire \o Bytes(p) /\ pos' = pos
  BY DEF Send, TypeOK
<1>3. /\ Total' = Total + Size(p)
      /\ \A i \in 1..Total : At(buffer', wire', i) = At(buffer, wire, i)
      /\ \A j \in 1..Size(p) : At(buffer', wire', Total + j) = Byte(p, j)
  <2>1. /\ Len(wire') = Len(wire) + Size(p)
        /\ \A i \in 1..Len(wire) : wire'[i] = wire[i]
        /\ \A j \in 1..Size(p) : wire'[Len(wire) + j] = Byte(p, j)
    <3>0. PICK more : more = Bytes(p)
      OBVIOUS
    <3>1. more \in Seq(AllBytes) /\ wire \in Seq(AllBytes)
      BY <1>1, <3>0, BytesType
    <3>4. Len(more) = Size(p) /\ \A j \in 1..Size(p) : more[j] = Byte(p, j)
      BY <3>0, BytesType
    <3>2. wire' = wire \o more
      BY <1>2, <3>0
    <3>3. /\ Len(wire \o more) = Len(wire) + Len(more)
          /\ \A i \in 1..Len(wire) : (wire \o more)[i] = wire[i]
          /\ \A j \in 1..Len(more) : (wire \o more)[Len(wire) + j] = more[j]
      BY <3>1, ConcatType
    <3> QED
      BY <3>2, <3>3, <3>4
  <2>2. Size(p) \in Nat
    BY SizeType
  <2>3. Total' = Total + Size(p)
    BY <1>1, <1>2, <2>1, <2>2 DEF Total
  <2>4. \A i \in 1..Total : At(buffer', wire', i) = At(buffer, wire, i)
    BY <1>1, <1>2, <2>1, <2>2 DEF Total, At
  <2>5. \A j \in 1..Size(p) : At(buffer', wire', Total + j) = Byte(p, j)
    BY <1>1, <1>2, <2>1, <2>2 DEF Total, At
  <2> QED
    BY <2>3, <2>4, <2>5
<1>4. n \in 0..Len(sent) /\ off \in [n..Len(sent) -> Nat] /\ off[n] = pos /\ off[Len(sent)] = Total
  BY DEF Layout
<1>5. Total \in Nat /\ Size(p) \in Nat /\ n \in 0..last /\ last \in Nat
  BY <1>1, <1>4, SizeType DEF Total
<1>0. PICK o : o = [m \in n..last |-> IF m = last THEN Total + Size(p) ELSE off[m]]
  OBVIOUS
<1>6. /\ o \in [n..last -> Nat] /\ o[n] = pos /\ o[last] = Total + Size(p)
      /\ \A m \in n..Len(sent) : o[m] = off[m]
  BY <1>0, <1>1, <1>4, <1>5
<1>9. \A a, b \in n..last : a <= b => o[a] <= o[b]
  <2>1. \A a, b \in n..Len(sent) : a <= b => off[a] <= off[b]
    BY DEF Layout
  <2>2. \A a \in n..Len(sent) : off[a] <= Total /\ off[a] \in Nat
    BY <1>1, <1>4, <2>1
  <2>3. \A a \in n..last : a = last \/ a \in n..Len(sent)
    BY <1>1, <1>4
  <2>4. ASSUME NEW a \in n..last, NEW b \in n..last, a <= b PROVE o[a] <= o[b]
    <3>1. CASE b = last
      BY <1>5, <1>6, <2>2, <2>3, <3>1
    <3>2. CASE b # last
      BY <1>1, <1>4, <1>6, <2>1, <2>3, <2>4, <3>2
    <3> QED
      BY <3>1, <3>2
  <2> QED
    BY <2>4
<1>7. ASSUME NEW m \in (n + 1)..last
      PROVE  /\ o[m] = o[m - 1] + Size(sent'[m])
             /\ \A j \in 1..Size(sent'[m]) : At(buffer', wire', o[m - 1] + j) = Byte(sent'[m], j)
  <2>1. CASE m = last
    <3>1. o[m - 1] = Total
      BY <1>1, <1>4, <1>6, <2>1
    <3> QED
      BY <1>2, <1>3, <1>6, <2>1, <3>1
  <2>2. CASE m # last
    <3>1. m \in (n + 1)..Len(sent) /\ m - 1 \in n..Len(sent) /\ m \in n..Len(sent)
      BY <1>1, <1>4, <2>2
    <3>2. /\ off[m] = off[m - 1] + Size(sent[m])
          /\ \A j \in 1..Size(sent[m]) : At(buffer, wire, off[m - 1] + j) = Byte(sent[m], j)
      BY <3>1 DEF Layout
    <3>3. off[m] <= Total
      BY <1>1, <1>4, <3>1 DEF Layout
    <3>4. m \in 1..Len(sent) /\ sent[m] \in Packets /\ Size(sent[m]) \in Nat /\ off[m - 1] \in Nat
      <4>1. m \in 1..Len(sent)
        BY <1>1, <1>4, <3>1
      <4>2. sent[m] \in Packets
        BY <4>1 DEF TypeOK
      <4> QED
        BY <1>4, <3>1, <4>1, <4>2, SizeType
    <3>5. \A j \in 1..Size(sent[m]) : off[m - 1] + j \in 1..Total
      BY <1>5, <3>2, <3>3, <3>4
    <3> QED
      BY <1>2, <1>3, <1>6, <3>1, <3>2, <3>4, <3>5
  <2> QED
    BY <2>1, <2>2
<1>8. Layout(n, o)'
  BY <1>2, <1>3, <1>5, <1>6, <1>7, <1>9 DEF Layout
<1> QED
  BY <1>8

\* Bytes move from the wire to the buffer: the stream is the same.
LEMMA ArriveLayout ==
  ASSUME TypeOK, Reader, Arrive, NEW n, NEW off, Layout(n, off)
  PROVE  Layout(n, off)'
<1>1. PICK k \in 1..MaxReceive :
         /\ k <= Len(wire)
         /\ buffer' = buffer \o SubSeq(wire, 1, k)
         /\ wire' = SubSeq(wire, k + 1, Len(wire))
  BY DEF Arrive
<1>2. /\ buffer \in Seq(AllBytes) /\ wire \in Seq(AllBytes)
      /\ Len(buffer) \in Nat /\ Len(wire) \in Nat /\ k \in 0..Len(wire)
  BY <1>1 DEF TypeOK, AllBytes
<1>3. /\ SubSeq(wire, 1, k) \in Seq(AllBytes) /\ Len(SubSeq(wire, 1, k)) = k
      /\ \A i \in 1..k : SubSeq(wire, 1, k)[i] = wire[i]
  BY <1>1, <1>2
<1>4. /\ Len(buffer') = Len(buffer) + k
      /\ \A i \in 1..Len(buffer) : buffer'[i] = buffer[i]
      /\ \A j \in 1..k : buffer'[Len(buffer) + j] = wire[j]
  BY <1>1, <1>2, <1>3, ConcatType
<1>5. Len(wire') = Len(wire) - k /\ \A i \in 1..(Len(wire) - k) : wire'[i] = wire[i + k]
  BY <1>1, <1>2, SubSeqType
<1>6. Total' = Total
  BY <1>2, <1>4, <1>5 DEF Total
<1>7. \A i \in 1..Total : At(buffer', wire', i) = At(buffer, wire, i)
  <2> SUFFICES ASSUME NEW i \in 1..Total PROVE At(buffer', wire', i) = At(buffer, wire, i)
    OBVIOUS
  <2>1. CASE i <= Len(buffer)
    BY <1>2, <1>4, <2>1 DEF At, Total
  <2>2. CASE i > Len(buffer) /\ i <= Len(buffer) + k
    <3>1. i - Len(buffer) \in 1..k /\ i = Len(buffer) + (i - Len(buffer))
      BY <1>2, <2>2 DEF Total
    <3> QED
      BY <1>2, <1>4, <2>2, <3>1 DEF At
  <2>3. CASE i > Len(buffer) + k
    <3>1. i - Len(buffer') \in 1..(Len(wire) - k) /\ (i - Len(buffer')) + k = i - Len(buffer)
      BY <1>2, <1>4, <2>3 DEF Total
    <3>2. ~(i <= Len(buffer')) /\ ~(i <= Len(buffer))
      BY <1>2, <1>4, <2>3
    <3>3. wire'[i - Len(buffer')] = wire[i - Len(buffer)]
      BY <1>5, <3>1
    <3> QED
      BY <3>2, <3>3 DEF At
  <2> QED
    BY <1>2, <2>1, <2>2, <2>3 DEF Total
<1>8. pos' = pos /\ sent' = sent
  BY DEF Arrive, Reader
<1>9. \A m \in (n + 1)..Len(sent) : \A j \in 1..Size(sent[m]) : off[m - 1] + j \in 1..Total
  BY <1>2, PlacesInside
<1> QED
  BY <1>6, <1>7, <1>8, <1>9 DEF Layout

\* The reader goes past the packet it has read.
LEMMA ParseLayout ==
  ASSUME TypeOK, NEW n, NEW off, Layout(n, off), n + 1 \in DOMAIN sent,
         UNCHANGED <<sent, buffer, wire>>, pos' = off[n + 1]
  PROVE  \E o : Layout(n + 1, o)'
<1>0. PICK o : o = [m \in (n + 1)..Len(sent) |-> off[m]]
  OBVIOUS
<1>1. Len(sent) \in Nat /\ n \in 0..Len(sent) /\ n + 1 \in 0..Len(sent)
  BY DEF TypeOK, Layout
<1>2. /\ o \in [(n + 1)..Len(sent) -> Nat] /\ \A m \in (n + 1)..Len(sent) : o[m] = off[m] /\ m \in n..Len(sent)
  BY <1>0, <1>1 DEF Layout
<1>3. o[n + 1] = pos' /\ o[Len(sent)] = Total'
  BY <1>1, <1>2 DEF Layout, Total
<1>4. \A a, b \in (n + 1)..Len(sent) : a <= b => o[a] <= o[b]
  BY <1>2 DEF Layout
<1>5. \A m \in (n + 2)..Len(sent) :
        /\ o[m] = o[m - 1] + Size(sent[m])
        /\ \A j \in 1..Size(sent[m]) : At(buffer, wire, o[m - 1] + j) = Byte(sent[m], j)
  <2> SUFFICES ASSUME NEW m \in (n + 2)..Len(sent)
               PROVE  /\ o[m] = o[m - 1] + Size(sent[m])
                      /\ \A j \in 1..Size(sent[m]) : At(buffer, wire, o[m - 1] + j) = Byte(sent[m], j)
    OBVIOUS
  <2>1. m \in (n + 1)..Len(sent) /\ m - 1 \in (n + 1)..Len(sent)
    BY <1>1
  <2> QED
    BY <1>2, <2>1 DEF Layout
<1>6. (n + 1) + 1 = n + 2
  BY <1>1
<1>7. Layout(n + 1, o)'
  BY <1>1, <1>2, <1>3, <1>4, <1>5, <1>6 DEF Layout
<1> QED
  BY <1>7

\* The session drops what was read: every offset moves by as much.
LEMMA EndLayout ==
  ASSUME TypeOK, Reader, ParseEnd, NEW n, NEW off, Layout(n, off)
  PROVE  \E o : Layout(n, o)'
<1>0. PICK o : o = [m \in n..Len(sent) |-> off[m] - pos]
  OBVIOUS
<1>1. /\ buffer \in Seq(AllBytes) /\ pos \in 0..Len(buffer)
      /\ Len(buffer) \in Nat /\ Len(wire) \in Nat /\ Len(sent) \in Nat
  BY DEF TypeOK, AllBytes
<1>2. /\ buffer' = SubSeq(buffer, pos + 1, Len(buffer)) /\ pos' = 0
      /\ sent' = sent /\ wire' = wire
  BY DEF ParseEnd, Return, Reader
<1>3. Len(buffer') = Len(buffer) - pos /\ \A i \in 1..(Len(buffer) - pos) : buffer'[i] = buffer[i + pos]
  BY <1>1, <1>2, SubSeqType
<1>4. Total' = Total - pos /\ Total \in Nat
  BY <1>1, <1>2, <1>3 DEF Total
<1>5. \A i \in 1..(Total - pos) : At(buffer', wire', i) = At(buffer, wire, i + pos)
  <2> SUFFICES ASSUME NEW i \in 1..(Total - pos) PROVE At(buffer', wire', i) = At(buffer, wire, i + pos)
    OBVIOUS
  <2>1. i \in Nat /\ (i <= Len(buffer') <=> i + pos <= Len(buffer))
        /\ i - Len(buffer') = (i + pos) - Len(buffer)
    BY <1>1, <1>3, <1>4
  <2>2. CASE i <= Len(buffer')
    BY <1>1, <1>3, <2>1, <2>2 DEF At
  <2>3. CASE ~(i <= Len(buffer'))
    BY <1>2, <2>1, <2>3 DEF At
  <2> QED
    BY <2>2, <2>3
<1>6. n \in 0..Len(sent) /\ off \in [n..Len(sent) -> Nat] /\ off[n] = pos /\ off[Len(sent)] = Total
  BY DEF Layout
<1>7. \A m \in n..Len(sent) : o[m] = off[m] - pos /\ o[m] \in Nat /\ off[m] \in Nat
  BY <1>0, <1>1, <1>6 DEF Layout
<1>8. o \in [n..Len(sent) -> Nat]
  BY <1>0, <1>7
<1>9. o[n] = pos' /\ o[Len(sent)] = Total'
  <2>1. n \in n..Len(sent) /\ Len(sent) \in n..Len(sent)
    BY <1>1, <1>6
  <2>2. pos - pos = 0
    BY <1>1
  <2> QED
    BY <1>1, <1>2, <1>4, <1>6, <1>7, <2>1, <2>2
<1>10. \A a, b \in n..Len(sent) : a <= b => o[a] <= o[b]
  BY <1>1, <1>7 DEF Layout
<1>11. ASSUME NEW m \in (n + 1)..Len(sent)
       PROVE  /\ o[m] = o[m - 1] + Size(sent[m])
              /\ \A j \in 1..Size(sent[m]) : At(buffer', wire', o[m - 1] + j) = Byte(sent[m], j)
  <2>1. m \in n..Len(sent) /\ m - 1 \in n..Len(sent) /\ m \in 1..Len(sent)
    BY <1>1, <1>6
  <2>2. sent[m] \in Packets /\ Size(sent[m]) \in Nat
    BY <2>1, SizeType DEF TypeOK
  <2>3. /\ off[m] = off[m - 1] + Size(sent[m])
        /\ \A j \in 1..Size(sent[m]) : At(buffer, wire, off[m - 1] + j) = Byte(sent[m], j)
    BY DEF Layout
  <2>4. \A j \in 1..Size(sent[m]) : off[m - 1] + j \in 1..Total
    BY <1>1, PlacesInside
  <2>5. \A j \in 1..Size(sent[m]) : o[m - 1] + j \in 1..(Total - pos) /\ (o[m - 1] + j) + pos = off[m - 1] + j
    <3>1. /\ o[m - 1] = off[m - 1] - pos /\ o[m - 1] \in Nat /\ off[m - 1] \in Nat
          /\ pos \in Nat /\ Total \in Nat
      BY <1>1, <1>4, <1>7, <2>1
    <3> SUFFICES ASSUME NEW j \in 1..Size(sent[m])
                 PROVE  o[m - 1] + j \in 1..(Total - pos) /\ (o[m - 1] + j) + pos = off[m - 1] + j
      OBVIOUS
    <3>2. off[m - 1] + j \in 1..Total /\ j \in Nat /\ j >= 1
      BY <2>2, <2>4
    <3> QED
      BY <3>1, <3>2
  <2>6. o[m] = off[m] - pos /\ o[m - 1] = off[m - 1] - pos /\ off[m - 1] \in Nat /\ pos \in Nat
    BY <1>1, <1>7, <2>1
  <2>7. o[m] = o[m - 1] + Size(sent[m])
    BY <2>2, <2>3, <2>6
  <2>8. ASSUME NEW j \in 1..Size(sent[m]) PROVE At(buffer', wire', o[m - 1] + j) = Byte(sent[m], j)
    BY <1>5, <2>3, <2>5, <2>8
  <2> QED
    BY <2>7, <2>8
<1>12. Layout(n, o)'
  BY <1>2, <1>6, <1>8, <1>9, <1>10, <1>11 DEF Layout
<1> QED
  BY <1>12

-----------------------------------------------------------------------------
LEMMA StreamStep == Stream /\ [Next]_vars => Stream'
<1> SUFFICES ASSUME Stream, [Next]_vars PROVE Stream'
  OBVIOUS
<1>0. TypeOK /\ Reader /\ TypeOK'
  BY TypeStep DEF Stream
<1>1. PICK n : Parsed(n)
  BY DEF Stream
<1>2. PICK off : Layout(n, off)
  BY <1>1 DEF Parsed
<1>a. n \in 0..Len(sent) /\ DeliveredOf(n)
  BY <1>1, <1>2 DEF Parsed, Layout
<1>4. ASSUME NEW p \in Packets, Send(p) PROVE Parsed(n)'
  <2>1. \E o : Layout(n, o)'
    BY <1>0, <1>2, <1>4, SendLayout
  <2>2. UNCHANGED delivered /\ p \notin ToSet(sent) /\ sent' = Append(sent, p)
    BY <1>4 DEF Send
  <2>3. DeliveredOf(n)'
    BY <1>0, <1>a, <2>2, SameDelivered
  <2> QED
    BY <2>1, <2>3 DEF Parsed
<1>5. ASSUME Arrive PROVE Parsed(n)'
  <2>1. Layout(n, off)'
    BY <1>0, <1>2, <1>5, ArriveLayout
  <2>2. UNCHANGED <<delivered, sent>>
    BY <1>5 DEF Arrive
  <2>3. DeliveredOf(n)'
    BY <1>a, <2>2 DEF DeliveredOf
  <2> QED
    BY <2>1, <2>3 DEF Parsed
<1>6. ASSUME ParsePacket PROVE Parsed(n + 1)'
  <2>1. PICK p \in Packets : Heads(p) /\ Enough(pos, Size(p)) /\ Handle(p) /\ Skip(p)
    BY <1>6 DEF ParsePacket
  <2>2. n + 1 \in DOMAIN sent /\ p = sent[n + 1] /\ off[n + 1] = pos + Size(p)
    BY <1>0, <1>2, <2>1, HeadIsNext
  <2>3. pos' = off[n + 1] /\ UNCHANGED <<sent, wire, buffer>>
    BY <1>6, <2>1, <2>2 DEF ParsePacket, GoTo
  <2>4. \E o : Layout(n + 1, o)'
    BY <1>0, <1>2, <2>2, <2>3, ParseLayout
  <2>5. \A i \in (HeadLen + 1)..Size(p) : At(buffer, wire, pos + i) = Byte(p, i) /\ pos + i \in 1..Len(buffer)
    <3>1. pos \in 0..Len(buffer) /\ Len(buffer) \in Nat
      BY <1>0 DEF TypeOK
    <3>2. \A j \in 1..Size(p) : At(buffer, wire, pos + j) = Byte(p, j)
      <4>1. n + 1 \in (n + 1)..Len(sent) /\ off[(n + 1) - 1] = pos
        BY <1>0, <1>2, <2>2 DEF Layout, TypeOK
      <4>2. \A j \in 1..Size(sent[n + 1]) : At(buffer, wire, off[(n + 1) - 1] + j) = Byte(sent[n + 1], j)
        BY <1>2, <4>1 DEF Layout
      <4> QED
        BY <2>2, <4>1, <4>2
    <3> QED
      BY <2>1, <3>1, <3>2, SizeType DEF Enough
  <2>6. Body(p) = SubSeq(Bytes(p), HeadLen + 1, Size(p))
    <3>1. /\ buffer \in Seq(AllBytes) /\ Len(buffer) \in Nat /\ pos \in 0..Len(buffer)
          /\ pos + Size(p) <= Len(buffer) /\ Size(p) \in Nat /\ HeadLen \in Nat
      <4>1. buffer \in Seq(AllBytes) /\ Len(buffer) \in Nat /\ pos \in 0..Len(buffer)
        BY <1>0 DEF TypeOK, AllBytes
      <4> QED
        BY <2>1, <4>1, SizeType DEF Enough
    <3>2. \A i \in (HeadLen + 1)..Size(p) : buffer[pos + i] = Bytes(p)[i]
      BY <2>5, <3>1, BytesType DEF At
    <3>3. PICK whole : whole = Bytes(p)
      OBVIOUS
    <3>4. whole \in Seq(AllBytes) /\ Len(whole) = Size(p)
      BY <3>3, BytesType
    <3>5. /\ buffer \in Seq(AllBytes) /\ whole \in Seq(AllBytes) /\ HeadLen \in Nat
          /\ pos \in Nat /\ pos + Len(whole) <= Len(buffer)
          /\ \A i \in (HeadLen + 1)..Len(whole) : buffer[pos + i] = whole[i]
      BY <3>1, <3>2, <3>3, <3>4
    <3>6. SubSeq(buffer, pos + HeadLen + 1, pos + Len(whole)) = SubSeq(whole, HeadLen + 1, Len(whole))
      BY <3>5, SameSubSeq
    <3> QED
      BY <3>3, <3>4, <3>6 DEF Body
  <2>7. delivered' = Sound(delivered, sent[n + 1])
    BY <2>1, <2>2, <2>6 DEF Handle, Sound
  <2>8. DeliveredOf(n + 1)'
    BY <1>0, <1>a, <2>2, <2>3, <2>7, NextRequested DEF DeliveredOf, TypeOK
  <2> QED
    BY <2>4, <2>8 DEF Parsed
<1>7. ASSUME ParseEnd PROVE Parsed(n)'
  <2>1. \E o : Layout(n, o)'
    BY <1>0, <1>2, <1>7, EndLayout
  <2>2. UNCHANGED <<delivered, sent>>
    BY <1>7 DEF ParseEnd
  <2>3. DeliveredOf(n)'
    BY <1>a, <2>2 DEF DeliveredOf
  <2> QED
    BY <2>1, <2>3 DEF Parsed
<1>8. ASSUME Disconnect \/ UNCHANGED vars PROVE Parsed(n)'
  <2>1. UNCHANGED <<delivered, sent, buffer, wire, pos>>
    BY <1>8 DEF Disconnect, vars
  <2>2. Layout(n, off)'
    BY <1>2, <2>1 DEF Layout, Total
  <2>3. DeliveredOf(n)'
    BY <1>a, <2>1 DEF DeliveredOf
  <2> QED
    BY <2>2, <2>3 DEF Parsed
<1>9. Parsed(n)' \/ Parsed(n + 1)'
  BY <1>4, <1>5, <1>6, <1>7, <1>8 DEF Next, Parse
<1> QED
  BY <1>0, <1>9, SmallStep DEF Stream

-----------------------------------------------------------------------------
\* The inductive invariant: from the reader's position on, the stream is a row of
\* the next whole packets, and what was delivered are the packets before it.
THEOREM StreamHolds == Spec => []Stream
<1>1. Init => Stream
  BY InitStream
<1>2. Stream /\ [Next]_vars => Stream'
  BY StreamStep
<1> QED
  BY <1>1, <1>2, PTL DEF Spec

\* The session and the parser stay within their types.
THEOREM TypeCorrect == Spec => []TypeOK
<1>1. Stream => TypeOK
  BY DEF Stream
<1> QED
  BY <1>1, StreamHolds, PTL

\* However TCP cuts the stream and whatever the packets' lengths, what is left in
\* the buffer when the data callback returns is the beginning of one packet and
\* less than the whole of it (BinaryProtocol.h:169).
THEOREM NothingStaysBehind == Spec => []NothingHeldBack
<1>1. Stream => NothingHeldBack
  BY DEF Stream
<1> QED
  BY <1>1, StreamHolds, PTL

\* What is delivered is what was sent up to some packet, less what cannot be
\* handled: in order, each packet once, nothing garbled, for any packets and
\* however the stream is cut (BinaryProtocol.h:72).
THEOREM OrderKept == Spec => []DeliveredInOrder
<1>1. Stream => DeliveredInOrder
  <2> SUFFICES ASSUME Stream PROVE DeliveredInOrder
    OBVIOUS
  <2>1. PICK n \in 0..Len(sent) : DeliveredOf(n)
    BY DEF Stream, Parsed, Layout
  <2>2. sent \in Seq(Packets)
    BY DEF Stream, TypeOK
  <2> QED
    BY <2>1, <2>2, RequestedGrows DEF DeliveredOf, DeliveredInOrder
<1> QED
  BY <1>1, StreamHolds, PTL
=============================================================================
