--------------------------- MODULE BinaryProtocol ---------------------------
(***************************************************************************)
(* One direction of a connection that speaks the binary protocol           *)
(* (BinaryProtocol.h): packets [data_len | op | data] are written to a     *)
(* byte stream, TCP cuts the stream where it likes, and the receiver's     *)
(* parse loop puts the packets together again.                             *)
(*                                                                         *)
(* A byte is a pair [packet, place] of the packet it belongs to and its    *)
(* place in it.  A head read from bytes that are not the first of a packet *)
(* is not that packet's head, and a body that is not the packet's own is   *)
(* garbled: that the loop never meets either is what is checked.           *)
(***************************************************************************)
EXTENDS Integers, Sequences, SequencesExt

CONSTANTS
  Packets,     \* the packets that are sent
  DataLen,     \* DataLen[p]: data_len of p
  Foreign,     \* packets whose op is not OpCodeProtobuf
  Broken,      \* protobuf packets whose sizes or whose RpcMeta do not parse
  HeadLen,     \* bytes of data_len and op: 12 in the code
  MaxReceive   \* most bytes that one read of the socket brings

ASSUME LengthsAreNumbers ==
  /\ DataLen \in [Packets -> Nat]
  /\ HeadLen \in Nat \ {0}
  /\ MaxReceive \in Nat \ {0}
ASSUME KindsOfPackets == Foreign \subseteq Packets /\ Broken \subseteq Packets \ Foreign

VARIABLES
  sent,        \* the packets in the order the session took them
  connected,
  wire,        \* bytes on their way
  buffer,      \* bytes received and not yet dropped
  pos,         \* the reader's position in buffer
  savedPos,    \* its savePos(): bytes the session may drop
  parsing,     \* the data callback runs
  delivered    \* what handleRpcMsg was called with

vars == <<sent, connected, wire, buffer, pos, savedPos, parsing, delivered>>

Garbled  == "garbled"
Size(p)  == HeadLen + DataLen[p]
Bytes(p) == [i \in 1..Size(p) |-> [packet |-> p, place |-> i]]

TypeOK ==
  /\ sent \in Seq(Packets)
  /\ connected \in BOOLEAN
  /\ buffer \in Seq(UNION {ToSet(Bytes(p)) : p \in Packets})
  /\ wire \in Seq(UNION {ToSet(Bytes(p)) : p \in Packets})
  /\ pos \in 0..Len(buffer)
  /\ savedPos \in 0..pos
  /\ parsing \in BOOLEAN
  /\ delivered \in Seq(Packets \cup {Garbled})

Init ==
  /\ sent = <<>> /\ connected = TRUE
  /\ wire = <<>> /\ buffer = <<>>
  /\ pos = 0 /\ savedPos = 0 /\ parsing = FALSE
  /\ delivered = <<>>

\* binary::send: the session takes whole packets, from any thread.  A session
\* that is gone takes nothing and nobody is told.
Send(p) ==
  /\ p \notin ToSet(sent)
  /\ connected
  /\ sent' = Append(sent, p)
  /\ wire' = wire \o Bytes(p)
  /\ UNCHANGED <<connected, buffer, pos, savedPos, parsing, delivered>>

\* Some bytes arrive and the session runs the data callback on all it has.
Arrive ==
  /\ connected
  /\ ~parsing
  /\ \E n \in 1..MaxReceive :
       /\ n <= Len(wire)
       /\ buffer' = buffer \o SubSeq(wire, 1, n)
       /\ wire' = SubSeq(wire, n + 1, Len(wire))
  /\ pos' = 0
  /\ savedPos' = 0
  /\ parsing' = TRUE
  /\ UNCHANGED <<sent, connected, delivered>>

Enough(at, n) == Len(buffer) - at >= n

\* What the reader takes for a head says that packet p follows.  Bytes that are
\* not the first of a packet may say anything.
AtStart  == buffer[pos + 1].place = 1
Heads(p) == Enough(pos, HeadLen) /\ (AtStart => buffer[pos + 1].packet = p)
Body(p)  == SubSeq(buffer, pos + HeadLen + 1, pos + Size(p))

\* opHandle: packets with another op code are skipped, and so is what
\* parseProtobufPacket or RpcMeta::ParseFromArray rejects.
Handle(p) ==
  delivered' = IF p \in Foreign \cup Broken THEN delivered
               ELSE Append(delivered, IF Body(p) = SubSeq(Bytes(p), HeadLen + 1, Size(p)) THEN p ELSE Garbled)

\* The data callback returns and the session drops the first n bytes.
Return(n) ==
  /\ parsing' = FALSE
  /\ buffer' = SubSeq(buffer, n + 1, Len(buffer))
  /\ pos' = 0
  /\ savedPos' = 0

\* addPos and savePos.
GoTo(n) == pos' = n /\ savedPos' = n /\ UNCHANGED <<buffer, parsing>>

SkipFar(p)  == GoTo(pos + Size(p) + HeadLen)  \* bug: the head is counted twice
SkipOnce(p) == Return(pos + Size(p))          \* bug: if for while
SkipOwn(p)  == IF p \in Foreign THEN Return(savedPos) ELSE GoTo(pos + Size(p))  \* bug: break
Skip(p)     == GoTo(pos + Size(p))

\* One round of parseOpPacket's loop with a whole packet in the buffer.  What
\* handleRpcMsg throws is caught in opHandle.
ParsePacket ==
  /\ parsing
  /\ \E p \in Packets : Heads(p) /\ Enough(pos, Size(p)) /\ Handle(p) /\ Skip(p)
  /\ UNCHANGED <<sent, connected, wire>>

HeadRead == IF Enough(pos, HeadLen) THEN pos + HeadLen ELSE pos  \* bug: savePos after the head
Consumed == savedPos

\* The loop ends before a head or a body that is not there yet: a head that was
\* read stays in the buffer and is read again.
ParseEnd ==
  /\ parsing
  /\ \/ ~Enough(pos, HeadLen)
     \/ \E p \in Packets : Heads(p) /\ ~Enough(pos, Size(p))
  /\ Return(Consumed)
  /\ UNCHANGED <<sent, connected, wire, delivered>>

Disconnect ==
  /\ connected
  /\ connected' = FALSE
  /\ UNCHANGED <<sent, wire, buffer, pos, savedPos, parsing, delivered>>

Parse == ParsePacket \/ ParseEnd

Next ==
  \/ \E p \in Packets : Send(p)
  \/ Arrive \/ Parse \/ Disconnect

Spec == Init /\ [][Next]_vars

\* TCP brings the bytes of a connection that stays up, and the loop runs on.
FairSpec == Spec /\ WF_vars(Arrive) /\ WF_vars(Parse)

-----------------------------------------------------------------------------
(* Properties                                                              *)

\* What of a row of packets can be handled.
Sound(row, p) == IF p \in Foreign \cup Broken THEN row ELSE Append(row, p)
Requested(s)  == FoldLeft(Sound, <<>>, s)

\* However the stream is cut, what is delivered is what was sent: in order, each
\* packet once, never garbled; packets that cannot be handled are left out and
\* do not disturb those behind them.
DeliveredInOrder == IsPrefix(delivered, Requested(sent))

\* When the data callback returns, no whole packet is held back: what is left in
\* the buffer is less than the packet it begins.
NothingHeldBack ==
  ~parsing /\ buffer # <<>> => buffer[1].place = 1 /\ Len(buffer) < Size(buffer[1].packet)

\* On a connection that stays up every packet is delivered.
EventuallyDelivered ==
  \A p \in Packets \ (Foreign \cup Broken) :
    p \in ToSet(sent) ~> (p \in ToSet(delivered) \/ ~connected)
=============================================================================
