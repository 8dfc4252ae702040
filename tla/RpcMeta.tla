------------------------------ MODULE RpcMeta ------------------------------
(***************************************************************************)
(* The message that heads every gayrpc packet (gayrpc_meta.proto) and what *)
(* the code generated from it does (gayrpc_meta.pb.h, gayrpc_meta.pb.cc):  *)
(* write, size, read, merge and move.                                      *)
(*                                                                         *)
(* A message is a record of its fields and of the unknown fields it was    *)
(* read with; a submessage is held by a pointer.  What is written is a     *)
(* sequence of fields, each a number with a varint, a string or a nested   *)
(* message.  A negative varint stands for its two's complement of 64 bits. *)
(* Bytes that do not form fields are BinaryProtocol's concern.             *)
(***************************************************************************)
EXTENDS Integers, SequencesExt

REQUEST == 0   RESPONSE == 1   \* RpcMeta::Type
BINARY  == 0   JSON     == 1   \* RpcMeta::DataEncodingType

Null   == <<>>       \* a pointer
Ptr(m) == <<m>>
Empty  == ""         \* a string

\* Every string is one; that it has a length is said because no prover knows it, nor
\* that a literal is a string.
Texts == {s \in STRING : Len(s) \in Nat}
ASSUME EmptyIsText == Empty \in Texts

\* What is on the wire; messages nest two deep.
Leaf  == [num : Nat, varint : Int] \cup [num : Nat, bytes : Texts]
Field == Leaf \cup [num : Nat, msg : Seq(Leaf)]

Is(f, num, wiretype) == f.num = num /\ wiretype \in DOMAIN f

\* The fields that the messages know.
OfRequest(f)  == Is(f, 2, "bytes") \/ \E n \in {1, 3, 4, 5} : Is(f, n, "varint")
OfResponse(f) == Is(f, 4, "bytes") \/ \E n \in {1, 2, 3, 5} : Is(f, n, "varint")
OfMeta(f)     == \/ \E n \in {1, 2, 3} : Is(f, n, "varint")
                 \/ \E n \in {4, 5, 6} : Is(f, n, "msg")

\* The classes: each field has a getter and a setter of its type; what is unknown
\* is none of the known fields.
IsRequest(r) ==
  /\ r \in [intMethod : Nat, strMethod : Texts, expect_response : BOOLEAN,
            sequence_id : Nat, timeout : Nat, unknown : Seq(Leaf)]
  /\ \A i \in DOMAIN r.unknown : ~OfRequest(r.unknown[i])

IsResponse(r) ==
  /\ r \in [sequence_id : Nat, failed : BOOLEAN, error_code : Int, reason : Texts,
            timeout : BOOLEAN, unknown : Seq(Leaf)]
  /\ \A i \in DOMAIN r.unknown : ~OfResponse(r.unknown[i])

IsMap(map) ==
  /\ IsFiniteSet(DOMAIN map)
  /\ map = [k \in DOMAIN map |-> map[k]]
  /\ \A k \in DOMAIN map : k \in Texts /\ map[k] \in Texts

IsMeta(m) ==
  /\ m \in [type : Nat, service_id : Nat, encoding : Nat, request_info : {m.request_info},
            response_info : {m.response_info}, meta_data : {m.meta_data}, unknown : Seq(Field)]
  /\ m.request_info = Null \/
       (m.request_info = Ptr(m.request_info[1]) /\ IsRequest(m.request_info[1]))
  /\ m.response_info = Null \/
       (m.response_info = Ptr(m.response_info[1]) /\ IsResponse(m.response_info[1]))
  /\ IsMap(m.meta_data)
  /\ \A i \in DOMAIN m.unknown : ~OfMeta(m.unknown[i])

NewRequest ==
  [intMethod |-> 0, strMethod |-> Empty, expect_response |-> FALSE, sequence_id |-> 0,
   timeout |-> 0, unknown |-> <<>>]

NewResponse ==
  [sequence_id |-> 0, failed |-> FALSE, error_code |-> 0, reason |-> Empty, timeout |-> FALSE,
   unknown |-> <<>>]

NewMeta ==
  [type |-> REQUEST, service_id |-> 0, encoding |-> BINARY, request_info |-> Null,
   response_info |-> Null, meta_data |-> [k \in {} |-> Empty], unknown |-> <<>>]

\* The accessors of an absent submessage answer with the default instance, the
\* mutable ones create it.
Deref(ptr, default)  == IF ptr = Null THEN default ELSE ptr[1]
request_info(meta)   == Deref(meta.request_info, NewRequest)
response_info(meta)  == Deref(meta.response_info, NewResponse)

\* The move constructor swaps with a fresh message.
Moved(meta) == [to |-> meta, left |-> NewMeta]

-----------------------------------------------------------------------------
(* Writing: a field at its default is left out, unknown fields go last.    *)

Varint(num, v)  == IF v = 0 THEN <<>> ELSE <<[num |-> num, varint |-> v]>>
Flag(num, b)    == IF b THEN <<[num |-> num, varint |-> 1]>> ELSE <<>>
Text(num, s)    == IF s = Empty THEN <<>> ELSE <<[num |-> num, bytes |-> s]>>
Nested(num, fields) == <<[num |-> num, msg |-> fields]>>

SerializeRequest(r) ==
  Varint(1, r.intMethod) \o Text(2, r.strMethod) \o Flag(3, r.expect_response)
    \o Varint(4, r.sequence_id) \o Varint(5, r.timeout) \o r.unknown

SerializeResponse(r) ==
  Varint(1, r.sequence_id) \o Flag(2, r.failed) \o Varint(3, r.error_code)
    \o Text(4, r.reason) \o Flag(5, r.timeout) \o r.unknown

\* A map entry writes its key and its value whether empty or not.
Entry(k, v) == [num |-> 6, msg |-> <<[num |-> 1, bytes |-> k], [num |-> 2, bytes |-> v]>>]

\* The entries of a map come in no particular order.
SerializeMeta(m) ==
  Varint(1, m.type) \o Varint(2, m.service_id) \o Varint(3, m.encoding)
    \o (IF m.request_info = Null THEN <<>> ELSE Nested(4, SerializeRequest(m.request_info[1])))
    \o (IF m.response_info = Null THEN <<>> ELSE Nested(5, SerializeResponse(m.response_info[1])))
    \o SetToSeq({Entry(k, m.meta_data[k]) : k \in DOMAIN m.meta_data}) \o m.unknown

-----------------------------------------------------------------------------
(* Sizes in bytes: a field number below 16 makes a tag of one byte.        *)

\* Seven bits to a byte, ten bytes at most: a negative number is written with all of
\* its 64 bits.  The upper bits are reached by dividing, three bytes at a time.
ThreeBytes == 128 * 128 * 128

Short(v) ==
  CASE v \in 0..127                    -> 1
    [] v \in 128..16383                -> 2
    [] v \in 16384..(ThreeBytes - 1)   -> 3
    [] OTHER                           -> 4

VarintSize(v) ==
  LET upper == v \div ThreeBytes IN
    CASE v < 0                                    -> 10
      [] v \in 0..(ThreeBytes - 1)                -> Short(v)
      [] v >= ThreeBytes /\ upper < ThreeBytes    -> 3 + Short(upper)
      [] OTHER                                    -> 6 + Short(upper \div ThreeBytes)

LengthDelimited(n) == VarintSize(n) + n

Plus(a, b)   == a + b
Total(numbers) == FoldLeft(Plus, 0, numbers)

\* The size of what was written, from what was written; messages nest two deep.
FieldSize(f, Inner(_)) ==
  1 + (IF "varint" \in DOMAIN f THEN VarintSize(f.varint)
       ELSE IF "bytes" \in DOMAIN f THEN LengthDelimited(Len(f.bytes))
       ELSE LengthDelimited(Inner(f.msg)))
Leaves(fields)   == Total([i \in DOMAIN fields |-> FieldSize(fields[i], LAMBDA m : 0)])
WireSize(fields) == Total([i \in DOMAIN fields |-> FieldSize(fields[i], Leaves)])

\* The size a message announces before it is written, from its fields.
VarintLen(v)  == IF v = 0 THEN 0 ELSE 1 + VarintSize(v)
FlagLen(b)    == IF b THEN 1 + 1 ELSE 0
TextLen(s)    == IF s = Empty THEN 0 ELSE 1 + LengthDelimited(Len(s))

Int32As5(v) == IF v = 0 THEN 0 ELSE 1 + (IF v < 0 THEN 5 ELSE VarintSize(v))  \* bug
Int32Len(v) == VarintLen(v)

RequestByteSize(r) ==
  TextLen(r.strMethod) + VarintLen(r.intMethod) + VarintLen(r.sequence_id)
    + VarintLen(r.timeout) + FlagLen(r.expect_response) + Leaves(r.unknown)

ResponseByteSize(r) ==
  TextLen(r.reason) + VarintLen(r.sequence_id) + FlagLen(r.failed) + FlagLen(r.timeout)
    + Int32Len(r.error_code) + Leaves(r.unknown)

EntryByteSize(k, v) == LengthDelimited(2 + LengthDelimited(Len(k)) + LengthDelimited(Len(v)))

MetaByteSize(m) ==
  LET keys == SetToSeq(DOMAIN m.meta_data) IN
  Len(keys) + Total([i \in DOMAIN keys |-> EntryByteSize(keys[i], m.meta_data[keys[i]])])
    + (IF m.request_info = Null THEN 0
       ELSE 1 + LengthDelimited(RequestByteSize(m.request_info[1])))
    + (IF m.response_info = Null THEN 0
       ELSE 1 + LengthDelimited(ResponseByteSize(m.response_info[1])))
    + VarintLen(m.type) + VarintLen(m.service_id) + VarintLen(m.encoding) + WireSize(m.unknown)

-----------------------------------------------------------------------------
(* Reading: the fields come in any order and any number of times.  A field *)
(* that is unknown, or of another wire type than the message's, is kept.   *)

DropUnknown(m, f) == m  \* bug: unknown fields are skipped
KeepUnknown(m, f) == [m EXCEPT !.unknown = Append(@, f)]

ReadRequestField(r, f) ==
  CASE Is(f, 1, "varint") -> [r EXCEPT !.intMethod = f.varint]
    [] Is(f, 2, "bytes")  -> [r EXCEPT !.strMethod = f.bytes]
    [] Is(f, 3, "varint") -> [r EXCEPT !.expect_response = (f.varint # 0)]
    [] Is(f, 4, "varint") -> [r EXCEPT !.sequence_id = f.varint]
    [] Is(f, 5, "varint") -> [r EXCEPT !.timeout = f.varint]
    [] OTHER -> KeepUnknown(r, f)

ReadResponseField(r, f) ==
  CASE Is(f, 1, "varint") -> [r EXCEPT !.sequence_id = f.varint]
    [] Is(f, 2, "varint") -> [r EXCEPT !.failed = (f.varint # 0)]
    [] Is(f, 3, "varint") -> [r EXCEPT !.error_code = f.varint]
    [] Is(f, 4, "bytes")  -> [r EXCEPT !.reason = f.bytes]
    [] Is(f, 5, "varint") -> [r EXCEPT !.timeout = (f.varint # 0)]
    [] OTHER -> KeepUnknown(r, f)

\* A submessage that comes again is read into the one that is there.
ReadRequest(ptr, fields)  == Ptr(FoldLeft(ReadRequestField, Deref(ptr, NewRequest), fields))
ReadResponse(ptr, fields) == Ptr(FoldLeft(ReadResponseField, Deref(ptr, NewResponse), fields))

EntryKey(k, f)   == IF Is(f, 1, "bytes") THEN f.bytes ELSE k
EntryValue(v, f) == IF Is(f, 2, "bytes") THEN f.bytes ELSE v

ReadEntry(map, msg) ==
  LET key == FoldLeft(EntryKey, Empty, msg)
  IN [k \in DOMAIN map \cup {key} |->
        IF k = key THEN FoldLeft(EntryValue, Empty, msg) ELSE map[k]]

\* An enum takes any number, also one that has no name.
ReadMetaField(m, f) ==
  CASE Is(f, 1, "varint") -> [m EXCEPT !.type = f.varint]
    [] Is(f, 2, "varint") -> [m EXCEPT !.service_id = f.varint]
    [] Is(f, 3, "varint") -> [m EXCEPT !.encoding = f.varint]
    [] Is(f, 4, "msg") -> [m EXCEPT !.request_info = ReadRequest(@, f.msg)]
    [] Is(f, 5, "msg") -> [m EXCEPT !.response_info = ReadResponse(@, f.msg)]
    [] Is(f, 6, "msg") -> [m EXCEPT !.meta_data = ReadEntry(@, f.msg)]
    [] OTHER -> KeepUnknown(m, f)

ParseMeta(fields) == FoldLeft(ReadMetaField, NewMeta, fields)

-----------------------------------------------------------------------------
(* Merging: what is not at its default replaces, submessages merge.        *)

Over(old, new, default) == IF new = default THEN old ELSE new
Raised(old, new)        == IF new THEN TRUE ELSE old

MergeRequest(r, from) ==
  [intMethod       |-> Over(r.intMethod, from.intMethod, 0),
   strMethod       |-> Over(r.strMethod, from.strMethod, Empty),
   expect_response |-> Raised(r.expect_response, from.expect_response),
   sequence_id     |-> Over(r.sequence_id, from.sequence_id, 0),
   timeout         |-> Over(r.timeout, from.timeout, 0),
   unknown         |-> r.unknown \o from.unknown]

MergeResponse(r, from) ==
  [sequence_id |-> Over(r.sequence_id, from.sequence_id, 0),
   failed      |-> Raised(r.failed, from.failed),
   error_code  |-> Over(r.error_code, from.error_code, 0),
   reason      |-> Over(r.reason, from.reason, Empty),
   timeout     |-> Raised(r.timeout, from.timeout),
   unknown     |-> r.unknown \o from.unknown]

MergeMaps(map, from) ==
  [k \in DOMAIN map \cup DOMAIN from |-> IF k \in DOMAIN from THEN from[k] ELSE map[k]]

Merge(m, from) ==
  [type       |-> Over(m.type, from.type, REQUEST),
   service_id |-> Over(m.service_id, from.service_id, 0),
   encoding   |-> Over(m.encoding, from.encoding, BINARY),
   request_info  |-> IF from.request_info = Null THEN m.request_info
                     ELSE Ptr(MergeRequest(request_info(m), from.request_info[1])),
   response_info |-> IF from.response_info = Null THEN m.response_info
                     ELSE Ptr(MergeResponse(response_info(m), from.response_info[1])),
   meta_data  |-> MergeMaps(m.meta_data, from.meta_data),
   unknown    |-> m.unknown \o from.unknown]

\* CopyFrom clears the message and merges.
CopyOf(from) == Merge(NewMeta, from)

-----------------------------------------------------------------------------
(* The metas gayrpc builds.                                                *)

\* makeRequestRpcMeta, and the timeout that call() sets.
RequestMeta(seq, service, method, expectResponse, timeout) ==
  [NewMeta EXCEPT !.service_id = service,
     !.request_info = Ptr([NewRequest EXCEPT !.intMethod = method, !.sequence_id = seq,
                             !.expect_response = expectResponse, !.timeout = timeout])]

\* BaseReply::reply
ReplyMeta(requestMeta) ==
  [NewMeta EXCEPT !.type = RESPONSE, !.service_id = requestMeta.service_id,
     !.response_info = Ptr([NewResponse EXCEPT
        !.sequence_id = request_info(requestMeta).sequence_id])]

\* BaseReply::ReplyError
ErrorMeta(service, seq, code, reason) ==
  [NewMeta EXCEPT !.type = RESPONSE, !.service_id = service,
     !.response_info = Ptr([NewResponse EXCEPT
        !.sequence_id = seq, !.failed = TRUE, !.error_code = code, !.reason = reason])]

\* causeTimeout: the service id stays at its default.
TimeoutMeta(seq) ==
  [NewMeta EXCEPT !.type = RESPONSE,
     !.response_info = Ptr([NewResponse EXCEPT !.timeout = TRUE, !.sequence_id = seq])]
=============================================================================
