----------------------------- MODULE RpcSession -----------------------------
(***************************************************************************)
(* Two gayrpc programs joined by one connection.  Each end has one handle  *)
(* manager with services and with clients, possibly of one service, as     *)
(* EchoServer.cpp and EchoClient.cpp build them: both ends call each other.*)
(* A message is made by RpcMeta, goes through its end's InterceptorChain,  *)
(* travels in order, is parsed, and is dispatched by type and service id.  *)
(*                                                                         *)
(* A handler is one step here: what threads do in the middle of one is the *)
(* business of GayRpcClient, GayRpcService and RpcTypeHandler.  What is    *)
(* looked at here is which call an answer meets.                           *)
(***************************************************************************)
EXTENDS Integers, Sequences, FiniteSets, RpcMeta, InterceptorChain

CONSTANTS
  Clients,    \* client objects
  Programs,   \* what the two programs may be, see ProgramType
  ServiceIDs, \* service ids; generated code numbers the services of a file from 0
  Methods,    \* method ids that callers use
  Known,      \* those that services have
  Codes,      \* error codes that services answer with
  Extra,      \* a field that a newer peer writes and this code does not know
  Messages,   \* messages that the codec is tried on, besides those that are sent
  ChainLength,\* bound: chains looked at by ChainsRunInOrder
  MaxCalls    \* bound: MaxCalls[c] calls of client c

ASSUME KnownMethods == Known \subseteq Methods
ASSUME LengthIsNumber == ChainLength \in Nat
ASSUME CallsAreBounded == MaxCalls \in [Clients -> Nat]
ASSUME ServicesAreNumbered == ServiceIDs \subseteq Nat /\ 0 \in ServiceIDs
ASSUME MethodsAreNumbered == Methods \subseteq Nat
ASSUME CodesAreNumbers == Codes \subseteq Int
ASSUME ExtraIsUnknown == Extra \in Field /\ ~OfMeta(Extra)
ASSUME MessagesAreMetas == \A m \in Messages : IsMeta(m)

Ends == {"A", "B"}
Other(e) == IF e = "A" THEN "B" ELSE "A"
Nobody == "nobody"
ASSUME NobodyIsNoClient == Nobody \notin Clients

\* The texts of errors.
Reasons == [service |-> "reason", method |-> "not found", chain |-> "error"]
ASSUME ReasonsAreTexts == \A x \in DOMAIN Reasons : Reasons[x] \in Texts
Calls == UNION {{c} \X (0..(MaxCalls[c] - 1)) : c \in Clients}
CallKinds == {"plain", "timed", "oneway"}
Chains == UNION {[1..n -> Kinds] : n \in 0..ChainLength}

\* A call ends with a response, handled or "lost" on the way to the handler, or with
\* a timer, which calls its timeout callback or, if it has none, drops it.
Ended  == {"responded", "lost", "timedout", "dropped"}
Phases == {"unborn", "oneway", "open"} \cup Ended

\* What a service method may do with a request: reply, answer an error code, throw,
\* reply and then throw, or hold the reply object back.
Behaviours == {"reply", "fail", "throw", "reply and throw", "hold"}

\* Where clients live, what service they are for and which calls they make; what
\* each end offers, how its services behave, its interceptors, whether it is of a
\* newer version, and which clients are uninstalled when the connection ends.
ProgramType ==
  [home : [Clients -> Ends], idOf : [Clients -> ServiceIDs],
   makes : [Clients -> SUBSET (CallKinds \X Methods)],
   offers : [Ends -> SUBSET ServiceIDs], does : SUBSET Behaviours,
   out : [Ends -> Seq(Kinds)], in : [Ends -> Seq(Kinds)], newer : SUBSET Ends,
   built : SUBSET Clients]

ASSUME ProgramsAreSuch == Programs \subseteq ProgramType

VARIABLES
  prog,              \* the programs, fixed
  linked,            \* the connection is up
  created,           \* clients that exist
  clientAt,          \* clientAt[e][id]: the client whose response stub is registered
  mSequenceID,       \* per client
  mStubHandleMap,    \* per client: keys of the response stubs
  mTimeoutHandleMap, \* per client: keys of the timeout callbacks
  armed,             \* calls with a timer of withTimeoutCheck
  wire,              \* wire[e]: frames on their way to e
  kept,              \* reply objects that services hold back, one for each frame
  phase,             \* phase[k]: how far call k has come
  cause,             \* history: the call whose response or timer ended k
  told,              \* history: the error in the response that ended k, handled or lost
  callbacks,         \* history: how often a callback of k ran
  served             \* history: how often a service method ran for k

objects == <<created, clientAt>>
tables  == <<mSequenceID, mStubHandleMap, mTimeoutHandleMap>>
history == <<phase, cause, told, callbacks, served>>
vars    == <<prog, linked, objects, tables, armed, wire, kept, history>>

home(k) == prog.home[k[1]]
idOf(k) == prog.idOf[k[1]]
NoError == [failed |-> FALSE, code |-> 0]
InFlight == UNION {{wire[e][i] : i \in DOMAIN wire[e]} : e \in Ends}

TypeOK ==
  /\ prog \in Programs
  /\ linked \in BOOLEAN
  /\ created \subseteq Clients
  /\ clientAt \in [Ends -> [ServiceIDs -> Clients \cup {Nobody}]]
  /\ mSequenceID \in [Clients -> Nat]
  /\ mStubHandleMap \in [Clients -> SUBSET Nat]
  /\ mTimeoutHandleMap \in [Clients -> SUBSET Nat]
  /\ \A c \in Clients : /\ mSequenceID[c] <= MaxCalls[c]
                        /\ mStubHandleMap[c] \subseteq 0..(mSequenceID[c] - 1)
                        /\ mTimeoutHandleMap[c] \subseteq mStubHandleMap[c]
  /\ armed \subseteq Calls
  /\ wire \in [Ends -> Seq(InFlight)]
  /\ \A f \in InFlight : f.about \in Calls /\ IsMeta(ParseMeta(f.fields))
  /\ \A r \in kept : r.end \in Ends /\ r.about \in Calls
  /\ phase \in [Calls -> Phases]
  /\ cause \in [Calls -> Calls]
  /\ told \in [Calls -> [failed : BOOLEAN, code : Codes \cup {0}]]
  /\ callbacks \in [Calls -> Nat]
  /\ served \in [Calls -> Nat]

Init ==
  /\ prog \in Programs
  /\ linked = TRUE
  /\ created = {}
  /\ clientAt = [e \in Ends |-> [id \in ServiceIDs |-> Nobody]]
  /\ mSequenceID = [c \in Clients |-> 0]
  /\ mStubHandleMap = [c \in Clients |-> {}]
  /\ mTimeoutHandleMap = [c \in Clients |-> {}]
  /\ armed = {}
  /\ wire = [e \in Ends |-> <<>>]
  /\ kept = {}
  /\ phase = [k \in Calls |-> "unborn"]
  /\ cause = [k \in Calls |-> k]
  /\ told = [k \in Calls |-> NoError]
  /\ callbacks = [k \in Calls |-> 0]
  /\ served = [k \in Calls |-> 0]

-----------------------------------------------------------------------------
(* Sending                                                                 *)

Stamped(e, m) == IF e \in prog.newer THEN [m EXCEPT !.unknown = <<Extra>>] ELSE m

Frame(e, m, k) ==
  [fields |-> SerializeMeta(Stamped(e, m)), meta |-> Stamped(e, m), about |-> k]

\* What end e's outbound chain writes of one message: every sender it comes past
\* writes it, and a session that is gone takes nothing.
Written(e, m, k) ==
  IF linked THEN [i \in 1..Times(prog.out[e], "send") |-> Frame(e, m, k)] ELSE <<>>

OutboundThrows(e) == Run(prog.out[e], "ok").outcome = "throw"

-----------------------------------------------------------------------------
(* Clients                                                                 *)

\* installResponseStub does not look at what registerTypeHandle answers.
Registered(e, id, c) ==
  IF clientAt[e][id] = Nobody THEN [clientAt EXCEPT ![e][id] = c] ELSE clientAt

Create(c) ==
  /\ c \notin created
  /\ created' = created \cup {c}
  /\ clientAt' = Registered(prog.home[c], prog.idOf[c], c)
  /\ UNCHANGED <<prog, linked, tables, armed, wire, kept, history>>

\* uninstall() removes what is registered for its service, whoever registered it.
Uninstall(c) ==
  /\ c \in created
  /\ clientAt' = [clientAt EXCEPT ![prog.home[c]][prog.idOf[c]] = Nobody]
  /\ UNCHANGED <<prog, linked, created, tables, armed, wire, kept, history>>

\* call(): numbered by the client, registered, sent.  What the chain answers or
\* throws does not take the call back.
Call(c, kind, method) ==
  LET s == mSequenceID[c]
      e == prog.home[c]
      timed == kind = "timed"
      m == RequestMeta(s, prog.idOf[c], method, kind # "oneway", IF timed THEN 1 ELSE 0)
  IN
  /\ c \in created
  /\ <<kind, method>> \in prog.makes[c]
  /\ s < MaxCalls[c]
  /\ mSequenceID' = [mSequenceID EXCEPT ![c] = s + 1]
  /\ mStubHandleMap' = [mStubHandleMap EXCEPT ![c] = IF kind = "oneway" THEN @ ELSE @ \cup {s}]
  /\ mTimeoutHandleMap' = [mTimeoutHandleMap EXCEPT ![c] = IF timed THEN @ \cup {s} ELSE @]
  /\ phase' = [phase EXCEPT ![<<c, s>>] = IF kind = "oneway" THEN "oneway" ELSE "open"]
  /\ armed' = IF timed /\ Times(prog.out[e], "arm") > 0 THEN armed \cup {<<c, s>>} ELSE armed
  /\ wire' = [wire EXCEPT ![Other(e)] = @ \o Written(e, m, <<c, s>>)]
  /\ UNCHANGED <<prog, linked, objects, kept, cause, told, callbacks, served>>

\* bug: the timeout callback stays.
ForgetStub(c, s) ==
  /\ mStubHandleMap' = [mStubHandleMap EXCEPT ![c] = @ \ {s}]
  /\ UNCHANGED <<mSequenceID, mTimeoutHandleMap>>

\* bug: the response stub stays.
ForgetTimeout(c, s) ==
  /\ mTimeoutHandleMap' = [mTimeoutHandleMap EXCEPT ![c] = @ \ {s}]
  /\ UNCHANGED <<mSequenceID, mStubHandleMap>>

Forget(c, s) ==
  /\ mStubHandleMap' = [mStubHandleMap EXCEPT ![c] = @ \ {s}]
  /\ mTimeoutHandleMap' = [mTimeoutHandleMap EXCEPT ![c] = @ \ {s}]
  /\ UNCHANGED mSequenceID

\* Call k ends; k2 is the call that the response or the timer was for.
End(k, k2, how, runs, error) ==
  /\ phase' = [phase EXCEPT ![k] = how]
  /\ cause' = [cause EXCEPT ![k] = k2]
  /\ told' = [told EXCEPT ![k] = error]
  /\ callbacks' = [callbacks EXCEPT ![k] = @ + runs]
  /\ UNCHANGED served

\* processRpcResponse of a timeout meta.  A call without a timeout callback loses
\* its stub all the same, and nobody is called.
ProcessTimeout(c, s, k2) ==
  /\ Forget(c, s)
  /\ IF s \in mTimeoutHandleMap[c] THEN End(<<c, s>>, k2, "timedout", 1, NoError)
     ELSE IF s \in mStubHandleMap[c] THEN End(<<c, s>>, k2, "dropped", 0, NoError)
     ELSE UNCHANGED history

\* causeTimeout: the meta goes through the manager of the client's end.
FireTimer ==
  \E k \in armed :
    LET m == TimeoutMeta(k[2])
        c == clientAt[home(k)][m.service_id]
    IN
    /\ armed' = armed \ {k}
    /\ IF c # Nobody THEN ProcessTimeout(c, response_info(m).sequence_id, k)
       ELSE UNCHANGED <<tables, history>>
    /\ UNCHANGED <<prog, linked, objects, wire, kept>>

\* checkTimeout, polled by the program after the end time.
CheckTimeout(c) ==
  /\ \E s \in mTimeoutHandleMap[c] : ProcessTimeout(c, s, <<c, s>>)
  /\ UNCHANGED <<prog, linked, objects, armed, wire, kept>>

-----------------------------------------------------------------------------
(* Receiving                                                               *)

\* bug: the head frame is handled and not dropped.
PopNothing(e) == wire[e]
Popped(e)     == Tail(wire[e])

\* The head frame is gone, and what this end says to it is on its way.
Reacted(e, frames) ==
  wire' = [wire EXCEPT ![e] = Popped(e), ![Other(e)] = @ \o frames]

\* bug: the answer is numbered by the side that answers.
Renumbered(m, code) == ReplyMeta(RequestMeta(0, m.service_id, 0, TRUE, 0))

\* BaseReply::reply, or error() with a code.
Answer(m, code) ==
  IF code = 0 THEN ReplyMeta(m)
  ELSE ErrorMeta(m.service_id, request_info(m).sequence_id, code, Reasons.service)

CodesOf(behaviour) == IF behaviour = "fail" THEN Codes ELSE {0}

Expects(m) == request_info(m).expect_response

\* No service, no packet: logged and dropped.
DropRequest(e, m) ==
  /\ Reacted(e, <<>>)
  /\ UNCHANGED <<kept, served>>

UnknownMethod(e, m, k) ==
  /\ request_info(m).intMethod \notin Known
  /\ Reacted(e, Written(e, ErrorMeta(m.service_id, request_info(m).sequence_id, 0, Reasons.method), k))
  /\ UNCHANGED <<kept, served>>

\* The inbound chain, the service method, and the stub's error, which is built
\* from a meta that was moved from if a reply object was made.  Each frame of a
\* request has a reply object of its own: `run' tells them apart.
Serve(e, m, k, behaviour, code) ==
  LET answers == behaviour \in {"reply", "fail", "reply and throw"} /\ Expects(m)
      handler == IF behaviour \in {"throw", "reply and throw"} \/ (answers /\ OutboundThrows(e))
                   THEN "throw" ELSE "ok"
      path    == Run(prog.in[e], handler)
      runs    == Visits(prog.in[e], handler, Len(prog.in[e]) + 1)
      left    == IF runs > 0 THEN Moved(m).left ELSE m
      reply   == IF runs > 0 /\ answers THEN Written(e, Answer(m, code), k) ELSE <<>>
      error   == IF path.outcome = "err"
                   THEN Written(e, ErrorMeta(left.service_id, request_info(left).sequence_id, 0, Reasons.chain), k)
                   ELSE <<>>
  IN
  /\ request_info(m).intMethod \in Known
  /\ Reacted(e, reply \o error)
  /\ served' = [served EXCEPT ![k] = @ + runs]
  /\ kept' = IF runs > 0 /\ behaviour = "hold"
               THEN kept \cup {[end |-> e, meta |-> m, about |-> k, run |-> served[k] + 1]}
               ELSE kept

TakeRequest(e, m, k) ==
  /\ m.type = REQUEST
  /\ IF m.service_id \notin prog.offers[e] THEN DropRequest(e, m)
     ELSE \/ UnknownMethod(e, m, k)
          \/ request_info(m).intMethod \in Known /\ DropRequest(e, m)  \* does not parse
          \/ \E b \in prog.does : \E code \in CodesOf(b) : Serve(e, m, k, b, code)
  /\ UNCHANGED <<tables, phase, cause, told, callbacks>>

\* bug: only calls with a timeout callback are looked for.
FoundTimed(c, s) == s \in mTimeoutHandleMap[c]
Found(c, s)      == s \in mStubHandleMap[c]

ErrorOverlooked(m) == NoError  \* bug

ErrorOf(m) == [failed |-> response_info(m).failed,
               code   |-> IF response_info(m).failed THEN response_info(m).error_code ELSE 0]

\* A response without a stub throws, is logged and dropped; one that has a stub
\* ends its call, through the inbound chain or, if that or the parser keeps it,
\* in silence.
TakeResponse(e, m, k) ==
  LET c == clientAt[e][m.service_id]
      s == response_info(m).sequence_id
      runs == Visits(prog.in[e], "ok", Len(prog.in[e]) + 1)
  IN
  /\ m.type = RESPONSE
  /\ Reacted(e, <<>>)
  /\ IF c = Nobody THEN UNCHANGED <<tables, history>>
     ELSE IF ~Found(c, s)
       THEN /\ mTimeoutHandleMap' = [mTimeoutHandleMap EXCEPT ![c] = @ \ {s}]
            /\ UNCHANGED <<mSequenceID, mStubHandleMap, history>>
       ELSE /\ Forget(c, s)
            /\ \/ runs > 0 /\ End(<<c, s>>, k, "responded", runs, ErrorOf(m))
               \/ End(<<c, s>>, k, "lost", 0, ErrorOf(m))
  /\ UNCHANGED kept

\* binaryPacketHandle with the next packet.
Receive(e) ==
  /\ wire[e] # <<>>
  /\ LET f == Head(wire[e])
         m == ParseMeta(f.fields)
     IN TakeRequest(e, m, f.about) \/ TakeResponse(e, m, f.about)
  /\ UNCHANGED <<prog, linked, objects, armed>>

\* A kept reply object is answered, by whatever thread.
AnswerKept ==
  /\ \E r \in kept, code \in {0} \cup Codes :
       /\ kept' = kept \ {r}
       /\ wire' = [wire EXCEPT ![Other(r.end)] =
            @ \o (IF Expects(r.meta) THEN Written(r.end, Answer(r.meta, code), r.about) ELSE <<>>)]
  /\ UNCHANGED <<prog, linked, objects, tables, armed, history>>

\* The disconnect callback of OnBinaryRpcClient, or a service's onClose().
Disconnect ==
  /\ linked
  /\ linked' = FALSE
  /\ wire' = [e \in Ends |-> <<>>]
  /\ clientAt' = [e \in Ends |-> [id \in ServiceIDs |->
       IF \E c \in prog.built \cap created : prog.home[c] = e /\ prog.idOf[c] = id
         THEN Nobody ELSE clientAt[e][id]]]
  /\ UNCHANGED <<prog, created, tables, armed, kept, history>>

-----------------------------------------------------------------------------
Next ==
  \/ \E c \in Clients : Create(c) \/ Uninstall(c) \/ CheckTimeout(c)
  \/ \E c \in Clients, kind \in CallKinds, method \in Methods : Call(c, kind, method)
  \/ \E e \in Ends : Receive(e)
  \/ FireTimer \/ AnswerKept \/ Disconnect

Spec == Init /\ [][Next]_vars

-----------------------------------------------------------------------------
(* Properties                                                              *)

\* A response, or a timer, ends its own call and no other, with three exceptions
\* and no more: two clients share an end and a service, so that their numbers
\* coincide; the stub's error for a request that a service had taken over is built
\* from a moved-from meta and meets call 0 of service 0; a timer's meta names
\* service 0 and meets the call of the same number there.  Success, or an error a
\* service gave a code, is never misled by the second.
AnswerMeetsItsCall ==
  \A k \in Calls : cause[k] # k =>
    /\ home(k) = home(cause[k])
    /\ \/ idOf(k) = idOf(cause[k]) /\ k[2] = cause[k][2]
       \/ /\ phase[k] \in {"responded", "lost"} /\ idOf(k) = 0 /\ k[2] = 0
          /\ told[k].failed /\ told[k].code = 0 /\ served[cause[k]] > 0
       \/ phase[k] \in {"timedout", "dropped"} /\ idOf(k) = 0 /\ k[2] = cause[k][2]

\* Messages are not multiplied on the way: what the services ran for a call and
\* what is still in flight of it is no more than its end's senders wrote (times
\* two when an interceptor that calls next twice stands right before the handler).
Repeats(chain) == IF chain # <<>> /\ chain[Len(chain)] = "twice" THEN 2 ELSE 1

ExecutedAsSent ==
  \A k \in Calls :
    served[k] + Cardinality({i \in DOMAIN wire[Other(home(k))] :
                               wire[Other(home(k))][i].about = k
                                 /\ wire[Other(home(k))][i].meta.type = REQUEST})
      <= Times(prog.out[home(k)], "send") * Repeats(prog.in[Other(home(k))])

\* A caller that is told of success, or of an error code, is told what a service
\* method said that did run for the call the answer was for.
AnswerProvesExecution ==
  \A k \in Calls : phase[k] = "responded" /\ (~told[k].failed \/ told[k].code # 0) =>
    served[cause[k]] > 0

\* A call that ended stays as it ended and its callback does not run again:
\* duplicated answers and late timers find nothing.
EndedForGood ==
  [][\A k \in Calls : phase[k] \in Ended =>
       UNCHANGED <<phase[k], cause[k], told[k], callbacks[k]>>]_vars

TriedOn == {f.meta : f \in InFlight} \cup (IF created = {} THEN Messages ELSE {})

\* What is parsed is what was meant, unknown fields included, and so is a copy; what
\* two messages give that are read one after the other into one is the first with
\* the second merged into it.  (Reading does not change with the state; it is enough
\* to look at two messages before the clients are there.)
WrittenIsRead ==
  /\ \A m \in TriedOn : ParseMeta(SerializeMeta(m)) = m /\ CopyOf(m) = m
  /\ created = {} => \A m, n \in Messages :
       ParseMeta(SerializeMeta(m) \o SerializeMeta(n)) = Merge(m, n)

\* The size that a message announces is the size of what is then written of it.
SizeAnnounced == \A m \in TriedOn : MetaByteSize(m) = WireSize(SerializeMeta(m))

\* The interceptors of any chain run in the order of the list up to the first that
\* stops, and the handler behind them at most once; only when an interceptor that
\* calls next twice is the last does the handler run twice.  (Chains do not change
\* with the state; it is enough to look before the clients are there.)
ChainsRunInOrder ==
  created = {} => \A chain \in Chains :
    /\ "twice" \notin {chain[i] : i \in DOMAIN chain} => InOrder(chain)
    /\ Visits(chain, "ok", Len(chain) + 1) <= Repeats(chain)

\* A response that names an open call of the registered client ends it when it is
\* taken off the wire, whoever else shares the connection and whatever came before.
Awaited(k) ==
  \E i \in DOMAIN wire[home(k)] :
    LET m == wire[home(k)][i].meta IN
    m.type = RESPONSE /\ m.service_id = idOf(k) /\ response_info(m).sequence_id = k[2]

ResponseEndsItsCall ==
  [][\A k \in Calls :
       (phase[k] = "open" /\ clientAt[home(k)][idOf(k)] = k[1] /\ Awaited(k) /\ ~Awaited(k)')
         => (phase'[k] # "open" \/ ~linked')]_vars
=============================================================================
