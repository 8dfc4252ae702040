---------------------------- MODULE GayRpcService ----------------------------
(***************************************************************************)
(* The service half of gayrpc on one connection: the request stub that     *)
(* generated code installs (echo_service.gayrpc.h), the inbound            *)
(* interceptors a request passes on its way to the service, and the reply  *)
(* object (GayRpcReply.h) through which any thread may answer it.          *)
(*                                                                         *)
(* A request's RpcMeta is handed on by rvalue reference.  It changes hands *)
(* in two places only, withEventLoop's functor and the reply object, and   *)
(* protobuf's move leaves a default RpcMeta behind.  The request stub goes *)
(* on using the one it handed out.                                         *)
(***************************************************************************)
EXTENDS Integers, Sequences, FiniteSets

CONSTANTS
  Requests,   \* sequence numbers of the requests the peer sends
  OneWay,     \* those with expect_response = false
  Chain,      \* the inbound interceptors: "user", "protect" and "loop"
  Apps        \* threads of the program that answer with a kept reply object

ASSUME RequestsAreNumbers == Requests \subseteq Nat /\ OneWay \subseteq Requests
ASSUME ChainOfInterceptors == Chain \in Seq({"user", "protect", "loop"})

Net  == "net"            \* the connection's thread
Loop == "loop"           \* the thread of withEventLoop's loop
Workers == {Net, Loop}
ASSUME AppsAreApart == Apps \cap Workers = {}

Blank == -1              \* a meta that was moved from: service 0, sequence 0
None  == -2
Metas == Requests \cup {Blank}

Idle   == [stage |-> "idle"]
Frames == [stage : {"stub", "chain", "service", "tail"}, req : Requests,
           hop : 1..(Len(Chain) + 1), from : 1..(Len(Chain) + 1), meta : Metas,
           outcome : {"none", "ok", "err", "pending"}]

VARIABLES
  installed,   \* the request stub is registered
  arrived,     \* requests received
  frame,       \* frame[t]: the request thread t is busy with
  posted,      \* functors in the loop's queue
  promise,     \* promise[r]: what the posted part of r came to
  waiting,     \* waiting[r]: the meta captured by the stub's thenValue, or None
  replyMeta,   \* replyMeta[r]: mRequestMeta of r's reply object, or None
  flag,        \* mReplyFlag
  sending,     \* sending[u]: the request u has the right to answer, or None
  out,         \* responses sent
  answered,    \* history: how often the reply object sent a response
  lost         \* history: responses that an outbound interceptor threw away

route == <<arrived, frame, posted, promise, waiting>>
reply == <<replyMeta, flag, sending, answered>>
vars  == <<installed, route, reply, out, lost>>

TypeOK ==
  /\ installed \in BOOLEAN
  /\ arrived \subseteq Requests
  /\ frame \in [Workers -> Frames \cup {Idle}]
  /\ posted \in Seq([req : Requests, hop : 1..(Len(Chain) + 1), meta : Metas])
  /\ promise \in [Requests -> {"none", "ok", "err", "broken"}]
  /\ waiting \in [Requests -> Metas \cup {None}]
  /\ replyMeta \in [Requests -> Metas \cup {None}]
  /\ flag \subseteq Requests
  /\ sending \in [Workers \cup Apps -> Requests \cup {None}]
  /\ out \subseteq [to : Metas, about : Requests, failed : BOOLEAN]
  /\ answered \in [Requests -> Nat]
  /\ lost \subseteq [to : Metas, about : Requests, failed : BOOLEAN]

Init ==
  /\ installed = TRUE
  /\ arrived = {}
  /\ frame = [t \in Workers |-> Idle]
  /\ posted = <<>>
  /\ promise = [r \in Requests |-> "none"]
  /\ waiting = [r \in Requests |-> None]
  /\ replyMeta = [r \in Requests |-> None]
  /\ flag = {}
  /\ sending = [u \in Workers \cup Apps |-> None]
  /\ out = {}
  /\ answered = [r \in Requests |-> 0]
  /\ lost = {}

Busy(t, stage) == frame[t].stage = stage
Response(to, r, failed) == [to |-> to, about |-> r, failed |-> failed]

Release(t) == frame' = [frame EXCEPT ![t] = Idle]
Return(t, outcome) ==
  frame' = [frame EXCEPT ![t].stage = "tail", ![t].outcome = outcome]

-----------------------------------------------------------------------------
(* The request stub, first half.                                           *)

Receive ==
  /\ installed
  /\ frame[Net] = Idle
  /\ \E r \in Requests \ arrived :
       /\ arrived' = arrived \cup {r}
       /\ frame' = [frame EXCEPT ![Net] =
            [stage |-> "stub", req |-> r, hop |-> 1, from |-> 1, meta |-> r, outcome |-> "none"]]
  /\ UNCHANGED <<installed, posted, promise, waiting, reply, out, lost>>

\* BaseReply::ReplyError: no flag, no look at expect_response.  An outbound
\* interceptor of the program may reject it, and nothing is sent.
ReplyError(to, r) ==
  \/ out' = out \cup {Response(to, r, TRUE)} /\ UNCHANGED lost
  \/ lost' = lost \cup {Response(to, r, TRUE)} /\ UNCHANGED out

UnknownMethod ==
  /\ Busy(Net, "stub")
  /\ ReplyError(frame[Net].meta, frame[Net].req)
  /\ Release(Net)
  /\ UNCHANGED <<installed, arrived, posted, promise, waiting, reply>>

\* parseRequestWrapper throws before any interceptor runs; binaryPacketHandle
\* catches and logs it.
BadRequest ==
  /\ Busy(Net, "stub")
  /\ Release(Net)
  /\ UNCHANGED <<installed, arrived, posted, promise, waiting, reply, out, lost>>

\* bug: the handler takes the meta by value, and the stub moves it there.
EnterChainByValue ==
  /\ Busy(Net, "stub")
  /\ frame' = [frame EXCEPT ![Net].stage = "chain", ![Net].meta = Blank]
  /\ UNCHANGED <<installed, arrived, posted, promise, waiting, reply, out, lost>>

EnterChain ==
  /\ Busy(Net, "stub")
  /\ frame' = [frame EXCEPT ![Net].stage = "chain"]
  /\ UNCHANGED <<installed, arrived, posted, promise, waiting, reply, out, lost>>

-----------------------------------------------------------------------------
(* The interceptors.                                                       *)

At(t, kind) ==
  Busy(t, "chain") /\ frame[t].hop <= Len(Chain) /\ Chain[frame[t].hop] = kind

SkipHop(hop) == hop + 2  \* bug: makeInterceptor drops every other interceptor
NextHop(hop) == hop + 1

PassOn(t) ==
  /\ At(t, "user") \/ At(t, "protect") \/ (t = Loop /\ At(t, "loop"))
  /\ frame' = [frame EXCEPT ![t].hop = NextHop(@)]
  /\ UNCHANGED <<installed, arrived, posted, promise, waiting, reply, out, lost>>

\* An interceptor of the program keeps the request and says why, or does not.
UserAnswers(t) ==
  /\ At(t, "user")
  /\ \E outcome \in {"ok", "err"} : Return(t, outcome)
  /\ UNCHANGED <<installed, arrived, posted, promise, waiting, reply, out, lost>>

\* An exception is turned into an error by the nearest withProtectedCall this
\* thread went through.  With none, the connection's thread logs it; on a loop
\* the functor dies and breaks its promise.
Protected(t) == \E i \in frame[t].from..(frame[t].hop - 1) : Chain[i] = "protect"

Throw(t) ==
  \/ /\ Protected(t)
     /\ Return(t, "err")
     /\ UNCHANGED promise
  \/ /\ ~Protected(t)
     /\ Release(t)
     /\ promise' = IF t = Loop THEN [promise EXCEPT ![frame[t].req] = "broken"] ELSE promise

UserThrows(t) ==
  /\ At(t, "user")
  /\ Throw(t)
  /\ UNCHANGED <<installed, arrived, posted, waiting, reply, out, lost>>

\* bug: the functor captures the meta after it was moved from.
EmptyFunctor(f) == [req |-> f.req, hop |-> NextHop(f.hop), meta |-> Blank]
Functor(f)      == [req |-> f.req, hop |-> NextHop(f.hop), meta |-> f.meta]

PostToLoop ==
  /\ At(Net, "loop")
  /\ posted' = Append(posted, Functor(frame[Net]))
  /\ frame' = [frame EXCEPT ![Net].stage = "tail", ![Net].outcome = "pending", ![Net].meta = Blank]
  /\ UNCHANGED <<installed, arrived, promise, waiting, reply, out, lost>>

RunPosted ==
  /\ frame[Loop] = Idle
  /\ posted # <<>>
  /\ LET f == Head(posted)
     IN frame' = [frame EXCEPT ![Loop] =
          [stage |-> "chain", req |-> f.req, hop |-> f.hop, from |-> f.hop, meta |-> f.meta,
           outcome |-> "none"]]
  /\ posted' = Tail(posted)
  /\ UNCHANGED <<installed, arrived, promise, waiting, reply, out, lost>>

-----------------------------------------------------------------------------
(* The service and its reply object.                                       *)

CallService(t) ==
  /\ Busy(t, "chain")
  /\ frame[t].hop = Len(Chain) + 1
  /\ replyMeta' = [replyMeta EXCEPT ![frame[t].req] = frame[t].meta]
  /\ frame' = [frame EXCEPT ![t].stage = "service", ![t].meta = Blank]
  /\ UNCHANGED <<installed, arrived, posted, promise, waiting, flag, sending, answered, out, lost>>

InService(t) == Busy(t, "service") /\ sending[t] = None

ServiceReturns(t) ==
  /\ InService(t)
  /\ Return(t, "ok")
  /\ UNCHANGED <<installed, arrived, posted, promise, waiting, reply, out, lost>>

ServiceThrows(t) ==
  /\ InService(t)
  /\ Throw(t)
  /\ UNCHANGED <<installed, arrived, posted, waiting, reply, out, lost>>

Expects(r) == replyMeta[r] \in Requests \ OneWay

\* bug: the flag is set and not tested.
TakeFlagAgain(u, r) ==
  /\ flag' = flag \cup {r}
  /\ sending' = IF Expects(r) THEN [sending EXCEPT ![u] = r] ELSE sending
  /\ UNCHANGED <<installed, route, replyMeta, answered, out, lost>>

\* reply() or error() up to the flag: test_and_set, then expect_response of the
\* meta the reply object holds.
TakeFlag(u, r) ==
  /\ r \notin flag
  /\ flag' = flag \cup {r}
  /\ sending' = IF Expects(r) THEN [sending EXCEPT ![u] = r] ELSE sending
  /\ UNCHANGED <<installed, route, replyMeta, answered, out, lost>>

ServiceReplies(t) == InService(t) /\ TakeFlag(t, frame[t].req)

\* The second answer throws "already reply"; a program thread that meets it
\* changes nothing.
ServiceRepliesAgain(t) ==
  /\ InService(t)
  /\ frame[t].req \in flag
  /\ Throw(t)
  /\ UNCHANGED <<installed, arrived, posted, waiting, reply, out, lost>>

AppReplies(a) ==
  /\ sending[a] = None
  /\ \E r \in Requests : replyMeta[r] # None /\ TakeFlag(a, r)

SendReply(u) ==
  LET r == sending[u] IN
  /\ r # None
  /\ out' = out \cup {Response(replyMeta[r], r, FALSE)}
  /\ answered' = [answered EXCEPT ![r] = @ + 1]
  /\ sending' = [sending EXCEPT ![u] = None]
  /\ UNCHANGED <<installed, route, replyMeta, flag, lost>>

\* An outbound interceptor of the program throws, to the service or into a
\* withProtectedCall in front of it, or does not go on.  The flag stays set:
\* nobody can answer any more.
OutboundRejects(u) ==
  LET r == sending[u] IN
  /\ r # None
  /\ lost' = lost \cup {Response(replyMeta[r], r, FALSE)}
  /\ sending' = [sending EXCEPT ![u] = None]
  /\ (u \in Workers /\ Throw(u)) \/ UNCHANGED <<frame, promise>>
  /\ UNCHANGED <<installed, arrived, posted, waiting, replyMeta, flag, answered, out>>

-----------------------------------------------------------------------------
(* The request stub, second half: what became of the chain's future.       *)

TailCopy == frame[Net].req   \* bug: ids kept back, and the reply object's flag not asked
TailMeta == frame[Net].meta

Detach(r) == UNCHANGED waiting  \* bug: a future that is not ready is dropped
Attach(r) == waiting' = [waiting EXCEPT ![r] = TailMeta]

\* The stub reads service_id and sequence_id of the meta it gave away.  Between
\* isReady() and thenValue() the promise may break: then nobody is told.
StubTail ==
  LET r == frame[Net].req
      settled == IF frame[Net].outcome = "pending" THEN promise[r] ELSE frame[Net].outcome
  IN
  /\ Busy(Net, "tail")
  /\ Release(Net)
  /\ \/ settled \in {"ok", "broken"} /\ UNCHANGED <<waiting, out, lost>>
     \/ settled \in {"err", "broken"} /\ ReplyError(TailMeta, r) /\ UNCHANGED waiting
     \/ settled = "none" /\ Attach(r) /\ UNCHANGED <<out, lost>>
  /\ UNCHANGED <<installed, arrived, posted, promise, reply>>

\* The posted part ends: promise->setValue(err) runs the stub's thenValue if it
\* is there already.
FulfilPromise ==
  LET r == frame[Loop].req
      outcome == frame[Loop].outcome
  IN
  /\ Busy(Loop, "tail")
  /\ Release(Loop)
  /\ promise' = [promise EXCEPT ![r] = outcome]
  /\ IF outcome = "err" /\ waiting[r] # None
       THEN ReplyError(waiting[r], r)
       ELSE UNCHANGED <<out, lost>>
  /\ UNCHANGED <<installed, arrived, posted, waiting, reply>>

\* The connection closes; the disconnect callback runs on its thread.  Posted
\* requests and kept reply objects live on.
Uninstall ==
  /\ installed
  /\ frame[Net] = Idle
  /\ installed' = FALSE
  /\ UNCHANGED <<route, reply, out, lost>>

-----------------------------------------------------------------------------
Proceed(t) ==
  \/ PassOn(t) \/ UserAnswers(t) \/ UserThrows(t)
  \/ CallService(t) \/ ServiceReturns(t) \/ ServiceThrows(t)
  \/ ServiceReplies(t) \/ ServiceRepliesAgain(t)

Stub == UnknownMethod \/ BadRequest \/ EnterChain \/ PostToLoop \/ StubTail

Next ==
  \/ Receive \/ Stub \/ RunPosted \/ FulfilPromise \/ Uninstall
  \/ \E t \in Workers : Proceed(t)
  \/ \E a \in Apps : AppReplies(a)
  \/ \E u \in Workers \cup Apps : SendReply(u) \/ OutboundRejects(u)

Spec == Init /\ [][Next]_vars

\* A thread that has begun with a request goes on with it, and the loop serves
\* its queue; the peer need not send anything.
FairSpec ==
  /\ Spec
  /\ WF_vars(Stub) /\ WF_vars(RunPosted) /\ WF_vars(FulfilPromise)
  /\ \A t \in Workers : WF_vars(Proceed(t))
  /\ \A u \in Workers \cup Apps : WF_vars(SendReply(u) \/ OutboundRejects(u))

-----------------------------------------------------------------------------
(* Properties                                                              *)

\* However many threads answer one request, on its own thread, on the loop and in
\* the program, at most one response leaves through its reply object, and none
\* for a one-way request.
AnsweredAtMostOnce == \A r \in Requests : answered[r] <= IF r \in OneWay THEN 0 ELSE 1

\* The meta survives its way through the interceptors and a loop: once the flag of
\* a two-way request is set, somebody is about to send the answer, or the answer
\* went out under the request's own number, as far as the outbound interceptors at
\* least, one of which may have thrown it away.
FlagAccountedFor ==
  \A r \in flag \ OneWay :
    Response(r, r, FALSE) \in out \cup lost \/ \E u \in DOMAIN sending : sending[u] = r

\* Among the responses that bear a request's number there is at most one, although
\* ReplyError does not look at the flag: an error that follows a reply leaves
\* with the numbers of an empty meta (which are those of sequence number 0 of
\* service 0, so the runs number requests from 1).
OneResponseBearsTheNumber ==
  \A r \in Requests :
    answered[r] + Cardinality({m \in out : m.failed /\ m.to = r}) <= 1

\* A request that is kept back on the connection's thread (unknown method, an
\* interceptor's error), so neither handed to a loop nor to the service, is
\* answered with its number.
RejectionNamesRequest ==
  \A m \in out :
    m.failed /\ replyMeta[m.about] = None /\ promise[m.about] = "none" => m.to = m.about

\* No lost wake-up between the loop that fulfils the promise and the stub that
\* attaches to it: the error of an interceptor, or an exception caught by
\* withProtectedCall, always becomes an error response (which an outbound
\* interceptor of the program may throw away; that it threw away a reply to the same
\* request before does not count).
ErrorReported ==
  \A r \in Requests :
    (\E t \in Workers : Busy(t, "tail") /\ frame[t].outcome = "err" /\ frame[t].req = r)
      ~> \E m \in out \cup lost : m.about = r /\ m.failed

\* An error response carries the sequence number of its request
\* (gayrpc_meta.proto:30, README.md:186).
ErrorsNameTheirRequest == \A m \in out : m.failed => m.to = m.about

\* No response is sent to a peer that asked for none (gayrpc_meta.proto:21).
OneWayIsSilent == \A m \in out : m.about \notin OneWay
=============================================================================
