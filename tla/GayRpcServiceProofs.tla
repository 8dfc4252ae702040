------------------------ MODULE GayRpcServiceProofs ------------------------
(***************************************************************************)
(* Theorems about GayRpcService, for any requests, chain of interceptors   *)
(* and number of threads that answer.                                      *)
(*                                                                         *)
(* The invariants follow from where the meta of a request may be.  As long *)
(* as a request is on its way its meta is in one place and no reply object *)
(* has it (OneWayIn); whoever gave it away is left with an empty one       *)
(* (MetasAreOwn); and a request that was rejected under its own number     *)
(* never reaches a reply object (RejectedForGood).                         *)
(* HandedOver, inductive beside them, follows the error of a request from  *)
(* whoever made it to the stub that reports it.                            *)
(***************************************************************************)
EXTENDS GayRpcService, FiniteSetTheorems, TLAPS

\* A frame is a request on its way, in the service, or on the way back.
Travels(t, r) == frame[t].stage \in {"stub", "chain"} /\ frame[t].req = r
Queued(r)     == \E i \in DOMAIN posted : posted[i].req = r
OnItsWay(r)   == Queued(r) \/ \E t \in Workers : Travels(t, r)

\* Only the connection's thread leaves a request behind in a queue.
OutcomesFit ==
  \A t \in Workers : frame[t].stage # "idle" =>
    /\ frame[t].stage # "tail" => frame[t].outcome = "none"
    /\ frame[t].stage = "tail" => frame[t].outcome \in (IF t = Net THEN {"ok", "err", "pending"} ELSE {"ok", "err"})

\* A meta is the request's own one or an empty one, and who gave it away knows
\* where it went.
FrameMetas ==
  \A t \in Workers : frame[t].stage # "idle" =>
    /\ frame[t].stage \in {"stub", "chain"} => frame[t].meta = frame[t].req
    /\ frame[t].stage = "service" => frame[t].meta = Blank /\ replyMeta[frame[t].req] = frame[t].req
    /\ frame[t].meta \in {frame[t].req, Blank}
TailMetas ==
  frame[Net].stage = "tail" =>
    /\ frame[Net].outcome = "pending" => frame[Net].meta = Blank
    /\ frame[Net].outcome # "pending" /\ frame[Net].meta = Blank => replyMeta[frame[Net].req] # None
OtherMetas ==
  /\ \A i \in DOMAIN posted : posted[i].meta = posted[i].req
  /\ \A r \in Requests : replyMeta[r] \in {None, r} /\ waiting[r] \in {None, Blank}
  /\ \A m \in out : m.to \in {m.about, Blank}
MetasAreOwn == FrameMetas /\ TailMetas /\ OtherMetas

\* What is known of a request has come in before.
OnlyArrived ==
  /\ \A t \in Workers : frame[t].stage # "idle" => frame[t].req \in arrived
  /\ \A i \in DOMAIN posted : posted[i].req \in arrived
  /\ \A r \in Requests : replyMeta[r] # None => r \in arrived
  /\ \A m \in out : m.about \in arrived

\* A request on its way is in one place, and no reply object has its meta.
OneWayIn ==
  /\ \A r \in Requests : OnItsWay(r) => replyMeta[r] = None
  /\ \A r \in Requests : Queued(r) => \A t \in Workers : ~Travels(t, r)
  /\ \A r \in Requests : ~(Travels(Net, r) /\ Travels(Loop, r))
  /\ \A i, j \in DOMAIN posted : posted[i].req = posted[j].req => i = j

\* Who rejects a request, or has rejected it, under its own number has kept it from
\* the service.
KeptBack(r) == frame[Net].stage = "tail" /\ frame[Net].req = r /\ frame[Net].meta = r
RejectedForGood ==
  \A r \in Requests :
    KeptBack(r) \/ Response(r, r, TRUE) \in out => replyMeta[r] = None /\ ~OnItsWay(r)

\* The flag is the right to answer: it is used up by one thread.
OneAnswer ==
  /\ \A t \in Workers : sending[t] # None => frame[t].stage = "service" /\ frame[t].req = sending[t]
  /\ \A u \in Workers \cup Apps : sending[u] # None =>
       /\ sending[u] \in flag \ OneWay /\ answered[sending[u]] = 0
       /\ replyMeta[sending[u]] = sending[u]
       /\ \A v \in Workers \cup Apps : sending[v] = sending[u] => v = u
  /\ \A r \in Requests : r \in flag => replyMeta[r] = r
  /\ \A r \in Requests : answered[r] > 0 => answered[r] = 1 /\ r \in flag \ OneWay

Serving ==
  /\ TypeOK /\ OutcomesFit /\ MetasAreOwn /\ OnlyArrived
  /\ OneWayIn /\ RejectedForGood /\ OneAnswer
  /\ FlagAccountedFor /\ RejectionNamesRequest
Ended == {"none", "ok", "err", "pending"}
Hops  == 1..(Len(Chain) + 1)

USE RequestsAreNumbers, ChainOfInterceptors, AppsAreApart
    DEF Workers, Net, Loop, Blank, None, Metas, NextHop, Functor, TailMeta, Attach, Ended, Hops

-----------------------------------------------------------------------------
(* What a step makes of one thread's frame                                 *)

LEMMA FramesHave ==
  ASSUME TypeOK, NEW t \in Workers, frame[t].stage # "idle"
  PROVE  /\ frame[t] \in Frames
         /\ frame[t].stage \in {"stub", "chain", "service", "tail"} /\ frame[t].req \in Requests
         /\ frame[t].hop \in Hops /\ frame[t].from \in Hops /\ frame[t].meta \in Metas
         /\ frame[t].outcome \in Ended
<1>1. frame[t] \in Frames
  BY DEF TypeOK, Idle
<1> QED
  BY <1>1 DEF Frames

\* The other threads' frames stay as they are.
Only(t) == \A u \in Workers : u # t => frame'[u] = frame[u]

LEMMA ReleaseFrame ==
  ASSUME TypeOK, NEW t \in Workers, Release(t)
  PROVE  /\ frame' \in [Workers -> Frames \cup {Idle}] /\ Only(t)
         /\ frame'[t].stage = "idle"
BY DEF TypeOK, Release, Only, Idle

LEMMA ReturnFrame ==
  ASSUME TypeOK, NEW t \in Workers, frame[t].stage # "idle", NEW o \in Ended, Return(t, o)
  PROVE  /\ frame' \in [Workers -> Frames \cup {Idle}] /\ Only(t)
         /\ frame'[t].stage = "tail" /\ frame'[t].outcome = o
         /\ frame'[t].req = frame[t].req /\ frame'[t].meta = frame[t].meta
<1>1. frame[t] \in Frames /\ frame \in [Workers -> Frames \cup {Idle}]
  BY FramesHave DEF TypeOK
<1>2. frame' = [frame EXCEPT ![t] = [frame[t] EXCEPT !.stage = "tail", !.outcome = o]]
  BY <1>1 DEF Return
<1>3. [frame[t] EXCEPT !.stage = "tail", !.outcome = o] \in Frames
  BY <1>1 DEF Frames
<1>4. frame'[t] = [frame[t] EXCEPT !.stage = "tail", !.outcome = o] /\ Only(t)
  BY <1>1, <1>2 DEF Only
<1> QED
  BY <1>1, <1>2, <1>3, <1>4 DEF Frames

\* An exception that leaves the loop breaks the promise for what it was busy with.
Breaks(t) ==
  /\ t = Loop /\ frame'[t].stage = "idle"
  /\ promise' = [promise EXCEPT ![frame[t].req] = "broken"]

LEMMA ThrowFrame ==
  ASSUME TypeOK, NEW t \in Workers, frame[t].stage # "idle", Throw(t)
  PROVE  /\ frame' \in [Workers -> Frames \cup {Idle}] /\ Only(t)
         /\ \/ frame'[t].stage = "idle"
            \/ /\ frame'[t].stage = "tail" /\ frame'[t].outcome = "err"
               /\ frame'[t].req = frame[t].req /\ frame'[t].meta = frame[t].meta
         /\ promise' = promise \/ Breaks(t)
BY ReleaseFrame, ReturnFrame DEF Throw, Breaks

\* A request moves on in the chain.
LEMMA ChainFrame ==
  ASSUME TypeOK, NEW t \in Workers, PassOn(t) \/ (t = Net /\ EnterChain)
  PROVE  /\ frame' \in [Workers -> Frames \cup {Idle}] /\ Only(t)
         /\ frame[t].stage \in {"stub", "chain"} /\ frame'[t].stage = "chain"
         /\ frame'[t].req = frame[t].req
         /\ frame'[t].meta = frame[t].meta /\ frame'[t].outcome = frame[t].outcome
<1>0. frame[t].stage \in {"stub", "chain"} /\ frame \in [Workers -> Frames \cup {Idle}]
  BY DEF PassOn, At, Busy, EnterChain, TypeOK
<1>1. frame[t] \in Frames
  BY <1>0, FramesHave
<1>2. PICK h \in Hops : frame' = [frame EXCEPT ![t] = [frame[t] EXCEPT !.stage = "chain", !.hop = h]]
  <2>1. CASE PassOn(t)
    <3>1. frame[t].hop <= Len(Chain) /\ frame[t].stage = "chain" /\ frame[t].hop \in Hops
      BY <1>1, <2>1 DEF PassOn, At, Busy, Frames
    <3>2. frame[t].hop + 1 \in Hops
      BY <3>1
    <3>3. frame' = [frame EXCEPT ![t] = [frame[t] EXCEPT !.stage = "chain", !.hop = frame[t].hop + 1]]
      BY <1>0, <1>1, <2>1, <3>1 DEF PassOn, Frames
    <3> QED
      BY <3>2, <3>3
  <2>2. CASE t = Net /\ EnterChain
    <3>1. frame' = [frame EXCEPT ![t] = [frame[t] EXCEPT !.stage = "chain", !.hop = frame[t].hop]]
      BY <1>0, <1>1, <2>2 DEF EnterChain, Frames
    <3> QED
      BY <1>1, <3>1 DEF Frames
  <2> QED
    BY <2>1, <2>2
<1>3. [frame[t] EXCEPT !.stage = "chain", !.hop = h] \in Frames
  BY <1>1 DEF Frames
<1>4. frame'[t] = [frame[t] EXCEPT !.stage = "chain", !.hop = h] /\ Only(t)
  BY <1>0, <1>2 DEF Only
<1> QED
  BY <1>0, <1>1, <1>2, <1>3, <1>4 DEF Frames

\* The service takes the meta into its reply object.
LEMMA ServiceFrame ==
  ASSUME TypeOK, NEW t \in Workers, CallService(t)
  PROVE  /\ frame' \in [Workers -> Frames \cup {Idle}] /\ Only(t)
         /\ frame[t].stage = "chain" /\ frame'[t].stage = "service"
         /\ frame'[t].req = frame[t].req /\ frame'[t].meta = Blank
         /\ frame'[t].outcome = frame[t].outcome
<1>1. frame[t].stage = "chain" /\ frame[t] \in Frames /\ frame \in [Workers -> Frames \cup {Idle}]
  BY FramesHave DEF CallService, Busy, TypeOK
<1>2. frame' = [frame EXCEPT ![t] = [frame[t] EXCEPT !.stage = "service", !.meta = Blank]]
  BY <1>1 DEF CallService, Frames
<1>3. [frame[t] EXCEPT !.stage = "service", !.meta = Blank] \in Frames
  BY <1>1 DEF Frames
<1>4. frame'[t] = [frame[t] EXCEPT !.stage = "service", !.meta = Blank] /\ Only(t)
  BY <1>1, <1>2 DEF Only
<1> QED
  BY <1>1, <1>2, <1>3, <1>4 DEF Frames

\* The rest of the chain is left to the loop.
LEMMA PostFrame ==
  ASSUME TypeOK, PostToLoop
  PROVE  /\ frame' \in [Workers -> Frames \cup {Idle}] /\ Only(Net)
         /\ frame[Net].stage = "chain" /\ frame'[Net].stage = "tail"
         /\ frame'[Net].req = frame[Net].req /\ frame'[Net].meta = Blank
         /\ frame'[Net].outcome = "pending"
         /\ Functor(frame[Net]) \in [req : Requests, hop : Hops, meta : Metas]
<1>1. /\ frame[Net].stage = "chain" /\ frame[Net] \in Frames
      /\ frame \in [Workers -> Frames \cup {Idle}] /\ frame[Net].hop <= Len(Chain)
  BY FramesHave DEF PostToLoop, At, Busy, TypeOK
<1> DEFINE f == [frame[Net] EXCEPT !.stage = "tail", !.outcome = "pending", !.meta = Blank]
<1>2. frame' = [frame EXCEPT ![Net] = f]
  BY <1>1 DEF PostToLoop, Frames
<1>3. f \in Frames
  BY <1>1 DEF Frames
<1>4. frame'[Net] = f /\ Only(Net)
  BY <1>1, <1>2 DEF Only
<1>5. Functor(frame[Net]) \in [req : Requests, hop : Hops, meta : Metas]
  <2>1. frame[Net].hop + 1 \in Hops
    BY <1>1 DEF Frames
  <2> QED
    BY <1>1, <2>1 DEF Frames
<1> QED
  BY <1>1, <1>2, <1>3, <1>4, <1>5 DEF Frames

\* A request begins, on the connection's thread or on the loop.
LEMMA StartFrame ==
  ASSUME TypeOK, NEW t \in Workers, frame[t] = Idle,
         NEW stage \in {"stub", "chain"}, NEW r \in Requests, NEW h \in Hops, NEW m \in Metas,
         frame' = [frame EXCEPT ![t] = [stage |-> stage, req |-> r, hop |-> h, from |-> h,
                                        meta |-> m, outcome |-> "none"]]
  PROVE  /\ frame' \in [Workers -> Frames \cup {Idle}] /\ Only(t)
         /\ frame'[t].stage = stage /\ frame'[t].req = r /\ frame'[t].meta = m
         /\ frame'[t].outcome = "none"
<1> DEFINE f == [stage |-> stage, req |-> r, hop |-> h, from |-> h, meta |-> m, outcome |-> "none"]
<1>1. f \in Frames
  BY DEF Frames
<1>2. frame'[t] = f /\ Only(t)
  BY DEF TypeOK, Only
<1> QED
  BY <1>1, <1>2 DEF TypeOK

LEMMA TailType ==
  ASSUME NEW S, NEW s \in Seq(S), s # <<>>
  PROVE  /\ 1 \in DOMAIN s /\ Head(s) = s[1] /\ s[1] \in S /\ Tail(s) \in Seq(S)
         /\ \A i \in DOMAIN Tail(s) : i \in Nat /\ i + 1 # 1 /\ i + 1 \in DOMAIN s /\ Tail(s)[i] = s[i + 1]
OBVIOUS

-----------------------------------------------------------------------------
(* The steps, as far as the parts of Serving can tell them apart           *)

\* A request is kept, or its exception caught, or it is dropped: the thread is done
\* with it, or turns back with it.
GoesBack(t) ==
  /\ frame' \in [Workers -> Frames \cup {Idle}] /\ Only(t)
  /\ frame[t].stage \in {"stub", "chain", "service"} /\ sending[t] = None
  /\ \/ frame'[t].stage = "idle"
     \/ /\ frame'[t].stage = "tail" /\ frame'[t].outcome \in {"ok", "err"}
        /\ frame'[t].req = frame[t].req /\ frame'[t].meta = frame[t].meta
  /\ promise' = promise \/ Breaks(t)
  /\ UNCHANGED <<installed, arrived, posted, waiting, reply, out, lost>>

\* Somebody takes the right to answer a request that has a reply object.
Takes(u) ==
  /\ sending[u] = None
  /\ \E r \in Requests :
       /\ replyMeta[r] # None
       /\ u \in Workers => frame[u].stage = "service" /\ frame[u].req = r
       /\ TakeFlag(u, r)

\* An answer is lost on its way out.
Loses(u) ==
  /\ sending[u] # None
  /\ lost' = lost \cup {Response(replyMeta[sending[u]], sending[u], FALSE)}
  /\ sending' = [sending EXCEPT ![u] = None]
  /\ \/ UNCHANGED <<frame, promise>>
     \/ /\ u \in Workers /\ frame' \in [Workers -> Frames \cup {Idle}] /\ Only(u)
        /\ \/ frame'[u].stage = "idle"
           \/ /\ frame'[u].stage = "tail" /\ frame'[u].outcome = "err"
              /\ frame'[u].req = frame[u].req /\ frame'[u].meta = frame[u].meta
        /\ promise' = promise \/ Breaks(u)
  /\ UNCHANGED <<installed, arrived, posted, waiting, replyMeta, flag, answered, out>>

Rest == Receive \/ UnknownMethod \/ EnterChain \/ PostToLoop \/ StubTail \/ RunPosted \/ FulfilPromise
Quiet == UNCHANGED <<route, reply, out, lost>> /\ (installed' = FALSE \/ UNCHANGED installed)

\* The thread that sends a response is in the service.
SendersServe ==
  \A t \in Workers : sending[t] # None => frame[t].stage = "service" /\ frame[t].req = sending[t]
ServedHaveMeta == \A t \in Workers : frame[t].stage = "service" => replyMeta[frame[t].req] # None

LEMMA Steps ==
  ASSUME TypeOK, SendersServe, ServedHaveMeta, [Next]_vars
  PROVE  \/ Rest \/ Quiet
         \/ \E t \in Workers : PassOn(t) \/ CallService(t) \/ GoesBack(t)
         \/ \E u \in Workers \cup Apps : Takes(u) \/ SendReply(u) \/ Loses(u)
<1>1. CASE Receive \/ UnknownMethod \/ EnterChain \/ PostToLoop \/ StubTail \/ RunPosted \/ FulfilPromise
  BY <1>1 DEF Rest
<1>2. CASE Uninstall \/ UNCHANGED vars
  BY <1>2 DEF Uninstall, vars, Quiet
<1>3. ASSUME BadRequest PROVE GoesBack(Net)
  <2>1. Release(Net) /\ frame[Net].stage = "stub"
    BY <1>3 DEF BadRequest, Busy
  <2>2. sending[Net] = None
    BY <2>1 DEF SendersServe
  <2> QED
    BY <1>3, <2>1, <2>2, ReleaseFrame DEF BadRequest, GoesBack
<1>4. ASSUME NEW t \in Workers, UserAnswers(t) \/ ServiceReturns(t) PROVE GoesBack(t)
  <2>1. /\ frame[t].stage \in {"chain", "service"} /\ sending[t] = None
        /\ \E o \in {"ok", "err"} : Return(t, o)
        /\ UNCHANGED <<installed, arrived, posted, promise, waiting, reply, out, lost>>
    BY <1>4 DEF UserAnswers, ServiceReturns, At, Busy, InService, SendersServe
  <2> QED
    BY <2>1, ReturnFrame DEF GoesBack
<1>5. ASSUME NEW t \in Workers, UserThrows(t) \/ ServiceThrows(t) \/ ServiceRepliesAgain(t) PROVE GoesBack(t)
  <2>1. /\ frame[t].stage \in {"chain", "service"} /\ sending[t] = None /\ Throw(t)
        /\ UNCHANGED <<installed, arrived, posted, waiting, reply, out, lost>>
    BY <1>5 DEF UserThrows, ServiceThrows, ServiceRepliesAgain, At, Busy, InService, SendersServe
  <2> QED
    BY <2>1, ThrowFrame DEF GoesBack
<1>6. ASSUME NEW t \in Workers, ServiceReplies(t) PROVE Takes(t)
  <2>1. frame[t].stage = "service" /\ sending[t] = None /\ TakeFlag(t, frame[t].req)
    BY <1>6 DEF ServiceReplies, InService, Busy
  <2>2. frame[t].req \in Requests
    BY <2>1, FramesHave
  <2> QED
    BY <2>1, <2>2 DEF Takes, ServedHaveMeta
<1>7. ASSUME NEW a \in Apps, AppReplies(a) PROVE Takes(a)
  BY <1>7 DEF AppReplies, Takes
<1>8. ASSUME NEW u \in Workers \cup Apps, OutboundRejects(u) PROVE Loses(u)
  <2>1. CASE u \in Workers /\ Throw(u)
    <3>1. frame[u].stage # "idle"
      BY <1>8, <2>1 DEF OutboundRejects, SendersServe
    <3> QED
      BY <1>8, <2>1, <3>1, ThrowFrame DEF OutboundRejects, Loses
  <2>2. CASE UNCHANGED <<frame, promise>>
    BY <1>8, <2>2 DEF OutboundRejects, Loses
  <2> QED
    BY <1>8, <2>1, <2>2 DEF OutboundRejects
<1> QED
  BY <1>1, <1>2, <1>3, <1>4, <1>5, <1>6, <1>7, <1>8 DEF Next, Stub, Proceed

LEMMA ServingParts ==
  ASSUME Serving
  PROVE  /\ TypeOK /\ OutcomesFit /\ FrameMetas /\ TailMetas /\ OtherMetas /\ OnlyArrived
         /\ OneWayIn /\ RejectedForGood /\ OneAnswer /\ FlagAccountedFor /\ RejectionNamesRequest
         /\ SendersServe /\ ServedHaveMeta
<1>1. TypeOK /\ FrameMetas /\ OneAnswer
  BY DEF Serving, MetasAreOwn
<1>2. SendersServe
  BY <1>1 DEF OneAnswer, SendersServe
<1>3. ServedHaveMeta
  BY <1>1, FramesHave DEF FrameMetas, ServedHaveMeta
<1> QED
  BY <1>1, <1>2, <1>3 DEF Serving, MetasAreOwn

Sent == [to : Metas, about : Requests, failed : BOOLEAN]

\* An error response, or its loss.
LEMMA ErrorType ==
  ASSUME TypeOK, NEW to \in Metas, NEW r \in Requests, ReplyError(to, r)
  PROVE  /\ out' \subseteq Sent /\ lost' \subseteq Sent
         /\ \A m \in out' : m \in out \/ m = Response(to, r, TRUE)
<1>1. Response(to, r, TRUE) \in Sent
  BY DEF Response, Sent
<1>2. out \subseteq Sent /\ lost \subseteq Sent
  BY DEF TypeOK, Sent
<1> QED
  BY <1>1, <1>2 DEF ReplyError

LEMMA TypeStep == Serving /\ [Next]_vars => TypeOK'
<1> SUFFICES ASSUME Serving, [Next]_vars PROVE TypeOK'
  OBVIOUS
<1>0. /\ TypeOK /\ OutcomesFit /\ OneAnswer /\ OtherMetas
      /\ frame \in [Workers -> Frames \cup {Idle}]
      /\ posted \in Seq([req : Requests, hop : Hops, meta : Metas])
  BY ServingParts DEF TypeOK
<1> USE DEF route, reply, Sent
<1>1. CASE Receive
  <2>1. PICK r \in Requests : /\ arrived' = arrived \cup {r}
                              /\ frame' = [frame EXCEPT ![Net] = [stage |-> "stub", req |-> r, hop |-> 1,
                                             from |-> 1, meta |-> r, outcome |-> "none"]]
    BY <1>1 DEF Receive
  <2>2. 1 \in Hops /\ r \in Metas /\ frame[Net] = Idle
    BY <1>1 DEF Receive
  <2>3. frame' \in [Workers -> Frames \cup {Idle}]
    BY <1>0, <2>1, <2>2, StartFrame
  <2> QED
    BY <1>0, <1>1, <2>1, <2>3 DEF Receive, TypeOK
<1>2. CASE UnknownMethod
  <2>1. frame[Net].meta \in Metas /\ frame[Net].req \in Requests
    BY <1>0, <1>2, FramesHave DEF UnknownMethod, Busy
  <2>2. out' \subseteq Sent /\ lost' \subseteq Sent
    BY <1>0, <1>2, <2>1, ErrorType DEF UnknownMethod
  <2>3. frame' \in [Workers -> Frames \cup {Idle}]
    BY <1>0, <1>2, ReleaseFrame DEF UnknownMethod
  <2> QED
    BY <1>0, <1>2, <2>2, <2>3 DEF UnknownMethod, TypeOK
<1>3. ASSUME NEW t \in Workers, PassOn(t) \/ (t = Net /\ EnterChain) PROVE TypeOK'
  <2>1. frame' \in [Workers -> Frames \cup {Idle}]
    BY <1>0, <1>3, ChainFrame
  <2> QED
    BY <1>0, <1>3, <2>1 DEF PassOn, EnterChain, TypeOK
<1>4. CASE PostToLoop
  <2>1. frame' \in [Workers -> Frames \cup {Idle}]
    BY <1>0, <1>4, PostFrame
  <2>2. posted' \in Seq([req : Requests, hop : Hops, meta : Metas])
    <3>1. PICK f \in [req : Requests, hop : Hops, meta : Metas] : posted' = Append(posted, f)
      BY <1>0, <1>4, PostFrame DEF PostToLoop
    <3> QED
      BY <1>0, <3>1
  <2> QED
    BY <1>0, <1>4, <2>1, <2>2 DEF PostToLoop, TypeOK
<1>5. CASE StubTail
  <2>1. frame[Net].meta \in Metas /\ frame[Net].req \in Requests
    BY <1>0, <1>5, FramesHave DEF StubTail, Busy
  <2>2. frame' \in [Workers -> Frames \cup {Idle}]
    BY <1>0, <1>5, ReleaseFrame DEF StubTail
  <2>3. /\ out' \subseteq Sent /\ lost' \subseteq Sent
        /\ waiting' \in [Requests -> Metas \cup {None}]
    <3>1. \/ UNCHANGED <<waiting, out, lost>>
          \/ ReplyError(TailMeta, frame[Net].req) /\ UNCHANGED waiting
          \/ Attach(frame[Net].req) /\ UNCHANGED <<out, lost>>
      BY <1>5 DEF StubTail
    <3> QED
      BY <1>0, <2>1, <3>1, ErrorType DEF TypeOK
  <2> QED
    BY <1>0, <1>5, <2>2, <2>3 DEF StubTail, TypeOK
<1>6. CASE RunPosted
  <2>1. /\ posted[1] \in [req : Requests, hop : Hops, meta : Metas] /\ Head(posted) = posted[1]
        /\ posted' \in Seq([req : Requests, hop : Hops, meta : Metas])
    BY <1>0, <1>6, TailType DEF RunPosted
  <2>2. frame' \in [Workers -> Frames \cup {Idle}]
    BY <1>0, <1>6, <2>1, StartFrame DEF RunPosted
  <2> QED
    BY <1>0, <1>6, <2>1, <2>2 DEF RunPosted, TypeOK
<1>7. CASE FulfilPromise
  <2>1. frame[Loop].req \in Requests /\ frame[Loop].outcome \in {"ok", "err"}
    BY <1>0, <1>7, FramesHave DEF FulfilPromise, Busy, OutcomesFit
  <2>2. frame' \in [Workers -> Frames \cup {Idle}]
    BY <1>0, <1>7, ReleaseFrame DEF FulfilPromise
  <2>3. promise' \in [Requests -> {"none", "ok", "err", "broken"}]
    BY <1>0, <1>7, <2>1 DEF FulfilPromise, TypeOK
  <2>4. out' \subseteq Sent /\ lost' \subseteq Sent
    <3>1. \/ UNCHANGED <<out, lost>>
          \/ waiting[frame[Loop].req] # None /\ ReplyError(waiting[frame[Loop].req], frame[Loop].req)
      BY <1>7 DEF FulfilPromise
    <3>2. waiting[frame[Loop].req] \in Metas \cup {None}
      BY <1>0, <2>1 DEF TypeOK
    <3> QED
      BY <1>0, <2>1, <3>1, <3>2, ErrorType DEF TypeOK
  <2> QED
    BY <1>0, <1>7, <2>2, <2>3, <2>4 DEF FulfilPromise, TypeOK
<1>8. ASSUME NEW t \in Workers, CallService(t) PROVE TypeOK'
  <2>1. frame' \in [Workers -> Frames \cup {Idle}]
    BY <1>0, <1>8, ServiceFrame
  <2>2. frame[t].req \in Requests /\ frame[t].meta \in Metas
    BY <1>0, <1>8, FramesHave DEF CallService, Busy
  <2>3. replyMeta' \in [Requests -> Metas \cup {None}]
    BY <1>0, <1>8, <2>2 DEF CallService, TypeOK
  <2> QED
    BY <1>0, <1>8, <2>1, <2>3 DEF CallService, TypeOK
<1>9. ASSUME NEW t \in Workers, GoesBack(t) PROVE TypeOK'
  <2>1. frame[t].req \in Requests
    BY <1>0, <1>9, FramesHave DEF GoesBack
  <2>2. promise' \in [Requests -> {"none", "ok", "err", "broken"}]
    BY <1>0, <1>9, <2>1 DEF GoesBack, TypeOK, Breaks
  <2> QED
    BY <1>0, <1>9, <2>2 DEF GoesBack, TypeOK
<1>10. ASSUME NEW u \in Workers \cup Apps, Takes(u) PROVE TypeOK'
  <2>1. PICK r \in Requests : TakeFlag(u, r)
    BY <1>10 DEF Takes
  <2>2. sending' \in [Workers \cup Apps -> Requests \cup {None}] /\ flag' \subseteq Requests
    BY <1>0, <2>1 DEF TakeFlag, TypeOK
  <2> QED
    BY <1>0, <2>1, <2>2 DEF TakeFlag, TypeOK
<1>11. ASSUME NEW u \in Workers \cup Apps, SendReply(u) PROVE TypeOK'
  <2>1. PICK r \in Requests : r = sending[u] /\ replyMeta[r] = r
    BY <1>0, <1>11 DEF SendReply, OneAnswer, TypeOK
  <2>2. out' \subseteq [to : Metas, about : Requests, failed : BOOLEAN]
    <3>1. Response(r, r, FALSE) \in [to : Metas, about : Requests, failed : BOOLEAN]
      BY <2>1 DEF Response
    <3>2. out \subseteq [to : Metas, about : Requests, failed : BOOLEAN]
      BY <1>0 DEF TypeOK
    <3>3. out' = out \cup {Response(r, r, FALSE)}
      BY <1>11, <2>1 DEF SendReply
    <3> QED
      BY <3>1, <3>2, <3>3
  <2>3. answered' \in [Requests -> Nat]
    <3>1. answered' = [answered EXCEPT ![r] = answered[r] + 1] /\ answered \in [Requests -> Nat]
      BY <1>0, <1>11, <2>1 DEF SendReply, TypeOK
    <3> QED
      BY <3>1
  <2>4. sending' \in [Workers \cup Apps -> Requests \cup {None}]
    <3>1. sending' = [sending EXCEPT ![u] = None] /\ sending \in [Workers \cup Apps -> Requests \cup {None}]
      BY <1>0, <1>11 DEF SendReply, TypeOK
    <3> QED
      BY <3>1
  <2> QED
    BY <1>0, <1>11, <2>2, <2>3, <2>4 DEF SendReply, TypeOK
<1>12. ASSUME NEW u \in Workers \cup Apps, Loses(u) PROVE TypeOK'
  <2>1. PICK r \in Requests : r = sending[u] /\ replyMeta[r] = r /\ r \in Metas
    BY <1>0, <1>12 DEF Loses, OneAnswer, TypeOK, Metas
  <2>a. Response(r, r, FALSE) \in Sent
    BY <2>1 DEF Response
  <2>2. lost' \subseteq Sent /\ sending' \in [Workers \cup Apps -> Requests \cup {None}]
    BY <1>0, <1>12, <2>1, <2>a DEF Loses, TypeOK
  <2>3. CASE UNCHANGED <<frame, promise>>
    BY <1>0, <1>12, <2>2, <2>3 DEF Loses, TypeOK
  <2>4. CASE ~UNCHANGED <<frame, promise>>
    <3>1. u \in Workers /\ frame' \in [Workers -> Frames \cup {Idle}]
          /\ (promise' = promise \/ promise' = [promise EXCEPT ![frame[u].req] = "broken"])
      BY <1>12, <2>4 DEF Loses, Breaks
    <3>2. promise' \in [Requests -> {"none", "ok", "err", "broken"}]
      BY <1>0, <3>1 DEF TypeOK
    <3> QED
      BY <1>0, <1>12, <2>2, <3>1, <3>2 DEF Loses, TypeOK
  <2> QED
    BY <2>3, <2>4
<1>13. ASSUME Quiet PROVE TypeOK'
  BY <1>0, <1>13 DEF Quiet, TypeOK
<1> QED
  BY <1>1, <1>2, <1>3, <1>4, <1>5, <1>6, <1>7, <1>8, <1>9, <1>10, <1>11, <1>12, <1>13,
     ServingParts, Steps DEF Rest

-----------------------------------------------------------------------------
(* The parts of Serving                                                    *)

LEMMA ReceiveFacts ==
  ASSUME TypeOK, Receive
  PROVE  \E r \in Requests \ arrived :
           /\ arrived' = arrived \cup {r}
           /\ Only(Net) /\ frame[Net].stage = "idle"
           /\ frame'[Net].stage = "stub" /\ frame'[Net].req = r /\ frame'[Net].meta = r
           /\ frame'[Net].outcome = "none"
           /\ UNCHANGED <<posted, promise, waiting, reply, out, lost>>
<1>1. PICK r \in Requests \ arrived :
        /\ arrived' = arrived \cup {r}
        /\ frame' = [frame EXCEPT ![Net] = [stage |-> "stub", req |-> r, hop |-> 1,
                       from |-> 1, meta |-> r, outcome |-> "none"]]
  BY DEF Receive
<1>2. 1 \in Hops /\ r \in Metas /\ frame[Net] = Idle
  BY DEF Receive
<1>3. Only(Net) /\ frame'[Net].stage = "stub" /\ frame'[Net].req = r /\ frame'[Net].meta = r
      /\ frame'[Net].outcome = "none"
  BY <1>1, <1>2, StartFrame
<1> QED
  BY <1>1, <1>2, <1>3 DEF Receive, Idle

LEMMA RunFacts ==
  ASSUME TypeOK, RunPosted
  PROVE  /\ Only(Loop) /\ frame[Loop].stage = "idle"
         /\ frame'[Loop].stage = "chain" /\ frame'[Loop].req = posted[1].req
         /\ frame'[Loop].meta = posted[1].meta /\ frame'[Loop].outcome = "none"
         /\ 1 \in DOMAIN posted /\ posted[1].req \in Requests
         /\ \A i \in DOMAIN posted' : i \in Nat /\ i + 1 # 1 /\ i + 1 \in DOMAIN posted /\ posted'[i] = posted[i + 1]
         /\ UNCHANGED <<arrived, promise, waiting, reply, out, lost>>
<1>1. posted \in Seq([req : Requests, hop : Hops, meta : Metas])
  BY DEF TypeOK
<1>a. posted # <<>> /\ posted' = Tail(posted)
  BY DEF RunPosted
<1>2. /\ 1 \in DOMAIN posted /\ Head(posted) = posted[1]
      /\ posted[1] \in [req : Requests, hop : Hops, meta : Metas]
      /\ \A i \in DOMAIN posted' : i \in Nat /\ i + 1 # 1 /\ i + 1 \in DOMAIN posted /\ posted'[i] = posted[i + 1]
  <2> DEFINE S == [req : Requests, hop : Hops, meta : Metas]
  <2>1. posted \in Seq(S)
    BY <1>1
  <2> HIDE DEF S
  <2>2. /\ 1 \in DOMAIN posted /\ Head(posted) = posted[1] /\ posted[1] \in S
        /\ \A i \in DOMAIN Tail(posted) :
             i \in Nat /\ i + 1 # 1 /\ i + 1 \in DOMAIN posted /\ Tail(posted)[i] = posted[i + 1]
    BY <1>a, <2>1, TailType
  <2> QED
    BY <1>a, <2>2 DEF S
<1>3. /\ Only(Loop) /\ frame'[Loop].stage = "chain" /\ frame'[Loop].req = posted[1].req
      /\ frame'[Loop].meta = posted[1].meta /\ frame'[Loop].outcome = "none"
  BY <1>2, StartFrame DEF RunPosted
<1> QED
  BY <1>2, <1>3 DEF RunPosted, Idle

\* The queue with one more request in it.
LEMMA PostFacts ==
  ASSUME TypeOK, PostToLoop
  PROVE  \E n \in Nat :
           /\ n \notin DOMAIN posted /\ DOMAIN posted' = DOMAIN posted \cup {n}
           /\ \A i \in DOMAIN posted : posted'[i] = posted[i]
           /\ posted'[n].req = frame[Net].req /\ posted'[n].meta = frame[Net].meta
<1>1. posted \in Seq([req : Requests, hop : Hops, meta : Metas])
  BY DEF TypeOK
<1>2. PICK f \in [req : Requests, hop : Hops, meta : Metas] :
         posted' = Append(posted, f) /\ f.req = frame[Net].req /\ f.meta = frame[Net].meta
  BY PostFrame DEF PostToLoop
<1>3. /\ Len(posted) + 1 \in Nat /\ Len(posted) + 1 \notin DOMAIN posted
      /\ DOMAIN posted' = DOMAIN posted \cup {Len(posted) + 1}
      /\ \A i \in DOMAIN posted : posted'[i] = posted[i]
      /\ posted'[Len(posted) + 1] = f
  BY <1>1, <1>2
<1> QED
  BY <1>2, <1>3

\* Three actions let go of the request the thread is busy with.
LEMMA LetGo ==
  ASSUME TypeOK, NEW t \in Workers,
         (t = Net /\ (UnknownMethod \/ StubTail)) \/ (t = Loop /\ FulfilPromise)
  PROVE  /\ Only(t) /\ frame'[t].stage = "idle"
         /\ frame[t].stage \in {"stub", "tail"} /\ frame[t].req \in Requests
         /\ UNCHANGED <<arrived, posted, reply>>
<1>1. Release(t) /\ frame[t].stage \in {"stub", "tail"} /\ UNCHANGED <<arrived, posted, reply>>
  BY DEF UnknownMethod, StubTail, FulfilPromise, Busy
<1> QED
  BY <1>1, ReleaseFrame, FramesHave

LEMMA OutcomesStep == Serving /\ [Next]_vars => OutcomesFit'
<1> SUFFICES ASSUME Serving, [Next]_vars PROVE OutcomesFit'
  OBVIOUS
<1>0. TypeOK /\ OutcomesFit
  BY ServingParts
<1> USE DEF OutcomesFit, Only
<1>1. CASE Receive
  BY <1>0, <1>1, ReceiveFacts
<1>2. CASE UnknownMethod \/ StubTail \/ FulfilPromise
  BY <1>0, <1>2, LetGo
<1>3. ASSUME NEW t \in Workers, PassOn(t) \/ (t = Net /\ EnterChain) PROVE OutcomesFit'
  BY <1>0, <1>3, ChainFrame
<1>4. CASE PostToLoop
  BY <1>0, <1>4, PostFrame
<1>5. CASE RunPosted
  BY <1>0, <1>5, RunFacts
<1>6. ASSUME NEW t \in Workers, CallService(t) PROVE OutcomesFit'
  BY <1>0, <1>6, ServiceFrame
<1>7. ASSUME NEW t \in Workers, GoesBack(t) PROVE OutcomesFit'
  BY <1>0, <1>7 DEF GoesBack
<1>8. ASSUME NEW u \in Workers \cup Apps, Loses(u) PROVE OutcomesFit'
  BY <1>0, <1>8 DEF Loses
<1>9. ASSUME NEW u \in Workers \cup Apps, Takes(u) \/ SendReply(u) PROVE OutcomesFit'
  BY <1>0, <1>9 DEF Takes, TakeFlag, SendReply, route
<1>10. CASE Quiet
  BY <1>0, <1>10 DEF Quiet, route
<1> QED
  BY <1>1, <1>2, <1>3, <1>4, <1>5, <1>6, <1>7, <1>8, <1>9, <1>10, ServingParts, Steps DEF Rest

LEMMA ArrivedStep == Serving /\ [Next]_vars => OnlyArrived'
<1> SUFFICES ASSUME Serving, [Next]_vars PROVE OnlyArrived'
  OBVIOUS
<1>0. TypeOK /\ OnlyArrived /\ OneAnswer
  BY ServingParts
<1> USE DEF OnlyArrived, Only, reply
<1>1. CASE Receive
  BY <1>0, <1>1, ReceiveFacts
<1>2. ASSUME NEW t \in Workers,
             (t = Net /\ (UnknownMethod \/ StubTail)) \/ (t = Loop /\ FulfilPromise)
      PROVE  OnlyArrived'
  <2>1. \A m \in out' : m \in out \/ m.about = frame[t].req
    BY <1>2 DEF UnknownMethod, StubTail, FulfilPromise, ReplyError, Response
  <2> QED
    BY <1>0, <1>2, <2>1, LetGo
<1>3. ASSUME NEW t \in Workers, PassOn(t) \/ (t = Net /\ EnterChain) PROVE OnlyArrived'
  BY <1>0, <1>3, ChainFrame DEF PassOn, EnterChain
<1>4. CASE PostToLoop
  BY <1>0, <1>4, PostFrame, PostFacts DEF PostToLoop
<1>5. CASE RunPosted
  BY <1>0, <1>5, RunFacts
<1>6. ASSUME NEW t \in Workers, CallService(t) PROVE OnlyArrived'
  <2>1. frame[t].req \in arrived /\ frame[t].req \in Requests
    BY <1>0, <1>6, ServiceFrame, FramesHave
  <2>2. \A r \in Requests : replyMeta'[r] # None => r \in arrived
    BY <1>0, <1>6, <2>1 DEF CallService, TypeOK
  <2>3. \A u \in Workers : frame'[u].stage # "idle" => frame'[u].req \in arrived
    BY <1>0, <1>6, <2>1, ServiceFrame
  <2>4. UNCHANGED <<arrived, posted, out>>
    BY <1>6 DEF CallService
  <2> QED
    BY <1>0, <2>2, <2>3, <2>4
<1>7. ASSUME NEW t \in Workers, GoesBack(t) PROVE OnlyArrived'
  BY <1>0, <1>7 DEF GoesBack
<1>8. ASSUME NEW u \in Workers \cup Apps, Loses(u) PROVE OnlyArrived'
  <2>1. CASE UNCHANGED frame
    BY <1>0, <1>8, <2>1 DEF Loses
  <2>2. CASE ~UNCHANGED frame
    <3>1. sending[u] \in Requests /\ u \in Workers
      BY <1>0, <1>8, <2>2 DEF Loses, TypeOK
    <3>2. frame[u].stage = "service"
      BY <1>0, <1>8, <3>1 DEF OneAnswer, Loses
    <3> QED
      BY <1>0, <1>8, <3>1, <3>2 DEF Loses
  <2> QED
    BY <2>1, <2>2
<1>9. ASSUME NEW u \in Workers \cup Apps, Takes(u) PROVE OnlyArrived'
  BY <1>0, <1>9 DEF Takes, TakeFlag, route
<1>10. ASSUME NEW u \in Workers \cup Apps, SendReply(u) PROVE OnlyArrived'
  <2>1. sending[u] \in Requests /\ replyMeta[sending[u]] # None
    BY <1>0, <1>10 DEF SendReply, OneAnswer, TypeOK
  <2>2. \A m \in out' : m \in out \/ m.about = sending[u]
    BY <1>10 DEF SendReply, Response
  <2> QED
    BY <1>0, <1>10, <2>1, <2>2 DEF SendReply, route
<1>11. CASE Quiet
  BY <1>0, <1>11 DEF Quiet, route
<1> QED
  BY <1>1, <1>2, <1>3, <1>4, <1>5, <1>6, <1>7, <1>8, <1>9, <1>10, <1>11, ServingParts, Steps DEF Rest

LEMMA FrameMetasStep == Serving /\ [Next]_vars => FrameMetas'
<1> SUFFICES ASSUME Serving, [Next]_vars PROVE FrameMetas'
  OBVIOUS
<1>0. TypeOK /\ FrameMetas /\ OtherMetas /\ OneAnswer
  BY ServingParts
<1> USE DEF FrameMetas, Only, reply
<1>1. CASE Receive
  BY <1>0, <1>1, ReceiveFacts
<1>2. CASE UnknownMethod \/ StubTail \/ FulfilPromise
  BY <1>0, <1>2, LetGo
<1>3. ASSUME NEW t \in Workers, PassOn(t) \/ (t = Net /\ EnterChain) PROVE FrameMetas'
  BY <1>0, <1>3, ChainFrame DEF PassOn, EnterChain
<1>4. CASE PostToLoop
  BY <1>0, <1>4, PostFrame DEF PostToLoop
<1>5. CASE RunPosted
  BY <1>0, <1>5, RunFacts DEF OtherMetas
<1>6. ASSUME NEW t \in Workers, CallService(t) PROVE FrameMetas'
  <2>1. /\ frame[t].req \in Requests /\ frame[t].meta = frame[t].req
        /\ Only(t) /\ frame'[t].stage = "service" /\ frame'[t].req = frame[t].req /\ frame'[t].meta = Blank
    BY <1>0, <1>6, ServiceFrame, FramesHave
  <2>2. replyMeta' = [replyMeta EXCEPT ![frame[t].req] = frame[t].req] /\ replyMeta \in [Requests -> Metas \cup {None}]
    BY <1>0, <1>6, <2>1 DEF CallService, TypeOK
  <2>3. \A r \in Requests : replyMeta'[r] = IF r = frame[t].req THEN r ELSE replyMeta[r]
    BY <2>1, <2>2
  <2>4. ASSUME NEW u \in Workers, frame'[u].stage # "idle"
        PROVE  /\ frame'[u].stage \in {"stub", "chain"} => frame'[u].meta = frame'[u].req
               /\ frame'[u].stage = "service" =>
                    frame'[u].meta = Blank /\ replyMeta'[frame'[u].req] = frame'[u].req
               /\ frame'[u].meta \in {frame'[u].req, Blank}
    <3>1. CASE u = t
      BY <2>1, <2>3, <3>1
    <3>2. CASE u # t
      <4>1. frame'[u] = frame[u]
        BY <2>1, <3>2
      <4>2. frame[u].req \in Requests
        BY <1>0, <2>4, <4>1, FramesHave
      <4>3. frame[u].stage = "service" => replyMeta'[frame[u].req] = frame[u].req
        BY <1>0, <2>3, <4>2
      <4> QED
        BY <1>0, <2>4, <4>1, <4>3
    <3> QED
      BY <3>1, <3>2
  <2> QED
    BY <2>4
<1>7. ASSUME NEW t \in Workers, GoesBack(t) PROVE FrameMetas'
  BY <1>0, <1>7 DEF GoesBack
<1>8. ASSUME NEW u \in Workers \cup Apps, Loses(u) PROVE FrameMetas'
  <2>1. CASE UNCHANGED frame
    BY <1>0, <1>8, <2>1 DEF Loses
  <2>2. CASE ~UNCHANGED frame
    <3>1. u \in Workers /\ frame[u].stage = "service"
      BY <1>0, <1>8, <2>2 DEF Loses, OneAnswer
    <3> QED
      BY <1>0, <1>8, <2>2, <3>1 DEF Loses
  <2> QED
    BY <2>1, <2>2
<1>9. ASSUME NEW u \in Workers \cup Apps, Takes(u) \/ SendReply(u) PROVE FrameMetas'
  BY <1>0, <1>9 DEF Takes, TakeFlag, SendReply, route
<1>10. CASE Quiet
  BY <1>0, <1>10 DEF Quiet, route
<1> QED
  BY <1>1, <1>2, <1>3, <1>4, <1>5, <1>6, <1>7, <1>8, <1>9, <1>10, ServingParts, Steps DEF Rest

LEMMA TailMetasStep == Serving /\ [Next]_vars => TailMetas'
<1> SUFFICES ASSUME Serving, [Next]_vars PROVE TailMetas'
  OBVIOUS
<1>0. TypeOK /\ FrameMetas /\ TailMetas /\ OneAnswer
  BY ServingParts
<1> USE DEF TailMetas, Only, reply
<1>a. ASSUME frame[Net].stage \in {"stub", "chain", "service"}, frame[Net].meta = Blank
      PROVE  frame[Net].req \in Requests /\ replyMeta[frame[Net].req] # None
  <2>1. frame[Net].req \in Requests /\ Blank \notin Requests /\ None \notin Requests
    BY <1>0, <1>a, FramesHave
  <2> QED
    BY <1>0, <1>a, <2>1 DEF FrameMetas
<1>1. CASE Receive
  BY <1>0, <1>1, ReceiveFacts
<1>2. CASE UnknownMethod \/ StubTail \/ FulfilPromise
  BY <1>0, <1>2, LetGo
<1>3. ASSUME NEW t \in Workers, PassOn(t) \/ (t = Net /\ EnterChain) PROVE TailMetas'
  BY <1>0, <1>3, ChainFrame DEF PassOn, EnterChain
<1>4. CASE PostToLoop
  BY <1>0, <1>4, PostFrame
<1>5. CASE RunPosted
  BY <1>0, <1>5, RunFacts
<1>6. ASSUME NEW t \in Workers, CallService(t) PROVE TailMetas'
  <2>1. /\ frame[t].req \in Requests /\ frame[t].meta = frame[t].req
        /\ Only(t) /\ frame'[t].stage = "service"
    BY <1>0, <1>6, ServiceFrame, FramesHave DEF FrameMetas
  <2>2. replyMeta' = [replyMeta EXCEPT ![frame[t].req] = frame[t].req] /\ replyMeta \in [Requests -> Metas \cup {None}]
    BY <1>0, <1>6, <2>1 DEF CallService, TypeOK
  <2>3. \A r \in Requests : replyMeta[r] # None => replyMeta'[r] # None
    BY <2>1, <2>2
  <2>4. CASE t = Net
    BY <2>1, <2>4
  <2>5. CASE t # Net
    <3>1. frame'[Net] = frame[Net] /\ (frame[Net].stage = "tail" => frame[Net].req \in Requests)
      BY <1>0, <2>1, <2>5, FramesHave
    <3> QED
      BY <1>0, <2>3, <3>1
  <2> QED
    BY <2>4, <2>5
<1>7. ASSUME NEW t \in Workers, GoesBack(t) PROVE TailMetas'
  BY <1>0, <1>7, <1>a DEF GoesBack
<1>8. ASSUME NEW u \in Workers \cup Apps, Loses(u) PROVE TailMetas'
  <2>1. CASE UNCHANGED frame \/ u # Net
    BY <1>0, <1>8, <2>1 DEF Loses
  <2>2. CASE ~UNCHANGED frame /\ u = Net
    <3>1. frame[Net].stage = "service"
      BY <1>0, <1>8, <2>2 DEF Loses, OneAnswer
    <3> QED
      BY <1>0, <1>8, <1>a, <2>2, <3>1 DEF Loses
  <2> QED
    BY <2>1, <2>2
<1>9. ASSUME NEW u \in Workers \cup Apps, Takes(u) \/ SendReply(u) PROVE TailMetas'
  BY <1>0, <1>9 DEF Takes, TakeFlag, SendReply, route
<1>10. CASE Quiet
  BY <1>0, <1>10 DEF Quiet, route
<1> QED
  BY <1>1, <1>2, <1>3, <1>4, <1>5, <1>6, <1>7, <1>8, <1>9, <1>10, ServingParts, Steps DEF Rest

LEMMA OtherMetasStep == Serving /\ [Next]_vars => OtherMetas'
<1> SUFFICES ASSUME Serving, [Next]_vars PROVE OtherMetas'
  OBVIOUS
<1>0. TypeOK /\ OutcomesFit /\ FrameMetas /\ TailMetas /\ OtherMetas /\ OneAnswer
  BY ServingParts
<1> USE DEF OtherMetas, reply
<1>1. CASE Receive
  BY <1>0, <1>1, ReceiveFacts
<1>2. CASE UnknownMethod
  <2>1. frame[Net].stage = "stub"
    BY <1>2 DEF UnknownMethod, Busy
  <2>2. frame[Net].meta = frame[Net].req
    BY <1>0, <2>1 DEF FrameMetas
  <2>3. \A m \in out' : m \in out \/ m = Response(frame[Net].req, frame[Net].req, TRUE)
    BY <1>2, <2>2 DEF UnknownMethod, ReplyError
  <2> QED
    BY <1>0, <1>2, <2>3 DEF UnknownMethod, Response
<1>3. CASE StubTail
  <2>1. frame[Net].stage = "tail"
    BY <1>3 DEF StubTail, Busy
  <2>2. frame[Net].meta \in {frame[Net].req, Blank} /\ frame[Net].req \in Requests
    BY <1>0, <2>1, FramesHave DEF FrameMetas
  <2>3. \A m \in out' : m.to \in {m.about, Blank}
    <3>1. \A m \in out' : m \in out \/ m = Response(frame[Net].meta, frame[Net].req, TRUE)
      BY <1>3 DEF StubTail, ReplyError
    <3> QED
      BY <1>0, <2>2, <3>1 DEF Response
  <2>4. \A r \in Requests : waiting'[r] \in {None, Blank}
    <3>1. CASE UNCHANGED waiting
      BY <1>0, <3>1
    <3>2. CASE ~UNCHANGED waiting
      <4>1. waiting' = [waiting EXCEPT ![frame[Net].req] = frame[Net].meta] /\ frame[Net].outcome \notin {"ok", "err"}
        BY <1>3, <3>2 DEF StubTail
      <4>2. frame[Net].outcome \in {"ok", "err", "pending"}
        BY <1>0, <2>1 DEF OutcomesFit
      <4>3. frame[Net].meta = Blank
        BY <1>0, <2>1, <4>1, <4>2 DEF TailMetas
      <4> QED
        BY <1>0, <2>2, <4>1, <4>3 DEF TypeOK
    <3> QED
      BY <3>1, <3>2
  <2> QED
    BY <1>0, <1>3, <2>3, <2>4 DEF StubTail
<1>4. CASE FulfilPromise
  <2>1. frame[Loop].req \in Requests
    BY <1>0, <1>4, LetGo
  <2>2. \A m \in out' : m \in out \/ m = Response(Blank, frame[Loop].req, TRUE)
    <3>1. PICK r \in Requests : r = frame[Loop].req
      BY <2>1
    <3>2. out' = out \/ (waiting[r] # None /\ ReplyError(waiting[r], r))
      BY <1>4, <3>1 DEF FulfilPromise
    <3>3. waiting[r] # None => waiting[r] = Blank
      BY <1>0
    <3>4. CASE out' = out
      BY <3>4
    <3>5. CASE ReplyError(Blank, r)
      BY <3>1, <3>5 DEF ReplyError
    <3> QED
      BY <3>2, <3>3, <3>4, <3>5
  <2> QED
    BY <1>0, <1>4, <2>2 DEF FulfilPromise, Response
<1>5. ASSUME NEW t \in Workers, PassOn(t) \/ (t = Net /\ EnterChain) PROVE OtherMetas'
  BY <1>0, <1>5 DEF PassOn, EnterChain
<1>6. CASE PostToLoop
  <2>1. frame[Net].meta = frame[Net].req
    BY <1>0, <1>6, PostFrame DEF FrameMetas
  <2>2. \A i \in DOMAIN posted' : posted'[i].meta = posted'[i].req
    BY <1>0, <1>6, <2>1, PostFacts
  <2> QED
    BY <1>0, <1>6, <2>2 DEF PostToLoop
<1>7. CASE RunPosted
  BY <1>0, <1>7, RunFacts
<1>8. ASSUME NEW t \in Workers, CallService(t) PROVE OtherMetas'
  <2>1. frame[t].req \in Requests /\ frame[t].meta = frame[t].req
    BY <1>0, <1>8, ServiceFrame, FramesHave DEF FrameMetas
  <2>2. \A r \in Requests : replyMeta'[r] \in {None, r}
    BY <1>0, <1>8, <2>1 DEF CallService, TypeOK
  <2> QED
    BY <1>0, <1>8, <2>2 DEF CallService
<1>9. ASSUME NEW t \in Workers, GoesBack(t) PROVE OtherMetas'
  BY <1>0, <1>9 DEF GoesBack
<1>10. ASSUME NEW u \in Workers \cup Apps, Takes(u) \/ Loses(u) PROVE OtherMetas'
  BY <1>0, <1>10 DEF Takes, TakeFlag, Loses, route
<1>11. ASSUME NEW u \in Workers \cup Apps, SendReply(u) PROVE OtherMetas'
  <2>1. \A m \in out' : m \in out \/ m = Response(sending[u], sending[u], FALSE)
    BY <1>0, <1>11 DEF SendReply, OneAnswer
  <2> QED
    BY <1>0, <1>11, <2>1 DEF SendReply, Response, route
<1>12. CASE Quiet
  BY <1>0, <1>12 DEF Quiet, route
<1> QED
  BY <1>1, <1>2, <1>3, <1>4, <1>5, <1>6, <1>7, <1>8, <1>9, <1>10, <1>11, <1>12,
     ServingParts, Steps DEF Rest

-----------------------------------------------------------------------------
(* A request on its way                                                    *)

\* Nothing is set on its way, and no reply object made.
Keeps ==
  /\ UNCHANGED <<posted, replyMeta>>
  /\ \A t \in Workers : frame'[t].stage \in {"stub", "chain"} =>
       frame[t].stage \in {"stub", "chain"} /\ frame'[t].req = frame[t].req

LEMMA MostKeep ==
  ASSUME Serving, [Next]_vars
  PROVE  Receive \/ PostToLoop \/ RunPosted \/ (\E t \in Workers : CallService(t)) \/ Keeps
<1>0. TypeOK /\ OneAnswer
  BY ServingParts
<1> USE DEF Keeps, Only, reply
<1>1. CASE UnknownMethod \/ StubTail \/ FulfilPromise
  BY <1>0, <1>1, LetGo
<1>2. ASSUME NEW t \in Workers, PassOn(t) \/ (t = Net /\ EnterChain) PROVE Keeps
  BY <1>0, <1>2, ChainFrame DEF PassOn, EnterChain
<1>3. ASSUME NEW t \in Workers, GoesBack(t) PROVE Keeps
  BY <1>0, <1>3 DEF GoesBack
<1>4. ASSUME NEW u \in Workers \cup Apps, Loses(u) PROVE Keeps
  BY <1>0, <1>4 DEF Loses
<1>5. ASSUME NEW u \in Workers \cup Apps, Takes(u) \/ SendReply(u) PROVE Keeps
  BY <1>0, <1>5 DEF Takes, TakeFlag, SendReply, route
<1>6. ASSUME Quiet PROVE Keeps
  BY <1>0, <1>6 DEF Quiet, route
<1> QED
  BY <1>1, <1>2, <1>3, <1>4, <1>5, <1>6, ServingParts, Steps DEF Rest

LEMMA KeepsWays ==
  ASSUME Keeps
  PROVE  /\ \A t \in Workers, r \in Requests : (Travels(t, r))' => Travels(t, r)
         /\ \A r \in Requests : (Queued(r))' <=> Queued(r)
         /\ \A r \in Requests : (OnItsWay(r))' => OnItsWay(r)
BY DEF Keeps, Travels, Queued, OnItsWay

\* A request comes in that is nowhere yet.
LEMMA ReceiveWays ==
  ASSUME Serving, Receive
  PROVE  \E r \in Requests :
           /\ r \notin arrived
           /\ ~OnItsWay(r) /\ replyMeta[r] = None /\ UNCHANGED <<posted, replyMeta>>
           /\ \A x \in Requests : (Travels(Net, x))' <=> x = r
           /\ \A x \in Requests : (Travels(Loop, x))' <=> Travels(Loop, x)
           /\ \A x \in Requests : x # r /\ (OnItsWay(x))' => OnItsWay(x)
<1>0. TypeOK /\ OnlyArrived
  BY ServingParts
<1>1. PICK r \in Requests \ arrived :
        /\ Only(Net) /\ frame[Net].stage = "idle"
        /\ frame'[Net].stage = "stub" /\ frame'[Net].req = r
        /\ UNCHANGED <<posted, reply>>
  BY <1>0, ReceiveFacts
<1>2. ~OnItsWay(r) /\ replyMeta[r] = None
  BY <1>0, <1>1 DEF OnItsWay, Travels, Queued, OnlyArrived
<1>3. \A x \in Requests : (Travels(Net, x))' <=> x = r
  BY <1>1 DEF Travels
<1>4. \A x \in Requests : (Travels(Loop, x))' <=> Travels(Loop, x)
  BY <1>1 DEF Travels, Only
<1>5. \A x \in Requests : x # r /\ (OnItsWay(x))' => OnItsWay(x)
  BY <1>1, <1>3, <1>4 DEF OnItsWay, Queued
<1> QED
  BY <1>1, <1>2, <1>3, <1>4, <1>5 DEF reply

\* The connection's thread puts its request into the queue.
LEMMA PostWays ==
  ASSUME Serving, PostToLoop
  PROVE  \E r \in Requests :
           /\ Travels(Net, r) /\ UNCHANGED replyMeta
           /\ \A x \in Requests : ~(Travels(Net, x))'
           /\ \A x \in Requests : (Travels(Loop, x))' <=> Travels(Loop, x)
           /\ \A x \in Requests : (Queued(x))' <=> Queued(x) \/ x = r
           /\ \A i, j \in DOMAIN posted' : posted'[i].req = posted'[j].req => i = j
<1>0. TypeOK /\ OneWayIn
  BY ServingParts
<1>1. /\ Only(Net) /\ frame[Net].stage = "chain" /\ frame'[Net].stage = "tail" /\ UNCHANGED replyMeta
      /\ frame[Net].req \in Requests
  BY <1>0, PostFrame, FramesHave DEF PostToLoop, reply
<1>2. PICK r \in Requests : r = frame[Net].req
  BY <1>1
<1>3. Travels(Net, r) /\ ~Queued(r)
  BY <1>0, <1>1, <1>2 DEF Travels, OneWayIn
<1>4. PICK n \in Nat : /\ n \notin DOMAIN posted /\ DOMAIN posted' = DOMAIN posted \cup {n}
                       /\ \A i \in DOMAIN posted : posted'[i] = posted[i]
                       /\ posted'[n].req = r
  BY <1>0, <1>2, PostFacts
<1>5. \A x \in Requests : ~(Travels(Net, x))'
  BY <1>1 DEF Travels
<1>6. \A x \in Requests : (Travels(Loop, x))' <=> Travels(Loop, x)
  BY <1>1 DEF Travels, Only
<1>7. \A x \in Requests : (Queued(x))' <=> Queued(x) \/ x = r
  BY <1>4 DEF Queued
<1>8. \A i, j \in DOMAIN posted' : posted'[i].req = posted'[j].req => i = j
  BY <1>0, <1>3, <1>4 DEF Queued, OneWayIn
<1> QED
  BY <1>1, <1>3, <1>5, <1>6, <1>7, <1>8

\* The loop takes its request from the queue.
LEMMA RunWays ==
  ASSUME Serving, RunPosted
  PROVE  \E r \in Requests :
           /\ Queued(r) /\ UNCHANGED <<replyMeta, out>> /\ frame'[Net] = frame[Net]
           /\ ~(Queued(r))'
           /\ \A x \in Requests : (Queued(x))' => Queued(x)
           /\ \A x \in Requests : (Travels(Net, x))' <=> Travels(Net, x)
           /\ \A x \in Requests : (Travels(Loop, x))' <=> x = r
           /\ \A i, j \in DOMAIN posted' : posted'[i].req = posted'[j].req => i = j
<1>0. TypeOK /\ OneWayIn
  BY ServingParts
<1>1. /\ Only(Loop) /\ frame'[Loop].stage = "chain" /\ frame'[Loop].req = posted[1].req
      /\ 1 \in DOMAIN posted /\ posted[1].req \in Requests
      /\ \A i \in DOMAIN posted' : i \in Nat /\ i + 1 # 1 /\ i + 1 \in DOMAIN posted /\ posted'[i] = posted[i + 1]
      /\ UNCHANGED <<reply, out>>
  BY <1>0, RunFacts
<1>2. PICK r \in Requests : r = posted[1].req
  BY <1>1
<1>3. \A i, j \in DOMAIN posted : posted[i].req = posted[j].req => i = j
  BY <1>0 DEF OneWayIn
<1>4. Queued(r) /\ ~(Queued(r))'
  BY <1>1, <1>2, <1>3 DEF Queued
<1>5. \A x \in Requests : (Queued(x))' => Queued(x)
  BY <1>1 DEF Queued
<1>6. \A x \in Requests : (Travels(Net, x))' <=> Travels(Net, x)
  BY <1>1 DEF Travels, Only
<1>7. \A x \in Requests : (Travels(Loop, x))' <=> x = r
  BY <1>1, <1>2 DEF Travels
<1>8. \A i, j \in DOMAIN posted' : posted'[i].req = posted'[j].req => i = j
  <2> SUFFICES ASSUME NEW i \in DOMAIN posted', NEW j \in DOMAIN posted', posted'[i].req = posted'[j].req
               PROVE  i = j
    OBVIOUS
  <2>1. i \in Nat /\ j \in Nat /\ i + 1 = j + 1
    BY <1>1, <1>3
  <2> QED
    BY <2>1
<1> QED
  BY <1>1, <1>4, <1>5, <1>6, <1>7, <1>8 DEF Only, reply

\* The service's reply object takes over the request of thread t.
LEMMA CallWays ==
  ASSUME Serving, NEW t \in Workers, CallService(t)
  PROVE  \E r \in Requests :
           /\ Travels(t, r) /\ ~Queued(r) /\ UNCHANGED <<posted, out>> /\ replyMeta'[r] = r
           /\ frame'[t].stage = "service" /\ Only(t)
           /\ \A x \in Requests \ {r} : replyMeta'[x] = replyMeta[x]
           /\ \A u \in Workers, x \in Requests : (Travels(u, x))' <=> u # t /\ Travels(u, x)
           /\ ~(OnItsWay(r))'
<1>0. TypeOK /\ FrameMetas /\ OneWayIn
  BY ServingParts
<1>1. /\ Only(t) /\ frame[t].stage = "chain" /\ frame'[t].stage = "service" /\ frame[t].req \in Requests
      /\ frame[t].meta = frame[t].req /\ UNCHANGED <<posted, out>>
  BY <1>0, ServiceFrame, FramesHave DEF CallService, FrameMetas
<1>2. PICK r \in Requests : r = frame[t].req
  BY <1>1
<1>3. replyMeta' = [replyMeta EXCEPT ![r] = r] /\ replyMeta \in [Requests -> Metas \cup {None}]
  BY <1>0, <1>1, <1>2 DEF CallService, TypeOK
<1>4. Travels(t, r) /\ ~Queued(r)
  BY <1>0, <1>1, <1>2 DEF Travels, OneWayIn
<1>5. \A u \in Workers, x \in Requests : (Travels(u, x))' <=> u # t /\ Travels(u, x)
  BY <1>1 DEF Travels, Only
<1>6. \A u \in Workers : u # t => ~Travels(u, r)
  BY <1>0, <1>4 DEF OneWayIn
<1>7. ~(OnItsWay(r))'
  <2>1. ~(Queued(r))'
    BY <1>1, <1>4 DEF Queued
  <2>2. \A u \in Workers : ~(Travels(u, r))'
    BY <1>5, <1>6
  <2> QED
    BY <2>1, <2>2 DEF OnItsWay
<1> QED
  BY <1>1, <1>3, <1>4, <1>5, <1>7

LEMMA OneWayInStep == Serving /\ [Next]_vars => OneWayIn'
<1> SUFFICES ASSUME Serving, [Next]_vars PROVE OneWayIn'
  OBVIOUS
<1>0. OneWayIn
  BY ServingParts
<1>1. CASE Receive
  <2>1. PICK r \in Requests : 
           /\ ~OnItsWay(r) /\ replyMeta[r] = None /\ UNCHANGED <<posted, replyMeta>>
           /\ \A x \in Requests : (Travels(Net, x))' <=> x = r
           /\ \A x \in Requests : (Travels(Loop, x))' <=> Travels(Loop, x)
           /\ \A x \in Requests : x # r /\ (OnItsWay(x))' => OnItsWay(x)
    BY <1>1, ReceiveWays
  <2>2. \A x \in Requests : (Queued(x))' <=> Queued(x)
    BY <2>1 DEF Queued
  <2>3. ~Queued(r) /\ ~Travels(Loop, r)
    BY <2>1 DEF OnItsWay
  <2> QED
    BY <1>0, <2>1, <2>2, <2>3 DEF OneWayIn
<1>2. CASE PostToLoop
  <2>1. PICK r \in Requests : 
           /\ Travels(Net, r) /\ UNCHANGED replyMeta
           /\ \A x \in Requests : ~(Travels(Net, x))'
           /\ \A x \in Requests : (Travels(Loop, x))' <=> Travels(Loop, x)
           /\ \A x \in Requests : (Queued(x))' <=> Queued(x) \/ x = r
           /\ \A i, j \in DOMAIN posted' : posted'[i].req = posted'[j].req => i = j
    BY <1>2, PostWays
  <2>2. \A x \in Requests : (OnItsWay(x))' => OnItsWay(x)
    BY <2>1 DEF OnItsWay
  <2> QED
    BY <1>0, <2>1, <2>2 DEF OneWayIn
<1>3. CASE RunPosted
  <2>1. PICK r \in Requests : 
           /\ Queued(r) /\ UNCHANGED <<replyMeta, out>>
           /\ ~(Queued(r))'
           /\ \A x \in Requests : (Queued(x))' => Queued(x)
           /\ \A x \in Requests : (Travels(Net, x))' <=> Travels(Net, x)
           /\ \A x \in Requests : (Travels(Loop, x))' <=> x = r
           /\ \A i, j \in DOMAIN posted' : posted'[i].req = posted'[j].req => i = j
    BY <1>3, RunWays
  <2>2. \A x \in Requests : (OnItsWay(x))' => OnItsWay(x)
    BY <2>1 DEF OnItsWay
  <2> QED
    BY <1>0, <2>1, <2>2 DEF OneWayIn
<1>4. ASSUME NEW t \in Workers, CallService(t) PROVE OneWayIn'
  <2>1. PICK r \in Requests : 
           /\ Travels(t, r) /\ UNCHANGED posted
           /\ \A x \in Requests \ {r} : replyMeta'[x] = replyMeta[x]
           /\ \A u \in Workers, x \in Requests : (Travels(u, x))' <=> u # t /\ Travels(u, x)
           /\ ~(OnItsWay(r))'
    BY <1>4, CallWays
  <2>2. \A x \in Requests : (Queued(x))' <=> Queued(x)
    BY <2>1 DEF Queued
  <2>3. \A x \in Requests : (OnItsWay(x))' => OnItsWay(x)
    BY <2>1, <2>2 DEF OnItsWay
  <2> QED
    BY <1>0, <2>1, <2>2, <2>3 DEF OneWayIn
<1>5. CASE Keeps
  <2>1. UNCHANGED <<posted, replyMeta>>
    BY <1>5 DEF Keeps
  <2> QED
    BY <1>0, <1>5, <2>1, KeepsWays DEF OneWayIn
<1> QED
  BY <1>1, <1>2, <1>3, <1>4, <1>5, MostKeep

LEMMA RejectedStep == Serving /\ [Next]_vars => RejectedForGood'
<1> SUFFICES ASSUME Serving, [Next]_vars PROVE RejectedForGood'
  OBVIOUS
<1>0. TypeOK /\ FrameMetas /\ OtherMetas /\ OnlyArrived /\ OneWayIn /\ RejectedForGood /\ OneAnswer
  BY ServingParts
\* It suffices that nobody newly rejects a request that is not kept back.
<1>a. ASSUME Keeps,
             \A r \in Requests : (KeptBack(r))' => KeptBack(r) \/ (replyMeta[r] = None /\ ~(OnItsWay(r))'),
             \A r \in Requests : Response(r, r, TRUE) \in out' =>
                                   KeptBack(r) \/ Response(r, r, TRUE) \in out
                                     \/ (replyMeta[r] = None /\ ~(OnItsWay(r))')
      PROVE  RejectedForGood'
  <2>1. UNCHANGED replyMeta
    BY <1>a DEF Keeps
  <2> QED
    BY <1>0, <1>a, <2>1, KeepsWays DEF RejectedForGood, Response
<1>b. ASSUME Keeps, NEW r \in Requests, Travels(Net, r), ~(Travels(Net, r))'
      PROVE  replyMeta[r] = None /\ ~(OnItsWay(r))'
  <2>1. OnItsWay(r) /\ replyMeta[r] = None /\ ~Queued(r) /\ ~Travels(Loop, r)
    BY <1>0, <1>b DEF OnItsWay, OneWayIn
  <2>2. ~(Queued(r))' /\ ~(Travels(Loop, r))'
    BY <1>b, <2>1, KeepsWays
  <2> QED
    BY <1>b, <2>1, <2>2 DEF OnItsWay
<1>1. CASE Receive
  <2>1. PICK r \in Requests :
           /\ r \notin arrived /\ UNCHANGED <<posted, replyMeta>>
           /\ \A x \in Requests : x # r /\ (OnItsWay(x))' => OnItsWay(x)
    BY <1>1, ReceiveWays
  <2>2. Response(r, r, TRUE) \notin out
    BY <1>0, <2>1 DEF OnlyArrived, Response
  <2>3. \A x \in Requests : ~(KeptBack(x))'
    BY <1>0, <1>1, ReceiveFacts DEF KeptBack
  <2>4. UNCHANGED out
    BY <1>1 DEF Receive
  <2> QED
    BY <1>0, <2>1, <2>2, <2>3, <2>4 DEF RejectedForGood, Response
<1>2. CASE PostToLoop
  <2>1. PICK r \in Requests :
           /\ Travels(Net, r) /\ UNCHANGED replyMeta
           /\ \A x \in Requests : ~(Travels(Net, x))'
           /\ \A x \in Requests : (Travels(Loop, x))' <=> Travels(Loop, x)
           /\ \A x \in Requests : (Queued(x))' <=> Queued(x) \/ x = r
    BY <1>2, PostWays
  <2>2. \A x \in Requests : (OnItsWay(x))' => OnItsWay(x)
    BY <2>1 DEF OnItsWay
  <2>3. \A x \in Requests : ~(KeptBack(x))'
    BY <1>0, <1>2, PostFrame DEF KeptBack
  <2>4. UNCHANGED out
    BY <1>2 DEF PostToLoop
  <2> QED
    BY <1>0, <2>1, <2>2, <2>3, <2>4 DEF RejectedForGood, Response
<1>3. CASE RunPosted
  <2>1. PICK r \in Requests :
           /\ Queued(r) /\ UNCHANGED <<replyMeta, out>> /\ frame'[Net] = frame[Net]
           /\ \A x \in Requests : (Queued(x))' => Queued(x)
           /\ \A x \in Requests : (Travels(Net, x))' <=> Travels(Net, x)
           /\ \A x \in Requests : (Travels(Loop, x))' <=> x = r
    BY <1>3, RunWays
  <2>2. \A x \in Requests : (OnItsWay(x))' => OnItsWay(x)
    BY <2>1 DEF OnItsWay
  <2>3. \A x \in Requests : (KeptBack(x))' => KeptBack(x)
    BY <2>1 DEF KeptBack
  <2> QED
    BY <1>0, <2>1, <2>2, <2>3 DEF RejectedForGood, Response
<1>4. ASSUME NEW t \in Workers, CallService(t) PROVE RejectedForGood'
  <2>1. PICK r \in Requests :
           /\ Travels(t, r) /\ UNCHANGED <<posted, out>>
           /\ frame'[t].stage = "service" /\ Only(t)
           /\ \A x \in Requests \ {r} : replyMeta'[x] = replyMeta[x]
           /\ \A u \in Workers, x \in Requests : (Travels(u, x))' <=> u # t /\ Travels(u, x)
    BY <1>4, CallWays
  <2>2. \A x \in Requests : (OnItsWay(x))' => OnItsWay(x)
    BY <2>1 DEF OnItsWay, Queued
  <2>3. \A x \in Requests : (KeptBack(x))' => KeptBack(x)
    BY <2>1 DEF KeptBack, Only
  <2>4. ~KeptBack(r) /\ Response(r, r, TRUE) \notin out
    BY <1>0, <2>1 DEF RejectedForGood, OnItsWay
  <2> QED
    BY <1>0, <2>1, <2>2, <2>3, <2>4 DEF RejectedForGood, Response
<1>5. CASE UnknownMethod
  <2>1. /\ frame[Net].stage = "stub" /\ frame[Net].req \in Requests /\ frame'[Net].stage = "idle"
        /\ Keeps
    BY <1>0, <1>5, LetGo DEF UnknownMethod, Busy, Keeps, Only, reply
  <2>2. \A m \in out' : m \in out \/ m = Response(frame[Net].req, frame[Net].req, TRUE)
    BY <1>0, <1>5, <2>1 DEF UnknownMethod, ReplyError, FrameMetas
  <2>3. \A r \in Requests : ~(KeptBack(r))'
    BY <2>1 DEF KeptBack
  <2>5. \A r \in Requests : r = frame[Net].req => replyMeta[r] = None /\ ~(OnItsWay(r))'
    <3> SUFFICES ASSUME NEW r \in Requests, r = frame[Net].req
                 PROVE  replyMeta[r] = None /\ ~(OnItsWay(r))'
      OBVIOUS
    <3>1. Travels(Net, r) /\ ~(Travels(Net, r))'
      BY <2>1 DEF Travels
    <3> QED
      BY <1>b, <2>1, <3>1
  <2>6. \A r \in Requests : Response(r, r, TRUE) = Response(frame[Net].req, frame[Net].req, TRUE) => r = frame[Net].req
    BY DEF Response
  <2> QED
    BY <1>a, <2>1, <2>2, <2>3, <2>5, <2>6
<1>6. CASE StubTail
  <2>1. frame[Net].stage = "tail" /\ frame'[Net].stage = "idle" /\ Keeps
    BY <1>0, <1>6, LetGo DEF StubTail, Busy, Keeps, Only, reply
  <2>2. \A r \in Requests : Response(r, r, TRUE) \in out' => KeptBack(r) \/ Response(r, r, TRUE) \in out
    <3>1. \A m \in out' : m \in out \/ m = Response(frame[Net].meta, frame[Net].req, TRUE)
      BY <1>6 DEF StubTail, ReplyError
    <3> QED
      BY <2>1, <3>1 DEF KeptBack, Response
  <2>3. \A r \in Requests : ~(KeptBack(r))'
    BY <2>1 DEF KeptBack
  <2> QED
    BY <1>a, <2>1, <2>2, <2>3
<1>7. CASE FulfilPromise
  <2>1. frame'[Net] = frame[Net] /\ frame[Loop].req \in Requests /\ Keeps
    BY <1>0, <1>7, LetGo DEF Keeps, Only, reply
  <2>2. \A r \in Requests : Response(r, r, TRUE) \in out' => Response(r, r, TRUE) \in out
    <3>1. PICK q \in Requests : q = frame[Loop].req
      BY <2>1
    <3>2. out' = out \/ (waiting[q] # None /\ ReplyError(waiting[q], q))
      BY <1>7, <3>1 DEF FulfilPromise
    <3>3. \A m \in out' : m \in out \/ m.to = Blank
      <4>1. waiting[q] # None => waiting[q] = Blank
        BY <1>0 DEF OtherMetas
      <4> QED
        BY <3>2, <4>1 DEF ReplyError, Response
    <3> QED
      BY <3>3 DEF Response
  <2>3. \A r \in Requests : (KeptBack(r))' => KeptBack(r)
    BY <2>1 DEF KeptBack
  <2> QED
    BY <1>a, <2>1, <2>2, <2>3
<1>8. ASSUME NEW t \in Workers, PassOn(t) \/ (t = Net /\ EnterChain) PROVE RejectedForGood'
  <2>1. Keeps /\ UNCHANGED out
    BY <1>0, <1>8, ChainFrame DEF PassOn, EnterChain, Keeps, Only, reply
  <2>2. \A r \in Requests : (KeptBack(r))' => KeptBack(r)
    BY <1>0, <1>8, ChainFrame DEF KeptBack, Only
  <2> QED
    BY <1>a, <2>1, <2>2
<1>9. ASSUME NEW t \in Workers, GoesBack(t) PROVE RejectedForGood'
  <2>1. Keeps /\ UNCHANGED out
    BY <1>9 DEF GoesBack, Keeps, Only, reply
  <2>2. ASSUME NEW r \in Requests, (KeptBack(r))', ~KeptBack(r)
        PROVE  replyMeta[r] = None /\ ~(OnItsWay(r))'
    <3>1. frame'[Net].stage = "tail" /\ frame'[Net].req = r /\ frame'[Net].meta = r
      BY <2>2 DEF KeptBack
    <3>2. t = Net /\ frame[Net].req = r /\ frame[Net].meta = r /\ frame[Net].stage \in {"stub", "chain", "service"}
      BY <1>9, <2>2, <3>1 DEF GoesBack, KeptBack, Only
    <3>3. frame[Net].stage \in {"stub", "chain"}
      BY <1>0, <3>2 DEF FrameMetas
    <3>4. Travels(Net, r) /\ ~(Travels(Net, r))'
      BY <3>1, <3>2, <3>3 DEF Travels
    <3> QED
      BY <1>b, <2>1, <3>4
  <2> QED
    BY <1>a, <2>1, <2>2
<1>10. ASSUME NEW u \in Workers \cup Apps, Loses(u) PROVE RejectedForGood'
  <2>1. Keeps /\ UNCHANGED out
    BY <1>10 DEF Loses, Keeps, Only
  <2>2. ASSUME NEW r \in Requests, (KeptBack(r))' PROVE KeptBack(r)
    <3>1. CASE frame'[Net] = frame[Net]
      BY <2>2, <3>1 DEF KeptBack
    <3>2. CASE frame'[Net] # frame[Net]
      <4>1. u = Net /\ frame'[Net].req = frame[Net].req /\ frame'[Net].meta = frame[Net].meta
        BY <1>10, <2>2, <3>2 DEF Loses, KeptBack, Only
      <4>2. frame[Net].stage = "service"
        BY <1>0, <1>10, <4>1 DEF Loses, OneAnswer
      <4>3. frame[Net].meta = Blank
        BY <1>0, <4>2 DEF FrameMetas
      <4> QED
        BY <2>2, <4>1, <4>3 DEF KeptBack
    <3> QED
      BY <3>1, <3>2
  <2> QED
    BY <1>a, <2>1, <2>2
<1>11. ASSUME NEW u \in Workers \cup Apps, Takes(u) \/ SendReply(u) PROVE RejectedForGood'
  <2>1. Keeps /\ UNCHANGED frame
    BY <1>11 DEF Takes, TakeFlag, SendReply, Keeps, route
  <2>2. \A r \in Requests : Response(r, r, TRUE) \in out' => Response(r, r, TRUE) \in out
    BY <1>11 DEF Takes, TakeFlag, SendReply, Response
  <2> QED
    BY <1>a, <2>1, <2>2 DEF KeptBack
<1>12. CASE Quiet
  <2>1. Keeps /\ UNCHANGED <<frame, out>>
    BY <1>12 DEF Quiet, Keeps, route, reply
  <2> QED
    BY <1>a, <2>1 DEF KeptBack
<1> QED
  BY <1>1, <1>2, <1>3, <1>4, <1>5, <1>6, <1>7, <1>8, <1>9, <1>10, <1>11, <1>12,
     ServingParts, Steps DEF Rest

-----------------------------------------------------------------------------
(* The flag and the answer                                                 *)

\* Most steps leave the right to answer alone, and the frame of a thread that has it.
LEMMA MostLeaveReplies ==
  ASSUME Serving, [Next]_vars
  PROVE  \/ \E u \in Workers \cup Apps : Takes(u) \/ SendReply(u) \/ Loses(u)
         \/ /\ UNCHANGED <<flag, sending, answered>>
            /\ \A r \in Requests : replyMeta'[r] \in {replyMeta[r], r}
            /\ \A t \in Workers : sending[t] # None => frame'[t] = frame[t]
            /\ out \subseteq out' /\ lost \subseteq lost'
<1>0. TypeOK /\ OneAnswer /\ FrameMetas
  BY ServingParts
<1>a. \A t \in Workers : sending[t] # None => frame[t].stage = "service"
  BY <1>0 DEF OneAnswer
<1> USE DEF Only, reply
<1>1. CASE Receive
  BY <1>0, <1>1, <1>a, ReceiveFacts
<1>2. ASSUME NEW t \in Workers,
             (t = Net /\ (UnknownMethod \/ StubTail)) \/ (t = Loop /\ FulfilPromise)
      PROVE  /\ UNCHANGED <<flag, sending, answered, replyMeta>>
             /\ \A u \in Workers : sending[u] # None => frame'[u] = frame[u]
             /\ out \subseteq out' /\ lost \subseteq lost'
  <2>1. out \subseteq out' /\ lost \subseteq lost'
    BY <1>2 DEF UnknownMethod, StubTail, FulfilPromise, ReplyError
  <2> QED
    BY <1>0, <1>2, <1>a, <2>1, LetGo
<1>3. ASSUME NEW t \in Workers, PassOn(t) \/ (t = Net /\ EnterChain)
      PROVE  /\ UNCHANGED <<flag, sending, answered, replyMeta, out, lost>>
             /\ \A u \in Workers : sending[u] # None => frame'[u] = frame[u]
  BY <1>0, <1>3, <1>a, ChainFrame DEF PassOn, EnterChain
<1>4. CASE PostToLoop
  BY <1>0, <1>4, <1>a, PostFrame DEF PostToLoop
<1>5. CASE RunPosted
  BY <1>0, <1>5, <1>a, RunFacts
<1>6. ASSUME NEW t \in Workers, CallService(t)
      PROVE  /\ UNCHANGED <<flag, sending, answered, out, lost>>
             /\ \A u \in Workers : sending[u] # None => frame'[u] = frame[u]
             /\ \A r \in Requests : replyMeta'[r] \in {replyMeta[r], r}
  <2>1. frame[t].meta = frame[t].req /\ frame[t].req \in Requests
    BY <1>0, <1>6, ServiceFrame, FramesHave DEF FrameMetas
  <2>2. \A r \in Requests : replyMeta'[r] \in {replyMeta[r], r}
    BY <1>0, <1>6, <2>1 DEF CallService, TypeOK
  <2> QED
    BY <1>0, <1>6, <1>a, <2>2, ServiceFrame DEF CallService
<1>7. ASSUME NEW t \in Workers, GoesBack(t)
      PROVE  /\ UNCHANGED <<flag, sending, answered, replyMeta, out, lost>>
             /\ \A u \in Workers : sending[u] # None => frame'[u] = frame[u]
  BY <1>7 DEF GoesBack
<1>8. CASE Quiet
  BY <1>8 DEF Quiet, route
<1> QED
  BY <1>1, <1>2, <1>3, <1>4, <1>5, <1>6, <1>7, <1>8, ServingParts, Steps DEF Rest

\* The flag is taken once, and only for a request whose meta the reply object has.
LEMMA TakeFacts ==
  ASSUME Serving, NEW u \in Workers \cup Apps, Takes(u)
  PROVE  \E r \in Requests :
           /\ r \notin flag /\ replyMeta[r] = r /\ answered[r] = 0 /\ flag' = flag \cup {r}
           /\ \A v \in Workers \cup Apps : sending[v] # r
           /\ sending[u] = None
           /\ IF r \in OneWay THEN UNCHANGED sending ELSE sending' = [sending EXCEPT ![u] = r]
           /\ u \in Workers => frame[u].stage = "service" /\ frame[u].req = r
           /\ UNCHANGED <<route, replyMeta, answered, out, lost>>
<1>0. TypeOK /\ OneAnswer /\ OtherMetas
  BY ServingParts
<1>1. PICK r \in Requests :
         /\ replyMeta[r] # None /\ TakeFlag(u, r)
         /\ u \in Workers => frame[u].stage = "service" /\ frame[u].req = r
  BY DEF Takes
<1>2. r \notin flag /\ flag' = flag \cup {r} /\ replyMeta[r] = r
  BY <1>0, <1>1 DEF TakeFlag, OtherMetas
<1>3. answered[r] = 0
  BY <1>0, <1>2 DEF OneAnswer, TypeOK
<1>4. ASSUME NEW v \in Workers \cup Apps PROVE sending[v] # r
  <2>1. sending[v] # None => sending[v] \in flag
    BY <1>0 DEF OneAnswer
  <2>2. r # None
    BY <1>1
  <2> QED
    BY <1>2, <2>1, <2>2
<1>5. IF r \in OneWay THEN UNCHANGED sending ELSE sending' = [sending EXCEPT ![u] = r]
  BY <1>1, <1>2 DEF TakeFlag, Expects
<1> QED
  BY <1>1, <1>2, <1>3, <1>4, <1>5 DEF TakeFlag, Takes

LEMMA AnswerStep == Serving /\ [Next]_vars => OneAnswer'
<1> SUFFICES ASSUME Serving, [Next]_vars PROVE OneAnswer'
  OBVIOUS
<1>0. /\ TypeOK /\ OneAnswer
      /\ sending \in [Workers \cup Apps -> Requests \cup {None}]
      /\ answered \in [Requests -> Nat] /\ None \notin Requests
  BY ServingParts DEF TypeOK
<1>1. ASSUME NEW u \in Workers \cup Apps, Takes(u) PROVE OneAnswer'
  <2>1. PICK r \in Requests :
           /\ r \notin flag /\ replyMeta[r] = r /\ answered[r] = 0 /\ flag' = flag \cup {r}
           /\ \A v \in Workers \cup Apps : sending[v] # r
           /\ IF r \in OneWay THEN UNCHANGED sending ELSE sending' = [sending EXCEPT ![u] = r]
           /\ u \in Workers => frame[u].stage = "service" /\ frame[u].req = r
           /\ UNCHANGED <<route, replyMeta, answered, out, lost>>
    BY <1>1, TakeFacts
  <2>2. \A v \in Workers \cup Apps : sending'[v] = sending[v] \/ (v = u /\ sending'[v] = r /\ r \notin OneWay)
    BY <1>0, <2>1
  <2> QED
    BY <1>0, <2>1, <2>2 DEF OneAnswer, route
<1>2. ASSUME NEW u \in Workers \cup Apps, SendReply(u) PROVE OneAnswer'
  <2>1. PICK r \in Requests : r = sending[u]
    BY <1>0, <1>2 DEF SendReply
  <2>2. /\ r \in flag \ OneWay /\ answered[r] = 0
        /\ \A v \in Workers \cup Apps : sending[v] = r => v = u
    BY <1>0, <2>1 DEF OneAnswer
  <2>3. answered' = [answered EXCEPT ![r] = answered[r] + 1] /\ sending' = [sending EXCEPT ![u] = None]
    BY <1>2, <2>1 DEF SendReply
  <2>4. \A q \in Requests : answered'[q] = IF q = r THEN 1 ELSE answered[q]
    BY <1>0, <2>2, <2>3
  <2>5. \A v \in Workers \cup Apps : sending'[v] = IF v = u THEN None ELSE sending[v]
    BY <1>0, <2>3
  <2>6. UNCHANGED <<frame, flag, replyMeta>>
    BY <1>2 DEF SendReply, route
  <2> QED
    BY <1>0, <2>1, <2>2, <2>4, <2>5, <2>6 DEF OneAnswer
<1>3. ASSUME NEW u \in Workers \cup Apps, Loses(u) PROVE OneAnswer'
  <2>1. \A v \in Workers \cup Apps : sending'[v] = IF v = u THEN None ELSE sending[v]
    BY <1>0, <1>3 DEF Loses
  <2>2. \A t \in Workers : t # u => frame'[t] = frame[t]
    BY <1>3 DEF Loses, Only
  <2>3. UNCHANGED <<flag, replyMeta, answered>>
    BY <1>3 DEF Loses
  <2>4. \A t \in Workers : sending'[t] # None => frame'[t].stage = "service" /\ frame'[t].req = sending'[t]
    BY <1>0, <2>1, <2>2 DEF OneAnswer
  <2>5. \A v \in Workers \cup Apps : sending'[v] # None =>
          /\ sending'[v] \in flag \ OneWay /\ answered[sending'[v]] = 0
          /\ replyMeta[sending'[v]] = sending'[v]
          /\ \A w \in Workers \cup Apps : sending'[w] = sending'[v] => w = v
    BY <1>0, <2>1 DEF OneAnswer
  <2> QED
    BY <1>0, <2>3, <2>4, <2>5 DEF OneAnswer
<1>4. CASE /\ UNCHANGED <<flag, sending, answered>>
           /\ \A t \in Workers : sending[t] # None => frame'[t] = frame[t]
           /\ \A r \in Requests : replyMeta'[r] \in {replyMeta[r], r}
  BY <1>0, <1>4 DEF OneAnswer
<1> QED
  BY <1>1, <1>2, <1>3, <1>4, MostLeaveReplies

LEMMA FlagStep == Serving /\ [Next]_vars => FlagAccountedFor'
<1> SUFFICES ASSUME Serving, [Next]_vars PROVE FlagAccountedFor'
  OBVIOUS
<1>0. /\ TypeOK /\ OneAnswer /\ FlagAccountedFor
      /\ sending \in [Workers \cup Apps -> Requests \cup {None}] /\ flag \subseteq Requests
      /\ sending' \in [Workers \cup Apps -> Requests \cup {None}] /\ None \notin Requests
  BY ServingParts, TypeStep DEF TypeOK
<1>a. DOMAIN sending = Workers \cup Apps /\ DOMAIN sending' = Workers \cup Apps
  BY <1>0
<1> USE DEF FlagAccountedFor, Response
<1>1. ASSUME NEW u \in Workers \cup Apps, Takes(u) PROVE FlagAccountedFor'
  <2>1. PICK r \in Requests :
           /\ r \notin flag /\ flag' = flag \cup {r} /\ sending[u] = None
           /\ IF r \in OneWay THEN UNCHANGED sending ELSE sending' = [sending EXCEPT ![u] = r]
           /\ UNCHANGED <<out, lost>>
    BY <1>1, TakeFacts
  <2>2. \A v \in Workers \cup Apps : sending[v] # None => sending'[v] = sending[v]
    BY <1>0, <2>1
  <2>3. r \notin OneWay => sending'[u] = r
    BY <1>0, <2>1
  <2>4. ASSUME NEW q \in flag' \ OneWay
        PROVE  Response(q, q, FALSE) \in out' \cup lost' \/ \E v \in DOMAIN sending' : sending'[v] = q
    <3>1. CASE q = r
      BY <1>a, <2>3, <2>4, <3>1
    <3>2. CASE q # r
      <4>1. q \in flag \ OneWay /\ q # None
        BY <1>0, <2>1, <2>4, <3>2
      <4>2. Response(q, q, FALSE) \in out \cup lost \/ \E v \in Workers \cup Apps : sending[v] = q
        BY <1>0, <1>a, <4>1
      <4> QED
        BY <1>a, <2>1, <2>2, <4>1, <4>2
    <3> QED
      BY <3>1, <3>2
  <2> QED
    BY <2>4
<1>2. ASSUME NEW u \in Workers \cup Apps, SendReply(u) PROVE FlagAccountedFor'
  <2>1. PICK r \in Requests : r = sending[u]
    BY <1>0, <1>2 DEF SendReply
  <2>2. out' = out \cup {Response(r, r, FALSE)} /\ UNCHANGED <<flag, lost>> /\ sending' = [sending EXCEPT ![u] = None]
    BY <1>0, <1>2, <2>1 DEF SendReply, OneAnswer
  <2>3. \A v \in Workers \cup Apps : v # u => sending'[v] = sending[v]
    BY <1>0, <2>2
  <2> QED
    BY <1>0, <1>a, <2>1, <2>2, <2>3
<1>3. ASSUME NEW u \in Workers \cup Apps, Loses(u) PROVE FlagAccountedFor'
  <2>a. sending[u] # None
    BY <1>3 DEF Loses
  <2>1. PICK r \in Requests : r = sending[u]
    BY <1>0, <2>a
  <2>2. lost' = lost \cup {Response(r, r, FALSE)} /\ UNCHANGED <<flag, out>> /\ sending' = [sending EXCEPT ![u] = None]
    BY <1>0, <1>3, <2>1 DEF Loses, OneAnswer
  <2>3. \A v \in Workers \cup Apps : v # u => sending'[v] = sending[v]
    BY <1>0, <2>2
  <2> QED
    BY <1>0, <1>a, <2>1, <2>2, <2>3
<1>4. CASE UNCHANGED <<flag, sending>> /\ out \subseteq out' /\ lost \subseteq lost'
  BY <1>0, <1>4
<1> QED
  BY <1>1, <1>2, <1>3, <1>4, MostLeaveReplies

LEMMA RejectionStep == Serving /\ [Next]_vars => RejectionNamesRequest'
<1> SUFFICES ASSUME Serving, [Next]_vars PROVE RejectionNamesRequest'
  OBVIOUS
<1>0. /\ TypeOK /\ OutcomesFit /\ FrameMetas /\ TailMetas /\ OtherMetas /\ OneAnswer
      /\ promise \in [Requests -> {"none", "ok", "err", "broken"}] /\ None \notin Requests
      /\ out \subseteq [to : Metas, about : Requests, failed : BOOLEAN] /\ RejectionNamesRequest
  BY ServingParts DEF TypeOK
<1>a. \A m \in out : m.about \in Requests
  BY <1>0
\* It suffices that no reply object and no end of a promise is undone, and that
\* what is sent is no error, or names its request, or comes after one of them.
<1>b. ASSUME \A r \in Requests : replyMeta[r] # None => replyMeta'[r] # None,
             \A r \in Requests : promise[r] # "none" => promise'[r] # "none",
             \A m \in out' : m \in out \/ ~m.failed \/ m.to = m.about
                               \/ replyMeta'[m.about] # None \/ promise'[m.about] # "none"
      PROVE  RejectionNamesRequest'
  BY <1>0, <1>a, <1>b DEF RejectionNamesRequest
<1> USE DEF reply
<1>1. CASE Receive \/ EnterChain \/ PostToLoop
  BY <1>1, <1>b DEF Receive, EnterChain, PostToLoop
<1>2. CASE UnknownMethod
  <2>1. frame[Net].meta = frame[Net].req
    BY <1>0, <1>2 DEF UnknownMethod, Busy, FrameMetas
  <2>2. \A m \in out' : m \in out \/ m.to = m.about
    BY <1>2, <2>1 DEF UnknownMethod, ReplyError, Response
  <2> QED
    BY <1>2, <1>b, <2>2 DEF UnknownMethod
<1>3. CASE StubTail
  <2>1. frame[Net].stage = "tail" /\ UNCHANGED <<promise, replyMeta>>
    BY <1>3 DEF StubTail, Busy
  <2>2. PICK r \in Requests : r = frame[Net].req
    BY <1>0, <2>1, FramesHave
  <2>3. frame[Net].meta \in {r, Blank} /\ frame[Net].outcome \in {"ok", "err", "pending"}
    BY <1>0, <2>1, <2>2 DEF FrameMetas, OutcomesFit
  <2>4. \A m \in out' : m \in out \/
          (m = Response(frame[Net].meta, r, TRUE) /\ (frame[Net].outcome = "pending" => promise[r] # "none"))
    BY <1>3, <2>2 DEF StubTail, ReplyError
  <2>5. frame[Net].meta = Blank /\ frame[Net].outcome # "pending" => replyMeta[r] # None
    BY <1>0, <2>1, <2>2 DEF TailMetas
  <2>6. \A m \in out' : m \in out \/ m.to = m.about \/ replyMeta[m.about] # None \/ promise[m.about] # "none"
    BY <2>3, <2>4, <2>5 DEF Response
  <2> QED
    BY <1>b, <2>1, <2>6
<1>4. CASE FulfilPromise
  <2>1. PICK r \in Requests : r = frame[Loop].req
    BY <1>0, <1>4, LetGo
  <2>2. PICK o \in {"ok", "err"} : promise' = [promise EXCEPT ![r] = o] /\ UNCHANGED replyMeta
    BY <1>0, <1>4, <2>1 DEF FulfilPromise, Busy, OutcomesFit
  <2>3. promise'[r] # "none" /\ \A q \in Requests : promise[q] # "none" => promise'[q] # "none"
    BY <1>0, <2>2
  <2>4. \A m \in out' : m \in out \/ m.about = r
    BY <1>4, <2>1 DEF FulfilPromise, ReplyError, Response
  <2> QED
    BY <1>b, <2>2, <2>3, <2>4
<1>5. CASE RunPosted
  BY <1>5, <1>b DEF RunPosted
<1>6. ASSUME NEW t \in Workers, PassOn(t) PROVE RejectionNamesRequest'
  BY <1>6, <1>b DEF PassOn
<1>7. ASSUME NEW t \in Workers, CallService(t) PROVE RejectionNamesRequest'
  <2>1. frame[t].req \in Requests /\ frame[t].meta = frame[t].req
    BY <1>0, <1>7, ServiceFrame, FramesHave DEF FrameMetas
  <2>2. \A r \in Requests : replyMeta[r] # None => replyMeta'[r] # None
    BY <1>0, <1>7, <2>1 DEF CallService, TypeOK
  <2> QED
    BY <1>7, <1>b, <2>2 DEF CallService
<1>8. ASSUME NEW t \in Workers, GoesBack(t) PROVE RejectionNamesRequest'
  <2>1. frame[t].req \in Requests
    BY <1>0, <1>8, FramesHave DEF GoesBack
  <2>2. \A r \in Requests : promise[r] # "none" => promise'[r] # "none"
    BY <1>0, <1>8, <2>1 DEF GoesBack, Breaks
  <2> QED
    BY <1>8, <1>b, <2>2 DEF GoesBack
<1>9. ASSUME NEW u \in Workers \cup Apps, Takes(u) PROVE RejectionNamesRequest'
  BY <1>9, <1>b DEF Takes, TakeFlag, route
<1>10. ASSUME NEW u \in Workers \cup Apps, SendReply(u) PROVE RejectionNamesRequest'
  <2>1. \A m \in out' : m \in out \/ ~m.failed
    BY <1>10 DEF SendReply, Response
  <2>2. UNCHANGED <<replyMeta, promise>>
    BY <1>10 DEF SendReply, route
  <2> QED
    BY <1>b, <2>1, <2>2
<1>11. ASSUME NEW u \in Workers \cup Apps, Loses(u) PROVE RejectionNamesRequest'
  <2>1. \A r \in Requests : promise[r] # "none" => promise'[r] # "none"
    <3>1. CASE UNCHANGED promise
      BY <3>1
    <3>2. CASE ~UNCHANGED promise
      <4>1. u \in Workers /\ promise' = [promise EXCEPT ![frame[u].req] = "broken"]
        BY <1>11, <3>2 DEF Loses, Breaks
      <4> QED
        BY <1>0, <4>1
    <3> QED
      BY <3>1, <3>2
  <2> QED
    BY <1>11, <1>b, <2>1 DEF Loses
<1>12. CASE Quiet
  BY <1>12, <1>b DEF Quiet, route
<1> QED
  BY <1>1, <1>2, <1>3, <1>4, <1>5, <1>6, <1>7, <1>8, <1>9, <1>10, <1>11, <1>12,
     ServingParts, Steps DEF Rest

-----------------------------------------------------------------------------
(* The theorems                                                            *)

LEMMA ServingInit == Init => Serving
<1> SUFFICES ASSUME Init PROVE Serving
  OBVIOUS
<1>1. /\ arrived = {} /\ posted = <<>> /\ flag = {} /\ out = {} /\ lost = {} /\ installed = TRUE
      /\ frame = [t \in Workers |-> Idle] /\ promise = [r \in Requests |-> "none"]
      /\ waiting = [r \in Requests |-> None] /\ replyMeta = [r \in Requests |-> None]
      /\ sending = [u \in Workers \cup Apps |-> None] /\ answered = [r \in Requests |-> 0]
  BY DEF Init
<1>2. TypeOK
  BY <1>1 DEF TypeOK
<1>3. DOMAIN posted = {} /\ \A t \in Workers : frame[t].stage = "idle"
  BY <1>1 DEF Idle
<1>4. \A r \in Requests : ~OnItsWay(r)
  BY <1>3 DEF OnItsWay, Queued, Travels
<1>5. OutcomesFit /\ MetasAreOwn /\ OnlyArrived
  BY <1>1, <1>3 DEF OutcomesFit, MetasAreOwn, FrameMetas, TailMetas, OtherMetas, OnlyArrived
<1>6. OneWayIn /\ RejectedForGood
  BY <1>1, <1>3, <1>4 DEF OneWayIn, RejectedForGood, KeptBack, OnItsWay
<1>7. OneAnswer /\ FlagAccountedFor /\ RejectionNamesRequest
  BY <1>1, <1>3 DEF OneAnswer, FlagAccountedFor, RejectionNamesRequest
<1> QED
  BY <1>2, <1>5, <1>6, <1>7 DEF Serving

\* The inductive invariant: where the meta of each request is, and who may answer it.
THEOREM ServingHolds == Spec => []Serving
<1>1. Serving /\ [Next]_vars => Serving'
  BY TypeStep, OutcomesStep, FrameMetasStep, TailMetasStep, OtherMetasStep, ArrivedStep,
     OneWayInStep, RejectedStep, AnswerStep, FlagStep, RejectionStep DEF Serving, MetasAreOwn
<1> QED
  BY <1>1, ServingInit, PTL DEF Spec

\* The service half of a connection is well typed: the stub never moves on in a chain
\* further than to the service, and no meta is anybody's but a request's or empty.
THEOREM TypeCorrect == Spec => []TypeOK
<1>1. Serving => TypeOK
  BY DEF Serving
<1> QED
  BY <1>1, ServingHolds, PTL

\* However many threads answer a request, one response leaves through its reply
\* object at most, and none for a one-way request (BaseReply's mReplyFlag).
THEOREM OneReply == Spec => []AnsweredAtMostOnce
<1>1. Serving => AnsweredAtMostOnce
  BY DEF Serving, OneAnswer, TypeOK, AnsweredAtMostOnce
<1> QED
  BY <1>1, ServingHolds, PTL

\* A two-way request whose flag is set is about to be answered, was answered under
\* its own number, or an outbound interceptor threw that answer away: its meta comes through
\* the interceptors and the loop.
THEOREM FlagMeansAnswer == Spec => []FlagAccountedFor
<1>1. Serving => FlagAccountedFor
  BY DEF Serving
<1> QED
  BY <1>1, ServingHolds, PTL

\* A request that neither a loop nor the service has had is rejected under its own
\* number, by the stub or by an interceptor on the connection's thread.
THEOREM RejectionsNamed == Spec => []RejectionNamesRequest
<1>1. Serving => RejectionNamesRequest
  BY DEF Serving
<1> QED
  BY <1>1, ServingHolds, PTL

\* A request's number is on one response at most: on the reply's, or on the stub's
\* error when the request was kept from the service.
THEOREM OneBearsTheNumber == Spec => []OneResponseBearsTheNumber
<1>1. ASSUME Serving PROVE OneResponseBearsTheNumber
  <2> SUFFICES ASSUME NEW r \in Requests
               PROVE  answered[r] + Cardinality({m \in out : m.failed /\ m.to = r}) <= 1
    BY DEF OneResponseBearsTheNumber
  <2>1. /\ OtherMetas /\ RejectedForGood /\ OneAnswer /\ answered \in [Requests -> Nat]
        /\ out \subseteq [to : Metas, about : Requests, failed : BOOLEAN]
    BY <1>1, ServingParts DEF TypeOK
  <2>2. answered[r] \in {0, 1}
    BY <2>1 DEF OneAnswer
  <2>3. \A m \in out : m.failed /\ m.to = r => m = Response(r, r, TRUE)
    BY <2>1 DEF OtherMetas, Response
  <2>4. CASE Response(r, r, TRUE) \in out
    <3>1. PICK x : x = Response(r, r, TRUE)
      OBVIOUS
    <3>2. x \in out /\ x.failed /\ x.to = r
      BY <2>4, <3>1 DEF Response
    <3>3. {m \in out : m.failed /\ m.to = r} = {x}
      BY <2>3, <3>1, <3>2
    <3>4. Cardinality({m \in out : m.failed /\ m.to = r}) = 1
      BY <3>3, FS_Singleton
    <3>5. replyMeta[r] = None /\ r # None
      <4>1. replyMeta[r] = None
        BY <2>1, <2>4, Zenon DEF RejectedForGood
      <4>2. r # None
        OBVIOUS
      <4> QED
        BY <4>1, <4>2
    <3>6. answered[r] = 0
      BY <2>1, <2>2, <3>5 DEF OneAnswer
    <3> QED
      BY <3>4, <3>6
  <2>5. CASE Response(r, r, TRUE) \notin out
    <3>1. {m \in out : m.failed /\ m.to = r} = {}
      BY <2>3, <2>5
    <3> QED
      BY <2>2, <3>1, FS_EmptySet
  <2> QED
    BY <2>4, <2>5
<1> QED
  BY <1>1, ServingHolds, PTL

-----------------------------------------------------------------------------
(* No error is forgotten                                                   *)

BusyWith(t, r) == frame[t].stage # "idle" /\ frame[t].req = r
OnLoop(r)      == Queued(r) \/ BusyWith(Loop, r)

\* The stub has handed r to the loop and has yet to look at the promise.
StubPending(r) == Busy(Net, "tail") /\ frame[Net].req = r /\ frame[Net].outcome = "pending"

\* A request goes to the loop once, and as long as it is there its promise is open
\* and the stub is attached to it, or about to look.
HandedOver ==
  \A r \in Requests :
    /\ promise[r] # "none" => r \in arrived
    /\ Travels(Net, r) => promise[r] = "none" /\ ~OnLoop(r)
    /\ Queued(r) => ~BusyWith(Loop, r)
    /\ OnLoop(r) => promise[r] = "none" /\ (waiting[r] # None \/ StubPending(r))

\* Somebody has the error of r in hand: the stub, as an outcome of its own or of a
\* promise that it finds fulfilled; or the loop, with a stub that is attached to the
\* promise or is still to find it.
Owed(r) ==
  \/ /\ Busy(Net, "tail") /\ frame[Net].req = r
     /\ frame[Net].outcome = "err" \/ (frame[Net].outcome = "pending" /\ promise[r] = "err")
  \/ /\ Busy(Loop, "tail") /\ frame[Loop].req = r /\ frame[Loop].outcome = "err"
     /\ waiting[r] # None \/ StubPending(r)

Reported(r) == \E m \in out \cup lost : m.about = r /\ m.failed

\* Whoever turns back with an error has somebody to give it to.
ErrorsAreOwed ==
  \A t \in Workers : Busy(t, "tail") /\ frame[t].outcome = "err" => Owed(frame[t].req)

\* What is owed stays owed until it is paid: no order in which the loop fulfils its
\* promise and the stub looks at it, attaches or is attached drops the error.
OwedUntilReported == [][\A r \in Requests : Owed(r) => Owed(r)' \/ Reported(r)']_vars

\* Steps that move nothing between the stub and the loop.
Elsewhere ==
  /\ UNCHANGED <<arrived, posted, waiting>>
  /\ \A t \in Workers :
       /\ frame[t].stage \in {"idle", "tail"} => frame'[t] = frame[t]
       /\ frame'[t].stage # "idle" => frame'[t].req = frame[t].req
       /\ frame'[t].stage \in {"stub", "chain"} => frame[t].stage \in {"stub", "chain"}
  /\ promise' = promise \/ (frame[Loop].stage # "idle" /\ Breaks(Loop))

LEMMA LoopSteps ==
  ASSUME Serving, [Next]_vars
  PROVE  Receive \/ PostToLoop \/ RunPosted \/ StubTail \/ FulfilPromise \/ Elsewhere
<1>0. TypeOK /\ OneAnswer
  BY ServingParts
<1> USE DEF Elsewhere, Only, reply
<1>1. CASE UnknownMethod
  <2>1. frame[Net].stage = "stub" /\ UNCHANGED <<arrived, posted, promise, waiting>>
    BY <1>1 DEF UnknownMethod, Busy
  <2> QED
    BY <1>0, <1>1, <2>1, LetGo
<1>2. ASSUME NEW t \in Workers, PassOn(t) \/ (t = Net /\ EnterChain) PROVE Elsewhere
  <2>1. UNCHANGED <<arrived, posted, promise, waiting>>
    BY <1>2 DEF PassOn, EnterChain
  <2> QED
    BY <1>0, <1>2, <2>1, ChainFrame
<1>3. ASSUME NEW t \in Workers, CallService(t) PROVE Elsewhere
  <2>1. UNCHANGED <<arrived, posted, promise, waiting>>
    BY <1>3 DEF CallService
  <2> QED
    BY <1>0, <1>3, <2>1, ServiceFrame
<1>4. ASSUME NEW t \in Workers, GoesBack(t) PROVE Elsewhere
  BY <1>0, <1>4 DEF GoesBack, Breaks
<1>5. ASSUME NEW u \in Workers \cup Apps, Loses(u) PROVE Elsewhere
  <2>1. CASE UNCHANGED <<frame, promise>>
    BY <1>5, <2>1 DEF Loses
  <2>2. CASE ~UNCHANGED <<frame, promise>>
    <3>1. u \in Workers /\ frame[u].stage = "service"
      BY <1>0, <1>5, <2>2 DEF Loses, OneAnswer
    <3> QED
      BY <1>0, <1>5, <2>2, <3>1 DEF Loses, Breaks
  <2> QED
    BY <2>1, <2>2
<1>6. ASSUME NEW u \in Workers \cup Apps, Takes(u) \/ SendReply(u) PROVE Elsewhere
  BY <1>0, <1>6 DEF Takes, TakeFlag, SendReply, route
<1>7. ASSUME Quiet PROVE Elsewhere
  BY <1>0, <1>7 DEF Quiet, route
<1> QED
  BY <1>1, <1>2, <1>3, <1>4, <1>5, <1>6, <1>7, ServingParts, Steps DEF Rest

LEMMA ReportedBy ==
  ASSUME NEW to, NEW r, ReplyError(to, r)
  PROVE  Reported(r)'
<1> DEFINE m == Response(to, r, TRUE)
<1>1. m.about = r /\ m.failed
  BY DEF Response
<1>2. out' = out \cup {m} \/ lost' = lost \cup {m}
  BY DEF ReplyError
<1> HIDE DEF m
<1> QED
  BY <1>1, <1>2 DEF Reported

\* The error that the stub finds when it looks.
TheirError(r) ==
  frame[Net].outcome = "err" \/ (frame[Net].outcome = "pending" /\ promise[r] = "err")

\* What the stub and the loop do when they are through with a request.
LEMMA TailFacts ==
  ASSUME Serving, StubTail
  PROVE  \E r \in Requests :
           /\ Busy(Net, "tail") /\ r = frame[Net].req
           /\ frame'[Net].stage = "idle" /\ frame'[Loop] = frame[Loop]
           /\ UNCHANGED <<arrived, posted, promise>>
           /\ \A x \in Requests : waiting[x] # None => waiting'[x] # None
           /\ frame[Net].outcome = "pending" /\ promise[r] = "none" => waiting'[r] # None
           /\ TheirError(r) => Reported(r)'
<1>0. TypeOK /\ OutcomesFit
  BY ServingParts
<1>1. Only(Net) /\ frame'[Net].stage = "idle" /\ frame[Net].req \in Requests /\ frame[Net].stage = "tail"
  BY <1>0, LetGo DEF StubTail, Busy
<1>2. PICK r \in Requests : r = frame[Net].req
  BY <1>1
<1>3. frame[Net].meta \in Metas /\ None \notin Metas
  BY <1>0, <1>1, FramesHave
<1>4. waiting' = waiting \/ waiting' = [waiting EXCEPT ![r] = frame[Net].meta]
  BY <1>2 DEF StubTail
<1>5. \A x \in Requests : waiting[x] # None => waiting'[x] # None
  BY <1>0, <1>3, <1>4 DEF TypeOK
<1>6. frame[Net].outcome = "pending" /\ promise[r] = "none" => waiting'[r] # None
  BY <1>0, <1>2, <1>3 DEF StubTail, TypeOK
<1>7. ASSUME TheirError(r) PROVE Reported(r)'
  <2>1. ReplyError(frame[Net].meta, r)
    BY <1>2, <1>7 DEF StubTail, TheirError
  <2> QED
    BY <2>1, ReportedBy
<1> QED
  BY <1>1, <1>2, <1>5, <1>6, <1>7 DEF StubTail, Only, Busy

LEMMA FulfilFacts ==
  ASSUME Serving, FulfilPromise
  PROVE  \E r \in Requests :
           /\ Busy(Loop, "tail") /\ r = frame[Loop].req
           /\ frame'[Loop].stage = "idle" /\ frame'[Net] = frame[Net]
           /\ UNCHANGED <<arrived, posted, waiting>>
           /\ promise' = [promise EXCEPT ![r] = frame[Loop].outcome]
           /\ frame[Loop].outcome = "err" /\ waiting[r] # None => Reported(r)'
<1>0. TypeOK
  BY ServingParts
<1>1. Only(Loop) /\ frame'[Loop].stage = "idle" /\ frame[Loop].req \in Requests
  BY <1>0, LetGo
<1>2. PICK r \in Requests : r = frame[Loop].req
  BY <1>1
<1>3. ASSUME frame[Loop].outcome = "err", waiting[r] # None PROVE Reported(r)'
  <2>1. ReplyError(waiting[r], r)
    BY <1>2, <1>3 DEF FulfilPromise
  <2> QED
    BY <2>1, ReportedBy
<1> QED
  BY <1>1, <1>2, <1>3 DEF FulfilPromise, Only

LEMMA ElsewhereHanded ==
  ASSUME Serving, HandedOver, Elsewhere
  PROVE  HandedOver'
<1>0. TypeOK /\ OnlyArrived /\ promise \in [Requests -> {"none", "ok", "err", "broken"}]
  BY ServingParts DEF TypeOK
<1> SUFFICES ASSUME NEW r \in Requests
             PROVE  /\ promise'[r] # "none" => r \in arrived'
                    /\ (Travels(Net, r))' => promise'[r] = "none" /\ ~(OnLoop(r))'
                    /\ (Queued(r))' => ~(BusyWith(Loop, r))'
                    /\ (OnLoop(r))' => promise'[r] = "none" /\ (waiting'[r] # None \/ (StubPending(r))')
  BY DEF HandedOver
<1>1. UNCHANGED <<arrived, posted, waiting>> /\ ((Queued(r))' <=> Queued(r))
  BY DEF Elsewhere, Queued
<1>2. (Travels(Net, r))' => Travels(Net, r)
  BY DEF Elsewhere, Travels
<1>3. (BusyWith(Loop, r))' => BusyWith(Loop, r)
  BY DEF Elsewhere, BusyWith
<1>4. StubPending(r) => (StubPending(r))'
  BY DEF Elsewhere, StubPending, Busy
<1>5. promise'[r] # promise[r] => BusyWith(Loop, r) /\ ~(BusyWith(Loop, r))'
  BY <1>0 DEF Elsewhere, Breaks, BusyWith
<1>6. BusyWith(Loop, r) => r \in arrived
  BY <1>0 DEF OnlyArrived, BusyWith
<1> QED
  BY <1>1, <1>2, <1>3, <1>4, <1>5, <1>6 DEF HandedOver, OnLoop

LEMMA HandedStep ==
  ASSUME Serving, HandedOver, [Next]_vars
  PROVE  HandedOver'
<1>0. TypeOK /\ OnlyArrived /\ promise \in [Requests -> {"none", "ok", "err", "broken"}]
  BY ServingParts DEF TypeOK
<1>1. CASE Receive
  <2>1. PICK r \in Requests \ arrived :
          /\ arrived' = arrived \cup {r}
          /\ Only(Net) /\ frame[Net].stage = "idle"
          /\ frame'[Net].stage = "stub" /\ frame'[Net].req = r
          /\ UNCHANGED <<posted, promise, waiting, reply, out, lost>>
    BY <1>0, <1>1, ReceiveFacts
  <2>2. frame'[Loop] = frame[Loop]
    BY <2>1 DEF Only
  <2>3. ~OnLoop(r) /\ promise[r] = "none"
    BY <1>0, <2>1 DEF OnLoop, Queued, BusyWith, OnlyArrived, HandedOver
  <2>4. \A x \in Requests : (Travels(Net, x))' <=> x = r
    BY <2>1 DEF Travels
  <2>5. \A x \in Requests : /\ (Queued(x))' <=> Queued(x)
                            /\ (BusyWith(Loop, x))' <=> BusyWith(Loop, x)
                            /\ ~StubPending(x)
    BY <2>1, <2>2 DEF Queued, BusyWith, StubPending, Busy
  <2> QED
    BY <2>1, <2>3, <2>4, <2>5 DEF HandedOver, OnLoop
<1>2. CASE PostToLoop
  <2>1. PICK r \in Requests :
          /\ Travels(Net, r)
          /\ \A x \in Requests : ~(Travels(Net, x))'
          /\ \A x \in Requests : (Queued(x))' <=> Queued(x) \/ x = r
    BY <1>2, PostWays
  <2>2. /\ frame'[Loop] = frame[Loop] /\ UNCHANGED <<arrived, promise, waiting>>
        /\ frame'[Net].stage = "tail" /\ frame'[Net].req = frame[Net].req /\ frame'[Net].outcome = "pending"
        /\ frame[Net].stage = "chain"
    BY <1>0, <1>2, PostFrame DEF Only, PostToLoop
  <2>3. (StubPending(r))' /\ \A x \in Requests : ~StubPending(x)
    BY <2>1, <2>2 DEF StubPending, Busy, Travels
  <2>4. \A x \in Requests : (BusyWith(Loop, x))' <=> BusyWith(Loop, x)
    BY <2>2 DEF BusyWith
  <2>5. promise[r] = "none" /\ ~OnLoop(r)
    BY <2>1 DEF HandedOver
  <2> QED
    BY <2>1, <2>2, <2>3, <2>4, <2>5 DEF HandedOver, OnLoop
<1>3. CASE RunPosted
  <2>1. PICK r \in Requests :
          /\ Queued(r) /\ ~(Queued(r))' /\ frame'[Net] = frame[Net]
          /\ \A x \in Requests : (Queued(x))' => Queued(x)
          /\ \A x \in Requests : (Travels(Net, x))' <=> Travels(Net, x)
          /\ \A x \in Requests : (Travels(Loop, x))' <=> x = r
    BY <1>3, RunWays
  <2>2. frame'[Loop].stage = "chain" /\ UNCHANGED <<arrived, promise, waiting>>
    BY <1>0, <1>3, RunFacts
  <2>3. \A x \in Requests : (BusyWith(Loop, x))' <=> x = r
    BY <2>1, <2>2 DEF BusyWith, Travels
  <2>4. \A x \in Requests : (StubPending(x))' <=> StubPending(x)
    BY <2>1 DEF StubPending, Busy
  <2> QED
    BY <2>1, <2>2, <2>3, <2>4 DEF HandedOver, OnLoop
<1>4. CASE StubTail
  <2>1. PICK r \in Requests :
          /\ Busy(Net, "tail") /\ r = frame[Net].req
          /\ frame'[Net].stage = "idle" /\ frame'[Loop] = frame[Loop]
          /\ UNCHANGED <<arrived, posted, promise>>
          /\ \A x \in Requests : waiting[x] # None => waiting'[x] # None
          /\ frame[Net].outcome = "pending" /\ promise[r] = "none" => waiting'[r] # None
    BY <1>4, TailFacts
  <2>2. \A x \in Requests : /\ (Queued(x))' <=> Queued(x)
                            /\ (BusyWith(Loop, x))' <=> BusyWith(Loop, x)
                            /\ ~(Travels(Net, x))'
    BY <2>1 DEF Queued, BusyWith, Travels
  <2>3. \A x \in Requests : StubPending(x) /\ promise[x] = "none" => waiting'[x] # None
    BY <2>1 DEF StubPending
  <2> QED
    BY <2>1, <2>2, <2>3 DEF HandedOver, OnLoop
<1>5. CASE FulfilPromise
  <2>1. PICK r \in Requests :
          /\ Busy(Loop, "tail") /\ r = frame[Loop].req
          /\ frame'[Loop].stage = "idle" /\ frame'[Net] = frame[Net]
          /\ UNCHANGED <<arrived, posted, waiting>>
          /\ promise' = [promise EXCEPT ![r] = frame[Loop].outcome]
    BY <1>5, FulfilFacts
  <2>2. BusyWith(Loop, r) /\ r \in arrived
    BY <1>0, <2>1 DEF BusyWith, Busy, OnlyArrived
  <2>3. \A x \in Requests : /\ (Queued(x))' <=> Queued(x)
                            /\ ~(BusyWith(Loop, x))'
                            /\ (Travels(Net, x))' <=> Travels(Net, x)
                            /\ (StubPending(x))' <=> StubPending(x)
    BY <2>1 DEF Queued, BusyWith, Travels, StubPending, Busy
  <2>4. \A x \in Requests : x # r => promise'[x] = promise[x]
    BY <1>0, <2>1
  <2> QED
    BY <2>1, <2>2, <2>3, <2>4 DEF HandedOver, OnLoop
<1>6. CASE Elsewhere
  BY <1>6, ElsewhereHanded
<1> QED
  BY <1>1, <1>2, <1>3, <1>4, <1>5, <1>6, LoopSteps

LEMMA OwedStep ==
  ASSUME Serving, HandedOver, [Next]_vars, NEW r \in Requests, Owed(r)
  PROVE  (Owed(r))' \/ (Reported(r))'
<1>0. TypeOK /\ promise \in [Requests -> {"none", "ok", "err", "broken"}]
  BY ServingParts DEF TypeOK
<1> DEFINE AtStub == Busy(Net, "tail") /\ frame[Net].req = r /\ TheirError(r)
           AtLoop == /\ Busy(Loop, "tail") /\ frame[Loop].req = r /\ frame[Loop].outcome = "err"
                     /\ waiting[r] # None \/ StubPending(r)
<1>1. /\ AtStub \/ AtLoop
      /\ AtStub' => (Owed(r))'
      /\ AtLoop' => (Owed(r))'
  BY DEF Owed, TheirError
<1>2. AtLoop => promise[r] = "none"
  BY DEF HandedOver, OnLoop, BusyWith, Busy
<1>3. CASE StubTail
  <2>1. PICK q \in Requests :
          /\ Busy(Net, "tail") /\ q = frame[Net].req
          /\ frame'[Loop] = frame[Loop]
          /\ \A x \in Requests : waiting[x] # None => waiting'[x] # None
          /\ frame[Net].outcome = "pending" /\ promise[q] = "none" => waiting'[q] # None
          /\ TheirError(q) => Reported(q)'
    BY <1>3, TailFacts
  <2>2. CASE AtStub
    BY <2>1, <2>2
  <2>3. CASE AtLoop
    <3>1. waiting'[r] # None
      BY <1>2, <2>1, <2>3 DEF StubPending
    <3> QED
      BY <1>1, <2>1, <2>3, <3>1 DEF Busy
  <2> QED
    BY <1>1, <2>2, <2>3
<1>4. CASE FulfilPromise
  <2>1. PICK q \in Requests :
          /\ Busy(Loop, "tail") /\ q = frame[Loop].req /\ frame'[Net] = frame[Net]
          /\ promise' = [promise EXCEPT ![q] = frame[Loop].outcome]
          /\ frame[Loop].outcome = "err" /\ waiting[q] # None => Reported(q)'
    BY <1>4, FulfilFacts
  <2>2. promise[q] = "none"
    BY <2>1 DEF HandedOver, OnLoop, BusyWith, Busy
  <2>3. CASE AtStub
    <3>1. promise[r] = "err" => promise'[r] = "err"
      BY <1>0, <2>1, <2>2
    <3>2. AtStub'
      BY <2>1, <2>3, <3>1 DEF Busy, TheirError
    <3> QED
      BY <1>1, <3>2
  <2>4. CASE AtLoop
    <3>1. q = r /\ promise'[r] = "err"
      BY <1>0, <2>1, <2>4
    <3>2. CASE waiting[r] # None
      BY <2>1, <2>4, <3>1, <3>2
    <3>3. CASE StubPending(r)
      <4>1. AtStub'
        BY <2>1, <3>1, <3>3 DEF StubPending, Busy, TheirError
      <4> QED
        BY <1>1, <4>1
    <3> QED
      BY <2>4, <3>2, <3>3
  <2> QED
    BY <1>1, <2>3, <2>4
<1>5. ASSUME /\ Busy(Net, "tail") => frame'[Net] = frame[Net]
             /\ Busy(Loop, "tail") => frame'[Loop] = frame[Loop]
             /\ waiting' = waiting
             /\ promise[r] = "err" => promise'[r] = "err"
      PROVE  (Owed(r))'
  <2>1. CASE AtStub
    <3>1. AtStub'
      BY <1>5, <2>1 DEF Busy, TheirError
    <3> QED
      BY <1>1, <3>1
  <2>2. CASE AtLoop
    <3>1. StubPending(r) => (StubPending(r))'
      BY <1>5 DEF StubPending, Busy
    <3>2. AtLoop'
      BY <1>5, <2>2, <3>1 DEF Busy
    <3> QED
      BY <1>1, <3>2
  <2> QED
    BY <1>1, <2>1, <2>2
<1>6. CASE Receive
  <2>1. Only(Net) /\ frame[Net].stage = "idle" /\ UNCHANGED <<promise, waiting>>
    BY <1>0, <1>6, ReceiveFacts
  <2> QED
    BY <1>5, <2>1 DEF Only, Busy
<1>7. CASE PostToLoop
  <2>1. Only(Net) /\ frame[Net].stage = "chain" /\ UNCHANGED <<promise, waiting>>
    BY <1>0, <1>7, PostFrame DEF PostToLoop
  <2> QED
    BY <1>5, <2>1 DEF Only, Busy
<1>8. CASE RunPosted
  <2>1. Only(Loop) /\ frame[Loop].stage = "idle" /\ UNCHANGED <<promise, waiting>>
    BY <1>0, <1>8, RunFacts
  <2> QED
    BY <1>5, <2>1 DEF Only, Busy
<1>9. CASE Elsewhere
  <2>1. promise'[r] # promise[r] => BusyWith(Loop, r)
    BY <1>0, <1>9 DEF Elsewhere, Breaks, BusyWith
  <2>2. BusyWith(Loop, r) => promise[r] = "none"
    BY DEF HandedOver, OnLoop
  <2>3. promise[r] = "err" => promise'[r] = "err"
    BY <2>1, <2>2
  <2> QED
    BY <1>5, <1>9, <2>3 DEF Elsewhere, Busy
<1> QED
  BY <1>3, <1>4, <1>6, <1>7, <1>8, <1>9, LoopSteps

\* The stub and the loop know of each other's part of every request.
THEOREM HandedOverOnce == Spec => []HandedOver
<1>1. ASSUME Init PROVE HandedOver
  <2>1. DOMAIN posted = {} /\ frame[Net].stage = "idle" /\ frame[Loop].stage = "idle"
    BY <1>1 DEF Init, Idle
  <2> QED
    BY <1>1, <2>1 DEF Init, HandedOver, OnLoop, Queued, BusyWith, Travels
<1>2. Serving /\ HandedOver /\ [Next]_vars => HandedOver'
  BY HandedStep
<1> QED
  BY <1>1, <1>2, ServingHolds, PTL DEF Spec

\* An error on its way back is somebody's to report: the functor of withEventLoop's
\* loop always finds the stub attached to its promise, or yet to look at it.
THEOREM ErrorsHaveAnOwner == Spec => []ErrorsAreOwed
<1>1. ASSUME Serving, HandedOver PROVE ErrorsAreOwed
  <2> SUFFICES ASSUME NEW t \in Workers, Busy(t, "tail"), frame[t].outcome = "err"
               PROVE  Owed(frame[t].req)
    BY DEF ErrorsAreOwed
  <2>1. PICK r \in Requests : r = frame[t].req
    BY <1>1, FramesHave, ServingParts DEF Busy
  <2>2. CASE t = Net
    BY <2>1, <2>2 DEF Owed
  <2>3. CASE t = Loop
    <3>1. OnLoop(r)
      BY <2>1, <2>3 DEF OnLoop, BusyWith, Busy
    <3>2. waiting[r] # None \/ StubPending(r)
      BY <1>1, <3>1 DEF HandedOver
    <3> QED
      BY <2>1, <2>3, <3>2 DEF Owed
  <2> QED
    BY <2>2, <2>3
<1>2. Serving /\ HandedOver => ErrorsAreOwed
  BY <1>1
<1> QED
  BY <1>2, ServingHolds, HandedOverOnce, PTL

\* The safety half of ErrorReported, for any requests, chain and number of threads:
\* there is no lost wake-up between setValue() on the loop and isReady(), thenValue()
\* on the connection's thread.
THEOREM ErrorsStayOwed == Spec => OwedUntilReported
<1>1. Serving /\ HandedOver /\ [Next]_vars =>
        [\A r \in Requests : Owed(r) => Owed(r)' \/ Reported(r)']_vars
  BY OwedStep
<1> QED
  BY <1>1, ServingHolds, HandedOverOnce, PTL DEF Spec, OwedUntilReported
=============================================================================
