------------------------- MODULE ServiceConnection -------------------------
(***************************************************************************)
(* What ServiceBuilder (UtilsWrapper.h) makes of its configuration when a  *)
(* connection is accepted: OnBinaryConnectionEnter or OnHTTPConnectionEnter *)
(* builds one service per creator, all on one handle manager, their        *)
(* outbound chains, and, for the binary protocol, the disconnect callback  *)
(* that takes the services down.  The builder belongs to the program's     *)
(* thread, entering and closing run on the connection's, replies on any.   *)
(* The inside of a service is GayRpcService's concern.                     *)
(***************************************************************************)
EXTENDS Integers, Sequences, InterceptorChain

CONSTANTS
  MaxCreators, \* bound: creators given to the builder
  MaxUser,     \* bound: outbound interceptors given to the builder
  UserKinds,   \* what these do with next
  Ids,         \* service ids; those of two .proto files may be the same
  Requests,    \* requests the peer sends
  IdAsked      \* IdAsked[r]: the service id in r's meta, over the binary protocol

Services   == 1..MaxCreators
Transports == {"Binary", "HTTP"}
Configs    == [creators : 0..MaxCreators, outbound : Seq(Kinds), transport : Transports]

ASSUME BoundsAreNumbers == MaxCreators \in Nat /\ MaxUser \in Nat
ASSUME UserKindsAreKinds == UserKinds \subseteq Kinds
ASSUME EveryRequestNamesAnId == DOMAIN IdAsked = Requests

VARIABLES
  builder,         \* the ServiceBuilder
  running,         \* asyncRun() was called
  captured,        \* what the enter callback of asyncRun() holds
  link,            \* "none", "entering", "open", "closed", or "failed": entering threw
  shutdown,        \* postShutdown was called on the HTTP session
  idOf,            \* per creator that has run: the id its service is installed under
  outbound,        \* userOutBoundInterceptor
  chains,          \* chains[s]: the outbound chain of s
  closedCallbacks, \* the services they are for
  handlers,        \* services that are registered in the manager
  closing,         \* the callbacks that the disconnect callback still has to finish
  at,              \* which step of the first of them is next
  closed,          \* services whose onClose() ran
  received,        \* requests that have come in
  posted,          \* <<request, service>> in the queue of withEventLoop's loop
  kept,            \* <<request, service>> that the service has not replied to yet
  frames           \* frames[r]: responses to r written to the session

program == <<builder, running, captured>>
entry   == <<idOf, outbound, chains, closedCallbacks>>
ending  == <<closing, at, closed>>
traffic == <<received, posted, kept, frames>>
vars    == <<program, link, shutdown, entry, handlers, ending, traffic>>

TypeOK ==
  /\ builder \in Configs /\ captured \in Configs /\ running \in BOOLEAN
  /\ link \in {"none", "entering", "open", "closed", "failed"}
  /\ shutdown \in BOOLEAN
  /\ idOf \in Seq(Ids) /\ Len(idOf) <= MaxCreators
  /\ outbound \in Seq(Kinds)
  /\ chains \in [Services -> Seq(Kinds)]
  /\ closedCallbacks \in Seq(Services)
  /\ handlers \subseteq DOMAIN idOf
  /\ closing \in Seq(Services)
  /\ at \in {1, 2}
  /\ closed \subseteq Services
  /\ received \subseteq Requests
  /\ posted \subseteq Requests \X Services
  /\ kept \subseteq Requests \X Services
  /\ frames \in [Requests -> Nat]

Blank == [creators |-> 0, outbound |-> <<>>, transport |-> "Binary"]

Init ==
  /\ builder = Blank /\ captured = Blank /\ running = FALSE
  /\ link = "none" /\ shutdown = FALSE
  /\ idOf = <<>> /\ outbound = <<>>
  /\ chains = [s \in Services |-> <<>>]
  /\ closedCallbacks = <<>>
  /\ handlers = {}
  /\ closing = <<>> /\ at = 1 /\ closed = {}
  /\ received = {} /\ posted = {} /\ kept = {}
  /\ frames = [r \in Requests |-> 0]

-----------------------------------------------------------------------------
(* ServiceBuilder                                                          *)

Configured(b) ==
  /\ builder' = b
  /\ UNCHANGED <<running, captured, link, shutdown, entry, handlers, ending, traffic>>

AddServiceCreator ==
  /\ builder.creators < MaxCreators
  /\ Configured([builder EXCEPT !.creators = @ + 1])

BuildOutboundInterceptor ==
  /\ Len(builder.outbound) < MaxUser
  /\ \E kind \in UserKinds : Configured([builder EXCEPT !.outbound = Append(@, kind)])

ConfigureTransportType ==
  \E type \in Transports : Configured([builder EXCEPT !.transport = type])

\* The enter callback holds copies; the program may go on with the builder.
AsyncRun ==
  /\ ~running
  /\ running' = TRUE
  /\ captured' = builder
  /\ UNCHANGED <<builder, link, shutdown, entry, handlers, ending, traffic>>

-----------------------------------------------------------------------------
(* OnBinaryConnectionEnter, OnHTTPConnectionEnter                          *)

ConfigIsBuilder == builder   \* bug: captured by reference
Config == captured

IsHTTP == Config.transport = "HTTP"

Accept ==
  /\ running /\ link = "none"
  /\ link' = "entering"
  /\ outbound' = Config.outbound
  /\ UNCHANGED <<program, shutdown, idOf, chains, closedCallbacks, handlers, ending, traffic>>

Taken(id) == \E s \in handlers : idOf[s] = id

SenderOf(transport) == IF transport = "HTTP" THEN <<"protect", "send">> ELSE <<"send">>

OnlyLast(s)    == <<s>>                            \* bug: assigned, not appended
WrongOne(s)    == Append(closedCallbacks, s - 1)   \* bug: the previous service is captured
AndClosing(s)  == Append(closedCallbacks, s)

\* One round of the loop over the creators.  Every round appends a sender to the
\* one vector all the chains are made from.  install() throws when the id is
\* taken, and with it ends the whole entering.
BuildService ==
  LET s == Len(idOf) + 1 IN
  /\ link = "entering"
  /\ Len(idOf) < Config.creators
  /\ outbound' = outbound \o SenderOf(Config.transport)
  /\ chains' = [chains EXCEPT ![s] = outbound']
  /\ closedCallbacks' = IF IsHTTP THEN closedCallbacks ELSE AndClosing(s)
  /\ \E id \in Ids :
       /\ idOf' = Append(idOf, id)
       /\ IF Taken(id)
            THEN link' = "failed" /\ UNCHANGED handlers
            ELSE handlers' = handlers \cup {s} /\ UNCHANGED link
  /\ UNCHANGED <<program, shutdown, ending, traffic>>

\* setDisConnectCallback is the last thing that is done.
EnterDone ==
  /\ link = "entering"
  /\ Len(idOf) = Config.creators
  /\ link' = "open"
  /\ UNCHANGED <<program, shutdown, entry, handlers, ending, traffic>>

-----------------------------------------------------------------------------
(* Requests and replies                                                    *)

\* handleHttpPacket sets no service id.
AskedFor(r) == IF IsHTTP THEN 0 ELSE IdAsked[r]

Called(r) == {s \in handlers : idOf[s] = AskedFor(r)}

\* handleRpcMsg finds the service, or the request goes no further.  With
\* withEventLoop in the inbound chain the service is called on another thread.
Receive ==
  /\ link = "open"
  /\ \E r \in Requests \ received :
       /\ received' = received \cup {r}
       /\ \/ kept' = kept \cup {<<r, s>> : s \in Called(r)} /\ UNCHANGED posted
          \/ posted' = posted \cup {<<r, s>> : s \in Called(r)} /\ UNCHANGED kept
  /\ UNCHANGED <<program, link, shutdown, entry, handlers, ending, frames>>

\* The functor carries the service with it and does not ask whether it is still
\* installed.
RunPosted ==
  /\ \E call \in posted :
       /\ posted' = posted \ {call}
       /\ kept' = kept \cup {call}
  /\ UNCHANGED <<program, link, shutdown, entry, handlers, ending, received, frames>>

\* How many of the n frames that the senders of a chain write get to the session.  A
\* binary session that is gone takes none.  An HTTP session is shut down by the
\* first; what is written after that may still go out.
Taking(n) ==
  IF link # "open" THEN {0}
  ELSE {i \in 0..n : IF IsHTTP THEN shutdown \/ n = 0 \/ i > 0 ELSE i = n}

Reply ==
  /\ \E k \in kept : \E n \in Taking(Times(chains[k[2]], "send")) :
       /\ kept' = kept \ {k}
       /\ frames' = [frames EXCEPT ![k[1]] = @ + n]
       /\ shutdown' = (shutdown \/ (IsHTTP /\ n > 0))
  /\ UNCHANGED <<program, link, entry, handlers, ending, received, posted>>

-----------------------------------------------------------------------------
(* The disconnect callback                                                 *)

OrderSwapped == <<"onClose", "uninstall">>  \* bug
Order        == <<"uninstall", "onClose">>

\* An HTTP connection has no disconnect callback, and closedCallbacks is empty.
Disconnect ==
  /\ link = "open"
  /\ link' = "closed"
  /\ closing' = closedCallbacks
  /\ UNCHANGED <<program, shutdown, entry, handlers, at, closed, traffic>>

\* removeTypeHandle removes whatever is registered under the service's id.
CloseStep ==
  /\ closing # <<>>
  /\ LET s == Head(closing) IN
       IF Order[at] = "uninstall"
         THEN handlers' = {x \in handlers : idOf[x] # idOf[s]} /\ UNCHANGED closed
         ELSE closed' = closed \cup {s} /\ UNCHANGED handlers
  /\ IF at = 1 THEN at' = 2 /\ UNCHANGED closing
     ELSE at' = 1 /\ closing' = Tail(closing)
  /\ UNCHANGED <<program, link, shutdown, entry, traffic>>

-----------------------------------------------------------------------------
Next ==
  \/ AddServiceCreator \/ BuildOutboundInterceptor \/ ConfigureTransportType \/ AsyncRun
  \/ Accept \/ BuildService \/ EnterDone
  \/ Receive \/ RunPosted \/ Reply
  \/ Disconnect \/ CloseStep

Spec == Init /\ [][Next]_vars

\* The connection's thread finishes the callback it is in.
FairSpec == Spec /\ WF_vars(BuildService \/ EnterDone) /\ WF_vars(CloseStep)

-----------------------------------------------------------------------------
(* Properties                                                              *)

\* Close callbacks that have finished.
Done == Len(closedCallbacks) - Len(closing)

\* The end of a binary connection takes its services down one by one in the order
\* they were built, and each one before it is closed, although uninstall() knows
\* only ids and the ids are the services' own choice: those that have had their
\* turn are closed and out of the manager, the one in front may be out only, those
\* behind it are served as before.  A request that withEventLoop had posted earlier
\* still runs on a closed service (UtilsInterceptor.h:40); no new one finds it.
ClosedInOrder ==
  link = "closed" =>
    /\ closed = 1..Done
    /\ handlers = IF IsHTTP THEN DOMAIN idOf ELSE (Done + at)..Len(idOf)

\* The services of a connection, and the program's part of their chains, are what
\* the builder held when asyncRun() was called, whatever was added since.
ServesWhatWasAsked ==
  link \in {"open", "closed"} =>
    /\ Len(idOf) = captured.creators
    /\ \A s \in DOMAIN idOf :
         /\ Len(chains[s]) > Len(captured.outbound)
         /\ \A i \in DOMAIN captured.outbound : chains[s][i] = captured.outbound[i]

\* A service that was installed on a binary connection is closed when the
\* connection ends, each of the several.
EveryServiceClosed ==
  (link = "closed" /\ ~IsHTTP) ~> (closed = DOMAIN idOf /\ handlers = {})

\* A reply is written to the session once (README.md:188).
OneFramePerReply == \A r \in Requests : frames[r] <= 1
=============================================================================
