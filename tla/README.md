# A formal model of gayrpc

TLA+ modules for the core of gayrpc (the full-duplex, callback-based RPC library
in `src/gayrpc`), TLC configurations that check them on small instances, and
TLAPS proofs about all of them but RpcCall for every value of their constants.
Paths below are relative to the repository's root; `echo_service.gayrpc.h` is the
generated stub `examples/echo/pb/echo_service.gayrpc.h`.

Checking a run: `tlc -config MCGayRpcClient_safety.cfg MCGayRpcClient`.
Checking the proofs of a module: `tlapm GayRpcClientProofs.tla`.

## 1. The system

| part | state | operations | talks to |
|---|---|---|---|
| `BaseClient` (`GayRpcClient.h`) and the generated client | sequence counter, response stubs, timeout callbacks, timer queue | `call` (timed, plain, one-way), `SyncXxx`, `processRpcResponse`, `checkTimeout`, `uninstall` | outbound chain, handle manager, the caller's callbacks |
| `RpcTypeHandleManager` (`GayRpcTypeHandler.h`) | (type, service id) -> handler, a `shared_mutex` | register, remove, removeAll, `handleRpcMsg` | protocol above, client and service stubs below |
| generated request stub | none of its own, captures the service and both chains | look up, parse, run the inbound chain, report its error | handle manager, interceptors, reply object |
| `BaseReply` (`GayRpcReply.h`) | the request's meta, the reply flag | `reply`, `error`, static `ReplyError` | outbound chain |
| interceptors (`GayRpcInterceptor.h`, `UtilsInterceptor.h`) | queued functors and promises of `withEventLoop`, loop timers of `withTimeoutCheck` | pass on, keep back, throw, post to a loop, send | each other |
| binary protocol (`BinaryProtocol.h`) | the receive buffer and its read positions | `send`, `binaryPacketHandle` | the session (brynet), the handle manager |
| connection set-up (`UtilsWrapper.h`) | services of a connection, their close callbacks | `OnBinaryConnectionEnter`, disconnect callback, builders | all of the above |
| HTTP protocol (`HttpProtocol.h`) | none | convert and hand on | the handle manager |
| `RpcMeta` (`gayrpc_meta.proto` and the code generated from it) | a message | size, write, read, merge, copy, move | everything above |

A request goes: caller -> `call` (number, tables, timer) -> outbound chain ->
`send` -> TCP -> `parseOpPacket` -> `handleRpcMsg` (shared lock held) -> request
stub -> inbound chain (maybe another thread) -> service method with a reply
object -> any thread answers -> outbound chain -> `send` -> ... -> `handleRpcMsg`
-> response stub -> inbound chain -> the caller's handler. In parallel, timers
and `checkTimeout` want to end the same call with its timeout callback.

What is hard here: three mechanisms on different threads may end one call; a
timer queue that is never cleaned by answers; callbacks run outside the lock; a
registry lock that is held while handlers run; a meta passed by rvalue reference
through interceptors of which one may move it to another thread while the stub
still reads it; a promise fulfilled on one thread while another decides whether
to attach to it; services that answer, throw, or both; a byte stream cut
anywhere; several clients and services that share one connection and one
registry, told apart by a type, a service id and a number only; teardown in the
middle of all of it.

What makes each part correct:
- client: a call is called back at most once, is never forgotten, is not timed
  out early, and ends in time when the program keeps its side;
- registry: removal is a barrier, the first registration stays, a removal
  touches its own key, writers get in;
- service: at most one answer, with the request's number, none to a one-way
  request, errors reported and attributed;
- protocol: what is delivered is what was sent, in order, none held back;
- connection: one frame per reply; uninstalled and then closed; what the builder
  held when it was run, and nothing else, is what connections get;
- chains: interceptors run in the order of the list, the handler at most once;
- messages: what is read is what was written, and as long as was announced;
- the whole: an answer ends the call it answers, and who is told of success was
  served.

`PROJECT.json` lists the components with their status and every hazard at its
line.

## 2. Modules

### RpcCall - what a caller is promised
Abstract. One call is opened, and then ended once: responded, timed out (not
before its deadline) or given up. No tables, threads or messages.

### GayRpcClient - the client
Variables carry the member names of `BaseClient`. `pc`, `mine`, `stamp` and
`batch` are a thread's position and locals. Each critical section on
`mStubMapGuard` is one action; what lies before and after it is another:

| code | actions |
|---|---|
| `call` timed | `CallTimed`/`CallSync` (number) -> `StampTimer` (line 140, before the lock) -> `Register` (lines 152-158) -> `SendRequest` or `OutboundRejects` -> `ArmTimer` (`withTimeoutCheck`, behind the sender as in `SyncEchoClient.cpp`) |
| `call` plain, one-way | `CallPlain` -> `Register` ...; `CallOneWay` skips the tables |
| `processRpcResponse` | `ReceiveResponse` = `TakeResponse` under the lock, then `RunHandler` or `DropResponse`; `FireTimer` = `TakeTimeout` under the lock, then `RunTimeoutHandler` |
| `withEventLoop` inbound | `RunHandler`'s second alternative and `RunPosted` |
| `checkTimeout` | `CheckTimeout` (clock read, line 86) -> `SweepTimers` (lines 87-103) -> `RunCallback`* -> `UnwindCallbacks` when one throws |
| `SyncXxx(...).wait()` | `WaitReturns`, with `Ended` for the promise |
| `uninstall` | `Uninstall`; it waits for handlers that run under the registry's shared lock |

The peer is as free as TCP and its code allow: it answers late, never, twice, or
an error answer carries 0 for its number (which the service really does, see
finding 3). The session may go at any time; the sender then drops silently.
A user callback that makes a call is a thread that makes a call next: no client
lock is held in callbacks. Client uninstall from inside a handler is not
modelled (it would deadlock on the registry's lock; listed as a hazard).

### RpcTypeHandler - the registry
Writers are one action once no dispatcher is inside (`Exclusive`); dispatchers
hold the lock from `HandleRpcMsg` to `HandlerReturns`.

### GayRpcService - request stub, inbound chain, reply object
`lost` keeps the responses that an outbound interceptor of the program threw away,
told apart like those that left: a lost reply does not stand for a lost error.
`Chain` is a sequence of "user" (an interceptor of the program: passes on,
answers, throws), "protect" (`withProtectedCall`) and "loop" (`withEventLoop`).
`frame[t]` is what thread t does with a request; its `meta` field is the number
in the RpcMeta that the code at that point can still read, and `Blank` after a
move (protobuf's move leaves a default message). The move happens where an
rvalue reference is consumed: `withEventLoop`'s functor and the reply object's
constructor. The stub's second half (`StubTail`) reads the meta it handed out.
`StubTail`/`FulfilPromise` model `isReady()`/`thenValue()` against `setValue`;
a promise that breaks between the two is silent, before them it is reported.
Method lookup by name and by id are one alternative (`UnknownMethod`).

### BinaryProtocol - framing
A byte is a pair [packet, place]. A head read from the wrong place may say
anything and a body that is not the packet's own is delivered as `Garbled`, so
an error in the loop's bookkeeping shows. The two nested packet formats are one,
with `Broken` for what the inner parser or protobuf rejects.

### ServiceConnection - ServiceBuilder, entering and leaving a connection
The builder's operations are actions (`AddServiceCreator`,
`BuildOutboundInterceptor`, `ConfigureTransportType`, `AsyncRun`); `captured` is
what the lambda in `asyncRun` (line 245) copies, and the program may go on with
the builder. `BuildService` is one round of the loop over the creators, in
`OnBinaryConnectionEnter` and in `OnHTTPConnectionEnter`: the outbound vector
grows in each (lines 55, 98, 99). Service ids are chosen by the creators, so two
may collide and `install()` throws. `Disconnect` and `CloseStep` are the
disconnect callback, which an HTTP connection does not have. The first reply shuts
an HTTP session down; what is written after that may or may not go out.

### InterceptorChain - makeInterceptor
A function on lists of interceptor kinds: `Run` gives the positions a message
visits and what comes out. It is written the way the code works (each wrapper
owns the function it moves inwards), `InOrder` is the reference it is compared
with. Used by ServiceConnection and RpcSession.

### RpcMeta - the message that heads every packet
`Request`, `Response` and `RpcMeta` of `gayrpc_meta.pb.h` and `.cc` as records,
pointers to submessages as sequences of length 0 or 1. What is written is a
sequence of fields, so that `ParseMeta`, `Merge`, `MetaByteSize` and `Moved` can be
compared with each other. `RequestMeta`, `ReplyMeta`, `ErrorMeta` and `TimeoutMeta`
are the metas gayrpc builds; `TimeoutMeta` leaves the service id at 0 as
`causeTimeout` does. `VarintSize` counts numbers of up to 64 bits and is shared by what
is announced and what is written: `SizeAnnounced` compares the two computations that
the generated code makes with it, not protobuf's own table of sizes.

### RpcSession - two programs on one connection
The composition: both ends have one registry, services and clients, as in
`EchoServer.cpp`. Every message is built and read by RpcMeta and goes through its
end's InterceptorChain; `wire` keeps the order of the connection. The peer's
freedom of GayRpcClient is gone: an answer is there because a service of the model
gave it. A handler is one step; what threads do in the middle of it is the
business of the three modules above. `phase`, `cause`, `told`, `callbacks` and
`served` are history: how a call ended, by whose answer or timer, what its
handler was told, and how often a service ran for it. `phase` tells an answer that was
handled or lost on its way to the handler ("responded", "lost") from a timer that ran
the timeout callback or found none ("timedout", "dropped"). `kept` has one reply object
for each frame that a service took over, also when two frames carry one request.
`EchoPrograms` states the three example programs; MCRpcSession adds four more:
two clients of one service on one end (`Twins`), clients of two services
(`Pair`), interceptors that stop (`Stopped`) and that repeat (`Repeated`).

### The proof modules
`GayRpcClientProofs`, `RpcTypeHandlerProofs`, `GayRpcServiceProofs`,
`BinaryProtocolProofs`, `ServiceConnectionProofs`, `RpcMetaProofs` and
`RpcSessionProofs` (which builds on `RpcMetaProofs`) hold the theorems of section 5.
`Folding` has what they need of `FoldLeft`, for an operator that is a parameter of
the module. MC* modules hold constants for TLC only.

Definitions marked `bug:` in a comment are deliberately wrong variants of the
definition that follows them. Nothing uses them; each is put in the place of the
right one to see that the property it aims at fails.

## 3. Runs

| run | shows | bounds |
|---|---|---|
| `MCGayRpcClient_safety` | type invariant, `CalledBackAtMostOnce`, `OneHolder`, `NothingForgotten`, `EveryDeadlineWatched`, `NeverEarly`, `SilentAfterUninstall`, and `PromiseKept`: the client implements RpcCall | 2 threads that both call and work, 2 calls, timeouts 0 and 1, clock 0..1; 786 127 states, symmetric in the threads |
| `MCGayRpcClient_live` | `DeadlineKept`, `SyncReturns`, `TimersDrain` for a program that polls; `ArmedTimerEnds` for one that does not | 1 caller that also waits synchronously, 1 worker, 2 calls, clock 0..1; 103 055 states |
| `MCGayRpcClient_othersvc` | finding 1, violated `ArmedTimerEnds` | service id 1 |
| `MCGayRpcClient_zero` | finding 2, violated `ZeroMeansNoTimeout` | 1 call |
| `MCRpcTypeHandler_all` | `RunningIsRegistered`, `FirstRegistrationStays`, `OthersStay`, `WritersReturn` | 2 writers, 2 dispatchers, 2 types, 2 services, 2 handlers; 227 556 states |
| `MCGayRpcService_async` | `AnsweredAtMostOnce`, `FlagAccountedFor`, `OneResponseBearsTheNumber`, `RejectionNamesRequest`, `ErrorReported` | 2 requests (1 one-way), a chain of 5 over 2 threads, 2 answering threads; 6 960 states |
| `MCGayRpcService_errnum` | finding 3, violated `ErrorsNameTheirRequest` | 1 request, the chain of `EchoServer.cpp` |
| `MCGayRpcService_oneway` | finding 4, violated `OneWayIsSilent` | 1 one-way request |
| `MCBinaryProtocol_stream` | `DeliveredInOrder`, `NothingHeldBack`, `EventuallyDelivered` | 4 packets in any order, heads of 2 bytes, data of 0 to 2, reads of 1 to 6 bytes; 5 634 states |
| `MCServiceConnection_closing` | `ClosedInOrder`, `ServesWhatWasAsked`, `EveryServiceClosed` | 3 creators, 1 interceptor of the program, both transports, 3 ids, 2 requests; 35 036 states |
| `MCServiceConnection_frames` | finding 5, violated `OneFramePerReply` | 2 services |
| `MCRpcSession_all` | `AnswerMeetsItsCall`, `ExecutedAsSent`, `AnswerProvesExecution`, `EndedForGood`, `ResponseEndsItsCall`; `WrittenIsRead` and `SizeAnnounced` of the messages; `ChainsRunInOrder` of the chains | 6 pairs of programs, 2 clients with 2 calls and 1 call, 2 service ids, a method that is known and one that is not; a service that holds the reply objects of a request that came twice; 108 further messages, with numbers of one to five bytes, and every chain of up to 3 interceptors; 166 523 states |

Why the bounds are enough to be interesting. Two calls are the least at which one
answer can meet another's stub (number 0), a batch can hold two callbacks and an
exception can lose one. Two threads give every pair of racing operations; what a
third could add is covered by the proofs: all properties of `MCGayRpcClient_safety`
are theorems, and so are all of `MCRpcSession_all`, for any number of clients, calls,
methods and interceptors. Clock
values 0 and 1 with timeouts 0 and 1 have a call that is due at once, one that is
due at the next tick, and sweeps that read the clock before and after it. In the
protocol a head of 2 bytes can be cut and bodies may be empty. Three creators are
the least at which a service has one before and one behind it; a request may find
its id, another's, or none. In a session two calls of one client and one of
another are the least at which an answer can go to the wrong call of the right
client and to the right number of the wrong client, and duplicated answers can
come after one another's calls have ended. A chain of 3 has an interceptor with
one before and one behind it. Liveness
properties speak of end times within `MaxTime`: a call that ends after the clock
stopped says nothing.

`CHECK_DEADLOCK FALSE` is set where the modelled system may stop: the peer sends
nothing more, the connection is closed, or building it failed. The client and
registry runs check deadlock: with the clock, the calls and the connection used
up a client can still be polled by `checkTimeout`, and a registry with no writer
left still dispatches, so a state without a successor would be a real one.

### Fairness
- `LoopFairness` (client): time passes; a thread that has begun an operation goes
  on with it (weak); due timers and posted functors are served (strong: brynet's
  event loop looks at both in every round, while a thread that is busy disables
  the action).
- `Polling`: nothing in gayrpc calls `checkTimeout`; that the program does is the
  left side of the three properties that need it.
- Registry: handlers return, and while the mutex stays free one of the waiting
  writers gets it, nobody says which (both weak). `std::shared_mutex` promises a
  writer no more, so overlapping dispatches may starve it; `WritersReturn` speaks of
  behaviours in which from some point on no dispatch and no new call begins (`Quiet`)
  and says that everyone who is waiting then returns. What it excludes is that
  dispatches and writers, or two writers, end up waiting for each other.
- Service: a thread that has begun with a request goes on, and the loop runs its
  functors. The peer and threads that keep a reply object owe nothing.
- Protocol: TCP delivers while connected; the parse loop runs on.
- Connection: the connection's thread finishes its callbacks.
- Session: none; its properties are safety properties, and `ResponseEndsItsCall`
  says of the step that takes an answer off the wire what it must have done.

## 4. What the checks found

1. **Timeouts by event loop work for service 0 only.** `causeTimeout`
   (`UtilsInterceptor.h:98`) does not set the service id.
2. **Timeout 0 means "at once", not "none"**, for `checkTimeout`
   (`GayRpcClient.h:157`), against `gayrpc_meta.proto:25`.
3. **Errors carry sequence number 0.** The stub reads the meta after moving it
   (`echo_service.gayrpc.h:341`). The property `OneResponseBearsTheNumber` warns
   of the obvious repair: with the ids saved beforehand, a service that replies
   and then throws sends two responses with the same number.
4. **One-way requests are answered with errors** (`echo_service.gayrpc.h:324`,
   `ReplyError`), against `gayrpc_meta.proto:21`.
5. **The n-th service of a connection sends each reply n times**
   (`UtilsWrapper.h:55`), against `README.md:184-188`.

Seen while modelling, without a run of their own:

- *Two clients of one service on one manager* (`GayRpcClient.h:221` ignores that
  the registration failed). The second one's answers go to the first, and end the
  first one's call with the same number; its own calls get none; its `uninstall()`
  removes the first one's stub. `AnswerMeetsItsCall` names this as the first of
  the three ways in which an answer can meet a call that is not its own.
- *A timer of `withTimeoutCheck`* of a client of another service ends, or silently
  removes, the call of service 0's client with the same number (the third way; the
  second are the blank errors of finding 3, which meet call 0 of service 0). Only an
  error without a code goes the second way: `AnswerMeetsItsCall` lets neither success nor
  a service's own error code end a call it was not meant for, unless two clients share
  the service.
- `RpcError`'s copy constructor (`GayRpcError.h:24-27`) does not copy the timeout
  flag, so `timeout()` of the error that `SyncXxx` returns need not say what
  `echo_service.gayrpc.h:119` set.
- HTTP connections never uninstall or close their services; their requests carry no
  service id and reach service 0 only; an error is answered with `{}` and status 200
  because `ReplyError`'s message is empty; and an exception of `handleRpcMsg` is not
  caught as in `BinaryProtocol.h`.
- A promise that breaks between the stub's `isReady()` and its continuation
  (`UtilsInterceptor.h:46`), or a request that a loop delivers after `onClose()`
  (`UtilsInterceptor.h:40`), is in the models, but nothing in the repository says what
  should happen, so no property speaks of it: `ClosedInOrder` is about who is in the
  manager, and a posted request no longer asks the manager.
- Plain calls have no end of their own: one that was rejected on its way out, whose
  answer was dropped or whose session ended stays in the table, or is forgotten without a
  callback. `NothingForgotten` and `PromiseKept` count that as over or open, and
  `DeadlineKept` is about timed calls of a program that polls.

## 5. What is proved

All theorems hold for every value of the constants. The assumptions used are the
named ones of the modules: bounds, timeouts, ids and error codes are numbers, chains
are made of the known interceptors, threads that keep reply objects are not the
connection's, what a newer peer adds is no field that this code knows.

| module | theorem | property |
|---|---|---|
| `GayRpcClientProofs` | `TypeCorrect` | `TypeOK` |
| | `AtMostOneCallback` | `CalledBackAtMostOnce` |
| | `OneHolderAlways` | `OneHolder` |
| | `CustodyHolds` | inductive invariant `Custody` |
| | `NoCallForgotten` | `NothingForgotten` |
| | `DeadlinesWatched` | `EveryDeadlineWatched` |
| | `NoTimeoutEarly` | `NeverEarly` |
| | `NothingAfterUninstall` | `SilentAfterUninstall` |
| | `WaitersAreCovered` | safety half of `SyncReturns` |
| | `WatchHolds` | `Custody` and `Watch` |
| | `ClientKeepsPromise` | `PromiseKept` (implements RpcCall) |
| `RpcTypeHandlerProofs` | `TypeCorrect`, `RunningHandlersRegistered` | `TypeOK`, `RunningIsRegistered` |
| | `FirstStays`, `OthersKept` | `FirstRegistrationStays`, `OthersStay` |
| `GayRpcServiceProofs` | `TypeCorrect`, `OneReply` | `TypeOK`, `AnsweredAtMostOnce` |
| | `FlagMeansAnswer`, `RejectionsNamed` | `FlagAccountedFor`, `RejectionNamesRequest` |
| | `OneBearsTheNumber` | `OneResponseBearsTheNumber` |
| | `ServingHolds` | inductive invariant `Serving` |
| | `ErrorsHaveAnOwner`, `ErrorsStayOwed` | safety half of `ErrorReported` |
| | `HandedOverOnce` | `HandedOver`, inductive beside `Serving` |
| `BinaryProtocolProofs` | `TypeCorrect`, `NothingStaysBehind` | `TypeOK`, `NothingHeldBack` |
| | `OrderKept` | `DeliveredInOrder` |
| | `StreamHolds` | inductive invariant `Stream` |
| `ServiceConnectionProofs` | `TypeCorrect`, `ServicesCloseInOrder` | `TypeOK`, `ClosedInOrder` |
| | `ConfigurationKept` | `ServesWhatWasAsked` |
| | `ChainsPileUp` | finding 5, for any number of services |
| | `OthersAreNotTold` | HTTP and failed connections close nothing |
| | `ConnectionHolds` | inductive invariant `Connection` |
| `RpcMetaProofs` | `ParsedIsWritten` | `ParseMeta(SerializeMeta(m)) = m` for every meta |
| | `ConcatenationIsMerge` | reading two messages on end is `Merge` |
| | `CopyIsEqual` | `CopyOf(m) = m` |
| | `AnnouncedIsWritten` | `MetaByteSize(m) = WireSize(SerializeMeta(m))` |
| `RpcSessionProofs` | `TypeCorrect`, `AnswersMeetTheirCalls` | `TypeOK`, `AnswerMeetsItsCall` |
| | `AnswersProveExecution` | `AnswerProvesExecution` |
| | `ExecutedNoMoreThanSent` | `ExecutedAsSent` |
| | `ParsedAsWritten` | `WrittenIsRead` |
| | `SizesAreAnnounced` | `SizeAnnounced` |
| | `ChainsInOrder` | `ChainsRunInOrder` |
| | `CallsStayEnded` | `EndedForGood` |
| | `ResponsesEndTheirCalls` | `ResponseEndsItsCall` |
| | `CallsOnlyMoveForward` | a step moves one call at most, and forward |
| | `CallbacksAreCounted` | which callback of a call ran, and how often |
| | `ApartHaveOwnAnswers` | clients with a service of their own, not 0, get their own answers |
| | `TimersReachServiceZeroOnly` | finding 1, for any two programs |
| | `SessionInvariant` | inductive invariant `Invariant` |

*The client.* "At most one callback" is not inductive: a state with an ended call
whose stub is still in the table satisfies it and breaks it one step later.
`Custody` says where the right to end a call may be (with the thread that drew the
number, in the tables, moved out to one thread, in a batch, in a loop's queue),
that these places exclude each other, that an ended call is in none, and that an
undrawn number is in none. It needs two facts that are not about places: a timer
carries its call's end time, so that a batch never has two timers of one call, and
`mine` of a busy thread was drawn, so that a new number meets nobody's. Layout:
`InitCustody`; one lemma per way the right moves (`DrawKeeps`, `RegisterKeeps`,
`TakeKeeps`, `SweepKeeps`, `CallbackKeeps`, `UnwindKeeps`, `EndKeeps`, `PostedKeeps`),
`QuietKeeps` for the steps that move none, `StampKeeps` for the end time; `TypeStep`
and `CustodyStep` have one step per action and cite them.

*Deadlines.* `Watch` adds what the end time, the timer and the callbacks of a call
have to do with each other: a stub of a timed call has its timeout callback and its
timer beside it, an event loop's timer never fires before the call's end time, and
who is about to report a timeout read a clock at which it was due. It is inductive
beside `Custody`; each of its parts has a step lemma of its own. `Quiet`, beside the
type invariant, says that once the stub is uninstalled no thread is in it any more:
`uninstall()` waits for the handle manager's mutex, which a running handler holds.

*Waiting.* That a synchronous call comes back is liveness and stays with TLC; what it
rests on is proved. `WaiterCovered` says of a thread in `wait()` that its call has ended,
or its timeout callback is in the table with its timer in the queue, or its response is
posted to a loop, or another thread has its callbacks in hand. It follows from `Custody`
and `Watch` with `CallersApart`: threads in the middle of calls have different numbers,
so what ends the call is never left to the one that waits for it.

*Refinement.* `PhaseOf` maps a number to the phase of an abstract call. Under
`Custody` its cases exclude each other (`PhasesAre`): a call is open exactly while
somebody but its caller can end it. `NoStep` and `PhaseStep` say what a step of the
client is to RpcCall from what it does to one call; then there is a lemma per action:
`Register` opens, `StampTimer` schedules, handlers respond, `RunTimeoutHandler` and
`RunCallback` expire (that the deadline has passed is `Watch`), `DropResponse`,
`RunPosted` and `UnwindCallbacks` give up, the rest stutters. A timeout meta never
takes away a stub without its callback because only timed calls have timers (`Watch`).

*The registry.* `TypeOK` and `RunningIsRegistered` are inductive together: a writer goes
on only when nothing runs. `PutOnly` and `WithoutOnly` say of the nested maps what
registering and removing change, for both action properties.

*The service.* `Serving` follows the meta: as long as a request is on its way its meta
is in one place, and nobody has made a reply object of it; who has given it away is
left with an empty one; a request that was rejected under its own number never
reaches a reply object, which is why its number is on one response only.
`HandedOver` follows the error of a request between the two threads. A request goes to
the loop once; while it is there its promise is open, and the stub is attached to it or
has yet to look. So an error always has an owner (`Owed`), and `OwedUntilReported` says
that it keeps one until it is in an error response, which goes out or which an outbound
interceptor throws away: no
order of `setValue` on the loop and `isReady`, `thenValue` on the connection's thread
loses it. A promise that breaks is not an error in this sense; see the end of section 4.

*The protocol.* `Stream` says of bytes that have not been read yet that from the reader's
position on they are a row of whole packets, by the offsets at which these end, and
that what was delivered is `Requested` of the packets before it. `Requested` is a fold;
`RequestedGrows` says that a longer row only adds to it.

*The connection.* `Connection` says that nothing is closed before the disconnect
callback runs, and that the vector that all chains are copied from only grows behind
what the builder put into it. `Exact` goes further: the outbound vector is, at every
moment, what the builder put into it and a sender (HTTP: two interceptors) for each
service built so far. `ClosedInOrder` needs of it that the services which came in have
different ids (`IdsDiffer`), or `uninstall()` of one would take out another, and that
the disconnect callback holds the close callbacks of just those services whose turn has
not come (`CallbacksToCome`, `TakenDown`), also between `uninstall()` and `onClose()` of
the one in front.

*Induction over data.* Reading, writing, chains and what the parser keeps are folds
over sequences of any length. The induction theorems of the library take a formula as
a parameter, which no prover here can instantiate. Instead `Folding!Least`, every set
of numbers that has an element has a least one, is derived from the well-foundedness
of inclusion among finite sets, and each induction is a least counterexample.
`FoldHasTrace` and `TraceIsUnique` turn a fold into the sequence of values it comes
past; `FoldConcat`, `FoldOne` and `FoldEmpty` say how folds go on. `Folding` has the
operator as a constant and is instantiated for each one that is folded; a short lemma
each (`RequestFoldLeft`, `RowFoldLeft`, ...) says that the library's `FoldLeft` is this.

*The message.* What is written of a message is a row of fields, so that reading it back
goes field by field: one lemma for each, that a field at its default, which is left
out, was at its default before, and one for the unknown fields, which are kept because
none is a known one (`IsMeta`). Entries of the map have different keys and may come in any
order: after the i-th the map holds just the first i. `ConcatenationIsMerge` is the
same with any message read before, where a default does not replace.
`AnnouncedIsWritten` compares two computations that share nothing but the sizes of a
number and of a string: `ByteSizeLong` adds up from the fields, and sums the map over its
keys in one order; what is written is a row in which the entries stand in another.
`TotalOfSet` says that a sum over a set of numbers is the same in every order, by
letting the set grow one element at a time and counting it in both. Both orders are unspecified
(`SetToSeq`), as hash maps are. `Texts` are the strings that have a length.

*The session.* `AnswerMeetsItsCall` and `AnswerProvesExecution` look at how calls ended;
what they rest on is what was under way before. `Wires` says of every frame that it
fits: it is the serialized form of a meta, about a call that was made, and a request with
that call's service and number to the other end, or an answer to it, which has these
too unless it is an error with service 0, number 0 and code 0, and which says anything
but an error without a code only if a service method ran. `HeldBack` says the same of reply objects
that services keep, `Registry` who may be registered where, `Tables` that a call is open
exactly while its number is in the stub table, `Endings` that who has not ended was told
nothing. `InBudget` bounds what services ran plus what is still under way, each request
counted as often as the other end's chain lets it run; `ExecutedAsSent` follows because
that is at least once. The proof first brings every step to one of two forms: it
leaves all calls as they are or ends one of them in a permitted way (`Settles`, `MayEnd`),
and it drops the head of a wire, writes behind one, or both (`Replies`, `Claims`); what
chains do enters only as the numbers that `Times` and `Visits` give. These are known for
every chain by induction over the rounds of `makeInterceptor`: a fresh `next` leads to
the handler no more often than the last interceptor repeats it, a spent one never.
`CallsStayEnded` is `Settles` again, and so is `CallsOnlyMoveForward`, which is what RpcCall
promises less the deadlines: the session has no clock. `CallbacksAreCounted` needs no more
than that, with the number of callbacks of the one step that ends a call (`Runs`). `ResponsesEndTheirCalls` adds that while the
connection lasts a frame disappears only as the head of its wire, and that a head
which names an open call of the registered client ends that call.

Only model-checked:
- all liveness (`DeadlineKept`, `SyncReturns`, `TimersDrain`, `ArmedTimerEnds`,
  `WritersReturn`, `ErrorReported`, `EventuallyDelivered`, `EveryServiceClosed`): fairness
  and ENABLED are out of the prover's reach. What `SyncReturns`, `ErrorReported` and
  `EveryServiceClosed` need of the states is proved (`WaitersAreCovered`, `ErrorsStayOwed`,
  `ServicesCloseInOrder`), and that the step then comes is not;
- that the findings' properties fail, which is what their runs are for.

## 6. What is not modelled

- Inbound interceptors and brynet's listen and connect settings in the builders
  (collected like what is modelled, or handed on), and `ClientBuilder`, whose
  `asyncConnect` works on a copy and keeps no state.
- The conversion between HTTP and messages: a function without state.
- The text and the timeout flag of `RpcError`.
- Of the generated code, the option extensions (read by the code generator only), the
  messages of the examples, arenas and the registration of descriptors. JSON.
- The network thread checker of the client: `OnBinaryRpcClient` sets it when it makes
  the client, and nothing in the repository asks it.
- An exception of `uninstall()` or `onClose()` inside the loop of the disconnect
  callback: nothing in the loop catches it, and the services behind it would stay.
- A limit on the receive buffer: brynet's buffer grows with what arrives, the model's has
  no bound.
- A handler that re-enters the handle manager, and a synchronous call on the network
  thread: each waits for itself, which the program is told not to do; they are listed
  as hazards.
- Wrap-around of the 64-bit sequence counter: out of reach of a program's life.
- The benchmark, the tests, build files and the vendored test framework.
- brynet and folly: external; modelled by how gayrpc uses them (delivery of bytes,
  event loop, promise).

## 7. How the development was laid out, and what is left

Order: client, registry, service, protocol, connection; then chains and messages as
functions, the session that composes them, and the proofs, the client's first
because every other part ends in it and the session's last because it needs the
message's and the chains'. Left for whoever goes on:
1. RpcSession with GayRpcClient's threads in it: handlers that are more than a step.
2. A clock in RpcSession, and with it a refinement of RpcCall with one abstract call for
   each call; without deadlines `CallsOnlyMoveForward` says it.
