---------------------------- MODULE GayRpcClient ----------------------------
(***************************************************************************)
(* The client half of gayrpc: BaseClient (GayRpcClient.h) with the         *)
(* response stub it installs in the RpcTypeHandleManager, and the two      *)
(* timeout mechanisms a program may use with it, polling checkTimeout()    *)
(* and the withTimeoutCheck outbound interceptor (UtilsInterceptor.h).     *)
(*                                                                         *)
(* Every critical section on mStubMapGuard is one action; what a thread    *)
(* does before it takes the lock and after it has released the lock are    *)
(* actions of their own, so that any number of threads interleave there.   *)
(* A user callback is run with no lock of the client held: a call that a   *)
(* callback makes is a call its thread makes next.                         *)
(***************************************************************************)
EXTENDS Integers, FiniteSets

CONSTANTS
  Callers,       \* threads that make calls
  SyncCallers,   \* the callers that also use SyncXxx(...).wait()
  Workers,       \* threads that process input, run timers and poll checkTimeout
  Timeouts,      \* the timeouts a timed call may ask for
  TimeoutCheck,  \* whether withTimeoutCheck is in the outbound chain
  ServiceID,     \* the id the client's response stub is registered under
  MaxCalls,      \* bound: how many calls are made
  MaxTime        \* bound: where the clock stops

ASSUME TimeoutsAreTimes == Timeouts \subseteq Nat
ASSUME BoundsAreNumbers == MaxCalls \in Nat /\ MaxTime \in Nat
ASSUME TimeoutCheckIsFlag == TimeoutCheck \in BOOLEAN
\* "Do not use synchronous RPC on the network thread", SyncEchoClient.cpp:61.
ASSUME SyncOffNetworkThread ==
  /\ SyncCallers \subseteq Callers
  /\ SyncCallers \cap Workers = {}

Threads == Callers \cup Workers
Seqs    == 0..(MaxCalls - 1)
Never   == -1                       \* the end time of a call with no timer
Kinds   == {"none", "oneway", "plain", "timed", "sync"}
Timed   == {"timed", "sync"}        \* the kinds that carry a timeout callback

VARIABLES
  mSequenceID,              \* next sequence number
  mStubHandleMap,           \* keys of the response stubs
  mTimeoutHandleMap,        \* keys of the timeout callbacks
  mWaitResponseTimerQueue,  \* timers [seq, end] that checkTimeout looks at
  installed,                \* the response stub is in the handle manager
  connected,                \* the session the sender writes to still exists
  clock,                    \* std::chrono::steady_clock
  call,                     \* call[s]: what was asked for when s was drawn
  sent,                     \* requests that went out
  armed,                    \* event loop timers [seq, end] of withTimeoutCheck
  loopQueue,                \* response handlers posted to another event loop
  pc, mine, stamp, batch,   \* per thread: position, call in hand, time read, callbacks
  responded, timedOut, lost \* history: how often s was called back, or given up

tables  == <<mSequenceID, mStubHandleMap, mTimeoutHandleMap, mWaitResponseTimerQueue>>
link    == <<installed, connected>>
env     == <<sent, armed, loopQueue>>
history == <<responded, timedOut, lost>>
vars    == <<tables, link, clock, call, env, pc, mine, stamp, batch, history>>

Timers == [seq : Seqs, end : Nat]
PCs == {"idle", "stamp", "register", "send", "arm", "wait",
        "handle", "expire", "check", "sweep", "unwind"}

TypeOK ==
  /\ mSequenceID \in 0..MaxCalls
  /\ mStubHandleMap \subseteq Seqs
  /\ mTimeoutHandleMap \subseteq Seqs
  /\ mWaitResponseTimerQueue \subseteq Timers
  /\ installed \in BOOLEAN
  /\ connected \in BOOLEAN
  /\ clock \in 0..MaxTime
  /\ call \in [Seqs -> [kind : Kinds, timeout : Nat, end : Nat \cup {Never}]]
  /\ sent \subseteq Seqs
  /\ armed \subseteq Timers
  /\ loopQueue \subseteq Seqs
  /\ pc \in [Threads -> PCs]
  /\ mine \in [Threads -> Seqs \cup {Never}]
  /\ stamp \in [Threads -> Nat]
  /\ batch \in [Threads -> SUBSET Timers]
  /\ responded \in [Seqs -> Nat]
  /\ timedOut \in [Seqs -> Nat]
  /\ lost \subseteq Seqs

Init ==
  /\ mSequenceID = 0
  /\ mStubHandleMap = {}
  /\ mTimeoutHandleMap = {}
  /\ mWaitResponseTimerQueue = {}
  /\ installed = TRUE
  /\ connected = TRUE
  /\ clock = 0
  /\ call = [s \in Seqs |-> [kind |-> "none", timeout |-> 0, end |-> Never]]
  /\ sent = {}
  /\ armed = {}
  /\ loopQueue = {}
  /\ pc = [t \in Threads |-> "idle"]
  /\ mine = [t \in Threads |-> Never]
  /\ stamp = [t \in Threads |-> 0]
  /\ batch = [t \in Threads |-> {}]
  /\ responded = [s \in Seqs |-> 0]
  /\ timedOut = [s \in Seqs |-> 0]
  /\ lost = {}

Goto(t, from, to) == pc[t] = from /\ pc' = [pc EXCEPT ![t] = to]

-----------------------------------------------------------------------------
(* Making a call.                                                          *)

\* mSequenceID++ and the request's RpcMeta: one atomic fetch-and-add.
DrawSequence(t, kind, d, next) ==
  /\ Goto(t, "idle", next)
  /\ mSequenceID < MaxCalls
  /\ mSequenceID' = mSequenceID + 1
  /\ mine' = [mine EXCEPT ![t] = mSequenceID]
  /\ call' = [call EXCEPT ![mSequenceID] = [kind |-> kind, timeout |-> d, end |-> Never]]
  /\ UNCHANGED <<mStubHandleMap, mTimeoutHandleMap, mWaitResponseTimerQueue,
                 link, clock, env, stamp, batch, history>>

CallTimed(t) == \E d \in Timeouts : DrawSequence(t, "timed", d, "stamp")
CallSync(t)  == t \in SyncCallers /\ \E d \in Timeouts : DrawSequence(t, "sync", d, "stamp")
CallPlain(t) == DrawSequence(t, "plain", 0, "register")
CallOneWay(t) == DrawSequence(t, "oneway", 0, "send")   \* handle = nullptr

\* The WaitResponseTimer is built from the clock before the lock is taken.
StampTimer(t) ==
  /\ Goto(t, "stamp", "register")
  /\ call' = [call EXCEPT ![mine[t]].end = clock + call[mine[t]].timeout]
  /\ UNCHANGED <<tables, link, clock, env, mine, stamp, batch, history>>

\* What the timed call() overload adds to the tables.
TimeoutOf(s) == IF call[s].kind \in Timed THEN {s} ELSE {}

TimerOfEvery(s) == {[seq |-> s, end |-> call[s].end]}  \* bug: plain calls get one too
NoTimer(s)      == {}                                  \* bug: the push is forgotten

TimerOf(s) == IF call[s].kind \in Timed THEN {[seq |-> s, end |-> call[s].end]} ELSE {}

\* The critical section of call(): both overloads.
Register(t) ==
  LET s == mine[t] IN
  /\ Goto(t, "register", "send")
  /\ mStubHandleMap' = mStubHandleMap \cup {s}
  /\ mTimeoutHandleMap' = mTimeoutHandleMap \cup TimeoutOf(s)
  /\ mWaitResponseTimerQueue' = mWaitResponseTimerQueue \cup TimerOf(s)
  /\ UNCHANGED <<mSequenceID, link, clock, call, env, mine, stamp, batch, history>>

AfterSend(s) == IF call[s].kind = "sync" THEN "wait" ELSE "idle"

\* withSessionBinarySender: a session that is gone drops the message silently
\* and the rest of the chain runs all the same.
SendRequest(t) ==
  LET s == mine[t] IN
  /\ Goto(t, "send", IF TimeoutCheck /\ call[s].timeout > 0 THEN "arm" ELSE AfterSend(s))
  /\ sent' = IF connected THEN sent \cup {s} ELSE sent
  /\ UNCHANGED <<tables, link, clock, call, armed, loopQueue, mine, stamp, batch, history>>

\* bug: a call whose chain fails is taken back without a word to the caller.
OutboundForgets(t) ==
  /\ Goto(t, "send", "idle")
  /\ mStubHandleMap' = mStubHandleMap \ {mine[t]}
  /\ mTimeoutHandleMap' = mTimeoutHandleMap \ {mine[t]}
  /\ UNCHANGED <<mSequenceID, mWaitResponseTimerQueue, link, clock, call, env, mine, stamp,
                 batch, history>>

\* A user interceptor in front of the sender throws (so SyncXxx has no future to
\* wait for) or answers with an error, which call() does not look at: nothing is
\* sent and no timer is armed.
OutboundRejects(t) ==
  /\ pc[t] = "send"
  /\ \E next \in {"idle", AfterSend(mine[t])} : pc' = [pc EXCEPT ![t] = next]
  /\ UNCHANGED <<tables, link, clock, call, env, mine, stamp, batch, history>>

\* withTimeoutCheck stands behind the sender (SyncEchoClient.cpp:24).
ArmTimer(t) ==
  LET s == mine[t] IN
  /\ Goto(t, "arm", AfterSend(s))
  /\ armed' = armed \cup {[seq |-> s, end |-> clock + call[s].timeout]}
  /\ UNCHANGED <<tables, link, clock, call, sent, loopQueue, mine, stamp, batch, history>>

EndedByResponse(s) == responded[s] > 0 \/ s \in lost  \* bug: no timeout callback is passed

\* SyncXxx: the promise is fulfilled by either callback, and broken when both
\* callbacks are destroyed without having run.
Ended(s) == responded[s] + timedOut[s] > 0 \/ s \in lost

WaitReturns(t) ==
  /\ Goto(t, "wait", "idle")
  /\ Ended(mine[t])
  /\ UNCHANGED <<tables, link, clock, call, env, mine, stamp, batch, history>>

-----------------------------------------------------------------------------
(* Input: responses from the peer, and the timeout metas of causeTimeout.  *)

\* What was found in a table is moved out of it and called without the lock.
MoveOut(t, s, table, next) ==
  IF s \in table
    THEN Goto(t, "idle", next) /\ mine' = [mine EXCEPT ![t] = s]
    ELSE pc[t] = "idle" /\ UNCHANGED <<pc, mine>>

\* bug: the timeout callback of an answered call stays behind.
TakeResponseOnly(t, s) ==
  /\ mStubHandleMap' = mStubHandleMap \ {s}
  /\ MoveOut(t, s, mStubHandleMap, "handle")
  /\ UNCHANGED <<mSequenceID, mTimeoutHandleMap, mWaitResponseTimerQueue>>

\* The critical section of processRpcResponse for an ordinary response.  The
\* timeout callback goes first; a response with no stub throws.
TakeResponse(t, s) ==
  /\ mTimeoutHandleMap' = mTimeoutHandleMap \ {s}
  /\ mStubHandleMap' = mStubHandleMap \ {s}
  /\ MoveOut(t, s, mStubHandleMap, "handle")
  /\ UNCHANGED <<mSequenceID, mWaitResponseTimerQueue>>

\* The peer answers a request late, more than once or not at all, and an error
\* answer may carry sequence number 0 instead of the request's.
ReceiveResponse(t) ==
  /\ installed
  /\ connected
  /\ \E r \in sent : \E s \in {r, 0} : TakeResponse(t, s)
  /\ UNCHANGED <<link, clock, call, env, stamp, batch, history>>

\* handle(...): the response is parsed, passes the inbound chain and reaches
\* the caller's handler, on this thread or on an event loop (withEventLoop).
RunHandler(t) ==
  LET s == mine[t] IN
  /\ Goto(t, "handle", "idle")
  /\ \/ responded' = [responded EXCEPT ![s] = @ + 1] /\ UNCHANGED <<loopQueue, lost>>
     \/ loopQueue' = loopQueue \cup {s} /\ UNCHANGED <<responded, lost>>
  /\ UNCHANGED <<tables, link, clock, call, sent, armed, mine, stamp, batch, timedOut>>

\* The response does not parse, or an inbound interceptor keeps it back.
DropResponse(t) ==
  /\ Goto(t, "handle", "idle")
  /\ lost' = lost \cup {mine[t]}
  /\ UNCHANGED <<tables, link, clock, call, env, mine, stamp, batch, responded, timedOut>>

\* The rest of the inbound chain runs on the loop, and may keep the response.
RunPosted(t) ==
  /\ pc[t] = "idle"
  /\ \E s \in loopQueue :
       /\ loopQueue' = loopQueue \ {s}
       /\ \/ responded' = [responded EXCEPT ![s] = @ + 1] /\ UNCHANGED lost
          \/ lost' = lost \cup {s} /\ UNCHANGED responded
  /\ UNCHANGED <<tables, link, clock, call, sent, armed, pc, mine, stamp, batch, timedOut>>

\* bug: the response stub of an expired call stays behind.
TakeTimeoutOnly(t, s) ==
  /\ mTimeoutHandleMap' = mTimeoutHandleMap \ {s}
  /\ MoveOut(t, s, mTimeoutHandleMap, "expire")
  /\ UNCHANGED <<mSequenceID, mStubHandleMap, mWaitResponseTimerQueue>>

\* bug: the timeout callback is erased and not moved out.
TakeTimeoutSilently(t, s) ==
  /\ mStubHandleMap' = mStubHandleMap \ {s}
  /\ mTimeoutHandleMap' = mTimeoutHandleMap \ {s}
  /\ MoveOut(t, s, {}, "expire")
  /\ UNCHANGED <<mSequenceID, mWaitResponseTimerQueue>>

\* The critical section of processRpcResponse for a timeout meta.
TakeTimeout(t, s) ==
  /\ mStubHandleMap' = mStubHandleMap \ {s}
  /\ mTimeoutHandleMap' = mTimeoutHandleMap \ {s}
  /\ MoveOut(t, s, mTimeoutHandleMap, "expire")
  /\ UNCHANGED <<mSequenceID, mWaitResponseTimerQueue>>

\* causeTimeout leaves the meta's service id at its default, 0; when nothing is
\* registered there the exception of handleRpcMsg is caught and logged.
TimeoutServiceID == 0

FireTimer(t) ==
  /\ \E q \in armed :
       /\ q.end <= clock
       /\ armed' = armed \ {q}
       /\ IF installed /\ ServiceID = TimeoutServiceID
            THEN TakeTimeout(t, q.seq)
            ELSE pc[t] = "idle" /\ UNCHANGED <<tables, mine, pc>>
  /\ UNCHANGED <<link, clock, call, sent, loopQueue, stamp, batch, history>>

RunTimeoutHandler(t) ==
  /\ Goto(t, "expire", "idle")
  /\ timedOut' = [timedOut EXCEPT ![mine[t]] = @ + 1]
  /\ UNCHANGED <<tables, link, clock, call, env, mine, stamp, batch, responded, lost>>

-----------------------------------------------------------------------------
(* checkTimeout()                                                          *)

\* The clock is read before the lock is taken.
CheckTimeout(t) ==
  /\ Goto(t, "idle", "check")
  /\ stamp' = [stamp EXCEPT ![t] = clock]
  /\ UNCHANGED <<tables, link, clock, call, env, mine, batch, history>>

DueStrictly(t) == {q \in mWaitResponseTimerQueue : q.end < stamp[t]}      \* bug: >= for >
DueTooSoon(t)  == {q \in mWaitResponseTimerQueue : q.end <= stamp[t] + 1}  \* bug: rounded up

Due(t)     == {q \in mWaitResponseTimerQueue : q.end <= stamp[t]}
Expired(t) == {q \in Due(t) : q.seq \in mTimeoutHandleMap}
Keys(timers) == {q.seq : q \in timers}

\* The critical section: callbacks that are still there are moved out of the
\* tables, popped timers leave the queue.
Sweep(t, popped, stubs) ==
  /\ Goto(t, "check", IF Expired(t) = {} THEN "idle" ELSE "sweep")
  /\ batch' = [batch EXCEPT ![t] = Expired(t)]
  /\ mTimeoutHandleMap' = mTimeoutHandleMap \ Keys(Expired(t))
  /\ mStubHandleMap' = mStubHandleMap \ stubs
  /\ mWaitResponseTimerQueue' = mWaitResponseTimerQueue \ popped
  /\ UNCHANGED <<mSequenceID, link, clock, call, env, mine, stamp, history>>

SweepKeepsStubs(t)  == Sweep(t, Due(t), {})                   \* bug: stubs are not erased
SweepPopsExpired(t) == Sweep(t, Expired(t), Keys(Expired(t))) \* bug: the pop is in the if

\* Every due timer is popped, whether its callback is still there or not.
SweepTimers(t) == Sweep(t, Due(t), Keys(Expired(t)))

\* The callbacks run in the order of their end times, outside the lock.  One
\* that throws ends the loop.
RunCallback(t) ==
  /\ pc[t] = "sweep"
  /\ \E q \in batch[t] :
       /\ \A other \in batch[t] : q.end <= other.end
       /\ timedOut' = [timedOut EXCEPT ![q.seq] = @ + 1]
       /\ batch' = [batch EXCEPT ![t] = @ \ {q}]
       /\ \/ pc' = [pc EXCEPT ![t] = IF batch[t] = {q} THEN "idle" ELSE "sweep"]
          \/ batch[t] # {q} /\ pc' = [pc EXCEPT ![t] = "unwind"]
  /\ UNCHANGED <<tables, link, clock, call, env, mine, stamp, responded, lost>>

\* The exception destroys the vector with the callbacks that had not run.
UnwindCallbacks(t) ==
  /\ Goto(t, "unwind", "idle")
  /\ lost' = lost \cup {q.seq : q \in batch[t]}
  /\ batch' = [batch EXCEPT ![t] = {}]
  /\ UNCHANGED <<tables, link, clock, call, env, mine, stamp, responded, timedOut>>

-----------------------------------------------------------------------------
(* The session closes; the disconnect callback calls uninstall().          *)

Disconnect ==
  /\ connected
  /\ connected' = FALSE
  /\ UNCHANGED <<tables, installed, clock, call, env, pc, mine, stamp, batch, history>>

\* bug: the stub is removed while it may be running.
UninstallUnlocked ==
  /\ installed
  /\ installed' = FALSE
  /\ UNCHANGED <<tables, connected, clock, call, env, pc, mine, stamp, batch, history>>

\* removeTypeHandle needs the manager's mutex for itself; handleRpcMsg holds it
\* shared for as long as the stub it calls runs.
Uninstall ==
  /\ installed
  /\ \A t \in Threads : pc[t] \notin {"handle", "expire"}
  /\ installed' = FALSE
  /\ UNCHANGED <<tables, connected, clock, call, env, pc, mine, stamp, batch, history>>

Tick ==
  /\ clock < MaxTime
  /\ clock' = clock + 1
  /\ UNCHANGED <<tables, link, call, env, pc, mine, stamp, batch, history>>

-----------------------------------------------------------------------------
MakeCall(t) == CallTimed(t) \/ CallSync(t) \/ CallPlain(t) \/ CallOneWay(t)

\* What a thread does once it has begun: it is never left half way.
Proceed(t) ==
  \/ StampTimer(t) \/ Register(t)
  \/ SendRequest(t) \/ OutboundRejects(t) \/ ArmTimer(t) \/ WaitReturns(t)
  \/ RunHandler(t) \/ DropResponse(t) \/ RunTimeoutHandler(t)
  \/ SweepTimers(t) \/ RunCallback(t) \/ UnwindCallbacks(t)

Next ==
  \/ \E t \in Callers : MakeCall(t)
  \/ \E t \in Threads : Proceed(t)
  \/ \E t \in Workers : ReceiveResponse(t) \/ FireTimer(t) \/ RunPosted(t) \/ CheckTimeout(t)
  \/ Disconnect \/ Uninstall \/ Tick

Spec == Init /\ [][Next]_vars

\* Fairness.  A thread that has begun finishes; time passes; and every round of
\* an event loop serves its due timers and posted functors, so a loop that keeps
\* coming round serves them.
LoopFairness ==
  /\ WF_vars(Tick)
  /\ \A t \in Threads : WF_vars(Proceed(t))
  /\ SF_vars(\E t \in Workers : FireTimer(t))
  /\ SF_vars(\E t \in Workers : RunPosted(t))

\* No thread of gayrpc polls checkTimeout: that the program does is an assumption.
Polling == SF_vars(\E t \in Workers : CheckTimeout(t))

LoopSpec == Spec /\ LoopFairness

-----------------------------------------------------------------------------
(* Where the right to end a call is.                                       *)

\* Drawn, not yet in the tables.
Preparing(t) == IF pc[t] \in {"stamp", "register"} THEN {mine[t]} ELSE {}

\* Moved out of the tables by thread t, which is about to call back.
Holding(t) ==
  CASE pc[t] \in {"handle", "expire"} -> {mine[t]}
    [] pc[t] \in {"sweep", "unwind"}  -> {q.seq : q \in batch[t]}
    [] OTHER -> {}

Hands(t) == Preparing(t) \cup Holding(t)

EndCount(s) == responded[s] + timedOut[s] + (IF s \in lost THEN 1 ELSE 0)

-----------------------------------------------------------------------------
(* Properties                                                              *)

\* A call is called back at most once in all: never by its response handler and
\* its timeout callback, never twice by one of them, however responses, timeout
\* metas and checkTimeout race.  SyncXxx relies on it: a promise fulfilled twice
\* throws.
CalledBackAtMostOnce == \A s \in Seqs : EndCount(s) <= 1

\* The right to end a call is in one place: with the thread that is making the
\* call, in the tables, with the one thread that moved it out, or in an event
\* loop's queue; and a call that has ended is in none.  A timeout callback is
\* never in its table without the response stub beside it.  At "register" this
\* is the pair of assertions in call().
OneHolder ==
  /\ mTimeoutHandleMap \subseteq mStubHandleMap
  /\ mStubHandleMap \cap loopQueue = {}
  /\ \A t \in Threads : Hands(t) \cap (mStubHandleMap \cup loopQueue) = {}
  /\ \A t, u \in Threads : t # u => Hands(t) \cap Hands(u) = {}
  /\ \A s \in Seqs : EndCount(s) > 0 =>
       s \notin mStubHandleMap \cup loopQueue \cup UNION {Hands(t) : t \in Threads}

\* No call that expects an answer is forgotten: from the moment its number is
\* drawn until it ends, somebody can still end it.
NothingForgotten ==
  \A s \in Seqs : call[s].kind \notin {"none", "oneway"} =>
    \/ s \in mStubHandleMap \cup loopQueue \cup UNION {Hands(t) : t \in Threads}
    \/ EndCount(s) > 0

\* checkTimeout finds every deadline: a timeout callback in the table has its
\* timer in the queue, with the end time the caller asked for.
EveryDeadlineWatched ==
  \A s \in mTimeoutHandleMap : [seq |-> s, end |-> call[s].end] \in mWaitResponseTimerQueue

\* Neither mechanism reports a timeout before the call's end time, although
\* checkTimeout compares with a clock it read before it took the lock.
NeverEarly ==
  \A s \in Seqs : timedOut[s] > 0 => call[s].kind \in Timed /\ call[s].end <= clock

\* Once uninstall() has returned, no response handler runs any more except one
\* that was already posted to an event loop.
SilentAfterUninstall ==
  [][~installed => \A s \in Seqs : responded'[s] # responded[s] => s \in loopQueue]_vars

\* The client implements RpcCall: numbers are calls, and a call is open while
\* anybody but its caller can end it.
Open(s) == s \in mStubHandleMap \cup loopQueue \cup UNION {Holding(t) : t \in Threads}

PhaseOf(s) ==
  CASE EndCount(s) > 1    -> "ended twice"
    [] responded[s] > 0   -> "responded"
    [] timedOut[s] > 0    -> "timedout"
    [] s \in lost         -> "lost"
    [] Open(s)            -> "open"
    [] OTHER              -> "unborn"

EndTimes == {c + d : c \in 0..MaxTime, d \in Timeouts}

Promise == INSTANCE RpcCall WITH
  Calls <- Seqs,
  Deadlines <- EndTimes,
  phase <- [s \in Seqs |-> PhaseOf(s)],
  expiry <- [s \in Seqs |-> call[s].end],
  now <- clock

PromiseKept == Promise!Spec

\* With a program that polls checkTimeout, every timed call ends whose end time
\* the clock reaches, whatever the peer does, whether the session is there or
\* not, and whether the request ever left.
DeadlineKept ==
  Polling => \A s \in Seqs :
    (\E q \in mWaitResponseTimerQueue : q.seq = s /\ q.end <= MaxTime) ~> Ended(s)

\* ... and so a thread that waits for a synchronous call comes back.
SyncReturns ==
  Polling => \A t \in SyncCallers :
    (pc[t] = "wait" /\ call[mine[t]].end <= MaxTime) ~> pc[t] # "wait"

\* The timer queue empties again although a response leaves its timer behind.
TimersDrain ==
  Polling => \A s \in Seqs :
    (\E q \in mWaitResponseTimerQueue : q.seq = s /\ q.end <= MaxTime)
      ~> ~(\E q \in mWaitResponseTimerQueue : q.seq = s)

\* With withTimeoutCheck and nobody who polls, a call whose event loop timer was armed ends,
\* as long as the client stays installed.
ArmedTimerEnds ==
  \A s \in Seqs :
    (\E q \in armed : q.seq = s /\ q.end <= MaxTime) ~> (Ended(s) \/ ~installed)

\* A request timeout of 0 asks for no timeout check (gayrpc_meta.proto:25).
ZeroMeansNoTimeout ==
  \A s \in Seqs : call[s].timeout = 0 => timedOut[s] = 0

=============================================================================
