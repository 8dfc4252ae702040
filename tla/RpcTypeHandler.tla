--------------------------- MODULE RpcTypeHandler ---------------------------
(***************************************************************************)
(* RpcTypeHandleManager (GayRpcTypeHandler.h): the registry through which  *)
(* every decoded message finds the service or the client it is for, and    *)
(* the shared_mutex that guards it.  registerTypeHandle, removeTypeHandle  *)
(* and removeAll hold the mutex exclusively for a few map operations, so   *)
(* each is one action once the mutex is free.  handleRpcMsg holds it       *)
(* shared while the handler it found runs: dispatchers overlap, and a      *)
(* writer waits for all of them.                                           *)
(***************************************************************************)
EXTENDS Naturals, FiniteSets, Functions

CONSTANTS
  Threads,      \* threads that install and uninstall handlers
  Dispatchers,  \* threads that deliver messages
  Types,        \* RpcMeta::Type
  Services,     \* service ids
  Handlers      \* handlers that may be registered

ASSUME RolesAreApart == Threads \cap Dispatchers = {}

VARIABLES
  mTypeHandlers,  \* per type that has any: per service that has one, its handler
  op,             \* op[t]: the call thread t is in
  running         \* running[d]: the handler dispatcher d is inside of, under the lock

vars == <<mTypeHandlers, op, running>>

Idle     == [name |-> "idle"]
None     == [name |-> "none"]
Keys     == [type : Types, service : Services]
Requests == [name : {"register"}, type : Types, service : Services, handler : Handlers]
              \cup [name : {"remove"}, type : Types, service : Services]
              \cup {[name |-> "removeAll"]}
Runs     == [name : {"run"}, type : Types, service : Services, handler : Handlers]

Registered(k) == k.type \in DOMAIN mTypeHandlers /\ k.service \in DOMAIN mTypeHandlers[k.type]
HandlerOf(k)  == mTypeHandlers[k.type][k.service]

\* A type is there only while a service of it is.
ServiceMaps == UNION {[S -> Handlers] : S \in (SUBSET Services) \ {{}}}

TypeOK ==
  /\ mTypeHandlers \in UNION {[T -> ServiceMaps] : T \in SUBSET Types}
  /\ op \in [Threads -> Requests \cup {Idle}]
  /\ running \in [Dispatchers -> Runs \cup {None}]

Init ==
  /\ mTypeHandlers = [type \in {} |-> {}]
  /\ op = [t \in Threads |-> Idle]
  /\ running = [d \in Dispatchers |-> None]

\* A thread calls one of the three writers and waits for the mutex.
Call(t) ==
  /\ op[t] = Idle
  /\ \E r \in Requests : op' = [op EXCEPT ![t] = r]
  /\ UNCHANGED <<mTypeHandlers, running>>

NotExclusive == TRUE  \* bug: a writer takes the mutex shared

\* unique_lock: no dispatcher holds the mutex.
Exclusive == \A d \in Dispatchers : running[d] = None

Finish(t) == op' = [op EXCEPT ![t] = Idle] /\ UNCHANGED running

ServicesOf(type) == IF type \in DOMAIN mTypeHandlers THEN mTypeHandlers[type] ELSE [s \in {} |-> s]

\* mTypeHandlers[type][service] = handle
Put(type, service, h) ==
  LET services == [s \in DOMAIN ServicesOf(type) \cup {service} |->
                     IF s = service THEN h ELSE ServicesOf(type)[s]]
  IN [u \in DOMAIN mTypeHandlers \cup {type} |->
        IF u = type THEN services ELSE mTypeHandlers[u]]

\* bug: the later registration wins.
RegisterOver(t) ==
  /\ op[t].name = "register"
  /\ Exclusive
  /\ mTypeHandlers' = Put(op[t].type, op[t].service, op[t].handler)
  /\ Finish(t)

\* A key that is taken is left alone and the caller is told so (false).
RegisterTypeHandle(t) ==
  /\ op[t].name = "register"
  /\ Exclusive
  /\ mTypeHandlers' = IF Registered(op[t]) THEN mTypeHandlers
                      ELSE Put(op[t].type, op[t].service, op[t].handler)
  /\ Finish(t)

\* bug: the type stays behind when its last service goes.
WithoutService(type, service) ==
  IF type \notin DOMAIN mTypeHandlers THEN mTypeHandlers
  ELSE [mTypeHandlers EXCEPT ![type] = Restrict(@, DOMAIN @ \ {service})]

WithoutType(type, service) == Restrict(mTypeHandlers, DOMAIN mTypeHandlers \ {type})  \* bug

\* A type whose last service goes is erased with it.
Without(type, service) ==
  LET rest == DOMAIN ServicesOf(type) \ {service} IN
  IF type \notin DOMAIN mTypeHandlers THEN mTypeHandlers
  ELSE IF rest = {} THEN Restrict(mTypeHandlers, DOMAIN mTypeHandlers \ {type})
  ELSE [mTypeHandlers EXCEPT ![type] = Restrict(@, rest)]

\* bug: the type is looked for under the shared lock, which the remover keeps
\* while it waits to have the mutex alone: two removers wait for each other.
RemoveUpgrades(t) ==
  /\ op[t].name = "remove"
  /\ Exclusive
  /\ op[t].type \in DOMAIN mTypeHandlers => \A u \in Threads \ {t} : op[u].name # "remove"
  /\ mTypeHandlers' = Without(op[t].type, op[t].service)
  /\ Finish(t)

RemoveTypeHandle(t) ==
  /\ op[t].name = "remove"
  /\ Exclusive
  /\ mTypeHandlers' = Without(op[t].type, op[t].service)
  /\ Finish(t)

RemoveAll(t) ==
  /\ op[t].name = "removeAll"
  /\ Exclusive
  /\ mTypeHandlers' = [type \in {} |-> {}]
  /\ Finish(t)

\* The shared lock is taken, the key found, and the handler entered.  A message
\* with no handler throws out of handleRpcMsg and releases the lock.  A reader
\* does not wait for writers that wait.
HandleRpcMsg(d) ==
  /\ running[d] = None
  /\ \E k \in Keys :
       /\ Registered(k)
       /\ running' = [running EXCEPT ![d] =
            [name |-> "run", type |-> k.type, service |-> k.service, handler |-> HandlerOf(k)]]
  /\ UNCHANGED <<mTypeHandlers, op>>

\* The handler returns or throws: the lock is released either way.
HandlerReturns(d) ==
  /\ running[d] # None
  /\ running' = [running EXCEPT ![d] = None]
  /\ UNCHANGED <<mTypeHandlers, op>>

Write(t) == RegisterTypeHandle(t) \/ RemoveTypeHandle(t) \/ RemoveAll(t)

Next ==
  \/ \E t \in Threads : Call(t) \/ Write(t)
  \/ \E d \in Dispatchers : HandleRpcMsg(d) \/ HandlerReturns(d)

Spec == Init /\ [][Next]_vars

\* Handlers come back, and a mutex that stays free is given to one of the
\* writers that wait.  No more: std::shared_mutex keeps no place for a writer
\* while dispatchers overlap, and no order among writers.
FairSpec ==
  /\ Spec
  /\ \A d \in Dispatchers : WF_vars(HandlerReturns(d))
  /\ WF_vars(\E t \in Threads : Write(t))

-----------------------------------------------------------------------------
(* Properties                                                              *)

\* A handler runs only while it is the one registered for the message's type and
\* service.  So uninstall() is a barrier: when removeTypeHandle or removeAll has
\* returned, no handler it removed is still running on another thread, and the
\* object behind it may be closed.
RunningIsRegistered ==
  \A d \in Dispatchers :
    running[d] # None => Registered(running[d]) /\ HandlerOf(running[d]) = running[d].handler

\* A registration is never replaced, only removed: between two removals the first
\* of several competing registrations stays, whoever else registers.
FirstRegistrationStays ==
  [][\A k \in Keys : Registered(k) /\ Registered(k)' => HandlerOf(k)' = HandlerOf(k)]_vars

\* A removal touches only its own key: what is registered for the other keys is
\* still there unless a removeAll() ran.
OthersStay ==
  [][\A k \in Keys : Registered(k) /\ ~Registered(k)' =>
       \E t \in Threads : /\ op[t] # Idle /\ op'[t] = Idle
                          /\ \/ op[t].name = "removeAll"
                             \/ /\ op[t].name = "remove"
                                /\ op[t].type = k.type /\ op[t].service = k.service]_vars

\* When the traffic stops, every writer returns: once no dispatch and no call
\* begins any more, as when the connections of a server end while several threads
\* uninstall, each one gets through, whatever the others and the last handlers
\* hold.  While dispatches go on the code promises a writer nothing.
Quiet == <>[][\A d \in Dispatchers, t \in Threads : ~HandleRpcMsg(d) /\ ~Call(t)]_vars

WritersReturn == Quiet => \A t \in Threads : op[t] # Idle ~> op[t] = Idle
=============================================================================
