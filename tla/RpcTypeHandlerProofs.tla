------------------------ MODULE RpcTypeHandlerProofs ------------------------
(***************************************************************************)
(* Theorems about RpcTypeHandler, for any number of threads, dispatchers,  *)
(* types and services.                                                     *)
(*                                                                         *)
(* Together with the types, RunningIsRegistered is inductive: a writer     *)
(* goes on only when nothing runs, and a dispatcher enters what it finds.  *)
(* What the writers do to the map is said once, by PutOnly and             *)
(* WithoutOnly, and cited by the action properties.                        *)
(***************************************************************************)
EXTENDS RpcTypeHandler, TLAPS

Maps == UNION {[T -> ServiceMaps] : T \in SUBSET Types}

\* Registered and HandlerOf, of a map that need not be the registry.
Has(m, type, service) == type \in DOMAIN m /\ service \in DOMAIN m[type]

-----------------------------------------------------------------------------
(* The maps of the registry                                                *)

LEMMA ServiceMapsHave ==
  ASSUME NEW f \in ServiceMaps
  PROVE  /\ DOMAIN f \subseteq Services /\ DOMAIN f # {}
         /\ f = [s \in DOMAIN f |-> f[s]]
         /\ \A s \in DOMAIN f : f[s] \in Handlers
<1>1. PICK S \in (SUBSET Services) \ {{}} : f \in [S -> Handlers]
  BY DEF ServiceMaps
<1> QED
  BY <1>1

LEMMA ServiceMapsAre ==
  ASSUME NEW S \in SUBSET Services, S # {}, NEW f \in [S -> Handlers]
  PROVE  f \in ServiceMaps
BY DEF ServiceMaps

LEMMA MapsHave ==
  ASSUME NEW m \in Maps
  PROVE  /\ DOMAIN m \subseteq Types
         /\ m = [u \in DOMAIN m |-> m[u]]
         /\ \A u \in DOMAIN m : m[u] \in ServiceMaps
BY DEF Maps

LEMMA MapsAre ==
  ASSUME NEW T \in SUBSET Types, NEW m \in [T -> ServiceMaps]
  PROVE  m \in Maps
BY DEF Maps

\* mTypeHandlers[type][service] = h adds that key and touches no other.
LEMMA PutOnly ==
  ASSUME mTypeHandlers \in Maps,
         NEW type \in Types, NEW service \in Services, NEW h \in Handlers
  PROVE  LET m == Put(type, service, h) IN
         /\ m \in Maps
         /\ \A u, s : Has(m, u, s) <=> Has(mTypeHandlers, u, s) \/ (u = type /\ s = service)
         /\ \A u, s : Has(mTypeHandlers, u, s) /\ ~(u = type /\ s = service)
                        => m[u][s] = mTypeHandlers[u][s]
<1> DEFINE old == ServicesOf(type)
           new == [s \in DOMAIN old \cup {service} |-> IF s = service THEN h ELSE old[s]]
           m   == [u \in DOMAIN mTypeHandlers \cup {type} |->
                     IF u = type THEN new ELSE mTypeHandlers[u]]
<1>1. /\ DOMAIN old \subseteq Services
      /\ \A s \in DOMAIN old : old[s] \in Handlers
      /\ \A s : s \in DOMAIN old <=> Has(mTypeHandlers, type, s)
      /\ \A s \in DOMAIN old : old[s] = mTypeHandlers[type][s]
  <2>1. CASE type \in DOMAIN mTypeHandlers
    <3>1. mTypeHandlers[type] \in ServiceMaps
      BY <2>1, MapsHave
    <3> QED
      BY <2>1, <3>1, ServiceMapsHave DEF ServicesOf, Has
  <2>2. CASE type \notin DOMAIN mTypeHandlers
    BY <2>2 DEF ServicesOf, Has
  <2> QED
    BY <2>1, <2>2
<1> HIDE DEF old
<1>2. new \in ServiceMaps
  <2>1. new \in [DOMAIN old \cup {service} -> Handlers]
    BY <1>1
  <2> HIDE DEF new
  <2> QED
    BY <1>1, <2>1, ServiceMapsAre
<1>3. DOMAIN new = DOMAIN old \cup {service} /\ \A s \in DOMAIN old : s # service => new[s] = old[s]
  OBVIOUS
<1> HIDE DEF new
<1>4. m \in Maps
  <2>1. m \in [DOMAIN mTypeHandlers \cup {type} -> ServiceMaps]
    BY <1>2, MapsHave
  <2> HIDE DEF m
  <2> QED
    BY <2>1, MapsHave, MapsAre
<1>5. Put(type, service, h) = m
  BY DEF Put, m, new, old
<1>6. \A u, s : Has(m, u, s) <=> Has(mTypeHandlers, u, s) \/ (u = type /\ s = service)
  BY <1>1, <1>3 DEF Has
<1>7. \A u, s : Has(mTypeHandlers, u, s) /\ ~(u = type /\ s = service)
                  => m[u][s] = mTypeHandlers[u][s]
  BY <1>1, <1>3 DEF Has
<1> QED
  BY <1>4, <1>5, <1>6, <1>7

\* A removal takes that key and no other.
LEMMA WithoutOnly ==
  ASSUME mTypeHandlers \in Maps, NEW type, NEW service
  PROVE  LET m == Without(type, service) IN
         /\ m \in Maps
         /\ \A u, s : Has(m, u, s) <=> Has(mTypeHandlers, u, s) /\ ~(u = type /\ s = service)
         /\ \A u, s : Has(m, u, s) => m[u][s] = mTypeHandlers[u][s]
<1> DEFINE rest == DOMAIN ServicesOf(type) \ {service}
           m    == Without(type, service)
<1>1. CASE type \notin DOMAIN mTypeHandlers
  BY <1>1 DEF Without, Has
<1>2. CASE type \in DOMAIN mTypeHandlers /\ rest = {}
  <2>1. m = [u \in DOMAIN mTypeHandlers \ {type} |-> mTypeHandlers[u]]
    BY <1>2 DEF Without, Restrict
  <2>2. m \in [DOMAIN mTypeHandlers \ {type} -> ServiceMaps]
    BY <2>1, MapsHave
  <2>3. DOMAIN mTypeHandlers \ {type} \subseteq Types
    BY MapsHave
  <2>4. \A s : ~(Has(mTypeHandlers, type, s) /\ s # service)
    BY <1>2 DEF Has, ServicesOf
  <2> HIDE DEF m
  <2>5. m \in Maps
    BY <2>2, <2>3, MapsAre
  <2>6. \A u, s : Has(m, u, s) <=> Has(mTypeHandlers, u, s) /\ ~(u = type /\ s = service)
    BY <2>1, <2>4 DEF Has
  <2>7. \A u, s : Has(m, u, s) => m[u][s] = mTypeHandlers[u][s]
    BY <2>1 DEF Has
  <2> QED
    BY <2>5, <2>6, <2>7 DEF m
<1>3. CASE type \in DOMAIN mTypeHandlers /\ rest # {}
  <2> DEFINE f == [s \in rest |-> mTypeHandlers[type][s]]
  <2>1. mTypeHandlers[type] \in ServiceMaps /\ rest = DOMAIN mTypeHandlers[type] \ {service}
    BY <1>3, MapsHave DEF ServicesOf
  <2>2. m = [mTypeHandlers EXCEPT ![type] = f]
    BY <1>3 DEF Without, Restrict
  <2>3. f \in [rest -> Handlers] /\ rest \subseteq Services
    BY <2>1, ServiceMapsHave
  <2>4. DOMAIN f = rest /\ \A s \in rest : f[s] = mTypeHandlers[type][s]
    OBVIOUS
  <2> HIDE DEF rest, m, f
  <2>5. f \in ServiceMaps
    BY <1>3, <2>3, ServiceMapsAre
  <2>6. m \in [DOMAIN mTypeHandlers -> ServiceMaps]
    BY <2>2, <2>5, MapsHave
  <2>7. m \in Maps
    BY <2>6, MapsHave, MapsAre
  <2>8. \A u, s : Has(m, u, s) <=> Has(mTypeHandlers, u, s) /\ ~(u = type /\ s = service)
    BY <1>3, <2>1, <2>2, <2>4, MapsHave DEF Has
  <2>9. \A u, s : Has(m, u, s) => m[u][s] = mTypeHandlers[u][s]
    BY <1>3, <2>2, <2>4, MapsHave DEF Has
  <2> QED
    BY <2>7, <2>8, <2>9 DEF m
<1> QED
  BY <1>1, <1>2, <1>3

-----------------------------------------------------------------------------
(* The actions                                                             *)

LEMMA InitTypes == Init => TypeOK /\ RunningIsRegistered
<1> SUFFICES ASSUME Init PROVE TypeOK /\ RunningIsRegistered
  OBVIOUS
<1>1. mTypeHandlers \in Maps
  <2>1. mTypeHandlers \in [{} -> ServiceMaps]
    BY DEF Init
  <2> QED
    BY <2>1, MapsAre
<1>2. op \in [Threads -> Requests \cup {Idle}] /\ running \in [Dispatchers -> Runs \cup {None}]
  BY DEF Init
<1> QED
  BY <1>1, <1>2 DEF TypeOK, Maps, Init, RunningIsRegistered

\* What a writer is called with.
LEMMA Writers ==
  ASSUME TypeOK, NEW t \in Threads
  PROVE  /\ op[t].name = "register" => op[t].type \in Types /\ op[t].service \in Services
                                       /\ op[t].handler \in Handlers /\ op[t] # Idle
         /\ op[t].name = "remove" => op[t].type \in Types /\ op[t].service \in Services /\ op[t] # Idle
         /\ op[t].name = "removeAll" => op[t] # Idle
<1>1. op[t] \in Requests \cup {Idle}
  BY DEF TypeOK
<1> QED
  BY <1>1 DEF Requests, Idle

\* What a step does to the registry: it adds the key of a registration that finds
\* it free, takes the key of a removal, takes all, or leaves it alone.  Only a
\* writer changes it, and only while nothing runs.
Adds(t) ==
  /\ op[t].name = "register" /\ ~Registered(op[t])
  /\ mTypeHandlers' = Put(op[t].type, op[t].service, op[t].handler)
Takes(t) ==
  /\ op[t].name = "remove"
  /\ mTypeHandlers' = Without(op[t].type, op[t].service)
TakesAll(t) ==
  /\ op[t].name = "removeAll"
  /\ mTypeHandlers' = [type \in {} |-> {}]

LEMMA StepOnRegistry ==
  ASSUME TypeOK, [Next]_vars
  PROVE  \/ UNCHANGED mTypeHandlers
         \/ \E t \in Threads :
              /\ Exclusive /\ UNCHANGED running
              /\ op[t] # Idle /\ op'[t] = Idle
              /\ Adds(t) \/ Takes(t) \/ TakesAll(t)
<1>1. CASE \E t \in Threads : Write(t)
  <2>1. PICK t \in Threads : Write(t)
    BY <1>1
  <2>2. Exclusive /\ UNCHANGED running /\ op' = [op EXCEPT ![t] = Idle]
    BY <2>1 DEF Write, RegisterTypeHandle, RemoveTypeHandle, RemoveAll, Finish
  <2>3. op'[t] = Idle
    BY <2>2 DEF TypeOK
  <2>4. op[t] # Idle
    BY <2>1, Writers DEF Write, RegisterTypeHandle, RemoveTypeHandle, RemoveAll
  <2>5. UNCHANGED mTypeHandlers \/ Adds(t) \/ Takes(t) \/ TakesAll(t)
    BY <2>1 DEF Write, RegisterTypeHandle, RemoveTypeHandle, RemoveAll, Adds, Takes, TakesAll
  <2> QED
    BY <2>2, <2>3, <2>4, <2>5
<1>2. CASE ~\E t \in Threads : Write(t)
  BY <1>2 DEF Next, Call, HandleRpcMsg, HandlerReturns, vars
<1> QED
  BY <1>1, <1>2

LEMMA TypeStep == TypeOK /\ [Next]_vars => TypeOK'
<1> SUFFICES ASSUME TypeOK, [Next]_vars PROVE TypeOK'
  OBVIOUS
<1>0. mTypeHandlers \in Maps
  BY DEF TypeOK, Maps
<1>1. mTypeHandlers' \in Maps
  <2>1. CASE UNCHANGED mTypeHandlers
    BY <1>0, <2>1
  <2>2. ASSUME NEW t \in Threads, Adds(t) PROVE mTypeHandlers' \in Maps
    BY <1>0, <2>2, Writers, PutOnly DEF Adds
  <2>3. ASSUME NEW t \in Threads, Takes(t) PROVE mTypeHandlers' \in Maps
    BY <1>0, <2>3, WithoutOnly DEF Takes
  <2>4. ASSUME NEW t \in Threads, TakesAll(t) PROVE mTypeHandlers' \in Maps
    <3>1. mTypeHandlers' \in [{} -> ServiceMaps]
      BY <2>4 DEF TakesAll
    <3> QED
      BY <3>1, MapsAre
  <2> QED
    BY <2>1, <2>2, <2>3, <2>4, StepOnRegistry
<1>2. op' \in [Threads -> Requests \cup {Idle}]
  BY DEF TypeOK, Next, Call, Write, RegisterTypeHandle, RemoveTypeHandle, RemoveAll, Finish,
         HandleRpcMsg, HandlerReturns, vars
<1>3. running' \in [Dispatchers -> Runs \cup {None}]
  <2>1. ASSUME NEW d \in Dispatchers, HandleRpcMsg(d)
        PROVE  running' \in [Dispatchers -> Runs \cup {None}]
    <3>1. PICK k \in Keys :
            /\ Registered(k)
            /\ running' = [running EXCEPT ![d] = [name |-> "run", type |-> k.type,
                                                 service |-> k.service, handler |-> HandlerOf(k)]]
      BY <2>1 DEF HandleRpcMsg
    <3>2. k.type \in Types /\ k.service \in Services
      BY DEF Keys
    <3>3. HandlerOf(k) \in Handlers
      BY <1>0, <3>1, MapsHave, ServiceMapsHave DEF HandlerOf, Registered
    <3> QED
      BY <3>1, <3>2, <3>3 DEF TypeOK, Runs
  <2>2. ASSUME NEW d \in Dispatchers, HandlerReturns(d)
        PROVE  running' \in [Dispatchers -> Runs \cup {None}]
    BY <2>2 DEF HandlerReturns, TypeOK
  <2>3. CASE UNCHANGED running
    BY <2>3 DEF TypeOK
  <2> QED
    BY <2>1, <2>2, <2>3 DEF Next, Call, Write, RegisterTypeHandle, RemoveTypeHandle, RemoveAll, Finish, vars
<1> QED
  BY <1>1, <1>2, <1>3 DEF TypeOK, Maps

LEMMA RunningStep == TypeOK /\ RunningIsRegistered /\ [Next]_vars => RunningIsRegistered'
<1> SUFFICES ASSUME TypeOK, RunningIsRegistered, [Next]_vars,
                    NEW d \in Dispatchers, running'[d] # None
             PROVE  (Registered(running[d]) /\ HandlerOf(running[d]) = running[d].handler)'
  BY DEF RunningIsRegistered
<1>1. CASE UNCHANGED mTypeHandlers
  <2>1. CASE running'[d] = running[d]
    BY <1>1, <2>1 DEF RunningIsRegistered, Registered, HandlerOf
  <2>2. CASE running'[d] # running[d]
    <3>1. HandleRpcMsg(d)
      <4>1. PICK e \in Dispatchers : HandleRpcMsg(e) \/ HandlerReturns(e)
        BY <2>2 DEF Next, Call, Write, RegisterTypeHandle, RemoveTypeHandle, RemoveAll, Finish, vars
      <4> QED
        BY <2>2, <4>1 DEF HandleRpcMsg, HandlerReturns, TypeOK
    <3>2. PICK k \in Keys :
            /\ Registered(k)
            /\ running' = [running EXCEPT ![d] = [name |-> "run", type |-> k.type,
                                                 service |-> k.service, handler |-> HandlerOf(k)]]
      BY <3>1 DEF HandleRpcMsg
    <3>3. running'[d] = [name |-> "run", type |-> k.type, service |-> k.service, handler |-> HandlerOf(k)]
      BY <3>2 DEF TypeOK
    <3> QED
      BY <1>1, <3>2, <3>3 DEF Registered, HandlerOf
  <2> QED
    BY <2>1, <2>2
<1>2. CASE Exclusive /\ UNCHANGED running
  BY <1>2 DEF Exclusive
<1> QED
  BY <1>1, <1>2, StepOnRegistry

-----------------------------------------------------------------------------
\* The registry, the calls and the dispatchers stay within their types.
THEOREM TypeCorrect == Spec => []TypeOK
<1>1. Init => TypeOK
  BY InitTypes
<1> QED
  BY <1>1, TypeStep, PTL DEF Spec

\* uninstall() is a barrier: no removed handler is still running when the removal
\* has returned, for any number of threads that dispatch (GayRpcTypeHandler.h:76).
THEOREM RunningHandlersRegistered == Spec => []RunningIsRegistered
<1>1. Init => RunningIsRegistered
  BY InitTypes
<1>2. TypeOK /\ RunningIsRegistered /\ [Next]_vars => RunningIsRegistered'
  BY RunningStep
<1> QED
  BY <1>1, <1>2, TypeCorrect, PTL DEF Spec

\* Of several registrations that race for a key the first one stays until it is
\* removed (GayRpcTypeHandler.h:31).
THEOREM FirstStays == Spec => FirstRegistrationStays
<1>1. ASSUME TypeOK, [Next]_vars
      PROVE  [\A k \in Keys : Registered(k) /\ Registered(k)' => HandlerOf(k)' = HandlerOf(k)]_vars
  <2> SUFFICES ASSUME NEW k \in Keys, Registered(k), Registered(k)'
               PROVE  HandlerOf(k)' = HandlerOf(k)
    OBVIOUS
  <2>0. mTypeHandlers \in Maps /\ Has(mTypeHandlers, k.type, k.service) /\ Has(mTypeHandlers', k.type, k.service)
    BY <1>1 DEF TypeOK, Maps, Registered, Has
  <2>1. CASE UNCHANGED mTypeHandlers
    BY <2>1 DEF HandlerOf
  <2>2. ASSUME NEW t \in Threads, Adds(t) PROVE HandlerOf(k)' = HandlerOf(k)
    <3>1. ~(k.type = op[t].type /\ k.service = op[t].service)
      BY <2>0, <2>2 DEF Adds, Registered, Has
    <3> QED
      BY <1>1, <2>0, <2>2, <3>1, Writers, PutOnly DEF Adds, HandlerOf
  <2>3. ASSUME NEW t \in Threads, Takes(t) PROVE HandlerOf(k)' = HandlerOf(k)
    BY <2>0, <2>3, WithoutOnly DEF Takes, HandlerOf
  <2>4. ASSUME NEW t \in Threads, TakesAll(t) PROVE HandlerOf(k)' = HandlerOf(k)
    BY <2>0, <2>4 DEF TakesAll, Has
  <2> QED
    BY <1>1, <2>1, <2>2, <2>3, <2>4, StepOnRegistry
<1> QED
  BY <1>1, TypeCorrect, PTL DEF Spec, FirstRegistrationStays

\* A removal takes its own key and no other, although the last service of a type
\* takes the type's map with it (GayRpcTypeHandler.h:46).
THEOREM OthersKept == Spec => OthersStay
<1>1. ASSUME TypeOK, [Next]_vars
      PROVE  [\A k \in Keys : Registered(k) /\ ~Registered(k)' =>
                \E t \in Threads : /\ op[t] # Idle /\ op'[t] = Idle
                                   /\ \/ op[t].name = "removeAll"
                                      \/ /\ op[t].name = "remove"
                                         /\ op[t].type = k.type /\ op[t].service = k.service]_vars
  <2> SUFFICES ASSUME NEW k \in Keys, Registered(k), ~Registered(k)'
               PROVE  \E t \in Threads : /\ op[t] # Idle /\ op'[t] = Idle
                                         /\ \/ op[t].name = "removeAll"
                                            \/ /\ op[t].name = "remove"
                                               /\ op[t].type = k.type /\ op[t].service = k.service
    OBVIOUS
  <2>0. mTypeHandlers \in Maps /\ Has(mTypeHandlers, k.type, k.service) /\ ~Has(mTypeHandlers', k.type, k.service)
    BY <1>1 DEF TypeOK, Maps, Registered, Has
  <2>1. PICK t \in Threads : op[t] # Idle /\ op'[t] = Idle /\ (Adds(t) \/ Takes(t) \/ TakesAll(t))
    BY <1>1, <2>0, StepOnRegistry
  <2>2. ~Adds(t)
    BY <1>1, <2>0, Writers, PutOnly DEF Adds
  <2>3. CASE Takes(t)
    BY <2>0, <2>1, <2>3, WithoutOnly DEF Takes
  <2>4. CASE TakesAll(t)
    BY <2>1, <2>4 DEF TakesAll
  <2> QED
    BY <2>1, <2>2, <2>3, <2>4
<1> QED
  BY <1>1, TypeCorrect, PTL DEF Spec, OthersStay
=============================================================================
