---------------------- MODULE ServiceConnectionProofs ----------------------
(***************************************************************************)
(* Theorems about ServiceConnection, for any number of creators,           *)
(* interceptors, service ids and requests.                                 *)
(*                                                                         *)
(* ServesWhatWasAsked needs to know that the vector all chains are copied  *)
(* from only ever grows behind what the builder had put into it, and the   *)
(* rest that nothing is closed as long as services can still come in.      *)
(* What is on the chains exactly is a second invariant on top of that one, *)
(* and so is ClosedInOrder: it needs the list of callbacks to be the list  *)
(* of the services, all of them in the manager when the connection ends,   *)
(* and no two of them there under one id.                                  *)
(***************************************************************************)
EXTENDS ServiceConnection, SequenceTheorems, TLAPS

\* Before the disconnect callback runs nothing is closed.
NotClosingYet == link # "closed" => closed = {} /\ closing = <<>> /\ at = 1

\* s begins with what the program gave to the builder.
Extends(s) ==
  /\ Len(s) >= Len(captured.outbound)
  /\ \A i \in DOMAIN captured.outbound : s[i] = captured.outbound[i]

RunningFirst == link # "none" => running

Entered ==
  /\ link = "none" => idOf = <<>>
  /\ link = "entering" => Extends(outbound)
  /\ link \in {"open", "closed"} => Len(idOf) = captured.creators

ChainsExtend ==
  \A s \in DOMAIN idOf : Extends(chains[s]) /\ Len(chains[s]) > Len(captured.outbound)

Connection ==
  /\ TypeOK
  /\ NotClosingYet
  /\ RunningFirst /\ Entered /\ ChainsExtend

USE BoundsAreNumbers, UserKindsAreKinds DEF Services, Config, AndClosing, Order

-----------------------------------------------------------------------------
LEMMA InitConnection == Init => Connection
<1> SUFFICES ASSUME Init PROVE Connection
  OBVIOUS
<1> USE DEF Init
<1>1. Blank \in Configs
  BY DEF Configs, Blank, Transports, Kinds
<1>2. /\ idOf \in Seq(Ids) /\ Len(idOf) <= MaxCreators /\ outbound \in Seq(Kinds)
      /\ closedCallbacks \in Seq(Services) /\ closing \in Seq(Services)
  OBVIOUS
<1>3. chains \in [Services -> Seq(Kinds)] /\ frames \in [Requests -> Nat]
  OBVIOUS
<1>4. TypeOK
  BY <1>1, <1>2, <1>3 DEF TypeOK
<1>5. NotClosingYet
  BY DEF NotClosingYet
<1>6. RunningFirst /\ Entered /\ ChainsExtend
  BY DEF RunningFirst, Entered, ChainsExtend
<1> QED
  BY <1>4, <1>5, <1>6 DEF Connection

\* The sender that BuildService appends.
LEMMA SenderType ==
  ASSUME NEW transport
  PROVE  SenderOf(transport) \in Seq(Kinds) /\ Len(SenderOf(transport)) > 0
<1>1. "protect" \in Kinds /\ "send" \in Kinds
  BY DEF Kinds
<1>2. <<"protect", "send">> \in Seq(Kinds) /\ <<"send">> \in Seq(Kinds)
  BY <1>1
<1>3. Len(<<"protect", "send">>) = 2 /\ Len(<<"send">>) = 1
  OBVIOUS
<1> QED
  BY <1>2, <1>3 DEF SenderOf

LEMMA TypeStep == TypeOK /\ [Next]_vars => TypeOK'
<1> SUFFICES ASSUME TypeOK, [Next]_vars PROVE TypeOK'
  OBVIOUS
<1> USE DEF TypeOK
<1>1. CASE AddServiceCreator
  <2>1. builder.creators + 1 \in 0..MaxCreators
    BY <1>1 DEF AddServiceCreator, Configs
  <2>2. builder' \in Configs
    BY <1>1, <2>1 DEF AddServiceCreator, Configured, Configs
  <2> QED
    BY <1>1, <2>2 DEF AddServiceCreator, Configured, entry, ending, traffic
<1>2. CASE BuildOutboundInterceptor
  <2>1. builder' \in Configs
    <3>1. PICK kind \in UserKinds : builder' = [builder EXCEPT !.outbound = Append(@, kind)]
      BY <1>2 DEF BuildOutboundInterceptor, Configured
    <3>2. Append(builder.outbound, kind) \in Seq(Kinds)
      BY DEF Configs
    <3> QED
      BY <3>1, <3>2 DEF Configs
  <2> QED
    BY <1>2, <2>1 DEF BuildOutboundInterceptor, Configured, entry, ending, traffic
<1>3. CASE ConfigureTransportType
  <2>1. builder' \in Configs
    BY <1>3 DEF ConfigureTransportType, Configured, Configs
  <2> QED
    BY <1>3, <2>1 DEF ConfigureTransportType, Configured, entry, ending, traffic
<1>4. CASE AsyncRun
  BY <1>4 DEF AsyncRun, entry, ending, traffic
<1>5. CASE Accept
  BY <1>5 DEF Accept, program, ending, traffic, Configs
<1>6. CASE BuildService
  <2> DEFINE s == Len(idOf) + 1
  <2>1. s \in Services
    BY <1>6 DEF BuildService, Configs
  <2>2. outbound' \in Seq(Kinds)
    BY <1>6, SenderType DEF BuildService
  <2>3. chains' \in [Services -> Seq(Kinds)]
    BY <1>6, <2>2 DEF BuildService
  <2>4. closedCallbacks' \in Seq(Services)
    <3>1. Append(closedCallbacks, s) \in Seq(Services)
      BY <2>1
    <3> QED
      BY <1>6, <3>1 DEF BuildService
  <2>5. PICK id \in Ids : /\ idOf' = Append(idOf, id)
                          /\ handlers' = handlers \/ handlers' = handlers \cup {s}
                          /\ link' = link \/ link' = "failed"
    BY <1>6 DEF BuildService
  <2>6. idOf' \in Seq(Ids) /\ Len(idOf') = s /\ DOMAIN idOf' = DOMAIN idOf \cup {s}
    BY <2>5
  <2> HIDE DEF s
  <2>7. Len(idOf') <= MaxCreators /\ handlers' \subseteq DOMAIN idOf'
    BY <2>1, <2>5, <2>6
  <2> QED
    BY <1>6, <2>2, <2>3, <2>4, <2>5, <2>6, <2>7 DEF BuildService, program, ending, traffic
<1>7. CASE EnterDone
  BY <1>7 DEF EnterDone, program, entry, ending, traffic
<1>8. CASE Receive
  <2>1. \A r : Called(r) \subseteq Services
    BY DEF Called
  <2> QED
    BY <1>8, <2>1 DEF Receive, program, entry, ending
<1>9. CASE RunPosted
  BY <1>9 DEF RunPosted, program, entry, ending
<1>10. CASE Reply
  <2>1. PICK k \in kept : \E n \in Taking(Times(chains[k[2]], "send")) :
           /\ frames' = [frames EXCEPT ![k[1]] = @ + n]
           /\ kept' = kept \ {k}
           /\ shutdown' = (shutdown \/ (IsHTTP /\ n > 0))
    BY <1>10 DEF Reply
  <2>2. \A m : Taking(m) \subseteq Nat
    BY DEF Taking
  <2>3. frames' \in [Requests -> Nat]
    BY <2>1, <2>2
  <2>4. shutdown' \in BOOLEAN
    BY <2>1
  <2> QED
    BY <1>10, <2>1, <2>3, <2>4 DEF Reply, program, entry, ending
<1>11. CASE Disconnect
  BY <1>11 DEF Disconnect, program, entry, traffic
<1>12. CASE CloseStep
  <2>1. Head(closing) \in Services /\ Tail(closing) \in Seq(Services)
    BY <1>12 DEF CloseStep
  <2>2. handlers' \subseteq handlers /\ closed' \subseteq Services
    BY <1>12, <2>1 DEF CloseStep
  <2>3. closing' \in Seq(Services) /\ at' \in {1, 2}
    BY <1>12, <2>1 DEF CloseStep
  <2> QED
    BY <1>12, <2>2, <2>3 DEF CloseStep, program, entry, traffic
<1>13. CASE UNCHANGED vars
  BY <1>13 DEF vars, program, entry, ending, traffic
<1> QED
  BY <1>1, <1>2, <1>3, <1>4, <1>5, <1>6, <1>7, <1>8, <1>9, <1>10, <1>11, <1>12, <1>13 DEF Next

-----------------------------------------------------------------------------
\* Every step that is not one of Accept, BuildService and CloseStep, and what it
\* may change of what Connection speaks of.
Quiet ==
  /\ UNCHANGED <<entry, handlers, at, closed>>
  /\ running => captured' = captured
  /\ running => running'
  /\ UNCHANGED <<link, closing>>

LEMMA QuietKeeps == Connection /\ TypeOK' /\ Quiet => Connection'
<1> SUFFICES ASSUME Connection, TypeOK', Quiet PROVE Connection'
  OBVIOUS
<1> USE DEF Connection, Quiet, entry
<1>1. NotClosingYet'
  BY DEF NotClosingYet
<1>2. RunningFirst'
  BY DEF RunningFirst
<1>3. CASE running
  <2>1. \A s : Extends(s)' <=> Extends(s)
    BY <1>3 DEF Extends
  <2>2. Entered'
    BY <1>3 DEF Entered, Extends
  <2>3. ChainsExtend'
    BY <1>3 DEF ChainsExtend, Extends
  <2> QED
    BY <1>1, <1>2, <2>2, <2>3
<1>4. CASE ~running
  <2>1. link = "none" /\ idOf = <<>>
    BY <1>4 DEF RunningFirst, Entered
  <2>2. Entered' /\ ChainsExtend'
    BY <2>1 DEF Entered, ChainsExtend
  <2> QED
    BY <1>1, <1>2, <2>2
<1> QED
  BY <1>3, <1>4

LEMMA ConnectionStep == Connection /\ [Next]_vars => Connection'
<1> SUFFICES ASSUME Connection, [Next]_vars PROVE Connection'
  OBVIOUS
<1>0. TypeOK /\ TypeOK'
  BY TypeStep DEF Connection
<1>1. CASE AddServiceCreator \/ BuildOutboundInterceptor \/ ConfigureTransportType
  <2>1. UNCHANGED <<running, captured, link, entry, handlers, ending>>
    BY <1>1 DEF AddServiceCreator, BuildOutboundInterceptor, ConfigureTransportType, Configured
  <2> QED
    BY <1>0, <2>1, QuietKeeps DEF Quiet, ending
<1>2. CASE AsyncRun
  BY <1>0, <1>2, QuietKeeps DEF Quiet, AsyncRun, ending
<1>3. CASE Accept
  <2>1. NotClosingYet' /\ RunningFirst'
    BY <1>3 DEF Accept, Connection, NotClosingYet, RunningFirst, program, ending
  <2>2. Len(captured.outbound) \in Nat
    BY <1>0 DEF TypeOK, Configs
  <2>3. Entered' /\ ChainsExtend'
    BY <1>3, <2>2 DEF Accept, Connection, Entered, ChainsExtend, Extends, program
  <2> QED
    BY <1>0, <2>1, <2>3 DEF Connection
<1>4. CASE BuildService
  <2> DEFINE s == Len(idOf) + 1
  <2>1. /\ link = "entering" /\ UNCHANGED <<program, closing, at, closed>>
        /\ link' \in {"entering", "failed"}
        /\ outbound' = outbound \o SenderOf(captured.transport)
        /\ chains' = [chains EXCEPT ![s] = outbound']
    BY <1>4 DEF BuildService, ending
  <2>2. closed = {} /\ closing = <<>> /\ at = 1
    BY <2>1 DEF Connection, NotClosingYet
  <2>3. NotClosingYet' /\ RunningFirst'
    BY <2>1, <2>2 DEF Connection, NotClosingYet, RunningFirst, program
  <2>4. Extends(outbound)' /\ Len(outbound') > Len(captured.outbound)
    <3>1. Extends(outbound)
      BY <2>1 DEF Connection, Entered
    <3>2. outbound \in Seq(Kinds) /\ captured.outbound \in Seq(Kinds) /\ captured' = captured
      BY <1>0, <2>1 DEF TypeOK, Configs, program
    <3> DEFINE more == SenderOf(captured.transport)
    <3>3. more \in Seq(Kinds) /\ Len(more) > 0 /\ outbound' = outbound \o more
      BY <2>1, SenderType
    <3> HIDE DEF more
    <3>4. Len(outbound') = Len(outbound) + Len(more) /\ \A i \in 1..Len(outbound) : outbound'[i] = outbound[i]
      BY <3>2, <3>3
    <3> QED
      BY <3>1, <3>2, <3>3, <3>4 DEF Extends
  <2>5. Entered'
    BY <2>1, <2>4 DEF Entered
  <2>6. ChainsExtend'
    <3>1. s \in Services /\ DOMAIN idOf \subseteq Services
      <4>1. Len(idOf) < captured.creators /\ captured.creators \in 0..MaxCreators
        BY <1>0, <1>4 DEF BuildService, TypeOK, Configs
      <4>2. Len(idOf) \in Nat /\ DOMAIN idOf = 1..Len(idOf)
        BY <1>0 DEF TypeOK
      <4> QED
        BY <4>1, <4>2
    <3>2. \A x \in Services : chains'[x] = IF x = s THEN outbound' ELSE chains[x]
      <4>1. chains \in [Services -> Seq(Kinds)] /\ chains' = [chains EXCEPT ![s] = outbound']
        BY <1>0, <2>1 DEF TypeOK
      <4> HIDE DEF s, Services
      <4> QED
        BY <3>1, <4>1
    <3>3. DOMAIN idOf' = DOMAIN idOf \cup {s}
      BY <1>0, <1>4 DEF BuildService, TypeOK
    <3>4. \A x \in DOMAIN idOf : Extends(chains[x]) /\ Len(chains[x]) > Len(captured.outbound)
      BY DEF Connection, ChainsExtend
    <3>5. captured' = captured
      BY <2>1 DEF program
    <3> HIDE DEF s, Services
    <3> QED
      BY <2>4, <3>1, <3>2, <3>3, <3>4, <3>5 DEF ChainsExtend, Extends
  <2> QED
    BY <1>0, <2>3, <2>5, <2>6 DEF Connection
<1>5. CASE EnterDone
  <2>1. NotClosingYet' /\ RunningFirst'
    BY <1>5 DEF EnterDone, Connection, NotClosingYet, RunningFirst, program, ending
  <2>2. Entered' /\ ChainsExtend'
    BY <1>5 DEF EnterDone, Connection, Entered, ChainsExtend, Extends, program, entry
  <2> QED
    BY <1>0, <2>1, <2>2 DEF Connection
<1>6. CASE Receive \/ RunPosted \/ Reply
  <2>1. UNCHANGED <<program, link, entry, handlers, ending>>
    BY <1>6 DEF Receive, RunPosted, Reply
  <2> QED
    BY <1>0, <2>1, QuietKeeps DEF Quiet, ending, program
<1>7. CASE Disconnect
  <2>1. NotClosingYet' /\ RunningFirst'
    BY <1>7 DEF Disconnect, Connection, NotClosingYet, RunningFirst, program
  <2>2. Entered' /\ ChainsExtend'
    BY <1>7 DEF Disconnect, Connection, Entered, ChainsExtend, Extends, program, entry
  <2> QED
    BY <1>0, <2>1, <2>2 DEF Connection
<1>8. CASE CloseStep
  <2>1. link = "closed" /\ UNCHANGED <<program, link, entry>> /\ closing # <<>> /\ at \in {1, 2}
    BY <1>0, <1>8 DEF CloseStep, Connection, NotClosingYet, TypeOK
  <2>2. NotClosingYet'
    BY <2>1 DEF NotClosingYet
  <2>3. RunningFirst' /\ Entered' /\ ChainsExtend'
    BY <2>1 DEF Connection, RunningFirst, Entered, ChainsExtend, Extends, program, entry
  <2> QED
    BY <1>0, <2>2, <2>3 DEF Connection
<1>9. CASE UNCHANGED vars
  BY <1>0, <1>9, QuietKeeps DEF Quiet, vars, program, ending
<1> QED
  BY <1>1, <1>2, <1>3, <1>4, <1>5, <1>6, <1>7, <1>8, <1>9 DEF Next

-----------------------------------------------------------------------------
\* The inductive invariant: nothing is closed while services come in, and the chains
\* begin with what the builder held.
THEOREM ConnectionHolds == Spec => []Connection
<1>1. Init => Connection
  BY InitConnection
<1>2. Connection /\ [Next]_vars => Connection'
  BY ConnectionStep
<1> QED
  BY <1>1, <1>2, PTL DEF Spec

\* The state of a connection and its builder stays within its types.
THEOREM TypeCorrect == Spec => []TypeOK
<1>1. Connection => TypeOK
  BY DEF Connection
<1> QED
  BY <1>1, ConnectionHolds, PTL

\* What the program does with the builder after asyncRun() changes nothing for the
\* connections, and the interceptors it gave come first in every chain.
THEOREM ConfigurationKept == Spec => []ServesWhatWasAsked
<1>1. Connection => ServesWhatWasAsked
  BY DEF Connection, Entered, ChainsExtend, Extends, ServesWhatWasAsked
<1> QED
  BY <1>1, ConnectionHolds, PTL

-----------------------------------------------------------------------------
(* What is on the chains, and what is closed when                          *)

\* The senders of n services.
Senders(transport, n) ==
  IF transport = "HTTP" THEN [i \in 1..(2 * n) |-> IF i % 2 = 1 THEN "protect" ELSE "send"]
  ELSE [i \in 1..n |-> "send"]

\* The outbound chain of the n-th service is what the program gave and then a sender
\* for each service up to this one: the loop of OnBinaryConnectionEnter and
\* OnHTTPConnectionEnter appends to one vector for all of them.
SendersPileUp ==
  \A s \in DOMAIN idOf : chains[s] = captured.outbound \o Senders(captured.transport, s)

Piling ==
  link = "entering" => outbound = captured.outbound \o Senders(captured.transport, Len(idOf))

\* The callback that is set for the end of a binary connection knows every service.
EachIsListed == closedCallbacks = IF IsHTTP THEN <<>> ELSE [s \in 1..Len(idOf) |-> s]

\* What install() and the loop leave behind: all are in the manager, each under an id
\* of its own.
AllInstalled == link \in {"none", "entering", "open"} => handlers = DOMAIN idOf

IdsDiffer == \A s, u \in handlers : idOf[s] = idOf[u] => s = u

\* The callbacks still to come are those of the services that are not closed.
CallbacksToCome ==
  link = "closed" =>
    /\ Done \in 0..Len(closedCallbacks)
    /\ \A i \in DOMAIN closing : closing[i] = Done + i
    /\ at = 2 => closing # <<>>

\* The services of an HTTP connection, and those that a connection had built when
\* entering it threw, are not told that it is gone.
NotTold == IsHTTP \/ link = "failed" => closed = {}

TakenDown == AllInstalled /\ IdsDiffer /\ CallbacksToCome /\ ClosedInOrder

Exact == SendersPileUp /\ Piling /\ EachIsListed /\ TakenDown

LEMMA SendersType ==
  ASSUME NEW transport, NEW n \in Nat
  PROVE  Senders(transport, n) \in Seq(Kinds)
<1>1. "protect" \in Kinds /\ "send" \in Kinds
  BY DEF Kinds
<1> DEFINE K == Kinds
<1> HIDE DEF K
<1>2. \A m \in Nat : \A f \in [1..m -> K] : f \in Seq(K)
  OBVIOUS
<1>3. CASE transport = "HTTP"
  <2>1. 2 * n \in Nat /\ Senders(transport, n) \in [1..(2 * n) -> K]
    BY <1>1, <1>3 DEF Senders, K
  <2> QED
    BY <1>2, <2>1 DEF K
<1>4. CASE transport # "HTTP"
  <2>1. Senders(transport, n) \in [1..n -> K]
    BY <1>1, <1>4 DEF Senders, K
  <2> QED
    BY <1>2, <2>1 DEF K
<1> QED
  BY <1>3, <1>4

\* What is appended stands behind what was there.
LEMMA ConcatIs ==
  ASSUME NEW S, NEW a \in Seq(S), NEW b \in Seq(S), NEW c \in Seq(S), Len(c) = Len(a) + Len(b),
         \A i \in 1..Len(a) : c[i] = a[i], \A i \in 1..Len(b) : c[Len(a) + i] = b[i]
  PROVE  a \o b = c
<1>1. /\ a \o b \in Seq(S) /\ Len(a \o b) = Len(a) + Len(b)
      /\ \A i \in 1..(Len(a) + Len(b)) : (a \o b)[i] = IF i <= Len(a) THEN a[i] ELSE b[i - Len(a)]
  BY ConcatProperties
<1>2. Len(a) \in Nat /\ Len(b) \in Nat
  OBVIOUS
<1>3. ASSUME NEW i \in 1..Len(c)
      PROVE  (a \o b)[i] = c[i]
  <2>1. CASE i <= Len(a)
    BY <1>1, <1>2, <2>1
  <2>2. CASE ~(i <= Len(a))
    <3>1. i - Len(a) \in 1..Len(b) /\ Len(a) + (i - Len(a)) = i
      BY <1>2, <2>2
    <3>2. c[i] = b[i - Len(a)]
      BY <3>1
    <3> QED
      BY <1>1, <1>2, <2>2, <3>2
  <2> QED
    BY <2>1, <2>2
<1> QED
  BY <1>1, <1>3, SeqEqual

LEMMA OneMoreSender ==
  ASSUME NEW transport, NEW n \in Nat
  PROVE  Senders(transport, n) \o SenderOf(transport) = Senders(transport, n + 1)
<1> DEFINE a == Senders(transport, n)
           b == SenderOf(transport)
           c == Senders(transport, n + 1)
<1>1. a \in Seq(Kinds) /\ b \in Seq(Kinds) /\ c \in Seq(Kinds)
  BY SendersType, SenderType
<1>2. CASE transport = "HTTP"
  <2>1. Len(a) = 2 * n /\ Len(b) = 2 /\ Len(c) = 2 * n + 2
    BY <1>2 DEF Senders, SenderOf
  <2>2. \A i \in 1..(2 * n) : a[i] = IF i % 2 = 1 THEN "protect" ELSE "send"
    BY <1>2 DEF Senders
  <2>3. \A i \in 1..(2 * n + 2) : c[i] = IF i % 2 = 1 THEN "protect" ELSE "send"
    BY <1>2 DEF Senders
  <2>4. b[1] = "protect" /\ b[2] = "send"
    BY <1>2 DEF SenderOf
  <2>5. (2 * n + 1) % 2 = 1 /\ (2 * n + 2) % 2 = 0
    OBVIOUS
  <2> HIDE DEF a, b, c
  <2>6. \A i \in 1..Len(a) : c[i] = a[i]
    BY <2>1, <2>2, <2>3
  <2>7. c[2 * n + 1] = "protect" /\ c[2 * n + 2] = "send"
    BY <2>3, <2>5
  <2>8. \A i \in 1..Len(b) : c[Len(a) + i] = b[i]
    BY <2>1, <2>4, <2>7
  <2>9. Len(c) = Len(a) + Len(b)
    BY <2>1
  <2>10. a \o b = c
    BY <1>1, <2>6, <2>8, <2>9, ConcatIs
  <2> QED
    BY <2>10 DEF a, b, c
<1>3. CASE transport # "HTTP"
  <2>1. Len(a) = n /\ Len(b) = 1 /\ Len(c) = n + 1
    BY <1>3 DEF Senders, SenderOf
  <2>2. /\ \A i \in 1..n : a[i] = "send"
        /\ \A i \in 1..(n + 1) : c[i] = "send"
        /\ b[1] = "send"
    BY <1>3 DEF Senders, SenderOf
  <2> HIDE DEF a, b, c
  <2>3. \A i \in 1..Len(a) : c[i] = a[i]
    BY <2>1, <2>2
  <2>4. \A i \in 1..Len(b) : c[Len(a) + i] = b[i]
    BY <2>1, <2>2
  <2>5. Len(c) = Len(a) + Len(b)
    BY <2>1
  <2>6. a \o b = c
    BY <1>1, <2>3, <2>4, <2>5, ConcatIs
  <2> QED
    BY <2>6 DEF a, b, c
<1> QED
  BY <1>2, <1>3

LEMMA NoSenders ==
  ASSUME NEW transport
  PROVE  Senders(transport, 0) = <<>>
<1>1. Senders(transport, 0) \in Seq(Kinds)
  BY SendersType
<1>2. Len(Senders(transport, 0)) = 0
  BY DEF Senders
<1> QED
  BY <1>1, <1>2

\* Steps that change nothing of what Exact speaks of; before asyncRun() there is
\* nothing that it speaks of.
LEMMA QuietExact == Connection /\ Exact /\ Quiet => Exact'
<1> SUFFICES ASSUME Connection, Exact, Quiet PROVE Exact'
  OBVIOUS
<1> USE DEF Quiet, entry
<1>1. CASE running
  BY <1>1 DEF Exact, SendersPileUp, Piling, EachIsListed, TakenDown, AllInstalled, IdsDiffer,
              CallbacksToCome, ClosedInOrder, Done, IsHTTP
<1>2. CASE ~running
  <2>1. link = "none" /\ idOf = <<>>
    BY <1>2 DEF Connection, RunningFirst, Entered
  <2>2. closedCallbacks = <<>>
    <3>1. [s \in 1..0 |-> s] = <<>>
      OBVIOUS
    <3> QED
      BY <2>1, <3>1 DEF Exact, EachIsListed
  <2>3. EachIsListed'
    <3>1. [s \in 1..0 |-> s] = <<>>
      OBVIOUS
    <3> QED
      BY <2>1, <2>2, <3>1 DEF EachIsListed
  <2>4. SendersPileUp' /\ Piling'
    BY <2>1 DEF SendersPileUp, Piling
  <2>5. TakenDown'
    BY <2>1 DEF Exact, TakenDown, AllInstalled, IdsDiffer, CallbacksToCome, ClosedInOrder
  <2> QED
    BY <2>3, <2>4, <2>5 DEF Exact
<1> QED
  BY <1>1, <1>2

LEMMA BuildExact == Connection /\ Exact /\ BuildService => Exact'
<1> SUFFICES ASSUME Connection, Exact, BuildService PROVE Exact'
  OBVIOUS
<1> DEFINE s == Len(idOf) + 1
<1>1. TypeOK /\ link = "entering" /\ captured' = captured
  BY DEF Connection, BuildService, program
<1>2. /\ outbound' = outbound \o SenderOf(captured.transport)
      /\ chains' = [chains EXCEPT ![s] = outbound']
      /\ link' \in {"entering", "failed"}
      /\ closedCallbacks' = IF IsHTTP THEN closedCallbacks ELSE Append(closedCallbacks, s)
  BY DEF BuildService
<1>3. Len(idOf) \in Nat /\ s \in Services /\ DOMAIN idOf = 1..Len(idOf)
  BY <1>1 DEF BuildService, TypeOK, Configs
<1>4. Len(idOf') = s /\ DOMAIN idOf' = DOMAIN idOf \cup {s}
  BY <1>1, <1>3 DEF BuildService, TypeOK
<1>5. outbound' = captured.outbound \o Senders(captured.transport, s)
  <2> DEFINE b == captured.outbound
             m == Senders(captured.transport, Len(idOf))
             o == SenderOf(captured.transport)
  <2>1. b \in Seq(Kinds) /\ m \in Seq(Kinds) /\ o \in Seq(Kinds)
    BY <1>1, <1>3, SendersType, SenderType DEF TypeOK, Configs
  <2>2. outbound' = (b \o m) \o o
    BY <1>1, <1>2 DEF Exact, Piling
  <2>3. m \o o = Senders(captured.transport, s)
    BY <1>3, OneMoreSender
  <2> HIDE DEF b, m, o
  <2>4. (b \o m) \o o = b \o (m \o o)
    BY <2>1, ConcatAssociative
  <2> QED
    BY <2>2, <2>3, <2>4 DEF b
<1>6. SendersPileUp'
  <2>1. \A x \in Services : chains'[x] = IF x = s THEN outbound' ELSE chains[x]
    <3>1. chains \in [Services -> Seq(Kinds)] /\ chains' = [chains EXCEPT ![s] = outbound']
      BY <1>1, <1>2 DEF TypeOK
    <3> HIDE DEF s, Services
    <3> QED
      BY <1>3, <3>1
  <2>2. DOMAIN idOf \subseteq Services
    BY <1>1, <1>3 DEF TypeOK
  <2>3. \A x \in DOMAIN idOf : chains[x] = captured.outbound \o Senders(captured.transport, x)
    BY DEF Exact, SendersPileUp
  <2> HIDE DEF s, Services
  <2> QED
    BY <1>1, <1>3, <1>4, <1>5, <2>1, <2>2, <2>3 DEF SendersPileUp
<1>7. Piling'
  BY <1>1, <1>4, <1>5 DEF Piling
<1>8. EachIsListed'
  <2>1. CASE IsHTTP
    BY <1>1, <1>2, <2>1 DEF Exact, EachIsListed, IsHTTP
  <2>2. CASE ~IsHTTP
    <3>1. closedCallbacks = [x \in 1..Len(idOf) |-> x] /\ closedCallbacks' = Append(closedCallbacks, s)
      BY <1>2, <2>2 DEF Exact, EachIsListed
    <3>2. closedCallbacks \in Seq(Services) /\ Len(closedCallbacks) = Len(idOf)
      BY <1>1, <1>3, <3>1 DEF TypeOK
    <3> DEFINE new == [x \in 1..s |-> x]
    <3>3. new \in Seq(Nat) /\ Len(new) = s
      BY <1>3
    <3>4. closedCallbacks' \in Seq(Nat) /\ Len(closedCallbacks') = s
      BY <1>3, <3>1, <3>2
    <3>5. \A x \in 1..s : closedCallbacks'[x] = new[x]
      BY <1>3, <3>1, <3>2
    <3> HIDE DEF new
    <3>6. closedCallbacks' = new
      BY <3>3, <3>4, <3>5, SeqEqual
    <3> QED
      BY <1>1, <1>4, <2>2, <3>6 DEF EachIsListed, IsHTTP, new
  <2> QED
    BY <2>1, <2>2
<1>9. AllInstalled' /\ IdsDiffer'
  <2>1. PICK id \in Ids :
           /\ idOf' = Append(idOf, id)
           /\ IF Taken(id) THEN link' = "failed" /\ UNCHANGED handlers
              ELSE handlers' = handlers \cup {s} /\ UNCHANGED link
    BY DEF BuildService
  <2>2. handlers = DOMAIN idOf
    BY <1>1 DEF Exact, TakenDown, AllInstalled
  <2>3. idOf'[s] = id /\ \A x \in DOMAIN idOf : idOf'[x] = idOf[x]
    BY <1>1, <1>3, <2>1 DEF TypeOK
  <2>4. CASE Taken(id)
    BY <2>1, <2>2, <2>3, <2>4 DEF Exact, TakenDown, AllInstalled, IdsDiffer
  <2>5. CASE ~Taken(id)
    <3>1. handlers' = handlers \cup {s} /\ \A x \in handlers : idOf'[x] # id
      BY <2>1, <2>2, <2>3, <2>5 DEF Taken
    <3>2. AllInstalled'
      BY <1>4, <2>2, <3>1 DEF AllInstalled
    <3>3. \A x, u \in handlers : idOf'[x] = idOf'[u] => x = u
      BY <2>2, <2>3 DEF Exact, TakenDown, IdsDiffer
    <3> HIDE DEF s
    <3>4. IdsDiffer'
      BY <2>3, <3>1, <3>3 DEF IdsDiffer
    <3> QED
      BY <3>2, <3>4
  <2> QED
    BY <2>4, <2>5
<1>10. CallbacksToCome' /\ ClosedInOrder'
  BY <1>2 DEF CallbacksToCome, ClosedInOrder
<1> QED
  BY <1>6, <1>7, <1>8, <1>9, <1>10 DEF Exact, TakenDown

LEMMA DisconnectExact == Connection /\ Exact /\ Disconnect => Exact'
<1> SUFFICES ASSUME Connection, Exact, Disconnect PROVE Exact'
  OBVIOUS
<1>1. /\ link = "open" /\ link' = "closed" /\ closing' = closedCallbacks
      /\ UNCHANGED <<captured, idOf, chains, closedCallbacks, handlers, closed>>
  BY DEF Disconnect, program, entry
<1>2. SendersPileUp' /\ Piling' /\ EachIsListed'
  BY <1>1 DEF Exact, SendersPileUp, Piling, EachIsListed, IsHTTP
<1>3. TypeOK /\ closed = {} /\ at = 1 /\ at' = 1
  BY <1>1 DEF Connection, NotClosingYet, Disconnect
<1>4. Len(closedCallbacks) \in Nat /\ Done' = 0 /\ 1..0 = {}
  BY <1>1, <1>3 DEF TypeOK, Done
<1>5. Len(idOf) \in Nat /\ DOMAIN idOf = 1..Len(idOf) /\ handlers = DOMAIN idOf
  BY <1>1, <1>3 DEF TypeOK, Exact, TakenDown, AllInstalled
<1>6. \A i \in DOMAIN closing' : closing'[i] = 0 + i
  BY <1>1, <1>5 DEF Exact, EachIsListed
<1>7. AllInstalled' /\ IdsDiffer' /\ CallbacksToCome'
  BY <1>1, <1>3, <1>4, <1>6 DEF Exact, TakenDown, AllInstalled, IdsDiffer, CallbacksToCome
<1>8. ClosedInOrder'
  BY <1>1, <1>3, <1>4, <1>5 DEF ClosedInOrder, IsHTTP
<1> QED
  BY <1>2, <1>7, <1>8 DEF Exact, TakenDown

LEMMA CloseExact == Connection /\ Exact /\ CloseStep => Exact'
<1> SUFFICES ASSUME Connection, Exact, CloseStep PROVE Exact'
  OBVIOUS
<1>1. UNCHANGED <<captured, link, idOf, outbound, chains, closedCallbacks>>
  BY DEF CloseStep, program, entry
<1>2. SendersPileUp' /\ Piling' /\ EachIsListed'
  BY <1>1 DEF Exact, SendersPileUp, Piling, EachIsListed, IsHTTP
<1>3. TypeOK /\ link = "closed" /\ closing # <<>> /\ at \in {1, 2}
  BY DEF Connection, NotClosingYet, CloseStep, TypeOK
<1>4. /\ Len(closedCallbacks) \in Nat /\ Len(closing) \in Nat /\ Len(closing) > 0
      /\ closing \in Seq(Services) /\ Len(idOf) \in Nat /\ DOMAIN idOf = 1..Len(idOf)
  BY <1>3 DEF TypeOK
<1>5. /\ Done \in 0..Len(closedCallbacks) /\ closed = 1..Done
      /\ \A i \in DOMAIN closing : closing[i] = Done + i
      /\ handlers = IF IsHTTP THEN DOMAIN idOf ELSE (Done + at)..Len(idOf)
  BY <1>3 DEF Exact, TakenDown, CallbacksToCome, ClosedInOrder
<1>6. Head(closing) = Done + 1
  BY <1>4, <1>5
<1>7. ~IsHTTP /\ Len(closedCallbacks) = Len(idOf) /\ Done + 1 \in 1..Len(idOf)
  <2>1. IsHTTP => closedCallbacks = <<>>
    BY DEF Exact, EachIsListed
  <2>2. ~IsHTTP
    BY <1>4, <1>5, <2>1 DEF Done
  <2>3. Len(closedCallbacks) = Len(idOf)
    BY <1>4, <2>2 DEF Exact, EachIsListed
  <2> QED
    BY <1>4, <1>5, <2>2, <2>3 DEF Done
<1>8. AllInstalled'
  BY <1>1, <1>3 DEF AllInstalled
<1>9. CASE at = 1
  <2>1. handlers' = {x \in handlers : idOf[x] # idOf[Head(closing)]} /\ at' = 2 /\ UNCHANGED <<closed, closing>>
    BY <1>9 DEF CloseStep
  <2>2. Done' = Done
    BY <1>1, <2>1 DEF Done
  <2>3. Done + 1 \in handlers /\ handlers = (Done + 1)..Len(idOf)
    BY <1>5, <1>7, <1>9
  <2>4. handlers' = handlers \ {Done + 1}
    BY <1>6, <2>1, <2>3 DEF Exact, TakenDown, IdsDiffer
  <2>5. handlers' = (Done' + at')..Len(idOf')
    <3>1. Done \in Int /\ Len(idOf) \in Int
      BY <1>4, <1>5
    <3> HIDE DEF Done
    <3>2. ((Done + 1)..Len(idOf)) \ {Done + 1} = (Done + 2)..Len(idOf)
      BY <3>1
    <3> QED
      BY <1>1, <2>1, <2>2, <2>3, <2>4, <3>2
  <2>6. IdsDiffer'
    BY <1>1, <2>4 DEF Exact, TakenDown, IdsDiffer
  <2>7. CallbacksToCome'
    BY <1>1, <1>3, <1>5, <2>1, <2>2 DEF CallbacksToCome
  <2>8. ClosedInOrder'
    BY <1>1, <1>5, <1>7, <2>1, <2>2, <2>5 DEF ClosedInOrder, IsHTTP
  <2> QED
    BY <1>2, <1>8, <2>6, <2>7, <2>8 DEF Exact, TakenDown
<1>10. CASE at = 2
  <2>1. closed' = closed \cup {Done + 1} /\ handlers' = handlers /\ closing' = Tail(closing) /\ at' = 1
    BY <1>6, <1>10 DEF CloseStep
  <2>2. /\ Len(closing') = Len(closing) - 1 /\ DOMAIN closing' = 1..(Len(closing) - 1)
        /\ \A i \in 1..(Len(closing) - 1) : closing'[i] = closing[i + 1]
    BY <1>4, <2>1
  <2>3. Done' = Done + 1 /\ Done' \in 0..Len(closedCallbacks)
    BY <1>1, <1>4, <1>5, <2>2 DEF Done
  <2>4. ASSUME NEW i \in DOMAIN closing'
        PROVE  closing'[i] = Done' + i
    <3>1. i + 1 \in DOMAIN closing /\ closing'[i] = closing[i + 1] /\ i \in Nat
      BY <1>4, <2>2
    <3>2. closing[i + 1] = Done + (i + 1)
      BY <1>5, <3>1
    <3>3. Done \in Int /\ Done' = Done + 1
      BY <1>5, <2>3
    <3> HIDE DEF Done
    <3> QED
      BY <3>1, <3>2, <3>3
  <2>5. closed' = 1..Done'
    BY <1>4, <1>5, <2>1, <2>3
  <2>6. handlers' = (Done' + at')..Len(idOf')
    <3>1. Done \in Int /\ handlers = (Done + 2)..Len(idOf)
      BY <1>5, <1>7, <1>10
    <3> HIDE DEF Done
    <3>2. (Done + 1) + 1 = Done + 2
      BY <3>1
    <3> QED
      BY <1>1, <2>1, <2>3, <3>1, <3>2
  <2>7. IdsDiffer'
    BY <1>1, <2>1 DEF Exact, TakenDown, IdsDiffer
  <2>8. CallbacksToCome'
    BY <1>1, <2>1, <2>3, <2>4 DEF CallbacksToCome
  <2>9. ClosedInOrder'
    BY <1>1, <1>7, <2>5, <2>6 DEF ClosedInOrder, IsHTTP
  <2> QED
    BY <1>2, <1>8, <2>7, <2>8, <2>9 DEF Exact, TakenDown
<1> QED
  BY <1>3, <1>9, <1>10

LEMMA ExactStep == Connection /\ Exact /\ [Next]_vars => Exact'
<1> SUFFICES ASSUME Connection, Exact, [Next]_vars PROVE Exact'
  OBVIOUS
<1>1. CASE AddServiceCreator \/ BuildOutboundInterceptor \/ ConfigureTransportType
  <2>1. UNCHANGED <<running, captured, link, entry, handlers, ending>>
    BY <1>1 DEF AddServiceCreator, BuildOutboundInterceptor, ConfigureTransportType, Configured
  <2> QED
    BY <2>1, QuietExact DEF Quiet, ending
<1>2. CASE AsyncRun
  BY <1>2, QuietExact DEF Quiet, AsyncRun, ending
<1>3. CASE Accept
  <2>1. /\ link' = "entering" /\ outbound' = captured.outbound /\ idOf = <<>>
        /\ UNCHANGED <<captured, idOf, closedCallbacks>>
    BY <1>3 DEF Accept, Connection, Entered, program
  <2>2. captured.outbound \in Seq(Kinds)
    BY DEF Connection, TypeOK, Configs
  <2>3. outbound' = captured.outbound \o Senders(captured.transport, 0)
    BY <2>1, <2>2, NoSenders, ConcatEmptySeq
  <2>4. Piling'
    BY <2>1, <2>3 DEF Piling
  <2>5. SendersPileUp' /\ EachIsListed'
    BY <2>1 DEF Exact, SendersPileUp, EachIsListed, IsHTTP
  <2>6. TakenDown'
    BY <1>3, <2>1 DEF Accept, Exact, TakenDown, AllInstalled, IdsDiffer, CallbacksToCome, ClosedInOrder
  <2> QED
    BY <2>4, <2>5, <2>6 DEF Exact
<1>4. CASE BuildService
  BY <1>4, BuildExact
<1>5. CASE EnterDone
  BY <1>5 DEF EnterDone, Exact, SendersPileUp, Piling, EachIsListed, TakenDown, AllInstalled,
              IdsDiffer, CallbacksToCome, ClosedInOrder, IsHTTP, program, entry
<1>6. CASE Receive \/ RunPosted \/ Reply
  <2>1. UNCHANGED <<program, link, entry, handlers, ending>>
    BY <1>6 DEF Receive, RunPosted, Reply
  <2> QED
    BY <2>1, QuietExact DEF Quiet, ending, program
<1>7. CASE Disconnect
  BY <1>7, DisconnectExact
<1>8. CASE CloseStep
  BY <1>8, CloseExact
<1>9. CASE UNCHANGED vars
  BY <1>9, QuietExact DEF Quiet, vars, program, ending
<1> QED
  BY <1>1, <1>2, <1>3, <1>4, <1>5, <1>6, <1>7, <1>8, <1>9 DEF Next

LEMMA InitExact == Init => Exact
<1> SUFFICES ASSUME Init PROVE Exact
  OBVIOUS
<1>1. [s \in 1..0 |-> s] = <<>> /\ Len(<<>>) = 0 /\ DOMAIN <<>> = {}
  OBVIOUS
<1> QED
  BY <1>1 DEF Init, Exact, SendersPileUp, Piling, EachIsListed, TakenDown, AllInstalled,
              IdsDiffer, CallbacksToCome, ClosedInOrder

LEMMA ExactHolds == Spec => []Exact
<1>1. Init => Exact
  BY InitExact
<1>2. Connection /\ Exact /\ [Next]_vars => Exact'
  BY ExactStep
<1> QED
  BY <1>1, <1>2, ConnectionHolds, PTL DEF Spec

\* The senders pile up with the services, for any number of services and whatever the
\* program put in front: what a reply of the n-th service comes past writes n times.
THEOREM ChainsPileUp == Spec => []SendersPileUp
<1>1. Exact => SendersPileUp
  BY DEF Exact
<1> QED
  BY <1>1, ExactHolds, PTL

\* For any number of services and whatever ids they chose, the end of a binary connection
\* closes them one by one, each after it is out of the manager, and takes none out
\* before its turn: the safety half of EveryServiceClosed.
THEOREM ServicesCloseInOrder == Spec => []ClosedInOrder
<1>1. Exact => ClosedInOrder
  BY DEF Exact, TakenDown
<1> QED
  BY <1>1, ExactHolds, PTL

\* onClose() is a promise of the binary transport and of connections that came to be.
THEOREM OthersAreNotTold == Spec => []NotTold
<1>1. ASSUME Connection, Exact
      PROVE  NotTold
  <2>1. CASE link = "closed" /\ IsHTTP
    <3>1. closedCallbacks = <<>> /\ Len(<<>>) = 0
      BY <1>1, <2>1 DEF Exact, EachIsListed
    <3>2. Done = 0 /\ closed = 1..0
      BY <1>1, <2>1, <3>1 DEF Exact, TakenDown, CallbacksToCome, ClosedInOrder
    <3> QED
      BY <3>2 DEF NotTold
  <2>2. CASE link # "closed"
    BY <1>1, <2>2 DEF Connection, NotClosingYet, NotTold
  <2> QED
    BY <2>1, <2>2 DEF NotTold
<1>2. Connection /\ Exact => NotTold
  BY <1>1
<1> QED
  BY <1>2, ConnectionHolds, ExactHolds, PTL
=============================================================================
