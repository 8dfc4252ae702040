---------------------------- MODULE EchoPrograms ----------------------------
(***************************************************************************)
(* The example programs (examples/echo) as programs of RpcSession.         *)
(***************************************************************************)
EXTENDS RpcSession

CONSTANTS c1, c2

Two(a, b)  == [c \in Clients |-> IF c = c1 THEN a ELSE b]
Both(a, b) == [e \in Ends |-> IF e = "A" THEN a ELSE b]

Plain   == <<"plain", 2333>>  \* Echo
Timed   == <<"timed", 2333>>
OneWay  == <<"oneway", 2333>>

\* MyService answers at once and has a client of its own, which it uninstalls in
\* onClose(); `auth' and `counter' only pass on.
EchoServer ==
  [offers |-> {0}, does |-> {"reply"}, makes |-> {Plain, OneWay},
   in |-> <<"pass", "protect">>, out |-> <<"pass", "protect", "send">>]

\* The same service on the client's manager; the next call follows the answer.
EchoClient ==
  [offers |-> {0}, makes |-> {Plain}, in |-> <<>>, out |-> <<"send">>, built |-> TRUE]

\* Set up without ClientBuilder, and nobody uninstalls the client.
SyncEchoClient ==
  [offers |-> {}, makes |-> {Timed}, in |-> <<"protect">>, out |-> <<"send", "arm">>,
   built |-> FALSE]

\* A client program on end A and the echo server on end B.
Joined(client) ==
  [home |-> Two("A", "B"), idOf |-> Two(0, 0), makes |-> Two(client.makes, EchoServer.makes),
   offers |-> Both(client.offers, EchoServer.offers), does |-> EchoServer.does,
   out |-> Both(client.out, EchoServer.out), in |-> Both(client.in, EchoServer.in),
   newer |-> {}, built |-> IF client.built THEN {c1, c2} ELSE {c2}]
=============================================================================
