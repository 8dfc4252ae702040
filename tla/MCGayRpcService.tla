-------------------------- MODULE MCGayRpcService --------------------------
(***************************************************************************)
(* Small instances of GayRpcService for TLC: the chains a program builds.  *)
(***************************************************************************)
EXTENDS GayRpcService

CONSTANTS a1, a2

\* EchoServer.cpp:94-95: authentication in front of withProtectedCall.
Auth == <<"user", "protect">>
\* The service is called on another loop.  What the first interceptor there
\* throws nobody catches.
Async == <<"protect", "user", "loop", "user", "protect">>

=============================================================================
