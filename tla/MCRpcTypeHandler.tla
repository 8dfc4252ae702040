-------------------------- MODULE MCRpcTypeHandler --------------------------
(***************************************************************************)
(* Small instances of RpcTypeHandler for TLC.                              *)
(***************************************************************************)
EXTENDS RpcTypeHandler

CONSTANTS t1, t2, d1, d2, h1, h2

=============================================================================
