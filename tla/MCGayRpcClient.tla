--------------------------- MODULE MCGayRpcClient ---------------------------
(***************************************************************************)
(* Small instances of GayRpcClient for TLC.                                *)
(***************************************************************************)
EXTENDS GayRpcClient, TLC

CONSTANTS c1, w1, w2

\* Workers process input and timers alike, so they are interchangeable.
WorkerSymmetry == Permutations(Workers)
=============================================================================
