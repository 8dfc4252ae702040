------------------------ MODULE MCServiceConnection ------------------------
(***************************************************************************)
(* A small instance of ServiceConnection for TLC.                          *)
(***************************************************************************)
EXTENDS ServiceConnection

CONSTANTS r1, r2

\* r2 asks for a service that is there only if a creator chose its id.
Asked == [r \in Requests |-> IF r = r1 THEN 0 ELSE 1]
=============================================================================
