-------------------------- MODULE MCBinaryProtocol --------------------------
(***************************************************************************)
(* A small instance of BinaryProtocol for TLC.                             *)
(***************************************************************************)
EXTENDS BinaryProtocol

CONSTANTS p1, p2, p3, p4

\* One packet has no data at all; p3 is foreign, p4 broken.
MCDataLen == [p \in Packets |-> CASE p = p1 -> 2 [] p = p2 -> 0 [] p = p3 -> 1 [] OTHER -> 1]
=============================================================================
