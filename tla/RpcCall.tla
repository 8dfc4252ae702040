------------------------------ MODULE RpcCall ------------------------------
(***************************************************************************)
(* What a caller of a gayrpc client is promised about one call that        *)
(* expects an answer.  The call is opened once; from then on exactly one   *)
(* thing may end it: its response handler runs, its timeout callback runs  *)
(* (never before the deadline fixed when the call was made), or the client *)
(* gives it up without telling the caller (the response could not be       *)
(* parsed, an interceptor swallowed it, or an exception unwound the        *)
(* callbacks that were about to run).  How an ended call ended is final.   *)
(* GayRpcClient implements this specification.                             *)
(***************************************************************************)
EXTENDS Integers

CONSTANTS
  Calls,      \* the calls a client can make
  Deadlines   \* the points in time a deadline can fall on

Never == -1   \* the deadline of a call that has none

VARIABLES
  phase,      \* phase[c]: how far call c has come
  expiry,     \* expiry[c]: the deadline of c, or Never
  now         \* the clock deadlines are compared with

vars == <<phase, expiry, now>>

Phases == {"unborn", "open", "responded", "timedout", "lost"}

TypeOK ==
  /\ phase \in [Calls -> Phases]
  /\ expiry \in [Calls -> Deadlines \cup {Never}]
  /\ now \in Nat

Init ==
  /\ phase = [c \in Calls |-> "unborn"]
  /\ expiry = [c \in Calls |-> Never]
  /\ now = 0

\* The deadline of a call is fixed before the call is open to any answer.
Schedule(c) ==
  /\ phase[c] = "unborn"
  /\ expiry[c] = Never
  /\ \E d \in Deadlines :
       /\ d >= now
       /\ expiry' = [expiry EXCEPT ![c] = d]
  /\ UNCHANGED <<phase, now>>

Open(c) ==
  /\ phase[c] = "unborn"
  /\ phase' = [phase EXCEPT ![c] = "open"]
  /\ UNCHANGED <<expiry, now>>

Respond(c) ==
  /\ phase[c] = "open"
  /\ phase' = [phase EXCEPT ![c] = "responded"]
  /\ UNCHANGED <<expiry, now>>

Expire(c) ==
  /\ phase[c] = "open"
  /\ expiry[c] # Never
  /\ expiry[c] <= now
  /\ phase' = [phase EXCEPT ![c] = "timedout"]
  /\ UNCHANGED <<expiry, now>>

\* Several calls are given up together when an exception unwinds a batch.
GiveUp(S) ==
  /\ S # {}
  /\ \A c \in S : phase[c] = "open"
  /\ phase' = [c \in Calls |-> IF c \in S THEN "lost" ELSE phase[c]]
  /\ UNCHANGED <<expiry, now>>

Tick ==
  /\ now' = now + 1
  /\ UNCHANGED <<phase, expiry>>

Next ==
  \/ \E c \in Calls : Schedule(c) \/ Open(c) \/ Respond(c) \/ Expire(c)
  \/ \E S \in SUBSET Calls : GiveUp(S)
  \/ Tick

Spec == Init /\ [][Next]_vars

=============================================================================
