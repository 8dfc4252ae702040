------------------------- MODULE GayRpcClientProofs -------------------------
(***************************************************************************)
(* Theorems about GayRpcClient, for any number of threads, calls and       *)
(* timeouts, in four parts: where the right to end a call is (Custody),    *)
(* what becomes of deadlines (Watch), who can end the call a thread waits  *)
(* for (WaiterCovered), and that the client implements RpcCall.            *)
(*                                                                         *)
(* CalledBackAtMostOnce is not inductive: it follows from where the right  *)
(* to end a call may be.  Custody says that the right is in one place,     *)
(* that a call which has ended has no place left, and that a number not    *)
(* yet drawn has neither; OneHolder and CalledBackAtMostOnce follow.       *)
(***************************************************************************)
EXTENDS GayRpcClient, TLAPS

\* The positions in which a thread has a call in hand ...
WithCall == {"stamp", "register", "send", "arm", "wait", "handle", "expire"}
\* ... and those in which it alone may end it, or is about to let others.
Owning == {"stamp", "register", "handle", "expire"}

\* s \in Hands(t), without the CASE (HandsAreHas).
Has(t, s) ==
  \/ pc[t] \in Owning /\ mine[t] = s
  \/ \E q \in batch[t] : q.seq = s

Unsettled(s) == responded[s] = 0 /\ timedOut[s] = 0 /\ s \notin lost

\* A thread that is past DrawSequence holds a number that was drawn.
MineDrawn ==
  \A t \in Threads : pc[t] \in WithCall => mine[t] \in Seqs /\ mine[t] < mSequenceID

BatchOnlyInSweep ==
  \A t \in Threads : pc[t] \notin {"sweep", "unwind"} => batch[t] = {}

\* A timer carries the end time of its call, so a call has one timer at most.
TimersMatch ==
  /\ \A q \in mWaitResponseTimerQueue : q.end = call[q.seq].end
  /\ \A t \in Threads : \A q \in batch[t] : q.end = call[q.seq].end
  /\ \A t \in Threads : pc[t] = "stamp" => call[mine[t]].end = Never
  /\ \A t \in Threads :
       pc[t] = "register" /\ call[mine[t]].kind \in Timed => call[mine[t]].end \in Nat

\* Nothing is known of a number that was not drawn yet.
UndrawnIsFresh ==
  \A s \in Seqs : s >= mSequenceID =>
    /\ call[s].end = Never
    /\ s \notin mStubHandleMap
    /\ s \notin loopQueue
    /\ Unsettled(s)
    /\ \A t \in Threads : ~Has(t, s)

\* A thread's hand excludes every other place.
HandExcludes ==
  \A t \in Threads : \A s \in Seqs : Has(t, s) =>
    /\ s \notin mStubHandleMap
    /\ s \notin loopQueue
    /\ Unsettled(s)
    /\ \A u \in Threads : Has(u, s) => u = t

TablesExclude ==
  /\ mTimeoutHandleMap \subseteq mStubHandleMap
  /\ \A s \in mStubHandleMap : s \notin loopQueue /\ Unsettled(s)
  /\ \A s \in loopQueue : Unsettled(s)

\* Ended in exactly one way.
SettledOneWay(s) ==
  \/ responded[s] = 1 /\ timedOut[s] = 0 /\ s \notin lost
  \/ responded[s] = 0 /\ timedOut[s] = 1 /\ s \notin lost
  \/ responded[s] = 0 /\ timedOut[s] = 0 /\ s \in lost

SettledOnce == \A s \in Seqs : Unsettled(s) \/ SettledOneWay(s)

Custody ==
  /\ TypeOK
  /\ MineDrawn
  /\ BatchOnlyInSweep
  /\ TimersMatch
  /\ UndrawnIsFresh
  /\ HandExcludes
  /\ TablesExclude
  /\ SettledOnce

-----------------------------------------------------------------------------
USE TimeoutsAreTimes, BoundsAreNumbers DEF Seqs, Threads

LEMMA InitCustody == Init => Custody
<1> SUFFICES ASSUME Init PROVE Custody
  OBVIOUS
<1>1. TypeOK
  BY DEF Init, TypeOK, Kinds, PCs, Timers, Never
<1>2. MineDrawn /\ BatchOnlyInSweep /\ TimersMatch
  BY DEF Init, MineDrawn, WithCall, BatchOnlyInSweep, TimersMatch
<1>3. \A t \in Threads, s \in Seqs : ~Has(t, s)
  BY DEF Init, Has, Owning
<1>4. \A s \in Seqs : Unsettled(s)
  BY DEF Init, Unsettled
<1>5. UndrawnIsFresh /\ HandExcludes /\ TablesExclude /\ SettledOnce
  BY <1>3, <1>4 DEF Init, UndrawnIsFresh, HandExcludes, TablesExclude, SettledOnce
<1> QED
  BY <1>1, <1>2, <1>5 DEF Custody

\* A step that moves no right: a thread changes between positions that own
\* nothing, and entries are dropped from the tables.
LEMMA QuietKeeps ==
  ASSUME Custody, TypeOK', NEW t \in Threads, NEW to \in PCs,
         pc[t] \notin Owning \cup {"sweep", "unwind"},
         to \notin Owning \cup {"sweep", "unwind"},
         to \in WithCall => pc[t] \in WithCall,
         pc' = pc \/ pc' = [pc EXCEPT ![t] = to],
         mStubHandleMap' \subseteq mStubHandleMap,
         mTimeoutHandleMap' \subseteq mTimeoutHandleMap,
         mTimeoutHandleMap' \subseteq mStubHandleMap',
         UNCHANGED <<mSequenceID, mWaitResponseTimerQueue, call, loopQueue, mine, batch, history>>
  PROVE  Custody'
<1> USE DEF history
<1>1. /\ TypeOK /\ MineDrawn /\ BatchOnlyInSweep /\ TimersMatch /\ UndrawnIsFresh
      /\ HandExcludes /\ TablesExclude /\ SettledOnce
  BY DEF Custody
<1>2. \A u \in Threads, s \in Seqs : Has(u, s)' <=> Has(u, s)
  BY <1>1 DEF Has, Owning, TypeOK
<1>3. \A s \in Seqs : Unsettled(s)' <=> Unsettled(s)
  BY DEF Unsettled
<1>4. MineDrawn'
  BY <1>1 DEF MineDrawn, WithCall, TypeOK
<1>5. BatchOnlyInSweep'
  BY <1>1 DEF BatchOnlyInSweep, TypeOK
<1>6. TimersMatch'
  BY <1>1 DEF TimersMatch, TypeOK, Owning
<1>7. UndrawnIsFresh'
  BY <1>1, <1>2, <1>3 DEF UndrawnIsFresh
<1>8. HandExcludes'
  BY <1>1, <1>2, <1>3 DEF HandExcludes
<1>9. TablesExclude'
  BY <1>1, <1>3 DEF TablesExclude, TypeOK
<1>10. SettledOnce'
  BY <1>1, <1>3 DEF SettledOnce, SettledOneWay
<1> QED
  BY <1>4, <1>5, <1>6, <1>7, <1>8, <1>9, <1>10 DEF Custody

\* A number is drawn.
LEMMA DrawKeeps ==
  ASSUME Custody, TypeOK', NEW t \in Threads, NEW kind \in Kinds, NEW d \in Nat,
         NEW next \in {"stamp", "register", "send"},
         kind \in Timed => next # "register",
         DrawSequence(t, kind, d, next)
  PROVE  Custody'
<1> USE DEF DrawSequence, Goto, link, env, history
<1>1. /\ TypeOK /\ MineDrawn /\ BatchOnlyInSweep /\ TimersMatch /\ UndrawnIsFresh
      /\ HandExcludes /\ TablesExclude /\ SettledOnce
  BY DEF Custody
<1>2. mSequenceID \in Seqs /\ mSequenceID' = mSequenceID + 1 /\ batch[t] = {}
  <2>1. mSequenceID \in Seqs /\ mSequenceID' = mSequenceID + 1
    BY <1>1 DEF TypeOK
  <2>2. batch[t] = {}
    BY <1>1 DEF BatchOnlyInSweep
  <2> QED
    BY <2>1, <2>2
<1>3. \A u \in Threads, s \in Seqs :
        Has(u, s)' <=> Has(u, s) \/ (next # "send" /\ u = t /\ s = mSequenceID)
  BY <1>1, <1>2 DEF Has, Owning, TypeOK
<1>4. \A s \in Seqs : Unsettled(s)' <=> Unsettled(s)
  BY DEF Unsettled
<1>5. MineDrawn'
  BY <1>1, <1>2 DEF MineDrawn, WithCall, TypeOK
<1>6. BatchOnlyInSweep'
  BY <1>1 DEF BatchOnlyInSweep, TypeOK
<1>7. TimersMatch'
  <2>1. \A s \in Seqs : call'[s].end = call[s].end
    BY <1>1, <1>2 DEF TypeOK, UndrawnIsFresh
  <2>2. \A u \in Threads : pc'[u] = "stamp" => call'[mine'[u]].end = Never
    BY <1>1, <1>2 DEF TypeOK, TimersMatch, MineDrawn, WithCall
  <2>3. \A u \in Threads : pc'[u] = "register" /\ call'[mine'[u]].kind \in Timed
                             => call'[mine'[u]].end \in Nat
    BY <1>1, <1>2 DEF TypeOK, TimersMatch, MineDrawn, WithCall
  <2> QED
    BY <1>1, <2>1, <2>2, <2>3 DEF TimersMatch, TypeOK, Timers
<1>8. UndrawnIsFresh'
  BY <1>1, <1>2, <1>3, <1>4 DEF UndrawnIsFresh, TypeOK
<1>9. HandExcludes'
  BY <1>1, <1>2, <1>3, <1>4 DEF HandExcludes, UndrawnIsFresh, TypeOK
<1>10. TablesExclude'
  BY <1>1, <1>4 DEF TablesExclude, TypeOK
<1>11. SettledOnce'
  BY <1>1, <1>4 DEF SettledOnce, SettledOneWay
<1> QED
  BY <1>5, <1>6, <1>7, <1>8, <1>9, <1>10, <1>11 DEF Custody

\* A thread moves the right to end s out of the tables.
LEMMA TakeKeeps ==
  ASSUME Custody, TypeOK', NEW t \in Threads, NEW s \in mStubHandleMap,
         NEW to \in {"handle", "expire"},
         pc[t] = "idle",
         pc' = [pc EXCEPT ![t] = to],
         mine' = [mine EXCEPT ![t] = s],
         mStubHandleMap' = mStubHandleMap \ {s},
         mTimeoutHandleMap' = mTimeoutHandleMap \ {s},
         UNCHANGED <<mSequenceID, mWaitResponseTimerQueue, call, loopQueue, batch, history>>
  PROVE  Custody'
<1> USE DEF history
<1>1. /\ TypeOK /\ MineDrawn /\ BatchOnlyInSweep /\ TimersMatch /\ UndrawnIsFresh
      /\ HandExcludes /\ TablesExclude /\ SettledOnce
  BY DEF Custody
<1>2. s \in Seqs /\ s < mSequenceID /\ batch[t] = {}
  <2>1. s \in Seqs /\ ~(s >= mSequenceID)
    BY <1>1 DEF TypeOK, UndrawnIsFresh
  <2>2. mSequenceID \in Nat
    BY <1>1 DEF TypeOK
  <2>3. batch[t] = {}
    BY <1>1 DEF BatchOnlyInSweep
  <2> QED
    BY <2>1, <2>2, <2>3
<1>3. \A u \in Threads, x \in Seqs : Has(u, x)' <=> Has(u, x) \/ (u = t /\ x = s)
  BY <1>1, <1>2 DEF Has, Owning, TypeOK
<1>4. \A x \in Seqs : Unsettled(x)' <=> Unsettled(x)
  BY DEF Unsettled
<1>5. MineDrawn'
  BY <1>1, <1>2 DEF MineDrawn, WithCall, TypeOK
<1>6. BatchOnlyInSweep'
  BY <1>1, <1>2 DEF BatchOnlyInSweep, TypeOK
<1>7. TimersMatch'
  BY <1>1, <1>2 DEF TimersMatch, TypeOK
<1>8. UndrawnIsFresh'
  BY <1>1, <1>2, <1>3, <1>4 DEF UndrawnIsFresh, TypeOK
<1>9. HandExcludes'
  BY <1>1, <1>2, <1>3, <1>4 DEF HandExcludes, TablesExclude
<1>10. TablesExclude'
  BY <1>1, <1>4 DEF TablesExclude, TypeOK
<1>11. SettledOnce'
  BY <1>1, <1>4 DEF SettledOnce, SettledOneWay
<1> QED
  BY <1>5, <1>6, <1>7, <1>8, <1>9, <1>10, <1>11 DEF Custody

\* A thread that has the right to end its call uses it: the call ends in one way,
\* or the right goes to the event loop's queue.
LEMMA EndKeeps ==
  ASSUME Custody, TypeOK', NEW t \in Threads,
         pc[t] \in {"handle", "expire"},
         pc' = [pc EXCEPT ![t] = "idle"],
         \/ loopQueue' = loopQueue \cup {mine[t]} /\ UNCHANGED history
         \/ /\ UNCHANGED loopQueue
            /\ SettledOneWay(mine[t])'
            /\ \A x \in Seqs \ {mine[t]} :
                 responded'[x] = responded[x] /\ timedOut'[x] = timedOut[x] /\ (x \in lost' <=> x \in lost),
         UNCHANGED <<tables, call, mine, batch>>
  PROVE  Custody'
<1> USE DEF tables
<1>1. /\ TypeOK /\ MineDrawn /\ BatchOnlyInSweep /\ TimersMatch /\ UndrawnIsFresh
      /\ HandExcludes /\ TablesExclude /\ SettledOnce
  BY DEF Custody
<1>2. PICK s \in Seqs : s = mine[t] /\ s < mSequenceID
  BY <1>1 DEF MineDrawn, WithCall
<1>3. Has(t, s) /\ batch[t] = {}
  BY <1>1, <1>2 DEF Has, Owning, BatchOnlyInSweep
<1>4. \A u \in Threads, x \in Seqs : Has(u, x)' <=> Has(u, x) /\ ~(u = t /\ x = s)
  BY <1>1, <1>2, <1>3 DEF Has, Owning, TypeOK
<1>5. s \notin mStubHandleMap /\ s \notin loopQueue /\ Unsettled(s)
      /\ \A u \in Threads : Has(u, s) => u = t
  BY <1>1, <1>2, <1>3 DEF HandExcludes
<1>6. \A x \in Seqs \ {s} : (Unsettled(x)' <=> Unsettled(x)) /\ (x \in loopQueue' <=> x \in loopQueue)
  BY <1>2 DEF Unsettled, history
<1>7. s \in loopQueue' => Unsettled(s)'
  BY <1>5 DEF Unsettled, history
<1>8. MineDrawn'
  BY <1>1 DEF MineDrawn, WithCall, TypeOK
<1>9. BatchOnlyInSweep'
  BY <1>1, <1>3 DEF BatchOnlyInSweep, TypeOK
<1>10. TimersMatch'
  BY <1>1 DEF TimersMatch, TypeOK
<1>11. UndrawnIsFresh'
  <2>1. \A x \in Seqs : x >= mSequenceID => x # s
    BY <1>1, <1>2 DEF TypeOK
  <2> QED
    BY <1>1, <1>4, <1>6, <2>1 DEF UndrawnIsFresh
<1>12. HandExcludes'
  <2>1. \A u \in Threads, x \in Seqs : Has(u, x)' => x # s
    BY <1>4, <1>5
  <2> QED
    BY <1>1, <1>4, <1>6, <2>1 DEF HandExcludes
<1>13. TablesExclude'
  <2>1. mStubHandleMap \subseteq Seqs /\ loopQueue' \subseteq Seqs
    BY <1>1 DEF TypeOK
  <2>2. \A x \in mStubHandleMap : x \notin loopQueue' /\ Unsettled(x)'
    BY <1>1, <1>5, <1>6, <2>1 DEF TablesExclude
  <2>3. \A x \in loopQueue' : Unsettled(x)'
    BY <1>1, <1>6, <1>7, <2>1 DEF TablesExclude
  <2> QED
    BY <1>1, <2>2, <2>3 DEF TablesExclude
<1>14. SettledOnce'
  <2>1. \A x \in Seqs \ {s} : SettledOneWay(x)' <=> SettledOneWay(x)
    BY <1>2 DEF SettledOneWay, history
  <2>2. Unsettled(s)' \/ SettledOneWay(s)'
    BY <1>2, <1>5 DEF Unsettled, SettledOneWay, history
  <2>3. \A x \in Seqs \ {s} : Unsettled(x)' \/ SettledOneWay(x)'
    BY <1>1, <1>6, <2>1 DEF SettledOnce
  <2> QED
    BY <2>2, <2>3 DEF SettledOnce
<1> QED
  BY <1>8, <1>9, <1>10, <1>11, <1>12, <1>13, <1>14 DEF Custody

\* The event loop runs a posted handler.
LEMMA PostedKeeps ==
  ASSUME Custody, TypeOK', NEW t \in Threads, RunPosted(t)
  PROVE  Custody'
<1> USE DEF RunPosted, tables
<1>1. /\ TypeOK /\ MineDrawn /\ BatchOnlyInSweep /\ TimersMatch /\ UndrawnIsFresh
      /\ HandExcludes /\ TablesExclude /\ SettledOnce
  BY DEF Custody
<1>2. PICK s \in loopQueue :
        /\ loopQueue' = loopQueue \ {s}
        /\ \/ responded' = [responded EXCEPT ![s] = @ + 1] /\ UNCHANGED lost
           \/ lost' = lost \cup {s} /\ UNCHANGED responded
  OBVIOUS
<1>3. s \in Seqs /\ Unsettled(s)
  BY <1>1 DEF TypeOK, TablesExclude
<1>4. \A u \in Threads, x \in Seqs : Has(u, x)' <=> Has(u, x)
  BY DEF Has
<1>5. \A x \in Seqs \ {s} : (Unsettled(x)' <=> Unsettled(x)) /\ (SettledOneWay(x)' <=> SettledOneWay(x))
  BY <1>1, <1>2, <1>3 DEF Unsettled, SettledOneWay, TypeOK
<1>6. SettledOneWay(s)'
  BY <1>1, <1>2, <1>3 DEF Unsettled, SettledOneWay, TypeOK
<1>7. MineDrawn' /\ BatchOnlyInSweep' /\ TimersMatch'
  BY <1>1 DEF MineDrawn, BatchOnlyInSweep, TimersMatch
<1>8. UndrawnIsFresh'
  BY <1>1, <1>2, <1>4, <1>5 DEF UndrawnIsFresh
<1>9. HandExcludes'
  BY <1>1, <1>2, <1>4, <1>5 DEF HandExcludes
<1>10. TablesExclude'
  <2>1. s \notin mStubHandleMap
    BY <1>1 DEF TablesExclude
  <2> QED
    BY <1>1, <1>2, <1>5, <2>1 DEF TablesExclude, TypeOK
<1>11. SettledOnce'
  BY <1>1, <1>5, <1>6 DEF SettledOnce
<1> QED
  BY <1>7, <1>8, <1>9, <1>10, <1>11 DEF Custody

\* The end time of a call is fixed while the call is in its caller's hand.
LEMMA StampKeeps ==
  ASSUME Custody, TypeOK', NEW t \in Threads, StampTimer(t)
  PROVE  Custody'
<1> USE DEF StampTimer, Goto, tables, env, history
<1>1. /\ TypeOK /\ MineDrawn /\ BatchOnlyInSweep /\ TimersMatch /\ UndrawnIsFresh
      /\ HandExcludes /\ TablesExclude /\ SettledOnce
  BY DEF Custody
<1>2. pc[t] = "stamp" /\ mine[t] \in Seqs /\ mine[t] < mSequenceID /\ Has(t, mine[t])
  BY <1>1 DEF MineDrawn, WithCall, Has, Owning
<1>3. \A u \in Threads, s \in Seqs : Has(u, s)' <=> Has(u, s)
  BY <1>1 DEF Has, Owning, TypeOK
<1>4. \A s \in Seqs : Unsettled(s)' <=> Unsettled(s)
  BY DEF Unsettled
<1>5. /\ call[mine[t]].end = Never
      /\ call'[mine[t]].end \in Nat
      /\ \A s \in Seqs \ {mine[t]} : call'[s] = call[s]
  BY <1>1, <1>2 DEF TimersMatch, TypeOK
<1>6. MineDrawn' /\ BatchOnlyInSweep'
  BY <1>1 DEF MineDrawn, WithCall, BatchOnlyInSweep, TypeOK
<1>7. TimersMatch'
  <2>1. \A q \in Timers : q.end = call[q.seq].end => q.end = call'[q.seq].end
    BY <1>2, <1>5 DEF Timers, Never
  <2>2. \A u \in Threads : pc'[u] \in {"stamp", "register"} /\ u # t
                             => pc'[u] = pc[u] /\ mine[u] \in Seqs \ {mine[t]}
    BY <1>1, <1>2 DEF TypeOK, MineDrawn, WithCall, HandExcludes, Has, Owning
  <2>3. pc'[t] = "register"
    BY <1>1 DEF TypeOK
  <2>4. \A u \in Threads : pc'[u] = "stamp" => call'[mine'[u]].end = Never
    BY <1>1, <1>5, <2>2, <2>3 DEF TimersMatch
  <2>5. \A u \in Threads : pc'[u] = "register" /\ call'[mine'[u]].kind \in Timed
                             => call'[mine'[u]].end \in Nat
    BY <1>1, <1>5, <2>2, <2>3 DEF TimersMatch
  <2> QED
    BY <1>1, <2>1, <2>4, <2>5 DEF TimersMatch, TypeOK
<1>8. UndrawnIsFresh'
  <2>1. \A s \in Seqs : s >= mSequenceID => s # mine[t]
    BY <1>1, <1>2 DEF TypeOK
  <2> QED
    BY <1>1, <1>3, <1>4, <1>5, <2>1 DEF UndrawnIsFresh
<1>9. HandExcludes'
  BY <1>1, <1>3, <1>4 DEF HandExcludes
<1>10. TablesExclude'
  BY <1>1, <1>4 DEF TablesExclude, TypeOK
<1>11. SettledOnce'
  BY <1>1, <1>4 DEF SettledOnce, SettledOneWay
<1> QED
  BY <1>6, <1>7, <1>8, <1>9, <1>10, <1>11 DEF Custody

\* The right to end a call goes from its caller's hand into the tables.
LEMMA RegisterKeeps ==
  ASSUME Custody, TypeOK', NEW t \in Threads, Register(t)
  PROVE  Custody'
<1> USE DEF Register, TimeoutOf, TimerOf, Goto, env, history
<1>1. /\ TypeOK /\ MineDrawn /\ BatchOnlyInSweep /\ TimersMatch /\ UndrawnIsFresh
      /\ HandExcludes /\ TablesExclude /\ SettledOnce
  BY DEF Custody
<1>2. pc[t] = "register" /\ mine[t] \in Seqs /\ mine[t] < mSequenceID
  BY <1>1 DEF MineDrawn, WithCall
<1>3. Has(t, mine[t]) /\ batch[t] = {}
  BY <1>2, <1>1 DEF Has, Owning, BatchOnlyInSweep
<1>4. \A u \in Threads, s \in Seqs : Has(u, s)' <=> Has(u, s) /\ ~(u = t /\ s = mine[t])
  BY <1>1, <1>3 DEF Has, Owning, TypeOK
<1>5. \A s \in Seqs : Unsettled(s)' <=> Unsettled(s)
  BY DEF Unsettled
<1>6. mine[t] \notin loopQueue /\ Unsettled(mine[t]) /\ \A u \in Threads : Has(u, mine[t]) => u = t
  BY <1>1, <1>2, <1>3 DEF HandExcludes
<1>7. MineDrawn' /\ BatchOnlyInSweep'
  BY <1>1 DEF MineDrawn, WithCall, BatchOnlyInSweep, TypeOK
<1>8. TimersMatch'
  BY <1>1, <1>2 DEF TimersMatch, TypeOK
<1>9. UndrawnIsFresh'
  <2>1. \A s \in Seqs : s >= mSequenceID => s # mine[t]
    BY <1>1, <1>2 DEF TypeOK
  <2> QED
    BY <1>1, <1>4, <1>5, <2>1 DEF UndrawnIsFresh
<1>10. HandExcludes'
  BY <1>1, <1>4, <1>5, <1>6 DEF HandExcludes
<1>11. TablesExclude'
  <2>1. mTimeoutHandleMap' \subseteq mTimeoutHandleMap \cup {mine[t]}
    OBVIOUS
  <2>2. mStubHandleMap' = mStubHandleMap \cup {mine[t]}
    OBVIOUS
  <2>3. mTimeoutHandleMap' \subseteq mStubHandleMap'
    BY <1>1, <2>1, <2>2 DEF TablesExclude
  <2> QED
    BY <1>1, <1>2, <1>5, <1>6, <2>2, <2>3 DEF TablesExclude, TypeOK
<1>12. SettledOnce'
  BY <1>1, <1>5 DEF SettledOnce, SettledOneWay
<1> QED
  BY <1>7, <1>8, <1>9, <1>10, <1>11, <1>12 DEF Custody

\* checkTimeout() moves the expired callbacks from the tables into its batch.
LEMMA SweepKeeps ==
  ASSUME Custody, TypeOK', NEW t \in Threads, SweepTimers(t)
  PROVE  Custody'
<1> USE DEF env, history
<1>1. /\ TypeOK /\ MineDrawn /\ BatchOnlyInSweep /\ TimersMatch /\ UndrawnIsFresh
      /\ HandExcludes /\ TablesExclude /\ SettledOnce
  BY DEF Custody
<1>2. PICK expired \in SUBSET mWaitResponseTimerQueue :
        /\ \A q \in expired : q.seq \in mTimeoutHandleMap
        /\ pc' = [pc EXCEPT ![t] = IF expired = {} THEN "idle" ELSE "sweep"]
        /\ batch' = [batch EXCEPT ![t] = expired]
        /\ mWaitResponseTimerQueue' \subseteq mWaitResponseTimerQueue
        /\ mTimeoutHandleMap' = mTimeoutHandleMap \ {q.seq : q \in expired}
        /\ mStubHandleMap' = mStubHandleMap \ {q.seq : q \in expired}
  BY DEF SweepTimers, Sweep, Due, Expired, Keys, Goto
<1>3. /\ pc[t] = "check"
      /\ UNCHANGED <<mSequenceID, call, loopQueue, mine, responded, timedOut, lost>>
  BY DEF SweepTimers, Sweep, Due, Expired, Keys, Goto
<1> DEFINE keys == {q.seq : q \in expired}
<1>4. batch[t] = {} /\ batch'[t] = expired /\ \A u \in Threads \ {t} : batch'[u] = batch[u]
  BY <1>1, <1>2, <1>3 DEF BatchOnlyInSweep, TypeOK
<1>5. \A s \in keys : s \in mStubHandleMap
  BY <1>1, <1>2 DEF TablesExclude
<1>6. \A u \in Threads, s \in Seqs : Has(u, s)' <=> Has(u, s) \/ (u = t /\ s \in keys)
  BY <1>1, <1>2, <1>3, <1>4 DEF Has, Owning, TypeOK
<1>7. \A s \in Seqs : Unsettled(s)' <=> Unsettled(s)
  BY <1>3 DEF Unsettled
<1>8. MineDrawn'
  BY <1>1, <1>2, <1>3 DEF MineDrawn, WithCall, TypeOK
<1>9. BatchOnlyInSweep'
  BY <1>1, <1>2, <1>3, <1>4 DEF BatchOnlyInSweep, TypeOK
<1>10. TimersMatch'
  <2>1. \A u \in Threads : pc'[u] \in {"stamp", "register"} => pc'[u] = pc[u]
    BY <1>1, <1>2, <1>3 DEF TypeOK
  <2>2. \A u \in Threads : \A q \in batch'[u] : q.end = call[q.seq].end
    BY <1>1, <1>2, <1>4 DEF TimersMatch
  <2> QED
    BY <1>1, <1>2, <1>3, <2>1, <2>2 DEF TimersMatch
<1>11. UndrawnIsFresh'
  BY <1>1, <1>2, <1>3, <1>5, <1>6, <1>7 DEF UndrawnIsFresh
<1>12. HandExcludes'
  BY <1>1, <1>2, <1>3, <1>5, <1>6, <1>7 DEF HandExcludes, TablesExclude
<1>13. TablesExclude'
  <2>1. mStubHandleMap \subseteq Seqs /\ loopQueue \subseteq Seqs
    BY <1>1 DEF TypeOK
  <2> QED
    BY <1>1, <1>2, <1>3, <1>7, <2>1 DEF TablesExclude
<1>14. SettledOnce'
  BY <1>1, <1>3, <1>7 DEF SettledOnce, SettledOneWay
<1> QED
  BY <1>8, <1>9, <1>10, <1>11, <1>12, <1>13, <1>14 DEF Custody

\* One callback of the batch runs.
LEMMA CallbackKeeps ==
  ASSUME Custody, TypeOK', NEW t \in Threads, RunCallback(t)
  PROVE  Custody'
<1> USE DEF tables, env
<1>1. /\ TypeOK /\ MineDrawn /\ BatchOnlyInSweep /\ TimersMatch /\ UndrawnIsFresh
      /\ HandExcludes /\ TablesExclude /\ SettledOnce
  BY DEF Custody
<1>2. PICK q \in batch[t] :
        /\ timedOut' = [timedOut EXCEPT ![q.seq] = @ + 1]
        /\ batch' = [batch EXCEPT ![t] = @ \ {q}]
        /\ \/ pc' = [pc EXCEPT ![t] = IF batch[t] = {q} THEN "idle" ELSE "sweep"]
           \/ pc' = [pc EXCEPT ![t] = "unwind"]
  BY DEF RunCallback
<1>3. /\ pc[t] = "sweep"
      /\ UNCHANGED <<mSequenceID, mStubHandleMap, mTimeoutHandleMap, mWaitResponseTimerQueue,
                     call, loopQueue, mine, responded, lost>>
  BY DEF RunCallback
<1>4. PICK s \in Seqs : s = q.seq
  BY <1>1, <1>2 DEF TypeOK, Timers
<1>5. /\ batch'[t] = batch[t] \ {q}
      /\ \A u \in Threads \ {t} : batch'[u] = batch[u]
      /\ pc'[t] \in {"idle", "sweep", "unwind"}
      /\ pc'[t] = "idle" => batch'[t] = {}
      /\ \A u \in Threads \ {t} : pc'[u] = pc[u]
  BY <1>1, <1>2 DEF TypeOK
<1>6. \A r \in batch[t] : r.seq = s => r = q
  <2>1. \A r \in batch[t] : r \in Timers /\ r.end = call[r.seq].end
    BY <1>1 DEF TimersMatch, TypeOK
  <2>2. \A r, p \in Timers : r.seq = p.seq /\ r.end = p.end => r = p
    BY DEF Timers
  <2> QED
    BY <1>2, <1>4, <2>1, <2>2
<1>7. Has(t, s)
  BY <1>2, <1>4 DEF Has
<1>8. \A u \in Threads, x \in Seqs : Has(u, x)' <=> Has(u, x) /\ ~(u = t /\ x = s)
  BY <1>2, <1>3, <1>4, <1>5, <1>6 DEF Has, Owning
<1>9. s \notin mStubHandleMap /\ s \notin loopQueue /\ Unsettled(s) /\ ~(s >= mSequenceID)
      /\ \A u \in Threads : Has(u, s) => u = t
  BY <1>1, <1>7 DEF HandExcludes, UndrawnIsFresh
<1>10. \A x \in Seqs \ {s} : (Unsettled(x)' <=> Unsettled(x)) /\ (SettledOneWay(x)' <=> SettledOneWay(x))
  BY <1>1, <1>2, <1>3, <1>4 DEF Unsettled, SettledOneWay, TypeOK
<1>11. SettledOneWay(s)'
  BY <1>1, <1>2, <1>3, <1>4, <1>9 DEF Unsettled, SettledOneWay, TypeOK
<1>12. MineDrawn'
  BY <1>1, <1>3, <1>5 DEF MineDrawn, WithCall
<1>13. BatchOnlyInSweep'
  BY <1>1, <1>5 DEF BatchOnlyInSweep
<1>14. TimersMatch'
  BY <1>1, <1>3, <1>5 DEF TimersMatch
<1>15. UndrawnIsFresh'
  BY <1>1, <1>3, <1>8, <1>9, <1>10 DEF UndrawnIsFresh
<1>16. HandExcludes'
  BY <1>1, <1>3, <1>8, <1>9, <1>10 DEF HandExcludes
<1>17. TablesExclude'
  <2>1. mStubHandleMap \subseteq Seqs /\ loopQueue \subseteq Seqs
    BY <1>1 DEF TypeOK
  <2> QED
    BY <1>1, <1>3, <1>9, <1>10, <2>1 DEF TablesExclude
<1>18. SettledOnce'
  BY <1>1, <1>10, <1>11 DEF SettledOnce
<1> QED
  BY <1>12, <1>13, <1>14, <1>15, <1>16, <1>17, <1>18 DEF Custody

\* An exception gives up what is left of the batch.
LEMMA UnwindKeeps ==
  ASSUME Custody, TypeOK', NEW t \in Threads, UnwindCallbacks(t)
  PROVE  Custody'
<1> USE DEF tables, env
<1>1. /\ TypeOK /\ MineDrawn /\ BatchOnlyInSweep /\ TimersMatch /\ UndrawnIsFresh
      /\ HandExcludes /\ TablesExclude /\ SettledOnce
  BY DEF Custody
<1>2. /\ pc[t] = "unwind" /\ pc' = [pc EXCEPT ![t] = "idle"]
      /\ lost' = lost \cup {q.seq : q \in batch[t]}
      /\ batch' = [batch EXCEPT ![t] = {}]
      /\ UNCHANGED <<mSequenceID, mStubHandleMap, mTimeoutHandleMap, mWaitResponseTimerQueue,
                     call, loopQueue, mine, responded, timedOut>>
  BY DEF UnwindCallbacks, Goto
<1>3. batch'[t] = {} /\ \A u \in Threads \ {t} : batch'[u] = batch[u] /\ pc'[u] = pc[u]
  BY <1>1, <1>2 DEF TypeOK
<1>4. pc'[t] = "idle"
  BY <1>1, <1>2 DEF TypeOK
<1>5. \A s \in Seqs : Has(t, s) <=> \E q \in batch[t] : q.seq = s
  BY <1>2 DEF Has, Owning
<1>6. \A u \in Threads, s \in Seqs : Has(u, s)' <=> Has(u, s) /\ u # t
  BY <1>2, <1>3, <1>4 DEF Has, Owning
<1>7. \A s \in Seqs : ~Has(t, s) =>
        (Unsettled(s)' <=> Unsettled(s)) /\ (SettledOneWay(s)' <=> SettledOneWay(s))
  BY <1>2, <1>5 DEF Unsettled, SettledOneWay
<1>8. \A s \in Seqs : Has(t, s) => SettledOneWay(s)'
  BY <1>1, <1>2, <1>5 DEF HandExcludes, Unsettled, SettledOneWay
<1>9. MineDrawn' /\ BatchOnlyInSweep'
  BY <1>1, <1>2, <1>3, <1>4 DEF MineDrawn, WithCall, BatchOnlyInSweep
<1>10. TimersMatch'
  BY <1>1, <1>2, <1>3, <1>4 DEF TimersMatch
<1>11. UndrawnIsFresh'
  BY <1>1, <1>2, <1>6, <1>7 DEF UndrawnIsFresh
<1>12. HandExcludes'
  BY <1>1, <1>2, <1>6, <1>7 DEF HandExcludes
<1>13. TablesExclude'
  <2>1. mStubHandleMap \subseteq Seqs /\ loopQueue \subseteq Seqs
    BY <1>1 DEF TypeOK
  <2>2. \A s \in mStubHandleMap \cup loopQueue : ~Has(t, s)
    BY <1>1, <2>1 DEF HandExcludes
  <2> QED
    BY <1>1, <1>2, <1>7, <2>1, <2>2 DEF TablesExclude
<1>14. SettledOnce'
  BY <1>1, <1>7, <1>8 DEF SettledOnce
<1> QED
  BY <1>9, <1>10, <1>11, <1>12, <1>13, <1>14 DEF Custody

\* Counting one more keeps a function of counts.
LEMMA CountOneMore ==
  ASSUME NEW f \in [Seqs -> Nat], NEW s \in Seqs
  PROVE  [f EXCEPT ![s] = @ + 1] \in [Seqs -> Nat]
  OBVIOUS

\* Every action keeps the types.
LEMMA TypeStep ==
  ASSUME Custody, Next
  PROVE  TypeOK'
<1> USE DEF Goto, tables, link, env, history
<1>1. TypeOK /\ MineDrawn /\ TimersMatch
  BY DEF Custody
<1>2. \A t \in Threads : pc[t] \in WithCall => mine[t] \in Seqs
  BY <1>1 DEF MineDrawn
<1>3. ASSUME NEW t \in Threads, NEW kind \in Kinds, NEW d \in Nat, NEW next \in PCs,
             DrawSequence(t, kind, d, next)
      PROVE  TypeOK'
  <2> USE <1>1, <1>3 DEF DrawSequence
  <2>1. mSequenceID' \in 0..MaxCalls /\ mSequenceID \in Seqs
    BY DEF TypeOK
  <2>2. mine' \in [Threads -> Seqs \cup {Never}]
    BY <2>1 DEF TypeOK
  <2>3. call' \in [Seqs -> [kind : Kinds, timeout : Nat, end : Nat \cup {Never}]]
    BY <2>1 DEF TypeOK
  <2>4. pc' \in [Threads -> PCs]
    BY DEF TypeOK
  <2> QED
    BY <2>1, <2>2, <2>3, <2>4 DEF TypeOK
<1>4. ASSUME NEW t \in Callers, MakeCall(t) PROVE TypeOK'
  BY <1>3, <1>4 DEF MakeCall, CallTimed, CallSync, CallPlain, CallOneWay, Kinds, PCs
<1>5. ASSUME NEW t \in Threads, StampTimer(t) PROVE TypeOK'
  <2> USE <1>1, <1>2, <1>5 DEF StampTimer
  <2>1. mine[t] \in Seqs
    BY DEF WithCall
  <2>2. clock + call[mine[t]].timeout \in Nat
    BY <2>1 DEF TypeOK
  <2>3. call' \in [Seqs -> [kind : Kinds, timeout : Nat, end : Nat \cup {Never}]]
    BY <2>1, <2>2 DEF TypeOK
  <2>4. pc' \in [Threads -> PCs]
    BY DEF TypeOK, PCs
  <2> QED
    BY <2>3, <2>4 DEF TypeOK
<1>6. ASSUME NEW t \in Threads, Register(t) PROVE TypeOK'
  <2> USE <1>1, <1>2, <1>6 DEF Register, TimeoutOf, TimerOf
  <2>1. mine[t] \in Seqs
    BY DEF WithCall
  <2>2. mStubHandleMap' \subseteq Seqs /\ mTimeoutHandleMap' \subseteq Seqs
    BY <2>1 DEF TypeOK
  <2>3. mWaitResponseTimerQueue' \subseteq Timers
    <3>1. CASE call[mine[t]].kind \in Timed
      <4>1. call[mine[t]].end \in Nat
        BY <3>1 DEF TimersMatch
      <4>2. [seq |-> mine[t], end |-> call[mine[t]].end] \in Timers
        BY <2>1, <4>1 DEF Timers
      <4> QED
        BY <3>1, <4>2 DEF TypeOK
    <3>2. CASE call[mine[t]].kind \notin Timed
      BY <3>2 DEF TypeOK
    <3> QED
      BY <3>1, <3>2
  <2>4. pc' \in [Threads -> PCs]
    BY DEF TypeOK, PCs
  <2> QED
    BY <2>2, <2>3, <2>4 DEF TypeOK
<1>7. ASSUME NEW t \in Threads, SendRequest(t) \/ OutboundRejects(t) \/ WaitReturns(t) PROVE TypeOK'
  <2> USE <1>1, <1>2, <1>7 DEF SendRequest, OutboundRejects, WaitReturns, AfterSend
  <2>1. sent' \subseteq Seqs
    <3>1. CASE SendRequest(t)
      BY <3>1 DEF TypeOK, WithCall
    <3>2. CASE ~SendRequest(t)
      BY <3>2 DEF TypeOK
    <3> QED
      BY <3>1, <3>2
  <2>2. pc' \in [Threads -> PCs]
    BY DEF TypeOK, PCs
  <2> QED
    BY <2>1, <2>2 DEF TypeOK
<1>8. ASSUME NEW t \in Threads, ArmTimer(t) PROVE TypeOK'
  <2> USE <1>1, <1>2, <1>8 DEF ArmTimer, AfterSend
  <2>1. mine[t] \in Seqs
    BY DEF WithCall
  <2>2. clock + call[mine[t]].timeout \in Nat
    BY <2>1 DEF TypeOK
  <2>3. armed' \subseteq Timers
    BY <2>1, <2>2 DEF TypeOK, Timers
  <2>4. pc' \in [Threads -> PCs]
    BY DEF TypeOK, PCs
  <2> QED
    BY <2>3, <2>4 DEF TypeOK
<1>9. ASSUME NEW t \in Threads, RunHandler(t) \/ DropResponse(t) \/ RunTimeoutHandler(t) PROVE TypeOK'
  <2> USE <1>1, <1>2, <1>9 DEF RunHandler, DropResponse, RunTimeoutHandler
  <2>1. mine[t] \in Seqs
    BY DEF WithCall
  <2>2. responded' \in [Seqs -> Nat] /\ timedOut' \in [Seqs -> Nat]
    <3>1. responded' \in [Seqs -> Nat]
      <4>1. responded' = responded \/ responded' = [responded EXCEPT ![mine[t]] = @ + 1]
        OBVIOUS
      <4>2. responded \in [Seqs -> Nat]
        BY DEF TypeOK
      <4>3. [responded EXCEPT ![mine[t]] = @ + 1] \in [Seqs -> Nat]
        BY <2>1, <4>2, CountOneMore
      <4> QED
        BY <4>1, <4>2, <4>3
    <3>2. timedOut' \in [Seqs -> Nat]
      <4>1. timedOut' = timedOut \/ timedOut' = [timedOut EXCEPT ![mine[t]] = @ + 1]
        OBVIOUS
      <4>2. timedOut \in [Seqs -> Nat]
        BY DEF TypeOK
      <4>3. [timedOut EXCEPT ![mine[t]] = @ + 1] \in [Seqs -> Nat]
        BY <2>1, <4>2, CountOneMore
      <4> QED
        BY <4>1, <4>2, <4>3
    <3> QED
      BY <3>1, <3>2
  <2>3. lost' \subseteq Seqs /\ loopQueue' \subseteq Seqs
    BY <2>1 DEF TypeOK
  <2>4. pc' \in [Threads -> PCs]
    BY DEF TypeOK, PCs
  <2> QED
    BY <2>2, <2>3, <2>4 DEF TypeOK
<1>10. ASSUME NEW t \in Threads, RunPosted(t) PROVE TypeOK'
  <2> USE <1>1, <1>10 DEF RunPosted
  <2>1. PICK s \in loopQueue :
          /\ loopQueue' = loopQueue \ {s}
          /\ \/ responded' = [responded EXCEPT ![s] = @ + 1] /\ UNCHANGED lost
             \/ lost' = lost \cup {s} /\ UNCHANGED responded
    OBVIOUS
  <2>2. responded' \in [Seqs -> Nat]
    <3>1. responded \in [Seqs -> Nat] /\ s \in Seqs
      BY DEF TypeOK
    <3> QED
      BY <2>1, <3>1, CountOneMore
  <2>3. loopQueue' \subseteq Seqs /\ lost' \subseteq Seqs
    BY <2>1 DEF TypeOK
  <2> QED
    BY <2>2, <2>3 DEF TypeOK
<1>11. ASSUME NEW t \in Threads, CheckTimeout(t) PROVE TypeOK'
  <2> USE <1>1, <1>11 DEF CheckTimeout
  <2>1. stamp' \in [Threads -> Nat]
    BY DEF TypeOK
  <2>2. pc' \in [Threads -> PCs]
    BY DEF TypeOK, PCs
  <2> QED
    BY <2>1, <2>2 DEF TypeOK
<1>12. ASSUME NEW t \in Threads, SweepTimers(t) PROVE TypeOK'
  BY <1>1, <1>12 DEF SweepTimers, Sweep, Due, Expired, Keys, TypeOK, PCs
<1>13. ASSUME NEW t \in Threads, RunCallback(t) PROVE TypeOK'
  <2> USE <1>1, <1>13 DEF RunCallback
  <2>1. timedOut' \in [Seqs -> Nat]
    BY DEF TypeOK, Timers
  <2>2. batch' \in [Threads -> SUBSET Timers]
    BY DEF TypeOK
  <2>3. pc' \in [Threads -> PCs]
    BY DEF TypeOK, PCs
  <2> QED
    BY <2>1, <2>2, <2>3 DEF TypeOK
<1>14. ASSUME NEW t \in Threads, UnwindCallbacks(t) PROVE TypeOK'
  <2> USE <1>1, <1>14 DEF UnwindCallbacks
  <2>1. lost' \subseteq Seqs
    <3>1. \A q \in batch[t] : q.seq \in Seqs
      BY DEF TypeOK, Timers
    <3>2. lost' = lost \cup {q.seq : q \in batch[t]}
      OBVIOUS
    <3> QED
      BY <3>1, <3>2 DEF TypeOK
  <2>2. batch' \in [Threads -> SUBSET Timers]
    BY DEF TypeOK
  <2>3. pc' \in [Threads -> PCs]
    BY DEF TypeOK, PCs
  <2> QED
    BY <2>1, <2>2, <2>3 DEF TypeOK
<1>15. ASSUME NEW t \in Threads, ReceiveResponse(t) PROVE TypeOK'
  BY <1>1, <1>15 DEF ReceiveResponse, TakeResponse, MoveOut, TypeOK, PCs
<1>16. ASSUME NEW t \in Threads, FireTimer(t) PROVE TypeOK'
  BY <1>1, <1>16 DEF FireTimer, TakeTimeout, MoveOut, TypeOK, PCs
<1>17. ASSUME Disconnect \/ Uninstall \/ Tick PROVE TypeOK'
  <2>1. CASE Disconnect
    BY <1>1, <2>1 DEF Disconnect, TypeOK
  <2>2. CASE Uninstall
    BY <1>1, <2>2 DEF Uninstall, TypeOK
  <2>3. CASE Tick
    <3>1. clock' \in 0..MaxTime
      BY <1>1, <2>3 DEF Tick, TypeOK
    <3> QED
      BY <1>1, <2>3, <3>1 DEF Tick, TypeOK
  <2> QED
    BY <1>17, <2>1, <2>2, <2>3
<1> QED
  BY <1>4, <1>5, <1>6, <1>7, <1>8, <1>9, <1>10, <1>11, <1>12, <1>13, <1>14, <1>15, <1>16, <1>17
  DEF Next, Proceed

LEMMA CustodyStep == Custody /\ [Next]_vars => Custody'
<1> SUFFICES ASSUME Custody, [Next]_vars PROVE Custody'
  OBVIOUS
<1>1. /\ TypeOK /\ MineDrawn /\ BatchOnlyInSweep /\ TimersMatch /\ UndrawnIsFresh
      /\ HandExcludes /\ TablesExclude /\ SettledOnce
  BY DEF Custody
<1>2. Next => TypeOK'
  BY TypeStep
<1> USE DEF Goto
<1>3. ASSUME NEW t \in Callers, MakeCall(t), TypeOK' PROVE Custody'
  <2>1. ASSUME NEW d \in Timeouts, NEW kind \in {"timed", "sync"}, DrawSequence(t, kind, d, "stamp")
        PROVE  Custody'
    BY <1>3, <2>1, DrawKeeps DEF Kinds, Timed
  <2>2. CASE CallPlain(t)
    BY <1>3, <2>2, DrawKeeps DEF CallPlain, Kinds, Timed
  <2>3. CASE CallOneWay(t)
    BY <1>3, <2>3, DrawKeeps DEF CallOneWay, Kinds, Timed
  <2> QED
    BY <1>3, <2>1, <2>2, <2>3 DEF MakeCall, CallTimed, CallSync
<1>4. ASSUME NEW t \in Threads, TypeOK',
             SendRequest(t) \/ OutboundRejects(t) \/ ArmTimer(t) \/ WaitReturns(t) \/ CheckTimeout(t)
      PROVE  Custody'
  <2>1. PICK to \in {"arm", "wait", "idle", "check"} :
          /\ pc' = [pc EXCEPT ![t] = to]
          /\ to \in WithCall => pc[t] \in WithCall
    BY <1>4 DEF SendRequest, OutboundRejects, ArmTimer, WaitReturns, CheckTimeout, AfterSend, WithCall
  <2>2. pc[t] \notin Owning \cup {"sweep", "unwind"}
    BY <1>4 DEF SendRequest, OutboundRejects, ArmTimer, WaitReturns, CheckTimeout, Owning
  <2>3. to \in PCs /\ to \notin Owning \cup {"sweep", "unwind"}
    BY DEF PCs, Owning
  <2>4. /\ UNCHANGED <<mStubHandleMap, mTimeoutHandleMap>>
        /\ UNCHANGED <<mSequenceID, mWaitResponseTimerQueue, call, loopQueue, mine, batch, history>>
    BY <1>4 DEF SendRequest, OutboundRejects, ArmTimer, WaitReturns, CheckTimeout, tables, env
  <2>5. mTimeoutHandleMap' \subseteq mStubHandleMap'
    BY <1>1, <2>4 DEF TablesExclude
  <2> QED
    BY <1>4, <2>1, <2>2, <2>3, <2>4, <2>5, QuietKeeps
<1>5. ASSUME NEW t \in Threads, TypeOK', RunHandler(t) \/ DropResponse(t) \/ RunTimeoutHandler(t)
      PROVE  Custody'
  <2>1. /\ pc[t] \in {"handle", "expire"}
        /\ pc' = [pc EXCEPT ![t] = "idle"]
        /\ UNCHANGED <<tables, call, mine, batch>>
    BY <1>5 DEF RunHandler, DropResponse, RunTimeoutHandler
  <2>2. mine[t] \in Seqs
    BY <1>1, <2>1 DEF MineDrawn, WithCall
  <2>3. Unsettled(mine[t])
    BY <1>1, <2>1, <2>2 DEF HandExcludes, Has, Owning
  <2>4. mine'[t] = mine[t]
    BY <2>1
  <2>5. CASE RunHandler(t)
    <3>1. CASE loopQueue' = loopQueue \cup {mine[t]} /\ UNCHANGED <<responded, lost>>
      BY <1>5, <2>1, <2>5, <3>1, EndKeeps DEF RunHandler, history
    <3>2. CASE responded' = [responded EXCEPT ![mine[t]] = @ + 1] /\ UNCHANGED <<loopQueue, lost>>
      <4>1. SettledOneWay(mine[t])'
        BY <1>1, <2>2, <2>3, <2>4, <2>5, <3>2 DEF RunHandler, SettledOneWay, Unsettled, TypeOK
      <4>2. \A x \in Seqs \ {mine[t]} :
              responded'[x] = responded[x] /\ timedOut'[x] = timedOut[x] /\ (x \in lost' <=> x \in lost)
        BY <1>1, <2>5, <3>2 DEF RunHandler, TypeOK
      <4> QED
        BY <1>5, <2>1, <3>2, <4>1, <4>2, EndKeeps
    <3> QED
      BY <2>5, <3>1, <3>2 DEF RunHandler
  <2>6. CASE DropResponse(t)
    <3>1. SettledOneWay(mine[t])'
      BY <2>3, <2>4, <2>6 DEF DropResponse, SettledOneWay, Unsettled
    <3>2. \A x \in Seqs \ {mine[t]} :
            responded'[x] = responded[x] /\ timedOut'[x] = timedOut[x] /\ (x \in lost' <=> x \in lost)
      BY <2>6 DEF DropResponse
    <3> QED
      BY <1>5, <2>1, <2>6, <3>1, <3>2, EndKeeps DEF DropResponse, env
  <2>7. CASE RunTimeoutHandler(t)
    <3>1. SettledOneWay(mine[t])'
      BY <1>1, <2>2, <2>3, <2>4, <2>7 DEF RunTimeoutHandler, SettledOneWay, Unsettled, TypeOK
    <3>2. \A x \in Seqs \ {mine[t]} :
            responded'[x] = responded[x] /\ timedOut'[x] = timedOut[x] /\ (x \in lost' <=> x \in lost)
      BY <1>1, <2>7 DEF RunTimeoutHandler, TypeOK
    <3> QED
      BY <1>5, <2>1, <2>7, <3>1, <3>2, EndKeeps DEF RunTimeoutHandler, env
  <2> QED
    BY <1>5, <2>5, <2>6, <2>7
<1>6. ASSUME NEW t \in Threads, TypeOK', ReceiveResponse(t) PROVE Custody'
  <2>1. PICK s : TakeResponse(t, s)
    BY <1>6 DEF ReceiveResponse
  <2>2. UNCHANGED <<mSequenceID, mWaitResponseTimerQueue, call, loopQueue, batch, history>>
    BY <1>6, <2>1 DEF ReceiveResponse, TakeResponse, MoveOut, env
  <2>3. CASE s \in mStubHandleMap
    BY <1>6, <2>1, <2>2, <2>3, TakeKeeps DEF TakeResponse, MoveOut
  <2>4. CASE s \notin mStubHandleMap
    <3>1. /\ pc[t] = "idle" /\ pc' = pc /\ UNCHANGED <<mine, mStubHandleMap>>
          /\ mTimeoutHandleMap' \subseteq mTimeoutHandleMap
      BY <2>1, <2>4 DEF TakeResponse, MoveOut
    <3>2. mTimeoutHandleMap' \subseteq mStubHandleMap'
      BY <1>1, <3>1 DEF TablesExclude
    <3> QED
      BY <1>6, <2>2, <3>1, <3>2, QuietKeeps DEF Owning, WithCall, PCs
  <2> QED
    BY <2>3, <2>4
<1>7. ASSUME NEW t \in Threads, TypeOK', FireTimer(t) PROVE Custody'
  <2>1. PICK s : \/ TakeTimeout(t, s)
                 \/ pc[t] = "idle" /\ UNCHANGED <<tables, mine, pc>>
    BY <1>7 DEF FireTimer
  <2>2. UNCHANGED <<mSequenceID, mWaitResponseTimerQueue, call, loopQueue, batch, history>>
    BY <1>7, <2>1 DEF FireTimer, TakeTimeout, MoveOut, tables
  <2>3. CASE TakeTimeout(t, s) /\ s \in mTimeoutHandleMap
    <3>1. s \in mStubHandleMap
      BY <1>1, <2>3 DEF TablesExclude
    <3> QED
      BY <1>7, <2>2, <2>3, <3>1, TakeKeeps DEF TakeTimeout, MoveOut
  <2>4. CASE ~(TakeTimeout(t, s) /\ s \in mTimeoutHandleMap)
    <3>1. /\ pc[t] = "idle" /\ pc' = pc /\ UNCHANGED <<mine, mTimeoutHandleMap>>
          /\ mStubHandleMap' \subseteq mStubHandleMap
          /\ mTimeoutHandleMap' \subseteq mStubHandleMap'
      BY <1>1, <2>1, <2>4 DEF TakeTimeout, MoveOut, tables, TablesExclude
    <3> QED
      BY <1>7, <2>2, <3>1, QuietKeeps DEF Owning, WithCall, PCs
  <2> QED
    BY <2>3, <2>4
<1>8. ASSUME Disconnect \/ Uninstall \/ Tick \/ UNCHANGED vars PROVE Custody'
  <2>1. UNCHANGED <<tables, call, loopQueue, pc, mine, batch, history>>
    BY <1>8 DEF Disconnect, Uninstall, Tick, env, vars
  <2>2. TypeOK'
    <3>1. CASE UNCHANGED vars
      BY <1>1, <3>1 DEF TypeOK, vars, tables, link, env, history
    <3> QED
      BY <1>2, <1>8, <3>1 DEF Next
  <2>3. MineDrawn' /\ BatchOnlyInSweep' /\ TimersMatch'
    BY <1>1, <2>1 DEF MineDrawn, BatchOnlyInSweep, TimersMatch, tables
  <2>4. \A u \in Threads, s \in Seqs : (Has(u, s)' <=> Has(u, s)) /\ (Unsettled(s)' <=> Unsettled(s))
                                       /\ (SettledOneWay(s)' <=> SettledOneWay(s))
    BY <2>1 DEF Has, Unsettled, SettledOneWay, history
  <2>5. \A s \in Seqs : (Unsettled(s)' <=> Unsettled(s)) /\ (SettledOneWay(s)' <=> SettledOneWay(s))
    BY <2>1 DEF Unsettled, SettledOneWay, history
  <2>6. UndrawnIsFresh' /\ HandExcludes'
    BY <1>1, <2>1, <2>4, <2>5 DEF UndrawnIsFresh, HandExcludes, tables
  <2>7. TablesExclude' /\ SettledOnce'
    BY <1>1, <2>1, <2>5 DEF TablesExclude, SettledOnce, TypeOK, tables
  <2> QED
    BY <2>2, <2>3, <2>6, <2>7 DEF Custody
<1>9. ASSUME NEW t \in Threads, TypeOK', Proceed(t) PROVE Custody'
  BY <1>4, <1>5, <1>9, StampKeeps, RegisterKeeps, SweepKeeps, CallbackKeeps, UnwindKeeps DEF Proceed
<1>10. ASSUME NEW t \in Workers, TypeOK',
              ReceiveResponse(t) \/ FireTimer(t) \/ RunPosted(t) \/ CheckTimeout(t)
       PROVE  Custody'
  BY <1>4, <1>6, <1>7, <1>10, PostedKeeps
<1> QED
  BY <1>2, <1>3, <1>8, <1>9, <1>10 DEF Next

\* The invariant holds in every state of every behaviour.
THEOREM CustodyHolds == Spec => []Custody
  BY InitCustody, CustodyStep, PTL DEF Spec

\* Every variable keeps its type.
THEOREM TypeCorrect == Spec => []TypeOK
<1>1. Custody => TypeOK
  BY DEF Custody
<1> QED
  BY <1>1, CustodyHolds, PTL

\* However many threads make calls, receive responses, fire timers and poll
\* checkTimeout(), no call is called back twice.
THEOREM AtMostOneCallback == Spec => []CalledBackAtMostOnce
<1>1. Custody => CalledBackAtMostOnce
  <2> SUFFICES ASSUME Custody, NEW s \in Seqs PROVE EndCount(s) <= 1
    BY DEF CalledBackAtMostOnce
  <2>1. Unsettled(s) \/ SettledOneWay(s)
    BY DEF Custody, SettledOnce
  <2> QED
    BY <2>1 DEF Unsettled, SettledOneWay, EndCount
<1> QED
  BY <1>1, CustodyHolds, PTL

\* Has says of a thread what Hands says.
LEMMA HandsAreHas ==
  ASSUME BatchOnlyInSweep, NEW t \in Threads, NEW s
  PROVE  s \in Hands(t) <=> Has(t, s)
<1>1. CASE pc[t] \in {"stamp", "register"}
  BY <1>1 DEF BatchOnlyInSweep, Hands, Preparing, Holding, Has, Owning
<1>2. CASE pc[t] \in {"handle", "expire"}
  BY <1>2 DEF BatchOnlyInSweep, Hands, Preparing, Holding, Has, Owning
<1>3. CASE pc[t] \in {"sweep", "unwind"}
  BY <1>3 DEF Hands, Preparing, Holding, Has, Owning
<1>4. CASE pc[t] \notin {"stamp", "register", "handle", "expire", "sweep", "unwind"}
  BY <1>4 DEF BatchOnlyInSweep, Hands, Preparing, Holding, Has, Owning
<1> QED
  BY <1>1, <1>2, <1>3, <1>4

\* The right to end a call is always in one place.
THEOREM OneHolderAlways == Spec => []OneHolder
<1>1. Custody => OneHolder
  <2> SUFFICES ASSUME Custody PROVE OneHolder
    OBVIOUS
  <2>1. TypeOK /\ BatchOnlyInSweep /\ HandExcludes /\ TablesExclude
    BY DEF Custody
  <2>2. \A t \in Threads : \A s : s \in Hands(t) <=> Has(t, s)
    BY <2>1, HandsAreHas
  <2>3. \A t \in Threads : \A s : Has(t, s) => s \in Seqs
    BY DEF Custody, TypeOK, MineDrawn, WithCall, Has, Owning, Timers
  <2>4. \A s \in Seqs : Unsettled(s) => ~(EndCount(s) > 0)
    BY DEF Unsettled, EndCount
  <2>5. \A t \in Threads : Hands(t) \cap (mStubHandleMap \cup loopQueue) = {}
    BY <2>1, <2>2, <2>3 DEF HandExcludes
  <2>6. \A t, u \in Threads : t # u => Hands(t) \cap Hands(u) = {}
    BY <2>1, <2>2, <2>3 DEF HandExcludes
  <2>7. ASSUME NEW s \in Seqs, EndCount(s) > 0
        PROVE  s \notin mStubHandleMap \cup loopQueue \cup UNION {Hands(t) : t \in Threads}
    <3>1. ~Unsettled(s)
      BY <2>4, <2>7
    <3> QED
      BY <2>1, <2>2, <3>1 DEF HandExcludes, TablesExclude
  <2> QED
    BY <2>1, <2>5, <2>6, <2>7 DEF OneHolder, TablesExclude
<1> QED
  BY <1>1, CustodyHolds, PTL

-----------------------------------------------------------------------------
(* No call is forgotten, checkTimeout finds every deadline, no timeout is  *)
(* reported early, and nothing is called back once the stub is             *)
(* uninstalled.  This needs more than Custody: how the end time of a call, *)
(* its timer and its callbacks belong together.  Watch says that, and is   *)
(* inductive beside Custody.                                               *)

\* What a call asked for.  A number not yet drawn asked for nothing.
CallsFit ==
  \A s \in Seqs :
    /\ s >= mSequenceID => call[s].kind = "none"
    /\ call[s].timeout > 0 => call[s].kind \in Timed
    /\ call[s].kind \in Timed => call[s].timeout \in Timeouts
    /\ call[s].end <= clock + call[s].timeout

\* A timed call has its end time once it is in the tables.
Stamped(s) == call[s].kind \in Timed /\ call[s].end \in Nat
CallersFit ==
  \A t \in Threads :
    /\ pc[t] = "stamp" => call[mine[t]].kind \in Timed
    /\ pc[t] \in {"send", "arm"} /\ call[mine[t]].kind \in Timed => Stamped(mine[t])
    /\ pc[t] = "arm" => call[mine[t]].kind \in Timed
TimersFit == \A q \in armed : Stamped(q.seq) /\ call[q.seq].end <= q.end

\* A response stub of a timed call has its timeout callback and its timer beside it.
TablesFit ==
  /\ \A s \in mStubHandleMap : call[s].kind \in Timed => s \in mTimeoutHandleMap
  /\ \A s \in mTimeoutHandleMap :
       Stamped(s) /\ [seq |-> s, end |-> call[s].end] \in mWaitResponseTimerQueue

\* Who is about to report a timeout has seen the end time pass.
ReportersFit ==
  \A t \in Threads :
    /\ pc[t] = "check" => stamp[t] <= clock
    /\ pc[t] = "expire" => Stamped(mine[t]) /\ call[mine[t]].end <= clock
    /\ \A q \in batch[t] : Stamped(q.seq) /\ call[q.seq].end <= clock
ReportsFit == \A s \in Seqs : timedOut[s] > 0 => Stamped(s) /\ call[s].end <= clock

\* NothingForgotten, in the words of Custody.
Kept(s) ==
  s \in mStubHandleMap \/ s \in loopQueue \/ ~Unsettled(s) \/ \E t \in Threads : Has(t, s)
AllKept == \A s \in Seqs : call[s].kind \notin {"none", "oneway"} => Kept(s)

Watch ==
  CallsFit /\ CallersFit /\ TimersFit /\ TablesFit /\ ReportersFit /\ ReportsFit /\ AllKept

-----------------------------------------------------------------------------
USE DEF Goto

LEMMA CustodyParts ==
  ASSUME Custody
  PROVE  /\ TypeOK /\ MineDrawn /\ BatchOnlyInSweep /\ TimersMatch /\ UndrawnIsFresh
         /\ HandExcludes /\ TablesExclude /\ SettledOnce
         /\ mSequenceID \in Nat /\ clock \in Nat
         /\ call \in [Seqs -> [kind : Kinds, timeout : Nat, end : Nat \cup {Never}]]
         /\ pc \in [Threads -> PCs] /\ mine \in [Threads -> Seqs \cup {Never}]
         /\ stamp \in [Threads -> Nat] /\ batch \in [Threads -> SUBSET Timers]
         /\ mStubHandleMap \subseteq Seqs /\ mTimeoutHandleMap \subseteq Seqs
         /\ mWaitResponseTimerQueue \subseteq Timers /\ armed \subseteq Timers
         /\ responded \in [Seqs -> Nat] /\ timedOut \in [Seqs -> Nat] /\ Never \notin Nat
<1>1. /\ TypeOK /\ MineDrawn /\ BatchOnlyInSweep /\ TimersMatch /\ UndrawnIsFresh
      /\ HandExcludes /\ TablesExclude /\ SettledOnce
  BY DEF Custody
<1>2. mSequenceID \in Nat /\ clock \in Nat /\ Never \notin Nat
  BY <1>1 DEF TypeOK, Never
<1>3. /\ call \in [Seqs -> [kind : Kinds, timeout : Nat, end : Nat \cup {Never}]]
      /\ pc \in [Threads -> PCs] /\ mine \in [Threads -> Seqs \cup {Never}]
      /\ stamp \in [Threads -> Nat] /\ batch \in [Threads -> SUBSET Timers]
      /\ mStubHandleMap \subseteq Seqs /\ mTimeoutHandleMap \subseteq Seqs
      /\ mWaitResponseTimerQueue \subseteq Timers /\ armed \subseteq Timers
      /\ responded \in [Seqs -> Nat] /\ timedOut \in [Seqs -> Nat]
  BY <1>1 DEF TypeOK
<1> QED
  BY <1>1, <1>2, <1>3

\* What the drawing of a number does, whoever draws it.
LEMMA DrawFacts ==
  ASSUME Custody, NEW t \in Threads, MakeCall(t)
  PROVE  \E kind \in Kinds \ {"none"}, d \in Nat, next \in {"stamp", "register", "send"} :
           /\ mSequenceID \in Seqs /\ mSequenceID' = mSequenceID + 1
           /\ pc[t] = "idle" /\ pc' = [pc EXCEPT ![t] = next]
           /\ mine' = [mine EXCEPT ![t] = mSequenceID]
           /\ call' = [call EXCEPT ![mSequenceID] = [kind |-> kind, timeout |-> d, end |-> Never]]
           /\ kind \in Timed <=> next = "stamp"
           /\ kind = "oneway" <=> next = "send"
           /\ kind \in Timed => d \in Timeouts
           /\ kind \notin Timed => d = 0
           /\ UNCHANGED <<mStubHandleMap, mTimeoutHandleMap, mWaitResponseTimerQueue,
                          clock, env, stamp, batch, history>>
<1>1. mSequenceID < MaxCalls => mSequenceID \in Seqs
  BY CustodyParts
<1> DEFINE Draws(kind, d, next) ==
      /\ mSequenceID \in Seqs /\ mSequenceID' = mSequenceID + 1
      /\ pc[t] = "idle" /\ pc' = [pc EXCEPT ![t] = next]
      /\ mine' = [mine EXCEPT ![t] = mSequenceID]
      /\ call' = [call EXCEPT ![mSequenceID] = [kind |-> kind, timeout |-> d, end |-> Never]]
      /\ UNCHANGED <<mStubHandleMap, mTimeoutHandleMap, mWaitResponseTimerQueue,
                     clock, env, stamp, batch, history>>
<1>2. ASSUME NEW kind, NEW d, NEW next, DrawSequence(t, kind, d, next)
      PROVE  Draws(kind, d, next)
  BY <1>1, <1>2 DEF DrawSequence
<1>3. CASE CallTimed(t)
  <2>1. PICK d \in Timeouts : Draws("timed", d, "stamp")
    BY <1>2, <1>3 DEF CallTimed
  <2> QED
    BY <2>1 DEF Kinds, Timed
<1>4. CASE CallSync(t)
  <2>1. PICK d \in Timeouts : Draws("sync", d, "stamp")
    BY <1>2, <1>4 DEF CallSync
  <2> QED
    BY <2>1 DEF Kinds, Timed
<1>5. CASE CallPlain(t)
  <2>1. Draws("plain", 0, "register")
    BY <1>2, <1>5 DEF CallPlain
  <2>2. "plain" \in Kinds \ {"none"} /\ "plain" \notin Timed /\ 0 \in Nat
    BY DEF Kinds, Timed
  <2> QED
    BY <2>1, <2>2
<1>6. CASE CallOneWay(t)
  <2>1. Draws("oneway", 0, "send")
    BY <1>2, <1>6 DEF CallOneWay
  <2>2. "oneway" \in Kinds \ {"none"} /\ "oneway" \notin Timed /\ 0 \in Nat
    BY DEF Kinds, Timed
  <2> QED
    BY <2>1, <2>2
<1> QED
  BY <1>3, <1>4, <1>5, <1>6 DEF MakeCall

\* What the stamping does.
LEMMA StampFacts ==
  ASSUME Custody, Watch, NEW t \in Threads, StampTimer(t)
  PROVE  \E s \in Seqs :
           /\ s = mine[t] /\ s < mSequenceID /\ call[s].end = Never /\ call[s].kind \in Timed
           /\ pc[t] = "stamp" /\ pc' = [pc EXCEPT ![t] = "register"]
           /\ call' = [call EXCEPT ![s] = [call[s] EXCEPT !.end = clock + call[s].timeout]]
           /\ UNCHANGED <<tables, clock, env, mine, stamp, batch, history>>
<1>1. PICK s \in Seqs : s = mine[t] /\ s < mSequenceID
  BY CustodyParts DEF StampTimer, MineDrawn, WithCall
<1>2. call[s].end = Never /\ call[s].kind \in Timed
  BY <1>1, CustodyParts DEF StampTimer, TimersMatch, Watch, CallersFit
<1>3. call' = [call EXCEPT ![s] = [call[s] EXCEPT !.end = clock + call[s].timeout]]
  BY <1>1, CustodyParts DEF StampTimer
<1> QED
  BY <1>1, <1>2, <1>3 DEF StampTimer

\* Only a thread that draws a number or stamps its end time changes what is known of
\* a call.
LEMMA CallChanges ==
  ASSUME [Next]_vars
  PROVE  \/ \E t \in Threads : MakeCall(t) \/ StampTimer(t)
         \/ UNCHANGED <<call, mSequenceID>>
<1> USE DEF tables
<1>1. ASSUME NEW t \in Threads, Proceed(t) PROVE StampTimer(t) \/ UNCHANGED <<call, mSequenceID>>
  <2>1. Register(t) \/ SendRequest(t) \/ OutboundRejects(t) \/ ArmTimer(t) \/ WaitReturns(t)
          => UNCHANGED <<call, mSequenceID>>
    BY DEF Register, SendRequest, OutboundRejects, ArmTimer, WaitReturns
  <2>2. RunHandler(t) \/ DropResponse(t) \/ RunTimeoutHandler(t) => UNCHANGED <<call, mSequenceID>>
    BY DEF RunHandler, DropResponse, RunTimeoutHandler
  <2>3. SweepTimers(t) \/ RunCallback(t) \/ UnwindCallbacks(t) => UNCHANGED <<call, mSequenceID>>
    BY DEF SweepTimers, Sweep, RunCallback, UnwindCallbacks
  <2> QED
    BY <1>1, <2>1, <2>2, <2>3 DEF Proceed
<1>2. ASSUME NEW t \in Workers, ReceiveResponse(t) \/ FireTimer(t) \/ RunPosted(t) \/ CheckTimeout(t)
      PROVE  UNCHANGED <<call, mSequenceID>>
  BY <1>2 DEF ReceiveResponse, TakeResponse, FireTimer, TakeTimeout, RunPosted, CheckTimeout
<1>3. ASSUME Disconnect \/ Uninstall \/ Tick \/ UNCHANGED vars PROVE UNCHANGED <<call, mSequenceID>>
  BY <1>3 DEF Disconnect, Uninstall, Tick, vars
<1> QED
  BY <1>1, <1>2, <1>3 DEF Next

LEMMA ClockGrows ==
  ASSUME Custody, [Next]_vars
  PROVE  clock' \in Nat /\ clock <= clock' /\ (~Tick => clock' = clock)
<1>1. clock \in Nat
  BY CustodyParts
<1>2. Tick => clock' = clock + 1
  BY DEF Tick
<1>3. ASSUME NEW t \in Threads, Proceed(t) PROVE clock' = clock
  BY <1>3 DEF Proceed, StampTimer, Register, SendRequest, OutboundRejects, ArmTimer, WaitReturns,
              RunHandler, DropResponse, RunTimeoutHandler, SweepTimers, Sweep, RunCallback, UnwindCallbacks
<1>4. ASSUME NEW t \in Threads, MakeCall(t) PROVE clock' = clock
  BY <1>4 DEF MakeCall, CallTimed, CallSync, CallPlain, CallOneWay, DrawSequence
<1>5. ASSUME NEW t \in Workers, ReceiveResponse(t) \/ FireTimer(t) \/ RunPosted(t) \/ CheckTimeout(t)
      PROVE  clock' = clock
  BY <1>5 DEF ReceiveResponse, FireTimer, RunPosted, CheckTimeout
<1>6. ASSUME Disconnect \/ Uninstall \/ UNCHANGED vars PROVE clock' = clock
  BY <1>6 DEF Disconnect, Uninstall, vars
<1> QED
  BY <1>1, <1>2, <1>3, <1>4, <1>5, <1>6 DEF Next

\* A call that was drawn keeps its kind and its timeout, and its end time once it
\* has one.
LEMMA CallKept ==
  ASSUME Custody, Watch, [Next]_vars
  PROVE  /\ mSequenceID <= mSequenceID'
         /\ \A s \in Seqs : s < mSequenceID =>
              call'[s].kind = call[s].kind /\ call'[s].timeout = call[s].timeout
         /\ \A s \in Seqs : call[s].end \in Nat => call'[s] = call[s]
<1>0. /\ mSequenceID \in Nat /\ UndrawnIsFresh /\ Never \notin Nat
      /\ call \in [Seqs -> [kind : Kinds, timeout : Nat, end : Nat \cup {Never}]]
  BY CustodyParts
<1>1. ASSUME NEW t \in Threads, MakeCall(t)
      PROVE  /\ mSequenceID <= mSequenceID'
             /\ \A s \in Seqs : s < mSequenceID => call'[s] = call[s]
             /\ \A s \in Seqs : call[s].end \in Nat => call'[s] = call[s]
  <2>1. PICK c : /\ mSequenceID \in Seqs /\ mSequenceID' = mSequenceID + 1
                 /\ call' = [call EXCEPT ![mSequenceID] = c]
    BY <1>1, DrawFacts
  <2>2. \A s \in Seqs : s # mSequenceID => call'[s] = call[s]
    BY <1>0, <2>1
  <2>3. call[mSequenceID].end = Never
    BY <1>0, <2>1 DEF UndrawnIsFresh
  <2> QED
    BY <1>0, <2>1, <2>2, <2>3
<1>2. ASSUME NEW t \in Threads, StampTimer(t)
      PROVE  /\ mSequenceID' = mSequenceID
             /\ \A s \in Seqs : call'[s].kind = call[s].kind /\ call'[s].timeout = call[s].timeout
             /\ \A s \in Seqs : call[s].end \in Nat => call'[s] = call[s]
  <2>1. PICK x \in Seqs : /\ call[x].end = Never
                          /\ call' = [call EXCEPT ![x] = [call[x] EXCEPT !.end = clock + call[x].timeout]]
                          /\ UNCHANGED tables
    BY <1>2, StampFacts
  <2>2. \A s \in Seqs : call'[s] = IF s = x THEN [call[x] EXCEPT !.end = clock + call[x].timeout] ELSE call[s]
    BY <1>0, <2>1
  <2>3. call'[x].kind = call[x].kind /\ call'[x].timeout = call[x].timeout
    BY <1>0, <2>2
  <2> QED
    BY <1>0, <2>1, <2>2, <2>3 DEF tables
<1> QED
  BY <1>0, <1>1, <1>2, CallChanges

LEMMA CallsStep ==
  ASSUME Custody, Watch, [Next]_vars
  PROVE  CallsFit'
<1>0. /\ mSequenceID \in Nat /\ clock \in Nat /\ Never = -1 /\ CallsFit
      /\ call \in [Seqs -> [kind : Kinds, timeout : Nat, end : Nat \cup {Never}]]
  BY CustodyParts DEF Watch, Never
<1>1. ASSUME NEW t \in Threads, MakeCall(t) PROVE CallsFit'
  <2>1. PICK kind \in Kinds \ {"none"}, d \in Nat :
          /\ mSequenceID \in Seqs /\ mSequenceID' = mSequenceID + 1
          /\ call' = [call EXCEPT ![mSequenceID] = [kind |-> kind, timeout |-> d, end |-> Never]]
          /\ kind \in Timed => d \in Timeouts
          /\ kind \notin Timed => d = 0
          /\ UNCHANGED clock
    BY <1>1, DrawFacts
  <2>2. \A s \in Seqs : s # mSequenceID => call'[s] = call[s]
    BY <1>0, <2>1
  <2>3. call'[mSequenceID] = [kind |-> kind, timeout |-> d, end |-> Never]
    BY <1>0, <2>1
  <2>4. ASSUME NEW s \in Seqs
        PROVE  /\ s >= mSequenceID' => call'[s].kind = "none"
               /\ call'[s].timeout > 0 => call'[s].kind \in Timed
               /\ call'[s].kind \in Timed => call'[s].timeout \in Timeouts
               /\ call'[s].end <= clock' + call'[s].timeout
    <3>1. CASE s = mSequenceID
      BY <1>0, <2>1, <2>3, <3>1
    <3>2. CASE s # mSequenceID
      BY <1>0, <2>1, <2>2, <3>2 DEF CallsFit
    <3> QED
      BY <3>1, <3>2
  <2> QED
    BY <2>4 DEF CallsFit
<1>2. ASSUME NEW t \in Threads, StampTimer(t) PROVE CallsFit'
  <2>1. PICK x \in Seqs : /\ call' = [call EXCEPT ![x] = [call[x] EXCEPT !.end = clock + call[x].timeout]]
                          /\ UNCHANGED <<tables, clock>>
    BY <1>2, StampFacts
  <2>2. \A s \in Seqs : call'[s] = IF s = x THEN [call[x] EXCEPT !.end = clock + call[x].timeout] ELSE call[s]
    BY <1>0, <2>1
  <2>3. /\ call'[x].kind = call[x].kind /\ call'[x].timeout = call[x].timeout
        /\ call'[x].end = clock + call[x].timeout /\ call[x].timeout \in Nat
    BY <1>0, <2>2
  <2>4. ASSUME NEW s \in Seqs
        PROVE  /\ s >= mSequenceID' => call'[s].kind = "none"
               /\ call'[s].timeout > 0 => call'[s].kind \in Timed
               /\ call'[s].kind \in Timed => call'[s].timeout \in Timeouts
               /\ call'[s].end <= clock' + call'[s].timeout
    <3>1. CASE s = x
      BY <1>0, <2>1, <2>3, <3>1 DEF CallsFit, tables
    <3>2. CASE s # x
      BY <1>0, <2>1, <2>2, <3>2 DEF CallsFit, tables
    <3> QED
      BY <3>1, <3>2
  <2> QED
    BY <2>4 DEF CallsFit
<1>3. CASE UNCHANGED <<call, mSequenceID>>
  <2>1. clock' \in Nat /\ clock <= clock'
    BY ClockGrows
  <2>2. \A s \in Seqs : call[s].timeout \in Nat /\ call[s].end \in Int
    BY <1>0
  <2> QED
    BY <1>0, <1>3, <2>1, <2>2 DEF CallsFit
<1> QED
  BY <1>1, <1>2, <1>3, CallChanges

\* How a thread comes to a position in which something is asked of its call.
Stays(t, at) == pc[t] = at /\ mine'[t] = mine[t]

LEMMA Moves ==
  ASSUME Custody, [Next]_vars, NEW t \in Threads
  PROVE  /\ pc'[t] = "stamp" => Stays(t, "stamp") \/ MakeCall(t)
         /\ pc'[t] = "send" => Stays(t, "send") \/ MakeCall(t) \/ Register(t)
         /\ pc'[t] = "arm" => Stays(t, "arm") \/ SendRequest(t)
         /\ pc'[t] = "check" => (pc[t] = "check" /\ stamp'[t] = stamp[t]) \/ stamp'[t] = clock
         /\ pc'[t] = "expire" => Stays(t, "expire") \/ FireTimer(t)
         /\ batch'[t] \subseteq batch[t] \/ SweepTimers(t)
<1>0. /\ pc \in [Threads -> PCs] /\ mine \in [Threads -> Seqs \cup {Never}]
      /\ stamp \in [Threads -> Nat] /\ batch \in [Threads -> SUBSET Timers]
  BY CustodyParts
<1> DEFINE Comes ==
      /\ pc'[t] = "stamp" => Stays(t, "stamp") \/ MakeCall(t)
      /\ pc'[t] = "send" => Stays(t, "send") \/ MakeCall(t) \/ Register(t)
      /\ pc'[t] = "arm" => Stays(t, "arm") \/ SendRequest(t)
      /\ pc'[t] = "check" => (pc[t] = "check" /\ stamp'[t] = stamp[t]) \/ stamp'[t] = clock
      /\ pc'[t] = "expire" => Stays(t, "expire") \/ FireTimer(t)
      /\ batch'[t] \subseteq batch[t] \/ SweepTimers(t)
<1> USE DEF Stays
<1>1. ASSUME NEW u \in Threads, MakeCall(u) PROVE Comes
  BY <1>0, <1>1, DrawFacts
<1>2. ASSUME NEW u \in Threads,
             StampTimer(u) \/ Register(u) \/ SendRequest(u) \/ OutboundRejects(u) \/ ArmTimer(u) \/ WaitReturns(u)
      PROVE  Comes
  <2>1. /\ UNCHANGED <<mine, stamp, batch>>
        /\ \E to \in {"register", "send", "arm", "wait", "idle"} :
             /\ pc' = [pc EXCEPT ![u] = to]
             /\ to = "send" => Register(u)
             /\ to = "arm" => SendRequest(u)
    BY <1>2 DEF StampTimer, Register, SendRequest, OutboundRejects, ArmTimer, WaitReturns, AfterSend
  <2> QED
    BY <1>0, <2>1
<1>3. ASSUME NEW u \in Threads, RunHandler(u) \/ DropResponse(u) \/ RunTimeoutHandler(u)
      PROVE  Comes
  BY <1>0, <1>3 DEF RunHandler, DropResponse, RunTimeoutHandler
<1>4. ASSUME NEW u \in Threads, SweepTimers(u) PROVE Comes
  <2>1. /\ UNCHANGED <<mine, stamp>> /\ \E to \in {"idle", "sweep"} : pc' = [pc EXCEPT ![u] = to]
        /\ batch' = [batch EXCEPT ![u] = Expired(u)]
    BY <1>4 DEF SweepTimers, Sweep
  <2> QED
    BY <1>0, <1>4, <2>1
<1>5. ASSUME NEW u \in Threads, RunCallback(u) \/ UnwindCallbacks(u) PROVE Comes
  <2>1. /\ UNCHANGED <<mine, stamp>> /\ \E to \in {"idle", "sweep", "unwind"} : pc' = [pc EXCEPT ![u] = to]
        /\ \E rest \in SUBSET batch[u] : batch' = [batch EXCEPT ![u] = rest]
    BY <1>5 DEF RunCallback, UnwindCallbacks
  <2> QED
    BY <1>0, <2>1
<1>6. ASSUME NEW u \in Workers, ReceiveResponse(u) PROVE Comes
  <2>1. /\ UNCHANGED <<stamp, batch>> /\ pc[u] = "idle"
        /\ UNCHANGED <<pc, mine>> \/ \E x : pc' = [pc EXCEPT ![u] = "handle"] /\ mine' = [mine EXCEPT ![u] = x]
    BY <1>6 DEF ReceiveResponse, TakeResponse, MoveOut
  <2> QED
    BY <1>0, <2>1
<1>7. ASSUME NEW u \in Workers, FireTimer(u) PROVE Comes
  <2>1. /\ UNCHANGED <<stamp, batch>> /\ pc[u] = "idle"
        /\ UNCHANGED <<pc, mine>> \/ \E x : pc' = [pc EXCEPT ![u] = "expire"] /\ mine' = [mine EXCEPT ![u] = x]
    BY <1>7 DEF FireTimer, TakeTimeout, MoveOut
  <2> QED
    BY <1>0, <1>7, <2>1
<1>8. ASSUME NEW u \in Workers, RunPosted(u) \/ CheckTimeout(u) PROVE Comes
  BY <1>0, <1>8 DEF RunPosted, CheckTimeout
<1>9. ASSUME Disconnect \/ Uninstall \/ Tick \/ UNCHANGED vars PROVE Comes
  BY <1>9 DEF Disconnect, Uninstall, Tick, vars
<1> QED
  BY <1>1, <1>2, <1>3, <1>4, <1>5, <1>6, <1>7, <1>8, <1>9 DEF Next, Proceed

LEMMA CallersStep ==
  ASSUME Custody, Watch, [Next]_vars
  PROVE  CallersFit'
<1>0. /\ MineDrawn /\ TimersMatch /\ CallersFit /\ CallsFit /\ mSequenceID \in Nat
      /\ pc \in [Threads -> PCs] /\ mine \in [Threads -> Seqs \cup {Never}]
      /\ call \in [Seqs -> [kind : Kinds, timeout : Nat, end : Nat \cup {Never}]]
  BY CustodyParts DEF Watch
<1> SUFFICES ASSUME NEW t \in Threads
             PROVE  /\ pc'[t] = "stamp" => call'[mine'[t]].kind \in Timed
                    /\ pc'[t] \in {"send", "arm"} /\ call'[mine'[t]].kind \in Timed =>
                         call'[mine'[t]].end \in Nat
                    /\ pc'[t] = "arm" => call'[mine'[t]].kind \in Timed
  BY DEF CallersFit, Stamped
\* A thread that stays where it was: its call was drawn, and keeps its end time.
<1>1. ASSUME pc[t] \in {"stamp", "send", "arm"}, pc'[t] = pc[t], mine'[t] = mine[t]
      PROVE  /\ pc'[t] = "stamp" => call'[mine'[t]].kind \in Timed
             /\ pc'[t] \in {"send", "arm"} /\ call'[mine'[t]].kind \in Timed => call'[mine'[t]].end \in Nat
             /\ pc'[t] = "arm" => call'[mine'[t]].kind \in Timed
  <2>1. mine[t] \in Seqs /\ mine[t] < mSequenceID
    BY <1>0, <1>1 DEF MineDrawn, WithCall
  <2>2. /\ call'[mine[t]].kind = call[mine[t]].kind
        /\ call[mine[t]].end \in Nat => call'[mine[t]] = call[mine[t]]
    BY <2>1, CallKept
  <2> QED
    BY <1>0, <1>1, <2>1, <2>2 DEF CallersFit, Stamped
<1>2. ASSUME MakeCall(t), pc'[t] \in {"stamp", "send", "arm"}
      PROVE  /\ pc'[t] = "stamp" => call'[mine'[t]].kind \in Timed
             /\ pc'[t] \in {"send", "arm"} => call'[mine'[t]].kind \notin Timed /\ pc'[t] = "send"
  <2>1. PICK kind \in Kinds, d \in Nat, next \in {"stamp", "register", "send"} :
          /\ mSequenceID \in Seqs
          /\ pc' = [pc EXCEPT ![t] = next] /\ mine' = [mine EXCEPT ![t] = mSequenceID]
          /\ call' = [call EXCEPT ![mSequenceID] = [kind |-> kind, timeout |-> d, end |-> Never]]
          /\ kind \in Timed <=> next = "stamp"
    BY <1>2, DrawFacts
  <2>2. pc'[t] = next /\ mine'[t] = mSequenceID /\ call'[mSequenceID].kind = kind
    BY <1>0, <2>1
  <2> QED
    BY <1>2, <2>1, <2>2
<1>3. ASSUME Register(t), call'[mine'[t]].kind \in Timed PROVE call'[mine'[t]].end \in Nat /\ pc'[t] = "send"
  BY <1>0, <1>3 DEF Register, TimersMatch
<1>4. ASSUME SendRequest(t), pc'[t] = "arm"
      PROVE  call'[mine'[t]].end \in Nat /\ call'[mine'[t]].kind \in Timed
  <2>1. mine[t] \in Seqs /\ pc[t] = "send" /\ call' = call /\ mine' = mine
    BY <1>0, <1>4 DEF SendRequest, MineDrawn, WithCall
  <2>2. call[mine[t]].timeout > 0
    BY <1>0, <1>4 DEF SendRequest, AfterSend
  <2>3. call[mine[t]].kind \in Timed
    BY <1>0, <2>1, <2>2 DEF CallsFit
  <2> QED
    BY <1>0, <2>1, <2>3 DEF CallersFit, Stamped
<1> QED
  BY <1>1, <1>2, <1>3, <1>4, Moves DEF Stays

\* withTimeoutCheck arms its timer behind the sender, after the end time was fixed.
LEMMA TimersStep ==
  ASSUME Custody, Watch, [Next]_vars
  PROVE  TimersFit'
<1>0. /\ MineDrawn /\ TimersFit /\ CallersFit /\ CallsFit /\ armed \subseteq Timers /\ clock \in Nat
      /\ call \in [Seqs -> [kind : Kinds, timeout : Nat, end : Nat \cup {Never}]]
  BY CustodyParts DEF Watch
<1>1. (\A q \in armed' : q \in armed) \/ \E t \in Threads : ArmTimer(t)
  <2>1. ASSUME NEW t \in Threads, MakeCall(t) PROVE armed' = armed
    BY <2>1, DrawFacts DEF env
  <2>2. ASSUME NEW t \in Threads, Proceed(t), ~ArmTimer(t) PROVE armed' = armed
    BY <2>2 DEF Proceed, StampTimer, Register, SendRequest, OutboundRejects, WaitReturns, env,
                RunHandler, DropResponse, RunTimeoutHandler, SweepTimers, Sweep, RunCallback, UnwindCallbacks
  <2>3. ASSUME NEW t \in Workers, ReceiveResponse(t) \/ FireTimer(t) \/ RunPosted(t) \/ CheckTimeout(t)
        PROVE  \A q \in armed' : q \in armed
    BY <2>3 DEF ReceiveResponse, FireTimer, RunPosted, CheckTimeout, env
  <2>4. ASSUME Disconnect \/ Uninstall \/ Tick \/ UNCHANGED vars PROVE armed' = armed
    BY <2>4 DEF Disconnect, Uninstall, Tick, vars, env
  <2> QED
    BY <2>1, <2>2, <2>3, <2>4 DEF Next
<1>2. ASSUME NEW q \in armed PROVE (Stamped(q.seq))' /\ call'[q.seq].end <= q.end
  <2>1. q.seq \in Seqs /\ call[q.seq].end \in Nat
    BY <1>0 DEF TimersFit, Stamped, Timers
  <2>2. call'[q.seq] = call[q.seq]
    BY <2>1, CallKept
  <2> QED
    BY <1>0, <2>1, <2>2 DEF TimersFit, Stamped
<1>3. ASSUME NEW t \in Threads, ArmTimer(t), NEW q \in armed', q \notin armed
      PROVE  (Stamped(q.seq))' /\ call'[q.seq].end <= q.end
  <2>1. mine[t] \in Seqs /\ pc[t] = "arm"
    BY <1>0, <1>3 DEF ArmTimer, MineDrawn, WithCall
  <2>2. q.seq = mine[t] /\ q.end = clock + call[mine[t]].timeout /\ call' = call
    BY <1>3 DEF ArmTimer
  <2> QED
    BY <1>0, <2>1, <2>2 DEF CallersFit, CallsFit, Stamped
<1> QED
  BY <1>1, <1>2, <1>3 DEF TimersFit

\* A timed call comes into both tables and the queue at once, and leaves them at once.
LEMMA TablesStep ==
  ASSUME Custody, Watch, [Next]_vars
  PROVE  TablesFit'
<1>0. /\ MineDrawn /\ TimersMatch /\ TablesFit /\ TablesExclude /\ UndrawnIsFresh /\ mSequenceID \in Nat
      /\ call \in [Seqs -> [kind : Kinds, timeout : Nat, end : Nat \cup {Never}]]
      /\ mStubHandleMap \subseteq Seqs /\ mTimeoutHandleMap \subseteq Seqs
      /\ mWaitResponseTimerQueue \subseteq Timers
  BY CustodyParts DEF Watch
<1>1. \A s \in mTimeoutHandleMap : call'[s] = call[s] /\ Stamped(s)
  BY <1>0, CallKept DEF TablesFit, Stamped
<1>2. \A s \in mStubHandleMap : call'[s].kind = call[s].kind
  <2>1. \A s \in mStubHandleMap : s \in Seqs /\ s < mSequenceID
    BY <1>0 DEF UndrawnIsFresh
  <2> QED
    BY <2>1, CallKept
\* What stays in the tables stays in order.
<1>3. ASSUME NEW gone,
             mStubHandleMap' = mStubHandleMap \ gone, mTimeoutHandleMap' = mTimeoutHandleMap \ gone,
             \A q \in mWaitResponseTimerQueue :
               q \in mWaitResponseTimerQueue' \/ q.seq \notin mTimeoutHandleMap'
      PROVE  TablesFit'
  <2>1. ASSUME NEW s \in mStubHandleMap', call'[s].kind \in Timed PROVE s \in mTimeoutHandleMap'
    BY <1>0, <1>2, <1>3, <2>1 DEF TablesFit
  <2>2. ASSUME NEW s \in mTimeoutHandleMap'
        PROVE  (Stamped(s))' /\ [seq |-> s, end |-> call'[s].end] \in mWaitResponseTimerQueue'
    <3>1. s \in mTimeoutHandleMap /\ call'[s] = call[s]
      BY <1>1, <1>3
    <3>2. [seq |-> s, end |-> call[s].end] \in mWaitResponseTimerQueue'
      BY <1>0, <1>3, <3>1 DEF TablesFit
    <3> QED
      BY <1>1, <3>1, <3>2 DEF Stamped
  <2> QED
    BY <2>1, <2>2 DEF TablesFit
<1>4. ASSUME NEW t \in Threads, Register(t) PROVE TablesFit'
  <2>1. PICK s \in Seqs : s = mine[t]
    BY <1>0, <1>4 DEF Register, MineDrawn, WithCall
  <2>2. pc[t] = "register" /\ call' = call /\ mStubHandleMap' = mStubHandleMap \cup {s}
    BY <1>4, <2>1 DEF Register
  <2>3. CASE call[s].kind \in Timed
    <3>1. /\ mTimeoutHandleMap' = mTimeoutHandleMap \cup {s}
          /\ mWaitResponseTimerQueue' = mWaitResponseTimerQueue \cup {[seq |-> s, end |-> call[s].end]}
      BY <1>4, <2>1, <2>3 DEF Register, TimeoutOf, TimerOf
    <3>2. call[s].end \in Nat
      BY <1>0, <2>1, <2>2, <2>3 DEF TimersMatch
    <3> QED
      BY <1>0, <2>2, <2>3, <3>1, <3>2 DEF TablesFit, Stamped
  <2>4. CASE call[s].kind \notin Timed
    <3>1. mTimeoutHandleMap' = mTimeoutHandleMap /\ mWaitResponseTimerQueue' = mWaitResponseTimerQueue
      BY <1>4, <2>1, <2>4 DEF Register, TimeoutOf, TimerOf
    <3> QED
      BY <1>0, <2>2, <2>4, <3>1 DEF TablesFit, Stamped
  <2> QED
    BY <2>3, <2>4
<1>5. ASSUME NEW t \in Threads, SweepTimers(t) PROVE TablesFit'
  <2>1. /\ mStubHandleMap' = mStubHandleMap \ Keys(Expired(t))
        /\ mTimeoutHandleMap' = mTimeoutHandleMap \ Keys(Expired(t))
        /\ mWaitResponseTimerQueue' = mWaitResponseTimerQueue \ Due(t)
    BY <1>5 DEF SweepTimers, Sweep
  <2>2. \A q \in mWaitResponseTimerQueue :
          q \in mWaitResponseTimerQueue' \/ q.seq \notin mTimeoutHandleMap'
    BY <2>1 DEF Expired, Keys
  <2> QED
    BY <1>3, <2>1, <2>2
<1>6. ASSUME NEW t \in Threads, ReceiveResponse(t) \/ FireTimer(t) PROVE TablesFit'
  <2>1. /\ UNCHANGED mWaitResponseTimerQueue
        /\ \E gone : /\ mStubHandleMap' = mStubHandleMap \ gone
                     /\ mTimeoutHandleMap' = mTimeoutHandleMap \ gone
    <3>1. CASE \E s : TakeResponse(t, s) \/ TakeTimeout(t, s)
      BY <3>1 DEF TakeResponse, TakeTimeout
    <3>2. CASE UNCHANGED tables
      <4>1. mStubHandleMap' = mStubHandleMap \ {} /\ mTimeoutHandleMap' = mTimeoutHandleMap \ {}
        BY <3>2 DEF tables
      <4> QED
        BY <3>2, <4>1 DEF tables
    <3> QED
      BY <1>6, <3>1, <3>2 DEF ReceiveResponse, FireTimer
  <2> QED
    BY <1>3, <2>1
<1>7. CASE UNCHANGED <<mStubHandleMap, mTimeoutHandleMap, mWaitResponseTimerQueue>>
  <2>1. mStubHandleMap' = mStubHandleMap \ {} /\ mTimeoutHandleMap' = mTimeoutHandleMap \ {}
    BY <1>7
  <2> QED
    BY <1>3, <1>7, <2>1
<1>8. \/ \E t \in Threads : Register(t) \/ SweepTimers(t) \/ ReceiveResponse(t) \/ FireTimer(t)
      \/ UNCHANGED <<mStubHandleMap, mTimeoutHandleMap, mWaitResponseTimerQueue>>
  <2> USE DEF tables
  <2>1. ASSUME NEW t \in Threads, MakeCall(t)
        PROVE  UNCHANGED <<mStubHandleMap, mTimeoutHandleMap, mWaitResponseTimerQueue>>
    BY <2>1, DrawFacts
  <2>2. ASSUME NEW t \in Threads, Proceed(t), ~Register(t), ~SweepTimers(t)
        PROVE  UNCHANGED <<mStubHandleMap, mTimeoutHandleMap, mWaitResponseTimerQueue>>
    BY <2>2 DEF Proceed, StampTimer, SendRequest, OutboundRejects, ArmTimer, WaitReturns,
                RunHandler, DropResponse, RunTimeoutHandler, RunCallback, UnwindCallbacks
  <2>3. ASSUME NEW t \in Workers, RunPosted(t) \/ CheckTimeout(t)
        PROVE  UNCHANGED <<mStubHandleMap, mTimeoutHandleMap, mWaitResponseTimerQueue>>
    BY <2>3 DEF RunPosted, CheckTimeout
  <2>4. ASSUME Disconnect \/ Uninstall \/ Tick \/ UNCHANGED vars
        PROVE  UNCHANGED <<mStubHandleMap, mTimeoutHandleMap, mWaitResponseTimerQueue>>
    BY <2>4 DEF Disconnect, Uninstall, Tick, vars
  <2> QED
    BY <2>1, <2>2, <2>3, <2>4 DEF Next
<1> QED
  BY <1>4, <1>5, <1>6, <1>7, <1>8

\* Nobody is about to report a timeout that has not come.
LEMMA ReportersStep ==
  ASSUME Custody, Watch, [Next]_vars
  PROVE  ReportersFit'
<1>0. /\ MineDrawn /\ TimersMatch /\ ReportersFit /\ TablesFit /\ TimersFit /\ clock \in Nat
      /\ call \in [Seqs -> [kind : Kinds, timeout : Nat, end : Nat \cup {Never}]]
      /\ stamp \in [Threads -> Nat] /\ batch \in [Threads -> SUBSET Timers]
      /\ mTimeoutHandleMap \subseteq Seqs /\ mWaitResponseTimerQueue \subseteq Timers
      /\ pc \in [Threads -> PCs] /\ mine \in [Threads -> Seqs \cup {Never}] /\ armed \subseteq Timers
  BY CustodyParts DEF Watch
<1>a. clock' \in Nat /\ clock <= clock'
  BY ClockGrows
<1>b. ASSUME NEW s \in Seqs, Stamped(s), call[s].end <= clock
      PROVE  (Stamped(s))' /\ call'[s].end <= clock'
  <2>1. call'[s] = call[s] /\ call[s].end \in Nat
    BY <1>b, CallKept DEF Stamped
  <2> QED
    BY <1>0, <1>a, <1>b, <2>1 DEF Stamped
<1> SUFFICES ASSUME NEW t \in Threads
             PROVE  /\ pc'[t] = "check" => stamp'[t] <= clock'
                    /\ pc'[t] = "expire" => (Stamped(mine[t]))' /\ call'[mine'[t]].end <= clock'
                    /\ \A q \in batch'[t] : (Stamped(q.seq))' /\ call'[q.seq].end <= clock'
  BY DEF ReportersFit, Stamped
<1>1. ASSUME pc'[t] = "check" PROVE stamp'[t] <= clock'
  <2>1. (pc[t] = "check" /\ stamp'[t] = stamp[t]) \/ stamp'[t] = clock
    BY <1>1, Moves
  <2> QED
    BY <1>0, <1>a, <2>1 DEF ReportersFit
<1>2. ASSUME pc'[t] = "expire" PROVE (Stamped(mine[t]))' /\ call'[mine'[t]].end <= clock'
  <2>1. CASE Stays(t, "expire")
    <3>1. PICK s \in Seqs : s = mine[t] /\ mine'[t] = s
      BY <1>0, <2>1 DEF MineDrawn, WithCall, Stays
    <3>2. Stamped(s) /\ call[s].end <= clock
      BY <1>0, <2>1, <3>1 DEF ReportersFit, Stays
    <3>3. (Stamped(s))' /\ call'[s].end <= clock'
      BY <1>b, <3>2
    <3> QED
      BY <3>1, <3>3 DEF Stamped
  <2>2. CASE FireTimer(t) /\ ~Stays(t, "expire")
    <3>1. PICK q \in armed : /\ q.end <= clock
                             /\ TakeTimeout(t, q.seq) \/ (pc[t] = "idle" /\ UNCHANGED <<tables, mine, pc>>)
      BY <2>2 DEF FireTimer
    <3>2. q.seq \in mTimeoutHandleMap /\ mine'[t] = q.seq
      BY <1>0, <1>2, <3>1 DEF TakeTimeout, MoveOut
    <3>3. PICK s \in Seqs : s = q.seq /\ Stamped(s) /\ call[s].end <= q.end /\ q.end \in Nat
      BY <1>0, <3>1 DEF TimersFit, Timers
    <3>4. call[s].end <= clock
      BY <1>0, <3>1, <3>3 DEF Stamped
    <3>5. (Stamped(s))' /\ call'[s].end <= clock'
      BY <1>b, <3>3, <3>4
    <3> QED
      BY <3>2, <3>3, <3>5 DEF Stamped
  <2> QED
    BY <1>2, <2>1, <2>2, Moves
<1>3. ASSUME NEW q \in batch'[t] PROVE (Stamped(q.seq))' /\ call'[q.seq].end <= clock'
  <2>1. CASE q \in batch[t]
    <3>1. PICK s \in Seqs : s = q.seq
      BY <1>0, <2>1 DEF Timers
    <3>2. Stamped(s) /\ call[s].end <= clock
      BY <1>0, <2>1, <3>1 DEF ReportersFit
    <3>3. (Stamped(s))' /\ call'[s].end <= clock'
      BY <1>b, <3>2
    <3> QED
      BY <3>1, <3>3 DEF Stamped
  <2>2. CASE q \notin batch[t]
    <3>1. SweepTimers(t)
      BY <1>3, <2>2, Moves
    <3>2. q \in Expired(t) /\ pc[t] = "check"
      BY <1>0, <1>3, <3>1 DEF SweepTimers, Sweep
    <3>3. PICK s \in Seqs : /\ s = q.seq /\ s \in mTimeoutHandleMap /\ q.end = call[s].end
                            /\ q.end <= stamp[t] /\ q.end \in Nat
      BY <1>0, <3>2 DEF Expired, Due, TimersMatch, Timers
    <3>4. Stamped(s) /\ call[s].end <= clock
      <4>1. stamp[t] <= clock /\ stamp[t] \in Nat
        BY <1>0, <3>2 DEF ReportersFit
      <4>2. Stamped(s)
        BY <1>0, <3>3 DEF TablesFit
      <4>3. q.end <= clock
        BY <1>0, <3>3, <4>1
      <4> QED
        BY <3>3, <4>2, <4>3
    <3>5. (Stamped(s))' /\ call'[s].end <= clock'
      BY <1>b, <3>4
    <3> QED
      BY <3>3, <3>5 DEF Stamped
  <2> QED
    BY <2>1, <2>2
<1> QED
  BY <1>1, <1>2, <1>3

\* A timeout is reported by a thread that has seen the end time pass.
LEMMA ReportsStep ==
  ASSUME Custody, Watch, [Next]_vars
  PROVE  ReportsFit'
<1>0. /\ ReportsFit /\ ReportersFit /\ MineDrawn /\ clock \in Nat
      /\ timedOut \in [Seqs -> Nat] /\ batch \in [Threads -> SUBSET Timers]
      /\ call \in [Seqs -> [kind : Kinds, timeout : Nat, end : Nat \cup {Never}]]
  BY CustodyParts DEF Watch
<1>a. clock' \in Nat /\ clock <= clock'
  BY ClockGrows
<1>b. ASSUME NEW s \in Seqs, Stamped(s), call[s].end <= clock
      PROVE  (Stamped(s))' /\ call'[s].end <= clock'
  <2>1. call'[s] = call[s] /\ call[s].end \in Nat
    BY <1>b, CallKept DEF Stamped
  <2> QED
    BY <1>0, <1>a, <1>b, <2>1 DEF Stamped
<1>1. ASSUME NEW x \in Seqs, timedOut' = [timedOut EXCEPT ![x] = @ + 1], Stamped(x), call[x].end <= clock
      PROVE  ReportsFit'
  <2>1. \A s \in Seqs : s # x => timedOut'[s] = timedOut[s]
    BY <1>0, <1>1
  <2>2. \A s \in Seqs : timedOut'[s] > 0 => Stamped(s) /\ call[s].end <= clock
    BY <1>0, <1>1, <2>1 DEF ReportsFit
  <2> QED
    BY <1>b, <2>2 DEF ReportsFit
<1>2. ASSUME NEW t \in Threads, RunTimeoutHandler(t) PROVE ReportsFit'
  <2>1. PICK x \in Seqs : x = mine[t]
    BY <1>0, <1>2 DEF RunTimeoutHandler, MineDrawn, WithCall
  <2>2. Stamped(x) /\ call[x].end <= clock
    BY <1>0, <1>2, <2>1 DEF RunTimeoutHandler, ReportersFit
  <2> QED
    BY <1>1, <1>2, <2>1, <2>2 DEF RunTimeoutHandler
<1>3. ASSUME NEW t \in Threads, RunCallback(t) PROVE ReportsFit'
  <2>1. PICK q \in batch[t] : timedOut' = [timedOut EXCEPT ![q.seq] = @ + 1]
    BY <1>3 DEF RunCallback
  <2>2. PICK x \in Seqs : x = q.seq
    BY <1>0 DEF Timers
  <2>3. Stamped(x) /\ call[x].end <= clock
    BY <1>0, <2>1, <2>2 DEF ReportersFit
  <2> QED
    BY <1>1, <2>1, <2>2, <2>3
<1>4. CASE UNCHANGED timedOut
  <2>1. \A s \in Seqs : timedOut'[s] > 0 => Stamped(s) /\ call[s].end <= clock
    BY <1>0, <1>4 DEF ReportsFit
  <2> QED
    BY <1>b, <2>1 DEF ReportsFit
<1>5. (\E t \in Threads : RunTimeoutHandler(t) \/ RunCallback(t)) \/ UNCHANGED timedOut
  <2> USE DEF history
  <2>1. ASSUME NEW t \in Threads, MakeCall(t) PROVE UNCHANGED timedOut
    BY <2>1, DrawFacts
  <2>2. ASSUME NEW t \in Threads, Proceed(t), ~RunTimeoutHandler(t), ~RunCallback(t) PROVE UNCHANGED timedOut
    BY <2>2 DEF Proceed, StampTimer, Register, SendRequest, OutboundRejects, ArmTimer, WaitReturns,
                RunHandler, DropResponse, SweepTimers, Sweep, UnwindCallbacks
  <2>3. ASSUME NEW t \in Workers, ReceiveResponse(t) \/ FireTimer(t) \/ RunPosted(t) \/ CheckTimeout(t)
        PROVE  UNCHANGED timedOut
    BY <2>3 DEF ReceiveResponse, FireTimer, RunPosted, CheckTimeout
  <2>4. ASSUME Disconnect \/ Uninstall \/ Tick \/ UNCHANGED vars PROVE UNCHANGED timedOut
    BY <2>4 DEF Disconnect, Uninstall, Tick, vars
  <2> QED
    BY <2>1, <2>2, <2>3, <2>4 DEF Next
<1> QED
  BY <1>2, <1>3, <1>4, <1>5

-----------------------------------------------------------------------------
(* No call is forgotten                                                    *)

\* Whoever can end a call can still end it, or does.
LEMMA KeptStep ==
  ASSUME Custody, Watch, [Next]_vars
  PROVE  AllKept'
<1>0. /\ MineDrawn /\ BatchOnlyInSweep /\ TimersMatch /\ AllKept /\ TablesFit /\ TimersFit /\ mSequenceID \in Nat
      /\ TablesExclude /\ CallsFit
      /\ call \in [Seqs -> [kind : Kinds, timeout : Nat, end : Nat \cup {Never}]]
      /\ pc \in [Threads -> PCs] /\ mine \in [Threads -> Seqs \cup {Never}]
      /\ batch \in [Threads -> SUBSET Timers] /\ armed \subseteq Timers
      /\ mStubHandleMap \subseteq Seqs /\ mTimeoutHandleMap \subseteq Seqs
      /\ mWaitResponseTimerQueue \subseteq Timers
      /\ responded \in [Seqs -> Nat] /\ timedOut \in [Seqs -> Nat]
  BY CustodyParts DEF Watch
\* A step that neither draws a number nor gives up one of the places.
<1>a. ASSUME UNCHANGED <<call, mSequenceID>> \/ (\E t \in Threads : StampTimer(t)),
             NEW t \in Threads,
             \A u \in Threads : u # t => pc'[u] = pc[u] /\ mine'[u] = mine[u] /\ batch'[u] = batch[u],
             \A s \in Seqs : Has(t, s) => (Kept(s))',
             \A s \in mStubHandleMap : (Kept(s))',
             \A s \in loopQueue : (Kept(s))',
             \A s \in Seqs : ~Unsettled(s) => ~(Unsettled(s))'
      PROVE  AllKept'
  <2> SUFFICES ASSUME NEW s \in Seqs, call'[s].kind \notin {"none", "oneway"} PROVE (Kept(s))'
    BY DEF AllKept
  <2>1. call'[s].kind = call[s].kind
    <3>1. CASE UNCHANGED <<call, mSequenceID>>
      BY <3>1
    <3>2. ASSUME NEW u \in Threads, StampTimer(u) PROVE call'[s].kind = call[s].kind
      <4>1. PICK x \in Seqs : call' = [call EXCEPT ![x] = [call[x] EXCEPT !.end = clock + call[x].timeout]]
        BY <3>2, StampFacts
      <4>2. call'[s] = IF s = x THEN [call[x] EXCEPT !.end = clock + call[x].timeout] ELSE call[s]
        BY <1>0, <4>1
      <4>3. [call[x] EXCEPT !.end = clock + call[x].timeout].kind = call[x].kind
        BY <1>0
      <4> QED
        BY <4>2, <4>3
    <3> QED
      BY <1>a, <3>1, <3>2
  <2>2. Kept(s)
    BY <1>0, <2>1 DEF AllKept
  <2>3. \A u \in Threads : u # t /\ Has(u, s) => (Has(u, s))'
    BY <1>a DEF Has
  <2> QED
    BY <1>a, <2>2, <2>3 DEF Kept
<1> USE DEF tables, env, history
<1>1. ASSUME NEW t \in Threads, MakeCall(t) PROVE AllKept'
  <2>1. PICK kind \in Kinds, d \in Nat, next \in {"stamp", "register", "send"} :
          /\ mSequenceID \in Seqs
          /\ pc[t] = "idle" /\ pc' = [pc EXCEPT ![t] = next] /\ mine' = [mine EXCEPT ![t] = mSequenceID]
          /\ call' = [call EXCEPT ![mSequenceID] = [kind |-> kind, timeout |-> d, end |-> Never]]
          /\ kind = "oneway" <=> next = "send"
          /\ UNCHANGED <<mStubHandleMap, env, batch, history>>
    BY <1>1, DrawFacts
  <2>2. \A u \in Threads : u # t => pc'[u] = pc[u] /\ mine'[u] = mine[u]
    BY <1>0, <2>1
  <2>3. call'[mSequenceID].kind = kind /\ pc'[t] = next /\ mine'[t] = mSequenceID
    BY <1>0, <2>1
  <2>4. ASSUME NEW s \in Seqs, call'[s].kind \notin {"none", "oneway"} PROVE (Kept(s))'
    <3>1. CASE s = mSequenceID
      BY <2>1, <2>3, <2>4, <3>1 DEF Kept, Has, Owning
    <3>2. CASE s # mSequenceID
      <4>1. call'[s] = call[s]
        BY <1>0, <2>1, <3>2
      <4>2. Kept(s)
        BY <1>0, <2>4, <4>1 DEF AllKept
      <4>3. \A u \in Threads : Has(u, s) => (Has(u, s))'
        BY <1>0, <2>1, <2>2 DEF Has, Owning, BatchOnlyInSweep
      <4> QED
        BY <2>1, <4>2, <4>3 DEF Kept, Unsettled
    <3> QED
      BY <3>1, <3>2
  <2> QED
    BY <2>4 DEF AllKept
<1>2. ASSUME NEW t \in Threads,
             StampTimer(t) \/ SendRequest(t) \/ OutboundRejects(t) \/ ArmTimer(t) \/ WaitReturns(t) \/ CheckTimeout(t)
      PROVE  AllKept'
  <2>1. /\ UNCHANGED <<call, mSequenceID>> \/ StampTimer(t)
        /\ UNCHANGED <<mine, batch, mStubHandleMap, loopQueue, responded, timedOut, lost>>
        /\ \E to : pc' = [pc EXCEPT ![t] = to] /\ (pc[t] \in Owning => to = "register")
    BY <1>2 DEF StampTimer, SendRequest, OutboundRejects, ArmTimer, WaitReturns, CheckTimeout, Owning
  <2>2. \A s \in Seqs : Has(t, s) => (Has(t, s))'
    BY <1>0, <2>1 DEF Has, Owning
  <2>3. \A s \in Seqs : (Unsettled(s))' <=> Unsettled(s)
    BY <2>1 DEF Unsettled
  <2>4. \A s : s \in mStubHandleMap \/ s \in loopQueue \/ (Has(t, s))' => (Kept(s))'
    BY <2>1 DEF Kept
  <2>5. \A u \in Threads : u # t => pc'[u] = pc[u] /\ mine'[u] = mine[u] /\ batch'[u] = batch[u]
    BY <1>0, <2>1
  <2> QED
    BY <1>a, <2>1, <2>2, <2>3, <2>4, <2>5
<1>3. ASSUME NEW t \in Threads, Register(t) PROVE AllKept'
  <2>1. PICK x \in Seqs : x = mine[t] /\ mStubHandleMap' = mStubHandleMap \cup {x}
    BY <1>0, <1>3 DEF Register, MineDrawn, WithCall
  <2>2. /\ UNCHANGED <<call, mSequenceID, mine, batch, loopQueue, responded, timedOut, lost>>
        /\ pc[t] = "register" /\ pc' = [pc EXCEPT ![t] = "send"]
    BY <1>3 DEF Register
  <2>3. \A s \in Seqs : Has(t, s) => s = x
    BY <1>0, <2>1, <2>2 DEF Has, BatchOnlyInSweep
  <2>4. \A s : s \in mStubHandleMap \/ s = x \/ s \in loopQueue => (Kept(s))'
    BY <2>1, <2>2 DEF Kept
  <2>5. \A s \in Seqs : (Unsettled(s))' <=> Unsettled(s)
    BY <2>2 DEF Unsettled
  <2>6. \A u \in Threads : u # t => pc'[u] = pc[u] /\ mine'[u] = mine[u] /\ batch'[u] = batch[u]
    BY <1>0, <2>2
  <2> QED
    BY <1>a, <2>2, <2>3, <2>4, <2>5, <2>6
\* A call that ends now.
<1>4. ASSUME NEW t \in Threads, RunHandler(t) \/ DropResponse(t) \/ RunTimeoutHandler(t)
      PROVE  AllKept'
  <2>1. PICK x \in Seqs : x = mine[t]
    BY <1>0, <1>4 DEF RunHandler, DropResponse, RunTimeoutHandler, MineDrawn, WithCall
  <2>2. /\ UNCHANGED <<call, mSequenceID, mine, batch, mStubHandleMap>>
        /\ pc[t] \in {"handle", "expire"} /\ pc' = [pc EXCEPT ![t] = "idle"]
    BY <1>4 DEF RunHandler, DropResponse, RunTimeoutHandler
  <2>3. /\ \A s \in Seqs : responded[s] <= responded'[s] /\ timedOut[s] <= timedOut'[s] /\ (s \in lost => s \in lost')
        /\ \A s \in loopQueue : s \in loopQueue'
        /\ x \in loopQueue' \/ responded'[x] > 0 \/ timedOut'[x] > 0 \/ x \in lost'
    <3>1. CASE RunHandler(t)
      <4>1. UNCHANGED timedOut
        BY <3>1 DEF RunHandler
      <4>2. CASE responded' = [responded EXCEPT ![x] = @ + 1] /\ UNCHANGED <<loopQueue, lost>>
        <5>1. responded'[x] = responded[x] + 1 /\ \A s \in Seqs : s # x => responded'[s] = responded[s]
          BY <1>0, <4>2
        <5> QED
          BY <1>0, <4>1, <4>2, <5>1
      <4>3. CASE loopQueue' = loopQueue \cup {x} /\ UNCHANGED <<responded, lost>>
        BY <1>0, <4>1, <4>3
      <4> QED
        BY <2>1, <3>1, <4>2, <4>3 DEF RunHandler
    <3>2. CASE DropResponse(t)
      BY <1>0, <2>1, <3>2 DEF DropResponse
    <3>3. CASE RunTimeoutHandler(t)
      BY <1>0, <2>1, <3>3 DEF RunTimeoutHandler
    <3> QED
      BY <1>4, <3>1, <3>2, <3>3
  <2>4. \A s \in Seqs : ~Unsettled(s) => ~(Unsettled(s))'
    BY <1>0, <2>3 DEF Unsettled
  <2>5. (Kept(x))'
    BY <2>3 DEF Kept, Unsettled
  <2>6. \A s \in Seqs : Has(t, s) => s = x
    BY <1>0, <2>1, <2>2 DEF Has, BatchOnlyInSweep
  <2>7. \A s : s \in mStubHandleMap \/ s \in loopQueue => (Kept(s))'
    BY <2>2, <2>3 DEF Kept
  <2>8. \A u \in Threads : u # t => pc'[u] = pc[u] /\ mine'[u] = mine[u] /\ batch'[u] = batch[u]
    BY <1>0, <2>2
  <2> QED
    BY <1>a, <2>2, <2>4, <2>5, <2>6, <2>7, <2>8
<1>5. ASSUME NEW t \in Threads, RunPosted(t) PROVE AllKept'
  <2>1. PICK x \in loopQueue :
          /\ loopQueue' = loopQueue \ {x}
          /\ \/ responded' = [responded EXCEPT ![x] = @ + 1] /\ UNCHANGED lost
             \/ lost' = lost \cup {x} /\ UNCHANGED responded
    BY <1>5 DEF RunPosted
  <2>2. UNCHANGED <<call, mSequenceID, pc, mine, batch, mStubHandleMap, timedOut>>
    BY <1>5 DEF RunPosted
  <2>3. x \in Seqs
    BY CustodyParts DEF TypeOK
  <2>4. /\ \A s \in Seqs : responded[s] <= responded'[s] /\ (s \in lost => s \in lost')
        /\ responded'[x] > 0 \/ x \in lost'
    <3>1. CASE responded' = [responded EXCEPT ![x] = @ + 1] /\ UNCHANGED lost
      BY <1>0, <2>3, <3>1
    <3>2. CASE lost' = lost \cup {x} /\ UNCHANGED responded
      BY <1>0, <2>3, <3>2
    <3> QED
      BY <2>1, <3>1, <3>2
  <2>5. \A s \in Seqs : ~Unsettled(s) => ~(Unsettled(s))'
    BY <1>0, <2>2, <2>4 DEF Unsettled
  <2>6. (Kept(x))'
    BY <2>4 DEF Kept, Unsettled
  <2>7. \A s : s \in mStubHandleMap \/ s \in loopQueue => (Kept(s))'
    BY <2>1, <2>2, <2>6 DEF Kept
  <2>8. \A s \in Seqs : Has(t, s) => (Kept(s))'
    BY <2>2 DEF Has, Kept
  <2> QED
    BY <1>a, <2>2, <2>5, <2>7, <2>8
\* What is taken out of the tables is in the hand of the thread that took it; a timer
\* of withTimeoutCheck belongs to a timed call, which has its timeout callback.
<1>6. ASSUME NEW t \in Threads, NEW x, NEW table, NEW next \in {"handle", "expire"},
             mStubHandleMap' = mStubHandleMap \ {x}, MoveOut(t, x, table, next),
             x \in mStubHandleMap => x \in table,
             UNCHANGED <<call, mSequenceID, batch, loopQueue, responded, timedOut, lost>>
      PROVE  AllKept'
  <2>1. pc[t] = "idle"
    BY <1>6 DEF MoveOut
  <2>2. \A u \in Threads : u # t => pc'[u] = pc[u] /\ mine'[u] = mine[u] /\ batch'[u] = batch[u]
    BY <1>0, <1>6 DEF MoveOut
  <2>3. \A s \in Seqs : ~Has(t, s)
    BY <1>0, <2>1 DEF Has, Owning, BatchOnlyInSweep
  <2>4. \A s \in Seqs : (Unsettled(s))' <=> Unsettled(s)
    BY <1>6 DEF Unsettled
  <2>5. x \in mStubHandleMap => (Has(t, x))'
    BY <1>0, <1>6 DEF MoveOut, Has, Owning
  <2>6. \A s : s \in mStubHandleMap \/ s \in loopQueue => (Kept(s))'
    BY <1>6, <2>5 DEF Kept
  <2> QED
    BY <1>a, <1>6, <2>2, <2>3, <2>4, <2>6
<1>7. ASSUME NEW t \in Threads, ReceiveResponse(t) PROVE AllKept'
  <2>1. PICK x : TakeResponse(t, x)
    BY <1>7 DEF ReceiveResponse
  <2> QED
    BY <1>6, <1>7, <2>1 DEF ReceiveResponse, TakeResponse
<1>8. ASSUME NEW t \in Threads, FireTimer(t) PROVE AllKept'
  <2>1. PICK q \in armed : TakeTimeout(t, q.seq) \/ UNCHANGED <<tables, mine, pc>>
    BY <1>8 DEF FireTimer
  <2>2. UNCHANGED <<call, mSequenceID, batch, loopQueue, responded, timedOut, lost>>
    BY <1>8, <2>1 DEF FireTimer, TakeTimeout
  <2>3. CASE TakeTimeout(t, q.seq)
    <3>1. q.seq \in mStubHandleMap => q.seq \in mTimeoutHandleMap
      BY <1>0 DEF TimersFit, TablesFit, Stamped
    <3> QED
      BY <1>6, <2>2, <2>3, <3>1 DEF TakeTimeout
  <2>4. CASE UNCHANGED <<tables, mine, pc>>
    BY <1>0, <2>2, <2>4 DEF AllKept, Kept, Has, Unsettled
  <2> QED
    BY <2>1, <2>3, <2>4
<1>9. ASSUME NEW t \in Threads, SweepTimers(t) PROVE AllKept'
  <2>1. /\ pc[t] = "check"
        /\ batch' = [batch EXCEPT ![t] = Expired(t)] /\ mStubHandleMap' = mStubHandleMap \ Keys(Expired(t))
        /\ UNCHANGED <<call, mSequenceID, mine, loopQueue, responded, timedOut, lost>>
        /\ \E to : pc' = [pc EXCEPT ![t] = to]
    BY <1>9 DEF SweepTimers, Sweep
  <2>2. \A s \in Keys(Expired(t)) : (Has(t, s))'
    BY <1>0, <2>1 DEF Keys, Has
  <2>3. \A s \in Seqs : ~Has(t, s)
    BY <1>0, <2>1 DEF Has, Owning, BatchOnlyInSweep
  <2>4. \A s \in Seqs : (Unsettled(s))' <=> Unsettled(s)
    BY <2>1 DEF Unsettled
  <2>5. \A s : s \in mStubHandleMap \/ s \in loopQueue => (Kept(s))'
    BY <2>1, <2>2 DEF Kept
  <2>6. \A u \in Threads : u # t => pc'[u] = pc[u] /\ mine'[u] = mine[u] /\ batch'[u] = batch[u]
    BY <1>0, <2>1
  <2> QED
    BY <1>a, <2>1, <2>3, <2>4, <2>5, <2>6
<1>10. ASSUME NEW t \in Threads, RunCallback(t) PROVE AllKept'
  <2>1. PICK q \in batch[t] : /\ timedOut' = [timedOut EXCEPT ![q.seq] = @ + 1]
                              /\ batch' = [batch EXCEPT ![t] = @ \ {q}]
                              /\ \E to : pc' = [pc EXCEPT ![t] = to]
    BY <1>10 DEF RunCallback
  <2>2. /\ pc[t] = "sweep" /\ UNCHANGED <<call, mSequenceID, mine, loopQueue, mStubHandleMap, responded, lost>>
    BY <1>10 DEF RunCallback
  <2>3. PICK x \in Seqs : x = q.seq
    BY <1>0 DEF Timers
  <2>4. (\A s \in Seqs : timedOut[s] <= timedOut'[s]) /\ timedOut'[x] > 0
    <3>1. timedOut \in [Seqs -> Nat]
      BY <1>0
    <3>2. timedOut' = [timedOut EXCEPT ![x] = @ + 1]
      BY <2>1, <2>3
    <3> QED
      BY <3>1, <3>2
  <2>5. \A s \in Seqs : ~Unsettled(s) => ~(Unsettled(s))'
    BY <1>0, <2>2, <2>4 DEF Unsettled
  <2>6. (Kept(x))'
    BY <2>4 DEF Kept, Unsettled
  <2>7. \A s \in Seqs : Has(t, s) => s = x \/ (Has(t, s))'
    BY <1>0, <2>1, <2>2, <2>3 DEF Has, Owning
  <2>8. \A s : s \in mStubHandleMap \/ s \in loopQueue \/ (Has(t, s))' => (Kept(s))'
    BY <2>2 DEF Kept
  <2>9. \A u \in Threads : u # t => pc'[u] = pc[u] /\ mine'[u] = mine[u] /\ batch'[u] = batch[u]
    BY <1>0, <2>1, <2>2
  <2> QED
    BY <1>a, <2>2, <2>5, <2>6, <2>7, <2>8, <2>9
<1>11. ASSUME NEW t \in Threads, UnwindCallbacks(t) PROVE AllKept'
  <2>1. /\ pc[t] = "unwind" /\ lost' = lost \cup {q.seq : q \in batch[t]}
        /\ UNCHANGED <<call, mSequenceID, mine, loopQueue, mStubHandleMap, responded, timedOut>>
        /\ batch' = [batch EXCEPT ![t] = {}] /\ pc' = [pc EXCEPT ![t] = "idle"]
    BY <1>11 DEF UnwindCallbacks
  <2>2. \A s \in Seqs : ~Unsettled(s) => ~(Unsettled(s))'
    BY <2>1 DEF Unsettled
  <2>3. \A s \in Seqs : Has(t, s) => s \in lost'
    BY <2>1 DEF Has, Owning
  <2>4. \A s \in Seqs : Has(t, s) => (Kept(s))'
    BY <2>3 DEF Kept, Unsettled
  <2>5. \A s : s \in mStubHandleMap \/ s \in loopQueue => (Kept(s))'
    BY <2>1 DEF Kept
  <2>6. \A u \in Threads : u # t => pc'[u] = pc[u] /\ mine'[u] = mine[u] /\ batch'[u] = batch[u]
    BY <1>0, <2>1
  <2> QED
    BY <1>a, <2>1, <2>2, <2>4, <2>5, <2>6
<1>12. ASSUME Disconnect \/ Uninstall \/ Tick \/ UNCHANGED vars PROVE AllKept'
  <2>1. UNCHANGED <<call, pc, mine, batch, mStubHandleMap, loopQueue, responded, timedOut, lost>>
    BY <1>12 DEF Disconnect, Uninstall, Tick, vars
  <2> QED
    BY <1>0, <2>1 DEF AllKept, Kept, Has, Unsettled
<1> QED
  BY <1>1, <1>2, <1>3, <1>4, <1>5, <1>7, <1>8, <1>9, <1>10, <1>11, <1>12 DEF Next, Proceed

-----------------------------------------------------------------------------
(* The theorems                                                            *)

LEMMA WatchInit == Init => Watch
<1> SUFFICES ASSUME Init PROVE Watch
  OBVIOUS
<1>1. CallsFit /\ CallersFit /\ TimersFit
  BY DEF Init, CallsFit, CallersFit, TimersFit, Timed, Never
<1>2. TablesFit /\ ReportersFit /\ ReportsFit /\ AllKept
  BY DEF Init, TablesFit, ReportersFit, ReportsFit, AllKept
<1> QED
  BY <1>1, <1>2 DEF Watch

\* The inductive invariant beside Custody: end times, timers and callbacks of a call
\* belong together.
THEOREM WatchHolds == Spec => [](Custody /\ Watch)
<1>1. Init => Custody /\ Watch
  BY InitCustody, WatchInit
<1>2. Custody /\ Watch /\ [Next]_vars => (Custody /\ Watch)'
  <2> SUFFICES ASSUME Custody, Watch, [Next]_vars PROVE Custody' /\ Watch'
    OBVIOUS
  <2>1. Custody'
    BY CustodyStep
  <2>2. Watch'
    BY CallsStep, CallersStep, TimersStep, TablesStep, ReportersStep, ReportsStep, KeptStep DEF Watch
  <2> QED
    BY <2>1, <2>2
<1> QED
  BY <1>1, <1>2, PTL DEF Spec

\* A call that expects an answer can still be ended by somebody, or has ended, from
\* the moment its number is drawn (call(), processRpcResponse and checkTimeout()).
THEOREM NoCallForgotten == Spec => []NothingForgotten
<1>1. Custody /\ Watch => NothingForgotten
  <2> SUFFICES ASSUME Custody, Watch, NEW s \in Seqs, call[s].kind \notin {"none", "oneway"}
               PROVE  \/ s \in mStubHandleMap \cup loopQueue \cup UNION {Hands(t) : t \in Threads}
                      \/ EndCount(s) > 0
    BY DEF NothingForgotten
  <2>1. Kept(s) /\ BatchOnlyInSweep /\ responded \in [Seqs -> Nat] /\ timedOut \in [Seqs -> Nat]
    BY CustodyParts DEF Watch, AllKept
  <2>2. \A t \in Threads : s \in Hands(t) <=> Has(t, s)
    BY <2>1, HandsAreHas
  <2>3. ~Unsettled(s) => EndCount(s) > 0
    BY <2>1 DEF Unsettled, EndCount
  <2> QED
    BY <2>1, <2>2, <2>3 DEF Kept
<1> QED
  BY <1>1, WatchHolds, PTL

\* A timeout callback in the table has its timer in the queue that checkTimeout()
\* looks at, with the end time of the call.
THEOREM DeadlinesWatched == Spec => []EveryDeadlineWatched
<1>1. Watch => EveryDeadlineWatched
  BY DEF Watch, TablesFit, EveryDeadlineWatched
<1> QED
  BY <1>1, WatchHolds, PTL

\* Neither checkTimeout() nor withTimeoutCheck reports a timeout before the end time
\* of the call, and never one of a call that has none.
THEOREM NoTimeoutEarly == Spec => []NeverEarly
<1>1. Watch => NeverEarly
  BY DEF Watch, ReportsFit, Stamped, NeverEarly
<1> QED
  BY <1>1, WatchHolds, PTL

-----------------------------------------------------------------------------
(* SyncXxx(...).wait()                                                     *)

\* A thread in the middle of its own call ...
Calling == {"stamp", "register", "send", "arm", "wait"}
\* ... has a number to itself, and waits for a synchronous call only.
CallersApart ==
  /\ \A t, u \in Threads : pc[t] \in Calling /\ pc[u] \in Calling /\ mine[t] = mine[u] => t = u
  /\ \A t \in Threads : pc[t] = "wait" => call[mine[t]].kind = "sync"

\* Whoever waits has an end: its call has ended, or its timeout callback is in the
\* table with its timer in the queue, or its response is posted to an event loop, or
\* another thread has moved its callbacks out of the tables and is about to run them.
WaiterCovered ==
  \A t \in Threads : pc[t] = "wait" =>
    LET s == mine[t] IN
    \/ Ended(s)
    \/ s \in mTimeoutHandleMap /\ [seq |-> s, end |-> call[s].end] \in mWaitResponseTimerQueue
    \/ s \in loopQueue
    \/ \E u \in Threads \ {t} : s \in Holding(u)

\* How a thread comes to be in the middle of a call.
LEMMA CallingMoves ==
  ASSUME Custody, [Next]_vars
  PROVE  \/ /\ \A t \in Threads : pc'[t] \in Calling => pc[t] \in Calling /\ mine'[t] = mine[t]
            /\ \A t \in Threads : pc'[t] = "wait" =>
                 \/ pc[t] = "wait"
                 \/ call[mine[t]].kind = "sync" /\ UNCHANGED call
         \/ \E u \in Threads :
              /\ mine'[u] = mSequenceID /\ pc'[u] # "wait"
              /\ \A t \in Threads \ {u} : pc'[t] = pc[t] /\ mine'[t] = mine[t]
<1>0. pc \in [Threads -> PCs] /\ mine \in [Threads -> Seqs \cup {Never}]
  BY CustodyParts
<1> DEFINE Same == /\ \A t \in Threads : pc'[t] \in Calling => pc[t] \in Calling /\ mine'[t] = mine[t]
                   /\ \A t \in Threads : pc'[t] = "wait" =>
                        \/ pc[t] = "wait"
                        \/ call[mine[t]].kind = "sync" /\ UNCHANGED call
<1> USE DEF Calling
<1>1. ASSUME NEW u \in Threads, MakeCall(u)
      PROVE  /\ mine'[u] = mSequenceID /\ pc'[u] # "wait"
             /\ \A t \in Threads \ {u} : pc'[t] = pc[t] /\ mine'[t] = mine[t]
  BY <1>0, <1>1, DrawFacts
<1>2. ASSUME NEW u \in Threads, StampTimer(u) \/ Register(u) PROVE Same
  BY <1>0, <1>2 DEF StampTimer, Register
<1>3. ASSUME NEW u \in Threads, SendRequest(u) \/ OutboundRejects(u) \/ ArmTimer(u) PROVE Same
  <2>1. /\ UNCHANGED <<mine, call>> /\ pc[u] \in {"send", "arm"}
        /\ \E to \in {"idle", "arm", "wait"} :
             /\ pc' = [pc EXCEPT ![u] = to]
             /\ to = "wait" => call[mine[u]].kind = "sync"
    BY <1>3 DEF SendRequest, OutboundRejects, ArmTimer, AfterSend
  <2> QED
    BY <1>0, <2>1
<1>4. ASSUME NEW u \in Threads,
             \/ WaitReturns(u) \/ RunHandler(u) \/ DropResponse(u) \/ RunTimeoutHandler(u)
             \/ SweepTimers(u) \/ RunCallback(u) \/ UnwindCallbacks(u) \/ CheckTimeout(u)
      PROVE  Same
  <2>1. /\ UNCHANGED mine
        /\ \E to \in {"idle", "check", "sweep", "unwind"} : pc' = [pc EXCEPT ![u] = to]
    BY <1>4 DEF WaitReturns, RunHandler, DropResponse, RunTimeoutHandler, SweepTimers, Sweep,
                RunCallback, UnwindCallbacks, CheckTimeout
  <2> QED
    BY <1>0, <2>1
<1>5. ASSUME NEW u \in Workers, ReceiveResponse(u) \/ FireTimer(u) PROVE Same
  <2>1. \/ UNCHANGED <<pc, mine>>
        \/ \E x, to : /\ to \in {"handle", "expire"}
                      /\ pc' = [pc EXCEPT ![u] = to] /\ mine' = [mine EXCEPT ![u] = x]
    BY <1>5 DEF ReceiveResponse, TakeResponse, FireTimer, TakeTimeout, MoveOut
  <2> QED
    BY <1>0, <2>1
<1>6. ASSUME \/ \E u \in Workers : RunPosted(u)
             \/ Disconnect \/ Uninstall \/ Tick \/ UNCHANGED vars
      PROVE  Same
  BY <1>6 DEF RunPosted, Disconnect, Uninstall, Tick, vars
<1> QED
  BY <1>1, <1>2, <1>3, <1>4, <1>5, <1>6 DEF Next, Proceed

LEMMA ApartStep ==
  ASSUME Custody, Watch, [Next]_vars, CallersApart
  PROVE  CallersApart'
<1>0. /\ MineDrawn /\ mSequenceID \in Nat
      /\ pc \in [Threads -> PCs] /\ mine \in [Threads -> Seqs \cup {Never}]
  BY CustodyParts
<1>1. \A t \in Threads : pc[t] \in Calling => mine[t] \in Seqs /\ mine[t] < mSequenceID
  BY <1>0 DEF MineDrawn, WithCall, Calling
<1>2. \A s \in Seqs : s < mSequenceID => call'[s].kind = call[s].kind
  BY CallKept
<1>3. \A t \in Threads : pc[t] = "wait" => pc[t] \in Calling /\ call'[mine[t]].kind = "sync"
  BY <1>1, <1>2 DEF CallersApart, Calling
<1>4. ASSUME \A t \in Threads : pc'[t] \in Calling => pc[t] \in Calling /\ mine'[t] = mine[t],
             \A t \in Threads : pc'[t] = "wait" =>
               \/ pc[t] = "wait"
               \/ call[mine[t]].kind = "sync" /\ UNCHANGED call
      PROVE  CallersApart'
  <2>1. \A t \in Threads : pc'[t] = "wait" => mine'[t] = mine[t]
    BY <1>4 DEF Calling
  <2> QED
    BY <1>3, <1>4, <2>1 DEF CallersApart
<1>5. ASSUME NEW u \in Threads, mine'[u] = mSequenceID, pc'[u] # "wait",
             \A t \in Threads \ {u} : pc'[t] = pc[t] /\ mine'[t] = mine[t]
      PROVE  CallersApart'
  <2>1. \A t \in Threads \ {u} : pc'[t] \in Calling => mine'[t] # mine'[u]
    BY <1>0, <1>1, <1>5
  <2>2. \A t, w \in Threads : pc'[t] \in Calling /\ pc'[w] \in Calling /\ mine'[t] = mine'[w] => t = w
    BY <1>5, <2>1 DEF CallersApart
  <2>3. \A t \in Threads : pc'[t] = "wait" => call'[mine'[t]].kind = "sync"
    BY <1>3, <1>5
  <2> QED
    BY <2>2, <2>3 DEF CallersApart
<1> QED
  BY <1>4, <1>5, CallingMoves

\* A thread that waits for a synchronous call is never left without somebody who can
\* end its call, whatever a chain of interceptors, the peer or uninstall() does: with
\* a program that polls checkTimeout() the wait is over (SyncReturns).
THEOREM WaitersAreCovered == Spec => []WaiterCovered
<1>1. Init => CallersApart
  BY DEF Init, CallersApart, Calling
<1>2. Custody /\ Watch /\ CallersApart => WaiterCovered
  <2> SUFFICES ASSUME Custody, Watch, CallersApart, NEW t \in Threads, pc[t] = "wait", NEW s, s = mine[t]
               PROVE  \/ Ended(s)
                      \/ /\ s \in mTimeoutHandleMap
                         /\ [seq |-> s, end |-> call[s].end] \in mWaitResponseTimerQueue
                      \/ s \in loopQueue
                      \/ \E u \in Threads \ {t} : s \in Holding(u)
    BY DEF WaiterCovered
  <2>0. /\ BatchOnlyInSweep /\ responded \in [Seqs -> Nat] /\ timedOut \in [Seqs -> Nat]
        /\ s \in Seqs /\ call[s].kind = "sync"
    BY CustodyParts DEF MineDrawn, WithCall, CallersApart
  <2>1. Kept(s)
    BY <2>0 DEF Watch, AllKept
  <2>2. CASE s \in mStubHandleMap
    BY <2>0, <2>2 DEF Watch, TablesFit, Timed
  <2>3. CASE ~Unsettled(s)
    BY <2>0, <2>3 DEF Unsettled, Ended
  <2>4. ASSUME NEW u \in Threads, Has(u, s) PROVE u # t /\ s \in Holding(u)
    <3>1. s \in Hands(u) /\ batch[t] = {} /\ ~Has(t, s)
      BY <2>0, <2>4, HandsAreHas DEF BatchOnlyInSweep, Has, Owning
    <3>2. pc[u] \notin {"stamp", "register"}
      BY <2>0, <2>4, <3>1 DEF CallersApart, Calling, Has, BatchOnlyInSweep
    <3> QED
      BY <2>4, <3>1, <3>2 DEF Hands, Preparing
  <2> QED
    BY <2>1, <2>2, <2>3, <2>4 DEF Kept
<1>3. Custody /\ Watch /\ CallersApart /\ [Next]_vars => CallersApart'
  BY ApartStep
<1> QED
  BY <1>1, <1>2, <1>3, WatchHolds, PTL DEF Spec

-----------------------------------------------------------------------------
(* uninstall()                                                             *)

\* Once the client is uninstalled no thread is in its response stub.
Answering == {"handle", "expire"}
Quiet     == installed \/ \A t \in Threads : pc[t] \notin Answering

LEMMA QuietStep ==
  ASSUME Custody, Quiet, [Next]_vars
  PROVE  /\ Quiet'
         /\ ~installed => \A s \in Seqs : responded'[s] # responded[s] => s \in loopQueue
<1>0. pc \in [Threads -> PCs] /\ responded \in [Seqs -> Nat] /\ loopQueue \subseteq Seqs
  BY CustodyParts DEF TypeOK
<1> DEFINE Silently == ~installed => \A s \in Seqs : responded'[s] # responded[s] => s \in loopQueue
<1>1. ASSUME NEW t \in Threads, NEW to \in PCs \ Answering, UNCHANGED installed,
             UNCHANGED pc \/ pc' = [pc EXCEPT ![t] = to]
      PROVE  Quiet'
  BY <1>0, <1>1 DEF Quiet, Answering
<1>2. ASSUME NEW t \in Threads, MakeCall(t) PROVE Quiet' /\ Silently
  <2>1. \E to \in {"stamp", "register", "send"} : pc' = [pc EXCEPT ![t] = to]
    BY <1>2, DrawFacts
  <2>2. UNCHANGED <<installed, responded>>
    BY <1>2 DEF MakeCall, CallTimed, CallSync, CallPlain, CallOneWay, DrawSequence, link, history
  <2> QED
    BY <1>1, <2>1, <2>2 DEF PCs, Answering
<1>3. ASSUME NEW t \in Threads,
             \/ StampTimer(t) \/ Register(t) \/ SendRequest(t) \/ OutboundRejects(t)
             \/ ArmTimer(t) \/ WaitReturns(t) \/ CheckTimeout(t)
      PROVE  Quiet' /\ Silently
  <2>1. \E to \in {"register", "send", "arm", "wait", "idle", "check"} : pc' = [pc EXCEPT ![t] = to]
    BY <1>3 DEF StampTimer, Register, SendRequest, OutboundRejects, ArmTimer, WaitReturns, CheckTimeout,
                AfterSend
  <2>2. UNCHANGED <<installed, responded>>
    BY <1>3 DEF StampTimer, Register, SendRequest, OutboundRejects, ArmTimer, WaitReturns, CheckTimeout,
                link, history
  <2> QED
    BY <1>1, <2>1, <2>2 DEF PCs, Answering
<1>4. ASSUME NEW t \in Threads, RunHandler(t) \/ DropResponse(t) \/ RunTimeoutHandler(t)
      PROVE  Quiet' /\ Silently
  <2>1. pc[t] \in Answering /\ pc' = [pc EXCEPT ![t] = "idle"] /\ UNCHANGED installed
    BY <1>4 DEF RunHandler, DropResponse, RunTimeoutHandler, Answering, link
  <2>2. installed
    BY <2>1 DEF Quiet
  <2> QED
    BY <2>1, <2>2 DEF Quiet
<1>5. ASSUME NEW t \in Threads, SweepTimers(t) \/ RunCallback(t) \/ UnwindCallbacks(t)
      PROVE  Quiet' /\ Silently
  <2>1. \E to \in {"idle", "sweep", "unwind"} : pc' = [pc EXCEPT ![t] = to]
    BY <1>5 DEF SweepTimers, Sweep, RunCallback, UnwindCallbacks
  <2>2. UNCHANGED <<installed, responded>>
    BY <1>5 DEF SweepTimers, Sweep, RunCallback, UnwindCallbacks, link, history
  <2> QED
    BY <1>1, <2>1, <2>2 DEF PCs, Answering
<1>6. ASSUME NEW t \in Workers, ReceiveResponse(t) PROVE Quiet' /\ Silently
  BY <1>6 DEF ReceiveResponse, link, Quiet
<1>7. ASSUME NEW t \in Workers, FireTimer(t) PROVE Quiet' /\ Silently
  <2>1. UNCHANGED <<installed, responded>> /\ (installed \/ UNCHANGED pc)
    BY <1>7 DEF FireTimer, link, history
  <2> QED
    BY <2>1 DEF Quiet
<1>8. ASSUME NEW t \in Workers, RunPosted(t) PROVE Quiet' /\ Silently
  <2>1. UNCHANGED <<installed, pc>>
        /\ \E x \in loopQueue : responded' = [responded EXCEPT ![x] = @ + 1] \/ UNCHANGED responded
    BY <1>8 DEF RunPosted, link
  <2> QED
    BY <1>0, <2>1 DEF Quiet
<1>9. ASSUME Disconnect \/ Tick \/ UNCHANGED vars PROVE Quiet' /\ Silently
  BY <1>9 DEF Disconnect, Tick, vars, link, history, Quiet
<1>10. ASSUME Uninstall PROVE Quiet' /\ Silently
  BY <1>10 DEF Uninstall, history, Quiet, Answering
<1> QED
  BY <1>2, <1>3, <1>4, <1>5, <1>6, <1>7, <1>8, <1>9, <1>10 DEF Next, Proceed

\* When uninstall() has returned no response handler runs any more, on any thread,
\* unless its response was already posted to an event loop.
THEOREM NothingAfterUninstall == Spec => SilentAfterUninstall
<1>1. Init => Quiet
  BY DEF Init, Quiet
<1>2. Custody /\ Quiet /\ [Next]_vars => Quiet'
  BY QuietStep
<1>3. Custody /\ Quiet /\ [Next]_vars =>
        [~installed => \A s \in Seqs : responded'[s] # responded[s] => s \in loopQueue]_vars
  BY QuietStep
<1>4. Spec => []Custody
  BY CustodyHolds
<1> QED
  BY <1>1, <1>2, <1>3, <1>4, PTL DEF Spec, SilentAfterUninstall

-----------------------------------------------------------------------------
(* GayRpcClient implements RpcCall: every step of the client is a step of  *)
(* the abstract calls, or none of their business.                          *)

\* Open(s), without the CASE of Holding (OpenIs).
Held(t, s) ==
  \/ pc[t] \in {"handle", "expire"} /\ mine[t] = s
  \/ \E q \in batch[t] : q.seq = s
Answerable(s) == s \in mStubHandleMap \/ s \in loopQueue \/ \E t \in Threads : Held(t, s)

-----------------------------------------------------------------------------
LEMMA OpenIs ==
  ASSUME BatchOnlyInSweep, NEW s
  PROVE  Open(s) <=> Answerable(s)
<1>1. ASSUME NEW t \in Threads PROVE s \in Holding(t) <=> Held(t, s)
  <2>1. CASE pc[t] \in {"handle", "expire"}
    BY <2>1 DEF BatchOnlyInSweep, Holding, Held
  <2>2. CASE pc[t] \in {"sweep", "unwind"}
    BY <2>2 DEF Holding, Held
  <2>3. CASE pc[t] \notin {"handle", "expire", "sweep", "unwind"}
    BY <2>3 DEF BatchOnlyInSweep, Holding, Held
  <2> QED
    BY <2>1, <2>2, <2>3
<1> QED
  BY <1>1 DEF Open, Answerable

\* A call is answerable only before it has ended.
LEMMA AnswerableIsUnsettled ==
  ASSUME Custody, NEW s \in Seqs, Answerable(s)
  PROVE  Unsettled(s)
<1>1. ASSUME NEW t \in Threads, Held(t, s) PROVE Has(t, s)
  BY <1>1 DEF Held, Has, Owning
<1> QED
  BY <1>1, CustodyParts DEF Answerable, TablesExclude, HandExcludes

\* The phase of a call, from where the right to end it is and how it ended.
PhasesFit ==
  \A s \in Seqs :
    /\ Unsettled(s) /\ Answerable(s) => PhaseOf(s) = "open"
    /\ Unsettled(s) /\ ~Answerable(s) => PhaseOf(s) = "unborn"
    /\ responded[s] > 0 => PhaseOf(s) = "responded"
    /\ timedOut[s] > 0 => PhaseOf(s) = "timedout"
    /\ s \in lost => PhaseOf(s) = "lost"
    /\ ~Unsettled(s) => responded[s] > 0 \/ timedOut[s] > 0 \/ s \in lost

LEMMA PhasesAre == Custody => PhasesFit
<1> SUFFICES ASSUME Custody, NEW s \in Seqs
             PROVE  /\ Unsettled(s) /\ Answerable(s) => PhaseOf(s) = "open"
                    /\ Unsettled(s) /\ ~Answerable(s) => PhaseOf(s) = "unborn"
                    /\ responded[s] > 0 => PhaseOf(s) = "responded"
                    /\ timedOut[s] > 0 => PhaseOf(s) = "timedout"
                    /\ s \in lost => PhaseOf(s) = "lost"
                    /\ ~Unsettled(s) => responded[s] > 0 \/ timedOut[s] > 0 \/ s \in lost
  BY DEF PhasesFit
<1>1. BatchOnlyInSweep /\ (Unsettled(s) \/ SettledOneWay(s))
  BY CustodyParts DEF SettledOnce
<1>2. ~(EndCount(s) > 1)
  BY <1>1 DEF Unsettled, SettledOneWay, EndCount
<1>3. Open(s) <=> Answerable(s)
  BY <1>1, OpenIs
<1>4. Unsettled(s) => ~(responded[s] > 0) /\ ~(timedOut[s] > 0) /\ s \notin lost
  BY DEF Unsettled
<1>5. SettledOneWay(s) =>
        /\ responded[s] > 0 \/ timedOut[s] > 0 \/ s \in lost
        /\ responded[s] > 0 => ~(timedOut[s] > 0) /\ s \notin lost
        /\ timedOut[s] > 0 => s \notin lost
  BY DEF SettledOneWay
<1>6. Unsettled(s) => PhaseOf(s) = IF Open(s) THEN "open" ELSE "unborn"
  BY <1>2, <1>4, Zenon DEF PhaseOf
<1>7. Open(s) => ~(responded[s] > 0) /\ ~(timedOut[s] > 0) /\ s \notin lost
  BY <1>3, <1>4, AnswerableIsUnsettled
<1>8. /\ responded[s] > 0 => ~(timedOut[s] > 0) /\ s \notin lost
      /\ timedOut[s] > 0 => ~(responded[s] > 0) /\ s \notin lost
      /\ s \in lost => ~(responded[s] > 0) /\ ~(timedOut[s] > 0)
  BY <1>1, <1>4, <1>5
<1>9. responded[s] > 0 => PhaseOf(s) = "responded"
  BY <1>2, <1>7, <1>8, Zenon DEF PhaseOf
<1>10. timedOut[s] > 0 => PhaseOf(s) = "timedout"
  BY <1>2, <1>7, <1>8, Zenon DEF PhaseOf
<1>11. s \in lost => PhaseOf(s) = "lost"
  BY <1>2, <1>7, <1>8, Zenon DEF PhaseOf
<1> QED
  BY <1>1, <1>3, <1>5, <1>6, <1>9, <1>10, <1>11

LEMMA PhasesAreNext == Custody' => PhasesFit'
  BY PhasesAre, PTL

\* What happened to a call did not happen to its ends, and it is as answerable as
\* it was.
SameFate(s) ==
  /\ responded'[s] = responded[s] /\ timedOut'[s] = timedOut[s] /\ (s \in lost' <=> s \in lost)
  /\ (Answerable(s))' <=> Answerable(s)

LEMMA PhaseSame ==
  ASSUME Custody, Custody', NEW s \in Seqs, SameFate(s)
  PROVE  (PhaseOf(s))' = PhaseOf(s)
<1>1. PhasesFit /\ PhasesFit'
  BY PhasesAre, PhasesAreNext
<1>2. CASE Unsettled(s)
  <2>1. (Unsettled(s))'
    BY <1>2 DEF SameFate, Unsettled
  <2> QED
    BY <1>1, <1>2, <2>1 DEF SameFate, PhasesFit
<1>3. CASE ~Unsettled(s)
  BY <1>1, <1>3 DEF SameFate, PhasesFit
<1> QED
  BY <1>2, <1>3

-----------------------------------------------------------------------------
(* Steps of RpcCall, from what they do to one call                         *)

SameEnds == \A s \in Seqs : call'[s].end = call[s].end

LEMMA NoStep ==
  ASSUME Custody, Custody', \A s \in Seqs : SameFate(s), SameEnds, clock' = clock
  PROVE  UNCHANGED Promise!vars
<1>1. \A s \in Seqs : (PhaseOf(s))' = PhaseOf(s)
  BY PhaseSame
<1> QED
  BY <1>1 DEF Promise!vars, SameEnds

LEMMA PhaseStep ==
  ASSUME Custody, Custody', NEW x \in Seqs, \A s \in Seqs \ {x} : SameFate(s), SameEnds, clock' = clock
  PROVE  /\ PhaseOf(x) = "unborn" /\ (PhaseOf(x))' = "open" => Promise!Open(x)
         /\ PhaseOf(x) = "open" /\ (PhaseOf(x))' = "responded" => Promise!Respond(x)
         /\ /\ PhaseOf(x) = "open" /\ (PhaseOf(x))' = "timedout"
            /\ call[x].end # Never /\ call[x].end <= clock
            => Promise!Expire(x)
         /\ PhaseOf(x) = "open" /\ (PhaseOf(x))' = "lost" => Promise!GiveUp({x})
<1>1. \A s \in Seqs \ {x} : (PhaseOf(s))' = PhaseOf(s)
  BY PhaseSame
<1>2. UNCHANGED <<[s \in Seqs |-> call[s].end], clock>>
  BY DEF SameEnds
<1>3. PhaseOf(x) = "unborn" /\ (PhaseOf(x))' = "open" => Promise!Open(x)
  BY <1>1, <1>2 DEF Promise!Open
<1>4. PhaseOf(x) = "open" /\ (PhaseOf(x))' = "responded" => Promise!Respond(x)
  BY <1>1, <1>2 DEF Promise!Respond
<1>5. /\ PhaseOf(x) = "open" /\ (PhaseOf(x))' = "timedout"
      /\ call[x].end # Never /\ call[x].end <= clock
      => Promise!Expire(x)
  BY <1>1, <1>2 DEF Promise!Expire, Promise!Never, Never
<1>6. PhaseOf(x) = "open" /\ (PhaseOf(x))' = "lost" => Promise!GiveUp({x})
  BY <1>1, <1>2 DEF Promise!GiveUp
<1> QED
  BY <1>3, <1>4, <1>5, <1>6

-----------------------------------------------------------------------------
(* The steps of the client                                                 *)

\* A step of thread t leaves what the other threads hold.
OthersHold(t, s) == \E u \in Threads \ {t} : Held(u, s)
OthersRest(t) ==
  \A u \in Threads \ {t} : pc'[u] = pc[u] /\ mine'[u] = mine[u] /\ batch'[u] = batch[u]

LEMMA Elsewhere ==
  ASSUME NEW t \in Threads, OthersRest(t), NEW s
  PROVE  /\ Answerable(s) <=>
              s \in mStubHandleMap \/ s \in loopQueue \/ Held(t, s) \/ OthersHold(t, s)
         /\ (Answerable(s))' <=>
              s \in mStubHandleMap' \/ s \in loopQueue' \/ (Held(t, s))' \/ OthersHold(t, s)
<1>1. \A u \in Threads \ {t} : (Held(u, s))' <=> Held(u, s)
  BY DEF OthersRest, Held
<1> QED
  BY <1>1 DEF Answerable, OthersHold

LEMMA RestOfMove ==
  ASSUME Custody, NEW t \in Threads,
         UNCHANGED pc \/ \E to : pc' = [pc EXCEPT ![t] = to],
         UNCHANGED mine \/ \E x : mine' = [mine EXCEPT ![t] = x],
         UNCHANGED batch \/ \E b : batch' = [batch EXCEPT ![t] = b]
  PROVE  /\ OthersRest(t)
         /\ \A to : pc' = [pc EXCEPT ![t] = to] => pc'[t] = to
         /\ \A x : mine' = [mine EXCEPT ![t] = x] => mine'[t] = x
         /\ \A b : batch' = [batch EXCEPT ![t] = b] => batch'[t] = b
<1>1. /\ pc \in [Threads -> PCs] /\ mine \in [Threads -> Seqs \cup {Never}]
      /\ batch \in [Threads -> SUBSET Timers]
  BY CustodyParts
<1> QED
  BY <1>1 DEF OthersRest

\* A thread that has nothing to answer with moves on.
LEMMA MovesOn ==
  ASSUME Custody, Custody', NEW t \in Threads, OthersRest(t),
         pc[t] \notin {"handle", "expire"}, pc'[t] \notin {"handle", "expire"},
         UNCHANGED <<batch, mStubHandleMap, loopQueue, history, clock>>, SameEnds
  PROVE  UNCHANGED Promise!vars
<1>1. \A s \in Seqs : (Held(t, s))' <=> Held(t, s)
  BY DEF Held
<1>2. \A s \in Seqs : SameFate(s)
  BY <1>1, Elsewhere DEF SameFate, history
<1> QED
  BY <1>2, NoStep

LEMMA DrawMaps ==
  ASSUME Custody, Custody', NEW t \in Threads, MakeCall(t)
  PROVE  UNCHANGED Promise!vars
<1>1. PICK kind \in Kinds \ {"none"}, d \in Nat, next \in {"stamp", "register", "send"} :
           /\ mSequenceID \in Seqs
           /\ pc[t] = "idle" /\ pc' = [pc EXCEPT ![t] = next]
           /\ mine' = [mine EXCEPT ![t] = mSequenceID]
           /\ call' = [call EXCEPT ![mSequenceID] = [kind |-> kind, timeout |-> d, end |-> Never]]
  BY DrawFacts
<1>2. UNCHANGED <<batch, mStubHandleMap, loopQueue, history, clock>>
  BY DEF MakeCall, CallTimed, CallSync, CallPlain, CallOneWay, DrawSequence, env
<1>3. OthersRest(t) /\ pc'[t] = next
  BY <1>1, <1>2, RestOfMove
<1>4. SameEnds
  <2>1. call \in [Seqs -> [kind : Kinds, timeout : Nat, end : Nat \cup {Never}]]
    BY CustodyParts
  <2>2. mSequenceID \in Nat /\ call[mSequenceID].end = Never
    BY <1>1, CustodyParts DEF UndrawnIsFresh
  <2> QED
    BY <1>1, <2>1, <2>2 DEF SameEnds
<1> QED
  BY <1>1, <1>2, <1>3, <1>4, MovesOn

LEMMA EndTimesAre ==
  ASSUME NEW c \in 0..MaxTime, NEW e \in Timeouts
  PROVE  c + e \in EndTimes
  BY DEF EndTimes

\* The end time of a call is fixed before the call is open to any answer.
LEMMA StampMaps ==
  ASSUME Custody, Watch, Custody', NEW t \in Threads, StampTimer(t)
  PROVE  \E x \in Seqs : Promise!Schedule(x)
<1>1. PICK x \in Seqs :
        /\ x = mine[t] /\ x < mSequenceID /\ call[x].end = Never /\ call[x].kind \in Timed
        /\ pc[t] = "stamp" /\ pc' = [pc EXCEPT ![t] = "register"]
        /\ call' = [call EXCEPT ![x] = [call[x] EXCEPT !.end = clock + call[x].timeout]]
        /\ UNCHANGED <<tables, clock, env, mine, stamp, batch, history>>
  BY StampFacts
<1>2. OthersRest(t) /\ pc'[t] = "register"
  BY <1>1, RestOfMove
<1>3. \A s \in Seqs : (Held(t, s))' <=> Held(t, s)
  BY <1>1, <1>2 DEF Held
<1>4. \A s \in Seqs : SameFate(s)
  BY <1>1, <1>2, <1>3, Elsewhere DEF SameFate, tables, env, history
<1>5. \A s \in Seqs : (PhaseOf(s))' = PhaseOf(s)
  BY <1>4, PhaseSame
<1>6. PhaseOf(x) = "unborn"
  <2>1. Has(t, x) /\ HandExcludes
    BY <1>1, CustodyParts DEF Has, Owning
  <2>2. \A u \in Threads : Held(u, x) => Has(u, x)
    BY DEF Held, Has, Owning
  <2>3. ~Held(t, x)
    BY <1>1, CustodyParts DEF Held, BatchOnlyInSweep
  <2>4. Unsettled(x) /\ ~Answerable(x)
    BY <2>1, <2>2, <2>3 DEF HandExcludes, Answerable
  <2> QED
    BY <2>4, PhasesAre DEF PhasesFit
<1>7. /\ call \in [Seqs -> [kind : Kinds, timeout : Nat, end : Nat \cup {Never}]]
      /\ clock \in 0..MaxTime /\ call[x].timeout \in Timeouts
  BY <1>1, CustodyParts DEF TypeOK, Watch, CallsFit
<1>8. PICK d : d = clock + call[x].timeout
  OBVIOUS
<1>9. d \in Nat /\ d >= clock /\ d \in EndTimes
  <2>1. d \in EndTimes
    BY <1>7, <1>8, EndTimesAre
  <2>2. clock \in Nat /\ call[x].timeout \in Nat
    BY <1>7
  <2> QED
    BY <1>8, <2>1, <2>2
<1>10. call'[x].end = d /\ \A s \in Seqs : s # x => call'[s].end = call[s].end
  BY <1>1, <1>7, <1>8
<1>11. [s \in Seqs |-> call'[s].end] = [[s \in Seqs |-> call[s].end] EXCEPT ![x] = d]
  BY <1>10
<1>12. UNCHANGED <<[s \in Seqs |-> PhaseOf(s)], clock>>
  BY <1>1, <1>5
<1>13. [s \in Seqs |-> PhaseOf(s)][x] = "unborn" /\ [s \in Seqs |-> call[s].end][x] = Never
  BY <1>1, <1>6
<1>14. Promise!Schedule(x)
  <2>1. \E e \in EndTimes :
          /\ e >= clock
          /\ [s \in Seqs |-> call'[s].end] = [[s \in Seqs |-> call[s].end] EXCEPT ![x] = e]
    BY <1>9, <1>11
  <2>2. [s \in Seqs |-> call[s].end][x] = Promise!Never
    BY <1>13 DEF Promise!Never, Never
  <2> HIDE DEF Seqs
  <2> QED
    BY <1>12, <1>13, <2>1, <2>2, Zenon DEF Promise!Schedule
<1> QED
  BY <1>14

\* The insertion into the tables opens the call.
LEMMA RegisterMaps ==
  ASSUME Custody, Custody', NEW t \in Threads, Register(t)
  PROVE  \E x \in Seqs : Promise!Open(x)
<1>1. PICK x \in Seqs : x = mine[t] /\ pc[t] = "register" /\ pc' = [pc EXCEPT ![t] = "send"]
                        /\ mStubHandleMap' = mStubHandleMap \cup {x}
  BY CustodyParts DEF Register, MineDrawn, WithCall
<1>2. UNCHANGED <<clock, call, loopQueue, mine, batch, history>>
  BY DEF Register, env
<1>3. OthersRest(t) /\ pc'[t] = "send"
  BY <1>1, <1>2, RestOfMove
<1>4. \A s \in Seqs : (Held(t, s))' <=> Held(t, s)
  BY <1>1, <1>2, <1>3 DEF Held
<1>5. \A s \in Seqs \ {x} : SameFate(s)
  BY <1>1, <1>2, <1>3, <1>4, Elsewhere DEF SameFate, history
<1>6. PhaseOf(x) = "unborn" /\ Unsettled(x)
  <2>1. Has(t, x) /\ HandExcludes
    BY <1>1, CustodyParts DEF Has, Owning
  <2>2. \A u \in Threads : Held(u, x) => Has(u, x)
    BY DEF Held, Has, Owning
  <2>3. ~Held(t, x)
    BY <1>1, CustodyParts DEF Held, BatchOnlyInSweep
  <2>4. Unsettled(x) /\ ~Answerable(x)
    BY <2>1, <2>2, <2>3 DEF HandExcludes, Answerable
  <2> QED
    BY <2>4, PhasesAre DEF PhasesFit
<1>7. (PhaseOf(x))' = "open"
  <2>1. (Answerable(x))' /\ (Unsettled(x))'
    BY <1>1, <1>2, <1>6 DEF Answerable, Unsettled, history
  <2> QED
    BY <2>1, PhasesAreNext DEF PhasesFit
<1>8. SameEnds /\ clock' = clock
  BY <1>2 DEF SameEnds
<1>9. Promise!Open(x)
  BY <1>5, <1>6, <1>7, <1>8, PhaseStep
<1> QED
  BY <1>9

\* A call that somebody can still end is open.
LEMMA AnswerableIsOpen ==
  ASSUME Custody, NEW s \in Seqs, Answerable(s)
  PROVE  PhaseOf(s) = "open"
  BY AnswerableIsUnsettled, PhasesAre DEF PhasesFit

\* A thread that has moved a call out of the tables ends it, or posts its end.
LEMMA AnswerMaps ==
  ASSUME Custody, Watch, Custody', NEW t \in Threads,
         RunHandler(t) \/ DropResponse(t) \/ RunTimeoutHandler(t)
  PROVE  \/ \E x \in Seqs : Promise!Respond(x) \/ Promise!Expire(x)
         \/ \E S \in SUBSET Seqs : Promise!GiveUp(S)
         \/ UNCHANGED Promise!vars
<1>0. /\ responded \in [Seqs -> Nat] /\ timedOut \in [Seqs -> Nat] /\ TypeOK
  BY CustodyParts
<1>1. PICK x \in Seqs : x = mine[t] /\ pc[t] \in {"handle", "expire"} /\ pc' = [pc EXCEPT ![t] = "idle"]
  BY CustodyParts DEF RunHandler, DropResponse, RunTimeoutHandler, MineDrawn, WithCall
<1>2. UNCHANGED <<clock, call, mStubHandleMap, mine, batch>>
  BY DEF RunHandler, DropResponse, RunTimeoutHandler, tables
<1>3. OthersRest(t) /\ pc'[t] = "idle"
  BY <1>1, <1>2, RestOfMove
<1>4. \A s \in Seqs \ {x} : (Held(t, s))' <=> Held(t, s)
  BY <1>1, <1>2, <1>3 DEF Held
<1>5. Answerable(x)
  BY <1>1 DEF Answerable, Held
<1>6. PhaseOf(x) = "open"
  BY <1>5, AnswerableIsOpen
<1>7. SameEnds /\ clock' = clock
  BY <1>2 DEF SameEnds
<1>8. ASSUME \A s \in Seqs \ {x} :
               responded'[s] = responded[s] /\ timedOut'[s] = timedOut[s] /\ (s \in lost' <=> s \in lost),
             \A s \in Seqs \ {x} : s \in loopQueue' <=> s \in loopQueue
      PROVE  \A s \in Seqs \ {x} : SameFate(s)
  BY <1>2, <1>3, <1>4, <1>8, Elsewhere DEF SameFate
<1>9. CASE RunHandler(t) /\ loopQueue' = loopQueue \cup {x} /\ UNCHANGED history
  <2>1. \A s \in Seqs \ {x} : SameFate(s)
    BY <1>8, <1>9 DEF history
  <2>2. SameFate(x)
    BY <1>5, <1>9 DEF SameFate, history, Answerable
  <2> QED
    BY <1>7, <2>1, <2>2, NoStep
<1>10. CASE RunHandler(t) /\ responded' = [responded EXCEPT ![x] = @ + 1] /\ UNCHANGED <<loopQueue, lost>>
  <2>1. responded'[x] > 0 /\ \A s \in Seqs \ {x} : responded'[s] = responded[s]
    BY <1>0, <1>10
  <2>2. \A s \in Seqs \ {x} : SameFate(s)
    BY <1>8, <1>10, <2>1 DEF RunHandler
  <2>3. (PhaseOf(x))' = "responded"
    BY <2>1, PhasesAreNext DEF PhasesFit
  <2>4. Promise!Respond(x)
    BY <1>6, <1>7, <2>2, <2>3, PhaseStep
  <2> QED
    BY <2>4
<1>11. CASE DropResponse(t)
  <2>1. lost' = lost \cup {x} /\ UNCHANGED <<responded, timedOut, loopQueue>>
    BY <1>1, <1>11 DEF DropResponse, env
  <2>2. \A s \in Seqs \ {x} : SameFate(s)
    BY <1>8, <2>1
  <2>3. (PhaseOf(x))' = "lost"
    BY <2>1, PhasesAreNext DEF PhasesFit
  <2>4. Promise!GiveUp({x})
    BY <1>6, <1>7, <2>2, <2>3, PhaseStep
  <2> QED
    BY <2>4
<1>12. CASE RunTimeoutHandler(t)
  <2>1. timedOut' = [timedOut EXCEPT ![x] = @ + 1] /\ UNCHANGED <<responded, lost, loopQueue>>
        /\ pc[t] = "expire"
    BY <1>1, <1>12 DEF RunTimeoutHandler, env
  <2>2. timedOut'[x] > 0 /\ \A s \in Seqs \ {x} : timedOut'[s] = timedOut[s]
    BY <1>0, <2>1
  <2>3. \A s \in Seqs \ {x} : SameFate(s)
    BY <1>8, <2>1, <2>2
  <2>4. (PhaseOf(x))' = "timedout"
    BY <2>2, PhasesAreNext DEF PhasesFit
  <2>5. call[x].end # Never /\ call[x].end <= clock
    BY <1>1, <2>1, CustodyParts DEF Watch, ReportersFit, Stamped
  <2>6. Promise!Expire(x)
    BY <1>6, <1>7, <2>3, <2>4, <2>5, PhaseStep
  <2> QED
    BY <2>6
<1> QED
  BY <1>1, <1>9, <1>10, <1>11, <1>12 DEF RunHandler, history

\* The event loop runs a posted handler, or an interceptor behind it drops the
\* response.
LEMMA PostedMaps ==
  ASSUME Custody, Custody', NEW t \in Threads, RunPosted(t)
  PROVE  \/ \E x \in Seqs : Promise!Respond(x)
         \/ \E S \in SUBSET Seqs : Promise!GiveUp(S)
<1>0. responded \in [Seqs -> Nat] /\ loopQueue \subseteq Seqs
  BY CustodyParts DEF TypeOK
<1>1. PICK x \in loopQueue :
        /\ loopQueue' = loopQueue \ {x}
        /\ \/ responded' = [responded EXCEPT ![x] = @ + 1] /\ UNCHANGED lost
           \/ lost' = lost \cup {x} /\ UNCHANGED responded
  BY DEF RunPosted
<1>2. UNCHANGED <<clock, call, mStubHandleMap, pc, mine, batch, timedOut>> /\ x \in Seqs
  BY <1>0 DEF RunPosted, tables
<1>3. \A u \in Threads : \A s \in Seqs : (Held(u, s))' <=> Held(u, s)
  BY <1>2 DEF Held
<1>4. \A s \in Seqs \ {x} : (Answerable(s))' <=> Answerable(s)
  BY <1>1, <1>2, <1>3 DEF Answerable
<1>5. \A s \in Seqs \ {x} : responded'[s] = responded[s] /\ (s \in lost' <=> s \in lost)
  BY <1>0, <1>1, <1>2
<1>6. \A s \in Seqs \ {x} : SameFate(s)
  BY <1>2, <1>4, <1>5 DEF SameFate
<1>7. PhaseOf(x) = "open"
  BY <1>1, <1>2, AnswerableIsOpen DEF Answerable
<1>8. SameEnds /\ clock' = clock
  BY <1>2 DEF SameEnds
<1>9. CASE responded' = [responded EXCEPT ![x] = @ + 1]
  <2>1. responded'[x] > 0
    BY <1>0, <1>2, <1>9
  <2>2. (PhaseOf(x))' = "responded"
    BY <1>2, <2>1, PhasesAreNext DEF PhasesFit
  <2>3. Promise!Respond(x)
    BY <1>2, <1>6, <1>7, <1>8, <2>2, PhaseStep
  <2> QED
    BY <1>2, <2>3
<1>10. CASE lost' = lost \cup {x}
  <2>1. (PhaseOf(x))' = "lost"
    BY <1>2, <1>10, PhasesAreNext DEF PhasesFit
  <2>2. Promise!GiveUp({x})
    BY <1>2, <1>6, <1>7, <1>8, <2>1, PhaseStep
  <2> QED
    BY <1>2, <2>2
<1> QED
  BY <1>1, <1>9, <1>10

\* What a thread moves out of a table it can still end.
LEMMA TakeMaps ==
  ASSUME Custody, Custody', NEW t \in Threads, NEW x \in Seqs, NEW to \in {"handle", "expire"},
         x \in mStubHandleMap, pc[t] = "idle",
         pc' = [pc EXCEPT ![t] = to], mine' = [mine EXCEPT ![t] = x],
         mStubHandleMap' = mStubHandleMap \ {x},
         UNCHANGED <<clock, call, loopQueue, batch, history>>
  PROVE  UNCHANGED Promise!vars
<1>1. OthersRest(t) /\ pc'[t] = to /\ mine'[t] = x
  BY RestOfMove
<1>2. \A s \in Seqs : (Held(t, s))' <=> Held(t, s) \/ s = x
  BY <1>1 DEF Held
<1>3. \A s \in Seqs : SameFate(s)
  BY <1>1, <1>2, Elsewhere DEF SameFate, history
<1> QED
  BY <1>3, NoStep DEF SameEnds

\* Input that finds a call takes it out of the tables; input that finds none does
\* nothing.
LEMMA InputMaps ==
  ASSUME Custody, Watch, Custody', NEW t \in Threads, ReceiveResponse(t) \/ FireTimer(t)
  PROVE  UNCHANGED Promise!vars
<1>0. UNCHANGED <<clock, call, loopQueue, batch, history>> /\ pc[t] = "idle" /\ mStubHandleMap \subseteq Seqs
  BY CustodyParts DEF ReceiveResponse, FireTimer, TakeResponse, TakeTimeout, MoveOut, env
<1>1. ASSUME UNCHANGED <<pc, mine, mStubHandleMap>> PROVE UNCHANGED Promise!vars
  BY <1>0, <1>1, RestOfMove, MovesOn DEF SameEnds
<1>2. ASSUME NEW s, TakeResponse(t, s) PROVE UNCHANGED Promise!vars
  <2>1. CASE s \in mStubHandleMap
    BY <1>0, <1>2, <2>1, TakeMaps DEF TakeResponse, MoveOut
  <2>2. CASE s \notin mStubHandleMap
    BY <1>1, <1>2, <2>2 DEF TakeResponse, MoveOut
  <2> QED
    BY <2>1, <2>2
<1>3. ASSUME NEW q \in armed, TakeTimeout(t, q.seq) PROVE UNCHANGED Promise!vars
  <2>1. mTimeoutHandleMap \subseteq mStubHandleMap
    BY CustodyParts DEF TablesExclude
  <2>2. q.seq \in mStubHandleMap => q.seq \in mTimeoutHandleMap
    BY DEF Watch, TimersFit, TablesFit, Stamped
  <2>3. CASE q.seq \in mTimeoutHandleMap
    BY <1>0, <1>3, <2>1, <2>3, TakeMaps DEF TakeTimeout, MoveOut
  <2>4. CASE q.seq \notin mTimeoutHandleMap
    BY <1>1, <1>3, <2>2, <2>4 DEF TakeTimeout, MoveOut
  <2> QED
    BY <2>3, <2>4
<1>4. CASE ReceiveResponse(t)
  BY <1>2, <1>4 DEF ReceiveResponse
<1>5. CASE FireTimer(t)
  <2>1. \/ \E q \in armed : TakeTimeout(t, q.seq)
        \/ UNCHANGED <<tables, pc, mine>>
    BY <1>5 DEF FireTimer
  <2> QED
    BY <1>1, <1>3, <2>1 DEF tables
<1> QED
  BY <1>4, <1>5

\* What checkTimeout() moves out of the tables it can still end.
LEMMA SweepMaps ==
  ASSUME Custody, Custody', NEW t \in Threads, SweepTimers(t)
  PROVE  UNCHANGED Promise!vars
<1>1. /\ pc[t] = "check"
      /\ pc' = [pc EXCEPT ![t] = IF Expired(t) = {} THEN "idle" ELSE "sweep"]
      /\ batch' = [batch EXCEPT ![t] = Expired(t)]
      /\ mStubHandleMap' = mStubHandleMap \ Keys(Expired(t))
      /\ UNCHANGED <<clock, call, mine, loopQueue, history>>
  BY DEF SweepTimers, Sweep, env
<1>2. OthersRest(t) /\ batch'[t] = Expired(t) /\ pc'[t] \in {"idle", "sweep"}
  BY <1>1, RestOfMove
<1>3. batch[t] = {} /\ mTimeoutHandleMap \subseteq mStubHandleMap
  BY <1>1, CustodyParts DEF BatchOnlyInSweep, TablesExclude
<1>4. \A s \in Seqs : ~Held(t, s)
  BY <1>1, <1>3 DEF Held
<1>5. \A s \in Seqs : (Held(t, s))' <=> s \in Keys(Expired(t))
  BY <1>2 DEF Held, Keys
<1>6. Keys(Expired(t)) \subseteq mStubHandleMap
  BY <1>3 DEF Keys, Expired
<1>7. \A s \in Seqs : (Answerable(s))' <=> Answerable(s)
  BY <1>1, <1>2, <1>4, <1>5, <1>6, Elsewhere
<1>8. \A s \in Seqs : SameFate(s)
  BY <1>1, <1>7 DEF SameFate, history
<1> QED
  BY <1>1, <1>8, NoStep DEF SameEnds

\* checkTimeout() runs a timeout callback.
LEMMA CallbackMaps ==
  ASSUME Custody, Watch, Custody', NEW t \in Threads, RunCallback(t)
  PROVE  \E x \in Seqs : Promise!Expire(x)
<1>0. /\ timedOut \in [Seqs -> Nat] /\ batch \in [Threads -> SUBSET Timers]
  BY CustodyParts
<1>1. PICK q \in batch[t] : /\ timedOut' = [timedOut EXCEPT ![q.seq] = @ + 1]
                            /\ batch' = [batch EXCEPT ![t] = @ \ {q}]
                            /\ \E to \in {"idle", "sweep", "unwind"} : pc' = [pc EXCEPT ![t] = to]
  BY DEF RunCallback
<1>2. /\ pc[t] = "sweep"
      /\ UNCHANGED <<clock, call, mine, loopQueue, mStubHandleMap, responded, lost>>
  BY DEF RunCallback, tables, env
<1>3. PICK x \in Seqs : x = q.seq
  BY <1>0, <1>1 DEF Timers
<1>4. OthersRest(t) /\ pc'[t] \in {"idle", "sweep", "unwind"} /\ batch'[t] = batch[t] \ {q}
  BY <1>0, <1>1, <1>2, RestOfMove
<1>5. \A s \in Seqs \ {x} : (Held(t, s))' <=> Held(t, s)
  BY <1>2, <1>3, <1>4 DEF Held
<1>6. timedOut'[x] > 0 /\ \A s \in Seqs \ {x} : timedOut'[s] = timedOut[s]
  BY <1>0, <1>1, <1>3
<1>7. \A s \in Seqs \ {x} : (Answerable(s))' <=> Answerable(s)
  BY <1>2, <1>4, <1>5, Elsewhere
<1>8. \A s \in Seqs \ {x} : SameFate(s)
  BY <1>2, <1>6, <1>7 DEF SameFate
<1>9. PhaseOf(x) = "open"
  <2>1. Answerable(x)
    BY <1>1, <1>3 DEF Answerable, Held
  <2> QED
    BY <2>1, AnswerableIsOpen
<1>10. (PhaseOf(x))' = "timedout"
  BY <1>6, PhasesAreNext DEF PhasesFit
<1>11. call[x].end # Never /\ call[x].end <= clock
  BY <1>1, <1>3, CustodyParts DEF Watch, ReportersFit, Stamped
<1>12. Promise!Expire(x)
  BY <1>2, <1>8, <1>9, <1>10, <1>11, PhaseStep DEF SameEnds
<1> QED
  BY <1>12

\* An exception gives up the callbacks that had not run.
LEMMA UnwindMaps ==
  ASSUME Custody, Custody', NEW t \in Threads, UnwindCallbacks(t)
  PROVE  \/ \E S \in SUBSET Seqs : Promise!GiveUp(S)
         \/ UNCHANGED Promise!vars
<1>0. batch \in [Threads -> SUBSET Timers]
  BY CustodyParts
<1>1. PICK S : S = {q.seq : q \in batch[t]}
  OBVIOUS
<1>2. /\ pc[t] = "unwind" /\ pc' = [pc EXCEPT ![t] = "idle"]
      /\ batch' = [batch EXCEPT ![t] = {}] /\ lost' = lost \cup S
      /\ UNCHANGED <<clock, call, mine, loopQueue, mStubHandleMap, responded, timedOut>>
  BY <1>1 DEF UnwindCallbacks, tables, env
<1>3. OthersRest(t) /\ pc'[t] = "idle" /\ batch'[t] = {}
  BY <1>2, RestOfMove
<1>4. S \subseteq Seqs
  BY <1>0, <1>1 DEF Timers
<1>5. \A s \in Seqs : (Held(t, s) <=> s \in S) /\ ~(Held(t, s))'
  BY <1>1, <1>2, <1>3 DEF Held
<1>6. \A s \in Seqs \ S : (Answerable(s))' <=> Answerable(s)
  BY <1>2, <1>3, <1>5, Elsewhere
<1>7. \A s \in Seqs \ S : SameFate(s)
  BY <1>2, <1>6 DEF SameFate
<1>8. \A s \in Seqs \ S : (PhaseOf(s))' = PhaseOf(s)
  BY <1>7, PhaseSame
<1>9. \A s \in S : PhaseOf(s) = "open"
  <2>1. \A s \in S : Answerable(s)
    BY <1>4, <1>5 DEF Answerable
  <2> QED
    BY <1>4, <2>1, AnswerableIsOpen
<1>10. \A s \in S : (PhaseOf(s))' = "lost"
  <2>1. \A s \in S : s \in lost'
    BY <1>2
  <2> QED
    BY <1>4, <2>1, PhasesAreNext DEF PhasesFit
<1>11. UNCHANGED <<[s \in Seqs |-> call[s].end], clock>>
  BY <1>2
<1>12. CASE S = {}
  <2>1. \A s \in Seqs : (PhaseOf(s))' = PhaseOf(s)
    BY <1>8, <1>12
  <2> QED
    BY <1>11, <2>1 DEF Promise!vars
<1>13. CASE S # {}
  <2>1. \A s \in S : [c \in Seqs |-> PhaseOf(c)][s] = "open"
    BY <1>4, <1>9
  <2>2. [c \in Seqs |-> (PhaseOf(c))']
          = [c \in Seqs |-> IF c \in S THEN "lost" ELSE [d \in Seqs |-> PhaseOf(d)][c]]
    BY <1>8, <1>10
  <2>3. Promise!GiveUp(S)
    BY <1>11, <1>13, <2>1, <2>2 DEF Promise!GiveUp
  <2> QED
    BY <1>4, <2>3
<1> QED
  BY <1>12, <1>13

\* The clock, the session and the handle manager are no thread's business.
LEMMA WorldMaps ==
  ASSUME Custody, Custody', Disconnect \/ Uninstall \/ Tick \/ UNCHANGED vars
  PROVE  Promise!Tick \/ UNCHANGED Promise!vars
<1>1. UNCHANGED <<call, mStubHandleMap, loopQueue, pc, mine, batch, history>>
  BY DEF Disconnect, Uninstall, Tick, env, vars, tables
<1>2. \A u \in Threads, s \in Seqs : (Held(u, s))' <=> Held(u, s)
  BY <1>1 DEF Held
<1>3. \A s \in Seqs : (Answerable(s))' <=> Answerable(s)
  BY <1>1, <1>2 DEF Answerable
<1>4. \A s \in Seqs : SameFate(s)
  BY <1>1, <1>3 DEF SameFate, history
<1>5. \A s \in Seqs : (PhaseOf(s))' = PhaseOf(s)
  BY <1>4, PhaseSame
<1>6. UNCHANGED <<[s \in Seqs |-> PhaseOf(s)], [s \in Seqs |-> call[s].end]>>
  BY <1>1, <1>5
<1>7. clock' = clock + 1 \/ clock' = clock
  BY DEF Disconnect, Uninstall, Tick, vars
<1> QED
  BY <1>6, <1>7 DEF Promise!Tick, Promise!vars

-----------------------------------------------------------------------------
(* The theorem                                                             *)

LEMMA InitMaps == Init => Promise!Init
<1> SUFFICES ASSUME Init PROVE Promise!Init
  OBVIOUS
<1>1. Custody
  BY InitCustody
<1>2. \A s \in Seqs : Unsettled(s) /\ ~Answerable(s)
  BY DEF Init, Unsettled, Answerable, Held
<1>3. \A s \in Seqs : PhaseOf(s) = "unborn"
  BY <1>1, <1>2, PhasesAre DEF PhasesFit
<1>4. (\A s \in Seqs : call[s].end = Never) /\ clock = 0
  BY DEF Init
<1> QED
  BY <1>3, <1>4 DEF Promise!Init, Promise!Never, Never

LEMMA StepMaps == Custody /\ Watch /\ [Next]_vars => [Promise!Next]_(Promise!vars)
<1> SUFFICES ASSUME Custody, Watch, [Next]_vars
             PROVE  Promise!Next \/ UNCHANGED Promise!vars
  OBVIOUS
<1>1. Custody'
  BY CustodyStep
<1>2. ASSUME NEW t \in Callers, MakeCall(t) PROVE UNCHANGED Promise!vars
  BY <1>1, <1>2, DrawMaps
<1>3. ASSUME NEW t \in Threads,
             SendRequest(t) \/ OutboundRejects(t) \/ ArmTimer(t) \/ WaitReturns(t) \/ CheckTimeout(t)
      PROVE  UNCHANGED Promise!vars
  <2>1. PICK to \in {"arm", "wait", "idle", "check"} : pc' = [pc EXCEPT ![t] = to]
    BY <1>3 DEF SendRequest, OutboundRejects, ArmTimer, WaitReturns, CheckTimeout, AfterSend
  <2>2. pc[t] \notin {"handle", "expire"}
    BY <1>3 DEF SendRequest, OutboundRejects, ArmTimer, WaitReturns, CheckTimeout
  <2>3. UNCHANGED <<call, mine, batch, mStubHandleMap, loopQueue, history, clock>>
    BY <1>3 DEF SendRequest, OutboundRejects, ArmTimer, WaitReturns, CheckTimeout, tables, env
  <2>4. OthersRest(t) /\ pc'[t] \notin {"handle", "expire"}
    BY <2>1, <2>3, RestOfMove
  <2> QED
    BY <1>1, <2>2, <2>3, <2>4, MovesOn DEF SameEnds
<1>4. ASSUME NEW t \in Threads, StampTimer(t) \/ Register(t) PROVE Promise!Next
  BY <1>1, <1>4, StampMaps, RegisterMaps DEF Promise!Next
<1>5. ASSUME NEW t \in Threads, RunHandler(t) \/ DropResponse(t) \/ RunTimeoutHandler(t)
      PROVE  Promise!Next \/ UNCHANGED Promise!vars
  BY <1>1, <1>5, AnswerMaps DEF Promise!Next
<1>6. ASSUME NEW t \in Threads, SweepTimers(t) PROVE UNCHANGED Promise!vars
  BY <1>1, <1>6, SweepMaps
<1>7. ASSUME NEW t \in Threads, RunCallback(t) \/ UnwindCallbacks(t)
      PROVE  Promise!Next \/ UNCHANGED Promise!vars
  BY <1>1, <1>7, CallbackMaps, UnwindMaps DEF Promise!Next
<1>8. ASSUME NEW t \in Threads, RunPosted(t) PROVE Promise!Next
  BY <1>1, <1>8, PostedMaps DEF Promise!Next
<1>9. ASSUME NEW t \in Threads, ReceiveResponse(t) \/ FireTimer(t) PROVE UNCHANGED Promise!vars
  BY <1>1, <1>9, InputMaps
<1>10. ASSUME Disconnect \/ Uninstall \/ Tick \/ UNCHANGED vars
       PROVE  Promise!Next \/ UNCHANGED Promise!vars
  BY <1>1, <1>10, WorldMaps DEF Promise!Next
<1>11. ASSUME NEW t \in Threads, Proceed(t) PROVE Promise!Next \/ UNCHANGED Promise!vars
  BY <1>3, <1>4, <1>5, <1>6, <1>7, <1>11 DEF Proceed
<1>12. Workers \subseteq Threads
  OBVIOUS
<1> QED
  BY <1>2, <1>3, <1>8, <1>9, <1>10, <1>11, <1>12 DEF Next

\* The client keeps what RpcCall promises the caller: call(), processRpcResponse and
\* checkTimeout() open a call once, and end it once and for good.
THEOREM ClientKeepsPromise == Spec => PromiseKept
<1>1. Custody /\ Watch /\ [Next]_vars => [Promise!Next]_(Promise!vars)
  BY StepMaps
<1> QED
  BY <1>1, InitMaps, WatchHolds, PTL DEF Spec, PromiseKept, Promise!Spec
=============================================================================
