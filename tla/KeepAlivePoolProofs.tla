------------------------- MODULE KeepAlivePoolProofs -------------------------
(***************************************************************************)
(* Proofs that KeepAliveTransport keeps its type, its count of expected    *)
(* responses included, and that it implements the pool of ConnPool.        *)
(***************************************************************************)
EXTENDS KeepAliveProofs, FiniteSetTheorems

\* The callers that numExpectedResponses of c counts.  A failed write leaves its
\* increment behind: the counter may be higher than this, never lower.
Counted(c) == {u \in Callers : conn[u] = c /\ pc[u] \in {"counted", "written", "wait"}}

Counts(c) == /\ IsFiniteSet(Counted(c))
             /\ num[c] \in Nat
             /\ Cardinality(Counted(c)) <= num[c]

\* The parts of TypeOK that no other fact depends on.
Rest == /\ peerClosed \in [Conns -> BOOLEAN]
        /\ lastbody \in [Conns -> Callers \cup {NoCaller}]
        /\ closed \in [Callers -> BOOLEAN]
        /\ runs \in [Callers -> Nat]

\* The invariant.
CInv == XInv /\ Rest /\ num \in [Conns -> Int] /\ \A c \in Conns : Counts(c)

\* A step that changes neither the counter nor who is counted.
LEMMA CountStill ==
  ASSUME \A c \in Conns : Counts(c), num' = num,
         \A u \in Callers, c \in Conns : u \in Counted(c)' <=> u \in Counted(c)
  PROVE  \A c \in Conns : Counts(c)'
<1> SUFFICES ASSUME NEW c \in Conns PROVE Counts(c)'
  OBVIOUS
<1>1. Counted(c)' = Counted(c)
  BY DEF Counted
<1> QED
  BY <1>1 DEF Counts

\* The steps of u move u alone.
LEMMA CountMoves ==
  ASSUME Typed, \A c \in Conns : Counts(c), num \in [Conns -> Int],
         NEW u \in Callers, NEW c \in Conns, conn[u] = c,
         \A v \in Callers \ {u} : pc'[v] = pc[v] /\ conn'[v] = conn[v],
         \/ /\ pc[u] \notin {"counted", "written", "wait"}
            /\ u \in Counted(c)' /\ num' = [num EXCEPT ![c] = @ + 1]
         \/ /\ u \in Counted(c) /\ \A d \in Conns : u \notin Counted(d)'
            /\ num' = num \/ num' = [num EXCEPT ![c] = @ - 1]
  PROVE  \A d \in Conns : Counts(d)'
<1>1. ASSUME NEW d \in Conns \ {c} PROVE Counts(d)'
  <2>1. u \notin Counted(d) /\ u \notin Counted(d)'
    BY <1>1 DEF Counted
  <2>2. Counted(d)' = Counted(d)
    BY <2>1 DEF Counted
  <2>3. num'[d] = num[d]
    BY <1>1
  <2> QED
    BY <2>2, <2>3 DEF Counts
<1>2. Counts(c)'
  <2>1. IsFiniteSet(Counted(c)) /\ num[c] \in Nat /\ Cardinality(Counted(c)) <= num[c]
    BY DEF Counts
  <2>2. Cardinality(Counted(c)) \in Nat
    BY <2>1, FS_CardinalityType
  <2>3. CASE u \in Counted(c)' /\ u \notin Counted(c) /\ num' = [num EXCEPT ![c] = @ + 1]
    <3>1. Counted(c)' = Counted(c) \cup {u}
      BY <2>3 DEF Counted
    <3>2. num'[c] = num[c] + 1
      BY <2>3
    <3>3. IsFiniteSet(Counted(c)') /\ Cardinality(Counted(c)') = Cardinality(Counted(c)) + 1
      BY <2>1, <2>3, <3>1, FS_AddElement
    <3> QED
      BY <2>1, <2>2, <3>2, <3>3 DEF Counts
  <2>4. CASE /\ u \in Counted(c) /\ u \notin Counted(c)'
             /\ num' = num \/ num' = [num EXCEPT ![c] = @ - 1]
    <3>1. Counted(c)' = Counted(c) \ {u}
      BY <2>4 DEF Counted
    <3>2. num'[c] \in {num[c], num[c] - 1}
      BY <2>4
    <3>3. IsFiniteSet(Counted(c)') /\ Cardinality(Counted(c)') = Cardinality(Counted(c)) - 1
      BY <2>1, <2>4, <3>1, FS_RemoveElement
    <3>4. Cardinality(Counted(c)') \in Nat
      BY <3>3, FS_CardinalityType
    <3> QED
      BY <2>1, <2>2, <3>2, <3>3, <3>4 DEF Counts
  <2>5. pc[u] \notin {"counted", "written", "wait"} => u \notin Counted(c)
    BY DEF Counted
  <2> QED
    BY <2>3, <2>4, <2>5
<1> QED
  BY <1>1, <1>2

\* Who is counted after a caller's step that leaves the counter alone.
LEMMA CallerCounts ==
  ASSUME CInv, NEW u \in Callers, CallerStep(u)
  PROVE  \A c \in Conns : Counts(c)'
<1>0. Typed /\ CallersDialed /\ \A c \in Conns : Counts(c)
  BY Parts DEF CInv
<1>1. CASE \/ \E c \in Conns : dialConn(u, c)
           \/ dialFails(u) \/ writeRequest(u) \/ queueRequest(u)
           \/ (\E how \in BodyEnds : finishBody(u, how)) \/ abandonBody(u)
           \/ fnPut(u) \/ fnSend(u) \/ clearFn(u)
  <2>1. num' = num
    BY <1>1 DEF dialConn, dialFails, writeRequest, queueRequest, finishBody, abandonBody,
                fnPut, fnSend, clearFn, connVars
  <2>2. ASSUME NEW v \in Callers, NEW c \in Conns
        PROVE  v \in Counted(c)' <=> v \in Counted(c)
    <3>1. v # u => pc'[v] = pc[v] /\ conn'[v] = conn[v]
      BY <1>0, <1>1 DEF Typed, dialConn, dialFails, return, writeRequest, queueRequest, finishBody,
                        abandonBody, fnPut, fnSend, clearFn
    <3>2. CASE writeRequest(u) \/ queueRequest(u)
      <4>1. conn' = conn /\ pc[u] \in {"counted", "written"} /\ pc'[u] \in {"written", "wait"}
        BY <1>0, <3>2 DEF Typed, writeRequest, queueRequest
      <4> QED
        BY <3>1, <4>1 DEF Counted
    <3>3. CASE ~(writeRequest(u) \/ queueRequest(u))
      <4>1. pc[u] \in {"dialing", "body", "fnput", "fnsend", "clear"}
        BY <1>1, <3>3 DEF dialConn, dialFails, finishBody, abandonBody, fnPut, fnSend, clearFn
      <4>2. pc'[u] \in {"have", "idle", "fnput", "fnsend", "clear"}
        BY <1>0, <1>1, <3>3 DEF Typed, dialConn, dialFails, return, finishBody, abandonBody,
                                fnPut, fnSend, clearFn
      <4> QED
        BY <3>1, <4>1, <4>2 DEF Counted
    <3> QED
      BY <3>2, <3>3
  <2> QED
    BY <1>0, <2>1, <2>2, CountStill
<1>2. CASE expectResponse(u) \/ writeFails(u) \/ returnResponse(u)
  <2>1. PICK c \in Conns : conn[u] = c
    BY <1>0, <1>2 DEF expectResponse, writeFails, returnResponse, CallersDialed
  <2>2. \A v \in Callers \ {u} : pc'[v] = pc[v] /\ conn'[v] = conn[v]
    BY <1>0, <1>2 DEF Typed, expectResponse, writeFails, returnResponse, return
  <2>3. CASE expectResponse(u)
    <3>1. /\ pc[u] = "have" /\ pc'[u] = "counted" /\ conn'[u] = c
          /\ num' = [num EXCEPT ![c] = @ + 1]
      BY <1>0, <2>1, <2>3 DEF expectResponse, Typed
    <3>2. u \in Counted(c)'
      BY <3>1 DEF Counted
    <3> QED
      BY <1>0, <2>1, <2>2, <3>1, <3>2, CountMoves DEF CInv
  <2>4. CASE writeFails(u) \/ returnResponse(u)
    <3>1. /\ pc[u] \in {"counted", "wait"} /\ pc'[u] \in {"idle", "body"}
          /\ num' = num \/ num' = [num EXCEPT ![c] = @ - 1]
      BY <1>0, <2>1, <2>4 DEF writeFails, returnResponse, return, Typed
    <3>2. u \in Counted(c) /\ \A d \in Conns : u \notin Counted(d)'
      BY <2>1, <3>1 DEF Counted
    <3> QED
      BY <1>0, <2>1, <2>2, <3>1, <3>2, CountMoves DEF CInv
  <2> QED
    BY <1>2, <2>3, <2>4
<1> QED
  BY <1>1, <1>2 DEF CallerStep

\* A step that is not a caller's.
LEMMA OtherCounts ==
  ASSUME CInv,
         \/ \E u \in Callers, k \in Keys : getIdleConnHit(u, k) \/ getIdleConnMiss(u, k)
         \/ CloseIdleConnections
         \/ \E c \in Conns : ReadLoopStep(c) \/ peerAnswers(c) \/ peerCloses(c)
         \/ UNCHANGED vars
  PROVE  num' = num /\ \A c \in Conns : Counts(c)'
<1>0. Typed /\ \A c \in Conns : Counts(c)
  BY Parts DEF CInv
<1>1. CASE \E u \in Callers, k \in Keys : getIdleConnHit(u, k) \/ getIdleConnMiss(u, k)
  <2>1. PICK u \in Callers, k \in Keys : getIdleConnHit(u, k) \/ getIdleConnMiss(u, k)
    BY <1>1
  <2>2. /\ pc[u] = "idle" /\ pc'[u] \in {"have", "dialing"} /\ num' = num
        /\ \A v \in Callers \ {u} : pc'[v] = pc[v] /\ conn'[v] = conn[v]
    BY <1>0, <2>1 DEF getIdleConnHit, getIdleConnMiss, connVars, Typed
  <2>3. \A v \in Callers, c \in Conns : v \in Counted(c)' <=> v \in Counted(c)
    BY <2>2 DEF Counted
  <2> QED
    BY <1>0, <2>2, <2>3, CountStill
<1>2. CASE \/ CloseIdleConnections
           \/ \E c \in Conns : ReadLoopStep(c) \/ peerAnswers(c) \/ peerCloses(c)
           \/ UNCHANGED vars
  <2>1. UNCHANGED <<num, pc, conn>>
    BY <1>2 DEF CloseIdleConnections, ReadLoopStep, peek, recvRequest, closeLastBody, readResponse,
                peerAnswers, peerCloses, vars, connVars, callerVars
  <2>2. \A v \in Callers, c \in Conns : v \in Counted(c)' <=> v \in Counted(c)
    BY <2>1 DEF Counted
  <2> QED
    BY <1>0, <2>1, <2>2, CountStill
<1> QED
  BY <1>1, <1>2

\* The types nothing depends on.
LEMMA StepRest == ASSUME CInv, [Next]_vars PROVE Rest'
<1>0. /\ Rest /\ \A c \in Conns : cur[c] \in Callers \cup {NoCaller}
      /\ \A c \in Conns : rl[c] = "read" => cur[c] \in Callers
  <2>1. \A c \in Conns : rl[c] = "read" => QueueAwaited(c)
    BY Parts DEF CInv, Good
  <2> QED
    BY <2>1, Parts DEF CInv, Shapes, QueueAwaited
<1>1. CASE \E u \in Callers, k \in Keys : getIdleConnHit(u, k) \/ getIdleConnMiss(u, k)
  BY <1>0, <1>1 DEF getIdleConnHit, getIdleConnMiss, peerVars, loopVars, Rest
<1>2. ASSUME NEW u \in Callers, CallerStep(u) PROVE Rest'
  <2>1. peerClosed' = peerClosed
    BY <1>2 DEF CallerStep, dialConn, dialFails, expectResponse, writeRequest, writeFails,
                queueRequest, returnResponse, finishBody, abandonBody, fnPut, fnSend, clearFn, peerVars
  <2>2. lastbody' = lastbody
          \/ \E c : lastbody' = [lastbody EXCEPT ![c] = IF @ = u THEN NoCaller ELSE @]
    BY <1>2 DEF CallerStep, dialConn, dialFails, expectResponse, writeRequest, writeFails,
                queueRequest, returnResponse, finishBody, abandonBody, fnPut, fnSend, clearFn, loopVars
  <2>3. closed' = closed \/ \E b \in BOOLEAN : closed' = [closed EXCEPT ![u] = b]
    BY <1>2 DEF CallerStep, dialConn, dialFails, expectResponse, writeRequest, writeFails,
                queueRequest, returnResponse, finishBody, abandonBody, fnPut, fnSend, clearFn
  <2>4. runs' = runs \/ runs' = [runs EXCEPT ![u] = 0] \/ runs' = [runs EXCEPT ![u] = @ + 1]
    BY <1>2 DEF CallerStep, dialConn, dialFails, expectResponse, writeRequest, writeFails,
                queueRequest, returnResponse, finishBody, abandonBody, fnPut, fnSend, clearFn
  <2> QED
    BY <1>0, <2>1, <2>2, <2>3, <2>4 DEF Rest
<1>3. CASE CloseIdleConnections \/ UNCHANGED vars
  BY <1>0, <1>3 DEF CloseIdleConnections, vars, peerVars, loopVars, callerVars, Rest
<1>4. ASSUME NEW c \in Conns, ReadLoopStep(c) PROVE Rest'
  <2>1. CASE peek(c)
    BY <1>0, <2>1 DEF peek, peerVars, callerVars, Rest
  <2>2. CASE recvRequest(c)
    <3>1. peerClosed' = peerClosed /\ runs' = runs
      BY <2>2 DEF recvRequest, peerVars
    <3>2. closed' = closed \/ \E b : closed' = [closed EXCEPT ![b] = TRUE]
      BY <2>2 DEF recvRequest
    <3>3. lastbody' = lastbody \/ lastbody' = [lastbody EXCEPT ![c] = NoCaller]
      BY <2>2 DEF recvRequest
    <3> QED
      BY <1>0, <3>1, <3>2, <3>3 DEF Rest
  <2>3. CASE closeLastBody(c)
    <3>1. UNCHANGED <<peerClosed, lastbody, closed>>
      BY <2>3 DEF closeLastBody, peerVars
    <3>2. runs' = runs \/ \E b : runs' = [runs EXCEPT ![b] = @ + 1]
      BY <2>3 DEF closeLastBody
    <3> QED
      BY <1>0, <3>1, <3>2 DEF Rest
  <2>4. ASSUME NEW kind \in Kinds, readResponse(c, kind) PROVE Rest'
    <3>1. PICK u \in Callers : u = cur[c]
      BY <1>0, <2>4 DEF readResponse
    <3>2. peerClosed' = peerClosed
      BY <2>4 DEF readResponse
    <3>3. \/ UNCHANGED <<lastbody, closed, runs>>
          \/ /\ lastbody' = [lastbody EXCEPT ![c] = u]
             /\ closed' = [closed EXCEPT ![u] = FALSE]
             /\ runs' = [runs EXCEPT ![u] = 0]
      BY <2>4, <3>1 DEF readResponse
    <3>4. lastbody' \in [Conns -> Callers \cup {NoCaller}]
      BY <1>0, <3>3 DEF Rest
    <3>5. closed' \in [Callers -> BOOLEAN]
      BY <1>0, <3>3 DEF Rest
    <3>6. runs' \in [Callers -> Nat]
      BY <1>0, <3>3 DEF Rest
    <3> QED
      BY <1>0, <3>2, <3>4, <3>5, <3>6 DEF Rest
  <2> QED
    BY <1>4, <2>1, <2>2, <2>3, <2>4 DEF ReadLoopStep
<1>5. ASSUME NEW c \in Conns, peerAnswers(c) \/ peerCloses(c) PROVE Rest'
  BY <1>0, <1>5 DEF peerAnswers, peerCloses, loopVars, callerVars, Rest
<1> QED
  BY <1>1, <1>2, <1>3, <1>4, <1>5 DEF Next

\* Every step keeps the invariant.
LEMMA StepC == CInv /\ [Next]_vars => CInv'
<1> SUFFICES ASSUME CInv, [Next]_vars PROVE CInv'
  OBVIOUS
<1>1. XInv' /\ Rest'
  BY StepX, StepRest DEF CInv
<1>2. \A c \in Conns : Counts(c)'
  BY CallerCounts, OtherCounts DEF Next
<1>3. num' \in [Conns -> Int]
  <2>1. ASSUME NEW u \in Callers, CallerStep(u) PROVE num' \in [Conns -> Int]
    <3>1. \/ num' = num
          \/ \E c : num' = [num EXCEPT ![c] = @ + 1] \/ num' = [num EXCEPT ![c] = @ - 1]
      BY <2>1 DEF CallerStep, dialConn, dialFails, expectResponse, writeRequest, writeFails,
                  queueRequest, returnResponse, finishBody, abandonBody, fnPut, fnSend, clearFn, connVars
    <3> QED
      BY <3>1 DEF CInv
  <2>2. (\A u \in Callers : ~CallerStep(u)) => num' = num
    BY OtherCounts DEF Next
  <2> QED
    BY <2>1, <2>2 DEF CInv
<1> QED
  BY <1>1, <1>2, <1>3 DEF CInv

\* No caller is counted before the first request.
LEMMA InitC == Init => CInv
<1> SUFFICES ASSUME Init PROVE CInv
  OBVIOUS
<1>1. Rest /\ num \in [Conns -> Int]
  BY DEF Init, Rest
<1>2. ASSUME NEW c \in Conns PROVE Counts(c)
  <2>1. Counted(c) = {} /\ num[c] = 0
    BY DEF Init, Counted
  <2> QED
    BY <2>1, FS_EmptySet DEF Counts
<1> QED
  BY <1>1, <1>2, InitX DEF CInv

\* The transport keeps its type, whatever callers and readLoops do: above all
\* numExpectedResponses never falls below zero, for each decrement of roundTrip
\* has its own increment.
THEOREM TypeCorrect == Spec => []TypeOK
<1>1. Init => CInv
  BY InitC
<1>2. CInv /\ [Next]_vars => CInv'
  BY StepC
<1>3. CInv => TypeOK
  <2> SUFFICES ASSUME CInv PROVE TypeOK
    OBVIOUS
  <2>1. Typed /\ Shapes /\ Rest
    BY Parts DEF CInv
  <2>2. num \in [Conns -> Nat]
    BY DEF CInv, Counts
  <2> QED
    BY <2>1, <2>2 DEF TypeOK, Typed, Shapes, Rest
<1> QED
  BY <1>1, <1>2, <1>3, PTL DEF Spec
-----------------------------------------------------------------------------
(* KeepAliveTransport implements ConnPool.                                   *)

\* Nobody marks a connection before it is dialed.
Fresh == \A c \in Conns : rl[c] = "none" => ~broken[c]

\* Where a connection is, before a step.
LEMMA AtNow ==
  ASSUME XInv, NEW c \in Conns
  PROVE  /\ rl[c] = "none" => Whereabouts(c) = "new"
         /\ rl[c] # "none" /\ ~Live(c) => Whereabouts(c) = "gone"
         /\ \A u \in Callers : Live(c) /\ Holds(u, c) => Whereabouts(c) = u
         /\ Live(c) /\ (\A u \in Callers : ~Holds(u, c)) =>
              Whereabouts(c) = IF Pooled(c) THEN "pool" ELSE "gone"
<1>1. \A u : u \in Having(c) <=> u \in Callers /\ Holds(u, c)
  BY DEF Having, Holds
<1>2. rl[c] = "none" => Whereabouts(c) = "new"
  BY DEF Whereabouts, Live
<1>3. rl[c] # "none" /\ ~Live(c) => Whereabouts(c) = "gone"
  BY DEF Whereabouts, Live
<1>4. Live(c) /\ Having(c) # {} => Whereabouts(c) \in Having(c)
  BY DEF Whereabouts, Live
<1>5. Live(c) /\ Having(c) = {} => Whereabouts(c) = IF Pooled(c) THEN "pool" ELSE "gone"
  BY DEF Whereabouts, Live
<1>6. Live(c) => \A u, v \in Callers : Holds(u, c) /\ Holds(v, c) => u = v
  BY Parts DEF Good, OneHolder, Live
<1>7. ASSUME NEW u \in Callers, Live(c), Holds(u, c) PROVE Whereabouts(c) = u
  BY <1>1, <1>4, <1>6, <1>7
<1>8. Live(c) /\ (\A u \in Callers : ~Holds(u, c)) =>
        Whereabouts(c) = IF Pooled(c) THEN "pool" ELSE "gone"
  BY <1>1, <1>5
<1> QED
  BY <1>2, <1>3, <1>7, <1>8

\* Where it is after the step.
LEMMA AtNext ==
  ASSUME XInv', NEW c \in Conns
  PROVE  /\ rl'[c] = "none" => Whereabouts(c)' = "new"
         /\ rl'[c] # "none" /\ ~Live(c)' => Whereabouts(c)' = "gone"
         /\ \A u \in Callers : Live(c)' /\ Holds(u, c)' => Whereabouts(c)' = u
         /\ Live(c)' /\ (\A u \in Callers : ~Holds(u, c)') =>
              Whereabouts(c)' = IF Pooled(c)' THEN "pool" ELSE "gone"
<1>1. \A u : u \in Having(c)' <=> u \in Callers /\ Holds(u, c)'
  BY DEF Having, Holds
<1>2. rl'[c] = "none" => Whereabouts(c)' = "new"
  BY DEF Whereabouts, Live
<1>3. rl'[c] # "none" /\ ~Live(c)' => Whereabouts(c)' = "gone"
  BY DEF Whereabouts, Live
<1>4. Live(c)' /\ Having(c)' # {} => Whereabouts(c)' \in Having(c)'
  BY DEF Whereabouts, Live
<1>5. Live(c)' /\ Having(c)' = {} => Whereabouts(c)' = IF Pooled(c)' THEN "pool" ELSE "gone"
  BY DEF Whereabouts, Live
<1>6. Live(c)' => \A u, v \in Callers : Holds(u, c)' /\ Holds(v, c)' => u = v
  BY DEF XInv, Exclusive, Good, OneHolder, Live
<1>7. ASSUME NEW u \in Callers, Live(c)', Holds(u, c)' PROVE Whereabouts(c)' = u
  BY <1>1, <1>4, <1>6, <1>7
<1>8. Live(c)' /\ (\A u \in Callers : ~Holds(u, c)') =>
        Whereabouts(c)' = IF Pooled(c)' THEN "pool" ELSE "gone"
  BY <1>1, <1>5
<1> QED
  BY <1>2, <1>3, <1>7, <1>8

\* What does not change where a connection is.
LEMMA Kept ==
  ASSUME XInv, XInv', NEW c \in Conns, rl'[c] = "none" <=> rl[c] = "none",
         Live(c)' <=> Live(c),
         Live(c) => /\ \A u \in Callers : Holds(u, c)' <=> Holds(u, c)
                    /\ Pooled(c)' <=> Pooled(c)
  PROVE  Whereabouts(c)' = Whereabouts(c)
<1>1. CASE ~Live(c)
  BY <1>1, AtNow, AtNext
<1>2. CASE Live(c) /\ \E u \in Callers : Holds(u, c)
  BY <1>2, AtNow, AtNext
<1>3. CASE Live(c) /\ \A u \in Callers : ~Holds(u, c)
  BY <1>3, AtNow, AtNext
<1> QED
  BY <1>1, <1>2, <1>3

\* Nobody moves.
LEMMA NoneMoves ==
  ASSUME UNCHANGED ckey, \A d \in Conns : Whereabouts(d)' = Whereabouts(d)
  PROVE  UNCHANGED Pool!vars
  BY DEF Pool!vars

\* One connection moves.
LEMMA OneMoves ==
  ASSUME NEW c \in Conns, \A d \in Conns \ {c} : Whereabouts(d)' = Whereabouts(d)
  PROVE  [d \in Conns |-> Whereabouts(d)]' =
           [[d \in Conns |-> Whereabouts(d)] EXCEPT ![c] = Whereabouts(c)']
  OBVIOUS

\* A connection comes to its end, if it had not come there before.
LEMMA Loses ==
  ASSUME XInv, NEW c \in Conns, UNCHANGED ckey, rl[c] # "none", Whereabouts(c)' = "gone",
         \A d \in Conns \ {c} : Whereabouts(d)' = Whereabouts(d)
  PROVE  [Pool!Next]_Pool!vars
<1>2. CASE Whereabouts(c) = "gone"
  BY <1>2, NoneMoves
<1>3. CASE Whereabouts(c) # "gone"
  <2>1. Live(c)
    BY <1>3, AtNow
  <2>2. Whereabouts(c) # "new"
    <3>1. CASE \E u \in Callers : Holds(u, c)
      BY <2>1, <3>1, AtNow, TransportAssumption
    <3>2. CASE \A u \in Callers : ~Holds(u, c)
      BY <2>1, <3>2, AtNow
    <3> QED
      BY <3>1, <3>2
  <2>3. Pool!Lose(c)
    BY <1>3, <2>2, OneMoves DEF Pool!Lose
  <2> QED
    BY <2>3 DEF Pool!Next
<1> QED
  BY <1>2, <1>3

\* Who is in the pool can be used and has nobody.
LEMMA InPoolNow ==
  ASSUME XInv, NEW c \in Conns, Whereabouts(c) = "pool"
  PROVE  Live(c) /\ Pooled(c)
<1>1. Live(c)
  BY AtNow
<1>2. \A u \in Callers : ~Holds(u, c)
  BY <1>1, AtNow, TransportAssumption
<1> QED
  BY <1>1, <1>2, AtNow

\* ConnPool counts as FiniteSets does.
LEMMA SameCardinality == \A S : Pool!Cardinality(S) = Cardinality(S)
  BY Zenon DEF Cardinality, Pool!Cardinality, IsFiniteSet, Pool!IsFiniteSet

\* putIdleConn's test of the length of the slice is a test of how many
\* connections the abstract pool has.
LEMMA RoomLeft ==
  ASSUME XInv, NEW c \in Conns, rl[c] # "none", CanPool(c)
  PROVE  Cardinality(Pool!InPool(ckey[c])) < (IF PoolingOff THEN 0 ELSE MaxIdle)
<1>0. Typed /\ PoolBounded
  BY Parts
<1>1. PICK k \in Keys : k = ckey[c]
  BY Parts DEF KeysKnown
<1>2. PICK s \in Seq(Conns) : s = idle[k]
  BY <1>0 DEF Typed
<1>3. PICK n \in Nat : n = Len(s)
  BY <1>2
<1>4. n < MaxIdle /\ ~PoolingOff
  BY <1>1, <1>2, <1>3 DEF CanPool
<1> DEFINE T == Pool!InPool(k)
           D == {i \in 1..n : s[i] \in T}
           f == [i \in D |-> s[i]]
<1>5. \A d \in T : d \in Conns /\ Whereabouts(d) = "pool" /\ ckey[d] = k
  BY DEF Pool!InPool
<1>6. ASSUME NEW d \in T PROVE \E i \in D : s[i] = d
  <2>1. Pooled(d)
    BY <1>5, InPoolNow
  <2>2. PICK q \in Keys : \E i \in 1..Len(idle[q]) : idle[q][i] = d
    BY <2>1 DEF Pooled
  <2>3. q = k
    BY <1>0, <1>5, <2>2 DEF PoolBounded
  <2> QED
    BY <1>2, <1>3, <2>2, <2>3
<1> HIDE DEF T
<1>7. f \in Surjection(D, T)
  BY <1>6 DEF Surjection
<1>8. IsFiniteSet(1..n) /\ Cardinality(1..n) = n
  BY FS_Interval
<1>9. IsFiniteSet(D) /\ Cardinality(D) <= n
  BY <1>8, FS_Subset
<1> HIDE DEF D, f
<1>10. IsFiniteSet(T) /\ Cardinality(T) <= Cardinality(D)
  BY <1>7, <1>9, FS_Surjection
<1>11. Cardinality(T) \in Nat /\ Cardinality(D) \in Nat
  BY <1>9, <1>10, FS_CardinalityType
<1>12. MaxIdle \in Int
  BY TransportAssumption DEF MaxIdle, DefaultMaxIdleConnsPerHost
<1>13. Cardinality(T) < MaxIdle
  BY <1>4, <1>9, <1>10, <1>11, <1>12
<1> QED
  BY <1>1, <1>4, <1>13 DEF T

\* A connection that is put in the pool is in it.
LEMMA PutPools ==
  ASSUME XInv, NEW c \in Conns, rl[c] # "none", putIdleConn(c), CanPool(c)
  PROVE  Pooled(c)' /\ broken' = broken
<1>1. PICK k \in Keys : k = ckey[c]
  BY Parts DEF KeysKnown
<1>2. PICK s \in Seq(Conns) : s = idle[k]
  BY <1>1, Parts DEF Typed
<1>3. /\ Len(s) \in Nat /\ Len(Append(s, c)) = Len(s) + 1 /\ Append(s, c)[Len(s) + 1] = c
  BY <1>2
<1>4. idle'[k] = Append(s, c)
  BY <1>1, <1>2, Parts DEF putIdleConn, Typed
<1>5. Len(s) + 1 \in 1..Len(idle'[k]) /\ idle'[k][Len(s) + 1] = c
  BY <1>3, <1>4
<1> QED
  BY <1>5 DEF Pooled, putIdleConn

\* The one who has a connection puts it back, or it comes to its end.
LEMMA Returns ==
  ASSUME XInv, XInv', NEW c \in Conns, NEW u \in Callers, UNCHANGED ckey,
         putIdleConn(c), Holds(u, c), rl[c] \notin {"none", "dead", "fnsend"}, rl'[c] # "none",
         CanPool(c) => rl'[c] \notin {"dead", "fnsend"} /\ \A v \in Callers : ~Holds(v, c)',
         \A d \in Conns \ {c} : rl'[d] = rl[d] /\ \A v \in Callers : Holds(v, d)' <=> Holds(v, d)
  PROVE  [Pool!Next]_Pool!vars
<1>1. \A d \in Conns \ {c} : (Pooled(d)' <=> Pooled(d)) /\ broken'[d] = broken[d]
  BY Put
<1>2. \A d \in Conns \ {c} : Whereabouts(d)' = Whereabouts(d)
  BY <1>1, Kept DEF Live
<1>3. CASE CanPool(c)
  <2>1. Pooled(c)' /\ broken' = broken /\ ~broken[c]
    BY <1>3, PutPools DEF CanPool
  <2>2. Live(c) /\ Live(c)'
    BY <1>3, <2>1 DEF Live
  <2>3. Whereabouts(c) = u /\ Whereabouts(c)' = "pool"
    BY <1>3, <2>1, <2>2, AtNow, AtNext
  <2>4. Pool!Give(c)
    <3>1. [d \in Conns |-> Whereabouts(d)][c] \in Callers
      BY <2>3
    <3>2. Cardinality(Pool!InPool(ckey[c])) < (IF PoolingOff THEN 0 ELSE MaxIdle)
      BY <1>3, RoomLeft
    <3>3. [d \in Conns |-> Whereabouts(d)]' = [[d \in Conns |-> Whereabouts(d)] EXCEPT ![c] = "pool"]
      BY <1>2, <2>3, OneMoves
    <3> QED
      BY <3>1, <3>2, <3>3, SameCardinality DEF Pool!Give
  <2> QED
    BY <2>4 DEF Pool!Next
<1>4. CASE ~CanPool(c)
  <2>1. broken'[c]
    BY <1>4, Put
  <2>2. Whereabouts(c)' = "gone"
    BY <2>1, AtNext DEF Live
  <2> QED
    BY <1>2, <2>2, Loses
<1> QED
  BY <1>3, <1>4

\* Steps that move no connection: what is usable, who has it and what is pooled
\* stay as they are.
LEMMA QuietStep ==
  ASSUME XInv, XInv', UNCHANGED <<idle, ckey>>,
         \A c \in Conns : /\ rl'[c] = "none" <=> rl[c] = "none"
                          /\ Live(c)' <=> Live(c)
                          /\ \A u \in Callers : Holds(u, c)' <=> Holds(u, c)
  PROVE  UNCHANGED Pool!vars
<1>1. \A c : Pooled(c)' <=> Pooled(c)
  BY DEF Pooled
<1>2. \A c \in Conns : Whereabouts(c)' = Whereabouts(c)
  BY <1>1, Kept
<1> QED
  BY <1>2, NoneMoves

\* A step of u that keeps what u has, or the nothing it has.
LEMMA KeepsWhatItHas ==
  ASSUME NEW u \in Callers,
         \A v \in Callers \ {u} : pc'[v] = pc[v] /\ conn'[v] = conn[v] /\ ans'[v] = ans[v],
         \A c \in Conns : Holds(u, c)' <=> Holds(u, c)
  PROVE  \A v \in Callers : \A c \in Conns : Holds(v, c)' <=> Holds(v, c)
<1>1. ASSUME NEW v \in Callers \ {u}, NEW c \in Conns PROVE Holds(v, c)' <=> Holds(v, c)
  BY <1>1 DEF Holds
<1> QED
  BY <1>1

\* getIdleConn takes a connection out of the pool; what it drops is marked.
LEMMA HitRefines ==
  ASSUME XInv, XInv', NEW u \in Callers, NEW k \in Keys, getIdleConnHit(u, k)
  PROVE  [Pool!Next]_Pool!vars
<1>0. Typed /\ PoolBounded
  BY Parts
<1>1. PICK i \in Usable(k) : /\ \A j \in Usable(k) : j <= i
                             /\ conn' = [conn EXCEPT ![u] = idle[k][i]]
                             /\ idle' = [idle EXCEPT ![k] = SubSeq(@, 1, i - 1)]
  BY DEF getIdleConnHit
<1>2. /\ pc[u] = "idle" /\ pc' = [pc EXCEPT ![u] = "have"]
      /\ UNCHANGED <<ckey, broken, rl, ans>>
  BY DEF getIdleConnHit, connVars, loopVars
<1>a. i \in 1..Len(idle[k]) /\ idle[k] \in Seq(Conns) /\ ~broken[idle[k][i]]
  BY <1>0, <1>1 DEF Usable, Typed
<1>c. PICK c \in Conns : c = idle[k][i]
  BY <1>a
<1>3. Pooled(c) /\ ~broken[c]
  BY <1>a, <1>c DEF Pooled
<1>4. /\ Len(SubSeq(idle[k], 1, i - 1)) = i - 1
      /\ \A j \in 1..(i - 1) : SubSeq(idle[k], 1, i - 1)[j] = idle[k][j]
  BY <1>a
<1>5. /\ idle'[k] = SubSeq(idle[k], 1, i - 1)
      /\ \A q \in Keys : q # k => idle'[q] = idle[q]
  BY <1>0, <1>1 DEF Typed
<1>6. \A q \in Keys : \A j \in 1..Len(idle'[q]) :
        j \in 1..Len(idle[q]) /\ idle'[q][j] = idle[q][j]
  BY <1>a, <1>4, <1>5
<1>7. \A d \in Conns : Pooled(d)' => Pooled(d)
  BY <1>6 DEF Pooled
<1>8. ASSUME NEW d \in Conns \ {c}, Pooled(d), ~broken[d] PROVE Pooled(d)'
  <2>0. PICK q \in Keys : \E j \in 1..Len(idle[q]) : idle[q][j] = d
    BY <1>8 DEF Pooled
  <2>1. PICK j \in 1..Len(idle[q]) : idle[q][j] = d
    BY <2>0
  <2>2. CASE q # k
    BY <1>5, <2>1, <2>2 DEF Pooled
  <2>3. CASE q = k
    <3>1. j \in Usable(k)
      BY <1>8, <2>1, <2>3 DEF Usable
    <3>2. j <= i /\ j # i
      BY <1>1, <1>8, <1>c, <2>1, <2>3, <3>1
    <3>3. j \in 1..(i - 1)
      BY <1>a, <2>1, <2>3, <3>2
    <3>4. j \in 1..Len(idle'[k]) /\ idle'[k][j] = d
      BY <1>4, <1>5, <2>1, <2>3, <3>3
    <3> QED
      BY <3>4 DEF Pooled
  <2> QED
    BY <2>2, <2>3
<1>9. \A v \in Callers \ {u} : pc'[v] = pc[v] /\ conn'[v] = conn[v] /\ ans'[v] = ans[v]
  BY <1>0, <1>1, <1>2 DEF Typed
<1>10. /\ pc'[u] = "have" /\ conn'[u] = c
       /\ \A d \in Conns : ~Holds(u, d)
  BY <1>0, <1>1, <1>2, <1>c DEF Typed, Holds
<1>11. Holds(u, c)' /\ \A d \in Conns \ {c} : ~Holds(u, d)'
  BY <1>10 DEF Holds
<1>12. ASSUME NEW v \in Callers \ {u}, NEW d \in Conns PROVE Holds(v, d)' <=> Holds(v, d)
  BY <1>9, <1>12 DEF Holds
<1>13. \A d \in Conns : Live(d)' <=> Live(d)
  BY <1>2 DEF Live
<1>14. ASSUME NEW d \in Conns \ {c} PROVE Whereabouts(d)' = Whereabouts(d)
  <2>1. \A v \in Callers : Holds(v, d)' <=> Holds(v, d)
    BY <1>10, <1>11, <1>12
  <2>2. Live(d) => (Pooled(d)' <=> Pooled(d))
    BY <1>7, <1>8 DEF Live
  <2> QED
    BY <1>2, <1>13, <2>1, <2>2, Kept
<1>15. CASE Live(c)
  <2>1. \A v \in Callers : ~Holds(v, c)
    BY <1>3, <1>15, Parts DEF Good, OneHolder, Live
  <2>2. Whereabouts(c) = "pool" /\ Whereabouts(c)' = u
    BY <1>3, <1>11, <1>13, <1>15, <2>1, AtNow, AtNext
  <2>3. Pool!Take(u, c)
    <3>1. [d \in Conns |-> Whereabouts(d)]' = [[d \in Conns |-> Whereabouts(d)] EXCEPT ![c] = u]
      BY <1>14, <2>2, OneMoves
    <3> QED
      BY <1>2, <2>2, <3>1 DEF Pool!Take
  <2> QED
    BY <2>3 DEF Pool!Next
<1>16. CASE ~Live(c)
  <2>1. Whereabouts(c)' = Whereabouts(c)
    BY <1>2, <1>13, <1>16, Kept
  <2> QED
    BY <1>2, <1>14, <2>1, NoneMoves
<1> QED
  BY <1>15, <1>16

\* A miss drops marked connections only.
LEMMA MissRefines ==
  ASSUME XInv, XInv', NEW u \in Callers, NEW k \in Keys, getIdleConnMiss(u, k)
  PROVE  [Pool!Next]_Pool!vars
<1>0. Typed
  BY Parts
<1>1. /\ pc[u] = "idle" /\ pc' = [pc EXCEPT ![u] = "dialing"]
      /\ UNCHANGED <<ckey, broken, rl, conn, ans>> /\ Usable(k) = {}
      /\ idle' = [idle EXCEPT ![k] = <<>>]
  BY DEF getIdleConnMiss, connVars, loopVars
<1>2. idle'[k] = <<>> /\ \A q \in Keys : q # k => idle'[q] = idle[q]
  BY <1>0, <1>1 DEF Typed
<1>3. ASSUME NEW d \in Conns, ~broken[d] PROVE Pooled(d)' <=> Pooled(d)
  <2>1. \A j \in 1..Len(idle[k]) : idle[k][j] # d
    BY <1>1, <1>3 DEF Usable
  <2>2. \A j \in 1..Len(idle'[k]) : idle'[k][j] # d
    BY <1>2
  <2> QED
    BY <1>2, <2>1, <2>2 DEF Pooled
<1>4. \A v \in Callers \ {u} : pc'[v] = pc[v] /\ conn'[v] = conn[v] /\ ans'[v] = ans[v]
  BY <1>0, <1>1 DEF Typed
<1>5. \A d \in Conns : Holds(u, d)' <=> Holds(u, d)
  BY <1>0, <1>1 DEF Typed, Holds
<1>6. \A v \in Callers : \A d \in Conns : Holds(v, d)' <=> Holds(v, d)
  BY <1>4, <1>5, KeepsWhatItHas
<1>7. \A d \in Conns : Whereabouts(d)' = Whereabouts(d)
  BY <1>1, <1>3, <1>6, Kept DEF Live
<1> QED
  BY <1>1, <1>7, NoneMoves

\* A dialed connection is new, and goes to the one who dialed it.
LEMMA DialRefines ==
  ASSUME XInv, XInv', Fresh, NEW u \in Callers, NEW c \in Conns, dialConn(u, c)
  PROVE  [Pool!Next]_Pool!vars
<1>0. Typed /\ CallersDialed /\ PoolDialed
  BY Parts
<1>1. /\ pc[u] = "dialing" /\ rl[c] = "none" /\ tgt[u] \in Keys
      /\ rl' = [rl EXCEPT ![c] = "peek"] /\ conn' = [conn EXCEPT ![u] = c]
      /\ pc' = [pc EXCEPT ![u] = "have"]
      /\ ckey' = [ckey EXCEPT ![c] = tgt[u]]
      /\ UNCHANGED <<idle, broken, ans>>
  BY <1>0 DEF dialConn, CallersDialed
<1>2. rl'[c] = "peek" /\ \A d \in Conns \ {c} : rl'[d] = rl[d]
  BY <1>0, <1>1 DEF Typed
<1>3. \A v \in Callers \ {u} : pc'[v] = pc[v] /\ conn'[v] = conn[v] /\ ans'[v] = ans[v]
  BY <1>0, <1>1 DEF Typed
<1>4. /\ Holds(u, c)' /\ \A d \in Conns : ~Holds(u, d)
      /\ \A d \in Conns \ {c} : ~Holds(u, d)'
  BY <1>0, <1>1 DEF Typed, Holds
<1>5. ASSUME NEW v \in Callers \ {u}, NEW d \in Conns PROVE Holds(v, d)' <=> Holds(v, d)
  BY <1>3, <1>5 DEF Holds
<1>6. \A d : Pooled(d)' <=> Pooled(d)
  BY <1>1 DEF Pooled
<1>7. ASSUME NEW d \in Conns \ {c} PROVE Whereabouts(d)' = Whereabouts(d)
  <2>1. \A v \in Callers : Holds(v, d)' <=> Holds(v, d)
    BY <1>4, <1>5
  <2>2. Live(d)' <=> Live(d)
    BY <1>1, <1>2 DEF Live
  <2> QED
    BY <1>2, <1>6, <2>1, <2>2, Kept
<1>8. Live(c)'
  BY <1>1, <1>2 DEF Live, Fresh
<1>9. Whereabouts(c) = "new" /\ Whereabouts(c)' = u
  BY <1>1, <1>4, <1>8, AtNow, AtNext
<1>10. Pool!Dial(u, c, tgt[u])
  <2>1. [d \in Conns |-> Whereabouts(d)]' = [[d \in Conns |-> Whereabouts(d)] EXCEPT ![c] = u]
    BY <1>7, <1>9, OneMoves
  <2> QED
    BY <1>1, <1>9, <2>1 DEF Pool!Dial
<1> QED
  BY <1>1, <1>10 DEF Pool!Next

\* The steps of a caller that has taken or dialed a connection.
LEMMA CallerRefines ==
  ASSUME XInv, XInv', Fresh, NEW u \in Callers, CallerStep(u)
  PROVE  [Pool!Next]_Pool!vars
<1>0. Typed /\ Shapes /\ CallersDialed /\ AnswerAwaited /\ \A c \in Conns : Good(c)
  BY Parts
<1>1. ASSUME NEW c \in Conns, dialConn(u, c) PROVE [Pool!Next]_Pool!vars
  BY <1>1, DialRefines
<1>2. CASE \/ dialFails(u) \/ expectResponse(u) \/ writeRequest(u) \/ queueRequest(u)
           \/ returnResponse(u) \/ (\E how \in BodyEnds : finishBody(u, how))
           \/ fnSend(u) \/ clearFn(u)
  <2>1. UNCHANGED <<idle, ckey, broken>>
    BY <1>2 DEF dialFails, expectResponse, writeRequest, queueRequest, returnResponse, finishBody,
                fnSend, clearFn, connVars
  <2>2. \A v \in Callers \ {u} : pc'[v] = pc[v] /\ conn'[v] = conn[v] /\ ans'[v] = ans[v]
    BY <1>0, <1>2 DEF Typed, Shapes, dialFails, expectResponse, writeRequest, queueRequest,
                      returnResponse, finishBody, fnSend, clearFn, return
  <2>3. \A c \in Conns : Holds(u, c)' <=> Holds(u, c)
    <3>1. CASE dialFails(u) \/ fnSend(u) \/ clearFn(u)
      <4>1. pc[u] \in {"dialing", "fnsend", "clear"} /\ pc'[u] \in {"idle", "clear"}
        BY <1>0, <3>1 DEF Typed, dialFails, fnSend, clearFn, return
      <4> QED
        BY <4>1 DEF Holds
    <3>2. CASE expectResponse(u) \/ writeRequest(u) \/ \E how \in BodyEnds : finishBody(u, how)
      <4>1. /\ pc[u] \in {"have", "counted", "body"} /\ pc'[u] \in {"counted", "written", "fnput"}
            /\ conn' = conn
        BY <1>0, <3>2 DEF Typed, expectResponse, writeRequest, finishBody
      <4> QED
        BY <4>1 DEF Holds
    <3>3. CASE queueRequest(u)
      <4>1. pc[u] = "written" /\ pc'[u] = "wait" /\ conn' = conn /\ ans'[u] = "none"
        BY <1>0, <3>3 DEF Typed, queueRequest, AnswerAwaited
      <4> QED
        BY <4>1 DEF Holds
    <3>4. CASE returnResponse(u)
      <4>1. /\ pc[u] = "wait" /\ ans[u] # "none"
            /\ ans[u] = "body" => pc'[u] = "body" /\ conn' = conn
            /\ ans[u] # "body" => pc'[u] = "idle"
        BY <1>0, <3>4 DEF Typed, returnResponse, return
      <4> QED
        BY <4>1 DEF Holds
    <3> QED
      BY <1>2, <3>1, <3>2, <3>3, <3>4
  <2>4. \A v \in Callers : \A c \in Conns : Holds(v, c)' <=> Holds(v, c)
    BY <2>2, <2>3, KeepsWhatItHas
  <2>5. \A c \in Conns : (rl'[c] = "none" <=> rl[c] = "none") /\ (Live(c)' <=> Live(c))
    <3>1. CASE fnSend(u)
      <4>1. PICK c \in Conns : c = conn[u]
        BY <1>0, <3>1 DEF fnSend, CallersDialed
      <4>2. rl[c] = "waitbody" /\ rl' = [rl EXCEPT ![c] = IF alive[c] THEN "peek" ELSE "dead"]
        BY <3>1, <4>1 DEF fnSend
      <4>3. ~alive[c] => broken[c]
        BY <1>0, <4>2 DEF Good, EndsUnpooled
      <4>4. /\ rl'[c] = IF alive[c] THEN "peek" ELSE "dead"
            /\ \A d \in Conns \ {c} : rl'[d] = rl[d]
        BY <1>0, <4>2 DEF Typed
      <4> QED
        BY <2>1, <4>2, <4>3, <4>4 DEF Live
    <3>2. CASE ~fnSend(u)
      <4>1. rl' = rl
        BY <1>2, <3>2 DEF dialFails, expectResponse, writeRequest, queueRequest, returnResponse,
                          finishBody, clearFn, loopVars
      <4> QED
        BY <2>1, <4>1 DEF Live
    <3> QED
      BY <3>1, <3>2
  <2> QED
    BY <2>1, <2>4, <2>5, QuietStep
<1>3. CASE writeFails(u) \/ abandonBody(u)
  <2>1. PICK c \in Conns : c = conn[u] /\ rl[c] # "none"
    BY <1>0, <1>3 DEF writeFails, abandonBody, CallersDialed
  <2>2. /\ UNCHANGED <<idle, ckey, rl, ans>> /\ pc[u] \in {"counted", "body"} /\ pc'[u] = "idle"
        /\ broken' = broken \/ broken' = [broken EXCEPT ![c] = TRUE]
        /\ \A v \in Callers \ {u} : pc'[v] = pc[v] /\ conn'[v] = conn[v] /\ ans'[v] = ans[v]
    BY <1>0, <1>3, <2>1 DEF Typed, writeFails, abandonBody, return, connVars, loopVars
  <2>3. Holds(u, c) /\ (\A d \in Conns : ~Holds(u, d)') /\ \A d \in Conns \ {c} : ~Holds(u, d)
    BY <2>1, <2>2 DEF Holds
  <2>4. ASSUME NEW v \in Callers \ {u}, NEW d \in Conns PROVE Holds(v, d)' <=> Holds(v, d)
    BY <2>2, <2>4 DEF Holds
  <2>5. \A d : Pooled(d)' <=> Pooled(d)
    BY <2>2 DEF Pooled
  <2>6. ASSUME NEW d \in Conns \ {c} PROVE Whereabouts(d)' = Whereabouts(d)
    <3>1. \A v \in Callers : Holds(v, d)' <=> Holds(v, d)
      BY <2>3, <2>4
    <3>2. Live(d)' <=> Live(d)
      BY <1>0, <2>2 DEF Live, Shapes
    <3> QED
      BY <2>2, <2>5, <3>1, <3>2, Kept
  <2>7. Whereabouts(c)' = "gone"
    <3>1. Live(c)' => Live(c)
      BY <1>0, <2>2 DEF Live, Shapes
    <3>2. ASSUME Live(c) PROVE ~Pooled(c)' /\ \A v \in Callers : ~Holds(v, c)'
      <4>1. OneHolder(c)
        BY <1>0, <3>2 DEF Good, Live
      <4> QED
        BY <2>3, <2>4, <2>5, <4>1 DEF OneHolder
    <3> QED
      BY <2>1, <2>2, <3>1, <3>2, AtNext
  <2> QED
    BY <2>1, <2>2, <2>6, <2>7, Loses
<1>4. CASE fnPut(u)
  <2>1. PICK c \in Conns : c = conn[u] /\ rl[c] # "none"
    BY <1>0, <1>4 DEF fnPut, CallersDialed
  <2>2. /\ putIdleConn(c) /\ UNCHANGED <<ckey, rl, conn, ans>>
        /\ pc[u] = "fnput" /\ pc'[u] = "fnsend"
        /\ \A v \in Callers \ {u} : pc'[v] = pc[v]
    BY <1>0, <1>4, <2>1 DEF fnPut, Typed
  <2>3. Ends(u, c) /\ Holds(u, c) /\ \A d \in Conns : ~Holds(u, d)'
    BY <2>1, <2>2 DEF Ends, Holds
  <2>4. rl[c] = "waitbody"
    BY <1>0, <2>3 DEF Good, BodyAwaited
  <2>5. ASSUME NEW v \in Callers \ {u}, NEW d \in Conns PROVE Holds(v, d)' <=> Holds(v, d)
    BY <2>2, <2>5 DEF Holds
  <2>6. \A v \in Callers \ {u} : ~Holds(v, c)
    BY <1>0, <2>3, <2>4 DEF Good, OneHolder
  <2>7. \A d \in Conns \ {c} : ~Holds(u, d)
    BY <2>1 DEF Holds
  <2>8. \A v \in Callers : ~Holds(v, c)'
    BY <2>3, <2>5, <2>6
  <2>9. \A d \in Conns \ {c} : rl'[d] = rl[d] /\ \A v \in Callers : Holds(v, d)' <=> Holds(v, d)
    BY <2>2, <2>3, <2>5, <2>7
  <2> QED
    BY <2>2, <2>3, <2>4, <2>8, <2>9, Returns
<1> QED
  BY <1>1, <1>2, <1>3, <1>4 DEF CallerStep

\* CloseIdleConnections ends what is in the pool and nothing else.
LEMMA CloseRefines ==
  ASSUME XInv, XInv', CloseIdleConnections
  PROVE  [Pool!Next]_Pool!vars
<1>0. Typed /\ Shapes /\ PoolDialed /\ \A c \in Conns : Good(c)
  BY Parts
<1>1. /\ UNCHANGED <<ckey, rl, pc, conn, ans>>
      /\ \A d \in Conns : broken'[d] = (broken[d] \/ Pooled(d))
  BY DEF CloseIdleConnections, loopVars, callerVars
<1>2. \A d \in Conns : ~Pooled(d)'
  BY DEF CloseIdleConnections, Pooled
<1>3. \A v, d : Holds(v, d)' <=> Holds(v, d)
  BY <1>1 DEF Holds
<1>4. ASSUME NEW d \in Conns
      PROVE  Whereabouts(d)' = IF Whereabouts(d) = "pool" THEN "gone" ELSE Whereabouts(d)
  <2>1. CASE Whereabouts(d) = "pool"
    <3>1. Live(d) /\ Pooled(d)
      BY <2>1, InPoolNow
    <3>2. ~Live(d)' /\ rl'[d] # "none"
      BY <1>1, <3>1 DEF Live
    <3> QED
      BY <2>1, <3>2, AtNext
  <2>2. CASE Whereabouts(d) # "pool" /\ Live(d)
    <3>1. ~Pooled(d)
      BY <1>0, <2>2, AtNow DEF Good, OneHolder, Live
    <3>2. Live(d)'
      BY <1>1, <2>2, <3>1 DEF Live
    <3> QED
      BY <1>1, <1>2, <1>3, <2>2, <3>1, <3>2, Kept
  <2>3. CASE Whereabouts(d) # "pool" /\ ~Live(d)
    <3>1. ~Live(d)'
      BY <1>1, <2>3 DEF Live
    <3> QED
      BY <1>1, <2>3, <3>1, Kept
  <2> QED
    BY <2>1, <2>2, <2>3
<1>5. Pool!CloseIdle
  BY <1>1, <1>4 DEF Pool!CloseIdle
<1> QED
  BY <1>5 DEF Pool!Next

\* A connection that comes to its end in a step of its readLoop.
LEMMA LoopLoses ==
  ASSUME XInv, XInv', NEW c \in Conns, UNCHANGED ckey, rl[c] # "none",
         rl'[c] \in {"dead", "fnsend"},
         \A d \in Conns \ {c} : /\ rl'[d] = rl[d] /\ broken'[d] = broken[d]
                                /\ Pooled(d)' <=> Pooled(d)
                                /\ \A v \in Callers : Holds(v, d)' <=> Holds(v, d)
  PROVE  [Pool!Next]_Pool!vars
<1>1. \A d \in Conns \ {c} : Whereabouts(d)' = Whereabouts(d)
  BY Kept DEF Live
<1>2. Whereabouts(c)' = "gone"
  BY AtNext DEF Live
<1> QED
  BY <1>1, <1>2, Loses

\* The readLoop's steps but for the answer.
LEMMA LoopRefines ==
  ASSUME XInv, XInv', NEW c \in Conns, peek(c) \/ recvRequest(c) \/ closeLastBody(c)
  PROVE  [Pool!Next]_Pool!vars
<1>0. Typed /\ Shapes
  BY Parts
<1>1. UNCHANGED <<ckey, pc, conn, ans>>
  BY DEF peek, recvRequest, closeLastBody, callerVars
<1>2. \A v, d : Holds(v, d)' <=> Holds(v, d)
  BY <1>1 DEF Holds
<1>3. CASE \E p \in {"recv", "fnput", "read"} :
             UNCHANGED <<idle, broken>> /\ rl[c] \in {"peek", "recv", "fnput"}
             /\ rl' = [rl EXCEPT ![c] = p]
  <2>1. \A d \in Conns : (rl'[d] = "none" <=> rl[d] = "none") /\ (Live(d)' <=> Live(d))
    BY <1>0, <1>3 DEF Typed, Live
  <2> QED
    BY <1>1, <1>2, <1>3, <2>1, QuietStep
<1>4. CASE /\ UNCHANGED idle /\ rl[c] = "peek" /\ rl' = [rl EXCEPT ![c] = "dead"]
           /\ broken' = [broken EXCEPT ![c] = TRUE]
  <2>1. /\ rl'[c] = "dead"
        /\ \A d \in Conns \ {c} : rl'[d] = rl[d] /\ broken'[d] = broken[d]
    BY <1>0, <1>4 DEF Typed, Shapes
  <2>2. \A d : Pooled(d)' <=> Pooled(d)
    BY <1>4 DEF Pooled
  <2> QED
    BY <1>1, <1>2, <1>4, <2>1, <2>2, LoopLoses
<1>5. CASE putIdleConn(c) /\ rl[c] = "fnput" /\ rl' = [rl EXCEPT ![c] = "fnsend"]
  <2>1. rl'[c] = "fnsend" /\ \A d \in Conns \ {c} : rl'[d] = rl[d]
    BY <1>0, <1>5 DEF Typed
  <2>2. \A d \in Conns \ {c} : (Pooled(d)' <=> Pooled(d)) /\ broken'[d] = broken[d]
    BY <1>5, Put
  <2> QED
    BY <1>1, <1>2, <1>5, <2>1, <2>2, LoopLoses
<1>6. CASE peek(c)
  BY <1>3, <1>4, <1>6 DEF peek
<1>7. CASE recvRequest(c)
  BY <1>3, <1>7 DEF recvRequest
<1>8. CASE closeLastBody(c)
  BY <1>3, <1>5, <1>8 DEF closeLastBody
<1> QED
  BY <1>6, <1>7, <1>8

\* The readLoop answers: the caller gets its body with the connection, or the
\* connection goes back to the pool or comes to its end.
LEMMA AnswerRefines ==
  ASSUME XInv, XInv', NEW c \in Conns, NEW kind \in Kinds, readResponse(c, kind)
  PROVE  [Pool!Next]_Pool!vars
<1>0. Typed /\ Shapes /\ Good(c)
  BY Parts
<1>1. rl[c] = "read" /\ UNCHANGED <<ckey, pc, conn>>
  BY DEF readResponse
<1>2. OneHolder(c) /\ QueueAwaited(c)
  BY <1>0, <1>1 DEF Good
<1>3. PICK u \in Callers : u = cur[c] /\ Waits(u, c)
  BY <1>1, <1>2 DEF QueueAwaited
<1>4. /\ pc[u] = "wait" /\ pc'[u] = "wait" /\ conn[u] = c /\ conn'[u] = c /\ ans'[u] = kind
      /\ \A v \in Callers \ {u} : pc'[v] = pc[v] /\ conn'[v] = conn[v] /\ ans'[v] = ans[v]
  BY <1>0, <1>1, <1>3 DEF Shapes, Waits, readResponse
<1>5. Holds(u, c) /\ \A v \in Callers \ {u} : ~Holds(v, c)
  BY <1>2, <1>3 DEF Waits, Holds, OneHolder
<1>6. ASSUME NEW v \in Callers, NEW d \in Conns, v # u \/ d # c
      PROVE Holds(v, d)' <=> Holds(v, d)
  BY <1>4, <1>6 DEF Holds
<1>7. CASE kind = "body"
  <2>1. rl' = [rl EXCEPT ![c] = "waitbody"] /\ UNCHANGED <<idle, broken>>
    BY <1>7 DEF readResponse
  <2>2. Holds(u, c)'
    BY <1>4, <1>7 DEF Holds
  <2>3. \A v \in Callers : \A d \in Conns : Holds(v, d)' <=> Holds(v, d)
    BY <1>5, <1>6, <2>2
  <2>4. \A d \in Conns : (rl'[d] = "none" <=> rl[d] = "none") /\ (Live(d)' <=> Live(d))
    BY <1>0, <1>1, <2>1 DEF Typed, Live
  <2> QED
    BY <1>1, <2>1, <2>3, <2>4, QuietStep
<1>8. CASE kind = "empty"
  <2>1. putIdleConn(c) /\ rl' = [rl EXCEPT ![c] = IF CanPool(c) THEN "peek" ELSE "dead"]
    BY <1>8 DEF readResponse
  <2>2. /\ rl'[c] = IF CanPool(c) THEN "peek" ELSE "dead"
        /\ \A d \in Conns \ {c} : rl'[d] = rl[d]
    BY <1>0, <2>1 DEF Typed
  <2>3. \A v \in Callers : ~Holds(v, c)'
    BY <1>4, <1>5, <1>6, <1>8 DEF Holds
  <2> QED
    BY <1>1, <1>5, <1>6, <2>1, <2>2, <2>3, Returns
<1>9. CASE kind \in {"last", "bad"}
  <2>1. /\ broken' = [broken EXCEPT ![c] = @ \/ kind = "bad"]
        /\ rl' = [rl EXCEPT ![c] = "dead"]
        /\ idle' = idle
    BY <1>9 DEF readResponse
  <2>2. /\ rl'[c] = "dead"
        /\ \A d \in Conns \ {c} : rl'[d] = rl[d] /\ broken'[d] = broken[d]
    BY <1>0, <2>1 DEF Typed, Shapes
  <2>3. \A d : Pooled(d)' <=> Pooled(d)
    BY <2>1 DEF Pooled
  <2> QED
    BY <1>1, <1>6, <2>2, <2>3, LoopLoses
<1> QED
  BY <1>7, <1>8, <1>9 DEF Kinds

\* Only a dialed connection is marked, and none is undialed.
LEMMA StepFresh == ASSUME XInv, Fresh, [Next]_vars PROVE Fresh'
<1>0. Typed /\ Shapes /\ CallersDialed /\ PoolDialed
  BY Parts
<1> DEFINE Marks == \A d \in Conns : broken'[d] /\ ~broken[d] => rl[d] # "none"
           Stays == \A d \in Conns : rl'[d] = "none" => rl[d] = "none"
<1> SUFFICES Marks /\ Stays
  BY DEF Fresh
<1>1. ASSUME NEW c \in Conns, rl[c] # "none", putIdleConn(c) PROVE Marks
  BY <1>0, <1>1 DEF putIdleConn, Shapes
<1>2. ASSUME NEW u \in Callers, NEW k \in Keys, getIdleConnHit(u, k) \/ getIdleConnMiss(u, k)
      PROVE Marks /\ Stays
  BY <1>2 DEF getIdleConnHit, getIdleConnMiss, connVars, loopVars
<1>3. ASSUME NEW u \in Callers, CallerStep(u) PROVE Marks /\ Stays
  <2>1. CASE \/ dialFails(u) \/ expectResponse(u) \/ writeRequest(u) \/ queueRequest(u)
             \/ returnResponse(u) \/ (\E how \in BodyEnds : finishBody(u, how))
             \/ abandonBody(u) \/ clearFn(u)
    BY <2>1 DEF dialFails, expectResponse, writeRequest, queueRequest, returnResponse, finishBody,
                abandonBody, clearFn, connVars, loopVars
  <2>2. ASSUME NEW c \in Conns, dialConn(u, c) PROVE Marks /\ Stays
    BY <1>0, <2>2 DEF dialConn, Typed
  <2>3. CASE writeFails(u) \/ fnPut(u) \/ fnSend(u)
    <3>1. PICK c \in Conns : c = conn[u] /\ rl[c] # "none"
      BY <1>0, <2>3 DEF writeFails, fnPut, fnSend, CallersDialed
    <3>2. CASE writeFails(u)
      BY <1>0, <3>1, <3>2 DEF writeFails, loopVars, Shapes
    <3>3. CASE fnPut(u)
      <4>1. putIdleConn(c) /\ rl' = rl
        BY <3>1, <3>3 DEF fnPut
      <4> QED
        BY <1>1, <3>1, <4>1
    <3>4. CASE fnSend(u)
      BY <1>0, <3>1, <3>4 DEF fnSend, connVars, Typed
    <3> QED
      BY <2>3, <3>2, <3>3, <3>4
  <2> QED
    BY <1>3, <2>1, <2>2, <2>3 DEF CallerStep
<1>4. CASE CloseIdleConnections
  BY <1>0, <1>4 DEF CloseIdleConnections, loopVars, PoolDialed, Pooled
<1>5. ASSUME NEW c \in Conns, ReadLoopStep(c) PROVE Marks /\ Stays
  <2>1. /\ rl[c] # "none"
        /\ \E p \in ReadLoopAt \ {"none"} : rl' = [rl EXCEPT ![c] = p]
        /\ \/ broken' = broken \/ putIdleConn(c)
           \/ \E b \in BOOLEAN : broken' = [broken EXCEPT ![c] = @ \/ b]
    <3>1. CASE peek(c)
      BY <1>0, <3>1 DEF peek, ReadLoopAt, Shapes
    <3>2. CASE recvRequest(c)
      BY <3>2 DEF recvRequest, ReadLoopAt
    <3>3. CASE closeLastBody(c)
      BY <3>3 DEF closeLastBody, ReadLoopAt
    <3>4. ASSUME NEW kind \in Kinds, readResponse(c, kind)
          PROVE  /\ rl[c] # "none"
                 /\ \E p \in ReadLoopAt \ {"none"} : rl' = [rl EXCEPT ![c] = p]
                 /\ \/ broken' = broken \/ putIdleConn(c)
                    \/ \E b \in BOOLEAN : broken' = [broken EXCEPT ![c] = @ \/ b]
      BY <3>4 DEF readResponse, ReadLoopAt
    <3> QED
      BY <1>5, <3>1, <3>2, <3>3, <3>4 DEF ReadLoopStep
  <2>2. Stays
    BY <1>0, <2>1 DEF Typed
  <2>3. Marks
    BY <1>0, <1>1, <2>1 DEF Shapes
  <2> QED
    BY <2>2, <2>3
<1>6. CASE \/ \E c \in Conns : peerAnswers(c) \/ peerCloses(c)
           \/ UNCHANGED vars
  BY <1>6 DEF peerAnswers, peerCloses, vars, connVars, loopVars
<1> QED
  BY <1>2, <1>3, <1>4, <1>5, <1>6 DEF Next

\* Every step of the transport is a step of the pool, or none.
LEMMA StepRefines ==
  ASSUME XInv, XInv', Fresh, [Next]_vars
  PROVE  [Pool!Next]_Pool!vars
<1>1. ASSUME NEW u \in Callers, NEW k \in Keys, getIdleConnHit(u, k) \/ getIdleConnMiss(u, k)
      PROVE [Pool!Next]_Pool!vars
  BY <1>1, HitRefines, MissRefines
<1>2. ASSUME NEW u \in Callers, CallerStep(u) PROVE [Pool!Next]_Pool!vars
  BY <1>2, CallerRefines
<1>3. ASSUME CloseIdleConnections PROVE [Pool!Next]_Pool!vars
  BY <1>3, CloseRefines
<1>4. ASSUME NEW c \in Conns, ReadLoopStep(c) PROVE [Pool!Next]_Pool!vars
  <2>1. ASSUME NEW kind \in Kinds, readResponse(c, kind) PROVE [Pool!Next]_Pool!vars
    BY <2>1, AnswerRefines
  <2> QED
    BY <1>4, <2>1, LoopRefines DEF ReadLoopStep
<1>5. ASSUME \/ \E c \in Conns : peerAnswers(c) \/ peerCloses(c)
             \/ UNCHANGED vars
      PROVE [Pool!Next]_Pool!vars
  <2>1. UNCHANGED <<idle, ckey, broken, rl, pc, conn, ans>>
    BY <1>5 DEF peerAnswers, peerCloses, vars, connVars, loopVars, callerVars
  <2>2. \A v, d : Holds(v, d)' <=> Holds(v, d)
    BY <2>1 DEF Holds
  <2>3. \A d \in Conns : Live(d)' <=> Live(d)
    BY <2>1 DEF Live
  <2> QED
    BY <2>1, <2>2, <2>3, QuietStep
<1>6. ASSUME Next PROVE [Pool!Next]_Pool!vars
  BY <1>1, <1>2, <1>3, <1>4, <1>5, <1>6 DEF Next
<1> QED
  BY <1>5, <1>6

\* At the start every connection is new.
LEMMA InitRefines == Init => Pool!Init /\ Fresh
<1> SUFFICES ASSUME Init PROVE Pool!Init /\ Fresh
  OBVIOUS
<1>1. \A c \in Conns : rl[c] = "none"
  BY DEF Init
<1>2. \A c \in Conns : Whereabouts(c) = "new"
  BY <1>1, InitX, AtNow
<1>3. ckey = [c \in Conns |-> NoKey]
  BY DEF Init
<1>4. Fresh
  BY DEF Init, Fresh
<1> QED
  BY <1>2, <1>3, <1>4 DEF Pool!Init

\* The callers, the readLoops, the peer and CloseIdleConnections implement a pool
\* that lends a connection to one caller at a time, keeps at most its limit per
\* key, and never takes back what has come to its end.
THEOREM TransportImplementsPool == Spec => ImplementsConnPool
<1>1. Init => XInv
  BY InitX
<1>2. Init => Pool!Init /\ Fresh
  BY InitRefines
<1>3. XInv /\ [Next]_vars => XInv'
  BY StepX
<1>4. XInv /\ Fresh /\ [Next]_vars => Fresh'
  BY StepFresh
<1>5. XInv /\ XInv' /\ Fresh /\ [Next]_vars => [Pool!Next]_Pool!vars
  BY StepRefines
<1> QED
  BY <1>1, <1>2, <1>3, <1>4, <1>5, PTL DEF Spec, ImplementsConnPool, Pool!Spec
=============================================================================
