--------------------------- MODULE KeepAliveProofs ---------------------------
(***************************************************************************)
(* Proofs about the pool of KeepAliveTransport, for any callers,           *)
(* connections, keys and settings: it stays within its bound and holds     *)
(* each connection under its own key, a connection is with one caller or   *)
(* in the pool, and an answer goes to the caller whose request it answers. *)
(***************************************************************************)
EXTENDS KeepAliveTransport, SequenceTheorems, TLAPS

Typed ==
  /\ idle \in [Keys -> Seq(Conns)]
  /\ ckey \in [Conns -> Keys \cup {NoKey}]
  /\ rl \in [Conns -> ReadLoopAt]
  /\ pc \in [Callers -> CallerAt]
  /\ conn \in [Callers -> Conns \cup {NoConn}]
  /\ tgt \in [Callers -> Keys \cup {NoKey}]

\* Who dials knows for what, and a connection in use was dialed.
CallersDialed ==
  \A u \in Callers :
    /\ pc[u] = "dialing" => tgt[u] \in Keys
    /\ pc[u] \notin {"idle", "dialing"} => conn[u] \in Conns /\ rl[conn[u]] # "none"

\* A dialed connection has its key, and what is pooled was dialed.
KeysKnown == \A c \in Conns : rl[c] # "none" => ckey[c] \in Keys
PoolDialed == \A k \in Keys : \A i \in 1..Len(idle[k]) : rl[idle[k][i]] # "none"

Inv == Typed /\ CallersDialed /\ KeysKnown /\ PoolDialed /\ PoolBounded

\* What the pool may hold of one key.
Limit == IF PoolingOff THEN 0 ELSE MaxIdle

\* It is a number: a negative MaxIdleConnsPerHost turns the pool off.
LEMMA LimitNat == Limit \in Nat
  BY TransportAssumption DEF Limit, PoolingOff, MaxIdle, DefaultMaxIdleConnsPerHost

\* One key's part of the pool.
Fine(k, s) == /\ s \in Seq(Conns) /\ Len(s) <= Limit
              /\ \A i \in 1..Len(s) : ckey[s[i]] = k /\ rl[s[i]] # "none"

\* The pool's part of the invariant, key by key.
LEMMA PoolFine == idle \in [Keys -> Seq(Conns)] =>
                    (PoolDialed /\ PoolBounded <=> \A k \in Keys : Fine(k, idle[k]))
  BY Zenon DEF PoolDialed, PoolBounded, Fine, Limit

\* getIdleConn leaves the front of a key's pool, and that is fine.
LEMMA FineShorter ==
  ASSUME NEW k, NEW s \in Seq(Conns), Fine(k, s), NEW n \in 0..Len(s)
  PROVE  Fine(k, SubSeq(s, 1, n))
<1>1. /\ SubSeq(s, 1, n) \in Seq(Conns) /\ Len(SubSeq(s, 1, n)) = n
      /\ \A i \in 1..n : SubSeq(s, 1, n)[i] = s[i]
  OBVIOUS
<1> QED
  BY <1>1, LimitNat DEF Fine

\* CloseIdleConnections leaves nothing, and that is fine.
LEMMA FineEmpty == ASSUME NEW k PROVE Fine(k, <<>>)
  BY LimitNat DEF Fine

\* putIdleConn keeps the bound and files a connection under its own key.
LEMMA PutFine ==
  ASSUME Inv, NEW c \in Conns, rl[c] # "none", putIdleConn(c)
  PROVE  /\ idle' \in [Keys -> Seq(Conns)]
         /\ \A k \in Keys : Fine(k, idle'[k])
<1>0. idle \in [Keys -> Seq(Conns)] /\ ckey[c] \in Keys /\ \A k \in Keys : Fine(k, idle[k])
  BY PoolFine DEF Inv, Typed, KeysKnown
<1>1. CASE CanPool(c)
  <2>1. idle' = [idle EXCEPT ![ckey[c]] = Append(@, c)]
    BY <1>1 DEF putIdleConn
  <2>2. Len(idle[ckey[c]]) < Limit
    BY <1>1 DEF CanPool, Limit
  <2> DEFINE s == idle[ckey[c]]
  <2>3. s \in Seq(Conns) /\ Len(s) < Limit /\ Fine(ckey[c], s)
    BY <1>0, <2>2
  <2> HIDE DEF s
  <2>4. /\ Append(s, c) \in Seq(Conns) /\ Len(Append(s, c)) = Len(s) + 1
        /\ \A i \in 1..Len(s) : Append(s, c)[i] = s[i]
        /\ Append(s, c)[Len(s) + 1] = c
    BY <2>3
  <2>5. Fine(ckey[c], Append(s, c))
    BY <2>3, <2>4, LimitNat DEF Fine
  <2>6. idle' = [idle EXCEPT ![ckey[c]] = Append(s, c)]
    BY <2>1 DEF s
  <2> QED
    BY <1>0, <2>4, <2>5, <2>6
<1>2. CASE ~CanPool(c)
  BY <1>0, <1>2 DEF putIdleConn
<1> QED
  BY <1>1, <1>2

\* A step that files connections well, and lets no connection lose its key,
\* keeps the pool's part of the invariant.
LEMMA StillFine ==
  ASSUME idle' \in [Keys -> Seq(Conns)],
         \A k \in Keys : Fine(k, idle'[k]),
         \A c \in Conns : rl[c] # "none" => ckey'[c] = ckey[c] /\ rl'[c] # "none"
  PROVE  PoolDialed' /\ PoolBounded'
<1>1. ASSUME NEW k \in Keys
      PROVE  /\ Len(idle'[k]) <= Limit
             /\ \A i \in 1..Len(idle'[k]) : ckey'[idle'[k][i]] = k /\ rl'[idle'[k][i]] # "none"
  <2>1. Fine(k, idle'[k])
    OBVIOUS
  <2>2. ASSUME NEW i \in 1..Len(idle'[k]) PROVE idle'[k][i] \in Conns
    BY <2>1 DEF Fine
  <2> QED
    BY <2>1, <2>2 DEF Fine
<1> QED
  BY <1>1, Zenon DEF PoolDialed, PoolBounded, Limit

\* At the start nothing is dialed and nothing pooled.
LEMMA InitInv == Init => Inv
<1> SUFFICES ASSUME Init PROVE Inv
  OBVIOUS
<1>1. Typed
  BY DEF Init, Typed, ReadLoopAt, CallerAt
<1>2. CallersDialed /\ KeysKnown
  BY DEF Init, CallersDialed, KeysKnown
<1>3. \A k \in Keys : Fine(k, idle[k])
  BY FineEmpty DEF Init
<1> QED
  BY <1>1, <1>2, <1>3, PoolFine DEF Inv, Typed

\* Every step keeps the invariant.
LEMMA StepInv == Inv /\ [Next]_vars => Inv'
<1> SUFFICES ASSUME Inv, [Next]_vars PROVE Inv'
  OBVIOUS
<1> DEFINE Known == \A c \in Conns : rl[c] # "none" => ckey'[c] = ckey[c] /\ rl'[c] # "none"
           Filed == idle' \in [Keys -> Seq(Conns)] /\ \A k \in Keys : Fine(k, idle'[k])
           Users == /\ pc' \in [Callers -> CallerAt]
                    /\ conn' \in [Callers -> Conns \cup {NoConn}]
                    /\ tgt' \in [Callers -> Keys \cup {NoKey}]
                    /\ CallersDialed'
           Links == /\ ckey' \in [Conns -> Keys \cup {NoKey}]
                    /\ rl' \in [Conns -> ReadLoopAt]
                    /\ KeysKnown' /\ Known
<1>0. Typed /\ CallersDialed /\ KeysKnown /\ PoolDialed /\ PoolBounded
  BY DEF Inv
<1>1. \A k \in Keys : Fine(k, idle[k])
  BY <1>0, PoolFine DEF Typed
<1>2. SUFFICES Filed /\ Users /\ Links
  BY <1>2, StillFine DEF Inv, Typed
<1>f. UNCHANGED idle => Filed
  BY <1>0, <1>1 DEF Typed
<1>l. UNCHANGED <<ckey, rl>> => Links
  BY <1>0 DEF Typed, KeysKnown
<1>u. Known /\ UNCHANGED <<pc, conn, tgt>> => Users
  BY <1>0 DEF Typed, CallersDialed
<1> HIDE DEF Filed
<1>3. ASSUME NEW u \in Callers, NEW k \in Keys, getIdleConnHit(u, k) PROVE Filed /\ Users /\ Links
  <2>1. PICK i \in Usable(k) : /\ conn' = [conn EXCEPT ![u] = idle[k][i]]
                              /\ idle' = [idle EXCEPT ![k] = SubSeq(@, 1, i - 1)]
    BY <1>3 DEF getIdleConnHit
  <2>2. i \in 1..Len(idle[k]) /\ idle[k] \in Seq(Conns)
    BY <1>0, <2>1 DEF Usable, Typed
  <2>3. i - 1 \in 0..Len(idle[k])
    BY <2>2
  <2>4. Fine(k, SubSeq(idle[k], 1, i - 1))
    BY <1>1, <2>2, <2>3, FineShorter
  <2>5. Filed
    <3>1. SubSeq(idle[k], 1, i - 1) \in Seq(Conns)
      BY <2>4 DEF Fine
    <3> QED
      BY <1>0, <1>1, <2>1, <2>4, <3>1 DEF Filed, Typed
  <2>6. idle[k][i] \in Conns /\ rl[idle[k][i]] # "none"
    BY <1>0, <2>2 DEF PoolDialed
  <2>7. Links
    BY <1>3, <1>l DEF getIdleConnHit, connVars, loopVars
  <2>8. Users
    BY <1>0, <1>3, <2>1, <2>6 DEF getIdleConnHit, Typed, CallersDialed, CallerAt, loopVars
  <2> QED
    BY <2>5, <2>7, <2>8
<1>4. ASSUME NEW u \in Callers, NEW k \in Keys, getIdleConnMiss(u, k) PROVE Filed /\ Users /\ Links
  <2>1. Filed
    BY <1>0, <1>1, <1>4, FineEmpty DEF Filed, getIdleConnMiss, Typed
  <2>2. Links
    BY <1>4, <1>l DEF getIdleConnMiss, connVars, loopVars
  <2>3. Users
    BY <1>0, <1>4 DEF getIdleConnMiss, Typed, CallersDialed, CallerAt, loopVars
  <2> QED
    BY <2>1, <2>2, <2>3
<1>5. ASSUME NEW u \in Callers, CallerStep(u) PROVE Filed /\ Users /\ Links
  <2>1. ASSUME NEW c \in Conns, dialConn(u, c) PROVE Filed /\ Users /\ Links
    <3>1. Filed
      BY <2>1, <1>f DEF dialConn
    <3>2. tgt[u] \in Keys
      BY <1>0, <2>1 DEF dialConn, CallersDialed
    <3>3. Links
      BY <1>0, <2>1, <3>2 DEF dialConn, Typed, KeysKnown, ReadLoopAt
    <3>4. Users
      BY <1>0, <2>1, <3>3 DEF dialConn, Typed, CallersDialed, CallerAt
    <3> QED
      BY <3>1, <3>3, <3>4
  <2>2. CASE dialFails(u)
    <3>1. Filed /\ Links
      BY <2>2, <1>f, <1>l DEF dialFails, connVars, loopVars
    <3>2. Users
      BY <1>0, <2>2, <3>1 DEF dialFails, return, Typed, CallersDialed, CallerAt, loopVars
    <3> QED
      BY <3>1, <3>2
  <2>3. CASE expectResponse(u) \/ writeRequest(u) \/ queueRequest(u)
    <3>1. Filed /\ Links
      BY <2>3, <1>f, <1>l DEF expectResponse, writeRequest, queueRequest, connVars, loopVars
    <3>2. /\ UNCHANGED <<conn, tgt>> /\ pc[u] \notin {"idle", "dialing"}
          /\ \E p \in {"counted", "written", "wait"} : pc' = [pc EXCEPT ![u] = p]
      BY <2>3 DEF expectResponse, writeRequest, queueRequest
    <3>3. Users
      BY <1>0, <3>1, <3>2 DEF Typed, CallersDialed, CallerAt
    <3> QED
      BY <3>1, <3>3
  <2>4. CASE writeFails(u) \/ abandonBody(u)
    <3>1. Filed /\ Links
      BY <2>4, <1>f, <1>l DEF writeFails, abandonBody, connVars, loopVars
    <3>2. return(u)
      BY <2>4 DEF writeFails, abandonBody
    <3>3. Users
      BY <1>0, <3>1, <3>2 DEF return, Typed, CallersDialed, CallerAt
    <3> QED
      BY <3>1, <3>3
  <2>5. CASE returnResponse(u)
    <3>1. Filed /\ Links
      BY <2>5, <1>f, <1>l DEF returnResponse, loopVars
    <3>2. /\ pc[u] = "wait"
          /\ \/ return(u)
             \/ pc' = [pc EXCEPT ![u] = "body"] /\ UNCHANGED <<conn, tgt>>
      BY <2>5 DEF returnResponse
    <3>3. Users
      BY <1>0, <3>1, <3>2 DEF return, Typed, CallersDialed, CallerAt
    <3> QED
      BY <3>1, <3>3
  <2>6. ASSUME NEW how \in BodyEnds, finishBody(u, how) PROVE Filed /\ Users /\ Links
    <3>1. Filed /\ Links
      BY <2>6, <1>f, <1>l DEF finishBody, connVars, loopVars
    <3>2. Users
      BY <1>0, <2>6, <3>1 DEF finishBody, Typed, CallersDialed, CallerAt
    <3> QED
      BY <3>1, <3>2
  <2>7. CASE fnPut(u)
    <3>1. conn[u] \in Conns /\ rl[conn[u]] # "none"
      BY <1>0, <2>7 DEF fnPut, CallersDialed
    <3>2. Filed
      BY <2>7, <3>1, PutFine DEF fnPut, Filed
    <3>3. Links
      BY <2>7, <1>l DEF fnPut
    <3>4. Users
      BY <1>0, <2>7, <3>3 DEF fnPut, Typed, CallersDialed, CallerAt
    <3> QED
      BY <3>2, <3>3, <3>4
  <2>8. CASE fnSend(u)
    <3>1. conn[u] \in Conns /\ rl[conn[u]] # "none"
      BY <1>0, <2>8 DEF fnSend, CallersDialed
    <3>2. Filed
      BY <2>8, <1>f DEF fnSend
    <3>3. \E p \in {"peek", "dead"} : rl' = [rl EXCEPT ![conn[u]] = p]
      BY <2>8 DEF fnSend
    <3>4. Links
      BY <1>0, <2>8, <3>1, <3>3 DEF fnSend, connVars, Typed, KeysKnown, ReadLoopAt
    <3>5. Users
      BY <1>0, <2>8, <3>4 DEF fnSend, Typed, CallersDialed, CallerAt
    <3> QED
      BY <3>2, <3>4, <3>5
  <2>9. CASE clearFn(u)
    <3>1. Filed /\ Links
      BY <2>9, <1>f, <1>l DEF clearFn, connVars
    <3>2. Users
      BY <1>0, <2>9, <3>1 DEF clearFn, return, Typed, CallersDialed, CallerAt
    <3> QED
      BY <3>1, <3>2
  <2> QED
    BY <1>5, <2>1, <2>2, <2>3, <2>4, <2>5, <2>6, <2>7, <2>8, <2>9 DEF CallerStep
<1>6. CASE CloseIdleConnections
  <2>1. Filed
    BY <1>6, FineEmpty DEF CloseIdleConnections, Filed
  <2>2. Links /\ Users
    BY <1>6, <1>l, <1>u DEF CloseIdleConnections, loopVars, callerVars
  <2> QED
    BY <2>1, <2>2
<1>7. ASSUME NEW c \in Conns, ReadLoopStep(c) PROVE Filed /\ Users /\ Links
  <2>1. /\ UNCHANGED <<ckey, pc, conn, tgt>> /\ rl[c] # "none"
        /\ \E p \in ReadLoopAt \ {"none"} : rl' = [rl EXCEPT ![c] = p]
    <3>1. CASE peek(c)
      BY <3>1 DEF peek, callerVars, ReadLoopAt
    <3>2. CASE recvRequest(c)
      BY <3>2 DEF recvRequest, ReadLoopAt
    <3>3. CASE closeLastBody(c)
      BY <3>3 DEF closeLastBody, ReadLoopAt
    <3>4. ASSUME NEW kind \in Kinds, readResponse(c, kind)
          PROVE /\ UNCHANGED <<ckey, pc, conn, tgt>> /\ rl[c] # "none"
                /\ \E p \in ReadLoopAt \ {"none"} : rl' = [rl EXCEPT ![c] = p]
      BY <3>4 DEF readResponse, ReadLoopAt
    <3> QED
      BY <1>7, <3>1, <3>2, <3>3, <3>4 DEF ReadLoopStep
  <2>2. UNCHANGED idle \/ putIdleConn(c)
    <3>1. CASE peek(c) \/ recvRequest(c)
      BY <3>1 DEF peek, recvRequest
    <3>2. CASE closeLastBody(c)
      BY <3>2 DEF closeLastBody
    <3>3. ASSUME NEW kind \in Kinds, readResponse(c, kind) PROVE UNCHANGED idle \/ putIdleConn(c)
      BY <3>3 DEF readResponse
    <3> QED
      BY <1>7, <3>1, <3>2, <3>3 DEF ReadLoopStep
  <2>3. Filed
    BY <1>f, <2>1, <2>2, PutFine DEF Filed
  <2>4. Links
    BY <1>0, <2>1 DEF Typed, KeysKnown
  <2>5. Users
    BY <2>1, <2>4, <1>u
  <2> QED
    BY <2>3, <2>4, <2>5
<1>8. ASSUME NEW c \in Conns, peerAnswers(c) \/ peerCloses(c) PROVE Filed /\ Users /\ Links
  BY <1>8, <1>f, <1>l, <1>u DEF peerAnswers, peerCloses, connVars, loopVars, callerVars
<1>9. CASE UNCHANGED vars
  BY <1>9, <1>f, <1>l, <1>u DEF vars, connVars, loopVars, callerVars
<1> QED
  BY <1>3, <1>4, <1>5, <1>6, <1>7, <1>8, <1>9 DEF Next

\* For any number of callers and connections, and in whatever order callers,
\* readLoops and CloseIdleConnections run, putIdleConn keeps a key's pool within
\* MaxIdleConnsPerHost and files a connection under the key it was dialed for.
THEOREM PoolWithinBound == Spec => []PoolBounded
<1>1. Init => Inv
  BY InitInv
<1>2. Inv /\ [Next]_vars => Inv'
  BY StepInv
<1>3. Inv => PoolBounded
  BY DEF Inv
<1> QED
  BY <1>1, <1>2, <1>3, PTL DEF Spec
-----------------------------------------------------------------------------
(* One holder at a time: PoolExclusive, PoolServed, AnswerForItsRequest.     *)

Shapes ==
  /\ broken \in [Conns -> BOOLEAN] /\ alive \in [Conns -> BOOLEAN]
  /\ reqch \in [Conns -> Seq(Callers)]
  /\ sent \in [Conns -> Seq(Callers)] /\ answered \in [Conns -> Seq(Callers)]
  /\ cur \in [Conns -> Callers \cup {NoCaller}]
  /\ ans \in [Callers -> Kinds \cup {"none"}]

\* u's request on c has been queued, and is not answered.
Waits(u, c) == conn[u] = c /\ pc[u] = "wait" /\ ans[u] = "none"

\* u's request on c has been written, and is not answered.
Wrote(u, c) == Waits(u, c) \/ (conn[u] = c /\ pc[u] = "written")

\* u has the answer that came on c, and fn is not done with its body.
Ends(u, c) == /\ conn[u] = c
              /\ \/ pc[u] \in {"body", "fnput", "fnsend"}
                 \/ pc[u] = "wait" /\ ans[u] = "body"

\* u is in Having(c).
Holds(u, c) == /\ conn[u] = c
               /\ \/ pc[u] \in {"have", "counted", "written", "body", "fnput"}
                  \/ pc[u] = "wait" /\ ans[u] \in {"none", "body"}

\* An answer is there only while it is waited for.
AnswerAwaited == \A u \in Callers : pc[u] # "wait" => ans[u] = "none"

\* The readLoop waits for the one caller that has the body.
BodyAwaited(c) == /\ \A u \in Callers : Ends(u, c) => rl[c] = "waitbody"
                  /\ \A u, v \in Callers : Ends(u, c) /\ Ends(v, c) => u = v

\* A connection is with one caller, or in the pool, once.
OneHolder(c) == /\ \A u, v \in Callers : Holds(u, c) /\ Holds(v, c) => u = v
                /\ Pooled(c) => \A u \in Callers : ~Holds(u, c)
PooledOnce(c) == \A k \in Keys : \A i, j \in 1..Len(idle[k]) :
                   idle[k][i] = c /\ idle[k][j] = c => i = j

\* What is queued is one request, that of a caller that waits.
QueueAwaited(c) == /\ Len(reqch[c]) <= 1
                   /\ \A i \in 1..Len(reqch[c]) : Waits(reqch[c][i], c)
                   /\ rl[c] \in {"read", "fnput"} =>
                        reqch[c] = <<>> /\ cur[c] \in Callers /\ Waits(cur[c], c)

\* What is on the wire is one request or answer, that of the caller that has c.
WireAwaited(c) == /\ Len(answered[c]) + Len(sent[c]) <= 1
                  /\ \A i \in 1..Len(answered[c]) : Wrote(answered[c][i], c)
                  /\ \A i \in 1..Len(sent[c]) : Wrote(sent[c][i], c)

\* A readLoop that is to end, or has ended, leaves no usable connection pooled.
EndsUnpooled(c) == /\ ~alive[c] => broken[c] \/ rl[c] = "dead"
                   /\ rl[c] = "dead" /\ Pooled(c) => broken[c]

\* A readLoop that is stuck in fn has run it twice, and its connection is not
\* exclusive; one that has ended no longer looks at the wire.
Good(c) == /\ BodyAwaited(c) /\ EndsUnpooled(c)
           /\ rl[c] # "fnsend" => OneHolder(c) /\ PooledOnce(c) /\ QueueAwaited(c)
           /\ rl[c] \notin {"fnsend", "dead"} => WireAwaited(c)

Exclusive == AnswerAwaited /\ \A c \in Conns : Good(c)

\* The invariant.
XInv == Inv /\ Shapes /\ Exclusive

\* A caller that waits or has written holds its connection.
LEMMA WroteHolds == ASSUME NEW u, NEW c, Wrote(u, c) PROVE Holds(u, c)
  BY DEF Wrote, Waits, Holds

\* A connection none of whose facts get harder stays good: callers only let go
\* of it, the pool and the wire only shrink, and broken only grows.
LEMMA Relax ==
  ASSUME XInv, NEW c \in Conns,
         reqch'[c] = reqch[c], answered'[c] = answered[c],
         rl'[c] = rl[c], cur'[c] = cur[c], alive'[c] = alive[c],
         sent'[c] \in {sent[c], <<>>},
         broken[c] => broken'[c],
         Pooled(c)' => Pooled(c), PooledOnce(c) => PooledOnce(c)',
         \A u \in Callers : /\ Holds(u, c)' => Holds(u, c)
                            /\ Ends(u, c)' => Ends(u, c)
                            /\ Waits(u, c) => Waits(u, c)'
                            /\ Wrote(u, c) => Wrote(u, c)'
  PROVE  Good(c)'
<1>1. Good(c) /\ Shapes
  BY DEF XInv, Exclusive
<1>3. BodyAwaited(c)'
  BY <1>1 DEF Good, BodyAwaited
<1>4. EndsUnpooled(c)'
  BY <1>1 DEF Good, EndsUnpooled
<1>5. ASSUME rl[c] # "fnsend" PROVE OneHolder(c)' /\ PooledOnce(c)' /\ QueueAwaited(c)'
  <2>1. OneHolder(c)'
    BY <1>1, <1>5 DEF Good, OneHolder
  <2>2. PooledOnce(c)'
    BY <1>1, <1>5 DEF Good
  <2>3. QueueAwaited(c)'
    BY <1>1, <1>5 DEF Good, QueueAwaited, Shapes
  <2> QED
    BY <2>1, <2>2, <2>3
<1>6. ASSUME rl[c] \notin {"fnsend", "dead"} PROVE WireAwaited(c)'
  <2>1. \A i \in 1..Len(answered[c]) : answered[c][i] \in Callers
    BY <1>1 DEF Shapes
  <2>2. \A i \in 1..Len(sent[c]) : sent[c][i] \in Callers
    BY <1>1 DEF Shapes
  <2> QED
    BY <1>1, <1>6, <2>1, <2>2 DEF Good, WireAwaited, Shapes
<1> QED
  BY <1>3, <1>4, <1>5, <1>6 DEF Good

\* A key's pool that is emptied, or left as it is, holds nothing new.
LEMMA PoolShrinks ==
  ASSUME \A k \in Keys : idle'[k] \in {idle[k], <<>>}
  PROVE  \A c : (Pooled(c)' => Pooled(c)) /\ (PooledOnce(c) => PooledOnce(c)')
<1>1. ASSUME NEW c, NEW k \in Keys, NEW i \in 1..Len(idle'[k]), NEW j \in 1..Len(idle'[k])
      PROVE idle'[k] = idle[k]
  OBVIOUS
<1> QED
  BY <1>1 DEF Pooled, PooledOnce

\* putIdleConn of a connection: the others are pooled as before, and this one,
\* if it was not pooled, is pooled once, or else marked broken.
LEMMA Put ==
  ASSUME XInv, NEW c \in Conns, rl[c] # "none", putIdleConn(c)
  PROVE  /\ \A d \in Conns \ {c} : /\ Pooled(d)' <=> Pooled(d)
                                   /\ PooledOnce(d) => PooledOnce(d)'
                                   /\ broken'[d] = broken[d]
         /\ ~Pooled(c) => PooledOnce(c)'
         /\ broken[c] => broken'[c]
         /\ ~CanPool(c) => broken'[c]
<1>0. idle \in [Keys -> Seq(Conns)] /\ ckey[c] \in Keys /\ broken \in [Conns -> BOOLEAN]
  BY DEF XInv, Inv, Typed, KeysKnown, Shapes
<1>1. CASE CanPool(c)
  <2> DEFINE q == ckey[c]
             s == idle[q]
             n == Len(s)
  <2>1. /\ s \in Seq(Conns) /\ n \in Nat
        /\ Append(s, c) \in Seq(Conns) /\ Len(Append(s, c)) = n + 1
        /\ \A i \in 1..n : Append(s, c)[i] = s[i]
        /\ Append(s, c)[n + 1] = c
    BY <1>0
  <2>2. idle'[q] = Append(s, c) /\ \A k \in Keys : k # q => idle'[k] = idle[k]
    BY <1>0, <1>1 DEF putIdleConn
  <2>3. broken' = broken /\ ~broken[c]
    BY <1>1 DEF putIdleConn, CanPool
  <2> HIDE DEF s, n
  <2>4. s = idle[q] /\ n = Len(idle[q])
    BY DEF s, n
  <2> HIDE DEF q
  <2>q. q \in Keys
    BY <1>0 DEF q
  <2>5. ASSUME NEW d \in Conns \ {c} PROVE Pooled(d)' <=> Pooled(d)
    <3>1. ASSUME NEW k \in Keys
          PROVE (\E i \in 1..Len(idle'[k]) : idle'[k][i] = d) <=> (\E i \in 1..Len(idle[k]) : idle[k][i] = d)
      <4>1. CASE k = q
        <5>1. idle'[k] = Append(s, c) /\ idle[k] = s /\ Len(idle[k]) = n
          BY <2>2, <2>4, <4>1
        <5>2. ASSUME NEW i \in 1..Len(Append(s, c)), Append(s, c)[i] = d
              PROVE  i \in 1..n /\ s[i] = d
          BY <2>1, <5>2
        <5>3. ASSUME NEW i \in 1..n, s[i] = d
              PROVE  i \in 1..Len(Append(s, c)) /\ Append(s, c)[i] = d
          BY <2>1, <5>3
        <5> QED
          BY <5>1, <5>2, <5>3
      <4>2. CASE k # q
        BY <2>2, <4>2
      <4> QED
        BY <4>1, <4>2
    <3> QED
      BY <3>1 DEF Pooled
  <2>6. ASSUME NEW d \in Conns, PooledOnce(d), d # c \/ ~Pooled(d) PROVE PooledOnce(d)'
    <3>1. ASSUME NEW k \in Keys, NEW i \in 1..Len(idle'[k]), NEW j \in 1..Len(idle'[k]),
                 idle'[k][i] = d, idle'[k][j] = d
          PROVE i = j
      <4>1. CASE k = q /\ d # c
        <5>1. i \in 1..n /\ j \in 1..n /\ idle[k][i] = d /\ idle[k][j] = d
          BY <2>1, <2>2, <2>4, <3>1, <4>1
        <5> QED
          BY <2>4, <2>6, <4>1, <5>1 DEF PooledOnce
      <4>2. CASE k = q /\ d = c
        <5>1. \A m \in 1..n : s[m] # c
          BY <2>4, <2>6, <2>q, <4>2 DEF Pooled
        <5>2. i = n + 1 /\ j = n + 1
          BY <2>1, <2>2, <3>1, <4>2, <5>1
        <5> QED
          BY <5>2
      <4>3. CASE k # q
        BY <2>2, <2>6, <3>1, <4>3 DEF PooledOnce
      <4> QED
        BY <4>1, <4>2, <4>3
    <3> QED
      BY <3>1 DEF PooledOnce
  <2>7. ~Pooled(c) => PooledOnce(c)
    BY DEF Pooled, PooledOnce
  <2> QED
    BY <1>1, <2>3, <2>5, <2>6, <2>7
<1>2. CASE ~CanPool(c)
  <2>1. idle' = idle /\ broken' = [broken EXCEPT ![c] = TRUE]
    BY <1>2 DEF putIdleConn
  <2>2. \A d : (Pooled(d)' <=> Pooled(d)) /\ (PooledOnce(d) => PooledOnce(d)')
    BY <2>1 DEF Pooled, PooledOnce
  <2>3. ~Pooled(c) => PooledOnce(c)
    BY DEF Pooled, PooledOnce
  <2> QED
    BY <1>0, <2>1, <2>2, <2>3
<1> QED
  BY <1>1, <1>2

\* A caller that goes on without asking more of its connection.
LEMMA LetGo ==
  ASSUME XInv, NEW u \in Callers,
         UNCHANGED <<reqch, answered, sent, rl, cur, alive>>,
         \A c \in Conns : broken[c] => broken'[c],
         \A k \in Keys : idle'[k] \in {idle[k], <<>>},
         \A v \in Callers \ {u} : pc'[v] = pc[v] /\ conn'[v] = conn[v] /\ ans'[v] = ans[v],
         pc'[u] # "wait" => ans'[u] = "none",
         \A c \in Conns : /\ Holds(u, c)' => Holds(u, c)
                          /\ Ends(u, c)' => Ends(u, c)
                          /\ Waits(u, c) => Waits(u, c)'
                          /\ Wrote(u, c) => Wrote(u, c)'
  PROVE  Exclusive'
<1>1. AnswerAwaited'
  BY DEF XInv, Exclusive, AnswerAwaited
<1>2. ASSUME NEW c \in Conns PROVE Good(c)'
  <2>1. \A v \in Callers : /\ Holds(v, c)' => Holds(v, c)
                           /\ Ends(v, c)' => Ends(v, c)
                           /\ Waits(v, c) => Waits(v, c)'
                           /\ Wrote(v, c) => Wrote(v, c)'
    <3>1. ASSUME NEW v \in Callers \ {u}
          PROVE  /\ Holds(v, c)' <=> Holds(v, c)
                 /\ Ends(v, c)' <=> Ends(v, c)
                 /\ Waits(v, c)' <=> Waits(v, c)
                 /\ Wrote(v, c)' <=> Wrote(v, c)
      BY <3>1 DEF Holds, Ends, Waits, Wrote
    <3> QED
      BY <3>1
  <2>2. (Pooled(c)' => Pooled(c)) /\ (PooledOnce(c) => PooledOnce(c)')
    BY PoolShrinks
  <2> QED
    BY <2>1, <2>2, Relax
<1> QED
  BY <1>1, <1>2 DEF Exclusive

\* What the steps of a caller look at.
LEMMA Parts == XInv => /\ Typed /\ Shapes /\ CallersDialed /\ KeysKnown /\ PoolDialed /\ PoolBounded
                       /\ AnswerAwaited /\ \A c \in Conns : Good(c)
  BY DEF XInv, Inv, Exclusive

\* The steps of a caller that only let go.
LEMMA QuietGood ==
  ASSUME XInv, NEW u \in Callers, NEW k \in Keys,
         \/ getIdleConnMiss(u, k) \/ dialFails(u) \/ expectResponse(u) \/ writeFails(u)
         \/ returnResponse(u) \/ abandonBody(u) \/ clearFn(u)
         \/ \E how \in BodyEnds : finishBody(u, how)
  PROVE  Exclusive'
<1>0. Typed /\ Shapes /\ AnswerAwaited
  BY Parts
<1> DEFINE Frame == UNCHANGED <<reqch, answered, sent, rl, cur, alive>>
           Others == \A v \in Callers \ {u} : pc'[v] = pc[v] /\ conn'[v] = conn[v] /\ ans'[v] = ans[v]
           Looser == \A c \in Conns : /\ Holds(u, c)' => Holds(u, c)
                                      /\ Ends(u, c)' => Ends(u, c)
                                      /\ Waits(u, c) => Waits(u, c)'
                                      /\ Wrote(u, c) => Wrote(u, c)'
           Own == pc'[u] # "wait" => ans'[u] = "none"
<1>1. CASE getIdleConnMiss(u, k)
  <2>1. Frame /\ broken' = broken /\ Others /\ \A q \in Keys : idle'[q] \in {idle[q], <<>>}
    BY <1>0, <1>1 DEF getIdleConnMiss, connVars, peerVars, loopVars, Typed
  <2>2. Own /\ Looser
    BY <1>0, <1>1 DEF getIdleConnMiss, AnswerAwaited, Typed, Holds, Ends, Waits, Wrote
  <2> QED
    BY <2>1, <2>2, LetGo
<1>2. CASE dialFails(u)
  <2>1. Frame /\ UNCHANGED <<broken, idle>> /\ Others
    BY <1>0, <1>2 DEF dialFails, return, connVars, peerVars, loopVars, Typed
  <2>2. Own /\ Looser
    BY <1>0, <1>2 DEF dialFails, return, AnswerAwaited, Typed, Holds, Ends, Waits, Wrote
  <2> QED
    BY <2>1, <2>2, LetGo
<1>3. CASE expectResponse(u)
  <2>1. Frame /\ UNCHANGED <<broken, idle>> /\ Others
    BY <1>0, <1>3 DEF expectResponse, peerVars, loopVars, Typed
  <2>2. Own /\ Looser
    BY <1>0, <1>3 DEF expectResponse, AnswerAwaited, Typed, Holds, Ends, Waits, Wrote
  <2> QED
    BY <2>1, <2>2, LetGo
<1>4. CASE writeFails(u)
  <2>1. Frame /\ UNCHANGED idle /\ Others
    BY <1>0, <1>4 DEF writeFails, return, peerVars, loopVars, Typed
  <2>2. \A c \in Conns : broken[c] => broken'[c]
    BY <1>0, <1>4 DEF writeFails, Shapes
  <2>3. Own /\ Looser
    BY <1>0, <1>4 DEF writeFails, return, AnswerAwaited, Typed, Holds, Ends, Waits, Wrote
  <2> QED
    BY <2>1, <2>2, <2>3, LetGo
<1>5. CASE returnResponse(u)
  <2>1. Frame /\ UNCHANGED <<broken, idle>> /\ Others
    BY <1>0, <1>5 DEF returnResponse, return, peerVars, loopVars, Typed, Shapes
  <2>2. Own /\ Looser
    BY <1>0, <1>5 DEF returnResponse, return, Typed, Shapes, Holds, Ends, Waits, Wrote
  <2> QED
    BY <2>1, <2>2, LetGo
<1>6. CASE abandonBody(u)
  <2>1. Frame /\ UNCHANGED <<broken, idle>> /\ Others
    BY <1>0, <1>6 DEF abandonBody, return, connVars, peerVars, loopVars, Typed
  <2>2. Own /\ Looser
    BY <1>0, <1>6 DEF abandonBody, return, AnswerAwaited, Typed, Holds, Ends, Waits, Wrote
  <2> QED
    BY <2>1, <2>2, LetGo
<1>7. CASE clearFn(u)
  <2>1. Frame /\ UNCHANGED <<broken, idle>> /\ Others
    BY <1>0, <1>7 DEF clearFn, return, connVars, peerVars, Typed
  <2>2. Own /\ Looser
    BY <1>0, <1>7 DEF clearFn, return, AnswerAwaited, Typed, Holds, Ends, Waits, Wrote
  <2> QED
    BY <2>1, <2>2, LetGo
<1>8. ASSUME NEW how \in BodyEnds, finishBody(u, how) PROVE Exclusive'
  <2>1. Frame /\ UNCHANGED <<broken, idle>> /\ Others
    BY <1>0, <1>8 DEF finishBody, connVars, peerVars, loopVars, Typed
  <2>2. Own /\ Looser
    BY <1>0, <1>8 DEF finishBody, AnswerAwaited, Typed, Holds, Ends, Waits, Wrote
  <2> QED
    BY <2>1, <2>2, LetGo
<1> QED
  BY <1>1, <1>2, <1>3, <1>4, <1>5, <1>6, <1>7, <1>8

\* What a caller and a readLoop do with a connection, the others do not see.
LEMMA Apart ==
  ASSUME XInv, NEW u \in Callers, NEW c \in Conns,
         \A v \in Callers \ {u} : pc'[v] = pc[v] /\ conn'[v] = conn[v] /\ ans'[v] = ans[v],
         \A d \in Conns \ {c} :
           /\ reqch'[d] = reqch[d] /\ answered'[d] = answered[d] /\ sent'[d] = sent[d]
           /\ rl'[d] = rl[d] /\ cur'[d] = cur[d] /\ alive'[d] = alive[d]
           /\ broken[d] => broken'[d]
           /\ (Pooled(d)' => Pooled(d)) /\ (PooledOnce(d) => PooledOnce(d)')
           /\ ~Holds(u, d)' /\ ~Ends(u, d)' /\ ~Wrote(u, d)
  PROVE  \A d \in Conns \ {c} : Good(d)'
<1> SUFFICES ASSUME NEW d \in Conns \ {c} PROVE Good(d)'
  OBVIOUS
<1>1. ASSUME NEW v \in Callers \ {u}
      PROVE  /\ Holds(v, d)' <=> Holds(v, d)
             /\ Ends(v, d)' <=> Ends(v, d)
             /\ Waits(v, d)' <=> Waits(v, d)
             /\ Wrote(v, d)' <=> Wrote(v, d)
  BY <1>1 DEF Holds, Ends, Waits, Wrote
<1>2. ~Waits(u, d)
  BY DEF Wrote
<1> QED
  BY <1>1, <1>2, Relax

\* A connection that is dialed is the caller's alone.
LEMMA DialGood ==
  ASSUME XInv, NEW u \in Callers, NEW c \in Conns, dialConn(u, c)
  PROVE  Exclusive'
<1>0. Typed /\ Shapes /\ AnswerAwaited /\ CallersDialed /\ PoolDialed /\ Good(c)
  BY Parts
<1>1. /\ pc[u] = "dialing" /\ rl[c] = "none"
      /\ rl' = [rl EXCEPT ![c] = "peek"] /\ conn' = [conn EXCEPT ![u] = c]
      /\ pc' = [pc EXCEPT ![u] = "have"]
      /\ UNCHANGED <<idle, broken, reqch, sent, answered, cur, alive, ans>>
  BY DEF dialConn, peerVars
<1>2. \A v \in Callers : ~Holds(v, c) /\ ~Ends(v, c) /\ ~Wrote(v, c) /\ ~Waits(v, c)
  BY <1>0, <1>1 DEF CallersDialed, Holds, Ends, Wrote, Waits, Typed, CallerAt
<1>3. ~Pooled(c)
  BY <1>0, <1>1 DEF PoolDialed, Pooled
<1>4. \A d : (Pooled(d)' <=> Pooled(d)) /\ (PooledOnce(d)' <=> PooledOnce(d))
  BY <1>1 DEF Pooled, PooledOnce
<1>5. \A v \in Callers \ {u} : pc'[v] = pc[v] /\ conn'[v] = conn[v] /\ ans'[v] = ans[v]
  BY <1>0, <1>1 DEF Typed
<1>6. \A d \in Conns : /\ Holds(u, d)' => d = c
                       /\ ~Ends(u, d)' /\ ~Wrote(u, d) /\ ~Waits(u, d)
  BY <1>0, <1>1 DEF Typed, Holds, Ends, Wrote, Waits
<1>7. \A d \in Conns \ {c} : Good(d)'
  BY <1>0, <1>1, <1>4, <1>5, <1>6, Apart DEF Typed
<1>8. Good(c)'
  <2>1. \A v \in Callers : (Holds(v, c)' => v = u) /\ ~Ends(v, c)'
    <3>1. \A v \in Callers \ {u} : (Holds(v, c)' <=> Holds(v, c)) /\ (Ends(v, c)' <=> Ends(v, c))
      BY <1>5 DEF Holds, Ends
    <3> QED
      BY <1>2, <1>6, <3>1
  <2>2. rl'[c] = "peek"
    BY <1>0, <1>1 DEF Typed
  <2>3. BodyAwaited(c)'
    BY <2>1 DEF BodyAwaited
  <2>4. EndsUnpooled(c)'
    BY <1>0, <1>1, <2>2 DEF EndsUnpooled, Good
  <2>5. OneHolder(c)'
    BY <1>3, <1>4, <2>1 DEF OneHolder
  <2>6. PooledOnce(c)'
    <3>1. PooledOnce(c)
      BY <1>3 DEF PooledOnce, Pooled
    <3> QED
      BY <1>4, <3>1
  <2>7. reqch[c] = <<>> /\ sent[c] = <<>> /\ answered[c] = <<>>
    <3>1. QueueAwaited(c) /\ WireAwaited(c)
      BY <1>0, <1>1 DEF Good
    <3>2. Len(reqch[c]) = 0
      BY <1>0, <1>2, <3>1 DEF QueueAwaited, Shapes
    <3>3. \A v \in Callers : ~Wrote(v, c)
      BY <1>2
    <3>4. sent[c] \in Seq(Callers) /\ answered[c] \in Seq(Callers)
      BY <1>0 DEF Shapes
    <3>5. Len(sent[c]) = 0
      <4>1. Len(sent[c]) # 0 => 1 \in 1..Len(sent[c]) /\ sent[c][1] \in Callers
        BY <3>4
      <4> QED
        BY <3>1, <3>3, <4>1 DEF WireAwaited
    <3>6. Len(answered[c]) = 0
      <4>1. Len(answered[c]) # 0 => 1 \in 1..Len(answered[c]) /\ answered[c][1] \in Callers
        BY <3>4
      <4> QED
        BY <3>1, <3>3, <4>1 DEF WireAwaited
    <3> QED
      BY <1>0, <3>2, <3>5, <3>6 DEF Shapes
  <2>8. QueueAwaited(c)'
    BY <1>1, <2>2, <2>7 DEF QueueAwaited
  <2>9. WireAwaited(c)'
    BY <1>1, <2>7 DEF WireAwaited
  <2> QED
    BY <2>3, <2>4, <2>5, <2>6, <2>8, <2>9 DEF Good
<1>9. AnswerAwaited'
  BY <1>0, <1>1 DEF AnswerAwaited, Typed
<1> QED
  BY <1>7, <1>8, <1>9 DEF Exclusive

\* getIdleConn takes a connection out of the pool and lends it to its caller.
LEMMA HitGood ==
  ASSUME XInv, NEW u \in Callers, NEW k \in Keys, getIdleConnHit(u, k)
  PROVE  Exclusive'
<1>0. Typed /\ Shapes /\ AnswerAwaited /\ PoolDialed /\ PoolBounded /\ \A c \in Conns : Good(c)
  BY Parts
<1>1. PICK i \in Usable(k) : /\ conn' = [conn EXCEPT ![u] = idle[k][i]]
                             /\ idle' = [idle EXCEPT ![k] = SubSeq(@, 1, i - 1)]
  BY DEF getIdleConnHit
<1>2. /\ pc[u] = "idle" /\ pc' = [pc EXCEPT ![u] = "have"]
      /\ UNCHANGED <<broken, reqch, sent, answered, rl, cur, alive, ans>>
  BY DEF getIdleConnHit, connVars, peerVars, loopVars
<1>a. i \in 1..Len(idle[k]) /\ idle[k] \in Seq(Conns)
  BY <1>0, <1>1 DEF Usable, Typed
<1>c. PICK c \in Conns : c = idle[k][i]
  BY <1>a
<1>3. i \in 1..Len(idle[k]) /\ idle[k] \in Seq(Conns) /\ c = idle[k][i] /\ Pooled(c)
  BY <1>a, <1>c DEF Pooled
<1>4. /\ SubSeq(idle[k], 1, i - 1) \in Seq(Conns) /\ Len(SubSeq(idle[k], 1, i - 1)) = i - 1
      /\ \A j \in 1..(i - 1) : SubSeq(idle[k], 1, i - 1)[j] = idle[k][j]
  BY <1>3
<1>5. /\ idle'[k] = SubSeq(idle[k], 1, i - 1)
      /\ \A q \in Keys : q # k => idle'[q] = idle[q]
  BY <1>0, <1>1 DEF Typed
<1>6. \A q \in Keys : \A j \in 1..Len(idle'[q]) :
        j \in 1..Len(idle[q]) /\ idle'[q][j] = idle[q][j] /\ (q = k => j < i)
  BY <1>3, <1>4, <1>5
<1>7. \A d : (Pooled(d)' => Pooled(d)) /\ (PooledOnce(d) => PooledOnce(d)')
  <2>1. \A d : Pooled(d)' => Pooled(d)
    BY <1>6 DEF Pooled
  <2>2. \A d : PooledOnce(d) => PooledOnce(d)'
    BY <1>6 DEF PooledOnce
  <2> QED
    BY <2>1, <2>2
<1>8. PooledOnce(c) => ~Pooled(c)'
  <2> SUFFICES ASSUME PooledOnce(c), NEW q \in Keys, NEW j \in 1..Len(idle'[q]), idle'[q][j] = c
               PROVE FALSE
    BY DEF Pooled
  <2>1. j \in 1..Len(idle[q]) /\ idle[q][j] = c /\ (q = k => j < i)
    BY <1>6
  <2>2. q = k
    BY <1>0, <1>3, <2>1 DEF PoolBounded
  <2> QED
    BY <1>3, <2>1, <2>2 DEF PooledOnce
<1>9. \A v \in Callers \ {u} : pc'[v] = pc[v] /\ conn'[v] = conn[v] /\ ans'[v] = ans[v]
  BY <1>0, <1>1, <1>2 DEF Typed
<1>10. \A d \in Conns : /\ Holds(u, d)' => d = c
                        /\ ~Ends(u, d)' /\ ~Ends(u, d) /\ ~Wrote(u, d) /\ ~Waits(u, d)
  BY <1>0, <1>1, <1>2, <1>3 DEF Typed, Holds, Ends, Wrote, Waits
<1>11. \A d \in Conns \ {c} : Good(d)'
  BY <1>2, <1>3, <1>7, <1>9, <1>10, Apart
<1>12. Good(c)'
  <2>1. \A v \in Callers \ {u} : /\ Holds(v, c)' <=> Holds(v, c)
                                 /\ Ends(v, c)' <=> Ends(v, c)
                                 /\ Waits(v, c)' <=> Waits(v, c)
                                 /\ Wrote(v, c)' <=> Wrote(v, c)
    BY <1>9 DEF Holds, Ends, Waits, Wrote
  <2>2. Good(c)
    BY <1>0, <1>3
  <2>3. BodyAwaited(c)'
    BY <1>2, <1>3, <1>10, <2>1, <2>2 DEF BodyAwaited, Good
  <2>4. EndsUnpooled(c)'
    BY <1>2, <1>7, <2>2 DEF EndsUnpooled, Good
  <2>5. ASSUME rl[c] # "fnsend" PROVE OneHolder(c)' /\ PooledOnce(c)' /\ QueueAwaited(c)'
    <3>1. OneHolder(c) /\ PooledOnce(c) /\ QueueAwaited(c)
      BY <2>2, <2>5 DEF Good
    <3>2. OneHolder(c)'
      BY <1>3, <1>8, <2>1, <3>1 DEF OneHolder
    <3>3. QueueAwaited(c)'
      BY <1>0, <1>2, <1>3, <1>10, <2>1, <3>1 DEF QueueAwaited, Shapes
    <3> QED
      BY <1>7, <3>1, <3>2, <3>3
  <2>6. ASSUME rl[c] \notin {"fnsend", "dead"} PROVE WireAwaited(c)'
    <3>1. WireAwaited(c)
      BY <2>2, <2>6 DEF Good
    <3>2. \A j \in 1..Len(answered[c]) : answered[c][j] \in Callers
      BY <1>0, <1>3 DEF Shapes
    <3>3. \A j \in 1..Len(sent[c]) : sent[c][j] \in Callers
      BY <1>0, <1>3 DEF Shapes
    <3> QED
      BY <1>2, <1>3, <1>10, <2>1, <3>1, <3>2, <3>3 DEF WireAwaited
  <2> QED
    BY <1>2, <2>3, <2>4, <2>5, <2>6 DEF Good
<1>13. AnswerAwaited'
  BY <1>0, <1>2 DEF AnswerAwaited, Typed
<1> QED
  BY <1>11, <1>12, <1>13 DEF Exclusive

\* The steps of a caller that change something of its connection besides.
LEMMA CallerGood ==
  ASSUME XInv, NEW u \in Callers, writeRequest(u) \/ queueRequest(u) \/ fnPut(u) \/ fnSend(u)
  PROVE  Exclusive'
<1>0. Typed /\ Shapes /\ AnswerAwaited /\ CallersDialed /\ \A c \in Conns : Good(c)
  BY Parts
<1>1. pc[u] \notin {"idle", "dialing"}
  BY DEF writeRequest, queueRequest, fnPut, fnSend
<1>2. PICK c \in Conns : c = conn[u] /\ rl[c] # "none"
  BY <1>0, <1>1 DEF CallersDialed
<1>3. /\ UNCHANGED <<answered, cur, conn, ans>>
      /\ \E p \in {"written", "wait", "fnsend", "clear"} : pc' = [pc EXCEPT ![u] = p]
  BY DEF writeRequest, queueRequest, fnPut, fnSend, peerVars, loopVars
<1>4. \A v \in Callers \ {u} : pc'[v] = pc[v] /\ conn'[v] = conn[v] /\ ans'[v] = ans[v]
  BY <1>0, <1>3 DEF Typed
<1>5. \A d \in Conns \ {c} : ~Holds(u, d)' /\ ~Ends(u, d)' /\ ~Wrote(u, d)
  BY <1>2, <1>3 DEF Holds, Ends, Wrote, Waits
<1>6. \A v \in Callers \ {u} : /\ Holds(v, c)' <=> Holds(v, c)
                               /\ Ends(v, c)' <=> Ends(v, c)
                               /\ Waits(v, c)' <=> Waits(v, c)
                               /\ Wrote(v, c)' <=> Wrote(v, c)
  BY <1>4 DEF Holds, Ends, Waits, Wrote
<1>7. Good(c)
  BY <1>0
<1>8. /\ reqch[c] \in Seq(Callers) /\ sent[c] \in Seq(Callers) /\ answered[c] \in Seq(Callers)
      /\ \A i \in 1..Len(reqch[c]) : reqch[c][i] \in Callers
      /\ \A i \in 1..Len(sent[c]) : sent[c][i] \in Callers
      /\ \A i \in 1..Len(answered[c]) : answered[c][i] \in Callers
  BY <1>0 DEF Shapes
<1>9. CASE writeRequest(u)
  <2>1. /\ pc[u] = "counted" /\ pc' = [pc EXCEPT ![u] = "written"]
        /\ sent' = sent \/ sent' = [sent EXCEPT ![c] = Append(@, u)]
        /\ UNCHANGED <<idle, broken, reqch, rl, alive>>
    BY <1>2, <1>9 DEF writeRequest, connVars, loopVars
  <2>2. \A q : (Pooled(q)' <=> Pooled(q)) /\ (PooledOnce(q)' <=> PooledOnce(q))
    BY <2>1 DEF Pooled, PooledOnce
  <2>3. \A d \in Conns \ {c} : sent'[d] = sent[d]
    BY <1>0, <2>1 DEF Shapes
  <2>4. \A d \in Conns \ {c} : Good(d)'
    BY <1>3, <1>4, <1>5, <2>1, <2>2, <2>3, Apart
  <2>5. /\ Holds(u, c) /\ ~Ends(u, c)' /\ ~Wrote(u, c) /\ ~Waits(u, c)
        /\ Wrote(u, c)' /\ pc'[u] = "written"
    BY <1>0, <1>2, <1>3, <2>1 DEF Typed, Holds, Ends, Wrote, Waits
  <2>6. AnswerAwaited'
    BY <1>0, <1>3, <2>1 DEF AnswerAwaited, Typed
  <2>7. BodyAwaited(c)'
    BY <1>6, <1>7, <2>1, <2>5 DEF Good, BodyAwaited
  <2>8. EndsUnpooled(c)'
    BY <1>7, <2>1, <2>2 DEF Good, EndsUnpooled
  <2>9. ASSUME rl[c] # "fnsend" PROVE OneHolder(c)' /\ PooledOnce(c)' /\ QueueAwaited(c)'
    <3>1. OneHolder(c) /\ PooledOnce(c) /\ QueueAwaited(c)
      BY <1>7, <2>9 DEF Good
    <3>2. OneHolder(c)'
      BY <1>6, <2>2, <2>5, <3>1 DEF OneHolder
    <3>3. QueueAwaited(c)'
      BY <1>3, <1>6, <1>8, <2>1, <2>5, <3>1 DEF QueueAwaited
    <3> QED
      BY <2>2, <3>1, <3>2, <3>3
  <2>10. ASSUME rl[c] \notin {"fnsend", "dead"} PROVE WireAwaited(c)'
    <3>1. OneHolder(c) /\ WireAwaited(c)
      BY <1>7, <2>10 DEF Good
    <3>2. ASSUME NEW v \in Callers PROVE ~Wrote(v, c)
      <4>1. Wrote(v, c) => v = u
        BY <2>5, <3>1, WroteHolds DEF OneHolder
      <4> QED
        BY <2>5, <4>1
    <3>3. sent[c] = <<>> /\ answered[c] = <<>>
      BY <1>8, <3>1, <3>2 DEF WireAwaited
    <3>4. sent'[c] = <<>> \/ sent'[c] = <<u>>
      BY <1>0, <2>1, <3>3 DEF Shapes
    <3>5. answered'[c] = <<>>
      BY <1>3, <3>3
    <3>6. CASE sent'[c] = <<>>
      BY <3>5, <3>6 DEF WireAwaited
    <3>7. CASE sent'[c] = <<u>>
      BY <2>5, <3>5, <3>7 DEF WireAwaited
    <3> QED
      BY <3>4, <3>6, <3>7
  <2>11. Good(c)'
    BY <2>1, <2>7, <2>8, <2>9, <2>10 DEF Good
  <2> QED
    BY <2>4, <2>6, <2>11 DEF Exclusive
<1>10. CASE queueRequest(u)
  <2>1. /\ pc[u] = "written" /\ pc' = [pc EXCEPT ![u] = "wait"]
        /\ reqch' = [reqch EXCEPT ![c] = Append(@, u)]
        /\ UNCHANGED <<idle, broken, sent, rl, alive>>
    BY <1>2, <1>10 DEF queueRequest, peerVars, loopVars
  <2>2. \A q : (Pooled(q)' <=> Pooled(q)) /\ (PooledOnce(q)' <=> PooledOnce(q))
    BY <2>1 DEF Pooled, PooledOnce
  <2>3. \A d \in Conns \ {c} : reqch'[d] = reqch[d]
    BY <1>0, <2>1 DEF Shapes
  <2>4. \A d \in Conns \ {c} : Good(d)'
    BY <1>3, <1>4, <1>5, <2>1, <2>2, <2>3, Apart
  <2>5. /\ Holds(u, c) /\ ~Ends(u, c)' /\ ~Waits(u, c) /\ ans[u] = "none"
        /\ Waits(u, c)' /\ Wrote(u, c)' /\ Holds(u, c)' /\ pc'[u] = "wait"
    BY <1>0, <1>2, <1>3, <2>1 DEF Typed, Holds, Ends, Wrote, Waits, AnswerAwaited
  <2>6. AnswerAwaited'
    BY <1>0, <1>3, <2>1 DEF AnswerAwaited, Typed
  <2>7. BodyAwaited(c)'
    BY <1>6, <1>7, <2>1, <2>5 DEF Good, BodyAwaited
  <2>8. EndsUnpooled(c)'
    BY <1>7, <2>1, <2>2 DEF Good, EndsUnpooled
  <2>9. ASSUME rl[c] # "fnsend" PROVE OneHolder(c)' /\ PooledOnce(c)' /\ QueueAwaited(c)'
    <3>1. OneHolder(c) /\ PooledOnce(c) /\ QueueAwaited(c)
      BY <1>7, <2>9 DEF Good
    <3>2. OneHolder(c)'
      BY <1>6, <2>2, <2>5, <3>1 DEF OneHolder
    <3>3. ASSUME NEW v \in Callers PROVE ~Waits(v, c)
      <4>1. Waits(v, c) => v = u
        BY <2>5, <3>1, WroteHolds DEF OneHolder, Wrote
      <4> QED
        BY <2>5, <4>1
    <3>4. reqch[c] = <<>> /\ rl[c] \notin {"read", "fnput"}
      BY <1>8, <3>1, <3>3 DEF QueueAwaited
    <3>5. reqch'[c] = <<u>>
      BY <1>0, <2>1, <3>4 DEF Shapes
    <3>6. QueueAwaited(c)'
      BY <2>1, <2>5, <3>4, <3>5 DEF QueueAwaited
    <3> QED
      BY <2>2, <3>1, <3>2, <3>6
  <2>10. ASSUME rl[c] \notin {"fnsend", "dead"} PROVE WireAwaited(c)'
    <3>1. WireAwaited(c)
      BY <1>7, <2>10 DEF Good
    <3> QED
      BY <1>3, <1>6, <1>8, <2>1, <2>5, <3>1 DEF WireAwaited
  <2>11. Good(c)'
    BY <2>1, <2>7, <2>8, <2>9, <2>10 DEF Good
  <2> QED
    BY <2>4, <2>6, <2>11 DEF Exclusive
<1>11. CASE fnPut(u)
  <2>1. /\ pc[u] = "fnput" /\ pc' = [pc EXCEPT ![u] = "fnsend"]
        /\ putIdleConn(c)
        /\ alive' = [alive EXCEPT ![c] = @ /\ CanPool(c)]
        /\ UNCHANGED <<reqch, sent, rl>>
    BY <1>2, <1>11 DEF fnPut, peerVars
  <2>2. /\ Holds(u, c) /\ Ends(u, c) /\ ~Holds(u, c)' /\ ~Waits(u, c) /\ ~Wrote(u, c)
        /\ pc'[u] = "fnsend"
    BY <1>0, <1>2, <1>3, <2>1 DEF Typed, Holds, Ends, Wrote, Waits
  <2>3. rl[c] = "waitbody"
    BY <1>7, <2>2 DEF Good, BodyAwaited
  <2>4. OneHolder(c) /\ ~Pooled(c)
    BY <1>7, <2>2, <2>3 DEF Good, OneHolder
  <2>5. /\ \A d \in Conns \ {c} : /\ Pooled(d)' <=> Pooled(d)
                                  /\ PooledOnce(d) => PooledOnce(d)'
                                  /\ broken'[d] = broken[d]
        /\ PooledOnce(c)'
        /\ broken[c] => broken'[c]
        /\ ~CanPool(c) => broken'[c]
    BY <1>2, <2>1, <2>4, Put
  <2>6. (\A d \in Conns \ {c} : alive'[d] = alive[d]) /\ (~alive'[c] => ~alive[c] \/ ~CanPool(c))
    BY <1>0, <2>1 DEF Shapes
  <2>7. \A d \in Conns \ {c} : Good(d)'
    BY <1>3, <1>4, <1>5, <2>1, <2>5, <2>6, Apart
  <2>8. AnswerAwaited'
    BY <1>0, <1>3, <2>1 DEF AnswerAwaited, Typed
  <2>9. BodyAwaited(c)'
    BY <1>6, <1>7, <2>1, <2>2, <2>3 DEF Good, BodyAwaited
  <2>10. EndsUnpooled(c)'
    BY <1>7, <2>1, <2>3, <2>5, <2>6 DEF Good, EndsUnpooled
  <2>11. OneHolder(c)'
    BY <1>6, <2>2, <2>4 DEF OneHolder
  <2>12. QueueAwaited(c)'
    BY <1>6, <1>7, <1>8, <2>1, <2>2, <2>3 DEF Good, QueueAwaited
  <2>13. WireAwaited(c)'
    BY <1>3, <1>6, <1>7, <1>8, <2>1, <2>2, <2>3 DEF Good, WireAwaited
  <2>14. Good(c)'
    BY <2>5, <2>9, <2>10, <2>11, <2>12, <2>13 DEF Good
  <2> QED
    BY <2>7, <2>8, <2>14 DEF Exclusive
<1>12. CASE fnSend(u)
  <2>1. /\ pc[u] = "fnsend" /\ pc' = [pc EXCEPT ![u] = "clear"]
        /\ rl[c] = "waitbody"
        /\ rl' = [rl EXCEPT ![c] = IF alive[c] THEN "peek" ELSE "dead"]
        /\ UNCHANGED <<idle, broken, reqch, sent, alive>>
    BY <1>2, <1>12 DEF fnSend, connVars, peerVars
  <2>2. /\ ~Holds(u, c)' /\ Ends(u, c) /\ ~Ends(u, c)' /\ ~Waits(u, c) /\ ~Wrote(u, c)
        /\ pc'[u] = "clear"
    BY <1>0, <1>2, <1>3, <2>1 DEF Typed, Holds, Ends, Wrote, Waits
  <2>3. \A q : (Pooled(q)' <=> Pooled(q)) /\ (PooledOnce(q)' <=> PooledOnce(q))
    BY <2>1 DEF Pooled, PooledOnce
  <2>4. /\ \A d \in Conns \ {c} : rl'[d] = rl[d]
        /\ rl'[c] \in {"peek", "dead"} /\ (rl'[c] = "dead" => ~alive[c])
    BY <1>0, <2>1 DEF Typed
  <2>5. \A d \in Conns \ {c} : Good(d)'
    BY <1>3, <1>4, <1>5, <2>1, <2>3, <2>4, Apart
  <2>6. AnswerAwaited'
    BY <1>0, <1>3, <2>1 DEF AnswerAwaited, Typed
  <2>7. BodyAwaited(c)'
    BY <1>6, <1>7, <2>2 DEF Good, BodyAwaited
  <2>8. EndsUnpooled(c)'
    BY <1>7, <2>1, <2>3, <2>4 DEF Good, EndsUnpooled
  <2>9. OneHolder(c)'
    BY <1>6, <1>7, <2>1, <2>2, <2>3 DEF Good, OneHolder
  <2>10. QueueAwaited(c)'
    BY <1>6, <1>7, <1>8, <2>1, <2>2, <2>4 DEF Good, QueueAwaited
  <2>11. WireAwaited(c)'
    BY <1>3, <1>6, <1>7, <1>8, <2>1, <2>2 DEF Good, WireAwaited
  <2>12. Good(c)'
    BY <1>7, <2>1, <2>3, <2>7, <2>8, <2>9, <2>10, <2>11 DEF Good
  <2> QED
    BY <2>5, <2>6, <2>12 DEF Exclusive
<1> QED
  BY <1>9, <1>10, <1>11, <1>12

\* A step of c's readLoop or of its peer, of which the callers see nothing yet.
LEMMA LoopApart ==
  ASSUME XInv, NEW c \in Conns, UNCHANGED <<pc, conn, ans>>,
         \A d \in Conns \ {c} :
           /\ reqch'[d] = reqch[d] /\ answered'[d] = answered[d] /\ sent'[d] \in {sent[d], <<>>}
           /\ rl'[d] = rl[d] /\ cur'[d] = cur[d] /\ alive'[d] = alive[d]
           /\ broken[d] => broken'[d]
           /\ (Pooled(d)' => Pooled(d)) /\ (PooledOnce(d) => PooledOnce(d)'),
         Good(c)'
  PROVE  Exclusive'
<1>1. AnswerAwaited'
  BY Parts DEF AnswerAwaited
<1>2. \A u, d : /\ Holds(u, d)' <=> Holds(u, d)
                /\ Ends(u, d)' <=> Ends(u, d)
                /\ Waits(u, d)' <=> Waits(u, d)
                /\ Wrote(u, d)' <=> Wrote(u, d)
  BY DEF Holds, Ends, Waits, Wrote
<1>3. ASSUME NEW d \in Conns \ {c} PROVE Good(d)'
  BY <1>2, Relax
<1> QED
  BY <1>1, <1>3 DEF Exclusive

\* A sequence of at most one element that is not empty.
LEMMA OneElement ==
  ASSUME NEW S, NEW s \in Seq(S), s # <<>>, Len(s) <= 1
  PROVE  /\ Len(s) = 1 /\ Head(s) = s[1] /\ s[1] \in S
         /\ Tail(s) = <<>>
<1>1. Len(s) \in Nat \ {0}
  BY EmptySeq
<1>2. Len(s) = 1
  BY <1>1
<1>3. Tail(s) \in Seq(S) /\ Len(Tail(s)) = 0
  BY <1>2, HeadTailProperties
<1>4. Tail(s) = <<>>
  BY <1>3, EmptySeq
<1> QED
  BY <1>2, <1>4

\* The readLoop on its way to the next answer.
LEMMA LoopGood ==
  ASSUME XInv, NEW c \in Conns, peek(c) \/ recvRequest(c) \/ closeLastBody(c) \/ peerAnswers(c)
  PROVE  Exclusive'
<1>0. Typed /\ Shapes /\ AnswerAwaited /\ Good(c)
  BY Parts
<1>1. UNCHANGED <<pc, conn, ans>>
  BY DEF peek, recvRequest, closeLastBody, peerAnswers, callerVars
<1>2. \A u, d : /\ Holds(u, d)' <=> Holds(u, d)
                /\ Ends(u, d)' <=> Ends(u, d)
                /\ Waits(u, d)' <=> Waits(u, d)
                /\ Wrote(u, d)' <=> Wrote(u, d)
  BY <1>1 DEF Holds, Ends, Waits, Wrote
<1>3. /\ reqch[c] \in Seq(Callers) /\ sent[c] \in Seq(Callers) /\ answered[c] \in Seq(Callers)
  BY <1>0 DEF Shapes
<1>4. CASE peek(c)
  <2>1. /\ rl[c] = "peek"
        /\ UNCHANGED <<idle, reqch, sent, answered, cur, alive>>
    BY <1>4 DEF peek, peerVars
  <2>2. \/ broken' = [broken EXCEPT ![c] = TRUE] /\ rl' = [rl EXCEPT ![c] = "dead"]
        \/ broken' = broken /\ rl' = [rl EXCEPT ![c] = "recv"]
    BY <1>4 DEF peek
  <2>3. \A q : (Pooled(q)' <=> Pooled(q)) /\ (PooledOnce(q)' <=> PooledOnce(q))
    BY <2>1 DEF Pooled, PooledOnce
  <2>4. /\ \A d \in Conns \ {c} : rl'[d] = rl[d] /\ broken'[d] = broken[d]
        /\ broken[c] => broken'[c]
        /\ rl'[c] \in {"dead", "recv"} /\ (rl'[c] = "dead" => broken'[c])
    BY <1>0, <2>2 DEF Typed, Shapes
  <2>5. BodyAwaited(c)' /\ EndsUnpooled(c)'
    BY <1>0, <1>2, <2>1, <2>3, <2>4 DEF Good, BodyAwaited, EndsUnpooled
  <2>6. OneHolder(c)' /\ PooledOnce(c)'
    BY <1>0, <1>2, <2>1, <2>3 DEF Good, OneHolder
  <2>7. QueueAwaited(c)' /\ WireAwaited(c)'
    BY <1>0, <1>2, <2>1, <2>4 DEF Good, QueueAwaited, WireAwaited
  <2>8. Good(c)'
    BY <2>5, <2>6, <2>7 DEF Good
  <2> QED
    BY <1>1, <2>1, <2>3, <2>4, <2>8, LoopApart
<1>5. CASE recvRequest(c)
  <2>1. /\ rl[c] = "recv" /\ reqch[c] # <<>>
        /\ cur' = [cur EXCEPT ![c] = Head(reqch[c])]
        /\ reqch' = [reqch EXCEPT ![c] = Tail(@)]
        /\ rl'[c] \in {"fnput", "read"} /\ \A d \in Conns \ {c} : rl'[d] = rl[d]
        /\ UNCHANGED <<idle, broken, sent, answered, alive>>
    BY <1>0, <1>5 DEF recvRequest, peerVars, Typed
  <2>2. \A q : (Pooled(q)' <=> Pooled(q)) /\ (PooledOnce(q)' <=> PooledOnce(q))
    BY <2>1 DEF Pooled, PooledOnce
  <2>3. /\ \A d \in Conns \ {c} : cur'[d] = cur[d] /\ reqch'[d] = reqch[d]
        /\ cur'[c] = Head(reqch[c]) /\ reqch'[c] = Tail(reqch[c])
    BY <1>0, <2>1 DEF Shapes
  <2>4. /\ OneHolder(c) /\ PooledOnce(c) /\ QueueAwaited(c) /\ WireAwaited(c)
        /\ BodyAwaited(c) /\ EndsUnpooled(c)
    BY <1>0, <2>1 DEF Good
  <2>5. /\ Len(reqch[c]) = 1 /\ Head(reqch[c]) = reqch[c][1]
        /\ reqch[c][1] \in Callers /\ Tail(reqch[c]) = <<>>
    BY <1>3, <2>1, <2>4, OneElement DEF QueueAwaited
  <2>6. QueueAwaited(c)'
    <3>1. PICK u \in Callers : u = reqch[c][1]
      BY <2>5
    <3>2. Waits(u, c)
      BY <2>4, <2>5, <3>1 DEF QueueAwaited
    <3>3. reqch'[c] = <<>> /\ cur'[c] = u /\ Waits(u, c)'
      BY <1>2, <2>3, <2>5, <3>1, <3>2
    <3> QED
      BY <3>3 DEF QueueAwaited
  <2>7. BodyAwaited(c)' /\ EndsUnpooled(c)'
    BY <1>2, <2>1, <2>2, <2>4 DEF BodyAwaited, EndsUnpooled
  <2>8. OneHolder(c)' /\ PooledOnce(c)' /\ WireAwaited(c)'
    BY <1>2, <2>1, <2>2, <2>4 DEF OneHolder, WireAwaited
  <2>9. Good(c)'
    BY <2>6, <2>7, <2>8 DEF Good
  <2> QED
    BY <1>1, <2>1, <2>2, <2>3, <2>9, LoopApart
<1>6. CASE closeLastBody(c)
  <2>1. /\ rl[c] = "fnput" /\ UNCHANGED <<reqch, sent, answered, cur>>
    BY <1>6 DEF closeLastBody, peerVars
  <2>2. /\ OneHolder(c) /\ PooledOnce(c) /\ QueueAwaited(c) /\ WireAwaited(c)
        /\ BodyAwaited(c) /\ EndsUnpooled(c)
    BY <1>0, <2>1 DEF Good
  <2>3. CASE lastbody[c] = NoCaller
    <3>1. rl' = [rl EXCEPT ![c] = "read"] /\ UNCHANGED <<idle, broken, alive>>
      BY <1>6, <2>3 DEF closeLastBody
    <3>2. \A q : (Pooled(q)' <=> Pooled(q)) /\ (PooledOnce(q)' <=> PooledOnce(q))
      BY <3>1 DEF Pooled, PooledOnce
    <3>3. rl'[c] = "read" /\ \A d \in Conns \ {c} : rl'[d] = rl[d]
      BY <1>0, <3>1 DEF Typed
    <3>4. BodyAwaited(c)' /\ EndsUnpooled(c)' /\ OneHolder(c)'
      BY <1>2, <2>1, <2>2, <3>1, <3>2, <3>3 DEF BodyAwaited, EndsUnpooled, OneHolder
    <3>5. QueueAwaited(c)' /\ WireAwaited(c)'
      BY <1>2, <2>1, <2>2, <3>3 DEF QueueAwaited, WireAwaited
    <3>6. Good(c)'
      BY <2>2, <3>2, <3>4, <3>5 DEF Good
    <3> QED
      BY <1>1, <2>1, <3>1, <3>2, <3>3, <3>6, LoopApart
  <2>4. CASE lastbody[c] # NoCaller
    <3>1. /\ putIdleConn(c) /\ rl' = [rl EXCEPT ![c] = "fnsend"]
          /\ alive' = [alive EXCEPT ![c] = @ /\ CanPool(c)]
      BY <1>6, <2>4 DEF closeLastBody
    <3>2. /\ \A d \in Conns \ {c} : /\ Pooled(d)' <=> Pooled(d)
                                    /\ PooledOnce(d) => PooledOnce(d)'
                                    /\ broken'[d] = broken[d]
          /\ broken[c] => broken'[c]
          /\ ~CanPool(c) => broken'[c]
      BY <2>1, <3>1, Put
    <3>3. rl'[c] = "fnsend" /\ \A d \in Conns \ {c} : rl'[d] = rl[d]
      BY <1>0, <3>1 DEF Typed
    <3>4. (\A d \in Conns \ {c} : alive'[d] = alive[d]) /\ (~alive'[c] => ~alive[c] \/ ~CanPool(c))
      BY <1>0, <3>1 DEF Shapes
    <3>5. BodyAwaited(c)' /\ EndsUnpooled(c)'
      BY <1>2, <2>1, <2>2, <3>2, <3>3, <3>4 DEF BodyAwaited, EndsUnpooled
    <3>6. Good(c)'
      BY <3>3, <3>5 DEF Good
    <3> QED
      BY <1>1, <2>1, <3>2, <3>3, <3>4, <3>6, LoopApart
  <2> QED
    BY <2>3, <2>4
<1>7. CASE peerAnswers(c)
  <2>1. /\ sent[c] # <<>>
        /\ answered' = [answered EXCEPT ![c] = Append(@, Head(sent[c]))]
        /\ sent' = [sent EXCEPT ![c] = Tail(@)]
        /\ UNCHANGED <<idle, broken, reqch, rl, cur, alive>>
    BY <1>7 DEF peerAnswers, connVars, loopVars
  <2>2. \A q : (Pooled(q)' <=> Pooled(q)) /\ (PooledOnce(q)' <=> PooledOnce(q))
    BY <2>1 DEF Pooled, PooledOnce
  <2>3. /\ \A d \in Conns \ {c} : answered'[d] = answered[d] /\ sent'[d] = sent[d]
        /\ answered'[c] = Append(answered[c], Head(sent[c])) /\ sent'[c] = Tail(sent[c])
    BY <1>0, <2>1 DEF Shapes
  <2>4. BodyAwaited(c)' /\ EndsUnpooled(c)'
    BY <1>0, <1>2, <2>1, <2>2 DEF Good, BodyAwaited, EndsUnpooled
  <2>5. rl[c] # "fnsend" => OneHolder(c)' /\ PooledOnce(c)' /\ QueueAwaited(c)'
    BY <1>0, <1>2, <2>1, <2>2 DEF Good, OneHolder, QueueAwaited
  <2>6. ASSUME rl[c] \notin {"fnsend", "dead"} PROVE WireAwaited(c)'
    <3>1. WireAwaited(c)
      BY <1>0, <2>6 DEF Good
    <3>2. Len(sent[c]) <= 1 /\ Len(answered[c]) + Len(sent[c]) <= 1
      <4>1. Len(answered[c]) + Len(sent[c]) <= 1
        BY <3>1 DEF WireAwaited
      <4>2. Len(answered[c]) \in Nat /\ Len(sent[c]) \in Nat
        BY <1>3, LenProperties
      <4>3. \A a, b \in Nat : a + b <= 1 => b <= 1
        OBVIOUS
      <4> QED
        BY <4>1, <4>2, <4>3, Zenon
    <3>3. /\ Len(sent[c]) = 1 /\ Head(sent[c]) = sent[c][1]
          /\ sent[c][1] \in Callers /\ Tail(sent[c]) = <<>>
      BY <1>3, <2>1, <3>2, OneElement
    <3>u. PICK u \in Callers : u = sent[c][1] /\ Wrote(u, c)
      BY <3>1, <3>3 DEF WireAwaited
    <3>4. answered'[c] = <<u>> /\ sent'[c] = <<>>
      <4>1. answered[c] = <<>>
        <5>1. ~(answered[c] # <<>>)
          BY <1>3, <3>2, <3>3, EmptySeq
        <5> QED
          BY <5>1
      <4> QED
        BY <2>3, <3>3, <3>u, <4>1
    <3>5. Wrote(u, c)'
      BY <1>2, <3>u
    <3> QED
      BY <3>4, <3>5 DEF WireAwaited
  <2>7. Good(c)'
    BY <2>1, <2>4, <2>5, <2>6 DEF Good
  <2> QED
    BY <1>1, <2>1, <2>2, <2>3, <2>7, LoopApart
<1> QED
  BY <1>4, <1>5, <1>6, <1>7

\* The readLoop gives an answer to the caller that waits for it.
LEMMA AnswerGood ==
  ASSUME XInv, NEW c \in Conns, NEW kind \in Kinds, readResponse(c, kind)
  PROVE  Exclusive'
<1>0. Typed /\ Shapes /\ AnswerAwaited /\ Good(c)
  BY Parts
<1>1. rl[c] = "read" /\ UNCHANGED <<reqch, sent, pc, conn>>
  BY DEF readResponse
<1>2. /\ OneHolder(c) /\ PooledOnce(c) /\ QueueAwaited(c) /\ WireAwaited(c)
      /\ BodyAwaited(c) /\ EndsUnpooled(c)
  BY <1>0, <1>1 DEF Good
<1>3. PICK u \in Callers : u = cur[c] /\ Waits(u, c) /\ reqch[c] = <<>>
  BY <1>1, <1>2 DEF QueueAwaited
<1>4. /\ ans' = [ans EXCEPT ![u] = kind]
      /\ cur' = [cur EXCEPT ![c] = NoCaller]
      /\ answered' = [answered EXCEPT ![c] = Tail(@)] \/ answered' = answered
  BY <1>3 DEF readResponse
<1>5. /\ \A v \in Callers \ {u} : pc'[v] = pc[v] /\ conn'[v] = conn[v] /\ ans'[v] = ans[v]
      /\ ans'[u] = kind /\ pc'[u] = "wait" /\ conn'[u] = c /\ conn[u] = c
  BY <1>0, <1>1, <1>3, <1>4 DEF Shapes, Waits
<1>6. \A v \in Callers \ {u} : /\ Holds(v, c)' <=> Holds(v, c)
                               /\ Ends(v, c)' <=> Ends(v, c)
                               /\ Waits(v, c)' <=> Waits(v, c)
                               /\ Wrote(v, c)' <=> Wrote(v, c)
  BY <1>5 DEF Holds, Ends, Waits, Wrote
<1>7. \A d \in Conns \ {c} : /\ cur'[d] = cur[d] /\ answered'[d] = answered[d]
                             /\ ~Holds(u, d)' /\ ~Ends(u, d)' /\ ~Wrote(u, d)
  BY <1>0, <1>4, <1>5 DEF Shapes, Holds, Ends, Wrote, Waits
<1>8. Holds(u, c) /\ ~Ends(u, c)
  BY <1>3 DEF Holds, Ends, Waits
<1>9. \A v \in Callers : ~Ends(v, c)
  BY <1>1, <1>2 DEF BodyAwaited
<1>10. ~Pooled(c) /\ \A v \in Callers \ {u} : ~Holds(v, c)
  BY <1>2, <1>8 DEF OneHolder
<1>11. AnswerAwaited'
  BY <1>0, <1>1, <1>5 DEF AnswerAwaited
<1>12. kind # "bad" => answered'[c] = <<>> /\ sent[c] = <<>>
  <2> SUFFICES ASSUME kind # "bad" PROVE answered'[c] = <<>> /\ sent[c] = <<>>
    OBVIOUS
  <2>1. answered[c] # <<>> /\ answered' = [answered EXCEPT ![c] = Tail(@)]
    BY DEF readResponse
  <2>2. answered[c] \in Seq(Callers) /\ sent[c] \in Seq(Callers)
    BY <1>0 DEF Shapes
  <2>3. Len(answered[c]) + Len(sent[c]) <= 1
    BY <1>2 DEF WireAwaited
  <2>4. Len(answered[c]) \in Nat \ {0} /\ Len(sent[c]) \in Nat
    BY <2>1, <2>2, EmptySeq, LenProperties
  <2>5. \A a, b \in Nat : a # 0 /\ a + b <= 1 => a <= 1 /\ b = 0
    OBVIOUS
  <2>6. Len(answered[c]) <= 1 /\ Len(sent[c]) = 0
    BY <2>3, <2>4, <2>5
  <2>7. Tail(answered[c]) = <<>>
    BY <2>1, <2>2, <2>6, OneElement
  <2>8. sent[c] = <<>>
    BY <2>2, <2>6, EmptySeq
  <2>9. answered'[c] = Tail(answered[c])
    BY <1>0, <2>1 DEF Shapes
  <2> QED
    BY <2>7, <2>8, <2>9
<1>13. CASE kind = "body"
  <2>1. rl' = [rl EXCEPT ![c] = "waitbody"] /\ UNCHANGED <<idle, broken, alive>>
    BY <1>13 DEF readResponse
  <2>2. rl'[c] = "waitbody" /\ \A d \in Conns \ {c} : rl'[d] = rl[d]
    BY <1>0, <2>1 DEF Typed
  <2>3. \A q : (Pooled(q)' <=> Pooled(q)) /\ (PooledOnce(q)' <=> PooledOnce(q))
    BY <2>1 DEF Pooled, PooledOnce
  <2>4. \A d \in Conns \ {c} : Good(d)'
    BY <1>1, <1>5, <1>7, <2>1, <2>2, <2>3, Apart
  <2>5. \A v \in Callers : Ends(v, c)' => v = u
    BY <1>6, <1>9
  <2>6. BodyAwaited(c)'
    BY <2>2, <2>5 DEF BodyAwaited
  <2>7. EndsUnpooled(c)'
    BY <1>1, <1>2, <2>1, <2>2 DEF EndsUnpooled
  <2>8. OneHolder(c)' /\ PooledOnce(c)'
    BY <1>2, <1>6, <1>10, <2>3 DEF OneHolder
  <2>9. QueueAwaited(c)'
    BY <1>1, <1>3, <2>2 DEF QueueAwaited
  <2>10. WireAwaited(c)'
    <3>1. answered'[c] = <<>> /\ sent'[c] = <<>>
      BY <1>1, <1>12, <1>13
    <3> QED
      BY <3>1 DEF WireAwaited
  <2>11. Good(c)'
    BY <2>6, <2>7, <2>8, <2>9, <2>10 DEF Good
  <2> QED
    BY <1>11, <2>4, <2>11 DEF Exclusive
<1>14. CASE kind = "empty"
  <2>1. /\ putIdleConn(c) /\ alive' = [alive EXCEPT ![c] = CanPool(c)]
        /\ rl' = [rl EXCEPT ![c] = IF CanPool(c) THEN "peek" ELSE "dead"]
    BY <1>14 DEF readResponse
  <2>2. /\ rl'[c] \in {"peek", "dead"} /\ (rl'[c] = "dead" => ~CanPool(c))
        /\ \A d \in Conns \ {c} : rl'[d] = rl[d]
    BY <1>0, <2>1 DEF Typed
  <2>3. (~alive'[c] => ~CanPool(c)) /\ \A d \in Conns \ {c} : alive'[d] = alive[d]
    BY <1>0, <2>1 DEF Shapes
  <2>4. /\ \A d \in Conns \ {c} : /\ Pooled(d)' <=> Pooled(d)
                                  /\ PooledOnce(d) => PooledOnce(d)'
                                  /\ broken'[d] = broken[d]
        /\ PooledOnce(c)'
        /\ ~CanPool(c) => broken'[c]
    BY <1>1, <1>10, <2>1, Put
  <2>5. \A d \in Conns \ {c} : Good(d)'
    BY <1>1, <1>5, <1>7, <2>2, <2>3, <2>4, Apart
  <2>6. ~Holds(u, c)' /\ ~Ends(u, c)'
    BY <1>5, <1>14 DEF Holds, Ends
  <2>7. BodyAwaited(c)'
    BY <1>6, <1>9, <2>6 DEF BodyAwaited
  <2>8. EndsUnpooled(c)'
    BY <2>2, <2>3, <2>4 DEF EndsUnpooled
  <2>9. OneHolder(c)'
    BY <1>6, <1>10, <2>6 DEF OneHolder
  <2>10. QueueAwaited(c)'
    BY <1>1, <1>3, <2>2 DEF QueueAwaited
  <2>11. WireAwaited(c)'
    <3>1. answered'[c] = <<>> /\ sent'[c] = <<>>
      BY <1>1, <1>12, <1>14
    <3> QED
      BY <3>1 DEF WireAwaited
  <2>12. Good(c)'
    BY <2>4, <2>7, <2>8, <2>9, <2>10, <2>11 DEF Good
  <2> QED
    BY <1>11, <2>5, <2>12 DEF Exclusive
<1>15. CASE kind \in {"last", "bad"}
  <2>1. /\ broken' = [broken EXCEPT ![c] = @ \/ kind = "bad"]
        /\ alive' = [alive EXCEPT ![c] = FALSE]
        /\ rl' = [rl EXCEPT ![c] = "dead"]
        /\ idle' = idle
    BY <1>15 DEF readResponse
  <2>2. rl'[c] = "dead" /\ \A d \in Conns \ {c} : rl'[d] = rl[d]
    BY <1>0, <2>1 DEF Typed
  <2>3. \A d \in Conns \ {c} : alive'[d] = alive[d] /\ broken'[d] = broken[d]
    BY <1>0, <2>1 DEF Shapes
  <2>4. \A q : (Pooled(q)' <=> Pooled(q)) /\ (PooledOnce(q)' <=> PooledOnce(q))
    BY <2>1 DEF Pooled, PooledOnce
  <2>5. \A d \in Conns \ {c} : Good(d)'
    BY <1>1, <1>5, <1>7, <2>2, <2>3, <2>4, Apart
  <2>6. ~Holds(u, c)' /\ ~Ends(u, c)'
    BY <1>5, <1>15 DEF Holds, Ends
  <2>7. BodyAwaited(c)'
    BY <1>6, <1>9, <2>6 DEF BodyAwaited
  <2>8. EndsUnpooled(c)'
    BY <1>10, <2>2, <2>4 DEF EndsUnpooled
  <2>9. OneHolder(c)' /\ PooledOnce(c)'
    BY <1>2, <1>6, <1>10, <2>4, <2>6 DEF OneHolder
  <2>10. QueueAwaited(c)'
    BY <1>1, <1>3, <2>2 DEF QueueAwaited
  <2>11. Good(c)'
    BY <2>2, <2>7, <2>8, <2>9, <2>10 DEF Good
  <2> QED
    BY <1>11, <2>5, <2>11 DEF Exclusive
<1> QED
  BY <1>13, <1>14, <1>15 DEF Kinds

\* Closing the idle connections, and a peer that closes.
LEMMA ClosedGood ==
  ASSUME XInv,
         CloseIdleConnections \/ (\E c \in Conns : peerCloses(c)) \/ UNCHANGED vars
  PROVE  Exclusive'
<1>0. Typed /\ Shapes /\ AnswerAwaited
  BY Parts
<1>1. UNCHANGED <<reqch, answered, rl, cur, alive, pc, conn, ans>>
  BY DEF CloseIdleConnections, peerCloses, vars, connVars, peerVars, loopVars, callerVars
<1>2. \A k \in Keys : idle'[k] \in {idle[k], <<>>}
  BY DEF CloseIdleConnections, peerCloses, vars
<1>3. \A c \in Conns : broken[c] => broken'[c]
  BY DEF CloseIdleConnections, peerCloses, vars, connVars
<1>4. \A c \in Conns : sent'[c] \in {sent[c], <<>>}
  BY <1>0 DEF CloseIdleConnections, peerCloses, vars, peerVars, Shapes
<1>5. \A u, c : /\ Holds(u, c)' <=> Holds(u, c)
                /\ Ends(u, c)' <=> Ends(u, c)
                /\ Waits(u, c)' <=> Waits(u, c)
                /\ Wrote(u, c)' <=> Wrote(u, c)
  BY <1>1 DEF Holds, Ends, Waits, Wrote
<1>6. ASSUME NEW c \in Conns PROVE Good(c)'
  BY <1>1, <1>2, <1>3, <1>4, <1>5, PoolShrinks, Relax
<1>7. AnswerAwaited'
  BY <1>0, <1>1 DEF AnswerAwaited
<1> QED
  BY <1>6, <1>7 DEF Exclusive

\* putIdleConn marks a connection or leaves the marks alone.
LEMMA PutShape == ASSUME Shapes, NEW c \in Conns, putIdleConn(c) PROVE broken' \in [Conns -> BOOLEAN]
  BY DEF putIdleConn, Shapes

\* The types of what Exclusive speaks of.
LEMMA StepShapes == ASSUME XInv, [Next]_vars PROVE Shapes'
<1>0. Typed /\ Shapes /\ CallersDialed /\ \A c \in Conns : Good(c)
  BY Parts
<1> DEFINE Flags == broken' \in [Conns -> BOOLEAN] /\ alive' \in [Conns -> BOOLEAN]
           Queues == /\ reqch' \in [Conns -> Seq(Callers)] /\ sent' \in [Conns -> Seq(Callers)]
                     /\ answered' \in [Conns -> Seq(Callers)]
           Answers == /\ cur' \in [Conns -> Callers \cup {NoCaller}]
                      /\ ans' \in [Callers -> Kinds \cup {"none"}]
<1>1. ASSUME NEW u \in Callers, NEW k \in Keys, getIdleConnHit(u, k) \/ getIdleConnMiss(u, k)
      PROVE Shapes'
  BY <1>0, <1>1 DEF getIdleConnHit, getIdleConnMiss, connVars, peerVars, loopVars, Shapes
<1>2. ASSUME NEW u \in Callers, CallerStep(u) PROVE Shapes'
  <2>1. CASE \/ \E c \in Conns : dialConn(u, c)
             \/ dialFails(u) \/ expectResponse(u) \/ abandonBody(u) \/ fnSend(u) \/ clearFn(u)
             \/ \E how \in BodyEnds : finishBody(u, how)
    <3>1. UNCHANGED <<broken, alive, reqch, sent, answered, cur, ans>>
      BY <2>1 DEF dialConn, dialFails, expectResponse, abandonBody, fnSend, clearFn, finishBody,
                  connVars, peerVars, loopVars
    <3> QED
      BY <1>0, <3>1 DEF Shapes
  <2>2. CASE writeRequest(u) \/ queueRequest(u)
    <3>1. UNCHANGED <<broken, alive, answered, cur, ans>>
      BY <2>2 DEF writeRequest, queueRequest, connVars, peerVars, loopVars
    <3>2. PICK c \in Conns : c = conn[u]
      BY <1>0, <2>2 DEF writeRequest, queueRequest, CallersDialed
    <3>3. sent[c] \in Seq(Callers) /\ reqch[c] \in Seq(Callers)
      BY <1>0 DEF Shapes
    <3>4. Append(sent[c], u) \in Seq(Callers) /\ Append(reqch[c], u) \in Seq(Callers)
      BY <3>3
    <3>5. /\ sent' = sent \/ sent' = [sent EXCEPT ![c] = Append(sent[c], u)]
          /\ reqch' = reqch \/ reqch' = [reqch EXCEPT ![c] = Append(reqch[c], u)]
      BY <2>2, <3>2 DEF writeRequest, queueRequest, connVars, peerVars
    <3> QED
      BY <1>0, <3>1, <3>4, <3>5 DEF Shapes
  <2>3. CASE writeFails(u)
    <3>1. UNCHANGED <<alive, reqch, sent, answered, cur, ans>>
      BY <2>3 DEF writeFails, peerVars, loopVars
    <3>2. broken' \in [Conns -> BOOLEAN]
      BY <1>0, <2>3 DEF writeFails, Shapes
    <3> QED
      BY <1>0, <3>1, <3>2 DEF Shapes
  <2>4. CASE returnResponse(u)
    <3>1. UNCHANGED <<broken, alive, reqch, sent, answered, cur>>
      BY <2>4 DEF returnResponse, peerVars, loopVars
    <3>2. ans' \in [Callers -> Kinds \cup {"none"}]
      BY <1>0, <2>4 DEF returnResponse, Shapes
    <3> QED
      BY <1>0, <3>1, <3>2 DEF Shapes
  <2>5. CASE fnPut(u)
    <3>1. UNCHANGED <<reqch, sent, answered, cur, ans>>
      BY <2>5 DEF fnPut, peerVars
    <3>2. PICK c \in Conns : c = conn[u]
      BY <1>0, <2>5 DEF fnPut, CallersDialed
    <3>3. putIdleConn(c) /\ alive' = [alive EXCEPT ![c] = @ /\ CanPool(c)]
      BY <2>5, <3>2 DEF fnPut
    <3>4. broken' \in [Conns -> BOOLEAN]
      BY <1>0, <3>3, PutShape
    <3>5. alive' \in [Conns -> BOOLEAN]
      BY <1>0, <3>3 DEF Shapes
    <3> QED
      BY <1>0, <3>1, <3>4, <3>5 DEF Shapes
  <2> QED
    BY <1>2, <2>1, <2>2, <2>3, <2>4, <2>5 DEF CallerStep
<1>3. CASE CloseIdleConnections
  <2>1. UNCHANGED <<alive, reqch, sent, answered, cur, ans>>
    BY <1>3 DEF CloseIdleConnections, peerVars, loopVars, callerVars
  <2>2. broken' \in [Conns -> BOOLEAN]
    BY <1>0, <1>3 DEF CloseIdleConnections, Shapes
  <2> QED
    BY <1>0, <2>1, <2>2 DEF Shapes
<1>4. ASSUME NEW c \in Conns, ReadLoopStep(c) PROVE Shapes'
  <2>1. CASE peek(c)
    <3>1. UNCHANGED <<alive, reqch, sent, answered, cur, ans>>
      BY <2>1 DEF peek, peerVars, callerVars
    <3>2. broken' \in [Conns -> BOOLEAN]
      BY <1>0, <2>1 DEF peek, Shapes
    <3> QED
      BY <1>0, <3>1, <3>2 DEF Shapes
  <2>2. CASE recvRequest(c)
    <3>1. UNCHANGED <<broken, alive, sent, answered, ans>>
      BY <2>2 DEF recvRequest, peerVars
    <3>2. reqch[c] \in Seq(Callers) /\ reqch[c] # <<>>
      BY <1>0, <2>2 DEF recvRequest, Shapes
    <3>3. Head(reqch[c]) \in Callers /\ Tail(reqch[c]) \in Seq(Callers)
      BY <3>2, HeadTailProperties
    <3>4. /\ reqch' = [reqch EXCEPT ![c] = Tail(reqch[c])]
          /\ cur' = [cur EXCEPT ![c] = Head(reqch[c])]
      BY <2>2 DEF recvRequest
    <3> QED
      BY <1>0, <3>1, <3>3, <3>4 DEF Shapes
  <2>3. CASE closeLastBody(c)
    <3>1. UNCHANGED <<reqch, sent, answered, cur, ans>>
      BY <2>3 DEF closeLastBody, peerVars
    <3>2. \/ UNCHANGED <<broken, alive>>
          \/ putIdleConn(c) /\ alive' = [alive EXCEPT ![c] = @ /\ CanPool(c)]
      BY <2>3 DEF closeLastBody
    <3>3. Flags
      <4>1. putIdleConn(c) => broken' \in [Conns -> BOOLEAN]
        BY <1>0, PutShape
      <4> QED
        BY <1>0, <3>2, <4>1 DEF Shapes
    <3> QED
      BY <1>0, <3>1, <3>3 DEF Shapes
  <2>4. ASSUME NEW kind \in Kinds, readResponse(c, kind) PROVE Shapes'
    <3>1. UNCHANGED <<reqch, sent>>
      BY <2>4 DEF readResponse
    <3>2. answered' = answered \/ (answered[c] # <<>> /\ answered' = [answered EXCEPT ![c] = Tail(answered[c])])
      BY <2>4 DEF readResponse
    <3>3. answered' \in [Conns -> Seq(Callers)]
      <4>1. answered[c] # <<>> => Tail(answered[c]) \in Seq(Callers)
        BY <1>0, HeadTailProperties DEF Shapes
      <4> QED
        BY <1>0, <3>2, <4>1 DEF Shapes
    <3>4. Answers
      BY <1>0, <2>4 DEF readResponse, Shapes
    <3>5. broken' \in [Conns -> BOOLEAN]
      <4>1. putIdleConn(c) => broken' \in [Conns -> BOOLEAN]
        BY <1>0, PutShape
      <4>2. broken' = broken \/ broken' = [broken EXCEPT ![c] = @ \/ kind = "bad"] \/ putIdleConn(c)
        BY <2>4 DEF readResponse
      <4> QED
        BY <1>0, <4>1, <4>2 DEF Shapes
    <3>6. alive' \in [Conns -> BOOLEAN]
      <4>1. alive' = alive \/ alive' = [alive EXCEPT ![c] = CanPool(c)] \/ alive' = [alive EXCEPT ![c] = FALSE]
        BY <2>4 DEF readResponse
      <4>2. CanPool(c) \in BOOLEAN
        BY DEF CanPool
      <4> QED
        BY <1>0, <4>1, <4>2 DEF Shapes
    <3> QED
      BY <1>0, <3>1, <3>3, <3>4, <3>5, <3>6 DEF Shapes
  <2> QED
    BY <1>4, <2>1, <2>2, <2>3, <2>4 DEF ReadLoopStep
<1>5. ASSUME NEW c \in Conns, peerAnswers(c) PROVE Shapes'
  <2>1. UNCHANGED <<broken, alive, reqch, cur, ans>>
    BY <1>5 DEF peerAnswers, connVars, loopVars, callerVars
  <2>2. sent[c] \in Seq(Callers) /\ sent[c] # <<>> /\ answered[c] \in Seq(Callers)
    BY <1>0, <1>5 DEF peerAnswers, Shapes
  <2>3. Head(sent[c]) \in Callers /\ Tail(sent[c]) \in Seq(Callers)
    BY <2>2, HeadTailProperties
  <2>4. Append(answered[c], Head(sent[c])) \in Seq(Callers)
    BY <2>2, <2>3
  <2>5. /\ sent' = [sent EXCEPT ![c] = Tail(sent[c])]
        /\ answered' = [answered EXCEPT ![c] = Append(answered[c], Head(sent[c]))]
    BY <1>5 DEF peerAnswers
  <2> QED
    BY <1>0, <2>1, <2>3, <2>4, <2>5 DEF Shapes
<1>6. ASSUME NEW c \in Conns, peerCloses(c) PROVE Shapes'
  <2>1. UNCHANGED <<broken, alive, reqch, answered, cur, ans>> /\ sent' = [sent EXCEPT ![c] = <<>>]
    BY <1>6 DEF peerCloses, connVars, loopVars, callerVars
  <2>2. sent' \in [Conns -> Seq(Callers)]
    BY <1>0, <2>1, EmptySeq DEF Shapes
  <2> QED
    BY <1>0, <2>1, <2>2 DEF Shapes
<1>7. CASE UNCHANGED vars
  BY <1>0, <1>7 DEF vars, connVars, peerVars, loopVars, callerVars, Shapes
<1> QED
  BY <1>1, <1>2, <1>3, <1>4, <1>5, <1>6, <1>7 DEF Next

\* At the start no connection is dialed and no caller has one.
LEMMA InitX == Init => XInv
<1> SUFFICES ASSUME Init PROVE XInv
  OBVIOUS
<1>1. Shapes
  BY DEF Init, Shapes
<1>2. AnswerAwaited
  BY DEF Init, AnswerAwaited
<1>3. ASSUME NEW c \in Conns PROVE Good(c)
  <2>1. \A u \in Callers : ~Holds(u, c) /\ ~Ends(u, c)
    BY DEF Init, Holds, Ends
  <2>2. BodyAwaited(c) /\ OneHolder(c) /\ EndsUnpooled(c)
    BY <2>1 DEF Init, BodyAwaited, OneHolder, EndsUnpooled
  <2>3. PooledOnce(c)
    BY DEF Init, PooledOnce
  <2>4. QueueAwaited(c) /\ WireAwaited(c)
    BY DEF Init, QueueAwaited, WireAwaited
  <2> QED
    BY <2>2, <2>3, <2>4 DEF Good
<1> QED
  BY <1>1, <1>2, <1>3, InitInv DEF XInv, Exclusive

\* Every step keeps the invariant.
LEMMA StepX == XInv /\ [Next]_vars => XInv'
<1> SUFFICES ASSUME XInv, [Next]_vars PROVE XInv'
  OBVIOUS
<1>1. Inv' /\ Shapes'
  BY StepInv, StepShapes DEF XInv
<1>2. ASSUME NEW u \in Callers, NEW k \in Keys, getIdleConnHit(u, k) \/ getIdleConnMiss(u, k)
      PROVE Exclusive'
  BY <1>2, HitGood, QuietGood
<1>3. ASSUME NEW u \in Callers, CallerStep(u) PROVE Exclusive'
  <2>1. ASSUME NEW c \in Conns, dialConn(u, c) PROVE Exclusive'
    BY <2>1, DialGood
  <2>2. CASE writeRequest(u) \/ queueRequest(u) \/ fnPut(u) \/ fnSend(u)
    BY <2>2, CallerGood
  <2>3. CASE \/ dialFails(u) \/ expectResponse(u) \/ writeFails(u)
             \/ returnResponse(u) \/ abandonBody(u) \/ clearFn(u)
             \/ \E how \in BodyEnds : finishBody(u, how)
    <3>1. CASE Keys = {}
      <4>1. CallersDialed /\ KeysKnown /\ Typed
        BY Parts
      <4>2. pc[u] \notin {"idle", "dialing"} => conn[u] \in Conns /\ ckey[conn[u]] \in Keys
        BY <4>1 DEF CallersDialed, KeysKnown
      <4>3. pc[u] = "dialing" => tgt[u] \in Keys
        BY <4>1 DEF CallersDialed
      <4>4. pc[u] # "idle"
        BY <2>3 DEF dialFails, expectResponse, writeFails, returnResponse, abandonBody, clearFn,
                    finishBody
      <4> QED
        BY <3>1, <4>2, <4>3, <4>4
    <3>2. CASE Keys # {}
      BY <2>3, <3>2, QuietGood
    <3> QED
      BY <3>1, <3>2
  <2> QED
    BY <1>3, <2>1, <2>2, <2>3 DEF CallerStep
<1>4. ASSUME NEW c \in Conns, ReadLoopStep(c) \/ peerAnswers(c) \/ peerCloses(c) PROVE Exclusive'
  <2>1. ASSUME NEW kind \in Kinds, readResponse(c, kind) PROVE Exclusive'
    BY <2>1, AnswerGood
  <2> QED
    BY <1>4, <2>1, LoopGood, ClosedGood DEF ReadLoopStep
<1>5. ASSUME CloseIdleConnections PROVE Exclusive'
  BY <1>5, ClosedGood
<1>6. ASSUME UNCHANGED vars PROVE Exclusive'
  BY <1>6, ClosedGood
<1>7. ASSUME Next PROVE Exclusive'
  BY <1>2, <1>3, <1>4, <1>5, <1>7 DEF Next
<1>8. Exclusive'
  BY <1>6, <1>7
<1> QED
  BY <1>1, <1>8 DEF XInv

\* A connection whose readLoop is not stuck in fn is with one caller, in the
\* pool once, or neither, in whatever order callers and readLoops run.
THEOREM OneCallerAtATime == Spec => []PoolExclusive
<1>1. Init => XInv
  BY InitX
<1>2. XInv /\ [Next]_vars => XInv'
  BY StepX
<1>3. XInv => PoolExclusive
  <2> SUFFICES ASSUME XInv, NEW c \in {d \in Conns : rl[d] # "fnsend"}
               PROVE /\ \A k \in Keys : \A i, j \in 1..Len(idle[k]) :
                          idle[k][i] = c /\ idle[k][j] = c => i = j
                     /\ Pooled(c) => Exchange(c) = {}
                     /\ \A u, v \in Exchange(c) : u = v
    BY DEF PoolExclusive
  <2>1. OneHolder(c) /\ PooledOnce(c)
    BY Parts DEF Good
  <2>2. \A u \in Exchange(c) : u \in Callers /\ Holds(u, c)
    BY DEF Exchange, Holds
  <2>3. Pooled(c) => Exchange(c) = {}
    BY <2>1, <2>2 DEF OneHolder
  <2>4. \A u, v \in Exchange(c) : u = v
    BY <2>1, <2>2 DEF OneHolder
  <2> QED
    BY <2>1, <2>3, <2>4 DEF PooledOnce
<1> QED
  BY <1>1, <1>2, <1>3, PTL DEF Spec

\* A usable pooled connection always has a readLoop to serve it.
THEOREM PooledIsServed == Spec => []PoolServed
<1>1. Init => XInv
  BY InitX
<1>2. XInv /\ [Next]_vars => XInv'
  BY StepX
<1>3. XInv => PoolServed
  <2> SUFFICES ASSUME XInv, NEW c \in Conns, Pooled(c), ~broken[c]
               PROVE rl[c] \notin {"none", "dead"}
    BY DEF PoolServed
  <2>1. rl[c] # "dead"
    BY Parts DEF Good, EndsUnpooled
  <2>2. rl[c] # "none"
    BY Parts DEF PoolDialed, Pooled
  <2> QED
    BY <2>1, <2>2
<1> QED
  BY <1>1, <1>2, <1>3, PTL DEF Spec

\* The readLoop gives an answer to the caller whose request it answers.
THEOREM AnswersMatch == Spec => []AnswerForItsRequest
<1>1. Init => XInv
  BY InitX
<1>2. XInv /\ [Next]_vars => XInv'
  BY StepX
<1>3. XInv => AnswerForItsRequest
  <2> SUFFICES ASSUME XInv, NEW c \in Conns, rl[c] = "read", answered[c] # <<>>
               PROVE Head(answered[c]) = cur[c]
    BY DEF AnswerForItsRequest
  <2>1. OneHolder(c) /\ QueueAwaited(c) /\ WireAwaited(c)
    BY Parts DEF Good
  <2>2. answered[c] \in Seq(Callers)
    BY Parts DEF Shapes
  <2>3. Head(answered[c]) = answered[c][1] /\ 1 \in 1..Len(answered[c]) /\ answered[c][1] \in Callers
    BY <2>2
  <2>4. Holds(answered[c][1], c)
    BY <2>1, <2>3, WroteHolds DEF WireAwaited
  <2>5. cur[c] \in Callers /\ Holds(cur[c], c)
    BY <2>1, WroteHolds DEF QueueAwaited, Wrote
  <2> QED
    BY <2>1, <2>3, <2>4, <2>5 DEF OneHolder
<1> QED
  BY <1>1, <1>2, <1>3, PTL DEF Spec
=============================================================================
