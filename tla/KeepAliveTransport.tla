------------------------- MODULE KeepAliveTransport -------------------------
(***************************************************************************)
(* The keep-alive HTTP transport of transport/transport.go: the pool of    *)
(* idle persistConns (Transport.idleConn), the goroutines that call        *)
(* RoundTrip, and one readLoop goroutine per connection.                   *)
(*                                                                         *)
(* A caller's step ends where it gives up a lock, a channel operation or   *)
(* the socket; the steps of a readLoop likewise.  Response bytes, headers  *)
(* and gzip are abstracted to the kind of answer they amount to.           *)
(***************************************************************************)
EXTENDS Integers, Sequences

CONSTANTS Callers,             \* goroutines that call Transport.RoundTrip
          Conns,               \* identities of the connections ever dialed
          Keys,                \* cache keys, connectMethod.String()
          DisableKeepAlives,   \* Transport.DisableKeepAlives
          MaxIdleConnsPerHost, \* Transport.MaxIdleConnsPerHost
          PeerClosesIdle,      \* when the peer closes a connection it owes nothing:
                               \* "never", when it is "pooled", "always"
          BodyEnds,            \* how a caller finishes a body: "eof" (Read), "close"
          NoConn, NoCaller, NoKey

ASSUME TransportAssumption ==
  /\ DisableKeepAlives \in BOOLEAN
  /\ MaxIdleConnsPerHost \in Int
  /\ PeerClosesIdle \in {"never", "pooled", "always"}
  /\ BodyEnds \subseteq {"eof", "close"}
  /\ NoConn \notin Conns
  /\ NoCaller \notin Callers
  /\ NoKey \notin Keys
  /\ {"new", "pool", "gone"} \cap Callers = {}  \* where else Whereabouts may be

VARIABLES
  idle,       \* Transport.idleConn: Keys -> sequence of pooled connections
  ckey,       \* persistConn.cacheKey, NoKey before the connection is dialed
  broken,     \* persistConn.broken; the socket is closed when it is set
  num,        \* persistConn.numExpectedResponses
  reqch,      \* persistConn.reqch: callers whose request is queued
  sent,       \* requests the peer has received and not answered, oldest first
  answered,   \* answers in flight to the readLoop, oldest first
  peerClosed, \* the peer has closed its side
  rl,         \* where the connection's readLoop is
  cur,        \* the request the readLoop took from reqch
  lastbody,   \* owner of readLoop's lastbody while its fn field is not nil
  alive,      \* readLoop's alive flag
  pc,         \* where a caller is
  conn,       \* the connection a caller got from getConn
  tgt,        \* the key a caller asks for
  ans,        \* the caller's response channel (buffer of 1)
  closed,     \* bodyEOFSignal.isClosed of the caller's last body
  runs        \* how often fn has run for the caller's last body

connVars   == <<ckey, broken, num, reqch>>
peerVars   == <<sent, answered, peerClosed>>
loopVars   == <<rl, cur, lastbody, alive>>
callerVars == <<pc, conn, tgt, ans, closed, runs>>
vars == <<idle, connVars, peerVars, loopVars, callerVars>>

\* DefaultMaxIdleConnsPerHost and the capacity of persistConn.reqch.
DefaultMaxIdleConnsPerHost == 2
ReqchCap == 50

\* A zero MaxIdleConnsPerHost means the default.
MaxIdle == IF MaxIdleConnsPerHost = 0 THEN DefaultMaxIdleConnsPerHost
                                      ELSE MaxIdleConnsPerHost
PoolingOff == DisableKeepAlives \/ MaxIdleConnsPerHost < 0

\* What a readLoop makes of the bytes it reads: a response with a body to be
\* consumed, one without a body, one that ends the connection (resp.Close or
\* req.Close), or an error (truncated, malformed, or bad gzip).
Kinds == {"body", "empty", "last", "bad"}

ReadLoopAt == {"none", "peek", "recv", "read", "fnput", "fnsend", "waitbody", "dead"}
CallerAt   == {"idle", "dialing", "have", "counted", "written", "wait",
               "body", "fnput", "fnsend", "clear"}

TypeOK ==
  /\ idle \in [Keys -> Seq(Conns)]
  /\ ckey \in [Conns -> Keys \cup {NoKey}]
  /\ broken \in [Conns -> BOOLEAN]
  /\ num \in [Conns -> Nat]
  /\ reqch \in [Conns -> Seq(Callers)]
  /\ sent \in [Conns -> Seq(Callers)]
  /\ answered \in [Conns -> Seq(Callers)]
  /\ peerClosed \in [Conns -> BOOLEAN]
  /\ rl \in [Conns -> ReadLoopAt]
  /\ cur \in [Conns -> Callers \cup {NoCaller}]
  /\ lastbody \in [Conns -> Callers \cup {NoCaller}]
  /\ alive \in [Conns -> BOOLEAN]
  /\ pc \in [Callers -> CallerAt]
  /\ conn \in [Callers -> Conns \cup {NoConn}]
  /\ tgt \in [Callers -> Keys \cup {NoKey}]
  /\ ans \in [Callers -> Kinds \cup {"none"}]
  /\ closed \in [Callers -> BOOLEAN]
  /\ runs \in [Callers -> Nat]

Init ==
  /\ idle = [k \in Keys |-> <<>>]
  /\ ckey = [c \in Conns |-> NoKey]
  /\ broken = [c \in Conns |-> FALSE]
  /\ num = [c \in Conns |-> 0]
  /\ reqch = [c \in Conns |-> <<>>]
  /\ sent = [c \in Conns |-> <<>>]
  /\ answered = [c \in Conns |-> <<>>]
  /\ peerClosed = [c \in Conns |-> FALSE]
  /\ rl = [c \in Conns |-> "none"]
  /\ cur = [c \in Conns |-> NoCaller]
  /\ lastbody = [c \in Conns |-> NoCaller]
  /\ alive = [c \in Conns |-> TRUE]
  /\ pc = [u \in Callers |-> "idle"]
  /\ conn = [u \in Callers |-> NoConn]
  /\ tgt = [u \in Callers |-> NoKey]
  /\ ans = [u \in Callers |-> "none"]
  /\ closed = [u \in Callers |-> FALSE]
  /\ runs = [u \in Callers |-> 0]

-----------------------------------------------------------------------------
\* RoundTrip, and the caller's use of what it returned, is over: its local
\* variables are gone.
return(u) == /\ pc' = [pc EXCEPT ![u] = "idle"]
             /\ conn' = [conn EXCEPT ![u] = NoConn]
             /\ tgt' = [tgt EXCEPT ![u] = NoKey]

(* Transport.putIdleConn: under t.lk, pool c, or close it and refuse it.   *)

\* Mutant: the bound is off by one.
CanPoolOneMore(c) == ~PoolingOff /\ ~broken[c] /\ Len(idle[ckey[c]]) <= MaxIdle

CanPool(c) == /\ ~PoolingOff
              /\ ~broken[c]
              /\ Len(idle[ckey[c]]) < MaxIdle

putIdleConn(c) ==
  IF CanPool(c)
    THEN /\ idle' = [idle EXCEPT ![ckey[c]] = Append(@, c)]
         /\ UNCHANGED broken
    ELSE /\ broken' = [broken EXCEPT ![c] = TRUE]
         /\ UNCHANGED idle

(* Transport.getIdleConn: under t.lk, pop from the end, dropping every     *)
(* broken connection met on the way; an empty pool means a dial.           *)

Usable(k) == {i \in 1..Len(idle[k]) : ~broken[idle[k][i]]}

\* Mutant: the connection handed out stays in the pool.
getIdleConnKept(u, k) ==
  /\ pc[u] = "idle"
  /\ \E i \in Usable(k) : conn' = [conn EXCEPT ![u] = idle[k][i]]
  /\ tgt' = [tgt EXCEPT ![u] = k]
  /\ pc' = [pc EXCEPT ![u] = "have"]
  /\ UNCHANGED <<idle, connVars, peerVars, loopVars, ans, closed, runs>>

getIdleConnHit(u, k) ==
  /\ pc[u] = "idle"
  /\ \E i \in Usable(k) :
       /\ \A j \in Usable(k) : j <= i
       /\ conn' = [conn EXCEPT ![u] = idle[k][i]]
       /\ idle' = [idle EXCEPT ![k] = SubSeq(@, 1, i - 1)]
  /\ tgt' = [tgt EXCEPT ![u] = k]
  /\ pc' = [pc EXCEPT ![u] = "have"]
  /\ UNCHANGED <<connVars, peerVars, loopVars, ans, closed, runs>>

getIdleConnMiss(u, k) ==
  /\ pc[u] = "idle"
  /\ Usable(k) = {}
  /\ idle' = [idle EXCEPT ![k] = <<>>]
  /\ tgt' = [tgt EXCEPT ![u] = k]
  /\ pc' = [pc EXCEPT ![u] = "dialing"]
  /\ UNCHANGED <<connVars, peerVars, loopVars, conn, ans, closed, runs>>

\* The rest of getConn: dial (proxy CONNECT and TLS included), then start
\* the readLoop.  Conns bounds how many connections are ever dialed.
dialConn(u, c) ==
  /\ pc[u] = "dialing"
  /\ rl[c] = "none"
  /\ ckey' = [ckey EXCEPT ![c] = tgt[u]]
  /\ rl' = [rl EXCEPT ![c] = "peek"]
  /\ conn' = [conn EXCEPT ![u] = c]
  /\ pc' = [pc EXCEPT ![u] = "have"]
  /\ UNCHANGED <<idle, broken, num, reqch, peerVars, cur, lastbody, alive,
                 tgt, ans, closed, runs>>

dialFails(u) ==
  /\ pc[u] = "dialing"
  /\ return(u)
  /\ UNCHANGED <<idle, connVars, peerVars, loopVars, ans, closed, runs>>

\* CloseIdleConnections: close every pooled connection, then empty the pool.
Pooled(c) == \E k \in Keys : \E i \in 1..Len(idle[k]) : idle[k][i] = c

\* Mutant: the connections in use are closed with the idle ones.
CloseAllConnections ==
  /\ broken' = [c \in Conns |-> broken[c] \/ rl[c] # "none"]
  /\ idle' = [k \in Keys |-> <<>>]
  /\ UNCHANGED <<ckey, num, reqch, peerVars, loopVars, callerVars>>

CloseIdleConnections ==
  /\ broken' = [c \in Conns |-> broken[c] \/ Pooled(c)]
  /\ idle' = [k \in Keys |-> <<>>]
  /\ UNCHANGED <<ckey, num, reqch, peerVars, loopVars, callerVars>>

-----------------------------------------------------------------------------
(* persistConn.roundTrip.                                                  *)

expectResponse(u) ==
  /\ pc[u] = "have"
  /\ num' = [num EXCEPT ![conn[u]] = @ + 1]
  /\ pc' = [pc EXCEPT ![u] = "counted"]
  /\ UNCHANGED <<idle, ckey, broken, reqch, peerVars, loopVars,
                 conn, tgt, ans, closed, runs>>

\* Request.Write into the buffer and a Flush whose error is ignored: the
\* request is lost, silently, when either side has closed the socket.
writeRequest(u) ==
  LET c == conn[u] IN
  /\ pc[u] = "counted"
  /\ sent' = IF broken[c] \/ peerClosed[c] THEN sent
             ELSE [sent EXCEPT ![c] = Append(@, u)]
  /\ pc' = [pc EXCEPT ![u] = "written"]
  /\ UNCHANGED <<idle, connVars, answered, peerClosed, loopVars,
                 conn, tgt, ans, closed, runs>>

\* Request.Write fails (the request's own body, or a full buffer on a dead
\* socket): close and return; numExpectedResponses keeps its increment.
writeFails(u) ==
  /\ pc[u] = "counted"
  /\ broken' = [broken EXCEPT ![conn[u]] = TRUE]
  /\ return(u)
  /\ UNCHANGED <<idle, ckey, num, reqch, peerVars, loopVars,
                 ans, closed, runs>>

queueRequest(u) ==
  /\ pc[u] = "written"
  /\ Len(reqch[conn[u]]) < ReqchCap
  /\ reqch' = [reqch EXCEPT ![conn[u]] = Append(@, u)]
  /\ pc' = [pc EXCEPT ![u] = "wait"]
  /\ UNCHANGED <<idle, ckey, broken, num, peerVars, loopVars,
                 conn, tgt, ans, closed, runs>>

\* re := <-ch, the decrement, and the return to the caller, who must then
\* consume the body of a "body" answer.
returnResponse(u) ==
  /\ pc[u] = "wait"
  /\ ans[u] # "none"
  /\ num' = [num EXCEPT ![conn[u]] = @ - 1]
  /\ IF ans[u] = "body"
       THEN pc' = [pc EXCEPT ![u] = "body"] /\ UNCHANGED <<conn, tgt>>
       ELSE return(u)
  /\ ans' = [ans EXCEPT ![u] = "none"]
  /\ UNCHANGED <<idle, ckey, broken, reqch, peerVars, loopVars,
                 closed, runs>>

-----------------------------------------------------------------------------
(* The caller's side of bodyEOFSignal.                                     *)

\* Read returns io.EOF with fn set, or Close discards the rest and succeeds.
finishBody(u, how) ==
  /\ pc[u] = "body"
  /\ closed' = [closed EXCEPT ![u] = (how = "close")]
  /\ pc' = [pc EXCEPT ![u] = "fnput"]
  /\ UNCHANGED <<idle, connVars, peerVars, loopVars, conn, tgt, ans, runs>>

\* Mutant: the count goes down once more when the body fails.
abandonBodyUncounts(u) ==
  /\ pc[u] = "body"
  /\ num' = [num EXCEPT ![conn[u]] = @ - 1]
  /\ closed' = [closed EXCEPT ![u] = TRUE]
  /\ return(u)
  /\ UNCHANGED <<idle, ckey, broken, reqch, peerVars, loopVars, ans, runs>>

\* The body ends in an error: fn is not run, now or on a later Close.
abandonBody(u) ==
  /\ pc[u] = "body"
  /\ closed' = [closed EXCEPT ![u] = TRUE]
  /\ return(u)
  /\ UNCHANGED <<idle, connVars, peerVars, loopVars, ans, runs>>

\* fn, first half: putIdleConn, and alive = false when it refuses.
fnPut(u) ==
  LET c == conn[u] IN
  /\ pc[u] = "fnput"
  /\ putIdleConn(c)
  /\ alive' = [alive EXCEPT ![c] = @ /\ CanPool(c)]
  /\ runs' = [runs EXCEPT ![u] = @ + 1]
  /\ pc' = [pc EXCEPT ![u] = "fnsend"]
  /\ UNCHANGED <<ckey, num, reqch, peerVars, rl, cur, lastbody,
                 conn, tgt, ans, closed>>

\* fn, second half: the rendezvous on the unbuffered waitForBodyRead, after
\* which the readLoop goes on to its loop test.
fnSend(u) ==
  LET c == conn[u] IN
  /\ pc[u] = "fnsend"
  /\ rl[c] = "waitbody"
  /\ rl' = [rl EXCEPT ![c] = IF alive[c] THEN "peek" ELSE "dead"]
  /\ pc' = [pc EXCEPT ![u] = "clear"]
  /\ UNCHANGED <<idle, connVars, peerVars, cur, lastbody, alive,
                 conn, tgt, ans, closed, runs>>

\* es.fn = nil, written after fn has returned and under no lock.  The caller
\* then drops the body, and its fields with it.
clearFn(u) ==
  LET c == conn[u] IN
  /\ pc[u] = "clear"
  /\ lastbody' = [lastbody EXCEPT ![c] = IF @ = u THEN NoCaller ELSE @]
  /\ closed' = [closed EXCEPT ![u] = FALSE]
  /\ runs' = [runs EXCEPT ![u] = 0]
  /\ return(u)
  /\ UNCHANGED <<idle, connVars, peerVars, rl, cur, alive, ans>>

-----------------------------------------------------------------------------
(* persistConn.readLoop.                                                   *)

\* Mutants: the loop ends and leaves the connection open; an error of Peek goes
\* unnoticed.
peekLeavesOpen(c) ==
  /\ rl[c] = "peek"
  /\ answered[c] # <<>> \/ peerClosed[c] \/ broken[c]
  /\ rl' = [rl EXCEPT ![c] = IF num[c] = 0 THEN "dead" ELSE "recv"]
  /\ UNCHANGED <<idle, connVars, peerVars, cur, lastbody, alive, callerVars>>

peekWantsData(c) ==
  /\ rl[c] = "peek"
  /\ answered[c] # <<>>
  /\ rl' = [rl EXCEPT ![c] = "recv"]
  /\ UNCHANGED <<idle, connVars, peerVars, cur, lastbody, alive, callerVars>>

\* Peek returns data or an error; with no response expected, close and end.
peek(c) ==
  /\ rl[c] = "peek"
  /\ answered[c] # <<>> \/ peerClosed[c] \/ broken[c]
  /\ IF num[c] = 0
       THEN /\ broken' = [broken EXCEPT ![c] = TRUE]
            /\ rl' = [rl EXCEPT ![c] = "dead"]
       ELSE /\ rl' = [rl EXCEPT ![c] = "recv"]
            /\ UNCHANGED broken
  /\ UNCHANGED <<idle, ckey, num, reqch, peerVars, cur, lastbody, alive, callerVars>>

\* rc := <-reqch, then lastbody.Close(): a no-op when lastbody is nil or
\* closed; otherwise it closes the body and runs fn on this goroutine.
recvRequest(c) ==
  LET b == lastbody[c]
      again == b # NoCaller /\ ~closed[b]
  IN
  /\ rl[c] = "recv"
  /\ reqch[c] # <<>>
  /\ cur' = [cur EXCEPT ![c] = Head(reqch[c])]
  /\ reqch' = [reqch EXCEPT ![c] = Tail(@)]
  /\ closed' = IF again THEN [closed EXCEPT ![b] = TRUE] ELSE closed
  /\ lastbody' = IF again THEN lastbody ELSE [lastbody EXCEPT ![c] = NoCaller]
  /\ rl' = [rl EXCEPT ![c] = IF again THEN "fnput" ELSE "read"]
  /\ UNCHANGED <<idle, ckey, broken, num, peerVars, alive,
                 pc, conn, tgt, ans, runs>>

\* The rest of that Close.  If the caller has cleared fn by now, nothing
\* more happens; otherwise fn runs on this goroutine, whose own send on
\* waitForBodyRead has no receiver: "fnsend" is where it stays.
closeLastBody(c) ==
  /\ rl[c] = "fnput"
  /\ \/ /\ lastbody[c] = NoCaller
        /\ rl' = [rl EXCEPT ![c] = "read"]
        /\ UNCHANGED <<idle, broken, alive, runs>>
     \/ /\ lastbody[c] # NoCaller
        /\ putIdleConn(c)
        /\ alive' = [alive EXCEPT ![c] = @ /\ CanPool(c)]
        /\ runs' = [runs EXCEPT ![lastbody[c]] = @ + 1]
        /\ rl' = [rl EXCEPT ![c] = "fnsend"]
  /\ UNCHANGED <<ckey, num, reqch, peerVars, cur, lastbody,
                 pc, conn, tgt, ans, closed>>

\* ReadResponse, the decision about the connection, and the send of the answer,
\* whose channel has room for it and only the caller reads: it commutes with what
\* others do to a connection pooled just before.  Only a "body" answer gets an fn; an "empty" one pools the
\* connection at once; "last" ends the loop without closing the connection.
readResponse(c, kind) ==
  LET u == cur[c] IN
  /\ rl[c] = "read"
  /\ IF answered[c] # <<>>
       THEN answered' = [answered EXCEPT ![c] = Tail(@)]
       ELSE /\ peerClosed[c] \/ broken[c]
            /\ kind = "bad"
            /\ UNCHANGED answered
  /\ ans' = [ans EXCEPT ![u] = kind]
  /\ cur' = [cur EXCEPT ![c] = NoCaller]
  /\ \/ /\ kind = "body"
        /\ lastbody' = [lastbody EXCEPT ![c] = u]
        /\ closed' = [closed EXCEPT ![u] = FALSE]
        /\ runs' = [runs EXCEPT ![u] = 0]
        /\ rl' = [rl EXCEPT ![c] = "waitbody"]
        /\ UNCHANGED <<idle, broken, alive>>
     \/ /\ kind = "empty"
        /\ putIdleConn(c)
        /\ alive' = [alive EXCEPT ![c] = CanPool(c)]
        /\ rl' = [rl EXCEPT ![c] = IF CanPool(c) THEN "peek" ELSE "dead"]
        /\ UNCHANGED <<lastbody, closed, runs>>
     \/ /\ kind \in {"last", "bad"}
        /\ broken' = [broken EXCEPT ![c] = @ \/ kind = "bad"]
        /\ alive' = [alive EXCEPT ![c] = FALSE]
        /\ rl' = [rl EXCEPT ![c] = "dead"]
        /\ UNCHANGED <<idle, lastbody, closed, runs>>
  /\ UNCHANGED <<ckey, num, reqch, sent, peerClosed, pc, conn, tgt>>

-----------------------------------------------------------------------------
(* The peer: it answers requests in order, and may close.                  *)

peerAnswers(c) ==
  /\ sent[c] # <<>>
  /\ ~peerClosed[c]
  /\ answered' = [answered EXCEPT ![c] = Append(@, Head(sent[c]))]
  /\ sent' = [sent EXCEPT ![c] = Tail(@)]
  /\ UNCHANGED <<idle, connVars, peerClosed, loopVars, callerVars>>

peerCloses(c) ==
  /\ rl[c] # "none"
  /\ ~peerClosed[c]
  /\ \/ sent[c] # <<>>
     \/ PeerClosesIdle = "pooled" /\ Pooled(c)
     \/ PeerClosesIdle = "always"
  /\ peerClosed' = [peerClosed EXCEPT ![c] = TRUE]
  /\ sent' = [sent EXCEPT ![c] = <<>>]
  /\ UNCHANGED <<idle, connVars, answered, loopVars, callerVars>>

-----------------------------------------------------------------------------
CallerStep(u) ==
  \/ \E c \in Conns : dialConn(u, c)
  \/ dialFails(u)
  \/ expectResponse(u)
  \/ writeRequest(u)
  \/ writeFails(u)
  \/ queueRequest(u)
  \/ returnResponse(u)
  \/ \E how \in BodyEnds : finishBody(u, how)
  \/ abandonBody(u)
  \/ fnPut(u)
  \/ fnSend(u)
  \/ clearFn(u)

ReadLoopStep(c) ==
  \/ peek(c)
  \/ recvRequest(c)
  \/ closeLastBody(c)
  \/ \E kind \in Kinds : readResponse(c, kind)

Next ==
  \/ \E u \in Callers, k \in Keys : getIdleConnHit(u, k) \/ getIdleConnMiss(u, k)
  \/ \E u \in Callers : CallerStep(u)
  \/ CloseIdleConnections
  \/ \E c \in Conns : ReadLoopStep(c) \/ peerAnswers(c) \/ peerCloses(c)

Spec == Init /\ [][Next]_vars

\* Goroutines that can run do run, callers consume the bodies they get, and
\* the peer answers what it has received (or closes).
FairSpec ==
  /\ Spec
  /\ \A u \in Callers : WF_vars(CallerStep(u))
  /\ \A c \in Conns : WF_vars(ReadLoopStep(c)) /\ WF_vars(peerAnswers(c))
-----------------------------------------------------------------------------
(* Properties.                                                             *)

\* The callers that hold c to themselves: from getConn until their answer is in.
Exchange(c) == {u \in Callers : /\ conn[u] = c
                                /\ pc[u] \in {"have", "counted", "written", "wait"}
                                /\ ans[u] = "none"}

\* putIdleConn keeps at most MaxIdleConnsPerHost (2 by default) connections
\* per key, each under its own key, whatever order callers, readLoops and
\* CloseIdleConnections run in.
PoolBounded ==
  \A k \in Keys : /\ Len(idle[k]) <= IF PoolingOff THEN 0 ELSE MaxIdle
                  /\ \A i \in 1..Len(idle[k]) : ckey[idle[k][i]] = k

\* A pooled connection is pooled once and nobody's exchange is under way on
\* it, and no two callers share a connection: putIdleConn runs once per
\* exchange, after the answer was read, and getIdleConn removes what it hands
\* out.  Connections whose readLoop is stuck in fn (FnAtMostOnce) are excepted.
PoolExclusive ==
  \A c \in {d \in Conns : rl[d] # "fnsend"} :
    /\ \A k \in Keys : \A i, j \in 1..Len(idle[k]) :
         idle[k][i] = c /\ idle[k][j] = c => i = j
    /\ Pooled(c) => Exchange(c) = {}
    /\ \A u, v \in Exchange(c) : u = v

\* A pooled connection that is not marked broken still has a readLoop to
\* serve the next request: every way out of the loop either marks the
\* connection broken or leaves it out of the pool.
PoolServed ==
  \A c \in Conns : Pooled(c) /\ ~broken[c] => rl[c] \notin {"none", "dead"}

\* The readLoop hands an answer to the caller whose request it answers: the
\* order of reqch and the order on the wire agree although roundTrip writes
\* the request and queues it in two steps, under no lock.
AnswerForItsRequest ==
  \A c \in Conns : rl[c] = "read" /\ answered[c] # <<>> =>
                     Head(answered[c]) = cur[c]

\* The caller that has c: until it has put it back or its body is done.
Having(c) == {u \in Callers : /\ conn[u] = c
                              /\ \/ pc[u] \in {"have", "counted", "written", "body", "fnput"}
                                 \/ pc[u] = "wait" /\ ans[u] \in {"none", "body"}}

\* A connection that can still be used.
Live(c) == rl[c] \notin {"none", "dead", "fnsend"} /\ ~broken[c]

\* Where c is for ConnPool.  A connection is gone when it is marked broken,
\* when its readLoop has ended or is stuck in fn, and when nobody is left to
\* finish the body its readLoop waits for.
Whereabouts(c) ==
  CASE rl[c] = "none" -> "new"
    [] Live(c) /\ Having(c) # {} -> CHOOSE u \in Having(c) : TRUE
    [] Live(c) /\ Having(c) = {} /\ Pooled(c) -> "pool"
    [] OTHER -> "gone"

Pool == INSTANCE ConnPool WITH
          Limit <- IF PoolingOff THEN 0 ELSE MaxIdle,
          at <- [c \in Conns |-> Whereabouts(c)],
          key <- ckey

\* The callers, the readLoops, the peer and CloseIdleConnections ("It does not
\* interrupt any connections currently in use") together implement a pool that
\* lends a connection to one caller at a time.
ImplementsConnPool == Pool!Spec

\* "bodyEOFSignal ... runs fn (if non-nil) at most once" (transport.go:742).
FnAtMostOnce == \A u \in Callers : runs[u] <= 1

\* "the persistConn is ready to write requests to" (transport.go:341-342),
\* "we'll be ready to send it requests" (161-162): the goroutine that must answer a
\* queued request is there to do so.
ConnIsReady ==
  \A u \in Callers : pc[u] = "wait" /\ ans[u] = "none" => rl[conn[u]] # "dead"

\* Every RoundTrip returns: a caller that asked for a connection comes back
\* with an answer or an error.
RoundTripReturns ==
  \A u \in Callers : pc[u] \in {"dialing", "have", "counted", "written", "wait"}
                         ~> pc[u] \in {"idle", "body"}
=============================================================================
