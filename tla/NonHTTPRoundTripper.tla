-------------------------- MODULE NonHTTPRoundTripper --------------------------
(* NonHTTPRoundTripper (nonhttproundtripper.go): one call of RoundTrip and the *)
(* goroutines it starts.  tryPutIdleConn always refuses and getIdleConn always *)
(* misses, so a connection serves one request and only the cancel function in  *)
(* reqCanceler, one per request, is shared; isReused is never true, so nothing *)
(* is retried.  The actors are the caller (RoundTrip, getConn, roundTrip), the *)
(* dialer, readLoop and writeLoop of the connection, the owner of the body,    *)
(* and a user who cancels in any of three ways at any time.                    *)
EXTENDS Naturals, Sequences

CONSTANT HeaderTimeout     \* ResponseHeaderTimeout is set

ASSUME NonHTTPAssumption == HeaderTimeout \in BOOLEAN

VARIABLES
  pc,           \* where the caller is
  res,          \* what RoundTrip returned
  errv,         \* the error at hand
  timer,        \* respHeaderTimer runs
  sawCancel,    \* cancelChan is nil
  sawDone,      \* ctxDoneChan is nil
  cancel,       \* req.Cancel is closed
  ctxDone,      \* the context is done
  canceler,     \* reqCanceler[req]: "dial" sends on cancelc, "conn" closes
  cancelc,      \* getConn's channel of capacity 1
  user,         \* the function a CancelRequest has taken and will call
  early,        \* history: a CancelRequest took the function of getConn
  dial,         \* the dialer
  pend,         \* handlePendingDial's goroutine waits on dialc
  sock,         \* persistConn.conn
  closed,       \* persistConn.closed, and closech with it
  canceledErr,  \* persistConn.canceledErr
  num,          \* persistConn.numExpectedResponses
  writech, reqch,   \* a request is in the channel of capacity 1
  wrote,        \* roundTrip's writeErrCh
  nwrite,       \* some byte was written
  rl, rlOut,    \* readLoop, and what it has for the caller
  wl,           \* writeLoop
  rd,           \* a goroutine reading the body; "eofwait" holds es.mu
  esClosed, rerr, fnSet,   \* bodyEOFSignal.closed, .rerr, .fn
  waitBody,     \* waitForBodyRead, capacity 2
  eofc,         \* eofc is closed
  wire          \* what the server has sent

callerVars == <<pc, res, errv, timer, sawCancel, sawDone>>
userVars   == <<cancel, ctxDone, user, early>>
connVars   == <<sock, closed>>
chanVars   == <<num, writech, reqch, wrote, nwrite>>
dialVars   == <<dial, pend>>
readVars   == <<rl, rlOut>>
bodyVars   == <<rd, esClosed, rerr, fnSet, waitBody, eofc>>
localVars  == <<errv, timer, sawCancel, sawDone>>
loopVars   == <<readVars, wl, bodyVars, wire>>
vars == <<callerVars, userVars, canceler, cancelc, connVars, canceledErr,
          chanVars, dialVars, readVars, wl, bodyVars, wire>>

CloseErrors == {"canceled", "write", "timeout", "keepAlives", "peekFail",
                "serverClosedIdle", "exiting"}
CancelErrors == {"canceled", "ctxErr"}
ReadErrors == {"readErr", "respErr"}
Results == {"none", "response", "noRequest", "connCanceled", "dialErr", "timeout",
            "broken", "nothingWritten"}
           \cup CancelErrors \cup ReadErrors \cup CloseErrors

TypeOK ==
  /\ pc \in {"start", "getConn", "have", "count", "write", "queue", "select",
             "cancelling", "map", "broken", "failed", "ok"}
  /\ res \in Results /\ errv \in Results
  /\ timer \in BOOLEAN /\ sawCancel \in BOOLEAN /\ sawDone \in BOOLEAN
  /\ cancel \in BOOLEAN /\ ctxDone \in BOOLEAN /\ early \in BOOLEAN
  /\ canceler \in {"none", "dial", "conn"} /\ user \in {"none", "dial", "conn"}
  /\ cancelc \in {"none", "canceled"}
  /\ dial \in {"off", "dialing", "handshake", "ok", "err", "done"}
  /\ pend \in BOOLEAN
  /\ sock \in {"none", "open", "closed"}
  /\ closed \in CloseErrors \cup {"none"}
  /\ canceledErr \in CancelErrors \cup {"none"}
  /\ num \in 0..1
  /\ writech \in BOOLEAN /\ reqch \in BOOLEAN /\ nwrite \in BOOLEAN
  /\ wrote \in {"none", "ok", "err"}
  /\ rl \in {"off", "peek", "recv", "read", "decide", "send", "sendBody",
             "waitBody", "eofc", "cancelling", "exit", "done"}
  /\ rlOut \in {"none", "response"} \cup ReadErrors \cup CancelErrors
  /\ wl \in {"off", "idle", "writing", "failing", "done"}
  /\ rd \in {"idle", "reading", "eofwait"}
  /\ esClosed \in BOOLEAN /\ rerr \in {"none", "EOF", "error"}
  /\ fnSet \in BOOLEAN /\ eofc \in BOOLEAN
  /\ waitBody \in Seq(BOOLEAN)
  /\ wire \in {"silent", "data", "eof"}

Init ==
  /\ pc = "start" /\ res = "none" /\ errv = "none" /\ timer = FALSE
  /\ sawCancel = FALSE /\ sawDone = FALSE
  /\ cancel = FALSE /\ ctxDone = FALSE /\ user = "none" /\ early = FALSE
  /\ canceler = "none" /\ cancelc = "none"
  /\ sock = "none" /\ closed = "none" /\ canceledErr = "none"
  /\ num = 0 /\ writech = FALSE /\ reqch = FALSE /\ wrote = "none"
  /\ nwrite = FALSE /\ dial = "off" /\ pend = FALSE
  /\ rl = "off" /\ rlOut = "none" /\ wl = "off"
  /\ rd = "idle" /\ esClosed = FALSE /\ rerr = "none" /\ fnSet = FALSE
  /\ waitBody = <<>> /\ eofc = FALSE /\ wire = "silent"

\* persistConn.close: the first error stays; conn and closech are closed once.
close(e) ==
  /\ closed' = IF closed = "none" THEN e ELSE closed
  /\ sock' = "closed"

\* Mutant: the error is recorded only on a connection that is already closed.
cancelRequestForgets(e) ==
  /\ canceledErr' = IF closed = "none" THEN canceledErr ELSE e
  /\ close("canceled")

\* persistConn.cancelRequest, under pc.mu.
cancelRequest(e) ==
  /\ canceledErr' = e
  /\ close("canceled")

\* RoundTrip returns an error, and clears the request's cancel function.
fail(e) ==
  /\ pc' = "failed"
  /\ res' = e
  /\ canceler' = "none"

-----------------------------------------------------------------------------
(* The caller in RoundTrip and getConn.                                    *)

\* No original request in the context, or a bad port.
noRequest ==
  /\ pc = "start"
  /\ fail("noRequest")
  /\ UNCHANGED <<localVars, userVars, cancelc, connVars,
                 canceledErr, chanVars, dialVars, loopVars>>

\* A cancel function is registered and the dialer started.
getConn ==
  /\ pc = "start"
  /\ pc' = "getConn"
  /\ canceler' = "dial"
  /\ dial' = "dialing"
  /\ UNCHANGED <<res, localVars, userVars, cancelc,
                 connVars, canceledErr, chanVars, pend, loopVars>>

\* What a cancelled getConn may return: each reason that holds is possible.
CancelReasons ==
  (IF cancel \/ cancelc = "canceled" THEN {"connCanceled"} ELSE {})
    \cup (IF ctxDone THEN {"ctxErr"} ELSE {})

getConnDialed ==
  /\ pc = "getConn"
  /\ \/ dial = "ok" /\ pc' = "have" /\ UNCHANGED <<res, canceler>>
     \/ /\ dial = "err"
        /\ IF CancelReasons = {} THEN fail("dialErr")
           ELSE \E e \in CancelReasons : fail(e)
  /\ dial' = "done"
  /\ UNCHANGED <<localVars, userVars, cancelc, connVars,
                 canceledErr, chanVars, pend, loopVars>>

\* The dial goes on, and handlePendingDial's goroutine waits for it.
getConnCancelled ==
  /\ pc = "getConn"
  /\ \E e \in CancelReasons : fail(e)
  /\ pend' = TRUE
  /\ UNCHANGED <<localVars, userVars, cancelc, connVars,
                 canceledErr, chanVars, dial, loopVars>>

-----------------------------------------------------------------------------
(* The caller in roundTrip.                                                *)

\* Mutant: the cancel function is set whether or not one is registered.
replaceReqCancelerAnyway ==
  /\ pc = "have"
  /\ pc' = "count"
  /\ canceler' = "conn"
  /\ UNCHANGED <<res, localVars, userVars, cancelc,
                 connVars, canceledErr, chanVars, dialVars, loopVars>>

\* No function registered any more: the request was cancelled meanwhile, and
\* putOrCloseIdleConn closes the connection.
replaceReqCanceler ==
  /\ pc = "have"
  /\ IF canceler = "none"
     THEN /\ pc' = "failed"
          /\ res' = "canceled"
          /\ close("keepAlives")
          /\ UNCHANGED canceler
     ELSE /\ pc' = "count"
          /\ canceler' = "conn"
          /\ UNCHANGED <<res, connVars>>
  /\ UNCHANGED <<localVars, userVars, cancelc,
                 canceledErr, chanVars, dialVars, loopVars>>

\* numExpectedResponses++, writech <-, reqch <-: one step each.
expectResponse ==
  /\ pc = "count" /\ pc' = "write"
  /\ num' = num + 1
  /\ UNCHANGED <<writech, reqch>>

sendWrite ==
  /\ pc = "write" /\ pc' = "queue"
  /\ ~writech /\ writech' = TRUE
  /\ UNCHANGED <<num, reqch>>

sendRequest ==
  /\ pc = "queue" /\ pc' = "select"
  /\ ~reqch /\ reqch' = TRUE
  /\ UNCHANGED <<num, writech>>

submit ==
  /\ expectResponse \/ sendWrite \/ sendRequest
  /\ UNCHANGED <<res, errv, timer, sawCancel, sawDone, userVars, canceler,
                 cancelc, connVars, canceledErr, wrote, nwrite, dialVars,
                 loopVars>>

\* case err := <-writeErrCh.
selectWritten ==
  /\ pc = "select"
  /\ wrote # "none"
  /\ wrote' = "none"
  /\ IF wrote = "err"
     THEN /\ close("write")
          /\ pc' = "map" /\ errv' = "write"
          /\ UNCHANGED timer
     ELSE /\ timer' = HeaderTimeout
          /\ UNCHANGED <<connVars, pc, errv>>
  /\ UNCHANGED <<res, sawCancel, sawDone, userVars, canceler, cancelc,
                 canceledErr, num, writech, reqch, nwrite, dialVars, loopVars>>

\* case <-pc.closech.
selectClosed ==
  /\ pc = "select"
  /\ closed # "none"
  /\ pc' = "map" /\ errv' = closed
  /\ UNCHANGED <<res, timer, sawCancel, sawDone, userVars, canceler, cancelc,
                 connVars, canceledErr, chanVars, dialVars, loopVars>>

\* case <-respHeaderTimer.
selectTimeout ==
  /\ pc = "select"
  /\ timer
  /\ close("timeout")
  /\ fail("timeout")
  /\ UNCHANGED <<localVars, userVars, cancelc,
                 canceledErr, chanVars, dialVars, loopVars>>

\* Mutant: the channel is forgotten without cancelling.
selectCancelForgets ==
  /\ pc = "select"
  /\ \/ cancel /\ ~sawCancel /\ sawCancel' = TRUE /\ UNCHANGED sawDone
     \/ ctxDone /\ ~sawDone /\ sawDone' = TRUE /\ sawCancel' = TRUE
  /\ UNCHANGED <<pc, errv, res, timer, userVars, canceler, cancelc, connVars,
                 canceledErr, chanVars, dialVars, loopVars>>

\* case <-cancelChan and case <-ctxDoneChan: take the cancel function, if it is
\* still there, under reqMu; it is called after the unlock.
selectCancel ==
  /\ pc = "select"
  /\ \/ /\ cancel /\ ~sawCancel
        /\ errv' = "canceled"
        /\ sawCancel' = TRUE /\ UNCHANGED sawDone
     \/ /\ ctxDone /\ ~sawDone
        /\ errv' = "ctxErr"
        /\ sawDone' = TRUE /\ sawCancel' = TRUE
  /\ pc' = IF canceler = "none" THEN "select" ELSE "cancelling"
  /\ canceler' = "none"
  /\ UNCHANGED <<res, timer, userVars, cancelc, connVars, canceledErr, chanVars,
                 dialVars, loopVars>>

callerCancels ==
  /\ pc = "cancelling"
  /\ cancelRequest(errv)
  /\ pc' = "select"
  /\ UNCHANGED <<res, errv, timer, sawCancel, sawDone, userVars, canceler,
                 cancelc, chanVars, dialVars, loopVars>>

\* mapRoundTripError: a cancel comes first, then the undecorated errors, and a
\* broken connection waits for the writeLoop to end.
mapRoundTripError ==
  /\ pc = "map"
  /\ \/ canceledErr # "none" /\ fail(canceledErr)
     \/ /\ canceledErr = "none"
        /\ errv \in {"serverClosedIdle", "readErr"}
        /\ fail(errv)
     \/ /\ canceledErr = "none"
        /\ errv \notin {"serverClosedIdle", "readErr"}
        /\ pc' = "broken"
        /\ UNCHANGED <<res, canceler>>
  /\ UNCHANGED <<localVars, userVars, cancelc, connVars,
                 canceledErr, chanVars, dialVars, loopVars>>

brokenError ==
  /\ pc = "broken"
  /\ \/ closed = "none" /\ fail(errv)
     \/ /\ closed # "none"
        /\ wl = "done"
        /\ fail(IF nwrite THEN "broken" ELSE "nothingWritten")
  /\ UNCHANGED <<localVars, userVars, cancelc, connVars,
                 canceledErr, chanVars, dialVars, loopVars>>

Caller ==
  \/ noRequest \/ getConn \/ getConnDialed \/ getConnCancelled
  \/ replaceReqCanceler \/ submit
  \/ selectWritten \/ selectClosed \/ selectCancel \/ callerCancels
  \/ mapRoundTripError \/ brokenError

-----------------------------------------------------------------------------
(* The user.                                                               *)

closeCancel ==
  /\ ~cancel /\ cancel' = TRUE
  /\ UNCHANGED <<ctxDone, user, early, canceler, cancelc, connVars, canceledErr>>

endContext ==
  /\ ~ctxDone /\ ctxDone' = TRUE
  /\ UNCHANGED <<cancel, user, early, canceler, cancelc, connVars, canceledErr>>

\* CancelRequest takes the function under reqMu and calls it afterwards.
CancelRequest ==
  /\ user = "none"
  /\ canceler # "none"
  /\ user' = canceler
  /\ canceler' = "none"
  /\ early' = (early \/ canceler = "dial")
  /\ UNCHANGED <<cancel, ctxDone, cancelc, connVars, canceledErr>>

userCancels ==
  /\ user # "none"
  /\ user' = "none"
  /\ IF user = "dial"
     THEN cancelc' = "canceled" /\ UNCHANGED <<connVars, canceledErr>>
     ELSE cancelRequest("canceled") /\ UNCHANGED cancelc
  /\ UNCHANGED <<cancel, ctxDone, early, canceler>>

User ==
  /\ closeCancel \/ endContext \/ CancelRequest \/ userCancels
  /\ UNCHANGED <<callerVars, chanVars, dialVars, loopVars>>

-----------------------------------------------------------------------------
(* The dialer, and handlePendingDial.                                      *)

startLoops ==
  /\ dial' = "ok"
  /\ rl' = "peek"
  /\ wl' = "idle"

\* The scheme says whether a TLS handshake follows.
dialTCP ==
  /\ dial = "dialing"
  /\ sock' = "open"
  /\ startLoops \/ (dial' = "handshake" /\ UNCHANGED <<rl, wl>>)

dialFails ==
  /\ dial = "dialing"
  /\ dial' = "err"
  /\ UNCHANGED <<sock, rl, wl>>

handshake ==
  /\ dial = "handshake"
  /\ startLoops
  /\ UNCHANGED sock

\* Refused, timed out or for another host name: the plain connection closes.
handshakeFails ==
  /\ dial = "handshake"
  /\ dial' = "err"
  /\ sock' = "closed"
  /\ UNCHANGED <<rl, wl>>

dialConn ==
  /\ dialTCP \/ dialFails \/ handshake \/ handshakeFails
  /\ UNCHANGED <<callerVars, userVars, canceler, cancelc, closed, canceledErr,
                 chanVars, pend, rlOut, bodyVars, wire>>

\* Mutant: a connection nobody waits for any more is left open.
handlePendingDialKeeps ==
  /\ pend
  /\ dial \in {"ok", "err"}
  /\ dial' = "done"
  /\ UNCHANGED <<callerVars, userVars, canceler, cancelc, connVars, canceledErr,
                 chanVars, pend, loopVars>>

handlePendingDial ==
  /\ pend
  /\ dial \in {"ok", "err"}
  /\ dial' = "done"
  /\ IF dial = "ok" THEN close("keepAlives") ELSE UNCHANGED connVars
  /\ UNCHANGED <<callerVars, userVars, canceler, cancelc, canceledErr, chanVars,
                 pend, loopVars>>

-----------------------------------------------------------------------------
(* writeLoop.  pc.writeErrCh is left out: it takes the one write's result      *)
(* without blocking, and no connection is kept whatever it says.               *)

recvWrite ==
  /\ wl = "idle"
  /\ writech /\ writech' = FALSE
  /\ wl' = "writing"
  /\ UNCHANGED <<connVars, wrote, nwrite>>

writeRequest ==
  /\ wl = "writing"
  /\ sock = "open"
  /\ nwrite' = TRUE
  /\ wrote' = "ok"
  /\ wl' = "idle"
  /\ UNCHANGED <<connVars, writech>>

writeFails ==
  /\ wl = "writing"
  /\ nwrite' \in {nwrite, TRUE}
  /\ wrote' = "err"
  /\ wl' = "failing"
  /\ UNCHANGED <<connVars, writech>>

writeLoopEnds ==
  /\ \/ wl = "failing" /\ close("write")
     \/ wl = "idle" /\ closed # "none" /\ UNCHANGED connVars
  /\ wl' = "done"
  /\ UNCHANGED <<writech, wrote, nwrite>>

writeLoop ==
  /\ recvWrite \/ writeRequest \/ writeFails \/ writeLoopEnds
  /\ UNCHANGED <<callerVars, userVars, canceler, cancelc, canceledErr, num,
                 reqch, dialVars, readVars, bodyVars, wire>>

-----------------------------------------------------------------------------
(* readLoop: one round, since no connection goes back to a pool.           *)

\* What Peek may return: what is on the wire, or the error of a closed conn.
Peeked == (IF wire = "silent" THEN {} ELSE {wire})
            \cup (IF sock = "closed" THEN {"error"} ELSE {})

\* Mutant: a failed Peek takes the expected response back.
peekFailsUncounts ==
  /\ rl = "peek"
  /\ num = 0
  /\ \E p \in Peeked :
       close(IF p = "eof" THEN "serverClosedIdle" ELSE "peekFail")
  /\ num' = num - 1
  /\ rl' = "exit"
  /\ UNCHANGED <<reqch, rlOut, pc, res, canceler, canceledErr, waitBody, fnSet>>

\* Peek returns while no response is expected.
peekFails ==
  /\ rl = "peek"
  /\ num = 0
  /\ \E p \in Peeked :
       close(IF p = "eof" THEN "serverClosedIdle" ELSE "peekFail")
  /\ rl' = "exit"
  /\ UNCHANGED <<num, reqch, rlOut, pc, res, canceler, canceledErr, waitBody,
                 fnSet>>

\* Peek returns and a response is expected.
peek ==
  /\ rl = "peek"
  /\ num > 0
  /\ \E p \in Peeked : rlOut' = IF p = "data" THEN "none" ELSE "readErr"
  /\ rl' = "recv"
  /\ UNCHANGED <<num, reqch, pc, res, canceler, connVars, canceledErr, waitBody,
                 fnSet>>

recvRequest ==
  /\ rl = "recv"
  /\ reqch /\ reqch' = FALSE
  /\ rl' = IF rlOut = "readErr" THEN "send" ELSE "read"
  /\ UNCHANGED <<num, rlOut, pc, res, canceler, connVars, canceledErr, waitBody,
                 fnSet>>

readResponse ==
  /\ rl = "read"
  /\ rlOut' = "response"
  /\ num' = num - 1
  /\ rl' \in {"decide", "sendBody"}
  /\ UNCHANGED <<reqch, pc, res, canceler, connVars, canceledErr, waitBody, fnSet>>

responseFails ==
  /\ rl = "read"
  /\ rlOut' = "respErr"
  /\ rl' = "send"
  /\ UNCHANGED <<num, reqch, pc, res, canceler, connVars, canceledErr, waitBody,
                 fnSet>>

\* No body: the request can no longer be cancelled.
bodyless ==
  /\ rl = "decide"
  /\ canceler' = "none"
  /\ rl' = "send"
  /\ UNCHANGED <<num, reqch, rlOut, pc, res, connVars, canceledErr, waitBody,
                 fnSet>>

\* rc.ch <-: the caller is in its select; roundTrip's return closes callerGone.
send ==
  /\ rl \in {"send", "sendBody"}
  /\ pc = "select"
  /\ IF rlOut = "response"
     THEN pc' = "ok" /\ res' = "response" /\ UNCHANGED errv
     ELSE pc' = "map" /\ errv' = rlOut /\ UNCHANGED res
  /\ rl' = IF rl = "sendBody" THEN "waitBody" ELSE "exit"
  /\ fnSet' = (rl = "sendBody")
  /\ UNCHANGED <<num, reqch, rlOut, canceler, connVars, canceledErr, waitBody>>

callerGone ==
  /\ rl \in {"send", "sendBody"}
  /\ pc = "failed"
  /\ rl' = "exit"
  /\ UNCHANGED <<num, reqch, rlOut, pc, res, canceler, connVars, canceledErr,
                 waitBody, fnSet>>

\* Mutant: the cancel function of a request that is over stays.
bodyDoneKeeps ==
  /\ rl = "waitBody"
  /\ waitBody # <<>>
  /\ waitBody' = Tail(waitBody)
  /\ rl' = IF Head(waitBody) THEN "eofc" ELSE "exit"
  /\ UNCHANGED <<num, reqch, rlOut, pc, res, canceler, connVars, canceledErr, fnSet>>

\* case bodyEOF := <-waitForBodyRead.
bodyDone ==
  /\ rl = "waitBody"
  /\ waitBody # <<>>
  /\ waitBody' = Tail(waitBody)
  /\ canceler' = "none"
  /\ rl' = IF Head(waitBody) THEN "eofc" ELSE "exit"
  /\ UNCHANGED <<num, reqch, rlOut, pc, res, connVars, canceledErr, fnSet>>

\* case <-rc.req.Cancel and case <-rc.req.Context().Done().
bodyCancelled ==
  /\ rl = "waitBody"
  /\ \/ cancel /\ rlOut' = "canceled"
     \/ ctxDone /\ rlOut' = "ctxErr"
  /\ rl' = IF canceler = "none" THEN "exit" ELSE "cancelling"
  /\ canceler' = "none"
  /\ UNCHANGED <<num, reqch, pc, res, connVars, canceledErr, waitBody, fnSet>>

readLoopCancels ==
  /\ rl = "cancelling"
  /\ cancelRequest(rlOut)
  /\ rl' = "exit"
  /\ UNCHANGED <<num, reqch, rlOut, pc, res, canceler, waitBody, fnSet>>

\* case <-pc.closech: the cancel function stays.
bodyClosed ==
  /\ rl = "waitBody"
  /\ closed # "none"
  /\ rl' = "exit"
  /\ UNCHANGED <<num, reqch, rlOut, pc, res, canceler, connVars, canceledErr,
                 waitBody, fnSet>>

ReadStep ==
  /\ \/ peekFails \/ peek \/ recvRequest \/ readResponse \/ responseFails
     \/ bodyless \/ callerGone \/ bodyDone \/ bodyCancelled \/ readLoopCancels
     \/ bodyClosed
  /\ UNCHANGED errv

\* Mutant: eofc is left open.
exitKeepsEofc ==
  /\ rl = "exit"
  /\ close("exiting")
  /\ rl' = "done"
  /\ UNCHANGED <<rd, fnSet, eofc>>

\* The deferred calls: close(eofc), then pc.close.
exit ==
  /\ rl = "exit"
  /\ eofc' = TRUE
  /\ close("exiting")
  /\ rl' = "done"
  /\ UNCHANGED <<rd, fnSet>>

\* eofc <- struct{}{}: the reader of the body is released.
sendEofc ==
  /\ rl = "eofc"
  /\ rd = "eofwait"
  /\ rd' = "idle"
  /\ fnSet' = FALSE
  /\ rl' = "exit"
  /\ UNCHANGED <<connVars, eofc>>

readLoop ==
  /\ \/ /\ ReadStep \/ send
        /\ UNCHANGED <<rd, eofc>>
     \/ /\ exit \/ sendEofc
        /\ UNCHANGED <<num, reqch, rlOut, pc, res, errv, canceler, canceledErr,
                       waitBody>>
  /\ UNCHANGED <<timer, sawCancel, sawDone, userVars, cancelc, writech, wrote,
                 nwrite, dialVars, wl, esClosed, rerr, wire>>

-----------------------------------------------------------------------------
(* The body, whose Read and Close may run on two goroutines.               *)

ReadBody ==
  /\ pc = "ok" /\ rd = "idle"
  /\ fnSet /\ ~esClosed /\ rerr = "none"
  /\ rd' = "reading"
  /\ UNCHANGED <<esClosed, rerr, fnSet, waitBody>>

\* The underlying Read returns its last result, and fn runs under es.mu: it
\* tells the readLoop, and at the end of the body waits for eofc.
ReadBodyEnds ==
  /\ rd = "reading"
  /\ \E err \in {"EOF", "error"} :
       /\ rerr' = err
       /\ waitBody' = Append(waitBody, err = "EOF")
       /\ rd' = IF err = "EOF" THEN "eofwait" ELSE "idle"
       /\ fnSet' = (err = "EOF")
  /\ UNCHANGED esClosed

\* eofc was closed: fn returns and is cleared.
ReadBodyReleased ==
  /\ rd = "eofwait"
  /\ eofc
  /\ rd' = "idle"
  /\ fnSet' = FALSE
  /\ UNCHANGED <<esClosed, rerr, waitBody>>

\* Mutant: a second Close is not noticed.
CloseBodyAgain ==
  /\ pc = "ok" /\ rlOut = "response" /\ rd # "eofwait"
  /\ Len(waitBody) < 3
  /\ esClosed' = TRUE
  /\ waitBody' = IF rerr = "EOF" THEN waitBody ELSE Append(waitBody, FALSE)
  /\ UNCHANGED <<rd, rerr, fnSet>>

\* Close before io.EOF runs earlyCloseFn; after it fn has run already.
CloseBody ==
  /\ pc = "ok" /\ rd # "eofwait"
  /\ fnSet \/ rerr # "none"
  /\ ~esClosed
  /\ esClosed' = TRUE
  /\ waitBody' = IF rerr = "EOF" THEN waitBody ELSE Append(waitBody, FALSE)
  /\ UNCHANGED <<rd, rerr, fnSet>>

Body ==
  /\ ReadBody \/ ReadBodyEnds \/ ReadBodyReleased \/ CloseBody
  /\ UNCHANGED <<callerVars, userVars, canceler, cancelc, connVars, canceledErr,
                 chanVars, dialVars, readVars, wl, eofc, wire>>

\* The server speaks, or closes, whenever it likes.
Server ==
  /\ sock = "open" /\ wire = "silent"
  /\ wire' \in {"data", "eof"}
  /\ UNCHANGED <<callerVars, userVars, canceler, cancelc, connVars, canceledErr,
                 chanVars, dialVars, readVars, wl, bodyVars>>

-----------------------------------------------------------------------------
Settled ==
  /\ pc \in {"failed", "ok"}
  /\ dial \in {"off", "done"}
  /\ rl \in {"off", "done"} /\ wl \in {"off", "done"}

\* Every goroutine of the request has ended, and no cancel is on its way.
Finished == Settled /\ user = "none" /\ UNCHANGED vars

Next ==
  \/ Caller \/ selectTimeout \/ User \/ dialConn \/ handlePendingDial
  \/ writeLoop \/ readLoop \/ Body \/ Server
  \/ Finished

\* A silent server may keep Peek, a response, a write and a body waiting, but
\* no longer than the connection is open; a dial may hang.  Everything else runs.
FairSpec ==
  /\ Init /\ [][Next]_vars
  /\ WF_vars(Caller)
  /\ WF_vars(User /\ user # "none" /\ user' = "none")
  /\ WF_vars(handlePendingDial)
  /\ WF_vars(readLoop /\ (rl # "read" \/ sock = "closed"))
  /\ WF_vars(writeLoop /\ (wl # "writing" \/ sock = "closed"))
  /\ WF_vars(Body /\ (rd = "eofwait" \/ (rd = "reading" /\ sock = "closed")))

-----------------------------------------------------------------------------
(* Properties.                                                             *)

\* "Since CancelRequest will clear the canceler, we can use the return value to
\* detect if the request was canceled" (386): a CancelRequest that came while
\* getConn was waiting is never overtaken by the dial. Nothing is written.
CancelInTime == early => res # "response" /\ ~nwrite

\* "If the request was canceled, that's better than network failures that were
\* likely the result of tearing down the connection" (926): a caller that sees
\* the connection closed by a cancel does not report a broken connection.
CancelReported == res \in {"broken", "nothingWritten"} => errv # "canceled"

\* When a request's goroutines have ended, reqCanceler has no entry for it,
\* unless the write failed after the answer had come: then the readLoop leaves
\* through closech, which clears nothing.
CancelerCleared == Settled /\ canceler # "none" => closed = "write"

\* A goroutine that reads or closes the body sends to waitForBodyRead with es.mu
\* held: the channel never has to take a third value.
BodySignalFits == Len(waitBody) <= 2

\* However silent the server is and however long the dial, a request whose
\* Cancel channel or context is closed returns.
CancelReturns == cancel \/ ctxDone ~> pc \in {"failed", "ok"}

\* Once RoundTrip has failed and the dial is over, or the body is closed, the
\* request's goroutines end and its connection is closed.
Released ==
  (pc = "failed" /\ dial \notin {"dialing", "handshake"}) \/ esClosed
    ~> Settled /\ sock # "open"

\* A reader held back at the end of the body until the readLoop is done with
\* the connection is let go, whether the readLoop got there or left otherwise.
BodyReaderReleased == rd = "eofwait" ~> rd # "eofwait"
=============================================================================
