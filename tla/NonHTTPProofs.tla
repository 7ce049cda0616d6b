---------------------------- MODULE NonHTTPProofs ----------------------------
(* Proofs about NonHTTPRoundTripper: its type and the safety properties of its *)
(* run, with and without a timeout for the response's header.                  *)
EXTENDS NonHTTPRoundTripper, TLAPS, SequenceTheorems

Before == {"start", "getConn", "have", "count"}
Over   == {"failed", "ok"}

\* The part of TypeOK about flags, which the steps below prove first.
Flags ==
  /\ timer \in BOOLEAN /\ sawCancel \in BOOLEAN /\ sawDone \in BOOLEAN
  /\ cancel \in BOOLEAN /\ ctxDone \in BOOLEAN /\ early \in BOOLEAN
  /\ pend \in BOOLEAN
  /\ writech \in BOOLEAN /\ reqch \in BOOLEAN /\ nwrite \in BOOLEAN
  /\ esClosed \in BOOLEAN /\ fnSet \in BOOLEAN /\ eofc \in BOOLEAN

\* The response is expected once, when the request is on its way, and no longer
\* once it has been read.
Counted ==
  /\ pc \in Before => num = 0
  /\ rl \in {"recv", "read"} => num = 1

\* Nothing is written before the request is in writech.
Unwritten ==
  pc \in Before \cup {"write"} =>
    ~writech /\ ~nwrite /\ wl \in {"off", "idle", "done"}

\* A request without a cancel function never gets one again. Who has taken it
\* leaves none: the user, the caller or the readLoop.
Taken ==
  /\ pc \in {"start", "failed", "cancelling"} \/ user # "none" => canceler = "none"
  /\ rl \in {"eofc", "cancelling"} => canceler = "none"
  /\ canceler = "dial" => pc \in {"getConn", "have"}

\* The function of getConn was taken before the request was sent.
EarlyOut ==
  early => /\ canceler = "none" /\ pc \in {"getConn", "have", "failed"}
           /\ ~writech /\ ~nwrite /\ wl \in {"off", "idle", "done"}

\* The dialer and whoever waits for it.
Dialed ==
  /\ pc = "start" => /\ dial = "off" /\ rl = "off" /\ wl = "off"
                     /\ closed = "none" /\ user = "none"
  /\ dial \in {"off", "dialing", "handshake"} => rl = "off"
  /\ pc \notin {"start", "getConn", "failed"} => dial = "done"
  /\ pend => pc = "failed"

\* What a readLoop has for the caller, and when the caller has it.
Answer ==
  /\ rl = "recv" => rlOut \in {"none", "readErr"}
  /\ rl = "send" => rlOut \in ReadErrors \cup {"response"}
  /\ rl \in {"decide", "sendBody"} => rlOut = "response"
  /\ rl \in {"waitBody", "eofc", "cancelling"} => pc = "ok"
  /\ rl = "cancelling" => rlOut \in CancelErrors
  /\ res # "none" => pc \in Over
  /\ pc = "failed" => res # "response"

\* Whoever sees the connection closed by a cancel sees the reason too.
Reasons ==
  /\ pc = "cancelling" => errv \in CancelErrors
  /\ closed = "canceled" => canceledErr # "none"
  /\ pc = "map" /\ errv = "canceled" => canceledErr # "none"
  /\ pc = "broken" => errv # "canceled"
  /\ errv # "response"

\* While its function is registered only a failed write, or the readLoop on its
\* way out, closes the connection of a request.
Registered ==
  /\ canceler # "none" /\ rl \notin {"exit", "done"} => closed \in {"none", "write"}
  /\ rl = "send" /\ rlOut = "response" => canceler = "none"
  /\ pc = "ok" /\ canceler # "none" =>
       rl = "waitBody" \/ (rl \in {"exit", "done"} /\ closed = "write")

\* The end of the body and its Close each signal once.
Signals ==
  /\ rd = "reading" => rerr = "none"
  /\ Len(waitBody) <= (IF rerr # "none" THEN 1 ELSE 0) + (IF esClosed THEN 1 ELSE 0)

IInv == /\ TypeOK /\ Counted /\ Unwritten /\ Taken /\ EarlyOut /\ Dialed
        /\ Answer /\ Reasons /\ Registered /\ Signals /\ CancelReported

\* What the sends to waitForBodyRead and the receive from it (1072-1125) do to
\* the values in the channel.
LEMMA Signalled ==
  ASSUME NEW s \in Seq(BOOLEAN)
  PROVE  /\ \A b \in BOOLEAN : /\ Append(s, b) \in Seq(BOOLEAN)
                              /\ Len(Append(s, b)) = Len(s) + 1
         /\ s # <<>> => Tail(s) \in Seq(BOOLEAN) /\ Len(Tail(s)) = Len(s) - 1
         /\ Len(s) \in Nat
<1>1. \A b \in BOOLEAN : Append(s, b) \in Seq(BOOLEAN) /\ Len(Append(s, b)) = Len(s) + 1
  BY AppendProperties, Zenon
<1>2. s # <<>> => Tail(s) \in Seq(BOOLEAN) /\ Len(Tail(s)) = Len(s) - 1
  BY HeadTailProperties, Zenon
<1>3. Len(s) \in Nat
  BY LenProperties, Zenon
<1> QED
  BY <1>1, <1>2, <1>3

\* The caller in RoundTrip and getConn.
LEMMA GetConnStep ==
  ASSUME IInv, noRequest \/ getConn \/ getConnDialed \/ getConnCancelled
  PROVE  IInv'
<1> USE DEF IInv, Before, Over,
           callerVars, userVars, connVars, chanVars, dialVars, readVars, bodyVars,
           localVars, loopVars
<1>1. CASE noRequest
  <2>1. TypeOK'
    BY <1>1 DEF noRequest, fail, TypeOK, Counted, Answer, Reasons, Results, CloseErrors,
       CancelErrors, ReadErrors
  <2>2. Counted' /\ Unwritten' /\ EarlyOut'
    BY <1>1 DEF noRequest, fail, TypeOK, Counted, Unwritten, EarlyOut, Taken, Dialed,
       Answer
  <2>3. Taken' /\ Dialed'
    BY <1>1 DEF noRequest, fail, TypeOK, Taken, Dialed, Answer, EarlyOut
  <2>4. Answer' /\ Reasons' /\ CancelReported'
    BY <1>1 DEF noRequest, fail, TypeOK, Answer, Reasons, CancelReported, Results,
       CloseErrors, CancelErrors, ReadErrors
  <2>5. Registered' /\ Signals'
    BY <1>1 DEF noRequest, fail, TypeOK, Registered, Signals, Taken, Dialed, Answer,
       CancelErrors, ReadErrors
  <2> QED
    BY <2>1, <2>2, <2>3, <2>4, <2>5
<1>2. CASE getConn
  <2>1. TypeOK'
    BY <1>2 DEF getConn, TypeOK, Counted, Answer, Reasons, Results, CloseErrors,
       CancelErrors, ReadErrors
  <2>2. Counted' /\ Unwritten' /\ EarlyOut'
    BY <1>2 DEF getConn, TypeOK, Counted, Unwritten, EarlyOut, Taken, Dialed, Answer
  <2>3. Taken' /\ Dialed'
    BY <1>2 DEF getConn, TypeOK, Taken, Dialed, Answer, EarlyOut
  <2>4. Answer' /\ Reasons' /\ CancelReported'
    BY <1>2 DEF getConn, TypeOK, Answer, Reasons, CancelReported, Results, CloseErrors,
       CancelErrors, ReadErrors
  <2>5. Registered' /\ Signals'
    BY <1>2 DEF getConn, TypeOK, Registered, Signals, Taken, Dialed, Answer,
       CancelErrors, ReadErrors
  <2> QED
    BY <2>1, <2>2, <2>3, <2>4, <2>5
<1>3. CASE getConnDialed
  <2>1. TypeOK'
    BY <1>3 DEF getConnDialed, CancelReasons, fail, TypeOK, Counted, Answer, Reasons,
       Results, CloseErrors, CancelErrors, ReadErrors
  <2>2. Counted' /\ Unwritten' /\ EarlyOut'
    BY <1>3 DEF getConnDialed, CancelReasons, fail, TypeOK, Counted, Unwritten,
       EarlyOut, Taken, Dialed, Answer
  <2>3. Taken' /\ Dialed'
    BY <1>3 DEF getConnDialed, CancelReasons, fail, TypeOK, Taken, Dialed, Answer,
       EarlyOut
  <2>4. Answer' /\ Reasons' /\ CancelReported'
    BY <1>3 DEF getConnDialed, CancelReasons, fail, TypeOK, Answer, Reasons,
       CancelReported, Results, CloseErrors, CancelErrors, ReadErrors
  <2>5. Registered' /\ Signals'
    BY <1>3 DEF getConnDialed, CancelReasons, fail, TypeOK, Registered, Signals, Taken,
       Dialed, Answer, CancelErrors, ReadErrors
  <2> QED
    BY <2>1, <2>2, <2>3, <2>4, <2>5
<1>4. CASE getConnCancelled
  <2>1. TypeOK'
    BY <1>4 DEF getConnCancelled, CancelReasons, fail, TypeOK, Counted, Answer, Reasons,
       Results, CloseErrors, CancelErrors, ReadErrors
  <2>2. Counted' /\ Unwritten' /\ EarlyOut'
    BY <1>4 DEF getConnCancelled, CancelReasons, fail, TypeOK, Counted, Unwritten,
       EarlyOut, Taken, Dialed, Answer
  <2>3. Taken' /\ Dialed'
    BY <1>4 DEF getConnCancelled, CancelReasons, fail, TypeOK, Taken, Dialed, Answer,
       EarlyOut
  <2>4. Answer' /\ Reasons' /\ CancelReported'
    BY <1>4 DEF getConnCancelled, CancelReasons, fail, TypeOK, Answer, Reasons,
       CancelReported, Results, CloseErrors, CancelErrors, ReadErrors
  <2>5. Registered' /\ Signals'
    BY <1>4 DEF getConnCancelled, CancelReasons, fail, TypeOK, Registered, Signals,
       Taken, Dialed, Answer, CancelErrors, ReadErrors
  <2> QED
    BY <2>1, <2>2, <2>3, <2>4, <2>5
<1> QED
  BY <1>1, <1>2, <1>3, <1>4

\* The caller in roundTrip.
LEMMA RoundTripStep ==
  ASSUME IInv, \/ replaceReqCanceler \/ submit \/ selectWritten \/ selectClosed
         \/ selectTimeout \/ selectCancel \/ callerCancels
         \/ mapRoundTripError \/ brokenError
  PROVE  IInv'
<1> USE DEF IInv, Before, Over,
           callerVars, userVars, connVars, chanVars, dialVars, readVars, bodyVars,
           localVars, loopVars
<1>1. CASE replaceReqCanceler
  <2>1. TypeOK'
    BY <1>1 DEF replaceReqCanceler, close, TypeOK, Counted, Answer, Reasons, Results,
       CloseErrors, CancelErrors, ReadErrors
  <2>2. Counted' /\ Unwritten' /\ EarlyOut'
    BY <1>1 DEF replaceReqCanceler, close, TypeOK, Counted, Unwritten, EarlyOut, Taken,
       Dialed, Answer
  <2>3. Taken' /\ Dialed'
    BY <1>1 DEF replaceReqCanceler, close, TypeOK, Taken, Dialed, Answer, EarlyOut
  <2>4. Answer' /\ Reasons' /\ CancelReported'
    BY <1>1 DEF replaceReqCanceler, close, TypeOK, Answer, Reasons, CancelReported,
       Results, CloseErrors, CancelErrors, ReadErrors
  <2>5. Registered' /\ Signals'
    BY <1>1 DEF replaceReqCanceler, close, TypeOK, Registered, Signals, Taken, Dialed,
       Answer, CancelErrors, ReadErrors
  <2> QED
    BY <2>1, <2>2, <2>3, <2>4, <2>5
<1>2. CASE submit
  <2>1. TypeOK'
    <3>1. Flags'
      BY ZenonT(60), <1>2, NonHTTPAssumption DEF submit, expectResponse, sendWrite,
         sendRequest, TypeOK, Flags
    <3>2. waitBody' \in Seq(BOOLEAN)
      BY <1>2 DEF submit, expectResponse, sendWrite, sendRequest, TypeOK
    <3> QED
      BY <3>1, <3>2, <1>2 DEF submit, expectResponse, sendWrite, sendRequest, Flags,
         TypeOK, Counted, Answer, Reasons, Results, CloseErrors, CancelErrors,
         ReadErrors
  <2>2. Counted' /\ Unwritten' /\ EarlyOut'
    BY <1>2 DEF submit, expectResponse, sendWrite, sendRequest, TypeOK, Counted,
       Unwritten, EarlyOut, Taken, Dialed, Answer
  <2>3. Taken' /\ Dialed'
    BY <1>2 DEF submit, expectResponse, sendWrite, sendRequest, TypeOK, Taken, Dialed,
       Answer, EarlyOut
  <2>4. Answer' /\ Reasons' /\ CancelReported'
    BY <1>2 DEF submit, expectResponse, sendWrite, sendRequest, TypeOK, Answer, Reasons,
       CancelReported, Results, CloseErrors, CancelErrors, ReadErrors
  <2>5. Registered' /\ Signals'
    BY <1>2 DEF submit, expectResponse, sendWrite, sendRequest, TypeOK, Registered,
       Signals, Taken, Dialed, Answer, CancelErrors, ReadErrors
  <2> QED
    BY <2>1, <2>2, <2>3, <2>4, <2>5
<1>3. CASE selectWritten
  <2>1. TypeOK'
    <3>1. Flags'
      BY ZenonT(60), <1>3, NonHTTPAssumption DEF selectWritten, close, TypeOK, Flags
    <3>2. waitBody' \in Seq(BOOLEAN)
      BY <1>3 DEF selectWritten, close, TypeOK
    <3> QED
      BY <3>1, <3>2, <1>3 DEF selectWritten, close, Flags, TypeOK, Counted, Answer,
         Reasons, Results, CloseErrors, CancelErrors, ReadErrors
  <2>2. Counted' /\ Unwritten' /\ EarlyOut'
    BY <1>3 DEF selectWritten, close, TypeOK, Counted, Unwritten, EarlyOut, Taken,
       Dialed, Answer
  <2>3. Taken' /\ Dialed'
    BY <1>3 DEF selectWritten, close, TypeOK, Taken, Dialed, Answer, EarlyOut
  <2>4. Answer' /\ Reasons' /\ CancelReported'
    BY <1>3 DEF selectWritten, close, TypeOK, Answer, Reasons, CancelReported, Results,
       CloseErrors, CancelErrors, ReadErrors
  <2>5. Registered' /\ Signals'
    BY <1>3 DEF selectWritten, close, TypeOK, Registered, Signals, Taken, Dialed,
       Answer, CancelErrors, ReadErrors
  <2> QED
    BY <2>1, <2>2, <2>3, <2>4, <2>5
<1>4. CASE selectClosed
  <2>1. TypeOK'
    BY <1>4 DEF selectClosed, TypeOK, Counted, Answer, Reasons, Results, CloseErrors,
       CancelErrors, ReadErrors
  <2>2. Counted' /\ Unwritten' /\ EarlyOut'
    BY <1>4 DEF selectClosed, TypeOK, Counted, Unwritten, EarlyOut, Taken, Dialed,
       Answer
  <2>3. Taken' /\ Dialed'
    BY <1>4 DEF selectClosed, TypeOK, Taken, Dialed, Answer, EarlyOut
  <2>4. Answer' /\ Reasons' /\ CancelReported'
    BY <1>4 DEF selectClosed, TypeOK, Answer, Reasons, CancelReported, Results,
       CloseErrors, CancelErrors, ReadErrors
  <2>5. Registered' /\ Signals'
    BY <1>4 DEF selectClosed, TypeOK, Registered, Signals, Taken, Dialed, Answer,
       CancelErrors, ReadErrors
  <2> QED
    BY <2>1, <2>2, <2>3, <2>4, <2>5
<1>5. CASE selectTimeout
  <2>1. TypeOK'
    BY <1>5 DEF selectTimeout, close, fail, TypeOK, Counted, Answer, Reasons, Results,
       CloseErrors, CancelErrors, ReadErrors
  <2>2. Counted' /\ Unwritten' /\ EarlyOut'
    BY <1>5 DEF selectTimeout, close, fail, TypeOK, Counted, Unwritten, EarlyOut, Taken,
       Dialed, Answer
  <2>3. Taken' /\ Dialed'
    BY <1>5 DEF selectTimeout, close, fail, TypeOK, Taken, Dialed, Answer, EarlyOut
  <2>4. Answer' /\ Reasons' /\ CancelReported'
    BY <1>5 DEF selectTimeout, close, fail, TypeOK, Answer, Reasons, CancelReported,
       Results, CloseErrors, CancelErrors, ReadErrors
  <2>5. Registered' /\ Signals'
    BY <1>5 DEF selectTimeout, close, fail, TypeOK, Registered, Signals, Taken, Dialed,
       Answer, CancelErrors, ReadErrors
  <2> QED
    BY <2>1, <2>2, <2>3, <2>4, <2>5
<1>6. CASE selectCancel
  <2>1. TypeOK'
    <3>1. Flags'
      BY ZenonT(60), <1>6, NonHTTPAssumption DEF selectCancel, TypeOK, Flags
    <3>2. waitBody' \in Seq(BOOLEAN)
      BY <1>6 DEF selectCancel, TypeOK
    <3> QED
      BY <3>1, <3>2, <1>6 DEF selectCancel, Flags, TypeOK, Counted, Answer, Reasons,
         Results, CloseErrors, CancelErrors, ReadErrors
  <2>2. Counted' /\ Unwritten' /\ EarlyOut'
    BY <1>6 DEF selectCancel, TypeOK, Counted, Unwritten, EarlyOut, Taken, Dialed,
       Answer
  <2>3. Taken' /\ Dialed'
    BY <1>6 DEF selectCancel, TypeOK, Taken, Dialed, Answer, EarlyOut
  <2>4. Answer' /\ Reasons' /\ CancelReported'
    BY <1>6 DEF selectCancel, TypeOK, Answer, Reasons, CancelReported, Results,
       CloseErrors, CancelErrors, ReadErrors
  <2>5. Registered' /\ Signals'
    BY <1>6 DEF selectCancel, TypeOK, Registered, Signals, Taken, Dialed, Answer,
       CancelErrors, ReadErrors
  <2> QED
    BY <2>1, <2>2, <2>3, <2>4, <2>5
<1>7. CASE callerCancels
  <2>1. TypeOK'
    BY <1>7 DEF callerCancels, cancelRequest, close, TypeOK, Counted, Answer, Reasons,
       Results, CloseErrors, CancelErrors, ReadErrors
  <2>2. Counted' /\ Unwritten' /\ EarlyOut'
    BY <1>7 DEF callerCancels, cancelRequest, close, TypeOK, Counted, Unwritten,
       EarlyOut, Taken, Dialed, Answer
  <2>3. Taken' /\ Dialed'
    BY <1>7 DEF callerCancels, cancelRequest, close, TypeOK, Taken, Dialed, Answer,
       EarlyOut
  <2>4. Answer' /\ Reasons' /\ CancelReported'
    BY <1>7 DEF callerCancels, cancelRequest, close, TypeOK, Answer, Reasons,
       CancelReported, Results, CloseErrors, CancelErrors, ReadErrors
  <2>5. Registered' /\ Signals'
    BY <1>7 DEF callerCancels, cancelRequest, close, TypeOK, Registered, Signals, Taken,
       Dialed, Answer, CancelErrors, ReadErrors
  <2> QED
    BY <2>1, <2>2, <2>3, <2>4, <2>5
<1>8. CASE mapRoundTripError
  <2>1. TypeOK'
    BY <1>8 DEF mapRoundTripError, fail, TypeOK, Counted, Answer, Reasons, Results,
       CloseErrors, CancelErrors, ReadErrors
  <2>2. Counted' /\ Unwritten' /\ EarlyOut'
    BY <1>8 DEF mapRoundTripError, fail, TypeOK, Counted, Unwritten, EarlyOut, Taken,
       Dialed, Answer
  <2>3. Taken' /\ Dialed'
    BY <1>8 DEF mapRoundTripError, fail, TypeOK, Taken, Dialed, Answer, EarlyOut
  <2>4. Answer' /\ Reasons' /\ CancelReported'
    BY <1>8 DEF mapRoundTripError, fail, TypeOK, Answer, Reasons, CancelReported,
       Results, CloseErrors, CancelErrors, ReadErrors
  <2>5. Registered' /\ Signals'
    BY <1>8 DEF mapRoundTripError, fail, TypeOK, Registered, Signals, Taken, Dialed,
       Answer, CancelErrors, ReadErrors
  <2> QED
    BY <2>1, <2>2, <2>3, <2>4, <2>5
<1>9. CASE brokenError
  <2>1. TypeOK'
    BY <1>9 DEF brokenError, fail, TypeOK, Counted, Answer, Reasons, Results,
       CloseErrors, CancelErrors, ReadErrors
  <2>2. Counted' /\ Unwritten' /\ EarlyOut'
    BY <1>9 DEF brokenError, fail, TypeOK, Counted, Unwritten, EarlyOut, Taken, Dialed,
       Answer
  <2>3. Taken' /\ Dialed'
    BY <1>9 DEF brokenError, fail, TypeOK, Taken, Dialed, Answer, EarlyOut
  <2>4. Answer' /\ Reasons' /\ CancelReported'
    BY <1>9 DEF brokenError, fail, TypeOK, Answer, Reasons, CancelReported, Results,
       CloseErrors, CancelErrors, ReadErrors
  <2>5. Registered' /\ Signals'
    BY <1>9 DEF brokenError, fail, TypeOK, Registered, Signals, Taken, Dialed, Answer,
       CancelErrors, ReadErrors
  <2> QED
    BY <2>1, <2>2, <2>3, <2>4, <2>5
<1> QED
  BY <1>1, <1>2, <1>3, <1>4, <1>5, <1>6, <1>7, <1>8, <1>9

\* A user who cancels.
LEMMA UserStep ==
  ASSUME IInv, User
  PROVE  IInv'
<1> USE DEF IInv, Before, Over,
           callerVars, userVars, connVars, chanVars, dialVars, readVars, bodyVars,
           localVars, loopVars
<1>1. CASE User /\ closeCancel
  <2>1. TypeOK'
    BY <1>1 DEF User, closeCancel, TypeOK, Counted, Answer, Reasons, Results,
       CloseErrors, CancelErrors, ReadErrors
  <2>2. Counted' /\ Unwritten' /\ EarlyOut'
    BY <1>1 DEF User, closeCancel, TypeOK, Counted, Unwritten, EarlyOut, Taken, Dialed,
       Answer
  <2>3. Taken' /\ Dialed'
    BY <1>1 DEF User, closeCancel, TypeOK, Taken, Dialed, Answer, EarlyOut
  <2>4. Answer' /\ Reasons' /\ CancelReported'
    BY <1>1 DEF User, closeCancel, TypeOK, Answer, Reasons, CancelReported, Results,
       CloseErrors, CancelErrors, ReadErrors
  <2>5. Registered' /\ Signals'
    BY <1>1 DEF User, closeCancel, TypeOK, Registered, Signals, Taken, Dialed, Answer,
       CancelErrors, ReadErrors
  <2> QED
    BY <2>1, <2>2, <2>3, <2>4, <2>5
<1>2. CASE User /\ endContext
  <2>1. TypeOK'
    BY <1>2 DEF User, endContext, TypeOK, Counted, Answer, Reasons, Results,
       CloseErrors, CancelErrors, ReadErrors
  <2>2. Counted' /\ Unwritten' /\ EarlyOut'
    BY <1>2 DEF User, endContext, TypeOK, Counted, Unwritten, EarlyOut, Taken, Dialed,
       Answer
  <2>3. Taken' /\ Dialed'
    BY <1>2 DEF User, endContext, TypeOK, Taken, Dialed, Answer, EarlyOut
  <2>4. Answer' /\ Reasons' /\ CancelReported'
    BY <1>2 DEF User, endContext, TypeOK, Answer, Reasons, CancelReported, Results,
       CloseErrors, CancelErrors, ReadErrors
  <2>5. Registered' /\ Signals'
    BY <1>2 DEF User, endContext, TypeOK, Registered, Signals, Taken, Dialed, Answer,
       CancelErrors, ReadErrors
  <2> QED
    BY <2>1, <2>2, <2>3, <2>4, <2>5
<1>3. CASE User /\ CancelRequest
  <2>1. TypeOK'
    BY <1>3 DEF User, CancelRequest, TypeOK, Counted, Answer, Reasons, Results,
       CloseErrors, CancelErrors, ReadErrors
  <2>2. Counted' /\ Unwritten' /\ EarlyOut'
    BY <1>3 DEF User, CancelRequest, TypeOK, Counted, Unwritten, EarlyOut, Taken,
       Dialed, Answer
  <2>3. Taken' /\ Dialed'
    BY <1>3 DEF User, CancelRequest, TypeOK, Taken, Dialed, Answer, EarlyOut
  <2>4. Answer' /\ Reasons' /\ CancelReported'
    BY <1>3 DEF User, CancelRequest, TypeOK, Answer, Reasons, CancelReported, Results,
       CloseErrors, CancelErrors, ReadErrors
  <2>5. Registered' /\ Signals'
    BY <1>3 DEF User, CancelRequest, TypeOK, Registered, Signals, Taken, Dialed, Answer,
       CancelErrors, ReadErrors
  <2> QED
    BY <2>1, <2>2, <2>3, <2>4, <2>5
<1>4. CASE User /\ userCancels
  <2>1. TypeOK'
    BY <1>4 DEF User, userCancels, cancelRequest, close, TypeOK, Counted, Answer,
       Reasons, Results, CloseErrors, CancelErrors, ReadErrors
  <2>2. Counted' /\ Unwritten' /\ EarlyOut'
    BY <1>4 DEF User, userCancels, cancelRequest, close, TypeOK, Counted, Unwritten,
       EarlyOut, Taken, Dialed, Answer
  <2>3. Taken' /\ Dialed'
    BY <1>4 DEF User, userCancels, cancelRequest, close, TypeOK, Taken, Dialed, Answer,
       EarlyOut
  <2>4. Answer' /\ Reasons' /\ CancelReported'
    BY <1>4 DEF User, userCancels, cancelRequest, close, TypeOK, Answer, Reasons,
       CancelReported, Results, CloseErrors, CancelErrors, ReadErrors
  <2>5. Registered' /\ Signals'
    BY <1>4 DEF User, userCancels, cancelRequest, close, TypeOK, Registered, Signals,
       Taken, Dialed, Answer, CancelErrors, ReadErrors
  <2> QED
    BY <2>1, <2>2, <2>3, <2>4, <2>5
<1> QED
  BY <1>1, <1>2, <1>3, <1>4 DEF User

\* The dialer, and who waits for it when the caller is gone.
LEMMA DialStep ==
  ASSUME IInv, dialConn \/ handlePendingDial
  PROVE  IInv'
<1> USE DEF IInv, Before, Over,
           callerVars, userVars, connVars, chanVars, dialVars, readVars, bodyVars,
           localVars, loopVars
<1>1. CASE dialConn
  <2>1. TypeOK'
    BY <1>1 DEF dialConn, dialTCP, dialFails, handshake, handshakeFails, startLoops,
       TypeOK, Counted, Answer, Reasons, Results, CloseErrors, CancelErrors, ReadErrors
  <2>2. Counted' /\ Unwritten' /\ EarlyOut'
    BY <1>1 DEF dialConn, dialTCP, dialFails, handshake, handshakeFails, startLoops,
       TypeOK, Counted, Unwritten, EarlyOut, Taken, Dialed, Answer
  <2>3. Taken' /\ Dialed'
    BY <1>1 DEF dialConn, dialTCP, dialFails, handshake, handshakeFails, startLoops,
       TypeOK, Taken, Dialed, Answer, EarlyOut
  <2>4. Answer' /\ Reasons' /\ CancelReported'
    BY <1>1 DEF dialConn, dialTCP, dialFails, handshake, handshakeFails, startLoops,
       TypeOK, Answer, Reasons, CancelReported, Results, CloseErrors, CancelErrors,
       ReadErrors
  <2>5. Registered' /\ Signals'
    BY <1>1 DEF dialConn, dialTCP, dialFails, handshake, handshakeFails, startLoops,
       TypeOK, Registered, Signals, Taken, Dialed, Answer, CancelErrors, ReadErrors
  <2> QED
    BY <2>1, <2>2, <2>3, <2>4, <2>5
<1>2. CASE handlePendingDial
  <2>1. TypeOK'
    BY <1>2 DEF handlePendingDial, close, TypeOK, Counted, Answer, Reasons, Results,
       CloseErrors, CancelErrors, ReadErrors
  <2>2. Counted' /\ Unwritten' /\ EarlyOut'
    BY <1>2 DEF handlePendingDial, close, TypeOK, Counted, Unwritten, EarlyOut, Taken,
       Dialed, Answer
  <2>3. Taken' /\ Dialed'
    BY <1>2 DEF handlePendingDial, close, TypeOK, Taken, Dialed, Answer, EarlyOut
  <2>4. Answer' /\ Reasons' /\ CancelReported'
    BY <1>2 DEF handlePendingDial, close, TypeOK, Answer, Reasons, CancelReported,
       Results, CloseErrors, CancelErrors, ReadErrors
  <2>5. Registered' /\ Signals'
    BY <1>2 DEF handlePendingDial, close, TypeOK, Registered, Signals, Taken, Dialed,
       Answer, CancelErrors, ReadErrors
  <2> QED
    BY <2>1, <2>2, <2>3, <2>4, <2>5
<1> QED
  BY <1>1, <1>2

\* The writeLoop.
LEMMA WriteStep ==
  ASSUME IInv, recvWrite \/ writeRequest \/ writeFails \/ writeLoopEnds,
         UNCHANGED <<callerVars, userVars, canceler, cancelc, canceledErr, num,
                     reqch, dialVars, readVars, bodyVars, wire>>
  PROVE  IInv'
<1> USE DEF IInv, Before, Over,
           callerVars, userVars, connVars, chanVars, dialVars, readVars, bodyVars,
           localVars, loopVars
<1>1. CASE recvWrite
  <2>1. TypeOK'
    <3>1. Flags'
      BY ZenonT(60), <1>1, NonHTTPAssumption DEF recvWrite, TypeOK, Flags
    <3>2. waitBody' \in Seq(BOOLEAN)
      BY <1>1 DEF recvWrite, TypeOK
    <3> QED
      BY <3>1, <3>2, <1>1 DEF recvWrite, Flags, TypeOK, Counted, Answer, Reasons,
         Results, CloseErrors, CancelErrors, ReadErrors
  <2>2. Counted' /\ Unwritten' /\ EarlyOut'
    BY <1>1 DEF recvWrite, TypeOK, Counted, Unwritten, EarlyOut, Taken, Dialed, Answer
  <2>3. Taken' /\ Dialed'
    BY <1>1 DEF recvWrite, TypeOK, Taken, Dialed, Answer, EarlyOut
  <2>4. Answer' /\ Reasons' /\ CancelReported'
    BY <1>1 DEF recvWrite, TypeOK, Answer, Reasons, CancelReported, Results,
       CloseErrors, CancelErrors, ReadErrors
  <2>5. Registered' /\ Signals'
    BY <1>1 DEF recvWrite, TypeOK, Registered, Signals, Taken, Dialed, Answer,
       CancelErrors, ReadErrors
  <2> QED
    BY <2>1, <2>2, <2>3, <2>4, <2>5
<1>2. CASE writeRequest
  <2>1. TypeOK'
    BY <1>2 DEF writeRequest, TypeOK, Counted, Answer, Reasons, Results, CloseErrors,
       CancelErrors, ReadErrors
  <2>2. Counted' /\ Unwritten' /\ EarlyOut'
    BY <1>2 DEF writeRequest, TypeOK, Counted, Unwritten, EarlyOut, Taken, Dialed,
       Answer
  <2>3. Taken' /\ Dialed'
    BY <1>2 DEF writeRequest, TypeOK, Taken, Dialed, Answer, EarlyOut
  <2>4. Answer' /\ Reasons' /\ CancelReported'
    BY <1>2 DEF writeRequest, TypeOK, Answer, Reasons, CancelReported, Results,
       CloseErrors, CancelErrors, ReadErrors
  <2>5. Registered' /\ Signals'
    BY <1>2 DEF writeRequest, TypeOK, Registered, Signals, Taken, Dialed, Answer,
       CancelErrors, ReadErrors
  <2> QED
    BY <2>1, <2>2, <2>3, <2>4, <2>5
<1>3. CASE writeFails
  <2>1. TypeOK'
    <3>1. Flags'
      BY ZenonT(60), <1>3, NonHTTPAssumption DEF writeFails, TypeOK, Flags
    <3>2. waitBody' \in Seq(BOOLEAN)
      BY <1>3 DEF writeFails, TypeOK
    <3> QED
      BY <3>1, <3>2, <1>3 DEF writeFails, Flags, TypeOK, Counted, Answer, Reasons,
         Results, CloseErrors, CancelErrors, ReadErrors
  <2>2. Counted' /\ Unwritten' /\ EarlyOut'
    BY <1>3 DEF writeFails, TypeOK, Counted, Unwritten, EarlyOut, Taken, Dialed, Answer
  <2>3. Taken' /\ Dialed'
    BY <1>3 DEF writeFails, TypeOK, Taken, Dialed, Answer, EarlyOut
  <2>4. Answer' /\ Reasons' /\ CancelReported'
    BY <1>3 DEF writeFails, TypeOK, Answer, Reasons, CancelReported, Results,
       CloseErrors, CancelErrors, ReadErrors
  <2>5. Registered' /\ Signals'
    BY <1>3 DEF writeFails, TypeOK, Registered, Signals, Taken, Dialed, Answer,
       CancelErrors, ReadErrors
  <2> QED
    BY <2>1, <2>2, <2>3, <2>4, <2>5
<1>4. CASE writeLoopEnds
  <2>1. TypeOK'
    BY <1>4 DEF writeLoopEnds, close, TypeOK, Counted, Answer, Reasons, Results,
       CloseErrors, CancelErrors, ReadErrors
  <2>2. Counted' /\ Unwritten' /\ EarlyOut'
    BY <1>4 DEF writeLoopEnds, close, TypeOK, Counted, Unwritten, EarlyOut, Taken,
       Dialed, Answer
  <2>3. Taken' /\ Dialed'
    BY <1>4 DEF writeLoopEnds, close, TypeOK, Taken, Dialed, Answer, EarlyOut
  <2>4. Answer' /\ Reasons' /\ CancelReported'
    BY <1>4 DEF writeLoopEnds, close, TypeOK, Answer, Reasons, CancelReported, Results,
       CloseErrors, CancelErrors, ReadErrors
  <2>5. Registered' /\ Signals'
    BY <1>4 DEF writeLoopEnds, close, TypeOK, Registered, Signals, Taken, Dialed,
       Answer, CancelErrors, ReadErrors
  <2> QED
    BY <2>1, <2>2, <2>3, <2>4, <2>5
<1> QED
  BY <1>1, <1>2, <1>3, <1>4

\* The server speaks.
LEMMA ServerStep ==
  ASSUME IInv, Server
  PROVE  IInv'
<1> USE DEF IInv, Before, Over,
           callerVars, userVars, connVars, chanVars, dialVars, readVars, bodyVars,
           localVars, loopVars
<1>1. CASE Server
  <2>1. TypeOK'
    BY <1>1 DEF Server, TypeOK, Counted, Answer, Reasons, Results, CloseErrors,
       CancelErrors, ReadErrors
  <2>2. Counted' /\ Unwritten' /\ EarlyOut'
    BY <1>1 DEF Server, TypeOK, Counted, Unwritten, EarlyOut, Taken, Dialed, Answer
  <2>3. Taken' /\ Dialed'
    BY <1>1 DEF Server, TypeOK, Taken, Dialed, Answer, EarlyOut
  <2>4. Answer' /\ Reasons' /\ CancelReported'
    BY <1>1 DEF Server, TypeOK, Answer, Reasons, CancelReported, Results, CloseErrors,
       CancelErrors, ReadErrors
  <2>5. Registered' /\ Signals'
    BY <1>1 DEF Server, TypeOK, Registered, Signals, Taken, Dialed, Answer,
       CancelErrors, ReadErrors
  <2> QED
    BY <2>1, <2>2, <2>3, <2>4, <2>5
<1> QED
  BY <1>1

\* The readLoop in its round.
LEMMA ReadLoopStep ==
  ASSUME IInv, ReadStep,
         UNCHANGED <<timer, sawCancel, sawDone, userVars, cancelc, writech, wrote,
                     nwrite, dialVars, wl, esClosed, rerr, wire, rd, eofc>>
  PROVE  IInv'
<1> USE DEF IInv, Before, Over,
           callerVars, userVars, connVars, chanVars, dialVars, readVars, bodyVars,
           localVars, loopVars
<1>1. CASE peekFails
  <2>1. TypeOK'
    BY <1>1 DEF ReadStep, peekFails, close, Peeked, TypeOK, Counted, Answer, Reasons,
       Results, CloseErrors, CancelErrors, ReadErrors
  <2>2. Counted' /\ Unwritten' /\ EarlyOut'
    BY <1>1 DEF ReadStep, peekFails, close, Peeked, TypeOK, Counted, Unwritten,
       EarlyOut, Taken, Dialed, Answer
  <2>3. Taken' /\ Dialed'
    BY <1>1 DEF ReadStep, peekFails, close, Peeked, TypeOK, Taken, Dialed, Answer,
       EarlyOut
  <2>4. Answer' /\ Reasons' /\ CancelReported'
    BY <1>1 DEF ReadStep, peekFails, close, Peeked, TypeOK, Answer, Reasons,
       CancelReported, Results, CloseErrors, CancelErrors, ReadErrors
  <2>5. Registered' /\ Signals'
    BY <1>1 DEF ReadStep, peekFails, close, Peeked, TypeOK, Registered, Signals, Taken,
       Dialed, Answer, CancelErrors, ReadErrors
  <2> QED
    BY <2>1, <2>2, <2>3, <2>4, <2>5
<1>2. CASE peek
  <2>1. TypeOK'
    BY <1>2 DEF ReadStep, peek, Peeked, TypeOK, Counted, Answer, Reasons, Results,
       CloseErrors, CancelErrors, ReadErrors
  <2>2. Counted' /\ Unwritten' /\ EarlyOut'
    BY <1>2 DEF ReadStep, peek, Peeked, TypeOK, Counted, Unwritten, EarlyOut, Taken,
       Dialed, Answer
  <2>3. Taken' /\ Dialed'
    BY <1>2 DEF ReadStep, peek, Peeked, TypeOK, Taken, Dialed, Answer, EarlyOut
  <2>4. Answer' /\ Reasons' /\ CancelReported'
    BY <1>2 DEF ReadStep, peek, Peeked, TypeOK, Answer, Reasons, CancelReported,
       Results, CloseErrors, CancelErrors, ReadErrors
  <2>5. Registered' /\ Signals'
    BY <1>2 DEF ReadStep, peek, Peeked, TypeOK, Registered, Signals, Taken, Dialed,
       Answer, CancelErrors, ReadErrors
  <2> QED
    BY <2>1, <2>2, <2>3, <2>4, <2>5
<1>3. CASE recvRequest
  <2>1. TypeOK'
    <3>1. Flags'
      BY ZenonT(60), <1>3, NonHTTPAssumption DEF ReadStep, recvRequest, TypeOK, Flags
    <3>2. waitBody' \in Seq(BOOLEAN)
      BY <1>3 DEF ReadStep, recvRequest, TypeOK
    <3> QED
      BY <3>1, <3>2, <1>3 DEF ReadStep, recvRequest, Flags, TypeOK, Counted, Answer,
         Reasons, Results, CloseErrors, CancelErrors, ReadErrors
  <2>2. Counted' /\ Unwritten' /\ EarlyOut'
    BY <1>3 DEF ReadStep, recvRequest, TypeOK, Counted, Unwritten, EarlyOut, Taken,
       Dialed, Answer
  <2>3. Taken' /\ Dialed'
    BY <1>3 DEF ReadStep, recvRequest, TypeOK, Taken, Dialed, Answer, EarlyOut
  <2>4. Answer' /\ Reasons' /\ CancelReported'
    BY <1>3 DEF ReadStep, recvRequest, TypeOK, Answer, Reasons, CancelReported, Results,
       CloseErrors, CancelErrors, ReadErrors
  <2>5. Registered' /\ Signals'
    BY <1>3 DEF ReadStep, recvRequest, TypeOK, Registered, Signals, Taken, Dialed,
       Answer, CancelErrors, ReadErrors
  <2> QED
    BY <2>1, <2>2, <2>3, <2>4, <2>5
<1>4. CASE readResponse
  <2>1. TypeOK'
    BY <1>4 DEF ReadStep, readResponse, TypeOK, Counted, Answer, Reasons, Results,
       CloseErrors, CancelErrors, ReadErrors
  <2>2. Counted' /\ Unwritten' /\ EarlyOut'
    BY <1>4 DEF ReadStep, readResponse, TypeOK, Counted, Unwritten, EarlyOut, Taken,
       Dialed, Answer
  <2>3. Taken' /\ Dialed'
    BY <1>4 DEF ReadStep, readResponse, TypeOK, Taken, Dialed, Answer, EarlyOut
  <2>4. Answer' /\ Reasons' /\ CancelReported'
    BY <1>4 DEF ReadStep, readResponse, TypeOK, Answer, Reasons, CancelReported,
       Results, CloseErrors, CancelErrors, ReadErrors
  <2>5. Registered' /\ Signals'
    BY <1>4 DEF ReadStep, readResponse, TypeOK, Registered, Signals, Taken, Dialed,
       Answer, CancelErrors, ReadErrors
  <2> QED
    BY <2>1, <2>2, <2>3, <2>4, <2>5
<1>5. CASE responseFails
  <2>1. TypeOK'
    BY <1>5 DEF ReadStep, responseFails, TypeOK, Counted, Answer, Reasons, Results,
       CloseErrors, CancelErrors, ReadErrors
  <2>2. Counted' /\ Unwritten' /\ EarlyOut'
    BY <1>5 DEF ReadStep, responseFails, TypeOK, Counted, Unwritten, EarlyOut, Taken,
       Dialed, Answer
  <2>3. Taken' /\ Dialed'
    BY <1>5 DEF ReadStep, responseFails, TypeOK, Taken, Dialed, Answer, EarlyOut
  <2>4. Answer' /\ Reasons' /\ CancelReported'
    BY <1>5 DEF ReadStep, responseFails, TypeOK, Answer, Reasons, CancelReported,
       Results, CloseErrors, CancelErrors, ReadErrors
  <2>5. Registered' /\ Signals'
    BY <1>5 DEF ReadStep, responseFails, TypeOK, Registered, Signals, Taken, Dialed,
       Answer, CancelErrors, ReadErrors
  <2> QED
    BY <2>1, <2>2, <2>3, <2>4, <2>5
<1>6. CASE bodyless
  <2>1. TypeOK'
    BY <1>6 DEF ReadStep, bodyless, TypeOK, Counted, Answer, Reasons, Results,
       CloseErrors, CancelErrors, ReadErrors
  <2>2. Counted' /\ Unwritten' /\ EarlyOut'
    BY <1>6 DEF ReadStep, bodyless, TypeOK, Counted, Unwritten, EarlyOut, Taken, Dialed,
       Answer
  <2>3. Taken' /\ Dialed'
    BY <1>6 DEF ReadStep, bodyless, TypeOK, Taken, Dialed, Answer, EarlyOut
  <2>4. Answer' /\ Reasons' /\ CancelReported'
    BY <1>6 DEF ReadStep, bodyless, TypeOK, Answer, Reasons, CancelReported, Results,
       CloseErrors, CancelErrors, ReadErrors
  <2>5. Registered' /\ Signals'
    BY <1>6 DEF ReadStep, bodyless, TypeOK, Registered, Signals, Taken, Dialed, Answer,
       CancelErrors, ReadErrors
  <2> QED
    BY <2>1, <2>2, <2>3, <2>4, <2>5
<1>7. CASE callerGone
  <2>1. TypeOK'
    BY <1>7 DEF ReadStep, callerGone, TypeOK, Counted, Answer, Reasons, Results,
       CloseErrors, CancelErrors, ReadErrors
  <2>2. Counted' /\ Unwritten' /\ EarlyOut'
    BY <1>7 DEF ReadStep, callerGone, TypeOK, Counted, Unwritten, EarlyOut, Taken,
       Dialed, Answer
  <2>3. Taken' /\ Dialed'
    BY <1>7 DEF ReadStep, callerGone, TypeOK, Taken, Dialed, Answer, EarlyOut
  <2>4. Answer' /\ Reasons' /\ CancelReported'
    BY <1>7 DEF ReadStep, callerGone, TypeOK, Answer, Reasons, CancelReported, Results,
       CloseErrors, CancelErrors, ReadErrors
  <2>5. Registered' /\ Signals'
    BY <1>7 DEF ReadStep, callerGone, TypeOK, Registered, Signals, Taken, Dialed,
       Answer, CancelErrors, ReadErrors
  <2> QED
    BY <2>1, <2>2, <2>3, <2>4, <2>5
<1>8. CASE bodyDone
  <2>0. /\ waitBody \in Seq(BOOLEAN) /\ waitBody # <<>> /\ waitBody' = Tail(waitBody)
        /\ rl = "waitBody" /\ canceler' = "none" /\ rl' \in {"eofc", "exit"}
        /\ UNCHANGED <<num, reqch, rlOut, pc, res, errv, connVars, canceledErr, fnSet>>
    BY Zenon, <1>8 DEF ReadStep, bodyDone, TypeOK
  <2>a. waitBody' \in Seq(BOOLEAN) /\ Len(waitBody') = Len(waitBody) - 1
    BY Zenon, <2>0, Signalled
  <2>b. Len(waitBody) \in Nat
    BY Zenon, <2>0, Signalled
  <2>1. TypeOK'
    <3>1. Flags'
      BY ZenonT(60), <1>8 DEF ReadStep, bodyDone, TypeOK, Flags
    <3> QED
      BY <3>1, <2>a, <2>0 DEF Flags, TypeOK, Results, CloseErrors, CancelErrors, ReadErrors
  <2>2. Counted' /\ Unwritten' /\ EarlyOut'
    BY <1>8 DEF ReadStep, bodyDone, TypeOK, Counted, Unwritten, EarlyOut, Taken, Dialed,
       Answer
  <2>3. Taken' /\ Dialed'
    BY <1>8 DEF ReadStep, bodyDone, TypeOK, Taken, Dialed, Answer, EarlyOut
  <2>4. Answer' /\ Reasons' /\ CancelReported'
    BY <1>8 DEF ReadStep, bodyDone, TypeOK, Answer, Reasons, CancelReported, Results,
       CloseErrors, CancelErrors, ReadErrors
  <2>5. Registered' /\ Signals'
    BY <2>0, <2>a, <2>b DEF Registered, Signals, Taken, CancelErrors, ReadErrors
  <2> QED
    BY <2>1, <2>2, <2>3, <2>4, <2>5
<1>9. CASE bodyCancelled
  <2>1. TypeOK'
    BY <1>9 DEF ReadStep, bodyCancelled, TypeOK, Counted, Answer, Reasons, Results,
       CloseErrors, CancelErrors, ReadErrors
  <2>2. Counted' /\ Unwritten' /\ EarlyOut'
    BY <1>9 DEF ReadStep, bodyCancelled, TypeOK, Counted, Unwritten, EarlyOut, Taken,
       Dialed, Answer
  <2>3. Taken' /\ Dialed'
    BY <1>9 DEF ReadStep, bodyCancelled, TypeOK, Taken, Dialed, Answer, EarlyOut
  <2>4. Answer' /\ Reasons' /\ CancelReported'
    BY <1>9 DEF ReadStep, bodyCancelled, TypeOK, Answer, Reasons, CancelReported,
       Results, CloseErrors, CancelErrors, ReadErrors
  <2>5. Registered' /\ Signals'
    BY <1>9 DEF ReadStep, bodyCancelled, TypeOK, Registered, Signals, Taken, Dialed,
       Answer, CancelErrors, ReadErrors
  <2> QED
    BY <2>1, <2>2, <2>3, <2>4, <2>5
<1>10. CASE readLoopCancels
  <2>1. TypeOK'
    BY <1>10 DEF ReadStep, readLoopCancels, cancelRequest, close, TypeOK, Counted,
       Answer, Reasons, Results, CloseErrors, CancelErrors, ReadErrors
  <2>2. Counted' /\ Unwritten' /\ EarlyOut'
    BY <1>10 DEF ReadStep, readLoopCancels, cancelRequest, close, TypeOK, Counted,
       Unwritten, EarlyOut, Taken, Dialed, Answer
  <2>3. Taken' /\ Dialed'
    BY <1>10 DEF ReadStep, readLoopCancels, cancelRequest, close, TypeOK, Taken, Dialed,
       Answer, EarlyOut
  <2>4. Answer' /\ Reasons' /\ CancelReported'
    BY <1>10 DEF ReadStep, readLoopCancels, cancelRequest, close, TypeOK, Answer,
       Reasons, CancelReported, Results, CloseErrors, CancelErrors, ReadErrors
  <2>5. Registered' /\ Signals'
    BY <1>10 DEF ReadStep, readLoopCancels, cancelRequest, close, TypeOK, Registered,
       Signals, Taken, Dialed, Answer, CancelErrors, ReadErrors
  <2> QED
    BY <2>1, <2>2, <2>3, <2>4, <2>5
<1>11. CASE bodyClosed
  <2>1. TypeOK'
    BY <1>11 DEF ReadStep, bodyClosed, TypeOK, Counted, Answer, Reasons, Results,
       CloseErrors, CancelErrors, ReadErrors
  <2>2. Counted' /\ Unwritten' /\ EarlyOut'
    BY <1>11 DEF ReadStep, bodyClosed, TypeOK, Counted, Unwritten, EarlyOut, Taken,
       Dialed, Answer
  <2>3. Taken' /\ Dialed'
    BY <1>11 DEF ReadStep, bodyClosed, TypeOK, Taken, Dialed, Answer, EarlyOut
  <2>4. Answer' /\ Reasons' /\ CancelReported'
    BY <1>11 DEF ReadStep, bodyClosed, TypeOK, Answer, Reasons, CancelReported, Results,
       CloseErrors, CancelErrors, ReadErrors
  <2>5. Registered' /\ Signals'
    BY <1>11 DEF ReadStep, bodyClosed, TypeOK, Registered, Signals, Taken, Dialed,
       Answer, CancelErrors, ReadErrors
  <2> QED
    BY <2>1, <2>2, <2>3, <2>4, <2>5
<1> QED
  BY <1>1, <1>2, <1>3, <1>4, <1>5, <1>6, <1>7, <1>8, <1>9, <1>10, <1>11 DEF ReadStep

\* The readLoop sends the caller its answer.
LEMMA SendStep ==
  ASSUME IInv, send,
         UNCHANGED <<timer, sawCancel, sawDone, userVars, cancelc, writech, wrote,
                     nwrite, dialVars, wl, esClosed, rerr, wire, rd, eofc>>
  PROVE  IInv'
<1> USE DEF IInv, Before, Over,
           callerVars, userVars, connVars, chanVars, dialVars, readVars, bodyVars,
           localVars, loopVars
<1>1. CASE send
  <2>1. TypeOK'
    BY <1>1 DEF send, TypeOK, Counted, Answer, Reasons, Results, CloseErrors,
       CancelErrors, ReadErrors
  <2>2. Counted' /\ Unwritten' /\ EarlyOut'
    BY <1>1 DEF send, TypeOK, Counted, Unwritten, EarlyOut, Taken, Dialed, Answer
  <2>3. Taken' /\ Dialed'
    BY <1>1 DEF send, TypeOK, Taken, Dialed, Answer, EarlyOut
  <2>4. Answer' /\ Reasons' /\ CancelReported'
    BY <1>1 DEF send, TypeOK, Answer, Reasons, CancelReported, Results, CloseErrors,
       CancelErrors, ReadErrors
  <2>5. Registered' /\ Signals'
    BY <1>1 DEF send, TypeOK, Registered, Signals, Taken, Dialed, Answer, CancelErrors,
       ReadErrors
  <2> QED
    BY <2>1, <2>2, <2>3, <2>4, <2>5
<1> QED
  BY <1>1

\* The readLoop leaves, or lets the reader of the body go.
LEMMA ExitStep ==
  ASSUME IInv, exit \/ sendEofc,
         UNCHANGED <<timer, sawCancel, sawDone, userVars, cancelc, writech, wrote,
                     nwrite, dialVars, wl, esClosed, rerr, wire,
                     num, reqch, rlOut, pc, res, errv, canceler, canceledErr,
                     waitBody>>
  PROVE  IInv'
<1> USE DEF IInv, Before, Over,
           callerVars, userVars, connVars, chanVars, dialVars, readVars, bodyVars,
           localVars, loopVars
<1>1. CASE exit
  <2>1. TypeOK'
    BY <1>1 DEF exit, close, TypeOK, Counted, Answer, Reasons, Results, CloseErrors,
       CancelErrors, ReadErrors
  <2>2. Counted' /\ Unwritten' /\ EarlyOut'
    BY <1>1 DEF exit, close, TypeOK, Counted, Unwritten, EarlyOut, Taken, Dialed, Answer
  <2>3. Taken' /\ Dialed'
    BY <1>1 DEF exit, close, TypeOK, Taken, Dialed, Answer, EarlyOut
  <2>4. Answer' /\ Reasons' /\ CancelReported'
    BY <1>1 DEF exit, close, TypeOK, Answer, Reasons, CancelReported, Results,
       CloseErrors, CancelErrors, ReadErrors
  <2>5. Registered' /\ Signals'
    BY <1>1 DEF exit, close, TypeOK, Registered, Signals, Taken, Dialed, Answer,
       CancelErrors, ReadErrors
  <2> QED
    BY <2>1, <2>2, <2>3, <2>4, <2>5
<1>2. CASE sendEofc
  <2>1. TypeOK'
    <3>1. Flags'
      BY ZenonT(60), <1>2, NonHTTPAssumption DEF sendEofc, TypeOK, Flags
    <3>2. waitBody' \in Seq(BOOLEAN)
      BY <1>2 DEF sendEofc, TypeOK
    <3> QED
      BY <3>1, <3>2, <1>2 DEF sendEofc, Flags, TypeOK, Counted, Answer, Reasons,
         Results, CloseErrors, CancelErrors, ReadErrors
  <2>2. Counted' /\ Unwritten' /\ EarlyOut'
    BY <1>2 DEF sendEofc, TypeOK, Counted, Unwritten, EarlyOut, Taken, Dialed, Answer
  <2>3. Taken' /\ Dialed'
    BY <1>2 DEF sendEofc, TypeOK, Taken, Dialed, Answer, EarlyOut
  <2>4. Answer' /\ Reasons' /\ CancelReported'
    BY <1>2 DEF sendEofc, TypeOK, Answer, Reasons, CancelReported, Results, CloseErrors,
       CancelErrors, ReadErrors
  <2>5. Registered' /\ Signals'
    BY <1>2 DEF sendEofc, TypeOK, Registered, Signals, Taken, Dialed, Answer,
       CancelErrors, ReadErrors
  <2> QED
    BY <2>1, <2>2, <2>3, <2>4, <2>5
<1> QED
  BY <1>1, <1>2

\* Who reads and closes the body.
LEMMA BodyStep ==
  ASSUME IInv, ReadBody \/ ReadBodyEnds \/ ReadBodyReleased \/ CloseBody,
         UNCHANGED <<callerVars, userVars, canceler, cancelc, connVars, canceledErr,
                     chanVars, dialVars, readVars, wl, eofc, wire>>
  PROVE  IInv'
<1> USE DEF IInv, Before, Over,
           callerVars, userVars, connVars, chanVars, dialVars, readVars, bodyVars,
           localVars, loopVars
<1>1. CASE ReadBody
  <2>1. TypeOK'
    BY <1>1 DEF ReadBody, TypeOK, Counted, Answer, Reasons, Results, CloseErrors,
       CancelErrors, ReadErrors
  <2>2. Counted' /\ Unwritten' /\ EarlyOut'
    BY <1>1 DEF ReadBody, TypeOK, Counted, Unwritten, EarlyOut, Taken, Dialed, Answer
  <2>3. Taken' /\ Dialed'
    BY <1>1 DEF ReadBody, TypeOK, Taken, Dialed, Answer, EarlyOut
  <2>4. Answer' /\ Reasons' /\ CancelReported'
    BY <1>1 DEF ReadBody, TypeOK, Answer, Reasons, CancelReported, Results, CloseErrors,
       CancelErrors, ReadErrors
  <2>5. Registered' /\ Signals'
    BY <1>1 DEF ReadBody, TypeOK, Registered, Signals, Taken, Dialed, Answer,
       CancelErrors, ReadErrors
  <2> QED
    BY <2>1, <2>2, <2>3, <2>4, <2>5
<1>2. CASE ReadBodyEnds
  <2>1. TypeOK'
    BY <1>2 DEF ReadBodyEnds, TypeOK, Counted, Answer, Reasons, Results, CloseErrors,
       CancelErrors, ReadErrors
  <2>2. Counted' /\ Unwritten' /\ EarlyOut'
    BY <1>2 DEF ReadBodyEnds, TypeOK, Counted, Unwritten, EarlyOut, Taken, Dialed,
       Answer
  <2>3. Taken' /\ Dialed'
    BY <1>2 DEF ReadBodyEnds, TypeOK, Taken, Dialed, Answer, EarlyOut
  <2>4. Answer' /\ Reasons' /\ CancelReported'
    BY <1>2 DEF ReadBodyEnds, TypeOK, Answer, Reasons, CancelReported, Results,
       CloseErrors, CancelErrors, ReadErrors
  <2>5. Registered' /\ Signals'
    BY <1>2 DEF ReadBodyEnds, TypeOK, Registered, Signals, Taken, Dialed, Answer,
       CancelErrors, ReadErrors
  <2> QED
    BY <2>1, <2>2, <2>3, <2>4, <2>5
<1>3. CASE ReadBodyReleased
  <2>1. TypeOK'
    <3>1. Flags'
      BY ZenonT(60), <1>3, NonHTTPAssumption DEF ReadBodyReleased, TypeOK, Flags
    <3>2. waitBody' \in Seq(BOOLEAN)
      BY <1>3 DEF ReadBodyReleased, TypeOK
    <3> QED
      BY <3>1, <3>2, <1>3 DEF ReadBodyReleased, Flags, TypeOK, Counted, Answer, Reasons,
         Results, CloseErrors, CancelErrors, ReadErrors
  <2>2. Counted' /\ Unwritten' /\ EarlyOut'
    BY <1>3 DEF ReadBodyReleased, TypeOK, Counted, Unwritten, EarlyOut, Taken, Dialed,
       Answer
  <2>3. Taken' /\ Dialed'
    BY <1>3 DEF ReadBodyReleased, TypeOK, Taken, Dialed, Answer, EarlyOut
  <2>4. Answer' /\ Reasons' /\ CancelReported'
    BY <1>3 DEF ReadBodyReleased, TypeOK, Answer, Reasons, CancelReported, Results,
       CloseErrors, CancelErrors, ReadErrors
  <2>5. Registered' /\ Signals'
    BY <1>3 DEF ReadBodyReleased, TypeOK, Registered, Signals, Taken, Dialed, Answer,
       CancelErrors, ReadErrors
  <2> QED
    BY <2>1, <2>2, <2>3, <2>4, <2>5
<1>4. CASE CloseBody
  <2>0. /\ waitBody \in Seq(BOOLEAN) /\ ~esClosed /\ esClosed' = TRUE
        /\ waitBody' = IF rerr = "EOF" THEN waitBody ELSE Append(waitBody, FALSE)
        /\ UNCHANGED <<rd, rerr, fnSet>>
    BY Zenon, <1>4 DEF CloseBody, TypeOK
  <2>a. /\ waitBody' \in Seq(BOOLEAN) /\ Len(waitBody) \in Nat
        /\ Len(waitBody') = Len(waitBody) \/ Len(waitBody') = Len(waitBody) + 1
    <3>1. CASE rerr = "EOF"
      BY Zenon, <2>0, <3>1, Signalled
    <3>2. CASE rerr # "EOF"
      <4>1. waitBody' = Append(waitBody, FALSE)
        BY Zenon, <2>0, <3>2
      <4> QED
        BY Zenon, <4>1, <2>0, Signalled
    <3> QED
      BY Zenon, <3>1, <3>2
  <2>1. TypeOK'
    <3>1. Flags'
      BY ZenonT(60), <1>4 DEF CloseBody, TypeOK, Flags
    <3>2. waitBody' \in Seq(BOOLEAN)
      BY <2>a
    <3>3. UNCHANGED <<rd, rerr>>
      BY <2>0
    <3> QED
      BY <3>1, <3>2, <3>3 DEF Flags, TypeOK, Results, CloseErrors, CancelErrors, ReadErrors
  <2>2. Counted' /\ Unwritten' /\ EarlyOut'
    BY <1>4 DEF CloseBody, TypeOK, Counted, Unwritten, EarlyOut, Taken, Dialed, Answer
  <2>3. Taken' /\ Dialed'
    BY <1>4 DEF CloseBody, TypeOK, Taken, Dialed, Answer, EarlyOut
  <2>4. Answer' /\ Reasons' /\ CancelReported'
    BY <1>4 DEF CloseBody, TypeOK, Answer, Reasons, CancelReported, Results,
       CloseErrors, CancelErrors, ReadErrors
  <2>5. Registered' /\ Signals'
    BY <1>4 DEF CloseBody, TypeOK, Registered, Signals, Taken, Dialed, Answer,
       CancelErrors, ReadErrors
  <2> QED
    BY <2>1, <2>2, <2>3, <2>4, <2>5
<1> QED
  BY <1>1, <1>2, <1>3, <1>4

\* Before RoundTrip is called.
LEMMA InitInv == Init => IInv
<1> SUFFICES ASSUME Init PROVE IInv
  OBVIOUS
<1>1. waitBody \in Seq(BOOLEAN) /\ Len(waitBody) = 0
  BY EmptySeq DEF Init
<1>2. Flags
  BY Zenon DEF Init, Flags
<1>3. TypeOK
  BY <1>1, <1>2 DEF Init, Flags, TypeOK, Results, CloseErrors, CancelErrors, ReadErrors
<1>4. Counted /\ Unwritten /\ Taken /\ EarlyOut /\ Dialed
  BY DEF Init, Counted, Unwritten, Taken, EarlyOut, Dialed, Before
<1>5. Answer /\ Reasons /\ Registered /\ CancelReported
  BY DEF Init, Answer, Reasons, Registered, CancelReported
<1>6. Signals
  BY <1>1 DEF Init, Signals
<1> QED
  BY <1>3, <1>4, <1>5, <1>6 DEF IInv

\* A step that leaves everything alone.
LEMMA IdleStep == IInv /\ UNCHANGED vars => IInv'
BY DEF IInv, vars, callerVars, userVars, connVars, chanVars, dialVars, readVars,
   bodyVars, localVars, loopVars, TypeOK, Counted, Unwritten, Taken, EarlyOut, Dialed,
   Answer, Reasons, Registered, Signals, CancelReported, Before, Over

\* Every step of the caller, the user, the dialer, the two loops and the owner
\* of the body.
LEMMA NextInv == IInv /\ [Next]_vars => IInv'
<1> SUFFICES ASSUME IInv, [Next]_vars PROVE IInv'
  OBVIOUS
<1>1. CASE Caller \/ selectTimeout
  BY <1>1, GetConnStep, RoundTripStep DEF Caller
<1>2. CASE User
  BY <1>2, UserStep
<1>3. CASE dialConn \/ handlePendingDial
  BY <1>3, DialStep
<1>4. CASE writeLoop
  BY <1>4, WriteStep DEF writeLoop
<1>5. CASE readLoop
  BY <1>5, ReadLoopStep, SendStep, ExitStep DEF readLoop
<1>6. CASE Body
  BY <1>6, BodyStep DEF Body
<1>7. CASE Server
  BY <1>7, ServerStep
<1>8. CASE Finished \/ UNCHANGED vars
  BY <1>8, IdleStep DEF Finished
<1> QED
  BY <1>1, <1>2, <1>3, <1>4, <1>5, <1>6, <1>7, <1>8 DEF Next

\* The inductive invariant of a call of RoundTrip (nonhttproundtripper.go
\* 66-1640), with or without a timeout for the response's header.
THEOREM Invariant == FairSpec => []IInv
<1>1. FairSpec => Init /\ [][Next]_vars
  BY PTL DEF FairSpec
<1> QED
  BY <1>1, InitInv, NextInv, PTL

\* The types of a call of RoundTrip, its goroutines and its body.
THEOREM TypeCorrect == FairSpec => []TypeOK
<1>1. IInv => TypeOK
  BY DEF IInv
<1> QED
  BY <1>1, Invariant, PTL

\* "Since CancelRequest will clear the canceler, we can use the return value to
\* detect if the request was canceled" (386): a CancelRequest that came while
\* getConn was waiting is never overtaken by the dial.
THEOREM CanceledBeforeSent == FairSpec => []CancelInTime
<1>1. IInv => CancelInTime
  BY DEF IInv, TypeOK, EarlyOut, Answer, Over, CancelInTime
<1> QED
  BY <1>1, Invariant, PTL

\* mapRoundTripError (921-948): whoever sees the connection closed by a cancel sees
\* the reason, and reports it and no broken connection.
THEOREM CanceledIsReported == FairSpec => []CancelReported
<1>1. IInv => CancelReported
  BY DEF IInv
<1> QED
  BY <1>1, Invariant, PTL

\* setReqCanceler and replaceReqCanceler: the goroutines of a request leave no
\* entry for it in reqCanceler, unless a write failed after the answer came.
THEOREM NoCancelerLeft == FairSpec => []CancelerCleared
<1>1. IInv => CancelerCleared
  BY DEF IInv, TypeOK, Taken, Registered, Dialed, Answer, Settled, CancelerCleared
<1> QED
  BY <1>1, Invariant, PTL

\* waitForBodyRead := make(chan bool, 2) (1072): one signal of the body's end and
\* one of its Close are all there are, however Read and Close interleave.
THEOREM SignalsFit == FairSpec => []BodySignalFits
<1>1. IInv => BodySignalFits
  <2> SUFFICES ASSUME IInv PROVE BodySignalFits
    OBVIOUS
  <2>1. Len(waitBody) \in Nat
    BY LenProperties DEF IInv, TypeOK
  <2>2. Len(waitBody) <= (IF rerr # "none" THEN 1 ELSE 0) + (IF esClosed THEN 1 ELSE 0)
    BY DEF IInv, Signals
  <2> QED
    BY <2>1, <2>2 DEF BodySignalFits
<1> QED
  BY <1>1, Invariant, PTL
=============================================================================
