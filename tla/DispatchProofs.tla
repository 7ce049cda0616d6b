--------------------------- MODULE DispatchProofs ---------------------------
(***************************************************************************)
(* Proofs about Dispatch, for any number of registered handlers.           *)
(***************************************************************************)
EXTENDS Dispatch, TLAPS

\* Before the last act of a connection nothing has been said to the client,
\* no book has been closed and no target has been dialed.
Undecided ==
  /\ pc \in {"accept", "api", "connect", "request", "response"} =>
       reply = "none" /\ replies = 0 /\ doneRuns = 0 /\ target = "none"
  /\ pc \in {"accept", "api", "connect", "request"} =>
       body = "none" /\ ~rejected /\ then # "REJECT"
  /\ pc \in {"accept", "api", "request", "response", "copy", "done"} => ~secure
  /\ pc \in {"copy", "done"} => target = "none"
  /\ pc = "copy" => /\ doneRuns = 0
                    /\ then = "REJECT" => rejected \/ (body = "none" /\ reply # "upstream")
  /\ pc = "tunnel" => /\ target = "open" /\ body = "none" /\ doneRuns = 0
                      /\ ~rejected /\ then # "REJECT"

\* What is known of the upstream body while the response chain runs, and
\* where a chain stands that has met a REJECT.
Upstream ==
  /\ pc = "response" => /\ body = "open" => resp # "none"
                        /\ then = "REJECT" => rejected
  /\ pc = "copy" /\ body = "open" /\ reply # "upstream" => rejected \/ resp = "own"
  /\ pc = "done" /\ body = "open" => rejected \/ resp = "own" \/ then = "DONE"

Inv == /\ TypeOK /\ AnsweredOnce /\ NoPlaintextToTLS
       /\ RejectIsFinal /\ UpstreamReleased /\ Undecided /\ Upstream

Flags == /\ secure \in BOOLEAN /\ tunnel \in BOOLEAN
         /\ rejected \in BOOLEAN /\ failed \in BOOLEAN

\* A chain has a natural number of handlers.
LEMMA NoHandlersNegative == \A chain : Registered(chain) \in Nat
BY DispatchAssumption DEF Registered

\* Every step starts a chain or goes to the next handler of the one it is in.
LEMMA PosInRange ==
  ASSUME pos \in 0..Registered(pc), [Next]_vars
  PROVE  pos' \in 0..Registered(pc')
<1> USE NoHandlersNegative
<1>1. ASSUME pos' = 0 PROVE pos' \in 0..Registered(pc')
  BY <1>1
<1>2. ASSUME pc' = pc, pos' = pos PROVE pos' \in 0..Registered(pc')
  BY <1>2
<1>3. ASSUME pc' = pc, pos' = pos + 1, pos < Registered(pc)
      PROVE  pos' \in 0..Registered(pc')
  BY <1>3
<1>4. ASSUME NEW v \in Nexts, connectHandler(v)
      PROVE  pos' = 0 \/ (pc' = pc /\ pos' = pos + 1 /\ pos < Registered(pc))
  <2>1. pos < Registered(pc)
    BY <1>4 DEF connectHandler, Registered
  <2> QED
    BY <1>4, <2>1, Zenon DEF connectHandler, NextHandler, Goto, CloseWith, RejectConnect
<1>5. ASSUME NEW v \in Nexts, requestHandler(v)
      PROVE  pos' = 0 \/ (pc' = pc /\ pos' = pos + 1 /\ pos < Registered(pc))
  <2>1. pos < Registered(pc)
    BY <1>5 DEF requestHandler, Registered
  <2> QED
    BY <1>5, <2>1, Zenon DEF requestHandler, NextHandler, Goto, ForwardResponse,
                             DispatchDoneHandlers
<1>6. ASSUME NEW v \in Nexts, responseHandler(v)
      PROVE  pos' = 0 \/ (pc' = pc /\ pos' = pos + 1 /\ pos < Registered(pc))
  <2>1. pos < Registered(pc)
    BY <1>6 DEF responseHandler, Registered
  <2> QED
    BY <1>6, <2>1, Zenon DEF responseHandler, NextHandler, Goto, DispatchDoneHandlers
<1>7. ASSUME NEW v \in Nexts, doneHandler(v)
      PROVE  pos' = 0 \/ (pc' = pc /\ pos' = pos + 1 /\ pos < Registered(pc))
  <2>1. pos < Registered(pc)
    BY <1>7 DEF doneHandler, Registered
  <2> QED
    BY <1>7, <2>1, Zenon DEF doneHandler, NextHandler, Goto
<1>8. ASSUME Drop \/ ListenAndServeTLS \/ HandleHTTPConnection \/ HandleHTTP
               \/ ResponseForwarded \/ ForwardConnectFails
               \/ ForwardConnect \/ TunnelEnds \/ ForwardRequestFails \/ ForwardRequest
               \/ ForwardHTTPRequest \/ ResponseHandled \/ DoneHandled
      PROVE  pos' = 0
  BY <1>8, Zenon DEF Drop, ListenAndServeTLS, HandleHTTPConnection, HandleHTTP,
       ResponseForwarded, ForwardConnectFails,
       ForwardConnect, TunnelEnds, ForwardRequestFails, ForwardRequest,
       ForwardHTTPRequest, ResponseHandled, DoneHandled, CloseWith, RejectConnect, ForwardResponse, Goto
<1> QED
  BY <1>1, <1>2, <1>3, <1>4, <1>5, <1>6, <1>7, <1>8 DEF Next, vars

\* A connection that was just accepted satisfies the invariant.
LEMMA InitInv == Init => Inv
<1> SUFFICES ASSUME Init PROVE Inv
  OBVIOUS
<1>1. Flags
  BY Zenon DEF Init, Flags
<1>2. TypeOK
  BY <1>1, NoHandlersNegative DEF Init, TypeOK, Flags
<1>3. AnsweredOnce /\ NoPlaintextToTLS /\ RejectIsFinal
  BY DEF Init, AnsweredOnce, NoPlaintextToTLS, RejectIsFinal
<1>4. UpstreamReleased /\ Undecided /\ Upstream
  BY DEF Init, UpstreamReleased, Undecided, Upstream
<1> QED
  BY <1>2, <1>3, <1>4 DEF Inv

\* A handler leaves the four flags Boolean.
LEMMA HandlerFlags ==
  ASSUME Flags, NEW v \in Nexts,
         connectHandler(v) \/ requestHandler(v) \/ responseHandler(v)
  PROVE  Flags'
<1>1. CASE connectHandler(v)
  BY <1>1, Zenon DEF Flags, connectHandler, HandlerWrites
<1>2. CASE requestHandler(v)
  <2>1. (secure \in BOOLEAN)' /\ (rejected \in BOOLEAN)'
    BY <1>2, Zenon DEF Flags, requestHandler
  <2>2. (tunnel \in BOOLEAN)'
    BY <1>2, Zenon DEF Flags, requestHandler, HandlerWrites
  <2>3. (failed \in BOOLEAN)'
    BY <1>2, Zenon DEF Flags, requestHandler, connVars, ForwardResponse,
                       DispatchDoneHandlers
  <2> QED
    BY <2>1, <2>2, <2>3, Zenon DEF Flags
<1>3. CASE responseHandler(v)
  <2>1. (secure \in BOOLEAN)' /\ (rejected \in BOOLEAN)'
    BY <1>3, Zenon DEF Flags, responseHandler
  <2>2. (tunnel \in BOOLEAN)'
    BY <1>3, Zenon DEF Flags, responseHandler, HandlerWrites
  <2>3. (failed \in BOOLEAN)'
    BY <1>3, Zenon DEF Flags, responseHandler, connVars, DispatchDoneHandlers
  <2> QED
    BY <2>1, <2>2, <2>3, Zenon DEF Flags
<1> QED
  BY <1>1, <1>2, <1>3

\* What a request handler can do to the counters and to what they depend on.
LEMMA RequestOutcome ==
  ASSUME NEW v \in Nexts, requestHandler(v)
  PROVE  /\ replies' = replies \/ replies' = replies + 1
         /\ doneRuns' = doneRuns \/ doneRuns' = doneRuns + 1
         /\ secure' = secure /\ pc = "request"
         /\ pc' \in {"copy", "done", "response", "request", "panic"}
BY Zenon DEF requestHandler, ForwardResponse, DispatchDoneHandlers, Say,
             SayNothing, Goto, NextHandler, outVars

\* Every handler call, reply and forward preserves the invariant.
LEMMA StepInv == Inv /\ [Next]_vars => Inv'
<1> SUFFICES ASSUME Inv, [Next]_vars PROVE Inv'
  OBVIOUS
<1>0. pos' \in 0..Registered(pc')
  BY PosInRange DEF Inv, TypeOK
<1> USE <1>0 DEF Inv, TypeOK, AnsweredOnce, NoPlaintextToTLS, RejectIsFinal,
                 UpstreamReleased, Undecided, Upstream, Replies, Pages, Nexts, Say,
                 SayNothing, Goto, NextHandler, ctxVars, connVars, outVars
<1>1. CASE Drop
  BY <1>1 DEF Drop
<1>2. CASE ListenAndServeTLS
  BY <1>2 DEF ListenAndServeTLS
<1>3. CASE HandleHTTPConnection
  BY <1>3 DEF HandleHTTPConnection
<1>4. CASE ForwardConnectFails
  BY <1>4 DEF ForwardConnectFails, CloseWith
<1>5. CASE ForwardConnect
  BY <1>5 DEF ForwardConnect
<1>6. CASE TunnelEnds
  BY <1>6 DEF TunnelEnds
<1>7. CASE ForwardRequestFails
  BY <1>7 DEF ForwardRequestFails, CloseWith
<1>8. CASE ForwardRequest
  BY <1>8 DEF ForwardRequest
<1>9. CASE ForwardHTTPRequest
  BY <1>9 DEF ForwardHTTPRequest
<1>10. CASE ResponseHandled
  BY <1>10 DEF ResponseHandled, ForwardResponse
<1>11. CASE DoneHandled
  BY <1>11 DEF DoneHandled
<1>12. ASSUME NEW v \in Nexts, connectHandler(v) PROVE Inv'
  <2>1. Flags'
    BY <1>12, HandlerFlags DEF Flags
  <2> QED
    BY <1>12, <2>1 DEF connectHandler, Flags, HandlerWrites, CloseWith, RejectConnect
<1>13. ASSUME NEW v \in Nexts, requestHandler(v) PROVE Inv'
  <2>1. Flags'
    BY <1>13, HandlerFlags DEF Flags
  <2>2. TypeOK'
    <3>1. (replies \in Nat)' /\ (doneRuns \in Nat)'
      BY <1>13, RequestOutcome
    <3>2. (pc \in {"copy", "done", "response", "request", "panic"})'
      BY <1>13, RequestOutcome
    <3>3. (reply \in Replies \cup {"none"})' /\ (resp \in {"none", "own", "upstream"})'
      BY <1>13 DEF requestHandler, HandlerWrites, ForwardResponse,
                   DispatchDoneHandlers
    <3>4. (client \in {"open", "closed"})' /\ (target \in {"none", "open", "closed"})'
          /\ (body \in {"none", "open", "closed"})'
      BY <1>13 DEF requestHandler, ForwardResponse, DispatchDoneHandlers
    <3>5. (then \in Nexts)' /\ method' = method
      BY <1>13 DEF requestHandler
    <3> QED
      BY <2>1, <3>1, <3>2, <3>3, <3>4, <3>5 DEF Flags
  <2>3. (AnsweredOnce /\ NoPlaintextToTLS)'
    BY <1>13, RequestOutcome
  <2>4. RejectIsFinal'
    BY <1>13, <2>1 DEF requestHandler, Flags, HandlerWrites, ForwardResponse,
                       DispatchDoneHandlers
  <2>5. UpstreamReleased'
    BY <1>13, <2>1 DEF requestHandler, Flags, HandlerWrites, ForwardResponse,
                       DispatchDoneHandlers
  <2>6. Undecided'
    BY <1>13, <2>1 DEF requestHandler, Flags, HandlerWrites, ForwardResponse,
                       DispatchDoneHandlers
  <2>7. Upstream'
    BY <1>13, <2>1 DEF requestHandler, Flags, HandlerWrites, ForwardResponse,
                       DispatchDoneHandlers
  <2> QED
    BY <2>2, <2>3, <2>4, <2>5, <2>6, <2>7
<1>14. ASSUME NEW v \in Nexts, responseHandler(v) PROVE Inv'
  <2>1. Flags'
    BY <1>14, HandlerFlags DEF Flags
  <2>2. TypeOK'
    BY <1>14, <2>1 DEF responseHandler, Flags, HandlerWrites, DispatchDoneHandlers
  <2>3. (AnsweredOnce /\ NoPlaintextToTLS)'
    BY <1>14, <2>1 DEF responseHandler, Flags, HandlerWrites, DispatchDoneHandlers
  <2>4. RejectIsFinal'
    BY <1>14, <2>1 DEF responseHandler, Flags, HandlerWrites, DispatchDoneHandlers
  <2>5. UpstreamReleased'
    BY <1>14, <2>1 DEF responseHandler, Flags, HandlerWrites, DispatchDoneHandlers
  <2>6. Undecided'
    BY <1>14, <2>1 DEF responseHandler, Flags, HandlerWrites, DispatchDoneHandlers
  <2>7. Upstream'
    BY <1>14, <2>1 DEF responseHandler, Flags, HandlerWrites, DispatchDoneHandlers
  <2> QED
    BY <2>2, <2>3, <2>4, <2>5, <2>6, <2>7
<1>15. ASSUME NEW v \in Nexts, doneHandler(v) PROVE Inv'
  BY <1>15 DEF doneHandler
<1>16. CASE HandleHTTP
  BY <1>16 DEF HandleHTTP
<1>17. CASE ResponseForwarded
  BY <1>17 DEF ResponseForwarded
<1>18. CASE UNCHANGED vars
  BY <1>18 DEF vars
<1> QED
  BY <1>1, <1>2, <1>3, <1>4, <1>5, <1>6, <1>7, <1>8, <1>9, <1>10, <1>11, <1>12,
     <1>13, <1>14, <1>15, <1>16, <1>17, <1>18 DEF Next

\* The inductive invariant of the dispatcher.
LEMMA Invariant == Spec => []Inv
<1>1. Init => Inv
  BY InitInv
<1>2. Inv /\ [Next]_vars => Inv'
  BY StepInv
<1> QED
  BY <1>1, <1>2, PTL DEF Spec

\* The variables of the dispatcher keep their types, for chains of any length.
THEOREM TypeCorrect == Spec => []TypeOK
BY Invariant, PTL DEF Inv

\* The library replies to a client at most once and runs the done handlers at
\* most once, however many handlers there are and whatever they return.
THEOREM RepliesAndBooksOnce == Spec => []AnsweredOnce
BY Invariant, PTL DEF Inv

\* A client that sent a ClientHello is never written plain text to.
THEOREM TLSClientSparedPlaintext == Spec => []NoPlaintextToTLS
BY Invariant, PTL DEF Inv

\* What a handler rejected is never forwarded, in either direction.
THEOREM RejectHolds == Spec => []RejectIsFinal
BY Invariant, PTL DEF Inv

\* The upstream side is released whenever the handling of a connection ends,
\* except in the two cases UpstreamReleased names.
THEOREM Released == Spec => []UpstreamReleased
BY Invariant, PTL DEF Inv
=============================================================================
