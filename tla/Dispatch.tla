------------------------------ MODULE Dispatch ------------------------------
(***************************************************************************)
(* What the proxy does with one accepted connection: ListenAndServe,       *)
(* ListenAndServeTLS and HandleHTTPConnection of proxy.go, the dispatch    *)
(* loops of dispatcher.go, and the Forward..., Reject... and error replies *)
(* of ctx.go.  The registered handlers are the environment: each returns   *)
(* any Next, may install a response of its own in ctx.Resp, and may clear  *)
(* ctx.TunnelRequest.  ctx.IsThroughMITM is never set (the MITM code is    *)
(* commented out), so forwardMITMResponse is not reached.                  *)
(***************************************************************************)
EXTENDS Naturals

CONSTANTS NConnect, NRequest, NResponse, NDone  \* handlers registered per chain

ASSUME DispatchAssumption ==
  /\ NConnect \in Nat /\ NRequest \in Nat
  /\ NResponse \in Nat /\ NDone \in Nat

VARIABLES
  pc,        \* the chain being dispatched, or where the connection is
  pos,       \* handlers of that chain already called
  then,      \* the last verdict of the connect, request or response chain
  method,    \* ctx.Method
  secure,    \* ctx.IsSecure and ctx.sniffedTLS: accepted by ListenAndServeTLS
  tunnel,    \* ctx.TunnelRequest
  resp,      \* ctx.Resp
  rejected,  \* DispatchResponseHandlers' rejected flag
  client,    \* ctx.Conn
  target,    \* targetSiteConn
  body,      \* the upstream response's body, ctx.originalResponseBody
  reply,     \* what the library last told the client, "none" if nothing
  replies,   \* history: how often it told the client something
  doneRuns,  \* history: how often DispatchDoneHandlers was called
  failed     \* history: the request could not be written to targetSiteConn

ctxVars  == <<method, secure, tunnel, resp, rejected>>
connVars == <<client, target, body, failed>>
outVars  == <<reply, replies, doneRuns>>
vars == <<pc, pos, then, ctxVars, connVars, outVars>>

Nexts == {"NEXT", "MOCK", "DONE", "FORWARD", "MITM", "REJECT", "SIGNATURE"}

\* What the library can have written: status lines, a page of its own (504, 502
\* or an empty script or image), ctx.Resp, or what HandleHTTP answered.
Pages   == {"504", "502", "empty"}
Replies == {"200", "502_Rejected", "502_BadGateway", "own", "upstream", "api"}
             \cup Pages

\* How many handlers each chain has.
Registered(chain) ==
  CASE chain = "connect"  -> NConnect
    [] chain = "request"  -> NRequest
    [] chain = "response" -> NResponse
    [] chain = "done"     -> NDone
    [] OTHER              -> 0

TypeOK ==
  /\ pc \in {"accept", "api", "connect", "request", "response", "copy", "done",
             "tunnel", "end", "panic"}
  /\ pos \in 0..Registered(pc)
  /\ then \in Nexts \cup {"none"}
  /\ method \in {"none", "CONNECT", "GET"}
  /\ secure \in BOOLEAN
  /\ tunnel \in BOOLEAN
  /\ resp \in {"none", "own", "upstream"}
  /\ rejected \in BOOLEAN
  /\ client \in {"open", "closed"}
  /\ target \in {"none", "open", "closed"}
  /\ body \in {"none", "open", "closed"}
  /\ reply \in Replies \cup {"none"}
  /\ replies \in Nat
  /\ doneRuns \in Nat
  /\ failed \in BOOLEAN

Init ==
  /\ pc = "accept" /\ pos = 0 /\ then = "none"
  /\ method = "none" /\ secure = FALSE /\ tunnel = FALSE
  /\ resp = "none" /\ rejected = FALSE
  /\ client = "open" /\ target = "none" /\ body = "none" /\ failed = FALSE
  /\ reply = "none" /\ replies = 0 /\ doneRuns = 0

Say(r) == reply' = r /\ replies' = replies + 1
SayNothing == UNCHANGED <<reply, replies>>

Goto(where) == pc' = where /\ pos' = 0
NextHandler == pc' = pc /\ pos' = pos + 1

-----------------------------------------------------------------------------
(* The listeners.                                                          *)

\* No usable host name, an empty request, or the proxy's own subnet: close.
Drop ==
  /\ pc = "accept"
  /\ Goto("end")
  /\ client' = "closed"
  /\ UNCHANGED <<then, ctxVars, target, body, failed, outVars>>

\* ListenAndServeTLS: a ClientHello, or something else on that port, becomes
\* a CONNECT request of the proxy's own making.
ListenAndServeTLS ==
  /\ pc = "accept"
  /\ method' = "CONNECT"
  /\ secure' = TRUE
  /\ tunnel' \in BOOLEAN
  /\ Goto("connect")
  /\ UNCHANGED <<then, resp, rejected, connVars, outVars>>

\* ListenAndServe and HandleHTTPConnection up to the connect chain or HandleHTTP.
HandleHTTPConnection ==
  /\ pc = "accept"
  /\ tunnel' = TRUE
  /\ \/ method' = "CONNECT" /\ Goto("connect")
     \/ method' = "GET" /\ Goto("api")
  /\ UNCHANGED <<then, secure, resp, rejected, connVars, outVars>>

\* HandleHTTP, where there is one, may answer the request; then nothing closes
\* the connection.
HandleHTTP ==
  /\ pc = "api"
  /\ \/ Goto("end") /\ Say("api")
     \/ Goto("request") /\ SayNothing
  /\ UNCHANGED <<then, ctxVars, connVars, doneRuns>>

-----------------------------------------------------------------------------
(* Replies.                                                                *)

\* Mutants: plain text for every client; no return after the reply.
CloseWithText(status) ==
  Say(status) /\ client' = "closed" /\ Goto("end")

CloseWithoutReturn(status) ==
  /\ IF secure THEN SayNothing ELSE Say(status)
  /\ client' = "closed"
  /\ UNCHANGED <<pc, pos>>

\* httpError: a status line unless the client speaks TLS, then close.
CloseWith(status) ==
  /\ IF secure THEN SayNothing ELSE Say(status)
  /\ client' = "closed"
  /\ Goto("end")

RejectConnect == CloseWith("502_Rejected")

\* Mutant: the done handlers run before the copy as well.
ForwardResponseTwice(r) ==
  /\ Say(r)
  /\ doneRuns' = doneRuns + IF r \in Pages THEN 1 ELSE 0
  /\ Goto("copy")
  /\ UNCHANGED connVars

\* ForwardResponse: write r to the client, close its body, and run the done
\* handlers.
ForwardResponse(r) ==
  /\ Say(r)
  /\ Goto("copy")
  /\ UNCHANGED <<connVars, doneRuns>>

ResponseForwarded ==
  /\ pc = "copy"
  /\ body' = IF reply = "upstream" THEN "closed" ELSE body
  /\ doneRuns' = doneRuns + 1
  /\ Goto("done")
  /\ SayNothing
  /\ UNCHANGED <<then, ctxVars, client, target, failed>>

DispatchDoneHandlers ==
  /\ doneRuns' = doneRuns + 1
  /\ Goto("done")
  /\ SayNothing
  /\ UNCHANGED connVars

\* What a handler may leave in its ctx.
HandlerWrites == resp' \in {resp, "own"} /\ tunnel' \in {tunnel, FALSE}

-----------------------------------------------------------------------------
(* dispatchConnectHandlers and ForwardConnect.                             *)

\* Mutant: REJECT closes the client's connection and breaks like FORWARD.
connectHandlerRejectBreaks(v) ==
  /\ pc = "connect"
  /\ pos < NConnect
  /\ then' = v
  /\ HandlerWrites
  /\ v \in {"NEXT", "FORWARD", "MITM", "REJECT"}
  /\ NextHandler
  /\ SayNothing
  /\ client' = IF v = "REJECT" THEN "closed" ELSE client
  /\ UNCHANGED <<method, secure, rejected, target, body, failed, doneRuns>>

\* FORWARD and MITM `break' out of the switch, not of the loop.
connectHandler(v) ==
  /\ pc = "connect"
  /\ pos < NConnect
  /\ then' = v
  /\ HandlerWrites
  /\ \/ /\ v \in {"NEXT", "FORWARD", "MITM"}
        /\ NextHandler
        /\ SayNothing
        /\ UNCHANGED client
     \/ /\ v = "REJECT"
        /\ RejectConnect
     \/ /\ v \in {"SIGNATURE", "DONE"}
        /\ Goto("end")
        /\ SayNothing
        /\ UNCHANGED client
     \/ /\ v = "MOCK"
        /\ Goto("panic")
        /\ SayNothing
        /\ UNCHANGED client
  /\ UNCHANGED <<method, secure, rejected, target, body, failed, doneRuns>>

ForwardConnectFails ==
  /\ pc = "connect"
  /\ pos = NConnect
  /\ CloseWith("502_BadGateway")
  /\ UNCHANGED <<then, ctxVars, target, body, failed, doneRuns>>

\* A TLS client never sent the CONNECT, so it gets no 200.
ForwardConnect ==
  /\ pc = "connect"
  /\ pos = NConnect
  /\ target' = "open"
  /\ IF method = "CONNECT" /\ ~secure THEN Say("200") ELSE SayNothing
  /\ Goto("tunnel")
  /\ UNCHANGED <<then, ctxVars, client, body, failed, doneRuns>>

\* Mutant: only the client's side is closed.
TunnelEndsHalf ==
  /\ pc = "tunnel"
  /\ client' = "closed"
  /\ Goto("end")
  /\ UNCHANGED <<then, ctxVars, target, body, failed, outVars>>

\* fitter.Fit returns when either side is done: close both.
TunnelEnds ==
  /\ pc = "tunnel"
  /\ client' = "closed"
  /\ target' = "closed"
  /\ Goto("end")
  /\ UNCHANGED <<then, ctxVars, body, failed, outVars>>

-----------------------------------------------------------------------------
(* DispatchRequestHandlers, ForwardRequest and ForwardHTTPRequest.         *)

requestHandler(v) ==
  /\ pc = "request"
  /\ pos < NRequest
  /\ then' = v
  /\ \/ /\ v = "DONE"
        /\ HandlerWrites
        /\ DispatchDoneHandlers
     \/ /\ v = "MOCK"
        /\ HandlerWrites
        /\ Goto("response")
        /\ UNCHANGED <<connVars, outVars>>
     \/ /\ v = "FORWARD"
        /\ HandlerWrites
        /\ resp' # "none"
        /\ ForwardResponse(resp')
     \/ /\ v = "NEXT" \/ v = "FORWARD"
        /\ HandlerWrites
        /\ v = "FORWARD" => resp' = "none"
        /\ NextHandler
        /\ UNCHANGED <<connVars, outVars>>
     \/ /\ v = "REJECT"
        /\ resp' = "own"
        /\ tunnel' \in {tunnel, FALSE}
        /\ \E page \in {"504", "empty"} : ForwardResponse(page)
     \/ /\ v \in {"MITM", "SIGNATURE"}
        /\ HandlerWrites
        /\ Goto("panic")
        /\ UNCHANGED <<connVars, outVars>>
  /\ UNCHANGED <<method, secure, rejected>>

ForwardRequestFails ==
  /\ pc = "request"
  /\ pos = NRequest
  /\ tunnel
  /\ CloseWith("502_BadGateway")
  /\ UNCHANGED <<then, ctxVars, target, body, failed, doneRuns>>

\* The original bytes are replayed to the target; when that fails the
\* function returns and closes neither side.
ForwardRequest ==
  /\ pc = "request"
  /\ pos = NRequest
  /\ tunnel
  /\ target' = "open"
  /\ \/ Goto("tunnel") /\ UNCHANGED failed
     \/ Goto("end") /\ failed' = TRUE
  /\ UNCHANGED <<then, ctxVars, client, body, outVars>>

\* RoundTrip: a response whose body is open, or an error and no response;
\* a response that a handler had installed is overwritten either way.
ForwardHTTPRequest ==
  /\ pc = "request"
  /\ pos = NRequest
  /\ ~tunnel
  /\ \/ resp' = "upstream" /\ body' = "open"
     \/ resp' = "none" /\ UNCHANGED body
  /\ Goto("response")
  /\ UNCHANGED <<then, method, secure, tunnel, rejected, client, target, failed,
                 outVars>>

-----------------------------------------------------------------------------
(* DispatchResponseHandlers and DispatchDoneHandlers.                      *)

\* REJECT is remembered, and the next handler is called all the same.
responseHandler(v) ==
  /\ pc = "response"
  /\ pos < NResponse
  /\ then' = v
  /\ HandlerWrites
  /\ rejected' = (rejected \/ v = "REJECT")
  /\ \/ /\ v = "DONE"
        /\ DispatchDoneHandlers
     \/ /\ v \in {"NEXT", "FORWARD", "REJECT", "SIGNATURE"}
        /\ NextHandler
        /\ UNCHANGED <<connVars, outVars>>
     \/ /\ v \in {"MITM", "MOCK"}
        /\ Goto("panic")
        /\ UNCHANGED <<connVars, outVars>>
  /\ UNCHANGED <<method, secure>>

\* No response, or a rejected one: a page of the proxy's own.
ResponseHandled ==
  LET answer == IF rejected THEN {"502", "empty"}
                ELSE IF resp = "none" THEN {"504"} ELSE {resp}
  IN
  /\ pc = "response"
  /\ pos = NResponse
  /\ \E r \in answer : ForwardResponse(r)
  /\ resp' = IF rejected \/ resp = "none" THEN "own" ELSE resp
  /\ UNCHANGED <<then, method, secure, tunnel, rejected>>

\* Mutant: one handler too many.
doneHandlerOneMore(v) ==
  /\ pc = "done"
  /\ pos <= NDone
  /\ NextHandler
  /\ UNCHANGED <<then, ctxVars, connVars, outVars>>

doneHandler(v) ==
  /\ pc = "done"
  /\ pos < NDone
  /\ \/ v \in {"NEXT", "FORWARD"} /\ NextHandler
     \/ v \in {"DONE", "SIGNATURE", "MOCK"} /\ Goto("end")
     \/ v \in {"MITM", "REJECT"} /\ Goto("panic")
  /\ UNCHANGED <<then, ctxVars, connVars, outVars>>

DoneHandled ==
  /\ pc = "done"
  /\ pos = NDone
  /\ Goto("end")
  /\ UNCHANGED <<then, ctxVars, connVars, outVars>>

-----------------------------------------------------------------------------
Next ==
  \/ Drop \/ ListenAndServeTLS \/ HandleHTTPConnection \/ HandleHTTP
  \/ ForwardConnectFails \/ ForwardConnect \/ TunnelEnds
  \/ ForwardRequestFails \/ ForwardRequest \/ ForwardHTTPRequest
  \/ ResponseHandled \/ ResponseForwarded \/ DoneHandled
  \/ \E v \in Nexts : connectHandler(v) \/ requestHandler(v)
                      \/ responseHandler(v) \/ doneHandler(v)

Spec == Init /\ [][Next]_vars
-----------------------------------------------------------------------------
(* Properties.                                                             *)

\* However the chains and the forwards end, and whatever the handlers return,
\* the library answers a client at most once and runs the done handlers at most
\* once: no path that has replied (with ctx.Resp, a page, a 200 or a 502) falls
\* through to another, and the request chain, the response chain and
\* ForwardResponse do not both close a request's books.
AnsweredOnce == replies <= 1 /\ doneRuns <= 1

\* "never send back an OK response to a TLS client" (ctx.go:1071), and no
\* rejection or error line either: the client of a sniffed ClientHello would
\* take plain text for a broken handshake.
NoPlaintextToTLS == secure => reply = "none"

\* A rejected CONNECT or request never reaches the destination, and a rejected
\* response never reaches the client, whatever later handlers return.
RejectIsFinal ==
  /\ then = "REJECT" /\ ~rejected => target = "none" /\ body = "none"
  /\ rejected => reply # "upstream"

\* When the handling of a connection has ended the upstream side is released:
\* a dialed target stays open only after a failed replay of the request, and a
\* response body only where a handler took the response over or rejected it.
UpstreamReleased ==
  pc = "end" => /\ target = "open" => failed
                /\ target = "closed" => client = "closed"
                /\ body = "open" => rejected \/ resp = "own" \/ then = "DONE"
=============================================================================
