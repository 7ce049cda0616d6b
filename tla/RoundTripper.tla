----------------------------- MODULE RoundTripper -----------------------------
(* ProxyCtx.RoundTrip (roundtripper.go) between its callers in proxy.go and    *)
(* ctx.go: each request looks up a trace, is given its settings by handlers,   *)
(* chooses a transport, may flush the proxy's idle connections, makes the      *)
(* round trip and logs it.  The tracer, the HAR log and the flag               *)
(* FlushIdleConnections are shared by all requests; none but the tracer's      *)
(* table has a lock.                                                           *)
EXTENDS RequestTracer, HarLog

CONSTANT Settings     \* what handlers may make of a ProxyCtx

\* Fields of ProxyCtx: RoundTripper, fakeDestinationDNS, PrivateNetwork, isLogEnabled.
Setting == [own : BOOLEAN, fake : BOOLEAN, private : BOOLEAN, log : BOOLEAN]

ASSUME RoundTripperAssumption == Settings \subseteq Setting

VARIABLES
  pc,           \* where a request is
  set,          \* its settings
  tr,           \* the transport chosen
  out,          \* the outcome of the transport: response, error, network used
  private,      \* ctx.PrivateNetwork, what the proxy reports
  flushIdle,    \* Proxy.FlushIdleConnections
  owed,         \* history: set, and nothing closed since
  overlapped    \* history: it was set between a request's close and its clear

idleVars == <<flushIdle, owed, overlapped>>
ctxVars  == <<set, tr, out, private>>
vars == <<pc, ctxVars, idleVars, tracerVars, harVars>>

\* What a transport may return: a response, an error or both; via which network;
\* and whether it left a note of a failover in the request's context.
NoOutcome == [resp |-> FALSE, err |-> FALSE, via |-> "none", failed |-> FALSE]
LocalOutcomes ==
  [resp : {TRUE}, err : {FALSE}, via : {"local"}, failed : {FALSE}]
    \cup [resp : {FALSE}, err : {TRUE}, via : {"none"}, failed : {FALSE}]
ShadowOutcomes ==
  [resp : {TRUE}, err : {FALSE}, via : {"shadow"}, failed : {FALSE}]
    \cup [resp : {FALSE}, err : {TRUE}, via : {"none"}, failed : {FALSE}]
    \cup [resp : {TRUE}, err : {TRUE}, via : {"local"}, failed : {FALSE}]
    \cup [resp : {TRUE}, err : {FALSE}, via : {"local"}, failed : {TRUE}]

TypeOK ==
  /\ TracerTypeOK
  /\ aggregator \in BOOLEAN
  /\ harLogEntryCh \in Seq(Requests) /\ Len(harLogEntryCh) <= EntryCap
  /\ Len(harFlushRequest) <= FlushCap
  /\ pc \in [Requests -> {"start", "trace", "handlers", "choose", "flushClose",
                          "flushClear", "transport", "logSend", "done", "panic"}]
  /\ set \in [Requests -> Setting]
  /\ tr \in [Requests -> {"none", "own", "fake", "shadow", "proxy"}]
  /\ out \in [Requests -> {NoOutcome} \cup LocalOutcomes \cup ShadowOutcomes]
  /\ private \in [Requests -> BOOLEAN]
  /\ flushIdle \in BOOLEAN /\ owed \in BOOLEAN /\ overlapped \in BOOLEAN

Init ==
  /\ TracerInit /\ HarInit
  /\ pc = [r \in Requests |-> "start"]
  /\ set = [r \in Requests |->
              [own |-> FALSE, fake |-> FALSE, private |-> FALSE, log |-> FALSE]]
  /\ tr = [r \in Requests |-> "none"]
  /\ out = [r \in Requests |-> NoOutcome]
  /\ private = [r \in Requests |-> FALSE]
  /\ flushIdle = FALSE /\ owed = FALSE /\ overlapped = FALSE

Goto(r, from, to) == pc[r] = from /\ pc' = [pc EXCEPT ![r] = to]

-----------------------------------------------------------------------------
\* HandleHTTPConnection or ListenAndServeTLS asks for a trace.
startTrace(r) ==
  /\ traceLookup(r)
  /\ Goto(r, "start", IF tpc'[r] = "out" THEN "handlers" ELSE "trace")
  /\ UNCHANGED <<ctxVars, idleVars, harVars>>

\* Trace runs to its return, or to a panic that takes the request with it.
traceStep(r) ==
  /\ pc[r] = "trace"
  /\ Trace(r)
  /\ pc' = [pc EXCEPT ![r] = CASE tpc'[r] = "out"   -> "handlers"
                             [] tpc'[r] = "panic" -> "panic"
                             [] OTHER             -> "trace"]
  /\ UNCHANGED <<ctxVars, idleVars, harVars>>

\* Mutant: LogToHARFile does not launch the aggregator.
handlersNoLaunch(r) ==
  /\ Goto(r, "handlers", "choose")
  /\ \E s \in Settings :
       /\ set' = [set EXCEPT ![r] = s]
       /\ private' = [private EXCEPT ![r] = s.private]
  /\ UNCHANGED <<tr, out, idleVars, tracerVars, harVars>>

\* The request handlers: any settings; LogToHARFile launches the aggregator.
handlers(r) ==
  /\ Goto(r, "handlers", "choose")
  /\ \E s \in Settings :
       /\ set' = [set EXCEPT ![r] = s]
       /\ private' = [private EXCEPT ![r] = s.private]
       /\ IF s.log THEN LaunchAggregator ELSE UNCHANGED aggregator
  /\ UNCHANGED <<tr, out, idleVars, tracerVars, harLogEntryCh, harFlushRequest,
                 entries, disk, asked, unwritten>>

\* The test of FlushIdleConnections, the close and the clear: three steps, no lock.
TestFlushIdle(r) == Goto(r, "choose", IF flushIdle THEN "flushClose" ELSE "transport")

\* A handler's own RoundTripper is used as it is: no choice, no flush, no wrap.
useOwn(r) ==
  /\ set[r].own
  /\ Goto(r, "choose", "transport")
  /\ tr' = [tr EXCEPT ![r] = "own"]
  /\ UNCHANGED <<set, out, private, idleVars, tracerVars, harVars>>

\* A faked destination gets a transport of its own; a private request gets the
\* shadow network's transport for the host, if there is one.
chooseTransport(r) ==
  /\ ~set[r].own
  /\ TestFlushIdle(r)
  /\ \E t \in IF set[r].fake THEN {"fake"}
              ELSE IF set[r].private THEN {"shadow", "proxy"} ELSE {"proxy"} :
       /\ tr' = [tr EXCEPT ![r] = t]
       /\ private' = [private EXCEPT ![r] = @ /\ t # "proxy"]
  /\ UNCHANGED <<set, out, idleVars, tracerVars, harVars>>

\* Mutant: the close is left out when another request is at it too.
flushCloseOnce(r) ==
  /\ Goto(r, "flushClose", "flushClear")
  /\ owed' = (owed /\ \E q \in Requests \ {r} : pc[q] = "flushClose")
  /\ UNCHANGED <<ctxVars, flushIdle, overlapped, tracerVars, harVars>>

flushClose(r) ==
  /\ Goto(r, "flushClose", "flushClear")
  /\ owed' = FALSE
  /\ UNCHANGED <<ctxVars, flushIdle, overlapped, tracerVars, harVars>>

flushClear(r) ==
  /\ Goto(r, "flushClear", "transport")
  /\ flushIdle' = FALSE
  /\ UNCHANGED <<ctxVars, owed, overlapped, tracerVars, harVars>>

-----------------------------------------------------------------------------
Traced(r) == trace[r] \in Modifying

\* What the transport returns (external). A logged request is made from ctx.Req,
\* whose context has no place for the shadow network's note of a failover.
Outcomes(r) ==
  {[o EXCEPT !.failed = @ /\ ~set[r].log] :
     o \in IF tr[r] = "shadow" THEN ShadowOutcomes ELSE LocalOutcomes}

\* A handler's own RoundTripper is not wrapped.
ownRoundTrip(r) ==
  /\ tr[r] = "own"
  /\ Goto(r, "transport", "logSend")
  /\ \E o \in Outcomes(r) : out' = [out EXCEPT ![r] = o]
  /\ UNCHANGED <<set, tr, private, idleVars, tracerVars, harVars>>

\* Mutant: a response that came with an error is passed on, and nobody is told.
wrapTransportPasses(r) ==
  /\ tr[r] # "own"
  /\ \E o \in Outcomes(r) :
       /\ Goto(r, "transport",
               IF Traced(r) /\ ~o.resp THEN "panic" ELSE "logSend")
       /\ out' = [out EXCEPT ![r] = o]
  /\ UNCHANGED <<set, tr, private, idleVars, tracerVars, harVars>>

\* Mutant: the status code is read whether the request is traced or not.
wrapTransportReads(r) ==
  /\ tr[r] # "own"
  /\ \E o \in Outcomes(r) :
       /\ Goto(r, "transport", IF ~o.resp THEN "panic" ELSE "logSend")
       /\ out' = [out EXCEPT ![r] = o]
  /\ UNCHANGED <<set, tr, private, idleVars, tracerVars, harVars>>

\* wrapTransport: a traced request reads the status code of a response it may
\* not have; a failover that came with a response and an error is a success.
wrapTransport(r) ==
  /\ tr[r] # "own"
  /\ \E o \in Outcomes(r) :
       LET failover == tr[r] = "shadow" /\ private[r] /\ o.err /\ o.resp IN
         /\ Goto(r, "transport",
                 IF Traced(r) /\ ~o.resp THEN "panic" ELSE "logSend")
         /\ out' = [out EXCEPT ![r] = [o EXCEPT !.err = @ /\ ~failover]]
         /\ private' = [private EXCEPT ![r] = @ /\ ~failover]
  /\ UNCHANGED <<set, tr, idleVars, tracerVars, harVars>>

\* ForwardHTTPRequest reads the shadow network's note.
Return(r) ==
  /\ Goto(r, "logSend", "done")
  /\ private' = [private EXCEPT ![r] = @ /\ ~out[r].failed]
  /\ UNCHANGED <<set, tr, out, idleVars, tracerVars>>

\* _roundTripWithLog sends the entry, and waits for room in the channel.
logRoundTrip(r) ==
  /\ set[r].log
  /\ Return(r)
  /\ SendEntry(r)

roundTrip(r) ==
  /\ ~set[r].log
  /\ Return(r)
  /\ UNCHANGED harVars

Request(r) ==
  \/ startTrace(r) \/ traceStep(r) \/ handlers(r)
  \/ useOwn(r) \/ chooseTransport(r) \/ flushClose(r) \/ flushClear(r)
  \/ ownRoundTrip(r) \/ wrapTransport(r) \/ logRoundTrip(r) \/ roundTrip(r)

\* The owner of the proxy sets FlushIdleConnections.
setFlushIdle ==
  /\ flushIdle' = TRUE /\ owed' = TRUE
  /\ overlapped' = (overlapped \/ \E r \in Requests : pc[r] = "flushClear")
  /\ UNCHANGED <<pc, ctxVars, tracerVars, harVars>>

Owner ==
  \/ setFlushIdle
  \/ /\ \E c \in Commands : RequestTrace(c) \/ expire(c)
     /\ UNCHANGED <<pc, ctxVars, idleVars, harVars>>
  \/ /\ \E f \in Files : FlushHARToDisk(f)
     /\ UNCHANGED <<pc, ctxVars, idleVars, tracerVars>>

Aggregator ==
  /\ harLogAggregator
  /\ UNCHANGED <<pc, ctxVars, idleVars, tracerVars>>

Finished ==
  /\ \A r \in Requests : pc[r] \in {"done", "panic"}
  /\ UNCHANGED vars

Next ==
  \/ \E r \in Requests : Request(r)
  \/ Owner \/ Aggregator \/ Finished

Spec == Init /\ [][Next]_vars

-----------------------------------------------------------------------------
(* Properties.                                                             *)

\* The entry of a logged round trip is in one place from its send on: on its way,
\* in the log, in one file, or lost with a flush that failed (harlog.go:51).
\* No flush writes an entry twice or drops what came in during it.
LogConserved ==
  \A r \in Requests :
    Held(r) + InFiles(r) + Occurs(unwritten, r)
      = IF set[r].log /\ pc[r] = "done" THEN 1 ELSE 0

\* "Ensures we report the correct cloaked status back to the caller"
\* (roundtripper.go:53): a request that reports the private network had its
\* response from there. The code keeps this promise but in two cases: a faked
\* destination, whose branch forgets the flag, and a logged request, whose
\* context cannot carry the note of a failover.
CloakedStatus ==
  \A r \in Requests :
    pc[r] = "done" /\ private[r] /\ out[r].resp /\ ~set[r].own =>
      out[r].via = "shadow" \/ set[r].fake \/ set[r].log

\* "the next HTTP request will flush all idle connections" (proxy.go:113): when
\* the flag is down, everything that was idle when it was set has been closed,
\* unless it was set again between some request's close and its clear.
FlushIdleKept == owed => flushIdle \/ overlapped

\* A request ends in a panic only if it was traced and got no response, or if
\* another request deleted the expired command it was about to delete.
PanicCause ==
  \A r \in Requests :
    pc[r] = "panic" =>
      \/ Traced(r) /\ tr[r] # "none" /\ ~out[r].resp
      \/ tpc[r] = "panic" /\ expired # {} /\ \E q \in Requests \ {r} : pc[q] # "start"

\* A request that waits for room in the channel of entries waits for somebody:
\* the goroutine that takes entries out has been launched, by this request's
\* LogToHARFile or by another's (harlog.go:116).
LogSendHeard ==
  \A r \in Requests :
    pc[r] = "logSend" /\ set[r].log /\ Len(harLogEntryCh) = EntryCap => aggregator
=============================================================================
