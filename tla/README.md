# goproxy: TLA+ models, checks and proofs

This directory models the concurrent and protocol logic of `goproxy`
(WinstonPrivacyInc/goproxy-orig, a Go library for a filtering HTTP/HTTPS proxy),
checks it with TLC and proves part of it with TLAPS. `PROJECT.json` lists the
components, the runs, the source lines every definition stands for, the
findings, the hazards and the theorems. Run everything from this directory:

    tlc -workers 2 -config CertStoreSafe.cfg MCCertStore.tla
    tlapm CertStoreProofs.tla

## 1. Inventory of the system

| component | state it keeps | operations | hard behaviour |
|---|---|---|---|
| listeners, dispatch, replies (`proxy.go`, `dispatcher.go`, `handlers.go`, the `Forward*`/`Dispatch*`/`Reject*` part of `ctx.go`) | per connection a `ProxyCtx`: method, `IsSecure`, `TunnelRequest`, `Resp`, both sockets, the upstream body | `ListenAndServe`, `ListenAndServeTLS`, `HandleHTTPConnection`, four handler chains, `ForwardConnect`, `ForwardRequest`, `ForwardHTTPRequest`, `ForwardResponse` | any verdict of any handler at any position; every way a forward can fail; what is replied, closed and finished on each path |
| certificate store (`signer.go`) | `GoproxyConfigServer.Host` under `certmu`, one `HostInfo` per host under its own mutex | `certWithCommonName` (lookup, verify, fetch, create, store), `FlushCert` | many handshakes at once, a slow upstream dial with one lock held, flushes in between, expiry and throttling by time |
| keep-alive transport (`transport/`) | the pool `idleConn` under `lk`; per `persistConn` the `broken` flag, the count of expected responses, the request channel | `RoundTrip`, `getConn`, `putIdleConn`, `readLoop`, `bodyEOFSignal`, `CloseIdleConnections` | callers against one readLoop per connection, the server closing at any time, body callbacks run from two goroutines |
| non-HTTP round tripper (`nonhttproundtripper.go`) | `reqCanceler`, per connection `closech`, `writech`, `reqch`, `writeErrCh`, `closed` | `RoundTrip`, `getConn`, `dialConn`, `roundTrip`, `readLoop`, `writeLoop`, `CancelRequest`, `close` | cancellation, timeouts, three goroutines per connection that each may close it |
| round-trip layer (`roundtripper.go`) | the proxy-wide flag `FlushIdleConnections`; per request the transport and `PrivateNetwork` | `RoundTrip`, `wrapTransport` | the flag is tested and cleared without a lock; a failover is told in two ways |
| request tracer (`tracer.go`) | `Requests` under an RWMutex | `RequestTrace`, `Trace` | `Trace` writes under the read lock |
| log buffer (`log.go`) | the buffer, its signature and deadline | `Logf`, `GetLogEntries`, `BufferLogEntry` | every request logs into the buffer; its signature and deadline are tested outside the lock |
| HAR log (`harlog.go`, `har/`) | two channels, the aggregator's log | `LogToHARFile`, `FlushHARToDisk`, the aggregator | full channels, a flush that fails |
| response writer, chunks (`notsodumbresponsewriter.go`, `chunked.go`) | headers written, chunking | `WriteHeader`, `Write`, `Flush`, `Close` | order of calls against the framing a client sees |
| regretable reader (`regretable/`) | the buffer, read and write positions | `Read`, `Regret`, `Forget` | sequences of the three |
| idle-timeout connection, random source, upstream dialers (`idletimeoutconn.go`, `counterecryptor.go`, `https.go`) | a deadline; a counter block and index; the choice of dialer | `Read`, `Write`, `Seed`, `refill`, `NewConnectDialToProxy*` | deadline against traffic; index arithmetic; error paths |
| filters, responses, certificates, extensions, reproduction programs | none that changes | predicates and constructors | none |

How they interact: a listener's goroutine calls `HandleHTTPConnection` or
`dispatchConnectHandlers`; registered handlers are callbacks that get the
`ProxyCtx` and return a `Next`. The request chain ends in `ForwardRequest`
(a blind tunnel) or `ForwardHTTPRequest`, which calls the round-trip layer and
through it `net/http`'s transport, with the non-HTTP round tripper registered
for the schemes `nonhttp` and `nonhttps`. The package `transport` is a transport
of its own that user code may install. `certWithCommonName` is called from TLS
handshakes (`tlsConfig`, `getCertificateHook` in `ctx.go`) on as many goroutines
as there are connections. Tracer, log buffer and HAR log are called from every
request's goroutine. The code under `ManInTheMiddleHTTPS` and `TunnelHTTP` is
commented out and `IsThroughMITM` is never set, so the MITM reply path
(`forwardMITMResponse`) cannot be reached and is not modelled.

What makes each component correct:

* dispatch: one reply and one run of the done handlers per request, no plain
  text to a TLS client, a rejection that is final, nothing left open upstream;
* certificate store: entries complete, for the right host, immutable; one fetch
  per entry at a time; every handshake answered; expiry and flushes respected;
* transport: a bounded and exclusive pool, answers that match requests, body
  callbacks at most once, every round trip returning;
* non-HTTP round tripper: one outcome per request, a cancel that takes effect or
  comes too late but never both, goroutines that end;
* tracer, log buffer, HAR log: no entry lost, doubled or taken by two requests;
* framing and readers: the bytes a peer decodes are the bytes that were written.

`PROJECT.json` lists the hazards line by line.

## 2. Modules

### KeepAliveTransport (transport/transport.go)

One action per critical section, channel operation or socket operation.

| state | code |
|---|---|
| `idle` | `Transport.idleConn`, one sequence per cache key |
| `ckey`, `broken`, `num`, `reqch` | `persistConn.cacheKey`, `.broken`, `.numExpectedResponses`, `.reqch` |
| `rl`, `cur`, `lastbody`, `alive` | the `readLoop` goroutine's position and locals |
| `pc`, `conn`, `tgt`, `ans` | a goroutine inside `RoundTrip`: position, connection, key, its response channel |
| `closed`, `runs` | `bodyEOFSignal.isClosed`; history of the calls of `fn` |
| `sent`, `answered`, `peerClosed` | the server at the other end (external) |

`getIdleConnHit`/`Miss`, `dialConn`, `dialFails` are `getConn`; `expectResponse`,
`writeRequest`, `writeFails`, `queueRequest`, `returnResponse` are `roundTrip`;
`finishBody`, `abandonBody`, `fnPut`, `fnSend`, `clearFn` are the caller's side
of `bodyEOFSignal` (`es.fn()` and `es.fn = nil` are separate steps because no
lock joins them); `peek`, `recvRequest`, `closeLastBody`, `readResponse` are
`readLoop`. Response bytes are reduced to what `readLoop` decides from them
(`Kinds`). The capacity of `reqch` is kept at 50, which no instance reaches:
it takes more callers on one connection than an exclusive pool allows. A server
that sends bytes nobody asked for is not modelled; on an idle connection it has
the effect of a close. `PeerClosesIdle` says when the server may close a
connection that owes it nothing: never, only while it is pooled, or at any time.

`readResponse` joins `putIdleConn` (or its being skipped) with the send on `rc.ch`
that follows it. The channel is new, has room for its one value, and only the
caller that waits for it receives from it, so the send never blocks; and what others
can do in between to the connection just pooled (take it, close it, write on it)
neither reads nor changes `ans`. The two steps therefore commute with everything
else. In `PoolExclusive` an exchange is under way until its answer has been read,
which is the state in which the code pools the connection.

`ConnPool` is the abstract pool: a connection is new, lent to one caller, in the
pool, or gone for good, and the pool keeps at most `Limit` per key.
`ImplementsConnPool` maps a connection to the caller that has it from `getConn`
until its answer is in (or its body finished and `fn` run), to "pool", or to
"gone": marked broken, its readLoop ended or stuck in `fn`, or waiting for a body
nobody will finish. `CloseIdleConnections` must map to the end of what is pooled
and of nothing else.

### CertStore (signer.go)

`HostInfo` objects are heap cells (`info`), because two objects may exist for
one host and the map may point to either. `store` is the map, `certmu` and
`info[i].mu` the locks, `pc`, `host`, `hi`, `found`, `orig`, `badcert`, `made`
the locals of one call of `certWithCommonName`. `Lookup` is the read-locked
lookup and the allocation on a miss, `LockHost` takes `HostInfo.mu`;
`UseRecent`, `UseVerified`, `VerifyFails` decide about a cached certificate;
`SkipFetch`, `DialFails`, `DialTimesOut`, `Fetched`, `FetchedNone` are the
upstream fetch; `CreateCert`, `CreateFails`, `LockStore`, `StoreCert` the rest.
`Return` is a `return` with its deferred unlock. A cell nothing refers to is
reset (`Collected`), which lets few cells stand for any number of allocations.
`stale` and `flushed` are history for the flush property. Time counts hours, and
`VerifyAge`, `RetryAge`, `Validity` stand for the code's one hour, one day and
configured validity, scaled down in the instances with their order kept.

`CertCache` is the abstract cache: one certificate per host, no cells, locks or
fetches. A handshake that asks sees the host's certificate (`view`); it is answered
with that one, or with one that has replaced it since, or with its own, which is
cached in the same moment; an error changes nothing. Only a handshake that found
nothing, or a bad chain, puts a certificate. `ImplementsCache` maps an entry to the
certificate its cell leads to and a handshake's `view` to the certificate in the
cell it found, so a flush between lookup and answer takes nothing from it.

### Dispatch (proxy.go, dispatcher.go, ctx.go)

One accepted connection. `pc` names the chain being dispatched and `pos` how
many of its handlers have been called; the handlers are the environment: each
step of `connectHandler`, `requestHandler`, `responseHandler`, `doneHandler`
takes any verdict of `Nexts`, and the handler may install `ctx.Resp` or clear
`ctx.TunnelRequest` (`HandlerWrites`). The verdicts' effects are the `switch` of
each loop, with Go's `break` that leaves the switch only. `pc = "api"` is a call
of `proxy.HandleHTTP`, which may answer the request itself; `pc = "copy"` is
`ForwardResponse` while it copies. `reply` and `replies` record what the library
writes to the client, `doneRuns` the calls of `DispatchDoneHandlers`. A panic
ends the behaviour (`pc = "panic"`); in the program it ends the process.

### Connection (the same connection, with its bytes)

`Connection` extends `Dispatch` and instantiates three modules for what passes
through the connection. Each of its steps is a step of `Dispatch` together with
what that step does to the bytes, or a step of one of the three while `Dispatch`
stands still; `ConnectionProofs` proves that.

| state | code |
|---|---|
| `dial`, `via`, `socket`, `early`, `refusal` | `ConnectDial` (https.go): the dial of `ForwardConnect`/`ForwardRequest`, directly or through an upstream proxy that is asked to CONNECT |
| `wroteheaders`, `chunking`, `ishijacked`, `length`, `rx` | `ResponseWriter` (notsodumbresponsewriter.go), and the client that decodes what it writes |
| `made`, `taken`, `buf`, `r`, `w`, `overflow`, `out` | `RegretableReader` (regretable/), round the upstream response's body |
| `copying`, `copyFailed`, `given`, `newlen`, `ulen` | `ForwardResponse`: how far it is, `io.Copy`'s ignored error, what the writer was given, `ctx.NewBodyLength`, the upstream's `Content-Length` |
| `emptyWrite`, `whole` | history: an empty write before the first `Flush`, and what had been written by then |
| `readReq`, `snapshot`, `swallowed` | what has been read of the client; `len(ctx.NonHTTPRequest)`, taken when the head was parsed; what was read after that, of the body or past it |
| `percent` | the bytes of the snapshot, head or body, that `Fprintf` takes for a verb |
| `atTarget`, `toClient` | what the tunnel's two ends got |

Bytes are positions in their stream, so that a missing, doubled or reordered
byte shows. `Accepted` and `AcceptedTLS` are the two listeners. `ReadBody`
is a read of the request's body, by a trace, `HandleHTTP` or a handler: it goes
through the `bufio.Reader` of `proxy.go:256`, so it may take any number of bytes
from the connection, also past the body. `ApiSetLength`, `ApiWriteHeader`,
`ApiWrite`, `ApiFlush` are what `HandleHTTP` may do with the writer, in any order
and also after a `Flush`, since the writer keeps no flag of one; `Served` is its
return. What a verb of the replay's format string takes up is one changed byte
(`Mangled`); how long the complaint is that goes out for it is not modelled.
`ConnectForwarded`,
`RequestForwarded`, `ForwardFails`, `ToTarget`, `ToClient` are the tunnels;
`SetNewBodyLength` and `UseBody` what a handler may do to a response;
`SetHeaders`, `WriteHead`, `Copy`, `CopyEnds`, `CopyOwn`, `Flushed`, `Closed`
are `ForwardResponse` in its order.

`ReplayStream` is the abstract specification of a regretable reader (`StreamSizes`
holds the lengths they share): a stream
with a mark that can be gone back to while no more than `Size` bytes lie behind
it. `RegretableReader!ReplaysStream` is the refinement, with
`cur = taken - (w - r)` and `mark = taken - w` until the buffer overflows. It is
checked in `Connection`, where handlers and `io.Copy` are the reader, and proved.

Assumed of the environment: a handler wraps a body before it reads from it;
`HandleHTTP` returns false (leave the request to the handlers) only if it has
written no header, no byte and flushed nothing; and a header is set before it goes
out. Nothing is assumed of how `HandleHTTP` writes and flushes, and so `EndKnown`
says what it must do for its answer to arrive:

* set the length it will write, or remove the request's, before the first write;
* call `Flush` once, at the end. `Flush` writes the last chunk, or a line end, every
  time it is called (`notsodumbresponsewriter.go:104`), and nothing stops a `Write`
  after it. The ordinary use of an `http.Flusher`, a flush after each piece, loses
  every piece but the first in chunked mode, and in the other puts line ends into
  the body: the client has what was written up to the first `Flush` and none of the
  rest;
* in chunked mode, write no empty slice before that.

### NonHTTPRoundTripper (nonhttproundtripper.go)

One call of `RoundTrip`. The file is `net/http`'s transport with its pool taken
out: `tryPutIdleConn` always refuses and `getIdleConn` always misses, so every
connection serves one request, and `isReused` is never true, so nothing is
retried. Two requests share only the map `reqCanceler`, each at its own key, and
therefore one request shows all there is.

| state | code |
|---|---|
| `pc`, `res`, `errv`, `timer`, `sawCancel`, `sawDone` | the caller in `RoundTrip`, `getConn`, `roundTrip`, `mapRoundTripError` |
| `canceler`, `cancelc`, `user` | `reqCanceler[req]`, `getConn`'s channel, a function taken by `CancelRequest` and not yet called |
| `cancel`, `ctxDone` | `req.Cancel` closed, the context done |
| `dial`, `pend` | the dialer goroutine, `handlePendingDial`'s goroutine |
| `sock`, `closed`, `canceledErr`, `num`, `writech`, `reqch`, `wrote`, `nwrite` | `persistConn` and its channels |
| `rl`, `rlOut`, `wl` | `readLoop`, `writeLoop` |
| `rd`, `esClosed`, `rerr`, `fnSet`, `waitBody`, `eofc` | the body: `bodyEOFSignal`, `waitForBodyRead`, `eofc` |
| `wire` | the server (external): it may speak or close at any time, or never |

A rendezvous on an unbuffered channel is one step of both sides (`getConnDialed`,
`send`, `sendEofc`); a take of the cancel function under `reqMu` and the call of
it after the unlock are two. `pc.writeErrCh` is left out: it takes its one value
without blocking, and `wroteRequest` cannot change what happens to a connection
that is not pooled. `early` is history for `CancelInTime`.

### RequestTracer (tracer.go), HarLog (harlog.go), RoundTripper (roundtripper.go)

`RoundTripper` composes the other two: it extends both and moves any number of
requests (`pc`) through the places where the code calls them.

| state | code |
|---|---|
| `table`, `seen`, `tpc` | `RequestTracer.Requests`; the slice a `range` in `Trace` runs over; where a request is in `Trace` |
| `issued`, `expired` | the commands given; those whose `expires` has passed |
| `harLogEntryCh`, `harFlushRequest`, `aggregator`, `entries`, `disk` | the two channels; `harLogAggregator` launched; its log; the files |
| `set`, `tr`, `out`, `private`, `trace` | a `ProxyCtx`: what handlers chose, the transport, its outcome, `PrivateNetwork`, `Trace` |
| `flushIdle` | `ProxyHttpServer.FlushIdleConnections` |

The write lock of the tracer is a guard (`RequestTrace` waits until no request
is `Reading`); the read lock guards nothing, so a request may write the table
while others run over an older copy of it. The test of `FlushIdleConnections`,
the close and the clear are three steps. A step that touches one request's own
state only is joined with the step before it. The transports and the shadow
network are external: they return what `wrapTransport` and `ForwardHTTPRequest`
are prepared for. `owed`, `overlapped` and `unwritten` are history.

### Modules that hold no model

`MCKeepAlive`, `MCCertStore`, `MCNonHTTP`, `MCConnection`, `MCRoundTripper` give
names to the finite sets of the instances. `KeepAliveProofs`, `KeepAlivePoolProofs`,
`CertStoreProofs`, `DispatchProofs`, `RegretableProofs`, `ConnectionProofs`,
`RoundTripperProofs` and `NonHTTPProofs` hold the proofs.
Definitions marked "Mutant" in the modules are deliberate bugs: each is a small
change of the definition it stands before, and for each property there is one
that TLC shows to break it.

## 3. What is checked

| run | instance | shows |
|---|---|---|
| `KeepAlivePool` | 3 callers, 2 connections, 2 keys, pool of 1, bodies ended by `Close` or EOF | `PoolBounded`, `PoolExclusive`, `PoolServed`, `AnswerForItsRequest`, and the refinement `ImplementsConnPool` |
| `KeepAliveLive` | 2 callers, 2 connections, fair, no symmetry | `RoundTripReturns` |
| `CertStoreSafe` | 2 handshakes, 2 hosts (one never fetched), 4 cells, 2 hours | `PublishedReady`, `PrivateUntilStored`, `OneFetchPerEntry`, `ConfigImmutable` |
| `CertStoreLive` | 2 handshakes, 1 host, 2 cells, fair, no symmetry | `HandshakeAnswered`, and the refinement `ImplementsCache` |
| `NonHTTP` | one request, fair | `CancelInTime`, `CancelReported`, `CancelerCleared`, `BodySignalFits`, `CancelReturns`, `Released`, `BodyReaderReleased` |
| `Connection` | 1 connect, 2 request, 2 response handlers, 1 done handler; bytes as below; fair dial | `AnsweredOnce`, `NoPlaintextToTLS`, `RejectIsFinal`, `UpstreamReleased`, `InOrder`, `EndKnown`, `TunnelInOrder`, `ReplaysStream`, `DialEnds` |
| `RoundTripSafe` | 2 requests, 2 trace commands, 4 settings, channels of 1, 1 file | `LogConserved`, `CloakedStatus`, `FlushIdleKept`, `PanicCause`, `LogSendHeard`, `TakenThenGone`, `TraceNotLost` |

Each module's `TypeOK` is checked in one of its runs (`Dispatch`'s and those of
the modules `Connection` instantiates within `ConnTypeOK`).

Bounds. Two connections and a pool of one give a hit, a miss, a full pool and a
close of a pooled connection while another is used; the third caller makes a
queue for one connection possible. Connections are dialed at most once each, so
`Conns` bounds the dials, and a caller that finds none left takes `dialFails`.
In the certificate store two handshakes are enough for every race the code has
(miss/miss, fetch/flush, verify/replace); cells suffice for every worker and
every host to have one. In `CertStoreSafe` the clock passes both `VerifyAge` and
`RetryAge`. In `Connection` two request and two response handlers let a verdict be followed
by another that could undo it; the proofs remove the bound. `Size` 2 against a
`SourceLen` of 3 lets a wrapped body be replayed in full, in part, and overflow
in the middle of a read. `ReqLen` 3 of a `ClientLen` of 4 gives a request of which
the head, a part of the body, all of it, or more was read with the head, a body that
is read in two reads or past its end, and bytes that belong to the tunnel only; a
verb may stand at any byte of the snapshot. `DestLen` 2 with `MaxEarly` 1 lets a destination's byte arrive with
the proxy's 200; two bytes of `HandleHTTP` allow a length that is too short, right
or too long.
In `RoundTripSafe` a channel of one is full after the first of two logged
requests; `FlushIdleConnections` may be set any number of times; one command asks
for a trace and the other only to skip handlers. `CHECK_DEADLOCK` is off for
`Connection` only, whose behaviour ends with the connection.

Fairness. `KeepAliveTransport!FairSpec` asks that goroutines that can run do
run (Go's scheduler), that callers finish the bodies they get, and that the
server answers what it received; `CertStore!FairSpec` that handshakes run, that
a dial ends (`WhitelistedDNSDialer` sets a timeout of five seconds), and that a
mutex that keeps becoming free is granted (strong fairness: Go's `sync.Mutex`
hands over to a waiter that starves). Neither assumes that a flush or a tick
ever happens. `NonHTTPRoundTripper!FairSpec` asks only that goroutines that are
not waiting for the server or the dial run: a silent server may hold up `Peek`,
the response, a write and a body for as long as the connection is open, and a
dial may hang for ever. `Connection!ConnSpec` asks only that an upstream proxy or
the network answers or fails, and that what an upstream proxy has begun to send
comes; no deadline of the code does. `DialEnds` excepts a refusal that never ends
where it is read to its end: over http always (`ReadAll`, `https.go:139`), over https
when `resp.Body.Close()` drains it after the first 500 bytes (`https.go:174`), which
it does for a chunked body or one of a connection that is kept (`refusal` is
"framed"), and not for a body that the end of the connection ends ("endless"). `KeepAliveLive` has no server that closes an idle connection and
no bodies read to EOF: with either, the findings below make a caller wait for
ever.

### Findings

The runs that expect a violation each check one sentence of the repository.

* `KeepAliveFn`: `bodyEOFSignal` "runs fn (if non-nil) at most once"
  (`transport.go:742`). `Read` clears `fn` after the call, when the readLoop has
  already gone on to `lastbody.Close()`; `fn` runs again on the readLoop's own
  goroutine, pools the connection a second time and blocks for ever.
* `KeepAliveReady`: "we'll be ready to send it requests" (`transport.go:161`). In
  this run the server closes connections only while they are pooled. One request is
  answered without a body and its connection pooled (`readResponse`); the server
  closes it; `getIdleConnHit` hands it to the next caller; only now does `peek` see
  the close, with no response expected, and the readLoop ends; the caller's request
  is counted, lost in the ignored `Flush` error, queued and never answered.
* `CertStoreExpired`: "if the cached certificate has expired, create a new one"
  (`signer.go:335`). It is created and thrown away.
* `ConnectionReplay`: `ForwardRequest` "replays the original HTTP request"
  (`ctx.go:1132`). All that was read with the head is the format of an `Fprintf`
  (`ctx.go:1205`): a percent sign in it, in a path or in an urlencoded body, is
  replaced by a complaint about a missing argument.
* `CertStoreFlush`: `FlushCert` "removes the certificate" (`signer.go:222`). A
  handshake that had fetched before the flush puts it back.

A comment of `signer.go` differs from the code too, and no run is spent on it:
"check if a certificate already exists and only overwrite it if we determined
it's invalid" (`signer.go:597`). The check uses the lookup from before the fetch,
so of two handshakes that miss, the second overwrites the first one's valid
entry in the map (`Put` of `CertCache` allows it). `ConfigImmutable` is about
something else: the Config of one `HostInfo` object never changes to another valid
one.

Three sentences of `handlers.go` differ from what `requestHandler` and
`responseHandler` translate, and no run is spent on them: after a FORWARD the
other handlers are not skipped (`handlers.go:6`), because the `break` leaves the
switch only (`dispatcher.go:176`, `ctx.go:1335`); a rejected request is
not answered with "a 502 error" (`handlers.go:9`) but with 504 or an empty
script or image, and a response handler's REJECT does not "panic"
(`handlers.go:22`) but is remembered while the loop goes on.

`Connection` holds with exceptions that its properties name, and each is
something the code does that a user of the library would not expect:

* `Forget` in the middle of reading again drops the bytes that were still to be
  read again (`regretreader.go:62`); `ReplayStream!Forget` says so.
* The writer's header is the request's, so a request's `Content-Length` goes out
  with an answer of `HandleHTTP` that sets none (`notsodumbresponsewriter.go:5`,
  `proxy.go:287`). `EndKnown` asks `HandleHTTP` to set or remove it.
* An empty `Write` of a chunked body is its last chunk, and so is every `Flush`
  (section 2, Connection).
* `Flush` ends a body that has a length with a line end, which the client counts
  for the body when less was written than promised (`InOrder`).
* `io.Copy`'s error is ignored: a chunked body that breaks off upstream gets its
  last chunk and looks complete. `EndKnown` excepts `copyFailed`.
* `ctx.NewBodyLength`, set by a handler for its own body, is also used for a page
  of the proxy's that takes its place.
* What is read of a request's body after `ctx.NonHTTPRequest` was taken
  (`proxy.go:382`), by a trace (`proxy.go:421`), `HandleHTTP` or a handler, is missing
  from what a tunnel replays, and with it what the `bufio.Reader` (`proxy.go:256`)
  took from the connection past the body. What was read with the head of a CONNECT is
  not forwarded. What a destination sends with the upstream proxy's 200 is lost
  (`https.go:132`). `TunnelInOrder` says exactly which bytes are missing: the tunnel
  goes on with the byte after `snapshot + swallowed`, and inside the replay only bytes
  that a verb takes up are changed (`percent`, the finding `ConnectionReplay`).

`RoundTripSafe` holds with the exceptions its properties name, and each of them
is something the code does against its own comments: a flush of idle connections
asked for between a request's close and its clear is lost (`proxy.go:113`,
`overlapped`); a request with a faked destination, or a logged one after an
unannounced failover, reports a private network it did not use
(`roundtripper.go:53`); several requests that read the tracer's table together
take a command meant for "next request only" (`tracer.go:62`); and two of them
that delete one expired command make the second one panic. A request whose
handler installed its own `RoundTripper` is logged although `ctx.go:47` says
that has no effect.

## 4. What is proved

TLC looks at small instances; these theorems hold for every value of the
constants that satisfies the modules' assumptions (`DispatchAssumption`,
`CertStoreAssumption`, `ReaderAssumption` and so on: the sentinels are outside
the sets they mark, sizes are natural numbers).

`KeepAliveProofs`: for any callers, connections, keys and settings of the pool,
`PoolBounded`, `PoolExclusive`, `PoolServed` and `AnswerForItsRequest`. `Inv` says
that what is pooled was dialed and is filed under its key, which gives the bound.
`Exclusive` adds, per connection, what makes two steps under no lock safe: one
caller holds it (`Holds`) or it is pooled, once; `reqch` and the wire have at most
one request, the holder's; a body has one owner, and the readLoop waits for him; a
readLoop that will end leaves nothing usable in the pool. Connections whose
readLoop is stuck in `fn` are excepted, as in `PoolExclusive`: the finding
`FnAtMostOnce` is how they come about. `Relax`, `LetGo` and `Apart` are the steps
that make nothing harder; the others have a lemma of their own.

`KeepAlivePoolProofs`: `TypeOK` (`Counts`: `numExpectedResponses` is at least the
number of callers that are counted, so a decrement never takes it below zero), and
`TransportImplementsPool`: every step is one of `ConnPool` or moves no connection.
`AtNow` and `AtNext` say where a connection is before and after a step, and
`RoomLeft` that `putIdleConn`'s test of a slice's length is the abstract pool's
test of a set's size, because a pooled, usable connection is filed under its key.

`DispatchProofs`: for chains of any length, `TypeOK`, `AnsweredOnce`,
`NoPlaintextToTLS`, `RejectIsFinal` and `UpstreamReleased`. None is inductive by
itself. `Undecided` says that before a chain's last act nothing has been said,
no done handler has run and no target is open, and which chains a TLS client can
be in; `Upstream` says when an open body is still somebody's to close. The proof
that a step preserves the conjunction has one case per action.

`RegretableProofs`: for any buffer and source, the reader implements
`ReplayStream` (`RegretableImplementsReplay`). The invariant says that until an
overflow the buffer's first `w` bytes are the last `w` taken from the source, and
`r` is at most `w`; `StepStream` has one case per operation, of which the read
that overflows is the one that needs the invariant on both sides of the step.

`ConnectionProofs`: for any sizes, `ConnectionImplementsDispatch` (the step lemma
`ConnStep` shows each action to be a step of `Dispatch` or to leave its variables
alone), from which `ConnectionSafe` takes the four properties of `Dispatch` over
to the connection with its bytes; and `CopyReplaysStream`, that the reader
within a connection still implements `ReplayStream`.

Its second part is about the bytes: `ConnTypeOK`, `InOrder`, `EndKnown` and
`TunnelInOrder`, for requests, bodies, pages and buffers of any length. They
relate three places a byte passes, the reader's buffer, the writer and the
client's decoder, and none is inductive. `ConnInv`, on top of the invariants of
`DispatchProofs` and `RegretableProofs`, has a part per place. `Places`: headers go
out in `HandleHTTP` or in `ForwardResponse` and never in both, and never for a
CONNECT, which is hijacked; so no second header meets a body that has begun.
`Framed`: what a client past the header has of what was given, by chunks (all of
it, up to an empty chunk) or by length (all of it, up to the length; what is
missing is `rx.left`), and after the first `Flush` what was given by then (`Ours`),
whatever is written or flushed later (`AfterFlush`); `FramedStep` shows a write to
keep it and `FlushStep` the flush, whose line end is taken for the body only under a promise that was not
kept. `Content`: the last byte given is the one the reader delivered last (`Cur`,
which counts what regret put back), so the next read continues it; this is where
the reader's buffer invariant is needed (`ReadGives`). `Promised`: a length that no
handler set is the upstream's, and only while no reader was put in front of it.
`Piped` counts a tunnel's bytes from both ends: up to `Replay` they are the
request's or were changed by a verb, and the one after it is the first that nobody
had read before (`snapshot + swallowed + 1`). `DialKnown` is why
only a dial through a proxy can have lost bytes. `WithinConcat`, `Extended` and
`FollowsOn` are the facts about prefixes and runs that the writes and reads share.

`CertStoreProofs`: for any handshakes, hosts and cells, `TypeOK`,
`PublishedReady`, `PrivateUntilStored`, `OneFetchPerEntry`, `ServedForHost`,
`ConfigImmutable` and the refinement `ImplementsCache`. The invariant has a typing
part (`Typed`: a worker has a cell exactly between lookup and return) and `Safe`. `Safe` adds to the checked
properties that a worker inside holds its cell's mutex (`HostLocked`), that a
found cell stays complete and for its host even after a flush (`FoundReady`, why
a handshake may go on with a cell that is no longer in the map), and that the
certificate in hand is for the worker's host (`MadeForHost`). `ReturnFacts` says
what a return leaves of the heap; `SafeReturn`, `SafeQuiet` and `SafeKeep` are
the three kinds of steps. `ConfigImmutable` follows from the invariant: a worker
that stores into a published cell must have found it, by `PrivateUntilStored`,
and then keeps the new certificate only for a bad chain. The same invariant is
enough for the refinement: every return is `Hit`, `Fail` or `Put` of `CertCache`
(`ReturnAnswers`, `KeepPuts`), the lookup is `Ask`, and the fetch between them is a
stutter. `KeepPuts` needs `PublishedReady` and `FoundReady` to know that the stored
cell is no other host's entry, and that those who see the new certificate asked for
the same host. `ServedForHost` is a consequence of the refinement and has a theorem
of its own; no run spends an invariant on it.

`RoundTripperProofs`: for any requests, commands and settings, `FlushIdleKept`,
`CloakedStatus` and `TraceNotLost`, from one invariant. `ClosedFirst` says that a
request between its close and its clear knows of no later setting; `Cloaked`
follows the flag `PrivateNetwork` from the choice of the transport to the return;
`TableStable` says that while anybody reads, the table is what he has seen or
empty, which is what the write lock is good for.

Its second part is about the HAR log, for any settings, files and capacities:
with it every safety property of `RoundTripSafe` is proved. How often an entry
occurs in a channel, the log or a file is a cardinality, so the first lemmas count:
`OccursAppend`, `OccursTail` and `OccursConcat` say what a send, a receive and a
failed flush do to it. `LInv` then conserves the sum for each request
(`Conserved`). It needs `AskedOnce`: a file that waits for its flush is empty and
waits only once, for otherwise a flush would overwrite entries or count them
twice. `Launched` (who is to be logged has started the aggregator) gives
`LogSendHeard`. `TInv` adds what `PanicCause` and `TakenThenGone` need: every
command anywhere was given before (`Known`), so a new one is none that was taken;
and a request that reads an empty table did not empty it itself
(`EmptiedByOther`), so the panic in the deletion takes two requests.

`NonHTTPProofs`: for one call of `RoundTrip` with and without a timeout, `TypeOK`,
`CancelInTime`, `CancelReported`, `CancelerCleared` and `BodySignalFits`. TLC's
run is finite and complete for the module; the proof says why it passes. The
strengthening `IInv` has a part per thing that is shared. `Taken`: whoever takes
the cancel function (a user, the caller, the readLoop) leaves none, and nobody
puts one back. `EarlyOut`: if it was taken while it was still getConn's, the caller
has not got past `replaceReqCanceler`, so nothing is in `writech`. `Reasons`: a
connection closed by a cancel has its reason from the same critical section.
`Registered`: while a function is registered, only a failed write closes the
connection of an answered request, which is the one way an entry stays behind.
`Signals` counts the values in `waitForBodyRead` by the two events that send one.

With these every safety invariant of every passing run, every action property and
every refinement are theorems. Only model-checked are the liveness properties
(liveness under fairness is outside the prover) and every finding.

## 5. Plan

Built so far, in the order of importance for the proxy: certificate store,
keep-alive transport, dispatch, non-HTTP round tripper, round-trip layer with
tracer and HAR log, the abstract pool and the proof that the transport implements
it, the connection with its dial, tunnel, framing and replayed bodies, the abstract
certificate cache, and the proofs of every safety property. What is left:

1. `ConnectDial` as what the non-HTTP `dialConn` calls.
2. `BufferedLog` (entries of one client under another's signature).

## 6. Not modelled

* The MITM path: unreachable, see above; with it `chunked.go`'s writer, which
  only `forwardMITMResponse` uses.
* `Logf`'s buffer: `ctx.Logf` calls `BufferLogEntry` for every message of every
  request (`log.go:32`); `GetLogEntries`, which hands the buffer to a debugging client,
  is called by a sequential test only. Nothing else depends on the buffer, and its one
  race, the test of signature and deadline outside the lock, is listed as a hazard
  without a property.
* What connect handlers do to the socket themselves: `SNIHost()` writes "HTTP/1.0 200
  OK" to the client before it sniffs the ClientHello (`ctx.go:141`), and a handler that
  took the socket with `HijackConnect()` (`ctx.go:1022`) writes what it likes. `reply`,
  `AnsweredOnce` and `NoPlaintextToTLS` are about what the library's own dispatch
  writes; `handlers.go:35` warns of the first.
* `idletimeoutconn.go`: used by `copyAndClose` only, which nothing calls. The
  tunnels are copied by `plumb.Fitter` (external): `Fit` returns when either side
  is done.
* `counterecryptor.go`: used by its own test only.
* In `Connection`: answers to HEAD and answers without a body (204, 304), and
  errors of writes to the client, which the code does not look at.
* TLS handshakes, DNS, header rewriting, HTML pages, HAR conversions, filters and
  canned responses (no state of their own), the legacy dial functions of
  `https.go` (the context ones without a context), proxy environment variables.
* The extensions (written for an earlier handler API), the reproduction programs
  under `signerpanic*`, and everything under vendored packages.
