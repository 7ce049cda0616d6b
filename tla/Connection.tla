----------------------------- MODULE Connection -----------------------------
(***************************************************************************)
(* One accepted connection, byte by byte: the dispatch of Dispatch, with   *)
(* the dial of ConnectDial where a tunnel is opened, the ResponseWriter    *)
(* that answers, and an upstream body that a handler may wrap in a         *)
(* RegretableReader.  Every step is a step of Dispatch with what it does   *)
(* to the bytes, or a step of one of the others between two of these.      *)
(***************************************************************************)
EXTENDS Dispatch, StreamSizes, Integers, Sequences

CONSTANTS
  Vias, MaxEarly,   \* of ConnectDial
  ReqLen,           \* bytes of the client's request; the first is its head
  ClientLen,        \* bytes the client ever sends
  DestLen,          \* bytes the destination ever sends
  ApiLen            \* bytes HandleHTTP may write

ASSUME ConnectionAssumption ==
  /\ ApiLen \in Nat
  /\ ClientLen \in Nat /\ ReqLen \in 1..ClientLen
  /\ DestLen \in Nat /\ MaxEarly \in 0..DestLen

VARIABLES
  dial, via, socket, early, refusal,                   \* of ConnectDial
  wroteheaders, chunking, ishijacked, length, rx,      \* of ResponseWriter
  made, taken, buf, r, w, overflow, out,               \* of RegretableReader
  copying,     \* where the answer is: "no", "head", "body", "flush", "sent"
  copyFailed,  \* io.Copy has stopped at an error of the upstream body
  given,       \* the bytes the writer was given
  emptyWrite,  \* history: it was given an empty write before the first Flush
  whole,       \* history: what it had been given at the first Flush
  newlen,      \* ctx.NewBodyLength
  ulen,        \* the upstream response's Content-Length
  readReq,     \* bytes read from the client
  snapshot,    \* len(ctx.NonHTTPRequest), taken when the head had been read
  swallowed,   \* history: bytes read after that, with or past the request's body
  percent,     \* the bytes of the snapshot that a format verb takes up
  atTarget,    \* the client's bytes that the destination got
  toClient     \* the destination's bytes that the client got

CD == INSTANCE ConnectDial
RW == INSTANCE ResponseWriter
RR == INSTANCE RegretableReader

socketVars == <<dial, via, socket, early, refusal>>
writerVars == <<wroteheaders, chunking, ishijacked, length, rx>>
readerVars == <<made, taken, buf, r, w, overflow, out>>
copyVars   == <<copying, copyFailed, given, emptyWrite, whole, newlen, ulen>>
readVars   == <<readReq, snapshot, swallowed, percent>>
tunnelVars == <<atTarget, toClient>>
answerVars == <<writerVars, readerVars, copyVars>>
dialVars   == <<socketVars, tunnelVars>>
connAll    == <<vars, answerVars, dialVars, readVars>>

\* The body of a handler's response, the proxy's own pages, what a format verb
\* makes of a byte it takes up, and what HandleHTTP writes.
OwnBody == <<101>>
Page    == <<102>>
Mangled == 103
ApiByte(n) == 200 + n

ConnInit ==
  /\ Init /\ CD!Init /\ RW!Init /\ RR!Init
  /\ copying = "no" /\ copyFailed = FALSE
  /\ given = <<>> /\ emptyWrite = FALSE /\ whole = <<>>
  /\ newlen = 0 /\ ulen = RW!NoLength
  /\ readReq = 0 /\ snapshot = 0 /\ swallowed = 0 /\ percent = {}
  /\ atTarget = <<>> /\ toClient = <<>>

-----------------------------------------------------------------------------
(* Accepting.                                                              *)

\* bufio reads ahead of the head; the writer's header is the request's, with
\* its Content-Length.  The connect chain begins by hijacking.
Accepted ==
  /\ HandleHTTPConnection
  /\ snapshot' \in 1..ClientLen
  /\ readReq' = snapshot'
  /\ \/ method' = "CONNECT" /\ RW!Hijack
     \/ method' = "GET" /\ \E n \in {RW!NoLength, ReqLen - 1} : RW!SetLength(n)
  /\ UNCHANGED <<readerVars, copyVars, dialVars, swallowed, percent>>

\* vhost.TLS replays the ClientHello it has read.
AcceptedTLS ==
  /\ ListenAndServeTLS
  /\ RW!Hijack
  /\ UNCHANGED <<readerVars, copyVars, dialVars, readVars>>

Dropped == Drop /\ UNCHANGED <<answerVars, dialVars, readVars>>

\* The request's body is read, to its end by a trace, as far as they like by
\* HandleHTTP and the handlers, and past its end by the bufio.Reader it is read
\* through; ctx.NonHTTPRequest stays as it is.
ReadBody ==
  /\ \/ pc = "api"
     \/ pc = "connect" /\ ~secure /\ dial = "no"
     \/ pc = "request" /\ pos < NRequest
  /\ readReq < ReqLen
  /\ \E n \in 1..ClientLen - readReq :
       readReq' = readReq + n /\ swallowed' = swallowed + n
  /\ UNCHANGED <<vars, answerVars, dialVars, snapshot, percent>>

-----------------------------------------------------------------------------
(* HandleHTTP, with ctx.ResponseWriter in its hands, also after a Flush.    *)

ApiSetLength ==
  /\ pc = "api" /\ ~wroteheaders
  /\ \E n \in 0..ApiLen \cup {RW!NoLength} : RW!SetLength(n)
  /\ UNCHANGED <<vars, readerVars, copyVars, dialVars, readVars>>

ApiWriteHeader ==
  /\ pc = "api"
  /\ RW!WriteHeader
  /\ UNCHANGED <<vars, readerVars, copyVars, dialVars, readVars>>

ApiWrite ==
  /\ pc = "api"
  /\ \E b \in {<<>>, <<ApiByte(Len(given))>>} :
       /\ Len(given \o b) <= ApiLen
       /\ RW!Write(b)
       /\ given' = given \o b
       /\ emptyWrite' = (emptyWrite \/ (b = <<>> /\ copying = "no"))
  /\ UNCHANGED <<vars, readerVars, dialVars, readVars>>
  /\ UNCHANGED <<copying, copyFailed, whole, newlen, ulen>>

ApiFlush ==
  /\ pc = "api"
  /\ RW!Flush
  /\ copying' = "sent"
  /\ whole' = IF copying = "no" THEN given ELSE whole
  /\ UNCHANGED <<vars, readerVars, dialVars, readVars>>
  /\ UNCHANGED <<copyFailed, given, emptyWrite, newlen, ulen>>

\* It leaves a request to the handlers only when it has answered nothing.
Served ==
  /\ HandleHTTP
  /\ wroteheaders => pc' = "end"
  /\ UNCHANGED <<answerVars, dialVars, readVars>>

-----------------------------------------------------------------------------
(* The tunnels.                                                            *)

\* ForwardConnect or ForwardRequest is at its dial.
Dialing == \/ pc = "connect" /\ pos = NConnect
           \/ pc = "request" /\ pos = NRequest /\ tunnel

DialStep ==
  /\ Dialing
  /\ CD!Next
  /\ UNCHANGED <<vars, answerVars, tunnelVars, readVars>>

\* What is replayed goes through Fprintf as its format, all of it.
Formatted(n) == [i \in 1..n |-> IF i \in percent' THEN Mangled ELSE i]

\* Mutant: ForwardConnect replays the head too.
ConnectForwardedWithHead ==
  /\ dial = "ok"
  /\ ForwardConnect
  /\ UNCHANGED <<answerVars, socketVars, toClient, readVars>>
  /\ atTarget' = Formatted(snapshot)

ConnectForwarded ==
  /\ dial = "ok"
  /\ ForwardConnect
  /\ UNCHANGED <<answerVars, dialVars, readVars>>

\* The client's bytes may hold verbs anywhere; a failed write may have got some
\* of them through.
RequestForwarded ==
  /\ dial = "ok"
  /\ ForwardRequest
  /\ percent' \in SUBSET (1..snapshot)
  /\ \E n \in 0..snapshot :
       /\ n = snapshot \/ failed'
       /\ atTarget' = Formatted(n)
  /\ UNCHANGED <<answerVars, socketVars, toClient, readReq, snapshot, swallowed>>

ForwardFails ==
  /\ dial = "err"
  /\ ForwardConnectFails \/ ForwardRequestFails
  /\ UNCHANGED <<answerVars, dialVars, readVars>>

\* fitter.Fit copies both ways.
ToTarget ==
  /\ pc = "tunnel"
  /\ readReq < ClientLen
  /\ readReq' = readReq + 1
  /\ atTarget' = Append(atTarget, readReq + 1)
  /\ UNCHANGED <<vars, answerVars, socketVars, toClient, snapshot, swallowed, percent>>

ToClient ==
  /\ pc = "tunnel"
  /\ early + Len(toClient) < DestLen
  /\ toClient' = Append(toClient, early + Len(toClient) + 1)
  /\ UNCHANGED <<vars, answerVars, socketVars, atTarget, readVars>>

-----------------------------------------------------------------------------
(* Handlers, and what they may do to a response.                           *)

Fetched ==
  /\ ForwardHTTPRequest
  /\ ulen' \in IF resp' = "upstream" THEN {RW!NoLength, SourceLen} ELSE {ulen}
  /\ UNCHANGED <<writerVars, readerVars, dialVars, readVars>>
  /\ UNCHANGED <<copying, copyFailed, given, emptyWrite, whole, newlen>>

\* A handler is running that may touch the response.
Handling(chain) == pc = chain /\ pos < Registered(chain)

SetNewBodyLength ==
  /\ Handling("request") \/ Handling("response")
  /\ newlen = 0
  /\ newlen' \in 1..SourceLen
  /\ UNCHANGED <<vars, writerVars, readerVars, dialVars, readVars>>
  /\ UNCHANGED <<copying, copyFailed, given, emptyWrite, whole, ulen>>

\* It wraps the upstream body before it reads some of it, and may regret.
UseBody ==
  /\ Handling("response") /\ resp = "upstream"
  /\ RR!Next
  /\ made'
  /\ UNCHANGED <<vars, writerVars, copyVars, dialVars, readVars>>

Handled ==
  /\ \/ \E v \in Nexts : connectHandler(v) \/ requestHandler(v)
                         \/ responseHandler(v) \/ doneHandler(v)
     \/ ResponseHandled \/ DoneHandled \/ TunnelEnds
  /\ UNCHANGED <<answerVars, dialVars, readVars>>

-----------------------------------------------------------------------------
(* ForwardResponse, step by step.                                          *)

\* Mutant: a body that a handler replaced keeps the upstream's length.
OldLength ==
  IF reply = "upstream" THEN ulen
  ELSE IF newlen = 0 THEN RW!NoLength ELSE newlen

\* Only a body that is still the upstream's keeps its Content-Length.
NewLength ==
  IF reply = "upstream" /\ ~made THEN ulen
  ELSE IF newlen = 0 THEN RW!NoLength ELSE newlen

SetHeaders ==
  /\ pc = "copy" /\ copying = "no"
  /\ RW!SetLength(NewLength)
  /\ copying' = "head"
  /\ UNCHANGED <<vars, readerVars, dialVars, readVars>>
  /\ UNCHANGED <<copyFailed, given, emptyWrite, whole, newlen, ulen>>

WriteHead ==
  /\ copying = "head"
  /\ RW!WriteHeader
  /\ copying' = "body"
  /\ UNCHANGED <<vars, readerVars, dialVars, readVars>>
  /\ UNCHANGED <<copyFailed, given, emptyWrite, whole, newlen, ulen>>

\* io.Copy: a read that gives something is written.
Copy ==
  /\ copying = "body" /\ reply = "upstream"
  /\ RR!Read(SourceLen)
  /\ out' # <<>>
  /\ RW!Write(out')
  /\ given' = given \o out'
  /\ UNCHANGED <<vars, dialVars, readVars>>
  /\ UNCHANGED <<copying, copyFailed, emptyWrite, whole, newlen, ulen>>

\* There is nothing to be read again: the next read is one of the source.
AtSource == ~made \/ overflow \/ r >= w

\* The end of the body, or an error that nobody looks at.
CopyEnds ==
  /\ copying = "body" /\ reply = "upstream"
  /\ AtSource
  /\ copyFailed' \in IF taken = SourceLen THEN {FALSE} ELSE {TRUE}
  /\ copying' = "flush"
  /\ UNCHANGED <<vars, writerVars, readerVars, dialVars, readVars>>
  /\ UNCHANGED <<given, emptyWrite, whole, newlen, ulen>>

CopyOwn ==
  LET b == IF reply = "own" THEN OwnBody ELSE Page IN
  /\ copying = "body" /\ reply # "upstream"
  /\ RW!Write(b)
  /\ given' = b
  /\ copying' = "flush"
  /\ UNCHANGED <<vars, readerVars, dialVars, readVars>>
  /\ UNCHANGED <<copyFailed, emptyWrite, whole, newlen, ulen>>

Flushed ==
  /\ copying = "flush"
  /\ RW!Flush
  /\ copying' = "sent" /\ whole' = given
  /\ UNCHANGED <<vars, readerVars, dialVars, readVars>>
  /\ UNCHANGED <<copyFailed, given, emptyWrite, newlen, ulen>>

Closed ==
  /\ copying = "sent"
  /\ ResponseForwarded
  /\ UNCHANGED <<answerVars, dialVars, readVars>>

-----------------------------------------------------------------------------
ConnNext ==
  \/ Accepted \/ AcceptedTLS \/ Dropped \/ ReadBody
  \/ ApiSetLength \/ ApiWriteHeader \/ ApiWrite \/ ApiFlush \/ Served
  \/ DialStep \/ ConnectForwarded \/ RequestForwarded \/ ForwardFails
  \/ ToTarget \/ ToClient
  \/ Fetched \/ SetNewBodyLength \/ UseBody \/ Handled
  \/ SetHeaders \/ WriteHead \/ Copy \/ CopyEnds \/ CopyOwn \/ Flushed \/ Closed

\* The network and an upstream proxy answer, or fail.
ConnSpec == ConnInit /\ [][ConnNext]_connAll /\ WF_connAll(DialStep)
-----------------------------------------------------------------------------
(* Properties.                                                             *)

ConnTypeOK ==
  /\ TypeOK
  /\ dial \in {"no", "dialing", "asked", "refused", "ok", "err"}
  /\ via \in Vias \cup {"direct"} /\ socket \in {"none", "open", "closed"}
  /\ early \in 0..MaxEarly /\ refusal \in {"none", "ends", "endless", "framed"}
  /\ {wroteheaders, chunking, ishijacked, copyFailed, emptyWrite} \subseteq BOOLEAN
  /\ {length, ulen} \subseteq Nat \cup {RW!NoLength} /\ newlen \in 0..SourceLen
  /\ rx.at \in {"head", "chunks", "length", "done"} /\ rx.left \in Nat
  /\ copying \in {"no", "head", "body", "flush", "sent"}
  /\ readReq \in 0..ClientLen /\ snapshot + swallowed \in 0..readReq
  /\ percent \subseteq 1..snapshot

\* The first n bytes of a stream are 1, 2, ..., n.
Follows(s) == \A i \in 1..Len(s) - 1 : s[i + 1] = s[i] + 1

\* The body that the client should have: nothing written after a Flush is of it.
Ours == IF copying = "sent" THEN whole ELSE given

\* What the client decodes is one body, the one that was decided on: bytes of
\* the upstream in order, or the handler's, or a page, or what HandleHTTP wrote up
\* to its first Flush.  That Flush's line end, and what follows it, are taken for
\* the body only when the header had promised more than had come by then.
InOrder ==
  LET n == IF Len(rx.got) < Len(Ours) THEN Len(rx.got) ELSE Len(Ours) IN
  /\ SubSeq(rx.got, 1, n) = SubSeq(Ours, 1, n)
  /\ Len(rx.got) > n => copying = "sent" /\ length > Len(Ours)
  /\ reply = "upstream" => Follows(given)
  /\ reply \in Pages => given \in {<<>>, Page}
  /\ reply = "own" => given \in {<<>>, OwnBody}

\* When the answer has been sent the client has all of it and knows that it has
\* ended: always if a handler gave no NewBodyLength and the copy did not fail.
\* What HandleHTTP answers ends at its first Flush ("so the response is completed",
\* notsodumbresponsewriter.go:103): the client has what was written up to then and
\* none of what is written later, if as much had been promised, or no length had
\* and there was no empty write.
EndKnown ==
  /\ copying = "sent"
  /\ IF reply \in {"none", "api"}
       THEN \/ length = Len(whole)
            \/ length = RW!NoLength /\ ~emptyWrite
       ELSE newlen = 0 /\ ~copyFailed
  => /\ rx.at = "done"
     /\ rx.got = IF reply \in {"none", "api"} THEN whole ELSE given
     /\ reply = "upstream" => taken = SourceLen

\* RegretableReader implements ReplayStream, also when it is a copy that reads
\* what handlers left.
ReplaysStream == RR!ReplaysStream

\* A tunnel gives the destination the replayed request and then what the client
\* sends, in order and once, up to the last byte that was read.  Three things are
\* not as the client sent them: in the replay, what a format verb takes up; after
\* it, what was read of the body, and past it, through the bufio.Reader; and for a
\* CONNECT all that was read with its head.
TunnelInOrder ==
  LET replayed == IF method = "GET" THEN snapshot ELSE 0
      sent     == SubSeq(atTarget, replayed + 1, Len(atTarget))
  IN
  /\ \A i \in DOMAIN atTarget : i <= replayed => atTarget[i] = i \/ i \in percent
  /\ Follows(sent)
  /\ sent # <<>> => /\ sent[1] = snapshot + swallowed + 1
                    /\ sent[Len(sent)] = readReq
  /\ Follows(toClient)
  /\ toClient # <<>> => toClient[1] = 1 \/ via # "direct"

\* ForwardRequest "replays the original HTTP request before fusing the
\* connection" (ctx.go:1132): the destination gets what was read with its head.
Replayed ==
  pc = "tunnel" /\ method = "GET" => \A i \in 1..snapshot : atTarget[i] = i

\* A dial ends: with an open connection, or with an error and none left open;
\* but a refusal that never ends is read for ever, over http always, and over https
\* when closing its body reads it to its end.
DialEnds == dial = "dialing" ~> CD!Settled \/ CD!ReadsForEver
=============================================================================
