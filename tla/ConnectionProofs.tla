-------------------------- MODULE ConnectionProofs --------------------------
(***************************************************************************)
(* What is proved of a whole connection.  Connection implements Dispatch:  *)
(* whatever its bytes do, a connection goes through the chains as Dispatch *)
(* says, so that everything DispatchProofs proves holds of it.  And its    *)
(* bytes are in place: ConnInv, the inductive invariant, relates what the  *)
(* body's reader delivered, what the writer was given and what the client  *)
(* has, and with it the answer's bytes are in order, its end is known to   *)
(* the client, and a tunnel keeps the order of both directions.            *)
(***************************************************************************)
EXTENDS Connection, DispatchProofs, SequenceTheorems

RP == INSTANCE RegretableProofs

\* A step of a connection is one of Dispatch, or one that Dispatch does not see.
LEMMA ConnStep == ConnNext => [Next]_vars
<1> SUFFICES ASSUME ConnNext PROVE [Next]_vars
  OBVIOUS
<1>1. CASE Accepted
  BY <1>1 DEF Accepted, Next
<1>2. CASE AcceptedTLS
  BY <1>2 DEF AcceptedTLS, Next
<1>3. CASE Dropped
  BY <1>3 DEF Dropped, Next
<1>4. CASE ReadBody
  BY <1>4 DEF ReadBody
<1>5. CASE ApiSetLength \/ ApiWriteHeader \/ ApiWrite \/ ApiFlush
  BY <1>5 DEF ApiSetLength, ApiWriteHeader, ApiWrite, ApiFlush
<1>6. CASE Served
  BY <1>6 DEF Served, Next
<1>7. CASE DialStep
  BY <1>7 DEF DialStep
<1>8. CASE ConnectForwarded \/ RequestForwarded \/ ForwardFails
  BY <1>8 DEF ConnectForwarded, RequestForwarded, ForwardFails, Next
<1>9. CASE ToTarget \/ ToClient
  BY <1>9 DEF ToTarget, ToClient
<1>10. CASE Fetched
  BY <1>10 DEF Fetched, Next
<1>11. CASE SetNewBodyLength \/ UseBody
  BY <1>11 DEF SetNewBodyLength, UseBody
<1>12. CASE Handled
  BY <1>12 DEF Handled, Next
<1>13. CASE SetHeaders \/ WriteHead \/ Copy \/ CopyEnds \/ CopyOwn \/ Flushed
  BY <1>13 DEF SetHeaders, WriteHead, Copy, CopyEnds, CopyOwn, Flushed
<1>14. CASE Closed
  BY <1>14 DEF Closed, Next
<1> QED
  BY <1>1, <1>2, <1>3, <1>4, <1>5, <1>6, <1>7, <1>8, <1>9, <1>10, <1>11,
     <1>12, <1>13, <1>14 DEF ConnNext

\* Connection implements Dispatch.
THEOREM ConnectionImplementsDispatch == ConnSpec => Spec
<1>1. ConnInit => Init
  BY DEF ConnInit
<1>2. [ConnNext]_connAll => [Next]_vars
  BY ConnStep DEF connAll
<1> QED
  BY <1>1, <1>2, PTL DEF ConnSpec, Spec

\* What DispatchProofs shows of the dispatch holds of a connection with its dials
\* and its bytes: one answer, no plain text to a TLS client, no rejection undone,
\* the upstream side released.
THEOREM ConnectionSafe ==
  ConnSpec => [](AnsweredOnce /\ NoPlaintextToTLS /\ RejectIsFinal /\ UpstreamReleased)
  BY ConnectionImplementsDispatch, RepliesAndBooksOnce, TLSClientSparedPlaintext,
     RejectHolds, Released, PTL

-----------------------------------------------------------------------------
\* A step leaves the reader of the body alone, or is one call of it.
LEMMA ReaderStep == ConnNext => [RR!Next]_(RR!vars)
<1> SUFFICES ASSUME ConnNext PROVE [RR!Next]_(RR!vars)
  OBVIOUS
<1> USE DEF RR!vars, readerVars, answerVars
<1>1. CASE Accepted \/ AcceptedTLS \/ Dropped \/ ReadBody
  BY <1>1 DEF Accepted, AcceptedTLS, Dropped, ReadBody
<1>2. CASE ApiSetLength \/ ApiWriteHeader \/ ApiWrite \/ ApiFlush \/ Served
  BY <1>2 DEF ApiSetLength, ApiWriteHeader, ApiWrite, ApiFlush, Served
<1>3. CASE DialStep \/ ConnectForwarded \/ RequestForwarded \/ ForwardFails
  BY <1>3 DEF DialStep, ConnectForwarded, RequestForwarded, ForwardFails
<1>4. CASE ToTarget \/ ToClient \/ Fetched \/ SetNewBodyLength \/ Handled
  BY <1>4 DEF ToTarget, ToClient, Fetched, SetNewBodyLength, Handled
<1>5. CASE UseBody
  BY <1>5 DEF UseBody
<1>6. CASE SetHeaders \/ WriteHead \/ CopyEnds \/ CopyOwn \/ Flushed \/ Closed
  BY <1>6 DEF SetHeaders, WriteHead, CopyEnds, CopyOwn, Flushed, Closed
<1>7. CASE Copy
  <2>1. RR!Read(SourceLen)
    BY <1>7 DEF Copy
  <2>2. SourceLen \in 0..SourceLen
    BY ReaderAssumption
  <2> QED
    BY <2>1, <2>2 DEF RR!Next
<1> QED
  BY <1>1, <1>2, <1>3, <1>4, <1>5, <1>6, <1>7 DEF ConnNext

\* The reader of a body is a RegretableReader, whatever else a connection does.
LEMMA ReaderIsRegretable == ConnSpec => RP!Spec
<1>1. ConnInit => RR!Init
  BY DEF ConnInit
<1>2. [ConnNext]_connAll => [RR!Next]_(RR!vars)
  BY ReaderStep DEF connAll, answerVars, readerVars, RR!vars
<1>3. ConnSpec => RR!Spec
  BY <1>1, <1>2, PTL DEF ConnSpec, RR!Spec
<1>4. RR!Init => RP!Init
  BY DEF RR!Init, RP!Init
<1>5. [RR!Next]_(RR!vars) => [RP!Next]_(RP!vars)
  BY DEF RR!vars, RR!Next, RR!NewRegretableReader, RR!Regret, RR!Forget, RR!Read, RR!ReadBuffered, RR!ReadDirect, RR!ReadSource, RR!Source, RR!Smaller,
         RP!vars, RP!Next, RP!NewRegretableReader, RP!Regret, RP!Forget, RP!Read, RP!ReadBuffered, RP!ReadDirect, RP!ReadSource, RP!Source, RP!Smaller
<1>6. RR!Spec => RP!Spec
  BY <1>4, <1>5, PTL DEF RR!Spec, RP!Spec
<1> QED
  BY <1>3, <1>6, PTL

\* The body that is copied to the client is the one the reader's contract
\* promises, whatever handlers read of it, regretted and forgot before.
THEOREM CopyReplaysStream == ConnSpec => ReplaysStream
<1>1. RP!ReaderAssumption
  BY ReaderAssumption DEF RP!ReaderAssumption
<1>2. RP!Spec => RP!ReplaysStream
  BY <1>1, RP!RegretableImplementsReplay
<1>3. RP!Stream!Init => RR!Stream!Init
  BY DEF RP!Stream!Init, RR!Stream!Init
<1>4. [RP!Stream!Next]_(RP!Stream!vars) => [RR!Stream!Next]_(RR!Stream!vars)
  BY DEF RR!Stream!vars, RR!Stream!Next, RR!Stream!Open, RR!Stream!Read, RR!Stream!Regret, RR!Stream!Forget, RR!Stream!Larger,
         RP!Stream!vars, RP!Stream!Next, RP!Stream!Open, RP!Stream!Read, RP!Stream!Regret, RP!Stream!Forget, RP!Stream!Larger
<1>5. RP!Stream!Spec => RR!Stream!Spec
  BY <1>3, <1>4, PTL DEF RP!Stream!Spec, RR!Stream!Spec
<1> QED
  BY <1>2, <1>5, ReaderIsRegretable, PTL DEF ReplaysStream, RP!ReplaysStream, RR!ReplaysStream

-----------------------------------------------------------------------------
(* The bytes.  ConnInv, on top of what DispatchProofs and RegretableProofs   *)
(* know of the chains and the reader, is inductive for the rest.             *)

Answers == Pages \cup {"own", "upstream"}
Bytes   == Seq(Nat)
Decoders == [at : {"head", "chunks", "length", "done"}, left : Nat, got : Bytes]

\* s is what has come so far of t.
Within(s, t) == Len(s) <= Len(t) /\ \A i \in 1..Len(s) : s[i] = t[i]

\* Which part of the connection is at work: a CONNECT is hijacked, headers go
\* out in HandleHTTP or in ForwardResponse, and never in both.
Places ==
  /\ pc = "accept" => method = "none"
  /\ pc = "connect" => method = "CONNECT"
  /\ pc \in {"api", "request", "response", "copy", "done"} => method = "GET"
  /\ ishijacked <=> method = "CONNECT"
  /\ failed => pc = "end"
  /\ pc \in {"accept", "api", "connect", "request", "response", "tunnel"} => reply \notin Answers
  /\ pc = "copy" => reply \in Answers
  /\ wroteheaders => pc \notin {"accept", "connect", "request", "response", "tunnel"}
                     /\ method = "GET"
  /\ copying \in {"body", "flush", "sent"} => wroteheaders
  /\ copying \in {"head", "body", "flush"} => pc = "copy"
  /\ wroteheaders /\ copying = "no" => reply \in {"none", "api"}
  /\ copying = "head" => ~wroteheaders
  /\ copying = "sent" => reply \in Answers \cup {"none", "api"}
  /\ emptyWrite => wroteheaders /\ reply \in {"none", "api"}
  /\ wroteheaders /\ reply = "none" => pc = "api"

\* The types of the writer, its client and what it was given.
Written ==
  /\ rx \in Decoders
  /\ given \in Bytes /\ whole \in Bytes
  /\ length \in Nat \cup {RW!NoLength}
  /\ copying \in {"no", "head", "body", "flush", "sent"}
  /\ wroteheaders \in BOOLEAN /\ chunking \in BOOLEAN /\ ishijacked \in BOOLEAN
  /\ copyFailed \in BOOLEAN /\ emptyWrite \in BOOLEAN

\* What a client past the header has of the answer: all of it, up to an empty
\* chunk or up to the length it was promised; and at most a promise that was not
\* kept makes it take what follows, from the flush's line end on, for the body.
FramedBy(x) ==
  IF length = RW!NoLength
  THEN /\ x.left = 0 /\ x.at \in {"chunks", "done"}
       /\ Within(x.got, Ours)
       /\ x.at = "done" => emptyWrite \/ copying = "sent"
       /\ x.at = "chunks" \/ ~emptyWrite => x.got = Ours
       /\ copying = "sent" => x.at = "done"
  ELSE /\ x.at \in {"length", "done"}
       /\ x.at = "done" <=> x.left = 0
       /\ Len(x.got) + x.left = length
       /\ copying # "sent" => Within(x.got, Ours) /\ (x.left > 0 => x.got = Ours)
       /\ copying = "sent" => \/ Within(x.got, Ours) /\ x.left = 0
                              \/ Within(Ours, x.got) /\ length > Len(Ours)

Framed ==
  /\ ~wroteheaders => /\ ~chunking /\ rx.at = "head" /\ rx.left = 0
                      /\ rx.got = <<>> /\ given = <<>>
  /\ wroteheaders => (chunking <=> length = RW!NoLength) /\ FramedBy(rx)

\* The position in the upstream body of the byte a read delivers next, less one.
Cur == IF ~made \/ overflow THEN taken ELSE taken - (w - r)

\* What is given is the body that was decided on, and of the upstream's it is
\* what the reader has delivered.
Content ==
  /\ reply \in Answers /\ copying \in {"no", "head"} => given = <<>>
  /\ reply \in Answers \ {"upstream"} /\ copying = "body" => given = <<>>
  /\ reply \in Pages => given \in {<<>>, Page}
  /\ reply = "own" => given \in {<<>>, OwnBody}
  /\ reply = "upstream" /\ given # <<>> => given[Len(given)] = Cur
  /\ reply = "upstream" => Follows(given)
  /\ ~made => taken = IF reply = "upstream" THEN Len(given) ELSE 0
  /\ reply = "upstream" /\ copying \in {"flush", "sent"} /\ ~copyFailed => taken = SourceLen
  /\ reply \in Answers /\ copying = "sent" => whole = given

\* The length that was promised.
Promised ==
  /\ ulen \in {RW!NoLength, SourceLen}
  /\ newlen \in 0..SourceLen
  /\ reply \in Answers /\ copying # "no" /\ newlen = 0 =>
       length = IF reply = "upstream" /\ ~made THEN ulen ELSE RW!NoLength

\* A dial that asks an upstream proxy, and what is lost there.
DialKnown ==
  /\ dial \in {"no", "dialing", "asked", "refused", "ok", "err"}
  /\ via \in Vias \cup {"direct"} /\ socket \in {"none", "open", "closed"}
  /\ early \in 0..MaxEarly /\ refusal \in {"none", "ends", "endless", "framed"}
  /\ dial \in {"asked", "refused"} => via # "direct"
  /\ early # 0 => via # "direct"
  /\ dial = "no" => early = 0

\* Nothing has been formatted yet.
Plain == percent = {}

Replay == IF method = "GET" THEN snapshot ELSE 0

\* The bytes read from the client are the snapshot, what was swallowed, and what
\* the tunnel has sent on after the replay; and what the destination sends goes
\* on from early.
Piped ==
  /\ readReq \in 0..ClientLen /\ snapshot \in Nat /\ swallowed \in Nat
  /\ snapshot + swallowed <= readReq /\ percent \subseteq 1..snapshot
  /\ atTarget \in Bytes /\ toClient \in Bytes
  /\ pc \notin {"tunnel", "end"} => /\ atTarget = <<>> /\ toClient = <<>>
                                   /\ readReq = snapshot + swallowed /\ Plain
  /\ method = "none" => swallowed = 0
  /\ pc = "tunnel" => Len(atTarget) >= Replay
  /\ Len(atTarget) >= Replay =>
       readReq = snapshot + swallowed + (Len(atTarget) - Replay)
  /\ \A i \in 1..Len(atTarget) :
       IF i <= Replay THEN atTarget[i] = i \/ i \in percent
       ELSE atTarget[i] = snapshot + swallowed + (i - Replay)
  /\ \A i \in 1..Len(toClient) : toClient[i] = early + i

ConnInv == Places /\ Written /\ Framed /\ Content /\ Promised /\ DialKnown /\ Piped

\* What has come of t has come of any continuation of t.
LEMMA WithinConcat ==
  ASSUME NEW s \in Bytes, NEW t \in Bytes, NEW b \in Bytes, Within(s, t)
  PROVE  t \o b \in Bytes /\ Len(t \o b) = Len(t) + Len(b) /\ Within(s, t \o b)
<1>1. /\ t \o b \in Bytes /\ Len(t \o b) = Len(t) + Len(b)
      /\ \A i \in 1..Len(t) + Len(b) :
           (t \o b)[i] = IF i <= Len(t) THEN t[i] ELSE b[i - Len(t)]
  BY ConcatProperties, Zenon DEF Bytes
<1>2. Len(s) \in Nat /\ Len(t) \in Nat /\ Len(b) \in Nat
  BY LenProperties, Zenon DEF Bytes
<1> QED
  BY <1>1, <1>2 DEF Within

\* A body and the first n bytes of the next piece.
LEMMA Extended ==
  ASSUME NEW t \in Bytes, NEW b \in Bytes, NEW n \in 0..Len(b)
  PROVE  LET s == t \o SubSeq(b, 1, n) IN
         /\ s \in Bytes /\ Len(s) = Len(t) + n
         /\ Within(s, t \o b) /\ Within(t, s)
         /\ n = Len(b) => s = t \o b
<1> DEFINE d == SubSeq(b, 1, n)
<1>0. Len(t) \in Nat /\ Len(b) \in Nat
  BY LenProperties, Zenon DEF Bytes
<1>a. \A i \in 1..n : b[i] \in Nat
  BY <1>0, ElementOfSeq DEF Bytes
<1>1. d \in Bytes /\ Len(d) = n /\ \A i \in 1..n : d[i] = b[i]
  <2>1. /\ d \in Seq(Nat) /\ Len(d) = (IF 1 <= n THEN n - 1 + 1 ELSE 0)
        /\ \A i \in 1..n - 1 + 1 : d[i] = b[1 + i - 1]
    BY <1>a, SubSeqProperties
  <2>2. n \in Nat
    BY <1>0
  <2> HIDE DEF d
  <2> QED
    BY <2>1, <2>2 DEF Bytes
<1> HIDE DEF d
<1>2. /\ t \o d \in Bytes /\ Len(t \o d) = Len(t) + n
      /\ \A i \in 1..Len(t) + n :
           (t \o d)[i] = IF i <= Len(t) THEN t[i] ELSE d[i - Len(t)]
  BY <1>1, ConcatProperties, Zenon DEF Bytes
<1>3. /\ t \o b \in Bytes /\ Len(t \o b) = Len(t) + Len(b)
      /\ \A i \in 1..Len(t) + Len(b) :
           (t \o b)[i] = IF i <= Len(t) THEN t[i] ELSE b[i - Len(t)]
  BY ConcatProperties, Zenon DEF Bytes
<1>4. Within(t \o d, t \o b) /\ Within(t, t \o d)
  BY <1>0, <1>1, <1>2, <1>3 DEF Within
<1>5. ASSUME n = Len(b) PROVE t \o d = t \o b
  <2>1. \A i \in 1..Len(t \o d) : (t \o d)[i] = (t \o b)[i]
    BY <1>4 DEF Within
  <2>2. Len(t \o d) = Len(t \o b)
    BY <1>2, <1>3, <1>5
  <2> QED
    BY <1>2, <1>3, <2>1, <2>2, SeqEqual, Zenon DEF Bytes
<1> QED
  BY <1>2, <1>4, <1>5 DEF d

\* What has come of what has come.
LEMMA WithinTrans ==
  ASSUME NEW s \in Bytes, NEW t \in Bytes, NEW u \in Bytes, Within(s, t), Within(t, u)
  PROVE  Within(s, u)
<1>1. Len(s) \in Nat /\ Len(t) \in Nat /\ Len(u) \in Nat
  BY LenProperties, Zenon DEF Bytes
<1> QED
  BY <1>1 DEF Within

\* All of it has come when as many bytes have.
LEMMA WithinAll ==
  ASSUME NEW s \in Bytes, NEW t \in Bytes, Within(s, t), Len(s) = Len(t)
  PROVE  s = t
BY SeqEqual DEF Within, Bytes

\* The beginnings that InOrder compares.
LEMMA WithinSubSeq ==
  ASSUME NEW s \in Bytes, NEW t \in Bytes, Within(s, t)
  PROVE  SubSeq(s, 1, Len(s)) = SubSeq(t, 1, Len(s))
<1> DEFINE n == Len(s)
<1>0. n \in Nat /\ Len(t) \in Nat /\ n <= Len(t)
  BY LenProperties DEF Bytes, Within
<1>1. \A i \in 1..n : s[i] \in Nat /\ t[i] = s[i]
  BY <1>0, ElementOfSeq DEF Within, Bytes
<1>2. /\ SubSeq(s, 1, n) \in Seq(Nat) /\ Len(SubSeq(s, 1, n)) = (IF 1 <= n THEN n - 1 + 1 ELSE 0)
      /\ \A i \in 1..n - 1 + 1 : SubSeq(s, 1, n)[i] = s[1 + i - 1]
  BY <1>0, <1>1, SubSeqProperties
<1>3. /\ SubSeq(t, 1, n) \in Seq(Nat) /\ Len(SubSeq(t, 1, n)) = (IF 1 <= n THEN n - 1 + 1 ELSE 0)
      /\ \A i \in 1..n - 1 + 1 : SubSeq(t, 1, n)[i] = t[1 + i - 1]
  BY <1>0, <1>1, SubSeqProperties
<1> HIDE DEF n
<1>4. \A i \in 1..Len(SubSeq(s, 1, n)) : SubSeq(s, 1, n)[i] = SubSeq(t, 1, n)[i]
  BY <1>0, <1>1, <1>2, <1>3
<1> QED
  BY <1>2, <1>3, <1>4, SeqEqual DEF n

\* Headers leaves the frame of a body that has not ended as it was, or begins one.
LEMMA HeadersOut ==
  ASSUME Written, Framed, ~ishijacked, copying # "sent", RW!Headers
  PROVE  /\ wroteheaders' = TRUE
         /\ chunking' \in BOOLEAN /\ (chunking' <=> length = RW!NoLength)
         /\ RW!Headed \in Decoders /\ FramedBy(RW!Headed)
<1> USE DEF RW!NoLength
<1>1. CASE wroteheaders
  <2>1. wroteheaders' = wroteheaders /\ chunking' = chunking
    BY <1>1, Zenon DEF RW!Headers
  <2>2. RW!Headed = rx
    BY <1>1 DEF RW!Headed
  <2>3. chunking <=> length = RW!NoLength
    BY <1>1 DEF Framed
  <2>4. wroteheaders = TRUE /\ chunking \in BOOLEAN
    BY <1>1, Zenon DEF Written
  <2> QED
    BY <1>1, <2>1, <2>2, <2>3, <2>4, Zenon DEF Framed, Written
<1>2. CASE ~wroteheaders
  <2>1. wroteheaders' = TRUE /\ chunking' = (length = RW!NoLength)
    BY <1>2, Zenon DEF RW!Headers
  <2>2. RW!Headed = RW!Begin(rx)
    BY <1>2 DEF RW!Headed
  <2>3. rx \in Decoders /\ rx.left = 0 /\ rx.got = <<>> /\ given = <<>>
    BY <1>2 DEF Framed, Written
  <2>4. Len(<<>>) = 0 /\ Within(rx.got, given)
    BY <2>3, EmptySeq DEF Within
  <2>5. CASE length = RW!NoLength
    <3>1. RW!Headed = [rx EXCEPT !.at = "chunks"]
      BY <2>2, <2>5 DEF RW!Begin
    <3>2. /\ RW!Headed \in Decoders
          /\ RW!Headed.at = "chunks" /\ RW!Headed.left = 0 /\ RW!Headed.got = <<>>
      BY <3>1, <2>3 DEF Decoders
    <3> QED
      BY <2>1, <2>3, <2>4, <2>5, <3>2 DEF FramedBy, Ours
  <2>6. CASE length # RW!NoLength
    <3>0. length \in Nat
      BY <2>6 DEF Written
    <3>1. RW!Headed = [rx EXCEPT !.at = IF length = 0 THEN "done" ELSE "length",
                                 !.left = length]
      BY <2>2, <2>6 DEF RW!Begin
    <3>2. /\ RW!Headed \in Decoders
          /\ RW!Headed.at = IF length = 0 THEN "done" ELSE "length"
          /\ RW!Headed.left = length /\ RW!Headed.got = <<>>
      BY <3>1, <2>3, <3>0 DEF Decoders
    <3>3. Within(RW!Headed.got, given) /\ RW!Headed.got = given
          /\ Len(RW!Headed.got) = 0
      BY <2>3, <2>4, <3>2
    <3>4. FramedBy(RW!Headed)
      BY <2>6, <3>0, <3>2, <3>3 DEF FramedBy, Ours
    <3> QED
      BY <2>1, <2>6, <3>2, <3>4
  <2> QED
    BY <2>5, <2>6
<1> QED
  BY <1>1, <1>2

\* What a client makes of a chunk that is not the last one, or of one that is.
LEMMA Chunked ==
  ASSUME NEW x \in Decoders, x.at = "chunks", NEW b \in Bytes
  PROVE  /\ RW!Chunk(x, b) \in Decoders
         /\ RW!Chunk(x, b).at = IF b = <<>> THEN "done" ELSE "chunks"
         /\ RW!Chunk(x, b).left = x.left
         /\ RW!Chunk(x, b).got = x.got \o b
<1>1. x.got \o b \in Bytes
  BY ConcatProperties DEF Bytes, Decoders
<1> QED
  BY <1>1 DEF RW!Chunk, Decoders

\* What a client makes of bytes without a frame: the next it was promised.
LEMMA Unframed ==
  ASSUME NEW x \in Decoders, x.at = "length", NEW b \in Bytes
  PROVE  \E n \in 0..Len(b) :
           /\ n <= x.left /\ (n < Len(b) => n = x.left)
           /\ RW!Bytes(x, b) \in Decoders
           /\ RW!Bytes(x, b).at = IF n = x.left THEN "done" ELSE "length"
           /\ RW!Bytes(x, b).left = x.left - n
           /\ RW!Bytes(x, b).got = x.got \o SubSeq(b, 1, n)
<1> DEFINE n == IF Len(b) < x.left THEN Len(b) ELSE x.left
<1>0. x.left \in Nat /\ x.got \in Bytes /\ Len(b) \in Nat
  BY LenProperties DEF Decoders, Bytes
<1>1. n \in 0..Len(b) /\ n <= x.left /\ (n < Len(b) => n = x.left)
  BY <1>0
<1>2. RW!Bytes(x, b) = [x EXCEPT !.got = @ \o SubSeq(b, 1, n), !.left = @ - n,
                                 !.at = IF n = x.left THEN "done" ELSE "length"]
  BY DEF RW!Bytes
<1> HIDE DEF n
<1>3. x.got \o SubSeq(b, 1, n) \in Bytes
  BY <1>0, <1>1, Extended
<1>4. x.left - n \in Nat
  BY <1>0, <1>1
<1>5. /\ RW!Bytes(x, b) \in Decoders
      /\ RW!Bytes(x, b).at = IF n = x.left THEN "done" ELSE "length"
      /\ RW!Bytes(x, b).left = x.left - n
      /\ RW!Bytes(x, b).got = x.got \o SubSeq(b, 1, n)
  BY <1>2, <1>3, <1>4 DEF Decoders
<1> QED
  BY <1>1, <1>5

\* WriteHeader: the frame begins.
LEMMA HeadStep ==
  ASSUME Written, Framed, ~ishijacked, copying # "sent", copying' # "sent",
         RW!WriteHeader, UNCHANGED <<given, emptyWrite, whole>>
  PROVE  /\ wroteheaders' = TRUE /\ chunking' \in BOOLEAN
         /\ UNCHANGED <<ishijacked, length>> /\ rx' \in Decoders /\ Framed'
<1>1. RW!Headers /\ rx' = RW!Headed /\ UNCHANGED <<ishijacked, length>>
  BY Zenon DEF RW!WriteHeader
<1>2. /\ wroteheaders' = TRUE
      /\ chunking' \in BOOLEAN /\ (chunking' <=> length = RW!NoLength)
      /\ rx' \in Decoders /\ FramedBy(rx')
  BY <1>1, HeadersOut
<1>3. FramedBy(rx)'
  BY <1>1, <1>2 DEF FramedBy, Ours, Within
<1> QED
  BY <1>1, <1>2, <1>3, Zenon DEF Framed, RW!NoLength

\* Write: what is given grows, and what the client has of it with it.
LEMMA WriteStep ==
  ASSUME Written, Framed, ~ishijacked, copying # "sent", copying' # "sent",
         NEW b \in Bytes, RW!Write(b), given' = given \o b,
         emptyWrite' <=> emptyWrite \/ b = <<>>
  PROVE  /\ wroteheaders' = TRUE /\ chunking' \in BOOLEAN
         /\ UNCHANGED <<ishijacked, length>> /\ rx' \in Decoders /\ given' \in Bytes
         /\ Framed'
<1> DEFINE x == RW!Headed
<1>1. RW!Headers /\ UNCHANGED <<ishijacked, length>>
  BY Zenon DEF RW!Write
<1>2. /\ wroteheaders' = TRUE
      /\ chunking' \in BOOLEAN /\ (chunking' <=> length = RW!NoLength)
      /\ x \in Decoders /\ FramedBy(x)
  BY <1>1, HeadersOut
<1>3. rx' = IF length = RW!NoLength THEN RW!Chunk(x, b) ELSE RW!Bytes(x, b)
  <2>1. rx' = IF ~ishijacked /\ chunking' THEN RW!Chunk(x, b) ELSE RW!Bytes(x, b)
    BY Zenon DEF RW!Write
  <2> QED
    BY <1>2, <2>1, Zenon
<1> HIDE DEF x
<1>4. given \in Bytes /\ (length \in Nat \/ length = RW!NoLength)
  BY DEF Written
<1>5. given' \in Bytes /\ Len(given') = Len(given) + Len(b) /\ Len(given) \in Nat
      /\ Len(b) \in Nat
  BY <1>4, ConcatProperties, LenProperties DEF Bytes
<1>6. x.got \in Bytes /\ x.left \in Nat
      /\ x.at \in {"head", "chunks", "length", "done"}
  BY <1>2 DEF Decoders
<1>7. Within(x.got, given) /\ Within(x.got, given')
  <2>1. Within(x.got, given)
    BY <1>2, Zenon DEF FramedBy, Ours
  <2> QED
    BY <1>4, <1>6, <2>1, WithinConcat
<1>8. CASE length = RW!NoLength
  <2>0. /\ x.left = 0 /\ x.at \in {"chunks", "done"}
        /\ x.at = "done" => emptyWrite
        /\ x.at = "chunks" \/ ~emptyWrite => x.got = given
    BY <1>2, <1>8 DEF FramedBy, Ours
  <2>1. ASSUME x.at = "chunks" PROVE rx' \in Decoders /\ FramedBy(rx)'
    <3>0. rx' = RW!Chunk(x, b) /\ x.got = given
      BY <1>3, <1>8, <2>0, <2>1, Zenon
    <3>a. /\ rx' \in Decoders /\ rx'.at = IF b = <<>> THEN "done" ELSE "chunks"
          /\ rx'.left = x.left /\ rx'.got = x.got \o b
      BY <1>2, <2>1, <3>0, Chunked, Zenon
    <3>1. /\ rx' \in Decoders /\ rx'.at = IF b = <<>> THEN "done" ELSE "chunks"
          /\ rx'.left = 0 /\ rx'.got = given'
      BY <2>0, <3>0, <3>a, Zenon
    <3>2. Within(rx'.got, given')
      BY <1>5, <3>1 DEF Within
    <3> QED
      BY <1>1, <1>8, <3>1, <3>2 DEF FramedBy, Ours, Within, RW!NoLength
  <2>2. ASSUME x.at = "done" PROVE rx' \in Decoders /\ FramedBy(rx)'
    <3>1. rx' = x
      BY <1>3, <1>8, <2>2 DEF RW!Chunk
    <3> QED
      BY <1>1, <1>2, <1>7, <1>8, <2>0, <2>2, <3>1 DEF FramedBy, Ours, Within, RW!NoLength
  <2>a. rx' \in Decoders /\ FramedBy(rx)'
    BY <2>0, <2>1, <2>2
  <2> QED
    BY <1>1, <1>2, <1>5, <2>a, Zenon DEF Framed, RW!NoLength
<1>9. CASE length # RW!NoLength
  <2>0. /\ x.at \in {"length", "done"} /\ (x.at = "done" <=> x.left = 0)
        /\ Len(x.got) + x.left = length
        /\ x.left > 0 => x.got = given
    BY <1>2, <1>9, Zenon DEF FramedBy, Ours
  <2>1. ASSUME x.at = "length" PROVE rx' \in Decoders /\ FramedBy(rx)'
    <3>1. x.got = given
      BY <1>6, <2>0, <2>1
    <3>2. PICK n \in 0..Len(b) :
            /\ n <= x.left /\ (n < Len(b) => n = x.left)
            /\ RW!Bytes(x, b) \in Decoders
            /\ RW!Bytes(x, b).at = IF n = x.left THEN "done" ELSE "length"
            /\ RW!Bytes(x, b).left = x.left - n
            /\ RW!Bytes(x, b).got = x.got \o SubSeq(b, 1, n)
      BY <1>2, <2>1, Unframed
    <3>3. /\ rx' \in Decoders /\ rx'.at = IF n = x.left THEN "done" ELSE "length"
          /\ rx'.left = x.left - n /\ rx'.got = given \o SubSeq(b, 1, n)
      BY <1>3, <1>9, <3>1, <3>2
    <3>a. /\ Len(rx'.got) = Len(given) + n /\ Within(rx'.got, given \o b)
          /\ n = Len(b) => rx'.got = given \o b
      <4> DEFINE d == SubSeq(b, 1, n)
      <4>1. /\ Len(given \o d) = Len(given) + n /\ Within(given \o d, given \o b)
            /\ n = Len(b) => given \o d = given \o b
        BY <1>4, Extended, Zenon
      <4> QED
        BY <3>3, <4>1, Zenon
    <3>4. /\ Len(rx'.got) = Len(given) + n /\ Within(rx'.got, given')
          /\ n = Len(b) => rx'.got = given'
      BY <3>a, Zenon
    <3>b. /\ rx'.at \in {"length", "done"} /\ (rx'.at = "done" <=> rx'.left = 0)
          /\ Len(rx'.got) + rx'.left = length
          /\ rx'.left > 0 => n = Len(b)
      <4>1. /\ Len(given) \in Nat /\ Len(b) \in Nat /\ x.left \in Nat /\ n \in 0..Len(b)
            /\ n <= x.left /\ (n < Len(b) => n = x.left)
        BY <1>5, <1>6, <3>2
      <4>2. rx'.left = x.left - n /\ rx'.at = (IF n = x.left THEN "done" ELSE "length")
        BY <3>3
      <4>3. Len(rx'.got) = Len(given) + n /\ Len(given) + x.left = length
        BY <2>0, <3>1, <3>4
      <4>4. rx'.left = 0 <=> n = x.left
        BY <4>1, <4>2
      <4>5. rx'.at \in {"length", "done"} /\ (rx'.at = "done" <=> rx'.left = 0)
        BY <4>2, <4>4
      <4>6. Len(rx'.got) + rx'.left = length
        BY <4>1, <4>2, <4>3
      <4>7. rx'.left > 0 => n = Len(b)
        BY <4>1, <4>2
      <4> QED
        BY <4>5, <4>6, <4>7
    <3>5. FramedBy(rx)'
      BY <1>1, <1>9, <3>4, <3>b DEF FramedBy, Ours, Within, RW!NoLength
    <3> QED
      BY <3>3, <3>5
  <2>2. ASSUME x.at = "done" PROVE rx' \in Decoders /\ FramedBy(rx)'
    <3>1. rx' = x
      BY <1>3, <1>9, <2>2 DEF RW!Bytes
    <3> QED
      BY <1>1, <1>2, <1>7, <1>9, <2>0, <2>2, <3>1 DEF FramedBy, Ours, Within, RW!NoLength
  <2>a. rx' \in Decoders /\ FramedBy(rx)'
    BY <2>0, <2>1, <2>2
  <2> QED
    BY <1>1, <1>2, <1>5, <2>a, Zenon DEF Framed, RW!NoLength
<1> QED
  BY <1>8, <1>9

\* Flush: the last chunk, or a line end that may be taken for the body.
LEMMA FlushStep ==
  ASSUME Written, Framed, ~ishijacked, copying # "sent", copying' = "sent",
         RW!Flush, whole' = given, UNCHANGED <<given, emptyWrite>>
  PROVE  /\ wroteheaders' = TRUE /\ chunking' \in BOOLEAN
         /\ UNCHANGED <<ishijacked, length>> /\ rx' \in Decoders /\ Framed'
<1> DEFINE x == RW!Headed
           b == <<0, 0>>
<1>1. RW!Headers /\ UNCHANGED <<ishijacked, length>>
  BY Zenon DEF RW!Flush
<1>2. /\ wroteheaders' = TRUE
      /\ chunking' \in BOOLEAN /\ (chunking' <=> length = RW!NoLength)
      /\ x \in Decoders /\ FramedBy(x)
  BY <1>1, HeadersOut
<1>3. rx' = IF length = RW!NoLength THEN RW!Chunk(x, <<>>) ELSE RW!Bytes(x, b)
  <2>1. rx' = IF chunking' THEN RW!Chunk(x, <<>>) ELSE RW!Bytes(x, b)
    BY Zenon DEF RW!Flush, RW!LineEnd
  <2> QED
    BY <1>2, <2>1, Zenon
<1>a. b \in Bytes /\ Len(b) = 2 /\ <<>> \in Bytes
  BY DEF Bytes
<1> HIDE DEF x, b
<1>4. given \in Bytes /\ (length \in Nat \/ length = RW!NoLength) /\ Len(given) \in Nat
  BY LenProperties DEF Written, Bytes
<1>6. x.got \in Bytes /\ x.left \in Nat
      /\ x.at \in {"head", "chunks", "length", "done"}
  BY <1>2 DEF Decoders
<1>7. Within(x.got, given)
  BY <1>2, Zenon DEF FramedBy, Ours
<1>8. CASE length = RW!NoLength
  <2>0. /\ x.left = 0 /\ x.at \in {"chunks", "done"}
        /\ x.at = "done" => emptyWrite
        /\ x.at = "chunks" \/ ~emptyWrite => x.got = given
    BY <1>2, <1>8 DEF FramedBy, Ours
  <2>1. ASSUME x.at = "chunks" PROVE rx' \in Decoders /\ FramedBy(rx)'
    <3>0. given \o <<>> = given
      BY <1>4, ConcatEmptySeq DEF Bytes
    <3>1. /\ rx' \in Decoders /\ rx'.at = "done"
          /\ rx'.left = 0 /\ rx'.got = given
      BY <1>2, <1>3, <1>8, <1>a, <2>0, <2>1, <3>0, Chunked
    <3>2. Within(rx'.got, given)
      BY <1>4, <3>1 DEF Within
    <3> QED
      BY <1>1, <1>8, <3>1, <3>2 DEF FramedBy, Ours, Within, RW!NoLength
  <2>2. ASSUME x.at = "done" PROVE rx' \in Decoders /\ FramedBy(rx)'
    <3>1. rx' = x
      BY <1>3, <1>8, <2>2 DEF RW!Chunk
    <3> QED
      BY <1>1, <1>2, <1>7, <1>8, <2>0, <2>2, <3>1 DEF FramedBy, Ours, Within, RW!NoLength
  <2>a. rx' \in Decoders /\ FramedBy(rx)'
    BY <2>0, <2>1, <2>2
  <2> QED
    BY <1>1, <1>2, <2>a, Zenon DEF Framed, RW!NoLength
<1>9. CASE length # RW!NoLength
  <2>0. /\ x.at \in {"length", "done"} /\ (x.at = "done" <=> x.left = 0)
        /\ Len(x.got) + x.left = length
        /\ x.left > 0 => x.got = given
    BY <1>2, <1>9, Zenon DEF FramedBy, Ours
  <2>1. ASSUME x.at = "length" PROVE rx' \in Decoders /\ FramedBy(rx)'
    <3>1. x.got = given /\ length > Len(given)
      BY <1>4, <1>6, <2>0, <2>1
    <3>2. PICK n \in 0..Len(b) :
            /\ n <= x.left /\ (n < Len(b) => n = x.left)
            /\ RW!Bytes(x, b) \in Decoders
            /\ RW!Bytes(x, b).at = IF n = x.left THEN "done" ELSE "length"
            /\ RW!Bytes(x, b).left = x.left - n
            /\ RW!Bytes(x, b).got = x.got \o SubSeq(b, 1, n)
      BY <1>2, <1>a, <2>1, Unframed
    <3>3. /\ rx' \in Decoders /\ rx'.at = IF n = x.left THEN "done" ELSE "length"
          /\ rx'.left = x.left - n /\ rx'.got = given \o SubSeq(b, 1, n)
      BY <1>3, <1>9, <3>1, <3>2
    <3>4. Len(rx'.got) = Len(given) + n /\ Within(given, rx'.got)
      BY <1>4, <1>a, <3>3, Extended
    <3>b. /\ rx'.at \in {"length", "done"} /\ (rx'.at = "done" <=> rx'.left = 0)
          /\ Len(rx'.got) + rx'.left = length
      BY <1>4, <1>6, <1>a, <2>0, <3>1, <3>2, <3>3, <3>4
    <3>5. FramedBy(rx)'
      BY <1>1, <1>9, <3>1, <3>4, <3>b DEF FramedBy, Ours, Within, RW!NoLength
    <3> QED
      BY <3>3, <3>5
  <2>2. ASSUME x.at = "done" PROVE rx' \in Decoders /\ FramedBy(rx)'
    <3>1. rx' = x
      BY <1>3, <1>9, <2>2 DEF RW!Bytes
    <3> QED
      BY <1>1, <1>2, <1>7, <1>9, <2>0, <2>2, <3>1 DEF FramedBy, Ours, Within, RW!NoLength
  <2>a. rx' \in Decoders /\ FramedBy(rx)'
    BY <2>0, <2>1, <2>2
  <2> QED
    BY <1>1, <1>2, <2>a, Zenon DEF Framed, RW!NoLength
<1> QED
  BY <1>8, <1>9

\* After a Flush: what is written to a body that has ended is not of it, and what
\* is written to one that was promised more bytes follows the line end.
LEMMA AfterFlush ==
  ASSUME Written, Framed, wroteheaders, copying = "sent", copying' = "sent",
         UNCHANGED <<length, whole, emptyWrite, wroteheaders, chunking>>,
         NEW b \in Bytes,
         rx' = IF chunking THEN RW!Chunk(rx, b) ELSE RW!Bytes(rx, b)
  PROVE  rx' \in Decoders /\ Framed'
<1>0. Ours = whole /\ Ours' = whole /\ whole \in Bytes
  BY DEF Ours, Written
<1>1. /\ rx \in Decoders /\ FramedBy(rx) /\ (chunking <=> length = RW!NoLength)
      /\ length \in Nat \cup {RW!NoLength}
  BY DEF Written, Framed
<1>2. ASSUME rx.at = "done" PROVE rx' \in Decoders /\ FramedBy(rx)'
  <2>1. rx' = rx
    BY <1>2 DEF RW!Chunk, RW!Bytes
  <2> QED
    BY <1>0, <1>1, <2>1 DEF FramedBy, RW!NoLength
<1>3. ASSUME rx.at # "done" PROVE rx' \in Decoders /\ FramedBy(rx)'
  <2>1. /\ length \in Nat /\ length # RW!NoLength /\ ~chunking
        /\ rx.at = "length" /\ rx.left # 0 /\ Len(rx.got) + rx.left = length
        /\ Within(whole, rx.got) /\ length > Len(whole)
    BY <1>0, <1>1, <1>3, Zenon DEF FramedBy
  <2>2. rx' = RW!Bytes(rx, b)
    BY <2>1
  <2>3. PICK n \in 0..Len(b) :
          /\ n <= rx.left /\ (n < Len(b) => n = rx.left)
          /\ RW!Bytes(rx, b) \in Decoders
          /\ RW!Bytes(rx, b).at = IF n = rx.left THEN "done" ELSE "length"
          /\ RW!Bytes(rx, b).left = rx.left - n
          /\ RW!Bytes(rx, b).got = rx.got \o SubSeq(b, 1, n)
    BY <1>1, <2>1, Unframed
  <2>4. /\ rx' \in Decoders /\ rx'.at = IF n = rx.left THEN "done" ELSE "length"
        /\ rx'.left = rx.left - n /\ rx'.got = rx.got \o SubSeq(b, 1, n)
    BY <2>2, <2>3
  <2>5. rx.got \in Bytes /\ rx.left \in Nat /\ Len(rx.got) \in Nat /\ Len(b) \in Nat
    BY <1>1, LenProperties DEF Decoders, Bytes
  <2>6. rx'.got \in Bytes /\ Len(rx'.got) = Len(rx.got) + n /\ Within(rx.got, rx'.got)
    <3> DEFINE t == rx.got
               d == t \o SubSeq(b, 1, n)
    <3>1. d \in Bytes /\ Len(d) = Len(t) + n /\ Within(t, d)
      <4> HIDE DEF t
      <4>1. t \in Bytes
        BY <2>5 DEF t
      <4> QED
        BY <4>1, Extended
    <3>2. rx'.got = d
      BY <2>4
    <3> HIDE DEF d
    <3> QED
      BY <3>1, <3>2
  <2>7. Within(whole, rx'.got)
    BY <1>0, <2>1, <2>5, <2>6, WithinTrans
  <2>8. /\ rx'.at \in {"length", "done"} /\ (rx'.at = "done" <=> rx'.left = 0)
        /\ Len(rx'.got) + rx'.left = length
    <3>1. rx'.left = 0 <=> n = rx.left
      BY <2>3, <2>4, <2>5
    <3>2. rx'.at = IF n = rx.left THEN "done" ELSE "length"
      BY <2>4
    <3>3. rx'.left = rx.left - n /\ Len(rx'.got) = Len(rx.got) + n
          /\ Len(rx.got) + rx.left = length /\ n \in Nat
      BY <2>1, <2>4, <2>5, <2>6
    <3> QED
      BY <2>5, <3>1, <3>2, <3>3
  <2>9. FramedBy(rx)'
    BY <1>0, <2>1, <2>7, <2>8 DEF FramedBy, Within, RW!NoLength
  <2> QED
    BY <2>4, <2>9
<1> QED
  BY <1>1, <1>2, <1>3, Zenon DEF Framed, RW!NoLength

\* Where a handler's verdict, the end of a chain or of a tunnel leads.
LEMMA HandledMoves ==
  ASSUME TypeOK, Handled
  PROVE  /\ UNCHANGED <<method, failed, answerVars, dialVars, readVars>>
         /\ \/ pc = "connect" /\ pc' \in {"connect", "end", "panic"}
               /\ reply' \in {reply, "502_Rejected"}
            \/ pc \in {"request", "response"} /\ reply' = reply
               /\ pc' \in {"request", "response", "done", "panic"}
            \/ pc \in {"request", "response"} /\ pc' = "copy" /\ reply' \in Answers
            \/ pc = "done" /\ pc' \in {"done", "end", "panic"} /\ reply' = reply
            \/ pc = "tunnel" /\ pc' = "end" /\ reply' = reply
<1> USE DEF ctxVars, connVars, outVars, SayNothing, Say, Goto, NextHandler
<1>0. UNCHANGED <<answerVars, dialVars, readVars>>
  BY DEF Handled
<1>1. ASSUME NEW v \in Nexts, connectHandler(v)
      PROVE  /\ UNCHANGED <<method, failed>>
             /\ pc = "connect" /\ pc' \in {"connect", "end", "panic"}
             /\ reply' \in {reply, "502_Rejected"}
  BY <1>1 DEF connectHandler, RejectConnect, CloseWith
<1>2. ASSUME NEW v \in Nexts, requestHandler(v)
      PROVE  /\ UNCHANGED <<method, failed>> /\ pc = "request"
             /\ \/ reply' = reply /\ pc' \in {"request", "response", "done", "panic"}
                \/ pc' = "copy" /\ reply' \in Answers
  <2>1. resp' \in {resp, "own"} \/ resp' = "own"
    BY <1>2 DEF requestHandler, HandlerWrites
  <2>2. resp' \in {"none", "own", "upstream"}
    BY <2>1 DEF TypeOK
  <2> QED
    BY <1>2, <2>2 DEF requestHandler, ForwardResponse, DispatchDoneHandlers, Answers, Pages
<1>3. ASSUME NEW v \in Nexts, responseHandler(v)
      PROVE  /\ UNCHANGED <<method, failed>> /\ pc = "response" /\ reply' = reply
             /\ pc' \in {"request", "response", "done", "panic"}
  BY <1>3 DEF responseHandler, DispatchDoneHandlers
<1>4. ASSUME NEW v \in Nexts, doneHandler(v)
      PROVE  /\ UNCHANGED <<method, failed>> /\ pc = "done" /\ reply' = reply
             /\ pc' \in {"done", "end", "panic"}
  BY <1>4 DEF doneHandler
<1>5. ASSUME ResponseHandled
      PROVE  /\ UNCHANGED <<method, failed>> /\ pc = "response" /\ pc' = "copy"
             /\ reply' \in Answers
  BY <1>5 DEF ResponseHandled, ForwardResponse, Answers, Pages, TypeOK
<1>6. ASSUME DoneHandled
      PROVE  /\ UNCHANGED <<method, failed>> /\ pc = "done" /\ pc' = "end" /\ reply' = reply
  BY <1>6 DEF DoneHandled
<1>7. ASSUME TunnelEnds
      PROVE  /\ UNCHANGED <<method, failed>> /\ pc = "tunnel" /\ pc' = "end" /\ reply' = reply
  BY <1>7 DEF TunnelEnds
<1>8. \/ \E v \in Nexts : connectHandler(v) \/ requestHandler(v)
                          \/ responseHandler(v) \/ doneHandler(v)
      \/ ResponseHandled \/ DoneHandled \/ TunnelEnds
  BY DEF Handled
<1> QED
  BY <1>0, <1>1, <1>2, <1>3, <1>4, <1>5, <1>6, <1>7, <1>8

\* The writer is at work in HandleHTTP or in ForwardResponse, and never in both.
LEMMA PlacesStep ==
  ASSUME TypeOK, Undecided, Places, Written, ConnNext
  PROVE  Places'
<1> USE DEF ctxVars, connVars, outVars, vars, answerVars, dialVars, readVars, writerVars,
            readerVars, copyVars, socketVars, tunnelVars,
            SayNothing, Say, Goto, CloseWith, Answers, Pages
<1>1. CASE Accepted
  BY <1>1 DEF Accepted, HandleHTTPConnection, RW!Hijack, RW!SetLength, Places, Undecided
<1>2. CASE AcceptedTLS
  BY <1>2 DEF AcceptedTLS, ListenAndServeTLS, RW!Hijack, Places, Undecided
<1>3. CASE Dropped
  BY <1>3 DEF Dropped, Drop, Places, Undecided
<1>4. CASE ReadBody \/ DialStep \/ ToTarget \/ ToClient \/ SetNewBodyLength \/ UseBody
  BY <1>4 DEF ReadBody, DialStep, ToTarget, ToClient, SetNewBodyLength, UseBody, Places
<1>5. CASE ApiSetLength \/ ApiWriteHeader
  BY <1>5 DEF ApiSetLength, ApiWriteHeader, RW!SetLength, RW!WriteHeader, RW!Headers,
              Places, Undecided
<1>6. CASE ApiWrite
  BY <1>6 DEF ApiWrite, RW!Write, RW!Headers, Places, Undecided
<1>7. CASE ApiFlush
  BY <1>7 DEF ApiFlush, RW!Flush, RW!Headers, Places, Undecided
<1>8. CASE Served
  BY <1>8 DEF Served, HandleHTTP, Places, Undecided
<1>9. CASE ConnectForwarded
  BY <1>9 DEF ConnectForwarded, ForwardConnect, Places, Undecided
<1>10. CASE RequestForwarded
  BY <1>10 DEF RequestForwarded, ForwardRequest, Places, Undecided
<1>11. CASE ForwardFails
  BY <1>11 DEF ForwardFails, ForwardConnectFails, ForwardRequestFails, Places, Undecided
<1>12. CASE Fetched
  BY <1>12 DEF Fetched, ForwardHTTPRequest, Places, Undecided
<1>13. CASE Handled
  BY <1>13, HandledMoves DEF Places, Undecided
<1>14. CASE SetHeaders
  BY <1>14 DEF SetHeaders, RW!SetLength, Places
<1>15. CASE WriteHead
  BY <1>15 DEF WriteHead, RW!WriteHeader, RW!Headers, Places
<1>16. CASE Copy
  BY <1>16 DEF Copy, RW!Write, RW!Headers, Places
<1>17. CASE CopyEnds
  BY <1>17 DEF CopyEnds, Places
<1>18. CASE CopyOwn
  BY <1>18 DEF CopyOwn, RW!Write, RW!Headers, Places
<1>19. CASE Flushed
  BY <1>19 DEF Flushed, RW!Flush, RW!Headers, Places
<1>20. CASE Closed
  BY <1>20 DEF Closed, ResponseForwarded, Places
<1> QED
  BY <1>1, <1>2, <1>3, <1>4, <1>5, <1>6, <1>7, <1>8, <1>9, <1>10, <1>11, <1>12,
     <1>13, <1>14, <1>15, <1>16, <1>17, <1>18, <1>19, <1>20 DEF ConnNext

\* What a read of the body delivers: the bytes from Cur on.
LEMMA ReadGives ==
  ASSUME RP!Inv, RR!Read(SourceLen)
  PROVE  /\ Cur \in Nat /\ made' = made
         /\ \E n \in Nat : /\ out' = [i \in 1..n |-> Cur + i] /\ Cur' = Cur + n
                           /\ ~made => taken' = taken + n
<1> USE ReaderAssumption DEF RP!Inv, Cur
<1>0. Cur \in Nat
  BY DEF Cur
<1>1. CASE RR!ReadBuffered(SourceLen)
  <2> DEFINE n == RR!Smaller(SourceLen, w - r)
  <2>1. n \in Nat /\ n <= w - r
    BY <1>1 DEF RR!ReadBuffered, RR!Smaller
  <2>2. made /\ ~overflow /\ made' = made /\ overflow' = overflow
    BY <1>1, Zenon DEF RR!ReadBuffered
  <2>3. r' = r + n /\ w' = w /\ taken' = taken /\ out' = [i \in 1..n |-> buf[r + i]]
    BY <1>1 DEF RR!ReadBuffered
  <2> HIDE DEF n
  <2>4. \A i \in 1..n : buf[r + i] = Cur + i
    BY <2>1, <2>2
  <2>5. out' = [i \in 1..n |-> Cur + i]
    BY <2>3, <2>4
  <2>6. Cur' = Cur + n
    BY <2>1, <2>2, <2>3
  <2> QED
    BY <1>0, <2>1, <2>2, <2>5, <2>6
<1>2. ASSUME NEW n \in 0..SourceLen, RR!ReadDirect(n)
      PROVE  /\ made' = made /\ out' = [i \in 1..n |-> Cur + i] /\ Cur' = Cur + n
             /\ ~made => taken' = taken + n
  BY <1>2 DEF RR!ReadDirect, RR!Source
<1>3. ASSUME NEW n \in 0..SourceLen, RR!ReadSource(n)
      PROVE  /\ made' = made /\ made /\ out' = [i \in 1..n |-> Cur + i]
             /\ Cur' = Cur + n
  <2> DEFINE bn == RR!Smaller(n, Size - w)
  <2>1. bn \in 0..n
    BY DEF RR!Smaller
  <2>2. made' = made /\ made /\ ~overflow /\ r = w
    BY <1>3 DEF RR!ReadSource
  <2>3. /\ taken' = taken + n /\ out' = [i \in 1..n |-> taken + i]
        /\ w' = w + bn /\ r' = w + n
    BY <1>3 DEF RR!ReadSource, RR!Source
  <2>4. ~overflow' => bn = n
    <3>1. overflow' = IF bn < n THEN TRUE ELSE overflow
      BY <1>3 DEF RR!ReadSource
    <3> QED
      BY <2>1, <3>1
  <2> HIDE DEF bn
  <2>5. Cur = taken
    BY <2>2
  <2>6. Cur' = taken'
    BY <2>1, <2>2, <2>3, <2>4
  <2> QED
    BY <2>2, <2>3, <2>5, <2>6
<1>4. RR!ReadBuffered(SourceLen)
      \/ \E n \in 0..SourceLen : RR!ReadDirect(n) \/ RR!ReadSource(n)
  BY DEF RR!Read
<1>5. 0..SourceLen \subseteq Nat
  OBVIOUS
<1> HIDE DEF RP!Inv, Cur
<1> QED
  BY <1>0, <1>1, <1>2, <1>3, <1>4, <1>5

\* The bytes that a read delivers are numbers.
LEMMA Delivered ==
  ASSUME NEW c \in Nat, NEW n \in Nat
  PROVE  LET s == [i \in 1..n |-> c + i] IN s \in Bytes /\ Len(s) = n
<1> DEFINE s == [i \in 1..n |-> c + i]
<1>1. s \in [1..n -> Nat]
  OBVIOUS
<1> HIDE DEF s
<1>2. s \in Seq(Nat) /\ Len(s) = n
  BY <1>1
<1> QED
  BY <1>2 DEF s, Bytes

\* A step that does not touch the writer, nor send the answer.
LEMMA FramedKept ==
  ASSUME Written, Framed, UNCHANGED <<writerVars, given, emptyWrite, whole>>,
         copying' \in {"no", "head", "body", "flush", "sent"},
         copying' = "sent" <=> copying = "sent", copyFailed' \in BOOLEAN
  PROVE  Written' /\ Framed'
<1> USE DEF writerVars, RW!NoLength
<1>1. Written'
  BY Zenon DEF Written
<1>2. FramedBy(rx) => FramedBy(rx)'
  BY DEF FramedBy, Ours, Within
<1> QED
  BY <1>1, <1>2, Zenon DEF Framed

\* Before the header is out the writer's flags and its Content-Length may change.
LEMMA FramedUnbegun ==
  ASSUME Written, Framed, ~wroteheaders,
         UNCHANGED <<wroteheaders, chunking, rx, given, emptyWrite, whole, copyFailed>>,
         ishijacked' \in BOOLEAN, length' \in Nat \cup {RW!NoLength},
         copying' \in {"no", "head", "body", "flush", "sent"}
  PROVE  Written' /\ Framed'
<1> USE DEF RW!NoLength
<1>1. Written'
  BY Zenon DEF Written
<1> QED
  BY <1>1, Zenon DEF Framed

\* Whatever a step does, the client has of the answer what it should.
LEMMA FramedStep ==
  ASSUME TypeOK, Undecided, Places, Written, Framed, Content, Promised, RP!Inv, ConnNext
  PROVE  Written' /\ Framed'
<1> USE ConnectionAssumption, ReaderAssumption
    DEF vars, answerVars, dialVars, readVars, writerVars, readerVars, copyVars,
        socketVars, tunnelVars
<1>a. /\ wroteheaders \in BOOLEAN /\ chunking \in BOOLEAN /\ ishijacked \in BOOLEAN
      /\ copyFailed \in BOOLEAN /\ emptyWrite \in BOOLEAN
      /\ copying \in {"no", "head", "body", "flush", "sent"}
      /\ length \in Nat \cup {RW!NoLength} /\ given \in Bytes /\ whole \in Bytes
      /\ rx \in Decoders
  BY DEF Written
<1>1. CASE Accepted
  <2>1. pc = "accept" /\ ~wroteheaders
    BY <1>1 DEF Accepted, HandleHTTPConnection, Places
  <2>2. UNCHANGED <<wroteheaders, chunking, rx, copyVars>>
    BY <1>1, Zenon DEF Accepted, RW!Hijack, RW!SetLength
  <2>3. ishijacked' \in BOOLEAN /\ length' \in Nat \cup {RW!NoLength}
    <3>1. CASE RW!Hijack
      BY <1>a, <3>1, Zenon DEF RW!Hijack
    <3>2. ASSUME NEW n \in {RW!NoLength, ReqLen - 1}, RW!SetLength(n)
          PROVE  ishijacked' \in BOOLEAN /\ length' \in Nat \cup {RW!NoLength}
      <4>1. n \in Nat \cup {RW!NoLength}
        BY <3>2
      <4> QED
        BY <1>a, <3>2, <4>1, Zenon DEF RW!SetLength
    <3> QED
      BY <1>1, <3>1, <3>2, Zenon DEF Accepted
  <2> QED
    BY <1>a, <2>1, <2>2, <2>3, FramedUnbegun, Zenon
<1>2. CASE AcceptedTLS
  <2>1. pc = "accept" /\ ~wroteheaders
    BY <1>2 DEF AcceptedTLS, ListenAndServeTLS, Places
  <2>2. UNCHANGED <<wroteheaders, chunking, rx, length, copyVars>> /\ ishijacked' \in BOOLEAN
    BY <1>2, Zenon DEF AcceptedTLS, RW!Hijack
  <2> QED
    BY <1>a, <2>1, <2>2, FramedUnbegun, Zenon
<1>3. CASE \/ Dropped \/ ReadBody \/ Served \/ DialStep \/ ConnectForwarded
           \/ RequestForwarded \/ ForwardFails \/ ToTarget \/ ToClient \/ Handled \/ Closed
  <2>1. UNCHANGED <<writerVars, copying, copyFailed, given, emptyWrite, whole>>
    <3>1. CASE Dropped \/ ReadBody \/ Served
      BY <3>1, Zenon DEF Dropped, ReadBody, Served
    <3>2. CASE ConnectForwarded \/ RequestForwarded \/ ForwardFails
      BY <3>2, Zenon DEF ConnectForwarded, RequestForwarded, ForwardFails
    <3>3. CASE DialStep \/ ToTarget \/ ToClient \/ Handled \/ Closed
      BY <3>3, Zenon DEF DialStep, ToTarget, ToClient, Handled, Closed
    <3> QED
      BY <1>3, <3>1, <3>2, <3>3
  <2> QED
    BY <1>a, <2>1, FramedKept, Zenon
<1>4. CASE SetNewBodyLength \/ Fetched
  <2>1. UNCHANGED <<writerVars, copying, copyFailed, given, emptyWrite, whole>>
    BY <1>4, Zenon DEF SetNewBodyLength, Fetched
  <2> QED
    BY <1>a, <2>1, FramedKept, Zenon
<1>5. CASE UseBody
  <2>1. UNCHANGED <<writerVars, copying, copyFailed, given, emptyWrite, whole>>
    BY <1>5, Zenon DEF UseBody
  <2> QED
    BY <1>a, <2>1, FramedKept, Zenon
<1>6. CASE ApiSetLength
  <2>1. ~wroteheaders /\ UNCHANGED <<wroteheaders, chunking, ishijacked, rx, copyVars>>
    BY <1>6, Zenon DEF ApiSetLength, RW!SetLength
  <2>2. length' \in Nat \cup {RW!NoLength}
    BY <1>6 DEF ApiSetLength, RW!SetLength
  <2> QED
    BY <1>a, <2>1, <2>2, FramedUnbegun, Zenon
<1>b. ASSUME pc = "api"
      PROVE  ~ishijacked /\ copying \in {"no", "sent"} /\ (copying = "sent" => wroteheaders)
  BY <1>b DEF Places, Written
<1>7. CASE ApiWrite
  <2>1. pc = "api" /\ UNCHANGED <<copying, copyFailed, whole>>
    BY <1>7, Zenon DEF ApiWrite
  <2>2. PICK b \in {<<>>, <<ApiByte(Len(given))>>} :
          /\ RW!Write(b) /\ given' = given \o b
          /\ emptyWrite' = (emptyWrite \/ (b = <<>> /\ copying = "no"))
    BY <1>7, Zenon DEF ApiWrite
  <2>3. b \in Bytes
    <3>1. Len(given) \in Nat
      BY <1>a, LenProperties DEF Bytes
    <3>2. ApiByte(Len(given)) \in Nat
      BY <3>1 DEF ApiByte
    <3>3. <<>> \in Seq(Nat) /\ <<ApiByte(Len(given))>> \in Seq(Nat)
      BY <3>2
    <3> QED
      BY <3>3, Zenon DEF Bytes
  <2>4. emptyWrite' \in BOOLEAN /\ (copying = "no" => (emptyWrite' <=> emptyWrite \/ b = <<>>))
        /\ (copying # "no" => emptyWrite' = emptyWrite)
    BY <1>a, <2>2, Zenon
  <2>5. given' \in Bytes
    BY <1>a, <2>2, <2>3, ConcatProperties DEF Bytes
  <2>6. CASE copying = "no"
    <3>1. /\ wroteheaders' = TRUE /\ chunking' \in BOOLEAN
          /\ UNCHANGED <<ishijacked, length>> /\ rx' \in Decoders /\ Framed'
      BY <1>b, <2>1, <2>2, <2>3, <2>4, <2>6, WriteStep
    <3> QED
      BY <1>a, <2>1, <2>4, <2>5, <3>1, Zenon DEF Written, RW!NoLength
  <2>7. CASE copying = "sent"
    <3>1. wroteheaders /\ ~ishijacked /\ emptyWrite' = emptyWrite
      BY <1>b, <2>1, <2>4, <2>7
    <3>2. UNCHANGED <<wroteheaders, chunking, ishijacked, length>>
      BY <2>2, <3>1, Zenon DEF RW!Write, RW!Headers
    <3>3. rx' = IF chunking THEN RW!Chunk(rx, b) ELSE RW!Bytes(rx, b)
      <4>1. rx' = IF ~ishijacked /\ chunking' THEN RW!Chunk(RW!Headed, b)
                                             ELSE RW!Bytes(RW!Headed, b)
        BY <2>2, Zenon DEF RW!Write
      <4>2. RW!Headed = rx
        BY <3>1 DEF RW!Headed
      <4> QED
        BY <3>1, <3>2, <4>1, <4>2, Zenon
    <3>4. rx' \in Decoders /\ Framed'
      BY <2>1, <2>3, <2>7, <3>1, <3>2, <3>3, AfterFlush
    <3> QED
      BY <1>a, <2>1, <2>4, <2>5, <3>2, <3>4, Zenon DEF Written, RW!NoLength
  <2> QED
    BY <1>b, <2>1, <2>6, <2>7
<1>8. CASE ApiFlush \/ Flushed
  <2>1. /\ copying' = "sent" /\ ~ishijacked /\ RW!Flush
        /\ UNCHANGED <<given, emptyWrite, copyFailed>>
    BY <1>8 DEF ApiFlush, Flushed, RW!Flush
  <2>2. CASE copying # "sent"
    <3>1. whole' = given
      <4>1. CASE ApiFlush
        BY <1>b, <2>2, <4>1 DEF ApiFlush
      <4>2. CASE Flushed
        BY <4>2, Zenon DEF Flushed
      <4> QED
        BY <1>8, <4>1, <4>2
    <3>2. /\ wroteheaders' = TRUE /\ chunking' \in BOOLEAN
          /\ UNCHANGED <<ishijacked, length>> /\ rx' \in Decoders /\ Framed'
      BY <2>1, <2>2, <3>1, FlushStep
    <3> QED
      BY <1>a, <2>1, <3>1, <3>2, Zenon DEF Written, RW!NoLength
  <2>3. CASE copying = "sent"
    <3>1. wroteheaders /\ whole' = whole
      BY <1>8, <1>b, <2>3 DEF ApiFlush, Flushed
    <3>2. UNCHANGED <<wroteheaders, chunking, ishijacked, length>>
      BY <2>1, <3>1, Zenon DEF RW!Flush, RW!Headers
    <3> DEFINE b == IF chunking THEN <<>> ELSE <<0, 0>>
    <3>3. b \in Bytes
      BY DEF Bytes
    <3>4. rx' = IF chunking THEN RW!Chunk(rx, b) ELSE RW!Bytes(rx, b)
      <4>1. rx' = IF chunking' THEN RW!Chunk(RW!Headed, <<>>) ELSE RW!Bytes(RW!Headed, <<0, 0>>)
        BY <2>1, Zenon DEF RW!Flush, RW!LineEnd
      <4>2. RW!Headed = rx
        BY <3>1 DEF RW!Headed
      <4> QED
        BY <3>2, <4>1, <4>2, Zenon
    <3> HIDE DEF b
    <3>5. rx' \in Decoders /\ Framed'
      BY <2>1, <2>3, <3>1, <3>2, <3>3, <3>4, AfterFlush
    <3> QED
      BY <1>a, <2>1, <3>1, <3>2, <3>5, Zenon DEF Written, RW!NoLength
  <2> QED
    BY <2>2, <2>3
<1>c. CASE ApiWriteHeader
  <2>1. /\ pc = "api" /\ RW!WriteHeader
        /\ UNCHANGED <<copying, given, emptyWrite, whole, copyFailed>>
    BY <1>c, Zenon DEF ApiWriteHeader
  <2>2. CASE copying = "no"
    <3>1. /\ wroteheaders' = TRUE /\ chunking' \in BOOLEAN
          /\ UNCHANGED <<ishijacked, length>> /\ rx' \in Decoders /\ Framed'
      BY <1>b, <2>1, <2>2, HeadStep
    <3> QED
      BY <1>a, <2>1, <3>1, Zenon DEF Written, RW!NoLength
  <2>3. CASE copying = "sent"
    <3>1. UNCHANGED writerVars
      BY <1>b, <2>1, <2>3, Zenon DEF RW!WriteHeader, RW!Headers, RW!Headed
    <3> QED
      BY <1>a, <2>1, <3>1, FramedKept, Zenon
  <2> QED
    BY <1>b, <2>1, <2>2, <2>3
<1>9. CASE SetHeaders
  <2>1. ~wroteheaders
    BY <1>9 DEF SetHeaders, Places, Answers, Pages
  <2>2. /\ UNCHANGED <<wroteheaders, chunking, ishijacked, rx, given, emptyWrite, whole, copyFailed>>
        /\ copying' = "head" /\ length' = NewLength
    BY <1>9, Zenon DEF SetHeaders, RW!SetLength
  <2>3. NewLength \in Nat \cup {RW!NoLength}
    BY DEF NewLength, Promised
  <2> QED
    BY <1>a, <2>1, <2>2, <2>3, FramedUnbegun, Zenon
<1>10. CASE WriteHead
  <2>1. /\ copying # "sent" /\ copying' = "body" /\ ~ishijacked
        /\ RW!WriteHeader /\ UNCHANGED <<given, emptyWrite, whole, copyFailed>>
    BY <1>10 DEF WriteHead, Places
  <2>2. /\ wroteheaders' = TRUE /\ chunking' \in BOOLEAN
        /\ UNCHANGED <<ishijacked, length>> /\ rx' \in Decoders /\ Framed'
    BY <2>1, HeadStep
  <2> QED
    BY <1>a, <2>1, <2>2, Zenon DEF Written, RW!NoLength
<1>11. CASE Copy
  <2>1. /\ copying = "body" /\ copying' = copying /\ ~ishijacked /\ copyFailed' = copyFailed
        /\ RW!Write(out') /\ given' = given \o out' /\ out' # <<>> /\ UNCHANGED <<emptyWrite, whole>>
    BY <1>11 DEF Copy, Places
  <2>2. RR!Read(SourceLen)
    BY <1>11, Zenon DEF Copy
  <2>3. out' \in Bytes
    BY <2>2, ReadGives, Delivered
  <2>4. /\ wroteheaders' = TRUE /\ chunking' \in BOOLEAN
        /\ UNCHANGED <<ishijacked, length>> /\ rx' \in Decoders /\ given' \in Bytes
        /\ Framed'
    BY <2>1, <2>3, WriteStep
  <2> QED
    BY <1>a, <2>1, <2>4, Zenon DEF Written, RW!NoLength
<1>12. CASE CopyEnds
  <2>1. /\ UNCHANGED <<writerVars, given, emptyWrite, whole>>
        /\ copying = "body" /\ copying' = "flush" /\ copyFailed' \in BOOLEAN
    BY <1>12, Zenon DEF CopyEnds
  <2> QED
    BY <1>a, <2>1, FramedKept
<1>13. CASE CopyOwn
  <2> DEFINE b == IF reply = "own" THEN OwnBody ELSE Page
  <2>1. /\ copying = "body" /\ copying' = "flush" /\ ~ishijacked /\ copyFailed' = copyFailed
        /\ RW!Write(b) /\ given' = b /\ UNCHANGED <<emptyWrite, whole>>
    BY <1>13 DEF CopyOwn, Places
  <2>2. b \in Bytes /\ b # <<>>
    BY DEF OwnBody, Page, Bytes
  <2>3. given = <<>>
    BY <1>13 DEF CopyOwn, Content, Places
  <2> HIDE DEF b
  <2>4. given' = given \o b
    BY <2>1, <2>2, <2>3, ConcatEmptySeq DEF Bytes
  <2>5. /\ wroteheaders' = TRUE /\ chunking' \in BOOLEAN
        /\ UNCHANGED <<ishijacked, length>> /\ rx' \in Decoders /\ given' \in Bytes
        /\ Framed'
    BY <2>1, <2>2, <2>4, WriteStep
  <2> QED
    BY <1>a, <2>1, <2>5, Zenon DEF Written, RW!NoLength
<1> QED
  BY <1>1, <1>2, <1>3, <1>4, <1>5, <1>6, <1>7, <1>8, <1>c, <1>9, <1>10, <1>11, <1>12, <1>13
  DEF ConnNext

\* A stream goes on where it was.
LEMMA FollowsOn ==
  ASSUME NEW s \in Bytes, Follows(s), NEW c \in Nat, s # <<>> => s[Len(s)] = c,
         NEW n \in Nat
  PROVE  LET t == s \o [i \in 1..n |-> c + i] IN
         /\ t \in Bytes /\ Len(t) = Len(s) + n
         /\ Follows(t) /\ (t # <<>> => t[Len(t)] = c + n)
<1> DEFINE d == [i \in 1..n |-> c + i]
           t == s \o d
<1>1. d \in Bytes /\ Len(d) = n
  BY Delivered
<1>2. \A i \in 1..n : d[i] = c + i
  OBVIOUS
<1> HIDE DEF d
<1>3. /\ t \in Bytes /\ Len(t) = Len(s) + n
      /\ \A i \in 1..Len(s) + n : t[i] = IF i <= Len(s) THEN s[i] ELSE d[i - Len(s)]
  BY <1>1, ConcatProperties, Zenon DEF Bytes
<1>4. Len(s) \in Nat /\ (Len(s) = 0 => s = <<>>) /\ (s = <<>> => Len(s) = 0)
  BY LenProperties, EmptySeq DEF Bytes
<1> HIDE DEF t
<1>5. Len(s) > 0 => s[Len(s)] = c
  BY <1>4
<1>6. ASSUME NEW i \in 1..Len(t) - 1 PROVE t[i + 1] = t[i] + 1
  <2>1. CASE i < Len(s)
    BY <1>3, <1>4, <2>1 DEF Follows
  <2>2. CASE i = Len(s)
    BY <1>2, <1>3, <1>4, <1>5, <2>2
  <2>3. CASE i > Len(s)
    BY <1>2, <1>3, <1>4, <2>3
  <2> QED
    BY <1>4, <2>1, <2>2, <2>3
<1>7. ASSUME t # <<>> PROVE t[Len(t)] = c + n
  <2>1. CASE n = 0
    <3>1. Len(t) = Len(s) /\ Len(t) > 0
      BY <1>3, <1>4, <1>7, <2>1, LenProperties, EmptySeq DEF Bytes
    <3> QED
      BY <1>3, <1>4, <1>5, <2>1, <3>1
  <2>2. CASE n > 0
    BY <1>2, <1>3, <1>4, <2>2
  <2> QED
    BY <2>1, <2>2
<1> QED
  BY <1>3, <1>6, <1>7 DEF Follows, t, d

\* A step that leaves the body and the decision for it alone.
LEMMA ContentKept ==
  ASSUME Content, UNCHANGED <<given, whole, reply, made, taken, overflow, r, w, copying, copyFailed>>
  PROVE  Content'
BY DEF Content, Cur, Follows

\* The body that is given is the one that was decided on.
LEMMA ContentStep ==
  ASSUME TypeOK, Undecided, Places, Written, Framed, Content, RP!Inv, ConnNext
  PROVE  Content'
<1> USE DEF vars, ctxVars, connVars, outVars, answerVars, dialVars, readVars, writerVars,
        readerVars, copyVars, socketVars, tunnelVars,
        SayNothing, Say, Goto, CloseWith, Answers, Pages
<1>a. ASSUME reply \notin Answers, reply' \notin Answers, UNCHANGED <<made, taken>>
      PROVE  Content'
  BY <1>a DEF Content
<1>b. ~wroteheaders => given = <<>>
  BY DEF Framed
<1>1. CASE Accepted \/ AcceptedTLS \/ Dropped \/ ReadBody \/ DialStep
  <2>1. CASE Accepted
    <3>1. UNCHANGED <<given, whole, reply, made, taken, overflow, r, w, copying, copyFailed>>
      BY <2>1, Zenon DEF Accepted, HandleHTTPConnection
    <3> QED
      BY <3>1, ContentKept
  <2>2. CASE AcceptedTLS
    <3>1. UNCHANGED <<given, whole, reply, made, taken, overflow, r, w, copying, copyFailed>>
      BY <2>2, Zenon DEF AcceptedTLS, ListenAndServeTLS
    <3> QED
      BY <3>1, ContentKept
  <2>3. CASE Dropped
    <3>1. UNCHANGED <<given, whole, reply, made, taken, overflow, r, w, copying, copyFailed>>
      BY <2>3, Zenon DEF Dropped, Drop
    <3> QED
      BY <3>1, ContentKept
  <2>4. CASE ReadBody \/ DialStep
    <3>1. UNCHANGED <<given, whole, reply, made, taken, overflow, r, w, copying, copyFailed>>
      BY <2>4, Zenon DEF ReadBody, DialStep
    <3> QED
      BY <3>1, ContentKept
  <2> QED
    BY <1>1, <2>1, <2>2, <2>3, <2>4
<1>2. CASE ApiSetLength \/ ApiWriteHeader \/ ApiWrite \/ ApiFlush
  <2>1. pc = "api" /\ UNCHANGED <<reply, made, taken>>
    BY <1>2, Zenon DEF ApiSetLength, ApiWriteHeader, ApiWrite, ApiFlush
  <2> QED
    BY <1>a, <2>1 DEF Places
<1>3. CASE Served
  <2>1. pc = "api" /\ UNCHANGED <<made, taken>> /\ reply' \in {reply, "api"}
    BY <1>3 DEF Served, HandleHTTP
  <2> QED
    BY <1>a, <2>1 DEF Places
<1>4. CASE ConnectForwarded \/ RequestForwarded \/ ForwardFails
  <2>1. pc \in {"connect", "request"} /\ UNCHANGED <<made, taken>>
        /\ reply' \in {reply, "200", "502_BadGateway"}
    BY <1>4 DEF ConnectForwarded, RequestForwarded, ForwardFails, ForwardConnect,
                ForwardRequest, ForwardConnectFails, ForwardRequestFails
  <2> QED
    BY <1>a, <2>1 DEF Places
<1>5. CASE ToTarget \/ ToClient \/ SetNewBodyLength
  <2>1. UNCHANGED <<given, whole, reply, made, taken, overflow, r, w, copying, copyFailed>>
    BY <1>5, Zenon DEF ToTarget, ToClient, SetNewBodyLength
  <2> QED
    BY <2>1, ContentKept
<1>6. CASE Fetched
  <2>1. UNCHANGED <<given, whole, reply, made, taken, overflow, r, w, copying, copyFailed>>
    BY <1>6, Zenon DEF Fetched, ForwardHTTPRequest
  <2> QED
    BY <2>1, ContentKept
<1>7. CASE UseBody
  <2>1. pc = "response" /\ reply' = reply /\ made'
    BY <1>7 DEF UseBody, Handling
  <2> QED
    BY <2>1 DEF Content, Places
<1>8. CASE Handled
  <2>1. UNCHANGED <<given, whole, made, taken, overflow, r, w, copying, copyFailed>>
    BY <1>8, HandledMoves
  <2>2. CASE reply' = reply
    BY <2>1, <2>2, ContentKept
  <2>3. CASE reply' # reply
    <3>1. /\ pc \in {"connect", "request", "response"} /\ reply \notin Answers
          /\ reply' \in Answers \/ reply' = "502_Rejected"
      BY <1>8, <2>3, HandledMoves DEF Places
    <3>2. copying = "no" /\ given = <<>>
      BY <1>b, <3>1 DEF Places, Written
    <3>3. Len(<<>>) = 0 /\ Follows(<<>>)
      BY DEF Follows
    <3> QED
      BY <2>1, <3>1, <3>2, <3>3 DEF Content
  <2> QED
    BY <2>2, <2>3
<1>9. CASE SetHeaders \/ WriteHead
  <2>1. /\ UNCHANGED <<given, whole, reply, made, taken, overflow, r, w, copyFailed>>
        /\ copying \in {"no", "head"} /\ copying' \in {"head", "body"}
    BY <1>9 DEF SetHeaders, WriteHead
  <2>2. ~wroteheaders
    BY <1>9 DEF SetHeaders, WriteHead, Places
  <2> QED
    BY <1>b, <2>1, <2>2 DEF Content, Cur, Follows
<1>10. CASE Copy
  <2>1. /\ copying = "body" /\ copying' = copying /\ reply = "upstream" /\ reply' = reply
        /\ given' = given \o out' /\ RR!Read(SourceLen)
    BY <1>10, Zenon DEF Copy
  <2>2. PICK n \in Nat : /\ out' = [i \in 1..n |-> Cur + i] /\ Cur' = Cur + n
                         /\ ~made => taken' = taken + n
    BY <2>1, ReadGives
  <2>3. Cur \in Nat /\ made' = made /\ given \in Bytes
    BY <2>1, ReadGives DEF Written
  <2>4. Follows(given) /\ (given # <<>> => given[Len(given)] = Cur)
    BY <2>1 DEF Content
  <2>5. /\ Len(given') = Len(given) + n
        /\ Follows(given') /\ (given' # <<>> => given'[Len(given')] = Cur + n)
    <3> DEFINE c == Cur
               d == [i \in 1..n |-> c + i]
    <3>1. /\ Len(given \o d) = Len(given) + n
          /\ Follows(given \o d) /\ (given \o d # <<>> => (given \o d)[Len(given \o d)] = c + n)
      <4> HIDE DEF c
      <4>1. c \in Nat /\ (given # <<>> => given[Len(given)] = c)
        BY <2>3, <2>4 DEF c
      <4> QED
        BY <2>3, <2>4, <4>1, FollowsOn
    <3>2. given' = given \o d
      BY <2>1, <2>2
    <3> HIDE DEF d
    <3> QED
      BY <3>1, <3>2
  <2>6. ~made => taken' = Len(given')
    BY <2>1, <2>2, <2>5 DEF Content
  <2> HIDE DEF Cur
  <2> QED
    BY <2>1, <2>2, <2>3, <2>5, <2>6 DEF Content, Follows
<1>11. CASE CopyEnds
  <2>1. /\ UNCHANGED <<given, whole, reply, made, taken, overflow, r, w>> /\ reply = "upstream"
        /\ copying = "body" /\ copying' = "flush"
        /\ ~copyFailed' => taken = SourceLen
    BY <1>11 DEF CopyEnds
  <2> QED
    BY <2>1 DEF Content, Cur, Follows
<1>12. CASE CopyOwn
  <2>1. /\ UNCHANGED <<reply, made, taken>> /\ reply # "upstream" /\ pc = "copy"
        /\ given' = IF reply = "own" THEN OwnBody ELSE Page
        /\ copying' = "flush"
    BY <1>12 DEF CopyOwn, Places
  <2> QED
    BY <2>1 DEF Content
<1>13. CASE Flushed
  <2>1. /\ UNCHANGED <<given, reply, made, taken, overflow, r, w, copyFailed>>
        /\ copying = "flush" /\ copying' = "sent" /\ whole' = given
    BY <1>13, Zenon DEF Flushed
  <2> QED
    BY <2>1 DEF Content, Cur, Follows
<1>14. CASE Closed
  <2>1. UNCHANGED <<given, whole, reply, made, taken, overflow, r, w, copying, copyFailed>>
    BY <1>14, Zenon DEF Closed, ResponseForwarded
  <2> QED
    BY <2>1, ContentKept
<1> QED
  BY <1>1, <1>2, <1>3, <1>4, <1>5, <1>6, <1>7, <1>8, <1>9, <1>10, <1>11, <1>12, <1>13,
     <1>14 DEF ConnNext

\* The Content-Length of an answer is the one that ForwardResponse chose.
LEMMA PromisedStep ==
  ASSUME TypeOK, Undecided, Places, Written, Promised, RP!Inv, ConnNext
  PROVE  Promised'
<1> USE DEF vars, ctxVars, connVars, outVars, answerVars, dialVars, readVars, writerVars,
        readerVars, copyVars, socketVars, tunnelVars, RW!NoLength,
        SayNothing, Say, Goto, CloseWith, Answers, Pages
<1>a. ASSUME reply' \notin Answers \/ copying' = "no",
             UNCHANGED <<newlen, ulen>>
      PROVE  Promised'
  BY <1>a DEF Promised
<1>b. ASSUME UNCHANGED <<newlen, ulen, length, made, reply>>,
             copying' = copying \/ copying # "no"
      PROVE  Promised'
  BY <1>b DEF Promised
<1>1. CASE Accepted \/ AcceptedTLS \/ Dropped
  <2>1. pc = "accept" /\ reply' = reply /\ UNCHANGED <<newlen, ulen>>
    BY <1>1 DEF Accepted, HandleHTTPConnection, AcceptedTLS, ListenAndServeTLS, Dropped, Drop
  <2> QED
    BY <1>a, <2>1 DEF Places
<1>2. CASE ApiSetLength \/ ApiWriteHeader \/ ApiWrite \/ ApiFlush
  <2>1. pc = "api" /\ UNCHANGED <<reply, newlen, ulen>>
    BY <1>2, Zenon DEF ApiSetLength, ApiWriteHeader, ApiWrite, ApiFlush
  <2> QED
    BY <1>a, <2>1 DEF Places
<1>3. CASE Served
  <2>1. pc = "api" /\ UNCHANGED <<newlen, ulen>> /\ reply' \in {reply, "api"}
    BY <1>3 DEF Served, HandleHTTP
  <2> QED
    BY <1>a, <2>1 DEF Places
<1>4. CASE ConnectForwarded \/ RequestForwarded \/ ForwardFails
  <2>1. pc \in {"connect", "request"} /\ UNCHANGED <<newlen, ulen>>
        /\ reply' \in {reply, "200", "502_BadGateway"}
    BY <1>4 DEF ConnectForwarded, RequestForwarded, ForwardFails, ForwardConnect,
                ForwardRequest, ForwardConnectFails, ForwardRequestFails
  <2> QED
    BY <1>a, <2>1 DEF Places
<1>5. CASE ReadBody \/ DialStep \/ ToTarget \/ ToClient
  <2>1. UNCHANGED <<newlen, ulen, length, made, reply, copying>>
    <3>1. CASE DialStep
      <4>1. UNCHANGED <<vars, answerVars>>
        BY <3>1, Zenon DEF DialStep
      <4> QED
        BY <4>1
    <3>2. CASE ReadBody \/ ToTarget \/ ToClient
      BY <3>2, Zenon DEF ReadBody, ToTarget, ToClient
    <3> QED
      BY <1>5, <3>1, <3>2
  <2> QED
    BY <1>b, <2>1
<1>6. CASE Fetched
  <2>1. /\ UNCHANGED <<newlen, copying, reply>> /\ pc = "request"
        /\ ulen' \in {RW!NoLength, SourceLen, ulen}
    BY <1>6 DEF Fetched, ForwardHTTPRequest
  <2> QED
    BY <2>1 DEF Promised, Places
<1>7. CASE SetNewBodyLength
  <2>1. /\ UNCHANGED <<ulen, copying, reply>> /\ pc \in {"request", "response"}
        /\ newlen' \in 0..SourceLen
    BY <1>7, ReaderAssumption DEF SetNewBodyLength, Handling
  <2> QED
    BY <2>1 DEF Promised, Places
<1>8. CASE UseBody
  <2>1. /\ UNCHANGED <<newlen, ulen, reply>> /\ pc = "response"
    BY <1>8 DEF UseBody, Handling
  <2> QED
    BY <1>a, <2>1 DEF Places
<1>9. CASE Handled
  <2>1. UNCHANGED <<newlen, ulen, length, made, copying>>
    BY <1>9, HandledMoves
  <2>2. CASE reply' = reply
    BY <1>b, <2>1, <2>2
  <2>3. CASE reply' # reply
    <3>1. pc \in {"connect", "request", "response"}
      BY <1>9, <2>3, HandledMoves
    <3>2. copying = "no"
      BY <3>1 DEF Places, Written
    <3> QED
      BY <1>a, <2>1, <3>2
  <2> QED
    BY <2>2, <2>3
<1>10. CASE SetHeaders
  <2>1. UNCHANGED <<newlen, ulen, made, reply>> /\ length' = NewLength
    BY <1>10, Zenon DEF SetHeaders, RW!SetLength
  <2> QED
    BY <2>1 DEF Promised, NewLength
<1>11. CASE WriteHead \/ CopyOwn \/ Flushed
  <2>1. UNCHANGED <<newlen, ulen, made, reply, length>> /\ copying # "no"
    BY <1>11, Zenon DEF WriteHead, CopyOwn, Flushed, RW!WriteHeader, RW!Write, RW!Flush
  <2> QED
    BY <1>b, <2>1
<1>12. CASE Copy
  <2>1. UNCHANGED <<newlen, ulen, reply, length>> /\ copying' = copying
    BY <1>12, Zenon DEF Copy, RW!Write
  <2>2. made' = made
    BY <1>12, ReadGives DEF Copy
  <2> QED
    BY <1>b, <2>1, <2>2
<1>13. CASE CopyEnds \/ Closed
  <2>1. UNCHANGED <<newlen, ulen, made, reply, length>> /\ copying # "no"
    BY <1>13, Zenon DEF CopyEnds, Closed, ResponseForwarded
  <2> QED
    BY <1>b, <2>1
<1> QED
  BY <1>1, <1>2, <1>3, <1>4, <1>5, <1>6, <1>7, <1>8, <1>9, <1>10, <1>11, <1>12, <1>13
  DEF ConnNext

\* The dial of connectDialContext, of which a connection is one at most.
LEMMA DialKnownStep ==
  ASSUME DialKnown, [CD!Next]_socketVars
  PROVE  DialKnown'
<1> USE ConnectionAssumption DEF DialKnown, socketVars
<1>1. CASE CD!connectDialContext
  BY <1>1 DEF CD!connectDialContext
<1>2. CASE CD!dialFails \/ CD!dialed \/ CD!unreadable \/ CD!refused \/ CD!refusalRead
  BY <1>2 DEF CD!dialFails, CD!dialed, CD!unreadable, CD!refused, CD!refusalRead
<1>3. CASE CD!accepted
  BY <1>3 DEF CD!accepted
<1>4. CASE UNCHANGED socketVars
  BY <1>4
<1> QED
  BY <1>1, <1>2, <1>3, <1>4 DEF CD!Next

\* A step that forwards nothing and reads nothing from the client.
LEMMA PipedKept ==
  ASSUME Piped, UNCHANGED <<readVars, tunnelVars, early, method>>,
         pc' = "tunnel" => pc = "tunnel",
         pc \in {"tunnel", "end"} => pc' \in {"tunnel", "end"}
  PROVE  Piped'
<1> USE DEF readVars, tunnelVars
<1> QED
  BY DEF Piped, Replay, Plain

\* With no byte forwarded yet, whatever has been read.
LEMMA PipedEmpty ==
  ASSUME atTarget' = <<>>, toClient' = <<>>, Plain',
         snapshot' \in Nat, swallowed' \in Nat, snapshot' + swallowed' <= ClientLen,
         readReq' = snapshot' + swallowed',
         method' # "none", pc' = "tunnel" => method' = "CONNECT"
  PROVE  Piped'
<1>1. Len(<<>>) = 0 /\ <<>> \in Bytes
  BY EmptySeq DEF Bytes
<1>2. /\ readReq' \in 0..ClientLen /\ readReq' \in Nat
      /\ snapshot' + swallowed' <= readReq'
  <2>1. \A a, b, c \in Nat : a + b <= c => a + b \in 0..c /\ a + b \in Nat /\ a + b <= a + b
    OBVIOUS
  <2> QED
    BY <2>1, ConnectionAssumption, Zenon
<1>3. Replay' \in Nat /\ (pc' = "tunnel" => Replay' = 0)
  BY DEF Replay
<1>4. /\ atTarget' \in Bytes /\ toClient' \in Bytes
      /\ Len(atTarget') = 0 /\ Len(toClient') = 0
  BY <1>1
<1>5. /\ pc' = "tunnel" => Len(atTarget') >= Replay'
      /\ Len(atTarget') >= Replay' =>
           readReq' = snapshot' + swallowed' + (Len(atTarget') - Replay')
      /\ 1..Len(atTarget') = {} /\ 1..Len(toClient') = {}
  BY <1>2, <1>3, <1>4
<1>6. percent' \subseteq 1..snapshot'
  BY Zenon DEF Plain
<1> QED
  BY <1>2, <1>4, <1>5, <1>6, Zenon DEF Piped

\* Both ways through a tunnel keep their order.
LEMMA PipedStep ==
  ASSUME TypeOK, Places, DialKnown, Piped, ConnNext
  PROVE  Piped'
<1> USE DEF vars, ctxVars, connVars, outVars, answerVars, dialVars, readVars,
        socketVars, tunnelVars, SayNothing, Say, Goto, CloseWith
<1>a. /\ readReq \in 0..ClientLen /\ readReq \in Nat
      /\ snapshot \in Nat /\ swallowed \in Nat
      /\ snapshot + swallowed <= readReq
      /\ pc \notin {"tunnel", "end"} => /\ atTarget = <<>> /\ toClient = <<>>
                                       /\ readReq = snapshot + swallowed /\ Plain
      /\ ClientLen \in Nat /\ ReqLen \in 1..ClientLen
  BY ConnectionAssumption DEF Piped
<1>1. CASE Accepted
  <2>1. /\ pc = "accept" /\ pc' \in {"connect", "api"} /\ UNCHANGED <<atTarget, toClient>>
        /\ snapshot' \in 1..ClientLen /\ readReq' = snapshot'
        /\ UNCHANGED <<swallowed, percent>> /\ method' # "none"
    BY <1>1, Zenon DEF Accepted, HandleHTTPConnection
  <2>2. swallowed = 0
    BY <2>1 DEF Places, Piped
  <2>3. \A a \in 1..ClientLen : a \in Nat /\ a + 0 <= ClientLen /\ a = a + 0
    BY <1>a
  <2>4. /\ snapshot' \in Nat /\ swallowed' = 0
        /\ snapshot' + swallowed' <= ClientLen /\ readReq' = snapshot' + swallowed'
    BY <2>1, <2>2, <2>3, Zenon
  <2>5. swallowed' \in Nat
    BY <2>4
  <2> QED
    BY <1>a, <2>1, <2>4, <2>5, PipedEmpty DEF Plain
<1>2. CASE AcceptedTLS
  <2>1. /\ pc = "accept" /\ pc' = "connect" /\ UNCHANGED <<tunnelVars, readVars>>
        /\ method' = "CONNECT"
    BY <1>2, Zenon DEF AcceptedTLS, ListenAndServeTLS
  <2> QED
    BY <1>a, <2>1, PipedEmpty DEF Plain
<1>3. CASE Dropped
  <2>1. /\ pc = "accept" /\ pc' = "end" /\ UNCHANGED <<tunnelVars, readVars, early, method>>
    BY <1>3, Zenon DEF Dropped, Drop
  <2> QED
    BY <2>1, PipedKept
<1>4. CASE ReadBody
  <2>1. PICK n \in 1..ClientLen - readReq : readReq' = readReq + n /\ swallowed' = swallowed + n
    BY <1>4, Zenon DEF ReadBody
  <2>2. /\ pc \in {"api", "connect", "request"}
        /\ UNCHANGED <<pc, method, tunnelVars, snapshot, percent>>
    BY <1>4, Zenon DEF ReadBody
  <2>3. method' # "none" /\ pc' # "tunnel"
    BY <2>2 DEF Places
  <2>4. /\ snapshot' + swallowed' <= ClientLen /\ swallowed' \in Nat
        /\ readReq' = snapshot' + swallowed'
    BY <1>a, <2>1, <2>2
  <2> QED
    BY <1>a, <2>2, <2>3, <2>4, PipedEmpty DEF Plain
<1>5. CASE ApiSetLength \/ ApiWriteHeader \/ ApiWrite \/ ApiFlush \/ SetNewBodyLength \/ UseBody
  <2>1. UNCHANGED <<vars, tunnelVars, readVars, socketVars>>
    BY <1>5, Zenon DEF ApiSetLength, ApiWriteHeader, ApiWrite, ApiFlush, SetNewBodyLength, UseBody
  <2> QED
    BY <2>1, PipedKept
<1>6. CASE Served
  <2>1. /\ pc = "api" /\ pc' \in {"end", "request"}
        /\ UNCHANGED <<tunnelVars, readVars, early, method>>
    BY <1>6 DEF Served, HandleHTTP
  <2> QED
    BY <2>1, PipedKept
<1>7. CASE DialStep
  <2>1. pc \in {"connect", "request"} /\ UNCHANGED <<vars, tunnelVars, readVars>>
    BY <1>7, Zenon DEF DialStep, Dialing
  <2> QED
    BY <1>a, <2>1, PipedEmpty DEF Places, Plain
<1>8. CASE ConnectForwarded
  <2>1. pc = "connect" /\ UNCHANGED <<tunnelVars, readVars, early, method>>
    BY <1>8, Zenon DEF ConnectForwarded, ForwardConnect
  <2> QED
    BY <1>a, <2>1, PipedEmpty DEF Places, Plain
<1>9. CASE RequestForwarded
  <2>1. PICK n \in 0..snapshot : (n = snapshot \/ failed') /\ atTarget' = Formatted(n)
    BY <1>9 DEF RequestForwarded
  <2>2. /\ pc = "request" /\ UNCHANGED <<toClient, readReq, snapshot, swallowed, early, method>>
        /\ percent' \subseteq 1..snapshot
        /\ pc' = "end" \/ (pc' = "tunnel" /\ failed' = failed)
    BY <1>9, Zenon DEF RequestForwarded, ForwardRequest
  <2>3. method = "GET" /\ ~failed
    BY <2>2 DEF Places
  <2>4. Replay' = snapshot /\ n \in Nat
    BY <1>a, <2>2, <2>3 DEF Replay
  <2>5. /\ atTarget' \in Bytes /\ Len(atTarget') = n
        /\ \A i \in 1..n : atTarget'[i] = i \/ i \in percent'
    <3>1. Formatted(n) \in [1..n -> Nat]
      BY <2>4 DEF Formatted, Mangled
    <3>2. Formatted(n) \in Bytes /\ Len(Formatted(n)) = n
      BY <2>4, <3>1 DEF Bytes
    <3>3. \A i \in 1..n : Formatted(n)[i] = i \/ i \in percent'
      BY DEF Formatted
    <3> QED
      BY <2>1, <3>2, <3>3
  <2>6. toClient' = <<>> /\ toClient' \in Bytes /\ Len(toClient') = 0
    BY <1>a, <2>2, EmptySeq DEF Bytes
  <2>7. pc' = "tunnel" => n = snapshot
    BY <2>1, <2>2, <2>3
  <2>8. \A i \in 1..Len(atTarget') : i <= Replay' /\ (atTarget'[i] = i \/ i \in percent')
    <3> SUFFICES ASSUME NEW i \in 1..Len(atTarget')
                 PROVE  i <= Replay' /\ (atTarget'[i] = i \/ i \in percent')
      OBVIOUS
    <3>1. i \in 1..n
      BY <2>5
    <3>2. i <= snapshot
      BY <1>a, <2>4, <3>1
    <3>3. atTarget'[i] = i \/ i \in percent'
      BY <2>5, <3>1
    <3> QED
      BY <2>4, <3>2, <3>3, Zenon
  <2>9. Len(atTarget') >= Replay' =>
          readReq' = snapshot' + swallowed' + (Len(atTarget') - Replay')
    BY <1>a, <2>2, <2>4, <2>5
  <2>10. /\ UNCHANGED <<readReq, snapshot, swallowed>> /\ pc' \in {"tunnel", "end"}
         /\ percent' \subseteq 1..snapshot' /\ method' # "none"
    BY <2>2, <2>3
  <2>11. pc' = "tunnel" => Len(atTarget') >= Replay'
    BY <1>a, <2>4, <2>5, <2>7
  <2>12. \A i \in 1..Len(toClient') : toClient'[i] = early' + i
    BY <2>6
  <2> QED
    BY <1>a, <2>5, <2>6, <2>8, <2>9, <2>10, <2>11, <2>12 DEF Piped
<1>10. CASE ForwardFails
  <2>1. /\ pc \in {"connect", "request"} /\ pc' = "end"
        /\ UNCHANGED <<tunnelVars, readVars, early, method>>
    BY <1>10, Zenon DEF ForwardFails, ForwardConnectFails, ForwardRequestFails
  <2> QED
    BY <2>1, PipedKept
<1>11. CASE ToTarget
  <2>1. /\ pc = "tunnel" /\ UNCHANGED <<pc, method, early, toClient>>
        /\ UNCHANGED <<snapshot, swallowed, percent>>
        /\ readReq < ClientLen /\ readReq' = readReq + 1
        /\ atTarget' = Append(atTarget, readReq + 1)
    BY <1>11, Zenon DEF ToTarget
  <2>2. atTarget \in Bytes /\ readReq + 1 \in Nat /\ Len(atTarget) \in Nat
    BY <1>a, LenProperties DEF Piped, Bytes
  <2>3. /\ atTarget' \in Bytes /\ Len(atTarget') = Len(atTarget) + 1
        /\ \A i \in 1..Len(atTarget) : atTarget'[i] = atTarget[i]
        /\ atTarget'[Len(atTarget) + 1] = readReq + 1
    BY <2>1, <2>2, AppendProperties DEF Bytes
  <2>4. Replay' = Replay /\ Replay \in Nat /\ Replay <= Len(atTarget)
    BY <1>a, <2>1 DEF Piped, Replay
  <2>5. readReq = snapshot + swallowed + (Len(atTarget) - Replay)
    BY <2>4 DEF Piped
  <2>6. readReq' = snapshot' + swallowed' + (Len(atTarget') - Replay')
    BY <1>a, <2>1, <2>2, <2>3, <2>4, <2>5
  <2>7. ASSUME NEW i \in 1..Len(atTarget')
        PROVE  IF i <= Replay' THEN atTarget'[i] = i \/ i \in percent'
               ELSE atTarget'[i] = snapshot' + swallowed' + (i - Replay')
    <3>1. CASE i = Len(atTarget) + 1
      BY <1>a, <2>1, <2>2, <2>3, <2>4, <2>5, <3>1
    <3>2. CASE i # Len(atTarget) + 1
      <4>1. i \in 1..Len(atTarget) /\ atTarget'[i] = atTarget[i]
        BY <2>2, <2>3, <3>2
      <4>2. IF i <= Replay THEN atTarget[i] = i \/ i \in percent
            ELSE atTarget[i] = snapshot + swallowed + (i - Replay)
        BY <4>1 DEF Piped
      <4> QED
        BY <2>1, <2>4, <4>1, <4>2
    <3> QED
      BY <3>1, <3>2
  <2>8. /\ readReq' \in 0..ClientLen /\ snapshot' + swallowed' <= readReq'
        /\ snapshot' \in Nat /\ swallowed' \in Nat
    BY <1>a, <2>1
  <2>9. /\ toClient' \in Bytes /\ percent' \subseteq 1..snapshot'
        /\ method' = "none" => swallowed' = 0
        /\ \A i \in 1..Len(toClient') : toClient'[i] = early' + i
    BY <2>1 DEF Piped
  <2>10. Len(atTarget') >= Replay'
    BY <2>2, <2>3, <2>4
  <2> QED
    BY <2>1, <2>3, <2>6, <2>7, <2>8, <2>9, <2>10 DEF Piped
<1>12. CASE ToClient
  <2>1. /\ pc = "tunnel" /\ UNCHANGED <<pc, method, early, atTarget, readVars>>
        /\ early + Len(toClient) < DestLen
        /\ toClient' = Append(toClient, early + Len(toClient) + 1)
    BY <1>12, Zenon DEF ToClient
  <2>2. toClient \in Bytes /\ Len(toClient) \in Nat
    BY LenProperties DEF Piped, Bytes
  <2>3. early \in Nat /\ early + Len(toClient) + 1 \in Nat
    BY <2>2, ConnectionAssumption DEF DialKnown
  <2>4. /\ toClient' \in Bytes /\ Len(toClient') = Len(toClient) + 1
        /\ \A i \in 1..Len(toClient) : toClient'[i] = toClient[i]
        /\ toClient'[Len(toClient) + 1] = early + Len(toClient) + 1
    BY <2>1, <2>2, <2>3, AppendProperties DEF Bytes
  <2>5. \A i \in 1..Len(toClient) : toClient[i] = early + i
    BY DEF Piped
  <2>6. \A i \in 1..Len(toClient') : toClient'[i] = early' + i
    BY <2>1, <2>2, <2>3, <2>4, <2>5
  <2>7. UNCHANGED readVars
    BY <2>1
  <2> QED
    BY <2>1, <2>4, <2>6, <2>7 DEF Piped, Replay
<1>13. CASE Fetched
  <2>1. /\ pc = "request" /\ pc' = "response"
        /\ UNCHANGED <<tunnelVars, readVars, early, method>>
    BY <1>13, Zenon DEF Fetched, ForwardHTTPRequest
  <2> QED
    BY <2>1, PipedKept
<1>14. CASE Handled
  <2>1. /\ UNCHANGED <<tunnelVars, readVars, early, method>>
        /\ pc' = "tunnel" => pc = "tunnel"
        /\ pc \in {"tunnel", "end"} => pc' \in {"tunnel", "end"}
    BY <1>14, HandledMoves
  <2> QED
    BY <2>1, PipedKept
<1>15. CASE SetHeaders \/ WriteHead \/ Copy \/ CopyEnds \/ CopyOwn \/ Flushed
  <2>1. UNCHANGED <<vars, tunnelVars, readVars, socketVars>>
    BY <1>15, Zenon DEF SetHeaders, WriteHead, Copy, CopyEnds, CopyOwn, Flushed
  <2> QED
    BY <2>1, PipedKept
<1>16. CASE Closed
  <2>1. /\ pc = "copy" /\ pc' = "done"
        /\ UNCHANGED <<tunnelVars, readVars, early, method>>
    BY <1>16, Zenon DEF Closed, ResponseForwarded
  <2> QED
    BY <2>1, PipedKept
<1> QED
  BY <1>1, <1>2, <1>3, <1>4, <1>5, <1>6, <1>7, <1>8, <1>9, <1>10, <1>11, <1>12, <1>13,
     <1>14, <1>15, <1>16 DEF ConnNext

\* A connection that has just been accepted.
LEMMA ConnInitInv == ConnInit => ConnInv
<1> SUFFICES ASSUME ConnInit PROVE ConnInv
  OBVIOUS
<1> USE ConnectionAssumption, ReaderAssumption
<1>1. /\ pc = "accept" /\ method = "none" /\ reply = "none" /\ ~failed /\ failed \in BOOLEAN
      /\ ~wroteheaders /\ ~chunking /\ ~ishijacked /\ ~copyFailed /\ ~emptyWrite
      /\ ~made /\ ~overflow
  BY Zenon DEF ConnInit, Init, RW!Init, RR!Init
<1>2. /\ wroteheaders \in BOOLEAN /\ chunking \in BOOLEAN /\ ishijacked \in BOOLEAN
      /\ copyFailed \in BOOLEAN /\ emptyWrite \in BOOLEAN
  BY Zenon DEF ConnInit, RW!Init
<1>3. /\ length = RW!NoLength /\ ulen = RW!NoLength /\ newlen = 0 /\ copying = "no"
      /\ rx = [at |-> "head", left |-> 0, got |-> <<>>] /\ given = <<>>
      /\ taken = 0 /\ readReq = 0 /\ snapshot = 0 /\ swallowed = 0 /\ percent = {}
      /\ whole = <<>> /\ atTarget = <<>> /\ toClient = <<>>
      /\ dial = "no" /\ via = "direct" /\ socket = "none" /\ early = 0 /\ refusal = "none"
  BY Zenon DEF ConnInit, RW!Init, RR!Init, CD!Init
<1>4. <<>> \in Bytes /\ Len(<<>>) = 0
  BY EmptySeq DEF Bytes
<1>5. rx \in Decoders /\ rx.at = "head" /\ rx.left = 0 /\ rx.got = <<>>
  BY <1>3, <1>4 DEF Decoders
<1>6. Places
  BY <1>1, <1>3 DEF Places, Answers, Pages
<1>7. Written
  BY <1>2, <1>3, <1>4, <1>5, Zenon DEF Written
<1>8. Framed
  BY <1>1, <1>3, <1>5 DEF Framed
<1>9. Content /\ Promised
  BY <1>1, <1>3, <1>4 DEF Content, Promised, Answers, Pages
<1>10. DialKnown
  BY <1>3 DEF DialKnown
<1>11. Piped
  <2>1. /\ readReq \in 0..ClientLen /\ percent \subseteq 1..snapshot
        /\ Replay = 0 /\ Len(atTarget) = 0 /\ Len(toClient) = 0
    BY <1>1, <1>3, <1>4 DEF Replay
  <2> QED
    BY <1>1, <1>2, <1>3, <1>4, <2>1 DEF Piped, Plain
<1> QED
  BY <1>6, <1>7, <1>8, <1>9, <1>10, <1>11 DEF ConnInv

\* Every step keeps the invariant.
LEMMA ConnNextInv ==
  ASSUME Inv, RP!Inv, ConnInv, [ConnNext]_connAll
  PROVE  ConnInv'
<1>1. CASE ConnNext
  <2>1. TypeOK /\ Undecided /\ Places /\ Written /\ Framed /\ Content /\ Promised
        /\ DialKnown /\ Piped
    BY DEF Inv, ConnInv
  <2>2. [CD!Next]_socketVars
    <3> USE DEF dialVars
    <3>1. CASE Accepted \/ AcceptedTLS \/ Dropped \/ ReadBody
      BY <3>1, Zenon DEF Accepted, AcceptedTLS, Dropped, ReadBody
    <3>2. CASE ApiSetLength \/ ApiWriteHeader \/ ApiWrite \/ ApiFlush \/ Served
      BY <3>2, Zenon DEF ApiSetLength, ApiWriteHeader, ApiWrite, ApiFlush, Served
    <3>3. CASE DialStep \/ ConnectForwarded \/ RequestForwarded \/ ForwardFails
      BY <3>3, Zenon DEF DialStep, ConnectForwarded, RequestForwarded, ForwardFails
    <3>4. CASE ToTarget \/ ToClient \/ Fetched \/ SetNewBodyLength \/ UseBody \/ Handled
      BY <3>4, Zenon DEF ToTarget, ToClient, Fetched, SetNewBodyLength, UseBody, Handled
    <3>5. CASE SetHeaders \/ WriteHead \/ Copy \/ CopyEnds \/ CopyOwn \/ Flushed \/ Closed
      BY <3>5, Zenon DEF SetHeaders, WriteHead, Copy, CopyEnds, CopyOwn, Flushed, Closed
    <3> QED
      BY <1>1, <3>1, <3>2, <3>3, <3>4, <3>5 DEF ConnNext
  <2>3. Places'
    BY <1>1, <2>1, PlacesStep
  <2>4. Written' /\ Framed'
    BY <1>1, <2>1, FramedStep
  <2>5. Content'
    BY <1>1, <2>1, ContentStep
  <2>6. Promised'
    BY <1>1, <2>1, PromisedStep
  <2>7. DialKnown'
    BY <2>1, <2>2, DialKnownStep
  <2>8. Piped'
    BY <1>1, <2>1, PipedStep
  <2> QED
    BY <2>3, <2>4, <2>5, <2>6, <2>7, <2>8 DEF ConnInv
<1>2. CASE UNCHANGED connAll
  <2> USE DEF connAll, vars, ctxVars, connVars, outVars, answerVars, dialVars, readVars,
          writerVars, readerVars, copyVars, socketVars, tunnelVars
  <2>1. UNCHANGED <<pc, method, reply, failed, early>> /\ UNCHANGED answerVars
        /\ UNCHANGED <<readVars, tunnelVars>> /\ UNCHANGED socketVars
    BY <1>2, Zenon
  <2>2. Places'
    BY <2>1 DEF ConnInv, Places
  <2>3. Written' /\ Framed'
    BY <2>1, FramedKept, Zenon DEF ConnInv, Written
  <2>4. Content'
    BY <2>1, ContentKept DEF ConnInv
  <2>5. Promised' /\ DialKnown'
    BY <2>1 DEF ConnInv, Promised, DialKnown
  <2>6. Piped'
    BY <2>1, PipedKept DEF ConnInv
  <2> QED
    BY <2>2, <2>3, <2>4, <2>5, <2>6 DEF ConnInv
<1> QED
  BY <1>1, <1>2

\* The inductive invariant of a connection's bytes.
LEMMA ConnInvariant == ConnSpec => []ConnInv
<1>1. ConnSpec => []Inv
  BY ConnectionImplementsDispatch, Invariant, PTL
<1>2. ConnSpec => []RP!Inv
  <2>1. RP!ReaderAssumption
    BY ReaderAssumption DEF RP!ReaderAssumption
  <2>2. RP!Spec => []RP!Inv
    BY <2>1, RP!Invariant
  <2> QED
    BY <2>2, ReaderIsRegretable, PTL
<1>3. Inv /\ RP!Inv /\ ConnInv /\ [ConnNext]_connAll => ConnInv'
  BY ConnNextInv
<1> QED
  BY <1>1, <1>2, <1>3, ConnInitInv, PTL DEF ConnSpec

\* The types of a connection: what handlers and HandleHTTP do to a header, a
\* body or a tunnel (ctx.go, dispatcher.go) leaves no state outside them.
THEOREM ConnTypeCorrect == ConnSpec => []ConnTypeOK
<1>1. Inv /\ ConnInv => ConnTypeOK
  <2> SUFFICES ASSUME Inv, ConnInv PROVE ConnTypeOK
    OBVIOUS
  <2>1. rx.at \in {"head", "chunks", "length", "done"} /\ rx.left \in Nat
    BY DEF ConnInv, Written, Decoders
  <2>2. {wroteheaders, chunking, ishijacked, copyFailed, emptyWrite} \subseteq BOOLEAN
    BY Zenon DEF ConnInv, Written
  <2>3. {length, ulen} \subseteq Nat \cup {RW!NoLength}
    BY ReaderAssumption DEF ConnInv, Written, Promised
  <2>4. TypeOK
    BY DEF Inv
  <2>5. /\ readReq \in 0..ClientLen /\ snapshot + swallowed \in 0..readReq
        /\ percent \subseteq 1..snapshot
    BY ConnectionAssumption DEF ConnInv, Piped
  <2> QED
    BY <2>1, <2>2, <2>3, <2>4, <2>5, Zenon DEF ConnInv, Written, Promised, DialKnown, Piped,
                                         ConnTypeOK
<1>2. ConnSpec => []Inv
  BY ConnectionImplementsDispatch, Invariant, PTL
<1> QED
  BY <1>1, <1>2, ConnInvariant, PTL

\* notsodumbresponsewriter.go and ForwardResponse (ctx.go): what the client
\* decodes is what was given, as far as it has come, and what was given is one
\* body, for requests, bodies and buffers of any length.
THEOREM AnswerInOrder == ConnSpec => []InOrder
<1>1. ConnInv => InOrder
  <2> SUFFICES ASSUME ConnInv PROVE InOrder
    OBVIOUS
  <2> DEFINE n == IF Len(rx.got) < Len(Ours) THEN Len(rx.got) ELSE Len(Ours)
  <2>0. rx.got \in Bytes /\ Ours \in Bytes
    BY DEF ConnInv, Written, Decoders, Ours
  <2>1. rx.got \in Bytes /\ Ours \in Bytes /\ Len(rx.got) \in Nat /\ Len(Ours) \in Nat
    BY <2>0, LenProperties DEF Bytes
  <2>2. \/ Within(rx.got, Ours)
        \/ Within(Ours, rx.got) /\ copying = "sent" /\ length > Len(Ours)
    <3>1. CASE ~wroteheaders
      <4>1. rx.got = <<>> /\ Ours = <<>>
        BY <3>1 DEF ConnInv, Places, Framed, Ours
      <4> QED
        BY <2>1, <4>1, EmptySeq DEF Within
    <3>2. CASE wroteheaders
      BY <3>2, Zenon DEF ConnInv, Framed, FramedBy
    <3> QED
      BY <3>1, <3>2
  <2>3. SubSeq(rx.got, 1, n) = SubSeq(Ours, 1, n)
    <3>1. CASE Within(rx.got, Ours)
      <4>1. n = Len(rx.got)
        BY <2>1, <3>1 DEF Within
      <4> QED
        BY <2>1, <3>1, <4>1, WithinSubSeq, Zenon
    <3>2. CASE Within(Ours, rx.got)
      <4>1. n = Len(Ours)
        BY <2>1, <3>2 DEF Within
      <4> QED
        BY <2>1, <3>2, <4>1, WithinSubSeq, Zenon
    <3> QED
      BY <2>2, <3>1, <3>2
  <2>4. Len(rx.got) > n => copying = "sent" /\ length > Len(Ours)
    BY <2>1, <2>2 DEF Within
  <2>5. /\ reply = "upstream" => Follows(given)
        /\ reply \in Pages => given \in {<<>>, Page}
        /\ reply = "own" => given \in {<<>>, OwnBody}
    BY DEF ConnInv, Content
  <2> QED
    BY <2>3, <2>4, <2>5, Zenon DEF InOrder
<1> QED
  BY <1>1, ConnInvariant, PTL

\* Flush (notsodumbresponsewriter.go) and the Content-Length that ForwardResponse
\* keeps or drops (ctx.go): the client has the whole answer and knows its end.
THEOREM EndIsKnown == ConnSpec => []EndKnown
<1>1. ConnInv => EndKnown
  <2> SUFFICES ASSUME ConnInv, copying = "sent",
                      IF reply \in {"none", "api"}
                      THEN length = Len(whole) \/ (length = RW!NoLength /\ ~emptyWrite)
                      ELSE newlen = 0 /\ ~copyFailed
               PROVE  /\ rx.at = "done"
                      /\ rx.got = IF reply \in {"none", "api"} THEN whole ELSE given
                      /\ reply = "upstream" => taken = SourceLen
    BY DEF EndKnown
  <2>1. wroteheaders /\ FramedBy(rx) /\ reply \in Answers \cup {"none", "api"}
    BY DEF ConnInv, Places, Framed
  <2>2. /\ Ours = whole /\ whole \in Bytes /\ rx.got \in Bytes
        /\ reply \notin {"none", "api"} => whole = given
    BY <2>1 DEF ConnInv, Written, Decoders, Content, Ours
  <2>3. Len(rx.got) \in Nat /\ Len(whole) \in Nat /\ rx.left \in Nat
    BY <2>2, LenProperties DEF ConnInv, Written, Decoders, Bytes
  <2>4. reply = "upstream" => taken = SourceLen
    BY DEF ConnInv, Content
  <2>5. length = Len(whole) \/ (length = RW!NoLength /\ ~emptyWrite)
    <3>1. CASE reply \in {"none", "api"}
      BY <3>1
    <3>2. CASE reply \notin {"none", "api"}
      <4>1. length = IF reply = "upstream" /\ ~made THEN ulen ELSE RW!NoLength
        BY <2>1, <3>2 DEF ConnInv, Promised
      <4>2. reply = "upstream" /\ ~made => Len(whole) = SourceLen
        BY <2>2, <2>4 DEF ConnInv, Content
      <4>3. ~emptyWrite
        BY <3>2 DEF ConnInv, Places
      <4> QED
        BY <4>1, <4>2, <4>3 DEF ConnInv, Promised
    <3> QED
      BY <3>1, <3>2
  <2>6. CASE length = RW!NoLength /\ ~emptyWrite
    <3>1. rx.at = "done" /\ rx.got = whole
      BY <2>1, <2>2, <2>6 DEF FramedBy
    <3> QED
      BY <2>2, <2>4, <3>1
  <2>7. CASE length = Len(whole)
    <3>0. length # RW!NoLength
      BY <2>3, <2>7 DEF RW!NoLength
    <3>1. Within(rx.got, whole) /\ rx.left = 0 /\ rx.at = "done"
          /\ Len(rx.got) + rx.left = length
      BY <2>1, <2>2, <2>3, <2>7, <3>0 DEF FramedBy
    <3>2. Len(rx.got) = Len(whole)
      BY <2>3, <2>7, <3>1
    <3>3. rx.got = whole
      BY <2>2, <3>1, <3>2, WithinAll
    <3> QED
      BY <2>2, <2>4, <3>1, <3>3
  <2> QED
    BY <2>5, <2>6, <2>7
<1> QED
  BY <1>1, ConnInvariant, PTL

\* ForwardConnect and ForwardRequest (ctx.go) with the copying of fitter.Fit: the
\* destination gets what was replayed and then the rest in order and once, and so
\* does the client, but for the bytes that a dial through a proxy has lost.
THEOREM TunnelKeepsOrder == ConnSpec => []TunnelInOrder
<1>1. ConnInv => TunnelInOrder
  <2> SUFFICES ASSUME ConnInv PROVE TunnelInOrder
    OBVIOUS
  <2> DEFINE L == Len(atTarget)
             sent == SubSeq(atTarget, Replay + 1, L)
  <2>0. /\ readReq \in Nat /\ snapshot \in Nat /\ swallowed \in Nat /\ Replay \in Nat /\ L \in Nat
        /\ Len(toClient) \in Nat /\ early \in Nat
        /\ atTarget \in Seq(Nat) /\ toClient \in Seq(Nat)
    BY ConnectionAssumption, LenProperties DEF ConnInv, Piped, Replay, Bytes, DialKnown
  <2>1. \A i \in 1..L : IF i <= Replay THEN atTarget[i] = i \/ i \in percent
                        ELSE atTarget[i] = snapshot + swallowed + (i - Replay)
    BY DEF ConnInv, Piped
  <2>2. L >= Replay => readReq = snapshot + swallowed + (L - Replay)
    BY DEF ConnInv, Piped
  <2>3. DOMAIN atTarget = 1..L
    BY <2>0, LenProperties
  <2>4. /\ Len(sent) = IF Replay + 1 <= L THEN L - (Replay + 1) + 1 ELSE 0
        /\ sent \in Seq(Nat)
        /\ \A i \in 1..L - (Replay + 1) + 1 : sent[i] = atTarget[Replay + 1 + i - 1]
    <3>1. \A i \in (Replay + 1)..L : atTarget[i] \in Nat
      BY <2>0, ElementOfSeq
    <3>2. Replay + 1 \in Int /\ L \in Int
      BY <2>0
    <3> QED
      BY <3>1, <3>2, SubSeqProperties
  <2> HIDE DEF sent, L
  <2>5. \A i \in 1..Len(sent) : sent[i] = snapshot + swallowed + i
    BY <2>0, <2>1, <2>4
  <2>6. Follows(sent)
    <3>1. Len(sent) \in Nat
      BY <2>0, <2>4
    <3> SUFFICES ASSUME NEW i \in 1..Len(sent) - 1 PROVE sent[i + 1] = sent[i] + 1
      BY DEF Follows
    <3>2. i \in 1..Len(sent) /\ i + 1 \in 1..Len(sent)
      BY <3>1
    <3>3. /\ sent[i] = snapshot + swallowed + i
          /\ sent[i + 1] = snapshot + swallowed + (i + 1)
      BY <2>5, <3>2
    <3> QED
      BY <2>0, <3>1, <3>3
  <2>7. sent # <<>> => /\ sent[1] = snapshot + swallowed + 1
                       /\ sent[Len(sent)] = readReq
    <3> SUFFICES ASSUME sent # <<>>
                 PROVE  sent[1] = snapshot + swallowed + 1 /\ sent[Len(sent)] = readReq
      OBVIOUS
    <3>1. Len(sent) # 0
      BY <2>4, EmptySeq
    <3>2. L > Replay /\ Len(sent) = L - Replay
      BY <2>0, <2>4, <3>1
    <3>3. 1 \in 1..Len(sent) /\ Len(sent) \in 1..Len(sent)
      BY <2>0, <3>2
    <3>4. /\ sent[1] = snapshot + swallowed + 1
          /\ sent[Len(sent)] = snapshot + swallowed + Len(sent)
      BY <2>5, <3>3
    <3>5. readReq = snapshot + swallowed + Len(sent)
      BY <2>0, <2>2, <3>2
    <3> QED
      BY <3>4, <3>5
  <2>8. \A i \in 1..Len(toClient) : toClient[i] = early + i
    BY DEF ConnInv, Piped
  <2>9. Follows(toClient)
    <3> SUFFICES ASSUME NEW i \in 1..Len(toClient) - 1 PROVE toClient[i + 1] = toClient[i] + 1
      BY DEF Follows
    <3>1. i \in 1..Len(toClient) /\ i + 1 \in 1..Len(toClient)
      BY <2>0
    <3>2. toClient[i] = early + i /\ toClient[i + 1] = early + (i + 1)
      BY <2>8, <3>1
    <3> QED
      BY <2>0, <3>2
  <2>10. toClient # <<>> => toClient[1] = 1 \/ via # "direct"
    <3>1. toClient # <<>> => Len(toClient) # 0
      BY <2>0, EmptySeq
    <3>2. early # 0 => via # "direct"
      BY DEF ConnInv, DialKnown
    <3> QED
      BY <2>0, <2>8, <3>1, <3>2
  <2>11. \A i \in DOMAIN atTarget : i <= Replay => atTarget[i] = i \/ i \in percent
    BY <2>1, <2>3
  <2> QED
    BY <2>6, <2>7, <2>9, <2>10, <2>11, Zenon DEF TunnelInOrder, Replay, sent, L
<1> QED
  BY <1>1, ConnInvariant, PTL
=============================================================================
