--------------------------- MODULE ResponseWriter ---------------------------
(***************************************************************************)
(* notsodumbresponsewriter.go, and the client that decodes what it writes. *)
(* Header, chunk size, data and line ends of one call go out together:     *)
(* one goroutine writes.  A byte is a number, and LineEnd are the two      *)
(* bytes the writer adds of its own accord.                                *)
(***************************************************************************)
EXTENDS Integers, Sequences

VARIABLES
  wroteheaders, chunking, ishijacked,
  length,  \* the Content-Length in ResponseHeader, or NoLength
  rx       \* the client's decoder: what it is in, bytes it expects, its body

vars == <<wroteheaders, chunking, ishijacked, length, rx>>

NoLength == -1  \* no Content-Length header
LineEnd  == <<0, 0>>

Init ==
  /\ wroteheaders = FALSE /\ chunking = FALSE /\ ishijacked = FALSE
  /\ length = NoLength
  /\ rx = [at |-> "head", left |-> 0, got |-> <<>>]

-----------------------------------------------------------------------------
(* The client.                                                             *)

\* The header says how the body ends.
Begin(x) ==
  IF length = NoLength THEN [x EXCEPT !.at = "chunks"]
  ELSE [x EXCEPT !.at = IF length = 0 THEN "done" ELSE "length", !.left = length]

\* A chunk; the empty one ends the body.
Chunk(x, b) ==
  IF x.at = "chunks" THEN [x EXCEPT !.got = @ \o b,
                                    !.at = IF b = <<>> THEN "done" ELSE "chunks"]
  ELSE x

\* Bytes without a frame: as many as the header promised.
Bytes(x, b) ==
  LET n == IF Len(b) < x.left THEN Len(b) ELSE x.left IN
  IF x.at = "length" THEN [x EXCEPT !.got = @ \o SubSeq(b, 1, n), !.left = @ - n,
                                    !.at = IF n = x.left THEN "done" ELSE "length"]
  ELSE x

-----------------------------------------------------------------------------
(* The writer.                                                             *)

\* Header().Set and Del, and copyHeaders.
SetLength(n) ==
  /\ length' = n
  /\ UNCHANGED <<wroteheaders, chunking, ishijacked, rx>>

\* What WriteHeader does, and what the client has then: nothing when hijacked
\* or when the headers are out.
Headers ==
  IF ishijacked \/ wroteheaders THEN UNCHANGED <<wroteheaders, chunking>>
  ELSE wroteheaders' = TRUE /\ chunking' = (length = NoLength)

Headed == IF ishijacked \/ wroteheaders THEN rx ELSE Begin(rx)

WriteHeader ==
  /\ Headers
  /\ rx' = Headed
  /\ UNCHANGED <<ishijacked, length>>

\* Mutant: the first write goes out before it is known to be chunked.
WriteFirstUnframed(b) ==
  /\ Headers
  /\ rx' = IF ~ishijacked /\ chunking THEN Chunk(Headed, b) ELSE Bytes(Headed, b)
  /\ UNCHANGED <<ishijacked, length>>

Write(b) ==
  /\ Headers
  /\ rx' = IF ~ishijacked /\ chunking' THEN Chunk(Headed, b) ELSE Bytes(Headed, b)
  /\ UNCHANGED <<ishijacked, length>>

\* Mutant: a chunked body is left without its last chunk.
FlushPlain ==
  /\ ~ishijacked
  /\ Headers
  /\ rx' = Bytes(Headed, LineEnd)
  /\ UNCHANGED <<ishijacked, length>>

\* A chunked body gets its last chunk; a body with a length gets a line end.
Flush ==
  /\ ~ishijacked
  /\ Headers
  /\ rx' = IF chunking' THEN Chunk(Headed, <<>>) ELSE Bytes(Headed, LineEnd)
  /\ UNCHANGED <<ishijacked, length>>

Hijack ==
  /\ ishijacked' = TRUE
  /\ UNCHANGED <<wroteheaders, chunking, length, rx>>
=============================================================================
