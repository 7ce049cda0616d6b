-------------------------- MODULE RegretableReader --------------------------
(***************************************************************************)
(* regretable/regretreader.go: a reader that buffers what it takes from    *)
(* its source until Regret or Forget.  Before it is made, and after its    *)
(* buffer has overflowed, reads go to the source.  A byte is its position  *)
(* in the source; buf keeps stale bytes from w on, as the array does.      *)
(***************************************************************************)
EXTENDS Integers, StreamSizes

VARIABLES made,      \* NewRegretableReader has wrapped the source
          taken,       \* bytes taken from the source
          buf, r, w, overflow,
          out        \* what the last call delivered

vars == <<made, taken, buf, r, w, overflow, out>>

Smaller(a, b) == IF a < b THEN a ELSE b

Init ==
  /\ made = FALSE
  /\ taken = 0
  /\ buf = [i \in 1..Size |-> 0]
  /\ r = 0 /\ w = 0
  /\ overflow = FALSE
  /\ out = <<>>

NewRegretableReader ==
  /\ ~made
  /\ made' = TRUE
  /\ out' = <<>>
  /\ UNCHANGED <<taken, buf, r, w, overflow>>

\* The source gives its next n bytes.
Source(n) ==
  /\ n <= SourceLen - taken
  /\ out' = [i \in 1..n |-> taken + i]
  /\ taken' = taken + n

ReadDirect(n) ==
  /\ ~made \/ overflow
  /\ Source(n)
  /\ UNCHANGED <<made, buf, r, w, overflow>>

\* Mutant: the buffer is replayed from its start, whatever was read again.
ReadBufferedFromStart(k) ==
  LET n == Smaller(k, w - r) IN
  /\ made /\ ~overflow
  /\ r < w
  /\ out' = [i \in 1..n |-> buf[i]]
  /\ r' = r + n
  /\ UNCHANGED <<made, taken, buf, w, overflow>>

\* n = copy(p, buf[r:w]) for a p with room for k bytes.
ReadBuffered(k) ==
  LET n == Smaller(k, w - r) IN
  /\ made /\ ~overflow
  /\ r < w
  /\ out' = [i \in 1..n |-> buf[r + i]]
  /\ r' = r + n
  /\ UNCHANGED <<made, taken, buf, w, overflow>>

\* A read of n bytes from the source, of which as many are kept as fit.
ReadSource(n) ==
  LET bn == Smaller(n, Size - w) IN
  /\ made /\ ~overflow
  /\ r >= w
  /\ Source(n)
  /\ buf' = [i \in 1..Size |-> IF w < i /\ i <= w + bn THEN taken + (i - w) ELSE buf[i]]
  /\ w' = w + bn
  /\ r' = w + n
  /\ overflow' = IF bn < n THEN TRUE ELSE overflow
  /\ UNCHANGED made

Read(k) == \/ ReadBuffered(k)
           \/ \E n \in 0..k : ReadDirect(n) \/ ReadSource(n)

\* After an overflow Regret and Forget panic.
Regret ==
  /\ made /\ ~overflow
  /\ r' = 0
  /\ out' = <<>>
  /\ UNCHANGED <<made, taken, buf, w, overflow>>

Forget ==
  /\ made /\ ~overflow
  /\ r' = 0 /\ w' = 0
  /\ out' = <<>>
  /\ UNCHANGED <<made, taken, buf, overflow>>

Next == \/ NewRegretableReader \/ Regret \/ Forget
        \/ \E k \in 0..SourceLen : Read(k)

Spec == Init /\ [][Next]_vars
-----------------------------------------------------------------------------
\* Where the reader stands in the stream.
Stream == INSTANCE ReplayStream WITH
            far    <- taken,
            cur    <- IF ~made \/ overflow THEN taken ELSE taken - (w - r),
            mark   <- IF ~made \/ overflow THEN taken ELSE taken - w,
            mode   <- IF ~made \/ overflow THEN "direct" ELSE "replay"

\* However reads, Regret and Forget follow each other, the bytes delivered are
\* the source's next ones: a Regret replays exactly what was read since the
\* mark, an overflow in the middle of a read loses none, and stale bytes of the
\* buffer never come out.
ReplaysStream == Stream!Spec
=============================================================================
