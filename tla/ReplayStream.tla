---------------------------- MODULE ReplayStream ----------------------------
(***************************************************************************)
(* What a RegretableReader promises: a stream whose reader may go back to  *)
(* a mark, for as long as no more than Size bytes lie behind it.  A byte   *)
(* is its position in the source.                                          *)
(***************************************************************************)
EXTENDS Integers, StreamSizes

VARIABLES far,    \* bytes taken from the source
          cur,    \* bytes before the next one to be delivered
          mark,   \* where Regret goes back to
          mode,   \* "replay" while the mark can be gone back to, else "direct"
          out     \* what the last operation delivered

vars == <<far, cur, mark, mode, out>>

Larger(a, b) == IF a < b THEN b ELSE a

Init == far = 0 /\ cur = 0 /\ mark = 0 /\ mode = "direct" /\ out = <<>>

\* Start to remember, from here on.
Open ==
  /\ cur = far
  /\ mark' = far
  /\ mode' = "replay"
  /\ UNCHANGED <<far, cur>>
  /\ out' = <<>>

\* Deliver the next n bytes, in order and without a gap.
Read(n) ==
  /\ cur + n <= SourceLen
  /\ out' = [i \in 1..n |-> cur + i]
  /\ cur' = cur + n
  /\ far' = Larger(far, cur + n)
  /\ mode' = IF mode = "replay" /\ Larger(far, cur + n) - mark <= Size
               THEN "replay" ELSE "direct"
  /\ mark' = IF mode' = "replay" THEN mark ELSE far'

Regret ==
  /\ mode = "replay"
  /\ cur' = mark
  /\ out' = <<>>
  /\ UNCHANGED <<far, mark, mode>>

\* The mark moves up to the end of what was taken, and the reader with it.
Forget ==
  /\ mode = "replay"
  /\ mark' = far
  /\ cur' = far
  /\ out' = <<>>
  /\ UNCHANGED <<far, mode>>

Next == Open \/ Regret \/ Forget \/ \E n \in 0..SourceLen : Read(n)

Spec == Init /\ [][Next]_vars
=============================================================================
