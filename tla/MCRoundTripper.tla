---------------------------- MODULE MCRoundTripper ----------------------------
(* Instances of RoundTripper for TLC.                                       *)
EXTENDS RoundTripper, TLC

CONSTANTS r1, r2, q1, q2, f1, f2

TwoRequests == {r1, r2}
TwoCommands == {q1, q2}
TwoFiles    == {f1, f2}
OneFile     == {f1}

\* q1 asks for a trace, q2 only for skipping; q2 matches the first request only.
MCMatches   == (q1 :> {r1, r2}) @@ (q2 :> {r1})
MCModifying == {q1}

Cloaked == [own |-> FALSE, fake |-> FALSE, private |-> TRUE, log |-> FALSE]
MCSettings == {Cloaked, [Cloaked EXCEPT !.fake = TRUE],
               [Cloaked EXCEPT !.log = TRUE],
               [own |-> TRUE, fake |-> FALSE, private |-> FALSE, log |-> TRUE]}
=============================================================================
