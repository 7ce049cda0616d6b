----------------------------- MODULE MCKeepAlive -----------------------------
(* Instances of KeepAliveTransport for TLC.                                 *)
EXTENDS KeepAliveTransport, TLC

CONSTANTS u1, u2, u3, c1, c2, k1, k2

TwoCallers   == {u1, u2}
ThreeCallers == {u1, u2, u3}
TwoConns     == {c1, c2}
OneKey       == {k1}
TwoKeys      == {k1, k2}

\* Callers are interchangeable, and so are connections and cache keys.
Interchangeable == Permutations(Callers) \cup Permutations(Conns) \cup Permutations(Keys)
=============================================================================
