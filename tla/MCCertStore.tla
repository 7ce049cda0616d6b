----------------------------- MODULE MCCertStore -----------------------------
(* Instances of CertStore for TLC.                                          *)
EXTENDS CertStore, TLC

CONSTANTS w1, w2, h1, h2, i1, i2, i3, i4

TwoWorkers   == {w1, w2}
OneHost      == {h1}
TwoHosts     == {h1, h2}
TwoInfos     == {i1, i2}
ThreeInfos   == {i1, i2, i3}
FourInfos    == {i1, i2, i3, i4}
LocalOnes    == {h2}
NoHosts      == {}

\* One certificate that does not verify, one that does for an hour.
BadAndGood   == {-1, 1}

\* The same, but the good one only lasts for the hour it is fetched in.
BadAndShort  == {-1, 0}

WorkerInfoSymmetry == Permutations(Workers) \cup Permutations(Infos)
=============================================================================
