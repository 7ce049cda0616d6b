----------------------------- MODULE StreamSizes -----------------------------
(* The lengths that RegretableReader, ReplayStream and Connection share.      *)
EXTENDS Integers

CONSTANTS Size,      \* len(buf) of a RegretableReader
          SourceLen  \* bytes its source ever gives

ASSUME ReaderAssumption == Size \in Nat /\ SourceLen \in Nat
=============================================================================
