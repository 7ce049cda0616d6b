----------------------------- MODULE MCConnection -----------------------------
(* Instance of Connection for TLC: lengths and chains come from the .cfg.      *)
EXTENDS Connection
=============================================================================
