------------------------------ MODULE MCNonHTTP ------------------------------
(* Instances of NonHTTPRoundTripper for TLC.                                *)
EXTENDS NonHTTPRoundTripper
=============================================================================
