--------------------------- MODULE MCServiceLinks ---------------------------
(* TLC instance.                                                           *)
EXTENDS ServiceLinks
=============================================================================
