---------------------------- MODULE MCTileSessions ----------------------------
(* TLC instances of TileSessions.  Each environment is a set of faults that   *)
(* may all occur in one behaviour.                                            *)
EXTENDS TileSessions, TLC

Everything == SUBSET Fault

\* No fault at all.
NoFault == {{}}
=============================================================================
