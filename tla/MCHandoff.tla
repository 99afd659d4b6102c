----------------------------- MODULE MCHandoff -----------------------------
(* TLC instance: one player, two tiles; each event alone, and any two of   *)
(* those under which a player still has one body.                          *)
EXTENDS Handoff

Benign == Event \ Copying
MCEnvironments == {{e} : e \in Event} \cup {{e, f} : e, f \in Benign} \cup {{}}
NoEvent == {{}}
=============================================================================
