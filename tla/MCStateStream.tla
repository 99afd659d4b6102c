--------------------------- MODULE MCStateStream ---------------------------
(* TLC instance: a player, two chunks of which one goes out per message,   *)
(* and one other entity.                                                   *)
EXTENDS StateStream
=============================================================================
