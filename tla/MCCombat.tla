------------------------------- MODULE MCCombat -------------------------------
(* The TLC instance of Combat.  Durations are scaled down, their order kept.  *)
EXTENDS Combat

Durations == <<2, 2, 1>>
Plays == [hit_front |-> 2, stagger_light |-> 2, stagger_heavy |-> 3, death |-> 4]
=============================================================================
