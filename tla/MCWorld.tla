------------------------------- MODULE MCWorld -------------------------------
(* TLC instance of World: two data values and one mutation that flips them, *)
(* so that the place of a mutation in the log shows in its result.          *)
EXTENDS World, TLC

CONSTANTS v1, v2, flip

MCValue == {v1, v2}
MCMutation == {flip}
MCEffect == flip :> (v1 :> v2 @@ v2 :> v1)
Symmetry == Permutations(Entity)
=============================================================================
