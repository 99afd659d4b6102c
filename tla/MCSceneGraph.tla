----------------------------- MODULE MCSceneGraph -----------------------------
(* TLC instance of SceneGraph. *)
EXTENDS SceneGraph, TLC

\* Entities that are created once are interchangeable.
Symmetry == Permutations(Entity \ Recreated)
=============================================================================
