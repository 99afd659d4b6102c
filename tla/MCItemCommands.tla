--------------------------- MODULE MCItemCommands ---------------------------
(* TLC instance: a tool and a tome, two players, one chest, one station.  *)
EXTENDS ItemCommands, TLC

CONSTANTS tool, tome

MCItem == {tool, tome}
MCGear == {tool}
MCTome == {tome}
MCUsable == {tool}
Symmetry == Permutations(Player)
=============================================================================
