---------------------------- MODULE PlayerTravels ----------------------------
(***************************************************************************)
(* What crossing between tiles is to a player, with no requests, copies or *)
(* endpoints: a body is at one place, goes with all its changes to another *)
(* tile in one step, and stays in the world while it is played.  A tile    *)
(* that restarts ends lives, and may let one come back that was on its way *)
(* when it did; it never lets an older state come back.                    *)
(***************************************************************************)
EXTENDS Naturals

CONSTANTS Player, Tile, None

VARIABLES
    vouched,   \* what follows is promised; once it is not, it never is again
    restarts,  \* tiles may restart
    playing,   \* players whose client is served or on its way to be
    place,     \* place[p]: the tile p's body stands on, or None
    made       \* made[p]: changes made to p's body, in its last life if it has none

vars == <<vouched, restarts, playing, place, made>>

Still(p) == place'[p] = place[p] /\ made'[p] = made[p]

Act(p) ==
    /\ p \in playing
    /\ place[p] # None
    /\ place'[p] = place[p]
    /\ made'[p] = made[p] + 1

Travel(p) ==
    /\ place[p] # None
    /\ place'[p] \in Tile
    /\ made'[p] = made[p]

\* A player without a body gets a fresh one by joining.
Appear(p) ==
    /\ place[p] = None
    /\ p \in playing'
    /\ place'[p] \in Tile
    /\ made'[p] = 0

Vanish(p) ==
    /\ place[p] # None
    /\ p \notin playing \/ restarts
    /\ place'[p] = None
    /\ made'[p] = made[p]

\* The body was on its way when the tile it left restarted.
Recover(p) ==
    /\ restarts
    /\ place[p] = None
    /\ place'[p] \in Tile
    /\ made'[p] = made[p]

Init ==
    /\ vouched \in BOOLEAN
    /\ restarts \in BOOLEAN
    /\ playing = {}
    /\ place = [p \in Player |-> None]
    /\ made = [p \in Player |-> 0]

Next ==
    vouched' =>
        /\ vouched
        /\ restarts' = restarts
        /\ \A p \in Player :
              Still(p) \/ Act(p) \/ Travel(p) \/ Appear(p) \/ Vanish(p) \/ Recover(p)

Spec == Init /\ [][Next]_vars
=============================================================================
