----------------------------- MODULE ItemLedger -----------------------------
(***************************************************************************)
(* What the item commands of a tile promise about unique items: each has   *)
(* one home at a time, and in one tick it takes at most one hop along the  *)
(* routes below.  In particular no item passes from one player to another  *)
(* without lying on the ground, in a chest or on a workbench in between,   *)
(* and what is gone stays gone.  An item whose moves collided in one tick  *)
(* is astray: nothing more is promised of it.                              *)
(***************************************************************************)
CONSTANTS Item, Player, Chest, Station

VARIABLE home

Carried == {"inventory", "equipment"} \X Player
Store == ({"chest"} \X Chest) \cup ({"station"} \X Station)
Nowhere == {<<"unborn">>, <<"gone">>, <<"astray">>}
Ground == <<"ground">>
Home == Carried \cup Store \cup Nowhere \cup {Ground}

\* The hops a tick may make an item take.
Route(from, to) ==
    \/ from = <<"unborn">> /\ to \in Carried \cup {Ground}
    \/ from \in Carried /\ to \in Carried /\ from[2] = to[2]
    \/ from \in Carried /\ to = Ground
    \/ from[1] = "inventory" /\ to \in Store
    \/ from \in Store \cup {Ground} /\ to[1] = "inventory"
    \/ from \in Carried \cup Store \cup {Ground} /\ to = <<"gone">>
    \/ from # <<"gone">> /\ to = <<"astray">>

Init == home = [i \in Item |-> <<"unborn">>]

Hop == /\ home' \in [Item -> Home]
       /\ \A i \in Item : home'[i] = home[i] \/ Route(home[i], home'[i])

Spec == Init /\ [][Hop]_home
=============================================================================
