------------------------------ MODULE SceneGraph ------------------------------
(***************************************************************************)
(* The scene graph of engine/src/world.ts (T-215): the Parent component of *)
(* each entity, the reverse index childIndex that getChildren and          *)
(* descendants read, and the entity life cycle that both have to follow.   *)
(* Buffs are children of the entity they act on (resolvers/buff.ts),       *)
(* prefab parts are children of their root (engine/src/prefab.ts); here    *)
(* setParent is called with any child and any parent.                      *)
(*                                                                         *)
(* An id is a fresh UUID that is created once, or a player id, which the   *)
(* tile creates again each time the player is spawned.                     *)
(***************************************************************************)
EXTENDS FiniteSets

CONSTANTS
    Entity,      \* entity ids
    Recreated,   \* the ids that may be created again: player ids
    None         \* "no parent"

ASSUME SceneAssumption ==
    /\ Recreated \subseteq Entity
    /\ None \notin Entity

VARIABLES
    store,        \* ids in the store map
    used,         \* ids that have ever been created
    tombstones,   \* destroyed this tick, not yet purged
    parent,       \* parent[e]: Parent component of e, None if absent or null
    childIndex    \* childIndex[e]: set the reverse index keeps for e

vars == <<store, used, tombstones, parent, childIndex>>

\* Everything reachable from r along F, r excluded unless it is on a cycle:
\* the least set that holds F[r] and is closed under F.
Reach(F, r) ==
    {x \in Entity :
        \A S \in SUBSET Entity :
            F[r] \subseteq S /\ (\A y \in S : F[y] \subseteq S) => x \in S}

\* The hierarchy as the Parent components tell it.
Kids == [p \in Entity |-> {c \in store : parent[c] = p}]

\* The hierarchy as descendants() sees it.
Descendants(r) == Reach(childIndex, r)

Init ==
    /\ store = {}
    /\ used = {}
    /\ tombstones = {}
    /\ parent = [e \in Entity |-> None]
    /\ childIndex = [e \in Entity |-> {}]

Create(e) ==
    /\ e \notin store
    /\ e \in used => e \in Recreated
    /\ store' = store \cup {e}
    /\ used' = used \cup {e}
    /\ UNCHANGED <<tombstones, parent, childIndex>>

\* destroy(): the entity alone, as the session layer does with a player.  It
\* does not ask whether the id is in the store.
Destroy(e) ==
    /\ tombstones' = tombstones \cup {e}
    /\ UNCHANGED <<store, used, parent, childIndex>>

\* The walk of descendants() goes on for ever when it meets a cycle.
WalkEnds(r) == \A e \in {r} \cup Descendants(r) : e \notin Descendants(e)

\* Mutant: only the direct children go with their parent.
DestroyChildren(r) ==
    /\ WalkEnds(r)
    /\ tombstones' = tombstones \cup childIndex[r] \cup {r}
    /\ UNCHANGED <<store, used, parent, childIndex>>

DestroySubtree(r) ==
    /\ WalkEnds(r)
    /\ tombstones' = tombstones \cup Descendants(r) \cup {r}
    /\ UNCHANGED <<store, used, parent, childIndex>>

\* What a caller can name: nothing, an id that was created, or a player id,
\* which the tile does not make.
Named(p) == p \in {None} \cup used \cup Recreated

\* Mutant: a reparented child stays in the child set of its old parent.
SetParentKeepsOld(child, p) ==
    /\ child \in store /\ Named(p)
    /\ parent[child] # p
    /\ parent' = [parent EXCEPT ![child] = p]
    /\ childIndex' = [e \in Entity |->
                        IF e = p THEN childIndex[e] \cup {child} ELSE childIndex[e]]
    /\ UNCHANGED <<store, used, tombstones>>

\* Mutant: the child is only added to a child set that already has members.
SetParentNoNewSet(child, p) ==
    /\ child \in store /\ Named(p)
    /\ parent[child] # p
    /\ parent' = [parent EXCEPT ![child] = p]
    /\ childIndex' = [e \in Entity |->
                        IF e = p /\ childIndex[e] # {} THEN childIndex[e] \cup {child}
                        ELSE IF e = parent[child] THEN childIndex[e] \ {child}
                        ELSE childIndex[e]]
    /\ UNCHANGED <<store, used, tombstones>>

\* setParent(child, p), immediate.  It only asks whether the child is in the
\* store: p may be gone, or be the child or below it.  A parent that is already
\* set is left alone, index included.
SetParent(child, p) ==
    /\ child \in store /\ Named(p)
    /\ parent[child] # p
    /\ parent' = [parent EXCEPT ![child] = p]
    /\ childIndex' = [e \in Entity |->
                        IF e = p THEN childIndex[e] \cup {child}
                        ELSE IF e = parent[child] THEN childIndex[e] \ {child}
                        ELSE childIndex[e]]
    /\ UNCHANGED <<store, used, tombstones>>

\* Mutant: the purge leaves the components of the destroyed behind.
PurgeKeepsComponents ==
    /\ tombstones # {}
    /\ store' = store \ tombstones
    /\ tombstones' = {}
    /\ childIndex' = [e \in Entity |->
                        IF e \in tombstones THEN {} ELSE childIndex[e] \ tombstones]
    /\ UNCHANGED <<used, parent>>

\* The purge of applyChangeset(): each destroyed entity leaves the child set
\* of its parent, and its own child set is dropped.  Children that were not
\* destroyed keep their Parent component.
Purge ==
    /\ tombstones # {}
    /\ store' = store \ tombstones
    /\ tombstones' = {}
    /\ parent' = [e \in Entity |-> IF e \in tombstones THEN None ELSE parent[e]]
    /\ childIndex' = [e \in Entity |->
                        IF e \in tombstones THEN {}
                        ELSE {c \in childIndex[e] :
                                ~(c \in tombstones /\ parent[c] = e)}]
    /\ UNCHANGED used

Next ==
    \/ \E e \in Entity : Create(e) \/ Destroy(e) \/ DestroySubtree(e)
    \/ \E c \in Entity, p \in Entity \cup {None} : SetParent(c, p)
    \/ Purge

Spec == Init /\ [][Next]_vars

-----------------------------------------------------------------------------
\* Every variable has its type, and an id outside the store has no components.
TypeOK ==
    /\ store \in SUBSET Entity
    /\ used \in SUBSET Entity
    /\ store \subseteq used
    /\ tombstones \in SUBSET Entity
    /\ parent \in [Entity -> Entity \cup {None}]
    /\ \A e \in Entity \ store : parent[e] = None
    /\ childIndex \in [Entity -> SUBSET Entity]

\* getChildren(p) never returns an entity that is gone or that belongs to
\* another parent, through any sequence of reparenting, destroys in either
\* order and re-creation of a parent's id.
ChildIndexSound ==
    \A p \in Entity : \A c \in childIndex[p] : c \in store /\ parent[c] = p

\* An entity whose Parent component names an entity of the store is listed
\* among its children ("Scene-graph reverse index: parent entity -> its direct
\* children.  Maintained by setParent and the destroy purge").
ChildIndexComplete ==
    \A c, p \in store : parent[c] = p => c \in childIndex[p]

\* The same for parents whose id is never created again: once linked, a child
\* stays listed until it is reparented or one of the two is purged.
FreshParentsComplete ==
    \A c \in store, p \in store \ Recreated : parent[c] = p => c \in childIndex[p]

\* The child index agrees with the Parent components: it lists nothing else,
\* and under a fresh id everything.
ChildIndexExact == ChildIndexSound /\ FreshParentsComplete

\* The hierarchy below fresh ids: what hangs under a player may not be found.
FreshKids == [p \in Entity |-> IF p \in Recreated THEN {} ELSE Kids[p]]

\* destroySubtree(r) tombstones every entity whose chain of Parent components
\* leads to r, although it walks the child index instead ("Tombstone root and
\* its entire subtree"), unless the chain passes through an id that was
\* created again.
TeardownWhole ==
    [][\A r \in store :
          DestroySubtree(r) => Reach(FreshKids, r) \subseteq tombstones']_vars
=============================================================================
