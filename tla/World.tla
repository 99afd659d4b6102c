-------------------------------- MODULE World --------------------------------
(***************************************************************************)
(* The component store of the tile server's ECS: engine/src/world.ts.      *)
(*                                                                         *)
(* During a tick the systems read committed state and queue their writes   *)
(* (set / mutate / remove) on one ordered log; applyChangeset() walks the  *)
(* log over a working view, commits one net result per (entity,            *)
(* component) key, purges the destroyed entities and returns the changeset *)
(* from which the deltas to the clients are built.  create, write and      *)
(* erase bypass the log.  Everything runs on one thread; the walk is cut   *)
(* into one step per operation so that the log can be followed.            *)
(*                                                                         *)
(* pendingDestroys always equals tombstones (both are added to by destroy  *)
(* and emptied by the purge), so one variable stands for both.  Component  *)
(* versions only count writes and are left out.                            *)
(***************************************************************************)
EXTENDS Naturals, Sequences, FiniteSets

CONSTANTS
    Entity,      \* entity ids
    Component,   \* component tokens
    Value,       \* component data, as far as an operation can tell
    Mutation,    \* the functions systems hand to mutate()
    Effect,      \* what each of them does: [Mutation -> [Value -> Value]]
    Absent,      \* "this entity does not have this component"
    Untouched,   \* "no working slot for this key yet"
    MaxOps       \* bound: operations queued in one tick

ASSUME WorldAssumption ==
    /\ Effect \in [Mutation -> [Value -> Value]]
    /\ Absent \notin Value
    /\ Untouched \notin Value \cup {Absent}
    /\ MaxOps \in Nat

VARIABLES
    store,           \* ids with an entry in the store map
    tombstones,      \* destroyed this tick, not yet purged
    data,            \* data[e][c]: committed component data
    componentIndex,  \* componentIndex[c]: the reverse index behind query()
    pendingOps,      \* the tick's operation log, in push order
    working,         \* working[e][c]: slot of the walk in progress
    applied,         \* the changeset applyChangeset() returned
    phase            \* "tick", "walk" (log being walked), "publish"

vars == <<store, tombstones, data, componentIndex, pendingOps, working,
          applied, phase>>

Stored == Value \cup {Absent}
Key == Entity \X Component

Op == [kind : {"set"}, entity : Entity, comp : Component, arg : Value]
        \cup [kind : {"mutate"}, entity : Entity, comp : Component, arg : Mutation]
        \cup [kind : {"remove"}, entity : Entity, comp : Component, arg : {Absent}]

NoComponents == [c \in Component |-> Absent]
NoSlots == [e \in Entity |-> [c \in Component |-> Untouched]]
NoChanges == [sets |-> {}, removals |-> {}, destroys |-> {}]

IsAlive(e) == e \in store /\ e \notin tombstones

Has(e, c) == data[e][c] # Absent

Init ==
    /\ store = {}
    /\ tombstones = {}
    /\ data = [e \in Entity |-> NoComponents]
    /\ componentIndex = [c \in Component |-> {}]
    /\ pendingOps = <<>>
    /\ working = NoSlots
    /\ applied = NoChanges
    /\ phase = "tick"

-----------------------------------------------------------------------------
(* Immediate operations.  create() of an id that is in the store, alive or *)
(* tombstoned, changes nothing.                                            *)

Create(e) ==
    /\ phase = "tick"
    /\ e \notin store
    /\ store' = store \cup {e}
    /\ UNCHANGED <<tombstones, data, componentIndex, pendingOps, working,
                   applied, phase>>

\* destroy() does not ask whether the id is in the store.
Destroy(e) ==
    /\ phase = "tick"
    /\ tombstones' = tombstones \cup {e}
    /\ UNCHANGED <<store, data, componentIndex, pendingOps, working, applied,
                   phase>>

Write(e, c, v) ==
    /\ phase = "tick"
    /\ e \in store
    /\ data' = [data EXCEPT ![e][c] = v]
    /\ componentIndex' = [componentIndex EXCEPT
           ![c] = IF Has(e, c) THEN @ ELSE @ \cup {e}]
    /\ UNCHANGED <<store, tombstones, pendingOps, working, applied, phase>>

\* Mutant: erase() forgets the reverse index.
EraseKeepsIndex(e, c) ==
    /\ phase = "tick"
    /\ e \in store
    /\ Has(e, c)
    /\ data' = [data EXCEPT ![e][c] = Absent]
    /\ UNCHANGED <<store, tombstones, componentIndex, pendingOps, working,
                   applied, phase>>

Erase(e, c) ==
    /\ phase = "tick"
    /\ e \in store
    /\ Has(e, c)
    /\ data' = [data EXCEPT ![e][c] = Absent]
    /\ componentIndex' = [componentIndex EXCEPT ![c] = @ \ {e}]
    /\ UNCHANGED <<store, tombstones, pendingOps, working, applied, phase>>

-----------------------------------------------------------------------------
(* Deferred operations: set(), mutate() and remove() check nothing, not    *)
(* even that the entity exists.                                            *)

Enqueue(op) ==
    /\ phase = "tick"
    /\ Len(pendingOps) < MaxOps
    /\ pendingOps' = Append(pendingOps, op)
    /\ UNCHANGED <<store, tombstones, data, componentIndex, working, applied,
                   phase>>

-----------------------------------------------------------------------------
(* applyChangeset() *)

BeginApply ==
    /\ phase = "tick"
    /\ phase' = "walk"
    /\ UNCHANGED <<store, tombstones, data, componentIndex, pendingOps,
                   working, applied>>

\* Mutant: the working slot is not seeded from committed state.
SlotUnseeded(e, c) == working[e][c]

\* The slot's content, seeded from committed state on first touch.
SlotOf(e, c) == IF working[e][c] = Untouched THEN data[e][c] ELSE working[e][c]

\* What an operation makes of the value found at its point of the walk.
Outcome(op, current) ==
    CASE op.kind = "set"    -> op.arg
      [] op.kind = "remove" -> Absent
      [] op.kind = "mutate" -> IF current = Absent THEN Absent
                               ELSE Effect[op.arg][current]

SkipOp ==
    /\ phase = "walk"
    /\ pendingOps # <<>>
    /\ ~IsAlive(Head(pendingOps).entity)
    /\ pendingOps' = Tail(pendingOps)
    /\ UNCHANGED <<store, tombstones, data, componentIndex, working, applied,
                   phase>>

\* Mutant: every operation starts from the committed value, so that the
\* contributions of one tick overwrite each other (the behaviour before T-249).
WalkOpOnCommitted ==
    /\ phase = "walk"
    /\ pendingOps # <<>>
    /\ IsAlive(Head(pendingOps).entity)
    /\ LET op == Head(pendingOps)
       IN working' = [working EXCEPT ![op.entity][op.comp] =
                         Outcome(op, data[op.entity][op.comp])]
    /\ pendingOps' = Tail(pendingOps)
    /\ UNCHANGED <<store, tombstones, data, componentIndex, applied, phase>>

WalkOp ==
    /\ phase = "walk"
    /\ pendingOps # <<>>
    /\ IsAlive(Head(pendingOps).entity)
    /\ LET op == Head(pendingOps)
       IN working' = [working EXCEPT ![op.entity][op.comp] =
                         Outcome(op, SlotOf(op.entity, op.comp))]
    /\ pendingOps' = Tail(pendingOps)
    /\ UNCHANGED <<store, tombstones, data, componentIndex, applied, phase>>

\* Keys the walk leaves with a value, and keys it nets to a removal.
AppliedSets == {k \in Key : working[k[1]][k[2]] \in Value}
\* Mutant: a removal is reported for a component the entity never had.
AppliedRemovalsUnchecked == {k \in Key : working[k[1]][k[2]] = Absent}

AppliedRemovals == {k \in Key : working[k[1]][k[2]] = Absent /\ Has(k[1], k[2])}

Commit ==
    /\ phase = "walk"
    /\ pendingOps = <<>>
    /\ data' = [e \in Entity |->
                  IF e \in tombstones THEN NoComponents
                  ELSE [c \in Component |-> SlotOf(e, c)]]
    /\ componentIndex' = [c \in Component |->
           ((componentIndex[c]
                \cup {e \in Entity : <<e, c>> \in AppliedSets /\ ~Has(e, c)})
                \ {e \in Entity : <<e, c>> \in AppliedRemovals})
                \ {e \in tombstones \cap store : Has(e, c)}]
    /\ store' = store \ tombstones
    /\ tombstones' = {}
    /\ working' = NoSlots
    /\ applied' = [sets |-> AppliedSets, removals |-> AppliedRemovals,
                   destroys |-> tombstones]
    /\ phase' = "publish"
    /\ UNCHANGED pendingOps

\* runTick hands the changeset to the delta encoder and the event bus.
Publish ==
    /\ phase = "publish"
    /\ applied' = NoChanges
    /\ phase' = "tick"
    /\ UNCHANGED <<store, tombstones, data, componentIndex, pendingOps,
                   working>>

-----------------------------------------------------------------------------
Next ==
    \/ \E e \in Entity : Create(e) \/ Destroy(e)
    \/ \E e \in Entity, c \in Component :
          Erase(e, c) \/ \E v \in Value : Write(e, c, v)
    \/ \E op \in Op : Enqueue(op)
    \/ BeginApply
    \/ SkipOp
    \/ WalkOp
    \/ Commit
    \/ Publish

Spec == Init /\ [][Next]_vars

-----------------------------------------------------------------------------
(* Properties *)

\* Every variable has its type.
TypeOK ==
    /\ store \in SUBSET Entity
    /\ tombstones \in SUBSET Entity
    /\ data \in [Entity -> [Component -> Stored]]
    /\ componentIndex \in [Component -> SUBSET Entity]
    /\ pendingOps \in Seq(Op)
    /\ working \in [Entity -> [Component -> Stored \cup {Untouched}]]
    /\ applied \in [sets : SUBSET Key, removals : SUBSET Key,
                    destroys : SUBSET Entity]
    /\ phase \in {"tick", "walk", "publish"}

\* The reverse index query() iterates agrees with the store for every
\* component, whichever mix of immediate writes, deferred operations and
\* purges produced it ("Maintained in sync with the store so query() iterates
\* only matching entities").
IndexExact ==
    \A c \in Component :
        componentIndex[c] = {e \in store : Has(e, c)}

\* The changeset accounts for every difference an applyChangeset() makes: a
\* component of a surviving entity that changed is among the sets or the
\* removals, one that vanished is a removal, and every entity that left the
\* store is among the destroys, no surviving one is.  The delta encoder sends nothing else, so a
\* change missing here never reaches a client.
ChangesetComplete ==
    [][Commit =>
        /\ \A e \in store', c \in Component :
              /\ data'[e][c] # data[e][c]
                    => <<e, c>> \in applied'.sets \cup applied'.removals
              /\ <<e, c>> \in applied'.sets => data'[e][c] # Absent
              /\ <<e, c>> \in applied'.removals
                    <=> data[e][c] # Absent /\ data'[e][c] = Absent
        /\ store \ store' \subseteq applied'.destroys
        /\ applied'.destroys \cap store' = {}
        /\ \A k \in applied'.sets \cup applied'.removals : k[1] \in store'
      ]_vars

-----------------------------------------------------------------------------
(* What the deferred log promises (T-249): the operations of a tick act as *)
(* if they were applied one after the other, in push order, to a copy of   *)
(* the committed state that is then swapped in.                            *)

\* The store as the operations walked so far leave it.
Overlay == [e \in Entity |-> [c \in Component |-> SlotOf(e, c)]]

StagedView == IF phase = "walk" THEN Overlay ELSE [e \in Entity |-> NoComponents]

Abstract == INSTANCE AbstractWorld WITH
    alive <- store,
    doomed <- tombstones,
    value <- data,
    queue <- pendingOps,
    staged <- StagedView,
    staging <- phase = "walk"

\* The component store implements AbstractWorld.
ImplementsAbstract == Abstract!Spec
=============================================================================
