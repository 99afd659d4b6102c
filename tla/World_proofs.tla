----------------------------- MODULE World_proofs -----------------------------
(***************************************************************************)
(* Proofs about World for any set of entities, components and values and   *)
(* any bound on the log: type correctness, exactness of the reverse index, *)
(* completeness of the changeset and the refinement of AbstractWorld.      *)
(***************************************************************************)
EXTENDS World, TLAPS

\* What an operation leaves in a slot is data of the component or Absent.
LEMMA OutcomeType ==
    ASSUME NEW op \in Op, NEW current \in Stored
    PROVE  Outcome(op, current) \in Stored
  BY WorldAssumption DEF Op, Stored, Outcome

\* The slot of a key always has content: its own, or the committed one.
LEMMA SlotType ==
    ASSUME TypeOK, NEW e \in Entity, NEW c \in Component
    PROVE  SlotOf(e, c) \in Stored
  BY DEF TypeOK, SlotOf, Stored

\* The operation at the head of the log is one the systems may queue.
LEMMA HeadOp ==
    ASSUME TypeOK, pendingOps # <<>>
    PROVE  /\ Head(pendingOps) \in Op
           /\ Tail(pendingOps) \in Seq(Op)
           /\ Head(pendingOps).entity \in Entity
           /\ Head(pendingOps).comp \in Component
<1>1. Head(pendingOps) \in Op /\ Tail(pendingOps) \in Seq(Op)
  BY DEF TypeOK
<1>2. QED
  BY <1>1 DEF Op

-----------------------------------------------------------------------------
\* Every variable keeps its type (world.ts has no run-time check of it: the
\* maps are untyped behind the ComponentDef tokens).
THEOREM TypeCorrect == Spec => []TypeOK
<1>1. Init => TypeOK
  BY DEF Init, TypeOK, NoComponents, NoSlots, NoChanges, Stored, Key
<1>2. TypeOK /\ [Next]_vars => TypeOK'
  <2> SUFFICES ASSUME TypeOK, [Next]_vars PROVE TypeOK'
    OBVIOUS
  <2>1. ASSUME NEW e \in Entity, Create(e) PROVE TypeOK'
    BY <2>1 DEF TypeOK, Create
  <2>2. ASSUME NEW e \in Entity, Destroy(e) PROVE TypeOK'
    BY <2>2 DEF TypeOK, Destroy
  <2>3. ASSUME NEW e \in Entity, NEW c \in Component, Erase(e, c) PROVE TypeOK'
    BY <2>3 DEF TypeOK, Erase, Stored
  <2>4. ASSUME NEW e \in Entity, NEW c \in Component, NEW v \in Value, Write(e, c, v)
        PROVE TypeOK'
    BY <2>4 DEF TypeOK, Write, Stored
  <2>5. ASSUME NEW op \in Op, Enqueue(op) PROVE TypeOK'
    BY <2>5 DEF TypeOK, Enqueue
  <2>6. CASE BeginApply
    BY <2>6 DEF TypeOK, BeginApply
  <2>7. CASE SkipOp
    BY <2>7, HeadOp DEF TypeOK, SkipOp
  <2>8. CASE WalkOp
    <3> DEFINE op == Head(pendingOps)
    <3>1. op \in Op /\ op.entity \in Entity /\ op.comp \in Component
          /\ Tail(pendingOps) \in Seq(Op)
      BY <2>8, HeadOp DEF WalkOp
    <3>2. Outcome(op, SlotOf(op.entity, op.comp)) \in Stored
      BY <3>1, SlotType, OutcomeType
    <3>3. working' \in [Entity -> [Component -> Stored \cup {Untouched}]]
      BY <2>8, <3>1, <3>2 DEF WalkOp, TypeOK
    <3>4. QED
      BY <2>8, <3>1, <3>3 DEF TypeOK, WalkOp
  <2>9. CASE Commit
    <3>1. data' \in [Entity -> [Component -> Stored]]
      BY <2>9, SlotType DEF Commit, NoComponents, Stored
    <3>2. componentIndex' \in [Component -> SUBSET Entity]
      BY <2>9 DEF Commit, TypeOK
    <3>3. applied' \in [sets : SUBSET Key, removals : SUBSET Key, destroys : SUBSET Entity]
      BY <2>9 DEF Commit, TypeOK, AppliedSets, AppliedRemovals
    <3>4. QED
      BY <2>9, <3>1, <3>2, <3>3 DEF TypeOK, Commit, NoSlots
  <2>10. CASE Publish
    BY <2>10 DEF TypeOK, Publish, NoChanges
  <2>11. CASE UNCHANGED vars
    BY <2>11 DEF TypeOK, vars
  <2>12. QED
    BY <2>1, <2>2, <2>3, <2>4, <2>5, <2>6, <2>7, <2>8, <2>9, <2>10, <2>11 DEF Next
<1>3. QED
  BY <1>1, <1>2, PTL DEF Spec

-----------------------------------------------------------------------------
(* The inductive invariant behind IndexExact and ChangesetComplete: entities *)
(* outside the store have no data, and only entities that are alive have     *)
(* working slots.                                                            *)

NoGhostData == \A e \in Entity \ store : \A c \in Component : data[e][c] = Absent

SlotsOfLiving ==
    \A e \in Entity, c \in Component :
        working[e][c] # Untouched => phase = "walk" /\ IsAlive(e)

IndexInv ==
    /\ TypeOK
    /\ NoGhostData
    /\ SlotsOfLiving
    /\ IndexExact

LEMMA IndexInvInit == Init => IndexInv
<1> SUFFICES ASSUME Init PROVE IndexInv
  OBVIOUS
<1>1. TypeOK
  BY DEF Init, TypeOK, NoComponents, NoSlots, NoChanges, Stored, Key
<1>2. NoGhostData /\ IndexExact /\ SlotsOfLiving
  BY DEF Init, NoGhostData, IndexExact, SlotsOfLiving, NoComponents, NoSlots, Has
<1>3. QED
  BY <1>1, <1>2 DEF IndexInv, Init

\* Every step of the store preserves the invariant.
LEMMA IndexInvStep ==
    ASSUME IndexInv, TypeOK', [Next]_vars
    PROVE  IndexInv'
<1> USE DEF IndexInv
<1>1. ASSUME NEW e \in Entity, Create(e) PROVE IndexInv'
  BY <1>1 DEF Create, NoGhostData, SlotsOfLiving, IndexExact, IsAlive, Has
<1>2. ASSUME NEW e \in Entity, Destroy(e) PROVE IndexInv'
  BY <1>2 DEF Destroy, NoGhostData, SlotsOfLiving, IndexExact, IsAlive, Has
<1>3. ASSUME NEW e \in Entity, NEW c \in Component, Erase(e, c) PROVE IndexInv'
  <2>1. NoGhostData' /\ SlotsOfLiving'
    BY <1>3 DEF Erase, NoGhostData, SlotsOfLiving, IsAlive, TypeOK
  <2>2. ASSUME NEW d \in Component
        PROVE  componentIndex'[d] = {x \in store' : data'[x][d] # Absent}
    <3>1. CASE d = c
      BY <1>3, <3>1 DEF Erase, IndexExact, Has, TypeOK
    <3>2. CASE d # c
      BY <1>3, <3>2 DEF Erase, IndexExact, Has, TypeOK
    <3>3. QED
      BY <3>1, <3>2
  <2>3. QED
    BY <2>1, <2>2 DEF IndexExact, Has
<1>4. ASSUME NEW e \in Entity, NEW c \in Component, NEW v \in Value, Write(e, c, v)
      PROVE IndexInv'
  <2>1. NoGhostData' /\ SlotsOfLiving'
    BY <1>4 DEF Write, NoGhostData, SlotsOfLiving, IsAlive, TypeOK
  <2>2. v # Absent
    BY WorldAssumption
  <2>3. ASSUME NEW d \in Component
        PROVE  componentIndex'[d] = {x \in store' : data'[x][d] # Absent}
    <3>1. CASE d = c
      BY <1>4, <2>2, <3>1 DEF Write, IndexExact, Has, TypeOK
    <3>2. CASE d # c
      BY <1>4, <3>2 DEF Write, IndexExact, Has, TypeOK
    <3>3. QED
      BY <3>1, <3>2
  <2>4. QED
    BY <2>1, <2>3 DEF IndexExact, Has
<1>5. ASSUME NEW op \in Op, Enqueue(op) PROVE IndexInv'
  BY <1>5 DEF Enqueue, NoGhostData, SlotsOfLiving, IndexExact, IsAlive, Has
<1>6. CASE BeginApply
  BY <1>6 DEF BeginApply, NoGhostData, SlotsOfLiving, IndexExact, IsAlive, Has
<1>7. CASE SkipOp
  BY <1>7 DEF SkipOp, NoGhostData, SlotsOfLiving, IndexExact, IsAlive, Has
<1>8. CASE WalkOp
  <2>1. SlotsOfLiving'
    BY <1>8 DEF WalkOp, SlotsOfLiving, IsAlive, TypeOK
  <2>2. QED
    BY <1>8, <2>1 DEF WalkOp, NoGhostData, IndexExact, Has
<1>9. CASE Commit
  <2>1. \A e \in Entity, c \in Component :
           data'[e][c] = IF e \in tombstones THEN Absent ELSE SlotOf(e, c)
    BY <1>9 DEF Commit, NoComponents
  <2>2. NoGhostData'
    BY <1>9, <2>1 DEF Commit, NoGhostData, SlotsOfLiving, IsAlive, SlotOf
  <2>3. SlotsOfLiving'
    BY <1>9 DEF Commit, SlotsOfLiving, NoSlots
  <2>4. ASSUME NEW c \in Component, NEW e \in Entity
        PROVE  e \in componentIndex'[c] <=> e \in store' /\ data'[e][c] # Absent
    <3>1. e \in componentIndex[c] <=> e \in store /\ data[e][c] # Absent
      BY DEF IndexExact, Has
    <3>2. <<e, c>> \in AppliedSets <=> working[e][c] \in Value
      BY DEF AppliedSets, Key
    <3>3. <<e, c>> \in AppliedRemovals <=> working[e][c] = Absent /\ Has(e, c)
      BY DEF AppliedRemovals, Key
    <3>4. working[e][c] \in Value \/ working[e][c] = Absent
          \/ working[e][c] = Untouched
      BY DEF TypeOK, Stored
    <3>5. e \in componentIndex'[c] <=>
            /\ e \in componentIndex[c] \/ (<<e, c>> \in AppliedSets /\ ~Has(e, c))
            /\ <<e, c>> \notin AppliedRemovals
            /\ ~(e \in tombstones \cap store /\ Has(e, c))
      BY <1>9 DEF Commit
    <3>6. working[e][c] # Untouched => e \in store /\ e \notin tombstones
      BY DEF SlotsOfLiving, IsAlive
    <3>7. store' = store \ tombstones
      BY <1>9 DEF Commit
    <3>8. QED
      BY <2>1, <3>1, <3>2, <3>3, <3>4, <3>5, <3>6, <3>7, WorldAssumption
         DEF SlotOf, Has
  <2>5. IndexExact'
    <3>1. \A c \in Component : componentIndex'[c] \subseteq Entity
      BY DEF TypeOK
    <3>2. store' \subseteq Entity
      BY DEF TypeOK
    <3>3. QED
      BY <2>4, <3>1, <3>2 DEF IndexExact, Has
  <2>6. QED
    BY <2>2, <2>3, <2>5
<1>10. CASE Publish
  BY <1>10 DEF Publish, NoGhostData, SlotsOfLiving, IndexExact, IsAlive, Has
<1>11. CASE UNCHANGED vars
  BY <1>11 DEF vars, NoGhostData, SlotsOfLiving, IndexExact, IsAlive, Has
<1>12. QED
  BY <1>1, <1>2, <1>3, <1>4, <1>5, <1>6, <1>7, <1>8, <1>9, <1>10, <1>11 DEF Next

\* The inductive invariant holds in every reachable state.
LEMMA IndexInvariance == Spec => []IndexInv
<1>1. TypeOK /\ TypeOK' /\ IndexInv /\ [Next]_vars => IndexInv'
  BY IndexInvStep
<1>2. QED
  BY IndexInvInit, TypeCorrect, <1>1, PTL DEF Spec

\* query() never misses an entity that has the components it asks for and
\* never visits one that lacks them: the reverse index is exact.
THEOREM IndexAlwaysExact == Spec => []IndexExact
<1>1. IndexInv => IndexExact
  BY DEF IndexInv
<1>2. QED
  BY IndexInvariance, <1>1, PTL

-----------------------------------------------------------------------------
\* A commit whose changeset names exactly what it changed.
CommitExact ==
    Commit =>
        /\ \A e \in store', c \in Component :
              /\ data'[e][c] # data[e][c]
                    => <<e, c>> \in applied'.sets \cup applied'.removals
              /\ <<e, c>> \in applied'.sets => data'[e][c] # Absent
              /\ <<e, c>> \in applied'.removals
                    <=> data[e][c] # Absent /\ data'[e][c] = Absent
        /\ store \ store' \subseteq applied'.destroys
        /\ applied'.destroys \cap store' = {}
        /\ \A k \in applied'.sets \cup applied'.removals : k[1] \in store'

LEMMA CommitStep == ASSUME IndexInv PROVE CommitExact
<1> SUFFICES ASSUME Commit PROVE CommitExact
  BY DEF CommitExact
<1> USE DEF IndexInv
<1>1. /\ store' = store \ tombstones
      /\ applied'.sets = AppliedSets
      /\ applied'.removals = AppliedRemovals
      /\ applied'.destroys = tombstones
  BY DEF Commit
<1>2. ASSUME NEW e \in store', NEW c \in Component
      PROVE  /\ data'[e][c] # data[e][c]
                   => <<e, c>> \in AppliedSets \cup AppliedRemovals
             /\ <<e, c>> \in AppliedSets => data'[e][c] # Absent
             /\ <<e, c>> \in AppliedRemovals
                   <=> data[e][c] # Absent /\ data'[e][c] = Absent
  <2>1. e \in Entity /\ e \notin tombstones
    BY <1>1 DEF TypeOK
  <2>2. data'[e][c] = SlotOf(e, c)
    BY <2>1 DEF Commit
  <2>3. /\ <<e, c>> \in AppliedSets <=> working[e][c] \in Value
        /\ <<e, c>> \in AppliedRemovals <=> working[e][c] = Absent /\ Has(e, c)
    BY <2>1 DEF AppliedSets, AppliedRemovals, Key
  <2>4. working[e][c] \in Value \/ working[e][c] = Absent \/ working[e][c] = Untouched
    BY <2>1 DEF TypeOK, Stored
  <2>5. QED
    BY <2>2, <2>3, <2>4, WorldAssumption DEF SlotOf, Has
<1>3. \A k \in AppliedSets \cup AppliedRemovals : k[1] \in store'
  <2>1. SUFFICES ASSUME NEW k \in AppliedSets \cup AppliedRemovals
                 PROVE  k[1] \in store \ tombstones
    BY <1>1
  <2>2. k[1] \in Entity /\ k[2] \in Component
    BY DEF AppliedSets, AppliedRemovals, Key
  <2>3. working[k[1]][k[2]] # Untouched
    BY WorldAssumption DEF AppliedSets, AppliedRemovals
  <2>4. QED
    BY <2>2, <2>3 DEF SlotsOfLiving, IsAlive
<1>4. store \ store' \subseteq tombstones /\ tombstones \cap store' = {}
  BY <1>1
<1>5. QED
  BY <1>1, <1>2, <1>3, <1>4 DEF CommitExact

\* No change escapes the delta stream: the changeset of every applyChangeset()
\* names every component and entity it changed, and nothing else.
THEOREM ChangesetAlwaysComplete == Spec => ChangesetComplete
<1>1. IndexInv /\ [Next]_vars => [CommitExact]_vars
  BY CommitStep
<1>2. Spec => [][CommitExact]_vars
  BY IndexInvariance, <1>1, PTL DEF Spec
<1>3. QED
  BY <1>2 DEF ChangesetComplete, CommitExact

-----------------------------------------------------------------------------
(* Refinement of AbstractWorld. *)

\* One walked operation changes the view exactly as the operation alone would.
LEMMA OverlayStep ==
    ASSUME TypeOK, WalkOp
    PROVE  Overlay' = Abstract!Apply(Head(pendingOps), Overlay)
<1> DEFINE op == Head(pendingOps)
<1>1. op \in Op /\ op.entity \in Entity /\ op.comp \in Component
  BY HeadOp DEF WalkOp
<1>2. Outcome(op, SlotOf(op.entity, op.comp)) \in Stored
  BY <1>1, SlotType, OutcomeType
<1>3. Outcome(op, SlotOf(op.entity, op.comp)) # Untouched
  BY <1>2, WorldAssumption DEF Stored
<1>4. \A e \in Entity, c \in Component :
         working'[e][c] = IF e = op.entity /\ c = op.comp
                          THEN Outcome(op, SlotOf(op.entity, op.comp))
                          ELSE working[e][c]
  BY <1>1 DEF WalkOp, TypeOK
<1>5. \A e \in Entity, c \in Component :
         SlotOf(e, c)' = IF e = op.entity /\ c = op.comp
                         THEN Outcome(op, SlotOf(op.entity, op.comp))
                         ELSE SlotOf(e, c)
  BY <1>3, <1>4 DEF SlotOf, WalkOp
<1>6. Overlay' = [Overlay EXCEPT ![op.entity][op.comp] =
                     Outcome(op, SlotOf(op.entity, op.comp))]
  <2> DEFINE v == Outcome(op, SlotOf(op.entity, op.comp))
             O == [Overlay EXCEPT ![op.entity][op.comp] = v]
  <2> HIDE DEF v
  <2>0. \A e \in Entity, c \in Component :
         SlotOf(e, c)' = IF e = op.entity /\ c = op.comp THEN v ELSE SlotOf(e, c)
    BY <1>5 DEF v
  <2>1. ASSUME NEW e \in Entity PROVE Overlay'[e] = O[e]
    BY <1>1, <2>0 DEF Overlay
  <2>2. QED
    BY <2>1 DEF Overlay, v
<1>7. Overlay[op.entity][op.comp] = SlotOf(op.entity, op.comp)
  BY <1>1 DEF Overlay
<1>8. CASE op.kind = "set"
  BY <1>6, <1>8 DEF Abstract!Apply, Outcome
<1>9. CASE op.kind = "remove"
  BY <1>6, <1>9 DEF Abstract!Apply, Outcome
<1>10. CASE op.kind = "mutate"
  <2>1. CASE SlotOf(op.entity, op.comp) = Absent
    <3>1. Overlay' = [Overlay EXCEPT ![op.entity][op.comp] = Absent]
      BY <1>6, <1>10, <2>1 DEF Outcome
    <3>2. [Overlay EXCEPT ![op.entity][op.comp] = Absent] = Overlay
      BY <1>1, <1>7, <2>1 DEF Overlay
    <3>3. QED
      BY <1>7, <1>10, <2>1, <3>1, <3>2 DEF Abstract!Apply
  <2>2. CASE SlotOf(op.entity, op.comp) # Absent
    <3>1. Overlay' = [Overlay EXCEPT ![op.entity][op.comp] =
                         Effect[op.arg][SlotOf(op.entity, op.comp)]]
      BY <1>6, <1>10, <2>2 DEF Outcome
    <3>2. QED
      BY <1>1, <1>7, <1>10, <2>2, <3>1 DEF Abstract!Apply, Overlay
  <2>3. QED
    BY <2>1, <2>2
<1>11. QED
  BY <1>1, <1>8, <1>9, <1>10 DEF Op

\* The component store implements AbstractWorld (T-249): deferred operations
\* take effect together at the end of the tick, as if applied one by one in
\* push order.
THEOREM StoreImplementsAbstract == Spec => ImplementsAbstract
<1>1. Init => Abstract!Init
  BY DEF Init, StagedView, Abstract!Init, Abstract!Blank, Abstract!Nothing, NoComponents
<1>2. ASSUME IndexInv, [Next]_vars
      PROVE  [Abstract!Next]_(Abstract!vars)
  <2> USE <1>2 DEF IndexInv
  <2>1. ASSUME NEW e \in Entity, Create(e) PROVE Abstract!Spawn(e)
    BY <2>1 DEF Create, Abstract!Spawn, StagedView
  <2>2. ASSUME NEW e \in Entity, Destroy(e) PROVE Abstract!Doom(e)
    BY <2>2 DEF Destroy, Abstract!Doom, StagedView
  <2>3. ASSUME NEW e \in Entity, NEW c \in Component, Erase(e, c)
        PROVE  Abstract!Poke(e, c, Absent)
    BY <2>3 DEF Erase, Abstract!Poke, StagedView
  <2>4. ASSUME NEW e \in Entity, NEW c \in Component, NEW v \in Value, Write(e, c, v)
        PROVE  Abstract!Poke(e, c, v)
    BY <2>4 DEF Write, Abstract!Poke, StagedView
  <2>5. ASSUME NEW op \in Op, Enqueue(op) PROVE Abstract!Defer(op)
    BY <2>5 DEF Enqueue, Abstract!Defer, StagedView
  <2>6. ASSUME BeginApply PROVE Abstract!BeginStaging
    <3>1. \A e \in Entity, c \in Component : SlotOf(e, c)' = data[e][c]
      BY <2>6 DEF BeginApply, SlotOf, SlotsOfLiving
    <3>2. Overlay' = data
      BY <3>1, <2>6 DEF Overlay, TypeOK, BeginApply
    <3>3. QED
      BY <2>6, <3>2 DEF BeginApply, Abstract!BeginStaging, StagedView
  <2>7. ASSUME SkipOp PROVE Abstract!Stage
    <3>1. Overlay' = Overlay
      BY <2>7 DEF SkipOp, Overlay, SlotOf
    <3>2. Head(pendingOps).entity \notin store \ tombstones
      BY <2>7 DEF SkipOp, IsAlive
    <3>3. QED
      BY <2>7, <3>1, <3>2 DEF SkipOp, Abstract!Stage, StagedView
  <2>8. ASSUME WalkOp PROVE Abstract!Stage
    <3>1. Overlay' = Abstract!Apply(Head(pendingOps), Overlay)
      BY <2>8, OverlayStep
    <3>2. Head(pendingOps).entity \in store \ tombstones
      BY <2>8 DEF WalkOp, IsAlive
    <3>3. QED
      BY <2>8, <3>1, <3>2 DEF WalkOp, Abstract!Stage, StagedView
  <2>9. ASSUME Commit PROVE Abstract!Swap
    <3>1. ASSUME NEW e \in Entity
          PROVE  data'[e] = IF e \in tombstones THEN NoComponents ELSE Overlay[e]
      BY <2>9 DEF Commit, Overlay
    <3>2. data' = [e \in Entity |-> IF e \in tombstones THEN NoComponents
                                    ELSE Overlay[e]]
      <4>1. /\ data' = [e \in Entity |-> data'[e]]
        BY <2>9 DEF Commit
      <4>2. QED
        BY <3>1, <4>1
    <3>3. StagedView = Overlay /\ StagedView' = Abstract!Blank
      BY <2>9 DEF Commit, StagedView, Abstract!Blank, Abstract!Nothing, NoComponents
    <3>4. Abstract!Nothing = NoComponents
      BY DEF Abstract!Nothing, NoComponents
    <3>5. QED
      BY <2>9, <3>2, <3>3, <3>4 DEF Commit, Abstract!Swap
  <2>10. ASSUME Publish PROVE UNCHANGED Abstract!vars
    BY <2>10 DEF Publish, Abstract!vars, StagedView
  <2>11. ASSUME UNCHANGED vars PROVE UNCHANGED Abstract!vars
    <3>1. StagedView' = StagedView
      BY <2>11 DEF vars, StagedView, Overlay, SlotOf
    <3>2. QED
      BY <2>11, <3>1 DEF vars, Abstract!vars
  <2>12. \A e \in Entity : Abstract!Spawn(e) \/ Abstract!Doom(e) => Abstract!Next
    BY DEF Abstract!Next
  <2>13. \A e \in Entity, c \in Component, v \in Value \cup {Absent} :
            Abstract!Poke(e, c, v) => Abstract!Next
    BY DEF Abstract!Next
  <2>14. \A op \in Op : Abstract!Defer(op) => Abstract!Next
    BY DEF Abstract!Next, Abstract!Operation, Op
  <2>15. Abstract!BeginStaging \/ Abstract!Stage \/ Abstract!Swap => Abstract!Next
    BY DEF Abstract!Next
  <2>16. CASE \E e \in Entity : Create(e) \/ Destroy(e)
    BY <2>1, <2>2, <2>12, <2>16
  <2>17. CASE \E e \in Entity, c \in Component :
                 Erase(e, c) \/ \E v \in Value : Write(e, c, v)
    BY <2>3, <2>4, <2>13, <2>17
  <2>18. CASE \E op \in Op : Enqueue(op)
    BY <2>5, <2>14, <2>18
  <2>19. QED
    BY <2>6, <2>7, <2>8, <2>9, <2>10, <2>11, <2>15, <2>16, <2>17, <2>18 DEF Next
<1>3. QED
  BY IndexInvariance, <1>1, <1>2, PTL DEF Spec, Abstract!Spec, ImplementsAbstract
=============================================================================
