-------------------------- MODULE SceneGraph_proofs --------------------------
(***************************************************************************)
(* Proofs about SceneGraph for any set of entities.  The child index never *)
(* lies; it is complete, and subtree teardown is whole, for parents whose  *)
(* id does not come back after the entity was destroyed.                   *)
(***************************************************************************)
EXTENDS SceneGraph, TLAPS

\* Reach(F, r) is closed under F and holds F[r].
LEMMA ReachClosed ==
    ASSUME NEW F \in [Entity -> SUBSET Entity], NEW r \in Entity
    PROVE  /\ Reach(F, r) \in SUBSET Entity
           /\ F[r] \subseteq Reach(F, r)
           /\ \A y \in Reach(F, r) : F[y] \subseteq Reach(F, r)
<1>1. Reach(F, r) \in SUBSET Entity
  BY DEF Reach
<1>2. F[r] \subseteq Reach(F, r)
  BY DEF Reach
<1>3. ASSUME NEW y \in Reach(F, r), NEW z \in F[y]
      PROVE  z \in Reach(F, r)
  <2>1. y \in Entity /\ z \in Entity
    BY <1>1
  <2>2. ASSUME NEW S \in SUBSET Entity,
               F[r] \subseteq S, \A x \in S : F[x] \subseteq S
        PROVE  z \in S
    <3>1. y \in S
      BY <2>2 DEF Reach
    <3>2. QED
      BY <2>2, <3>1
  <2>3. QED
    BY <2>1, <2>2 DEF Reach
<1>4. QED
  BY <1>1, <1>2, <1>3

\* Reach(F, r) is the least such set.
LEMMA ReachLeast ==
    ASSUME NEW F, NEW r, NEW S \in SUBSET Entity,
           F[r] \subseteq S, \A y \in S : F[y] \subseteq S
    PROVE  Reach(F, r) \subseteq S
  BY DEF Reach

-----------------------------------------------------------------------------
(* Soundness of the index, for any reuse of ids. *)

SoundInv == TypeOK /\ ChildIndexSound

LEMMA SoundInvInit == Init => SoundInv
  BY DEF Init, SoundInv, TypeOK, ChildIndexSound

\* The descendants of an entity of the store are entities of the store.
LEMMA DescendantsStored ==
    ASSUME SoundInv, NEW r \in Entity
    PROVE  Descendants(r) \subseteq store
<1>1. store \in SUBSET Entity /\ childIndex[r] \subseteq store
      /\ \A y \in store : childIndex[y] \subseteq store
  BY DEF SoundInv, TypeOK, ChildIndexSound
<1>2. QED
  BY <1>1, ReachLeast DEF Descendants

LEMMA SoundInvStep == ASSUME SoundInv, [Next]_vars PROVE SoundInv'
<1> USE SceneAssumption DEF SoundInv
<1>1. ASSUME NEW e \in Entity, Create(e) PROVE SoundInv'
  BY <1>1 DEF Create, TypeOK, ChildIndexSound
<1>2. ASSUME NEW e \in Entity, Destroy(e) PROVE SoundInv'
  BY <1>2 DEF Destroy, TypeOK, ChildIndexSound
<1>3. ASSUME NEW e \in Entity, DestroySubtree(e) PROVE SoundInv'
  <2>1. tombstones' \in SUBSET Entity
    BY <1>3, DescendantsStored DEF DestroySubtree, TypeOK
  <2>2. QED
    BY <1>3, <2>1 DEF DestroySubtree, TypeOK, ChildIndexSound
<1>4. ASSUME NEW c \in Entity, NEW p \in Entity \cup {None}, SetParent(c, p)
      PROVE SoundInv'
  <2>1. TypeOK'
    BY <1>4 DEF SetParent, Named, TypeOK
  <2>2. ChildIndexSound'
    BY <1>4 DEF SetParent, TypeOK, ChildIndexSound
  <2>3. QED
    BY <2>1, <2>2
<1>5. CASE Purge
  <2>1. TypeOK'
    BY <1>5 DEF Purge, TypeOK
  <2>2. ChildIndexSound'
    BY <1>5 DEF Purge, TypeOK, ChildIndexSound
  <2>3. QED
    BY <2>1, <2>2
<1>6. CASE UNCHANGED vars
  BY <1>6 DEF vars, TypeOK, ChildIndexSound
<1>7. QED
  BY <1>1, <1>2, <1>3, <1>4, <1>5, <1>6 DEF Next

LEMMA SoundInvariance == Spec => []SoundInv
  BY SoundInvInit, SoundInvStep, PTL DEF Spec

\* Every variable keeps its type.
THEOREM SceneTypeCorrect == Spec => []TypeOK
<1>1. SoundInv => TypeOK
  BY DEF SoundInv
<1>2. QED
  BY SoundInvariance, <1>1, PTL

\* getChildren(p) returns only living or doomed entities whose Parent is p,
\* whatever is destroyed, reparented or created again.
THEOREM ChildIndexAlwaysSound == Spec => []ChildIndexSound
<1>1. SoundInv => ChildIndexSound
  BY DEF SoundInv
<1>2. QED
  BY SoundInvariance, <1>1, PTL

-----------------------------------------------------------------------------
(* Completeness of the index, for parents whose id does not come back. *)

\* A Parent component names an entity that exists or once existed, or a player.
ParentsUsed == \A c \in Entity : Named(parent[c])

CompleteInv == SoundInv /\ ParentsUsed /\ FreshParentsComplete

LEMMA CompleteInvInit == Init => CompleteInv
  BY SoundInvInit DEF Init, CompleteInv, ParentsUsed, Named, FreshParentsComplete

LEMMA CompleteInvStep == ASSUME CompleteInv, [Next]_vars PROVE CompleteInv'
<1> USE SceneAssumption DEF CompleteInv
<1>0. SoundInv'
  BY SoundInvStep
<1>1. ASSUME NEW e \in Entity, Create(e) PROVE CompleteInv'
  <2>1. e \in Recreated \/ \A c \in Entity : parent[c] # e
    BY <1>1 DEF Create, ParentsUsed, Named
  <2>2. parent[e] = None
    BY <1>1 DEF Create, SoundInv, TypeOK
  <2>3. QED
    BY <1>0, <1>1, <2>1, <2>2 DEF Create, ParentsUsed, Named, FreshParentsComplete,
                                  SoundInv, TypeOK
<1>2. ASSUME NEW e \in Entity, Destroy(e) PROVE CompleteInv'
  BY <1>0, <1>2 DEF Destroy, ParentsUsed, Named, FreshParentsComplete
<1>3. ASSUME NEW e \in Entity, DestroySubtree(e) PROVE CompleteInv'
  BY <1>0, <1>3 DEF DestroySubtree, ParentsUsed, Named, FreshParentsComplete
<1>4. ASSUME NEW c \in Entity, NEW p \in Entity \cup {None}, SetParent(c, p)
      PROVE CompleteInv'
  BY <1>0, <1>4 DEF SetParent, ParentsUsed, Named, FreshParentsComplete, SoundInv, TypeOK
<1>5. CASE Purge
  BY <1>0, <1>5 DEF Purge, ParentsUsed, Named, FreshParentsComplete, SoundInv, TypeOK
<1>6. CASE UNCHANGED vars
  BY <1>0, <1>6 DEF vars, ParentsUsed, Named, FreshParentsComplete
<1>7. QED
  BY <1>1, <1>2, <1>3, <1>4, <1>5, <1>6 DEF Next

LEMMA CompleteInvariance == Spec => []CompleteInv
  BY CompleteInvInit, CompleteInvStep, PTL DEF Spec

\* getChildren(p) lists every entity whose Parent is p, unless p is a player.
THEOREM FreshParentsAlwaysComplete == Spec => []FreshParentsComplete
<1>1. CompleteInv => FreshParentsComplete
  BY DEF CompleteInv
<1>2. QED
  BY CompleteInvariance, <1>1, PTL

\* The index and the Parent components agree, in both directions.
THEOREM ChildIndexAlwaysExact == Spec => []ChildIndexExact
  BY ChildIndexAlwaysSound, FreshParentsAlwaysComplete, PTL DEF ChildIndexExact

\* One teardown takes the whole subtree.
LEMMA TeardownStep ==
    ASSUME CompleteInv, NEW r \in store, DestroySubtree(r)
    PROVE  Reach(FreshKids, r) \subseteq tombstones'
<1> USE DEF CompleteInv, SoundInv
<1>1. \A y \in store : FreshKids[y] \subseteq childIndex[y]
  BY DEF FreshKids, Kids, FreshParentsComplete, TypeOK
<1>2. r \in Entity
  BY DEF TypeOK
<1>3. /\ childIndex[r] \subseteq Descendants(r)
      /\ \A y \in Descendants(r) : childIndex[y] \subseteq Descendants(r)
      /\ Descendants(r) \in SUBSET Entity
  BY <1>2, ReachClosed DEF Descendants, TypeOK
<1>4. Descendants(r) \subseteq store
  BY <1>2, DescendantsStored
<1>5. FreshKids[r] \subseteq Descendants(r)
      /\ \A y \in Descendants(r) : FreshKids[y] \subseteq Descendants(r)
  BY <1>1, <1>3, <1>4
<1>6. Reach(FreshKids, r) \subseteq Descendants(r)
  BY <1>3, <1>5, ReachLeast
<1>7. QED
  BY <1>6 DEF DestroySubtree

\* What TeardownWhole asks of one step.
TeardownStepWhole ==
    \A r \in store :
        DestroySubtree(r) => Reach(FreshKids, r) \subseteq tombstones'

\* destroySubtree(r) takes every entity below r with it, although it follows
\* the child index and not the Parent components, whatever was reparented and
\* whatever ids were created again elsewhere.
THEOREM TeardownAlwaysWhole == Spec => TeardownWhole
<1>1. CompleteInv /\ [Next]_vars => [TeardownStepWhole]_vars
  BY TeardownStep DEF TeardownStepWhole
<1>2. Spec => [][TeardownStepWhole]_vars
  BY CompleteInvariance, <1>1, PTL DEF Spec
<1>3. QED
  BY <1>2 DEF TeardownWhole, TeardownStepWhole
=============================================================================
