-------------------------- MODULE ItemCommands_proofs --------------------------
(***************************************************************************)
(* Proofs about ItemCommands for any players, chests, stations and items:  *)
(* types, one home per item, the scrubbing of dead references, and the     *)
(* refinement of ItemLedger.                                               *)
(***************************************************************************)
EXTENDS ItemCommands, FiniteSetTheorems, TLAPS

Ground == <<"ground">>
Place == Holder \cup {Ground}
Slots(p) == {Inv(p), Worn(p)}

\* Item i is at place k, as committed, and as it will be after the commit.
At(i, k) == IF k = Ground THEN i \in ground ELSE i \in held[k]
Will(i, k) == IF k = Ground THEN i \in nextGround ELSE i \in next[k]

\* Place k belongs to an entity that this commit purges.
Purged(k) == \E p \in Player : presence[p] = "doomed" /\ k \in Slots(p)

\* The component that a move to or from place k sets.
Comp(i, k) == IF k = Ground THEN Pos(i) ELSE k
Moved(i, k) == <<Comp(i, k), i>> \in moved

\* Components are told apart by their tags.
LEMMA Tags ==
    /\ Ground \notin Component
    /\ \A p, q \in Player : /\ Inv(p) = Inv(q) <=> p = q
                            /\ Worn(p) = Worn(q) <=> p = q
                            /\ Inv(p) # Worn(q)
                            /\ Inv(p) \in Holder /\ Worn(p) \in Holder
    /\ \A p \in Player, c \in Chest : Bank(c) \notin Slots(p) /\ Bank(c) \in Holder
    /\ \A p \in Player, s \in Station : Bench(s) \notin Slots(p) /\ Bench(s) \in Holder
    /\ \A i \in Item : Pos(i) \notin Holder /\ Pos(i) \in Component
    /\ \A i, j \in Item : Pos(i) = Pos(j) <=> i = j
<1>1. Ground \notin Component
  BY DEF Ground, Component, Holder
<1>2. QED
  BY <1>1 DEF Inv, Worn, Bank, Bench, Pos, Holder, Component, Slots

-----------------------------------------------------------------------------
(* The inductive invariant.  All but the first conjunct are about items that *)
(* are not astray.                                                           *)

\* An item that is yet to be made is nowhere.
UnbornNowhere(i) ==
    life[i] = "unborn" =>
        /\ \A k \in Place : ~At(i, k) /\ ~Will(i, k)
        /\ \A k \in Component : <<k, i>> \notin moved

\* A place where i was not moved will be as it is; references to the dead may
\* be dropped.
UnmovedStays(i) ==
    \A k \in Place : ~Moved(i, k) =>
        /\ Will(i, k) => At(i, k)
        /\ life[i] = "alive" /\ At(i, k) => Will(i, k)

\* The living have one home after the commit, and get there along a route.
OneHomeNext(i) ==
    life[i] = "alive" =>
        \E n \in Place :
            /\ \A k \in Place : Will(i, k) <=> k = n
            /\ \A h \in Place : At(i, h) => h = n \/ Ledger!Route(h, n)
            /\ (\A h \in Place : ~At(i, h)) => n \in Ledger!Carried \cup {Ground}

\* What exists has at most one home now; what is being destroyed has one.
OneHomeNow(i) ==
    Exists(i) =>
        /\ \A k, l \in Place : At(i, k) /\ At(i, l) => k = l
        /\ life[i] = "doomed" => \E k \in Holder : At(i, k)

\* What is being destroyed is referenced by nothing that will remain.
CondemnedLeaves(i) ==
    life[i] = "doomed" =>
        /\ \A k \in Holder : Will(i, k) => Purged(k)
        /\ \A k \in Place : At(i, k) => Purged(k) \/ <<k, i>> \in moved
        /\ i \notin ground

\* What is gone is referenced by nothing.
GoneNowhere(i) ==
    life[i] = "gone" =>
        /\ \A k \in Place : ~At(i, k) /\ ~Will(i, k)
        /\ \A k \in Component : <<k, i>> \notin moved

\* The carried items of a player who is being destroyed go along, and this
\* tick has moved nothing to or from it.
CarriedDoomed(i) ==
    \A k \in Holder : Purged(k) =>
        /\ At(i, k) => life[i] # "alive"
        /\ <<k, i>> \notin moved

ItemInv(i) ==
    i \notin astray =>
        /\ UnmovedStays(i) /\ OneHomeNext(i) /\ OneHomeNow(i)
        /\ CondemnedLeaves(i) /\ GoneNowhere(i) /\ CarriedDoomed(i)

\* Between ticks nothing is queued.
IdleSettled ==
    phase = "idle" => next = held /\ nextGround = ground /\ moved = {}

\* A player who is not here has nothing, and nobody wears two things.
SlotsSane ==
    \A p \in Player :
        /\ presence[p] = "out" =>
              \A k \in Slots(p) : held[k] = {} /\ next[k] = {}
        /\ \A i, j \in held[Worn(p)] : i = j
        /\ \A i, j \in next[Worn(p)] : i = j

\* What is dead and will be referenced after the commit was written back.
DeadRefsWritten ==
    phase # "idle" =>
        \A p \in Player : \A k \in Slots(p), i \in Item :
            life[i] = "gone" /\ i \in next[k] => k \in written \/ presence[p] = "doomed"

IInv ==
    /\ TypeOK
    /\ \A i \in Item : UnbornNowhere(i) /\ ItemInv(i)
    /\ IdleSettled
    /\ SlotsSane
    /\ DeadRefsWritten
-----------------------------------------------------------------------------
(* Commands of a tick.  One command sets the components in keys and moves or *)
(* makes only the items in S.                                                *)

Sets(S, keys) ==
    /\ phase # "idle" /\ phase' = phase
    /\ presence' = presence /\ held' = held
    /\ Overwrite(keys)
    /\ keys \subseteq Component
    /\ \A p \in Player : \A k \in keys \cap Slots(p) : presence[p] = "in"
    /\ \A p \in Player :
          Worn(p) \in keys => \A i, j \in next'[Worn(p)] : i = j
    /\ next' \in [Holder -> SUBSET Item]
    /\ \A k \in Holder \ keys : next'[k] = next[k]
    /\ \A k \in Holder \cap keys, j \in Item \ S : j \in next'[k] <=> j \in held[k]
    /\ moved \subseteq moved' /\ moved' \subseteq moved \cup (keys \X S)
    /\ \A j \in Item \ S :
          /\ life'[j] = life[j]
          /\ j \in ground' <=> j \in ground
          /\ j \in nextGround' <=> j \in nextGround
          /\ Pos(j) \notin keys
    /\ \A j \in Item : life[j] = "gone" <=> life'[j] = "gone"

\* The items a command does not move keep their invariant: the command either
\* leaves them as they are or has overwritten their move (applyChangeset).
LEMMA Bystander ==
    ASSUME NEW S \in SUBSET Item, NEW keys, Sets(S, keys), TypeOK,
           NEW j \in Item \ S, UnbornNowhere(j), ItemInv(j)
    PROVE  UnbornNowhere(j)' /\ ItemInv(j)'
<1>1. \A k \in Place : At(j, k)' <=> At(j, k)
  BY DEF Sets, At, Place
<1>2. \A k : <<k, j>> \in moved' <=> <<k, j>> \in moved
  BY DEF Sets
<1>3. \A k : Moved(j, k)' <=> Moved(j, k)
  BY <1>2 DEF Moved, Comp
<1>4. \A k : Purged(k)' <=> Purged(k)
  BY DEF Sets, Purged
<1>5. life'[j] = life[j]
  BY DEF Sets
<1>6. \A k \in Place : Will(j, k)' <=> IF k \in keys THEN At(j, k) ELSE Will(j, k)
  BY Tags DEF Sets, Will, At, Place, Ground
<1>7. UnbornNowhere(j)'
  BY <1>1, <1>2, <1>5, <1>6 DEF UnbornNowhere
<1>8. ASSUME j \notin astray' PROVE ItemInv(j)'
  <2>1. j \notin astray /\ \A k \in keys : <<k, j>> \notin moved
    BY <1>8 DEF Sets, Overwrite
  <2>2. \A k \in Place \cap keys : ~Moved(j, k)
    BY <2>1, Tags DEF Moved, Comp, Place, Sets
  <2> USE <2>1 DEF ItemInv
  <2>3. UnmovedStays(j)'
    BY <1>1, <1>3, <1>5, <1>6, <2>2 DEF UnmovedStays
  <2>4. OneHomeNext(j)'
    <3> SUFFICES ASSUME life[j] = "alive" PROVE OneHomeNext(j)'
      BY <1>5 DEF OneHomeNext
    <3>1. \A k \in Place : Will(j, k)' <=> Will(j, k)
      BY <1>6, <2>2 DEF UnmovedStays
    <3>2. QED
      BY <1>1, <3>1 DEF OneHomeNext
  <2>5. OneHomeNow(j)'
    BY <1>1, <1>5, Tags DEF OneHomeNow, Exists, Place
  <2>6. CondemnedLeaves(j)'
    <3> SUFFICES ASSUME life[j] = "doomed" PROVE CondemnedLeaves(j)'
      BY <1>5 DEF CondemnedLeaves
    <3>1. \A k \in Holder : Will(j, k)' => Purged(k)'
      BY <1>4, <1>6, <2>1 DEF CondemnedLeaves, Place
    <3>2. \A k \in Place : At(j, k)' => Purged(k)' \/ <<k, j>> \in moved'
      BY <1>1, <1>2, <1>4 DEF CondemnedLeaves
    <3>3. j \notin ground'
      BY DEF CondemnedLeaves, Sets
    <3>4. QED
      BY <3>1, <3>2, <3>3 DEF CondemnedLeaves
  <2>7. GoneNowhere(j)'
    BY <1>1, <1>2, <1>5, <1>6 DEF GoneNowhere
  <2>8. CarriedDoomed(j)'
    BY <1>1, <1>2, <1>4, <1>5 DEF CarriedDoomed, Place
  <2>9. QED
    BY <2>3, <2>4, <2>5, <2>6, <2>7, <2>8
<1>9. QED
  BY <1>7, <1>8 DEF ItemInv

\* An item that a command takes from src, unless the command makes it astray,
\* is alive, has its only home at src and was not moved before in this tick.
LEMMA Source ==
    ASSUME NEW S, NEW keys, Sets(S, keys), TypeOK,
           NEW i \in Item, UnbornNowhere(i), ItemInv(i),
           NEW src \in Place, At(i, src), Comp(i, src) \in keys, ~Purged(src),
           i \notin astray'
    PROVE  /\ i \notin astray /\ life[i] = "alive"
           /\ \A k \in Place : (Will(i, k) <=> k = src) /\ (At(i, k) <=> k = src)
<1>1. i \notin astray /\ <<Comp(i, src), i>> \notin moved
  BY DEF Sets, Overwrite
<1>2. life[i] \in {"alive", "doomed"}
  BY <1>1 DEF TypeOK, UnbornNowhere, ItemInv, GoneNowhere
<1>3. life[i] # "doomed"
  <2>1. CASE src = Ground
    BY <1>1, <2>1 DEF ItemInv, CondemnedLeaves, At
  <2>2. CASE src # Ground
    BY <1>1, <2>2 DEF ItemInv, CondemnedLeaves, Comp
  <2>3. QED
    BY <2>1, <2>2
<1>4. Will(i, src)
  BY <1>1, <1>2, <1>3 DEF ItemInv, UnmovedStays, Moved
<1>5. QED
  BY <1>1, <1>2, <1>3, <1>4 DEF ItemInv, OneHomeNext, OneHomeNow, Exists

\* A command that takes an item along a route keeps the item's invariant.
LEMMA Mover ==
    ASSUME NEW S, NEW src \in Place, NEW dst \in Place, NEW i \in Item,
           Sets(S, {Comp(i, src), Comp(i, dst)}), TypeOK,
           UnbornNowhere(i), ItemInv(i),
           src # dst, At(i, src), ~Purged(src), ~Purged(dst),
           Ledger!Route(src, dst),
           life'[i] = life[i], ground' = ground,
           moved' = moved \cup ({Comp(i, src), Comp(i, dst)} \X {i}),
           \A k \in Place : Will(i, k)' <=> k = dst \/ (Will(i, k) /\ k # src)
    PROVE  UnbornNowhere(i)' /\ ItemInv(i)'
<1> DEFINE keys == {Comp(i, src), Comp(i, dst)}
<1>1. UnbornNowhere(i)'
  BY DEF UnbornNowhere
<1>2. ASSUME i \notin astray' PROVE ItemInv(i)'
  <2>1. /\ i \notin astray /\ life[i] = "alive"
        /\ \A k \in Place : (Will(i, k) <=> k = src) /\ (At(i, k) <=> k = src)
    BY <1>2, Source
  <2>2. \A k \in Place : (At(i, k)' <=> k = src) /\ (Will(i, k)' <=> k = dst)
    BY <2>1 DEF At, Sets
  <2>3. \A k \in Holder : <<k, i>> \in moved' /\ Purged(k) => <<k, i>> \in moved
    BY Tags DEF Comp, Place
  <2>4. Moved(i, src)' /\ Moved(i, dst)'
    BY DEF Moved, Comp
  <2>5. life'[i] = "alive"
    BY <2>1
  <2>6. UnmovedStays(i)'
    BY <2>2, <2>4 DEF UnmovedStays
  <2>7. OneHomeNext(i)'
    BY <2>2 DEF OneHomeNext
  <2>8. OneHomeNow(i)'
    BY <2>2, <2>5 DEF OneHomeNow, Exists
  <2>9. CondemnedLeaves(i)' /\ GoneNowhere(i)'
    BY <2>5 DEF CondemnedLeaves, GoneNowhere
  <2>10. CarriedDoomed(i)'
    <3>1. \A k : Purged(k)' <=> Purged(k)
      BY DEF Sets, Purged
    <3>2. \A k \in Holder : At(i, k)' <=> At(i, k)
      BY <2>1, <2>2 DEF Place
    <3>3. QED
      BY <2>1, <2>3, <3>1, <3>2 DEF CarriedDoomed, ItemInv
  <2>11. QED
    BY <2>6, <2>7, <2>8, <2>9, <2>10 DEF ItemInv
<1>3. QED
  BY <1>1, <1>2 DEF ItemInv

\* A command that destroys the item in slot src keeps the item's invariant.
LEMMA Spender ==
    ASSUME NEW S, NEW src \in Holder, NEW i \in Item,
           Sets(S, {src}), TypeOK, UnbornNowhere(i), ItemInv(i),
           At(i, src), ~Purged(src),
           life'[i] = "doomed", i \in ground' <=> i \in ground,
           moved' = moved \cup ({src} \X {i}),
           \A k \in Place : Will(i, k)' <=> Will(i, k) /\ k # src
    PROVE  UnbornNowhere(i)' /\ ItemInv(i)'
<1>1. UnbornNowhere(i)'
  BY DEF UnbornNowhere
<1>2. ASSUME i \notin astray' PROVE ItemInv(i)'
  <2>0. src \in Place /\ Comp(i, src) = src
    BY Tags DEF Place, Comp, Component
  <2>1. /\ i \notin astray /\ life[i] = "alive"
        /\ \A k \in Place : (Will(i, k) <=> k = src) /\ (At(i, k) <=> k = src)
    BY <1>2, <2>0, Source
  <2>2. \A k \in Place : (At(i, k)' <=> k = src) /\ ~Will(i, k)'
    BY <2>1 DEF At, Sets
  <2>3. \A k : Purged(k)' <=> Purged(k)
    BY DEF Sets, Purged
  <2>4. UnmovedStays(i)' /\ OneHomeNext(i)' /\ GoneNowhere(i)'
    BY <2>2 DEF UnmovedStays, OneHomeNext, GoneNowhere
  <2>5. OneHomeNow(i)'
    BY <2>0, <2>2 DEF OneHomeNow
  <2>6. CondemnedLeaves(i)'
    <3>1. i \notin ground'
      BY <2>0, <2>1, Tags DEF At, Place, Component
    <3>2. QED
      BY <2>2, <3>1, Tags DEF CondemnedLeaves, Place
  <2>7. CarriedDoomed(i)'
    BY <2>1, <2>3 DEF CarriedDoomed, ItemInv
  <2>8. QED
    BY <2>4, <2>5, <2>6, <2>7 DEF ItemInv
<1>3. QED
  BY <1>1, <1>2 DEF ItemInv

\* A command that makes an item keeps the item's invariant.
LEMMA Maker ==
    ASSUME NEW S, NEW keys, NEW i \in Item, NEW dst \in Place,
           Sets(S, keys), TypeOK, UnbornNowhere(i), ItemInv(i),
           life[i] = "unborn", life'[i] = "alive",
           dst \in Ledger!Carried \cup {Ground}, ~Purged(dst),
           \A k \in Place : Will(i, k)' <=> k = dst,
           \A k \in Place : At(i, k)' => k = dst,
           Moved(i, dst)' \/ At(i, dst)',
           \A k \in Holder : <<k, i>> \in moved' => ~Purged(k)
    PROVE  UnbornNowhere(i)' /\ ItemInv(i)'
<1>1. \A k : Purged(k)' <=> Purged(k)
  BY DEF Sets, Purged
<1>2. UnmovedStays(i)'
  BY DEF UnmovedStays
<1>3. OneHomeNext(i)'
  BY DEF OneHomeNext
<1>4. OneHomeNow(i)'
  BY DEF OneHomeNow
<1>5. CarriedDoomed(i)'
  BY <1>1 DEF CarriedDoomed, Place
<1>6. QED
  BY <1>2, <1>3, <1>4, <1>5
     DEF ItemInv, UnbornNowhere, CondemnedLeaves, GoneNowhere

\* A command keeps the invariant if it keeps that of the items it moves.
LEMMA CommandStep ==
    ASSUME NEW S \in SUBSET Item, NEW keys, Sets(S, keys), IInv, TypeOK',
           \A i \in S : UnbornNowhere(i)' /\ ItemInv(i)'
    PROVE  IInv'
<1>1. \A i \in Item : UnbornNowhere(i)' /\ ItemInv(i)'
  BY Bystander DEF IInv
<1>2. IdleSettled'
  BY DEF IdleSettled, Sets
<1>3. SlotsSane'
  <2> SUFFICES ASSUME NEW p \in Player
               PROVE  /\ presence[p] = "out" =>
                            \A k \in Slots(p) : held[k] = {} /\ next'[k] = {}
                      /\ \A i, j \in held[Worn(p)] : i = j
                      /\ \A i, j \in next'[Worn(p)] : i = j
    BY DEF Sets, SlotsSane
  <2>1. \A k \in Slots(p) : k \in Holder
    BY Tags DEF Slots
  <2>2. presence[p] = "out" => \A k \in Slots(p) : next'[k] = next[k]
    BY <2>1 DEF Sets
  <2>3. Worn(p) \notin keys => next'[Worn(p)] = next[Worn(p)]
    BY <2>1 DEF Sets, Slots
  <2>4. QED
    BY <2>2, <2>3 DEF Sets, SlotsSane, IInv
<1>4. DeadRefsWritten'
  <2> SUFFICES ASSUME NEW p \in Player, NEW k \in Slots(p), NEW i \in Item,
                      life'[i] = "gone", i \in next'[k], k \notin written'
               PROVE  presence'[p] = "doomed"
    BY DEF DeadRefsWritten
  <2>1. k \in Holder \ keys /\ k \notin written
    BY Tags DEF Slots, Sets, Overwrite
  <2>2. i \in next[k] /\ life[i] = "gone"
    BY <2>1 DEF Sets
  <2>3. QED
    BY <2>1, <2>2 DEF DeadRefsWritten, IInv, Sets
<1>5. QED
  BY <1>1, <1>2, <1>3, <1>4 DEF IInv

-----------------------------------------------------------------------------
\* Every variable keeps its type: no command makes a slot reference anything
\* but an item, or exceeds the bound on commands.
LEMMA TypeInit == Init => TypeOK
  BY ItemsAssumption DEF Init, TypeOK

\* What a command leaves to show for the types.
LEMMA SetsType ==
    ASSUME TypeOK, NEW S \in SUBSET Item, NEW keys, Sets(S, keys),
           life' \in [Item -> {"unborn", "alive", "doomed", "gone"}],
           ground' \subseteq Item, nextGround' \subseteq Item, served' \subseteq Player
    PROVE  TypeOK'
<1>1. issued' \in 0..MaxCommands /\ written' \subseteq Component /\ astray' \subseteq Item
  BY ItemsAssumption DEF TypeOK, Sets, Overwrite
<1>2. moved' \subseteq Component \X Item
  BY DEF TypeOK, Sets
<1>3. QED
  BY <1>1, <1>2 DEF TypeOK, Sets

\* The components a command of player p sets are p's own or nobody's.
Common == ({"chest"} \X Chest) \cup ({"station"} \X Station) \cup ({"position"} \X Item)

LEMMA CommonKeys ==
    /\ \A c \in Chest : Bank(c) \in Common
    /\ \A s \in Station : Bench(s) \in Common
    /\ \A i \in Item : Pos(i) \in Common
    /\ \A p \in Player : Slots(p) \cap Common = {}
    /\ Common \subseteq Component
  BY DEF Common, Bank, Bench, Pos, Slots, Inv, Worn, Component, Holder

LEMMA PlayerSets ==
    ASSUME NEW p \in Player, NEW S \in SUBSET Item,
           NEW keys \in SUBSET (Slots(p) \cup Common),
           phase # "idle", phase' = phase, presence' = presence, held' = held,
           keys \cap Slots(p) # {} => presence[p] = "in",
           Overwrite(keys),
           \A i, j \in next'[Worn(p)] : Worn(p) \in keys => i = j,
           next' \in [Holder -> SUBSET Item],
           \A k \in Holder \ keys : next'[k] = next[k],
           \A k \in Holder \cap keys, j \in Item \ S : j \in next'[k] <=> j \in held[k],
           moved \subseteq moved', moved' \subseteq moved \cup (keys \X S),
           \A j \in Item \ S :
              /\ life'[j] = life[j]
              /\ j \in ground' <=> j \in ground
              /\ j \in nextGround' <=> j \in nextGround
              /\ Pos(j) \notin keys,
           \A j \in Item : life[j] = "gone" <=> life'[j] = "gone"
    PROVE  Sets(S, keys)
<1>1. \A q \in Player : keys \cap Slots(q) # {} => q = p
  BY Tags, CommonKeys DEF Slots
<1>2. \A q \in Player : Worn(q) \in keys => q = p
  BY <1>1 DEF Slots
<1>3. keys \subseteq Component
  BY CommonKeys, Tags DEF Slots, Component
<1>4. QED
  BY <1>1, <1>2, <1>3 DEF Sets

\* Each command is of the form Sets, and keeps the types.
LEMMA EquipSets ==
    ASSUME TypeOK, NEW p \in Player, NEW i \in Item, Equip(p, i)
    PROVE  Sets({i}, {Inv(p), Worn(p)}) /\ TypeOK'
<1> DEFINE keys == {Inv(p), Worn(p)}
<1>1. /\ keys \in SUBSET (Slots(p) \cup Common)
      /\ \A j \in Item \ {i} : Pos(j) \notin keys
  BY Tags, CommonKeys DEF Slots
<1>2. /\ next' \in [Holder -> SUBSET Item]
      /\ \A k \in Holder \ keys : next'[k] = next[k]
      /\ \A k \in Holder \cap keys, j \in Item \ {i} : j \in next'[k] <=> j \in held[k]
      /\ Worn(p) \in keys => next'[Worn(p)] \subseteq {i}
  BY Tags DEF Slots, Equip, TypeOK
<1>3. /\ phase # "idle" /\ phase' = phase /\ presence' = presence /\ held' = held
      /\ presence[p] = "in" /\ Overwrite(keys)
      /\ moved' = moved \cup (keys \X {i})
  BY DEF Equip, Serves, Move
<1>4. /\ \A j \in Item \ {i} :
            /\ life'[j] = life[j]
            /\ j \in ground' <=> j \in ground
            /\ j \in nextGround' <=> j \in nextGround
      /\ life[i] = "gone" <=> life'[i] = "gone"
  BY DEF Equip, TypeOK, Readable
<1>5. Sets({i}, keys)
  BY <1>1, <1>2, <1>3, <1>4, PlayerSets
<1>6. QED
  BY <1>5, SetsType DEF Equip, TypeOK

LEMMA EquipFromStackSets ==
    ASSUME TypeOK, NEW p \in Player, NEW i \in Item, EquipFromStack(p, i)
    PROVE  Sets({i}, {Inv(p), Worn(p)}) /\ TypeOK'
<1> DEFINE keys == {Inv(p), Worn(p)}
<1>1. /\ keys \in SUBSET (Slots(p) \cup Common)
      /\ \A j \in Item \ {i} : Pos(j) \notin keys
  BY Tags, CommonKeys DEF Slots
<1>2. /\ next' \in [Holder -> SUBSET Item]
      /\ \A k \in Holder \ keys : next'[k] = next[k]
      /\ \A k \in Holder \cap keys, j \in Item \ {i} : j \in next'[k] <=> j \in held[k]
      /\ Worn(p) \in keys => next'[Worn(p)] \subseteq {i}
  BY Tags DEF Slots, EquipFromStack, TypeOK
<1>3. /\ phase # "idle" /\ phase' = phase /\ presence' = presence /\ held' = held
      /\ presence[p] = "in" /\ Overwrite(keys)
      /\ moved' = moved \cup (keys \X {i})
  BY DEF EquipFromStack, Serves, Move
<1>4. /\ \A j \in Item \ {i} :
            /\ life'[j] = life[j]
            /\ j \in ground' <=> j \in ground
            /\ j \in nextGround' <=> j \in nextGround
      /\ life[i] = "gone" <=> life'[i] = "gone"
  BY DEF EquipFromStack, TypeOK, Readable
<1>5. Sets({i}, keys)
  BY <1>1, <1>2, <1>3, <1>4, PlayerSets
<1>6. QED
  BY <1>5, SetsType DEF EquipFromStack, TypeOK

LEMMA DropItemSets ==
    ASSUME TypeOK, NEW p \in Player, NEW i \in Item, DropItem(p, i)
    PROVE  Sets({i}, {Inv(p), Pos(i)}) /\ TypeOK'
<1> DEFINE keys == {Inv(p), Pos(i)}
<1>1. /\ keys \in SUBSET (Slots(p) \cup Common)
      /\ \A j \in Item \ {i} : Pos(j) \notin keys
  BY Tags, CommonKeys DEF Slots
<1>2. /\ next' \in [Holder -> SUBSET Item]
      /\ \A k \in Holder \ keys : next'[k] = next[k]
      /\ \A k \in Holder \cap keys, j \in Item \ {i} : j \in next'[k] <=> j \in held[k]
      /\ Worn(p) \in keys => next'[Worn(p)] \subseteq {i}
  BY Tags DEF Slots, DropItem, TypeOK
<1>3. /\ phase # "idle" /\ phase' = phase /\ presence' = presence /\ held' = held
      /\ presence[p] = "in" /\ Overwrite(keys)
      /\ moved' = moved \cup (keys \X {i})
  BY DEF DropItem, Serves, Move
<1>4. /\ \A j \in Item \ {i} :
            /\ life'[j] = life[j]
            /\ j \in ground' <=> j \in ground
            /\ j \in nextGround' <=> j \in nextGround
      /\ life[i] = "gone" <=> life'[i] = "gone"
  BY DEF DropItem, TypeOK, Readable
<1>5. Sets({i}, keys)
  BY <1>1, <1>2, <1>3, <1>4, PlayerSets
<1>6. QED
  BY <1>5, SetsType DEF DropItem, TypeOK

LEMMA DepositSets ==
    ASSUME TypeOK, NEW p \in Player, NEW i \in Item, NEW c \in Chest, Deposit(p, c, i)
    PROVE  Sets({i}, {Inv(p), Bank(c)}) /\ TypeOK'
<1> DEFINE keys == {Inv(p), Bank(c)}
<1>1. /\ keys \in SUBSET (Slots(p) \cup Common)
      /\ \A j \in Item \ {i} : Pos(j) \notin keys
  BY Tags, CommonKeys DEF Slots
<1>2. /\ next' \in [Holder -> SUBSET Item]
      /\ \A k \in Holder \ keys : next'[k] = next[k]
      /\ \A k \in Holder \cap keys, j \in Item \ {i} : j \in next'[k] <=> j \in held[k]
      /\ Worn(p) \in keys => next'[Worn(p)] \subseteq {i}
  BY Tags DEF Slots, Deposit, TypeOK
<1>3. /\ phase # "idle" /\ phase' = phase /\ presence' = presence /\ held' = held
      /\ presence[p] = "in" /\ Overwrite(keys)
      /\ moved' = moved \cup (keys \X {i})
  BY DEF Deposit, Serves, Move
<1>4. /\ \A j \in Item \ {i} :
            /\ life'[j] = life[j]
            /\ j \in ground' <=> j \in ground
            /\ j \in nextGround' <=> j \in nextGround
      /\ life[i] = "gone" <=> life'[i] = "gone"
  BY DEF Deposit, TypeOK, Readable
<1>5. Sets({i}, keys)
  BY <1>1, <1>2, <1>3, <1>4, PlayerSets
<1>6. QED
  BY <1>5, SetsType DEF Deposit, TypeOK

LEMMA LoadWorkstationSets ==
    ASSUME TypeOK, NEW p \in Player, NEW i \in Item, NEW s \in Station, LoadWorkstation(p, s, i)
    PROVE  Sets({i}, {Inv(p), Bench(s)}) /\ TypeOK'
<1> DEFINE keys == {Inv(p), Bench(s)}
<1>1. /\ keys \in SUBSET (Slots(p) \cup Common)
      /\ \A j \in Item \ {i} : Pos(j) \notin keys
  BY Tags, CommonKeys DEF Slots
<1>2. /\ next' \in [Holder -> SUBSET Item]
      /\ \A k \in Holder \ keys : next'[k] = next[k]
      /\ \A k \in Holder \cap keys, j \in Item \ {i} : j \in next'[k] <=> j \in held[k]
      /\ Worn(p) \in keys => next'[Worn(p)] \subseteq {i}
  BY Tags DEF Slots, LoadWorkstation, TypeOK
<1>3. /\ phase # "idle" /\ phase' = phase /\ presence' = presence /\ held' = held
      /\ presence[p] = "in" /\ Overwrite(keys)
      /\ moved' = moved \cup (keys \X {i})
  BY DEF LoadWorkstation, Serves, Move
<1>4. /\ \A j \in Item \ {i} :
            /\ life'[j] = life[j]
            /\ j \in ground' <=> j \in ground
            /\ j \in nextGround' <=> j \in nextGround
      /\ life[i] = "gone" <=> life'[i] = "gone"
  BY DEF LoadWorkstation, TypeOK, Readable
<1>5. Sets({i}, keys)
  BY <1>1, <1>2, <1>3, <1>4, PlayerSets
<1>6. QED
  BY <1>5, SetsType DEF LoadWorkstation, TypeOK

LEMMA TakeWorkstationSets ==
    ASSUME TypeOK, NEW p \in Player, NEW i \in Item, NEW s \in Station, TakeWorkstation(p, s, i)
    PROVE  Sets({i}, {Inv(p), Bench(s)}) /\ TypeOK'
<1> DEFINE keys == {Inv(p), Bench(s)}
<1>1. /\ keys \in SUBSET (Slots(p) \cup Common)
      /\ \A j \in Item \ {i} : Pos(j) \notin keys
  BY Tags, CommonKeys DEF Slots
<1>2. /\ next' \in [Holder -> SUBSET Item]
      /\ \A k \in Holder \ keys : next'[k] = next[k]
      /\ \A k \in Holder \cap keys, j \in Item \ {i} : j \in next'[k] <=> j \in held[k]
      /\ Worn(p) \in keys => next'[Worn(p)] \subseteq {i}
  BY Tags DEF Slots, TakeWorkstation, TypeOK
<1>3. /\ phase # "idle" /\ phase' = phase /\ presence' = presence /\ held' = held
      /\ presence[p] = "in" /\ Overwrite(keys)
      /\ moved' = moved \cup (keys \X {i})
  BY DEF TakeWorkstation, Serves, Move
<1>4. /\ \A j \in Item \ {i} :
            /\ life'[j] = life[j]
            /\ j \in ground' <=> j \in ground
            /\ j \in nextGround' <=> j \in nextGround
      /\ life[i] = "gone" <=> life'[i] = "gone"
  BY DEF TakeWorkstation, TypeOK, Readable
<1>5. Sets({i}, keys)
  BY <1>1, <1>2, <1>3, <1>4, PlayerSets
<1>6. QED
  BY <1>5, SetsType DEF TakeWorkstation, TypeOK

LEMMA PickUpSets ==
    ASSUME TypeOK, NEW p \in Player, NEW i \in Item, PickUp(p, i)
    PROVE  Sets({i}, {Inv(p), Pos(i)}) /\ TypeOK'
<1> DEFINE keys == {Inv(p), Pos(i)}
<1>1. /\ keys \in SUBSET (Slots(p) \cup Common)
      /\ \A j \in Item \ {i} : Pos(j) \notin keys
  BY Tags, CommonKeys DEF Slots
<1>2. /\ next' \in [Holder -> SUBSET Item]
      /\ \A k \in Holder \ keys : next'[k] = next[k]
      /\ \A k \in Holder \cap keys, j \in Item \ {i} : j \in next'[k] <=> j \in held[k]
      /\ Worn(p) \in keys => next'[Worn(p)] \subseteq {i}
  BY Tags DEF Slots, PickUp, TypeOK
<1>3. /\ phase # "idle" /\ phase' = phase /\ presence' = presence /\ held' = held
      /\ presence[p] = "in" /\ Overwrite(keys)
      /\ moved' = moved \cup (keys \X {i})
  BY DEF PickUp, Serves, Move
<1>4. /\ \A j \in Item \ {i} :
            /\ life'[j] = life[j]
            /\ j \in ground' <=> j \in ground
            /\ j \in nextGround' <=> j \in nextGround
      /\ life[i] = "gone" <=> life'[i] = "gone"
  BY DEF PickUp, TypeOK, Readable
<1>5. Sets({i}, keys)
  BY <1>1, <1>2, <1>3, <1>4, PlayerSets
<1>6. QED
  BY <1>5, SetsType DEF PickUp, TypeOK

LEMMA SpendItemSets ==
    ASSUME TypeOK, NEW p \in Player, NEW i \in Item, SpendItem(p, i)
    PROVE  Sets({i}, {Inv(p)}) /\ TypeOK'
<1> DEFINE keys == {Inv(p)}
<1>1. /\ keys \in SUBSET (Slots(p) \cup Common)
      /\ \A j \in Item \ {i} : Pos(j) \notin keys
  BY Tags, CommonKeys DEF Slots
<1>2. /\ next' \in [Holder -> SUBSET Item]
      /\ \A k \in Holder \ keys : next'[k] = next[k]
      /\ \A k \in Holder \cap keys, j \in Item \ {i} : j \in next'[k] <=> j \in held[k]
      /\ Worn(p) \in keys => next'[Worn(p)] \subseteq {i}
  BY Tags DEF Slots, SpendItem, TypeOK
<1>3. /\ phase # "idle" /\ phase' = phase /\ presence' = presence /\ held' = held
      /\ presence[p] = "in" /\ Overwrite(keys)
      /\ moved' = moved \cup (keys \X {i})
  BY DEF SpendItem, Serves, Move
<1>4. /\ \A j \in Item \ {i} :
            /\ life'[j] = life[j]
            /\ j \in ground' <=> j \in ground
            /\ j \in nextGround' <=> j \in nextGround
      /\ life[i] = "gone" <=> life'[i] = "gone"
  BY DEF SpendItem, TypeOK, Readable
<1>5. Sets({i}, keys)
  BY <1>1, <1>2, <1>3, <1>4, PlayerSets
<1>6. QED
  BY <1>5, SetsType DEF SpendItem, TypeOK

LEMMA ExternaliseSets ==
    ASSUME TypeOK, NEW p \in Player, NEW i \in Item, Externalise(p, i)
    PROVE  Sets({i}, {Inv(p)}) /\ TypeOK'
<1> DEFINE keys == {Inv(p)}
<1>1. /\ keys \in SUBSET (Slots(p) \cup Common)
      /\ \A j \in Item \ {i} : Pos(j) \notin keys
  BY Tags, CommonKeys DEF Slots
<1>2. /\ next' \in [Holder -> SUBSET Item]
      /\ \A k \in Holder \ keys : next'[k] = next[k]
      /\ \A k \in Holder \cap keys, j \in Item \ {i} : j \in next'[k] <=> j \in held[k]
      /\ Worn(p) \in keys => next'[Worn(p)] \subseteq {i}
  BY Tags DEF Slots, Externalise, TypeOK
<1>3. /\ phase # "idle" /\ phase' = phase /\ presence' = presence /\ held' = held
      /\ presence[p] = "in" /\ Overwrite(keys)
      /\ moved' = moved \cup (keys \X {i})
  BY DEF Externalise, Serves, Move
<1>4. /\ \A j \in Item \ {i} :
            /\ life'[j] = life[j]
            /\ j \in ground' <=> j \in ground
            /\ j \in nextGround' <=> j \in nextGround
      /\ life[i] = "gone" <=> life'[i] = "gone"
  BY DEF Externalise, TypeOK, Readable
<1>5. Sets({i}, keys)
  BY <1>1, <1>2, <1>3, <1>4, PlayerSets
<1>6. QED
  BY <1>5, SetsType DEF Externalise, TypeOK

LEMMA InternaliseSets ==
    ASSUME TypeOK, NEW p \in Player, NEW i \in Item, Internalise(p, i)
    PROVE  Sets({i}, {Inv(p)}) /\ TypeOK'
<1> DEFINE keys == {Inv(p)}
<1>1. /\ keys \in SUBSET (Slots(p) \cup Common)
      /\ \A j \in Item \ {i} : Pos(j) \notin keys
  BY Tags, CommonKeys DEF Slots
<1>2. /\ next' \in [Holder -> SUBSET Item]
      /\ \A k \in Holder \ keys : next'[k] = next[k]
      /\ \A k \in Holder \cap keys, j \in Item \ {i} : j \in next'[k] <=> j \in held[k]
      /\ Worn(p) \in keys => next'[Worn(p)] \subseteq {i}
  BY Tags DEF Slots, Internalise, TypeOK
<1>3. /\ phase # "idle" /\ phase' = phase /\ presence' = presence /\ held' = held
      /\ presence[p] = "in" /\ Overwrite(keys)
      /\ moved' = moved \cup (keys \X {i})
  BY DEF Internalise, Serves, Move
<1>4. /\ \A j \in Item \ {i} :
            /\ life'[j] = life[j]
            /\ j \in ground' <=> j \in ground
            /\ j \in nextGround' <=> j \in nextGround
      /\ life[i] = "gone" <=> life'[i] = "gone"
  BY DEF Internalise, TypeOK, Readable
<1>5. Sets({i}, keys)
  BY <1>1, <1>2, <1>3, <1>4, PlayerSets
<1>6. QED
  BY <1>5, SetsType DEF Internalise, TypeOK

LEMMA UnequipFullSets ==
    ASSUME TypeOK, SlotsSane, NEW p \in Player, NEW i \in Item, Unequip(p, i), Full(p)
    PROVE  Sets({i}, {Worn(p), Pos(i)}) /\ TypeOK'
<1> DEFINE keys == {Worn(p), Pos(i)}
<1>0. /\ next' = [next EXCEPT ![Worn(p)] = {}]
      /\ \A j \in Item \ {i} : j \notin held[Worn(p)]
  BY Tags DEF Unequip, SlotsSane, TypeOK
<1>1. /\ keys \in SUBSET (Slots(p) \cup Common)
      /\ \A j \in Item \ {i} : Pos(j) \notin keys
  BY Tags, CommonKeys DEF Slots
<1>2. /\ next' \in [Holder -> SUBSET Item]
      /\ \A k \in Holder \ keys : next'[k] = next[k]
      /\ \A k \in Holder \cap keys, j \in Item \ {i} : j \in next'[k] <=> j \in held[k]
      /\ Worn(p) \in keys => next'[Worn(p)] \subseteq {i}
  BY <1>0, Tags DEF Slots, TypeOK
<1>3. /\ phase # "idle" /\ phase' = phase /\ presence' = presence /\ held' = held
      /\ presence[p] = "in" /\ Overwrite(keys)
      /\ moved' = moved \cup (keys \X {i})
  BY DEF Unequip, Serves, Move
<1>4. /\ \A j \in Item \ {i} :
            /\ life'[j] = life[j]
            /\ j \in ground' <=> j \in ground
            /\ j \in nextGround' <=> j \in nextGround
      /\ life[i] = "gone" <=> life'[i] = "gone"
  BY DEF Unequip, TypeOK, Readable
<1>5. Sets({i}, keys)
  BY <1>1, <1>2, <1>3, <1>4, PlayerSets
<1>6. QED
  BY <1>5, SetsType DEF Unequip, TypeOK

LEMMA UnequipSets ==
    ASSUME TypeOK, SlotsSane, NEW p \in Player, NEW i \in Item, Unequip(p, i), ~Full(p)
    PROVE  Sets({i}, {Worn(p), Inv(p)}) /\ TypeOK'
<1> DEFINE keys == {Worn(p), Inv(p)}
<1>0. /\ next' = [next EXCEPT ![Worn(p)] = {}, ![Inv(p)] = held[Inv(p)] \cup {i}]
      /\ \A j \in Item \ {i} : j \notin held[Worn(p)]
  BY Tags DEF Unequip, SlotsSane, TypeOK
<1>1. /\ keys \in SUBSET (Slots(p) \cup Common)
      /\ \A j \in Item \ {i} : Pos(j) \notin keys
  BY Tags, CommonKeys DEF Slots
<1>2. /\ next' \in [Holder -> SUBSET Item]
      /\ \A k \in Holder \ keys : next'[k] = next[k]
      /\ \A k \in Holder \cap keys, j \in Item \ {i} : j \in next'[k] <=> j \in held[k]
      /\ Worn(p) \in keys => next'[Worn(p)] \subseteq {i}
  BY <1>0, Tags DEF Slots, TypeOK
<1>3. /\ phase # "idle" /\ phase' = phase /\ presence' = presence /\ held' = held
      /\ presence[p] = "in" /\ Overwrite(keys)
      /\ moved' = moved \cup (keys \X {i})
  BY DEF Unequip, Serves, Move
<1>4. /\ \A j \in Item \ {i} :
            /\ life'[j] = life[j]
            /\ j \in ground' <=> j \in ground
            /\ j \in nextGround' <=> j \in nextGround
      /\ life[i] = "gone" <=> life'[i] = "gone"
  BY DEF Unequip, TypeOK, Readable
<1>5. Sets({i}, keys)
  BY <1>1, <1>2, <1>3, <1>4, PlayerSets
<1>6. QED
  BY <1>5, SetsType DEF Unequip, TypeOK

LEMMA WithdrawSets ==
    ASSUME TypeOK, NEW p \in Player, NEW i \in Item, NEW c \in Chest, Withdraw(p, c, i),
    life[i] = "alive"
    PROVE  Sets({i}, {Inv(p), Bank(c)}) /\ TypeOK'
<1> DEFINE keys == {Inv(p), Bank(c)}
<1>0. next' = [next EXCEPT ![Bank(c)] = held[Bank(c)] \ {i},
                           ![Inv(p)] = held[Inv(p)] \cup {i}]
  BY DEF Withdraw
<1>1. /\ keys \in SUBSET (Slots(p) \cup Common)
      /\ \A j \in Item \ {i} : Pos(j) \notin keys
  BY Tags, CommonKeys DEF Slots
<1>2. /\ next' \in [Holder -> SUBSET Item]
      /\ \A k \in Holder \ keys : next'[k] = next[k]
      /\ \A k \in Holder \cap keys, j \in Item \ {i} : j \in next'[k] <=> j \in held[k]
      /\ Worn(p) \in keys => next'[Worn(p)] \subseteq {i}
  BY <1>0, Tags DEF Slots, TypeOK
<1>3. /\ phase # "idle" /\ phase' = phase /\ presence' = presence /\ held' = held
      /\ presence[p] = "in" /\ Overwrite(keys)
      /\ moved' = moved \cup (keys \X {i})
  BY DEF Withdraw, Serves, Move
<1>4. /\ \A j \in Item \ {i} :
            /\ life'[j] = life[j]
            /\ j \in ground' <=> j \in ground
            /\ j \in nextGround' <=> j \in nextGround
      /\ life[i] = "gone" <=> life'[i] = "gone"
  BY DEF Withdraw, TypeOK, Readable
<1>5. Sets({i}, keys)
  BY <1>1, <1>2, <1>3, <1>4, PlayerSets
<1>6. QED
  BY <1>5, SetsType DEF Withdraw, TypeOK

LEMMA WithdrawDeadSets ==
    ASSUME TypeOK, NEW p \in Player, NEW i \in Item, NEW c \in Chest, Withdraw(p, c, i),
    life[i] # "alive"
    PROVE  Sets({i}, {Bank(c)}) /\ TypeOK'
<1> DEFINE keys == {Bank(c)}
<1>0. next' = [next EXCEPT ![Bank(c)] = held[Bank(c)] \ {i}]
  BY DEF Withdraw
<1>1. /\ keys \in SUBSET (Slots(p) \cup Common)
      /\ \A j \in Item \ {i} : Pos(j) \notin keys
  BY Tags, CommonKeys DEF Slots
<1>2. /\ next' \in [Holder -> SUBSET Item]
      /\ \A k \in Holder \ keys : next'[k] = next[k]
      /\ \A k \in Holder \cap keys, j \in Item \ {i} : j \in next'[k] <=> j \in held[k]
      /\ Worn(p) \in keys => next'[Worn(p)] \subseteq {i}
  BY <1>0, Tags DEF Slots, TypeOK
<1>3. /\ phase # "idle" /\ phase' = phase /\ presence' = presence /\ held' = held
      /\ presence[p] = "in" /\ Overwrite(keys)
      /\ moved' = moved \cup (keys \X {i})
  BY DEF Withdraw, Serves, Move
<1>4. /\ \A j \in Item \ {i} :
            /\ life'[j] = life[j]
            /\ j \in ground' <=> j \in ground
            /\ j \in nextGround' <=> j \in nextGround
      /\ life[i] = "gone" <=> life'[i] = "gone"
  BY DEF Withdraw, TypeOK, Readable
<1>5. Sets({i}, keys)
  BY <1>1, <1>2, <1>3, <1>4, PlayerSets
<1>6. QED
  BY <1>5, SetsType DEF Withdraw, TypeOK

-----------------------------------------------------------------------------
(* Each command keeps the invariant.                                         *)

\* No component belongs to a purged entity but the slots of its player.
LEMMA NotPurged ==
    /\ \A p \in Player : presence[p] = "in" => ~Purged(Inv(p)) /\ ~Purged(Worn(p))
    /\ \A c \in Chest : ~Purged(Bank(c))
    /\ \A s \in Station : ~Purged(Bench(s))
    /\ ~Purged(Ground)
  BY Tags DEF Purged, Slots, Component

LEMMA Comps ==
    /\ \A i \in Item, k \in Holder : Comp(i, k) = k /\ k # Ground /\ k \in Place
    /\ \A i \in Item : Comp(i, Ground) = Pos(i) /\ Ground \in Place
  BY Tags DEF Comp, Component, Place

LEMMA Routes ==
    /\ \A p \in Player : /\ Ledger!Route(Inv(p), Worn(p))
                          /\ Ledger!Route(Worn(p), Inv(p))
                          /\ Ledger!Route(Inv(p), Ground) /\ Ledger!Route(Worn(p), Ground)
                          /\ Ledger!Route(Ground, Inv(p))
    /\ \A p \in Player, c \in Chest :
          Ledger!Route(Inv(p), Bank(c)) /\ Ledger!Route(Bank(c), Inv(p))
    /\ \A p \in Player, s \in Station :
          Ledger!Route(Inv(p), Bench(s)) /\ Ledger!Route(Bench(s), Inv(p))
    /\ \A p \in Player : Inv(p) \in Ledger!Carried /\ Worn(p) \in Ledger!Carried
  BY DEF Ledger!Route, Ledger!Carried, Ledger!Store, Ledger!Ground, Ground,
         Inv, Worn, Bank, Bench

LEMMA EquipKeeps ==
    ASSUME IInv, NEW p \in Player, NEW i \in Item, Equip(p, i)
    PROVE  IInv'
<1> USE DEF IInv
<1>1. Sets({i}, {Inv(p), Worn(p)}) /\ TypeOK'
  BY EquipSets
<1>2. /\ Comp(i, Inv(p)) = Inv(p) /\ Comp(i, Worn(p)) = Worn(p)
      /\ Inv(p) \in Place /\ Worn(p) \in Place /\ Inv(p) # Worn(p)
      /\ ~Purged(Inv(p)) /\ ~Purged(Worn(p)) /\ Ledger!Route(Inv(p), Worn(p))
  BY Tags, Comps, NotPurged, Routes DEF Equip, Serves, Slots
<1>3. {Inv(p), Worn(p)} = {Comp(i, Inv(p)), Comp(i, Worn(p))}
  BY <1>2
<1>4. /\ At(i, Inv(p)) /\ life'[i] = life[i] /\ ground' = ground
      /\ moved' = moved \cup ({Comp(i, Inv(p)), Comp(i, Worn(p))} \X {i})
  BY <1>3, Comps, Tags DEF Equip, At, Move
<1>5. \A l \in Place : Will(i, l)' <=> l = Worn(p) \/ (Will(i, l) /\ l # Inv(p))
  BY Comps, Tags DEF Equip, Will, Place, TypeOK, Slots
<1>6. UnbornNowhere(i)' /\ ItemInv(i)'
  BY <1>1, <1>2, <1>3, <1>4, <1>5, Mover
<1>7. QED
  BY <1>1, <1>6, CommandStep

LEMMA UnequipKeeps ==
    ASSUME IInv, NEW p \in Player, NEW i \in Item, Unequip(p, i), ~Full(p)
    PROVE  IInv'
<1> USE DEF IInv
<1>1. Sets({i}, {Worn(p), Inv(p)}) /\ TypeOK'
  BY UnequipSets
<1>2. /\ Comp(i, Worn(p)) = Worn(p) /\ Comp(i, Inv(p)) = Inv(p)
      /\ Worn(p) \in Place /\ Inv(p) \in Place /\ Worn(p) # Inv(p)
      /\ ~Purged(Worn(p)) /\ ~Purged(Inv(p)) /\ Ledger!Route(Worn(p), Inv(p))
  BY Tags, Comps, NotPurged, Routes DEF Unequip, Serves, Slots
<1>3. {Worn(p), Inv(p)} = {Comp(i, Worn(p)), Comp(i, Inv(p))}
  BY <1>2
<1>4. /\ At(i, Worn(p)) /\ life'[i] = life[i] /\ ground' = ground
      /\ moved' = moved \cup ({Comp(i, Worn(p)), Comp(i, Inv(p))} \X {i})
  BY <1>3, Comps, Tags DEF Unequip, At, Move
<1>5. \A l \in Place : Will(i, l)' <=> l = Inv(p) \/ (Will(i, l) /\ l # Worn(p))
  BY Comps, Tags DEF Unequip, Will, Place, TypeOK, Slots
<1>6. UnbornNowhere(i)' /\ ItemInv(i)'
  BY <1>1, <1>2, <1>3, <1>4, <1>5, Mover
<1>7. QED
  BY <1>1, <1>6, CommandStep

LEMMA UnequipFullKeeps ==
    ASSUME IInv, NEW p \in Player, NEW i \in Item, Unequip(p, i), Full(p)
    PROVE  IInv'
<1> USE DEF IInv
<1>1. Sets({i}, {Worn(p), Pos(i)}) /\ TypeOK'
  BY UnequipFullSets
<1>2. /\ Comp(i, Worn(p)) = Worn(p) /\ Comp(i, Ground) = Pos(i)
      /\ Worn(p) \in Place /\ Ground \in Place /\ Worn(p) # Ground
      /\ ~Purged(Worn(p)) /\ ~Purged(Ground) /\ Ledger!Route(Worn(p), Ground)
  BY Tags, Comps, NotPurged, Routes DEF Unequip, Serves, Slots
<1>3. {Worn(p), Pos(i)} = {Comp(i, Worn(p)), Comp(i, Ground)}
  BY <1>2
<1>4. /\ At(i, Worn(p)) /\ life'[i] = life[i] /\ ground' = ground
      /\ moved' = moved \cup ({Comp(i, Worn(p)), Comp(i, Ground)} \X {i})
  BY <1>3, Comps, Tags DEF Unequip, At, Move
<1>5. \A l \in Place : Will(i, l)' <=> l = Ground \/ (Will(i, l) /\ l # Worn(p))
  BY Comps, Tags DEF Unequip, Will, Place, TypeOK, Slots
<1>6. UnbornNowhere(i)' /\ ItemInv(i)'
  BY <1>1, <1>2, <1>3, <1>4, <1>5, Mover
<1>7. QED
  BY <1>1, <1>6, CommandStep

LEMMA DropItemKeeps ==
    ASSUME IInv, NEW p \in Player, NEW i \in Item, DropItem(p, i)
    PROVE  IInv'
<1> USE DEF IInv
<1>1. Sets({i}, {Inv(p), Pos(i)}) /\ TypeOK'
  BY DropItemSets
<1>2. /\ Comp(i, Inv(p)) = Inv(p) /\ Comp(i, Ground) = Pos(i)
      /\ Inv(p) \in Place /\ Ground \in Place /\ Inv(p) # Ground
      /\ ~Purged(Inv(p)) /\ ~Purged(Ground) /\ Ledger!Route(Inv(p), Ground)
  BY Tags, Comps, NotPurged, Routes DEF DropItem, Serves, Slots
<1>3. {Inv(p), Pos(i)} = {Comp(i, Inv(p)), Comp(i, Ground)}
  BY <1>2
<1>4. /\ At(i, Inv(p)) /\ life'[i] = life[i] /\ ground' = ground
      /\ moved' = moved \cup ({Comp(i, Inv(p)), Comp(i, Ground)} \X {i})
  BY <1>3, Comps, Tags DEF DropItem, At, Move
<1>5. \A l \in Place : Will(i, l)' <=> l = Ground \/ (Will(i, l) /\ l # Inv(p))
  BY Comps, Tags DEF DropItem, Will, Place, TypeOK, Slots
<1>6. UnbornNowhere(i)' /\ ItemInv(i)'
  BY <1>1, <1>2, <1>3, <1>4, <1>5, Mover
<1>7. QED
  BY <1>1, <1>6, CommandStep

LEMMA DepositKeeps ==
    ASSUME IInv, NEW p \in Player, NEW i \in Item, NEW c \in Chest, Deposit(p, c, i)
    PROVE  IInv'
<1> USE DEF IInv
<1>1. Sets({i}, {Inv(p), Bank(c)}) /\ TypeOK'
  BY DepositSets
<1>2. /\ Comp(i, Inv(p)) = Inv(p) /\ Comp(i, Bank(c)) = Bank(c)
      /\ Inv(p) \in Place /\ Bank(c) \in Place /\ Inv(p) # Bank(c)
      /\ ~Purged(Inv(p)) /\ ~Purged(Bank(c)) /\ Ledger!Route(Inv(p), Bank(c))
  BY Tags, Comps, NotPurged, Routes DEF Deposit, Serves, Slots
<1>3. {Inv(p), Bank(c)} = {Comp(i, Inv(p)), Comp(i, Bank(c))}
  BY <1>2
<1>4. /\ At(i, Inv(p)) /\ life'[i] = life[i] /\ ground' = ground
      /\ moved' = moved \cup ({Comp(i, Inv(p)), Comp(i, Bank(c))} \X {i})
  BY <1>3, Comps, Tags DEF Deposit, At, Move
<1>5. \A l \in Place : Will(i, l)' <=> l = Bank(c) \/ (Will(i, l) /\ l # Inv(p))
  BY Comps, Tags DEF Deposit, Will, Place, TypeOK, Slots
<1>6. UnbornNowhere(i)' /\ ItemInv(i)'
  BY <1>1, <1>2, <1>3, <1>4, <1>5, Mover
<1>7. QED
  BY <1>1, <1>6, CommandStep

LEMMA WithdrawKeeps ==
    ASSUME IInv, NEW p \in Player, NEW i \in Item, NEW c \in Chest, Withdraw(p, c, i),
    life[i] = "alive"
    PROVE  IInv'
<1> USE DEF IInv
<1>1. Sets({i}, {Inv(p), Bank(c)}) /\ TypeOK'
  BY WithdrawSets
<1>2. /\ Comp(i, Bank(c)) = Bank(c) /\ Comp(i, Inv(p)) = Inv(p)
      /\ Bank(c) \in Place /\ Inv(p) \in Place /\ Bank(c) # Inv(p)
      /\ ~Purged(Bank(c)) /\ ~Purged(Inv(p)) /\ Ledger!Route(Bank(c), Inv(p))
  BY Tags, Comps, NotPurged, Routes DEF Withdraw, Serves, Slots
<1>3. {Inv(p), Bank(c)} = {Comp(i, Bank(c)), Comp(i, Inv(p))}
  BY <1>2
<1>4. /\ At(i, Bank(c)) /\ life'[i] = life[i] /\ ground' = ground
      /\ moved' = moved \cup ({Comp(i, Bank(c)), Comp(i, Inv(p))} \X {i})
  BY <1>3, Comps, Tags DEF Withdraw, At, Move
<1>5. \A l \in Place : Will(i, l)' <=> l = Inv(p) \/ (Will(i, l) /\ l # Bank(c))
  BY Comps, Tags DEF Withdraw, Will, Place, TypeOK, Slots
<1>6. UnbornNowhere(i)' /\ ItemInv(i)'
  BY <1>1, <1>2, <1>3, <1>4, <1>5, Mover
<1>7. QED
  BY <1>1, <1>6, CommandStep

LEMMA LoadWorkstationKeeps ==
    ASSUME IInv, NEW p \in Player, NEW i \in Item, NEW s \in Station, LoadWorkstation(p, s, i)
    PROVE  IInv'
<1> USE DEF IInv
<1>1. Sets({i}, {Inv(p), Bench(s)}) /\ TypeOK'
  BY LoadWorkstationSets
<1>2. /\ Comp(i, Inv(p)) = Inv(p) /\ Comp(i, Bench(s)) = Bench(s)
      /\ Inv(p) \in Place /\ Bench(s) \in Place /\ Inv(p) # Bench(s)
      /\ ~Purged(Inv(p)) /\ ~Purged(Bench(s)) /\ Ledger!Route(Inv(p), Bench(s))
  BY Tags, Comps, NotPurged, Routes DEF LoadWorkstation, Serves, Slots
<1>3. {Inv(p), Bench(s)} = {Comp(i, Inv(p)), Comp(i, Bench(s))}
  BY <1>2
<1>4. /\ At(i, Inv(p)) /\ life'[i] = life[i] /\ ground' = ground
      /\ moved' = moved \cup ({Comp(i, Inv(p)), Comp(i, Bench(s))} \X {i})
  BY <1>3, Comps, Tags DEF LoadWorkstation, At, Move
<1>5. \A l \in Place : Will(i, l)' <=> l = Bench(s) \/ (Will(i, l) /\ l # Inv(p))
  BY Comps, Tags DEF LoadWorkstation, Will, Place, TypeOK, Slots
<1>6. UnbornNowhere(i)' /\ ItemInv(i)'
  BY <1>1, <1>2, <1>3, <1>4, <1>5, Mover
<1>7. QED
  BY <1>1, <1>6, CommandStep

LEMMA TakeWorkstationKeeps ==
    ASSUME IInv, NEW p \in Player, NEW i \in Item, NEW s \in Station, TakeWorkstation(p, s, i)
    PROVE  IInv'
<1> USE DEF IInv
<1>1. Sets({i}, {Inv(p), Bench(s)}) /\ TypeOK'
  BY TakeWorkstationSets
<1>2. /\ Comp(i, Bench(s)) = Bench(s) /\ Comp(i, Inv(p)) = Inv(p)
      /\ Bench(s) \in Place /\ Inv(p) \in Place /\ Bench(s) # Inv(p)
      /\ ~Purged(Bench(s)) /\ ~Purged(Inv(p)) /\ Ledger!Route(Bench(s), Inv(p))
  BY Tags, Comps, NotPurged, Routes DEF TakeWorkstation, Serves, Slots
<1>3. {Inv(p), Bench(s)} = {Comp(i, Bench(s)), Comp(i, Inv(p))}
  BY <1>2
<1>4. /\ At(i, Bench(s)) /\ life'[i] = life[i] /\ ground' = ground
      /\ moved' = moved \cup ({Comp(i, Bench(s)), Comp(i, Inv(p))} \X {i})
  BY <1>3, Comps, Tags DEF TakeWorkstation, At, Move
<1>5. \A l \in Place : Will(i, l)' <=> l = Inv(p) \/ (Will(i, l) /\ l # Bench(s))
  BY Comps, Tags DEF TakeWorkstation, Will, Place, TypeOK, Slots
<1>6. UnbornNowhere(i)' /\ ItemInv(i)'
  BY <1>1, <1>2, <1>3, <1>4, <1>5, Mover
<1>7. QED
  BY <1>1, <1>6, CommandStep

LEMMA PickUpKeeps ==
    ASSUME IInv, NEW p \in Player, NEW i \in Item, PickUp(p, i)
    PROVE  IInv'
<1> USE DEF IInv
<1>1. Sets({i}, {Inv(p), Pos(i)}) /\ TypeOK'
  BY PickUpSets
<1>2. /\ Comp(i, Ground) = Pos(i) /\ Comp(i, Inv(p)) = Inv(p)
      /\ Ground \in Place /\ Inv(p) \in Place /\ Ground # Inv(p)
      /\ ~Purged(Ground) /\ ~Purged(Inv(p)) /\ Ledger!Route(Ground, Inv(p))
  BY Tags, Comps, NotPurged, Routes DEF PickUp, Serves, Slots
<1>3. {Inv(p), Pos(i)} = {Comp(i, Ground), Comp(i, Inv(p))}
  BY <1>2
<1>4. /\ At(i, Ground) /\ life'[i] = life[i] /\ ground' = ground
      /\ moved' = moved \cup ({Comp(i, Ground), Comp(i, Inv(p))} \X {i})
  BY <1>3, Comps, Tags DEF PickUp, At, Move
<1>5. \A l \in Place : Will(i, l)' <=> l = Inv(p) \/ (Will(i, l) /\ l # Ground)
  BY Comps, Tags DEF PickUp, Will, Place, TypeOK, Slots
<1>6. UnbornNowhere(i)' /\ ItemInv(i)'
  BY <1>1, <1>2, <1>3, <1>4, <1>5, Mover
<1>7. QED
  BY <1>1, <1>6, CommandStep

LEMMA SpendItemKeeps ==
    ASSUME IInv, NEW p \in Player, NEW i \in Item, SpendItem(p, i)
    PROVE  IInv'
<1> USE DEF IInv
<1>1. Sets({i}, {Inv(p)}) /\ TypeOK'
  BY SpendItemSets
<1>2. Inv(p) \in Holder /\ ~Purged(Inv(p))
  BY Tags, NotPurged DEF SpendItem, Serves
<1>3. /\ At(i, Inv(p)) /\ life'[i] = "doomed" /\ ground' = ground
      /\ moved' = moved \cup ({Inv(p)} \X {i})
  BY Comps, Tags DEF SpendItem, At, Move, TypeOK
<1>4. \A l \in Place : Will(i, l)' <=> Will(i, l) /\ l # Inv(p)
  <2>1. /\ Will(i, Ground)' <=> Will(i, Ground)
        /\ \A l \in Holder : l # Inv(p) => (Will(i, l)' <=> Will(i, l))
        /\ ~Will(i, Inv(p))'
    BY <1>2, Comps DEF SpendItem, Will, TypeOK
  <2>2. QED
    BY <1>2, <2>1, Comps DEF Place
<1>5. UnbornNowhere(i)' /\ ItemInv(i)'
  BY <1>1, <1>2, <1>3, <1>4, Spender
<1>6. QED
  BY <1>1, <1>5, CommandStep

LEMMA InternaliseKeeps ==
    ASSUME IInv, NEW p \in Player, NEW i \in Item, Internalise(p, i)
    PROVE  IInv'
<1> USE DEF IInv
<1>1. Sets({i}, {Inv(p)}) /\ TypeOK'
  BY InternaliseSets
<1>2. Inv(p) \in Holder /\ ~Purged(Inv(p))
  BY Tags, NotPurged DEF Internalise, Serves
<1>3. /\ At(i, Inv(p)) /\ life'[i] = "doomed" /\ ground' = ground
      /\ moved' = moved \cup ({Inv(p)} \X {i})
  BY Comps, Tags DEF Internalise, At, Move, TypeOK
<1>4. \A l \in Place : Will(i, l)' <=> Will(i, l) /\ l # Inv(p)
  <2>1. /\ Will(i, Ground)' <=> Will(i, Ground)
        /\ \A l \in Holder : l # Inv(p) => (Will(i, l)' <=> Will(i, l))
        /\ ~Will(i, Inv(p))'
    BY <1>2, Comps DEF Internalise, Will, TypeOK
  <2>2. QED
    BY <1>2, <2>1, Comps DEF Place
<1>5. UnbornNowhere(i)' /\ ItemInv(i)'
  BY <1>1, <1>2, <1>3, <1>4, Spender
<1>6. QED
  BY <1>1, <1>5, CommandStep

LEMMA EquipFromStackKeeps ==
    ASSUME IInv, NEW p \in Player, NEW i \in Item, EquipFromStack(p, i)
    PROVE  IInv'
<1> USE DEF IInv
<1>1. Sets({i}, {Inv(p), Worn(p)}) /\ TypeOK'
  BY EquipFromStackSets
<1>2. /\ Worn(p) \in Place /\ Worn(p) \in Holder /\ ~Purged(Worn(p)) /\ ~Purged(Inv(p))
      /\ Worn(p) \in Ledger!Carried
  BY Tags, Comps, NotPurged, Routes DEF EquipFromStack, Serves
<1>3. /\ life[i] = "unborn" /\ life'[i] = "alive"
      /\ moved' = moved \cup ({Inv(p), Worn(p)} \X {i})
  BY DEF EquipFromStack, Move, TypeOK
<1>4. \A l \in Place : ~At(i, l) /\ ~At(i, l)' /\ ~Will(i, l)
  BY <1>3 DEF UnbornNowhere, EquipFromStack, At
<1>5. \A l \in Place : Will(i, l)' <=> l = Worn(p)
  <2>1. \A l \in Holder : i \notin held[l] /\ i \notin next[l]
    BY <1>4, Comps DEF At, Will
  <2>2. i \notin nextGround
    BY <1>4, Comps DEF Will
  <2>3. \A l \in Holder : i \in next'[l] <=> l = Worn(p)
    BY <1>2, <2>1, Tags DEF EquipFromStack, TypeOK
  <2>4. i \notin nextGround'
    BY <2>2 DEF EquipFromStack
  <2>5. QED
    BY <1>2, <2>3, <2>4, Comps DEF Will, Place
<1>6. Moved(i, Worn(p))'
  BY <1>2, <1>3, Comps DEF Moved
<1>7. \A l \in Holder : <<l, i>> \in moved' => ~Purged(l)
  BY <1>2, <1>3 DEF UnbornNowhere, Component
<1>8. UnbornNowhere(i)' /\ ItemInv(i)'
  BY <1>1, <1>2, <1>3, <1>4, <1>5, <1>6, <1>7, Maker
<1>9. QED
  BY <1>1, <1>8, CommandStep

LEMMA ExternaliseKeeps ==
    ASSUME IInv, NEW p \in Player, NEW i \in Item, Externalise(p, i)
    PROVE  IInv'
<1> USE DEF IInv
<1>1. Sets({i}, {Inv(p)}) /\ TypeOK'
  BY ExternaliseSets
<1>2. /\ Inv(p) \in Place /\ Inv(p) \in Holder /\ ~Purged(Inv(p)) /\ ~Purged(Inv(p))
      /\ Inv(p) \in Ledger!Carried
  BY Tags, Comps, NotPurged, Routes DEF Externalise, Serves
<1>3. /\ life[i] = "unborn" /\ life'[i] = "alive"
      /\ moved' = moved \cup ({Inv(p)} \X {i})
  BY DEF Externalise, Move, TypeOK
<1>4. \A l \in Place : ~At(i, l) /\ ~At(i, l)' /\ ~Will(i, l)
  BY <1>3 DEF UnbornNowhere, Externalise, At
<1>5. \A l \in Place : Will(i, l)' <=> l = Inv(p)
  <2>1. \A l \in Holder : i \notin held[l] /\ i \notin next[l]
    BY <1>4, Comps DEF At, Will
  <2>2. i \notin nextGround
    BY <1>4, Comps DEF Will
  <2>3. \A l \in Holder : i \in next'[l] <=> l = Inv(p)
    BY <1>2, <2>1, Tags DEF Externalise, TypeOK
  <2>4. i \notin nextGround'
    BY <2>2 DEF Externalise
  <2>5. QED
    BY <1>2, <2>3, <2>4, Comps DEF Will, Place
<1>6. Moved(i, Inv(p))'
  BY <1>2, <1>3, Comps DEF Moved
<1>7. \A l \in Holder : <<l, i>> \in moved' => ~Purged(l)
  BY <1>2, <1>3 DEF UnbornNowhere, Component
<1>8. UnbornNowhere(i)' /\ ItemInv(i)'
  BY <1>1, <1>2, <1>3, <1>4, <1>5, <1>6, <1>7, Maker
<1>9. QED
  BY <1>1, <1>8, CommandStep

\* Withdrawing a dead reference purges one that was astray, or overwrites the
\* move that put it there.
LEMMA WithdrawDeadKeeps ==
    ASSUME IInv, NEW p \in Player, NEW i \in Item, NEW c \in Chest,
           Withdraw(p, c, i), life[i] # "alive"
    PROVE  IInv'
<1> USE DEF IInv
<1>1. Sets({i}, {Bank(c)}) /\ TypeOK'
  BY WithdrawDeadSets
<1>2. /\ Bank(c) \in Place /\ ~Purged(Bank(c)) /\ Comp(i, Bank(c)) = Bank(c)
      /\ At(i, Bank(c))
  BY Tags, Comps, NotPurged DEF Withdraw, At
<1>3. UnbornNowhere(i)'
  BY <1>2 DEF UnbornNowhere, Withdraw
<1>4. ItemInv(i)'
  BY <1>1, <1>2, Source DEF ItemInv
<1>5. QED
  BY <1>1, <1>3, <1>4, CommandStep

LEMMA RewriteInventoryKeeps ==
    ASSUME IInv, NEW p \in Player, RewriteInventory(p)
    PROVE  IInv'
<1> USE DEF IInv
<1> DEFINE keys == {Inv(p)}
<1>1. keys \in SUBSET (Slots(p) \cup Common) /\ Worn(p) \notin keys
  BY Tags DEF Slots
<1>2. next' = [next EXCEPT ![Inv(p)] = held[Inv(p)]] /\ Inv(p) \in Holder
  BY Tags DEF RewriteInventory
<1>3. Overwrite(keys) /\ \A j \in Item : Pos(j) \notin keys
  BY Tags DEF RewriteInventory
<1>4. Sets({}, keys)
  BY <1>1, <1>2, <1>3, PlayerSets DEF RewriteInventory, TypeOK
<1>5. TypeOK'
  BY <1>4, SetsType DEF RewriteInventory, TypeOK
<1>6. QED
  BY <1>4, <1>5, CommandStep

LEMMA StationKeys ==
    ASSUME NEW s \in Station
    PROVE  /\ Bench(s) \in Holder /\ {Bench(s)} \subseteq Component
           /\ \A q \in Player : {Bench(s)} \cap Slots(q) = {} /\ Worn(q) \notin {Bench(s)}
           /\ \A j \in Item : Pos(j) \notin {Bench(s)}
<1>1. /\ Bench(s) \in Holder
      /\ \A q \in Player : Bench(s) \notin Slots(q)
      /\ \A j \in Item : Pos(j) # Bench(s)
  BY DEF Bench, Holder, Slots, Inv, Worn, Pos
<1>2. \A q \in Player : Worn(q) # Bench(s)
  BY <1>1 DEF Slots
<1>3. QED
  BY <1>1, <1>2 DEF Component

LEMMA RewriteBufferKeeps ==
    ASSUME IInv, NEW s \in Station, RewriteBuffer(s)
    PROVE  IInv'
<1> USE DEF IInv
<1> DEFINE keys == {Bench(s)}
<1>1. /\ keys \subseteq Component
      /\ \A q \in Player : keys \cap Slots(q) = {} /\ Worn(q) \notin keys
      /\ \A j \in Item : Pos(j) \notin keys
  BY StationKeys
<1>2. next' = [next EXCEPT ![Bench(s)] = held[Bench(s)]] /\ Bench(s) \in Holder
  BY StationKeys DEF RewriteBuffer
<1>3. Sets({}, keys)
  BY <1>1, <1>2 DEF Sets, RewriteBuffer, TypeOK
<1>4. TypeOK'
  BY <1>3, SetsType DEF RewriteBuffer, TypeOK
<1>5. QED
  BY <1>3, <1>4, CommandStep

LEMMA ResolveRecipeKeeps ==
    ASSUME IInv, NEW s \in Station, NEW i \in Item, NEW new \in AtMostOne,
           ResolveRecipe(s, i, new)
    PROVE  IInv'
<1> USE DEF IInv
<1> DEFINE keys == {Bench(s)}
           S == {i} \cup new
<1>1. /\ keys \subseteq Component
      /\ \A q \in Player : keys \cap Slots(q) = {} /\ Worn(q) \notin keys
      /\ \A j \in Item : Pos(j) \notin keys
  BY StationKeys
<1>2. /\ next' = [next EXCEPT ![Bench(s)] = held[Bench(s)] \ {i}]
      /\ Bench(s) \in Holder /\ ~Purged(Bench(s))
      /\ i \in held[Bench(s)] /\ i \notin new
  BY StationKeys, NotPurged DEF ResolveRecipe, Readable
<1>3. new \subseteq Item /\ S \in SUBSET Item
  BY DEF AtMostOne
<1>4. /\ phase = "actions" /\ phase' = phase /\ presence' = presence /\ held' = held
      /\ Overwrite(keys) /\ moved' = moved \cup (keys \X {i})
      /\ \A j \in new : life[j] = "unborn" /\ life'[j] = "alive"
      /\ life'[i] = "doomed" /\ life[i] # "gone"
      /\ \A j \in Item \ S : life'[j] = life[j]
      /\ ground' = ground \cup new /\ nextGround' = nextGround \cup new
  BY <1>2, <1>3 DEF ResolveRecipe, Move, Readable
<1>5. Sets(S, keys)
  <2>1. next' \in [Holder -> SUBSET Item]
    BY <1>2 DEF TypeOK
  <2>2. \A k \in Holder \ keys : next'[k] = next[k]
    BY <1>2 DEF TypeOK
  <2>3. \A k \in Holder \cap keys, j \in Item \ S : j \in next'[k] <=> j \in held[k]
    BY <1>2 DEF TypeOK
  <2>4. \A j \in Item : life[j] = "gone" <=> life'[j] = "gone"
    BY <1>3, <1>4
  <2>5. QED
    BY <1>1, <1>3, <1>4, <2>1, <2>2, <2>3, <2>4 DEF Sets
<1>6. TypeOK'
  <2>1. life' \in [Item -> {"unborn", "alive", "doomed", "gone"}]
    BY DEF ResolveRecipe, TypeOK
  <2>2. served' \subseteq Player
    BY DEF ResolveRecipe, TypeOK
  <2>3. QED
    BY <1>3, <1>4, <1>5, <2>1, <2>2, SetsType DEF TypeOK
<1>7. UnbornNowhere(i)' /\ ItemInv(i)'
  <2>1. At(i, Bench(s)) /\ \A l \in Place : Will(i, l)' <=> Will(i, l) /\ l # Bench(s)
    <3>1. \A l \in Holder : l # Bench(s) => (Will(i, l)' <=> Will(i, l))
      BY <1>2, Comps DEF Will, TypeOK
    <3>2. ~Will(i, Bench(s))' /\ At(i, Bench(s))
      BY <1>2, Comps DEF Will, At, TypeOK
    <3>3. Will(i, Ground)' <=> Will(i, Ground)
      BY <1>2, <1>4 DEF Will
    <3>4. QED
      BY <1>2, <3>1, <3>2, <3>3, Comps DEF Place
  <2>2. i \in ground' <=> i \in ground
    BY <1>2, <1>4
  <2>3. Sets(S, {Bench(s)}) /\ moved' = moved \cup ({Bench(s)} \X {i})
    BY <1>4, <1>5
  <2>4. QED
    BY <1>2, <1>4, <2>1, <2>2, <2>3, Spender
<1>8. ASSUME NEW j \in new PROVE UnbornNowhere(j)' /\ ItemInv(j)'
  <2>1. j \in Item /\ j # i /\ life[j] = "unborn" /\ life'[j] = "alive"
    BY <1>2, <1>3, <1>4
  <2>2. /\ \A k \in Place : ~At(j, k) /\ ~Will(j, k)
        /\ \A k \in Component : <<k, j>> \notin moved
    BY <2>1 DEF UnbornNowhere
  <2>3. \A k \in Holder : j \notin held[k] /\ j \notin next[k]
    BY <2>2, Comps DEF At, Will
  <2>4. \A k \in Holder : j \notin next'[k] /\ j \notin held'[k]
    BY <1>2, <1>4, <2>3 DEF TypeOK
  <2>5. j \in ground' /\ j \in nextGround'
    BY <1>4
  <2>6. \A k \in Place : (Will(j, k)' <=> k = Ground) /\ (At(j, k)' <=> k = Ground)
    BY <2>4, <2>5, Comps DEF Will, At, Place
  <2>7. \A k \in Holder : <<k, j>> \notin moved'
    BY <1>4, <2>1, <2>2 DEF Component
  <2>8. QED
    BY <1>5, <2>1, <2>6, <2>7, Comps, NotPurged, Maker
<1>9. QED
  BY <1>5, <1>6, <1>7, <1>8, <1>3, CommandStep

-----------------------------------------------------------------------------
\* The steps between commands: a tick begins with nothing queued.
LEMMA ScrubKeeps ==
    ASSUME IInv, Scrub
    PROVE  IInv'
<1> USE DEF IInv
<1>1. /\ phase' = "equipment" /\ presence' = presence /\ life' = life /\ held' = held
      /\ ground' = ground /\ nextGround' = nextGround /\ moved' = moved
      /\ astray' = astray /\ written' = written
      /\ next = held /\ nextGround = ground /\ moved = {}
  BY DEF Scrub, IdleSettled
<1>2. TypeOK'
  BY DEF Scrub, TypeOK
<1>3. /\ \A k \in Holder : next'[k] \subseteq next[k]
      /\ \A k \in Holder, i \in Item : life[i] = "alive" /\ i \in next[k] => i \in next'[k]
  BY <1>1 DEF Scrub, TypeOK
<1>4. ASSUME NEW i \in Item
      PROVE  UnbornNowhere(i)' /\ ItemInv(i)'
  <2>1. /\ \A k : At(i, k)' <=> At(i, k)
        /\ \A k : Purged(k)' <=> Purged(k)
        /\ \A k \in Place : Will(i, k) <=> At(i, k)
    BY <1>1 DEF At, Will, Purged
  <2>2. \A k \in Place : Will(i, k)' => Will(i, k)
    BY <1>1, <1>3 DEF Will, Place
  <2>3. life[i] = "alive" => \A k \in Place : Will(i, k) => Will(i, k)'
    BY <1>1, <1>3 DEF Will, Place
  <2>4. UnbornNowhere(i)'
    BY <1>1, <2>1, <2>2 DEF UnbornNowhere
  <2>5. ASSUME i \notin astray PROVE ItemInv(i)'
    <3> USE <2>5 DEF ItemInv
    <3>1. UnmovedStays(i)'
      BY <1>1, <2>1, <2>2, <2>3 DEF UnmovedStays
    <3>2. OneHomeNext(i)'
      BY <1>1, <2>1, <2>2, <2>3 DEF OneHomeNext
    <3>3. OneHomeNow(i)'
      BY <1>1, <2>1 DEF OneHomeNow, Exists
    <3>4. CondemnedLeaves(i)'
      BY <1>1, <2>1, <2>2 DEF CondemnedLeaves, Place
    <3>5. GoneNowhere(i)'
      BY <1>1, <2>1, <2>2 DEF GoneNowhere
    <3>6. CarriedDoomed(i)'
      BY <1>1, <2>1 DEF CarriedDoomed
    <3>7. QED
      BY <3>1, <3>2, <3>3, <3>4, <3>5, <3>6
  <2>6. QED
    BY <1>1, <2>4, <2>5 DEF ItemInv
<1>5. SlotsSane'
  BY <1>1, <1>3, Tags DEF SlotsSane, Slots
<1>6. DeadRefsWritten'
  <2> SUFFICES ASSUME NEW p \in Player, NEW k \in Slots(p), NEW i \in Item,
                      life[i] = "gone", i \in next'[k]
               PROVE  presence[p] = "doomed"
    BY <1>1 DEF DeadRefsWritten
  <2>1. k[1] \in {"inventory", "equipment"} /\ k[2] = p
    BY DEF Slots, Inv, Worn
  <2>2. k \in Holder
    BY Tags DEF Slots
  <2>3. i \in held[k]
    BY <1>1, <1>3, <2>2
  <2>4. presence[p] # "in"
    BY <2>1, <2>2 DEF Scrub
  <2>5. presence[p] # "out"
    BY <2>3 DEF SlotsSane
  <2>6. QED
    BY <2>4, <2>5 DEF TypeOK
<1>7. QED
  BY <1>1, <1>2, <1>4, <1>5, <1>6 DEF IdleSettled

\* A change of the system that runs, or none, keeps what is said of the rest.
LEMMA QuietKeeps ==
    ASSUME IInv, UNCHANGED <<presence, life, held, next, ground, nextGround, issued,
                             served, written, moved, astray>>,
           phase' = phase \/ (phase # "idle" /\ phase' # "idle"), TypeOK'
    PROVE  IInv'
<1> USE DEF IInv
<1>1. ASSUME NEW i \in Item PROVE UnbornNowhere(i)' /\ ItemInv(i)'
  <2>1. /\ \A k : (At(i, k)' <=> At(i, k)) /\ (Will(i, k)' <=> Will(i, k))
        /\ \A k : (Purged(k)' <=> Purged(k)) /\ (Moved(i, k)' <=> Moved(i, k))
        /\ life'[i] = life[i] /\ moved' = moved /\ (i \in ground' <=> i \in ground)
        /\ (i \in astray' <=> i \in astray)
    BY DEF At, Will, Purged, Moved
  <2>2. (Exists(i))' <=> Exists(i)
    BY <2>1 DEF Exists
  <2>3. UnbornNowhere(i)' /\ (UnmovedStays(i) => UnmovedStays(i)')
    BY <2>1 DEF UnbornNowhere, UnmovedStays
  <2>4. OneHomeNext(i) => OneHomeNext(i)'
    BY <2>1 DEF OneHomeNext
  <2>5. OneHomeNow(i) => OneHomeNow(i)'
    BY <2>1, <2>2 DEF OneHomeNow
  <2>6. (CondemnedLeaves(i) => CondemnedLeaves(i)') /\ (GoneNowhere(i) => GoneNowhere(i)')
    BY <2>1 DEF CondemnedLeaves, GoneNowhere
  <2>7. CarriedDoomed(i) => CarriedDoomed(i)'
    BY <2>1 DEF CarriedDoomed
  <2>8. QED
    BY <2>1, <2>3, <2>4, <2>5, <2>6, <2>7 DEF ItemInv
<1>2. IdleSettled' /\ SlotsSane' /\ DeadRefsWritten'
  BY DEF IdleSettled, SlotsSane, DeadRefsWritten
<1>3. QED
  BY <1>1, <1>2

LEMMA NextSystemKeeps ==
    ASSUME IInv, NextSystem
    PROVE  IInv'
<1>1. /\ phase # "idle" /\ phase' # "idle" /\ TypeOK'
      /\ UNCHANGED <<presence, life, held, next, ground, nextGround, issued,
                     served, written, moved, astray>>
  BY DEF IInv, TypeOK, NextSystem, System
<1>2. QED
  BY <1>1, QuietKeeps

LEMMA EnterKeeps ==
    ASSUME IInv, NEW p \in Player, NEW new \in AtMostOne, Enter(p, new)
    PROVE  IInv'
<1> USE DEF IInv
<1>1. /\ phase = "idle" /\ phase' = phase /\ astray' = astray /\ moved' = moved
      /\ ground' = ground /\ nextGround' = nextGround
      /\ next = held /\ nextGround = ground /\ moved = {}
      /\ presence[p] = "out" /\ presence' = [presence EXCEPT ![p] = "in"]
      /\ \A j \in new : life[j] = "unborn"
      /\ held' = [held EXCEPT ![Worn(p)] = new] /\ next' = held'
  BY DEF Enter, IdleSettled
<1>2. /\ new \subseteq Item /\ \A i, j \in new : i = j
      /\ \A j \in Item : life'[j] = IF j \in new THEN "alive" ELSE life[j]
      /\ life' \in [Item -> {"unborn", "alive", "doomed", "gone"}]
  BY DEF AtMostOne, Enter, TypeOK
<1>3. Worn(p) \in Holder /\ held[Worn(p)] = {} /\ held[Inv(p)] = {}
  BY <1>1, Tags DEF SlotsSane, Slots
<1>4. TypeOK'
  BY <1>1, <1>2, <1>3 DEF TypeOK, Enter
<1>5. \A k : Purged(k)' <=> Purged(k)
  BY <1>1 DEF Purged, TypeOK
<1>6. ASSUME NEW i \in Item
      PROVE  UnbornNowhere(i)' /\ ItemInv(i)'
  <2>1. \A k \in Place : (At(i, k)' <=> At(i, k) \/ (i \in new /\ k = Worn(p)))
                         /\ (Will(i, k)' <=> At(i, k)') /\ (Will(i, k) <=> At(i, k))
    BY <1>1, <1>3, Comps DEF At, Will, Place, TypeOK
  <2>2. CASE i \in new
    <3>1. \A k \in Place : (At(i, k)' <=> k = Worn(p)) /\ (Will(i, k)' <=> k = Worn(p))
      BY <1>1, <1>3, <2>1, <2>2, Comps DEF UnbornNowhere
    <3>2. life'[i] = "alive" /\ Worn(p) \in Place /\ ~Purged(Worn(p))'
      BY <1>1, <1>2, <1>3, <2>2, Comps, Tags DEF Purged, Slots, TypeOK
    <3>3. UnbornNowhere(i)' /\ UnmovedStays(i)' /\ OneHomeNext(i)' /\ OneHomeNow(i)'
      BY <3>1, <3>2 DEF UnbornNowhere, UnmovedStays, OneHomeNext, OneHomeNow
    <3>4. CondemnedLeaves(i)' /\ GoneNowhere(i)'
      BY <3>2 DEF CondemnedLeaves, GoneNowhere
    <3>5. CarriedDoomed(i)'
      BY <1>1, <3>1, <3>2, Comps DEF CarriedDoomed
    <3>6. QED
      BY <3>3, <3>4, <3>5 DEF ItemInv
  <2>3. CASE i \notin new
    <3>1. /\ \A k \in Place : (At(i, k)' <=> At(i, k)) /\ (Will(i, k)' <=> Will(i, k))
          /\ life'[i] = life[i] /\ (i \in ground' <=> i \in ground)
      BY <1>1, <1>2, <2>1, <2>3
    <3>2. UnbornNowhere(i)'
      BY <1>1, <3>1 DEF UnbornNowhere
    <3>3. ASSUME i \notin astray PROVE ItemInv(i)'
      <4> USE <3>3 DEF ItemInv
      <4>1. UnmovedStays(i)' /\ OneHomeNext(i)'
        BY <1>1, <2>1, <3>1 DEF UnmovedStays, OneHomeNext
      <4>2. OneHomeNow(i)'
        BY <3>1, Comps DEF OneHomeNow, Exists
      <4>3. CondemnedLeaves(i)' /\ GoneNowhere(i)'
        BY <1>1, <1>5, <3>1, Comps DEF CondemnedLeaves, GoneNowhere
      <4>4. CarriedDoomed(i)'
        BY <1>1, <1>5, <3>1, Comps DEF CarriedDoomed
      <4>5. QED
        BY <4>1, <4>2, <4>3, <4>4
    <3>4. QED
      BY <1>1, <3>2, <3>3 DEF ItemInv
  <2>4. QED
    BY <2>2, <2>3
<1>7. SlotsSane'
  <2> SUFFICES ASSUME NEW q \in Player
               PROVE  /\ presence'[q] = "out" => \A k \in Slots(q) : held'[k] = {}
                      /\ \A i, j \in held'[Worn(q)] : i = j
    BY <1>1 DEF SlotsSane
  <2>1. CASE q = p
    BY <1>1, <1>2, <1>3, <2>1 DEF TypeOK
  <2>2. CASE q # p
    <3>1. presence'[q] = presence[q] /\ \A k \in Slots(q) : held'[k] = held[k]
      BY <1>1, <2>2, Tags DEF Slots, TypeOK
    <3>2. QED
      BY <3>1 DEF SlotsSane, Slots
  <2>3. QED
    BY <2>1, <2>2
<1>8. QED
  BY <1>1, <1>4, <1>6, <1>7 DEF IdleSettled, DeadRefsWritten

\* A player is destroyed with what it carries (destroyCarriedItemEntities).
\* What this tick moved to or from it is astray, so the rest of what its slots
\* will hold it already carried.
LEMMA DoomKeeps ==
    ASSUME IInv, TypeOK', NEW p \in Player, presence[p] = "in", DestroyWithItems(p),
           phase' = phase, held' = held, next' = next, ground' = ground,
           nextGround' = nextGround, moved' = moved, astray \subseteq astray',
           written \subseteq written',
           \A i \in Item \ astray', k \in Slots(p) : <<k, i>> \notin moved
    PROVE  IInv'
<1> USE DEF IInv
<1>1. /\ \A k : Purged(k)' <=> Purged(k) \/ k \in Slots(p)
      /\ \A q \in Player : presence'[q] = IF q = p THEN "doomed" ELSE presence[q]
  BY DEF DestroyWithItems, Purged, TypeOK
<1>2. ASSUME NEW i \in Item
      PROVE  UnbornNowhere(i)' /\ ItemInv(i)'
  <2>1. \A k \in Place : (At(i, k)' <=> At(i, k)) /\ (Will(i, k)' <=> Will(i, k))
    BY DEF At, Will
  <2>2. \A k \in Slots(p) : k \in Holder /\ k \in Place /\ (At(i, k) <=> i \in held[k])
                            /\ Comp(i, k) = k
    BY Tags, Comps DEF Slots, At
  <2>3. life'[i] = IF (\E k \in Slots(p) : At(i, k)) /\ life[i] = "alive"
                   THEN "doomed" ELSE life[i]
    BY <2>2 DEF DestroyWithItems, Slots
  <2>4. UnbornNowhere(i)'
    BY <2>1, <2>3 DEF UnbornNowhere
  <2>5. ASSUME i \notin astray', life'[i] = life[i],
               (\E k \in Slots(p) : At(i, k)) => life[i] # "alive"
        PROVE  ItemInv(i)'
    <3> USE DEF ItemInv
    <3>1. i \notin astray /\ \A k \in Slots(p) : <<k, i>> \notin moved
      BY <2>5
    <3>2. UnmovedStays(i)' /\ OneHomeNext(i)'
      BY <2>1, <2>5, <3>1 DEF UnmovedStays, OneHomeNext, Moved, Comp
    <3>3. OneHomeNow(i)' /\ GoneNowhere(i)'
      BY <2>1, <2>5, <3>1, Comps DEF OneHomeNow, GoneNowhere, Exists
    <3>4. CondemnedLeaves(i)'
      BY <1>1, <2>1, <2>5, <3>1, Comps DEF CondemnedLeaves
    <3>5. CarriedDoomed(i)'
      BY <1>1, <2>1, <2>2, <2>5, <3>1, Comps DEF CarriedDoomed
    <3>6. QED
      BY <3>2, <3>3, <3>4, <3>5
  <2>6. ASSUME i \notin astray', life[i] = "alive", life'[i] = "doomed",
               NEW k \in Slots(p), At(i, k)
        PROVE  ItemInv(i)'
    <3> USE DEF ItemInv
    <3>1. i \notin astray /\ \A l \in Slots(p) : <<l, i>> \notin moved
      BY <2>6
    <3>2. Will(i, k)
      BY <2>2, <2>6, <3>1 DEF UnmovedStays, Moved
    <3>3. \A l \in Place : (Will(i, l) <=> l = k) /\ (At(i, l) <=> l = k)
      BY <2>2, <2>6, <3>1, <3>2 DEF OneHomeNext, OneHomeNow, Exists
    <3>4. UnmovedStays(i)' /\ OneHomeNext(i)' /\ GoneNowhere(i)'
      BY <2>1, <2>6, <3>3 DEF UnmovedStays, OneHomeNext, GoneNowhere
    <3>5. OneHomeNow(i)'
      BY <2>1, <2>2, <3>3 DEF OneHomeNow
    <3>6. i \notin ground
      BY <2>2, <3>3, Comps DEF At
    <3>7. CondemnedLeaves(i)'
      BY <1>1, <2>1, <3>3, <3>6, Comps DEF CondemnedLeaves
    <3>8. CarriedDoomed(i)'
      BY <1>1, <2>6, <3>1 DEF CarriedDoomed
    <3>9. QED
      BY <3>4, <3>5, <3>7, <3>8
  <2>7. QED
    BY <2>3, <2>4, <2>5, <2>6 DEF ItemInv
<1>3. SlotsSane'
  BY <1>1 DEF SlotsSane
<1>4. DeadRefsWritten'
  <2>1. \A i \in Item : life'[i] = "gone" => life[i] = "gone"
    BY DEF DestroyWithItems
  <2>2. QED
    BY <1>1, <2>1 DEF DeadRefsWritten
<1>5. QED
  BY <1>2, <1>3, <1>4 DEF IdleSettled

LEMMA DisconnectKeeps ==
    ASSUME IInv, NEW p \in Player, Disconnect(p)
    PROVE  IInv'
<1>1. /\ presence[p] = "in" /\ DestroyWithItems(p)
      /\ UNCHANGED <<phase, held, next, ground, nextGround, moved, astray, written>>
      /\ moved = {}
  BY DEF Disconnect, IInv, IdleSettled
<1>2. TypeOK'
  BY DEF IInv, TypeOK, Disconnect, DestroyWithItems
<1>3. QED
  BY <1>1, <1>2, DoomKeeps

LEMMA DieKeeps ==
    ASSUME IInv, NEW p \in Player, Die(p)
    PROVE  IInv'
<1>1. /\ presence[p] = "in" /\ DestroyWithItems(p)
      /\ UNCHANGED <<phase, held, next, ground, nextGround, moved>>
      /\ astray \subseteq astray' /\ written \subseteq written'
      /\ \A i \in Item \ astray', k \in Slots(p) : <<k, i>> \notin moved
  BY DEF Die, Serves, Overwrite, Slots
<1>2. TypeOK'
  <2>1. issued' \in 0..MaxCommands
    BY ItemsAssumption DEF Die, Overwrite, IInv, TypeOK
  <2>2. written' \subseteq Component /\ astray' \subseteq Item
    BY Tags DEF Die, Overwrite, IInv, TypeOK, Component
  <2>3. QED
    BY <2>1, <2>2 DEF IInv, TypeOK, Die, DestroyWithItems
<1>3. QED
  BY <1>1, <1>2, DoomKeeps

\* The body of a player that was handed off goes; what it carried is astray.
LEMMA HandOffKeeps ==
    ASSUME IInv, NEW p \in Player, HandOff(p)
    PROVE  IInv'
<1> USE DEF IInv
<1>1. /\ phase = "idle" /\ moved = {} /\ next = held /\ presence[p] = "in"
      /\ UNCHANGED <<phase, life, held, next, ground, nextGround, moved, written>>
      /\ presence' = [presence EXCEPT ![p] = "doomed"]
      /\ astray' = astray \cup held[Inv(p)] \cup held[Worn(p)]
  BY DEF HandOff, IdleSettled
<1>2. TypeOK'
  BY <1>1, Tags DEF TypeOK, HandOff
<1>3. \A k : Purged(k)' <=> Purged(k) \/ k \in Slots(p)
  BY <1>1 DEF Purged, TypeOK
<1>4. ASSUME NEW i \in Item
      PROVE  UnbornNowhere(i)' /\ ItemInv(i)'
  <2>1. /\ \A k \in Place : (At(i, k)' <=> At(i, k)) /\ (Will(i, k)' <=> Will(i, k))
        /\ \A k \in Place : Moved(i, k)' <=> Moved(i, k)
    BY <1>1 DEF At, Will, Moved
  <2>2. UnbornNowhere(i)'
    BY <1>1, <2>1 DEF UnbornNowhere
  <2>3. ASSUME i \notin astray' PROVE ItemInv(i)'
    <3> USE DEF ItemInv
    <3>1. i \notin astray /\ \A k \in Slots(p) : ~At(i, k)
      BY <1>1, <2>3, Tags, Comps DEF Slots, At
    <3>2. UnmovedStays(i)' /\ OneHomeNext(i)'
      BY <1>1, <2>1, <3>1 DEF UnmovedStays, OneHomeNext
    <3>3. OneHomeNow(i)' /\ GoneNowhere(i)'
      BY <1>1, <2>1, <3>1, Comps DEF OneHomeNow, GoneNowhere, Exists
    <3>4. CondemnedLeaves(i)'
      BY <1>1, <1>3, <2>1, <3>1, Comps DEF CondemnedLeaves
    <3>5. CarriedDoomed(i)'
      BY <1>1, <1>3, <2>1, <3>1, Comps DEF CarriedDoomed
    <3>6. QED
      BY <3>2, <3>3, <3>4, <3>5
  <2>4. QED
    BY <2>2, <2>3 DEF ItemInv
<1>5. SlotsSane'
  BY <1>1 DEF SlotsSane, TypeOK
<1>6. QED
  BY <1>1, <1>2, <1>4, <1>5 DEF IdleSettled, DeadRefsWritten

\* Where an item will be after the commit.
LEMMA AfterCommit ==
    ASSUME IInv, ApplyChangeset, NEW i \in Item, i \notin astray
    PROVE  /\ life[i] = "alive" =>
                 \A k \in Place : (At(i, k)' <=> Will(i, k)) /\ (Will(i, k)' <=> Will(i, k))
           /\ life[i] # "alive" => \A k \in Place : ~At(i, k)' /\ ~Will(i, k)'
<1> USE DEF IInv, ItemInv
<1>1. /\ \A k \in Holder : held'[k] = IF Purged(k) THEN {} ELSE next[k]
      /\ next' = held' /\ nextGround' = ground'
      /\ i \in ground' <=> i \in nextGround /\ life[i] = "alive"
  BY DEF ApplyChangeset, Purged, Slots, TypeOK
<1>2. /\ \A k \in Holder : At(i, k)' <=> Will(i, k) /\ ~Purged(k)
      /\ At(i, Ground)' <=> Will(i, Ground) /\ life[i] = "alive"
      /\ \A k \in Place : Will(i, k)' <=> At(i, k)'
  BY <1>1, Comps DEF At, Will
<1>3. CASE life[i] = "alive"
  <2>1. \A k \in Holder : Will(i, k) => ~Purged(k)
    BY <1>3, Comps DEF CarriedDoomed, UnmovedStays, Moved
  <2>2. QED
    BY <1>2, <1>3, <2>1 DEF Place
<1>4. CASE life[i] = "doomed"
  BY <1>2, <1>4 DEF CondemnedLeaves, Place
<1>5. CASE life[i] \in {"unborn", "gone"}
  BY <1>2, <1>5 DEF UnbornNowhere, GoneNowhere, Place
<1>6. QED
  BY <1>3, <1>4, <1>5 DEF TypeOK

LEMMA ApplyChangesetKeeps ==
    ASSUME IInv, ApplyChangeset
    PROVE  IInv'
<1> USE DEF IInv
<1>1. /\ phase' = "idle" /\ moved' = {} /\ astray' = astray
      /\ next' = held' /\ nextGround' = ground'
      /\ \A i \in Item : life'[i] = IF life[i] = "doomed" THEN "gone" ELSE life[i]
      /\ \A p \in Player : presence'[p] = IF presence[p] = "doomed" THEN "out"
                                                                    ELSE presence[p]
      /\ \A k \in Holder : held'[k] = IF Purged(k) THEN {} ELSE next[k]
  BY DEF ApplyChangeset, Purged, Slots
<1>2. TypeOK'
  BY ItemsAssumption DEF TypeOK, ApplyChangeset
<1>3. \A k : ~Purged(k)'
  BY <1>1 DEF Purged
<1>4. ASSUME NEW i \in Item, life[i] = "unborn"
      PROVE  UnbornNowhere(i)'
  <2>1. \A k \in Holder : i \notin held'[k] /\ i \notin next'[k]
    BY <1>1, <1>4, Comps DEF UnbornNowhere, Will
  <2>2. i \notin ground' /\ i \notin nextGround'
    BY <1>1, <1>4 DEF ApplyChangeset
  <2>3. QED
    BY <1>1, <2>1, <2>2, Comps DEF UnbornNowhere, At, Will, Place
<1>5. ASSUME NEW i \in Item, i \notin astray'
      PROVE  ItemInv(i)'
  <2> USE DEF ItemInv
  <2>1. i \notin astray /\ life'[i] # "doomed"
    BY <1>1, <1>5
  <2>2. CASE life[i] = "alive"
    <3>1. \A k \in Place : (At(i, k)' <=> Will(i, k)) /\ (Will(i, k)' <=> Will(i, k))
      BY <2>1, <2>2, AfterCommit
    <3>2. PICK n \in Place : \A k \in Place : Will(i, k) <=> k = n
      BY <2>1, <2>2 DEF OneHomeNext
    <3>3. UnmovedStays(i)' /\ OneHomeNext(i)' /\ OneHomeNow(i)'
      BY <2>1, <3>1, <3>2 DEF UnmovedStays, OneHomeNext, OneHomeNow
    <3>4. QED
      BY <1>1, <1>3, <2>1, <2>2, <3>3 DEF CondemnedLeaves, GoneNowhere, CarriedDoomed
  <2>3. CASE life[i] # "alive"
    <3>1. \A k \in Place : ~At(i, k)' /\ ~Will(i, k)'
      BY <2>1, <2>3, AfterCommit
    <3>2. life'[i] # "alive"
      BY <1>1, <2>3
    <3>3. UnmovedStays(i)' /\ OneHomeNext(i)' /\ OneHomeNow(i)'
      BY <2>1, <3>1, <3>2 DEF UnmovedStays, OneHomeNext, OneHomeNow
    <3>4. QED
      BY <1>1, <1>3, <2>1, <3>1, <3>3 DEF CondemnedLeaves, GoneNowhere, CarriedDoomed
  <2>4. QED
    BY <2>2, <2>3
<1>6. \A i \in Item : UnbornNowhere(i)' /\ ItemInv(i)'
  BY <1>1, <1>4, <1>5 DEF UnbornNowhere, ItemInv
<1>7. SlotsSane'
  <2> SUFFICES ASSUME NEW p \in Player
               PROVE  /\ presence'[p] = "out" => \A k \in Slots(p) : held'[k] = {}
                      /\ \A i, j \in held'[Worn(p)] : i = j
    BY <1>1 DEF SlotsSane
  <2>1. \A k \in Slots(p) : k \in Holder
    BY Tags DEF Slots
  <2>2. presence[p] = "doomed" => \A k \in Slots(p) : Purged(k)
    BY DEF Purged
  <2>3. QED
    BY <1>1, <2>1, <2>2 DEF SlotsSane, Slots
<1>8. QED
  BY <1>1, <1>2, <1>6, <1>7 DEF IdleSettled, DeadRefsWritten

-----------------------------------------------------------------------------
LEMMA IInvInit == Init => IInv
<1> SUFFICES ASSUME Init PROVE IInv
  OBVIOUS
<1>1. /\ \A i \in Item : life[i] = "unborn"
      /\ \A k \in Holder : held[k] = {} /\ next[k] = {}
      /\ ground = {} /\ nextGround = {} /\ moved = {} /\ phase = "idle"
      /\ \A p \in Player : presence[p] = "out"
  BY DEF Init
<1>2. \A i \in Item, k \in Place : ~At(i, k) /\ ~Will(i, k)
  BY <1>1 DEF At, Will, Place
<1>3. \A i \in Item : UnbornNowhere(i) /\ ItemInv(i)
  BY <1>1, <1>2, Comps DEF UnbornNowhere, ItemInv, UnmovedStays, OneHomeNext, OneHomeNow,
     Exists, CondemnedLeaves, GoneNowhere, CarriedDoomed
<1>4. SlotsSane
  BY <1>1, Tags DEF SlotsSane, Slots
<1>5. QED
  BY <1>1, <1>3, <1>4, TypeInit DEF IInv, IdleSettled, DeadRefsWritten, Init

\* Every command of a player about an item.
LEMMA ItemCommandKeeps ==
    ASSUME IInv, NEW p \in Player, NEW i \in Item, ItemCommand(p, i)
    PROVE  IInv'
<1>1. Equip(p, i) => IInv'
  BY EquipKeeps
<1>2. EquipFromStack(p, i) => IInv'
  BY EquipFromStackKeeps
<1>3. Unequip(p, i) => IInv'
  BY UnequipKeeps, UnequipFullKeeps
<1>4. DropItem(p, i) => IInv'
  BY DropItemKeeps
<1>5. \A c \in Chest : Deposit(p, c, i) => IInv'
  BY DepositKeeps
<1>6. \A c \in Chest : Withdraw(p, c, i) => IInv'
  BY WithdrawKeeps, WithdrawDeadKeeps
<1>7. \A s \in Station : LoadWorkstation(p, s, i) => IInv'
  BY LoadWorkstationKeeps
<1>8. \A s \in Station : TakeWorkstation(p, s, i) => IInv'
  BY TakeWorkstationKeeps
<1>9. PickUp(p, i) => IInv'
  BY PickUpKeeps
<1>10. SpendItem(p, i) => IInv'
  BY SpendItemKeeps
<1>11. Externalise(p, i) => IInv'
  BY ExternaliseKeeps
<1>12. Internalise(p, i) => IInv'
  BY InternaliseKeeps
<1>13. QED
  BY <1>1, <1>2, <1>3, <1>4, <1>5, <1>6, <1>7, <1>8, <1>9, <1>10, <1>11, <1>12
     DEF ItemCommand

LEMMA IInvStep == IInv /\ [Next]_vars => IInv'
<1> SUFFICES ASSUME IInv, [Next]_vars PROVE IInv'
  OBVIOUS
<1>1. CASE \E p \in Player, i \in Item : ItemCommand(p, i)
  BY <1>1, ItemCommandKeeps
<1>2. ASSUME NEW p \in Player,
             RewriteInventory(p) \/ Disconnect(p) \/ HandOff(p) \/ Die(p)
      PROVE  IInv'
  BY <1>2, RewriteInventoryKeeps, DisconnectKeeps, HandOffKeeps, DieKeeps
<1>3. CASE \E p \in Player, new \in AtMostOne : Enter(p, new)
  BY <1>3, EnterKeeps
<1>4. CASE \E s \in Station : RewriteBuffer(s)
  BY <1>4, RewriteBufferKeeps
<1>5. CASE \E s \in Station, i \in Item, new \in AtMostOne : ResolveRecipe(s, i, new)
  BY <1>5, ResolveRecipeKeeps
<1>6. CASE Scrub \/ NextSystem \/ ApplyChangeset
  BY <1>6, ScrubKeeps, NextSystemKeeps, ApplyChangesetKeeps
<1>7. CASE UNCHANGED vars
  <2>1. TypeOK'
    BY <1>7 DEF IInv, TypeOK, vars
  <2>2. QED
    BY <1>7, <2>1, QuietKeeps DEF vars
<1>8. QED
  BY <1>1, <1>2, <1>3, <1>4, <1>5, <1>6, <1>7 DEF Next

LEMMA IInvHolds == Spec => []IInv
<1>1. QED
  BY IInvInit, IInvStep, PTL DEF Spec

-----------------------------------------------------------------------------
\* Slots reference only items, and the bound on commands is kept: no handler of
\* a tick builds a component of another shape.
THEOREM ItemsTypeCorrect == Spec => []TypeOK
<1>1. IInv => TypeOK
  BY DEF IInv
<1>2. QED
  BY <1>1, IInvHolds, PTL

\* Homes counts the places where the item is.
LEMMA HomesAre ==
    ASSUME NEW i \in Item
    PROVE  \A k : k \in Homes(i) <=> k \in Place /\ At(i, k)
  BY Comps DEF Homes, Place, At, Ground

\* Between ticks an item that exists is in exactly one slot, chest, buffer or
\* spot on the ground, whatever commands the players gave and however many,
\* unless two of them overwrote each other's component (equipment.ts,
\* container.ts, crafting.ts, dynasty.ts, death.ts).
THEOREM ItemsHaveOneHome == Spec => []OneHome
<1>1. ASSUME IInv, phase = "idle", NEW i \in Item \ astray, Exists(i)
      PROVE  Cardinality(Homes(i)) = 1
  <2> USE <1>1 DEF IInv, ItemInv
  <2>1. PICK k \in Place : At(i, k)
    <3>1. CASE life[i] = "alive"
      <4>1. \A l \in Place : Will(i, l) <=> At(i, l)
        BY DEF IdleSettled, Will, At
      <4>2. QED
        BY <3>1, <4>1 DEF OneHomeNext
    <3>2. CASE life[i] = "doomed"
      BY <3>2, Comps DEF OneHomeNow
    <3>3. QED
      BY <3>1, <3>2 DEF Exists
  <2>2. \A l : l \in Homes(i) <=> l = k
    BY <2>1, HomesAre DEF OneHomeNow
  <2>3. Homes(i) = {k}
    BY <2>2
  <2>4. QED
    BY <2>3, FS_Singleton
<1>2. IInv => OneHome
  BY <1>1 DEF OneHome
<1>3. QED
  BY <1>2, IInvHolds, PTL

\* Only the changeset is applied in the last phase of a tick.
LEMMA OnlyCommit ==
    ASSUME [Next]_vars, phase = "commit"
    PROVE  ApplyChangeset \/ UNCHANGED vars
  BY DEF Next, ItemCommand, Equip, EquipFromStack, Unequip, DropItem, Deposit,
     Withdraw, LoadWorkstation, TakeWorkstation, PickUp, SpendItem, Externalise,
     Internalise, Serves, RewriteInventory, Disconnect, HandOff, Die, Enter,
     RewriteBuffer, ResolveRecipe, Scrub, NextSystem, System

\* What was dead when a tick began is no longer in a player's slots after its
\* commit, unless a command of the tick wrote those slots back from what the
\* last tick had committed (stale_slot_cleanup.ts).
THEOREM ItemsDeadRefsScrubbed == Spec => DeadRefsScrubbed
<1>1. ASSUME IInv, Next, ~UNCHANGED vars, phase = "commit", NEW p \in Player,
             NEW k \in {Inv(p), Worn(p)}, NEW i \in Item, life[i] = "gone",
             i \in held'[k]
      PROVE  k \in written
  <2>1. ApplyChangeset /\ k \in Holder /\ k \in Slots(p)
    BY <1>1, OnlyCommit, Tags DEF Slots
  <2>2. held'[k] = IF Purged(k) THEN {} ELSE next[k]
    BY <2>1 DEF ApplyChangeset, Purged, Slots
  <2>3. ~Purged(k) /\ i \in next[k]
    BY <1>1, <2>2
  <2>4. QED
    BY <1>1, <2>1, <2>3 DEF IInv, DeadRefsWritten, Purged
<1>2. IInv /\ [Next]_vars =>
        [phase = "commit" =>
            \A p \in Player : \A k \in {Inv(p), Worn(p)}, i \in Item :
                life[i] = "gone" /\ i \in held'[k] => k \in written]_vars
  BY <1>1
<1>3. QED
  BY <1>2, IInvHolds, PTL DEF Spec, DeadRefsScrubbed

-----------------------------------------------------------------------------
(* The refinement of ItemLedger. *)

LEMMA Homely ==
    /\ Place \subseteq Ledger!Home
    /\ <<"astray">> \in Ledger!Home /\ <<"unborn">> \in Ledger!Home
    /\ <<"gone">> \in Ledger!Home
    /\ \A k \in Place : k # <<"unborn">> /\ k # <<"astray">> /\ k # <<"gone">>
  BY DEF Place, Holder, Ground, Ledger!Home, Ledger!Carried, Ledger!Store,
     Ledger!Nowhere, Ledger!Ground

\* Where Residence says an item is.
ResidenceSays(i) ==
    /\ i \in astray => Residence[i] = <<"astray">>
    /\ i \notin astray =>
         /\ life[i] = "gone" => Residence[i] = <<"gone">>
         /\ life[i] # "gone" =>
              /\ \A k \in Place : At(i, k) => Residence[i] = k
              /\ (\A k \in Place : ~At(i, k)) => Residence[i] = <<"unborn">>
    /\ Residence[i] \in Ledger!Home

ResidenceExact == \A i \in Item : ResidenceSays(i)

LEMMA ResidenceIs == IInv => ResidenceExact
<1> SUFFICES ASSUME IInv, NEW i \in Item PROVE ResidenceSays(i)
  BY DEF ResidenceExact
<1>1. \A k : k \in Homes(i) <=> k \in Place /\ At(i, k)
  BY HomesAre
<1>2. Residence[i] = IF i \in astray THEN <<"astray">>
                     ELSE IF life[i] = "gone" THEN <<"gone">>
                     ELSE IF Homes(i) = {} THEN <<"unborn">>
                     ELSE CHOOSE k \in Homes(i) : TRUE
  BY DEF Residence
<1>3. Homes(i) # {} => (CHOOSE k \in Homes(i) : TRUE) \in Homes(i)
  OBVIOUS
<1>4. ASSUME i \notin astray, life[i] # "gone", NEW k \in Place, At(i, k)
      PROVE  Homes(i) = {k}
  <2>1. Exists(i)
    BY <1>4 DEF IInv, TypeOK, UnbornNowhere, Exists
  <2>2. QED
    BY <1>1, <1>4, <2>1 DEF IInv, ItemInv, OneHomeNow
<1>5. \A k \in Place : i \notin astray /\ life[i] # "gone" /\ At(i, k) => Residence[i] = k
  BY <1>2, <1>3, <1>4
<1>6. Residence[i] \in Ledger!Home
  BY <1>1, <1>2, <1>3, Homely
<1>7. QED
  BY <1>1, <1>2, <1>5, <1>6 DEF ResidenceSays

LEMMA ResidenceWillBe == IInv' => ResidenceExact'
<1>1. QED
  BY ResidenceIs, PTL

\* A step that leaves the committed components of an item as they are leaves it
\* where it is, or astray; what is gone does not come back.
LEMMA Stays ==
    ASSUME IInv, IInv', NEW i \in Item, held' = held, i \in ground' <=> i \in ground,
           life'[i] = "gone" <=> life[i] = "gone",
           i \in astray => i \in astray',
           i \in astray' \ astray => life[i] # "gone"
    PROVE  Residence'[i] = Residence[i] \/ Ledger!Route(Residence[i], Residence'[i])
<1>0. ResidenceSays(i) /\ ResidenceSays(i)'
  BY ResidenceIs, ResidenceWillBe DEF ResidenceExact
<1>1. \A k : At(i, k)' <=> At(i, k)
  BY DEF At
<1>2. CASE i \in astray'
  <2>1. Residence'[i] = <<"astray">>
    BY <1>0, <1>2 DEF ResidenceSays
  <2>2. Residence[i] = <<"astray">> \/ Residence[i] # <<"gone">>
    <3>1. ASSUME i \notin astray, life[i] # "gone" PROVE Residence[i] # <<"gone">>
      BY <1>0, <3>1, Homely DEF ResidenceSays
    <3>2. QED
      BY <1>0, <1>2, <3>1 DEF ResidenceSays
  <2>3. QED
    BY <2>1, <2>2 DEF Ledger!Route
<1>3. CASE i \notin astray'
  BY <1>0, <1>1, <1>3 DEF ResidenceSays
<1>4. QED
  BY <1>2, <1>3

\* No command of a tick changes what is committed, and none moves what is gone.
Strays ==
    \/ astray' = astray
    \/ \E keys \in SUBSET Component : Overwrite(keys)
    \/ \E p \in Player : astray' = astray \cup held[Inv(p)] \cup held[Worn(p)]

Uncommitted ==
    /\ held' = held /\ ground' = ground
    /\ Strays
    /\ \A i \in Item : life'[i] = "gone" <=> life[i] = "gone"

LEMMA CommandUncommitted ==
    ASSUME TypeOK, NEW p \in Player, NEW i \in Item, ItemCommand(p, i)
    PROVE  Uncommitted
<1> DEFINE Only(keys) == /\ held' = held /\ ground' = ground /\ Overwrite(keys)
                         /\ \A j \in Item : life'[j] = "gone" <=> life[j] = "gone"
<1>0. /\ Inv(p) \in Component /\ Worn(p) \in Component /\ Pos(i) \in Component
      /\ \A c \in Chest : Bank(c) \in Component
      /\ \A s \in Station : Bench(s) \in Component
  BY Tags DEF Component
<1>1. Equip(p, i) \/ EquipFromStack(p, i) => Only({Inv(p), Worn(p)})
  BY DEF Equip, EquipFromStack, Move, TypeOK
<1>2. Unequip(p, i) => Only({Worn(p), Inv(p)}) \/ Only({Worn(p), Pos(i)})
  BY DEF Unequip, Move
<1>3. DropItem(p, i) \/ PickUp(p, i) => Only({Inv(p), Pos(i)})
  BY DEF DropItem, PickUp, Move
<1>4. \A c \in Chest : Deposit(p, c, i) => Only({Inv(p), Bank(c)})
  BY DEF Deposit, Move
<1>5. \A c \in Chest : Withdraw(p, c, i) => Only({Inv(p), Bank(c)}) \/ Only({Bank(c)})
  BY DEF Withdraw, Move
<1>6. \A s \in Station : LoadWorkstation(p, s, i) \/ TakeWorkstation(p, s, i)
                            => Only({Inv(p), Bench(s)})
  BY DEF LoadWorkstation, TakeWorkstation, Move
<1>7. SpendItem(p, i) \/ Externalise(p, i) \/ Internalise(p, i) => Only({Inv(p)})
  BY DEF SpendItem, Externalise, Internalise, Move, TypeOK, Readable
<1>8. ASSUME NEW keys \in SUBSET Component, Only(keys) PROVE Uncommitted
  BY <1>8 DEF Uncommitted, Strays
<1> HIDE DEF Only
<1>9. QED
  BY <1>0, <1>1, <1>2, <1>3, <1>4, <1>5, <1>6, <1>7, <1>8 DEF ItemCommand

LEMMA StraysAreNotGone ==
    ASSUME IInv, Strays, NEW i \in Item
    PROVE  /\ i \in astray => i \in astray'
           /\ i \in astray' \ astray => life[i] # "gone"
<1>1. CASE \E keys \in SUBSET Component : Overwrite(keys)
  BY <1>1 DEF Overwrite, IInv, ItemInv, GoneNowhere
<1>2. ASSUME NEW p \in Player, astray' = astray \cup held[Inv(p)] \cup held[Worn(p)],
             i \notin astray, i \in astray', life[i] = "gone"
      PROVE  FALSE
  <2>1. \A k \in Holder : i \notin held[k]
    BY <1>2, Comps DEF IInv, ItemInv, GoneNowhere, At
  <2>2. QED
    BY <1>2, <2>1, Tags
<1>3. QED
  BY <1>1, <1>2 DEF Strays

LEMMA UncommittedHop ==
    ASSUME IInv, IInv', Uncommitted
    PROVE  Ledger!Hop
<1>1. ASSUME NEW i \in Item
      PROVE  Residence'[i] = Residence[i] \/ Ledger!Route(Residence[i], Residence'[i])
  BY StraysAreNotGone, Stays DEF Uncommitted
<1>2. Residence' \in [Item -> Ledger!Home]
  BY ResidenceWillBe DEF Residence, ResidenceExact, ResidenceSays
<1>3. QED
  BY <1>1, <1>2 DEF Ledger!Hop

\* The other steps that change nothing committed.
LEMMA OtherUncommitted ==
    ASSUME TypeOK,
           \/ \E p \in Player : RewriteInventory(p) \/ Disconnect(p) \/ HandOff(p)
                                    \/ Die(p)
           \/ \E s \in Station : RewriteBuffer(s)
           \/ Scrub \/ NextSystem
    PROVE  Uncommitted
<1>1. ASSUME NEW p \in Player, RewriteInventory(p) PROVE Uncommitted
  <2>1. Overwrite({Inv(p)}) /\ {Inv(p)} \in SUBSET Component
    BY <1>1, Tags DEF RewriteInventory, Component
  <2>2. QED
    BY <1>1, <2>1 DEF RewriteInventory, Uncommitted, Strays
<1>2. ASSUME NEW p \in Player, Die(p) PROVE Uncommitted
  <2>1. Overwrite({Inv(p), Worn(p)}) /\ {Inv(p), Worn(p)} \in SUBSET Component
    BY <1>2, Tags DEF Die, Component
  <2>2. QED
    BY <1>2, <2>1 DEF Die, DestroyWithItems, Uncommitted, Strays
<1>3. ASSUME NEW p \in Player, Disconnect(p) PROVE Uncommitted
  BY <1>3 DEF Disconnect, DestroyWithItems, Uncommitted, Strays
<1>4. ASSUME NEW p \in Player, HandOff(p) PROVE Uncommitted
  BY <1>4 DEF HandOff, Uncommitted, Strays
<1>5. ASSUME NEW s \in Station, RewriteBuffer(s) PROVE Uncommitted
  <2>1. Overwrite({Bench(s)}) /\ {Bench(s)} \in SUBSET Component
    BY <1>5, StationKeys DEF RewriteBuffer
  <2>2. QED
    BY <1>5, <2>1 DEF RewriteBuffer, Uncommitted, Strays
<1>6. CASE Scrub \/ NextSystem
  BY <1>6 DEF Scrub, NextSystem, Uncommitted, Strays
<1>7. QED
  BY <1>1, <1>2, <1>3, <1>4, <1>5, <1>6

\* A recipe's output hops from nowhere to the ground.
LEMMA ResolveRecipeHop ==
    ASSUME IInv, IInv', NEW s \in Station, NEW i \in Item, NEW new \in AtMostOne,
           ResolveRecipe(s, i, new)
    PROVE  Ledger!Hop
<1>1. /\ held' = held /\ ground' = ground \cup new
      /\ \A j \in new : life[j] = "unborn"
      /\ \A j \in Item : life'[j] = "gone" <=> life[j] = "gone"
      /\ new \subseteq Item
  BY DEF ResolveRecipe, Readable, AtMostOne
<1>2. Strays
  BY StationKeys DEF ResolveRecipe, Move, Strays
<1>3. ASSUME NEW j \in Item
      PROVE  Residence'[j] = Residence[j] \/ Ledger!Route(Residence[j], Residence'[j])
  <2>1. ResidenceSays(j) /\ ResidenceSays(j)'
    BY ResidenceIs, ResidenceWillBe DEF ResidenceExact
  <2>2. /\ j \in astray => j \in astray'
        /\ j \in astray' \ astray => life[j] # "gone"
    BY <1>2, StraysAreNotGone
  <2>3. CASE j \in new /\ j \notin astray'
    <3>1. \A k \in Place : ~At(j, k)
      BY <1>1, <2>3 DEF IInv, UnbornNowhere
    <3>2. At(j, Ground)' /\ Ground \in Place /\ life'[j] # "gone"
      BY <1>1, <2>3, Comps DEF At
    <3>3. Residence[j] = <<"unborn">> /\ Residence'[j] = Ground
      BY <1>1, <2>1, <2>2, <2>3, <3>1, <3>2 DEF ResidenceSays
    <3>4. QED
      BY <3>3 DEF Ledger!Route, Ledger!Ground, Ground
  <2>4. CASE j \in astray' /\ j \notin astray
    <3>1. Residence'[j] = <<"astray">> /\ Residence[j] # <<"gone">>
      BY <2>1, <2>2, <2>4, Homely DEF ResidenceSays
    <3>2. QED
      BY <3>1 DEF Ledger!Route
  <2>5. CASE j \in astray
    BY <2>1, <2>2, <2>5 DEF ResidenceSays
  <2>6. CASE j \notin new /\ j \notin astray'
    BY <1>1, <2>2, <2>6, Stays
  <2>7. QED
    BY <2>3, <2>4, <2>5, <2>6
<1>4. Residence' \in [Item -> Ledger!Home]
  BY ResidenceWillBe DEF Residence, ResidenceExact, ResidenceSays
<1>5. QED
  BY <1>3, <1>4 DEF Ledger!Hop

\* What a player enters with hops from nowhere into its equipment.
LEMMA EnterHop ==
    ASSUME IInv, IInv', NEW p \in Player, NEW new \in AtMostOne, Enter(p, new)
    PROVE  Ledger!Hop
<1>1. /\ ground' = ground /\ astray' = astray
      /\ \A j \in new : life[j] = "unborn"
      /\ \A j \in Item : life'[j] = IF j \in new THEN "alive" ELSE life[j]
      /\ held' = [held EXCEPT ![Worn(p)] = new] /\ held[Worn(p)] = {}
      /\ Worn(p) \in Holder
  BY Tags DEF Enter, IInv, SlotsSane, Slots
<1>2. ASSUME NEW j \in Item
      PROVE  Residence'[j] = Residence[j] \/ Ledger!Route(Residence[j], Residence'[j])
  <2>1. ResidenceSays(j) /\ ResidenceSays(j)'
    BY ResidenceIs, ResidenceWillBe DEF ResidenceExact
  <2>2. \A k \in Place : At(j, k)' <=> At(j, k) \/ (j \in new /\ k = Worn(p))
    BY <1>1, Comps DEF At, Place, IInv, TypeOK
  <2>3. CASE j \in new /\ j \notin astray
    <3>1. \A k \in Place : ~At(j, k)
      BY <1>1, <2>3 DEF IInv, UnbornNowhere
    <3>2. At(j, Worn(p))' /\ Worn(p) \in Place /\ life'[j] # "gone"
      BY <1>1, <2>2, <2>3, Comps
    <3>3. Residence[j] = <<"unborn">> /\ Residence'[j] = Worn(p)
      BY <1>1, <2>1, <2>3, <3>1, <3>2 DEF ResidenceSays
    <3>4. QED
      BY <3>3, Routes DEF Ledger!Route
  <2>4. CASE j \in astray
    BY <1>1, <2>1, <2>4 DEF ResidenceSays
  <2>5. CASE j \notin new /\ j \notin astray
    BY <1>1, <2>1, <2>2, <2>5 DEF ResidenceSays
  <2>6. QED
    BY <2>3, <2>4, <2>5
<1>3. Residence' \in [Item -> Ledger!Home]
  BY ResidenceWillBe DEF Residence, ResidenceExact, ResidenceSays
<1>4. QED
  BY <1>2, <1>3 DEF Ledger!Hop

\* The commit takes each item at most one hop.
LEMMA CommitHop ==
    ASSUME IInv, IInv', ApplyChangeset
    PROVE  Ledger!Hop
<1>1. /\ astray' = astray
      /\ \A j \in Item : life'[j] = IF life[j] = "doomed" THEN "gone" ELSE life[j]
  BY DEF ApplyChangeset
<1>2. ASSUME NEW j \in Item
      PROVE  Residence'[j] = Residence[j] \/ Ledger!Route(Residence[j], Residence'[j])
  <2>1. ResidenceSays(j) /\ ResidenceSays(j)'
    BY ResidenceIs, ResidenceWillBe DEF ResidenceExact
  <2>2. CASE j \in astray
    BY <1>1, <2>1, <2>2 DEF ResidenceSays
  <2>3. CASE j \notin astray /\ life[j] = "alive"
    <3>1. ItemInv(j)
      BY DEF IInv
    <3>2. OneHomeNext(j)
      BY <2>3, <3>1 DEF ItemInv
    <3>3. PICK n \in Place :
             /\ \A k \in Place : Will(j, k) <=> k = n
             /\ \A h \in Place : At(j, h) => h = n \/ Ledger!Route(h, n)
             /\ (\A h \in Place : ~At(j, h)) => n \in Ledger!Carried \cup {Ground}
      BY <2>3, <3>2 DEF OneHomeNext
    <3>4. Residence'[j] = n
      BY <1>1, <2>1, <2>3, <3>3, AfterCommit DEF ResidenceSays
    <3>5. CASE \E h \in Place : At(j, h)
      BY <2>1, <2>3, <3>3, <3>4, <3>5 DEF ResidenceSays
    <3>6. CASE \A h \in Place : ~At(j, h)
      <4>1. Residence[j] = <<"unborn">>
        BY <2>1, <2>3, <3>6 DEF ResidenceSays
      <4>2. QED
        BY <3>3, <3>4, <3>6, <4>1 DEF Ledger!Route, Ledger!Ground, Ground
    <3>7. QED
      BY <3>5, <3>6
  <2>4. CASE j \notin astray /\ life[j] = "doomed"
    <3>1. PICK k \in Holder : At(j, k)
      BY <2>4 DEF IInv, ItemInv, OneHomeNow, Exists
    <3>2. Residence[j] = k /\ Residence'[j] = <<"gone">>
      BY <1>1, <2>1, <2>4, <3>1, Comps DEF ResidenceSays
    <3>3. QED
      BY <3>1, <3>2 DEF Ledger!Route, Ledger!Carried, Ledger!Store, Holder
  <2>5. CASE j \notin astray /\ life[j] = "gone"
    BY <1>1, <2>1, <2>5 DEF ResidenceSays
  <2>6. CASE j \notin astray /\ life[j] = "unborn"
    <3>1. \A k \in Place : ~At(j, k) /\ ~At(j, k)'
      BY <2>6, AfterCommit DEF IInv, UnbornNowhere
    <3>2. QED
      BY <1>1, <2>1, <2>6, <3>1 DEF ResidenceSays
  <2>7. QED
    BY <2>2, <2>3, <2>4, <2>5, <2>6 DEF IInv, TypeOK
<1>3. Residence' \in [Item -> Ledger!Home]
  BY ResidenceWillBe DEF Residence, ResidenceExact, ResidenceSays
<1>4. QED
  BY <1>2, <1>3 DEF Ledger!Hop

LEMMA LedgerInit == Init => Ledger!Init
<1> SUFFICES ASSUME Init PROVE \A i \in Item : Residence[i] = <<"unborn">>
  BY DEF Ledger!Init, Residence
<1>1. IInv
  BY IInvInit
<1>2. \A i \in Item : ResidenceSays(i)
  BY <1>1, ResidenceIs DEF ResidenceExact
<1>3. \A i \in Item : i \notin astray /\ life[i] = "unborn"
  BY DEF Init
<1>4. QED
  BY <1>1, <1>2, <1>3 DEF ResidenceSays, IInv, UnbornNowhere

LEMMA LedgerStep == IInv /\ IInv' /\ [Next]_vars => [Ledger!Hop]_Residence
<1> SUFFICES ASSUME IInv, IInv', [Next]_vars, Residence' # Residence
             PROVE  Ledger!Hop
  OBVIOUS
<1>1. TypeOK
  BY DEF IInv
<1>2. CASE \E p \in Player, i \in Item : ItemCommand(p, i)
  BY <1>1, <1>2, CommandUncommitted, UncommittedHop
<1>3. CASE \/ \E p \in Player : RewriteInventory(p) \/ Disconnect(p) \/ HandOff(p)
                                    \/ Die(p)
           \/ \E s \in Station : RewriteBuffer(s)
           \/ Scrub \/ NextSystem
  BY <1>1, <1>3, OtherUncommitted, UncommittedHop
<1>4. CASE \E p \in Player, new \in AtMostOne : Enter(p, new)
  BY <1>4, EnterHop
<1>5. CASE \E s \in Station, i \in Item, new \in AtMostOne : ResolveRecipe(s, i, new)
  BY <1>5, ResolveRecipeHop
<1>6. CASE ApplyChangeset
  BY <1>6, CommitHop
<1>7. CASE UNCHANGED vars
  BY <1>7 DEF vars, Residence, Homes
<1>8. QED
  BY <1>2, <1>3, <1>4, <1>5, <1>6, <1>7 DEF Next

\* Item entities follow the ledger: one hop a tick, along a handler's route, and
\* never straight from one player to another (equipment.ts, container.ts,
\* crafting.ts, dynasty.ts, item_use.ts, death.ts).
THEOREM ItemsFollowLedger == Spec => FollowsLedger
<1>1. QED
  BY LedgerInit, LedgerStep, IInvHolds, PTL DEF Spec, FollowsLedger, Ledger!Spec
====
