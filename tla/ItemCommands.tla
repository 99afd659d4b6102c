---------------------------- MODULE ItemCommands ----------------------------
(***************************************************************************)
(* Unique items and who holds them: the systems of tile-server/src that    *)
(* move item entities between inventories, equipment, family chests,       *)
(* workstation buffers and the ground (systems/equipment.ts, container.ts, *)
(* crafting.ts, dynasty.ts, stale_slot_cleanup.ts, death.ts, and           *)
(* actions/resolvers/item_use.ts), within one server tick.                 *)
(*                                                                         *)
(* A slot that holds a unique item is a reference to an item entity.       *)
(* Every handler reads the components as the last tick committed them and  *)
(* queues a replacement of the whole component; of two replacements in a   *)
(* tick the later one wins.  `held` is what handlers read and `next` what  *)
(* the changeset will commit.  The items of a component are a set: which   *)
(* slot an item is in, and stacks, which reference no entity, are left     *)
(* out, but that a command about a stack rewrites the inventory is not.    *)
(* Range, dynasty and content checks that only reject a command are left   *)
(* to the choice of the command.                                           *)
(***************************************************************************)
EXTENDS Naturals, FiniteSets

CONSTANTS
    Player, Chest, Station,
    Item,       \* item entity ids
    Gear,       \* the equippable ones
    Tome,       \* the inscribed ones
    Usable,     \* those with an effect that spends them
    Capacity,   \* slots of an inventory, of a chest and of a buffer
    Stacks,     \* inventory slots that stacks take up
    MaxCommands \* bound: commands and recipes in one tick

ASSUME ItemsAssumption ==
    /\ Gear \subseteq Item /\ Tome \subseteq Item /\ Usable \subseteq Item
    /\ Capacity \in Nat /\ Stacks \in Nat /\ MaxCommands \in Nat

VARIABLES
    phase,     \* the system that runs; "idle" between ticks
    presence,  \* presence[p]: "in", "doomed" (destroyed, not purged), "out"
    life,      \* life[i]: "unborn", "alive", "doomed", "gone"
    held,      \* held[k]: items referenced by component k, committed
    next,      \* next[k]: what k will hold after the changeset
    ground,    \* items that have a Position, committed
    nextGround,
    issued,    \* commands and recipes of this tick so far
    served,    \* players whose command loop in DynastySystem has ended
    written,   \* components that a command of this tick has set
    moved,     \* <<k, i>>: a command of this tick moved i in k (history)
    astray     \* items whose move was overwritten, or left behind (history)

vars == <<phase, presence, life, held, next, ground, nextGround, issued,
          served, written, moved, astray>>

Inv(p) == <<"inventory", p>>
Worn(p) == <<"equipment", p>>
Bank(c) == <<"chest", c>>
Bench(s) == <<"station", s>>
Pos(i) == <<"position", i>>

Holder == ({"inventory", "equipment"} \X Player)
            \cup ({"chest"} \X Chest) \cup ({"station"} \X Station)
Component == Holder \cup ({"position"} \X Item)

\* Components stay readable until the changeset purges their entity.
Readable(i) == life[i] \in {"alive", "doomed"}
Exists(i) == life[i] \in {"alive", "doomed"}

\* The places that reference i, as committed.
Homes(i) == {k \in Holder : i \in held[k]}
              \cup {k \in {<<"ground">>} : i \in ground}

Init ==
    /\ phase = "idle"
    /\ presence = [p \in Player |-> "out"]
    /\ life = [i \in Item |-> "unborn"]
    /\ held = [k \in Holder |-> {}]
    /\ next = held
    /\ ground = {}
    /\ nextGround = {}
    /\ issued = 0
    /\ served = {}
    /\ written = {}
    /\ moved = {}
    /\ astray = {}

Full(p) == Cardinality(held[Inv(p)]) + Stacks >= Capacity

\* The components in `keys` are set: moves queued for them are overwritten.
Overwrite(keys) ==
    /\ issued < MaxCommands
    /\ issued' = issued + 1
    /\ written' = written \cup keys
    /\ astray' = astray \cup {j \in Item : \E k \in keys : <<k, j>> \in moved}

\* A command moves i by setting the components in `keys`.
Move(i, keys) ==
    /\ Overwrite(keys)
    /\ moved' = moved \cup (keys \X {i})

Serves(system, p) == phase = system /\ presence[p] = "in"

-----------------------------------------------------------------------------
(* Between ticks *)

\* What one call makes.
AtMostOne == {{}} \cup {{i} : i \in Item}

\* A player enters with at most one new item equipped.
Enter(p, new) ==
    /\ phase = "idle"
    /\ presence[p] = "out"
    /\ \A i \in new : life[i] = "unborn" /\ i \in Gear
    /\ presence' = [presence EXCEPT ![p] = "in"]
    /\ life' = [i \in Item |-> IF i \in new THEN "alive" ELSE life[i]]
    /\ held' = [held EXCEPT ![Worn(p)] = new]
    /\ next' = [next EXCEPT ![Worn(p)] = new]
    /\ UNCHANGED <<phase, ground, nextGround, issued, served, written, moved, astray>>

\* destroyCarriedItemEntities, then the holder.
DestroyWithItems(p) ==
    /\ life' = [i \in Item |->
                  IF i \in held[Inv(p)] \cup held[Worn(p)] /\ life[i] = "alive"
                  THEN "doomed" ELSE life[i]]
    /\ presence' = [presence EXCEPT ![p] = "doomed"]

\* The client's connection ends: the tile destroys its body.
Disconnect(p) ==
    /\ phase = "idle"
    /\ presence[p] = "in"
    /\ DestroyWithItems(p)
    /\ UNCHANGED <<phase, held, next, ground, nextGround, issued, served, written,
                   moved, astray>>

\* A handoff was acknowledged: only the body is destroyed; the items stay in
\* this world without a home.
HandOff(p) ==
    /\ phase = "idle"
    /\ presence[p] = "in"
    /\ presence' = [presence EXCEPT ![p] = "doomed"]
    /\ astray' = astray \cup held[Inv(p)] \cup held[Worn(p)]
    /\ UNCHANGED <<phase, life, held, next, ground, nextGround, issued, served, written, moved>>

\* Mutant: the tick begins without a cleanup.
ScrubNothing ==
    /\ phase = "idle"
    /\ phase' = "equipment"
    /\ UNCHANGED <<presence, life, held, next, ground, nextGround, issued,
                   served, written, moved, astray>>

\* A tick begins with StaleSlotCleanup: references to dead entities are
\* dropped from inventories and equipment (and from nothing else).
Scrub ==
    /\ phase = "idle"
    /\ phase' = "equipment"
    /\ next' = [k \in Holder |->
                  IF k[1] \in {"inventory", "equipment"} /\ presence[k[2]] = "in"
                  THEN {i \in held[k] : life[i] = "alive"} ELSE held[k]]
    /\ UNCHANGED <<presence, life, held, ground, nextGround, issued, served, written,
                   moved, astray>>

System == <<"equipment", "container", "crafting", "actions", "dynasty",
            "death", "commit">>

NextSystem ==
    \E n \in 1..6 :
        /\ phase = System[n]
        /\ phase' = System[n + 1]
        /\ UNCHANGED <<presence, life, held, next, ground, nextGround, issued, served, written, moved, astray>>

\* MoveItem, or a command about a stack (placing, buying, ...): the same items
\* are written back.  TraderSystem runs just before DynastySystem.
RewriteInventory(p) ==
    /\ phase \in {"equipment", "crafting", "actions", "dynasty"}
    /\ phase = "dynasty" => served = {}
    /\ presence[p] = "in"
    /\ next' = [next EXCEPT ![Inv(p)] = held[Inv(p)]]
    /\ Overwrite({Inv(p)})
    /\ UNCHANGED <<phase, presence, life, held, ground, nextGround, served,
                   moved>>

-----------------------------------------------------------------------------
(* EquipmentSystem *)

\* Mutant: a unique item stays in its inventory slot when it is equipped.
EquipKeepsSlot(p, i) ==
    /\ Serves("equipment", p)
    /\ i \in held[Inv(p)] \cap Gear
    /\ Readable(i)
    /\ held[Worn(p)] = {}
    /\ next' = [next EXCEPT ![Worn(p)] = {i}]
    /\ Move(i, {Inv(p), Worn(p)})
    /\ UNCHANGED <<phase, presence, life, held, ground, nextGround, served>>

Equip(p, i) ==
    /\ Serves("equipment", p)
    /\ i \in held[Inv(p)] \cap Gear
    /\ Readable(i)
    /\ held[Worn(p)] = {}
    /\ next' = [next EXCEPT ![Worn(p)] = {i}, ![Inv(p)] = held[Inv(p)] \ {i}]
    /\ Move(i, {Inv(p), Worn(p)})
    /\ UNCHANGED <<phase, presence, life, held, ground, nextGround, served>>

\* Equipping one of a stack makes a new entity.
EquipFromStack(p, i) ==
    /\ Serves("equipment", p)
    /\ i \in Gear
    /\ life[i] = "unborn"
    /\ held[Worn(p)] = {}
    /\ life' = [life EXCEPT ![i] = "alive"]
    /\ next' = [next EXCEPT ![Worn(p)] = {i}, ![Inv(p)] = held[Inv(p)]]
    /\ Move(i, {Inv(p), Worn(p)})
    /\ UNCHANGED <<phase, presence, held, ground, nextGround, served>>

\* A full inventory sends the item to the ground.
Unequip(p, i) ==
    /\ Serves("equipment", p)
    /\ i \in held[Worn(p)]
    /\ IF Full(p)
       THEN /\ next' = [next EXCEPT ![Worn(p)] = {}]
            /\ nextGround' = nextGround \cup {i}
            /\ Move(i, {Worn(p), Pos(i)})
       ELSE /\ next' = [next EXCEPT ![Worn(p)] = {},
                                    ![Inv(p)] = held[Inv(p)] \cup {i}]
            /\ Move(i, {Worn(p), Inv(p)})
            /\ UNCHANGED nextGround
    /\ UNCHANGED <<phase, presence, life, held, ground, served>>

DropItem(p, i) ==
    /\ Serves("equipment", p)
    /\ i \in held[Inv(p)]
    /\ nextGround' = nextGround \cup {i}
    /\ next' = [next EXCEPT ![Inv(p)] = held[Inv(p)] \ {i}]
    /\ Move(i, {Inv(p), Pos(i)})
    /\ UNCHANGED <<phase, presence, life, held, ground, served>>

-----------------------------------------------------------------------------
(* ContainerSystem *)

Deposit(p, c, i) ==
    /\ Serves("container", p)
    /\ i \in held[Inv(p)]
    /\ Readable(i)
    /\ Cardinality(held[Bank(c)]) < Capacity
    /\ next' = [next EXCEPT ![Inv(p)] = held[Inv(p)] \ {i},
                            ![Bank(c)] = held[Bank(c)] \cup {i}]
    /\ Move(i, {Inv(p), Bank(c)})
    /\ UNCHANGED <<phase, presence, life, held, ground, nextGround, served>>

\* Mutant: the chest keeps its reference.
WithdrawCopies(p, c, i) ==
    /\ Serves("container", p)
    /\ i \in held[Bank(c)]
    /\ life[i] = "alive"
    /\ ~Full(p)
    /\ next' = [next EXCEPT ![Inv(p)] = held[Inv(p)] \cup {i}]
    /\ Move(i, {Inv(p), Bank(c)})
    /\ UNCHANGED <<phase, presence, life, held, ground, nextGround, served>>

\* A slot whose item is dead is purged instead.
Withdraw(p, c, i) ==
    /\ Serves("container", p)
    /\ i \in held[Bank(c)]
    /\ IF life[i] = "alive"
       THEN /\ ~Full(p)
            /\ next' = [next EXCEPT ![Bank(c)] = held[Bank(c)] \ {i},
                                    ![Inv(p)] = held[Inv(p)] \cup {i}]
            /\ Move(i, {Inv(p), Bank(c)})
       ELSE /\ next' = [next EXCEPT ![Bank(c)] = held[Bank(c)] \ {i}]
            /\ Move(i, {Bank(c)})
    /\ UNCHANGED <<phase, presence, life, held, ground, nextGround, served>>

-----------------------------------------------------------------------------
(* CraftingSystem and the recipes it resolves *)

PickUp(p, i) ==
    /\ Serves("crafting", p)
    /\ i \in ground
    /\ Readable(i)
    /\ ~Full(p)
    /\ nextGround' = nextGround \ {i}
    /\ next' = [next EXCEPT ![Inv(p)] = held[Inv(p)] \cup {i}]
    /\ Move(i, {Inv(p), Pos(i)})
    /\ UNCHANGED <<phase, presence, life, held, ground, served>>

\* Loading does not look whether the reference is dead.
LoadWorkstation(p, s, i) ==
    /\ Serves("crafting", p)
    /\ i \in held[Inv(p)]
    /\ Cardinality(held[Bench(s)]) < Capacity
    /\ next' = [next EXCEPT ![Inv(p)] = held[Inv(p)] \ {i},
                            ![Bench(s)] = held[Bench(s)] \cup {i}]
    /\ Move(i, {Inv(p), Bench(s)})
    /\ UNCHANGED <<phase, presence, life, held, ground, nextGround, served>>

TakeWorkstation(p, s, i) ==
    /\ Serves("crafting", p)
    /\ i \in held[Bench(s)]
    /\ ~Full(p)
    /\ next' = [next EXCEPT ![Bench(s)] = held[Bench(s)] \ {i},
                            ![Inv(p)] = held[Inv(p)] \cup {i}]
    /\ Move(i, {Inv(p), Bench(s)})
    /\ UNCHANGED <<phase, presence, life, held, ground, nextGround, served>>

\* A recipe is selected, started or abandoned, or one that takes and makes
\* stacks is resolved: the buffer is written back with the same items.
RewriteBuffer(s) ==
    /\ phase \in {"crafting", "actions"}
    /\ next' = [next EXCEPT ![Bench(s)] = held[Bench(s)]]
    /\ Overwrite({Bench(s)})
    /\ UNCHANGED <<phase, presence, life, held, ground, nextGround, served,
                   moved>>

\* A recipe consumes a unique item: spawnOutputNear, then consumeFromBuffer.
\* A unique output lies beside the station at once.
ResolveRecipe(s, i, new) ==
    /\ phase = "actions"
    /\ i \in held[Bench(s)]
    /\ Readable(i)
    /\ \A j \in new : life[j] = "unborn"
    /\ life' = [j \in Item |-> IF j \in new THEN "alive"
                               ELSE IF j = i THEN "doomed" ELSE life[j]]
    /\ ground' = ground \cup new
    /\ nextGround' = nextGround \cup new
    /\ next' = [next EXCEPT ![Bench(s)] = held[Bench(s)] \ {i}]
    /\ Move(i, {Bench(s)})
    /\ UNCHANGED <<phase, presence, held, served>>

-----------------------------------------------------------------------------
(* The use_item action, DynastySystem, DeathSystem *)

\* Spending a unique item destroys it at once and its slot at the commit.
SpendItem(p, i) ==
    /\ Serves("actions", p)
    /\ i \in held[Inv(p)] \cap Usable
    /\ Readable(i)
    /\ life' = [life EXCEPT ![i] = "doomed"]
    /\ next' = [next EXCEPT ![Inv(p)] = held[Inv(p)] \ {i}]
    /\ Move(i, {Inv(p)})
    /\ UNCHANGED <<phase, presence, held, ground, nextGround, served>>

\* Mutant: the loop's end is noted for the tome.
ExternaliseServesTome(p, i) ==
    /\ Serves("dynasty", p)
    /\ p \notin served
    /\ i \in Tome
    /\ life[i] = "unborn"
    /\ life' = [life EXCEPT ![i] = "alive"]
    /\ next' = [next EXCEPT ![Inv(p)] = held[Inv(p)] \cup {i}]
    /\ Move(i, {Inv(p)})
    /\ served' = served \cup {i}
    /\ UNCHANGED <<phase, presence, held, ground, nextGround>>

\* A blank tome of a stack becomes a new, inscribed one; capacity is not asked.
Externalise(p, i) ==
    /\ Serves("dynasty", p)
    /\ p \notin served
    /\ i \in Tome
    /\ life[i] = "unborn"
    /\ life' = [life EXCEPT ![i] = "alive"]
    /\ next' = [next EXCEPT ![Inv(p)] = held[Inv(p)] \cup {i}]
    /\ Move(i, {Inv(p)})
    /\ served' = served \cup {p}
    /\ UNCHANGED <<phase, presence, held, ground, nextGround>>

Internalise(p, i) ==
    /\ Serves("dynasty", p)
    /\ p \notin served
    /\ i \in held[Inv(p)] \cap Tome
    /\ Readable(i)
    /\ life' = [life EXCEPT ![i] = "doomed"]
    /\ next' = [next EXCEPT ![Inv(p)] = held[Inv(p)] \ {i}]
    /\ Move(i, {Inv(p)})
    /\ served' = served \cup {p}
    /\ UNCHANGED <<phase, presence, held, ground, nextGround>>

\* The dead take along what they carried when the tick began.  What this tick
\* moved into their slots is left without a home.
Die(p) ==
    /\ Serves("death", p)
    /\ DestroyWithItems(p)
    /\ Overwrite({Inv(p), Worn(p)})
    /\ UNCHANGED <<phase, held, next, ground, nextGround, served, moved>>

\* applyChangeset: writes to the destroyed are dropped with them.
ApplyChangeset ==
    /\ phase = "commit"
    /\ phase' = "idle"
    /\ life' = [i \in Item |-> IF life[i] = "doomed" THEN "gone" ELSE life[i]]
    /\ presence' = [p \in Player |->
                      IF presence[p] = "doomed" THEN "out" ELSE presence[p]]
    /\ held' = [k \in Holder |->
                  IF \E p \in Player : presence[p] = "doomed" /\ k \in {Inv(p), Worn(p)}
                  THEN {} ELSE next[k]]
    /\ next' = held'
    /\ ground' = {i \in nextGround : life[i] = "alive"}
    /\ nextGround' = ground'
    /\ issued' = 0
    /\ served' = {}
    /\ written' = {}
    /\ moved' = {}
    /\ UNCHANGED astray

-----------------------------------------------------------------------------
ItemCommand(p, i) ==
    \/ Equip(p, i) \/ EquipFromStack(p, i) \/ Unequip(p, i) \/ DropItem(p, i)
    \/ \E c \in Chest : Deposit(p, c, i) \/ Withdraw(p, c, i)
    \/ \E s \in Station : LoadWorkstation(p, s, i) \/ TakeWorkstation(p, s, i)
    \/ PickUp(p, i)
    \/ SpendItem(p, i)
    \/ Externalise(p, i) \/ Internalise(p, i)

Next ==
    \/ \E p \in Player, i \in Item : ItemCommand(p, i)
    \/ \E p \in Player : RewriteInventory(p) \/ Disconnect(p) \/ HandOff(p)
                           \/ Die(p)
    \/ \E p \in Player, new \in AtMostOne : Enter(p, new)
    \/ \E s \in Station : RewriteBuffer(s)
    \/ \E s \in Station, i \in Item, new \in AtMostOne : ResolveRecipe(s, i, new)
    \/ Scrub
    \/ NextSystem
    \/ ApplyChangeset

Spec == Init /\ [][Next]_vars

-----------------------------------------------------------------------------
TypeOK ==
    /\ phase \in {"idle", "equipment", "container", "crafting", "actions",
                  "dynasty", "death", "commit"}
    /\ presence \in [Player -> {"in", "doomed", "out"}]
    /\ life \in [Item -> {"unborn", "alive", "doomed", "gone"}]
    /\ held \in [Holder -> SUBSET Item]
    /\ next \in [Holder -> SUBSET Item]
    /\ ground \subseteq Item
    /\ nextGround \subseteq Item
    /\ issued \in 0..MaxCommands
    /\ served \subseteq Player
    /\ written \subseteq Component
    /\ moved \subseteq Component \X Item
    /\ astray \subseteq Item

\* Between ticks every item that exists is in exactly one place, unless two
\* commands of one tick set the same component (the loser's item is astray),
\* its carrier was handed off, or its new carrier died before the commit: no
\* path through the handlers copies or drops a reference by itself.
OneHome ==
    phase = "idle" =>
        \A i \in Item \ astray : Exists(i) => Cardinality(Homes(i)) = 1

\* A reference to an item that was dead when the tick began survives the tick
\* in a player's slots only if a command of the tick wrote those slots back:
\* StaleSlotCleanup (stale_slot_cleanup.ts) removes all the others.
DeadRefsScrubbed ==
    [][phase = "commit" =>
        \A p \in Player : \A k \in {Inv(p), Worn(p)}, i \in Item :
            life[i] = "gone" /\ i \in held'[k] => k \in written]_vars

\* Where the committed components say each item is.
Residence ==
    [i \in Item |->
       IF i \in astray THEN <<"astray">>
       ELSE IF life[i] = "gone" THEN <<"gone">>
       ELSE IF Homes(i) = {} THEN <<"unborn">>
       ELSE CHOOSE k \in Homes(i) : TRUE]

Ledger == INSTANCE ItemLedger WITH home <- Residence

\* Every item follows the routes of the ledger, one hop a tick.
FollowsLedger == Ledger!Spec

\* What stale_slot_cleanup.ts says of itself: no system that runs after it
\* sees a reference to an entity that died in an earlier tick.
NoDeadRefSeen ==
    phase # "idle" =>
        \A p \in Player : \A i \in held[Inv(p)] \cup held[Worn(p)] :
            life[i] # "gone"
=============================================================================
