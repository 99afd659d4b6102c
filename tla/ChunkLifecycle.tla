--------------------------- MODULE ChunkLifecycle ---------------------------
(***************************************************************************)
(* Terrain of one tile: which chunks are entities of the world, which wait *)
(* in the unload cache, and which survive a restart.                       *)
(*   tile-server/src/systems/chunk_lifecycle.ts and                        *)
(*   chunk_lifecycle_decision.ts (streaming by proximity),                 *)
(*   handlers/terrain_hit_handler.ts, blueprint_hit_handler.ts (edits),    *)
(*   server.ts (boot, autosave), save_manager.ts, tick_loop.ts.            *)
(*                                                                         *)
(* A chunk's four grids are one value of Terrain.  A tick is one action:   *)
(* nothing else runs during it.  It may throw before ChunkLifecycleSystem  *)
(* runs, after it, or once the changeset is applied: the tick loop logs    *)
(* and goes on, immediate effects stay and deferred ones wait for the next *)
(* changeset.                                                              *)
(***************************************************************************)
EXTENDS Naturals, FiniteSets, Sequences

CONSTANTS
    Chunk,          \* chunk coordinates of the tile
    Spot,           \* where an entity with a Position can be
    Near,           \* Near[s]: chunks within the load radius of s
    Reach,          \* Reach[s]: chunks an actor at s can dig or build in
    Terrain,        \* contents of a chunk
    Edit,           \* what a dig or a build makes of a chunk's contents
    Fresh,          \* what the atlas generates
    Absent,         \* no chunk here
    NoRow,          \* no save of this tile
    Grace,          \* world.chunkUnloadGraceTicks
    SaveInterval,   \* persistence.saveIntervalTicks
    MaxPuts,        \* bound on saves in flight
    MaxFailures     \* bound on ticks that fail in a row

\* An actor digs at arm's length, well inside the load radius.
ASSUME ChunkAssumption ==
    /\ Near \in [Spot -> SUBSET Chunk]
    /\ Reach \in [Spot -> SUBSET Chunk]
    /\ \A s \in Spot : Reach[s] \subseteq Near[s]
    /\ Edit \subseteq [Terrain -> Terrain]
    /\ Fresh \in Terrain
    /\ Absent \notin Terrain
    /\ NoRow \notin [Chunk -> Terrain \cup {Absent}]
    /\ Grace \in Nat \ {0}
    /\ SaveInterval \in Nat \ {0}
    /\ MaxPuts \in Nat \ {0}
    /\ MaxFailures \in 0..Grace

VARIABLES
    up,          \* the tile process runs
    here,        \* where ChunkLifecycleSystem will find entities with a Position
    world,       \* world[c]: chunk entity that queries return
    staged,      \* staged[c]: grids queued for that entity by set()
    cache,       \* the unload cache
    grace,       \* ticks out of range (no entry reads as 0)
    sinceSave,   \* saveTickCounter
    failures,    \* ticks that failed since the last that did not
    puts,        \* payloads on their way to tile_saves
    row,         \* the row of tile_saves
    edited,      \* what the digs and builds so far make of each chunk; Absent
                 \* once one of them may be lost (history)
    missing,     \* chunks the save that was booted from did not hold (history)
    torn         \* chunks whose queued edits include one of a tick that threw
                 \* ahead of ChunkLifecycleSystem (history)

vars == <<up, here, world, staged, cache, grace, sinceSave, failures, puts,
          row, edited, missing, torn>>

Slot == Terrain \cup {Absent}
Nothing == [c \in Chunk |-> Absent]

InRange(c) == \E s \in here : c \in Near[s]
Reachable(c) == \E s \in here : c \in Reach[s]

\* The first boot: there is no save.
Init ==
    /\ up = TRUE
    /\ here \in SUBSET Spot
    /\ world = [c \in Chunk |-> Fresh]
    /\ staged = Nothing
    /\ cache = Nothing
    /\ grace = [c \in Chunk |-> 0]
    /\ sinceSave = 0
    /\ failures = 0
    /\ puts = {}
    /\ row = NoRow
    /\ edited = [c \in Chunk |-> Fresh]
    /\ missing = {}
    /\ torn = {}

-----------------------------------------------------------------------------
(* ChunkLifecycleSystem *)

\* Mutant: the grace counter alone decides.
ExpiredAnyhow(c) == world[c] # Absent /\ grace[c] + 1 > Grace

\* A loaded chunk past its grace is unloaded.
Expired(c) == world[c] # Absent /\ ~InRange(c) /\ grace[c] + 1 > Grace

\* Mutant: cached chunks are looked for among the loaded ones.
RecalledLoaded(c) == world[c] # Absent /\ cache[c] # Absent /\ InRange(c)

\* A cached chunk back in range is recreated.
Recalled(c) == cache[c] # Absent /\ InRange(c)

\* Mutant: the counter of an unloaded chunk runs on.
WaitedOn(c) == IF InRange(c) THEN 0 ELSE grace[c] + 1

\* The counter is reset in range, dropped when the chunk unloads, and pruned
\* while it is not loaded.
Waited(c) ==
    IF world[c] = Absent \/ InRange(c) \/ Expired(c) THEN 0 ELSE grace[c] + 1

\* The chunk entity left: an unloaded one is tombstoned at once, a recalled
\* one written at once.
Streamed(c) ==
    IF Expired(c) THEN Absent ELSE IF Recalled(c) THEN cache[c] ELSE world[c]

\* Mutant: the cache keeps the copy it restored.
CachedForever(c) == IF Expired(c) THEN world[c] ELSE cache[c]

\* The cache after both passes.  snapshot() reads the committed grids.
Cached(c) ==
    IF Expired(c) THEN world[c] ELSE IF Recalled(c) THEN Absent ELSE cache[c]

-----------------------------------------------------------------------------
(* Ticks *)

\* The edits one tick makes to a chunk, in their order: one or two.
Digging == {<<f>> : f \in Edit} \cup {<<f, g>> : f, g \in Edit}

\* Edits of a tick: actors dig or build in loaded chunks they can reach.
Edits ==
    UNION {[S -> Digging] : S \in SUBSET {c \in Chunk : world[c] # Absent /\ Reachable(c)}}

\* Every edit copies the committed grids and sets the copy, in the place of
\* what is queued: only the last counts.
LastOf(digging, terrain) == digging[Len(digging)][terrain]

\* The set queued for a chunk once the digs and builds ran.
Asked(c, edits) ==
    IF c \in DOMAIN edits THEN LastOf(edits[c], world[c]) ELSE staged[c]

\* An edit takes the place of one that is not committed.
Overwritten(c, edits) == c \in DOMAIN edits /\ (Len(edits[c]) > 1 \/ staged[c] # Absent)

\* The one left after ChunkLifecycleSystem; void if it destroyed the chunk.
Queued(c, edits) == IF Expired(c) THEN Absent ELSE Asked(c, edits)

\* What the changeset makes of a chunk.
Committed(c, edits) ==
    IF Queued(c, edits) # Absent THEN Queued(c, edits) ELSE Streamed(c)

\* What the edits make of a chunk, if none of them is lost.
Dug(c, edits) ==
    IF edited[c] = Absent \/ Overwritten(c, edits) THEN Absent
    ELSE IF c \in DOMAIN edits THEN LastOf(edits[c], edited[c])
    ELSE edited[c]

\* All the systems run.
Systems(edits) ==
    /\ up
    /\ edited' = [c \in Chunk |-> Dug(c, edits)]
    /\ cache' = [c \in Chunk |-> Cached(c)]
    /\ grace' = [c \in Chunk |-> Waited(c)]

\* The systems run and the changeset, edits and moves, is applied.
Applied(edits) ==
    /\ Systems(edits)
    /\ world' = [c \in Chunk |-> Committed(c, edits)]
    /\ staged' = Nothing
    /\ torn' = {}
    /\ failures' = 0

\* A whole tick ends with the autosave.
Tick(edits) ==
    LET saves == sinceSave + 1 >= SaveInterval IN
    /\ Applied(edits)
    /\ saves => Cardinality(puts) < MaxPuts
    /\ sinceSave' = IF saves THEN 0 ELSE sinceSave + 1
    /\ puts' = IF saves THEN puts \cup {world'} ELSE puts
    /\ UNCHANGED <<up, row, missing>>
    /\ here' \in SUBSET Spot

\* A tick that throws after its changeset: in an event handler, a gate or
\* zone check, or the update of a session.
UnsentTick(edits) ==
    /\ Applied(edits)
    /\ UNCHANGED <<up, sinceSave, puts, row, missing>>
    /\ here' \in SUBSET Spot

\* A tick that throws in a later system or in a mutate function.  Anchors are
\* still spawned and destroyed, at once.
FailedTick(edits) ==
    /\ failures < MaxFailures
    /\ Systems(edits)
    /\ world' = [c \in Chunk |-> Streamed(c)]
    /\ staged' = [c \in Chunk |-> Queued(c, edits)]
    /\ torn' = {c \in torn : staged'[c] # Absent}
    /\ failures' = failures + 1
    /\ UNCHANGED <<up, sinceSave, puts, row, missing>>
    /\ here' \in SUBSET Spot

\* A tick that throws in an earlier system, after the digs and builds.
CutTick(edits) ==
    /\ up
    /\ failures < MaxFailures
    /\ edited' = [c \in Chunk |-> IF c \in DOMAIN edits THEN Absent ELSE edited[c]]
    /\ staged' = [c \in Chunk |-> Asked(c, edits)]
    /\ failures' = failures + 1
    /\ torn' = torn \cup DOMAIN edits
    /\ UNCHANGED <<up, world, cache, grace, sinceSave, puts, row, missing>>
    /\ here' \in SUBSET Spot

-----------------------------------------------------------------------------
(* Saves and restarts *)

\* Mutant: a save is merged into the row chunk by chunk.
PutMerges(p) ==
    /\ p \in puts
    /\ puts' = puts \ {p}
    /\ row' = [c \in Chunk |-> IF p[c] = Absent /\ row # NoRow THEN row[c] ELSE p[c]]
    /\ UNCHANGED <<up, here, world, staged, cache, grace, sinceSave, failures,
                   edited, missing, torn>>

\* An autosave lands, or fails and is logged.
PutDone(p) ==
    /\ p \in puts
    /\ puts' = puts \ {p}
    /\ row' = p
    /\ UNCHANGED <<up, here, world, staged, cache, grace, sinceSave, failures,
                   edited, missing, torn>>

PutFailed(p) ==
    /\ p \in puts
    /\ puts' = puts \ {p}
    /\ UNCHANGED <<up, here, world, staged, cache, grace, sinceSave, failures,
                   row, edited, missing, torn>>

\* The process exits: a crash, or a newer bake.  stop(), which would save,
\* has no caller.  What is in flight may still land before the next boot.
Exit ==
    /\ up
    /\ up' = FALSE
    /\ world' = Nothing
    /\ staged' = Nothing
    /\ cache' = Nothing
    /\ grace' = [c \in Chunk |-> 0]
    /\ sinceSave' = 0
    /\ failures' = 0
    /\ here' = {}
    /\ torn' = {}
    /\ UNCHANGED <<puts, row, edited, missing>>

\* Boot: chunks come from the save; only without a save are they generated.
\* Fixtures, NPCs and gates are spawned anywhere.
Boot ==
    LET loaded == IF row = NoRow THEN [c \in Chunk |-> Fresh] ELSE row IN
    /\ ~up
    /\ up' = TRUE
    /\ world' = loaded
    /\ missing' = {c \in Chunk : loaded[c] = Absent}
    /\ edited' = loaded
    /\ puts' = {}
    /\ UNCHANGED <<staged, cache, grace, sinceSave, failures, row, torn>>
    /\ here' \in SUBSET Spot

SomeTick == \E edits \in Edits : Tick(edits)
SomeFailure ==
    \E edits \in Edits : UnsentTick(edits) \/ FailedTick(edits) \/ CutTick(edits)
SomePut == \E p \in puts : PutDone(p) \/ PutFailed(p)

Next == SomeTick \/ SomeFailure \/ SomePut \/ Exit \/ Boot

\* The tick timer keeps firing and puts settle.
Fairness ==
    /\ WF_vars(SomeTick)
    /\ WF_vars(SomePut)

Spec == Init /\ [][Next]_vars /\ Fairness

-----------------------------------------------------------------------------
(* Properties *)

\* Every variable has its type; a counter never passes the grace.
TypeOK ==
    /\ up \in BOOLEAN
    /\ here \in SUBSET Spot
    /\ world \in [Chunk -> Slot]
    /\ staged \in [Chunk -> Slot]
    /\ cache \in [Chunk -> Slot]
    /\ grace \in [Chunk -> 0..Grace]
    /\ sinceSave \in 0..(SaveInterval - 1)
    /\ failures \in 0..MaxFailures
    /\ puts \in SUBSET [Chunk -> Slot]
    /\ row \in [Chunk -> Slot] \cup {NoRow}
    /\ edited \in [Chunk -> Slot]
    /\ missing \in SUBSET Chunk
    /\ torn \in SUBSET Chunk

\* A chunk the tile booted with is in the world or in the cache, not in both.
Once(c) == (world[c] # Absent) = (cache[c] = Absent)

\* An edit of the chunk may be lost: its tick failed before ChunkLifecycleSystem,
\* or another edit took its place before it was committed.
Lossy(c) == edited[c] = Absent

\* The copy that counts has every edit made to the chunk.
Current(c) ==
    edited[c] = IF staged[c] # Absent THEN staged[c]
                ELSE IF world[c] # Absent THEN world[c]
                ELSE cache[c]

\* "Caching before destroy is the data-safety contract": a running tile has
\* every chunk it booted with once, with every edit made to it, also when ticks
\* fail half-way; edits of a chunk may be lost only if a tick fails between one
\* of them and ChunkLifecycleSystem, or one comes before another is committed.
TerrainKept ==
    up => \A c \in Chunk \ missing :
              Once(c) /\ (Lossy(c) \/ Current(c))

\* "Chunks never unload while terrain is near gameplay": a running tile only
\* takes out chunks no anchor is near.
FarUnload ==
    [][\A c \in Chunk :
          up /\ up' /\ world[c] # Absent /\ world'[c] = Absent => ~InRange(c)]_vars

\* What streaming must not show: a chunk is as the world has it or, while it is
\* unloaded, as the cache has it; a boot finds what is in the row or on its way.
Land == [c \in Chunk |-> IF world[c] # Absent THEN world[c] ELSE cache[c]]
Recoverable == puts \cup {IF row = NoRow THEN [c \in Chunk |-> Fresh] ELSE row}
Ledger == INSTANCE TerrainLedger
          WITH running <- up, land <- Land, queued <- staged, saves <- Recoverable

\* Loading and unloading change no terrain, an edit is committed with its tick
\* or waits for the next that completes, a save holds the loaded chunks of one
\* moment, and a boot goes back to one such moment, never to a mixture.
FollowsLedger == Ledger!Spec

\* Terrain follows those who walk: a chunk of the tile somebody is near comes
\* into the world, unless they leave or the process exits.
TerrainFollows ==
    \A c \in Chunk :
        up /\ InRange(c) /\ c \notin missing
            ~> world[c] # Absent \/ ~InRange(c) \/ ~up

\* "The save is the complete restart truth for everything the boot path skips
\* when a save loads: [...] every terrain chunk": a restart brings back every
\* chunk of the tile.
RestartComplete == missing = {}
=============================================================================
