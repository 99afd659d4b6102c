# Voxim2: formal models

TLA+ models of the server side of Voxim2, a multiplayer RPG whose world is cut
into tiles, each simulated by one process. The models are translated from the
TypeScript under `packages/`; TLC checks them on small instances, and TLAPS
proves their safety properties for every instance.

## 1. The system

| Process | Packages | State | Operations |
|---|---|---|---|
| client | `client`, `protocol`, `codecs` | mirror of the visible world, prediction buffer | join, movement datagrams, commands |
| gateway | `gateway` | accounts, sessions, heritage, tile registry, WebTransport links | login, heritage and death records, handoff proxy, message switchboard |
| tile server | `tile-server`, `engine`, `world`, `content` | ECS world, sessions, handoffs in flight, terrain cache | tick loop, session handlers, handoff, autosave |
| coordinator | `coordinator` | cities | macro simulation, AI requests |
| ai-manager | `ai-manager` | none | answers AI requests |
| Postgres | `db` | rows per user, tile, city | get / put repositories |
| atlas (offline) | `atlas`, `levelgen` | baked world | generation |

Everything in one process runs on one JavaScript thread. What is concurrent is
what lies between two `await`s: session handlers, handoff continuations, admin
requests, autosaves and ticks interleave at those points and only there. Between
processes messages may be lost, late, or answered after the sender moved on.

### Components, their state, and what makes them correct

* **Component store** (`engine/src/world.ts`). Systems read committed state and
  queue writes on one ordered log; `applyChangeset` commits one net result per
  key and reports it. Correct when the reverse index always matches the store,
  when deferred operations act as if applied in order at the end of the tick,
  and when the changeset - all that clients ever see - names every change.
* **Scene graph** (same file). A `Parent` component per entity and a reverse
  child index. Correct when both agree and a subtree is torn down whole.
* **Player sessions** (`tile-server/src/server.ts`, `session.ts`). One
  asynchronous handler per connection (join, spawn, register, receive, clean
  up), the tick's drain, gate check, send and sweep, and the handoff promise all
  act on the session map, the player's entity and two marker sets. Correct when
  a served client has a body, no body is left behind, every combat death is
  recorded exactly once, and a handoff is not cut short.
* **Terrain streaming and persistence** (`systems/chunk_lifecycle.ts`,
  `chunk_lifecycle_decision.ts`, `save_manager.ts`). Chunks far from everything
  move to a memory cache and back. Correct when no terrain or edit is lost,
  nothing unloads near an anchor, terrain returns where somebody is, and a
  restart brings it all back.
* **Cross-tile handoff** (`handoff.ts`, `admin_server.ts`, `gateway/src/server.ts`).
  The source posts the serialized body to the gateway, which forwards it to the
  destination's endpoint; the answer redirects the client and destroys the
  source's copy. Correct when a player has one body, none of its progress is
  rewound, and the redirected client finds its body.
* **Service links** (`gateway/src/edge/wt_server.ts`, the two `gateway_link.ts`).
  Correct when whoever believes it is connected is read, everybody reconnects,
  and a summary that was pushed arrives.
* **Inventory, equipment, containers, crafting, tomes** (`systems/equipment.ts`,
  `container.ts`, `crafting.ts`, `dynasty.ts`, `stale_slot_cleanup.ts`). Handlers
  read committed components and queue whole replacements. Correct when no
  command of a tick duplicates or loses an item and no slot keeps a dead
  reference.
* **State stream** (`aoi.ts`, `session.ts`, client `client_world.ts`). Correct
  when what the client rebuilds equals what the server holds, but for what a tick
  that threw before its message did, and the terrain and fog it is owed arrive.
* **Actions, hits, resources** (`actions/dispatcher.ts`, `intent.ts`,
  `handlers/health_hit_handler.ts`, `systems/resource.ts`, `death.ts`). Correct
  when a tag lives exactly as long as its action, a committed action plays out,
  and a reaction that was earned is played.
* **Input ring and merge, job board, account, city AI, trade**: not modelled;
  see *Not modelled*.
* Physics, hit geometry, animation, rendering, codecs, content loading and
  world generation are not modelled: they are numeric or pure, have no protocol
  state, and are covered by example-based tests.

`PROJECT.json` lists every component with its status, and under `hazards` what is
hard to test in this code, line by line, with the property that covers it or the
reason why none does yet.

## 2. Modules

| Module | Models | State and code |
|---|---|---|
| `World` | the component store | `store`, `tombstones`, `data`, `componentIndex`, `pendingOps` are the fields of the same name (`data` is the content of `store`); `working` and `applied` are the locals of `applyChangeset`. `Create`, `Destroy`, `Write`, `Erase` are the immediate methods, `Enqueue` is `set`/`mutate`/`remove`. `applyChangeset` is `BeginApply`, one `SkipOp` or `WalkOp` per operation, `Commit`. `Publish` is `runTick` consuming the changeset. |
| `AbstractWorld` | what the store promises | no index, no slots, no changeset: a queue, a private copy, a swap. |
| `SceneGraph` | `Parent`, `childIndex`, `setParent`, `destroySubtree`, purge | reachability is a least closed set instead of the code's stack, so that it can be reasoned about. `used` remembers which ids were created: ids are fresh UUIDs except player ids (`Recreated`). |
| `TileSessions` | sessions, bodies and outgoing handoffs of one tile | `pc[c]` is where the handler of connection `c` waits; each action is the code from one `await` to the next. A tick is one action. `slain` and `unrecorded` are history. |
| `ChunkLifecycle` | terrain streaming, edits, autosave, crash, boot | one value stands for a chunk's four grids. A tick is one action; one that throws is another, before `ChunkLifecycleSystem` (`CutTick`), before the changeset (`FailedTick`) or after it (`UnsentTick`). `edited`, `missing` and `torn` are history. |
| `TerrainLedger` | what terrain promises | no loading, cache, anchors or puts: land that only edits change, each made to the land there is, at the end of its tick or from a queue of one edit a chunk, and saved moments of which a restart takes one as a whole. |
| `ItemCommands` | unique items and the commands that move them | `held` is what handlers read, `next` the whole-component sets queued in this tick, the last of which wins. `phase` walks through the systems of a tick in their order; each command is an action. `moved` and `astray` are history: items whose move a later command of the tick overwrote. |
| `ItemLedger` | what item commands promise | an item is unborn, somewhere, or gone; it is made, moved, spent, and never comes back. |
| `Handoff` | the round trip of a handoff between two tiles | `flight[i].stage` is where handoff `i` waits: at the source's fetch, the gateway's fetch, the destination's answer, the gateway's update of `last_tile_id`, the source's flush. A body is the number of changes made to it. |
| `PlayerTravels` | what crossing promises | no requests, copies or endpoints: a body with all its changes is on one tile and goes to another in one step. |
| `ServiceLinks` | gateway listener and both reconnect loops | `pc`, `transport`, `writer` are the peer's loop, `tileLinks`, `coordinator` the gateway's fields, `reader` and `forward` its read loop per session (a frame's forwarding is awaited before the next is read), `watched` the sessions whose `closed` still has a callback. |
| `StateStream` | what one player sees | `known` is `knownEntities`, `queue` the session's ordered writes, `seen`, `revealed`, `pending` the fields of `FogState`; `view` and `mapped` are the client. `missed` and `shipped` are history. `Tick` is `computeSessionUpdate` and the send, `UnsentTick` a tick that throws before them, `Receive` the client's `onStateMessage`. |
| `DelayedMirror` | what the stream promises | no spawns, deltas, versions or known set: pictures of the world, each exact at its moment, shown late and in order; `blurred` in what moved while no picture was sent. |
| `Combat` | one actor's slots and the hits it takes | `now` is committed, `next` has the queued writes. A tick is `BeginTick` (ResourceSystem), hits by opponents the dispatcher visits earlier, `Dispatch` of the actor, hits by those it visits later, `EndTick` (DeathSystem, commit). `posted` and `owed` are history. |
| `World_proofs`, `SceneGraph_proofs`, `ChunkLifecycle_proofs`, `ItemCommands_proofs`, `Combat_proofs`, `TileSessions_proofs`, `StateStream_proofs` | | the proofs about the module of that name. |
| `Gateway_proofs` | | the proofs about `Handoff`, which it extends, and about `ServiceLinks`, as the instance `Links`. |
| `MC*` | | the TLC instances. |

In each module a definition preceded by a comment `Mutant:` is a plausible bug of
the definition after it; it is part of no specification and serves to show that
the properties notice such a bug.

### Abstractions and guards worth knowing

* `World`: component versions are left out; `pendingDestroys` and `tombstones`
  always hold the same ids and are one variable. `destroy` has no guard, as in
  the code: an id outside the store can be tombstoned.
* `SceneGraph`: `setParent` asks for nothing but a child in the store, and so does
  `SetParent`: any sequence of calls, with parents that are gone, tombstoned, the
  child itself or below it. The comment of `setParent` says that callers build
  trees top-down (the two callers, `spawnPrefab` and `spawnBuffChild`, parent an
  entity they have just created), but nothing checks it, and no property relies on
  it. On a cycle `descendants()` would not return; a step of the model is a call
  that ends, so `DestroySubtree` is one where the walk meets no cycle
  (`WalkEnds`). That callers never make a cycle is not stated as a property: no
  code here decides it.
* `TileSessions`: an account service is configured (without one nothing is
  recorded). `RejectJoin`, the refusal of a handoff and the failure of every
  awaited request are allowed at any time. Respawn does not appear as an action:
  its command is drained only for living players, for whom `respawnPlayer`
  returns at once, so the only effect of draining is to drop it. Name, hearth and
  character caches, the input ring, AoI and fog contents are left out.
* `ChunkLifecycle`: the positions the lifecycle system reads are those committed
  by the *previous* tick, with what was spawned or destroyed at once since
  (`here` is read before the tick's moves), because positions are written
  through the deferred log; the comment in
  `chunk_lifecycle.ts:21-22` expects this tick's. The model assumes that whoever
  digs or builds is well inside the load radius (`Reach` below `Near`).
  An edit is a function from contents to contents, applied, as the handlers do, to
  the committed grids and set whole, so that of two edits of a chunk in one tick,
  or of one queued by a failed tick and the next tick's, the earlier is lost (a
  chunk sees at most two edits in a tick). The four grids are one value: in the
  code an edit of the material grid survives one of the heightmap alone. Payload
  corruption is not
  modelled: `deserialize` validates before it touches the world and falls back
  to a fresh boot. A put still in flight at a crash may land before the next
  boot, not after. `stop()`, which would save, has no caller, so an exit is a
  crash. More failing ticks in a row than the grace period are out of scope
  (`MaxFailures` is at most `Grace`): an edit queued on a chunk that unloads
  before any tick completes would be void. One failing tick is enough when it
  throws between the edit and `ChunkLifecycleSystem`: a chunk whose grace has
  just run out is dug by somebody who came back, the tick throws before the
  counter is reset, they leave, and the next tick unloads the chunk and with it
  the queued edit. Such an edit is `torn` while it is queued. `edited` is what all
  edits of a chunk together make of it, and Absent from the first torn or replaced
  edit until the next boot (`Lossy`); `TerrainKept` then only claims that the
  chunk is there once, and `FollowsLedger` that its land is what one of the edits,
  made to the land there was, gives.

* `ItemCommands`: which slot an item is in, and stacks, are left out - but a
  command about a stack rewrites its inventory and so can undo another's move.
  Range, ownership and content checks that only reject a command are left to the
  choice of the command. Placed buildings and trader goods are stacks.
* `Handoff`: a tile has at most one session per player and the carried items
  travel with the body; the connections of the source tile are `TileSessions`.
  No `fetch` of a handoff has a timeout in the code. `demanded` is the field the
  endpoint looks for: `components` as the code has it, `player` as the payload
  is; the properties other than `Crosses` are about both.
* `ServiceLinks`: secrets and frames are well-formed; a stream holds one frame.
  A write to a session that is down settles before its peer redials unless
  `StalledWrite` is set.
* `StateStream`: near entities are any set, and of the pending chunks any
  `ChunkCap` go first. Events and the unreliable snapshot datagrams are left out.
  A tick that throws after its changeset and before its message, in an event
  handler or a gate or zone check (`server.ts:1161-1172`), is `UnsentTick`: the next
  changeset names what its own tick did, so what this one did to an entity
  the session knows never reaches the client, until the session forgets the
  entity and spawns it again. The history variable `missed` names those
  entities. A tick that throws before its changeset needs no action: its deferred
  changes are part of the next, whose changeset names them. Left out: a delta
  skipped because its codec throws (`server.ts:1301-1315`; the change is missed in
  the same way), and a throw inside `computeSessionUpdate` or the encoding of its
  message, after which the known set may have moved on without a message.
  Hydrating the fog overwrites `seenEver` with the saved bitmap and leaves
  `revealedThisTick` alone (`server.ts:1540-1545`), so what a body saw while the
  bitmap was being fetched drops out of the former and not of the latter. With one
  cell, as in the run, this cannot show; the proof is about any set of cells.
* `Combat`: geometry and damage multipliers are the choice of `Strike`;
  `hit_front` stands for both flinches. Left out: cooldowns and skills, item use,
  the combo chain and heavy swings, posture, jumps, actions NPC trees request,
  armour, injuries, the counter bonus, knockback, healing and other damage.

## 3. Runs

| Run | Instance | Shows |
|---|---|---|
| `world` | 2 entities, 2 components, 2 values, 1 mutation, 3 operations per tick; 2.1 million states | `IndexExact`, `ChangesetComplete`, and refinement of `AbstractWorld` |
| `scene` | 4 fresh ids and one player id | index sound and complete below fresh ids (`ChildIndexExact`) under any `setParent` calls, cycles included; teardown whole (`TeardownWhole`) |
| `sessions` | 1 player, 3 connections, all 16 sets of faults; 0.7 million states | the session properties, see below |
| `sessions_respawn` | no fault | *violation*: a dead player's Respawn is never served |
| `chunks` | 2 chunks, 2 spots, an edit that turns flat into dug and back, up to 2 a chunk and tick, grace 2, a save every tick, 1 put in flight, 1 failure in a row; 0.15 million states | `TerrainKept`, `FarUnload`, refinement of `TerrainLedger`, `TerrainFollows` |
| `chunks_restart` | the same | *violation*: a restart with a hole in the terrain |
| `items` | 2 players, a tool and a tome, a chest, a station, capacity 2 with 1 stack, 2 commands per tick; 7 million states | `OneHome`, `DeadRefsScrubbed`, refinement of `ItemLedger` |
| `handoff` | 1 player, 2 tiles, 3 handoffs; every adverse event alone, and pairs of benign ones; 0.6 million states | `OneBody`, `NothingRewound`, refinement of `PlayerTravels`, `HandoffEnds` |
| `handoff_refused` | the endpoint as it is, no event | *violation*: an undisturbed handoff is refused |
| `links` | a tile and the coordinator, 3 session ids, 2 drops; 0.4 million states | `ConnectedIsRead`, `EventuallyLinked`, `QuietSummaryArrives` |
| `stream` | 1 player, 2 chunks of which 1 per message, 1 other entity, 1 fog cell, 1 message queued, 2 joins or a join and an unsent tick; 0.4 million states | `CaughtUpMirrors`, refinement of `DelayedMirror` (`ShowsMoments`), `TerrainArrives` |
| `combat` | health 3, poise 2, stamina 2, damage 1 or 2, a parry window of 2, plays of 2 to 4 ticks, 2 hits per tick; 1.2 million states | `TagsFollowSlots`, `PlaysOut`, `LonePostPlays` |

Why the bounds are enough. `world`: three operations give every pair and triple
of kinds on one key, and still leave one for another key or entity; the mutation
swaps the two values, so that the number and place of its applications show; two
components distinguish an index mix-up. `scene`: chains of three below a root,
siblings, reparenting and a recreated id in one instance. `sessions`: a player's
state is independent of other players' (every structure is keyed by player id),
so one player suffices; three connections allow an old session, its
successor, and one more that arrives while both unwind. `chunks`: two chunks and
two spots such that one spot is near both chunks and the other near one; a grace
of two lets a counter be advanced, reset and exceeded; a save in flight, and
ticks that throw after their changeset, put loads and unloads between a save and
the crash. One failure in a row keeps the run short; longer ones, up to the
grace period, are covered by the proof. `items`: a tick loses or doubles an item when
two commands write one component, so two commands suffice; two players, so that
both may act on one chest, station or item on the ground; a stack and a capacity
of two make inventories full. `handoff`: three handoffs are there and back and
one more that races; the endpoint remembers two ids, so the third evicts the
first. `links`: a session, its replacement, and one that arrives while the first
is still being unwound; two drops break a session and its successor. `stream`:
two chunks at one per message leave one pending; one queued message makes the
queue overflow with the second; the second event is a join that adopts or replaces the
first, or a tick that throws before its message, after which a delta is dropped
as stale when the removal before it was missed.
With a longer queue, three messages, a spawn, a change and a removal of one entity
can be under way together; `ShowsMoments` was checked there once, with one chunk
and one join (0.3 million states), as it was with two messages, one chunk and two
events (0.5 million), and it is proved for queues of any bound.
`combat`: every slot is occupied by each of its actions, hits arrive before and
after the actor's own turn, and poise, stamina and health all reach zero. The
`combat` run does not look for deadlock: a dead actor is gone, and with it the
end of the behaviour.

### Faults in `TileSessions`

A behaviour is given a set of faults that may happen in it, so that one run can
say under which faults a property holds. `sessions` covers all sixteen sets.

| Property | Fails with |
|---|---|
| `OpenIsRegistered` | `earlyReconnect` and `handoff` together: the handoff deletes the map entry of the session that replaced the carried one (`server.ts:1479`) |
| `ServedHasBody` | `earlyReconnect` |
| `NoPhantomDeath` | `earlyReconnect`: the same race ends in a death record for a player that did not die |
| `DeathsRecorded` | each fault: stream faults, a player who dies during a handoff, a dead player who reconnects, a join that aborts |
| `NoOrphanBody` | `joinAbort`: a join that throws after the spawn |
| `HandoffOwnsBody` | `earlyReconnect` |
| `DepartedLeaves` | `handoff`, `joinAbort` |

The run's properties are these, restricted to the faults under which the code
does keep them, and joined where they are about the same structures:
`RegistryExact` is `OpenIsRegistered` and `MarkerScoped`; `BodiesAnswered` is
`ServedHasBody` without early reconnects and `NoOrphanBody`; `DeathsExact` is
`NoPhantomDeath` and `DeathsRecorded` for a player no fault touched.

### Events in `Handoff`

Likewise a behaviour of `Handoff` is given a set of events.

| Property | Fails with |
|---|---|
| `OneBody` | `lostAnswer` (the destination restored the body, the source keeps its own), `updateFails`, `earlyReconnect`, `eviction`, and a `duplicate` whose id the endpoint has forgotten |
| `ProgressKept` | those, and `actsInFlight` (what is done while the handoff is on is not in the payload), `bounce` |
| `CrossingFindsBody` | those, and `crash` (the destination forgot the body) |
| `FollowsTravels` | what `ProgressKept` fails with; with `crash` a body may vanish while it is played, and one that was on its way may come back as it was |
| `HandoffEnds` | nothing: every handoff ends, accepted or refused |

Harmless alone and together: `unreachable`, and `duplicate` as long as the
endpoint's memory of ids absorbs it (`Recognised`: no restart in between, and no
more ids received than `handoffCacheMax`). That a forgotten id rebuilds a body the
player has long left came out of the proof of `OneBody`. The run's properties are
stated for the remaining events; they say in their definition which ones they
exclude. `NothingRewound` is `ProgressKept` and `CrossingFindsBody`.

### What `ItemCommands` shows

`OneHome` says that an item is referenced from one place, unless two commands of
one tick set one component, its carrier was handed off (only the body is
destroyed, `server.ts:1477`), or its new carrier died in the tick. That list is
the result of the model: each exception was a counterexample first. `FollowsLedger`
says that apart from them every tick does to an item only what the ledger knows.

### Fairness

* `TileSessions`: weak fairness of *some* tick (`TickLoop` re-arms its timer after
  every tick, also one that threw), of every handler's continuation (awaited
  fetches and stream writes settle, by answer or by error), and of each handoff's
  continuation (`finally` runs whatever the answer). Nothing makes a client
  connect, disconnect or press a key, nor a destination accept a handoff. No
  fairness is given to a *particular* kind of tick: nobody has to leave a gate.
* `ChunkLifecycle`: weak fairness of complete ticks and of puts settling. The
  system does not have to boot again or to stop failing for good: `FailedTick`
  and `CutTick` are bounded by `MaxFailures` in a row.

* `Handoff`: weak fairness of each handoff's round trip. It assumes that a request
  is answered or fails; the code sets no timeout of its own.
* `ServiceLinks`: weak fairness of each peer's reconnect loop (it waits on timers
  only) and of the gateway's handshake, routing and `closed` callbacks (one event
  loop). Strong fairness of `PushSummary`: the tick keeps trying, and the link
  that must be up for it may come and go.
* `StateStream`: weak fairness of `Tick` and of `Receive` (a client that stays
  connected keeps reading). Joins, disconnects and writes are free. A tick that
  throws is not a `Tick`, and no fairness makes it happen: the loop goes on after
  it (`tick_loop.ts`), and not every tick throws.

`World`, `SceneGraph`, `ItemCommands` and `Combat` have only safety properties.

## Divergences

Three runs show a disagreement between the code and what a comment or test in it
says: `sessions_respawn`, `chunks_restart`, `handoff_refused` (quoted under
`findings` in `PROJECT.json`). The following were met while modelling. Those with
a property in brackets are stated in the module and were checked once with
the named constants or faults; no run is kept for them.

* A child of a player id that is created again is not in the child index, since
  the purge keeps the `Parent` of surviving children, `world.ts:336`
  (`ChildIndexComplete`).
* A reconnect adopts a body that the old handler's clean-up then destroys
  (`ServedHasBody`); a combat death whose session the server had closed is not
  recorded (`DeathsRecorded`); a player who left inside a gate that refuses it is
  handed off again for ever (`DepartedLeaves`).
* `stale_slot_cleanup.ts:10-12` promises that nobody sees a reference to an entity
  that died last tick; the scrub is itself a deferred set (`NoDeadRefSeen`).
* `wt_server.ts:294-295` says a failing coordinator link does not end the tile's
  read loop; after the await `this.coordinator` may be null and `:297` throws in
  that loop (`TileLoopSurvives`). `wt_server.ts:217-222` deletes whatever link
  the tile has by then (`EventuallyLinked` with `StalledWrite`).
* `server.ts:1638` marks a summary as pushed although `publish` may have dropped
  it (`SummaryArrives`).
* `fog_state.ts:11-12` and `game.ts:502` expect a fog snapshot in the first state
  message after a join; a join that adopts a living body, `server.ts:1730`, leaves
  `pendingSnapshot` false (`FogAfterJoin`).
* `tags.ts:65-66` says a staggered actor may not start actions; `swing_light`,
  `block` and `use_item` have no `not_staggered` precondition
  (`StaggeredStartsNothing`).
* Reactions live in a slot of their own, so a stagger does not interrupt a
  committed swing as `TICKETS.md:892` expects, and a dodge is in the locomotion
  slot, so it starts beside a swing instead of being dropped (T-295).
* A second, lighter hit of a tick overwrites a posted stagger by a flinch although
  "stagger supersedes the flinch" (`health_hit_handler.ts:241-246`), and taking a
  pending reaction removes one posted earlier in the tick (`intent.ts:167`);
  `LonePostPlays` is about reactions posted alone for that reason. A swing and a
  dodge that start in one tick may together cost more stamina than there is
  (`dispatcher.ts:289`).

## 4. Proofs

Every invariant and every safety action property of the passing runs is proved
for all values of the constants, and so are all five refinements (`AbstractWorld`,
`TerrainLedger`, `ItemLedger`, `PlayerTravels`, `DelayedMirror`). Assumptions are
those named in the modules (`WorldAssumption`, `SceneAssumption`,
`ChunkAssumption`, `ItemsAssumption`, `CombatAssumption`, `SessionsAssumption`,
`HandoffAssumption`, `LinksAssumption`, `StreamAssumption`): that bounds are
numbers, that `None` is none of the values it is told apart from, that sets of
events are sets of events. TLC evaluates them in the runs. Sets of entities,
components, values, chunks, spots, items, players, connections, tiles and fog
cells are arbitrary, finite or not. The length tables of `Combat` are any positive
numbers.

Each proof has the same shape: an inductive invariant `IInv` of named parts, one
lemma for `Init`, one step per action, and theorems that follow from `IInv`. What
the strengthenings are for:

* `World_proofs`. `TypeCorrect` is inductive with the type of the operation log's
  head. `IndexAlwaysExact` needs `IndexInv`: entities outside the store have no
  data (else a recreated id would appear in the index), and only living entities
  have working slots (else the commit would resurrect a component).
  `ChangesetAlwaysComplete` follows from `IndexInv` step by step.
  `StoreImplementsAbstract` maps the walk's overlay (working slots over committed
  data) to the abstract private copy; its core is `OverlayStep`: walking one
  operation changes the overlay exactly as the operation alone would.
* `SceneGraph_proofs`. `ChildIndexSound` is inductive with `TypeOK`, for an id
  outside the store has no parent. `CompleteInv` adds that the parent of an entity
  was once created or is a player id (`ParentsUsed`), so that creating a fresh id
  makes no index incomplete.
  `TeardownAlwaysWhole` shows that the set of descendants the index yields is
  closed under the true parent relation below fresh ids, by leastness of
  reachability.
* `ChunkLifecycle_proofs`. `IInv` is `TypeOK`, `TerrainKept`, and three
  strengthenings: a chunk with a queued edit that is not torn has a grace counter
  below the number of ticks that failed in a row (`StagedYoung`, so that it cannot
  unload before the edit is committed), a torn edit is queued and its chunk `Lossy`
  (`TornQueued`), and a tile that is down holds nothing (`DownIsEmpty`).
  `EditCounts` shows that an edit that replaces no other asks for what all edits
  together make. `UnloadsOnlyFar` follows from it. `TerrainFollowsLedger` takes
  the land of a chunk to be what the world or the cache has of it. Its core is
  `NotTwice`, that no chunk is in both, so that the systems of a tick, whatever
  they load and unload, leave the land as it is (`SystemsShow`) and only the
  commit changes it (`AppliedLedger`); the saves a restart may return to are the
  row and the puts in flight.
* `TileSessions_proofs`. `SessionRegistryExact`, `SessionBodiesAnswered`,
  `SessionDeathsExact` and `HandoffKeepsBody` are about four copies of "the player
  is here": the handler's stage, the session map, the world and the handoff.
  `LivingIsOwned` names for every living body who will take it out of the world.
  With clients that do not come back early (`PatientInv`) a player has one handler,
  and its stage determines whether there is a body or a death to record; with no
  fault at all (`PlainInv`) it determines how many deaths are owed.
* `ItemCommands_proofs`. Per item that is not astray: a place nobody moved it from or to
  will be as it is (`UnmovedStays`); the living have exactly one home after the
  commit and get there along a route the ledger knows (`OneHomeNext`); what is
  being destroyed is referenced only by what goes too (`CondemnedLeaves`,
  `CarriedDoomed`); the gone and the unborn are nowhere. `OneHome` speaks of the
  idle state alone; the invariant has to say what each command leaves for the
  commit. `ItemsFollowLedger` proves the refinement of `ItemLedger` from it, and
  `ItemsDeadRefsScrubbed` from `DeadRefsWritten`.
* `Combat_proofs`. `TagsFollowSlots` is inductive only with the same fact about the
  queued state (`Tagged(next)`) and with `InTime`: no action overstays its phase.
  `LockedPlaysOut` needs what the dispatcher may have done with each slot (`Ran`)
  before the tick commits, and `LonePostAlwaysPlays` that a reaction posted alone
  is the one that is pending, and that a pending one is served (`PostsPend`,
  `Served`).
* `Gateway_proofs`, about `Handoff`. `Frame` holds under all events: what a flight
  is about, that its source knows of it, and that the endpoint remembers all it
  received while that fits. `SingleInv`, under the events of `OneBody`: a player
  is active in one place; it has one handoff that has not redirected its client
  yet, and none while the client crosses; a body nobody joined has just been
  restored or is where `last_tile_id` sends the next login. `ForwardsInv` adds
  that every copy is current, `AwaitedInv` that without restarts a redirected
  client is awaited. `HandoffOneBody`, `HandoffKeepsProgress` and
  `CrossingAlwaysFindsBody` follow. `HandoffFollowsTravels` has to say where a body
  is while the flight has it: on the tile it left until a client joins it on the
  tile it was sent to. `PlayerSits` says that this place is the only one and its
  body has every change. A flight whose source no longer knows of it exists only
  after a restart (`OrphanedStep`), which is why only a restart lets a body come
  back. Then each action moves the body as `PlayerTravels` allows (the lemmas
  `Goes...`).
* `Gateway_proofs`, about `ServiceLinks` (`LinksTypeCorrect`,
  `LinksConnectedIsRead`). `LinksOwned`: a peer writes on a session it dialed,
  a running read loop has an owner, and the coordinator's stream holds only
  commands, which name a tile. `Init`, `Next` and `TypeOK` are names of both
  modules, hence the instance; its theorems have `LinksAssumption` as a hypothesis.
* `StateStream_proofs`. `StreamMirrors` is about the client that has read the whole
  queue. `MirrorInv`: what is known and not missed is in the store; that client shows
  all that is known and nothing else; what is neither doomed nor missed is shown
  with the component's value and a version no newer. The client's state is a recursive function of
  the queue; `ReadAppend` and `ReadHead` say what a message added at the end or
  taken off the head does to it, by induction on the queue's length. (That
  induction goes through a least counterexample, `NatSets`, since the library's
  induction theorem takes an operator.) `FogMirrors` is inductive with `TypeOK`.
  `StreamShowsMoments` is about every position in the queue, not only its end: the
  pictures on their way are what the page will be after each message, so a message
  sent appends one (`ComingSent`), one read takes off the first (`ComingRead`), and
  `MirrorInv` says that the last is exact, but for what it keeps of the picture
  before, which is missed (`PictureTaken`). A server that split a
  message in two would satisfy `Mirror` and not this (mutant `SentInParts`).

Only model-checked: the liveness properties (`PlainDepartedLeaves`,
`TerrainFollows`, `HandoffEnds`, `EventuallyLinked`, `QuietSummaryArrives`,
`TerrainArrives`: the prover does not handle liveness under fairness), and the
violations.

## Not modelled

* *Trader stock, stack quantities, placement*: handlers move numbers between
  components with the same read-committed, write-whole discipline `ItemCommands`
  shows for unique items; that two buyers of one tick lose an update is listed as
  a hazard.
* *Input ring and merge*, *job board*, *account service*, *city simulation*: small
  protocols, in the plan below.
* *Cooldowns, skills, triggers, buffs, item use, NPC behaviour trees*: they choose
  or gate actions from content data; `Combat` has the dispatcher they go through.
* *Saved fixtures, world clock, order of two autosaves*: `ChunkLifecycle` has one
  save in flight.
* *Snapshot datagrams and prediction*: the next snapshot replaces a lost one.
* *Heartbeat timing* of tiles: eviction is an event of `Handoff` that may happen at
  any time.
* *Physics, hit geometry, animation, noise, day and night, rendering, codecs,
  content loading, generation, spawners, POIs, atlas tools*: numeric or pure, most
  of the lines of the repository, and without protocol state. The AI manager is
  a stateless mock.

## 5. Plan

In this order; each new module brings its type invariant, properties aimed at
the hazards, a run, and, where it says so, proofs.

1. Done: `World`/`AbstractWorld`, `SceneGraph`, `ChunkLifecycle`, `TileSessions`,
   `ItemCommands`/`ItemLedger`, `Handoff`, `ServiceLinks`, `StateStream`, `Combat`
   are modelled and checked, and their safety is proved.
2. Done: abstract specifications of the terrain, of crossing between tiles and of
   the stream (`TerrainLedger`, `PlayerTravels`, `DelayedMirror`), each with its
   refinement checked and proved.
3. `InputMerge`: the ring, the sequence filter, one-shot actions.
4. `JobBoard` (jobs posted between ticks against the tick's claims) and `Account`
   (heritage read, advanced and written back without a transaction).
5. Triggers, cooldowns and item use on top of `Combat`; the topological sort of
   systems as a pure algorithm.
