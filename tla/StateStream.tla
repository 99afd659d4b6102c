---------------------------- MODULE StateStream ----------------------------
(***************************************************************************)
(* What one player sees: the state messages a tile computes for a session  *)
(* (tile-server/src/aoi.ts computeSessionUpdate, server.ts runTick), the   *)
(* session's ordered write queue (session.ts sendStateRaw), and the world  *)
(* the client rebuilds from them (client/src/game.ts onStateMessage,       *)
(* client/src/state/client_world.ts, fog_of_war.ts).                       *)
(*                                                                         *)
(* An entity has one networked component, whose value is told by its       *)
(* version: every write writes another value.  A tick changes one entity's *)
(* component, creates or destroys one entity.  Ids of chunks and other     *)
(* entities are used once; a player's body has the player's id each time.  *)
(* Distance is not modelled: a tick's near entities are any set of the     *)
(* others, and of the pending chunks any ChunkCap go first.  The server's  *)
(* Respawn path is left out: no tick reaches it (TileSessions,             *)
(* RespawnServed).                                                         *)
(***************************************************************************)
EXTENDS Integers, Sequences, FiniteSets, FiniteSetsExt

CONSTANTS
    Player,
    Chunk,       \* terrain chunks, always in the area of interest
    Other,       \* items, NPCs, buildings
    Cell,        \* fog cells
    None,
    ChunkCap,    \* MAX_CHUNK_SPAWNS_PER_TICK
    MaxQueue,    \* messages MAX_QUEUED_BYTES has room for
    MaxVersion,  \* bound: writes to one component while it stays
    MaxEvents    \* bound: connections and unsent ticks

ASSUME StreamAssumption ==
    /\ Player \notin Chunk \cup Other
    /\ Chunk \cap Other = {}
    /\ None \notin [version : Int, value : Int]
    /\ \A cells \in SUBSET Cell : None # cells
    /\ {ChunkCap, MaxQueue, MaxVersion} \subseteq Nat \ {0}
    /\ MaxEvents \in Nat

VARIABLES
    component, \* component[e]: the version of e's component, or Absent
    store,     \* entities in the world's store
    doomed,    \* entities tombstoned between two ticks
    unborn,    \* entities not created yet
    session,   \* the registered session: "none", "open", "closed"
    known,     \* its knownEntities
    missed,    \* those it has not been told a change of (history)
    queue,     \* its messages not yet applied by the client
    join,      \* a join in progress: "none", "fetching", "ready"
    events,    \* connections and unsent ticks so far
    seen,      \* FogState.seenEver
    revealed,  \* FogState.revealedThisTick
    pending,   \* FogState.pendingSnapshot
    saved,     \* the account's copy of the fog
    view,      \* view[e]: the client's entity e, or NotShown
    mapped,    \* the client's seenEver
    shipped    \* the session has had this fog's bitmap (history)

server == <<component, store, doomed, unborn>>
fog == <<seen, revealed, pending, shipped>>
vars == <<server, session, known, missed, queue, join, events, fog, saved, view, mapped>>

Entity == {Player} \cup Chunk \cup Other
Absent == 0

---------------------------------------------------------------------------
(* The client.  An entity it shows has a value, and the version the next   *)
(* delta must pass: 0 after a spawn, none when there is no component.      *)

NotShown == None
Bare == [version |-> -1, value |-> Absent]

\* applySpawn: full state, whatever was there
Spawned(e, shown, m) ==
    IF e \in DOMAIN m.spawns THEN [version |-> 0, value |-> m.spawns[e]] ELSE shown

\* applyDelta: an unknown entity is made; a stale version is dropped
Changed(e, shown, m) ==
    LET last == IF shown = NotShown THEN Bare ELSE shown
    IN IF e \notin DOMAIN m.deltas THEN shown
       ELSE IF m.deltas[e] > last.version
            THEN [version |-> m.deltas[e], value |-> m.deltas[e]] ELSE last

\* Mutant: the version survives the removal
RemovedKeepsVersion(e, shown, m) ==
    IF e \in m.removals /\ shown # NotShown THEN [shown EXCEPT !.value = Absent] ELSE shown

\* applyRemoval: the value and its version are forgotten
Removed(e, shown, m) ==
    IF e \in m.removals /\ shown # NotShown THEN Bare ELSE shown

\* applyDestroy
Destroyed(e, shown, m) == IF e \in m.destroys THEN NotShown ELSE shown

\* onStateMessage
Applied(w, m) ==
    [e \in Entity |-> Destroyed(e, Removed(e, Changed(e, Spawned(e, w[e], m), m), m), m)]

\* Mutant: reveals replace what was known
FogAppliedAnew(f, m) == IF m.bitmap = None THEN m.reveals ELSE m.bitmap

FogApplied(f, m) == (IF m.bitmap = None THEN f ELSE m.bitmap) \cup m.reveals

Page == [view |-> view, mapped |-> mapped]
Updated(c, m) == [view |-> Applied(c.view, m), mapped |-> FogApplied(c.mapped, m)]

\* page c once it has read the first messages of q, and all of them
Reading(c, q) ==
    LET after[n \in 0 .. Len(q)] == IF n = 0 THEN c ELSE Updated(after[n - 1], q[n])
    IN  after
AfterReading(c, q) == Reading(c, q)[Len(q)]

\* the client once it has read all that was sent
CaughtUp == AfterReading(Page, queue)

---------------------------------------------------------------------------
(* computeSessionUpdate, for components s and a session that knows k.      *)
(* near stands for the spatial query, gates, carried and banked items.     *)

Standing(s) == {c \in Chunk : s[c] # Absent}
InAoI(s, near) == Standing(s) \cup {Player} \cup near

\* Mutant: chunks already sent compete again
ChunkBatchesAgain(s, k) == kSubset(Min({Cardinality(Standing(s)), ChunkCap}), Standing(s))

\* the chunks that may go out this time, nearest first up to the cap
ChunkBatches(s, k) ==
    LET waiting == Standing(s) \ k
    IN kSubset(Min({Cardinality(waiting), ChunkCap}), waiting)

Newcomers(s, k, near, batch) ==
    batch \cup {e \in ({Player} \cup near) \ k : s[e] # Absent}

\* what the session knows afterwards
Kept(s, k, near, batch, destroyed) ==
    ((k \cup Newcomers(s, k, near, batch)) \cap InAoI(s, near)) \ destroyed

\* step 6: the whole bitmap when it is due, else what the tick uncovered
FogPart(bodied, bitmap, cells) ==
    [bitmap  |-> IF bodied /\ pending THEN bitmap ELSE None,
     reveals |-> IF bodied /\ ~pending THEN cells ELSE {}]

\* o: what the changeset says
Update(o, k, near, batch, fogged) ==
    LET new  == Newcomers(o.now, k, near, batch)
        kept == Kept(o.now, k, near, batch, o.destroyed)
    IN [spawns   |-> [e \in new |-> o.now[e]],
        deltas   |-> [e \in (o.changed \cap kept) \ new |-> o.now[e]],
        removals |-> (o.removed \cap kept) \ new,
        destroys |-> (k \cup new) \ kept,
        bitmap   |-> fogged.bitmap,
        reveals  |-> fogged.reveals]

---------------------------------------------------------------------------
(* The world between two messages: what a tick's changeset commits.        *)

Purged == [e \in Entity |-> IF e \in doomed THEN Absent ELSE component[e]]

Outcome(now, made, changed, removed, destroyed) ==
    [now |-> now, made |-> made, changed |-> changed, removed |-> removed,
     destroyed |-> destroyed]

\* the doomed of earlier handlers go, nothing else happens
Quiet == Outcome(Purged, {}, {}, {}, doomed)

Standers == store \ doomed

Sets ==
    {Outcome([Purged EXCEPT ![e] = @ + 1], {}, {e}, {}, doomed) :
        e \in {x \in Standers : component[x] < MaxVersion}}

Removals ==
    {Outcome([Purged EXCEPT ![e] = Absent], {}, {}, {e}, doomed) :
        e \in {x \in Standers \cap Other : component[x] # Absent}}

\* create and write act at once: no changeset names them
Creations ==
    {Outcome([Purged EXCEPT ![e] = 1], {e}, {}, {}, doomed) : e \in unborn}

Destructions ==
    {Outcome([Purged EXCEPT ![e] = Absent], {}, {}, {}, doomed \cup {e}) : e \in Standers}

Outcomes == {Quiet} \cup Sets \cup Removals \cup Creations \cup Destructions

Commit(o) ==
    /\ component' = o.now
    /\ store' = (store \cup o.made) \ o.destroyed
    /\ unborn' = unborn \ o.made

---------------------------------------------------------------------------
(* The tile's ticks. *)

\* FogOfWarSystem, before the changeset: a body uncovers cells
Lit(cells) == IF Player \in Standers THEN cells \ seen ELSE {}

\* Mutant: what was revealed outlives the body
FoglessKeepsReveals == seen' = {} /\ pending' = FALSE /\ shipped' = FALSE /\ UNCHANGED revealed

\* FogState is a component of the body
Fogless == seen' = {} /\ revealed' = {} /\ pending' = FALSE /\ shipped' = FALSE

\* the session is over: its client stops
ClientStops ==
    /\ known' = {} /\ missed' = {} /\ queue' = <<>>
    /\ view' = [e \in Entity |-> NotShown] /\ mapped' = {}

\* sendStateRaw: a reader too far behind is disconnected
Stalled == Len(queue) >= MaxQueue

\* Mutant: what is destroyed follows in a message of its own
SentInParts(m) ==
    LET rest == [m EXCEPT !.spawns = <<>>, !.deltas = <<>>, !.removals = {},
                          !.bitmap = None, !.reveals = {}]
    IN  queue \o <<[m EXCEPT !.destroys = {}], rest>>

\* one message, its bytes behind those of the others
Sent(m) == Append(queue, m)

\* the end of a tick sweeps a closed session: the body and what it carries
\* are tombstoned
Swept(closed) ==
    IF closed THEN \E carried \in SUBSET Other : doomed' = ({Player} \cup carried) \cap store'
    ELSE doomed' = {}

Sight == {{}} \cup {{f} : f \in Cell}

\* the body's fog when a message takes from it
FogDrained(cells) ==
    IF Player \in store'
    THEN /\ seen' = seen \cup Lit(cells)
         /\ revealed' = {} /\ pending' = FALSE
         /\ shipped' = (shipped \/ pending)
    ELSE Fogless

\* the message goes out
Tell(o, near, batch, cells) ==
    LET fogged == FogPart(Player \in store', seen \cup Lit(cells), revealed \cup Lit(cells))
    IN  /\ known' = Kept(o.now, known, near, batch, o.destroyed)
        /\ missed' = missed \cap known'
        /\ queue' = Sent(Update(o, known, near, batch, fogged))
        /\ UNCHANGED <<session, view, mapped>>

\* runTick with an open session: systems, changeset, message
TickServing ==
    /\ session = "open"
    /\ UNCHANGED <<join, events, saved>>
    /\ \E o \in Outcomes, cells \in Sight :
          /\ Commit(o)
          /\ FogDrained(cells)
          /\ IF Stalled THEN session' = "none" /\ ClientStops
             ELSE \E near \in SUBSET Other, batch \in ChunkBatches(o.now, known) :
                     Tell(o, near, batch, cells)
    /\ Swept(Stalled)

\* the body's fog when no message takes from it
FogGrows(cells) ==
    IF Player \in store'
    THEN /\ seen' = seen \cup Lit(cells)
         /\ revealed' = revealed \cup Lit(cells)
         /\ UNCHANGED <<pending, shipped>>
    ELSE Fogless

TickUnserved ==
    /\ session # "open"
    /\ \E o \in Outcomes, cells \in Sight : Commit(o) /\ FogGrows(cells)
    /\ session' = "none"
    /\ Swept(session = "closed")
    /\ UNCHANGED <<known, missed, queue, join, events, saved, view, mapped>>

Tick == TickServing \/ TickUnserved

\* A tick that throws after its changeset, in an event handler or a gate or zone
\* check: no message and no sweep.  The next changeset does not name what this
\* one did.  (Without a session it is like any other tick.)
UnsentTick ==
    /\ session # "none" /\ events < MaxEvents
    /\ events' = events + 1
    /\ \E o \in Outcomes, cells \in Sight :
          /\ Commit(o)
          /\ FogGrows(cells)
          /\ missed' = missed \cup (known \cap (o.changed \cup o.removed \cup o.destroyed))
    /\ doomed' = {}
    /\ UNCHANGED <<session, known, queue, join, saved, view, mapped>>

---------------------------------------------------------------------------
(* Sessions between ticks; how they interleave with one another, with      *)
(* deaths and with handoffs is the subject of TileSessions.                *)

\* handleSession: a body that is there is kept, else a fresh one is spawned
\* (on top of one still tombstoned: create() finds it in the store)
Adopt ==
    /\ Player \in Standers
    /\ join' = "ready"
    /\ UNCHANGED <<server, fog>>

SpawnFresh ==
    /\ Player \notin Standers
    /\ component[Player] < MaxVersion
    /\ component' = [component EXCEPT ![Player] = @ + 1]
    /\ store' = store \cup {Player}
    /\ seen' = {} /\ revealed' = {} /\ pending' = TRUE /\ shipped' = FALSE
    /\ join' = "fetching"
    /\ UNCHANGED <<doomed, unborn>>

Connect ==
    /\ join = "none" /\ events < MaxEvents
    /\ events' = events + 1
    /\ Adopt \/ SpawnFresh
    /\ UNCHANGED <<session, known, missed, queue, saved, view, mapped>>

\* the account's bitmap arrives; or it has none, or the fetch fails
Hydrate ==
    /\ join = "fetching"
    /\ join' = "ready"
    /\ \/ /\ saved # {} /\ Player \in store
          /\ seen' = saved
          /\ shipped' = FALSE
       \/ UNCHANGED <<seen, shipped>>
    /\ UNCHANGED <<server, session, known, missed, queue, events, revealed, pending, saved,
                   view, mapped>>

\* the session is registered over any earlier one and sent its first message;
\* the client is a page that has just been loaded
Register ==
    /\ join = "ready"
    /\ join' = "none"
    /\ session' = "open"
    /\ \E near \in SUBSET Other, batch \in ChunkBatches(component, {}) :
          LET unchanged == Outcome(component, {}, {}, {}, {})
              fogged    == FogPart(Player \in store, seen, revealed)
          IN /\ known' = Kept(component, {}, near, batch, {}) /\ missed' = {}
             /\ queue' = <<Update(unchanged, {}, near, batch, fogged)>>
    /\ pending' = (pending /\ Player \notin store)
    /\ revealed' = IF Player \in store THEN {} ELSE revealed
    /\ shipped' = (Player \in store /\ pending)
    /\ view' = [e \in Entity |-> NotShown]
    /\ mapped' = {}
    /\ UNCHANGED <<server, events, seen, saved>>

\* a write to the state stream fails
WriteFails ==
    /\ session = "open"
    /\ session' = "closed"
    /\ ClientStops
    /\ UNCHANGED <<server, join, events, fog, saved>>

\* the connection ends: handleSession saves the fog and removes the body
Leave ==
    /\ session # "none"
    /\ session' = "none"
    /\ ClientStops
    /\ saved' = IF Player \in store THEN seen ELSE saved
    /\ IF Player \in Standers
       THEN \E carried \in SUBSET Other :
               doomed' = doomed \cup {Player} \cup (carried \cap store)
       ELSE UNCHANGED doomed
    /\ UNCHANGED <<component, store, unborn, join, events, fog>>

Receive ==
    /\ session = "open" /\ queue # <<>>
    /\ view' = Applied(view, Head(queue))
    /\ mapped' = FogApplied(mapped, Head(queue))
    /\ queue' = Tail(queue)
    /\ UNCHANGED <<server, session, known, missed, join, events, fog, saved>>

---------------------------------------------------------------------------
\* a tile that has booted with some of its chunks and entities
Init ==
    /\ unborn \in SUBSET (Chunk \cup Other)
    /\ store = (Chunk \cup Other) \ unborn
    /\ component = [e \in Entity |-> IF e \in store THEN 1 ELSE Absent]
    /\ doomed = {}
    /\ session = "none" /\ known = {} /\ missed = {} /\ queue = <<>>
    /\ join = "none" /\ events = 0
    /\ seen = {} /\ revealed = {} /\ pending = FALSE /\ shipped = FALSE /\ saved = {}
    /\ view = [e \in Entity |-> NotShown] /\ mapped = {}

Next == Tick \/ UnsentTick \/ Connect \/ Hydrate \/ Register \/ WriteFails \/ Leave \/ Receive

\* the tick loop runs and not every tick throws; the client reads what it is sent
Fairness == WF_vars(Tick) /\ WF_vars(Receive)

Spec == Init /\ [][Next]_vars /\ Fairness

---------------------------------------------------------------------------
(* Properties *)

\* what one message tells of some entities' components
Told == UNION {[S -> 1 .. MaxVersion] : S \in SUBSET Entity}
Message == [spawns : Told, deltas : Told, removals : SUBSET Entity, destroys : SUBSET Entity,
            bitmap : {None} \cup SUBSET Cell, reveals : SUBSET Cell]

(* Every variable keeps its type; only what the store holds has a          *)
(* component, and a player without a body has no fog, not even an old      *)
(* list of reveals (fog_state.ts: the fog is a component of the body).     *)
TypeOK ==
    /\ component \in [Entity -> 0 .. MaxVersion]
    /\ store \subseteq Entity /\ doomed \subseteq store \ Chunk
    /\ \A e \in Entity \ store : component[e] = Absent
    /\ unborn \subseteq Entity \ (store \cup {Player})
    /\ session \in {"none", "open", "closed"} /\ known \subseteq Entity
    /\ missed \subseteq known
    /\ queue \in Seq(Message) /\ Len(queue) <= MaxQueue
    /\ join \in {"none", "fetching", "ready"} /\ events \in 0 .. MaxEvents
    /\ {seen, revealed, saved, mapped} \subseteq SUBSET Cell
    /\ {pending, shipped} \subseteq BOOLEAN
    /\ Player \notin store => seen = {} /\ revealed = {} /\ ~pending
    /\ view \in [Entity ->
          {NotShown, Bare} \cup [version : 0 .. MaxVersion, value : 1 .. MaxVersion]]

(* A client that has read all it was sent shows exactly the entities its   *)
(* session knows, each with the component the server holds: no removed     *)
(* component latches, no re-added one is taken for stale, no change falls  *)
(* between a spawn and its deltas, nothing that left stays.  (aoi.ts steps *)
(* 2-4b; client_world.ts version guard.)  What a tick that threw did to an *)
(* entity is missed until the session forgets the entity: even a later     *)
(* delta may be dropped as stale, if the removal before it was missed.     *)
Mirror ==
    session = "open" =>
        \A e \in Entity \ doomed :
            IF e \in known
            THEN /\ CaughtUp.view[e] # NotShown
                 /\ e \in missed \/ CaughtUp.view[e].value = component[e]
            ELSE CaughtUp.view[e] = NotShown

(* Once a session has had the fog's bitmap, the reveal lists complete it:  *)
(* no tick's reveals are cleared without having been sent.  (aoi.ts 6.)    *)
FogMirrors ==
    session = "open" /\ shipped /\ Player \in store => CaughtUp.mapped \cup revealed = seen

(* A client that has read all it was sent has the entities and the fog.    *)
CaughtUpMirrors == Mirror /\ FogMirrors

(* game.ts says of the fog: "Snapshots arrive on the first state message   *)
(* after join": a served client lacks nothing its body has seen, unless    *)
(* the bitmap is still to come.                                            *)
FogAfterJoin ==
    session = "open" /\ Player \in store =>
        pending \/ seen \subseteq CaughtUp.mapped \cup revealed

(* What a page shows, whatever the versions, and what its queue makes of it *)
Picture(c) ==
    [e \in Entity |-> IF c.view[e] = NotShown THEN NotShown ELSE c.view[e].value]
Coming == [n \in 1 .. Len(queue) |-> Picture(Reading(Page, queue)[n])]

Pages == INSTANCE DelayedMirror
         WITH Hidden <- NotShown, Body <- Player, on <- session = "open",
              world <- component, subject <- known, shown <- Picture(Page), coming <- Coming,
              blurred <- missed

(* A client shows nothing but past moments of the world, each exact in all *)
(* that its session knew then and had missed no change of, in their order: *)
(* no message leaves it with a mixture of two.                             *)
ShowsMoments == Pages!Spec

(* All the standing terrain reaches a client that stays, though only       *)
(* ChunkCap chunks go out per message and the world keeps changing.        *)
TerrainArrives ==
    session = "open"
        ~> (session # "open" \/ \A c \in Standing(component) : view[c] # NotShown)
=============================================================================
