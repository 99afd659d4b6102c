---------------------------- MODULE TileSessions ----------------------------
(***************************************************************************)
(* The life of a player on one tile server: tile-server/src/server.ts      *)
(* (handleSession, runTick, initiateHandoff, spawnFreshPlayer), with       *)
(* session.ts and systems/death.ts.                                        *)
(*                                                                         *)
(* Each WebTransport connection is served by its own asynchronous handler. *)
(* A handler runs without interruption from one await to the next, so each *)
(* action below is the code between two awaits; ticks, other handlers and  *)
(* handoff continuations interleave between them.  An account service is   *)
(* configured.  Its answers and the destination tile's are environment.    *)
(*                                                                         *)
(* Clients and networks differ, so a behaviour is given, for good, a set   *)
(* of faults that may happen in it:                                        *)
(*   "earlyReconnect"  a client joins while the tile still deals with its  *)
(*                     previous connection or its previous body            *)
(*   "handoff"         players walk into gates                             *)
(*   "streamFault"     a state stream stalls or fails while its connection *)
(*                     is up (send queue over its bound, failed write)     *)
(*   "joinAbort"       a client vanishes before its join completes         *)
(***************************************************************************)
EXTENDS Integers, FiniteSets

CONSTANTS
    Player,         \* player ids, which are also the ids of their entities
    Conn,           \* connections; each is used once
    None,           \* "no connection"
    Environments    \* the sets of faults a behaviour may be given

Fault == {"earlyReconnect", "handoff", "streamFault", "joinAbort"}

ASSUME SessionsAssumption ==
    /\ None \notin Conn
    /\ None \notin Player
    /\ Environments \subseteq SUBSET Fault

VARIABLES
    faults,      \* the faults of this behaviour
    pc,          \* pc[c]: what the handler of c waits for
    player,      \* player[c]: whom c joined as
    sessions,    \* sessions[p]: connection in the session map
    open,        \* open[c]: its ClientSession is not closed
    wants,       \* wants[c]: a Respawn command sits in its command queue
    body,        \* body[p]: the player's entity in the world
    handoff,     \* handoff[p]: stage of initiateHandoff for p
    carrier,     \* carrier[p]: the session a successful handoff will close
    handedOff,   \* the handedOff markers
    slain,       \* players whose last life ended in combat (history)
    unrecorded   \* combat deaths minus recordDeath calls, per player (history)

vars == <<faults, pc, player, sessions, open, wants, body, handoff,
          carrier, handedOff, slain, unrecorded>>

handlerVars == <<pc, player, open, wants>>
handoffVars == <<handoff, carrier, handedOff>>
history == <<slain, unrecorded>>

Waits == {"idle", "validating", "heritage", "fog", "acking", "live",
          "savingFog", "locating", "recording", "done"}

Handler(c) == pc[c] \notin {"idle", "done"}
HandingOff == {p \in Player : handoff[p] # "none"}
IsAlive(p) == body[p] = "alive"

\* No connection of p is being handled.
Quiet(p) == \A c \in Conn : player[c] = p => ~Handler(c)

\* The tile has nothing left of p's previous visit.
Forgotten(p) ==
    /\ Quiet(p)
    /\ sessions[p] = None
    /\ body[p] = "absent"
    /\ p \notin HandingOff

Init ==
    /\ faults \in Environments
    /\ pc = [c \in Conn |-> "idle"]
    /\ player = [c \in Conn |-> None]
    /\ sessions = [p \in Player |-> None]
    /\ open = [c \in Conn |-> FALSE]
    /\ wants = [c \in Conn |-> FALSE]
    /\ body = [p \in Player |-> "absent"]
    /\ handoff = [p \in Player |-> "none"]
    /\ carrier = [p \in Player |-> None]
    /\ handedOff = {}
    /\ slain = {}
    /\ unrecorded = [p \in Player |-> 0]

GoTo(c, wait) == pc' = [pc EXCEPT ![c] = wait]

-----------------------------------------------------------------------------
(* Joining *)

\* Mutant: the handler loses whom it serves.
ConnectAnonymous(c, p) ==
    /\ pc[c] = "idle"
    /\ "earlyReconnect" \in faults \/ Forgotten(p)
    /\ GoTo(c, "validating")
    /\ UNCHANGED <<faults, player, sessions, open, wants, body, handoffVars,
                   history>>

\* A client connects and sends its join; the handler validates the token.
Connect(c, p) ==
    /\ pc[c] = "idle"
    /\ "earlyReconnect" \in faults \/ Forgotten(p)
    /\ GoTo(c, "validating")
    /\ player' = [player EXCEPT ![c] = p]
    /\ UNCHANGED <<faults, sessions, open, wants, body,
                   handoffVars, history>>

RejectJoin(c) ==
    /\ pc[c] = "validating"
    /\ GoTo(c, "done")
    /\ UNCHANGED <<faults, player, sessions, open, wants, body,
                   handoffVars, history>>

\* Token valid: adopt a living body or spawn one.  (The name, hearth and
\* character caches filled here are not modelled.)
AcceptJoin(c) ==
    LET p == player[c] IN
    /\ pc[c] = "validating"
    /\ GoTo(c, IF IsAlive(p) THEN "acking" ELSE "heritage")
    /\ UNCHANGED <<faults, player, sessions, open, wants, body, handoffVars,
                   history>>

\* spawnFreshPlayer after the heritage fetch.  create() of a tombstoned id
\* gives back the doomed entity: it stays tombstoned.
SpawnBody(c) ==
    LET p == player[c] IN
    /\ pc[c] = "heritage"
    /\ body' = [body EXCEPT ![p] = IF @ = "tombstoned" THEN @ ELSE "alive"]
    /\ slain' = slain \ {p}
    /\ GoTo(c, "fog")
    /\ UNCHANGED <<faults, player, sessions, open, wants,
                   handoffVars, unrecorded>>

FogFetched(c) ==
    /\ pc[c] = "fog"
    /\ GoTo(c, "acking")
    /\ UNCHANGED <<faults, player, sessions, open, wants, body,
                   handoffVars, history>>

\* Mutant: the map entry is silently overwritten (before T-253).
EvictedNobody(p) == None

\* The session a new one of p replaces and closes.
Evicted(p) == sessions[p]

\* Ack and content blob written, state stream open: evict the previous
\* session of the player, if any, and register this one (T-253).
Register(c) ==
    LET p == player[c] IN
    /\ pc[c] = "acking"
    /\ open' = [d \in Conn |-> d = c \/ (open[d] /\ d # Evicted(p))]
    /\ sessions' = [sessions EXCEPT ![p] = c]
    /\ GoTo(c, "live")
    /\ UNCHANGED <<faults, player, wants, body, handoffVars,
                   history>>

\* A write of the ack or the blob throws: handleSession rejects, and
\* quic_server.ts only logs it.
AbortJoin(c) ==
    /\ "joinAbort" \in faults
    /\ pc[c] = "acking"
    /\ GoTo(c, "done")
    /\ UNCHANGED <<faults, player, sessions, open, wants, body,
                   handoffVars, history>>

-----------------------------------------------------------------------------
(* While connected *)

\* The dead player presses "respawn".
RequestRespawn(c) ==
    /\ pc[c] = "live"
    /\ open[c]
    /\ ~wants[c]
    /\ ~IsAlive(player[c])
    /\ wants' = [wants EXCEPT ![c] = TRUE]
    /\ UNCHANGED <<faults, pc, player, sessions, open, body,
                   handoffVars, history>>

\* sendStateRaw closes a session whose queue is over its bound, or whose
\* write failed; the connection itself stays up.
StreamFault(c) ==
    /\ "streamFault" \in faults
    /\ pc[c] = "live"
    /\ open[c]
    /\ open' = [open EXCEPT ![c] = FALSE]
    /\ UNCHANGED <<faults, pc, player, sessions, wants, body,
                   handoffVars, history>>

-----------------------------------------------------------------------------
(* Disconnecting *)

\* The session map no longer points at c: a reconnect, the sweep or a handoff
\* has taken over.
Superseded(c) == sessions[player[c]] # c

\* The connection ended: receiveInputs() returned.  A superseded session and
\* one whose player is being handed off leave everything to others.  With a
\* body, and so a FogState, the fog is saved next; without, a player that was
\* not handed off is taken to have died in combat.
EndSession(c) ==
    LET p == player[c] IN
    /\ pc[c] = "live"
    /\ open' = [open EXCEPT ![c] = FALSE]
    /\ IF Superseded(c) \/ p \in HandingOff
       THEN /\ GoTo(c, "done")
            /\ UNCHANGED <<sessions, handedOff>>
       ELSE /\ sessions' = [sessions EXCEPT ![p] = None]
            /\ \/ /\ body[p] # "absent"
                  /\ GoTo(c, "savingFog")
                  /\ UNCHANGED handedOff
               \/ /\ body[p] = "absent"
                  /\ GoTo(c, IF p \in handedOff THEN "done" ELSE "recording")
                  /\ handedOff' = handedOff \ {p}
    /\ UNCHANGED <<faults, player, wants, body, handoff, carrier, history>>

\* Mutant: whether the player died is not looked at again after the fog save.
CleanupAssumesAlive(c) ==
    LET p == player[c] IN
    /\ pc[c] = "savingFog"
    /\ handedOff' = handedOff \ {p}
    /\ GoTo(c, IF p \in handedOff THEN "done" ELSE "locating")
    /\ body' = IF p \notin handedOff /\ IsAlive(p)
               THEN [body EXCEPT ![p] = "tombstoned"] ELSE body
    /\ UNCHANGED <<faults, player, sessions, open, wants, handoff, carrier,
                   history>>

\* Fog saved: a handed-off player needs nothing more, a living one leaves the
\* world, and a missing one is taken to have died in combat.
FinishCleanup(c) ==
    LET p == player[c] IN
    /\ pc[c] = "savingFog"
    /\ handedOff' = handedOff \ {p}
    /\ GoTo(c, IF p \in handedOff THEN "done"
               ELSE IF IsAlive(p) THEN "locating" ELSE "recording")
    /\ body' = IF p \notin handedOff /\ IsAlive(p)
               THEN [body EXCEPT ![p] = "tombstoned"] ELSE body
    /\ UNCHANGED <<faults, player, sessions, open, wants, handoff,
                   carrier, history>>

LocationUpdated(c) ==
    /\ pc[c] = "locating"
    /\ GoTo(c, "done")
    /\ UNCHANGED <<faults, player, sessions, open, wants, body,
                   handoffVars, history>>

RecordDeath(c) ==
    /\ pc[c] = "recording"
    /\ GoTo(c, "done")
    /\ unrecorded' = [unrecorded EXCEPT ![player[c]] = @ - 1]
    /\ UNCHANGED <<faults, player, sessions, open, wants, body,
                   handoffVars, slain>>

-----------------------------------------------------------------------------
(* The tick: drain, systems, changeset, gates, send and sweep, in this     *)
(* order and without interruption.                                         *)

\* (No tick falls between the end of a handoff and its finally: both run in
\* one turn of the event loop.)

\* Respawn commands leave the queue only for players that are alive, for whom
\* respawnPlayer() is a no-op.
Drained == {c \in Conn : \E p \in Player : sessions[p] = c /\ IsAlive(p)}

\* Mutant: the sweep does not spare handoffs in flight (before T-256).
SweptAll(inFlight) == {p \in Player : sessions[p] # None /\ ~open[sessions[p]]}

\* Sessions the sweep removes: closed, and not those of a handoff in flight,
\* whose bodies the handoff owns (T-256).
Swept(inFlight) ==
    {p \in Player : sessions[p] # None /\ ~open[sessions[p]] /\ p \notin inFlight}

\* Mutant: applyChangeset leaves entities that were destroyed between ticks.
KeptInStore(e) == e

\* What applyChangeset leaves of an entity.
Purged(e) == IF e = "tombstoned" THEN "absent" ELSE e

Tick(dying, atGate) ==
    LET alive    == {p \in Player : IsAlive(p)} \ dying
        starting == {p \in atGate : p \in alive /\ sessions[p] # None} \ HandingOff
        swept    == Swept(HandingOff \cup starting)
    IN
    /\ dying \subseteq {p \in Player : IsAlive(p)}
    /\ atGate # {} => "handoff" \in faults
    /\ \A p \in Player : handoff[p] # "settled"
    /\ wants' = [c \in Conn |-> wants[c] /\ c \notin Drained]
    /\ slain' = slain \cup dying
    /\ unrecorded' = [p \in Player |->
                        unrecorded[p] + (IF p \in dying THEN 1 ELSE 0)]
    /\ handoff' = [p \in Player |-> IF p \in starting THEN "fetching" ELSE handoff[p]]
    /\ sessions' = [p \in Player |-> IF p \in swept THEN None ELSE sessions[p]]
    /\ body' = [p \in Player |->
                  IF p \in dying THEN "absent"
                  ELSE IF p \in alive \cap swept THEN "tombstoned"
                  ELSE Purged(body[p])]
    /\ UNCHANGED <<faults, pc, player, open, carrier, handedOff>>

-----------------------------------------------------------------------------
(* initiateHandoff, after its fetch to the gateway *)

HandoffRefused(p) ==
    /\ handoff[p] = "fetching"
    /\ handoff' = [handoff EXCEPT ![p] = "settled"]
    /\ UNCHANGED <<faults, handlerVars, sessions, body, carrier,
                   handedOff, history>>

\* The session found now gets the GateCrossing event; its queue is flushed.
HandoffAccepted(p) ==
    /\ handoff[p] = "fetching"
    /\ sessions[p] # None
    /\ handoff' = [handoff EXCEPT ![p] = "flushing"]
    /\ carrier' = [carrier EXCEPT ![p] = sessions[p]]
    /\ UNCHANGED <<faults, handlerVars, sessions, body, handedOff,
                   history>>

\* Mutant: the session outlives the handoff.
DismissedNobody(p) == None

\* The session closed with the handoff: the one found when it was accepted.
Dismissed(p) == IF handoff[p] = "flushing" THEN carrier[p] ELSE sessions[p]

\* The body has moved: mark, destroy, close and forget the session.  Without
\* a session, or a destination address to send it, there is no flush to wait
\* for.
HandoffDone(p) ==
    /\ handoff[p] \in {"fetching", "flushing"}
    /\ handoff' = [handoff EXCEPT ![p] = "settled"]
    /\ handedOff' = handedOff \cup {p}
    /\ body' = [body EXCEPT ![p] = IF @ = "alive" THEN "tombstoned" ELSE @]
    /\ open' = [c \in Conn |-> open[c] /\ c # Dismissed(p)]
    /\ sessions' = [sessions EXCEPT ![p] = None]
    /\ carrier' = [carrier EXCEPT ![p] = None]
    /\ UNCHANGED <<faults, pc, player, wants, history>>

\* The promise's finally.
HandoffFinally(p) ==
    /\ handoff[p] = "settled"
    /\ handoff' = [handoff EXCEPT ![p] = "none"]
    /\ handedOff' = handedOff \ {p}
    /\ UNCHANGED <<faults, handlerVars, sessions, body, carrier,
                   history>>

-----------------------------------------------------------------------------
SomeTick ==
    \E dying \in SUBSET Player, atGate \in SUBSET Player : Tick(dying, atGate)

\* What a handler does once the call it waits for returns.
Continue(c) ==
    \/ RejectJoin(c)
    \/ AcceptJoin(c)
    \/ SpawnBody(c)
    \/ FogFetched(c)
    \/ Register(c)
    \/ FinishCleanup(c)
    \/ LocationUpdated(c)
    \/ RecordDeath(c)

ContinueHandoff(p) ==
    \/ HandoffRefused(p)
    \/ HandoffAccepted(p)
    \/ HandoffDone(p)
    \/ HandoffFinally(p)

Next ==
    \/ \E c \in Conn : \/ \E p \in Player : Connect(c, p)
                       \/ Continue(c)
                       \/ AbortJoin(c)
                       \/ RequestRespawn(c)
                       \/ StreamFault(c)
                       \/ EndSession(c)
    \/ \E p \in Player : ContinueHandoff(p)
    \/ SomeTick

\* The tick timer keeps firing and every awaited call settles.  Nothing makes
\* a client connect, disconnect or press a key, a player fall or walk into a
\* gate, nor the destination accept a handoff.
Fairness ==
    /\ WF_vars(SomeTick)
    /\ \A c \in Conn : WF_vars(Continue(c))
    /\ \A p \in Player : WF_vars(ContinueHandoff(p))

Spec == Init /\ [][Next]_vars /\ Fairness

-----------------------------------------------------------------------------
(* Properties.  Each is stated for the faults the code copes with; the     *)
(* README says what each of the other faults does to it.                   *)

Without(F) == faults \cap F = {}

Served(c) == pc[c] = "live" /\ open[c]

\* Every variable has its type.
TypeOK ==
    /\ faults \in Environments
    /\ pc \in [Conn -> Waits]
    /\ player \in [Conn -> Player \cup {None}]
    /\ \A c \in Conn : pc[c] # "idle" => player[c] \in Player
    /\ sessions \in [Player -> Conn \cup {None}]
    /\ open \in [Conn -> BOOLEAN]
    /\ wants \in [Conn -> BOOLEAN]
    /\ body \in [Player -> {"absent", "alive", "tombstoned"}]
    /\ handoff \in [Player -> {"none", "fetching", "flushing", "settled"}]
    /\ carrier \in [Player -> Conn \cup {None}]
    /\ handedOff \in SUBSET Player
    /\ slain \in SUBSET Player
    /\ unrecorded \in [Player -> Int]

\* A connection whose session is open is the one in the session map: ticks
\* reach it, its input is drained, the sweep can find it.  Reconnects evict
\* and replace (T-253).  Only a reconnect during the flush of a successful
\* handoff escapes: the handoff then deletes the new session's entry.
OpenIsRegistered ==
    Without({"earlyReconnect"}) \/ Without({"handoff"}) =>
        \A c \in Conn : Served(c) => sessions[player[c]] = c

\* A handedOff marker never outlives its handoff (T-256): a leaked one would
\* swallow the record of a later, real death.
MarkerScoped == handedOff \subseteq HandingOff

\* The session map and the marker set are exact together: whoever is served is
\* in the map, whoever is marked is being handed off.
RegistryExact == OpenIsRegistered /\ MarkerScoped

\* The session served to a client has a body behind it, unless the player
\* fell in combat ("this (old) session's cleanup must not delete it or destroy
\* the player the new session is serving").
ServedHasBody ==
    \A c \in Conn : Served(c) => IsAlive(player[c]) \/ player[c] \in slain

\* It holds for clients that wait until the tile has forgotten them.
PatientServedHasBody == Without({"earlyReconnect"}) => ServedHasBody

\* recordDeath is never called for a player who did not fall in combat: it
\* would advance the dynasty by a generation.
NoPhantomDeath ==
    Without({"earlyReconnect"}) => \A p \in Player : unrecorded[p] >= 0

\* Once the tile is done with a player's connections, every combat death has
\* been recorded, once ("a tile server that silently loses death events is
\* worse than one that tells the operator something is wrong"): the record is
\* what advances the dynasty by a generation.
DeathsRecorded == \A p \in Player : Quiet(p) => unrecorded[p] = 0

\* It holds when every session ends by its connection ending.
PlainDeathsRecorded == faults = {} => DeathsRecorded

\* Deaths are recorded once per fall: never without one, never lost.
DeathsExact == NoPhantomDeath /\ PlainDeathsRecorded

\* Every living body is somebody's: a handler, a registered session or a
\* handoff will take it out of the world.
NoOrphanBody ==
    Without({"joinAbort"}) =>
        \A p \in Player :
            IsAlive(p) => ~Quiet(p) \/ sessions[p] # None \/ p \in HandingOff

\* Bodies and sessions answer for each other: no session is served without a
\* body, no body stays without a session, a handler or a handoff.
BodiesAnswered == PatientServedHasBody /\ NoOrphanBody

\* While a handoff is in flight it owns the body (T-256): no cleanup and no
\* sweep destroys it.
HandoffOwnsBody ==
    [][Without({"earlyReconnect"}) =>
          \A p \in Player :
             p \in HandingOff /\ IsAlive(p) /\ body'[p] = "tombstoned"
                => handoff'[p] = "settled"]_vars

\* A player whose connections have ended leaves the world: "the handoff's
\* success path (destroy + delete) or the tile-sweep (on failure) cleans up
\* once handingOff clears".
DepartedLeaves ==
    \A p \in Player : Quiet(p) ~> body[p] = "absent" \/ ~Quiet(p)

\* It holds however reconnects and stream faults interleave, as long as no
\* join is aborted and nobody stands in a gate.
PlainDepartedLeaves == Without({"handoff", "joinAbort"}) => DepartedLeaves

\* "Respawn a dead player into their still-open session (T-270)": a respawn
\* that is asked for happens, unless the session closes first.
RespawnServed ==
    \A c \in Conn :
        Served(c) /\ wants[c] ~> ~Served(c) \/ IsAlive(player[c])
=============================================================================
