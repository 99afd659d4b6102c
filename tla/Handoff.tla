------------------------------ MODULE Handoff ------------------------------
(***************************************************************************)
(* A player crosses from one tile to another: the source tile serializes   *)
(* the body and posts it to the gateway (tile-server/src/server.ts         *)
(* initiateHandoff, handoff.ts), the gateway forwards it to the            *)
(* destination's admin endpoint (gateway/src/server.ts handleHandoff,      *)
(* tile-server/src/admin_server.ts), the destination re-creates the body,  *)
(* the answer travels back, and the source redirects the client and        *)
(* destroys its own copy.  What one tile does with the connections of a    *)
(* player is module TileSessions; here a tile has at most one session of a *)
(* player and the steps are those of the round trip.                       *)
(*                                                                         *)
(* A body is the number of changes made to it so far: what an old payload  *)
(* misses.  Each handoff is an HTTP request that is answered or fails; the *)
(* code sets no timeout, so that it is answered at all is assumed.         *)
(*                                                                         *)
(* A behaviour is given, for good, a set of events that may happen in it:  *)
(*   "actsInFlight"   the player goes on playing while its handoff is on   *)
(*   "lostAnswer"     an answer is lost after the destination restored     *)
(*   "unreachable"    the gateway's request does not reach the destination *)
(*   "updateFails"    the gateway cannot write last_tile_id                *)
(*   "earlyReconnect" a client logs in while a tile still has its session  *)
(*                    or a handoff is on                                   *)
(*   "bounce"         the player reaches a gate of the destination while   *)
(*                    the source still flushes                             *)
(*   "duplicate"      the destination receives a request a second time     *)
(*   "eviction"       the gateway evicts a live tile (late heartbeats)     *)
(*   "crash"          tiles restart and lose their memory                  *)
(***************************************************************************)
EXTENDS Naturals, Sequences, FiniteSets

CONSTANTS
    Player,
    Tile,
    None,
    Demands,       \* the fields the endpoint may demand, one per behaviour
    Environments,  \* the sets of events a behaviour may be given
    CacheMax,      \* handoffCacheMax: ids the endpoint remembers
    MaxChange,     \* bound: changes made to a body
    MaxHandoff     \* bound: handoffs started

\* The fields of a HandoffPayload that the endpoint may look for.
PayloadFields == {"playerId", "handoffId", "player", "items"}

Event == {"actsInFlight", "lostAnswer", "unreachable", "updateFails", "earlyReconnect",
          "bounce", "duplicate", "eviction", "crash"}

ASSUME HandoffAssumption ==
    /\ None \notin Tile \cup Nat
    /\ Environments \subseteq SUBSET Event
    /\ CacheMax \in Nat \ {0} /\ MaxChange \in Nat /\ MaxHandoff \in Nat

VARIABLES
    events,     \* the events of this behaviour
    demanded,   \* the field POST /handoff demands besides the ids
    body,       \* body[t][p]: the body of p in tile t's world, or None
    session,    \* session[t]: players in t's session map
    handingOff, \* handingOff[t]: players whose handoff t has started
    seen,       \* seen[t]: ids the endpoint remembers, oldest first
    flight,     \* flight[i]: the handoff with id i
    registered, \* tiles in the gateway's registry
    lastTile,   \* lastTile[p]: users.last_tile_id
    client,     \* client[p]: the tile that serves p's client, or None
    crossing,   \* crossing[p]: the tile p's client was redirected to, or None
    change      \* change[p]: changes made in p's present life (history)

vars == <<events, demanded, body, session, handingOff, seen, flight, registered,
          lastTile, client, crossing, change>>

Body == (0 .. MaxChange) \cup {None}
Id == 1 .. MaxHandoff
Stage == {"unused", "requested", "forwarded", "restored", "located", "failed",
          "flushing", "done"}

Unused == [stage |-> "unused", player |-> None, from |-> None, to |-> None,
           carried |-> None, received |-> FALSE]
InProgress(i) == flight[i].stage \notin {"unused", "done"}
OfPlayer(p) == {i \in Id : InProgress(i) /\ flight[i].player = p}
FreshId == CHOOSE i \in Id : flight[i].stage = "unused"

Init ==
    /\ events \in Environments
    /\ demanded \in Demands
    /\ body = [t \in Tile |-> [p \in Player |-> None]]
    /\ session = [t \in Tile |-> {}]
    /\ handingOff = [t \in Tile |-> {}]
    /\ seen = [t \in Tile |-> <<>>]
    /\ flight = [i \in Id |-> Unused]
    /\ registered = Tile
    /\ lastTile = [p \in Player |-> None]
    /\ client = [p \in Player |-> None]
    /\ crossing = [p \in Player |-> None]
    /\ change = [p \in Player |-> 0]

env == <<events, demanded>>
clients == <<client, crossing>>
gateway == <<registered, lastTile>>

-----------------------------------------------------------------------------
(* The source tile *)

\* The player does something that changes its body.
Play(t, p) ==
    /\ client[p] = t
    /\ body[t][p] # None
    /\ body[t][p] < MaxChange
    /\ p \in handingOff[t] => "actsInFlight" \in events
    /\ body' = [body EXCEPT ![t][p] = @ + 1]
    /\ change' = [change EXCEPT ![p] = body[t][p] + 1]
    /\ UNCHANGED <<env, session, handingOff, seen, flight, gateway, clients>>

\* POST /handoff to the gateway, under an id of its own.
Post(t, p, to) ==
    flight' = [flight EXCEPT ![FreshId] =
                 [stage |-> "requested", player |-> p, from |-> t, to |-> to,
                  carried |-> body[t][p], received |-> FALSE]]

\* The player walks into a gate to `to`: its body is serialized and posted.
InitiateHandoff(t, p, to) ==
    /\ p \in session[t]
    /\ body[t][p] # None
    /\ to # t
    /\ p \notin handingOff[t]
    /\ OfPlayer(p) # {} => "bounce" \in events
    /\ \E i \in Id : flight[i].stage = "unused"
    /\ handingOff' = [handingOff EXCEPT ![t] = @ \cup {p}]
    /\ Post(t, p, to)
    /\ UNCHANGED <<env, body, session, seen, gateway, clients, change>>

Advance(i, stage) == flight' = [flight EXCEPT ![i].stage = stage]

\* The answer is ok and the client still there: GateCrossing is queued.
Redirect(i) ==
    LET t == flight[i].from  p == flight[i].player
    IN  /\ flight[i].stage = "located"
        /\ t # None
        /\ p \in session[t]
        /\ Advance(i, "flushing")
        /\ crossing' = [crossing EXCEPT ![p] = IF client[p] = t THEN flight[i].to ELSE @]
        /\ client' = [client EXCEPT ![p] = IF @ = t THEN None ELSE @]
        /\ UNCHANGED <<env, body, session, handingOff, seen, gateway, change>>

\* The finally clause: t forgets the handoff.
Settle(i) ==
    /\ Advance(i, "done")
    /\ handingOff' = [handingOff EXCEPT ![flight[i].from] = @ \ {flight[i].player}]

\* The flush has ended: the body is destroyed and the session closed.
Complete(i) ==
    LET t == flight[i].from  p == flight[i].player
    IN  /\ flight[i].stage = "flushing"
        /\ t # None
        /\ body' = [body EXCEPT ![t][p] = None]
        /\ session' = [session EXCEPT ![t] = @ \ {p}]
        /\ client' = [client EXCEPT ![p] = IF @ = t THEN None ELSE @]
        /\ Settle(i)
        /\ UNCHANGED <<env, seen, gateway, crossing, change>>

\* Mutant: a failed handoff is posted again until it succeeds.
RetryForever(i) ==
    /\ flight[i].stage = "failed"
    /\ flight[i].from # None
    /\ Advance(i, "requested")
    /\ UNCHANGED <<env, body, session, handingOff, seen, gateway, clients, change>>

\* The answer is an error: the player stays.
GiveUp(i) ==
    /\ flight[i].stage = "failed"
    /\ flight[i].from # None
    /\ Settle(i)
    /\ UNCHANGED <<env, body, session, seen, gateway, clients, change>>

\* The source has restarted since: the answer concerns nobody.
Unclaimed(i) ==
    /\ flight[i].stage \in {"located", "flushing", "failed"}
    /\ flight[i].from = None
    /\ Advance(i, "done")
    /\ UNCHANGED <<env, body, session, handingOff, seen, gateway, clients, change>>

\* Mutant: the sweep ignores handingOff.
SweepAll(t, p) ==
    /\ p \in session[t]
    /\ client[p] # t
    /\ session' = [session EXCEPT ![t] = @ \ {p}]
    /\ body' = [body EXCEPT ![t][p] = None]
    /\ lastTile' \in {lastTile, [lastTile EXCEPT ![p] = t]}
    /\ UNCHANGED <<env, handingOff, seen, flight, registered, clients, change>>

\* A tick or the handler's cleanup removes a session that is not open, unless
\* a handoff owns the body; only the cleanup writes last_tile_id.
Sweep(t, p) ==
    /\ p \in session[t]
    /\ client[p] # t
    /\ p \notin handingOff[t]
    /\ session' = [session EXCEPT ![t] = @ \ {p}]
    /\ body' = [body EXCEPT ![t][p] = None]
    /\ lastTile' \in {lastTile, [lastTile EXCEPT ![p] = t]}
    /\ UNCHANGED <<env, handingOff, seen, flight, registered, clients, change>>

-----------------------------------------------------------------------------
(* The gateway *)

\* handleHandoff looks the destination up and forwards the request.
Forward(i) ==
    /\ flight[i].stage = "requested"
    /\ Advance(i, IF flight[i].to \in registered THEN "forwarded" ELSE "failed")
    /\ UNCHANGED <<env, body, session, handingOff, seen, gateway, clients, change>>

\* The fetch to the destination fails before it is received.
Unreachable(i) ==
    /\ "unreachable" \in events
    /\ flight[i].stage = "forwarded"
    /\ Advance(i, "failed")
    /\ UNCHANGED <<env, body, session, handingOff, seen, gateway, clients, change>>

\* Mutant: the location is left to the next disconnect.
LocateNowhere(i) ==
    /\ flight[i].stage = "restored"
    /\ Advance(i, "located")
    /\ UNCHANGED <<env, body, session, handingOff, seen, gateway, clients, change>>

\* The destination's ack is back: last_tile_id is written, best-effort.
Locate(i) ==
    /\ flight[i].stage = "restored"
    /\ Advance(i, "located")
    /\ \/ lastTile' = [lastTile EXCEPT ![flight[i].player] = flight[i].to]
       \/ "updateFails" \in events /\ UNCHANGED lastTile
    /\ UNCHANGED <<env, body, session, handingOff, seen, registered, clients, change>>

\* The ack is lost between the destination and the gateway, or the answer
\* between the gateway and the source.
LoseAnswer(i) ==
    /\ "lostAnswer" \in events
    /\ flight[i].stage \in {"restored", "located"}
    /\ Advance(i, "failed")
    /\ UNCHANGED <<env, body, session, handingOff, seen, gateway, clients, change>>

Evict(t) ==
    /\ "eviction" \in events
    /\ registered' = registered \ {t}
    /\ t \in registered
    /\ UNCHANGED <<env, body, session, handingOff, seen, flight, lastTile, clients, change>>

Register(t) ==
    /\ t \notin registered
    /\ registered' = registered \cup {t}
    /\ UNCHANGED <<env, body, session, handingOff, seen, flight, lastTile, clients, change>>

-----------------------------------------------------------------------------
(* The destination tile *)

\* Mutant: the endpoint does not recognise an id.
NeverRemembered(t, i) == FALSE

Remembered(t, i) == \E n \in DOMAIN seen[t] : seen[t][n] = i

\* The id is remembered; at the limit the oldest is forgotten.
Remember(t, i) ==
    LET kept == IF Len(seen[t]) >= CacheMax THEN Tail(seen[t]) ELSE seen[t]
    IN  seen' = [seen EXCEPT ![t] = Append(kept, i)]

\* Mutant: the overlay is not applied to the fresh shell.
RestoreShell(t, p, carried) ==
    body' = [body EXCEPT ![t][p] = IF @ # None THEN @ ELSE 0]

\* restorePlayer leaves a living player alone.
RestorePlayer(t, p, carried) ==
    body' = [body EXCEPT ![t][p] = IF @ # None THEN @ ELSE carried]

\* POST /handoff.
Receive(t, i) ==
    IF demanded \notin PayloadFields \/ Remembered(t, i)
    THEN UNCHANGED <<body, seen>>
    ELSE Remember(t, i) /\ RestorePlayer(t, flight[i].player, flight[i].carried)

\* The endpoint answers ok, or 400.
Acknowledge(i) ==
    flight' = [flight EXCEPT
                 ![i].stage = IF demanded \in PayloadFields THEN "restored" ELSE "failed",
                 ![i].received = TRUE]

ReceiveHandoff(i) ==
    /\ flight[i].stage = "forwarded"
    /\ Receive(flight[i].to, i)
    /\ Acknowledge(i)
    /\ UNCHANGED <<env, session, handingOff, gateway, clients, change>>

\* The same request arrives once more.
ReceiveAgain(i) ==
    /\ "duplicate" \in events
    /\ flight[i].received
    /\ Receive(flight[i].to, i)
    /\ UNCHANGED <<env, session, handingOff, flight, gateway, clients, change>>

\* Nobody at t waits for the answers any more.
Orphan(t) ==
    flight' = [i \in Id |-> IF flight[i].from = t THEN [flight[i] EXCEPT !.from = None]
                            ELSE flight[i]]

\* A tile restarts with an empty memory.
Crash(t) ==
    /\ "crash" \in events
    /\ body' = [body EXCEPT ![t] = [p \in Player |-> None]]
    /\ session' = [session EXCEPT ![t] = {}]
    /\ handingOff' = [handingOff EXCEPT ![t] = {}]
    /\ seen' = [seen EXCEPT ![t] = <<>>]
    /\ Orphan(t)
    /\ client' = [p \in Player |-> IF client[p] = t THEN None ELSE client[p]]
    /\ UNCHANGED <<env, gateway, crossing, change>>

-----------------------------------------------------------------------------
(* The client *)

\* Mutant: the join always spawns.
JoinAnew(t, p) ==
    /\ client' = [client EXCEPT ![p] = t]
    /\ crossing' = [crossing EXCEPT ![p] = None]
    /\ session' = [session EXCEPT ![t] = @ \cup {p}]
    /\ body' = [body EXCEPT ![t][p] = 0]
    /\ change' = [change EXCEPT ![p] = 0]
    /\ UNCHANGED <<env, handingOff, seen, flight, gateway>>

\* The join adopts the player's body if there is one and spawns it if not.
Join(t, p) ==
    /\ client' = [client EXCEPT ![p] = t]
    /\ crossing' = [crossing EXCEPT ![p] = None]
    /\ session' = [session EXCEPT ![t] = @ \cup {p}]
    /\ IF body[t][p] = None
       THEN /\ body' = [body EXCEPT ![t][p] = 0]
            /\ change' = [change EXCEPT ![p] = 0]
       ELSE UNCHANGED <<body, change>>
    /\ UNCHANGED <<env, handingOff, seen, flight, gateway>>

\* Nothing of the player's previous visits is still being dealt with.
Gone(p) == OfPlayer(p) = {} /\ \A t \in Tile : p \notin session[t]

\* A client logs in and is sent to its last tile, or to another if that is
\* not registered.
Connect(p) ==
    /\ client[p] = None
    /\ crossing[p] = None
    /\ Gone(p) \/ "earlyReconnect" \in events
    /\ IF lastTile[p] \in registered
       THEN Join(lastTile[p], p)
       ELSE \E t \in registered : Join(t, p)

\* The redirected client joins the destination, or gives up.
Arrive(p) ==
    /\ crossing[p] # None
    /\ Join(crossing[p], p)

AbandonCrossing(p) ==
    /\ crossing[p] # None
    /\ crossing' = [crossing EXCEPT ![p] = None]
    /\ UNCHANGED <<env, body, session, handingOff, seen, flight, gateway, client, change>>

Leave(p) ==
    /\ client[p] # None
    /\ client' = [client EXCEPT ![p] = None]
    /\ UNCHANGED <<env, body, session, handingOff, seen, flight, gateway, crossing, change>>

-----------------------------------------------------------------------------
Answer(i) == Redirect(i) \/ Complete(i) \/ GiveUp(i) \/ Unclaimed(i)
RoundTrip(i) == Forward(i) \/ ReceiveHandoff(i) \/ Locate(i) \/ Answer(i)

Next ==
    \/ \E t \in Tile, p \in Player :
        Play(t, p) \/ Sweep(t, p) \/ \E to \in Tile : InitiateHandoff(t, p, to)
    \/ \E i \in Id : RoundTrip(i) \/ Unreachable(i) \/ LoseAnswer(i) \/ ReceiveAgain(i)
    \/ \E t \in Tile : Evict(t) \/ Register(t) \/ Crash(t)
    \/ \E p \in Player : Connect(p) \/ Arrive(p) \/ AbandonCrossing(p) \/ Leave(p)

\* Requests are answered, the gateway and the tiles go on running.
Fairness == \A i \in Id : WF_vars(RoundTrip(i))

Spec == Init /\ [][Next]_vars /\ Fairness

-----------------------------------------------------------------------------
(* Properties *)

Bodies(p) == {t \in Tile : body[t][p] # None}

\* Every variable keeps its type; a tile that hands a player off has its
\* session, which is how the answer finds the client (server.ts:1454).
TypeOK ==
    /\ events \in Environments
    /\ demanded \in Demands
    /\ body \in [Tile -> [Player -> Body]]
    /\ session \in [Tile -> SUBSET Player]
    /\ handingOff \in [Tile -> SUBSET Player]
    /\ seen \in [Tile -> Seq(Id)] /\ \A t \in Tile : Len(seen[t]) <= CacheMax
    /\ flight \in [Id -> [stage : Stage, player : Player \cup {None}, from : Tile \cup {None},
                          to : Tile \cup {None}, carried : Body, received : BOOLEAN]]
    /\ registered \in SUBSET Tile
    /\ lastTile \in [Player -> Tile \cup {None}]
    /\ client \in [Player -> Tile \cup {None}]
    /\ crossing \in [Player -> Tile \cup {None}]
    /\ change \in [Player -> 0 .. MaxChange]
    /\ \A t \in Tile : handingOff[t] \subseteq session[t]

\* A request that arrives again is recognised: the destination neither
\* restarted, nor received more ids than it remembers.
Received(t) == {i \in Id : flight[i].received /\ flight[i].to = t}
Recognised ==
    "duplicate" \in events =>
        "crash" \notin events /\ \A t \in Tile : Cardinality(Received(t)) <= CacheMax

\* Outside a handoff a player has one body (handoff.ts:145-154, T-256): a
\* request delivered twice, a failed handoff or a client that leaves half-way
\* makes no second one.  It does take a lost answer, a login during the round
\* trip, an unwritten last_tile_id, an evicted tile, or a duplicate whose id
\* is forgotten.
Copying == {"lostAnswer", "earlyReconnect", "updateFails", "eviction"}
OneBody ==
    events \cap Copying = {} /\ Recognised =>
        \A p \in Player : OfPlayer(p) = {} => \A t, u \in Bodies(p) : t = u

\* A client is served the body its player last had: no crossing, whether it
\* succeeds, fails or is repeated, takes the player back to an older state
\* (server.ts:1411-1497, handoff.ts:155-200).  What the player does while the
\* request is on its way is lost, and so is what a second copy hides.
Rewinding == Copying \cup {"actsInFlight", "bounce"}
ProgressKept ==
    events \cap Rewinding = {} /\ Recognised =>
        \A p \in Player : client[p] # None => body[client[p]][p] = change[p]

\* A redirected client finds its body: the join adopts it and never spawns a
\* fresh one (server.ts:1735-1740), unless the destination restarted.
CrossingFindsBody ==
    events \cap (Rewinding \cup {"crash"}) = {} /\ Recognised =>
        \A p \in Player : crossing[p] # None => body[crossing[p]][p] = change[p]

\* A player goes on with the body it last had, where it is served and where it
\* is sent.
NothingRewound == ProgressKept /\ CrossingFindsBody

Of(i, p) == flight[i].player = p

\* The session of p at t awaits the end of its flush, and with it its body's.
Flushing(t, p) ==
    \E i \in Id : flight[i].stage = "flushing" /\ Of(i, p) /\ flight[i].from = t
Active(t, p) == p \in session[t] /\ ~Flushing(t, p)

\* A body nobody has joined.
Loose(t, p) == body[t][p] # None /\ p \notin session[t]

\* The body that counts: the one with a session, or else one that waits to be
\* joined.
Place == [p \in Player |->
    IF \E t \in Tile : Active(t, p) THEN CHOOSE t \in Tile : Active(t, p)
    ELSE IF \E t \in Tile : Loose(t, p) THEN CHOOSE t \in Tile : Loose(t, p)
    ELSE None]
Made == [p \in Player |-> IF Place[p] = None THEN change[p] ELSE body[Place[p]][p]]

Forwards == events \cap Rewinding = {} /\ Recognised
Travels == INSTANCE PlayerTravels
           WITH vouched <- Forwards, restarts <- "crash" \in events,
                playing <- {p \in Player : client[p] # None \/ crossing[p] # None},
                place <- Place, made <- Made

\* For its player a handoff is one step or none: the body goes to the other
\* tile with every change, and is taken out of the world only once nobody
\* plays it, unless a tile restarts.
FollowsTravels == Travels!Spec

\* Every handoff ends, one way or the other, and gives the player back to its
\* tile's sweep and gates (the finally clause, server.ts:1486-1496).
HandoffEnds == \A t \in Tile, p \in Player : p \in handingOff[t] ~> p \notin handingOff[t]

\* handoff.ts:1-10 and the endpoint's ack: a handoff that nothing disturbs
\* takes the player to the destination.
Crosses == \A i \in Id :
    (events = {} /\ flight[i].stage = "requested") ~>
        (flight[i].stage = "flushing")
=============================================================================
