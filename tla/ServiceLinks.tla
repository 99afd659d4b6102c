---------------------------- MODULE ServiceLinks ----------------------------
(***************************************************************************)
(* The switchboard between the tiles and the coordinator: the gateway's    *)
(* WebTransport listener (gateway/src/edge/wt_server.ts) and the reconnect *)
(* loops at its two ends (tile-server/src/gateway_link.ts,                 *)
(* coordinator/src/gateway_link.ts), with the tile's gate summary that     *)
(* rides on them (tile-server/src/server.ts maybePushSummary).             *)
(*                                                                         *)
(* A session is a connection with one stream in each direction; a stream   *)
(* holds at most one frame here.  Secrets and frames are well-formed.  The *)
(* gateway's read loop of a session awaits each frame's forwarding before  *)
(* it reads the next.  A write to a session that is down is reported to    *)
(* the writer or swallowed, now or, with StalledWrite, only after its peer *)
(* has reconnected.                                                        *)
(***************************************************************************)
EXTENDS Naturals, FiniteSets

CONSTANTS
    Tile,
    Coordinator,   \* the coordinator process
    Sessions,      \* bound: session ids, used again once nothing refers to them
    StalledWrite,  \* a failing write may outlast its peer's reconnect
    MaxDrops       \* bound: sessions the network breaks

ASSUME LinksAssumption ==
    /\ Coordinator \notin Tile
    /\ Sessions \in Nat
    /\ StalledWrite \in BOOLEAN
    /\ MaxDrops \in Nat

Peer == Tile \cup {Coordinator}
Session == 1 .. Sessions
None == 0

VARIABLES
    pc,          \* pc[x]: x's reconnect loop: "waiting", "dialed", "connected"
    transport,   \* transport[x]: the session x has open
    writer,      \* writer[x]: the session x publishes on
    up,          \* sessions that are up
    owner,       \* owner[s]: the peer that dialed s
    reader,      \* reader[s]: the gateway's loop for s
    forward,     \* forward[s]: the session s's loop is writing to
    watched,     \* sessions whose closed promise has a callback at the gateway
    stream,      \* stream[s]: the frame in the peer's direction to the gateway
    tileLinks,   \* the gateway's map of tile links
    coordinator, \* the gateway's coordinator link
    pushed,      \* tiles whose lastPushedGateSummary is the current one
    learned,     \* tiles whose summary the coordinator has received (history)
    drops        \* sessions broken so far

vars == <<pc, transport, writer, up, owner, reader, forward, watched, stream,
          tileLinks, coordinator, pushed, learned, drops>>

peers == <<pc, transport, writer>>
links == <<tileLinks, coordinator>>
summaries == <<pushed, learned>>

Event == {"alive", "summary"}
Frame == (Event \X {None}) \cup ({"command"} \X Tile)
NoFrame == <<"none", None>>

Init ==
    /\ pc = [x \in Peer |-> "waiting"]
    /\ transport = [x \in Peer |-> None]
    /\ writer = [x \in Peer |-> None]
    /\ up = {}
    /\ owner = [s \in Session |-> None]
    /\ reader = [s \in Session |-> "ended"]
    /\ forward = [s \in Session |-> None]
    /\ watched = {}
    /\ stream = [s \in Session |-> NoFrame]
    /\ tileLinks = [t \in Tile |-> None]
    /\ coordinator = None
    /\ pushed = {}
    /\ learned = {}
    /\ drops = 0

-----------------------------------------------------------------------------
(* The two ends: connectOnce and runForever *)

Free(s) ==
    /\ s \notin up \cup watched
    /\ reader[s] = "ended"
    /\ \A x \in Peer : s \notin {transport[x], writer[x]}
    /\ \A r \in Session : forward[r] # s
    /\ coordinator # s
    /\ \A t \in Tile : tileLinks[t] # s

\* The peer opens a session and sends its handshake; from here on it can
\* publish.
Dial(x, s) ==
    /\ pc[x] = "waiting"
    /\ Free(s) /\ \A r \in 1 .. s - 1 : ~Free(r)
    /\ pc' = [pc EXCEPT ![x] = "dialed"]
    /\ transport' = [transport EXCEPT ![x] = s]
    /\ writer' = [writer EXCEPT ![x] = s]
    /\ up' = up \cup {s}
    /\ owner' = [owner EXCEPT ![s] = x]
    /\ reader' = [reader EXCEPT ![s] = "handshake"]
    /\ stream' = [stream EXCEPT ![s] = NoFrame]
    /\ UNCHANGED <<forward, watched, links, summaries, drops>>

Acked(x) ==
    /\ pc[x] = "dialed"
    /\ transport[x] \in up
    /\ reader[transport[x]] \in {"reading", "forwarding"}
    /\ pc' = [pc EXCEPT ![x] = "connected"]
    /\ UNCHANGED <<transport, writer, up, owner, reader, forward, watched, stream,
                   links, summaries, drops>>

\* The handshake is refused or the session dies during it: the loop waits and
\* tries again.  The writer is left in place.
Rejected(x) ==
    /\ pc[x] = "dialed"
    /\ transport[x] \notin up
    /\ pc' = [pc EXCEPT ![x] = "waiting"]
    /\ transport' = [transport EXCEPT ![x] = None]
    /\ UNCHANGED <<writer, up, owner, reader, forward, watched, stream, links,
                   summaries, drops>>

\* Mutant: the loop ends with its first lost session.
LostForGood(x) ==
    /\ pc[x] = "connected"
    /\ transport[x] \notin up
    /\ pc' = [pc EXCEPT ![x] = "stopped"]
    /\ transport' = [transport EXCEPT ![x] = None]
    /\ writer' = [writer EXCEPT ![x] = None]
    /\ UNCHANGED <<up, owner, reader, forward, watched, stream, links, summaries, drops>>

\* A connected peer finds its session closed.
Lost(x) ==
    /\ pc[x] = "connected"
    /\ transport[x] \notin up
    /\ pc' = [pc EXCEPT ![x] = "waiting"]
    /\ transport' = [transport EXCEPT ![x] = None]
    /\ writer' = [writer EXCEPT ![x] = None]
    /\ UNCHANGED <<up, owner, reader, forward, watched, stream, links, summaries, drops>>

\* A frame is written if there is a writer, and reaches the gateway if its
\* session is up.
Publish(x, frame) ==
    IF writer[x] # None /\ writer[x] \in up
    THEN /\ stream[writer[x]] = NoFrame
         /\ stream' = [stream EXCEPT ![writer[x]] = frame]
    ELSE UNCHANGED stream

PublishAlive(t) ==
    /\ writer[t] \in up
    /\ Publish(t, <<"alive", None>>)
    /\ UNCHANGED <<peers, up, owner, reader, forward, watched, links, summaries, drops>>

SendCommand(t) ==
    /\ writer[Coordinator] \in up
    /\ Publish(Coordinator, <<"command", t>>)
    /\ UNCHANGED <<peers, up, owner, reader, forward, watched, links, summaries, drops>>

\* maybePushSummary, once a second: the summary counts as pushed whatever
\* became of it.
PushSummary(t) ==
    /\ t \notin pushed
    /\ Publish(t, <<"summary", None>>)
    /\ pushed' = pushed \cup {t}
    /\ UNCHANGED <<peers, up, owner, reader, forward, watched, links, learned, drops>>

-----------------------------------------------------------------------------
(* The gateway *)

\* No write to an earlier session of x is still to fail.
Settled(x) == \A r \in Session : forward[r] # None /\ forward[r] \notin up =>
                                    owner[forward[r]] # x

\* acceptTile replaces an older link of the tile; acceptCoordinator refuses a
\* second coordinator.
AcceptTile(s) ==
    LET t == owner[s]
    IN  /\ reader[s] = "handshake"
        /\ t \in Tile
        /\ s \in up
        /\ StalledWrite \/ Settled(t)
        /\ up' = up \ {tileLinks[t]}
        /\ tileLinks' = [tileLinks EXCEPT ![t] = s]
        /\ reader' = [reader EXCEPT ![s] = "reading"]
        /\ watched' = watched \cup {s}
        /\ UNCHANGED <<peers, owner, forward, stream, coordinator, summaries, drops>>

AcceptCoordinator(s) ==
    /\ reader[s] = "handshake"
    /\ owner[s] = Coordinator
    /\ s \in up
    /\ coordinator = None
    /\ StalledWrite \/ Settled(Coordinator)
    /\ coordinator' = s
    /\ reader' = [reader EXCEPT ![s] = "reading"]
    /\ watched' = watched \cup {s}
    /\ UNCHANGED <<peers, up, owner, forward, stream, tileLinks, summaries, drops>>

RefuseCoordinator(s) ==
    /\ reader[s] = "handshake"
    /\ owner[s] = Coordinator
    /\ s \in up
    /\ coordinator # None
    /\ up' = up \ {s}
    /\ reader' = [reader EXCEPT ![s] = "ended"]
    /\ UNCHANGED <<peers, owner, forward, watched, stream, links, summaries, drops>>

HandshakeLost(s) ==
    /\ reader[s] = "handshake"
    /\ s \notin up
    /\ reader' = [reader EXCEPT ![s] = "ended"]
    /\ UNCHANGED <<peers, up, owner, forward, watched, stream, links, summaries, drops>>

\* Mutant: the closed callback clears whatever link the peer has now.
UnlinkAny(s) ==
    /\ s \in watched \ up
    /\ watched' = watched \ {s}
    /\ IF owner[s] = Coordinator
       THEN coordinator' = None /\ UNCHANGED tileLinks
       ELSE tileLinks' = [tileLinks EXCEPT ![owner[s]] = None] /\ UNCHANGED coordinator
    /\ UNCHANGED <<peers, up, owner, reader, forward, stream, summaries, drops>>

\* The closed promise of a session settles: its link is removed if it is
\* still the current one.
Unlink(s) ==
    /\ s \in watched \ up
    /\ watched' = watched \ {s}
    /\ coordinator' = IF coordinator = s THEN None ELSE coordinator
    /\ tileLinks' = [t \in Tile |-> IF tileLinks[t] = s THEN None ELSE tileLinks[t]]
    /\ UNCHANGED <<peers, up, owner, reader, forward, stream, summaries, drops>>

\* Mutant: an event goes back to where it came from.
TargetSender(s) == LET x == owner[s] IN IF x = Coordinator THEN coordinator ELSE tileLinks[x]

\* Where the frame on s's stream goes, as the maps stand now.
Target(s) == IF owner[s] = Coordinator THEN tileLinks[stream[s][2]] ELSE coordinator

\* The loop reads a frame: without a target it is dropped.
Read(s) ==
    /\ reader[s] = "reading"
    /\ s \in up
    /\ stream[s] # NoFrame
    /\ IF Target(s) = None
       THEN stream' = [stream EXCEPT ![s] = NoFrame] /\ UNCHANGED <<reader, forward>>
       ELSE /\ reader' = [reader EXCEPT ![s] = "forwarding"]
            /\ forward' = [forward EXCEPT ![s] = Target(s)]
            /\ UNCHANGED stream
    /\ UNCHANGED <<peers, up, owner, watched, links, summaries, drops>>

Done(s, how) ==
    /\ reader' = [reader EXCEPT ![s] = how]
    /\ forward' = [forward EXCEPT ![s] = None]
    /\ stream' = [stream EXCEPT ![s] = NoFrame]

Delivered(s) ==
    /\ reader[s] = "forwarding"
    /\ forward[s] \in up
    /\ Done(s, "reading")
    /\ learned' = IF stream[s] = <<"summary", None>> /\ owner[forward[s]] = Coordinator
                  THEN learned \cup {owner[s]} ELSE learned
    /\ UNCHANGED <<peers, up, owner, watched, links, pushed, drops>>

Swallowed(s) ==
    /\ reader[s] = "forwarding"
    /\ forward[s] \notin up
    /\ Done(s, "reading")
    /\ UNCHANGED <<peers, up, owner, watched, links, summaries, drops>>

\* routeFromCoordinator: the tile's entry is deleted, whichever session it is.
CommandFailed(s) ==
    /\ reader[s] = "forwarding"
    /\ owner[s] = Coordinator
    /\ forward[s] \notin up
    /\ tileLinks' = [tileLinks EXCEPT ![stream[s][2]] = None]
    /\ Done(s, "reading")
    /\ UNCHANGED <<peers, up, owner, watched, coordinator, summaries, drops>>

\* routeFromTile: the present coordinator link is closed and forgotten ...
EventFailed(s) ==
    /\ reader[s] = "forwarding"
    /\ owner[s] \in Tile
    /\ forward[s] \notin up
    /\ coordinator # None
    /\ up' = up \ {coordinator}
    /\ coordinator' = None
    /\ Done(s, "reading")
    /\ UNCHANGED <<peers, owner, watched, tileLinks, summaries, drops>>

\* Mutant: the loop ends without closing its session.
EventFailedOpen(s) ==
    /\ reader[s] = "forwarding"
    /\ owner[s] \in Tile
    /\ forward[s] \notin up
    /\ coordinator = None
    /\ Done(s, "ended")
    /\ UNCHANGED <<peers, up, owner, watched, links, summaries, drops>>

\* ... and when there is none any more, the handler throws: the tile's loop
\* ends and its session is closed.
EventFailedTwice(s) ==
    /\ reader[s] = "forwarding"
    /\ owner[s] \in Tile
    /\ forward[s] \notin up
    /\ coordinator = None
    /\ up' = up \ {s}
    /\ Done(s, "ended")
    /\ UNCHANGED <<peers, owner, watched, links, summaries, drops>>

ReadEnd(s) ==
    /\ reader[s] = "reading"
    /\ s \notin up
    /\ Done(s, "ended")
    /\ UNCHANGED <<peers, up, owner, watched, links, summaries, drops>>

\* The network breaks a session.
Drop(s) ==
    /\ s \in up
    /\ drops < MaxDrops
    /\ up' = up \ {s}
    /\ drops' = drops + 1
    /\ UNCHANGED <<peers, owner, reader, forward, watched, stream, links, summaries>>

-----------------------------------------------------------------------------
Loop(x) == (\E s \in Session : Dial(x, s)) \/ Acked(x) \/ Rejected(x) \/ Lost(x)
Handshake(s) == AcceptTile(s) \/ AcceptCoordinator(s) \/ RefuseCoordinator(s) \/ HandshakeLost(s)
Forward(s) == \/ Delivered(s) \/ Swallowed(s) \/ CommandFailed(s)
              \/ EventFailed(s) \/ EventFailedTwice(s)
Route(s) == Read(s) \/ Forward(s) \/ ReadEnd(s)

Next ==
    \/ \E x \in Peer : Loop(x)
    \/ \E s \in Session : Handshake(s) \/ Route(s) \/ Unlink(s) \/ Drop(s)
    \/ \E t \in Tile : PublishAlive(t) \/ SendCommand(t) \/ PushSummary(t)

\* Reconnect loops, handshakes, read loops, callbacks and timers all run.
Fairness ==
    /\ \A x \in Peer : WF_vars(Loop(x))
    /\ \A s \in Session : WF_vars(Handshake(s)) /\ WF_vars(Route(s)) /\ WF_vars(Unlink(s))
    /\ \A t \in Tile : SF_vars(PushSummary(t))

Spec == Init /\ [][Next]_vars /\ Fairness

-----------------------------------------------------------------------------
(* Properties *)

\* Every variable keeps its type, and a loop forwards exactly while it has a
\* target.
TypeOK ==
    /\ pc \in [Peer -> {"waiting", "dialed", "connected"}]
    /\ transport \in [Peer -> Session \cup {None}]
    /\ writer \in [Peer -> Session \cup {None}]
    /\ up \subseteq Session
    /\ owner \in [Session -> Peer \cup {None}]
    /\ reader \in [Session -> {"handshake", "reading", "forwarding", "ended"}]
    /\ forward \in [Session -> Session \cup {None}]
    /\ watched \subseteq Session
    /\ stream \in [Session -> Frame \cup {NoFrame}]
    /\ tileLinks \in [Tile -> Session \cup {None}]
    /\ coordinator \in Session \cup {None}
    /\ pushed \subseteq Tile /\ learned \subseteq Tile
    /\ drops \in 0 .. MaxDrops
    /\ \A s \in Session : forward[s] # None <=> reader[s] = "forwarding"

\* Nobody writes into the void: whoever is connected over a session that is
\* up has a loop at the gateway that reads it (T-257, wt_server.ts:195-200,
\* 268-272).
ConnectedIsRead ==
    \A x \in Peer : pc[x] = "connected" /\ transport[x] \in up =>
        reader[transport[x]] \in {"reading", "forwarding"}

LinkOf(x) == IF x = Coordinator THEN coordinator ELSE tileLinks[x]
Linked(x) == pc[x] = "connected" /\ transport[x] \in up /\ LinkOf(x) = transport[x]

\* Once the network is quiet every peer ends up connected over the session
\* that the gateway routes to, however its reconnects, refusals and late
\* callbacks were interleaved (wt_server.ts:158-273).
EventuallyLinked == \A x \in Peer : <>[]Linked(x)

\* A summary pushed while everybody is linked and the network stays quiet
\* reaches the coordinator (server.ts:1624-1639, wt_server.ts:275-292).
QuietSummaryArrives ==
    \A t \in Tile :
        (drops = MaxDrops /\ t \notin pushed /\ \A x \in Peer : Linked(x))
            ~> (t \in learned)

\* wt_server.ts:294-295: a dead coordinator stream closes the coordinator
\* link, not the tile read loop.
TileLoopSurvives ==
    [][\A s \in Session :
        owner[s] \in Tile /\ s \in up /\ reader[s] = "forwarding"
            => reader'[s] # "ended"]_vars

\* server.ts:1040-1046: the summary is pushed again until it has got through.
SummaryArrives == \A t \in Tile : <>(t \in learned)
=============================================================================
