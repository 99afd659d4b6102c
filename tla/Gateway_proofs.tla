--------------------------- MODULE Gateway_proofs ---------------------------
(***************************************************************************)
(* Proofs about the two protocols that go through the gateway.             *)
(* Handoff, for any players, tiles and bounds: types, one body per player, *)
(* no progress lost to a crossing, and a body for every redirected client. *)
(* ServiceLinks, as the instance Links at the end, for any tiles, sessions *)
(* and failures: types, and a read loop for every connected peer.          *)
(***************************************************************************)
EXTENDS Handoff, FiniteSetTheorems, TLAPS

-----------------------------------------------------------------------------
(* The inductive invariant. *)

\* The client has not been redirected yet.
Pending(i) == flight[i].stage \in {"requested", "forwarded", "restored", "located", "failed"}
Arrived(i) == flight[i].stage \in {"restored", "located"}

\* In every environment: what a flight is about, and that its source tile
\* knows of it.
FlightOK(i) ==
    /\ flight[i].stage # "unused" =>
          /\ flight[i].player \in Player /\ flight[i].to \in Tile
          /\ flight[i].from # flight[i].to /\ flight[i].carried \in 0 .. MaxChange
    /\ InProgress(i) /\ flight[i].from # None => flight[i].player \in handingOff[flight[i].from]
    /\ flight[i].stage \in {"unused", "requested", "forwarded"} => ~flight[i].received

FlightsApart ==
    \A i, j \in Id :
        /\ InProgress(i) /\ InProgress(j) /\ flight[i].player = flight[j].player
        /\ flight[i].from = flight[j].from /\ flight[i].from # None
        => i = j

SessionOK(t, p) == p \in session[t] => body[t][p] # None
ClientOK(p) == client[p] # None => p \in session[client[p]]

\* A tile remembers only what it received, and all of it while that fits.
RememberedReceived == \A t \in Tile, i \in Id : Remembered(t, i) => i \in Received(t)
Remembering ==
    demanded \in PayloadFields /\ "duplicate" \in events /\ Recognised =>
        \A t \in Tile : /\ Len(seen[t]) = Cardinality(Received(t))
                        /\ \A i \in Received(t) : Remembered(t, i)

Frame ==
    /\ \A i \in Id : FlightOK(i)
    /\ FlightsApart
    /\ \A t \in Tile, p \in Player : SessionOK(t, p)
    /\ \A p \in Player : ClientOK(p)
    /\ RememberedReceived
    /\ Remembering

\* Without copies: a player is active in one place, has one handoff that has
\* not redirected its client, and none while its client is crossing.
Single == events \cap Copying = {} /\ Recognised

OneActive(p) == \A t, u \in Tile : Active(t, p) /\ Active(u, p) => t = u
OnePending(p) == \A i, j \in Id : Pending(i) /\ Pending(j) /\ Of(i, p) /\ Of(j, p) => i = j
NobodyActive(p) == \A t \in Tile : ~Active(t, p)
NonePending(p) == \A i \in Id : Pending(i) => ~Of(i, p)

PendingOK(i, p) ==
    Pending(i) /\ Of(i, p) =>
        /\ crossing[p] = None
        /\ flight[i].from = None => NobodyActive(p)
        /\ flight[i].stage = "located" => lastTile[p] = flight[i].to

CrossingOK(p) == crossing[p] # None => NobodyActive(p) /\ lastTile[p] = crossing[p]

\* A body nobody has joined has just been restored, or it is where the next
\* login will look for it.
LooseOK(u, p) ==
    Loose(u, p) =>
        \/ \E i \in Id : Arrived(i) /\ Of(i, p) /\ flight[i].to = u
        \/ NonePending(p) /\ NobodyActive(p) /\ lastTile[p] = u

SingleOK(p) ==
    /\ OneActive(p) /\ OnePending(p) /\ CrossingOK(p)
    /\ \A i \in Id : PendingOK(i, p)
    /\ \A u \in Tile : LooseOK(u, p)

SingleInv == Single => registered = Tile /\ \A p \in Player : SingleOK(p)

\* Without rewinding: one handoff at a time, and every copy is the last one.
Current(t, p) == Active(t, p) \/ Loose(t, p) => body[t][p] = change[p]

ForwardsOK(p) ==
    /\ \A i, j \in Id : InProgress(i) /\ InProgress(j) /\ Of(i, p) /\ Of(j, p) => i = j
    /\ \A t \in Tile : client[p] = t => Active(t, p)
    /\ \A i \in Id : Of(i, p) =>
          /\ InProgress(i) /\ crossing[p] # None => flight[i].to = crossing[p]
          /\ Pending(i) /\ flight[i].stage # "failed" => flight[i].carried = change[p]
    /\ \A t \in Tile : Current(t, p)

ForwardsInv == Forwards => \A p \in Player : ForwardsOK(p)

\* Without restarts: what was restored stays until it is joined.
AwaitedOK(p) ==
    /\ \A i \in Id, t \in Tile : Arrived(i) /\ Of(i, p) /\ flight[i].to = t => Loose(t, p)
    /\ \A t \in Tile : crossing[p] = t => Loose(t, p)

AwaitedInv == Forwards /\ "crash" \notin events => \A p \in Player : AwaitedOK(p)

IInv ==
    /\ TypeOK
    /\ Frame
    /\ SingleInv
    /\ ForwardsInv
    /\ AwaitedInv

-----------------------------------------------------------------------------
(* What a step does to the flights. *)

FlightType == [stage : Stage, player : Player \cup {None}, from : Tile \cup {None},
               to : Tile \cup {None}, carried : Body, received : BOOLEAN]

\* What a flight is about never changes.
SameMatter(j) ==
    /\ flight'[j].player = flight[j].player
    /\ flight'[j].to = flight[j].to
    /\ flight'[j].carried = flight[j].carried
SameSource(j) == flight'[j].from = flight[j].from
SameReceipt(j) == flight'[j].received = flight[j].received
SameStage(j) == flight'[j].stage = flight[j].stage

\* Flight i is now in this stage, and nothing else happened to the flights.
MovesTo(i, stage) ==
    /\ flight'[i].stage = stage
    /\ \A j \in Id \ {i} : SameStage(j)
    /\ \A j \in Id : SameMatter(j) /\ SameSource(j)

LEMMA StageChanged ==
    ASSUME NEW r \in FlightType, NEW s
    PROVE  [r EXCEPT !.stage = s] =
              [stage |-> s, player |-> r.player, from |-> r.from, to |-> r.to,
               carried |-> r.carried, received |-> r.received]
  BY DEF FlightType

LEMMA ReceivedChanged ==
    ASSUME NEW r \in FlightType, NEW b
    PROVE  [r EXCEPT !.received = b] =
              [stage |-> r.stage, player |-> r.player, from |-> r.from, to |-> r.to,
               carried |-> r.carried, received |-> b]
  BY DEF FlightType

LEMMA SourceChanged ==
    ASSUME NEW r \in FlightType, NEW t
    PROVE  [r EXCEPT !.from = t] =
              [stage |-> r.stage, player |-> r.player, from |-> t, to |-> r.to,
               carried |-> r.carried, received |-> r.received]
  BY DEF FlightType

LEMMA AdvanceMoves ==
    ASSUME flight \in [Id -> FlightType], NEW i \in Id, NEW s \in Stage, Advance(i, s)
    PROVE  /\ flight' \in [Id -> FlightType]
           /\ MovesTo(i, s)
           /\ \A j \in Id : SameReceipt(j)
<1> DEFINE r == flight[i]
           q == [stage |-> s, player |-> r.player, from |-> r.from, to |-> r.to,
                 carried |-> r.carried, received |-> r.received]
<1>1. r \in FlightType
  OBVIOUS
<1>2. [r EXCEPT !.stage = s] = q
  BY <1>1, StageChanged
<1>3. q \in FlightType
  BY <1>1 DEF FlightType
<1>4. flight' = [flight EXCEPT ![i] = q]
  BY <1>2 DEF Advance
<1>5. q.stage = s /\ q.player = r.player /\ q.from = r.from /\ q.to = r.to
      /\ q.carried = r.carried /\ q.received = r.received
  OBVIOUS
<1> HIDE DEF q
<1>6. flight'[i] = q /\ \A j \in Id \ {i} : flight'[j] = flight[j]
  BY <1>4
<1>7. QED
  BY <1>3, <1>4, <1>5, <1>6 DEF MovesTo, SameMatter, SameSource, SameReceipt, SameStage

LEMMA AcknowledgeMoves ==
    ASSUME flight \in [Id -> FlightType], NEW i \in Id, Acknowledge(i)
    PROVE  /\ flight' \in [Id -> FlightType]
           /\ MovesTo(i, IF demanded \in PayloadFields THEN "restored" ELSE "failed")
           /\ flight'[i].received
           /\ \A j \in Id \ {i} : SameReceipt(j)
<1> DEFINE r == flight[i]
           s == IF demanded \in PayloadFields THEN "restored" ELSE "failed"
           q == [stage |-> s, player |-> r.player, from |-> r.from, to |-> r.to,
                 carried |-> r.carried, received |-> TRUE]
<1>1. r \in FlightType /\ s \in Stage
  BY DEF Stage
<1>2. [r EXCEPT !.stage = s, !.received = TRUE] = q
  <2> DEFINE z == [r EXCEPT !.stage = s]
  <2>1. z = [stage |-> s, player |-> r.player, from |-> r.from, to |-> r.to,
             carried |-> r.carried, received |-> r.received]
    BY <1>1, StageChanged
  <2>2. z \in FlightType /\ z.stage = s /\ z.player = r.player /\ z.from = r.from
        /\ z.to = r.to /\ z.carried = r.carried
    BY <1>1, <2>1 DEF FlightType
  <2>3. [z EXCEPT !.received = TRUE] = q
    <3> HIDE DEF z
    <3>1. [z EXCEPT !.received = TRUE] =
             [stage |-> z.stage, player |-> z.player, from |-> z.from, to |-> z.to,
              carried |-> z.carried, received |-> TRUE]
      BY <2>2, ReceivedChanged
    <3>2. QED
      BY <2>2, <3>1
  <2>4. QED
    BY <2>3
<1>3. q \in FlightType
  BY <1>1 DEF FlightType
<1>4. flight' = [flight EXCEPT ![i] = q]
  <2>1. flight' = [flight EXCEPT ![i].stage = s, ![i].received = TRUE]
    BY DEF Acknowledge
  <2>2. flight' = [flight EXCEPT ![i] = [r EXCEPT !.stage = s, !.received = TRUE]]
    BY <2>1
  <2>3. QED
    BY <1>2, <2>2
<1>5. q.stage = s /\ q.player = r.player /\ q.from = r.from /\ q.to = r.to
      /\ q.carried = r.carried /\ q.received
  OBVIOUS
<1> HIDE DEF q
<1>6. flight'[i] = q /\ \A j \in Id \ {i} : flight'[j] = flight[j]
  BY <1>4
<1>7. QED
  BY <1>3, <1>4, <1>5, <1>6 DEF MovesTo, SameMatter, SameSource, SameReceipt, SameStage

\* A handoff is begun under an id that was not in use.
Begins(i, t, p, to) ==
    /\ i \in Id /\ flight[i].stage = "unused"
    /\ flight'[i].stage = "requested" /\ flight'[i].player = p
    /\ flight'[i].from = t /\ flight'[i].to = to
    /\ flight'[i].carried = body[t][p] /\ ~flight'[i].received
    /\ \A j \in Id \ {i} : flight'[j] = flight[j]

LEMMA PostBegins ==
    ASSUME flight \in [Id -> FlightType], NEW t \in Tile, NEW p \in Player, NEW to \in Tile,
           body[t][p] \in Body, \E i \in Id : flight[i].stage = "unused", Post(t, p, to)
    PROVE  flight' \in [Id -> FlightType] /\ Begins(FreshId, t, p, to)
<1> DEFINE q == [stage |-> "requested", player |-> p, from |-> t, to |-> to,
                 carried |-> body[t][p], received |-> FALSE]
<1>1. FreshId \in Id /\ flight[FreshId].stage = "unused"
  BY DEF FreshId
<1>2. q \in FlightType
  BY DEF FlightType, Stage
<1>3. flight' = [flight EXCEPT ![FreshId] = q]
  BY DEF Post
<1>4. q.stage = "requested" /\ q.player = p /\ q.from = t /\ q.to = to
      /\ q.carried = body[t][p] /\ ~q.received
  OBVIOUS
<1> HIDE DEF q
<1>5. flight'[FreshId] = q /\ \A j \in Id \ {FreshId} : flight'[j] = flight[j]
  BY <1>1, <1>3
<1>6. QED
  BY <1>1, <1>2, <1>3, <1>4, <1>5 DEF Begins

\* A restart orphans the flights of the tile.
Orphans(t) ==
    \A i \in Id : /\ SameMatter(i) /\ SameReceipt(i) /\ SameStage(i)
                   /\ flight'[i].from = IF flight[i].from = t THEN None ELSE flight[i].from

LEMMA RestartOrphans ==
    ASSUME flight \in [Id -> FlightType], NEW t \in Tile, Orphan(t)
    PROVE  /\ flight' \in [Id -> FlightType]
           /\ Orphans(t)
<1> DEFINE r(i) == flight[i]
           q(i) == [stage |-> r(i).stage, player |-> r(i).player, from |-> None, to |-> r(i).to,
                    carried |-> r(i).carried, received |-> r(i).received]
<1>1. ASSUME NEW i \in Id
      PROVE  /\ [flight[i] EXCEPT !.from = None] = q(i)
             /\ q(i) \in FlightType
             /\ q(i).stage = r(i).stage /\ q(i).player = r(i).player /\ q(i).from = None
             /\ q(i).to = r(i).to /\ q(i).carried = r(i).carried
             /\ q(i).received = r(i).received
  <2>1. r(i) \in FlightType
    OBVIOUS
  <2>2. [flight[i] EXCEPT !.from = None] = q(i)
    BY <2>1, SourceChanged
  <2>3. q(i) \in FlightType
    BY <2>1 DEF FlightType
  <2>4. QED
    BY <2>2, <2>3
<1>2. flight' = [i \in Id |-> IF flight[i].from = t THEN q(i) ELSE flight[i]]
  BY <1>1 DEF Orphan
<1> HIDE DEF q
<1>3. \A i \in Id : flight'[i] = IF flight[i].from = t THEN q(i) ELSE flight[i]
  BY <1>2
<1>4. QED
  BY <1>1, <1>2, <1>3 DEF Orphans, SameMatter, SameReceipt, SameStage

FlightsTyped == flight \in [Id -> FlightType]
Moves(i, stage) == MovesTo(i, stage) /\ \A j \in Id : SameReceipt(j)
Answers(i, stage) ==
    MovesTo(i, stage) /\ flight'[i].received /\ \A j \in Id \ {i} : SameReceipt(j)

\* The steps of a flight.
LEMMA FlightSteps ==
    ASSUME FlightsTyped, NEW i \in Id
    PROVE  /\ Forward(i) => FlightsTyped' /\
                 Moves(i, IF flight[i].to \in registered THEN "forwarded" ELSE "failed")
           /\ ReceiveHandoff(i) => FlightsTyped' /\
                 Answers(i, IF demanded \in PayloadFields THEN "restored" ELSE "failed")
           /\ Locate(i) => FlightsTyped' /\ Moves(i, "located")
           /\ Redirect(i) => FlightsTyped' /\ Moves(i, "flushing")
           /\ Complete(i) \/ GiveUp(i) \/ Unclaimed(i) => FlightsTyped' /\ Moves(i, "done")
           /\ Unreachable(i) \/ LoseAnswer(i) => FlightsTyped' /\ Moves(i, "failed")
<1> USE DEF FlightsTyped, Moves, Answers
<1>1. ASSUME NEW s \in Stage, Advance(i, s) PROVE FlightsTyped' /\ Moves(i, s)
  BY <1>1, AdvanceMoves
<1>2. {"forwarded", "failed", "located", "flushing", "done"} \subseteq Stage
  BY DEF Stage
<1>3. ASSUME ReceiveHandoff(i)
      PROVE  FlightsTyped' /\
                 Answers(i, IF demanded \in PayloadFields THEN "restored" ELSE "failed")
  BY <1>3, AcknowledgeMoves DEF ReceiveHandoff
<1>4. ASSUME Forward(i)
      PROVE  FlightsTyped' /\
                 Moves(i, IF flight[i].to \in registered THEN "forwarded" ELSE "failed")
  <2>1. Advance(i, IF flight[i].to \in registered THEN "forwarded" ELSE "failed")
    BY <1>4 DEF Forward
  <2>2. QED
    BY <1>1, <1>2, <2>1
<1>5. ASSUME Locate(i) PROVE Advance(i, "located")
  BY <1>5 DEF Locate
<1>6. ASSUME Redirect(i) PROVE Advance(i, "flushing")
  BY <1>6 DEF Redirect
<1>7. ASSUME Complete(i) \/ GiveUp(i) \/ Unclaimed(i) PROVE Advance(i, "done")
  BY <1>7 DEF Complete, GiveUp, Unclaimed, Settle
<1>8. ASSUME Unreachable(i) \/ LoseAnswer(i) PROVE Advance(i, "failed")
  BY <1>8 DEF Unreachable, LoseAnswer
<1> HIDE DEF FlightsTyped, Moves, Answers
<1>9. QED
  BY <1>1, <1>2, <1>3, <1>4, <1>5, <1>6, <1>7, <1>8

LEMMA InitiateBegins ==
    ASSUME TypeOK, NEW t \in Tile, NEW p \in Player, NEW to \in Tile, InitiateHandoff(t, p, to)
    PROVE  FlightsTyped' /\ Begins(FreshId, t, p, to)
<1>1. body[t][p] \in Body /\ FlightsTyped
  BY DEF TypeOK, FlightsTyped, FlightType
<1>2. Post(t, p, to) /\ \E i \in Id : flight[i].stage = "unused"
  BY DEF InitiateHandoff
<1>3. QED
  BY <1>1, <1>2, PostBegins DEF FlightsTyped

LEMMA CrashOrphans ==
    ASSUME FlightsTyped, NEW t \in Tile, Crash(t) PROVE FlightsTyped' /\ Orphans(t)
<1>1. Orphan(t)
  BY DEF Crash
<1>2. QED
  BY <1>1, RestartOrphans DEF FlightsTyped

RestTyped ==
    /\ events \in Environments
    /\ demanded \in Demands
    /\ body \in [Tile -> [Player -> Body]]
    /\ session \in [Tile -> SUBSET Player]
    /\ handingOff \in [Tile -> SUBSET Player]
    /\ seen \in [Tile -> Seq(Id)] /\ \A t \in Tile : Len(seen[t]) <= CacheMax
    /\ registered \in SUBSET Tile
    /\ lastTile \in [Player -> Tile \cup {None}]
    /\ client \in [Player -> Tile \cup {None}]
    /\ crossing \in [Player -> Tile \cup {None}]
    /\ change \in [Player -> 0 .. MaxChange]
    /\ \A t \in Tile : handingOff[t] \subseteq session[t]

LEMMA JoinTyped ==
    ASSUME RestTyped, NEW t \in Tile, NEW p \in Player, Join(t, p)
    PROVE  RestTyped' /\ flight' = flight
<1>0. 0 \in Body /\ 0 \in 0 .. MaxChange
  BY HandoffAssumption DEF Body
<1> USE DEF RestTyped, env, gateway, Join
<1>1. body' \in [Tile -> [Player -> Body]] /\ change' \in [Player -> 0 .. MaxChange]
  <2>1. CASE body[t][p] = None
    <3>1. body' = [body EXCEPT ![t][p] = 0] /\ change' = [change EXCEPT ![p] = 0]
      BY <2>1
    <3>2. QED
      BY <1>0, <3>1
  <2>2. CASE body[t][p] # None
    BY <2>2
  <2>3. QED
    BY <2>1, <2>2
<1>2. session' \in [Tile -> SUBSET Player] /\ \A u \in Tile : session[u] \subseteq session'[u]
  OBVIOUS
<1>3. client' \in [Player -> Tile \cup {None}] /\ crossing' \in [Player -> Tile \cup {None}]
  OBVIOUS
<1>4. UNCHANGED <<events, demanded, handingOff, seen, flight, registered, lastTile>>
  OBVIOUS
<1>5. \A u \in Tile : handingOff'[u] \subseteq session'[u]
  BY <1>2, <1>4
<1>6. QED
  BY <1>1, <1>2, <1>3, <1>4, <1>5

LEMMA ReceiveTyped ==
    ASSUME RestTyped, FlightsTyped, NEW t \in Tile, NEW i \in Id, FlightOK(i),
           flight[i].stage # "unused", Receive(t, i)
    PROVE  /\ body' \in [Tile -> [Player -> Body]]
           /\ seen' \in [Tile -> Seq(Id)] /\ \A u \in Tile : Len(seen'[u]) <= CacheMax
<1> USE HandoffAssumption DEF RestTyped
<1>1. flight[i].player \in Player /\ flight[i].carried \in Body
  BY DEF FlightOK, Body
<1>2. CASE UNCHANGED <<body, seen>>
  BY <1>2
<1>3. CASE Remember(t, i) /\ RestorePlayer(t, flight[i].player, flight[i].carried)
  <2>1. body' \in [Tile -> [Player -> Body]]
    BY <1>1, <1>3 DEF RestorePlayer
  <2>2. seen[t] \in Seq(Id) /\ Len(seen[t]) \in Nat /\ Len(seen[t]) <= CacheMax
    OBVIOUS
  <2> DEFINE kept == IF Len(seen[t]) >= CacheMax THEN Tail(seen[t]) ELSE seen[t]
  <2>3. kept \in Seq(Id) /\ Len(kept) < CacheMax
    BY <2>2
  <2>4. Append(kept, i) \in Seq(Id) /\ Len(Append(kept, i)) <= CacheMax
    <3> HIDE DEF kept
    <3>1. QED
      BY <2>3
  <2>5. seen' = [seen EXCEPT ![t] = Append(kept, i)]
    BY <1>3 DEF Remember
  <2> HIDE DEF kept
  <2>6. QED
    BY <2>1, <2>4, <2>5
<1>4. QED
  BY <1>2, <1>3 DEF Receive

\* What a join changes, point by point.
Joins(t, p) ==
    /\ client'[p] = t /\ \A q \in Player \ {p} : client'[q] = client[q]
    /\ crossing'[p] = None /\ \A q \in Player \ {p} : crossing'[q] = crossing[q]
    /\ \A u \in Tile, q \in Player : q \in session'[u] <=> q \in session[u] \/ (u = t /\ q = p)
    /\ \A u \in Tile, q \in Player : ~(u = t /\ q = p) => body'[u][q] = body[u][q]
    /\ \A q \in Player \ {p} : change'[q] = change[q]
    /\ body[t][p] = None => body'[t][p] = 0 /\ change'[p] = 0
    /\ body[t][p] # None => body'[t][p] = body[t][p] /\ change'[p] = change[p]
    /\ UNCHANGED <<events, demanded, handingOff, seen, flight, registered, lastTile>>

LEMMA JoinPoints ==
    ASSUME RestTyped, NEW t \in Tile, NEW p \in Player, Join(t, p) PROVE Joins(t, p)
<1> USE DEF RestTyped, Join, Joins, env, gateway
<1>1. CASE body[t][p] = None
  BY <1>1
<1>2. CASE body[t][p] # None
  BY <1>2
<1>3. QED
  BY <1>1, <1>2

\* What a request leaves of the bodies.
Restores(t, i) ==
    \A u \in Tile, q \in Player :
        body'[u][q] = IF u = t /\ q = flight[i].player /\ body[u][q] = None
                      THEN flight[i].carried ELSE body[u][q]

LEMMA ReceivePoints ==
    ASSUME RestTyped, NEW t \in Tile, NEW i \in Id, flight[i].player \in Player, Receive(t, i)
    PROVE  IF demanded \notin PayloadFields \/ Remembered(t, i)
           THEN UNCHANGED <<body, seen>> ELSE Remember(t, i) /\ Restores(t, i)
  BY DEF RestTyped, Receive, RestorePlayer, Restores
-----------------------------------------------------------------------------
(* Types. *)

LEMMA FlightsAreTyped == TypeOK <=> FlightsTyped /\ RestTyped
  BY DEF TypeOK, FlightsTyped, FlightType, RestTyped

\* A step, action by action.
LEMMA StepCases ==
    ASSUME [Next]_vars
    PROVE  \/ \E t \in Tile, p \in Player : \/ Play(t, p) \/ Sweep(t, p)
                                            \/ \E to \in Tile : InitiateHandoff(t, p, to)
           \/ \E i \in Id : \/ Forward(i) \/ ReceiveHandoff(i) \/ Locate(i)
                            \/ Redirect(i) \/ Complete(i) \/ GiveUp(i) \/ Unclaimed(i)
                            \/ Unreachable(i) \/ LoseAnswer(i) \/ ReceiveAgain(i)
           \/ \E t \in Tile : Evict(t) \/ Register(t) \/ Crash(t)
           \/ \E p \in Player : Connect(p) \/ Arrive(p) \/ AbandonCrossing(p) \/ Leave(p)
           \/ UNCHANGED vars
  BY DEF Next, RoundTrip, Answer

\* Types survive every step.
LEMMA TypeStep ==
    ASSUME TypeOK, FlightsTyped, RestTyped, Frame, [Next]_vars
    PROVE  FlightsTyped' /\ RestTyped'
<1> USE HandoffAssumption DEF RestTyped, Body, env, clients, gateway, InProgress, FlightOK,
    FlightsApart, Frame
<1>1. ASSUME NEW t \in Tile, NEW p \in Player, Play(t, p) PROVE FlightsTyped' /\ RestTyped'
  BY <1>1 DEF Play, FlightsTyped
<1>2. ASSUME NEW t \in Tile, NEW p \in Player, Sweep(t, p) PROVE FlightsTyped' /\ RestTyped'
  <2>1. body' \in [Tile -> [Player -> Body]]
    BY <1>2 DEF Sweep
  <2>2. lastTile' \in [Player -> Tile \cup {None}]
    <3>1. lastTile' = lastTile \/ lastTile' = [lastTile EXCEPT ![p] = t]
      BY <1>2 DEF Sweep
    <3>2. [lastTile EXCEPT ![p] = t] \in [Player -> Tile \cup {None}]
      OBVIOUS
    <3>3. QED
      BY <3>1, <3>2
  <2>3. session' \in [Tile -> SUBSET Player] /\ \A u \in Tile : handingOff[u] \subseteq session'[u]
    BY <1>2 DEF Sweep
  <2>4. QED
    BY <1>2, <2>1, <2>2, <2>3 DEF Sweep, FlightsTyped
<1>3. ASSUME NEW t \in Tile, NEW p \in Player, NEW to \in Tile, InitiateHandoff(t, p, to)
      PROVE FlightsTyped' /\ RestTyped'
  <2>1. FlightsTyped' /\ Begins(FreshId, t, p, to)
    BY <1>3, InitiateBegins, FlightsAreTyped
  <2>2. QED
    BY <1>3, <2>1 DEF InitiateHandoff, Begins
<1>4. ASSUME NEW i \in Id, Forward(i) PROVE FlightsTyped' /\ RestTyped'
  <2>1. FlightsTyped' /\ Moves(i, IF flight[i].to \in registered THEN "forwarded" ELSE "failed")
    BY <1>4, FlightSteps, FlightsAreTyped
  <2>2. QED
    BY <1>4, <2>1 DEF Forward, Moves, MovesTo, SameMatter, SameSource, SameReceipt, SameStage
<1>5. ASSUME NEW i \in Id, ReceiveHandoff(i) PROVE FlightsTyped' /\ RestTyped'
  <2>1. FlightsTyped' /\ Answers(i, IF demanded \in PayloadFields THEN "restored" ELSE "failed")
    BY <1>5, FlightSteps, FlightsAreTyped
  <2>2. Receive(flight[i].to, i) /\ flight[i].stage # "unused" /\ flight[i].to \in Tile
    BY <1>5 DEF ReceiveHandoff
  <2>3. /\ body' \in [Tile -> [Player -> Body]]
        /\ seen' \in [Tile -> Seq(Id)] /\ \A u \in Tile : Len(seen'[u]) <= CacheMax
    BY <2>2, ReceiveTyped DEF Frame
  <2>4. QED
    BY <1>5, <2>1, <2>3 DEF ReceiveHandoff
<1>6. ASSUME NEW i \in Id, Locate(i) PROVE FlightsTyped' /\ RestTyped'
  <2>1. FlightsTyped' /\ Moves(i, "located")
    BY <1>6, FlightSteps, FlightsAreTyped
  <2>2. QED
    BY <1>6, <2>1 DEF Locate, Moves, MovesTo, SameMatter, SameSource, SameReceipt, SameStage
<1>7. ASSUME NEW i \in Id, Redirect(i) PROVE FlightsTyped' /\ RestTyped'
  <2>1. FlightsTyped' /\ Moves(i, "flushing")
    BY <1>7, FlightSteps, FlightsAreTyped
  <2>2. QED
    BY <1>7, <2>1 DEF Redirect, Moves, MovesTo, SameMatter, SameSource, SameReceipt, SameStage
<1>8. ASSUME NEW i \in Id, Complete(i) PROVE FlightsTyped' /\ RestTyped'
  <2>1. FlightsTyped' /\ Moves(i, "done")
    BY <1>8, FlightSteps, FlightsAreTyped
  <2>2. QED
    BY <1>8, <2>1 DEF Complete, Settle, Moves, MovesTo, SameMatter, SameSource, SameReceipt,
       SameStage
<1>9. ASSUME NEW i \in Id, GiveUp(i) PROVE FlightsTyped' /\ RestTyped'
  <2>1. FlightsTyped' /\ Moves(i, "done")
    BY <1>9, FlightSteps, FlightsAreTyped
  <2>2. QED
    BY <1>9, <2>1 DEF GiveUp, Settle, Moves, MovesTo, SameMatter, SameSource, SameReceipt,
       SameStage
<1>10. ASSUME NEW i \in Id, Unclaimed(i) PROVE FlightsTyped' /\ RestTyped'
  <2>1. FlightsTyped' /\ Moves(i, "done")
    BY <1>10, FlightSteps, FlightsAreTyped
  <2>2. QED
    BY <1>10, <2>1 DEF Unclaimed, Moves, MovesTo, SameMatter, SameSource, SameReceipt, SameStage
<1>11. ASSUME NEW i \in Id, Unreachable(i) PROVE FlightsTyped' /\ RestTyped'
  <2>1. FlightsTyped' /\ Moves(i, "failed")
    BY <1>11, FlightSteps, FlightsAreTyped
  <2>2. QED
    BY <1>11, <2>1 DEF Unreachable, Moves, MovesTo, SameMatter, SameSource, SameReceipt,
       SameStage
<1>12. ASSUME NEW i \in Id, LoseAnswer(i) PROVE FlightsTyped' /\ RestTyped'
  <2>1. FlightsTyped' /\ Moves(i, "failed")
    BY <1>12, FlightSteps, FlightsAreTyped
  <2>2. QED
    BY <1>12, <2>1 DEF LoseAnswer, Moves, MovesTo, SameMatter, SameSource, SameReceipt,
       SameStage
<1>13. ASSUME NEW i \in Id, ReceiveAgain(i) PROVE FlightsTyped' /\ RestTyped'
  <2>1. Receive(flight[i].to, i) /\ flight[i].stage # "unused" /\ flight[i].to \in Tile
    BY <1>13 DEF ReceiveAgain
  <2>2. /\ body' \in [Tile -> [Player -> Body]]
        /\ seen' \in [Tile -> Seq(Id)] /\ \A u \in Tile : Len(seen'[u]) <= CacheMax
    BY <2>1, ReceiveTyped DEF Frame
  <2>3. QED
    BY <1>13, <2>2 DEF ReceiveAgain, FlightsTyped
<1>14. ASSUME NEW t \in Tile, Evict(t) PROVE FlightsTyped' /\ RestTyped'
  BY <1>14 DEF Evict, FlightsTyped
<1>15. ASSUME NEW t \in Tile, Register(t) PROVE FlightsTyped' /\ RestTyped'
  BY <1>15 DEF Register, FlightsTyped
<1>16. ASSUME NEW t \in Tile, Crash(t) PROVE FlightsTyped' /\ RestTyped'
  <2>1. FlightsTyped' /\ Orphans(t)
    BY <1>16, CrashOrphans, FlightsAreTyped
  <2>2. QED
    BY <1>16, <2>1 DEF Crash, Orphans, SameMatter, SameReceipt, SameStage
<1>17. ASSUME NEW p \in Player, Connect(p) PROVE FlightsTyped' /\ RestTyped'
  <2>1. PICK t \in Tile : Join(t, p)
    BY <1>17 DEF Connect
  <2>2. QED
    BY <2>1, JoinTyped DEF FlightsTyped
<1>18. ASSUME NEW p \in Player, Arrive(p) PROVE FlightsTyped' /\ RestTyped'
  <2>1. crossing[p] \in Tile /\ Join(crossing[p], p)
    BY <1>18 DEF Arrive
  <2>2. QED
    BY <2>1, JoinTyped DEF FlightsTyped
<1>19. ASSUME NEW p \in Player, AbandonCrossing(p) PROVE FlightsTyped' /\ RestTyped'
  BY <1>19 DEF AbandonCrossing, FlightsTyped
<1>20. ASSUME NEW p \in Player, Leave(p) PROVE FlightsTyped' /\ RestTyped'
  BY <1>20 DEF Leave, FlightsTyped
<1>21. CASE UNCHANGED vars
  BY <1>21 DEF vars, FlightsTyped
<1>22. QED
  BY <1>1, <1>2, <1>3, <1>4, <1>5, <1>6, <1>7, <1>8, <1>9, <1>10, <1>11, <1>12, <1>13,
     <1>14, <1>15, <1>16, <1>17, <1>18, <1>19, <1>20, <1>21, StepCases

-----------------------------------------------------------------------------
(* What holds in every environment. *)

FlightsOK == FlightsTyped /\ (\A i \in Id : FlightOK(i)) /\ FlightsApart

LEMMA MovesKeep ==
    ASSUME FlightsOK, NEW i \in Id, InProgress(i), NEW s \in Stage \ {"unused"}, MovesTo(i, s),
           \A j \in Id \ {i} : SameReceipt(j),
           s \in {"requested", "forwarded"} => ~flight'[i].received,
           \A j \in Id : InProgress(j)' /\ flight[j].from # None =>
                            flight[j].player \in handingOff'[flight[j].from]
    PROVE  (\A j \in Id : FlightOK(j)') /\ FlightsApart'
<1>1. \A j \in Id : InProgress(j)' => InProgress(j)
  BY DEF MovesTo, SameStage, InProgress
<1>2. \A j \in Id : /\ flight'[j].player = flight[j].player /\ flight'[j].from = flight[j].from
                    /\ flight'[j].to = flight[j].to /\ flight'[j].carried = flight[j].carried
  BY DEF MovesTo, SameMatter, SameSource
<1>3. FlightsApart'
  BY <1>1, <1>2 DEF FlightsOK, FlightsApart
<1>4. FlightOK(i)'
  BY <1>2 DEF FlightsOK, FlightOK, InProgress, MovesTo
<1>5. ASSUME NEW j \in Id \ {i} PROVE FlightOK(j)'
  <2>1. flight'[j].stage = flight[j].stage /\ flight'[j].received = flight[j].received
    BY DEF MovesTo, SameStage, SameReceipt
  <2>2. FlightOK(j)
    BY DEF FlightsOK
  <2>3. QED
    BY <1>2, <2>1, <2>2 DEF FlightOK, InProgress
<1>6. QED
  BY <1>3, <1>4, <1>5

\* A flight that ends gives up its own claim on the player and no other.
LEMMA SettleKeeps ==
    ASSUME FlightsOK, RestTyped, NEW i \in Id, InProgress(i), Moves(i, "done"), Settle(i)
    PROVE  (\A j \in Id : FlightOK(j)') /\ FlightsApart'
<1>1. ASSUME NEW j \in Id, InProgress(j)', flight[j].from # None
      PROVE  flight[j].player \in handingOff'[flight[j].from]
  <2>1. j # i /\ InProgress(j)
    BY <1>1 DEF Moves, MovesTo, SameStage, InProgress
  <2>2. flight[j].player \in handingOff[flight[j].from] /\ flight[j].from \in Tile
    BY <1>1, <2>1 DEF FlightsOK, FlightOK, FlightsTyped, FlightType
  <2>3. ~(flight[j].from = flight[i].from /\ flight[j].player = flight[i].player)
    BY <1>1, <2>1 DEF FlightsOK, FlightsApart
  <2>4. QED
    BY <2>2, <2>3 DEF Settle, RestTyped
<1>2. QED
  BY <1>1, MovesKeep DEF Moves, Stage

\* Flights keep their matter and their source, one per source.
LEMMA FlightStep ==
    ASSUME TypeOK, FlightsTyped, RestTyped, FlightsOK, [Next]_vars
    PROVE  (\A j \in Id : FlightOK(j)') /\ FlightsApart'
<1>1. ASSUME NEW t \in Tile, NEW p \in Player, Play(t, p)
      PROVE (\A j \in Id : FlightOK(j)') /\ FlightsApart'
  BY <1>1 DEF Play, FlightsOK, FlightOK, FlightsApart, InProgress, env, clients, gateway
<1>2. ASSUME NEW t \in Tile, NEW p \in Player, Sweep(t, p)
      PROVE (\A j \in Id : FlightOK(j)') /\ FlightsApart'
  BY <1>2 DEF Sweep, FlightsOK, FlightOK, FlightsApart, InProgress, env, clients, gateway
<1>3. ASSUME NEW t \in Tile, NEW p \in Player, NEW to \in Tile, InitiateHandoff(t, p, to)
      PROVE (\A j \in Id : FlightOK(j)') /\ FlightsApart'
  <2>1. Begins(FreshId, t, p, to)
    BY <1>3, InitiateBegins, FlightsAreTyped
  <2>2. PICK n \in Id : n = FreshId
    BY <2>1 DEF Begins
  <2>3. /\ n \in Id /\ flight[n].stage = "unused" /\ p \notin handingOff[t]
        /\ handingOff' = [handingOff EXCEPT ![t] = @ \cup {p}] /\ to # t
        /\ body[t][p] \in 0 .. MaxChange
    BY <1>3, <2>1, <2>2 DEF InitiateHandoff, Begins, Body, RestTyped
  <2>4. FlightOK(n)'
    BY <2>1, <2>2, <2>3 DEF Begins, FlightOK, InProgress, RestTyped
  <2>5. ASSUME NEW j \in Id \ {n} PROVE FlightOK(j)'
    <3>1. flight'[j] = flight[j] /\ FlightOK(j)
      BY <2>1, <2>2 DEF Begins, FlightsOK
    <3>2. \A u \in Tile : handingOff[u] \subseteq handingOff'[u]
      BY <2>3 DEF RestTyped
    <3>3. flight[j].from \in Tile \cup {None}
      BY DEF FlightsOK, FlightsTyped, FlightType
    <3>4. QED
      BY <3>1, <3>2, <3>3 DEF FlightOK, InProgress
  <2>6. \A j \in Id : InProgress(j) => ~(flight[j].from = t /\ flight[j].player = p)
    BY <2>3, HandoffAssumption DEF FlightsOK, FlightOK
  <2>7. FlightsApart'
    <3>1. \A j \in Id \ {n} : flight'[j] = flight[j]
      BY <2>1, <2>2 DEF Begins
    <3>2. flight'[n].from = t /\ flight'[n].player = p
      BY <2>1, <2>2 DEF Begins
    <3>3. QED
      BY <2>6, <3>1, <3>2 DEF FlightsOK, FlightsApart, InProgress
  <2>8. QED
    BY <2>4, <2>5, <2>7
<1>4. ASSUME NEW i \in Id, Forward(i) PROVE (\A j \in Id : FlightOK(j)') /\ FlightsApart'
  <2>1. Moves(i, IF flight[i].to \in registered THEN "forwarded" ELSE "failed")
    BY <1>4, FlightSteps, FlightsAreTyped
  <2>2. InProgress(i) /\ handingOff' = handingOff
    BY <1>4 DEF Forward, InProgress, Advance
  <2>3. \A j \in Id : InProgress(j)' /\ flight[j].from # None =>
                         flight[j].player \in handingOff'[flight[j].from]
    BY <2>1, <2>2 DEF Moves, Answers, MovesTo, SameStage, InProgress, FlightsOK, FlightOK
  <2>4. QED
    BY <1>4, <2>1, <2>2, <2>3, MovesKeep DEF Moves, Answers, Forward, FlightsOK, FlightOK,
       SameReceipt, Stage
<1>5. ASSUME NEW i \in Id, ReceiveHandoff(i)
      PROVE (\A j \in Id : FlightOK(j)') /\ FlightsApart'
  <2>1. Answers(i, IF demanded \in PayloadFields THEN "restored" ELSE "failed")
    BY <1>5, FlightSteps, FlightsAreTyped
  <2>2. InProgress(i) /\ handingOff' = handingOff
    BY <1>5 DEF ReceiveHandoff, InProgress, Advance
  <2>3. \A j \in Id : InProgress(j)' /\ flight[j].from # None =>
                         flight[j].player \in handingOff'[flight[j].from]
    BY <2>1, <2>2 DEF Moves, Answers, MovesTo, SameStage, InProgress, FlightsOK, FlightOK
  <2>4. QED
    BY <1>5, <2>1, <2>2, <2>3, MovesKeep DEF Moves, Answers, ReceiveHandoff, FlightsOK,
       FlightOK, SameReceipt, Stage
<1>6. ASSUME NEW i \in Id, Locate(i) PROVE (\A j \in Id : FlightOK(j)') /\ FlightsApart'
  <2>1. Moves(i, "located")
    BY <1>6, FlightSteps, FlightsAreTyped
  <2>2. InProgress(i) /\ handingOff' = handingOff
    BY <1>6 DEF Locate, InProgress, Advance
  <2>3. \A j \in Id : InProgress(j)' /\ flight[j].from # None =>
                         flight[j].player \in handingOff'[flight[j].from]
    BY <2>1, <2>2 DEF Moves, Answers, MovesTo, SameStage, InProgress, FlightsOK, FlightOK
  <2>4. QED
    BY <1>6, <2>1, <2>2, <2>3, MovesKeep DEF Moves, Answers, Locate, FlightsOK, FlightOK,
       SameReceipt, Stage
<1>7. ASSUME NEW i \in Id, Redirect(i) PROVE (\A j \in Id : FlightOK(j)') /\ FlightsApart'
  <2>1. Moves(i, "flushing")
    BY <1>7, FlightSteps, FlightsAreTyped
  <2>2. InProgress(i) /\ handingOff' = handingOff
    BY <1>7 DEF Redirect, InProgress, Advance
  <2>3. \A j \in Id : InProgress(j)' /\ flight[j].from # None =>
                         flight[j].player \in handingOff'[flight[j].from]
    BY <2>1, <2>2 DEF Moves, Answers, MovesTo, SameStage, InProgress, FlightsOK, FlightOK
  <2>4. QED
    BY <1>7, <2>1, <2>2, <2>3, MovesKeep DEF Moves, Answers, Redirect, FlightsOK, FlightOK,
       SameReceipt, Stage
<1>8. ASSUME NEW i \in Id, Complete(i) PROVE (\A j \in Id : FlightOK(j)') /\ FlightsApart'
  <2>1. Moves(i, "done")
    BY <1>8, FlightSteps, FlightsAreTyped
  <2>2. InProgress(i) /\ Settle(i)
    BY <1>8 DEF Complete, InProgress
  <2>3. QED
    BY <2>1, <2>2, SettleKeeps
<1>9. ASSUME NEW i \in Id, GiveUp(i) PROVE (\A j \in Id : FlightOK(j)') /\ FlightsApart'
  <2>1. Moves(i, "done")
    BY <1>9, FlightSteps, FlightsAreTyped
  <2>2. InProgress(i) /\ Settle(i)
    BY <1>9 DEF GiveUp, InProgress
  <2>3. QED
    BY <2>1, <2>2, SettleKeeps
<1>10. ASSUME NEW i \in Id, Unclaimed(i) PROVE (\A j \in Id : FlightOK(j)') /\ FlightsApart'
  <2>1. Moves(i, "done")
    BY <1>10, FlightSteps, FlightsAreTyped
  <2>2. InProgress(i) /\ handingOff' = handingOff
    BY <1>10 DEF Unclaimed, InProgress, Advance
  <2>3. \A j \in Id : InProgress(j)' /\ flight[j].from # None =>
                         flight[j].player \in handingOff'[flight[j].from]
    BY <2>1, <2>2 DEF Moves, Answers, MovesTo, SameStage, InProgress, FlightsOK, FlightOK
  <2>4. QED
    BY <1>10, <2>1, <2>2, <2>3, MovesKeep DEF Moves, Answers, Unclaimed, FlightsOK, FlightOK,
       SameReceipt, Stage
<1>11. ASSUME NEW i \in Id, Unreachable(i)
       PROVE (\A j \in Id : FlightOK(j)') /\ FlightsApart'
  <2>1. Moves(i, "failed")
    BY <1>11, FlightSteps, FlightsAreTyped
  <2>2. InProgress(i) /\ handingOff' = handingOff
    BY <1>11 DEF Unreachable, InProgress, Advance
  <2>3. \A j \in Id : InProgress(j)' /\ flight[j].from # None =>
                         flight[j].player \in handingOff'[flight[j].from]
    BY <2>1, <2>2 DEF Moves, Answers, MovesTo, SameStage, InProgress, FlightsOK, FlightOK
  <2>4. QED
    BY <1>11, <2>1, <2>2, <2>3, MovesKeep DEF Moves, Answers, Unreachable, FlightsOK,
       FlightOK, SameReceipt, Stage
<1>12. ASSUME NEW i \in Id, LoseAnswer(i)
       PROVE (\A j \in Id : FlightOK(j)') /\ FlightsApart'
  <2>1. Moves(i, "failed")
    BY <1>12, FlightSteps, FlightsAreTyped
  <2>2. InProgress(i) /\ handingOff' = handingOff
    BY <1>12 DEF LoseAnswer, InProgress, Advance
  <2>3. \A j \in Id : InProgress(j)' /\ flight[j].from # None =>
                         flight[j].player \in handingOff'[flight[j].from]
    BY <2>1, <2>2 DEF Moves, Answers, MovesTo, SameStage, InProgress, FlightsOK, FlightOK
  <2>4. QED
    BY <1>12, <2>1, <2>2, <2>3, MovesKeep DEF Moves, Answers, LoseAnswer, FlightsOK, FlightOK,
       SameReceipt, Stage
<1>13. ASSUME NEW i \in Id, ReceiveAgain(i)
       PROVE (\A j \in Id : FlightOK(j)') /\ FlightsApart'
  BY <1>13 DEF ReceiveAgain, FlightsOK, FlightOK, FlightsApart, InProgress, env, clients,
     gateway
<1>14. ASSUME NEW t \in Tile, Evict(t) PROVE (\A j \in Id : FlightOK(j)') /\ FlightsApart'
  BY <1>14 DEF Evict, FlightsOK, FlightOK, FlightsApart, InProgress, env, clients, gateway
<1>15. ASSUME NEW t \in Tile, Register(t)
       PROVE (\A j \in Id : FlightOK(j)') /\ FlightsApart'
  BY <1>15 DEF Register, FlightsOK, FlightOK, FlightsApart, InProgress, env, clients, gateway
<1>16. ASSUME NEW t \in Tile, Crash(t) PROVE (\A j \in Id : FlightOK(j)') /\ FlightsApart'
  <2>1. Orphans(t)
    BY <1>16, CrashOrphans, FlightsAreTyped
  <2>2. \A j \in Id : /\ flight'[j].player = flight[j].player /\ flight'[j].to = flight[j].to
                      /\ flight'[j].stage = flight[j].stage
                      /\ flight'[j].carried = flight[j].carried
                      /\ flight'[j].received = flight[j].received
                      /\ flight'[j].from = IF flight[j].from = t THEN None ELSE flight[j].from
    BY <2>1 DEF Orphans, SameMatter, SameReceipt, SameStage
  <2>3. FlightsApart'
    BY <2>2 DEF FlightsOK, FlightsApart, InProgress
  <2>4. ASSUME NEW j \in Id PROVE FlightOK(j)'
    <3>1. FlightOK(j) /\ flight[j].from \in Tile \cup {None}
      BY DEF FlightsOK, FlightsTyped, FlightType
    <3>2. \A u \in Tile \ {t} : handingOff'[u] = handingOff[u]
      BY <1>16 DEF Crash, RestTyped
    <3>3. QED
      BY <2>2, <3>1, <3>2, HandoffAssumption DEF FlightOK, InProgress
  <2>5. QED
    BY <2>3, <2>4
<1>17. ASSUME NEW p \in Player, Connect(p)
       PROVE (\A j \in Id : FlightOK(j)') /\ FlightsApart'
  BY <1>17 DEF Connect, FlightsOK, FlightOK, FlightsApart, InProgress, env, clients, gateway,
     Join
<1>18. ASSUME NEW p \in Player, Arrive(p)
       PROVE (\A j \in Id : FlightOK(j)') /\ FlightsApart'
  BY <1>18 DEF Arrive, FlightsOK, FlightOK, FlightsApart, InProgress, env, clients, gateway,
     Join
<1>19. ASSUME NEW p \in Player, AbandonCrossing(p)
       PROVE (\A j \in Id : FlightOK(j)') /\ FlightsApart'
  BY <1>19 DEF AbandonCrossing, FlightsOK, FlightOK, FlightsApart, InProgress, env, clients,
     gateway
<1>20. ASSUME NEW p \in Player, Leave(p) PROVE (\A j \in Id : FlightOK(j)') /\ FlightsApart'
  BY <1>20 DEF Leave, FlightsOK, FlightOK, FlightsApart, InProgress, env, clients, gateway
<1>21. CASE UNCHANGED vars
  BY <1>21 DEF vars, FlightsOK, FlightOK, FlightsApart, InProgress
<1>22. QED
  BY <1>1, <1>2, <1>3, <1>4, <1>5, <1>6, <1>7, <1>8, <1>9, <1>10, <1>11, <1>12, <1>13,
     <1>14, <1>15, <1>16, <1>17, <1>18, <1>19, <1>20, <1>21, StepCases


LEMMA JoinSessions ==
    ASSUME RestTyped, Frame, NEW t \in Tile, NEW p \in Player, Joins(t, p)
    PROVE  (\A u \in Tile, q \in Player : SessionOK(u, q)') /\ \A q \in Player : ClientOK(q)'
<1>1. ASSUME NEW u \in Tile, NEW q \in Player PROVE SessionOK(u, q)'
  <2>1. SessionOK(u, q)
    BY DEF Frame
  <2>2. CASE u = t /\ q = p
    BY <2>2, HandoffAssumption DEF SessionOK, Joins
  <2>3. CASE ~(u = t /\ q = p)
    BY <2>1, <2>3 DEF SessionOK, Joins
  <2>4. QED
    BY <2>2, <2>3
<1>2. ASSUME NEW q \in Player PROVE ClientOK(q)'
  <2>1. ClientOK(q) /\ client[q] \in Tile \cup {None}
    BY DEF Frame, RestTyped
  <2>2. QED
    BY <2>1 DEF ClientOK, Joins
<1>3. QED
  BY <1>1, <1>2

\* Sessions have bodies and clients have sessions.
LEMMA SessionStep ==
    ASSUME TypeOK, FlightsTyped, RestTyped, Frame, [Next]_vars
    PROVE  (\A u \in Tile, q \in Player : SessionOK(u, q)') /\ \A q \in Player : ClientOK(q)'
<1> USE HandoffAssumption DEF RestTyped, Body, env, clients, gateway, InProgress, FlightOK,
    FlightsApart, Frame, SessionOK, ClientOK
<1>1. ASSUME NEW t \in Tile, NEW p \in Player, Play(t, p)
      PROVE (\A u \in Tile, q \in Player : SessionOK(u, q)') /\ \A q \in Player : ClientOK(q)'
  BY <1>1 DEF Play
<1>2. ASSUME NEW t \in Tile, NEW p \in Player, Sweep(t, p)
      PROVE (\A u \in Tile, q \in Player : SessionOK(u, q)') /\ \A q \in Player : ClientOK(q)'
  BY <1>2 DEF Sweep
<1>3. ASSUME NEW t \in Tile, NEW p \in Player, NEW to \in Tile, InitiateHandoff(t, p, to)
      PROVE (\A u \in Tile, q \in Player : SessionOK(u, q)') /\ \A q \in Player : ClientOK(q)'
  <2>1. Begins(FreshId, t, p, to)
    BY <1>3, InitiateBegins, FlightsAreTyped
  <2>2. QED
    BY <1>3, <2>1 DEF InitiateHandoff, Begins
<1>4. ASSUME NEW i \in Id, Forward(i)
      PROVE (\A u \in Tile, q \in Player : SessionOK(u, q)') /\ \A q \in Player : ClientOK(q)'
  <2>1. Moves(i, IF flight[i].to \in registered THEN "forwarded" ELSE "failed")
    BY <1>4, FlightSteps, FlightsAreTyped
  <2>2. QED
    BY <1>4, <2>1 DEF Forward, Moves, MovesTo, SameMatter, SameSource, SameReceipt, SameStage
<1>5. ASSUME NEW i \in Id, ReceiveHandoff(i)
      PROVE (\A u \in Tile, q \in Player : SessionOK(u, q)') /\ \A q \in Player : ClientOK(q)'
  <2>1. Answers(i, IF demanded \in PayloadFields THEN "restored" ELSE "failed")
    BY <1>5, FlightSteps, FlightsAreTyped
  <2>2. /\ Receive(flight[i].to, i) /\ flight[i].player \in Player /\ flight[i].to \in Tile
        /\ flight[i].carried # None
    BY <1>5, HandoffAssumption DEF ReceiveHandoff, Frame, FlightOK
  <2>3. UNCHANGED body \/ Restores(flight[i].to, i)
    BY <2>2, ReceivePoints
  <2>4. QED
    BY <1>5, <2>2, <2>3 DEF ReceiveHandoff, Restores
<1>6. ASSUME NEW i \in Id, Locate(i)
      PROVE (\A u \in Tile, q \in Player : SessionOK(u, q)') /\ \A q \in Player : ClientOK(q)'
  <2>1. Moves(i, "located")
    BY <1>6, FlightSteps, FlightsAreTyped
  <2>2. QED
    BY <1>6, <2>1 DEF Locate, Moves, MovesTo, SameMatter, SameSource, SameReceipt, SameStage
<1>7. ASSUME NEW i \in Id, Redirect(i)
      PROVE (\A u \in Tile, q \in Player : SessionOK(u, q)') /\ \A q \in Player : ClientOK(q)'
  <2>1. Moves(i, "flushing")
    BY <1>7, FlightSteps, FlightsAreTyped
  <2>2. QED
    BY <1>7, <2>1 DEF Redirect, Moves, MovesTo, SameMatter, SameSource, SameReceipt, SameStage
<1>8. ASSUME NEW i \in Id, Complete(i)
      PROVE (\A u \in Tile, q \in Player : SessionOK(u, q)') /\ \A q \in Player : ClientOK(q)'
  <2>1. Moves(i, "done")
    BY <1>8, FlightSteps, FlightsAreTyped
  <2>2. QED
    BY <1>8, <2>1 DEF Complete, Settle, Moves, MovesTo, SameMatter, SameSource, SameReceipt,
       SameStage
<1>9. ASSUME NEW i \in Id, GiveUp(i)
      PROVE (\A u \in Tile, q \in Player : SessionOK(u, q)') /\ \A q \in Player : ClientOK(q)'
  <2>1. Moves(i, "done")
    BY <1>9, FlightSteps, FlightsAreTyped
  <2>2. QED
    BY <1>9, <2>1 DEF GiveUp, Settle, Moves, MovesTo, SameMatter, SameSource, SameReceipt,
       SameStage
<1>10. ASSUME NEW i \in Id, Unclaimed(i)
       PROVE (\A u \in Tile, q \in Player : SessionOK(u, q)') /\ \A q \in Player : ClientOK(q)'
  <2>1. Moves(i, "done")
    BY <1>10, FlightSteps, FlightsAreTyped
  <2>2. QED
    BY <1>10, <2>1 DEF Unclaimed, Moves, MovesTo, SameMatter, SameSource, SameReceipt, SameStage
<1>11. ASSUME NEW i \in Id, Unreachable(i)
       PROVE (\A u \in Tile, q \in Player : SessionOK(u, q)') /\ \A q \in Player : ClientOK(q)'
  <2>1. Moves(i, "failed")
    BY <1>11, FlightSteps, FlightsAreTyped
  <2>2. QED
    BY <1>11, <2>1 DEF Unreachable, Moves, MovesTo, SameMatter, SameSource, SameReceipt,
       SameStage
<1>12. ASSUME NEW i \in Id, LoseAnswer(i)
       PROVE (\A u \in Tile, q \in Player : SessionOK(u, q)') /\ \A q \in Player : ClientOK(q)'
  <2>1. Moves(i, "failed")
    BY <1>12, FlightSteps, FlightsAreTyped
  <2>2. QED
    BY <1>12, <2>1 DEF LoseAnswer, Moves, MovesTo, SameMatter, SameSource, SameReceipt,
       SameStage
<1>13. ASSUME NEW i \in Id, ReceiveAgain(i)
       PROVE (\A u \in Tile, q \in Player : SessionOK(u, q)') /\ \A q \in Player : ClientOK(q)'
  <2>1. /\ Receive(flight[i].to, i) /\ flight[i].player \in Player /\ flight[i].to \in Tile
        /\ flight[i].carried # None
    <3>1. FlightOK(i) /\ flight[i].received /\ Receive(flight[i].to, i)
      BY <1>13 DEF ReceiveAgain, Frame
    <3>2. flight[i].stage # "unused"
      BY <3>1 DEF FlightOK
    <3>3. QED
      BY <3>1, <3>2, HandoffAssumption DEF FlightOK
  <2>2. UNCHANGED body \/ Restores(flight[i].to, i)
    BY <2>1, ReceivePoints
  <2>3. QED
    BY <1>13, <2>1, <2>2 DEF ReceiveAgain, Restores
<1>14. ASSUME NEW t \in Tile, Evict(t)
       PROVE (\A u \in Tile, q \in Player : SessionOK(u, q)') /\ \A q \in Player : ClientOK(q)'
  BY <1>14 DEF Evict
<1>15. ASSUME NEW t \in Tile, Register(t)
       PROVE (\A u \in Tile, q \in Player : SessionOK(u, q)') /\ \A q \in Player : ClientOK(q)'
  BY <1>15 DEF Register
<1>16. ASSUME NEW t \in Tile, Crash(t)
       PROVE (\A u \in Tile, q \in Player : SessionOK(u, q)') /\ \A q \in Player : ClientOK(q)'
  <2>1. Orphans(t)
    BY <1>16, CrashOrphans, FlightsAreTyped
  <2>2. QED
    BY <1>16, <2>1 DEF Crash, Orphans, SameMatter, SameReceipt, SameStage
<1>17. ASSUME NEW p \in Player, Connect(p)
       PROVE (\A u \in Tile, q \in Player : SessionOK(u, q)') /\ \A q \in Player : ClientOK(q)'
  <2>1. PICK t \in Tile : Join(t, p)
    BY <1>17 DEF Connect, RestTyped
  <2>2. Joins(t, p)
    BY <2>1, JoinPoints
  <2>3. QED
    BY <2>2, JoinSessions
<1>18. ASSUME NEW p \in Player, Arrive(p)
       PROVE (\A u \in Tile, q \in Player : SessionOK(u, q)') /\ \A q \in Player : ClientOK(q)'
  <2>1. crossing[p] \in Tile /\ Joins(crossing[p], p)
    BY <1>18, JoinPoints DEF Arrive, RestTyped
  <2>2. QED
    BY <2>1, JoinSessions
<1>19. ASSUME NEW p \in Player, AbandonCrossing(p)
       PROVE (\A u \in Tile, q \in Player : SessionOK(u, q)') /\ \A q \in Player : ClientOK(q)'
  BY <1>19 DEF AbandonCrossing
<1>20. ASSUME NEW p \in Player, Leave(p)
       PROVE (\A u \in Tile, q \in Player : SessionOK(u, q)') /\ \A q \in Player : ClientOK(q)'
  BY <1>20 DEF Leave
<1>21. CASE UNCHANGED vars
  BY <1>21 DEF vars
<1>22. QED
  BY <1>1, <1>2, <1>3, <1>4, <1>5, <1>6, <1>7, <1>8, <1>9, <1>10, <1>11, <1>12, <1>13,
     <1>14, <1>15, <1>16, <1>17, <1>18, <1>19, <1>20, <1>21, StepCases

-----------------------------------------------------------------------------
(* What the endpoint remembers. *)

Holds(s, j) == \E n \in DOMAIN s : s[n] = j

LEMMA HoldsAppend ==
    ASSUME NEW S, NEW s \in Seq(S), NEW e \in S
    PROVE  /\ Append(s, e) \in Seq(S) /\ Len(Append(s, e)) = Len(s) + 1
           /\ \A j : Holds(Append(s, e), j) <=> Holds(s, j) \/ j = e
<1>1. /\ Append(s, e) \in Seq(S) /\ Len(Append(s, e)) = Len(s) + 1 /\ Len(s) \in Nat
      /\ Append(s, e)[Len(s) + 1] = e
      /\ \A n \in 1 .. Len(s) : Append(s, e)[n] = s[n]
      /\ DOMAIN s = 1 .. Len(s) /\ DOMAIN Append(s, e) = 1 .. Len(s) + 1
  OBVIOUS
<1> DEFINE a == Append(s, e)
<1> HIDE DEF a
<1>2. ASSUME NEW j PROVE Holds(a, j) <=> Holds(s, j) \/ j = e
  <2>1. \A n \in 1 .. Len(s) + 1 : n \in 1 .. Len(s) \/ n = Len(s) + 1
    BY <1>1
  <2>2. Len(s) + 1 \in 1 .. Len(s) + 1 /\ 1 .. Len(s) \subseteq 1 .. Len(s) + 1
    BY <1>1
  <2>3. QED
    BY <1>1, <2>1, <2>2 DEF Holds, a
<1>3. QED
  BY <1>1, <1>2 DEF a

LEMMA HoldsTail ==
    ASSUME NEW S, NEW s \in Seq(S), s # <<>>, NEW j, Holds(Tail(s), j) PROVE Holds(s, j)
<1>1. /\ Len(s) \in Nat /\ Len(s) > 0 /\ Len(Tail(s)) = Len(s) - 1
      /\ DOMAIN s = 1 .. Len(s) /\ DOMAIN Tail(s) = 1 .. Len(s) - 1
      /\ \A n \in 1 .. Len(s) - 1 : Tail(s)[n] = s[n + 1] /\ n + 1 \in 1 .. Len(s)
  OBVIOUS
<1>2. PICK n \in 1 .. Len(s) - 1 : Tail(s)[n] = j
  BY <1>1 DEF Holds
<1>3. QED
  BY <1>1, <1>2 DEF Holds

\* The oldest ids are forgotten only when the memory is full.
LEMMA Memory ==
    ASSUME RestTyped, NEW t \in Tile, NEW i \in Id, Remember(t, i)
    PROVE  /\ \A j : Holds(seen'[t], j) => Holds(seen[t], j) \/ j = i
           /\ Len(seen[t]) < CacheMax =>
                 /\ Len(seen'[t]) = Len(seen[t]) + 1
                 /\ \A j : Holds(seen'[t], j) <=> Holds(seen[t], j) \/ j = i
           /\ \A u \in Tile \ {t} : seen'[u] = seen[u]
<1> DEFINE kept == IF Len(seen[t]) >= CacheMax THEN Tail(seen[t]) ELSE seen[t]
<1>1. seen[t] \in Seq(Id) /\ Len(seen[t]) \in Nat /\ CacheMax \in Nat \ {0}
  BY HandoffAssumption DEF RestTyped
<1>2. Len(seen[t]) >= CacheMax => seen[t] # <<>> /\ Tail(seen[t]) \in Seq(Id)
  BY <1>1
<1>3. kept \in Seq(Id) /\ (Len(seen[t]) < CacheMax => kept = seen[t])
  BY <1>1, <1>2
<1>4. \A j : Holds(kept, j) => Holds(seen[t], j)
  BY <1>1, <1>2, HoldsTail
<1>5. seen' = [seen EXCEPT ![t] = Append(kept, i)]
  BY DEF Remember
<1> HIDE DEF kept
<1>6. seen'[t] = Append(kept, i) /\ \A u \in Tile \ {t} : seen'[u] = seen[u]
  BY <1>5 DEF RestTyped
<1>7. Len(Append(kept, i)) = Len(kept) + 1
      /\ \A j : Holds(Append(kept, i), j) <=> Holds(kept, j) \/ j = i
  BY <1>3, HoldsAppend
<1>8. QED
  BY <1>3, <1>4, <1>6, <1>7

LEMMA RememberedHolds == \A t, i : Remembered(t, i) <=> Holds(seen[t], i)
  BY DEF Remembered, Holds

SameReceipts == seen' = seen /\ \A t \in Tile : Received(t)' = Received(t)

\* Only requests and restarts change what a tile has received or remembers.
LEMMA ReceiptCases ==
    ASSUME TypeOK, FlightsTyped, RestTyped, FlightsOK, [Next]_vars
    PROVE  \/ SameReceipts
           \/ \E i \in Id : ReceiveHandoff(i) \/ ReceiveAgain(i)
           \/ \E t \in Tile : Crash(t)
<1>1. ASSUME NEW t \in Tile, NEW p \in Player, Play(t, p) PROVE SameReceipts
  BY <1>1 DEF Play, SameReceipts, Received, clients
<1>2. ASSUME NEW t \in Tile, NEW p \in Player, Sweep(t, p) PROVE SameReceipts
  BY <1>2 DEF Sweep, SameReceipts, Received, clients
<1>3. ASSUME NEW t \in Tile, NEW p \in Player, NEW to \in Tile, InitiateHandoff(t, p, to)
      PROVE SameReceipts
  <2>1. Begins(FreshId, t, p, to)
    BY <1>3, InitiateBegins, FlightsAreTyped
  <2>2. PICK n \in Id : /\ n = FreshId /\ ~flight[n].received /\ ~flight'[n].received
                        /\ \A j \in Id \ {n} : flight'[j] = flight[j]
    BY <2>1 DEF Begins, FlightsOK, FlightOK
  <2>3. QED
    BY <1>3, <2>2 DEF InitiateHandoff, SameReceipts, Received
<1>4. ASSUME NEW i \in Id, Forward(i) PROVE SameReceipts
  <2>1. Moves(i, IF flight[i].to \in registered THEN "forwarded" ELSE "failed")
    BY <1>4, FlightSteps, FlightsAreTyped
  <2>2. QED
    BY <1>4, <2>1 DEF Forward, SameReceipts, Received, Moves, MovesTo, SameMatter, SameReceipt
<1>5. ASSUME NEW i \in Id, Locate(i) PROVE SameReceipts
  <2>1. Moves(i, "located")
    BY <1>5, FlightSteps, FlightsAreTyped
  <2>2. QED
    BY <1>5, <2>1 DEF Locate, SameReceipts, Received, Moves, MovesTo, SameMatter, SameReceipt
<1>6. ASSUME NEW i \in Id, Redirect(i) PROVE SameReceipts
  <2>1. Moves(i, "flushing")
    BY <1>6, FlightSteps, FlightsAreTyped
  <2>2. QED
    BY <1>6, <2>1 DEF Redirect, SameReceipts, Received, Moves, MovesTo, SameMatter, SameReceipt
<1>7. ASSUME NEW i \in Id, Complete(i) PROVE SameReceipts
  <2>1. Moves(i, "done")
    BY <1>7, FlightSteps, FlightsAreTyped
  <2>2. QED
    BY <1>7, <2>1 DEF Complete, Settle, SameReceipts, Received, Moves, MovesTo, SameMatter,
       SameReceipt
<1>8. ASSUME NEW i \in Id, GiveUp(i) PROVE SameReceipts
  <2>1. Moves(i, "done")
    BY <1>8, FlightSteps, FlightsAreTyped
  <2>2. QED
    BY <1>8, <2>1 DEF GiveUp, Settle, SameReceipts, Received, Moves, MovesTo, SameMatter,
       SameReceipt
<1>9. ASSUME NEW i \in Id, Unclaimed(i) PROVE SameReceipts
  <2>1. Moves(i, "done")
    BY <1>9, FlightSteps, FlightsAreTyped
  <2>2. QED
    BY <1>9, <2>1 DEF Unclaimed, SameReceipts, Received, Moves, MovesTo, SameMatter, SameReceipt
<1>10. ASSUME NEW i \in Id, Unreachable(i) PROVE SameReceipts
  <2>1. Moves(i, "failed")
    BY <1>10, FlightSteps, FlightsAreTyped
  <2>2. QED
    BY <1>10, <2>1 DEF Unreachable, SameReceipts, Received, Moves, MovesTo, SameMatter,
       SameReceipt
<1>11. ASSUME NEW i \in Id, LoseAnswer(i) PROVE SameReceipts
  <2>1. Moves(i, "failed")
    BY <1>11, FlightSteps, FlightsAreTyped
  <2>2. QED
    BY <1>11, <2>1 DEF LoseAnswer, SameReceipts, Received, Moves, MovesTo, SameMatter,
       SameReceipt
<1>12. ASSUME NEW t \in Tile, Evict(t) PROVE SameReceipts
  BY <1>12 DEF Evict, SameReceipts, Received, clients
<1>13. ASSUME NEW t \in Tile, Register(t) PROVE SameReceipts
  BY <1>13 DEF Register, SameReceipts, Received, clients
<1>14. ASSUME NEW p \in Player, Connect(p) PROVE SameReceipts
  BY <1>14 DEF Connect, SameReceipts, Received, clients, Join
<1>15. ASSUME NEW p \in Player, Arrive(p) PROVE SameReceipts
  BY <1>15 DEF Arrive, SameReceipts, Received, clients, Join
<1>16. ASSUME NEW p \in Player, AbandonCrossing(p) PROVE SameReceipts
  BY <1>16 DEF AbandonCrossing, SameReceipts, Received, clients
<1>17. ASSUME NEW p \in Player, Leave(p) PROVE SameReceipts
  BY <1>17 DEF Leave, SameReceipts, Received, clients
<1>18. CASE UNCHANGED vars
  BY <1>18 DEF vars, SameReceipts, Received
<1>19. QED
  BY <1>1, <1>2, <1>3, <1>4, <1>5, <1>6, <1>7, <1>8, <1>9, <1>10, <1>11, <1>12, <1>13, <1>14,
     <1>15, <1>16, <1>17, <1>18, StepCases


LEMMA ReceivedFinite == \A t \in Tile : IsFiniteSet(Received(t)) /\ Cardinality(Received(t)) \in Nat
<1>1. IsFiniteSet(Id)
  BY HandoffAssumption, FS_Interval DEF Id
<1>2. \A t \in Tile : Received(t) \subseteq Id
  BY DEF Received
<1>3. QED
  BY <1>1, <1>2, FS_Subset, FS_CardinalityType

\* A request adds its id to what its destination has received.
LEMMA RequestReceived ==
    ASSUME FlightsTyped, RestTyped, FlightsOK, NEW i \in Id, ReceiveHandoff(i)
    PROVE  /\ flight[i].to \in Tile /\ flight[i].player \in Player /\ i \notin Received(flight[i].to)
           /\ \A t \in Tile : Received(t)' = IF t = flight[i].to THEN Received(t) \cup {i}
                                             ELSE Received(t)
<1>1. Answers(i, IF demanded \in PayloadFields THEN "restored" ELSE "failed")
  BY FlightSteps
<1>2. /\ flight'[i].received /\ flight'[i].to = flight[i].to
      /\ \A j \in Id \ {i} : flight'[j].received = flight[j].received /\ flight'[j].to = flight[j].to
  BY <1>1 DEF Answers, MovesTo, SameMatter, SameReceipt
<1>3. flight[i].stage = "forwarded" /\ FlightOK(i)
  BY DEF ReceiveHandoff, FlightsOK
<1>4. flight[i].to \in Tile /\ flight[i].player \in Player /\ ~flight[i].received
  BY <1>3 DEF FlightOK
<1>5. i \notin Received(flight[i].to)
  BY <1>4 DEF Received
<1>6. ASSUME NEW t \in Tile
      PROVE  Received(t)' = IF t = flight[i].to THEN Received(t) \cup {i} ELSE Received(t)
  BY <1>2, <1>4 DEF Received
<1>7. QED
  BY <1>4, <1>5, <1>6

LEMMA AgainReceived ==
    ASSUME FlightsOK, NEW i \in Id, ReceiveAgain(i)
    PROVE  /\ flight[i].to \in Tile /\ flight[i].player \in Player /\ i \in Received(flight[i].to)
           /\ \A t \in Tile : Received(t)' = Received(t)
<1>1. flight[i].received /\ FlightOK(i) /\ flight' = flight
  BY DEF ReceiveAgain, FlightsOK
<1>2. QED
  BY <1>1 DEF FlightOK, Received

LEMMA CrashReceived ==
    ASSUME FlightsTyped, NEW t \in Tile, Crash(t) PROVE \A u \in Tile : Received(u)' = Received(u)
<1>1. Orphans(t)
  BY CrashOrphans
<1>2. QED
  BY <1>1 DEF Orphans, SameMatter, SameReceipt, Received

LEMMA EnvironmentKept == [Next]_vars => events' = events /\ demanded' = demanded
<1> SUFFICES ASSUME [Next]_vars PROVE events' = events /\ demanded' = demanded
  OBVIOUS
<1>1. QED
  BY StepCases
  DEF Play, Sweep, InitiateHandoff, Forward, ReceiveHandoff, Locate, Redirect, Complete, GiveUp,
      Unclaimed, Unreachable, LoseAnswer, ReceiveAgain, Evict, Register, Crash, Connect, Arrive,
      Join, AbandonCrossing, Leave, env, vars

\* What a tile has received only grows: duplicates that are recognised now
\* were recognised before.
LEMMA RecognisedBefore ==
    ASSUME FlightsTyped, RestTyped, FlightsOK, TypeOK, [Next]_vars, Recognised' PROVE Recognised
<1>1. \A t \in Tile : Received(t) \subseteq Received(t)'
  BY ReceiptCases, RequestReceived, AgainReceived, CrashReceived DEF SameReceipts
<1>2. \A t \in Tile : Cardinality(Received(t)) <= Cardinality(Received(t)')
  <2>1. (\A t \in Tile : IsFiniteSet(Received(t)) /\ Cardinality(Received(t)) \in Nat)'
    BY ReceivedFinite, PTL
  <2>2. QED
    BY <1>1, <2>1, FS_Subset
<1>3. events' = events
  BY EnvironmentKept
<1>4. \A t \in Tile : Cardinality(Received(t)) \in Nat /\ Cardinality(Received(t)') \in Nat
  <2>1. (\A t \in Tile : IsFiniteSet(Received(t)) /\ Cardinality(Received(t)) \in Nat)'
    BY ReceivedFinite, PTL
  <2>2. QED
    BY <2>1, ReceivedFinite
<1>5. CacheMax \in Nat
  BY HandoffAssumption
<1>6. QED
  BY <1>2, <1>3, <1>4, <1>5 DEF Recognised

\* The endpoint goes on remembering what it receives.
LEMMA MemoryStep ==
    ASSUME TypeOK, FlightsTyped, RestTyped, FlightsOK, RememberedReceived, Remembering,
    [Next]_vars
    PROVE  RememberedReceived' /\ Remembering'
<1>1. CASE SameReceipts
  <2>1. events' = events /\ demanded' = demanded
    BY EnvironmentKept
  <2>2. Recognised' <=> Recognised
    BY <1>1, <2>1 DEF Recognised, SameReceipts
  <2>3. QED
    BY <1>1, <2>1, <2>2 DEF SameReceipts, RememberedReceived, Remembering, Remembered
<1>2. ASSUME NEW i \in Id, ReceiveHandoff(i) PROVE RememberedReceived' /\ Remembering'
  <2> PICK t \in Tile : t = flight[i].to
    BY <1>2, RequestReceived
  <2>1. /\ flight[i].player \in Player /\ i \notin Received(t)
        /\ \A u \in Tile : Received(u)' = IF u = t THEN Received(u) \cup {i} ELSE Received(u)
    BY <1>2, RequestReceived
  <2>2. ~Remembered(t, i)
    BY <2>1 DEF RememberedReceived
  <2>3. IF demanded \notin PayloadFields THEN seen' = seen ELSE Remember(t, i)
    BY <1>2, <2>1, <2>2, ReceivePoints DEF ReceiveHandoff
  <2>4. RememberedReceived'
    <3>1. \A u \in Tile, j \in Id : Holds(seen'[u], j) => Holds(seen[u], j) \/ (u = t /\ j = i)
      BY <2>1, <2>3, Memory
    <3>2. QED
      BY <2>1, <3>1 DEF RememberedReceived, Remembered, Holds
  <2>5. Remembering'
    <3>1. SUFFICES ASSUME demanded \in PayloadFields, "duplicate" \in events, Recognised'
                   PROVE  \A u \in Tile : /\ Len(seen'[u]) = Cardinality(Received(u)')
                                          /\ \A j \in Received(u)' : Holds(seen'[u], j)
      BY EnvironmentKept DEF Remembering, Remembered, Holds
    <3>2. Remember(t, i)
      BY <2>3, <3>1
    <3>3. \A u \in Tile : /\ Len(seen[u]) = Cardinality(Received(u))
                          /\ \A j \in Received(u) : Holds(seen[u], j)
      BY <3>1, RecognisedBefore DEF Remembering, Remembered, Holds
    <3>4. Cardinality(Received(t)') = Cardinality(Received(t)) + 1
      BY <2>1, ReceivedFinite, FS_AddElement
    <3>5. Cardinality(Received(t)') <= CacheMax
      BY <2>1, <3>1, EnvironmentKept DEF Recognised
    <3>6. Len(seen[t]) < CacheMax
      BY <2>1, <3>3, <3>4, <3>5, ReceivedFinite, HandoffAssumption
    <3>7. /\ Len(seen'[t]) = Len(seen[t]) + 1
          /\ \A j : Holds(seen'[t], j) <=> Holds(seen[t], j) \/ j = i
          /\ \A u \in Tile \ {t} : seen'[u] = seen[u]
      BY <2>1, <3>2, <3>6, Memory
    <3>8. QED
      BY <2>1, <3>3, <3>4, <3>7
  <2>6. QED
    BY <2>4, <2>5
<1>3. ASSUME NEW i \in Id, ReceiveAgain(i) PROVE RememberedReceived' /\ Remembering'
  <2> PICK t \in Tile : t = flight[i].to
    BY <1>3, AgainReceived
  <2>1. /\ flight[i].player \in Player /\ i \in Received(t)
        /\ \A u \in Tile : Received(u)' = Received(u)
    BY <1>3, AgainReceived
  <2>2. "duplicate" \in events /\ Receive(t, i)
    BY <1>3 DEF ReceiveAgain
  <2>3. IF demanded \notin PayloadFields \/ Remembered(t, i) THEN seen' = seen
        ELSE Remember(t, i)
    BY <2>1, <2>2, ReceivePoints
  <2>4. RememberedReceived'
    <3>1. \A u \in Tile, j \in Id : Holds(seen'[u], j) => Holds(seen[u], j) \/ (u = t /\ j = i)
      BY <2>1, <2>3, Memory
    <3>2. QED
      BY <2>1, <3>1 DEF RememberedReceived, Remembered, Holds
  <2>5. Remembering'
    <3>1. SUFFICES ASSUME demanded \in PayloadFields, "duplicate" \in events, Recognised'
                   PROVE  \A u \in Tile : /\ Len(seen'[u]) = Cardinality(Received(u)')
                                          /\ \A j \in Received(u)' : Holds(seen'[u], j)
      BY EnvironmentKept DEF Remembering, Remembered, Holds
    <3>2. \A u \in Tile : /\ Len(seen[u]) = Cardinality(Received(u))
                          /\ \A j \in Received(u) : Remembered(u, j)
      BY <3>1, RecognisedBefore DEF Remembering
    <3>3. seen' = seen
      BY <2>1, <2>3, <3>1, <3>2
    <3>4. QED
      BY <2>1, <3>2, <3>3 DEF Remembered, Holds
  <2>6. QED
    BY <2>4, <2>5
<1>4. ASSUME NEW t \in Tile, Crash(t) PROVE RememberedReceived' /\ Remembering'
  <2>1. \A u \in Tile : Received(u)' = Received(u)
    BY <1>4, CrashReceived
  <2>2. seen' = [seen EXCEPT ![t] = <<>>] /\ "crash" \in events /\ events' = events
    BY <1>4 DEF Crash, env
  <2>3. seen'[t] = <<>> /\ \A u \in Tile \ {t} : seen'[u] = seen[u]
    BY <2>2 DEF RestTyped
  <2>4. RememberedReceived'
    BY <2>1, <2>3 DEF RememberedReceived, Remembered
  <2>5. Remembering'
    BY <2>2 DEF Remembering, Recognised
  <2>6. QED
    BY <2>4, <2>5
<1>5. QED
  BY <1>1, <1>2, <1>3, <1>4, ReceiptCases

LEMMA FrameStep == TypeOK /\ Frame /\ [Next]_vars => TypeOK' /\ Frame'
<1> SUFFICES ASSUME TypeOK, Frame, [Next]_vars PROVE TypeOK' /\ Frame'
  OBVIOUS
<1>1. FlightsTyped /\ RestTyped /\ FlightsOK
  BY FlightsAreTyped DEF Frame, FlightsOK
<1>2. FlightsTyped' /\ RestTyped'
  BY <1>1, TypeStep
<1>3. TypeOK'
  BY <1>2, FlightsAreTyped, PTL
<1>4. (\A i \in Id : FlightOK(i)') /\ FlightsApart'
  BY <1>1, FlightStep
<1>5. (\A t \in Tile, p \in Player : SessionOK(t, p)') /\ \A p \in Player : ClientOK(p)'
  BY <1>1, SessionStep
<1>6. RememberedReceived' /\ Remembering'
  BY <1>1, MemoryStep DEF Frame
<1>7. QED
  BY <1>3, <1>4, <1>5, <1>6 DEF Frame
-----------------------------------------------------------------------------
(* Whom a step is about. *)

SameFlight(i) ==
    /\ flight'[i].stage = flight[i].stage /\ flight'[i].player = flight[i].player
    /\ flight'[i].from = flight[i].from /\ flight'[i].to = flight[i].to
    /\ flight'[i].carried = flight[i].carried

SameAt(t, p) == (p \in session'[t] <=> p \in session[t]) /\ body'[t][p] = body[t][p]

SameClient(p) ==
    /\ client'[p] = client[p] /\ crossing'[p] = crossing[p]
    /\ lastTile'[p] = lastTile[p] /\ change'[p] = change[p]

Used(i, p) == flight[i].stage # "unused" /\ Of(i, p)

\* A step leaves p alone.
Untouched(p) ==
    /\ \A t \in Tile : SameAt(t, p)
    /\ SameClient(p)
    /\ \A i \in Id : Used(i, p) \/ Used(i, p)' => SameFlight(i)

LEMMA MovesUntouched ==
    ASSUME NEW i \in Id, NEW s, MovesTo(i, s), NEW p, ~Of(i, p)
    PROVE  \A j \in Id : Used(j, p) \/ Used(j, p)' => SameFlight(j)
  BY DEF MovesTo, SameMatter, SameSource, SameStage, Used, Of, SameFlight

\* The players a step does not name are left alone, and so is everybody when a
\* request that is recognised arrives again.
LEMMA Acting ==
    ASSUME TypeOK, FlightsTyped, RestTyped, Frame, NEW q \in Player, [Next]_vars
    PROVE  \/ Untouched(q)
           \/ \E t \in Tile : \/ Play(t, q) \/ Sweep(t, q) \/ Crash(t)
                              \/ \E to \in Tile : InitiateHandoff(t, q, to)
           \/ \E i \in Id : /\ Of(i, q)
                            /\ \/ Forward(i) \/ ReceiveHandoff(i) \/ Locate(i)
                               \/ Redirect(i) \/ Complete(i) \/ GiveUp(i) \/ Unclaimed(i)
                               \/ Unreachable(i) \/ LoseAnswer(i)
           \/ ~Recognised
           \/ Connect(q) \/ Arrive(q) \/ AbandonCrossing(q) \/ Leave(q)
<1> USE DEF RestTyped, env, clients, gateway, Untouched, SameAt, SameClient, SameFlight, Used
<1>1. ASSUME NEW t \in Tile, NEW p \in Player, Play(t, p), p # q PROVE Untouched(q)
  BY <1>1 DEF Play
<1>2. ASSUME NEW t \in Tile, NEW p \in Player, Sweep(t, p), p # q PROVE Untouched(q)
  BY <1>2 DEF Sweep
<1>3. ASSUME NEW t \in Tile, NEW p \in Player, NEW to \in Tile, InitiateHandoff(t, p, to), p # q
      PROVE Untouched(q)
  <2>1. Begins(FreshId, t, p, to)
    BY <1>3, InitiateBegins, FlightsAreTyped
  <2>2. PICK n \in Id : /\ flight[n].stage = "unused" /\ flight'[n].player = p
                        /\ \A j \in Id \ {n} : flight'[j] = flight[j]
    BY <2>1 DEF Begins
  <2>3. QED
    BY <1>3, <2>2 DEF InitiateHandoff, Of
<1>4. ASSUME NEW i \in Id, Forward(i), ~Of(i, q) PROVE Untouched(q)
  <2>1. Moves(i, IF flight[i].to \in registered THEN "forwarded" ELSE "failed")
    BY <1>4, FlightSteps, FlightsAreTyped
  <2>2. \A j \in Id : Used(j, q) \/ Used(j, q)' => SameFlight(j)
    BY <1>4, <2>1, MovesUntouched DEF Moves, Answers
  <2>3. QED
    BY <1>4, <2>2 DEF Forward, Of
<1>5. ASSUME NEW i \in Id, ReceiveHandoff(i), ~Of(i, q) PROVE Untouched(q)
  <2>1. Answers(i, IF demanded \in PayloadFields THEN "restored" ELSE "failed")
    BY <1>5, FlightSteps, FlightsAreTyped
  <2>2. \A j \in Id : Used(j, q) \/ Used(j, q)' => SameFlight(j)
    BY <1>5, <2>1, MovesUntouched DEF Answers
  <2>3. FlightOK(i) /\ flight[i].stage # "unused" /\ Receive(flight[i].to, i)
    BY <1>5 DEF ReceiveHandoff, Frame
  <2>4. flight[i].player \in Player /\ flight[i].to \in Tile
    BY <2>3 DEF FlightOK
  <2>5. \A t \in Tile : body'[t][q] = body[t][q]
    BY <1>5, <2>3, <2>4, ReceivePoints DEF Restores, Of
  <2>6. QED
    BY <1>5, <2>2, <2>5 DEF ReceiveHandoff
<1>6. ASSUME NEW i \in Id, Locate(i), ~Of(i, q) PROVE Untouched(q)
  <2>1. Moves(i, "located")
    BY <1>6, FlightSteps, FlightsAreTyped
  <2>2. \A j \in Id : Used(j, q) \/ Used(j, q)' => SameFlight(j)
    BY <1>6, <2>1, MovesUntouched DEF Moves, Answers
  <2>3. QED
    BY <1>6, <2>2 DEF Locate, Of
<1>7. ASSUME NEW i \in Id, Redirect(i), ~Of(i, q) PROVE Untouched(q)
  <2>1. Moves(i, "flushing")
    BY <1>7, FlightSteps, FlightsAreTyped
  <2>2. \A j \in Id : Used(j, q) \/ Used(j, q)' => SameFlight(j)
    BY <1>7, <2>1, MovesUntouched DEF Moves, Answers
  <2>3. QED
    BY <1>7, <2>2 DEF Redirect, Of
<1>8. ASSUME NEW i \in Id, Complete(i), ~Of(i, q) PROVE Untouched(q)
  <2>1. Moves(i, "done")
    BY <1>8, FlightSteps, FlightsAreTyped
  <2>2. \A j \in Id : Used(j, q) \/ Used(j, q)' => SameFlight(j)
    BY <1>8, <2>1, MovesUntouched DEF Moves, Answers
  <2>3. QED
    BY <1>8, <2>2 DEF Complete, Settle, Of
<1>9. ASSUME NEW i \in Id, GiveUp(i), ~Of(i, q) PROVE Untouched(q)
  <2>1. Moves(i, "done")
    BY <1>9, FlightSteps, FlightsAreTyped
  <2>2. \A j \in Id : Used(j, q) \/ Used(j, q)' => SameFlight(j)
    BY <1>9, <2>1, MovesUntouched DEF Moves, Answers
  <2>3. QED
    BY <1>9, <2>2 DEF GiveUp, Settle, Of
<1>10. ASSUME NEW i \in Id, Unclaimed(i), ~Of(i, q) PROVE Untouched(q)
  <2>1. Moves(i, "done")
    BY <1>10, FlightSteps, FlightsAreTyped
  <2>2. \A j \in Id : Used(j, q) \/ Used(j, q)' => SameFlight(j)
    BY <1>10, <2>1, MovesUntouched DEF Moves, Answers
  <2>3. QED
    BY <1>10, <2>2 DEF Unclaimed, Of
<1>11. ASSUME NEW i \in Id, Unreachable(i), ~Of(i, q) PROVE Untouched(q)
  <2>1. Moves(i, "failed")
    BY <1>11, FlightSteps, FlightsAreTyped
  <2>2. \A j \in Id : Used(j, q) \/ Used(j, q)' => SameFlight(j)
    BY <1>11, <2>1, MovesUntouched DEF Moves, Answers
  <2>3. QED
    BY <1>11, <2>2 DEF Unreachable, Of
<1>12. ASSUME NEW i \in Id, LoseAnswer(i), ~Of(i, q) PROVE Untouched(q)
  <2>1. Moves(i, "failed")
    BY <1>12, FlightSteps, FlightsAreTyped
  <2>2. \A j \in Id : Used(j, q) \/ Used(j, q)' => SameFlight(j)
    BY <1>12, <2>1, MovesUntouched DEF Moves, Answers
  <2>3. QED
    BY <1>12, <2>2 DEF LoseAnswer, Of
<1>13. ASSUME NEW i \in Id, ReceiveAgain(i), Recognised PROVE Untouched(q)
  <2>1. FlightOK(i) /\ flight[i].received /\ Receive(flight[i].to, i) /\ flight' = flight
    BY <1>13 DEF ReceiveAgain, Frame
  <2>2. flight[i].player \in Player /\ flight[i].to \in Tile /\ i \in Received(flight[i].to)
    BY <2>1 DEF FlightOK, Received
  <2>3. demanded \notin PayloadFields \/ Remembered(flight[i].to, i)
    BY <1>13, <2>2 DEF ReceiveAgain, Frame, Remembering
  <2>4. UNCHANGED body
    BY <2>1, <2>2, <2>3, ReceivePoints
  <2>5. QED
    BY <1>13, <2>1, <2>4 DEF ReceiveAgain
<1>14. ASSUME NEW t \in Tile, Evict(t) PROVE Untouched(q)
  BY <1>14 DEF Evict
<1>15. ASSUME NEW t \in Tile, Register(t) PROVE Untouched(q)
  BY <1>15 DEF Register
<1>16. ASSUME NEW p \in Player, Connect(p), p # q PROVE Untouched(q)
  <2>1. PICK t \in Tile : Joins(t, p)
    BY <1>16, JoinPoints DEF Connect
  <2>2. QED
    BY <1>16, <2>1 DEF Joins
<1>17. ASSUME NEW p \in Player, Arrive(p), p # q PROVE Untouched(q)
  <2>1. crossing[p] \in Tile /\ Joins(crossing[p], p)
    BY <1>17, JoinPoints DEF Arrive
  <2>2. QED
    BY <1>17, <2>1 DEF Joins
<1>18. ASSUME NEW p \in Player, AbandonCrossing(p), p # q PROVE Untouched(q)
  BY <1>18 DEF AbandonCrossing
<1>19. ASSUME NEW p \in Player, Leave(p), p # q PROVE Untouched(q)
  BY <1>19 DEF Leave
<1>20. CASE UNCHANGED vars
  BY <1>20 DEF vars
<1> HIDE DEF Untouched
<1>21. QED
  BY <1>1, <1>2, <1>3, <1>4, <1>5, <1>6, <1>7, <1>8, <1>9, <1>10, <1>11, <1>12, <1>13, <1>14,
     <1>15, <1>16, <1>17, <1>18, <1>19, <1>20, StepCases

-----------------------------------------------------------------------------
(* One step about one player. *)

Held(p) ==
    /\ TypeOK /\ FlightsTyped /\ RestTyped /\ Frame
    /\ Single /\ registered = Tile /\ SingleOK(p)

\* What the step has to preserve.
Kept(p) ==
    /\ SingleOK(p)'
    /\ Forwards /\ ForwardsOK(p) => ForwardsOK(p)'
    /\ Forwards /\ ForwardsOK(p) /\ AwaitedOK(p) /\ "crash" \notin events => AwaitedOK(p)'

\* Where p is active, and where a body of it waits, is what it was; its
\* handoffs at most end.
Calm(p) ==
    /\ \A t \in Tile :
          /\ (Active(t, p)' <=> Active(t, p)) /\ (Loose(t, p)' <=> Loose(t, p))
          /\ Active(t, p) \/ Loose(t, p) => body'[t][p] = body[t][p]
    /\ \A i \in Id : InProgress(i)' /\ Of(i, p)' =>
          /\ InProgress(i) /\ Of(i, p) /\ SameMatter(i) /\ SameSource(i)
          /\ Pending(i)' => Pending(i) /\ (flight[i].stage = "failed" => flight'[i].stage = "failed")
          /\ Arrived(i)' => Arrived(i)
    /\ client'[p] \in {client[p], None} /\ crossing'[p] \in {crossing[p], None}
    /\ change'[p] = change[p]

\* Moreover its handoffs await their ends as before.
Steady(p) ==
    /\ Calm(p) /\ lastTile'[p] = lastTile[p]
    /\ \A i \in Id : Of(i, p) =>
          /\ Pending(i) => Pending(i)' /\ Of(i, p)'
          /\ Arrived(i) => Arrived(i)'
          /\ flight'[i].stage = "located" /\ Of(i, p)' => flight[i].stage = "located"

LEMMA CalmForwards ==
    ASSUME NEW p \in Player, Calm(p), ForwardsOK(p) PROVE  ForwardsOK(p)'
<1>1. (\A i \in Id : Pending(i) => InProgress(i)) /\ (\A i \in Id : Pending(i) => InProgress(i))'
  BY DEF Pending, InProgress
<1>2. \A i, j \in Id : (InProgress(i) /\ InProgress(j) /\ Of(i, p) /\ Of(j, p))' => i = j
  BY DEF Calm, ForwardsOK
<1>3. \A t \in Tile : client'[p] = t => Active(t, p)'
  BY HandoffAssumption DEF Calm, ForwardsOK
<1>4. ASSUME NEW i \in Id, Of(i, p)'
      PROVE  /\ InProgress(i)' /\ crossing'[p] # None => flight'[i].to = crossing'[p]
             /\ Pending(i)' /\ flight'[i].stage # "failed" => flight'[i].carried = change'[p]
  BY <1>1, <1>4 DEF Calm, ForwardsOK, SameMatter
<1>5. \A t \in Tile : Current(t, p)'
  BY DEF Calm, ForwardsOK, Current
<1>6. QED
  BY <1>2, <1>3, <1>4, <1>5 DEF ForwardsOK

LEMMA CalmAwaited ==
    ASSUME NEW p \in Player, Calm(p), AwaitedOK(p)
    PROVE  AwaitedOK(p)'
<1>1. ASSUME NEW i \in Id, NEW t \in Tile, Arrived(i)', Of(i, p)', flight'[i].to = t
      PROVE  Loose(t, p)'
  <2>1. InProgress(i)'
    BY <1>1 DEF Arrived, InProgress
  <2>2. Of(i, p) /\ Arrived(i) /\ flight[i].to = t
    BY <1>1, <2>1 DEF Calm, SameMatter
  <2>3. QED
    BY <2>2 DEF Calm, AwaitedOK
<1>2. \A t \in Tile : crossing'[p] = t => Loose(t, p)'
  BY HandoffAssumption DEF Calm, AwaitedOK
<1>3. QED
  BY <1>1, <1>2 DEF AwaitedOK

LEMMA SteadySingle ==
    ASSUME NEW p \in Player, Steady(p), SingleOK(p)
    PROVE  SingleOK(p)'
<1>1. \A i \in Id : Pending(i)' /\ Of(i, p)' =>
          /\ Pending(i) /\ Of(i, p) /\ SameMatter(i) /\ SameSource(i)
  BY DEF Steady, Calm, Pending, InProgress
<1>2. \A i \in Id : Arrived(i) /\ Of(i, p) => Arrived(i)' /\ Of(i, p)' /\ flight'[i].to = flight[i].to
  BY <1>1 DEF Steady, Arrived, Pending, SameMatter
<1>3. (NobodyActive(p)' <=> NobodyActive(p)) /\ OneActive(p)'
  BY DEF Steady, Calm, NobodyActive, OneActive, SingleOK
<1>4. OnePending(p)' /\ (NonePending(p) => NonePending(p)')
  BY <1>1 DEF OnePending, NonePending, SingleOK
<1>5. lastTile'[p] = lastTile[p] /\ crossing'[p] \in {crossing[p], None}
  BY DEF Steady, Calm
<1>6. CrossingOK(p)'
  BY <1>3, <1>5 DEF CrossingOK, SingleOK
<1>7. ASSUME NEW i \in Id PROVE PendingOK(i, p)'
  BY <1>1, <1>3, <1>5 DEF PendingOK, SingleOK, Steady, SameSource, SameMatter
<1>8. ASSUME NEW u \in Tile PROVE LooseOK(u, p)'
  <2>1. Loose(u, p)' => Loose(u, p)
    BY DEF Steady, Calm
  <2>2. QED
    BY <1>2, <1>3, <1>4, <1>5, <2>1 DEF LooseOK, SingleOK
<1>9. QED
  BY <1>3, <1>4, <1>6, <1>7, <1>8 DEF SingleOK

LEMMA SteadyKept ==
    ASSUME NEW p \in Player, Held(p), Steady(p) PROVE Kept(p)
<1>1. SingleOK(p)'
  BY SteadySingle DEF Held
<1>2. ForwardsOK(p) => ForwardsOK(p)'
  BY CalmForwards DEF Steady
<1>3. AwaitedOK(p) => AwaitedOK(p)'
  BY CalmAwaited DEF Steady
<1>4. QED
  BY <1>1, <1>2, <1>3 DEF Kept

LEMMA CalmKept ==
    ASSUME NEW p \in Player, Held(p), Calm(p), SingleOK(p)' PROVE Kept(p)
<1>1. ForwardsOK(p) => ForwardsOK(p)'
  BY CalmForwards
<1>2. AwaitedOK(p) => AwaitedOK(p)'
  BY CalmAwaited
<1>3. QED
  BY <1>1, <1>2 DEF Kept

\* What p's flights have become tells where p is active.
SameFlushing(p) == \A t \in Tile : Flushing(t, p)' <=> Flushing(t, p)

LEMMA UntouchedSteady ==
    ASSUME NEW p \in Player, Untouched(p) PROVE Steady(p)
<1>1. \A i \in Id : Used(i, p) \/ Used(i, p)' =>
          /\ SameFlight(i) /\ Of(i, p) /\ Of(i, p)'
  BY DEF Untouched, Used, SameFlight, Of
<1>2. \A i \in Id : Pending(i) \/ flight[i].stage = "flushing" => flight[i].stage # "unused" /\ InProgress(i)
  BY DEF Pending, InProgress
<1>3. \A i \in Id : Pending(i)' \/ flight'[i].stage = "flushing" => flight'[i].stage # "unused"
  BY DEF Pending
<1>4. SameFlushing(p)
  BY <1>1, <1>2, <1>3 DEF SameFlushing, Flushing, Used, SameFlight
<1>5. \A t \in Tile : /\ Active(t, p)' <=> Active(t, p)
                      /\ Loose(t, p)' <=> Loose(t, p)
                      /\ body'[t][p] = body[t][p]
  BY <1>4 DEF Untouched, SameAt, SameFlushing, Active, Loose
<1>6. ASSUME NEW i \in Id, InProgress(i)', Of(i, p)'
      PROVE  /\ InProgress(i) /\ Of(i, p) /\ SameMatter(i) /\ SameSource(i)
             /\ flight'[i].stage = flight[i].stage
  BY <1>1, <1>6 DEF InProgress, SameFlight, Used, SameMatter, SameSource
<1>7. ASSUME NEW i \in Id, Of(i, p)
      PROVE  /\ Pending(i) => Pending(i)' /\ Of(i, p)'
             /\ Arrived(i) => Arrived(i)'
             /\ flight'[i].stage = "located" /\ Of(i, p)' => flight[i].stage = "located"
  <2>1. CASE flight[i].stage # "unused"
    BY <1>1, <1>7, <2>1 DEF SameFlight, Used, Pending, Arrived
  <2>2. CASE flight[i].stage = "unused"
    BY <1>1, <1>7, <2>2 DEF SameFlight, Used, Pending, Arrived
  <2>3. QED
    BY <2>1, <2>2
<1>8. Calm(p)
  BY <1>5, <1>6 DEF Calm, Untouched, SameClient, Pending, Arrived
<1>9. QED
  BY <1>7, <1>8 DEF Steady, Untouched, SameClient

\* Where a handoff that still runs comes from, the player is.
LEMMA SourceKnows ==
    ASSUME NEW p \in Player, Held(p), NEW i \in Id, InProgress(i), Of(i, p),
    flight[i].from # None
    PROVE  /\ flight[i].from \in Tile /\ p \in session[flight[i].from]
           /\ p \in handingOff[flight[i].from]
           /\ Pending(i) => Active(flight[i].from, p)
<1>1. flight[i].from \in Tile /\ p \in handingOff[flight[i].from]
  BY DEF Held, FlightsTyped, FlightType, Frame, FlightOK, Of
<1>2. p \in session[flight[i].from]
  BY <1>1 DEF Held, RestTyped
<1>3. ASSUME Pending(i), Flushing(flight[i].from, p) PROVE FALSE
  <2>1. PICK j \in Id : flight[j].stage = "flushing" /\ Of(j, p) /\ flight[j].from = flight[i].from
    BY <1>3 DEF Flushing
  <2>2. i = j
    BY <2>1 DEF Held, Frame, FlightsApart, InProgress, Of
  <2>3. QED
    BY <1>3, <2>1, <2>2 DEF Pending
<1>4. QED
  BY <1>1, <1>2, <1>3 DEF Active

\* A tile that has the player and hands it to nobody has all of it.
LEMMA Alone ==
    ASSUME NEW p \in Player, Held(p), NEW t \in Tile, p \in session[t], p \notin handingOff[t]
    PROVE  /\ \A u \in Tile : Active(u, p) <=> u = t
           /\ NonePending(p) /\ crossing[p] = None
           /\ \A u \in Tile : ~Loose(u, p)
<1>1. Active(t, p)
  <2>1. ASSUME Flushing(t, p) PROVE FALSE
    <3>1. PICK j \in Id : flight[j].stage = "flushing" /\ Of(j, p) /\ flight[j].from = t
      BY <2>1 DEF Flushing
    <3>2. InProgress(j) /\ flight[j].from # None
      BY <3>1, HandoffAssumption DEF InProgress
    <3>3. QED
      BY <3>1, <3>2, SourceKnows
  <2>2. QED
    BY <2>1 DEF Active
<1>2. \A u \in Tile : Active(u, p) <=> u = t
  BY <1>1 DEF Held, SingleOK, OneActive
<1>3. NonePending(p)
  <2>1. ASSUME NEW i \in Id, Pending(i), Of(i, p) PROVE FALSE
    <3>1. InProgress(i)
      BY <2>1 DEF Pending, InProgress
    <3>2. flight[i].from # None
      BY <1>1, <2>1 DEF Held, SingleOK, PendingOK, NobodyActive
    <3>3. flight[i].from = t /\ p \in handingOff[flight[i].from]
      BY <1>2, <2>1, <3>1, <3>2, SourceKnows
    <3>4. QED
      BY <3>3
  <2>2. QED
    BY <2>1 DEF NonePending
<1>4. crossing[p] = None
  BY <1>1 DEF Held, SingleOK, CrossingOK, NobodyActive
<1>5. ASSUME NEW u \in Tile, Loose(u, p) PROVE FALSE
  <2>1. ~NobodyActive(p)
    BY <1>1 DEF NobodyActive
  <2>2. LooseOK(u, p)
    BY DEF Held, SingleOK
  <2>3. \A i \in Id : ~(Arrived(i) /\ Of(i, p))
    BY <1>3 DEF NonePending, Arrived, Pending
  <2>4. QED
    BY <1>5, <2>1, <2>2, <2>3 DEF LooseOK
<1>6. QED
  BY <1>2, <1>3, <1>4, <1>5

\* A flight that moves leaves the others alone.
LEMMA Moved ==
    ASSUME NEW p \in Player, NEW i \in Id, NEW s, MovesTo(i, s)
    PROVE  /\ flight'[i].stage = s
           /\ \A j \in Id : Of(j, p)' <=> Of(j, p)
           /\ \A j \in Id : SameMatter(j) /\ SameSource(j)
           /\ \A j \in Id \ {i} : flight'[j].stage = flight[j].stage
           /\ \A j \in Id \ {i} : /\ Pending(j)' <=> Pending(j)
                                  /\ Arrived(j)' <=> Arrived(j)
                                  /\ InProgress(j)' <=> InProgress(j)
           /\ s # "flushing" /\ (flight[i].stage # "flushing" \/ flight[i].from = None)
              => SameFlushing(p)
<1>1. /\ flight'[i].stage = s
      /\ \A j \in Id : Of(j, p)' <=> Of(j, p)
      /\ \A j \in Id : SameMatter(j) /\ SameSource(j)
      /\ \A j \in Id \ {i} : flight'[j].stage = flight[j].stage
  BY DEF MovesTo, SameMatter, SameSource, SameStage, Of
<1>2. ASSUME s # "flushing", flight[i].stage # "flushing" \/ flight[i].from = None
      PROVE  SameFlushing(p)
  <2>1. ASSUME NEW t \in Tile PROVE Flushing(t, p)' <=> Flushing(t, p)
    BY <1>1, <1>2, HandoffAssumption DEF Flushing, SameSource
  <2>2. QED
    BY <2>1 DEF SameFlushing
<1>3. QED
  BY <1>1, <1>2 DEF Pending, Arrived, InProgress

SameHere(p) ==
    /\ \A t \in Tile : (p \in session'[t] <=> p \in session[t]) /\ body'[t][p] = body[t][p]
    /\ client'[p] = client[p] /\ crossing'[p] = crossing[p] /\ change'[p] = change[p]

LEMMA SameHereViews ==
    ASSUME NEW p \in Player, SameHere(p), SameFlushing(p)
    PROVE  \A t \in Tile : /\ (Active(t, p)' <=> Active(t, p)) /\ (Loose(t, p)' <=> Loose(t, p))
                           /\ body'[t][p] = body[t][p]
  BY DEF SameHere, SameFlushing, Active, Loose

\* A flight moves, and nothing else about the player.
LEMMA MoveCalm ==
    ASSUME NEW p \in Player, NEW i \in Id, NEW s, MovesTo(i, s), InProgress(i), Of(i, p),
           Pending(i)' => Pending(i) /\ (flight[i].stage = "failed" => s = "failed"),
           Arrived(i)' => Arrived(i), SameFlushing(p), SameHere(p)
    PROVE  Calm(p)
  BY Moved, SameHereViews DEF Calm, SameHere

LEMMA KeptForward ==
    ASSUME NEW p \in Player, Held(p), NEW i \in Id, Of(i, p), Forward(i) PROVE Kept(p) /\ Calm(p)
<1> DEFINE s == IF flight[i].to \in registered THEN "forwarded" ELSE "failed"
<1>1. MovesTo(i, s) /\ flight[i].stage = "requested"
  BY FlightSteps DEF Held, Moves, Forward
<1>2. s \in {"forwarded", "failed"}
  OBVIOUS
<1> HIDE DEF s
<1>3. SameFlushing(p) /\ SameHere(p) /\ lastTile'[p] = lastTile[p]
  BY <1>1, <1>2, Moved DEF Forward, SameHere, clients, gateway
<1>4. InProgress(i) /\ Pending(i) /\ Pending(i)' /\ ~Arrived(i)' /\ ~Arrived(i)
  BY <1>1, <1>2, Moved DEF InProgress, Pending, Arrived
<1>5. Calm(p)
  BY <1>1, <1>3, <1>4, MoveCalm
<1>6. Steady(p)
  BY <1>1, <1>2, <1>3, <1>4, <1>5, Moved DEF Steady
<1>7. QED
  BY <1>5, <1>6, SteadyKept

LEMMA KeptUnreachable ==
    ASSUME NEW p \in Player, Held(p), NEW i \in Id, Of(i, p), Unreachable(i) PROVE Kept(p) /\ Calm(p)
<1>1. MovesTo(i, "failed") /\ flight[i].stage = "forwarded"
  BY FlightSteps DEF Held, Moves, Unreachable
<1>2. SameFlushing(p) /\ SameHere(p) /\ lastTile'[p] = lastTile[p]
  BY <1>1, Moved DEF Unreachable, SameHere, clients, gateway
<1>3. InProgress(i) /\ Pending(i) /\ Pending(i)' /\ ~Arrived(i)' /\ ~Arrived(i)
  BY <1>1, Moved DEF InProgress, Pending, Arrived
<1>4. Calm(p)
  BY <1>1, <1>2, <1>3, MoveCalm
<1>5. Steady(p)
  BY <1>1, <1>2, <1>3, <1>4, Moved DEF Steady
<1>6. QED
  BY <1>4, <1>5, SteadyKept

\* With one handoff that has not redirected its client, what is said of the
\* pending ones is said of that.
LEMMA OnlyPending ==
    ASSUME NEW p \in Player, SingleOK(p), NEW i \in Id, Pending(i), Of(i, p)
    PROVE  /\ \A j \in Id : Pending(j) /\ Of(j, p) => j = i
           /\ crossing[p] = None
           /\ flight[i].from = None => NobodyActive(p)
           /\ \A u \in Tile : Loose(u, p) => Arrived(i) /\ flight[i].to = u
<1>1. \A j \in Id : Pending(j) /\ Of(j, p) => j = i
  BY DEF SingleOK, OnePending
<1>2. \A j \in Id : Arrived(j) => Pending(j)
  BY DEF Arrived, Pending
<1>3. QED
  BY <1>1, <1>2 DEF SingleOK, PendingOK, LooseOK, NonePending

LEMMA KeptLocate ==
    ASSUME NEW p \in Player, Held(p), NEW i \in Id, Of(i, p), Locate(i) PROVE Kept(p) /\ Calm(p)
<1>1. MovesTo(i, "located") /\ flight[i].stage = "restored"
  BY FlightSteps DEF Held, Moves, Locate
<1>2. SameFlushing(p) /\ SameHere(p)
  BY <1>1, Moved DEF Locate, SameHere, clients, gateway
<1>3. InProgress(i) /\ Pending(i) /\ Pending(i)' /\ Arrived(i) /\ Arrived(i)'
  BY <1>1, Moved DEF InProgress, Pending, Arrived
<1>4. Calm(p)
  BY <1>1, <1>2, <1>3, MoveCalm
<1>5. lastTile'[p] = flight[i].to
  BY DEF Locate, Held, Single, Copying, Of, RestTyped
<1>6. \A t \in Tile : (Active(t, p)' <=> Active(t, p)) /\ (Loose(t, p)' <=> Loose(t, p))
  BY <1>4 DEF Calm
<1>7. \A j \in Id : Pending(j)' /\ Of(j, p)' => j = i
  BY <1>1, <1>3, Moved, OnlyPending DEF Held
<1>8. SingleOK(p)'
  <2>1. OneActive(p)' /\ (NobodyActive(p) => NobodyActive(p)')
    BY <1>6 DEF OneActive, NobodyActive, Held, SingleOK
  <2>2. OnePending(p)'
    BY <1>7 DEF OnePending
  <2>3. crossing'[p] = None
    BY <1>2, <1>3, OnlyPending DEF SameHere, Held
  <2>4. ASSUME NEW j \in Id PROVE PendingOK(j, p)'
    <3>1. flight'[i].from = flight[i].from /\ flight'[i].to = flight[i].to
      BY <1>1, Moved DEF SameMatter, SameSource
    <3>2. QED
      BY <1>3, <1>5, <1>7, <2>1, <2>3, <3>1, OnlyPending DEF PendingOK, Held
  <2>5. ASSUME NEW u \in Tile, Loose(u, p)' PROVE Arrived(i)' /\ Of(i, p)' /\ flight'[i].to = u
    BY <1>1, <1>3, <1>6, <2>5, Moved, OnlyPending DEF Held, SameMatter
  <2>6. QED
    BY <2>1, <2>2, <2>3, <2>4, <2>5 DEF SingleOK, CrossingOK, LooseOK
<1>9. QED
  BY <1>4, <1>8, CalmKept

LEMMA KeptGiveUp ==
    ASSUME NEW p \in Player, Held(p), NEW i \in Id, Of(i, p), GiveUp(i) PROVE Kept(p) /\ Calm(p)
<1>1. MovesTo(i, "done") /\ flight[i].stage = "failed" /\ lastTile' = lastTile
  BY FlightSteps DEF Held, Moves, GiveUp, gateway
<1>2. SameFlushing(p) /\ SameHere(p)
  BY <1>1, Moved DEF GiveUp, SameHere, clients
<1>3. InProgress(i) /\ Pending(i) /\ ~Arrived(i) /\ ~Pending(i)' /\ ~Arrived(i)'
  BY <1>1, Moved DEF InProgress, Pending, Arrived
<1>4. Calm(p)
  BY <1>1, <1>2, <1>3, MoveCalm
<1>5. SingleOK(p)'
  <2>1. OneActive(p)'
    BY <1>4 DEF Calm, OneActive, Held, SingleOK
  <2>2. \A j \in Id : ~(Pending(j)' /\ Of(j, p)')
    BY <1>1, <1>3, Moved, OnlyPending DEF Held
  <2>3. crossing'[p] = None
    BY <1>2, <1>3, OnlyPending DEF SameHere, Held
  <2>4. \A u \in Tile : ~Loose(u, p)'
    BY <1>3, <1>4, OnlyPending DEF Calm, Held
  <2>5. QED
    BY <2>1, <2>2, <2>3, <2>4 DEF SingleOK, OnePending, PendingOK, CrossingOK, LooseOK
<1>6. QED
  BY <1>4, <1>5, CalmKept

LEMMA KeptUnclaimed ==
    ASSUME NEW p \in Player, Held(p), NEW i \in Id, Of(i, p), Unclaimed(i) PROVE Kept(p) /\ Calm(p)
<1>1. /\ MovesTo(i, "done") /\ flight[i].stage \in {"located", "flushing", "failed"}
      /\ flight[i].from = None /\ lastTile' = lastTile
  BY FlightSteps DEF Held, Moves, Unclaimed, gateway
<1>2. SameFlushing(p) /\ SameHere(p)
  BY <1>1, Moved DEF Unclaimed, SameHere, clients
<1>3. InProgress(i) /\ ~Pending(i)' /\ ~Arrived(i)' /\ flight'[i].stage = "done"
  BY <1>1, Moved DEF InProgress, Pending, Arrived
<1>4. Calm(p)
  BY <1>1, <1>2, <1>3, MoveCalm
<1>5. CASE flight[i].stage = "flushing"
  <2>1. ~Pending(i) /\ ~Arrived(i)
    BY <1>5 DEF Pending, Arrived
  <2>2. Steady(p)
    BY <1>1, <1>3, <1>4, <2>1, Moved DEF Steady
  <2>3. QED
    BY <1>4, <2>2, SteadyKept
<1>6. CASE flight[i].stage # "flushing"
  <2>1. Pending(i) /\ (Arrived(i) => flight[i].stage = "located")
    BY <1>1, <1>6 DEF Pending, Arrived
  <2>2. NobodyActive(p) /\ crossing[p] = None
    BY <1>1, <2>1, OnlyPending DEF Held
  <2>3. NobodyActive(p)' /\ crossing'[p] = None
    BY <1>2, <1>4, <2>2 DEF Calm, NobodyActive, SameHere
  <2>4. \A j \in Id : ~(Pending(j)' /\ Of(j, p)')
    BY <1>1, <1>3, <2>1, Moved, OnlyPending DEF Held
  <2>5. ASSUME NEW u \in Tile, Loose(u, p)' PROVE lastTile'[p] = u
    <3>1. Arrived(i) /\ flight[i].to = u
      BY <1>4, <2>1, <2>5, OnlyPending DEF Held, Calm
    <3>2. QED
      BY <1>1, <2>1, <3>1 DEF Held, SingleOK, PendingOK
  <2>6. SingleOK(p)'
    BY <2>3, <2>4, <2>5
       DEF SingleOK, OneActive, NobodyActive, OnePending, NonePending, PendingOK, CrossingOK,
       LooseOK
  <2>7. QED
    BY <1>4, <2>6, CalmKept
<1>7. QED
  BY <1>4, <1>5, <1>6

LEMMA KeptComplete ==
    ASSUME NEW p \in Player, Held(p), NEW i \in Id, Of(i, p), Complete(i) PROVE Kept(p) /\ Calm(p)
<1>1. /\ MovesTo(i, "done") /\ flight[i].stage = "flushing" /\ flight[i].from # None
      /\ flight[i].player = p
  BY FlightSteps DEF Held, Moves, Complete, Of
<1>2. InProgress(i) /\ ~Pending(i) /\ ~Arrived(i) /\ ~Pending(i)' /\ ~Arrived(i)'
  BY <1>1, Moved DEF InProgress, Pending, Arrived
<1>3. PICK t \in Tile : t = flight[i].from /\ p \in session[t]
  BY <1>1, <1>2, SourceKnows
<1>4. /\ body' = [body EXCEPT ![t][p] = None]
      /\ session' = [session EXCEPT ![t] = @ \ {p}]
      /\ client' = [client EXCEPT ![p] = IF @ = t THEN None ELSE @]
      /\ lastTile' = lastTile /\ crossing' = crossing /\ change' = change
  BY <1>1, <1>3 DEF Complete, gateway
<1>5. /\ p \notin session'[t] /\ body'[t][p] = None
      /\ \A u \in Tile \ {t} : session'[u] = session[u] /\ body'[u] = body[u]
  BY <1>4 DEF Held, RestTyped
<1>6. \A u \in Tile \ {t} : Flushing(u, p)' <=> Flushing(u, p)
  <2>1. \A j \in Id : flight'[j].from = flight[j].from
    BY <1>1, Moved DEF SameSource
  <2>2. \A j \in Id \ {i} : flight'[j].stage = flight[j].stage
    BY <1>1, Moved
  <2>3. \A j \in Id : (Of(j, p)' <=> Of(j, p)) /\ flight'[i].stage # "flushing"
    BY <1>1, Moved
  <2>4. QED
    BY <1>3, <2>1, <2>2, <2>3 DEF Flushing
<1>7. ~Active(t, p) /\ ~Loose(t, p) /\ ~Active(t, p)' /\ ~Loose(t, p)'
  BY <1>1, <1>3, <1>5 DEF Active, Loose, Flushing
<1>8. \A u \in Tile : /\ Active(u, p)' <=> Active(u, p)
                      /\ Loose(u, p)' <=> Loose(u, p)
                      /\ Active(u, p) \/ Loose(u, p) => body'[u][p] = body[u][p]
  BY <1>5, <1>6, <1>7 DEF Active, Loose
<1>9. Calm(p)
  BY <1>1, <1>2, <1>4, <1>8, Moved DEF Calm, Held, RestTyped
<1>10. Steady(p)
  BY <1>1, <1>2, <1>4, <1>9, Moved DEF Steady
<1>11. QED
  BY <1>9, <1>10, SteadyKept

LEMMA KeptRedirect ==
    ASSUME NEW p \in Player, Held(p), NEW i \in Id, Of(i, p), Redirect(i) PROVE Kept(p)
<1>1. /\ MovesTo(i, "flushing") /\ flight[i].stage = "located" /\ flight[i].from # None
      /\ flight[i].player = p
  BY FlightSteps DEF Held, Moves, Redirect, Of
<1>2. InProgress(i) /\ Pending(i) /\ Arrived(i) /\ ~Pending(i)' /\ ~Arrived(i)'
  BY <1>1, Moved DEF InProgress, Pending, Arrived
<1>3. PICK t \in Tile : t = flight[i].from /\ Active(t, p)
  BY <1>1, <1>2, SourceKnows
<1>4. /\ crossing' = [crossing EXCEPT ![p] = IF client[p] = t THEN flight[i].to ELSE @]
      /\ client' = [client EXCEPT ![p] = IF @ = t THEN None ELSE @]
      /\ UNCHANGED <<body, session, lastTile, change>>
  BY <1>1, <1>3 DEF Redirect, gateway
<1>5. flight[i].to = lastTile[p] /\ crossing[p] = None
  BY <1>1, <1>2, OnlyPending DEF Held, SingleOK, PendingOK
<1>6. crossing'[p] \in {flight[i].to, None}
  BY <1>4, <1>5 DEF Held, RestTyped
<1>7. \A j \in Id : ~(Pending(j)' /\ Of(j, p)')
  BY <1>1, <1>2, Moved, OnlyPending DEF Held
<1>8. \A u \in Tile : ~Active(u, p)'
  <2>1. Flushing(t, p)'
    <3>1. flight'[i].stage = "flushing" /\ Of(i, p)' /\ flight'[i].from = t
      BY <1>1, <1>3, Moved DEF SameSource
    <3>2. QED
      BY <3>1 DEF Flushing
  <2>2. ASSUME NEW u \in Tile \ {t}, Active(u, p)' PROVE FALSE
    <3>1. ~Active(u, p)
      BY <1>3 DEF Held, SingleOK, OneActive
    <3>2. ASSUME Flushing(u, p) PROVE Flushing(u, p)'
      <4>1. PICK j \in Id : flight[j].stage = "flushing" /\ Of(j, p) /\ flight[j].from = u
        BY <3>2 DEF Flushing
      <4>2. flight'[j].stage = "flushing" /\ Of(j, p)' /\ flight'[j].from = u
        BY <1>1, <4>1, Moved DEF SameSource
      <4>3. QED
        BY <4>2 DEF Flushing
    <3>3. QED
      BY <1>4, <2>2, <3>1, <3>2 DEF Active
  <2>3. QED
    BY <2>1, <2>2 DEF Active
<1>9. \A u \in Tile : Loose(u, p)' <=> Loose(u, p)
  BY <1>4 DEF Loose
<1>10. SingleOK(p)'
  <2>1. ASSUME NEW u \in Tile, Loose(u, p)' PROVE lastTile'[p] = u
    BY <1>2, <1>4, <1>5, <1>9, <2>1, OnlyPending DEF Held
  <2>2. QED
    BY <1>4, <1>5, <1>6, <1>7, <1>8, <2>1
       DEF SingleOK, OneActive, NobodyActive, OnePending, NonePending, PendingOK, CrossingOK,
       LooseOK
<1>11. ASSUME ForwardsOK(p) PROVE ForwardsOK(p)'
  <2>1. \A j \in Id : InProgress(j)' /\ Of(j, p)' => j = i
    BY <1>1, <1>2, <1>11, Moved DEF ForwardsOK
  <2>2. client'[p] = None
    BY <1>3, <1>4, <1>11 DEF ForwardsOK, Held, SingleOK, OneActive, RestTyped
  <2>3. flight'[i].to = flight[i].to
    BY <1>1, Moved DEF SameMatter
  <2>4. \A u \in Tile : Current(u, p)'
    BY <1>4, <1>8, <1>9, <1>11 DEF Current, ForwardsOK
  <2>5. QED
    BY <1>6, <1>7, <2>1, <2>2, <2>3, <2>4, HandoffAssumption DEF ForwardsOK
<1>12. ASSUME AwaitedOK(p) PROVE AwaitedOK(p)'
  <2>1. \A j \in Id : ~(Arrived(j)' /\ Of(j, p)')
    BY <1>7 DEF Arrived, Pending
  <2>2. QED
    BY <1>1, <1>2, <1>6, <1>9, <1>12, <2>1, HandoffAssumption DEF AwaitedOK
<1>13. QED
  BY <1>10, <1>11, <1>12 DEF Kept

\* The endpoint has not received this request before, so a good payload is
\* restored and nothing else is.
LEMMA FirstReceipt ==
    ASSUME NEW p \in Player, Held(p), NEW i \in Id, Of(i, p), ReceiveHandoff(i)
    PROVE  \/ demanded \notin PayloadFields /\ body' = body
           \/ /\ demanded \in PayloadFields
              /\ flight[i].to \in Tile /\ Restores(flight[i].to, i)
<1>1. /\ flight[i].stage = "forwarded" /\ Receive(flight[i].to, i)
      /\ FlightOK(i) /\ RememberedReceived
  BY DEF ReceiveHandoff, Held, Frame
<1>2. flight[i].to \in Tile /\ flight[i].player \in Player /\ ~flight[i].received
  BY <1>1 DEF FlightOK
<1>3. ~Remembered(flight[i].to, i)
  BY <1>1, <1>2 DEF RememberedReceived, Received
<1>4. IF demanded \notin PayloadFields \/ Remembered(flight[i].to, i)
      THEN UNCHANGED <<body, seen>> ELSE Remember(flight[i].to, i) /\ Restores(flight[i].to, i)
  BY <1>1, <1>2, ReceivePoints DEF Held
<1>5. QED
  BY <1>2, <1>3, <1>4

LEMMA KeptReceive ==
    ASSUME NEW p \in Player, Held(p), NEW i \in Id, Of(i, p), ReceiveHandoff(i) PROVE Kept(p)
<1>1. /\ MovesTo(i, IF demanded \in PayloadFields THEN "restored" ELSE "failed")
      /\ flight[i].stage = "forwarded" /\ flight[i].player = p
  BY FlightSteps DEF Held, Answers, ReceiveHandoff, Of
<1>2. InProgress(i) /\ Pending(i) /\ ~Arrived(i)
  BY <1>1 DEF InProgress, Pending, Arrived
<1>3. session' = session /\ client' = client /\ crossing' = crossing /\ change' = change
      /\ lastTile' = lastTile
  BY DEF ReceiveHandoff, clients, gateway
<1>4. SameFlushing(p)
  BY <1>1, Moved
<1>5. CASE demanded \notin PayloadFields
  <2>1. MovesTo(i, "failed") /\ SameHere(p)
    BY <1>1, <1>3, <1>5, FirstReceipt DEF SameHere
  <2>2. Pending(i)' /\ ~Arrived(i)' /\ flight'[i].stage = "failed"
    BY <2>1, Moved DEF Pending, Arrived
  <2>3. Calm(p)
    BY <1>2, <1>4, <2>1, <2>2, MoveCalm
  <2>4. Steady(p)
    BY <1>2, <1>3, <2>1, <2>2, <2>3, Moved DEF Steady
  <2>5. QED
    BY <2>4, SteadyKept
<1>6. CASE demanded \in PayloadFields
  <2>1. MovesTo(i, "restored")
    BY <1>1, <1>6
  <2>2. Pending(i)' /\ Arrived(i)' /\ flight'[i].stage = "restored"
    BY <2>1, Moved DEF Pending, Arrived
  <2>3. PICK to \in Tile : to = flight[i].to /\ Restores(to, i)
    BY <1>6, FirstReceipt
  <2>4. \A u \in Tile : body'[u][p] = IF u = to /\ body[u][p] = None
                                      THEN flight[i].carried ELSE body[u][p]
    BY <1>1, <2>3 DEF Restores
  <2>5. flight[i].carried # None
    BY <1>1, HandoffAssumption DEF Held, Frame, FlightOK
  <2>6. \A j \in Id : Pending(j) /\ Of(j, p) => j = i
    BY <1>2, OnlyPending DEF Held
  <2>7. crossing[p] = None
    BY <1>2, OnlyPending DEF Held
  <2>8. \A u \in Tile : ~Loose(u, p)
    BY <1>2, OnlyPending DEF Held
  <2>9. \A u \in Tile : Active(u, p)' <=> Active(u, p)
    BY <1>3, <1>4 DEF Active, SameFlushing
  <2>10. \A u \in Tile : Loose(u, p)' => u = to
    BY <1>3, <2>4, <2>8 DEF Loose
  <2>11. \A j \in Id : Pending(j)' /\ Of(j, p)' => j = i
    BY <2>1, <2>6, Moved
  <2>12. Of(i, p)' /\ flight'[i].to = to /\ flight'[i].from = flight[i].from
         /\ flight'[i].carried = flight[i].carried
    BY <2>1, <2>3, Moved DEF SameMatter, SameSource
  <2>13. SingleOK(p)'
    <3>1. OneActive(p)' /\ (NobodyActive(p) => NobodyActive(p)')
      BY <2>9 DEF OneActive, NobodyActive, Held, SingleOK
    <3>2. ASSUME NEW j \in Id PROVE PendingOK(j, p)'
      <4>1. flight'[i].from = None => NobodyActive(p)'
        BY <1>2, <2>12, <3>1 DEF Held, SingleOK, PendingOK
      <4>2. QED
        BY <1>3, <2>2, <2>7, <2>11, <4>1 DEF PendingOK
    <3>3. QED
      BY <1>3, <2>2, <2>7, <2>10, <2>11, <2>12, <3>1, <3>2
         DEF SingleOK, OnePending, CrossingOK, LooseOK
  <2>14. ASSUME Forwards, ForwardsOK(p) PROVE ForwardsOK(p)'
    <3>1. \A j \in Id : InProgress(j) /\ Of(j, p) => j = i
      BY <1>2, <2>14 DEF ForwardsOK
    <3>2. \A j \in Id : InProgress(j)' /\ Of(j, p)' => j = i
      BY <2>1, <3>1, Moved
    <3>3. flight[i].carried = change[p]
      BY <1>1, <1>2, <2>14 DEF ForwardsOK
    <3>4. \A u \in Tile : Current(u, p)'
      <4>1. ASSUME NEW u \in Tile, Loose(u, p)' PROVE body'[u][p] = change'[p]
        <5>1. u = to /\ body[u][p] = None
          BY <1>3, <2>4, <2>8, <2>10, <4>1 DEF Loose
        <5>2. QED
          BY <1>3, <2>4, <3>3, <5>1
      <4>2. ASSUME NEW u \in Tile, Active(u, p)' PROVE body'[u][p] = change'[p]
        <5>1. Active(u, p) /\ body[u][p] # None
          BY <2>9, <4>2 DEF Active, Held, Frame, SessionOK
        <5>2. QED
          BY <1>3, <2>4, <2>14, <5>1 DEF ForwardsOK, Current
      <4>3. QED
        BY <4>1, <4>2 DEF Current
    <3>5. \A u \in Tile : client'[p] = u => Active(u, p)'
      BY <1>3, <2>9, <2>14 DEF ForwardsOK
    <3>6. QED
      BY <1>3, <2>7, <2>11, <2>12, <3>2, <3>3, <3>4, <3>5 DEF ForwardsOK
  <2>15. ASSUME Forwards, ForwardsOK(p), AwaitedOK(p) PROVE AwaitedOK(p)'
    <3>1. ~Active(to, p)
      <4>1. CASE flight[i].from = None
        BY <1>2, <4>1, OnlyPending DEF Held, NobodyActive
      <4>2. CASE flight[i].from # None
        <5>1. Active(flight[i].from, p) /\ flight[i].from \in Tile
          BY <1>2, <4>2, SourceKnows
        <5>2. flight[i].from # to
          BY <1>1, <2>3 DEF Held, Frame, FlightOK
        <5>3. QED
          BY <5>1, <5>2 DEF Held, SingleOK, OneActive
      <4>3. QED
        BY <4>1, <4>2
    <3>2. ~Flushing(to, p)
      BY <1>1, <1>2, <2>15 DEF Flushing, ForwardsOK, InProgress
    <3>3. p \notin session[to]
      BY <3>1, <3>2 DEF Active
    <3>4. Loose(to, p)'
      BY <1>3, <2>4, <2>5, <3>3 DEF Loose
    <3>5. \A j \in Id : Arrived(j)' /\ Of(j, p)' => j = i
      BY <2>11 DEF Arrived, Pending
    <3>6. QED
      BY <1>3, <2>7, <2>12, <3>4, <3>5, HandoffAssumption DEF AwaitedOK
  <2>16. QED
    BY <2>13, <2>14, <2>15 DEF Kept
<1>7. QED
  BY <1>5, <1>6

LEMMA KeptPlay ==
    ASSUME NEW p \in Player, Held(p), NEW t \in Tile, Play(t, p) PROVE Kept(p)
<1>1. /\ client[p] = t /\ body[t][p] \in 0 .. MaxChange
      /\ body' = [body EXCEPT ![t][p] = body[t][p] + 1]
      /\ change' = [change EXCEPT ![p] = body[t][p] + 1]
      /\ UNCHANGED <<session, flight, lastTile, client, crossing>>
  BY DEF Play, Held, RestTyped, Body, clients, gateway
<1>2. /\ body'[t][p] = body[t][p] + 1 /\ change'[p] = body[t][p] + 1
      /\ \A u \in Tile \ {t} : body'[u][p] = body[u][p]
  BY <1>1 DEF Held, RestTyped
<1>3. body'[t][p] # None
  BY <1>1, <1>2, HandoffAssumption
<1>4. \A u \in Tile : (Active(u, p)' <=> Active(u, p)) /\ (Loose(u, p)' <=> Loose(u, p))
  BY <1>1, <1>2, <1>3, HandoffAssumption DEF Active, Loose, Flushing, Of
<1>5. SingleOK(p)'
  BY <1>1, <1>4 DEF Held, SingleOK, OneActive, OnePending, CrossingOK, PendingOK, LooseOK,
                    NobodyActive, NonePending, Pending, Arrived, Of
<1>6. ASSUME Forwards, ForwardsOK(p) PROVE ForwardsOK(p)'
  <2>1. p \notin handingOff[t] /\ p \in session[t]
    BY <1>1, <1>6 DEF Play, Forwards, Rewinding, ForwardsOK, Active
  <2>2. NonePending(p) /\ crossing[p] = None /\ (\A u \in Tile : ~Loose(u, p))
    BY <2>1, Alone
  <2>3. \A u \in Tile : Active(u, p) <=> u = t
    BY <2>1, Alone
  <2>4. \A u \in Tile : Current(u, p)'
    BY <1>2, <1>4, <2>2, <2>3 DEF Current
  <2>5. \A u \in Tile : client'[p] = u => Active(u, p)'
    BY <1>1, <1>4, <1>6 DEF ForwardsOK
  <2>6. QED
    BY <1>1, <1>6, <2>2, <2>4, <2>5 DEF ForwardsOK, NonePending, Pending, InProgress, Of
<1>7. ASSUME AwaitedOK(p) PROVE AwaitedOK(p)'
  BY <1>1, <1>4, <1>7 DEF AwaitedOK, Arrived, Of
<1>8. QED
  BY <1>5, <1>6, <1>7 DEF Kept

LEMMA KeptSweep ==
    ASSUME NEW p \in Player, Held(p), NEW t \in Tile, Sweep(t, p) PROVE Kept(p)
<1>1. /\ p \in session[t] /\ p \notin handingOff[t] /\ client[p] # t
      /\ session' = [session EXCEPT ![t] = @ \ {p}]
      /\ body' = [body EXCEPT ![t][p] = None]
      /\ UNCHANGED <<flight, client, crossing, change>>
  BY DEF Sweep, clients
<1>2. /\ \A u \in Tile : Active(u, p) <=> u = t
      /\ NonePending(p) /\ crossing[p] = None
      /\ \A u \in Tile : ~Loose(u, p)
  BY <1>1, Alone
<1>3. /\ p \notin session'[t] /\ body'[t][p] = None
      /\ \A u \in Tile \ {t} : session'[u] = session[u] /\ body'[u] = body[u]
  BY <1>1 DEF Held, RestTyped
<1>4. \A u \in Tile : ~Active(u, p)' /\ ~Loose(u, p)'
  BY <1>1, <1>2, <1>3 DEF Active, Loose, Flushing, Of
<1>5. NonePending(p)' /\ crossing'[p] = None
  BY <1>1, <1>2 DEF NonePending, Pending, Of
<1>6. SingleOK(p)'
  BY <1>4, <1>5 DEF SingleOK, OneActive, OnePending, NonePending, CrossingOK, PendingOK, LooseOK
<1>7. ASSUME ForwardsOK(p) PROVE ForwardsOK(p)'
  <2>1. \A u \in Tile : client'[p] # u
    BY <1>1, <1>2, <1>7 DEF ForwardsOK
  <2>2. \A u \in Tile : Current(u, p)'
    BY <1>4 DEF Current
  <2>3. QED
    BY <1>1, <1>5, <1>7, <2>1, <2>2 DEF ForwardsOK, NonePending, InProgress, Of
<1>8. AwaitedOK(p)'
  BY <1>5, HandoffAssumption DEF AwaitedOK, NonePending, Arrived, Pending
<1>9. QED
  BY <1>6, <1>7, <1>8 DEF Kept

LEMMA KeptInitiate ==
    ASSUME NEW p \in Player, Held(p), NEW t \in Tile, NEW to \in Tile, InitiateHandoff(t, p, to)
    PROVE  Kept(p)
<1>1. /\ p \in session[t] /\ p \notin handingOff[t]
      /\ UNCHANGED <<body, session, lastTile, client, crossing, change>>
  BY DEF InitiateHandoff, clients, gateway
<1>2. Begins(FreshId, t, p, to)
  BY InitiateBegins DEF Held
<1>3. PICK n \in Id : /\ flight[n].stage = "unused" /\ flight'[n].stage = "requested"
                      /\ flight'[n].from = t /\ flight'[n].carried = body[t][p]
                      /\ \A j \in Id \ {n} : flight'[j] = flight[j]
  BY <1>2 DEF Begins
<1>4. \A u \in Tile : Active(u, p) <=> u = t
  BY <1>1, Alone
<1>5. NonePending(p) /\ crossing[p] = None /\ \A u \in Tile : ~Loose(u, p)
  BY <1>1, Alone
<1>6. \A u \in Tile : Flushing(u, p)' <=> Flushing(u, p)
  <2>1. flight[n].stage # "flushing" /\ flight'[n].stage # "flushing"
    BY <1>3
  <2>2. QED
    BY <1>3, <2>1 DEF Flushing, Of
<1>7. \A u \in Tile : (Active(u, p)' <=> Active(u, p)) /\ ~Loose(u, p)'
  BY <1>1, <1>5, <1>6 DEF Active, Loose
<1>8. \A j \in Id : Pending(j)' /\ Of(j, p)' => j = n
  BY <1>3, <1>5 DEF NonePending, Pending, Of
<1>9. \A j \in Id : ~(Arrived(j)' /\ Of(j, p)')
  BY <1>3, <1>5 DEF NonePending, Pending, Arrived, Of
<1>10. SingleOK(p)'
  <2>1. \A j \in Id : PendingOK(j, p)'
    BY <1>1, <1>3, <1>5, <1>8, HandoffAssumption DEF PendingOK
  <2>2. OneActive(p)' /\ OnePending(p)'
    BY <1>4, <1>7, <1>8 DEF OneActive, OnePending
  <2>3. QED
    BY <1>1, <1>5, <1>7, <2>1, <2>2 DEF SingleOK, CrossingOK, LooseOK
<1>11. ASSUME Forwards, ForwardsOK(p) PROVE ForwardsOK(p)'
  <2>1. \A j \in Id : ~(InProgress(j) /\ Of(j, p))
    BY <1>11 DEF InitiateHandoff, Forwards, Rewinding, OfPlayer, Of
  <2>2. \A j \in Id : InProgress(j)' /\ Of(j, p)' => j = n
    BY <1>3, <2>1 DEF InProgress, Of
  <2>3. body[t][p] = change[p]
    BY <1>4, <1>11 DEF ForwardsOK, Current
  <2>4. \A u \in Tile : Current(u, p)'
    BY <1>1, <1>7, <1>11 DEF ForwardsOK, Current
  <2>5. \A u \in Tile : client'[p] = u => Active(u, p)'
    BY <1>1, <1>7, <1>11 DEF ForwardsOK
  <2>6. QED
    BY <1>1, <1>3, <1>5, <1>8, <2>2, <2>3, <2>4, <2>5 DEF ForwardsOK
<1>12. AwaitedOK(p)'
  BY <1>1, <1>5, <1>9, HandoffAssumption DEF AwaitedOK
<1>13. QED
  BY <1>10, <1>11, <1>12 DEF Kept

LEMMA KeptCrash ==
    ASSUME NEW p \in Player, Held(p), NEW t \in Tile, Crash(t) PROVE Kept(p)
<1>1. \A j \in Id : /\ flight'[j].player = flight[j].player /\ flight'[j].to = flight[j].to
                    /\ flight'[j].stage = flight[j].stage
                    /\ flight'[j].carried = flight[j].carried
                    /\ flight'[j].from = IF flight[j].from = t THEN None ELSE flight[j].from
  BY CrashOrphans DEF Held, Orphans, SameMatter, SameStage
<1>2. /\ p \notin session'[t] /\ body'[t][p] = None
      /\ \A u \in Tile \ {t} : session'[u] = session[u] /\ body'[u] = body[u]
      /\ client'[p] = (IF client[p] = t THEN None ELSE client[p])
      /\ UNCHANGED <<lastTile, crossing, change>>
  BY DEF Crash, Held, RestTyped, gateway
<1>3. \A u \in Tile \ {t} : Flushing(u, p)' <=> Flushing(u, p)
  BY <1>1, HandoffAssumption DEF Flushing, Of
<1>4. \A u \in Tile : /\ Active(u, p)' <=> Active(u, p) /\ u # t
                      /\ Loose(u, p)' <=> Loose(u, p) /\ u # t
  BY <1>2, <1>3 DEF Active, Loose
<1>5. \A j \in Id : /\ Pending(j)' <=> Pending(j)
                    /\ Arrived(j)' <=> Arrived(j)
                    /\ InProgress(j)' <=> InProgress(j)
                    /\ Of(j, p)' <=> Of(j, p)
  BY <1>1 DEF Pending, Arrived, InProgress, Of
<1>6. SingleOK(p)'
  <2>1. OneActive(p)' /\ (NobodyActive(p) => NobodyActive(p)')
    BY <1>4 DEF OneActive, NobodyActive, Held, SingleOK
  <2>2. OnePending(p)' /\ (NonePending(p) => NonePending(p)') /\ CrossingOK(p)'
    BY <1>2, <1>5, <2>1 DEF OnePending, NonePending, CrossingOK, Held, SingleOK
  <2>3. ASSUME NEW j \in Id PROVE PendingOK(j, p)'
    <3>1. ASSUME Pending(j), Of(j, p), flight'[j].from = None PROVE NobodyActive(p)'
      <4>1. CASE flight[j].from = None
        BY <2>1, <3>1, <4>1 DEF Held, SingleOK, PendingOK
      <4>2. CASE flight[j].from # None
        <5>1. InProgress(j)
          BY <3>1 DEF Pending, InProgress
        <5>2. flight[j].from = t /\ Active(t, p)
          BY <1>1, <3>1, <4>2, <5>1, SourceKnows
        <5>3. QED
          BY <1>4, <5>2 DEF NobodyActive, Held, SingleOK, OneActive
      <4>3. QED
        BY <4>1, <4>2
    <3>2. QED
      BY <1>1, <1>2, <1>5, <3>1 DEF PendingOK, Held, SingleOK
  <2>4. ASSUME NEW u \in Tile PROVE LooseOK(u, p)'
    <3>1. LooseOK(u, p)
      BY DEF Held, SingleOK
    <3>2. QED
      BY <1>1, <1>2, <1>4, <1>5, <2>1, <2>2, <3>1 DEF LooseOK
  <2>5. QED
    BY <2>1, <2>2, <2>3, <2>4 DEF SingleOK
<1>7. ASSUME ForwardsOK(p) PROVE ForwardsOK(p)'
  <2>1. \A u \in Tile : client'[p] = u => Active(u, p)'
    BY <1>2, <1>4, <1>7, HandoffAssumption DEF ForwardsOK
  <2>2. \A u \in Tile : Current(u, p)'
    BY <1>2, <1>4, <1>7 DEF ForwardsOK, Current
  <2>3. QED
    BY <1>1, <1>2, <1>5, <1>7, <2>1, <2>2 DEF ForwardsOK
<1>8. "crash" \in events
  BY DEF Crash
<1>9. QED
  BY <1>6, <1>7, <1>8 DEF Kept

\* A player that is active nowhere, and whose only body that nobody has joined
\* is at t, joins t.
JoinsAlone(t, p) ==
    /\ Joins(t, p)
    /\ NobodyActive(p) /\ NonePending(p) /\ \A u \in Tile : Loose(u, p) => u = t
    /\ Forwards /\ ForwardsOK(p) => p \notin session[t] /\ ~Flushing(t, p)

LEMMA KeptJoin ==
    ASSUME NEW p \in Player, Held(p), NEW t \in Tile, JoinsAlone(t, p) PROVE Kept(p)
<1> USE DEF JoinsAlone
<1>1. \A u \in Tile : Flushing(u, p)' <=> Flushing(u, p)
  BY DEF Joins, Flushing, Of
<1>2. \A u \in Tile : Active(u, p)' => u = t
  BY <1>1 DEF Joins, NobodyActive, Active
<1>3. \A u \in Tile : ~Loose(u, p)'
  BY DEF Joins, Loose
<1>4. NonePending(p)' /\ crossing'[p] = None
  BY DEF Joins, NonePending, Pending, Of
<1>5. SingleOK(p)'
  BY <1>2, <1>3, <1>4 DEF SingleOK, OneActive, OnePending, NonePending, CrossingOK, PendingOK,
     LooseOK
<1>6. ASSUME Forwards, ForwardsOK(p) PROVE ForwardsOK(p)'
  <2>1. Active(t, p)' /\ client'[p] = t
    BY <1>1, <1>6 DEF Joins, Active
  <2>2. body'[t][p] = change'[p]
    BY <1>6 DEF Joins, ForwardsOK, Current, Loose
  <2>3. \A u \in Tile : Current(u, p)'
    BY <1>2, <1>3, <2>2 DEF Current
  <2>4. QED
    BY <1>4, <1>6, <2>1, <2>3 DEF ForwardsOK, Joins, NonePending, InProgress, Of
<1>7. AwaitedOK(p)'
  BY <1>4, HandoffAssumption DEF AwaitedOK, NonePending, Arrived, Pending
<1>8. QED
  BY <1>5, <1>6, <1>7 DEF Kept

LEMMA ConnectJoins ==
    ASSUME NEW p \in Player, Held(p), Connect(p) PROVE \E t \in Tile : JoinsAlone(t, p)
<1>1. OfPlayer(p) = {} /\ \A t \in Tile : p \notin session[t]
  BY DEF Connect, Held, Single, Copying, Gone
<1>2. \A i \in Id : ~(InProgress(i) /\ Of(i, p))
  BY <1>1 DEF OfPlayer, Of
<1>3. NobodyActive(p) /\ NonePending(p) /\ \A t \in Tile : ~Flushing(t, p)
  BY <1>1, <1>2 DEF NobodyActive, Active, NonePending, Pending, Flushing, InProgress
<1>4. \A i \in Id : ~(Arrived(i) /\ Of(i, p))
  BY <1>3 DEF NonePending, Arrived, Pending
<1>5. \A u \in Tile : Loose(u, p) => u = lastTile[p]
  BY <1>4 DEF Held, SingleOK, LooseOK
<1>6. PICK t \in Tile : Join(t, p) /\ (lastTile[p] \in Tile => t = lastTile[p])
  BY DEF Connect, Held
<1>7. Joins(t, p) /\ \A u \in Tile : Loose(u, p) => u = t
  BY <1>5, <1>6, JoinPoints DEF Held
<1>8. QED
  BY <1>1, <1>3, <1>7 DEF JoinsAlone

LEMMA ArriveJoins ==
    ASSUME NEW p \in Player, Held(p), Arrive(p) PROVE \E t \in Tile : JoinsAlone(t, p)
<1>1. PICK t \in Tile : crossing[p] = t /\ Joins(t, p)
  BY JoinPoints DEF Arrive, Held, RestTyped
<1>2. crossing[p] # None
  BY DEF Arrive
<1>3. NobodyActive(p) /\ lastTile[p] = t
  BY <1>1, <1>2 DEF Held, SingleOK, CrossingOK
<1>4. NonePending(p)
  BY <1>2 DEF Held, SingleOK, PendingOK, NonePending
<1>5. \A i \in Id : ~(Arrived(i) /\ Of(i, p))
  BY <1>4 DEF NonePending, Arrived, Pending
<1>6. \A u \in Tile : Loose(u, p) => u = t
  BY <1>3, <1>5 DEF Held, SingleOK, LooseOK
<1>7. ASSUME ForwardsOK(p) PROVE p \notin session[t] /\ ~Flushing(t, p)
  <2>1. ASSUME Flushing(t, p) PROVE FALSE
    <3>1. PICK i \in Id : flight[i].stage = "flushing" /\ Of(i, p) /\ flight[i].from = t
      BY <2>1 DEF Flushing
    <3>2. flight[i].to = t
      BY <1>1, <1>2, <1>7, <3>1 DEF ForwardsOK, InProgress
    <3>3. QED
      BY <3>1, <3>2 DEF Held, Frame, FlightOK
  <2>2. QED
    BY <1>3, <2>1 DEF NobodyActive, Active
<1>8. QED
  BY <1>1, <1>3, <1>4, <1>6, <1>7 DEF JoinsAlone

\* A client that leaves or gives up changes neither bodies nor handoffs.
LEMMA KeptAway ==
    ASSUME NEW p \in Player, Held(p), AbandonCrossing(p) \/ Leave(p) PROVE Kept(p) /\ Calm(p)
<1>1. /\ UNCHANGED <<body, session, flight, lastTile, change>>
      /\ client'[p] \in {client[p], None} /\ crossing'[p] \in {crossing[p], None}
  BY DEF AbandonCrossing, Leave, Held, RestTyped, gateway
<1>2. \A t \in Tile : (Active(t, p)' <=> Active(t, p)) /\ (Loose(t, p)' <=> Loose(t, p))
  BY <1>1 DEF Active, Loose, Flushing, Of
<1>3. \A i \in Id : /\ Pending(i)' <=> Pending(i)
                    /\ Arrived(i)' <=> Arrived(i)
                    /\ InProgress(i)' <=> InProgress(i)
                    /\ Of(i, p)' <=> Of(i, p)
                    /\ SameMatter(i) /\ SameSource(i)
  BY <1>1 DEF Pending, Arrived, InProgress, Of, SameMatter, SameSource
<1>4. Calm(p)
  BY <1>1, <1>2, <1>3 DEF Calm
<1>5. Steady(p)
  BY <1>1, <1>2, <1>3, <1>4 DEF Steady
<1>6. QED
  BY <1>4, <1>5, SteadyKept

\* Every step keeps what is said of a player.
LEMMA PlayerStep ==
    ASSUME NEW p \in Player, Held(p), [Next]_vars PROVE Kept(p)
<1>1. TypeOK /\ FlightsTyped /\ RestTyped /\ Frame /\ Recognised /\ "lostAnswer" \notin events
  BY DEF Held, Single, Copying
<1>2. CASE Untouched(p)
  BY <1>2, UntouchedSteady, SteadyKept
<1>3. ASSUME NEW t \in Tile, Play(t, p) \/ Sweep(t, p) \/ Crash(t) PROVE Kept(p)
  BY <1>3, KeptPlay, KeptSweep, KeptCrash
<1>4. ASSUME NEW t \in Tile, NEW to \in Tile, InitiateHandoff(t, p, to) PROVE Kept(p)
  BY <1>4, KeptInitiate
<1>5. ASSUME NEW i \in Id, Of(i, p),
             \/ Forward(i) \/ ReceiveHandoff(i) \/ Locate(i) \/ Redirect(i) \/ Complete(i)
             \/ GiveUp(i) \/ Unclaimed(i) \/ Unreachable(i)
      PROVE  Kept(p)
  BY <1>5, KeptForward, KeptReceive, KeptLocate, KeptRedirect, KeptComplete, KeptGiveUp,
     KeptUnclaimed, KeptUnreachable
<1>6. \A i \in Id : ~LoseAnswer(i)
  BY <1>1 DEF LoseAnswer
<1>7. CASE Connect(p) \/ Arrive(p) \/ AbandonCrossing(p) \/ Leave(p)
  BY <1>7, ConnectJoins, ArriveJoins, KeptJoin, KeptAway
<1>8. QED
  BY <1>1, <1>2, <1>3, <1>4, <1>5, <1>6, <1>7, Acting

\* Nobody is evicted, and who is registered stays so.
LEMMA StaysRegistered ==
    ASSUME "eviction" \notin events, registered = Tile, [Next]_vars PROVE registered' = Tile
  BY StepCases
  DEF Play, Sweep, InitiateHandoff, Forward, ReceiveHandoff, Locate, Redirect, Complete, GiveUp,
      Unclaimed, Unreachable, LoseAnswer, ReceiveAgain, Evict, Register, Crash, Connect, Arrive,
      AbandonCrossing, Leave, Join, gateway, vars

LEMMA PlayersStep ==
    ASSUME TypeOK, Frame, SingleInv, ForwardsInv, AwaitedInv, [Next]_vars
    PROVE  SingleInv' /\ ForwardsInv' /\ AwaitedInv'
<1>1. FlightsTyped /\ RestTyped /\ FlightsOK
  BY FlightsAreTyped DEF Frame, FlightsOK
<1>2. events' = events
  BY EnvironmentKept
<1>3. (Single' => Single) /\ (Forwards' => Forwards) /\ (Forwards => Single)
  BY <1>1, <1>2, RecognisedBefore DEF Single, Forwards, Rewinding
<1>4. ASSUME Single, NEW p \in Player PROVE Kept(p)
  <2>1. Held(p)
    BY <1>1, <1>4 DEF Held, SingleInv
  <2>2. QED
    BY <2>1, PlayerStep
<1>5. SingleInv'
  <2>1. ASSUME Single' PROVE registered' = Tile
    BY <1>3, <2>1, StaysRegistered DEF Single, Copying, SingleInv
  <2>2. ASSUME Single', NEW p \in Player PROVE SingleOK(p)'
    BY <1>3, <1>4, <2>2 DEF Kept
  <2>3. QED
    BY <2>1, <2>2 DEF SingleInv
<1>6. ForwardsInv'
  BY <1>3, <1>4 DEF Kept, ForwardsInv
<1>7. AwaitedInv'
  BY <1>2, <1>3, <1>4 DEF Kept, ForwardsInv, AwaitedInv
<1>8. QED
  BY <1>5, <1>6, <1>7

-----------------------------------------------------------------------------
(* The invariant. *)

LEMMA InitInv == Init => IInv
<1> SUFFICES ASSUME Init PROVE IInv
  OBVIOUS
<1>1. TypeOK
  BY HandoffAssumption DEF Init, TypeOK, Body, Stage, Unused
<1>2. \A i \in Id : flight[i].stage = "unused" /\ ~flight[i].received
  BY DEF Init, Unused
<1>3. /\ \A t \in Tile : Received(t) = {} /\ seen[t] = <<>> /\ session[t] = {}
      /\ \A t \in Tile, p \in Player : body[t][p] = None
      /\ \A p \in Player : client[p] = None /\ crossing[p] = None
      /\ registered = Tile
  BY <1>2 DEF Init, Received
<1>4. \A i \in Id : ~InProgress(i) /\ ~Pending(i) /\ ~Arrived(i)
  BY <1>2 DEF InProgress, Pending, Arrived
<1>5. \A t \in Tile, p \in Player : ~Active(t, p) /\ ~Loose(t, p)
  BY <1>3 DEF Active, Loose
<1>6. Frame
  <2>1. \A t \in Tile : Len(seen[t]) = 0 /\ Cardinality(Received(t)) = 0
    <3>1. Len(<<>>) = 0
      OBVIOUS
    <3>2. Cardinality({}) = 0
      BY FS_EmptySet
    <3>3. QED
      BY <1>3, <3>1, <3>2
  <2>2. \A t \in Tile, i \in Id : ~Remembered(t, i)
    BY <1>3 DEF Remembered
  <2>3. QED
    BY <1>2, <1>3, <1>4, <2>1, <2>2
       DEF Frame, FlightOK, FlightsApart, SessionOK, ClientOK, RememberedReceived, Remembering
<1>7. \A p \in Player : SingleOK(p)
  BY <1>3, <1>4, <1>5
     DEF SingleOK, OneActive, OnePending, CrossingOK, PendingOK, LooseOK
<1>8. \A p \in Player : ForwardsOK(p) /\ AwaitedOK(p)
  BY <1>3, <1>4, <1>5, HandoffAssumption DEF ForwardsOK, AwaitedOK, Current
<1>9. QED
  BY <1>1, <1>3, <1>6, <1>7, <1>8 DEF IInv, SingleInv, ForwardsInv, AwaitedInv

LEMMA StepInv == IInv /\ [Next]_vars => IInv'
  BY FrameStep, PlayersStep DEF IInv

LEMMA AlwaysInv == Spec => []IInv
  BY InitInv, StepInv, PTL DEF Spec

-----------------------------------------------------------------------------
(* What follows. *)

\* Every variable keeps its type, and a tile that hands a player off has its
\* session, through every crossing, failure and restart.
THEOREM HandoffTypeCorrect == Spec => []TypeOK
<1>1. IInv => TypeOK
  BY DEF IInv
<1>2. QED
  BY <1>1, AlwaysInv, PTL

LEMMA OneBodyHolds == IInv => OneBody
<1> SUFFICES ASSUME IInv, events \cap Copying = {}, Recognised,
                    NEW p \in Player, OfPlayer(p) = {}, NEW t \in Bodies(p), NEW u \in Bodies(p)
             PROVE  t = u
  BY DEF OneBody
<1>1. SingleOK(p)
  BY DEF IInv, SingleInv, Single
<1>2. \A i \in Id : ~(InProgress(i) /\ Of(i, p))
  BY DEF OfPlayer, Of
<1>3. \A i \in Id : ~(Arrived(i) /\ Of(i, p))
  BY <1>2 DEF Arrived, InProgress
<1>4. \A v \in Tile : ~Flushing(v, p)
  BY <1>2 DEF Flushing, InProgress
<1>5. t \in Tile /\ (Active(t, p) \/ Loose(t, p)) /\ u \in Tile /\ (Active(u, p) \/ Loose(u, p))
  BY <1>4 DEF Bodies, Active, Loose
<1>6. QED
  BY <1>1, <1>3, <1>5 DEF SingleOK, OneActive, LooseOK, NobodyActive

\* Whatever is unreachable, restarts, repeats or is abandoned half-way, a
\* player whose handoffs have ended has at most one body in the world.
THEOREM HandoffOneBody == Spec => []OneBody
  BY OneBodyHolds, AlwaysInv, PTL

LEMMA ProgressHolds == IInv => ProgressKept
<1> SUFFICES ASSUME IInv, Forwards, NEW p \in Player, client[p] # None
             PROVE  body[client[p]][p] = change[p]
  BY DEF ProgressKept, Forwards
<1>1. client[p] \in Tile /\ ForwardsOK(p)
  BY DEF IInv, TypeOK, ForwardsInv
<1>2. Active(client[p], p)
  BY <1>1 DEF ForwardsOK
<1>3. QED
  BY <1>1, <1>2 DEF ForwardsOK, Current

\* A served client plays the body its player last had, however many crossings
\* succeeded, failed or were repeated before.
THEOREM HandoffKeepsProgress == Spec => []ProgressKept
  BY ProgressHolds, AlwaysInv, PTL

LEMMA CrossingHolds == IInv => CrossingFindsBody
<1> SUFFICES ASSUME IInv, Forwards, "crash" \notin events, NEW p \in Player, crossing[p] # None
             PROVE  body[crossing[p]][p] = change[p]
  BY DEF CrossingFindsBody, Forwards
<1>1. crossing[p] \in Tile /\ ForwardsOK(p) /\ AwaitedOK(p)
  BY DEF IInv, TypeOK, ForwardsInv, AwaitedInv
<1>2. Loose(crossing[p], p)
  BY <1>1 DEF AwaitedOK
<1>3. QED
  BY <1>1, <1>2 DEF ForwardsOK, Current

\* Unless tiles restart, a redirected client finds at its destination the body
\* it left at the source.
THEOREM CrossingAlwaysFindsBody == Spec => []CrossingFindsBody
  BY CrossingHolds, AlwaysInv, PTL

\* Served or redirected, a player goes on with the body it last had.
THEOREM HandoffRewindsNothing == Spec => []NothingRewound
  BY HandoffKeepsProgress, CrossingAlwaysFindsBody, PTL DEF NothingRewound

-----------------------------------------------------------------------------
(* What a handoff is to its player. *)

\* Only a restart leaves a flight without a source to answer to.
Orphaned ==
    \A i \in Id : flight[i].stage # "unused" /\ flight[i].from = None => "crash" \in events

LEMMA OrphanedStep ==
    ASSUME TypeOK, Frame, Orphaned, [Next]_vars PROVE Orphaned'
<1>1. FlightsTyped /\ RestTyped /\ events' = events
  BY FlightsAreTyped, EnvironmentKept
<1>2. ASSUME NEW i \in Id, NEW s, MovesTo(i, s), flight[i].stage # "unused" PROVE Orphaned'
  BY <1>1, <1>2 DEF MovesTo, SameStage, SameSource, Orphaned
<1>3. ASSUME NEW i \in Id,
             \/ Forward(i) \/ ReceiveHandoff(i) \/ Locate(i) \/ Redirect(i) \/ Complete(i)
             \/ GiveUp(i) \/ Unclaimed(i) \/ Unreachable(i) \/ LoseAnswer(i)
      PROVE  Orphaned'
  <2>1. flight[i].stage # "unused"
    BY <1>3 DEF Forward, ReceiveHandoff, Locate, Redirect, Complete, GiveUp, Unclaimed,
                Unreachable, LoseAnswer
  <2>2. \E s \in Stage : MovesTo(i, s)
    BY <1>1, <1>3, FlightSteps DEF Moves, Answers, Stage
  <2>3. QED
    BY <1>2, <2>1, <2>2
<1>4. ASSUME NEW t \in Tile, NEW p \in Player, NEW to \in Tile, InitiateHandoff(t, p, to)
      PROVE  Orphaned'
  <2>1. PICK n \in Id : flight'[n].from = t /\ \A j \in Id \ {n} : flight'[j] = flight[j]
    BY <1>4, InitiateBegins DEF Begins
  <2>2. QED
    BY <1>1, <2>1, HandoffAssumption DEF Orphaned
<1>5. ASSUME NEW t \in Tile, Crash(t) PROVE Orphaned'
  BY <1>1, <1>5 DEF Crash, Orphaned
<1>6. ASSUME flight' = flight PROVE Orphaned'
  BY <1>1, <1>6 DEF Orphaned
<1>7. QED
  BY <1>3, <1>4, <1>5, <1>6, StepCases
  DEF Play, Sweep, ReceiveAgain, Evict, Register, Connect, Arrive, Join, AbandonCrossing, Leave,
      vars

\* The body that counts is the active one, or else the one nobody has joined,
\* and it has every change.
Sits(p) ==
    /\ Place[p] \in Tile \cup {None}
    /\ \A t \in Tile : Place[p] = t <=> Active(t, p) \/ (NobodyActive(p) /\ Loose(t, p))
    /\ Made[p] = change[p]

PlayersSit == \A p \in Player : SingleOK(p) /\ ForwardsOK(p) => Sits(p)

LEMMA PlayerSits == PlayersSit
<1> SUFFICES ASSUME NEW p \in Player, SingleOK(p), ForwardsOK(p) PROVE Sits(p)
  BY DEF PlayersSit
<1>1. \A t, u \in Tile : Loose(t, p) /\ Loose(u, p) => t = u
  <2>1. \A i \in Id : Arrived(i) => Pending(i)
    BY DEF Arrived, Pending
  <2>2. QED
    BY <2>1 DEF SingleOK, LooseOK, OnePending, NonePending
<1>2. /\ Place[p] \in Tile \cup {None}
      /\ \A t \in Tile : Place[p] = t <=> Active(t, p) \/ (NobodyActive(p) /\ Loose(t, p))
  <2>1. CASE \E t \in Tile : Active(t, p)
    <3>1. Place[p] = CHOOSE t \in Tile : Active(t, p)
      BY <2>1 DEF Place
    <3>2. Place[p] \in Tile /\ Active(Place[p], p)
      BY <2>1, <3>1
    <3>3. QED
      BY <2>1, <3>2 DEF NobodyActive, SingleOK, OneActive
  <2>2. CASE (\A t \in Tile : ~Active(t, p)) /\ \E t \in Tile : Loose(t, p)
    <3>1. Place[p] = CHOOSE t \in Tile : Loose(t, p)
      BY <2>2 DEF Place
    <3>2. Place[p] \in Tile /\ Loose(Place[p], p)
      BY <2>2, <3>1
    <3>3. QED
      BY <1>1, <2>2, <3>2 DEF NobodyActive
  <2>3. CASE (\A t \in Tile : ~Active(t, p)) /\ \A t \in Tile : ~Loose(t, p)
    <3>1. Place[p] = None
      BY <2>3 DEF Place
    <3>2. QED
      BY <2>3, <3>1, HandoffAssumption
  <2>4. QED
    BY <2>1, <2>2, <2>3
<1>3. Place[p] # None => body[Place[p]][p] = change[p]
  BY <1>2 DEF ForwardsOK, Current
<1>4. QED
  BY <1>2, <1>3 DEF Sits, Made

\* Every step is one of these to a player.
Goes(p) ==
    Travels!Still(p) \/ Travels!Act(p) \/ Travels!Travel(p) \/ Travels!Appear(p)
    \/ Travels!Vanish(p) \/ Travels!Recover(p)

Ready(p) ==
    /\ Held(p) /\ Forwards /\ ForwardsOK(p) /\ Sits(p) /\ Orphaned
    /\ "crash" \notin events => AwaitedOK(p)

\* A step that moves no body of p and makes no change to it.
LEMMA StaysStill ==
    ASSUME NEW p \in Player, Sits(p), Sits(p)', change'[p] = change[p],
           \A t \in Tile : (Active(t, p)' <=> Active(t, p)) /\ (Loose(t, p)' <=> Loose(t, p))
    PROVE  Goes(p)
<1>1. \A t \in Tile : Place'[p] = t <=> Place[p] = t
  BY DEF Sits, NobodyActive
<1>2. Place'[p] = Place[p] /\ Made'[p] = Made[p]
  BY <1>1 DEF Sits
<1>3. QED
  BY <1>2 DEF Goes, Travels!Still

\* One that makes no change leaves the body somewhere, or takes it out of the
\* world when that may be.
LEMMA LeavesPlace ==
    ASSUME NEW p \in Player, Sits(p), Sits(p)', change'[p] = change[p], Place[p] # None,
           Place'[p] = None => "crash" \in events \/ (client[p] = None /\ crossing[p] = None)
    PROVE  Goes(p)
<1>1. Made'[p] = Made[p] /\ Place'[p] \in Tile \cup {None}
  BY DEF Sits
<1>2. CASE Place'[p] \in Tile
  BY <1>1, <1>2 DEF Goes, Travels!Travel
<1>3. CASE Place'[p] = None
  BY <1>1, <1>3 DEF Goes, Travels!Vanish
<1>4. QED
  BY <1>1, <1>2, <1>3

LEMMA GoesRedirect ==
    ASSUME NEW p \in Player, Ready(p), Sits(p)', NEW i \in Id, Of(i, p), Redirect(i)
    PROVE  Goes(p)
<1>1. /\ MovesTo(i, "flushing") /\ flight[i].stage = "located" /\ flight[i].from # None
      /\ UNCHANGED <<body, session, change>>
  BY FlightSteps DEF Ready, Held, Moves, Redirect
<1>2. InProgress(i) /\ Pending(i) /\ Arrived(i)
  BY <1>1 DEF InProgress, Pending, Arrived
<1>3. Place[p] # None
  BY <1>1, <1>2, SourceKnows, HandoffAssumption DEF Ready, Sits
<1>4. \A u \in Tile : ~Active(u, p)'
  <2>1. ASSUME NEW u \in Tile, Active(u, p)' PROVE FALSE
    <3>1. ~Flushing(u, p)
      <4>1. ASSUME NEW j \in Id, flight[j].stage = "flushing", Of(j, p) PROVE FALSE
        BY <1>1, <1>2, <4>1 DEF Ready, ForwardsOK, InProgress
      <4>2. QED
        BY <4>1 DEF Flushing
    <3>2. u = flight[i].from
      BY <1>1, <1>2, <2>1, <3>1, SourceKnows DEF Active, Ready, Held, SingleOK, OneActive
    <3>3. Flushing(u, p)'
      BY <1>1, <3>2, Moved DEF Flushing, SameSource
    <3>4. QED
      BY <2>1, <3>3 DEF Active
  <2>2. QED
    BY <2>1
<1>5. ASSUME "crash" \notin events PROVE Place'[p] # None
  <2>1. PICK u \in Tile : u = flight[i].to
    BY <1>1 DEF Ready, Held, Frame, FlightOK
  <2>2. Loose(u, p)
    BY <1>2, <1>5, <2>1 DEF Ready, AwaitedOK
  <2>3. Loose(u, p)'
    BY <1>1, <2>2 DEF Loose
  <2>4. QED
    BY <1>4, <2>3, HandoffAssumption DEF Sits, NobodyActive
<1>6. QED
  BY <1>1, <1>3, <1>5, LeavesPlace DEF Ready

\* A request makes a body count only if its source has restarted since.
LEMMA GoesReceive ==
    ASSUME NEW p \in Player, Ready(p), Sits(p)', NEW i \in Id, Of(i, p), ReceiveHandoff(i)
    PROVE  Goes(p)
<1>1. /\ MovesTo(i, IF demanded \in PayloadFields THEN "restored" ELSE "failed")
      /\ flight[i].stage = "forwarded" /\ flight[i].player = p
      /\ UNCHANGED <<session, change>>
  BY FlightSteps DEF Ready, Held, Answers, ReceiveHandoff, Of
<1>2. InProgress(i) /\ Pending(i) /\ ~Arrived(i)
  BY <1>1 DEF InProgress, Pending, Arrived
<1>3. \A u \in Tile : Active(u, p)' <=> Active(u, p)
  <2>1. SameFlushing(p)
    BY <1>1, Moved
  <2>2. QED
    BY <1>1, <2>1 DEF Active, SameFlushing
<1>4. CASE demanded \notin PayloadFields
  <2>1. body' = body
    BY <1>4, FirstReceipt DEF Ready
  <2>2. QED
    BY <1>1, <1>3, <2>1, StaysStill DEF Ready, Loose
<1>5. CASE \E u \in Tile : Active(u, p)
  <2>1. \A t \in Tile : Place'[p] = t <=> Place[p] = t
    BY <1>3, <1>5 DEF Ready, Sits, NobodyActive
  <2>2. Place'[p] = Place[p] /\ Made'[p] = Made[p]
    BY <1>1, <2>1 DEF Ready, Sits
  <2>3. QED
    BY <2>2 DEF Goes, Travels!Still
<1>6. CASE \A u \in Tile : ~Active(u, p)
  <2>1. "crash" \in events
    <3>1. flight[i].from = None
      BY <1>2, <1>6, SourceKnows DEF Ready
    <3>2. QED
      BY <1>1, <3>1 DEF Ready, Orphaned
  <2>2. Place[p] = None
    BY <1>2, <1>6, OnlyPending DEF Ready, Held, Sits
  <2>3. Made'[p] = Made[p] /\ Place'[p] \in Tile \cup {None}
    BY <1>1 DEF Ready, Sits
  <2>4. QED
    BY <2>1, <2>2, <2>3 DEF Goes, Travels!Still, Travels!Recover
<1>7. QED
  BY <1>4, <1>5, <1>6

LEMMA GoesPlay ==
    ASSUME NEW p \in Player, Ready(p), Sits(p)', NEW t \in Tile, Play(t, p) PROVE Goes(p)
<1>1. /\ client[p] = t /\ p \notin handingOff[t] /\ change'[p] = body[t][p] + 1
      /\ UNCHANGED <<session, flight>>
  BY DEF Play, Ready, Held, RestTyped, Forwards, Rewinding
<1>2. Active(t, p) /\ Active(t, p)'
  BY <1>1 DEF Ready, ForwardsOK, Active, Flushing, Of
<1>3. Place[p] = t /\ Place'[p] = t
  BY <1>2 DEF Ready, Sits
<1>4. Made[p] = body[t][p] /\ Made'[p] = Made[p] + 1
  BY <1>1, <1>2 DEF Ready, Sits, ForwardsOK, Current
<1>5. QED
  BY <1>1, <1>3, <1>4, HandoffAssumption DEF Goes, Travels!Act

LEMMA GoesSweep ==
    ASSUME NEW p \in Player, Ready(p), Sits(p)', NEW t \in Tile, Sweep(t, p) PROVE Goes(p)
<1>1. /\ p \in session[t] /\ p \notin handingOff[t] /\ client[p] # t
      /\ UNCHANGED <<client, crossing, change>>
  BY DEF Sweep, clients
<1>2. (\A u \in Tile : Active(u, p) <=> u = t) /\ crossing[p] = None
  BY <1>1, Alone DEF Ready
<1>3. client[p] = None
  BY <1>1, <1>2 DEF Ready, ForwardsOK, Held, RestTyped
<1>4. Place[p] # None
  BY <1>2, HandoffAssumption DEF Ready, Sits
<1>5. QED
  BY <1>1, <1>2, <1>3, <1>4, LeavesPlace DEF Ready

LEMMA GoesInitiate ==
    ASSUME NEW p \in Player, Ready(p), Sits(p)', NEW t \in Tile, NEW to \in Tile,
           InitiateHandoff(t, p, to)
    PROVE  Goes(p)
<1>1. UNCHANGED <<body, session, change>>
  BY DEF InitiateHandoff
<1>2. PICK n \in Id : /\ flight[n].stage = "unused" /\ flight'[n].stage = "requested"
                      /\ \A j \in Id \ {n} : flight'[j] = flight[j]
  BY InitiateBegins DEF Begins, Ready, Held
<1>3. \A u \in Tile : Flushing(u, p)' <=> Flushing(u, p)
  <2>1. flight[n].stage # "flushing" /\ flight'[n].stage # "flushing"
    BY <1>2
  <2>2. QED
    BY <1>2, <2>1 DEF Flushing, Of
<1>4. QED
  BY <1>1, <1>3, StaysStill DEF Ready, Active, Loose

LEMMA GoesCrash ==
    ASSUME NEW p \in Player, Ready(p), Sits(p)', NEW t \in Tile, Crash(t) PROVE Goes(p)
<1>1. change' = change /\ "crash" \in events
  BY DEF Crash
<1>2. CASE Place[p] # None
  BY <1>1, <1>2, LeavesPlace DEF Ready
<1>3. CASE Place[p] = None
  <2>1. \A u \in Tile : ~Active(u, p) /\ ~Loose(u, p)
    BY <1>3, HandoffAssumption DEF Ready, Sits, NobodyActive
  <2>2. \A j \in Id : /\ flight'[j].player = flight[j].player
                      /\ flight'[j].stage = flight[j].stage
                      /\ flight'[j].from = IF flight[j].from = t THEN None ELSE flight[j].from
    BY CrashOrphans DEF Ready, Held, Orphans, SameMatter, SameStage
  <2>3. /\ p \notin session'[t] /\ body'[t][p] = None
        /\ \A u \in Tile \ {t} : session'[u] = session[u] /\ body'[u] = body[u]
    BY DEF Crash, Ready, Held, RestTyped
  <2>4. \A u \in Tile \ {t} : Flushing(u, p)' <=> Flushing(u, p)
    BY <2>2, HandoffAssumption DEF Flushing, Of
  <2>5. \A u \in Tile : ~Active(u, p)' /\ ~Loose(u, p)'
    BY <2>1, <2>3, <2>4 DEF Active, Loose
  <2>6. QED
    BY <1>1, <2>1, <2>5, StaysStill DEF Ready
<1>4. QED
  BY <1>2, <1>3

\* A join adopts the body that waits for it, and spawns one only if none does.
LEMMA GoesJoin ==
    ASSUME NEW p \in Player, Ready(p), Sits(p)', NEW t \in Tile, JoinsAlone(t, p) PROVE Goes(p)
<1>1. Joins(t, p) /\ NobodyActive(p) /\ p \notin session[t] /\ ~Flushing(t, p)
      /\ \A u \in Tile : Loose(u, p) => u = t
  BY DEF JoinsAlone, Ready
<1>2. Active(t, p)' /\ client'[p] = t
  BY <1>1 DEF Joins, Active, Flushing, Of
<1>3. Place'[p] = t
  BY <1>2 DEF Sits
<1>4. CASE body[t][p] = None
  <2>1. Place[p] = None
    BY <1>1, <1>4 DEF Ready, Sits, NobodyActive, Loose
  <2>2. Made'[p] = 0
    BY <1>1, <1>4 DEF Joins, Sits
  <2>3. QED
    BY <1>2, <1>3, <2>1, <2>2, HandoffAssumption DEF Goes, Travels!Appear
<1>5. CASE body[t][p] # None
  <2>1. Place[p] = t
    BY <1>1, <1>5 DEF Ready, Sits, Loose
  <2>2. Made'[p] = Made[p]
    BY <1>1, <1>5 DEF Joins, Ready, Sits
  <2>3. QED
    BY <1>3, <2>1, <2>2 DEF Goes, Travels!Still
<1>6. QED
  BY <1>4, <1>5

LEMMA GoesStep ==
    ASSUME NEW p \in Player, Ready(p), Sits(p)', [Next]_vars PROVE Goes(p)
<1>1. TypeOK /\ FlightsTyped /\ RestTyped /\ Frame /\ Recognised /\ "lostAnswer" \notin events
      /\ Held(p) /\ Sits(p)
  BY DEF Ready, Held, Single, Copying
<1>2. ASSUME Calm(p) PROVE Goes(p)
  BY <1>1, <1>2, StaysStill DEF Calm
<1>3. CASE Untouched(p)
  BY <1>2, <1>3, UntouchedSteady DEF Steady
<1>4. ASSUME NEW t \in Tile,
             Play(t, p) \/ Sweep(t, p) \/ Crash(t) \/ \E to \in Tile : InitiateHandoff(t, p, to)
      PROVE  Goes(p)
  BY <1>4, GoesPlay, GoesSweep, GoesCrash, GoesInitiate
<1>5. ASSUME NEW i \in Id, Of(i, p), Redirect(i) \/ ReceiveHandoff(i) PROVE Goes(p)
  BY <1>5, GoesRedirect, GoesReceive
<1>6. ASSUME NEW i \in Id, Of(i, p),
             \/ Forward(i) \/ Locate(i) \/ Complete(i) \/ GiveUp(i) \/ Unclaimed(i)
             \/ Unreachable(i)
      PROVE  Goes(p)
  BY <1>1, <1>2, <1>6, KeptForward, KeptLocate, KeptComplete, KeptGiveUp, KeptUnclaimed,
     KeptUnreachable
<1>7. \A i \in Id : ~LoseAnswer(i)
  BY <1>1 DEF LoseAnswer
<1>8. CASE Connect(p) \/ Arrive(p)
  BY <1>1, <1>8, ConnectJoins, ArriveJoins, GoesJoin
<1>9. CASE AbandonCrossing(p) \/ Leave(p)
  BY <1>1, <1>2, <1>9, KeptAway
<1>10. QED
  BY <1>1, <1>3, <1>4, <1>5, <1>6, <1>7, <1>8, <1>9, Acting

\* Whatever a crossing meets on its way, it is one step to its player: the
\* body goes to the other tile with every change, and unless a tile restarts
\* it leaves the world only once nobody plays it.
THEOREM HandoffFollowsTravels == Spec => FollowsTravels
<1>1. Init => Travels!Init /\ Orphaned
  <2> SUFFICES ASSUME Init PROVE Travels!Init /\ Orphaned
    OBVIOUS
  <2>1. \A t \in Tile, p \in Player : body[t][p] = None /\ p \notin session[t]
    BY DEF Init
  <2>2. \A p \in Player : client[p] = None /\ crossing[p] = None /\ change[p] = 0
    BY DEF Init
  <2>3. Place = [p \in Player |-> None]
    BY <2>1 DEF Place, Active, Loose
  <2>4. Made = [p \in Player |-> 0]
    BY <2>2, <2>3 DEF Made
  <2>5. \A i \in Id : flight[i].stage = "unused"
    BY DEF Init, Unused
  <2>6. Forwards \in BOOLEAN
    BY DEF Forwards, Recognised
  <2>7. QED
    BY <2>2, <2>3, <2>4, <2>5, <2>6 DEF Travels!Init, Orphaned
<1>2. IInv /\ Orphaned /\ [Next]_vars => Orphaned'
  BY OrphanedStep DEF IInv
<1>3. IInv /\ IInv' /\ Orphaned /\ [Next]_vars => Travels!Next
  <2> SUFFICES ASSUME IInv, IInv', Orphaned, [Next]_vars, Forwards'
               PROVE  /\ Forwards
                      /\ ("crash" \in events)' = ("crash" \in events)
                      /\ \A p \in Player : Goes(p)
    BY DEF Travels!Next, Goes
  <2>1. FlightsTyped /\ RestTyped /\ FlightsOK /\ events' = events /\ TypeOK /\ Frame
    BY FlightsAreTyped, EnvironmentKept DEF IInv, Frame, FlightsOK
  <2>2. Forwards /\ Single /\ Single'
    BY <2>1, RecognisedBefore DEF Single, Forwards, Rewinding
  <2>3. ASSUME NEW p \in Player PROVE Goes(p)
    <3>1. Ready(p)
      BY <2>1, <2>2, PlayerSits
      DEF Ready, Held, IInv, SingleInv, ForwardsInv, AwaitedInv, PlayersSit
    <3>2. SingleOK(p)' /\ ForwardsOK(p)'
      BY <2>2 DEF IInv, SingleInv, ForwardsInv
    <3>3. Sits(p)'
      <4>1. PlayersSit'
        BY PlayerSits, PTL
      <4>2. QED
        BY <3>2, <4>1 DEF PlayersSit
    <3>4. QED
      BY <3>1, <3>3, GoesStep
  <2>4. QED
    BY <2>1, <2>2, <2>3
<1>4. QED
  BY <1>1, <1>2, <1>3, AlwaysInv, PTL DEF Spec, FollowsTravels, Travels!Spec

-----------------------------------------------------------------------------
(* The gateway's other protocol, the switchboard of ServiceLinks.          *)

CONSTANTS Coordinator, Sessions, StalledWrite, MaxDrops

VARIABLES pc, transport, writer, up, owner, reader, forward, watched, stream,
          tileLinks, coordinator, pushed, learned, drops

Links == INSTANCE ServiceLinks

\* A peer writes on a session of its own, and the coordinator only commands:
\* what its read loop takes from the stream names a tile.
LinksOwned ==
    /\ \A x \in Links!Peer : writer[x] # 0 => owner[writer[x]] = x
    /\ \A s \in Links!Session : reader[s] # "ended" => owner[s] \in Links!Peer
    /\ \A s \in Links!Session :
          owner[s] = Coordinator /\ stream[s] # Links!NoFrame => stream[s] \in {"command"} \X Tile

LinksInv == Links!TypeOK /\ LinksOwned

LEMMA LinksInitInv ==
    ASSUME Links!LinksAssumption, Links!Init
    PROVE  LinksInv
BY DEF Links!LinksAssumption, Links!Init, Links!TypeOK, Links!None, Links!NoFrame, LinksInv,
       LinksOwned

\* The reconnect loops.
LEMMA LinksLoopInv ==
    ASSUME LinksInv, NEW x \in Links!Peer, Links!Loop(x)
    PROVE  LinksInv'
<1> USE DEF Links!None, Links!links, Links!summaries
<1>1. ASSUME NEW s \in Links!Session, Links!Dial(x, s) PROVE LinksInv'
  <2>1. Links!TypeOK'
    <3>1. /\ pc' \in [Links!Peer -> {"waiting", "dialed", "connected"}]
          /\ transport' \in [Links!Peer -> Links!Session \cup {0}]
          /\ writer' \in [Links!Peer -> Links!Session \cup {0}]
          /\ up' \subseteq Links!Session
      BY <1>1 DEF LinksInv, Links!TypeOK, Links!Dial
    <3>2. /\ owner' \in [Links!Session -> Links!Peer \cup {0}]
          /\ stream' \in [Links!Session -> Links!Frame \cup {Links!NoFrame}]
      BY <1>1 DEF LinksInv, Links!TypeOK, Links!Dial
    <3>3. /\ reader' = [reader EXCEPT ![s] = "handshake"] /\ reader[s] = "ended"
          /\ UNCHANGED <<forward, watched, tileLinks, coordinator, pushed, learned, drops>>
      BY <1>1 DEF Links!Dial, Links!Free
    <3>4. /\ reader' \in [Links!Session -> {"handshake", "reading", "forwarding", "ended"}]
          /\ \A r \in Links!Session : forward'[r] # 0 <=> reader'[r] = "forwarding"
      BY <3>3 DEF LinksInv, Links!TypeOK
    <3>5. QED
      BY <3>1, <3>2, <3>3, <3>4 DEF LinksInv, Links!TypeOK
  <2>2. /\ owner' = [owner EXCEPT ![s] = x] /\ writer' = [writer EXCEPT ![x] = s]
        /\ stream' = [stream EXCEPT ![s] = Links!NoFrame]
        /\ reader' = [reader EXCEPT ![s] = "handshake"]
        /\ \A y \in Links!Peer : writer[y] # s
    BY <1>1 DEF Links!Dial, Links!Free
  <2>3. /\ owner \in [Links!Session -> Links!Peer \cup {0}]
        /\ writer \in [Links!Peer -> Links!Session \cup {0}]
        /\ DOMAIN stream = Links!Session /\ DOMAIN reader = Links!Session /\ LinksOwned
    BY DEF LinksInv, Links!TypeOK
  <2>4. \A y \in Links!Peer : writer'[y] # 0 => owner'[writer'[y]] = y
    BY <2>2, <2>3 DEF LinksOwned
  <2>5. \A r \in Links!Session :
          owner'[r] = Coordinator /\ stream'[r] # Links!NoFrame
            => stream'[r] \in {"command"} \X Tile
    BY <2>2, <2>3 DEF LinksOwned
  <2>6. \A r \in Links!Session : reader'[r] # "ended" => owner'[r] \in Links!Peer
    BY <2>2, <2>3 DEF LinksOwned
  <2>7. QED
    BY <2>1, <2>4, <2>5, <2>6 DEF LinksInv, LinksOwned
<1>2. ASSUME Links!Acked(x) PROVE LinksInv'
  BY <1>2 DEF LinksInv, Links!TypeOK, LinksOwned, Links!Acked
<1>3. ASSUME Links!Rejected(x) PROVE LinksInv'
  BY <1>3 DEF LinksInv, Links!TypeOK, LinksOwned, Links!Rejected
<1>4. ASSUME Links!Lost(x) PROVE LinksInv'
  BY <1>4 DEF LinksInv, Links!TypeOK, LinksOwned, Links!Lost
<1>5. QED
  BY <1>1, <1>2, <1>3, <1>4 DEF Links!Loop

\* The gateway's handshakes, callbacks and read loops.
LEMMA LinksGatewayInv ==
    ASSUME LinksInv, Links!LinksAssumption, NEW s \in Links!Session,
           Links!Handshake(s) \/ Links!Route(s) \/ Links!Unlink(s) \/ Links!Drop(s)
    PROVE  LinksInv'
<1> USE DEF Links!None, Links!links, Links!peers, Links!summaries
<1>1. CASE Links!Handshake(s)
  <2>1. CASE Links!AcceptTile(s)
    BY <2>1 DEF LinksInv, Links!TypeOK, LinksOwned, Links!AcceptTile
  <2>2. CASE Links!AcceptCoordinator(s)
    BY <2>2 DEF LinksInv, Links!TypeOK, LinksOwned, Links!AcceptCoordinator
  <2>3. CASE Links!RefuseCoordinator(s)
    BY <2>3 DEF LinksInv, Links!TypeOK, LinksOwned, Links!RefuseCoordinator
  <2>4. CASE Links!HandshakeLost(s)
    BY <2>4 DEF LinksInv, Links!TypeOK, LinksOwned, Links!HandshakeLost
  <2>5. QED
    BY <1>1, <2>1, <2>2, <2>3, <2>4 DEF Links!Handshake
<1>2. CASE Links!Read(s)
  <2>1. Links!Target(s) \in Links!Session \cup {0}
    <3>1. owner[s] = Coordinator => stream[s] \in {"command"} \X Tile
      BY <1>2 DEF LinksInv, LinksOwned, Links!Read
    <3>2. tileLinks \in [Tile -> Links!Session \cup {0}]
          /\ coordinator \in Links!Session \cup {0}
      BY DEF LinksInv, Links!TypeOK
    <3>3. owner[s] = Coordinator => stream[s][2] \in Tile
      BY <3>1
    <3>4. QED
      BY <3>2, <3>3 DEF Links!Target
  <2>2. CASE Links!Target(s) = 0
    BY <1>2, <2>2 DEF LinksInv, Links!TypeOK, LinksOwned, Links!Read
  <2>3. CASE Links!Target(s) # 0
    BY <1>2, <2>1, <2>3 DEF LinksInv, Links!TypeOK, LinksOwned, Links!Read
  <2>4. QED
    BY <2>2, <2>3
<1>3. CASE Links!Forward(s) \/ Links!ReadEnd(s)
  <2>1. /\ UNCHANGED <<pc, transport, writer, owner, watched, pushed, drops>>
        /\ up' \subseteq up /\ reader[s] # "ended"
        /\ \E how \in {"reading", "ended"} : Links!Done(s, how)
        /\ coordinator' \in {coordinator, 0}
        /\ \/ learned' = learned
           \/ learned' = learned \cup {owner[s]} /\ stream[s] = <<"summary", 0>>
        /\ \/ tileLinks' = tileLinks
           \/ \E t : tileLinks' = [tileLinks EXCEPT ![t] = 0]
    <3>1. CASE Links!Delivered(s)
      BY <3>1 DEF Links!Delivered
    <3>2. CASE Links!Swallowed(s)
      BY <3>2 DEF Links!Swallowed
    <3>3. CASE Links!CommandFailed(s)
      BY <3>3 DEF Links!CommandFailed
    <3>4. CASE Links!EventFailed(s)
      BY <3>4 DEF Links!EventFailed
    <3>5. CASE Links!EventFailedTwice(s)
      BY <3>5 DEF Links!EventFailedTwice
    <3>6. CASE Links!ReadEnd(s)
      BY <3>6 DEF Links!ReadEnd
    <3>7. QED
      BY <1>3, <3>1, <3>2, <3>3, <3>4, <3>5, <3>6 DEF Links!Forward
  <2>2. PICK how \in {"reading", "ended"} : Links!Done(s, how)
    BY <2>1
  <2>3. /\ reader' = [reader EXCEPT ![s] = how] /\ forward' = [forward EXCEPT ![s] = 0]
        /\ stream' = [stream EXCEPT ![s] = Links!NoFrame]
    BY <2>2 DEF Links!Done
  <2>4. Links!TypeOK /\ LinksOwned
    BY DEF LinksInv
  <2>5. /\ reader' \in [Links!Session -> {"handshake", "reading", "forwarding", "ended"}]
        /\ forward' \in [Links!Session -> Links!Session \cup {0}]
        /\ \A r \in Links!Session : forward'[r] # 0 <=> reader'[r] = "forwarding"
    BY <2>3, <2>4 DEF Links!TypeOK
  <2>6. stream' \in [Links!Session -> Links!Frame \cup {Links!NoFrame}]
    BY <2>3, <2>4 DEF Links!TypeOK
  <2>7. learned' \subseteq Tile
    <3>1. stream[s] = <<"summary", 0>> => owner[s] \in Tile
      BY <2>1, <2>4 DEF LinksOwned, Links!Peer, Links!NoFrame
    <3>2. QED
      BY <2>1, <2>4, <3>1 DEF Links!TypeOK
  <2>8. tileLinks' \in [Tile -> Links!Session \cup {0}]
        /\ coordinator' \in Links!Session \cup {0}
    BY <2>1, <2>4 DEF Links!TypeOK
  <2>9. Links!TypeOK'
    BY <2>1, <2>4, <2>5, <2>6, <2>7, <2>8 DEF Links!TypeOK
  <2>10. LinksOwned'
    BY <2>1, <2>3, <2>4 DEF Links!TypeOK, LinksOwned
  <2>11. QED
    BY <2>9, <2>10 DEF LinksInv
<1>4. CASE Links!Unlink(s)
  <2>1. /\ UNCHANGED <<pc, transport, writer, up, owner, reader, forward, stream, pushed,
                      learned, drops>>
        /\ watched' \subseteq watched /\ coordinator' \in {coordinator, 0}
        /\ tileLinks' = [t \in Tile |-> IF tileLinks[t] = s THEN 0 ELSE tileLinks[t]]
    BY <1>4 DEF Links!Unlink
  <2>2. Links!TypeOK /\ LinksOwned
    BY DEF LinksInv
  <2>3. /\ tileLinks' \in [Tile -> Links!Session \cup {0}]
        /\ coordinator' \in Links!Session \cup {0}
    BY <2>1, <2>2 DEF Links!TypeOK
  <2>4. Links!TypeOK' /\ LinksOwned'
    BY <2>1, <2>2, <2>3 DEF Links!TypeOK, LinksOwned
  <2>5. QED
    BY <2>4 DEF LinksInv
<1>5. CASE Links!Drop(s)
  BY <1>5 DEF LinksInv, Links!TypeOK, LinksOwned, Links!Drop, Links!LinksAssumption
<1>6. QED
  BY <1>1, <1>2, <1>3, <1>4, <1>5 DEF Links!Route

\* The peers' writes.
LEMMA LinksPublishInv ==
    ASSUME LinksInv, Links!LinksAssumption, NEW t \in Tile,
           Links!PublishAlive(t) \/ Links!SendCommand(t) \/ Links!PushSummary(t)
    PROVE  LinksInv'
<1>1. ASSUME NEW x \in Links!Peer, NEW frame \in Links!Frame, Links!Publish(x, frame),
             x = Coordinator => frame \in {"command"} \X Tile,
             UNCHANGED <<pc, transport, writer, up, owner, reader, forward, watched, tileLinks,
                         coordinator, learned, drops>>,
             pushed' \subseteq Tile
      PROVE  LinksInv'
  <2>1. Links!TypeOK /\ LinksOwned
    BY DEF LinksInv
  <2>2. \/ UNCHANGED stream
        \/ /\ writer[x] \in Links!Session /\ writer[x] # 0
           /\ stream' = [stream EXCEPT ![writer[x]] = frame]
    BY <1>1, <2>1 DEF Links!Publish, Links!TypeOK, Links!None
  <2>3. stream' \in [Links!Session -> Links!Frame \cup {Links!NoFrame}]
    BY <2>1, <2>2 DEF Links!TypeOK
  <2>4. \A s \in Links!Session :
          owner[s] = Coordinator /\ stream'[s] # Links!NoFrame => stream'[s] \in {"command"} \X Tile
    BY <1>1, <2>1, <2>2 DEF Links!TypeOK, LinksOwned
  <2>5. Links!TypeOK'
    BY <1>1, <2>1, <2>3 DEF Links!TypeOK
  <2>6. LinksOwned'
    BY <1>1, <2>1, <2>4 DEF LinksOwned
  <2>7. QED
    BY <2>5, <2>6 DEF LinksInv
<1>2. t \in Links!Peer /\ t # Coordinator /\ Coordinator \in Links!Peer
  BY DEF Links!Peer, Links!LinksAssumption
<1>3. /\ <<"alive", 0>> \in Links!Frame /\ <<"summary", 0>> \in Links!Frame
      /\ <<"command", t>> \in Links!Frame /\ <<"command", t>> \in {"command"} \X Tile
  BY DEF Links!Frame, Links!Event, Links!None
<1>4. pushed \subseteq Tile
  BY DEF LinksInv, Links!TypeOK
<1> USE DEF Links!None, Links!links, Links!peers, Links!summaries
<1>5. CASE Links!PublishAlive(t)
  BY <1>1, <1>2, <1>3, <1>4, <1>5 DEF Links!PublishAlive
<1>6. CASE Links!SendCommand(t)
  BY <1>1, <1>2, <1>3, <1>4, <1>6 DEF Links!SendCommand
<1>7. CASE Links!PushSummary(t)
  BY <1>1, <1>2, <1>3, <1>4, <1>7 DEF Links!PushSummary
<1>8. QED
  BY <1>5, <1>6, <1>7

LEMMA LinksStepInv ==
    ASSUME Links!LinksAssumption, LinksInv, [Links!Next]_(Links!vars)
    PROVE  LinksInv'
<1>1. CASE Links!Next
  BY <1>1, LinksLoopInv, LinksGatewayInv, LinksPublishInv DEF Links!Next
<1>2. CASE UNCHANGED Links!vars
  BY <1>2 DEF LinksInv, Links!TypeOK, LinksOwned, Links!vars, Links!links, Links!peers,
     Links!summaries
<1>3. QED
  BY <1>1, <1>2

(* Every variable of the switchboard keeps its type, and a read loop       *)
(* forwards exactly while it has a target (wt_server.ts:268-313): for any  *)
(* tiles, number of sessions and broken sessions, late failures included.  *)
THEOREM LinksTypeCorrect ==
    ASSUME Links!LinksAssumption
    PROVE  Links!Spec => []Links!TypeOK
<1>1. Links!Init => LinksInv
  BY LinksInitInv
<1>2. LinksInv /\ [Links!Next]_(Links!vars) => LinksInv'
  BY LinksStepInv
<1>3. LinksInv => Links!TypeOK
  BY DEF LinksInv
<1>4. QED
  BY <1>1, <1>2, <1>3, PTL DEF Links!Spec

\* A read loop ends only with its session, and a session comes up unread only
\* when nobody is connected over it.
LEMMA LinksStepRead ==
    ASSUME LinksInv, Links!ConnectedIsRead, [Links!Next]_(Links!vars)
    PROVE  Links!ConnectedIsRead'
<1> USE DEF Links!None, Links!links, Links!peers, Links!summaries
<1> DEFINE Served(s) == reader[s] \in {"reading", "forwarding"}
<1>1. /\ up \subseteq Links!Session
      /\ reader \in [Links!Session -> {"handshake", "reading", "forwarding", "ended"}]
      /\ transport \in [Links!Peer -> Links!Session \cup {0}]
      /\ pc \in [Links!Peer -> {"waiting", "dialed", "connected"}]
  BY DEF LinksInv, Links!TypeOK
<1>2. ASSUME NEW x \in Links!Peer, NEW s \in Links!Session, Links!Dial(x, s)
      PROVE  Links!ConnectedIsRead'
  <2>1. /\ pc' = [pc EXCEPT ![x] = "dialed"] /\ transport' = [transport EXCEPT ![x] = s]
        /\ up' = up \cup {s} /\ reader' = [reader EXCEPT ![s] = "handshake"]
        /\ \A y \in Links!Peer : transport[y] # s
    BY <1>2 DEF Links!Dial, Links!Free
  <2>2. QED
    BY <1>1, <2>1 DEF Links!ConnectedIsRead
<1>3. ASSUME NEW x \in Links!Peer, Links!Acked(x) \/ Links!Rejected(x) \/ Links!Lost(x)
      PROVE  Links!ConnectedIsRead'
  <2>1. /\ UNCHANGED <<up, reader>>
        /\ \/ /\ pc' = [pc EXCEPT ![x] = "connected"] /\ UNCHANGED transport
              /\ Served(transport[x])
           \/ /\ pc' = [pc EXCEPT ![x] = "waiting"]
              /\ transport' = [transport EXCEPT ![x] = 0]
    BY <1>3 DEF Links!Acked, Links!Rejected, Links!Lost
  <2>2. QED
    BY <1>1, <2>1 DEF Links!ConnectedIsRead
<1>4. ASSUME UNCHANGED <<pc, transport>>, up' \subseteq up,
             \A s \in up' : Served(s) => reader'[s] \in {"reading", "forwarding"}
      PROVE  Links!ConnectedIsRead'
  BY <1>4 DEF Links!ConnectedIsRead
<1>5. ASSUME NEW s \in Links!Session, Links!Handshake(s)
      PROVE  Links!ConnectedIsRead'
  <2>1. /\ UNCHANGED <<pc, transport>> /\ up' \subseteq up /\ reader[s] = "handshake"
        /\ \E how \in {"reading", "ended"} : reader' = [reader EXCEPT ![s] = how]
    BY <1>5 DEF Links!Handshake, Links!AcceptTile, Links!AcceptCoordinator,
       Links!RefuseCoordinator, Links!HandshakeLost
  <2>2. QED
    BY <1>1, <1>4, <2>1
<1>6. ASSUME NEW s \in Links!Session, Links!Read(s) PROVE Links!ConnectedIsRead'
  <2>1. /\ UNCHANGED <<pc, transport, up>>
        /\ reader' = reader \/ reader' = [reader EXCEPT ![s] = "forwarding"]
    BY <1>6 DEF Links!Read
  <2>2. QED
    BY <1>1, <1>4, <2>1
<1>7. ASSUME NEW s \in Links!Session, Links!Forward(s) \/ Links!ReadEnd(s)
      PROVE  Links!ConnectedIsRead'
  <2>1. /\ UNCHANGED <<pc, transport>> /\ up' \subseteq up
        /\ \/ reader' = [reader EXCEPT ![s] = "reading"]
           \/ reader' = [reader EXCEPT ![s] = "ended"] /\ s \notin up'
    BY <1>7 DEF Links!Forward, Links!Delivered, Links!Swallowed, Links!CommandFailed,
       Links!EventFailed, Links!EventFailedTwice, Links!ReadEnd, Links!Done
  <2>2. QED
    BY <1>1, <1>4, <2>1
<1>8. ASSUME NEW s \in Links!Session, Links!Unlink(s) \/ Links!Drop(s)
      PROVE  Links!ConnectedIsRead'
  BY <1>4, <1>8 DEF Links!Unlink, Links!Drop
<1>9. ASSUME NEW t \in Tile,
             Links!PublishAlive(t) \/ Links!SendCommand(t) \/ Links!PushSummary(t)
      PROVE  Links!ConnectedIsRead'
  BY <1>4, <1>9 DEF Links!PublishAlive, Links!SendCommand, Links!PushSummary
<1>10. CASE UNCHANGED Links!vars
  BY <1>4, <1>10 DEF Links!vars
<1>11. QED
  BY <1>2, <1>3, <1>5, <1>6, <1>7, <1>8, <1>9, <1>10 DEF Links!Next, Links!Loop, Links!Route

(* Nobody writes into the void: a peer that is connected over a session    *)
(* that is up has a read loop at the gateway, whatever breaks, fails late, *)
(* is refused or dials again (wt_server.ts:195-200, 268-272).              *)
THEOREM LinksConnectedIsRead ==
    ASSUME Links!LinksAssumption
    PROVE  Links!Spec => []Links!ConnectedIsRead
<1>1. Links!Init => LinksInv /\ Links!ConnectedIsRead
  BY LinksInitInv DEF Links!Init, Links!ConnectedIsRead
<1>2. LinksInv /\ Links!ConnectedIsRead /\ [Links!Next]_(Links!vars)
        => LinksInv' /\ Links!ConnectedIsRead'
  BY LinksStepInv, LinksStepRead
<1>3. QED
  BY <1>1, <1>2, PTL DEF Links!Spec
=============================================================================
