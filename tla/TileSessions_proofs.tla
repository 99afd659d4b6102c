------------------------- MODULE TileSessions_proofs -------------------------
(***************************************************************************)
(* Proofs about TileSessions: its type invariant, the exactness of the     *)
(* session map and of the handoff markers, that bodies and sessions answer *)
(* for each other, that combat deaths are recorded once, and that a        *)
(* handoff in flight owns its body.                                        *)
(*                                                                         *)
(* None of these is inductive.  The invariant IInv says, per environment,  *)
(* what the four copies of "p is here" know of each other: the handler's   *)
(* stage, the session map, the world and the handoff.                      *)
(***************************************************************************)
EXTENDS TileSessions, TLAPS

\* An open session is that of a connection being served.
OpenIsLive == \A c \in Conn : open[c] => pc[c] = "live"

\* The session map names connections of the right player, which are served or
\* whose handler left the entry to a handoff.
ListedIsKnown ==
    \A p \in Player : sessions[p] # None =>
        player[sessions[p]] = p /\ pc[sessions[p]] \in {"live", "done"}

\* Until it is settled a handoff has a session to redirect.
HandoffHasSession ==
    \A p \in Player : handoff[p] \in {"fetching", "flushing"} => sessions[p] # None

\* Only players at gates are handed off.
NoGateNoHandoff == "handoff" \notin faults => HandingOff = {}

At(c, p, stages) == player[c] = p /\ pc[c] \in stages

\* Who takes the living body of p out of the world: a join that will register
\* a session, the session, or a cleanup that no handoff has forestalled.
Owned(p) ==
    \/ sessions[p] # None
    \/ \E c \in Conn : At(c, p, {"fog", "acking"})
    \/ p \notin handedOff /\ \E c \in Conn : At(c, p, {"savingFog"})

LivingIsOwned == Without({"joinAbort"}) => \A p \in Player : IsAlive(p) => Owned(p)

\* The rest is about clients that wait until the tile has forgotten them.
Patient == Without({"earlyReconnect"})

\* A player has one handler.
OneHandler ==
    \A c, d \in Conn : Handler(c) /\ Handler(d) /\ player[c] = player[d] => c = d

\* The body of p stands, or fell and its death is not yet recorded.
Accounted(p) ==
    IsAlive(p) \/ (body[p] = "absent" /\ p \in slain /\ unrecorded[p] > 0)

\* A handler that is not serving has no session beside it and no handoff; one
\* that serves is in the map or in nobody's place.
HandlerAlone(c) ==
    /\ Handler(c) /\ pc[c] # "live" =>
          sessions[player[c]] = None /\ handoff[player[c]] = "none"
    /\ pc[c] = "live" => sessions[player[c]] \in {None, c}

\* What the handler's stage says of the body.
HandlerBody(c) ==
    /\ pc[c] \in {"validating", "heritage"} => body[player[c]] = "absent"
    /\ pc[c] \in {"fog", "acking", "savingFog"} => Accounted(player[c])
    /\ pc[c] = "recording" => unrecorded[player[c]] > 0

SessionBody(p) ==
    /\ sessions[p] # None => Accounted(p)
    /\ handoff[p] = "flushing" => sessions[p] = carrier[p]
    /\ unrecorded[p] >= 0

PatientInv ==
    Patient => /\ OneHandler
               /\ \A c \in Conn : HandlerAlone(c) /\ HandlerBody(c)
               /\ \A p \in Player : SessionBody(p)

\* Deaths not yet recorded, by the stage of the player's handler, when nothing
\* goes wrong.
Owing(c) ==
    /\ pc[c] = "live" => open[c] /\ sessions[player[c]] = c
    /\ pc[c] \in {"validating", "heritage", "locating"} => unrecorded[player[c]] = 0
    /\ pc[c] \in {"fog", "acking", "live", "savingFog"} =>
          unrecorded[player[c]] = IF IsAlive(player[c]) THEN 0 ELSE 1
    /\ pc[c] = "recording" => unrecorded[player[c]] = 1 /\ ~IsAlive(player[c])

PlainInv ==
    faults = {} => /\ \A c \in Conn : Owing(c)
                   /\ \A p \in Player : Quiet(p) => unrecorded[p] = 0 /\ sessions[p] = None

IInv ==
    /\ TypeOK
    /\ OpenIsLive
    /\ ListedIsKnown
    /\ MarkerScoped
    /\ HandoffHasSession
    /\ NoGateNoHandoff
    /\ OpenIsRegistered
    /\ LivingIsOwned
    /\ PatientInv
    /\ PlainInv

-----------------------------------------------------------------------------
(* Types. *)

\* A step, action by action.
LEMMA StepOrTick ==
    ASSUME TypeOK, [Next]_vars
    PROVE  \/ \E c \in Conn, p \in Player : Connect(c, p)
           \/ \E c \in Conn : \/ RejectJoin(c) \/ AcceptJoin(c) \/ SpawnBody(c)
                              \/ FogFetched(c) \/ Register(c) \/ FinishCleanup(c)
                              \/ LocationUpdated(c) \/ RecordDeath(c) \/ AbortJoin(c)
                              \/ RequestRespawn(c) \/ StreamFault(c) \/ EndSession(c)
           \/ \E p \in Player : \/ HandoffRefused(p) \/ HandoffAccepted(p)
                                \/ HandoffDone(p) \/ HandoffFinally(p)
           \/ \E dying \in SUBSET Player, atGate \in SUBSET Player : Tick(dying, atGate)
           \/ UNCHANGED vars
  BY DEF Next, Continue, ContinueHandoff, SomeTick

\* Types survive every step.
LEMMA TypeStep ==
    ASSUME TypeOK, [Next]_vars
    PROVE  TypeOK'
<1> USE SessionsAssumption DEF handlerVars, handoffVars, history, GoTo, TypeOK,
        Waits
<1>1. ASSUME NEW c \in Conn, NEW p \in Player, Connect(c, p) PROVE TypeOK'
  BY <1>1 DEF Connect
<1>2. ASSUME NEW c \in Conn, RejectJoin(c) PROVE TypeOK'
  BY <1>2 DEF RejectJoin
<1>3. ASSUME NEW c \in Conn, AcceptJoin(c) PROVE TypeOK'
  BY <1>3 DEF AcceptJoin
<1>4. ASSUME NEW c \in Conn, SpawnBody(c) PROVE TypeOK'
  BY <1>4 DEF SpawnBody
<1>5. ASSUME NEW c \in Conn, FogFetched(c) PROVE TypeOK'
  BY <1>5 DEF FogFetched
<1>6. ASSUME NEW c \in Conn, Register(c) PROVE TypeOK'
  BY <1>6 DEF Register, Evicted
<1>7. ASSUME NEW c \in Conn, FinishCleanup(c) PROVE TypeOK'
  BY <1>7 DEF FinishCleanup
<1>8. ASSUME NEW c \in Conn, LocationUpdated(c) PROVE TypeOK'
  BY <1>8 DEF LocationUpdated
<1>9. ASSUME NEW c \in Conn, RecordDeath(c) PROVE TypeOK'
  BY <1>9 DEF RecordDeath
<1>10. ASSUME NEW c \in Conn, AbortJoin(c) PROVE TypeOK'
  BY <1>10 DEF AbortJoin
<1>11. ASSUME NEW c \in Conn, RequestRespawn(c) PROVE TypeOK'
  BY <1>11 DEF RequestRespawn
<1>12. ASSUME NEW c \in Conn, StreamFault(c) PROVE TypeOK'
  BY <1>12 DEF StreamFault
<1>13. ASSUME NEW c \in Conn, EndSession(c) PROVE TypeOK'
  BY <1>13 DEF EndSession, Superseded
<1>14. ASSUME NEW p \in Player, HandoffRefused(p) PROVE TypeOK'
  BY <1>14 DEF HandoffRefused
<1>15. ASSUME NEW p \in Player, HandoffAccepted(p) PROVE TypeOK'
  BY <1>15 DEF HandoffAccepted
<1>16. ASSUME NEW p \in Player, HandoffDone(p) PROVE TypeOK'
  BY <1>16 DEF HandoffDone, Dismissed
<1>17. ASSUME NEW p \in Player, HandoffFinally(p) PROVE TypeOK'
  BY <1>17 DEF HandoffFinally
<1>18. ASSUME NEW dying \in SUBSET Player, NEW atGate \in SUBSET Player, Tick(dying, atGate)
       PROVE TypeOK'
  BY <1>18 DEF Tick, Purged, Swept
<1>19. CASE UNCHANGED vars
  BY <1>19 DEF vars
<1>20. QED
  BY <1>1, <1>2, <1>3, <1>4, <1>5, <1>6, <1>7, <1>8, <1>9, <1>10, <1>11, <1>12, <1>13,
     <1>14, <1>15, <1>16, <1>17, <1>18, <1>19, StepOrTick

-----------------------------------------------------------------------------
(* The parts of the invariant, one after the other. *)

\* The session map and the open sessions stay consistent with the handlers.
LEMMA MapStep ==
    ASSUME TypeOK, OpenIsLive, ListedIsKnown, [Next]_vars
    PROVE  OpenIsLive' /\ ListedIsKnown'
<1> USE SessionsAssumption DEF handlerVars, handoffVars, history, GoTo, TypeOK,
        OpenIsLive, ListedIsKnown
<1>1. ASSUME NEW c \in Conn, NEW p \in Player, Connect(c, p)
      PROVE OpenIsLive' /\ ListedIsKnown'
  BY <1>1 DEF Connect
<1>2. ASSUME NEW c \in Conn, RejectJoin(c) PROVE OpenIsLive' /\ ListedIsKnown'
  BY <1>2 DEF RejectJoin
<1>3. ASSUME NEW c \in Conn, AcceptJoin(c) PROVE OpenIsLive' /\ ListedIsKnown'
  BY <1>3 DEF AcceptJoin
<1>4. ASSUME NEW c \in Conn, SpawnBody(c) PROVE OpenIsLive' /\ ListedIsKnown'
  BY <1>4 DEF SpawnBody
<1>5. ASSUME NEW c \in Conn, FogFetched(c) PROVE OpenIsLive' /\ ListedIsKnown'
  BY <1>5 DEF FogFetched
<1>6. ASSUME NEW c \in Conn, Register(c) PROVE OpenIsLive' /\ ListedIsKnown'
  BY <1>6 DEF Register, Evicted
<1>7. ASSUME NEW c \in Conn, FinishCleanup(c) PROVE OpenIsLive' /\ ListedIsKnown'
  BY <1>7 DEF FinishCleanup
<1>8. ASSUME NEW c \in Conn, LocationUpdated(c) PROVE OpenIsLive' /\ ListedIsKnown'
  BY <1>8 DEF LocationUpdated
<1>9. ASSUME NEW c \in Conn, RecordDeath(c) PROVE OpenIsLive' /\ ListedIsKnown'
  BY <1>9 DEF RecordDeath
<1>10. ASSUME NEW c \in Conn, AbortJoin(c) PROVE OpenIsLive' /\ ListedIsKnown'
  BY <1>10 DEF AbortJoin
<1>11. ASSUME NEW c \in Conn, RequestRespawn(c) PROVE OpenIsLive' /\ ListedIsKnown'
  BY <1>11 DEF RequestRespawn
<1>12. ASSUME NEW c \in Conn, StreamFault(c) PROVE OpenIsLive' /\ ListedIsKnown'
  BY <1>12 DEF StreamFault
<1>13. ASSUME NEW c \in Conn, EndSession(c) PROVE OpenIsLive' /\ ListedIsKnown'
  BY <1>13 DEF EndSession, Superseded
<1>14. ASSUME NEW p \in Player, HandoffRefused(p) PROVE OpenIsLive' /\ ListedIsKnown'
  BY <1>14 DEF HandoffRefused
<1>15. ASSUME NEW p \in Player, HandoffAccepted(p) PROVE OpenIsLive' /\ ListedIsKnown'
  BY <1>15 DEF HandoffAccepted
<1>16. ASSUME NEW p \in Player, HandoffDone(p) PROVE OpenIsLive' /\ ListedIsKnown'
  BY <1>16 DEF HandoffDone, Dismissed
<1>17. ASSUME NEW p \in Player, HandoffFinally(p) PROVE OpenIsLive' /\ ListedIsKnown'
  BY <1>17 DEF HandoffFinally
<1>18. ASSUME NEW dying \in SUBSET Player, NEW atGate \in SUBSET Player, Tick(dying, atGate)
       PROVE OpenIsLive' /\ ListedIsKnown'
  BY <1>18 DEF Tick, Purged, Swept
<1>19. CASE UNCHANGED vars
  BY <1>19 DEF vars
<1>20. QED
  BY <1>1, <1>2, <1>3, <1>4, <1>5, <1>6, <1>7, <1>8, <1>9, <1>10, <1>11, <1>12, <1>13,
     <1>14, <1>15, <1>16, <1>17, <1>18, <1>19, StepOrTick

\* Handoffs keep their session and their markers end with them.
LEMMA HandoffStep ==
    ASSUME TypeOK, MarkerScoped, HandoffHasSession, NoGateNoHandoff, [Next]_vars
    PROVE  MarkerScoped' /\ HandoffHasSession' /\ NoGateNoHandoff'
<1> USE SessionsAssumption DEF handlerVars, handoffVars, history, GoTo, TypeOK,
        MarkerScoped, HandoffHasSession, NoGateNoHandoff, HandingOff
<1>1. ASSUME NEW c \in Conn, NEW p \in Player, Connect(c, p)
      PROVE MarkerScoped' /\ HandoffHasSession' /\ NoGateNoHandoff'
  BY <1>1 DEF Connect
<1>2. ASSUME NEW c \in Conn, RejectJoin(c)
      PROVE MarkerScoped' /\ HandoffHasSession' /\ NoGateNoHandoff'
  BY <1>2 DEF RejectJoin
<1>3. ASSUME NEW c \in Conn, AcceptJoin(c)
      PROVE MarkerScoped' /\ HandoffHasSession' /\ NoGateNoHandoff'
  BY <1>3 DEF AcceptJoin
<1>4. ASSUME NEW c \in Conn, SpawnBody(c)
      PROVE MarkerScoped' /\ HandoffHasSession' /\ NoGateNoHandoff'
  BY <1>4 DEF SpawnBody
<1>5. ASSUME NEW c \in Conn, FogFetched(c)
      PROVE MarkerScoped' /\ HandoffHasSession' /\ NoGateNoHandoff'
  BY <1>5 DEF FogFetched
<1>6. ASSUME NEW c \in Conn, Register(c)
      PROVE MarkerScoped' /\ HandoffHasSession' /\ NoGateNoHandoff'
  BY <1>6 DEF Register, Evicted
<1>7. ASSUME NEW c \in Conn, FinishCleanup(c)
      PROVE MarkerScoped' /\ HandoffHasSession' /\ NoGateNoHandoff'
  BY <1>7 DEF FinishCleanup
<1>8. ASSUME NEW c \in Conn, LocationUpdated(c)
      PROVE MarkerScoped' /\ HandoffHasSession' /\ NoGateNoHandoff'
  BY <1>8 DEF LocationUpdated
<1>9. ASSUME NEW c \in Conn, RecordDeath(c)
      PROVE MarkerScoped' /\ HandoffHasSession' /\ NoGateNoHandoff'
  BY <1>9 DEF RecordDeath
<1>10. ASSUME NEW c \in Conn, AbortJoin(c)
       PROVE MarkerScoped' /\ HandoffHasSession' /\ NoGateNoHandoff'
  BY <1>10 DEF AbortJoin
<1>11. ASSUME NEW c \in Conn, RequestRespawn(c)
       PROVE MarkerScoped' /\ HandoffHasSession' /\ NoGateNoHandoff'
  BY <1>11 DEF RequestRespawn
<1>12. ASSUME NEW c \in Conn, StreamFault(c)
       PROVE MarkerScoped' /\ HandoffHasSession' /\ NoGateNoHandoff'
  BY <1>12 DEF StreamFault
<1>13. ASSUME NEW c \in Conn, EndSession(c)
       PROVE MarkerScoped' /\ HandoffHasSession' /\ NoGateNoHandoff'
  BY <1>13 DEF EndSession, Superseded
<1>14. ASSUME NEW p \in Player, HandoffRefused(p)
       PROVE MarkerScoped' /\ HandoffHasSession' /\ NoGateNoHandoff'
  BY <1>14 DEF HandoffRefused
<1>15. ASSUME NEW p \in Player, HandoffAccepted(p)
       PROVE MarkerScoped' /\ HandoffHasSession' /\ NoGateNoHandoff'
  BY <1>15 DEF HandoffAccepted
<1>16. ASSUME NEW p \in Player, HandoffDone(p)
       PROVE MarkerScoped' /\ HandoffHasSession' /\ NoGateNoHandoff'
  BY <1>16 DEF HandoffDone, Dismissed
<1>17. ASSUME NEW p \in Player, HandoffFinally(p)
       PROVE MarkerScoped' /\ HandoffHasSession' /\ NoGateNoHandoff'
  BY <1>17 DEF HandoffFinally
<1>18. ASSUME NEW dying \in SUBSET Player, NEW atGate \in SUBSET Player, Tick(dying, atGate)
       PROVE MarkerScoped' /\ HandoffHasSession' /\ NoGateNoHandoff'
  BY <1>18 DEF Tick, Purged, Swept
<1>19. CASE UNCHANGED vars
  BY <1>19 DEF vars
<1>20. QED
  BY <1>1, <1>2, <1>3, <1>4, <1>5, <1>6, <1>7, <1>8, <1>9, <1>10, <1>11, <1>12, <1>13,
     <1>14, <1>15, <1>16, <1>17, <1>18, <1>19, StepOrTick

\* A living body keeps an owner.  A cleanup is one only while no handoff has
\* marked the player: FinishCleanup leaves a marked player's body alone.
LEMMA OwnedStep ==
    ASSUME TypeOK, ListedIsKnown, MarkerScoped, HandoffHasSession, LivingIsOwned, [Next]_vars
    PROVE  LivingIsOwned'
<1> USE SessionsAssumption DEF handlerVars, handoffVars, history, GoTo, TypeOK,
        ListedIsKnown, MarkerScoped, HandoffHasSession, HandingOff, LivingIsOwned, Owned, At,
        IsAlive, Without
<1>1. ASSUME NEW c \in Conn, NEW p \in Player, Connect(c, p) PROVE LivingIsOwned'
  BY <1>1 DEF Connect
<1>2. ASSUME NEW c \in Conn, RejectJoin(c) PROVE LivingIsOwned'
  BY <1>2 DEF RejectJoin
<1>3. ASSUME NEW c \in Conn, AcceptJoin(c) PROVE LivingIsOwned'
  BY <1>3 DEF AcceptJoin
<1>4. ASSUME NEW c \in Conn, SpawnBody(c) PROVE LivingIsOwned'
  BY <1>4 DEF SpawnBody
<1>5. ASSUME NEW c \in Conn, FogFetched(c) PROVE LivingIsOwned'
  BY <1>5 DEF FogFetched
<1>6. ASSUME NEW c \in Conn, Register(c) PROVE LivingIsOwned'
  BY <1>6 DEF Register, Evicted
<1>7. ASSUME NEW c \in Conn, FinishCleanup(c) PROVE LivingIsOwned'
  BY <1>7 DEF FinishCleanup
<1>8. ASSUME NEW c \in Conn, LocationUpdated(c) PROVE LivingIsOwned'
  BY <1>8 DEF LocationUpdated
<1>9. ASSUME NEW c \in Conn, RecordDeath(c) PROVE LivingIsOwned'
  BY <1>9 DEF RecordDeath
<1>10. ASSUME NEW c \in Conn, AbortJoin(c) PROVE LivingIsOwned'
  BY <1>10 DEF AbortJoin
<1>11. ASSUME NEW c \in Conn, RequestRespawn(c) PROVE LivingIsOwned'
  BY <1>11 DEF RequestRespawn
<1>12. ASSUME NEW c \in Conn, StreamFault(c) PROVE LivingIsOwned'
  BY <1>12 DEF StreamFault
<1>13. ASSUME NEW c \in Conn, EndSession(c) PROVE LivingIsOwned'
  BY <1>13 DEF EndSession, Superseded
<1>14. ASSUME NEW p \in Player, HandoffRefused(p) PROVE LivingIsOwned'
  BY <1>14 DEF HandoffRefused
<1>15. ASSUME NEW p \in Player, HandoffAccepted(p) PROVE LivingIsOwned'
  BY <1>15 DEF HandoffAccepted
<1>16. ASSUME NEW p \in Player, HandoffDone(p) PROVE LivingIsOwned'
  BY <1>16 DEF HandoffDone, Dismissed
<1>17. ASSUME NEW p \in Player, HandoffFinally(p) PROVE LivingIsOwned'
  BY <1>17 DEF HandoffFinally
<1>18. ASSUME NEW dying \in SUBSET Player, NEW atGate \in SUBSET Player, Tick(dying, atGate)
       PROVE LivingIsOwned'
  BY <1>18 DEF Tick, Purged, Swept
<1>19. CASE UNCHANGED vars
  BY <1>19 DEF vars
<1>20. QED
  BY <1>1, <1>2, <1>3, <1>4, <1>5, <1>6, <1>7, <1>8, <1>9, <1>10, <1>11, <1>12, <1>13,
     <1>14, <1>15, <1>16, <1>17, <1>18, <1>19, StepOrTick

\* An open session stays in the map.  The step at risk is HandoffDone, which
\* deletes the entry of p whatever it is: the session it closes must be the one
\* the entry names.
LEMMA RegisteredStep ==
    ASSUME TypeOK, OpenIsLive, ListedIsKnown, HandoffHasSession, NoGateNoHandoff,
           OpenIsRegistered, PatientInv, [Next]_vars
    PROVE  OpenIsRegistered'
<1> USE SessionsAssumption DEF handlerVars, handoffVars, history, GoTo, TypeOK,
        OpenIsLive, ListedIsKnown, HandoffHasSession, NoGateNoHandoff, HandingOff,
        OpenIsRegistered, Served, PatientInv, Patient, Without, Handler, HandlerAlone,
        SessionBody
<1>1. ASSUME NEW c \in Conn, NEW p \in Player, Connect(c, p) PROVE OpenIsRegistered'
  BY <1>1 DEF Connect
<1>2. ASSUME NEW c \in Conn, RejectJoin(c) PROVE OpenIsRegistered'
  BY <1>2 DEF RejectJoin
<1>3. ASSUME NEW c \in Conn, AcceptJoin(c) PROVE OpenIsRegistered'
  BY <1>3 DEF AcceptJoin
<1>4. ASSUME NEW c \in Conn, SpawnBody(c) PROVE OpenIsRegistered'
  BY <1>4 DEF SpawnBody
<1>5. ASSUME NEW c \in Conn, FogFetched(c) PROVE OpenIsRegistered'
  BY <1>5 DEF FogFetched
<1>6. ASSUME NEW c \in Conn, Register(c) PROVE OpenIsRegistered'
  BY <1>6 DEF Register, Evicted
<1>7. ASSUME NEW c \in Conn, FinishCleanup(c) PROVE OpenIsRegistered'
  BY <1>7 DEF FinishCleanup
<1>8. ASSUME NEW c \in Conn, LocationUpdated(c) PROVE OpenIsRegistered'
  BY <1>8 DEF LocationUpdated
<1>9. ASSUME NEW c \in Conn, RecordDeath(c) PROVE OpenIsRegistered'
  BY <1>9 DEF RecordDeath
<1>10. ASSUME NEW c \in Conn, AbortJoin(c) PROVE OpenIsRegistered'
  BY <1>10 DEF AbortJoin
<1>11. ASSUME NEW c \in Conn, RequestRespawn(c) PROVE OpenIsRegistered'
  BY <1>11 DEF RequestRespawn
<1>12. ASSUME NEW c \in Conn, StreamFault(c) PROVE OpenIsRegistered'
  BY <1>12 DEF StreamFault
<1>13. ASSUME NEW c \in Conn, EndSession(c) PROVE OpenIsRegistered'
  BY <1>13 DEF EndSession, Superseded
<1>14. ASSUME NEW p \in Player, HandoffRefused(p) PROVE OpenIsRegistered'
  BY <1>14 DEF HandoffRefused
<1>15. ASSUME NEW p \in Player, HandoffAccepted(p) PROVE OpenIsRegistered'
  BY <1>15 DEF HandoffAccepted
<1>16. ASSUME NEW p \in Player, HandoffDone(p) PROVE OpenIsRegistered'
  <2>1. SUFFICES ASSUME NEW c \in Conn, Served(c)',
                        Without({"earlyReconnect"}) \/ Without({"handoff"})
                 PROVE  sessions'[player[c]] = c
    BY <1>16 DEF HandoffDone
  <2>2. Served(c) /\ sessions[player[c]] = c
    BY <1>16, <2>1 DEF HandoffDone
  <2>3. CASE player[c] # p
    BY <1>16, <2>2, <2>3 DEF HandoffDone
  <2>4. CASE player[c] = p
    <3>1. Patient
      BY <1>16, <2>1 DEF HandoffDone
    <3>2. Dismissed(p) = c
      BY <1>16, <2>2, <2>4, <3>1 DEF HandoffDone, Dismissed
    <3>3. QED
      BY <1>16, <2>1, <3>2 DEF HandoffDone
  <2>5. QED
    BY <2>3, <2>4
<1>17. ASSUME NEW p \in Player, HandoffFinally(p) PROVE OpenIsRegistered'
  BY <1>17 DEF HandoffFinally
<1>18. ASSUME NEW dying \in SUBSET Player, NEW atGate \in SUBSET Player, Tick(dying, atGate)
       PROVE OpenIsRegistered'
  BY <1>18 DEF Tick, Purged, Swept
<1>19. CASE UNCHANGED vars
  BY <1>19 DEF vars
<1>20. QED
  BY <1>1, <1>2, <1>3, <1>4, <1>5, <1>6, <1>7, <1>8, <1>9, <1>10, <1>11, <1>12, <1>13,
     <1>14, <1>15, <1>16, <1>17, <1>18, <1>19, StepOrTick

\* A patient client connects when its last connection is no longer handled.
LEMMA OneHandlerStep ==
    ASSUME TypeOK, Patient, OneHandler, [Next]_vars
    PROVE  OneHandler'
<1> USE SessionsAssumption DEF handlerVars, handoffVars, history, GoTo, TypeOK,
        Patient, Without, OneHandler, Handler, Forgotten, Quiet
<1>1. ASSUME NEW c \in Conn, NEW p \in Player, Connect(c, p) PROVE OneHandler'
  BY <1>1 DEF Connect
<1>2. ASSUME NEW c \in Conn, RejectJoin(c) PROVE OneHandler'
  BY <1>2 DEF RejectJoin
<1>3. ASSUME NEW c \in Conn, AcceptJoin(c) PROVE OneHandler'
  BY <1>3 DEF AcceptJoin
<1>4. ASSUME NEW c \in Conn, SpawnBody(c) PROVE OneHandler'
  BY <1>4 DEF SpawnBody
<1>5. ASSUME NEW c \in Conn, FogFetched(c) PROVE OneHandler'
  BY <1>5 DEF FogFetched
<1>6. ASSUME NEW c \in Conn, Register(c) PROVE OneHandler'
  BY <1>6 DEF Register, Evicted
<1>7. ASSUME NEW c \in Conn, FinishCleanup(c) PROVE OneHandler'
  BY <1>7 DEF FinishCleanup
<1>8. ASSUME NEW c \in Conn, LocationUpdated(c) PROVE OneHandler'
  BY <1>8 DEF LocationUpdated
<1>9. ASSUME NEW c \in Conn, RecordDeath(c) PROVE OneHandler'
  BY <1>9 DEF RecordDeath
<1>10. ASSUME NEW c \in Conn, AbortJoin(c) PROVE OneHandler'
  BY <1>10 DEF AbortJoin
<1>11. ASSUME NEW c \in Conn, RequestRespawn(c) PROVE OneHandler'
  BY <1>11 DEF RequestRespawn
<1>12. ASSUME NEW c \in Conn, StreamFault(c) PROVE OneHandler'
  BY <1>12 DEF StreamFault
<1>13. ASSUME NEW c \in Conn, EndSession(c) PROVE OneHandler'
  BY <1>13 DEF EndSession, Superseded
<1>14. ASSUME NEW p \in Player, HandoffRefused(p) PROVE OneHandler'
  BY <1>14 DEF HandoffRefused
<1>15. ASSUME NEW p \in Player, HandoffAccepted(p) PROVE OneHandler'
  BY <1>15 DEF HandoffAccepted
<1>16. ASSUME NEW p \in Player, HandoffDone(p) PROVE OneHandler'
  BY <1>16 DEF HandoffDone, Dismissed
<1>17. ASSUME NEW p \in Player, HandoffFinally(p) PROVE OneHandler'
  BY <1>17 DEF HandoffFinally
<1>18. ASSUME NEW dying \in SUBSET Player, NEW atGate \in SUBSET Player, Tick(dying, atGate)
       PROVE OneHandler'
  BY <1>18 DEF Tick, Purged, Swept
<1>19. CASE UNCHANGED vars
  BY <1>19 DEF vars
<1>20. QED
  BY <1>1, <1>2, <1>3, <1>4, <1>5, <1>6, <1>7, <1>8, <1>9, <1>10, <1>11, <1>12, <1>13,
     <1>14, <1>15, <1>16, <1>17, <1>18, <1>19, StepOrTick

\* Only a serving handler has a session or a handoff beside it.
LEMMA AloneStep ==
    ASSUME TypeOK, Patient, ListedIsKnown, HandoffHasSession, OneHandler,
           \A c \in Conn : HandlerAlone(c), [Next]_vars
    PROVE  \A c \in Conn : HandlerAlone(c)'
<1> USE SessionsAssumption DEF handlerVars, handoffVars, history, GoTo, TypeOK,
        ListedIsKnown, HandoffHasSession, HandingOff, Patient, Without, OneHandler, Handler,
        HandlerAlone, Forgotten, Quiet
<1>1. ASSUME NEW c \in Conn, NEW p \in Player, Connect(c, p)
      PROVE \A d \in Conn : HandlerAlone(d)'
  BY <1>1 DEF Connect
<1>2. ASSUME NEW c \in Conn, RejectJoin(c) PROVE \A d \in Conn : HandlerAlone(d)'
  BY <1>2 DEF RejectJoin
<1>3. ASSUME NEW c \in Conn, AcceptJoin(c) PROVE \A d \in Conn : HandlerAlone(d)'
  BY <1>3 DEF AcceptJoin
<1>4. ASSUME NEW c \in Conn, SpawnBody(c) PROVE \A d \in Conn : HandlerAlone(d)'
  BY <1>4 DEF SpawnBody
<1>5. ASSUME NEW c \in Conn, FogFetched(c) PROVE \A d \in Conn : HandlerAlone(d)'
  BY <1>5 DEF FogFetched
<1>6. ASSUME NEW c \in Conn, Register(c) PROVE \A d \in Conn : HandlerAlone(d)'
  BY <1>6 DEF Register, Evicted
<1>7. ASSUME NEW c \in Conn, FinishCleanup(c) PROVE \A d \in Conn : HandlerAlone(d)'
  BY <1>7 DEF FinishCleanup
<1>8. ASSUME NEW c \in Conn, LocationUpdated(c) PROVE \A d \in Conn : HandlerAlone(d)'
  BY <1>8 DEF LocationUpdated
<1>9. ASSUME NEW c \in Conn, RecordDeath(c) PROVE \A d \in Conn : HandlerAlone(d)'
  BY <1>9 DEF RecordDeath
<1>10. ASSUME NEW c \in Conn, AbortJoin(c) PROVE \A d \in Conn : HandlerAlone(d)'
  BY <1>10 DEF AbortJoin
<1>11. ASSUME NEW c \in Conn, RequestRespawn(c) PROVE \A d \in Conn : HandlerAlone(d)'
  BY <1>11 DEF RequestRespawn
<1>12. ASSUME NEW c \in Conn, StreamFault(c) PROVE \A d \in Conn : HandlerAlone(d)'
  BY <1>12 DEF StreamFault
<1>13. ASSUME NEW c \in Conn, EndSession(c) PROVE \A d \in Conn : HandlerAlone(d)'
  BY <1>13 DEF EndSession, Superseded
<1>14. ASSUME NEW p \in Player, HandoffRefused(p) PROVE \A c \in Conn : HandlerAlone(c)'
  BY <1>14 DEF HandoffRefused
<1>15. ASSUME NEW p \in Player, HandoffAccepted(p) PROVE \A c \in Conn : HandlerAlone(c)'
  BY <1>15 DEF HandoffAccepted
<1>16. ASSUME NEW p \in Player, HandoffDone(p) PROVE \A c \in Conn : HandlerAlone(c)'
  BY <1>16 DEF HandoffDone, Dismissed
<1>17. ASSUME NEW p \in Player, HandoffFinally(p) PROVE \A c \in Conn : HandlerAlone(c)'
  BY <1>17 DEF HandoffFinally
<1>18. ASSUME NEW dying \in SUBSET Player, NEW atGate \in SUBSET Player, Tick(dying, atGate)
       PROVE \A c \in Conn : HandlerAlone(c)'
  BY <1>18 DEF Tick, Purged, Swept
<1>19. CASE UNCHANGED vars
  BY <1>19 DEF vars
<1>20. QED
  BY <1>1, <1>2, <1>3, <1>4, <1>5, <1>6, <1>7, <1>8, <1>9, <1>10, <1>11, <1>12, <1>13,
     <1>14, <1>15, <1>16, <1>17, <1>18, <1>19, StepOrTick

\* The handler's stage goes on saying what became of the body.
LEMMA BodyStep ==
    ASSUME TypeOK, Patient, OpenIsLive, ListedIsKnown, MarkerScoped, HandoffHasSession,
           OpenIsRegistered, OneHandler, \A c \in Conn : HandlerAlone(c) /\ HandlerBody(c),
           \A p \in Player : SessionBody(p), [Next]_vars
    PROVE  \A c \in Conn : HandlerBody(c)'
<1> USE SessionsAssumption DEF handlerVars, handoffVars, history, GoTo, TypeOK,
        ListedIsKnown, HandoffHasSession, OpenIsRegistered, Served, HandingOff, Patient,
        Without,
        OneHandler, Handler, HandlerAlone, HandlerBody, SessionBody, Accounted, IsAlive,
        Forgotten,
        Quiet
<1>1. ASSUME NEW c \in Conn, NEW p \in Player, Connect(c, p)
      PROVE \A d \in Conn : HandlerBody(d)'
  BY <1>1 DEF Connect
<1>2. ASSUME NEW c \in Conn, RejectJoin(c) PROVE \A d \in Conn : HandlerBody(d)'
  BY <1>2 DEF RejectJoin
<1>3. ASSUME NEW c \in Conn, AcceptJoin(c) PROVE \A d \in Conn : HandlerBody(d)'
  BY <1>3 DEF AcceptJoin
<1>4. ASSUME NEW c \in Conn, SpawnBody(c) PROVE \A d \in Conn : HandlerBody(d)'
  BY <1>4 DEF SpawnBody
<1>5. ASSUME NEW c \in Conn, FogFetched(c) PROVE \A d \in Conn : HandlerBody(d)'
  BY <1>5 DEF FogFetched
<1>6. ASSUME NEW c \in Conn, Register(c) PROVE \A d \in Conn : HandlerBody(d)'
  BY <1>6 DEF Register, Evicted
<1>7. ASSUME NEW c \in Conn, FinishCleanup(c) PROVE \A d \in Conn : HandlerBody(d)'
  BY <1>7 DEF FinishCleanup
<1>8. ASSUME NEW c \in Conn, LocationUpdated(c) PROVE \A d \in Conn : HandlerBody(d)'
  BY <1>8 DEF LocationUpdated
<1>9. ASSUME NEW c \in Conn, RecordDeath(c) PROVE \A d \in Conn : HandlerBody(d)'
  BY <1>9 DEF RecordDeath
<1>10. ASSUME NEW c \in Conn, AbortJoin(c) PROVE \A d \in Conn : HandlerBody(d)'
  BY <1>10 DEF AbortJoin
<1>11. ASSUME NEW c \in Conn, RequestRespawn(c) PROVE \A d \in Conn : HandlerBody(d)'
  BY <1>11 DEF RequestRespawn
<1>12. ASSUME NEW c \in Conn, StreamFault(c) PROVE \A d \in Conn : HandlerBody(d)'
  BY <1>12 DEF StreamFault
<1>13. ASSUME NEW c \in Conn, EndSession(c) PROVE \A d \in Conn : HandlerBody(d)'
  BY <1>13 DEF EndSession, Superseded
<1>14. ASSUME NEW p \in Player, HandoffRefused(p) PROVE \A c \in Conn : HandlerBody(c)'
  BY <1>14 DEF HandoffRefused
<1>15. ASSUME NEW p \in Player, HandoffAccepted(p) PROVE \A c \in Conn : HandlerBody(c)'
  BY <1>15 DEF HandoffAccepted
<1>16. ASSUME NEW p \in Player, HandoffDone(p) PROVE \A c \in Conn : HandlerBody(c)'
  BY <1>16 DEF HandoffDone, Dismissed
<1>17. ASSUME NEW p \in Player, HandoffFinally(p) PROVE \A c \in Conn : HandlerBody(c)'
  BY <1>17 DEF HandoffFinally
<1>18. ASSUME NEW dying \in SUBSET Player, NEW atGate \in SUBSET Player, Tick(dying, atGate)
       PROVE \A c \in Conn : HandlerBody(c)'
  BY <1>18 DEF Tick, Purged, Swept
<1>19. CASE UNCHANGED vars
  BY <1>19 DEF vars
<1>20. QED
  BY <1>1, <1>2, <1>3, <1>4, <1>5, <1>6, <1>7, <1>8, <1>9, <1>10, <1>11, <1>12, <1>13,
     <1>14, <1>15, <1>16, <1>17, <1>18, <1>19, StepOrTick

\* A listed session has a body or a death to record, and no count falls below
\* zero.
LEMMA SessionStep ==
    ASSUME TypeOK, Patient, OpenIsLive, ListedIsKnown, MarkerScoped, HandoffHasSession,
           OpenIsRegistered, OneHandler, \A c \in Conn : HandlerAlone(c) /\ HandlerBody(c),
           \A p \in Player : SessionBody(p), [Next]_vars
    PROVE  \A p \in Player : SessionBody(p)'
<1> USE SessionsAssumption DEF handlerVars, handoffVars, history, GoTo, TypeOK,
        ListedIsKnown, HandoffHasSession, OpenIsRegistered, Served, HandingOff, Patient,
        Without,
        OneHandler, Handler, HandlerAlone, HandlerBody, SessionBody, Accounted, IsAlive,
        Forgotten,
        Quiet
<1>1. ASSUME NEW c \in Conn, NEW p \in Player, Connect(c, p)
      PROVE \A q \in Player : SessionBody(q)'
  BY <1>1 DEF Connect
<1>2. ASSUME NEW c \in Conn, RejectJoin(c) PROVE \A q \in Player : SessionBody(q)'
  BY <1>2 DEF RejectJoin
<1>3. ASSUME NEW c \in Conn, AcceptJoin(c) PROVE \A q \in Player : SessionBody(q)'
  BY <1>3 DEF AcceptJoin
<1>4. ASSUME NEW c \in Conn, SpawnBody(c) PROVE \A q \in Player : SessionBody(q)'
  BY <1>4 DEF SpawnBody
<1>5. ASSUME NEW c \in Conn, FogFetched(c) PROVE \A q \in Player : SessionBody(q)'
  BY <1>5 DEF FogFetched
<1>6. ASSUME NEW c \in Conn, Register(c) PROVE \A q \in Player : SessionBody(q)'
  BY <1>6 DEF Register, Evicted
<1>7. ASSUME NEW c \in Conn, FinishCleanup(c) PROVE \A q \in Player : SessionBody(q)'
  BY <1>7 DEF FinishCleanup
<1>8. ASSUME NEW c \in Conn, LocationUpdated(c) PROVE \A q \in Player : SessionBody(q)'
  BY <1>8 DEF LocationUpdated
<1>9. ASSUME NEW c \in Conn, RecordDeath(c) PROVE \A q \in Player : SessionBody(q)'
  BY <1>9 DEF RecordDeath
<1>10. ASSUME NEW c \in Conn, AbortJoin(c) PROVE \A q \in Player : SessionBody(q)'
  BY <1>10 DEF AbortJoin
<1>11. ASSUME NEW c \in Conn, RequestRespawn(c) PROVE \A q \in Player : SessionBody(q)'
  BY <1>11 DEF RequestRespawn
<1>12. ASSUME NEW c \in Conn, StreamFault(c) PROVE \A q \in Player : SessionBody(q)'
  BY <1>12 DEF StreamFault
<1>13. ASSUME NEW c \in Conn, EndSession(c) PROVE \A q \in Player : SessionBody(q)'
  BY <1>13 DEF EndSession, Superseded
<1>14. ASSUME NEW p \in Player, HandoffRefused(p) PROVE \A q \in Player : SessionBody(q)'
  BY <1>14 DEF HandoffRefused
<1>15. ASSUME NEW p \in Player, HandoffAccepted(p) PROVE \A q \in Player : SessionBody(q)'
  BY <1>15 DEF HandoffAccepted
<1>16. ASSUME NEW p \in Player, HandoffDone(p) PROVE \A q \in Player : SessionBody(q)'
  BY <1>16 DEF HandoffDone, Dismissed
<1>17. ASSUME NEW p \in Player, HandoffFinally(p) PROVE \A q \in Player : SessionBody(q)'
  BY <1>17 DEF HandoffFinally
<1>18. ASSUME NEW dying \in SUBSET Player, NEW atGate \in SUBSET Player, Tick(dying, atGate)
       PROVE \A p \in Player : SessionBody(p)'
  BY <1>18 DEF Tick, Purged, Swept
<1>19. CASE UNCHANGED vars
  BY <1>19 DEF vars
<1>20. QED
  BY <1>1, <1>2, <1>3, <1>4, <1>5, <1>6, <1>7, <1>8, <1>9, <1>10, <1>11, <1>12, <1>13,
     <1>14, <1>15, <1>16, <1>17, <1>18, <1>19, StepOrTick

\* Undisturbed, the deaths owed are those of the handlers' stages.
LEMMA PlainStep ==
    ASSUME TypeOK, OpenIsLive, ListedIsKnown, MarkerScoped, HandoffHasSession, NoGateNoHandoff,
           OpenIsRegistered, LivingIsOwned, PatientInv, PlainInv, [Next]_vars
    PROVE  PlainInv'
<1> USE SessionsAssumption DEF handlerVars, handoffVars, history, GoTo, TypeOK,
        ListedIsKnown, HandoffHasSession, NoGateNoHandoff, OpenIsRegistered, LivingIsOwned,
        Owned, At, MarkerScoped, Served, HandingOff, Patient, Without, OneHandler, Handler,
        HandlerAlone, HandlerBody, SessionBody, Accounted, IsAlive, Forgotten, Quiet,
        PatientInv,
        PlainInv, Owing
<1>1. ASSUME NEW c \in Conn, NEW p \in Player, Connect(c, p) PROVE PlainInv'
  BY <1>1 DEF Connect
<1>2. ASSUME NEW c \in Conn, RejectJoin(c) PROVE PlainInv'
  BY <1>2 DEF RejectJoin
<1>3. ASSUME NEW c \in Conn, AcceptJoin(c) PROVE PlainInv'
  BY <1>3 DEF AcceptJoin
<1>4. ASSUME NEW c \in Conn, SpawnBody(c) PROVE PlainInv'
  BY <1>4 DEF SpawnBody
<1>5. ASSUME NEW c \in Conn, FogFetched(c) PROVE PlainInv'
  BY <1>5 DEF FogFetched
<1>6. ASSUME NEW c \in Conn, Register(c) PROVE PlainInv'
  <2>1. SUFFICES ASSUME faults = {}
                 PROVE  (\A d \in Conn : Owing(d)')
                        /\ \A p \in Player : Quiet(p)' => unrecorded'[p] = 0 /\ sessions'[p] = None
    BY <1>6 DEF Register
  <2>2. player[c] \in Player /\ sessions[player[c]] = None /\ Evicted(player[c]) = None
    BY <1>6, <2>1 DEF Register, Evicted
  <2>3. \A d \in Conn : Handler(d) /\ d # c => player[d] # player[c]
    BY <1>6, <2>1 DEF Register
  <2>4. /\ pc' = [pc EXCEPT ![c] = "live"] /\ sessions' = [sessions EXCEPT ![player[c]] = c]
        /\ pc[c] = "acking" /\ UNCHANGED <<faults, player, body, unrecorded>>
    BY <1>6, <2>2 DEF Register
  <2>5. open'[c] /\ \A d \in Conn : open[d] => open'[d]
    <3>1. open' = [d \in Conn |-> d = c \/ (open[d] /\ d # Evicted(player[c]))]
      BY <1>6 DEF Register
    <3>2. \A d \in Conn : d # Evicted(player[c])
      BY <2>2
    <3>3. QED
      BY <3>1, <3>2, Zenon
  <2>6. Owing(c)'
    <3>1. unrecorded[player[c]] = IF IsAlive(player[c]) THEN 0 ELSE 1
      BY <2>1, <2>4
    <3>2. pc'[c] = "live" /\ open'[c] /\ sessions'[player[c]] = c
      BY <2>2, <2>4, <2>5
    <3>3. QED
      BY <2>4, <3>1, <3>2
  <2>7. ASSUME NEW d \in Conn, d # c PROVE Owing(d)'
    BY <2>1, <2>2, <2>3, <2>4, <2>7, <2>5
  <2>8. ASSUME NEW p \in Player, Quiet(p)' PROVE unrecorded'[p] = 0 /\ sessions'[p] = None
    BY <2>1, <2>2, <2>4, <2>8
  <2>9. QED
    BY <2>6, <2>7, <2>8
<1>7. ASSUME NEW c \in Conn, FinishCleanup(c) PROVE PlainInv'
  BY <1>7 DEF FinishCleanup
<1>8. ASSUME NEW c \in Conn, LocationUpdated(c) PROVE PlainInv'
  BY <1>8 DEF LocationUpdated
<1>9. ASSUME NEW c \in Conn, RecordDeath(c) PROVE PlainInv'
  BY <1>9 DEF RecordDeath
<1>10. ASSUME NEW c \in Conn, AbortJoin(c) PROVE PlainInv'
  BY <1>10 DEF AbortJoin
<1>11. ASSUME NEW c \in Conn, RequestRespawn(c) PROVE PlainInv'
  BY <1>11 DEF RequestRespawn
<1>12. ASSUME NEW c \in Conn, StreamFault(c) PROVE PlainInv'
  BY <1>12 DEF StreamFault
<1>13. ASSUME NEW c \in Conn, EndSession(c) PROVE PlainInv'
  BY <1>13 DEF EndSession, Superseded
<1>14. ASSUME NEW p \in Player, HandoffRefused(p) PROVE PlainInv'
  BY <1>14 DEF HandoffRefused
<1>15. ASSUME NEW p \in Player, HandoffAccepted(p) PROVE PlainInv'
  BY <1>15 DEF HandoffAccepted
<1>16. ASSUME NEW p \in Player, HandoffDone(p) PROVE PlainInv'
  BY <1>16 DEF HandoffDone, Dismissed
<1>17. ASSUME NEW p \in Player, HandoffFinally(p) PROVE PlainInv'
  BY <1>17 DEF HandoffFinally
<1>18. ASSUME NEW dying \in SUBSET Player, NEW atGate \in SUBSET Player, Tick(dying, atGate)
       PROVE PlainInv'
  <2>1. SUFFICES ASSUME faults = {}
                 PROVE  (\A c \in Conn : Owing(c)')
                        /\ \A p \in Player : Quiet(p)' => unrecorded'[p] = 0 /\ sessions'[p] = None
    BY <1>18 DEF Tick
  <2>2. HandingOff = {} /\ atGate = {}
    BY <1>18, <2>1 DEF Tick
  <2>3. \A p \in Player : sessions[p] # None => open[sessions[p]]
    BY <2>1
  <2>4. sessions' = sessions
    BY <1>18, <2>2, <2>3 DEF Tick, Swept
  <2>5. \A p \in dying : IsAlive(p)
    BY <1>18 DEF Tick
  <2>6. \A p \in dying : ~Quiet(p)
    BY <2>1, <2>3, <2>5
  <2>7. /\ \A p \in Player : body'[p] = "alive" <=> IsAlive(p) /\ p \notin dying
        /\ \A p \in Player : unrecorded'[p] = IF p \in dying THEN unrecorded[p] + 1
                                              ELSE unrecorded[p]
        /\ UNCHANGED <<faults, pc, player, open>>
    BY <1>18, <2>2, <2>3 DEF Tick, Swept, Purged
  <2>8. ASSUME NEW c \in Conn PROVE Owing(c)'
    <3>1. CASE player[c] \in dying
      <4>1. Handler(c) => pc[c] \in {"fog", "acking", "live", "savingFog"}
        BY <2>1, <2>5, <3>1
      <4>2. player[c] \in Player /\ IsAlive(player[c]) /\ body'[player[c]] # "alive"
        BY <2>5, <2>7, <3>1
      <4>3. CASE ~Handler(c)
        BY <2>7, <4>3
      <4>4. CASE Handler(c)
        <5>1. unrecorded'[player[c]] = 1
          BY <2>1, <2>7, <3>1, <4>1, <4>2, <4>4
        <5>2. QED
          BY <2>1, <2>4, <2>7, <4>1, <4>2, <4>4, <5>1
      <4>5. QED
        BY <4>3, <4>4
    <3>2. CASE player[c] \notin dying
      BY <2>1, <2>4, <2>7, <3>2
    <3>3. QED
      BY <3>1, <3>2
  <2>9. ASSUME NEW p \in Player, Quiet(p)' PROVE unrecorded'[p] = 0 /\ sessions'[p] = None
    BY <2>1, <2>4, <2>6, <2>7, <2>9
  <2>10. QED
    BY <2>8, <2>9
<1>19. CASE UNCHANGED vars
  BY <1>19 DEF vars
<1>20. QED
  BY <1>1, <1>2, <1>3, <1>4, <1>5, <1>6, <1>7, <1>8, <1>9, <1>10, <1>11, <1>12, <1>13,
     <1>14, <1>15, <1>16, <1>17, <1>18, <1>19, StepOrTick

-----------------------------------------------------------------------------
(* Theorems. *)

LEMMA InvInit == Init => IInv
  BY SessionsAssumption
  DEF Init, IInv, TypeOK, Waits, OpenIsLive, ListedIsKnown, MarkerScoped, HandoffHasSession,
      NoGateNoHandoff, HandingOff, OpenIsRegistered, Served, LivingIsOwned, IsAlive, PatientInv,
      OneHandler, Handler, HandlerAlone, HandlerBody, SessionBody, Accounted, PlainInv, Owing,
      Quiet, Without

\* The invariant is inductive.
LEMMA InvStep == IInv /\ [Next]_vars => IInv'
<1> SUFFICES ASSUME IInv, [Next]_vars PROVE IInv'
  OBVIOUS
<1> USE DEF IInv
<1>1. TypeOK'
  BY TypeStep
<1>2. OpenIsLive' /\ ListedIsKnown'
  BY MapStep
<1>3. MarkerScoped' /\ HandoffHasSession' /\ NoGateNoHandoff'
  BY HandoffStep
<1>4. OpenIsRegistered'
  BY RegisteredStep
<1>5. LivingIsOwned'
  BY OwnedStep
<1>6. PatientInv'
  <2>1. SUFFICES ASSUME Patient'
                 PROVE  OneHandler' /\ (\A c \in Conn : HandlerAlone(c)' /\ HandlerBody(c)')
                        /\ \A p \in Player : SessionBody(p)'
    BY DEF PatientInv
  <2>2. faults' = faults
    BY StepOrTick DEF Connect, RejectJoin, AcceptJoin, SpawnBody, FogFetched, Register,
       FinishCleanup, LocationUpdated, RecordDeath, AbortJoin, RequestRespawn, StreamFault,
       EndSession, HandoffRefused, HandoffAccepted, HandoffDone, HandoffFinally, Tick, vars
  <2>3. /\ Patient /\ OneHandler
        /\ \A c \in Conn : HandlerAlone(c) /\ HandlerBody(c)
        /\ \A p \in Player : SessionBody(p)
    BY <2>1, <2>2 DEF Patient, Without, PatientInv
  <2>4. OneHandler'
    BY <2>3, OneHandlerStep
  <2>5. \A c \in Conn : HandlerAlone(c)'
    BY <2>3, AloneStep
  <2>6. \A c \in Conn : HandlerBody(c)'
    BY <2>3, BodyStep
  <2>7. \A p \in Player : SessionBody(p)'
    BY <2>3, SessionStep
  <2>8. QED
    BY <2>4, <2>5, <2>6, <2>7
<1>7. PlainInv'
  BY PlainStep
<1>8. QED
  BY <1>1, <1>2, <1>3, <1>4, <1>5, <1>6, <1>7

LEMMA Invariance == Spec => []IInv
  BY InvInit, InvStep, PTL DEF Spec

\* Every variable keeps its type.
THEOREM SessionsTypeCorrect == Spec => []TypeOK
<1>1. IInv => TypeOK
  BY DEF IInv
<1>2. QED
  BY <1>1, Invariance, PTL

\* The session map and the markers are exact (T-253, T-256): with patient
\* clients or without handoffs every served connection is the one the map
\* names, and a handedOff marker never outlives its handoff.
THEOREM SessionRegistryExact == Spec => []RegistryExact
<1>1. IInv => RegistryExact
  BY DEF IInv, RegistryExact
<1>2. QED
  BY <1>1, Invariance, PTL

\* Bodies and sessions answer for each other: a patient client is not served
\* without a body or a fall, and no living body is left that nothing will take
\* out of the world, whatever reconnects, handoffs and stream faults do.
THEOREM SessionBodiesAnswered == Spec => []BodiesAnswered
<1>1. IInv => PatientServedHasBody
  <2> SUFFICES ASSUME IInv, Without({"earlyReconnect"}), NEW c \in Conn, Served(c)
               PROVE  IsAlive(player[c]) \/ player[c] \in slain
    BY DEF PatientServedHasBody, ServedHasBody
  <2>1. player[c] \in Player /\ sessions[player[c]] = c /\ c # None
    BY SessionsAssumption DEF IInv, TypeOK, OpenIsRegistered, Served
  <2>2. QED
    BY <2>1 DEF IInv, PatientInv, Patient, SessionBody, Accounted
<1>2. IInv => NoOrphanBody
  BY DEF IInv, NoOrphanBody, LivingIsOwned, Owned, At, Quiet, Handler
<1>3. IInv => BodiesAnswered
  BY <1>1, <1>2 DEF BodiesAnswered
<1>4. QED
  BY <1>3, Invariance, PTL

\* Deaths are recorded once per fall: never one that no fall accounts for when
\* clients are patient, and none is left over when nothing goes wrong.
THEOREM SessionDeathsExact == Spec => []DeathsExact
<1>1. IInv => NoPhantomDeath
  BY DEF IInv, NoPhantomDeath, PatientInv, Patient, SessionBody
<1>2. IInv => PlainDeathsRecorded
  BY DEF IInv, PlainDeathsRecorded, DeathsRecorded, PlainInv
<1>3. IInv => DeathsExact
  BY <1>1, <1>2 DEF DeathsExact
<1>4. QED
  BY <1>3, Invariance, PTL

\* A handoff in flight owns the body (T-256): no sweep and no cleanup of a
\* patient client destroys it before the handoff is settled.
THEOREM HandoffKeepsBody == Spec => HandoffOwnsBody
<1> DEFINE Owns == Without({"earlyReconnect"}) =>
              \A p \in Player : p \in HandingOff /\ IsAlive(p) /\ body'[p] = "tombstoned"
                                   => handoff'[p] = "settled"
<1>1. IInv /\ [Next]_vars => [Owns]_vars
  <2> SUFFICES ASSUME IInv, [Next]_vars, Patient, NEW p \in Player,
                      p \in HandingOff, IsAlive(p), body'[p] = "tombstoned"
               PROVE  handoff'[p] = "settled"
    BY DEF Patient
  <2> USE DEF IInv, TypeOK, IsAlive, HandingOff, handlerVars, handoffVars, history, GoTo
  <2>1. ASSUME NEW c \in Conn, FinishCleanup(c) PROVE FALSE
    <3>1. handoff[player[c]] = "none"
      BY <2>1 DEF FinishCleanup, PatientInv, HandlerAlone, Handler
    <3>2. QED
      BY <2>1, <3>1 DEF FinishCleanup
  <2>2. ASSUME NEW q \in Player, HandoffDone(q) PROVE handoff'[p] = "settled"
    BY <2>2 DEF HandoffDone
  <2>3. ASSUME NEW dying \in SUBSET Player, NEW atGate \in SUBSET Player, Tick(dying, atGate)
        PROVE  FALSE
    BY <2>3 DEF Tick, Swept, Purged
  <2>4. ASSUME NEW c \in Conn, SpawnBody(c) PROVE FALSE
    BY <2>4 DEF SpawnBody
  <2>5. QED
    BY <2>1, <2>2, <2>3, <2>4, StepOrTick
    DEF Connect, RejectJoin, AcceptJoin, FogFetched, Register, LocationUpdated, RecordDeath,
        AbortJoin, RequestRespawn, StreamFault, EndSession, HandoffRefused, HandoffAccepted,
        HandoffFinally, vars
<1>2. QED
  BY <1>1, Invariance, PTL DEF Spec, HandoffOwnsBody
=============================================================================
