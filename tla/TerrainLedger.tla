---------------------------- MODULE TerrainLedger ----------------------------
(***************************************************************************)
(* What the terrain of a tile is to those who walk on it, with no loading, *)
(* no cache and no autosave of its own: land that only digs and builds     *)
(* change, each made to the land there is and in its place at the end of   *)
(* its tick or, if that tick throws, of a later one, unless another edit   *)
(* of the chunk takes its place in the queue; and that a restart takes     *)
(* back, as a whole, to one saved moment.  An edit that nothing takes the  *)
(* place of can be lost only while it is queued, and only if it was torn:  *)
(* made by a tick that threw before the end of its systems.                *)
(***************************************************************************)
CONSTANTS Chunk, Terrain, Edit, Fresh, Absent

VARIABLES
    running,   \* the tile process runs
    land,      \* land[c]: the committed terrain of a chunk
    queued,    \* queued[c]: the edit of c waiting for a tick that completes
    saves,     \* the moments a restart may return to
    torn       \* chunks whose queued edit is torn

vars == <<running, land, queued, saves, torn>>

Nothing == [c \in Chunk |-> Absent]

\* An actor digs or builds in a chunk that is there.
MayEdit(c, terrain) == land[c] # Absent /\ \E edit \in Edit : terrain = edit[land[c]]

\* What a completed tick makes of a chunk: the last edit, or without one what
\* it was; a queued edit may be lost if it is torn.
MayBecome(c, terrain) ==
    \/ MayEdit(c, terrain)
    \/ terrain = IF queued[c] # Absent THEN queued[c] ELSE land[c]
    \/ c \in torn /\ terrain = land[c]

\* What a tick that throws leaves in the queue.
MayQueue(c, terrain) ==
    \/ MayEdit(c, terrain)
    \/ terrain = queued[c]
    \/ c \in torn /\ terrain = Absent

\* A picture of the new land, of some of its chunks.
Pictures(picture) == \A c \in Chunk : picture[c] \in {land'[c], Absent}

Init ==
    /\ running = TRUE
    /\ land = [c \in Chunk |-> Fresh]
    /\ queued = Nothing
    /\ saves = {land}
    /\ torn = {}

\* A tick completes, and may save.
Complete ==
    /\ running
    /\ land' \in [Chunk -> Terrain \cup {Absent}]
    /\ \A c \in Chunk : MayBecome(c, land'[c])
    /\ queued' = Nothing
    /\ \/ saves' = saves
       \/ \E picture \in saves' : Pictures(picture) /\ saves' = saves \cup {picture}
    /\ torn' = {}
    /\ UNCHANGED running

\* A tick throws, and tears only edits of its own.
Defer ==
    /\ running
    /\ queued' \in [Chunk -> Terrain \cup {Absent}]
    /\ \A c \in Chunk : MayQueue(c, queued'[c])
    /\ torn' \subseteq {c \in Chunk : queued'[c] # Absent}
    /\ \A c \in torn' \ torn : MayEdit(c, queued'[c])
    /\ UNCHANGED <<running, land, saves>>

\* A save fails, or takes the place of an earlier one.
Forget ==
    /\ saves' \subseteq saves
    /\ saves' # {}
    /\ UNCHANGED <<running, land, queued, torn>>

Exit ==
    /\ running
    /\ running' = FALSE
    /\ land' = Nothing
    /\ queued' = Nothing
    /\ torn' = {}
    /\ UNCHANGED saves

Restart ==
    /\ ~running
    /\ running' = TRUE
    /\ land' \in saves
    /\ saves' = {land'}
    /\ UNCHANGED <<queued, torn>>

Next == Complete \/ Defer \/ Forget \/ Exit \/ Restart

Spec == Init /\ [][Next]_vars
=============================================================================
