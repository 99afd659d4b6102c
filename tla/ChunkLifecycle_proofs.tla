------------------------ MODULE ChunkLifecycle_proofs ------------------------
(***************************************************************************)
(* Proofs about ChunkLifecycle: for every set of chunks, every geometry of *)
(* load radius and reach, every grace and any interleaving of ticks,       *)
(* failed ticks, saves, exits and boots, streaming loses no terrain.       *)
(***************************************************************************)
EXTENDS ChunkLifecycle, TLAPS

\* A queued edit belongs to a loaded chunk and, unless it is torn, is younger than
\* the failed ticks it has waited for: it is committed before its chunk's grace
\* is over.
StagedYoung ==
    \A c \in Chunk :
        staged[c] # Absent => world[c] # Absent /\ (c \in torn \/ grace[c] < failures)

\* A torn edit is still queued, and may be lost.
TornQueued == \A c \in torn : staged[c] # Absent /\ Lossy(c)

\* Nothing of the tile is in memory while its process is down.
DownIsEmpty == ~up => staged = Nothing /\ cache = Nothing /\ torn = {}

\* The inductive invariant.
IInv == TypeOK /\ TerrainKept /\ TornQueued /\ StagedYoung /\ DownIsEmpty

-----------------------------------------------------------------------------
\* The edits of a tick make terrain out of terrain, as one edit alone would.
LEMMA LastEdit ==
    ASSUME NEW digging \in Digging, NEW terrain \in Terrain
    PROVE  /\ LastOf(digging, terrain) \in Terrain
           /\ \E edit \in Edit : LastOf(digging, terrain) = edit[terrain]
<1>1. CASE digging \in {<<f>> : f \in Edit}
  <2>1. PICK f \in Edit : digging = <<f>>
    BY <1>1
  <2>2. LastOf(digging, terrain) = f[terrain]
    BY <2>1 DEF LastOf
  <2> QED  BY <2>2, ChunkAssumption
<1>2. CASE digging \in {<<f, g>> : f, g \in Edit}
  <2>1. PICK f \in Edit, g \in Edit : digging = <<f, g>>
    BY <1>2
  <2>2. LastOf(digging, terrain) = g[terrain]
    BY <2>1 DEF LastOf
  <2> QED  BY <2>2, ChunkAssumption
<1> QED  BY <1>1, <1>2 DEF Digging

\* Only loaded chunks in range are edited.
LEMMA EditsInRange ==
    ASSUME TypeOK, NEW edits \in Edits
    PROVE  \A c \in DOMAIN edits : /\ c \in Chunk
                                   /\ world[c] \in Terrain
                                   /\ world[c] # Absent
                                   /\ InRange(c)
                                   /\ edits[c] \in Digging
<1>1. PICK S \in SUBSET {c \in Chunk : world[c] # Absent /\ Reachable(c)} :
          edits \in [S -> Digging]
  BY DEF Edits
<1>2. DOMAIN edits = S /\ \A c \in S : edits[c] \in Digging
  BY <1>1
<1>3. \A c \in Chunk : Reachable(c) => InRange(c)
  BY ChunkAssumption DEF TypeOK, Reachable, InRange
<1>4. \A c \in Chunk : world[c] # Absent => world[c] \in Terrain
  BY DEF TypeOK, Slot
<1> QED  BY <1>1, <1>2, <1>3, <1>4

\* What the digs and builds of a tick ask for, and should ask for, is terrain.
LEMMA DugType ==
    ASSUME TypeOK, NEW edits \in Edits, NEW c \in Chunk
    PROVE  Dug(c, edits) \in Slot /\ Asked(c, edits) \in Slot
<1>1. CASE c \in DOMAIN edits
  <2>1. world[c] \in Terrain /\ edits[c] \in Digging
    BY <1>1, EditsInRange
  <2>2. Asked(c, edits) \in Slot
    BY <1>1, <2>1, LastEdit DEF Asked, Slot
  <2>3. edited[c] # Absent => edited[c] \in Terrain
    BY DEF TypeOK, Slot
  <2>4. edited[c] # Absent => LastOf(edits[c], edited[c]) \in Terrain
    BY <2>1, <2>3, LastEdit
  <2> QED  BY <1>1, <2>2, <2>4 DEF Dug, Slot
<1>2. CASE c \notin DOMAIN edits
  BY <1>2 DEF TypeOK, Dug, Asked, Slot
<1> QED  BY <1>1, <1>2

\* An edit that takes no other's place asks for what all of them make.
LEMMA EditCounts ==
    ASSUME IInv, up, NEW edits \in Edits, NEW c \in Chunk \ missing,
           world[c] # Absent, Dug(c, edits) # Absent
    PROVE  Dug(c, edits) = IF Asked(c, edits) # Absent THEN Asked(c, edits) ELSE world[c]
<1>1. Current(c) /\ ~Overwritten(c, edits) /\ edited[c] # Absent
  BY DEF IInv, TerrainKept, Lossy, Dug
<1>2. CASE c \in DOMAIN edits
  <2>1. staged[c] = Absent /\ edited[c] = world[c]
    BY <1>1, <1>2 DEF Overwritten, Current
  <2>2. world[c] \in Terrain /\ edits[c] \in Digging
    BY <1>2, EditsInRange DEF IInv
  <2>3. LastOf(edits[c], world[c]) # Absent
    BY <2>2, LastEdit, ChunkAssumption
  <2> QED  BY <1>1, <1>2, <2>1, <2>3 DEF Dug, Asked
<1>3. CASE c \notin DOMAIN edits
  BY <1>1, <1>3 DEF Current, Dug, Asked
<1> QED  BY <1>2, <1>3

\* What the systems leave has the right type, whatever the tick does next.
LEMMA SystemsType ==
    ASSUME TypeOK, NEW edits \in Edits, Systems(edits)
    PROVE  /\ cache' \in [Chunk -> Slot]
           /\ grace' \in [Chunk -> 0..Grace]
           /\ edited' \in [Chunk -> Slot]
           /\ \A c \in Chunk : /\ Streamed(c) \in Slot
                               /\ Queued(c, edits) \in Slot
                               /\ Committed(c, edits) \in Slot
<1>1. edited' \in [Chunk -> Slot]
  BY DugType DEF Systems
<1>2. \A c \in Chunk : Cached(c) \in Slot /\ Streamed(c) \in Slot
  BY DEF TypeOK, Cached, Streamed, Slot
<1>3. \A c \in Chunk : Queued(c, edits) \in Slot
  BY DugType DEF Queued, Slot
<1>4. \A c \in Chunk : Committed(c, edits) \in Slot
  BY <1>2, <1>3 DEF Committed
<1>5. \A c \in Chunk : Waited(c) \in 0..Grace
  <2> SUFFICES ASSUME NEW c \in Chunk PROVE Waited(c) \in 0..Grace
    OBVIOUS
  <2>1. grace[c] \in 0..Grace /\ Grace \in Nat
    BY ChunkAssumption DEF TypeOK
  <2>2. CASE world[c] = Absent \/ InRange(c) \/ Expired(c)
    BY <2>1, <2>2 DEF Waited
  <2>3. CASE ~(world[c] = Absent \/ InRange(c) \/ Expired(c))
    <3>1. ~(grace[c] + 1 > Grace)
      BY <2>3 DEF Expired
    <3> QED  BY <3>1, <2>1, <2>3 DEF Waited
  <2> QED  BY <2>2, <2>3
<1> QED  BY <1>1, <1>2, <1>3, <1>4, <1>5 DEF Systems

\* A chunk that unloads has no edit waiting but a torn one.
LEMMA ExpiredUnstaged ==
    ASSUME IInv, NEW c \in Chunk, Expired(c)
    PROVE  c \in torn \/ staged[c] = Absent
<1>1. grace[c] \in 0..Grace /\ failures \in 0..MaxFailures
  BY DEF IInv, TypeOK
<1>2. Grace \in Nat /\ MaxFailures \in 0..Grace
  BY ChunkAssumption
<1>3. grace[c] + 1 > Grace
  BY DEF Expired
<1>4. ~(grace[c] < failures)
  BY <1>1, <1>2, <1>3
<1> QED  BY <1>4 DEF IInv, StagedYoung

\* One pass of the systems keeps a chunk: the copy the tick will leave in the
\* world or in the cache carries every edit.
LEMMA SystemsKeep ==
    ASSUME IInv, NEW edits \in Edits, Systems(edits),
           NEW c \in Chunk \ missing
    PROVE  \/ /\ Streamed(c) # Absent
              /\ cache'[c] = Absent
              /\ Committed(c, edits) # Absent
              /\ edited'[c] # Absent => edited'[c] = Committed(c, edits)
           \/ /\ Streamed(c) = Absent
              /\ Queued(c, edits) = Absent
              /\ cache'[c] # Absent
              /\ edited'[c] # Absent => edited'[c] = cache'[c]
<1>1. Once(c) /\ (edited[c] = Absent \/ Current(c)) /\ up
  BY DEF IInv, TerrainKept, Lossy, Systems
<1>2. c \in DOMAIN edits => world[c] # Absent /\ InRange(c)
  BY EditsInRange DEF IInv
<1>3. cache'[c] = Cached(c) /\ edited'[c] = Dug(c, edits)
  BY DEF Systems
<1>4. c \notin DOMAIN edits => Dug(c, edits) = edited[c]
  BY DEF Dug, Overwritten
<1>5. CASE Expired(c)
  <2>1. world[c] # Absent /\ ~InRange(c) /\ c \notin DOMAIN edits
    BY <1>2, <1>5 DEF Expired
  <2>2. edited[c] = Absent \/ edited[c] = world[c]
    <3>1. CASE c \in torn
      BY <3>1 DEF IInv, TornQueued, Lossy
    <3>2. CASE staged[c] = Absent
      BY <1>1, <2>1, <3>2 DEF Current
    <3> QED  BY <3>1, <3>2, <1>5, ExpiredUnstaged
  <2> QED  BY <2>1, <2>2, <1>3, <1>4, <1>5 DEF Streamed, Queued, Cached
<1>6. CASE ~Expired(c) /\ world[c] # Absent
  <2>1. cache[c] = Absent /\ ~Recalled(c)
    BY <1>1, <1>6 DEF Once, Recalled
  <2>2. /\ Streamed(c) = world[c] /\ Cached(c) = Absent
        /\ Committed(c, edits) = IF Asked(c, edits) # Absent THEN Asked(c, edits) ELSE world[c]
    BY <1>6, <2>1 DEF Streamed, Cached, Committed, Queued
  <2>3. Dug(c, edits) # Absent => Dug(c, edits) = Committed(c, edits)
    BY <1>1, <1>6, <2>2, EditCounts
  <2> QED  BY <1>3, <1>6, <2>2, <2>3
<1>7. CASE world[c] = Absent
  <2>1. staged[c] = Absent
    BY <1>7 DEF IInv, StagedYoung
  <2>2. ~Expired(c) /\ c \notin DOMAIN edits
    BY <1>2, <1>7 DEF Expired
  <2>3. cache[c] # Absent
    BY <1>1, <1>7 DEF Once
  <2> QED  BY <2>1, <2>2, <2>3, <1>1, <1>3, <1>4, <1>7
           DEF Current, Streamed, Queued, Asked, Cached, Committed
<1> QED  BY <1>5, <1>6, <1>7

-----------------------------------------------------------------------------
\* A tick that gets past its changeset, whatever becomes of the autosave.
LEMMA AppliedKeeps ==
    ASSUME IInv, NEW edits \in Edits, Applied(edits), here' \in SUBSET Spot,
           UNCHANGED <<up, row, missing>>,
           sinceSave' \in 0..(SaveInterval - 1),
           puts' \subseteq puts \cup {world'}
    PROVE  IInv'
<1>0. Systems(edits) /\ up
  BY DEF Applied, Systems
<1>1. TypeOK'
  <2>1. world' \in [Chunk -> Slot]
    BY <1>0, SystemsType DEF IInv, Applied
  <2>2. failures' \in 0..MaxFailures
    BY ChunkAssumption DEF Applied
  <2>3. puts' \in SUBSET [Chunk -> Slot]
    BY <2>1 DEF IInv, TypeOK
  <2>4. staged' \in [Chunk -> Slot]
    BY DEF Applied, Nothing, Slot
  <2>5. torn' \in SUBSET Chunk
    BY DEF Applied
  <2> QED  BY <2>1, <2>2, <2>3, <2>4, <2>5, <1>0, SystemsType DEF IInv, TypeOK
<1>2. TerrainKept'
  <2> SUFFICES ASSUME NEW c \in Chunk \ missing
               PROVE  Once(c)' /\ (edited'[c] = Absent \/ Current(c)')
    BY DEF TerrainKept, Lossy
  <2>1. world'[c] = Committed(c, edits) /\ staged'[c] = Absent
    BY DEF Applied, Nothing
  <2> QED  BY <2>1, <1>0, SystemsKeep DEF Once, Current, Committed
<1>3. StagedYoung' /\ TornQueued'
  BY DEF StagedYoung, TornQueued, Applied, Nothing
<1>4. DownIsEmpty'
  BY <1>0 DEF DownIsEmpty
<1> QED  BY <1>1, <1>2, <1>3, <1>4 DEF IInv

LEMMA TickKeeps ==
    ASSUME IInv, NEW edits \in Edits, Tick(edits)
    PROVE  IInv'
<1>1. sinceSave' \in 0..(SaveInterval - 1)
  BY ChunkAssumption DEF IInv, TypeOK, Tick
<1>2. puts' \subseteq puts \cup {world'}
  BY DEF Tick
<1>3. Applied(edits) /\ here' \in SUBSET Spot /\ UNCHANGED <<up, row, missing>>
  BY DEF Tick
<1> QED  BY <1>1, <1>2, <1>3, AppliedKeeps

LEMMA UnsentTickKeeps ==
    ASSUME IInv, NEW edits \in Edits, UnsentTick(edits)
    PROVE  IInv'
<1>1. sinceSave' \in 0..(SaveInterval - 1)
  BY DEF IInv, TypeOK, UnsentTick
<1>2. puts' \subseteq puts \cup {world'}
  BY DEF UnsentTick
<1>3. Applied(edits) /\ here' \in SUBSET Spot /\ UNCHANGED <<up, row, missing>>
  BY DEF UnsentTick
<1> QED  BY <1>1, <1>2, <1>3, AppliedKeeps

LEMMA FailedTickKeeps ==
    ASSUME IInv, NEW edits \in Edits, FailedTick(edits)
    PROVE  IInv'
<1>0. /\ Systems(edits) /\ up /\ UNCHANGED <<up, missing>>
      /\ torn' = {c \in torn : staged'[c] # Absent}
  BY DEF FailedTick, Systems
<1>1. TypeOK'
  <2>1. world' \in [Chunk -> Slot] /\ staged' \in [Chunk -> Slot]
    BY <1>0, SystemsType DEF IInv, FailedTick
  <2>2. failures' \in 0..MaxFailures
    BY ChunkAssumption DEF IInv, TypeOK, FailedTick
  <2> QED  BY <2>1, <2>2, <1>0, SystemsType DEF IInv, TypeOK, FailedTick
<1>2. TerrainKept'
  <2> SUFFICES ASSUME NEW c \in Chunk \ missing
               PROVE  Once(c)' /\ (edited'[c] = Absent \/ Current(c)')
    BY <1>0 DEF TerrainKept, Lossy
  <2>1. world'[c] = Streamed(c) /\ staged'[c] = Queued(c, edits)
    BY DEF FailedTick
  <2> QED  BY <2>1, <1>0, SystemsKeep DEF Once, Current, Committed
<1>3. StagedYoung'
  <2> SUFFICES ASSUME NEW c \in Chunk, Queued(c, edits) # Absent
               PROVE  Streamed(c) # Absent /\ (c \in torn \/ grace'[c] < failures')
    BY <1>0 DEF StagedYoung, FailedTick
  <2>1. grace'[c] = Waited(c) /\ failures' = failures + 1
    BY <1>0 DEF Systems, FailedTick
  <2>2. grace[c] \in Nat /\ failures \in Nat
    BY ChunkAssumption DEF IInv, TypeOK
  <2>3. ~Expired(c)
    BY DEF Queued
  <2>4. CASE c \in DOMAIN edits
    <3>1. world[c] # Absent /\ InRange(c)
      BY <2>4, EditsInRange DEF IInv
    <3>2. Streamed(c) # Absent
      BY <3>1, <2>3 DEF Streamed, Recalled
    <3>3. Waited(c) = 0
      BY <3>1 DEF Waited
    <3> QED  BY <3>2, <3>3, <2>1, <2>2
  <2>5. CASE c \notin DOMAIN edits
    <3>1. world[c] # Absent /\ (c \in torn \/ grace[c] < failures)
      BY <2>3, <2>5 DEF Queued, Asked, IInv, StagedYoung
    <3>2. Streamed(c) # Absent
      <4>1. world[c] # Absent => ~Recalled(c) \/ cache[c] # Absent
        BY DEF Recalled
      <4> QED  BY <4>1, <3>1, <2>3 DEF Streamed
    <3>3. Waited(c) \in {0, grace[c] + 1}
      BY DEF Waited
    <3> QED  BY <3>1, <3>2, <3>3, <2>1, <2>2
  <2> QED  BY <2>4, <2>5
<1>4. DownIsEmpty'
  BY <1>0 DEF DownIsEmpty
<1>5. TornQueued'
  <2>1. ASSUME NEW c \in torn PROVE Lossy(c)'
    BY <1>0, <2>1 DEF IInv, TypeOK, TornQueued, Lossy, Systems, Dug
  <2> QED  BY <1>0, <2>1 DEF TornQueued
<1> QED  BY <1>1, <1>2, <1>3, <1>4, <1>5 DEF IInv

LEMMA CutTickKeeps ==
    ASSUME IInv, NEW edits \in Edits, CutTick(edits)
    PROVE  IInv'
<1>0. /\ up
      /\ edited' = [c \in Chunk |-> IF c \in DOMAIN edits THEN Absent ELSE edited[c]]
      /\ UNCHANGED <<up, world, cache, grace, sinceSave, puts, row, missing>>
      /\ torn' = torn \cup DOMAIN edits
      /\ staged' = [c \in Chunk |-> Asked(c, edits)]
      /\ failures' = failures + 1
  BY DEF CutTick
<1>1. \A c \in Chunk : c \in DOMAIN edits \/ Asked(c, edits) = staged[c]
  BY DEF Asked
<1>2. \A c \in DOMAIN edits : c \in Chunk /\ world[c] # Absent
  BY EditsInRange DEF IInv
<1>4. TypeOK'
  <2>1. failures' \in 0..MaxFailures
    BY ChunkAssumption DEF IInv, TypeOK, CutTick
  <2>2. edited' \in [Chunk -> Slot] /\ staged' \in [Chunk -> Slot]
    BY <1>0, DugType DEF IInv, TypeOK, Slot
  <2>3. torn' \in SUBSET Chunk
    BY <1>0, <1>2 DEF IInv, TypeOK
  <2> QED  BY <2>1, <2>2, <2>3, <1>0 DEF IInv, TypeOK, CutTick
<1>5. TerrainKept'
  <2> SUFFICES ASSUME NEW c \in Chunk \ missing
               PROVE  Once(c)' /\ (edited'[c] = Absent \/ Current(c)')
    BY <1>0 DEF TerrainKept, Lossy
  <2>1. Once(c) /\ (edited[c] = Absent \/ Current(c))
    BY <1>0 DEF IInv, TerrainKept, Lossy
  <2>2. CASE c \in DOMAIN edits
    BY <2>1, <2>2, <1>0 DEF Once
  <2>3. CASE c \notin DOMAIN edits
    <3>1. edited'[c] = edited[c] /\ staged'[c] = staged[c]
      BY <2>3, <1>0, <1>1
    <3> QED  BY <3>1, <2>1, <1>0 DEF Once, Current
  <2> QED  BY <2>2, <2>3
<1>6. StagedYoung'
  <2> SUFFICES ASSUME NEW c \in Chunk, staged'[c] # Absent
               PROVE  world[c] # Absent /\ (c \in torn' \/ grace[c] < failures')
    BY <1>0 DEF StagedYoung
  <2>1. grace[c] \in Nat /\ failures \in Nat
    BY ChunkAssumption DEF IInv, TypeOK
  <2>2. CASE c \in DOMAIN edits
    BY <2>2, <1>0, <1>2
  <2>3. CASE c \notin DOMAIN edits
    <3>1. world[c] # Absent /\ (c \in torn \/ grace[c] < failures)
      BY <2>3, <1>0, <1>1 DEF IInv, StagedYoung
    <3>2. grace[c] < failures => grace[c] < failures'
      BY <1>0, <2>1
    <3> QED  BY <3>1, <3>2, <1>0
  <2> QED  BY <2>2, <2>3
<1>7. DownIsEmpty'
  BY <1>0 DEF DownIsEmpty
<1>8. TornQueued'
  <2> SUFFICES ASSUME NEW c \in torn' PROVE staged'[c] # Absent /\ edited'[c] = Absent
    BY DEF TornQueued, Lossy
  <2>1. CASE c \in DOMAIN edits
    <3>1. c \in Chunk /\ world[c] \in Terrain /\ edits[c] \in Digging
      BY <2>1, EditsInRange DEF IInv
    <3>2. Asked(c, edits) # Absent
      BY <2>1, <3>1, LastEdit, ChunkAssumption DEF Asked
    <3> QED  BY <1>0, <2>1, <3>1, <3>2
  <2>2. CASE c \notin DOMAIN edits
    BY <1>0, <1>1, <2>2 DEF IInv, TypeOK, TornQueued, Lossy
  <2> QED  BY <2>1, <2>2
<1> QED  BY <1>4, <1>5, <1>6, <1>7, <1>8 DEF IInv

LEMMA PutKeeps ==
    ASSUME IInv, NEW p \in puts, PutDone(p) \/ PutFailed(p)
    PROVE  IInv'
<1>1. /\ UNCHANGED <<up, here, world, staged, cache, grace, sinceSave, failures,
                     edited, missing, torn>>
      /\ puts' \in SUBSET puts
      /\ row' \in {row, p}
  BY DEF PutDone, PutFailed
<1>2. TypeOK'
  BY <1>1 DEF IInv, TypeOK
<1>3. TerrainKept' /\ StagedYoung' /\ DownIsEmpty' /\ TornQueued'
  BY <1>1 DEF IInv, TerrainKept, Once, Current, Lossy, StagedYoung, DownIsEmpty, TornQueued
<1> QED  BY <1>2, <1>3 DEF IInv

LEMMA ExitKeeps ==
    ASSUME IInv, Exit
    PROVE  IInv'
<1>1. TypeOK'
  <2>1. Nothing \in [Chunk -> Slot] /\ [c \in Chunk |-> 0] \in [Chunk -> 0..Grace]
    BY ChunkAssumption DEF Nothing, Slot
  <2>2. 0 \in 0..(SaveInterval - 1) /\ 0 \in 0..MaxFailures
    BY ChunkAssumption
  <2> QED  BY <2>1, <2>2 DEF IInv, TypeOK, Exit
<1>2. TerrainKept' /\ DownIsEmpty'
  BY DEF TerrainKept, DownIsEmpty, Exit
<1>3. StagedYoung' /\ TornQueued'
  BY DEF StagedYoung, TornQueued, Exit, Nothing
<1> QED  BY <1>1, <1>2, <1>3 DEF IInv

LEMMA BootKeeps ==
    ASSUME IInv, Boot
    PROVE  IInv'
<1> DEFINE loaded == IF row = NoRow THEN [c \in Chunk |-> Fresh] ELSE row
<1>1. /\ world' = loaded
      /\ missing' = {c \in Chunk : loaded[c] = Absent}
      /\ edited' = loaded
      /\ up' = TRUE
      /\ UNCHANGED <<staged, cache, grace, sinceSave, failures, row, torn>>
      /\ puts' = {}
      /\ here' \in SUBSET Spot
  BY DEF Boot
<1>2. loaded \in [Chunk -> Slot]
  BY ChunkAssumption DEF IInv, TypeOK, Slot
<1>3. staged = Nothing /\ cache = Nothing
  BY DEF IInv, DownIsEmpty, Boot
<1> HIDE DEF loaded
<1>5. TypeOK'
  BY <1>1, <1>2 DEF IInv, TypeOK
<1>6. TerrainKept'
  BY <1>1, <1>2, <1>3 DEF TerrainKept, Once, Current, Lossy, Nothing
<1>7. StagedYoung' /\ DownIsEmpty' /\ TornQueued'
  <2>1. torn = {}
    BY DEF IInv, DownIsEmpty, Boot
  <2> QED  BY <1>1, <1>3, <2>1 DEF StagedYoung, DownIsEmpty, TornQueued, Nothing
<1> QED  BY <1>5, <1>6, <1>7 DEF IInv

LEMMA InitKept == Init => IInv
<1> SUFFICES ASSUME Init PROVE IInv
  OBVIOUS
<1>1. TypeOK
  <2>1. /\ world \in [Chunk -> Slot] /\ staged \in [Chunk -> Slot]
        /\ cache \in [Chunk -> Slot] /\ edited \in [Chunk -> Slot]
    BY ChunkAssumption DEF Init, Nothing, Slot
  <2>2. /\ grace \in [Chunk -> 0..Grace] /\ sinceSave \in 0..(SaveInterval - 1)
        /\ failures \in 0..MaxFailures
    BY ChunkAssumption DEF Init
  <2>3. up \in BOOLEAN /\ torn = {} /\ missing = {} /\ puts = {}
    BY DEF Init
  <2> QED  BY <2>1, <2>2, <2>3 DEF Init, TypeOK
<1>2. TerrainKept /\ StagedYoung /\ DownIsEmpty /\ TornQueued
  BY ChunkAssumption DEF Init, TerrainKept, Once, Current, StagedYoung, DownIsEmpty,
                         TornQueued, Nothing
<1> QED  BY <1>1, <1>2 DEF IInv

LEMMA NextKeeps == IInv /\ [Next]_vars => IInv'
<1> SUFFICES ASSUME IInv, [Next]_vars PROVE IInv'
  OBVIOUS
<1>1. CASE SomeTick
  BY <1>1, TickKeeps DEF SomeTick
<1>2. CASE SomeFailure
  BY <1>2, UnsentTickKeeps, FailedTickKeeps, CutTickKeeps DEF SomeFailure
<1>3. CASE SomePut
  BY <1>3, PutKeeps DEF SomePut
<1>4. CASE Exit
  BY <1>4, ExitKeeps
<1>5. CASE Boot
  BY <1>5, BootKeeps
<1>6. CASE UNCHANGED vars
  BY <1>6 DEF vars, IInv, TypeOK, TerrainKept, Once, Current, Lossy, TornQueued,
              StagedYoung, DownIsEmpty
<1> QED  BY <1>1, <1>2, <1>3, <1>4, <1>5, <1>6 DEF Next

LEMMA AlwaysIInv == Spec => []IInv
<1> QED  BY InitKept, NextKeeps, PTL DEF Spec

-----------------------------------------------------------------------------
\* Every variable keeps its type; no grace counter passes the grace.
THEOREM ChunkTypeCorrect == Spec => []TypeOK
<1>1. IInv => TypeOK
  BY DEF IInv
<1> QED  BY <1>1, AlwaysIInv, PTL

\* chunk_lifecycle.ts's data-safety contract: while a tile runs, every chunk it
\* booted with is in the world or in the cache, not in both, with every edit
\* unless, since the boot, a tick failed between an edit of the chunk and
\* ChunkLifecycleSystem, or one came before another was committed.
THEOREM TerrainAlwaysKept == Spec => []TerrainKept
<1>1. IInv => TerrainKept
  BY DEF IInv
<1> QED  BY <1>1, AlwaysIInv, PTL

\* A running tile only unloads chunks that no anchor is near.
THEOREM UnloadsOnlyFar == Spec => FarUnload
<1> DEFINE Far == \A c \in Chunk :
                      up /\ up' /\ world[c] # Absent /\ world'[c] = Absent => ~InRange(c)
<1>1. ASSUME IInv, [Next]_vars PROVE Far
  <2> SUFFICES ASSUME NEW c \in Chunk, up, up', world[c] # Absent, world'[c] = Absent
               PROVE  ~InRange(c)
    OBVIOUS
  <2>1. ASSUME NEW edits \in Edits, Applied(edits) PROVE ~InRange(c)
    <3>1. world'[c] = Committed(c, edits)
      BY <2>1 DEF Applied
    <3>2. Streamed(c) = Absent
      BY <3>1 DEF Committed
    <3> QED  BY <3>2 DEF Streamed, Recalled, Expired
  <2>2. ASSUME NEW edits \in Edits, FailedTick(edits) PROVE ~InRange(c)
    <3>1. Streamed(c) = Absent
      BY <2>2 DEF FailedTick
    <3> QED  BY <3>1 DEF Streamed, Recalled, Expired
  <2>7. CASE SomeTick
    BY <2>1, <2>7 DEF SomeTick, Tick
  <2>8. CASE SomeFailure
    BY <2>1, <2>2, <2>8 DEF SomeFailure, UnsentTick, CutTick
  <2>3. CASE SomePut
    BY <2>3 DEF SomePut, PutDone, PutFailed
  <2>4. CASE Exit
    BY <2>4 DEF Exit
  <2>5. CASE Boot
    BY <2>5 DEF Boot
  <2>6. CASE UNCHANGED vars
    BY <2>6 DEF vars
  <2> QED  BY <1>1, <2>3, <2>4, <2>5, <2>6, <2>7, <2>8 DEF Next
<1>2. IInv /\ [Next]_vars => [Far]_vars
  BY <1>1
<1> QED  BY <1>2, AlwaysIInv, PTL DEF Spec, FarUnload

-----------------------------------------------------------------------------
(* The terrain follows TerrainLedger.                                      *)

\* A chunk is never in the world and in the cache, not even a missing one.
NotTwice == \A c \in Chunk : world[c] = Absent \/ cache[c] = Absent

\* One pass of the systems shows the same land and keeps the edits asked for,
\* unless they are torn and of a chunk that unloads.
LEMMA SystemsShow ==
    ASSUME IInv, NotTwice, NEW edits \in Edits, Systems(edits), NEW c \in Chunk
    PROVE  /\ Streamed(c) = Absent \/ cache'[c] = Absent
           /\ Streamed(c) = Absent => Queued(c, edits) = Absent
           /\ Land[c] = IF Streamed(c) # Absent THEN Streamed(c) ELSE cache'[c]
           /\ Ledger!MayQueue(c, Queued(c, edits))
           /\ Ledger!MayBecome(c, IF Committed(c, edits) # Absent THEN Committed(c, edits)
                                  ELSE cache'[c])
<1> USE DEF Ledger!MayQueue, Ledger!MayBecome, Ledger!MayEdit
<1>1. c \in DOMAIN edits => /\ world[c] # Absent /\ InRange(c)
                            /\ Asked(c, edits) \in Terrain
                            /\ \E edit \in Edit : Asked(c, edits) = edit[world[c]]
  BY EditsInRange, LastEdit DEF IInv, Asked
<1>2. staged[c] # Absent => world[c] # Absent
  BY DEF IInv, StagedYoung
<1>3. world[c] = Absent \/ cache[c] = Absent
  BY DEF NotTwice
<1>4. cache'[c] = Cached(c) /\ Absent \notin Terrain
  BY ChunkAssumption DEF Systems
<1>5. Land[c] = IF world[c] # Absent THEN world[c] ELSE cache[c]
  BY DEF Land
<1>6. CASE Expired(c)
  <2>1. c \in torn \/ staged[c] = Absent
    BY <1>6, ExpiredUnstaged
  <2>2. /\ Queued(c, edits) = Absent /\ Streamed(c) = Absent
        /\ Committed(c, edits) = Absent /\ cache'[c] = world[c] /\ world[c] # Absent
    BY <1>4, <1>6 DEF Queued, Streamed, Committed, Cached, Expired
  <2> QED  BY <1>5, <2>1, <2>2
<1>7. CASE ~Expired(c) /\ Recalled(c)
  <2>1. world[c] = Absent /\ staged[c] = Absent /\ c \notin DOMAIN edits
    BY <1>1, <1>2, <1>3, <1>7 DEF Recalled
  <2>2. /\ Queued(c, edits) = Absent /\ Streamed(c) = cache[c]
        /\ Committed(c, edits) = cache[c] /\ cache'[c] = Absent /\ cache[c] # Absent
    BY <1>4, <1>7, <2>1 DEF Queued, Asked, Streamed, Committed, Cached, Recalled
  <2> QED  BY <1>5, <2>1, <2>2
<1>8. CASE ~Expired(c) /\ ~Recalled(c)
  <2>1. /\ Queued(c, edits) = Asked(c, edits) /\ Streamed(c) = world[c]
        /\ cache'[c] = cache[c]
        /\ Committed(c, edits) = IF Asked(c, edits) # Absent THEN Asked(c, edits) ELSE world[c]
    BY <1>4, <1>8 DEF Queued, Streamed, Committed, Cached
  <2>2. CASE c \in DOMAIN edits
    BY <1>1, <1>3, <1>4, <1>5, <2>1, <2>2
  <2>3. CASE c \notin DOMAIN edits
    BY <1>2, <1>3, <1>4, <1>5, <2>1, <2>3 DEF Asked
  <2> QED  BY <2>2, <2>3
<1> QED  BY <1>6, <1>7, <1>8

LEMMA AppliedLedger ==
    ASSUME IInv, NotTwice, NEW edits \in Edits, Applied(edits),
           UNCHANGED <<up, row>>,
           puts' = puts \/ puts' = puts \cup {world'}
    PROVE  Ledger!Complete /\ NotTwice'
<1>1. Systems(edits)
  BY DEF Applied
<1>2. /\ world' = [c \in Chunk |-> Committed(c, edits)] /\ staged' = Nothing
      /\ cache' \in [Chunk -> Slot] /\ \A c \in Chunk : Committed(c, edits) \in Slot
  BY <1>1, SystemsType DEF Applied, IInv
<1>3. NotTwice'
  <2> SUFFICES ASSUME NEW c \in Chunk PROVE world'[c] = Absent \/ cache'[c] = Absent
    BY DEF NotTwice
  <2> QED  BY <1>1, <1>2, SystemsShow DEF Committed
<1>4. Land' \in [Chunk -> Terrain \cup {Absent}]
  BY <1>2 DEF Land, Slot
<1>5. ASSUME NEW c \in Chunk PROVE Ledger!MayBecome(c, Land'[c])
  <2>1. Land'[c] = IF Committed(c, edits) # Absent THEN Committed(c, edits) ELSE cache'[c]
    BY <1>2 DEF Land
  <2> QED  BY <1>1, <2>1, SystemsShow
<1>6. \/ Recoverable' = Recoverable
      \/ \E picture \in Recoverable' :
            Ledger!Pictures(picture) /\ Recoverable' = Recoverable \cup {picture}
  <2>1. \A c \in Chunk : world'[c] \in {Land'[c], Absent}
    BY <1>2 DEF Land
  <2>2. CASE puts' = puts
    BY <2>2 DEF Recoverable
  <2>3. CASE puts' = puts \cup {world'}
    BY <2>1, <2>3 DEF Recoverable, Ledger!Pictures
  <2> QED  BY <2>2, <2>3
<1>7. up /\ staged' = Ledger!Nothing /\ UNCHANGED up /\ torn' = {}
  BY <1>1, <1>2 DEF Applied, Systems, Nothing, Ledger!Nothing
<1> QED  BY <1>3, <1>4, <1>5, <1>6, <1>7 DEF Ledger!Complete

LEMMA FailedLedger ==
    ASSUME IInv, NotTwice, NEW edits \in Edits, FailedTick(edits)
    PROVE  Ledger!Defer /\ NotTwice'
<1>1. Systems(edits) /\ up
  BY DEF FailedTick, Systems
<1>2. /\ world' = [c \in Chunk |-> Streamed(c)]
      /\ staged' = [c \in Chunk |-> Queued(c, edits)]
      /\ cache' \in [Chunk -> Slot]
      /\ \A c \in Chunk : Streamed(c) \in Slot /\ Queued(c, edits) \in Slot
      /\ UNCHANGED <<up, puts, row>>
      /\ torn' = {c \in torn : staged'[c] # Absent} /\ torn \subseteq Chunk
  BY <1>1, SystemsType DEF FailedTick, IInv, TypeOK
<1>3. NotTwice'
  BY <1>1, <1>2, SystemsShow DEF NotTwice
<1>4. Land' = Land
  <2>1. ASSUME NEW c \in Chunk PROVE Land'[c] = Land[c]
    BY <1>1, <1>2, SystemsShow DEF Land
  <2> QED  BY <2>1 DEF Land
<1>5. staged' \in [Chunk -> Terrain \cup {Absent}]
      /\ \A c \in Chunk : Ledger!MayQueue(c, staged'[c])
  BY <1>1, <1>2, SystemsShow DEF Slot
<1>6. Recoverable' = Recoverable
  BY <1>2 DEF Recoverable
<1> QED  BY <1>1, <1>2, <1>3, <1>4, <1>5, <1>6 DEF Ledger!Defer

LEMMA CutLedger ==
    ASSUME IInv, NotTwice, NEW edits \in Edits, CutTick(edits)
    PROVE  Ledger!Defer /\ NotTwice'
<1>1. /\ up /\ UNCHANGED <<up, world, cache, puts, row>>
      /\ staged' = [c \in Chunk |-> Asked(c, edits)]
      /\ torn' = torn \cup DOMAIN edits
  BY DEF CutTick
<1>2. ASSUME NEW c \in DOMAIN edits
      PROVE  c \in Chunk /\ staged'[c] # Absent /\ Ledger!MayEdit(c, staged'[c])
  <2>1. c \in Chunk /\ world[c] \in Terrain /\ world[c] # Absent /\ edits[c] \in Digging
    BY <1>2, EditsInRange DEF IInv
  <2>2. staged'[c] = LastOf(edits[c], world[c]) /\ Land[c] = world[c]
    BY <1>1, <1>2, <2>1 DEF Asked, Land
  <2>3. staged'[c] \in Terrain /\ \E edit \in Edit : staged'[c] = edit[world[c]]
    BY <2>1, <2>2, LastEdit
  <2> QED  BY <2>1, <2>2, <2>3, ChunkAssumption DEF Ledger!MayEdit
<1>3. \A c \in Chunk : c \in DOMAIN edits \/ staged'[c] = staged[c]
  BY <1>1 DEF Asked
<1>4. staged' \in [Chunk -> Terrain \cup {Absent}]
  BY <1>1, DugType DEF IInv, Slot
<1>5. \A c \in Chunk : Ledger!MayQueue(c, staged'[c])
  BY <1>2, <1>3 DEF Ledger!MayQueue
<1>6. /\ torn' \subseteq {c \in Chunk : staged'[c] # Absent}
      /\ \A c \in torn' \ torn : Ledger!MayEdit(c, staged'[c])
  BY <1>1, <1>2, <1>3 DEF IInv, TypeOK, TornQueued
<1>7. Land' = Land /\ Recoverable' = Recoverable /\ NotTwice'
  BY <1>1 DEF Land, Recoverable, NotTwice
<1> QED  BY <1>1, <1>4, <1>5, <1>6, <1>7 DEF Ledger!Defer

LEMMA PutLedger ==
    ASSUME IInv, NotTwice, NEW p \in puts, PutDone(p) \/ PutFailed(p)
    PROVE  Ledger!Forget /\ NotTwice'
<1>1. Land' = Land /\ NotTwice' /\ UNCHANGED <<up, staged, torn>>
  BY DEF PutDone, PutFailed, Land, NotTwice
<1>2. Recoverable' \subseteq Recoverable /\ Recoverable' # {}
  <2>1. CASE PutDone(p)
    <3>1. p # NoRow
      BY ChunkAssumption DEF IInv, TypeOK, Slot
    <3> QED  BY <2>1, <3>1 DEF PutDone, Recoverable
  <2>2. CASE PutFailed(p)
    BY <2>2 DEF PutFailed, Recoverable
  <2> QED  BY <2>1, <2>2
<1> QED  BY <1>1, <1>2 DEF Ledger!Forget

LEMMA RestartLedger ==
    ASSUME IInv, NotTwice, Exit \/ Boot
    PROVE  (Ledger!Exit \/ Ledger!Restart) /\ NotTwice'
<1>1. CASE Exit
  <2>1. Land' = Ledger!Nothing /\ staged' = Ledger!Nothing /\ NotTwice'
    BY <1>1 DEF Exit, Land, Nothing, Ledger!Nothing, NotTwice
  <2>2. Recoverable' = Recoverable
    BY <1>1 DEF Exit, Recoverable
  <2> QED  BY <1>1, <2>1, <2>2 DEF Exit, Ledger!Exit
<1>2. CASE Boot
  <2> DEFINE loaded == IF row = NoRow THEN [c \in Chunk |-> Fresh] ELSE row
  <2>1. /\ ~up /\ up' = TRUE /\ world' = loaded /\ puts' = {}
        /\ UNCHANGED <<staged, cache, row, torn>>
    BY <1>2 DEF Boot
  <2>2. cache = Nothing /\ loaded \in [Chunk -> Slot]
    BY <2>1, ChunkAssumption DEF IInv, TypeOK, DownIsEmpty, Slot
  <2>3. Land' = loaded /\ NotTwice'
    <3>1. \A c \in Chunk : cache'[c] = Absent
      BY <2>1, <2>2 DEF Nothing
    <3>2. Land' = [c \in Chunk |-> IF loaded[c] # Absent THEN loaded[c] ELSE Absent]
      BY <2>1, <3>1 DEF Land
    <3> QED  BY <2>2, <3>1, <3>2 DEF NotTwice
  <2>4. loaded \in Recoverable /\ Recoverable' = {loaded}
    BY <2>1 DEF Recoverable
  <2> QED  BY <2>1, <2>3, <2>4 DEF Ledger!Restart
<1> QED  BY <1>1, <1>2

LEMMA LedgerStep ==
    ASSUME IInv, NotTwice, [Next]_vars
    PROVE  [Ledger!Next]_Ledger!vars /\ NotTwice'
<1>1. ASSUME NEW edits \in Edits, Tick(edits) PROVE Ledger!Next /\ NotTwice'
  <2>1. Applied(edits) /\ UNCHANGED <<up, row>>
        /\ (puts' = puts \/ puts' = puts \cup {world'})
    BY <1>1 DEF Tick
  <2> QED  BY <2>1, AppliedLedger DEF Ledger!Next
<1>2. ASSUME NEW edits \in Edits, UnsentTick(edits) PROVE Ledger!Next /\ NotTwice'
  BY <1>2, AppliedLedger DEF UnsentTick, Ledger!Next
<1>3. ASSUME NEW edits \in Edits, FailedTick(edits) PROVE Ledger!Next /\ NotTwice'
  BY <1>3, FailedLedger DEF Ledger!Next
<1>4. ASSUME NEW edits \in Edits, CutTick(edits) PROVE Ledger!Next /\ NotTwice'
  BY <1>4, CutLedger DEF Ledger!Next
<1>5. CASE SomePut
  BY <1>5, PutLedger DEF SomePut, Ledger!Next
<1>6. CASE Exit \/ Boot
  BY <1>6, RestartLedger DEF Ledger!Next
<1>7. CASE UNCHANGED vars
  BY <1>7 DEF vars, Ledger!vars, Land, Recoverable, NotTwice
<1> QED  BY <1>1, <1>2, <1>3, <1>4, <1>5, <1>6, <1>7 DEF Next, SomeTick, SomeFailure

\* Streaming, failing ticks, autosaves and boots implement land that only edits
\* change, that loses no edit but a torn one, or one another took the place of
\* in the queue, and that a restart takes back to one saved moment.
THEOREM TerrainFollowsLedger == Spec => FollowsLedger
<1>1. Init => Ledger!Init /\ NotTwice
  <2> SUFFICES ASSUME Init PROVE Ledger!Init /\ NotTwice
    OBVIOUS
  <2>1. Land = [c \in Chunk |-> Fresh] /\ Recoverable = {Land} /\ NotTwice
    BY ChunkAssumption DEF Init, Land, Recoverable, Nothing, NotTwice
  <2> QED  BY <2>1 DEF Init, Ledger!Init, Nothing, Ledger!Nothing
<1> QED  BY <1>1, AlwaysIInv, LedgerStep, PTL DEF Spec, FollowsLedger, Ledger!Spec
=============================================================================
