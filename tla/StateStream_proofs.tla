------------------------- MODULE StateStream_proofs -------------------------
(***************************************************************************)
(* Proofs about StateStream for any entities, cells and bounds: types, a   *)
(* client that shows what its session knows, and a fog that mirrors the    *)
(* server's.                                                               *)
(***************************************************************************)
EXTENDS StateStream, WellFoundedInduction, TLAPS

-----------------------------------------------------------------------------
(* Induction over the natural numbers, on a set: the library's theorem     *)
(* takes an operator, so the least counterexample is used directly.        *)

Before == {r \in Nat \X Nat : r[1] < r[2]}

\* A set that holds 0 and the successor of each of its numbers holds them all.
LEMMA NatSets ==
    ASSUME NEW S, 0 \in S, \A n \in Nat : n \in S => n + 1 \in S
    PROVE  Nat \subseteq S
<1> DEFINE T == Nat \ S
<1>1. SUFFICES ASSUME T # {} PROVE FALSE
  OBVIOUS
<1>2. IsWellFoundedOn(Before, Nat)
  <2>1. IsWellFoundedOn(OpToRel(<, Nat), Nat)
    BY NatLessThanWellFounded
  <2>2. OpToRel(<, Nat) = Before
    BY DEF OpToRel, Before
  <2>3. QED
    BY <2>1, <2>2
<1>3. T \subseteq Nat
  OBVIOUS
<1>4. \E x \in T : \A y \in T : ~(<<y, x>> \in Before)
  <2> HIDE DEF T
  <2>1. QED
    BY <1>1, <1>2, <1>3, WFMin
<1>5. PICK x \in T : \A y \in T : ~(<<y, x>> \in Before)
  BY <1>4
<1>6. x - 1 \in Nat /\ x - 1 < x
  BY <1>5
<1>7. x - 1 \in S
  BY <1>5, <1>6 DEF Before
<1>8. QED
  BY <1>5, <1>6, <1>7

-----------------------------------------------------------------------------
(* What a page holds after reading a queue. *)

\* f[i] is page c after the first i messages of q.
Reads(f, c, q, n) ==
    f = [i \in 0 .. n |-> IF i = 0 THEN c ELSE Updated(f[i - 1], q[i])]

\* There is such a function for every length.
LEMMA ReadsExist ==
    ASSUME NEW c, NEW q, NEW n \in Nat
    PROVE  \E f : Reads(f, c, q, n)
<1> DEFINE S == {k \in Nat : \E f : Reads(f, c, q, k)}
<1>1. 0 \in S
  <2>1. Reads([i \in 0 .. 0 |-> c], c, q, 0)
    BY DEF Reads
  <2>2. QED
    BY <2>1
<1>2. ASSUME NEW k \in Nat, k \in S PROVE k + 1 \in S
  <2>1. PICK f : Reads(f, c, q, k)
    BY <1>2
  <2> DEFINE g == [i \in 0 .. k + 1 |-> IF i = k + 1 THEN Updated(f[k], q[k + 1]) ELSE f[i]]
  <2>2. ASSUME NEW i \in 0 .. k + 1
        PROVE  g[i] = IF i = 0 THEN c ELSE Updated(g[i - 1], q[i])
    <3>1. CASE i = 0
      BY <2>1, <3>1 DEF Reads
    <3>2. CASE i # 0 /\ i # k + 1
      <4>1. i \in 0 .. k /\ i - 1 \in 0 .. k /\ i - 1 # k + 1
        BY <3>2
      <4>2. f[i] = Updated(f[i - 1], q[i])
        BY <2>1, <3>2, <4>1 DEF Reads
      <4>3. g[i] = f[i] /\ g[i - 1] = f[i - 1]
        BY <3>2, <4>1
      <4>4. QED
        BY <3>2, <4>2, <4>3
    <3>3. CASE i = k + 1
      <4>1. i - 1 = k /\ k \in 0 .. k + 1 /\ k # k + 1 /\ i # 0
        BY <3>3
      <4>2. g[i - 1] = f[k] /\ g[i] = Updated(f[k], q[i])
        BY <3>3, <4>1
      <4>3. QED
        BY <4>1, <4>2
    <3>4. QED
      BY <3>1, <3>2, <3>3
  <2>3. Reads(g, c, q, k + 1)
    <3>1. g = [i \in 0 .. k + 1 |-> IF i = 0 THEN c ELSE Updated(g[i - 1], q[i])]
      <4>1. g = [i \in 0 .. k + 1 |-> g[i]]
        OBVIOUS
      <4> HIDE DEF g
      <4>2. QED
        BY <2>2, <4>1
    <3>2. QED
      BY <3>1 DEF Reads
  <2>4. QED
    BY <2>3
<1>3. Nat \subseteq S
  <2> HIDE DEF S
  <2>1. QED
    BY <1>1, <1>2, NatSets
<1>4. QED
  BY <1>3

\* Reading is such a function.
LEMMA ReadsAll ==
    ASSUME NEW c, NEW q, Len(q) \in Nat
    PROVE  Reads(Reading(c, q), c, q, Len(q))
<1> DEFINE f == CHOOSE f : Reads(f, c, q, Len(q))
<1>1. Reads(f, c, q, Len(q))
  BY ReadsExist
<1>2. f = CHOOSE after : after = [n \in 0 .. Len(q) |->
                                    IF n = 0 THEN c ELSE Updated(after[n - 1], q[n])]
  BY DEF Reads
<1>3. Reading(c, q) = f
  BY <1>2 DEF Reading
<1>4. QED
  BY <1>1, <1>3

LEMMA ReadsStep ==
    ASSUME NEW f, NEW c, NEW q, NEW n \in Nat, Reads(f, c, q, n)
    PROVE  f[0] = c /\ \A i \in 1 .. n : f[i] = Updated(f[i - 1], q[i])
<1>1. 0 \in 0 .. n
  OBVIOUS
<1>2. f[0] = c
  BY <1>1 DEF Reads
<1>3. ASSUME NEW i \in 1 .. n PROVE f[i] = Updated(f[i - 1], q[i])
  <2>1. i \in 0 .. n /\ i # 0
    OBVIOUS
  <2>2. QED
    BY <2>1 DEF Reads
<1>4. QED
  BY <1>2, <1>3

\* An empty queue changes nothing.
LEMMA ReadNothing ==
    ASSUME NEW c
    PROVE  AfterReading(c, <<>>) = c
<1>1. Len(<<>>) = 0
  OBVIOUS
<1>2. Reads(Reading(c, <<>>), c, <<>>, 0)
  BY <1>1, ReadsAll
<1>3. QED
  BY <1>1, <1>2, ReadsStep DEF AfterReading

\* A message sent last is read last.
LEMMA ReadAppend ==
    ASSUME NEW c, NEW S, NEW q \in Seq(S), NEW m
    PROVE  /\ AfterReading(c, Append(q, m)) = Updated(AfterReading(c, q), m)
           /\ \A k \in 0 .. Len(q) : Reading(c, Append(q, m))[k] = Reading(c, q)[k]
<1> DEFINE n == Len(q)
           r == Append(q, m)
<1>1. /\ n \in Nat /\ Len(r) = n + 1 /\ r[n + 1] = m
      /\ \A i \in 1 .. n : r[i] = q[i]
  OBVIOUS
<1> DEFINE f == Reading(c, q)
           g == Reading(c, r)
<1>2. Reads(f, c, q, n) /\ AfterReading(c, q) = f[n]
  BY <1>1, ReadsAll DEF AfterReading
<1>3. Reads(g, c, r, n + 1) /\ AfterReading(c, r) = g[n + 1]
  <2>1. Len(r) \in Nat
    BY <1>1
  <2> HIDE DEF r
  <2>2. QED
    BY <1>1, <2>1, ReadsAll DEF AfterReading
<1> HIDE DEF f, g
<1>4. f[0] = c /\ \A i \in 1 .. n : f[i] = Updated(f[i - 1], q[i])
  BY <1>1, <1>2, ReadsStep
<1>5. g[0] = c /\ \A i \in 1 .. n + 1 : g[i] = Updated(g[i - 1], r[i])
  <2>1. n + 1 \in Nat
    BY <1>1
  <2> HIDE DEF r, n
  <2>2. QED
    BY <2>1, <1>3, ReadsStep
<1> DEFINE Agree == {k \in Nat : k <= n => f[k] = g[k]}
<1>6. 0 \in Agree
  BY <1>4, <1>5
<1>7. ASSUME NEW k \in Nat, k \in Agree PROVE k + 1 \in Agree
  <2>1. SUFFICES ASSUME k + 1 <= n PROVE f[k + 1] = g[k + 1]
    OBVIOUS
  <2>2. k + 1 \in 1 .. n /\ k + 1 \in 1 .. n + 1 /\ (k + 1) - 1 = k /\ k <= n
    BY <1>1, <2>1
  <2> HIDE DEF r, n
  <2>3. f[k + 1] = Updated(f[k], q[k + 1]) /\ g[k + 1] = Updated(g[k], r[k + 1])
    BY <1>4, <1>5, <2>2
  <2>4. f[k] = g[k] /\ r[k + 1] = q[k + 1]
    BY <1>1, <1>7, <2>2
  <2>5. QED
    BY <2>3, <2>4
<1>8. Nat \subseteq Agree
  <2> HIDE DEF Agree
  <2>1. QED
    BY <1>6, <1>7, NatSets
<1>9. f[n] = g[n]
  BY <1>1, <1>8
<1>10. g[n + 1] = Updated(g[n], m)
  <2>1. n + 1 \in 1 .. n + 1 /\ (n + 1) - 1 = n
    BY <1>1
  <2> HIDE DEF r, n
  <2>2. QED
    BY <1>1, <1>5, <2>1
<1>11. QED
  BY <1>1, <1>2, <1>3, <1>8, <1>9, <1>10 DEF f, g

\* Reading the first message now or with the others is the same.
LEMMA ReadHead ==
    ASSUME NEW c, NEW S, NEW q \in Seq(S), q # <<>>
    PROVE  /\ AfterReading(Updated(c, Head(q)), Tail(q)) = AfterReading(c, q)
           /\ \A k \in 0 .. Len(q) - 1 :
                 Reading(Updated(c, Head(q)), Tail(q))[k] = Reading(c, q)[k + 1]
<1> DEFINE n == Len(q)
           d == Updated(c, Head(q))
           r == Tail(q)
<1>1. n \in Nat /\ n > 0 /\ Len(r) = n - 1
  OBVIOUS
<1>2. Head(q) = q[1] /\ \A i \in 1 .. n - 1 : r[i] = q[i + 1]
  OBVIOUS
<1> HIDE DEF r, n
<1> DEFINE f == Reading(c, q)
           g == Reading(d, r)
<1>3. Reads(f, c, q, n) /\ AfterReading(c, q) = f[n]
  BY <1>1, ReadsAll DEF n, AfterReading
<1>4. Reads(g, d, r, n - 1) /\ AfterReading(d, r) = g[n - 1]
  <2>1. Len(r) \in Nat
    BY <1>1
  <2> HIDE DEF d
  <2>2. QED
    BY <1>1, <2>1, ReadsAll DEF AfterReading
<1> HIDE DEF f, g
<1>5. f[0] = c /\ \A i \in 1 .. n : f[i] = Updated(f[i - 1], q[i])
  BY <1>1, <1>3, ReadsStep
<1>6. g[0] = d /\ \A i \in 1 .. n - 1 : g[i] = Updated(g[i - 1], r[i])
  <2>1. n - 1 \in Nat
    BY <1>1
  <2> HIDE DEF d
  <2>2. QED
    BY <2>1, <1>4, ReadsStep
<1> DEFINE Agree == {k \in Nat : k <= n - 1 => g[k] = f[k + 1]}
<1>7. 0 \in Agree
  <2>1. 1 \in 1 .. n /\ 1 - 1 = 0 /\ 0 + 1 = 1
    BY <1>1
  <2>2. f[1] = Updated(f[0], q[1])
    BY <1>5, <2>1
  <2>3. g[0] = f[0 + 1]
    BY <1>2, <1>5, <1>6, <2>1, <2>2
  <2>4. QED
    BY <2>3
<1>8. ASSUME NEW k \in Nat, k \in Agree PROVE k + 1 \in Agree
  <2>1. SUFFICES ASSUME k + 1 <= n - 1 PROVE g[k + 1] = f[(k + 1) + 1]
    OBVIOUS
  <2>2. /\ k + 1 \in 1 .. n - 1 /\ (k + 1) + 1 \in 1 .. n
        /\ (k + 1) - 1 = k /\ ((k + 1) + 1) - 1 = k + 1 /\ k <= n - 1
    BY <1>1, <2>1
  <2> HIDE DEF d
  <2>3. g[k + 1] = Updated(g[k], r[k + 1])
    BY <1>6, <2>2
  <2>4. f[(k + 1) + 1] = Updated(f[k + 1], q[(k + 1) + 1])
    BY <1>5, <2>2
  <2>5. g[k] = f[k + 1] /\ r[k + 1] = q[(k + 1) + 1]
    BY <1>2, <1>8, <2>2
  <2>6. QED
    BY <2>3, <2>4, <2>5
<1>9. Nat \subseteq Agree
  <2> HIDE DEF Agree
  <2>1. QED
    BY <1>7, <1>8, NatSets
<1>10. g[n - 1] = f[(n - 1) + 1] /\ (n - 1) + 1 = n
  BY <1>1, <1>9
<1>11. QED
  BY <1>1, <1>3, <1>4, <1>9, <1>10 DEF r, n, f, g

-----------------------------------------------------------------------------
(* What a tick commits. *)

\* What every outcome of a tick has in common.
OutcomeOK(o) ==
    /\ o.now \in [Entity -> 0 .. MaxVersion]
    /\ o.made \subseteq unborn
    /\ doomed \subseteq o.destroyed /\ o.destroyed \subseteq store
    /\ o.changed \cup o.removed \subseteq store \ o.destroyed
    /\ \A e \in Entity \ ((store \cup o.made) \ o.destroyed) : o.now[e] = Absent
    /\ \A e \in store \ o.destroyed :
          /\ e \in o.changed => o.now[e] = component[e] + 1 /\ e \notin o.removed
          /\ e \in o.removed => o.now[e] = Absent
          /\ e \notin o.changed \cup o.removed => o.now[e] = component[e]

LEMMA PurgedOK ==
    ASSUME TypeOK
    PROVE  /\ Purged \in [Entity -> 0 .. MaxVersion]
           /\ \A e \in Entity : e \in doomed => Purged[e] = Absent
           /\ \A e \in Entity : e \notin doomed => Purged[e] = component[e]
<1>1. component \in [Entity -> 0 .. MaxVersion] /\ Absent \in 0 .. MaxVersion
  BY StreamAssumption DEF TypeOK, Absent
<1>2. QED
  BY <1>1 DEF Purged

LEMMA OutcomesOK ==
    ASSUME TypeOK, NEW o \in Outcomes
    PROVE  OutcomeOK(o)
<1>1. /\ component \in [Entity -> 0 .. MaxVersion]
      /\ store \subseteq Entity /\ doomed \subseteq store
      /\ unborn \subseteq Entity \ store
      /\ \A e \in Entity \ store : component[e] = Absent
      /\ MaxVersion \in Nat \ {0}
  BY StreamAssumption DEF TypeOK
<1>2. /\ Purged \in [Entity -> 0 .. MaxVersion]
      /\ \A e \in Entity : e \in doomed => Purged[e] = Absent
      /\ \A e \in Entity : e \notin doomed => Purged[e] = component[e]
  BY PurgedOK
<1> DEFINE P == Purged
<1>3. /\ P \in [Entity -> 0 .. MaxVersion]
      /\ \A e \in Entity : e \in doomed => P[e] = Absent
      /\ \A e \in Entity : e \notin doomed => P[e] = component[e]
  BY <1>2
<1> HIDE DEF P
<1>4. CASE o = Outcome(P, {}, {}, {}, doomed)
  BY <1>1, <1>3, <1>4 DEF OutcomeOK, Outcome
<1>5. ASSUME NEW e \in Standers, component[e] < MaxVersion,
             o = Outcome([P EXCEPT ![e] = @ + 1], {}, {e}, {}, doomed)
      PROVE  OutcomeOK(o)
  <2>1. e \in Entity /\ e \in store /\ e \notin doomed /\ component[e] + 1 \in 0 .. MaxVersion
    BY <1>1, <1>5 DEF Standers
  <2>2. P[e] = component[e]
    BY <1>3, <2>1
  <2>3. o.now = [P EXCEPT ![e] = component[e] + 1] /\ o.made = {} /\ o.changed = {e}
        /\ o.removed = {} /\ o.destroyed = doomed
    BY <1>5, <2>2 DEF Outcome
  <2>4. o.now \in [Entity -> 0 .. MaxVersion] /\ o.now[e] = component[e] + 1
        /\ \A x \in Entity : x # e => o.now[x] = P[x]
    BY <1>3, <2>1, <2>3
  <2>5. QED
    BY <1>1, <1>3, <2>1, <2>3, <2>4 DEF OutcomeOK
<1>6. ASSUME NEW e \in Standers, o = Outcome([P EXCEPT ![e] = Absent], {}, {}, {e}, doomed)
      PROVE  OutcomeOK(o)
  <2>1. e \in Entity /\ e \in store /\ e \notin doomed /\ Absent \in 0 .. MaxVersion
    BY <1>1, <1>6 DEF Standers, Absent
  <2>2. o.now = [P EXCEPT ![e] = Absent] /\ o.made = {} /\ o.changed = {}
        /\ o.removed = {e} /\ o.destroyed = doomed
    BY <1>6 DEF Outcome
  <2>3. o.now \in [Entity -> 0 .. MaxVersion] /\ o.now[e] = Absent
        /\ \A x \in Entity : x # e => o.now[x] = P[x]
    BY <1>3, <2>1, <2>2
  <2>4. QED
    BY <1>1, <1>3, <2>1, <2>2, <2>3 DEF OutcomeOK
<1>7. ASSUME NEW e \in unborn, o = Outcome([P EXCEPT ![e] = 1], {e}, {}, {}, doomed)
      PROVE  OutcomeOK(o)
  <2>1. e \in Entity /\ e \notin store /\ 1 \in 0 .. MaxVersion
    BY <1>1
  <2>2. o.now = [P EXCEPT ![e] = 1] /\ o.made = {e} /\ o.changed = {}
        /\ o.removed = {} /\ o.destroyed = doomed
    BY <1>7 DEF Outcome
  <2>3. o.now \in [Entity -> 0 .. MaxVersion]
        /\ \A x \in Entity : x # e => o.now[x] = P[x]
    BY <1>3, <2>1, <2>2
  <2>4. QED
    BY <1>1, <1>3, <2>1, <2>2, <2>3 DEF OutcomeOK
<1>8. ASSUME NEW e \in Standers,
             o = Outcome([P EXCEPT ![e] = Absent], {}, {}, {}, doomed \cup {e})
      PROVE  OutcomeOK(o)
  <2>1. e \in Entity /\ e \in store /\ e \notin doomed /\ Absent \in 0 .. MaxVersion
    BY <1>1, <1>8 DEF Standers, Absent
  <2>2. o.now = [P EXCEPT ![e] = Absent] /\ o.made = {} /\ o.changed = {}
        /\ o.removed = {} /\ o.destroyed = doomed \cup {e}
    BY <1>8 DEF Outcome
  <2>3. o.now \in [Entity -> 0 .. MaxVersion] /\ o.now[e] = Absent
        /\ \A x \in Entity : x # e => o.now[x] = P[x]
    BY <1>3, <2>1, <2>2
  <2>4. QED
    BY <1>1, <1>3, <2>1, <2>2, <2>3 DEF OutcomeOK
<1>9. \/ o \in {Quiet} \/ o \in Sets \/ o \in Removals \/ o \in Creations
      \/ o \in Destructions
  BY DEF Outcomes
<1>10. CASE o \in {Quiet}
  BY <1>4, <1>10 DEF Quiet, P
<1>11. CASE o \in Sets
  BY <1>5, <1>11 DEF Sets, P
<1>12. CASE o \in Removals
  BY <1>6, <1>12 DEF Removals, P
<1>13. CASE o \in Creations
  BY <1>7, <1>13 DEF Creations, P
<1>14. CASE o \in Destructions
  BY <1>8, <1>14 DEF Destructions, P
<1>15. QED
  BY <1>9, <1>10, <1>11, <1>12, <1>13, <1>14

-----------------------------------------------------------------------------
(* What a message says, and what it does to the page. *)

Shown == {NotShown, Bare} \cup [version : 0 .. MaxVersion, value : 1 .. MaxVersion]
Fogged == [bitmap : {None} \cup SUBSET Cell, reveals : SUBSET Cell]

\* What the session gets to know was not known, and has a component.
LEMMA KeptOK ==
    ASSUME NEW s, NEW k \in SUBSET Entity, NEW near \in SUBSET Other, NEW d,
           NEW batch \in ChunkBatches(s, k)
    PROVE  /\ Newcomers(s, k, near, batch) \subseteq Entity \ k
           /\ \A e \in Newcomers(s, k, near, batch) : s[e] # Absent /\ e \in InAoI(s, near)
           /\ Kept(s, k, near, batch, d) \subseteq (k \cup Newcomers(s, k, near, batch)) \ d
<1>1. batch \subseteq Standing(s) \ k
  BY DEF ChunkBatches, kSubset
<1>2. Standing(s) \subseteq Entity /\ \A e \in Standing(s) : s[e] # Absent
  BY DEF Standing, Entity
<1>3. {Player} \cup near \subseteq Entity
  BY DEF Entity
<1>4. QED
  BY <1>1, <1>2, <1>3 DEF Newcomers, Kept, InAoI

LEMMA FogPartOK ==
    ASSUME NEW bodied, NEW bitmap \in SUBSET Cell, NEW cells \in SUBSET Cell
    PROVE  FogPart(bodied, bitmap, cells) \in Fogged
BY DEF FogPart, Fogged

LEMMA UpdateOK ==
    ASSUME NEW o, NEW k \in SUBSET Entity, NEW near \in SUBSET Other,
           NEW batch \in ChunkBatches(o.now, k), NEW fogged \in Fogged,
           o.now \in [Entity -> 0 .. MaxVersion],
           \A e \in Entity : e \in o.changed => o.now[e] # Absent
    PROVE  Update(o, k, near, batch, fogged) \in Message
<1> DEFINE new  == Newcomers(o.now, k, near, batch)
           kept == Kept(o.now, k, near, batch, o.destroyed)
           m    == Update(o, k, near, batch, fogged)
<1>1. /\ new \subseteq Entity /\ kept \subseteq Entity
      /\ \A e \in new : o.now[e] # Absent
  BY KeptOK
<1>2. m = [spawns   |-> [e \in new |-> o.now[e]],
           deltas   |-> [e \in (o.changed \cap kept) \ new |-> o.now[e]],
           removals |-> (o.removed \cap kept) \ new,
           destroys |-> (k \cup new) \ kept,
           bitmap   |-> fogged.bitmap,
           reveals  |-> fogged.reveals]
  BY DEF Update
<1> HIDE DEF m, new, kept
<1>3. \A e \in Entity : o.now[e] # Absent => o.now[e] \in 1 .. MaxVersion
  BY StreamAssumption DEF Absent
<1>4. ASSUME NEW D \in SUBSET Entity, \A e \in D : o.now[e] # Absent
      PROVE  [e \in D |-> o.now[e]] \in Told
  <2>1. [e \in D |-> o.now[e]] \in [D -> 1 .. MaxVersion]
    BY <1>3, <1>4
  <2>2. QED
    BY <2>1 DEF Told
<1>5. [e \in new |-> o.now[e]] \in Told
  BY <1>1, <1>4
<1>6. [e \in (o.changed \cap kept) \ new |-> o.now[e]] \in Told
  <2>1. (o.changed \cap kept) \ new \in SUBSET Entity
    BY <1>1
  <2>2. \A e \in (o.changed \cap kept) \ new : o.now[e] # Absent
    BY <1>1
  <2>3. QED
    BY <1>4, <2>1, <2>2
<1>7. (o.removed \cap kept) \ new \in SUBSET Entity /\ (k \cup new) \ kept \in SUBSET Entity
  BY <1>1
<1>8. fogged.bitmap \in {None} \cup SUBSET Cell /\ fogged.reveals \in SUBSET Cell
  BY DEF Fogged
<1>9. m \in Message
  BY <1>2, <1>5, <1>6, <1>7, <1>8 DEF Message
<1>10. QED
  BY <1>9 DEF m

\* A message leaves the page typed.
LEMMA AppliedOK ==
    ASSUME NEW w \in [Entity -> Shown], NEW m \in Message
    PROVE  Applied(w, m) \in [Entity -> Shown]
<1>1. MaxVersion \in Nat
  BY StreamAssumption
<1>2. ASSUME NEW f \in Told, NEW e \in DOMAIN f PROVE f[e] \in 1 .. MaxVersion
  BY <1>2 DEF Told
<1>3. m.spawns \in Told /\ m.deltas \in Told
  BY DEF Message
<1>4. ASSUME NEW e \in Entity, NEW x \in Shown PROVE Spawned(e, x, m) \in Shown
  <2>1. CASE e \in DOMAIN m.spawns
    <3>1. m.spawns[e] \in 1 .. MaxVersion
      BY <1>2, <1>3, <2>1
    <3>2. [version |-> 0, value |-> m.spawns[e]] \in Shown
      BY <1>1, <3>1 DEF Shown
    <3>3. QED
      BY <2>1, <3>2 DEF Spawned
  <2>2. CASE e \notin DOMAIN m.spawns
    BY <2>2 DEF Spawned
  <2>3. QED
    BY <2>1, <2>2
<1>5. ASSUME NEW e \in Entity, NEW x \in Shown PROVE Changed(e, x, m) \in Shown
  <2>1. CASE e \in DOMAIN m.deltas
    <3>1. m.deltas[e] \in 1 .. MaxVersion
      BY <1>2, <1>3, <2>1
    <3>2. [version |-> m.deltas[e], value |-> m.deltas[e]] \in Shown
      BY <1>1, <3>1 DEF Shown
    <3>3. Bare \in Shown
      BY DEF Shown
    <3>4. QED
      BY <2>1, <3>2, <3>3 DEF Changed
  <2>2. CASE e \notin DOMAIN m.deltas
    BY <2>2 DEF Changed
  <2>3. QED
    BY <2>1, <2>2
<1>6. ASSUME NEW e \in Entity, NEW x \in Shown PROVE Removed(e, x, m) \in Shown
  BY <1>6 DEF Removed, Shown
<1>7. ASSUME NEW e \in Entity, NEW x \in Shown PROVE Destroyed(e, x, m) \in Shown
  BY <1>7 DEF Destroyed, Shown
<1>8. \A e \in Entity :
        Destroyed(e, Removed(e, Changed(e, Spawned(e, w[e], m), m), m), m) \in Shown
  BY <1>4, <1>5, <1>6, <1>7
<1>9. QED
  BY <1>8 DEF Applied

LEMMA FogAppliedOK ==
    ASSUME NEW f \in SUBSET Cell, NEW m \in Message
    PROVE  FogApplied(f, m) \in SUBSET Cell
BY DEF FogApplied, Message

-----------------------------------------------------------------------------
(* Type correctness. *)

\* The world after a commit.
LEMMA CommitOK ==
    ASSUME TypeOK, NEW o \in Outcomes, Commit(o)
    PROVE  /\ component' \in [Entity -> 0 .. MaxVersion]
           /\ store' \subseteq Entity
           /\ \A e \in Entity \ store' : component'[e] = Absent
           /\ unborn' \subseteq Entity \ (store' \cup {Player})
           /\ Player \in store' => Player \in store
           /\ \A e \in Entity : e \in o.changed => o.now[e] # Absent
<1>1. OutcomeOK(o)
  BY OutcomesOK
<1>2. /\ component \in [Entity -> 0 .. MaxVersion] /\ MaxVersion \in Nat
      /\ store \subseteq Entity /\ unborn \subseteq Entity \ (store \cup {Player})
  BY StreamAssumption DEF TypeOK
<1>3. component' = o.now /\ store' = (store \cup o.made) \ o.destroyed
      /\ unborn' = unborn \ o.made
  BY DEF Commit
<1>4. \A e \in Entity : e \in o.changed => o.now[e] # Absent
  BY <1>1, <1>2 DEF OutcomeOK, Absent
<1>5. QED
  BY <1>1, <1>2, <1>3, <1>4 DEF OutcomeOK

LEMMA SweptOK ==
    ASSUME NEW closed, Swept(closed)
    PROVE  doomed' \subseteq store' \ Chunk
BY StreamAssumption DEF Swept

LEMMA LitOK ==
    ASSUME NEW cells \in Sight
    PROVE  Lit(cells) \in SUBSET Cell
BY DEF Lit, Sight

LEMMA StopsOK ==
    ASSUME ClientStops
    PROVE  /\ known' \subseteq Entity /\ missed' \subseteq known'
           /\ queue' \in Seq(Message) /\ Len(queue') <= MaxQueue
           /\ mapped' \in SUBSET Cell /\ view' \in [Entity -> Shown]
<1>1. <<>> \in Seq(Message) /\ Len(<<>>) = 0 /\ 0 <= MaxQueue
  BY StreamAssumption
<1>2. NotShown \in Shown
  BY DEF Shown
<1>3. QED
  BY <1>1, <1>2 DEF ClientStops

\* TypeOK, conjunct by conjunct.
LEMMA TypesOK ==
    TypeOK <=>
        /\ component \in [Entity -> 0 .. MaxVersion]
        /\ store \subseteq Entity /\ doomed \subseteq store \ Chunk
        /\ \A e \in Entity \ store : component[e] = Absent
        /\ unborn \subseteq Entity \ (store \cup {Player})
        /\ session \in {"none", "open", "closed"} /\ known \subseteq Entity
        /\ missed \subseteq known
        /\ queue \in Seq(Message) /\ Len(queue) <= MaxQueue
        /\ join \in {"none", "fetching", "ready"} /\ events \in 0 .. MaxEvents
        /\ seen \in SUBSET Cell /\ revealed \in SUBSET Cell /\ saved \in SUBSET Cell
        /\ mapped \in SUBSET Cell /\ pending \in BOOLEAN /\ shipped \in BOOLEAN
        /\ Player \notin store => seen = {} /\ revealed = {} /\ ~pending
        /\ view \in [Entity -> Shown]
BY DEF TypeOK, Shown

LEMMA FogDrainedOK ==
    ASSUME TypeOK, NEW cells \in Sight, FogDrained(cells)
    PROVE  /\ seen' \in SUBSET Cell /\ revealed' \in SUBSET Cell /\ pending' \in BOOLEAN
           /\ shipped' \in BOOLEAN
           /\ Player \notin store' => seen' = {} /\ revealed' = {} /\ ~pending'
<1>1. /\ seen \in SUBSET Cell /\ pending \in BOOLEAN
      /\ shipped \in BOOLEAN /\ Lit(cells) \in SUBSET Cell
  BY TypesOK, LitOK
<1>2. QED
  BY <1>1 DEF FogDrained, Fogless

LEMMA FogGrowsOK ==
    ASSUME TypeOK, NEW cells \in Sight, FogGrows(cells)
    PROVE  /\ seen' \in SUBSET Cell /\ revealed' \in SUBSET Cell /\ pending' \in BOOLEAN
           /\ shipped' \in BOOLEAN
           /\ Player \notin store' => seen' = {} /\ revealed' = {} /\ ~pending'
<1>1. /\ seen \in SUBSET Cell /\ revealed \in SUBSET Cell /\ pending \in BOOLEAN
      /\ shipped \in BOOLEAN /\ Lit(cells) \in SUBSET Cell
  BY TypesOK, LitOK
<1>2. QED
  BY <1>1 DEF FogGrows, Fogless

\* The message a tick sends, with what it takes from the fog.
Telling(o, near, batch, cells) ==
    Update(o, known, near, batch,
           FogPart(Player \in store', seen \cup Lit(cells), revealed \cup Lit(cells)))

LEMMA TellOK ==
    ASSUME NEW o, NEW near, NEW batch, NEW cells, Tell(o, near, batch, cells)
    PROVE  /\ known' = Kept(o.now, known, near, batch, o.destroyed)
           /\ missed' = missed \cap known'
           /\ queue' = Append(queue, Telling(o, near, batch, cells))
           /\ UNCHANGED <<session, view, mapped>>
BY DEF Tell, Telling, Sent

LEMMA ServingTyped ==
    ASSUME TypeOK, TickServing
    PROVE  TypeOK'
<1>1. PICK o \in Outcomes, cells \in Sight :
          /\ Commit(o)
          /\ FogDrained(cells)
          /\ IF Stalled THEN session' = "none" /\ ClientStops
             ELSE \E near \in SUBSET Other, batch \in ChunkBatches(o.now, known) :
                     Tell(o, near, batch, cells)
  BY DEF TickServing
<1>2. /\ component' \in [Entity -> 0 .. MaxVersion] /\ store' \subseteq Entity
      /\ \A e \in Entity \ store' : component'[e] = Absent
      /\ unborn' \subseteq Entity \ (store' \cup {Player})
      /\ \A e \in Entity : e \in o.changed => o.now[e] # Absent
      /\ o.now = component'
  BY <1>1, CommitOK DEF Commit
<1>3. doomed' \subseteq store' \ Chunk
  BY SweptOK DEF TickServing
<1>4. /\ seen' \in SUBSET Cell /\ revealed' \in SUBSET Cell /\ pending' \in BOOLEAN
      /\ shipped' \in BOOLEAN
      /\ Player \notin store' => seen' = {} /\ revealed' = {} /\ ~pending'
  BY <1>1, FogDrainedOK
<1>5. /\ session' \in {"none", "open", "closed"} /\ known' \subseteq Entity
      /\ missed' \subseteq known'
      /\ queue' \in Seq(Message) /\ Len(queue') <= MaxQueue
      /\ mapped' \in SUBSET Cell /\ view' \in [Entity -> Shown]
  <2>1. CASE Stalled
    BY <1>1, <2>1, StopsOK
  <2>2. CASE ~Stalled
    <3>1. PICK near \in SUBSET Other, batch \in ChunkBatches(o.now, known) :
             Tell(o, near, batch, cells)
      BY <1>1, <2>2
    <3> DEFINE m == Telling(o, near, batch, cells)
    <3>2. /\ known' = Kept(o.now, known, near, batch, o.destroyed)
          /\ missed' = missed \cap known'
          /\ queue' = Append(queue, m) /\ UNCHANGED <<session, view, mapped>>
      BY <3>1, TellOK
    <3>3. known \in SUBSET Entity
      BY TypesOK
    <3>4. known' \subseteq Entity
      <4>1. /\ Newcomers(o.now, known, near, batch) \subseteq Entity \ known
            /\ Kept(o.now, known, near, batch, o.destroyed) \subseteq
                  (known \cup Newcomers(o.now, known, near, batch)) \ o.destroyed
        BY <3>3, KeptOK
      <4>2. QED
        BY <3>2, <3>3, <4>1
    <3>5. m \in Message
      <4> DEFINE fogged == FogPart(Player \in store', seen \cup Lit(cells), revealed \cup Lit(cells))
      <4>1. seen \cup Lit(cells) \in SUBSET Cell /\ revealed \cup Lit(cells) \in SUBSET Cell
        BY TypesOK, LitOK
      <4>2. fogged \in Fogged
        BY <4>1, FogPartOK
      <4> HIDE DEF fogged
      <4>3. Update(o, known, near, batch, fogged) \in Message
        BY <1>2, <3>3, <4>2, UpdateOK
      <4>4. QED
        BY <4>3 DEF Telling, fogged
    <3>6. queue \in Seq(Message) /\ Len(queue) < MaxQueue /\ Len(queue) \in Nat
      BY <2>2, TypesOK, StreamAssumption DEF Stalled
    <3> HIDE DEF m
    <3>7. queue' \in Seq(Message) /\ Len(queue') <= MaxQueue
      BY <3>2, <3>5, <3>6, StreamAssumption
    <3>8. QED
      BY <3>2, <3>4, <3>7, TypesOK
  <2>3. QED
    BY <2>1, <2>2
<1>6. UNCHANGED <<join, events, saved>>
  BY DEF TickServing
<1>7. QED
  BY <1>2, <1>3, <1>4, <1>5, <1>6, TypesOK DEF TypeOK, Shown

LEMMA UnservedTyped ==
    ASSUME TypeOK, TickUnserved
    PROVE  TypeOK'
<1>1. PICK o \in Outcomes, cells \in Sight : Commit(o) /\ FogGrows(cells)
  BY DEF TickUnserved
<1>2. /\ component' \in [Entity -> 0 .. MaxVersion] /\ store' \subseteq Entity
      /\ \A e \in Entity \ store' : component'[e] = Absent
      /\ unborn' \subseteq Entity \ (store' \cup {Player})
  BY <1>1, CommitOK
<1>3. doomed' \subseteq store' \ Chunk
  BY SweptOK DEF TickUnserved
<1>4. /\ seen' \in SUBSET Cell /\ revealed' \in SUBSET Cell /\ pending' \in BOOLEAN
      /\ shipped' \in BOOLEAN
      /\ Player \notin store' => seen' = {} /\ revealed' = {} /\ ~pending'
  BY <1>1, FogGrowsOK
<1>5. session' = "none"
      /\ UNCHANGED <<known, missed, queue, join, events, saved, view, mapped>>
  BY DEF TickUnserved
<1>6. QED
  BY <1>2, <1>3, <1>4, <1>5, TypesOK DEF TypeOK, Shown

LEMMA UnsentTyped ==
    ASSUME TypeOK, UnsentTick
    PROVE  TypeOK'
<1>1. PICK o \in Outcomes, cells \in Sight :
          /\ Commit(o)
          /\ FogGrows(cells)
          /\ missed' = missed \cup (known \cap (o.changed \cup o.removed \cup o.destroyed))
  BY DEF UnsentTick
<1>2. /\ component' \in [Entity -> 0 .. MaxVersion] /\ store' \subseteq Entity
      /\ \A e \in Entity \ store' : component'[e] = Absent
      /\ unborn' \subseteq Entity \ (store' \cup {Player})
  BY <1>1, CommitOK
<1>3. /\ seen' \in SUBSET Cell /\ revealed' \in SUBSET Cell /\ pending' \in BOOLEAN
      /\ shipped' \in BOOLEAN
      /\ Player \notin store' => seen' = {} /\ revealed' = {} /\ ~pending'
  BY <1>1, FogGrowsOK
<1>4. events' \in 0 .. MaxEvents
  BY StreamAssumption DEF UnsentTick, TypeOK
<1>5. doomed' = {} /\ UNCHANGED <<session, known, queue, join, saved, view, mapped>>
  BY DEF UnsentTick
<1>6. missed' \subseteq known'
  BY <1>1, <1>5, TypesOK
<1>7. QED
  BY <1>2, <1>3, <1>4, <1>5, <1>6, TypesOK DEF TypeOK, Shown

LEMMA ConnectTyped ==
    ASSUME TypeOK, Connect
    PROVE  TypeOK'
<1>1. events' \in 0 .. MaxEvents
  BY StreamAssumption DEF Connect, TypeOK
<1>2. UNCHANGED <<session, known, missed, queue, saved, view, mapped>> /\ (Adopt \/ SpawnFresh)
  BY DEF Connect
<1>3. CASE Adopt
  BY <1>1, <1>2, <1>3, TypesOK DEF TypeOK, Shown, Adopt, server, fog
<1>4. CASE SpawnFresh
  <2>1. Player \in Entity /\ component[Player] < MaxVersion
        /\ component' = [component EXCEPT ![Player] = @ + 1] /\ store' = store \cup {Player}
        /\ join' = "fetching" /\ UNCHANGED <<doomed, unborn>>
    BY <1>4 DEF SpawnFresh, Entity
  <2>2. component[Player] + 1 \in 0 .. MaxVersion
    BY <2>1, StreamAssumption DEF TypeOK
  <2>3. /\ component' \in [Entity -> 0 .. MaxVersion]
        /\ \A e \in Entity \ store' : component'[e] = Absent
    BY <2>1, <2>2, TypesOK
  <2>4. store' \subseteq Entity /\ doomed' \subseteq store' \ Chunk
        /\ unborn' \subseteq Entity \ (store' \cup {Player})
    BY <2>1, TypesOK
  <2>5. /\ seen' \in SUBSET Cell /\ revealed' \in SUBSET Cell /\ pending' \in BOOLEAN
        /\ shipped' \in BOOLEAN /\ Player \in store'
    BY <1>4, <2>1 DEF SpawnFresh
  <2>6. join' \in {"none", "fetching", "ready"}
    BY <2>1
  <2>7. QED
    BY <1>1, <1>2, <2>3, <2>4, <2>5, <2>6, TypesOK DEF TypeOK, Shown
<1>5. QED
  BY <1>2, <1>3, <1>4

LEMMA HydrateTyped ==
    ASSUME TypeOK, Hydrate
    PROVE  TypeOK'
<1>1. UNCHANGED <<server, session, known, missed, queue, events, revealed, pending, saved>>
      /\ UNCHANGED <<view, mapped>> /\ join' = "ready"
  BY DEF Hydrate
<1>2. /\ seen' \in SUBSET Cell /\ shipped' \in BOOLEAN
      /\ Player \notin store => seen' = {}
  BY TypesOK DEF Hydrate
<1>3. QED
  BY <1>1, <1>2, TypesOK DEF TypeOK, Shown, server

LEMMA RegisterTyped ==
    ASSUME TypeOK, Register
    PROVE  TypeOK'
<1>1. /\ join' = "none" /\ session' = "open"
      /\ pending' = (pending /\ Player \notin store)
      /\ revealed' = IF Player \in store THEN {} ELSE revealed
      /\ shipped' = (Player \in store /\ pending)
      /\ view' = [e \in Entity |-> NotShown]
      /\ mapped' = {}
      /\ UNCHANGED <<server, events, seen, saved>>
  BY DEF Register
<1> DEFINE still  == Outcome(component, {}, {}, {}, {})
           fogged == FogPart(Player \in store, seen, revealed)
<1>2. PICK near \in SUBSET Other, batch \in ChunkBatches(component, {}) :
          /\ known' = Kept(component, {}, near, batch, {}) /\ missed' = {}
          /\ queue' = <<Update(still, {}, near, batch, fogged)>>
  BY DEF Register
<1>3. known' \subseteq Entity
  <2>1. {} \in SUBSET Entity
    OBVIOUS
  <2>2. /\ Newcomers(component, {}, near, batch) \subseteq Entity
        /\ Kept(component, {}, near, batch, {}) \subseteq
              ({} \cup Newcomers(component, {}, near, batch)) \ {}
    BY <1>2, <2>1, KeptOK
  <2>3. QED
    BY <1>2, <2>2
<1>4. /\ still.now = component /\ still.changed = {}
      /\ component \in [Entity -> 0 .. MaxVersion]
  BY TypesOK DEF Outcome
<1>5. fogged \in Fogged
  BY TypesOK, FogPartOK
<1> DEFINE m == Update(still, {}, near, batch, fogged)
<1>6. m \in Message
  <2> HIDE DEF still, fogged
  <2>1. batch \in ChunkBatches(still.now, {})
    BY <1>2, <1>4
  <2>2. QED
    BY <1>4, <1>5, <2>1, UpdateOK
<1> HIDE DEF m
<1>7. queue' \in Seq(Message) /\ Len(queue') <= MaxQueue
  <2>1. queue' = <<m>>
    BY <1>2 DEF m
  <2>2. QED
    BY <1>6, <2>1, StreamAssumption
<1>8. view' \in [Entity -> Shown]
  BY <1>1 DEF Shown
<1>9. QED
  BY <1>1, <1>2, <1>3, <1>7, <1>8, TypesOK DEF TypeOK, Shown, server

LEMMA LeaveTyped ==
    ASSUME TypeOK, Leave
    PROVE  TypeOK'
<1>1. doomed' \subseteq store' \ Chunk
  BY StreamAssumption, TypesOK DEF Leave, Standers
<1>2. saved' \in SUBSET Cell
  BY TypesOK DEF Leave
<1>3. session' = "none" /\ ClientStops /\ UNCHANGED <<component, store, unborn, join, events, fog>>
  BY DEF Leave
<1>4. QED
  BY <1>1, <1>2, <1>3, StopsOK, TypesOK DEF TypeOK, Shown, fog

LEMMA ReceiveTyped ==
    ASSUME TypeOK, Receive
    PROVE  TypeOK'
<1>1. /\ queue # <<>> /\ view' = Applied(view, Head(queue))
      /\ mapped' = FogApplied(mapped, Head(queue)) /\ queue' = Tail(queue)
      /\ UNCHANGED <<server, session, known, missed, join, events, fog, saved>>
  BY DEF Receive
<1>2. /\ Head(queue) \in Message /\ Tail(queue) \in Seq(Message)
      /\ Len(Tail(queue)) = Len(queue) - 1 /\ Len(queue) \in Nat
  <2>1. queue \in Seq(Message)
    BY TypesOK
  <2>2. QED
    BY <1>1, <2>1
<1>3. /\ view' \in [Entity -> Shown] /\ mapped' \in SUBSET Cell
  BY <1>1, <1>2, AppliedOK, FogAppliedOK, TypesOK
<1>4. Len(queue') <= MaxQueue /\ queue' \in Seq(Message)
  BY <1>1, <1>2, TypesOK, StreamAssumption
<1>5. QED
  BY <1>1, <1>3, <1>4, TypesOK DEF TypeOK, Shown, server, fog

LEMMA InitTyped ==
    ASSUME Init
    PROVE  TypeOK
<1>1. store \subseteq Entity /\ unborn \subseteq Entity \ (store \cup {Player})
  BY StreamAssumption DEF Init, Entity
<1>2. /\ component \in [Entity -> 0 .. MaxVersion]
      /\ \A e \in Entity \ store : component[e] = Absent
  BY StreamAssumption DEF Init, Absent
<1>3. queue \in Seq(Message) /\ Len(queue) <= MaxQueue /\ events \in 0 .. MaxEvents
  BY StreamAssumption DEF Init
<1>4. view \in [Entity -> Shown]
  BY DEF Init, Shown
<1>5. QED
  BY <1>1, <1>2, <1>3, <1>4 DEF Init, TypeOK, Shown

LEMMA StepTyped ==
    ASSUME TypeOK, [Next]_vars
    PROVE  TypeOK'
<1>1. CASE Tick
  BY <1>1, ServingTyped, UnservedTyped DEF Tick
<1>2. CASE Connect
  BY <1>2, ConnectTyped
<1>3. CASE Hydrate
  BY <1>3, HydrateTyped
<1>4. CASE Register
  BY <1>4, RegisterTyped
<1>5. CASE WriteFails
  BY <1>5, StopsOK, TypesOK DEF WriteFails, TypeOK, Shown, server, fog
<1>6. CASE Leave
  BY <1>6, LeaveTyped
<1>7. CASE Receive
  BY <1>7, ReceiveTyped
<1>8. CASE UnsentTick
  BY <1>8, UnsentTyped
<1>9. CASE UNCHANGED vars
  BY <1>9, TypesOK DEF TypeOK, Shown, vars, server, fog
<1>10. QED
  BY <1>1, <1>2, <1>3, <1>4, <1>5, <1>6, <1>7, <1>8, <1>9 DEF Next

(* Every variable keeps its type, only what the store holds has a          *)
(* component, and no fog outlives the body it belongs to: for any          *)
(* entities, cells and bounds.                                             *)
THEOREM StreamTypeCorrect == Spec => []TypeOK
<1>1. Init => TypeOK
  BY InitTyped
<1>2. TypeOK /\ [Next]_vars => TypeOK'
  BY StepTyped
<1>3. QED
  BY <1>1, <1>2, PTL DEF Spec

-----------------------------------------------------------------------------
(* What the page shows of one entity after a message. *)

\* What message m says of e, when the session goes from knowing k to kept.
Effects(w, o, k, new, kept, m, e) ==
    /\ kept \subseteq k \cup new /\ new \cap k = {}
    /\ e \in (k \cup new) \ kept => Applied(w, m)[e] = NotShown
    /\ e \notin k \cup new => Applied(w, m)[e] = w[e]
    /\ e \in new \cap kept => Applied(w, m)[e] = [version |-> 0, value |-> o.now[e]]
    /\ (e \in (kept \cap o.changed) \ (new \cup o.removed)
        /\ w[e] # NotShown /\ o.now[e] > w[e].version)
       => Applied(w, m)[e] = [version |-> o.now[e], value |-> o.now[e]]
    /\ (e \in (kept \cap o.changed) \ (new \cup o.removed)
        /\ w[e] # NotShown /\ ~(o.now[e] > w[e].version))
       => Applied(w, m)[e] = w[e]
    /\ (e \in (kept \cap o.removed) \ (new \cup o.changed) /\ w[e] # NotShown)
       => Applied(w, m)[e] = Bare
    /\ e \in kept \ (new \cup o.changed \cup o.removed) => Applied(w, m)[e] = w[e]

LEMMA Effect ==
    ASSUME NEW w, NEW o, NEW k \in SUBSET Entity, NEW near \in SUBSET Other,
           NEW batch \in ChunkBatches(o.now, k), NEW fogged, NEW e \in Entity,
           NEW new, new = Newcomers(o.now, k, near, batch),
           NEW kept, kept = Kept(o.now, k, near, batch, o.destroyed),
           NEW m, m = Update(o, k, near, batch, fogged)
    PROVE  Effects(w, o, k, new, kept, m, e)
<1>0. new \cap k = {}
  <2>1. Newcomers(o.now, k, near, batch) \subseteq Entity \ k
    BY KeptOK
  <2>2. QED
    BY <2>1
<1>1. kept \subseteq k \cup new
  BY KeptOK
<1>2. /\ m.spawns = [x \in new |-> o.now[x]]
      /\ m.deltas = [x \in (o.changed \cap kept) \ new |-> o.now[x]]
      /\ m.removals = (o.removed \cap kept) \ new
      /\ m.destroys = (k \cup new) \ kept
  BY DEF Update
<1>3. Applied(w, m)[e] = Destroyed(e, Removed(e, Changed(e, Spawned(e, w[e], m), m), m), m)
  BY DEF Applied
<1>4. CASE e \in (k \cup new) \ kept
  <2>1. Applied(w, m)[e] = NotShown
    BY <1>2, <1>3, <1>4 DEF Destroyed
  <2>2. QED
    BY <1>0, <1>1, <1>4, <2>1 DEF Effects
<1>5. CASE e \notin (k \cup new) \ kept
  <2>1. Applied(w, m)[e] = Removed(e, Changed(e, Spawned(e, w[e], m), m), m)
    BY <1>2, <1>3, <1>5 DEF Destroyed
  <2>2. CASE e \in new
    <3>1. Spawned(e, w[e], m) = [version |-> 0, value |-> o.now[e]]
      BY <1>2, <2>2 DEF Spawned
    <3>2. e \notin DOMAIN m.deltas /\ e \notin m.removals
      BY <1>2, <2>2
    <3>3. Applied(w, m)[e] = [version |-> 0, value |-> o.now[e]]
      BY <2>1, <3>1, <3>2 DEF Changed, Removed
    <3>4. QED
      BY <1>0, <1>1, <1>5, <2>2, <3>3 DEF Effects
  <2>3. CASE e \notin new
    <3>1. Spawned(e, w[e], m) = w[e]
      BY <1>2, <2>3 DEF Spawned
    <3>2. CASE e \notin o.changed \/ e \notin kept
      <4>1. e \notin DOMAIN m.deltas
        BY <1>2, <3>2
      <4>2. Applied(w, m)[e] = Removed(e, w[e], m)
        BY <2>1, <3>1, <4>1 DEF Changed
      <4>3. QED
        BY <1>0, <1>1, <1>2, <1>5, <2>3, <3>2, <4>2 DEF Removed, Effects
    <3>3. CASE e \in o.changed /\ e \in kept
      <4>1. SUFFICES ASSUME e \notin o.removed, w[e] # NotShown
                     PROVE  Applied(w, m)[e] = IF o.now[e] > w[e].version
                               THEN [version |-> o.now[e], value |-> o.now[e]] ELSE w[e]
        BY <1>0, <1>1, <1>5, <2>3, <3>3 DEF Effects
      <4>2. e \in DOMAIN m.deltas /\ m.deltas[e] = o.now[e] /\ e \notin m.removals
        BY <1>2, <2>3, <3>3, <4>1
      <4>3. Changed(e, w[e], m) = IF o.now[e] > w[e].version
               THEN [version |-> o.now[e], value |-> o.now[e]] ELSE w[e]
        BY <4>1, <4>2 DEF Changed
      <4>4. QED
        BY <2>1, <3>1, <4>2, <4>3 DEF Removed
    <3>4. QED
      BY <3>2, <3>3
  <2>4. QED
    BY <2>2, <2>3
<1>6. QED
  BY <1>4, <1>5

-----------------------------------------------------------------------------
(* The page after all that is on its way. *)

LEMMA CaughtUpSame ==
    ASSUME UNCHANGED <<queue, view, mapped>>
    PROVE  CaughtUp' = CaughtUp
BY DEF CaughtUp, Page

LEMMA CaughtUpSent ==
    ASSUME TypeOK, NEW m, queue' = Append(queue, m), UNCHANGED <<view, mapped>>
    PROVE  CaughtUp' = Updated(CaughtUp, m)
<1>1. queue \in Seq(Message)
  BY TypesOK
<1>2. Page' = Page
  BY DEF Page
<1>3. AfterReading(Page, Append(queue, m)) = Updated(AfterReading(Page, queue), m)
  BY <1>1, ReadAppend
<1>4. QED
  BY <1>2, <1>3 DEF CaughtUp

LEMMA CaughtUpFirst ==
    ASSUME NEW m, queue' = <<m>>
    PROVE  CaughtUp' = Updated(Page', m)
<1>1. <<>> \in Seq({m}) /\ <<m>> = Append(<<>>, m)
  OBVIOUS
<1>2. ASSUME NEW c PROVE AfterReading(c, <<m>>) = Updated(c, m)
  <2>1. AfterReading(c, Append(<<>>, m)) = Updated(AfterReading(c, <<>>), m)
    BY <1>1, ReadAppend
  <2>2. AfterReading(c, <<>>) = c
    BY ReadNothing
  <2>3. QED
    BY <1>1, <2>1, <2>2
<1>3. QED
  BY <1>2 DEF CaughtUp

LEMMA CaughtUpRead ==
    ASSUME TypeOK, Receive
    PROVE  CaughtUp' = CaughtUp
<1>1. queue \in Seq(Message) /\ queue # <<>>
  BY TypesOK DEF Receive
<1>2. Page' = Updated(Page, Head(queue)) /\ queue' = Tail(queue)
  BY DEF Receive, Page, Updated
<1>3. AfterReading(Updated(Page, Head(queue)), Tail(queue)) = AfterReading(Page, queue)
  BY <1>1, ReadHead
<1>4. QED
  BY <1>2, <1>3 DEF CaughtUp

-----------------------------------------------------------------------------
(* The mirror.  While a session is served, everything it knows has a place *)
(* on the caught-up page and nothing else has; and what it has missed no   *)
(* change of is in the store, and the page has the server's value of it    *)
(* under a version the next write will pass.                               *)

Placed(shown) == shown \in [version : Int, value : Int]

Faces(shown, value) ==
    /\ Placed(shown)
    /\ shown.value = value /\ shown.version <= value

MirrorInv ==
    IF session = "open"
    THEN /\ known \ missed \subseteq store
         /\ \A e \in Entity \ known : CaughtUp.view[e] = NotShown
         /\ \A e \in known : Placed(CaughtUp.view[e])
         /\ \A e \in known \ (doomed \cup missed) : Faces(CaughtUp.view[e], component[e])
    ELSE known = {}

LEMMA PlacedShown ==
    ASSUME NEW shown, Placed(shown)
    PROVE  shown # NotShown
BY StreamAssumption DEF Placed, NotShown

LEMMA FacesShown ==
    ASSUME NEW shown, NEW value, Faces(shown, value)
    PROVE  shown # NotShown /\ shown.value = value
BY PlacedShown DEF Faces

\* One message keeps one entity in step.
LEMMA MessageFaces ==
    ASSUME NEW w, NEW o, NEW k, NEW new, NEW kept, NEW m, NEW e,
           Effects(w, o, k, new, kept, m, e),
           NEW old, o.now[e] \in Nat, old \in Nat,
           e \notin k => w[e] = NotShown,
           e \in k \cap kept => Faces(w[e], old),
           e \in k \cap kept => /\ e \in o.changed => o.now[e] = old + 1 /\ e \notin o.removed
                                /\ e \in o.removed => o.now[e] = Absent
                                /\ e \notin o.changed \cup o.removed => o.now[e] = old
    PROVE  /\ e \notin kept => Applied(w, m)[e] = NotShown
           /\ e \in kept => Faces(Applied(w, m)[e], o.now[e])
<1>1. kept \subseteq (k \cup new) /\ new \cap k = {}
  BY DEF Effects
<1>2. /\ e \in (k \cup new) \ kept => Applied(w, m)[e] = NotShown
      /\ e \notin k \cup new => Applied(w, m)[e] = w[e]
      /\ e \in new \cap kept => Applied(w, m)[e] = [version |-> 0, value |-> o.now[e]]
      /\ (e \in (kept \cap o.changed) \ (new \cup o.removed)
          /\ w[e] # NotShown /\ o.now[e] > w[e].version)
         => Applied(w, m)[e] = [version |-> o.now[e], value |-> o.now[e]]
      /\ (e \in (kept \cap o.removed) \ (new \cup o.changed) /\ w[e] # NotShown)
         => Applied(w, m)[e] = Bare
      /\ e \in kept \ (new \cup o.changed \cup o.removed) => Applied(w, m)[e] = w[e]
  BY DEF Effects
<1>3. CASE e \notin kept
  BY <1>1, <1>2, <1>3
<1>4. CASE e \in kept /\ e \in new
  BY <1>2, <1>4 DEF Faces, Placed
<1>5. CASE e \in kept /\ e \notin new
  <2>1. e \in k \cap kept /\ Faces(w[e], old) /\ w[e] # NotShown
    BY <1>1, <1>5, FacesShown
  <2>2. CASE e \in o.changed
    <3>1. o.now[e] > w[e].version
      BY <2>1, <2>2 DEF Faces, Placed
    <3>2. Applied(w, m)[e] = [version |-> o.now[e], value |-> o.now[e]]
      BY <1>2, <1>5, <2>1, <2>2, <3>1
    <3>3. QED
      BY <1>5, <3>2 DEF Faces, Placed
  <2>3. CASE e \in o.removed
    <3>1. Applied(w, m)[e] = Bare /\ o.now[e] = Absent
      BY <1>2, <1>5, <2>1, <2>3
    <3>2. QED
      BY <1>5, <3>1 DEF Faces, Placed, Bare, Absent
  <2>4. CASE e \notin o.changed \cup o.removed
    BY <1>2, <1>5, <2>1, <2>4
  <2>5. QED
    BY <2>2, <2>3, <2>4
<1>6. QED
  BY <1>3, <1>4, <1>5

\* One message leaves one entity, whatever was missed of it, as the page had it
\* or brings it up to date.
LEMMA MissedFaces ==
    ASSUME NEW w, NEW o, NEW k, NEW new, NEW kept, NEW m, NEW e,
           Effects(w, o, k, new, kept, m, e), e \in k \cap kept,
           Placed(w[e]), o.now[e] \in Nat,
           e \in o.changed => e \notin o.removed,
           e \in o.removed => o.now[e] = Absent
    PROVE  /\ Placed(Applied(w, m)[e])
           /\ Applied(w, m)[e].value \in {w[e].value, o.now[e]}
<1>1. e \notin new /\ w[e] # NotShown
  BY PlacedShown DEF Effects
<1>2. CASE e \in o.changed
  <2>1. \/ Applied(w, m)[e] = [version |-> o.now[e], value |-> o.now[e]]
        \/ Applied(w, m)[e] = w[e]
    BY <1>1, <1>2 DEF Effects
  <2>2. QED
    BY <2>1 DEF Placed
<1>3. CASE e \in o.removed
  <2>1. Applied(w, m)[e] = Bare /\ o.now[e] = Absent
    BY <1>1, <1>3 DEF Effects
  <2>2. QED
    BY <2>1 DEF Placed, Bare
<1>4. CASE e \notin o.changed \cup o.removed
  BY <1>1, <1>4 DEF Effects
<1>5. QED
  BY <1>2, <1>3, <1>4

\* What a message leaves of the mirror; what was missed stays as it was on the
\* caught-up page, or is made up for.
LEMMA ServingMirrors ==
    ASSUME TypeOK, MirrorInv, TickServing
    PROVE  /\ MirrorInv'
           /\ session' = "open" =>
                 \A e \in missed' :
                    CaughtUp'.view[e].value \in {CaughtUp.view[e].value, component'[e]}
<1>1. PICK o \in Outcomes, cells \in Sight :
          /\ Commit(o)
          /\ IF Stalled THEN session' = "none" /\ ClientStops
             ELSE \E near \in SUBSET Other, batch \in ChunkBatches(o.now, known) :
                     Tell(o, near, batch, cells)
  BY DEF TickServing
<1>2. CASE Stalled
  BY <1>1, <1>2 DEF MirrorInv, ClientStops
<1>3. CASE ~Stalled
  <2>1. PICK near \in SUBSET Other, batch \in ChunkBatches(o.now, known) :
           Tell(o, near, batch, cells)
    BY <1>1, <1>3
  <2> DEFINE fogged == FogPart(Player \in store', seen \cup Lit(cells), revealed \cup Lit(cells))
             m == Update(o, known, near, batch, fogged)
             w == CaughtUp.view
             new == Newcomers(o.now, known, near, batch)
  <2>2. /\ session = "open" /\ session' = "open" /\ doomed' = {}
        /\ known' = Kept(o.now, known, near, batch, o.destroyed)
        /\ missed' = missed \cap known'
        /\ CaughtUp' = Updated(CaughtUp, m)
    BY <1>3, <2>1, TellOK, CaughtUpSent DEF TickServing, Swept, Telling
  <2>3. CaughtUp'.view = Applied(w, m)
    BY <2>2 DEF Updated
  <2>4. OutcomeOK(o) /\ component' = o.now /\ store' = (store \cup o.made) \ o.destroyed
    BY <1>1, OutcomesOK DEF Commit
  <2>5. /\ known \in SUBSET Entity /\ known \ missed \subseteq store /\ missed \subseteq known
        /\ store \subseteq Entity
        /\ component \in [Entity -> 0 .. MaxVersion] /\ o.now \in [Entity -> 0 .. MaxVersion]
        /\ MaxVersion \in Nat
        /\ \A e \in Entity \ known : w[e] = NotShown
        /\ \A e \in known : Placed(w[e])
        /\ \A e \in known \ (doomed \cup missed) : Faces(w[e], component[e])
    BY <2>2, <2>4, TypesOK, StreamAssumption DEF MirrorInv, OutcomeOK
  <2>6. known' \subseteq (known \cup new) \ o.destroyed
        /\ \A e \in new : e \in Entity /\ e \notin known /\ o.now[e] # Absent
    <3>1. known \in SUBSET Entity
      BY <2>5
    <3>2. /\ Newcomers(o.now, known, near, batch) \subseteq Entity \ known
          /\ \A e \in Newcomers(o.now, known, near, batch) : o.now[e] # Absent
          /\ Kept(o.now, known, near, batch, o.destroyed) \subseteq
                (known \cup Newcomers(o.now, known, near, batch)) \ o.destroyed
      BY <3>1, KeptOK
    <3>3. QED
      BY <2>2, <3>2
  <2>7. known' \ missed' \subseteq store'
    <3> HIDE DEF new
    <3>1. QED
      BY <2>2, <2>4, <2>5, <2>6 DEF OutcomeOK
  <2> DEFINE kk == known'
  <2>8. ASSUME NEW e \in Entity PROVE Effects(w, o, known, new, kk, m, e)
    <3>1. known \in SUBSET Entity /\ kk = Kept(o.now, known, near, batch, o.destroyed)
      BY <2>2, <2>5
    <3> HIDE DEF w, kk, fogged
    <3>2. QED
      BY <3>1, Effect
  <2>9. ASSUME NEW e \in Entity
        PROVE  /\ e \in o.changed \/ e \in o.removed => e \in store \ o.destroyed
               /\ e \in store \ o.destroyed =>
                    /\ e \in o.changed => o.now[e] = component[e] + 1 /\ e \notin o.removed
                    /\ e \in o.removed => o.now[e] = Absent
                    /\ e \notin o.changed \cup o.removed => o.now[e] = component[e]
    BY <2>4 DEF OutcomeOK
  <2>10. ASSUME NEW e \in Entity, e \notin missed'
         PROVE  /\ e \notin known' => Applied(w, m)[e] = NotShown
                /\ e \in known' => Faces(Applied(w, m)[e], o.now[e])
    <3>1. o.now[e] \in Nat /\ component[e] \in Nat
      BY <2>5
    <3>2. e \notin known => w[e] = NotShown
      BY <2>5
    <3>3. e \in known \cap known' => e \notin missed /\ e \in store \ o.destroyed
                                     /\ e \notin doomed
      <4> HIDE DEF new
      <4>1. QED
        BY <2>2, <2>4, <2>5, <2>6, <2>10 DEF OutcomeOK
    <3> DEFINE old == component[e]
    <3>4. old \in Nat
      BY <3>1
    <3>5. /\ e \in known \cap kk => Faces(w[e], old)
          /\ e \in known \cap kk =>
                /\ e \in o.changed => o.now[e] = old + 1 /\ e \notin o.removed
                /\ e \in o.removed => o.now[e] = Absent
                /\ e \notin o.changed \cup o.removed => o.now[e] = old
      BY <2>5, <2>9, <3>3
    <3>6. Effects(w, o, known, new, kk, m, e)
      BY <2>8
    <3> HIDE DEF w, m, kk, new, old
    <3>7. /\ e \notin kk => Applied(w, m)[e] = NotShown
          /\ e \in kk => Faces(Applied(w, m)[e], o.now[e])
      BY <3>1, <3>2, <3>4, <3>5, <3>6, MessageFaces
    <3>8. QED
      BY <3>7 DEF kk
  <2>11. ASSUME NEW e \in missed'
         PROVE  /\ Placed(Applied(w, m)[e])
                /\ Applied(w, m)[e].value \in {w[e].value, o.now[e]}
    <3>1. e \in Entity /\ e \in known \cap kk
      BY <2>2, <2>5
    <3>2. Placed(w[e]) /\ o.now[e] \in Nat
      BY <2>5, <3>1
    <3>3. /\ e \in o.changed => e \notin o.removed
          /\ e \in o.removed => o.now[e] = Absent
      BY <2>9, <3>1
    <3>4. Effects(w, o, known, new, kk, m, e)
      BY <2>8, <3>1
    <3> HIDE DEF w, m, kk, new
    <3>5. QED
      BY <3>1, <3>2, <3>3, <3>4, MissedFaces
  <2>12. known' \subseteq Entity
    BY <2>5, <2>6
  <2> HIDE DEF m, new, kk
  <2>13. \A e \in Entity \ known' : CaughtUp'.view[e] = NotShown
    <3> HIDE DEF w
    <3>1. QED
      BY <2>2, <2>3, <2>10
  <2>14. \A e \in known' \ missed' : Faces(CaughtUp'.view[e], component'[e])
    <3> HIDE DEF w
    <3>1. QED
      BY <2>3, <2>4, <2>10, <2>12
  <2>15. \A e \in known' : Placed(CaughtUp'.view[e])
    <3> HIDE DEF w
    <3>1. QED
      BY <2>3, <2>11, <2>14 DEF Faces
  <2>16. \A e \in missed' :
            CaughtUp'.view[e].value \in {CaughtUp.view[e].value, component'[e]}
    BY <2>3, <2>4, <2>11
  <2>17. QED
    BY <2>2, <2>7, <2>13, <2>14, <2>15, <2>16 DEF MirrorInv
<1>4. QED
  BY <1>2, <1>3

LEMMA RegisterMirrors ==
    ASSUME TypeOK, Register
    PROVE  /\ MirrorInv'
           /\ \A e \in Entity : IF e \in known' THEN Faces(CaughtUp'.view[e], component'[e])
                                ELSE CaughtUp'.view[e] = NotShown
<1> DEFINE still  == Outcome(component, {}, {}, {}, {})
           fogged == FogPart(Player \in store, seen, revealed)
<1>1. PICK near \in SUBSET Other, batch \in ChunkBatches(component, {}) :
          /\ known' = Kept(component, {}, near, batch, {}) /\ missed' = {}
          /\ queue' = <<Update(still, {}, near, batch, fogged)>>
  BY DEF Register
<1> DEFINE new == Newcomers(component, {}, near, batch)
           m   == Update(still, {}, near, batch, fogged)
           w   == [e \in Entity |-> NotShown]
<1>2. UNCHANGED <<component, store, doomed>> /\ view' = w /\ session' = "open"
  BY DEF Register, server
<1>3. CaughtUp'.view = Applied(w, m)
  <2>1. Page'.view = w
    BY <1>2 DEF Page
  <2> HIDE DEF m, w
  <2>2. CaughtUp' = Updated(Page', m)
    BY <1>1, CaughtUpFirst DEF m
  <2>3. QED
    BY <2>1, <2>2 DEF Updated
<1>4. /\ still.now = component /\ still.changed = {} /\ still.removed = {}
      /\ still.destroyed = {}
  BY DEF Outcome
<1>5. {} \in SUBSET Entity
  OBVIOUS
<1>6. /\ new \subseteq Entity /\ known' \subseteq new
      /\ \A e \in new : component[e] # Absent
  <2>1. /\ Newcomers(component, {}, near, batch) \subseteq Entity \ {}
        /\ \A e \in Newcomers(component, {}, near, batch) : component[e] # Absent
        /\ Kept(component, {}, near, batch, {}) \subseteq
              ({} \cup Newcomers(component, {}, near, batch)) \ {}
    BY <1>1, <1>5, KeptOK
  <2>2. QED
    BY <1>1, <2>1
<1>7. known' \subseteq store'
  <2>1. \A e \in Entity \ store : component[e] = Absent
    BY TypesOK
  <2> HIDE DEF new
  <2>2. QED
    BY <1>2, <1>6, <2>1
<1>8. ASSUME NEW e \in Entity
      PROVE  /\ e \notin known' => Applied(w, m)[e] = NotShown
             /\ e \in known' => Faces(Applied(w, m)[e], component[e])
  <2> DEFINE kk == known'
             nothing == {}
             old == component[e]
             o == still
  <2>1. /\ kk = Kept(o.now, nothing, near, batch, o.destroyed)
        /\ new = Newcomers(o.now, nothing, near, batch)
        /\ m = Update(o, nothing, near, batch, fogged)
        /\ batch \in ChunkBatches(o.now, nothing) /\ nothing \in SUBSET Entity
    BY <1>1, <1>4
  <2>2. w[e] = NotShown /\ old \in Nat /\ o.now[e] = old
    BY <1>4, TypesOK, StreamAssumption
  <2>3. \A x \in nothing : FALSE
    OBVIOUS
  <2> HIDE DEF w, m, new, kk, nothing, old, o, fogged, still
  <2>4. Effects(w, o, nothing, new, kk, m, e)
    BY <2>1, Effect
  <2>5. /\ e \notin kk => Applied(w, m)[e] = NotShown
        /\ e \in kk => Faces(Applied(w, m)[e], o.now[e])
    BY <2>2, <2>3, <2>4, MessageFaces
  <2>6. QED
    BY <2>2, <2>5 DEF kk, old
<1> HIDE DEF w, m, new
<1>9. known' \subseteq Entity
  BY <1>6
<1>10. \A e \in Entity \ known' : CaughtUp'.view[e] = NotShown
  BY <1>3, <1>8
<1>11. \A e \in known' : Faces(CaughtUp'.view[e], component'[e])
  BY <1>2, <1>3, <1>8, <1>9
<1>12. \A e \in known' : Placed(CaughtUp'.view[e])
  BY <1>11 DEF Faces
<1>13. QED
  BY <1>1, <1>2, <1>3, <1>7, <1>8, <1>10, <1>11, <1>12 DEF MirrorInv

LEMMA ConnectMirrors ==
    ASSUME TypeOK, MirrorInv, Connect
    PROVE  MirrorInv'
<1>1. UNCHANGED <<session, known, missed, queue, view, mapped>> /\ (Adopt \/ SpawnFresh)
  BY DEF Connect
<1>2. CaughtUp' = CaughtUp
  BY <1>1, CaughtUpSame
<1>3. CASE Adopt
  BY <1>1, <1>2, <1>3 DEF MirrorInv, Adopt, server
<1>4. CASE SpawnFresh
  <2>1. /\ Player \notin store \/ Player \in doomed
        /\ component' = [component EXCEPT ![Player] = @ + 1]
        /\ store' = store \cup {Player} /\ doomed' = doomed
    BY <1>4 DEF SpawnFresh, Standers
  <2>2. component \in [Entity -> 0 .. MaxVersion] /\ known \subseteq Entity
    BY TypesOK
  <2>3. CASE session # "open"
    BY <1>1, <2>3 DEF MirrorInv
  <2>4. CASE session = "open"
    <3>1. /\ known \ missed \subseteq store
          /\ \A e \in Entity \ known : CaughtUp.view[e] = NotShown
          /\ \A e \in known : Placed(CaughtUp.view[e])
          /\ \A e \in known \ (doomed \cup missed) : Faces(CaughtUp.view[e], component[e])
      BY <2>4 DEF MirrorInv
    <3>2. \A e \in known \ (doomed \cup missed) : e # Player /\ component'[e] = component[e]
      BY <2>1, <2>2, <3>1
    <3>3. \A e \in known \ (doomed \cup missed) : Faces(CaughtUp.view[e], component'[e])
      BY <3>1, <3>2
    <3>4. QED
      BY <1>1, <1>2, <2>1, <2>4, <3>1, <3>3 DEF MirrorInv
  <2>5. QED
    BY <2>3, <2>4
<1>5. QED
  BY <1>1, <1>3, <1>4

\* What a tick without a message did not do to an entity the session knows.
LEMMA UnsentChanges ==
    ASSUME TypeOK, MirrorInv, session = "open", UnsentTick
    PROVE  \A e \in known \ missed' :
              e \notin missed \cup doomed /\ e \in store' /\ component'[e] = component[e]
<1>1. PICK o \in Outcomes :
          /\ Commit(o)
          /\ missed' = missed \cup (known \cap (o.changed \cup o.removed \cup o.destroyed))
  BY DEF UnsentTick
<1>2. OutcomeOK(o) /\ component' = o.now /\ store' = (store \cup o.made) \ o.destroyed
  BY <1>1, OutcomesOK DEF Commit
<1>3. known \subseteq Entity /\ known \ missed \subseteq store
  BY TypesOK DEF MirrorInv
<1>4. ASSUME NEW e \in known \ missed'
      PROVE  e \notin missed \cup doomed /\ e \in store' /\ component'[e] = component[e]
  <2>1. e \notin missed /\ e \notin o.changed \cup o.removed /\ e \notin o.destroyed
    BY <1>1
  <2>2. e \in store \ o.destroyed
    BY <1>3, <2>1
  <2>3. QED
    BY <1>2, <2>1, <2>2 DEF OutcomeOK
<1>5. QED
  BY <1>4

LEMMA UnsentMirrors ==
    ASSUME TypeOK, MirrorInv, UnsentTick
    PROVE  MirrorInv'
<1>1. UNCHANGED <<session, known, queue, view, mapped>>
  BY DEF UnsentTick
<1>2. CaughtUp' = CaughtUp
  BY <1>1, CaughtUpSame
<1>3. CASE session # "open"
  BY <1>1, <1>3 DEF MirrorInv
<1>4. CASE session = "open"
  <2>1. \A e \in known \ missed' :
           e \notin missed \cup doomed /\ e \in store' /\ component'[e] = component[e]
    BY <1>4, UnsentChanges
  <2>2. /\ \A e \in Entity \ known : CaughtUp.view[e] = NotShown
        /\ \A e \in known : Placed(CaughtUp.view[e])
        /\ \A e \in known \ (doomed \cup missed) : Faces(CaughtUp.view[e], component[e])
    BY <1>4 DEF MirrorInv
  <2>3. \A e \in known \ missed' : Faces(CaughtUp.view[e], component'[e])
    BY <2>1, <2>2
  <2>4. QED
    BY <1>1, <1>2, <1>4, <2>1, <2>2, <2>3 DEF MirrorInv
<1>5. QED
  BY <1>3, <1>4

LEMMA StepMirrors ==
    ASSUME TypeOK, MirrorInv, [Next]_vars
    PROVE  MirrorInv'
<1>1. CASE TickServing
  BY <1>1, ServingMirrors
<1>2. CASE TickUnserved
  BY <1>2 DEF TickUnserved, MirrorInv
<1>3. CASE Connect
  BY <1>3, ConnectMirrors
<1>4. CASE Hydrate
  <2>1. UNCHANGED <<component, store, doomed, session, known, missed, queue, view, mapped>>
    BY <1>4 DEF Hydrate, server
  <2>2. QED
    BY <2>1, CaughtUpSame DEF MirrorInv
<1>5. CASE Register
  BY <1>5, RegisterMirrors
<1>6. CASE WriteFails \/ Leave
  BY <1>6 DEF WriteFails, Leave, MirrorInv, ClientStops
<1>7. CASE Receive
  <2>1. UNCHANGED <<component, store, doomed, session, known, missed>>
    BY <1>7 DEF Receive, server
  <2>2. QED
    BY <1>7, <2>1, CaughtUpRead DEF MirrorInv
<1>8. CASE UnsentTick
  BY <1>8, UnsentMirrors
<1>9. CASE UNCHANGED vars
  <2>1. UNCHANGED <<component, store, doomed, session, known, missed, queue, view, mapped>>
    BY <1>9 DEF vars, server
  <2>2. QED
    BY <2>1, CaughtUpSame DEF MirrorInv
<1>10. QED
  BY <1>1, <1>2, <1>3, <1>4, <1>5, <1>6, <1>7, <1>8, <1>9 DEF Next, Tick

(* A client that has read all it was sent shows exactly the entities its   *)
(* session knows, each with the server's component unless a tick that      *)
(* threw changed it: for any entities, near sets, chunk caps and queue     *)
(* bounds, whatever is written, removed, made or destroyed between its     *)
(* messages.                                                               *)
THEOREM StreamMirrors == Spec => []Mirror
<1>1. Init => MirrorInv
  BY DEF Init, MirrorInv
<1>2. TypeOK /\ MirrorInv /\ [Next]_vars => MirrorInv'
  BY StepMirrors
<1>3. TypeOK /\ MirrorInv => Mirror
  <2>1. SUFFICES ASSUME MirrorInv, session = "open", NEW e \in Entity \ doomed
                 PROVE  IF e \in known
                        THEN /\ CaughtUp.view[e] # NotShown
                             /\ e \in missed \/ CaughtUp.view[e].value = component[e]
                        ELSE CaughtUp.view[e] = NotShown
    BY DEF Mirror
  <2>2. e \in known => CaughtUp.view[e] # NotShown
    BY <2>1, PlacedShown DEF MirrorInv
  <2>3. e \in known \ missed => CaughtUp.view[e].value = component[e]
    BY <2>1, FacesShown DEF MirrorInv
  <2>4. e \notin known => CaughtUp.view[e] = NotShown
    BY <2>1 DEF MirrorInv
  <2>5. QED
    BY <2>2, <2>3, <2>4
<1>4. QED
  BY <1>1, <1>2, <1>3, StreamTypeCorrect, PTL DEF Spec

-----------------------------------------------------------------------------
(* The fog. *)

\* A body can only come with a connection.
LEMMA ServingFog ==
    ASSUME TypeOK, FogMirrors, TickServing
    PROVE  FogMirrors'
<1>1. PICK o \in Outcomes, cells \in Sight :
          /\ Commit(o)
          /\ FogDrained(cells)
          /\ IF Stalled THEN session' = "none" /\ ClientStops
             ELSE \E near \in SUBSET Other, batch \in ChunkBatches(o.now, known) :
                     Tell(o, near, batch, cells)
  BY DEF TickServing
<1>2. SUFFICES ASSUME session' = "open", shipped', Player \in store'
               PROVE  CaughtUp'.mapped \cup revealed' = seen'
  BY DEF FogMirrors
<1>3. PICK near \in SUBSET Other, batch \in ChunkBatches(o.now, known) :
         Tell(o, near, batch, cells)
  BY <1>1, <1>2
<1> DEFINE fogged == FogPart(Player \in store', seen \cup Lit(cells), revealed \cup Lit(cells))
           m == Update(o, known, near, batch, fogged)
<1>4. /\ seen' = seen \cup Lit(cells) /\ revealed' = {} /\ (shipped \/ pending)
      /\ session = "open" /\ CaughtUp' = Updated(CaughtUp, m)
  BY <1>1, <1>2, <1>3, TellOK, CaughtUpSent DEF TickServing, FogDrained, Telling
<1>5. CaughtUp'.mapped = FogApplied(CaughtUp.mapped, m)
  BY <1>4 DEF Updated
<1>6. m.bitmap = fogged.bitmap /\ m.reveals = fogged.reveals
  BY DEF Update
<1>7. seen \cup Lit(cells) \in SUBSET Cell /\ Player \in store
  <2>1. Player \in store
    BY <1>1, <1>2, CommitOK
  <2>2. Lit(cells) \in SUBSET Cell /\ seen \in SUBSET Cell
    BY LitOK, TypesOK
  <2>3. QED
    BY <2>1, <2>2
<1> HIDE DEF m
<1>8. CASE pending
  <2>1. fogged.bitmap = seen \cup Lit(cells) /\ fogged.reveals = {}
    BY <1>2, <1>8 DEF FogPart
  <2>2. m.bitmap # None
    BY <1>6, <1>7, <2>1, StreamAssumption
  <2>3. QED
    BY <1>4, <1>5, <1>6, <2>1, <2>2 DEF FogApplied
<1>9. CASE ~pending
  <2>1. fogged.bitmap = None /\ fogged.reveals = revealed \cup Lit(cells)
    BY <1>2, <1>9 DEF FogPart
  <2>2. CaughtUp.mapped \cup revealed = seen
    BY <1>4, <1>7, <1>9 DEF FogMirrors
  <2>3. CaughtUp'.mapped = CaughtUp.mapped \cup (revealed \cup Lit(cells))
    BY <1>5, <1>6, <2>1 DEF FogApplied
  <2>4. QED
    BY <1>4, <2>2, <2>3
<1>10. QED
  BY <1>8, <1>9

LEMMA RegisterFog ==
    ASSUME TypeOK, Register
    PROVE  FogMirrors'
<1> DEFINE still  == Outcome(component, {}, {}, {}, {})
           fogged == FogPart(Player \in store, seen, revealed)
<1>1. PICK near \in SUBSET Other, batch \in ChunkBatches(component, {}) :
          queue' = <<Update(still, {}, near, batch, fogged)>>
  BY DEF Register
<1> DEFINE m == Update(still, {}, near, batch, fogged)
<1>2. SUFFICES ASSUME shipped', Player \in store'
               PROVE  CaughtUp'.mapped \cup revealed' = seen'
  BY DEF FogMirrors
<1>3. Player \in store /\ pending /\ revealed' = {} /\ seen' = seen /\ seen \in SUBSET Cell
  BY <1>2, TypesOK DEF Register, server
<1>4. m.bitmap = seen /\ m.reveals = {} /\ m.bitmap # None
  BY <1>3, StreamAssumption DEF Update, FogPart
<1> HIDE DEF m
<1>5. CaughtUp' = Updated(Page', m)
  BY <1>1, CaughtUpFirst DEF m
<1>6. CaughtUp'.mapped = FogApplied(Page'.mapped, m)
  BY <1>5 DEF Updated
<1>7. QED
  BY <1>3, <1>4, <1>6 DEF FogApplied

\* What a tick without a message uncovers goes on the list.
LEMMA UnsentFog ==
    ASSUME TypeOK, FogMirrors, UnsentTick
    PROVE  FogMirrors'
<1>1. PICK o \in Outcomes, cells \in Sight : Commit(o) /\ FogGrows(cells)
  BY DEF UnsentTick
<1>2. UNCHANGED <<session, queue, view, mapped>>
  BY DEF UnsentTick
<1>3. SUFFICES ASSUME session = "open", shipped', Player \in store'
               PROVE  CaughtUp'.mapped \cup revealed' = seen'
  BY <1>2 DEF FogMirrors
<1>4. Player \in store
  BY <1>1, <1>3, CommitOK
<1>5. seen' = seen \cup Lit(cells) /\ revealed' = revealed \cup Lit(cells) /\ shipped
  BY <1>1, <1>3 DEF FogGrows
<1>6. CaughtUp.mapped \cup revealed = seen
  BY <1>3, <1>4, <1>5 DEF FogMirrors
<1>7. CaughtUp' = CaughtUp
  BY <1>2, CaughtUpSame
<1>8. QED
  BY <1>5, <1>6, <1>7

LEMMA StepFog ==
    ASSUME TypeOK, FogMirrors, [Next]_vars
    PROVE  FogMirrors'
<1>1. CASE TickServing
  BY <1>1, ServingFog
<1>2. CASE TickUnserved
  BY <1>2 DEF TickUnserved, FogMirrors
<1>3. CASE Connect
  <2>1. /\ UNCHANGED <<session, queue, view, mapped>>
        /\ \/ UNCHANGED <<store, seen, revealed, shipped>>
           \/ ~shipped'
    BY <1>3 DEF Connect, Adopt, SpawnFresh, server, fog
  <2>2. QED
    BY <2>1, CaughtUpSame DEF FogMirrors
<1>4. CASE Hydrate
  <2>1. /\ UNCHANGED <<session, queue, view, mapped, store, revealed>>
        /\ UNCHANGED <<seen, shipped>> \/ ~shipped'
    BY <1>4 DEF Hydrate, server
  <2>2. QED
    BY <2>1, CaughtUpSame DEF FogMirrors
<1>5. CASE Register
  BY <1>5, RegisterFog
<1>6. CASE WriteFails \/ Leave
  BY <1>6 DEF WriteFails, Leave, FogMirrors
<1>7. CASE Receive
  <2>1. UNCHANGED <<store, session, seen, revealed, shipped>>
    BY <1>7 DEF Receive, server, fog
  <2>2. QED
    BY <1>7, <2>1, CaughtUpRead DEF FogMirrors
<1>8. CASE UnsentTick
  BY <1>8, UnsentFog
<1>9. CASE UNCHANGED vars
  <2>1. UNCHANGED <<store, session, queue, view, mapped, seen, revealed, shipped>>
    BY <1>9 DEF vars, server, fog
  <2>2. QED
    BY <2>1, CaughtUpSame DEF FogMirrors
<1>10. QED
  BY <1>1, <1>2, <1>3, <1>4, <1>5, <1>6, <1>7, <1>8, <1>9 DEF Next, Tick

(* Once a session has had its fog's bitmap, no reveal is lost on the way:  *)
(* for any cells, queue bounds and order of ticks, events and saves.        *)
THEOREM StreamFogMirrors == Spec => []FogMirrors
<1>1. Init => FogMirrors
  BY DEF Init, FogMirrors
<1>2. TypeOK /\ FogMirrors /\ [Next]_vars => FogMirrors'
  BY StepFog
<1>3. QED
  BY <1>1, <1>2, StreamTypeCorrect, PTL DEF Spec

(* Entities and fog together: who has read everything lacks nothing.       *)
THEOREM StreamMirrorsAll == Spec => []CaughtUpMirrors
  BY StreamMirrors, StreamFogMirrors, PTL DEF CaughtUpMirrors
-----------------------------------------------------------------------------
(* What the page goes through. *)

\* A sequence with one more at its end.
LEMMA Appended ==
    ASSUME NEW n \in Nat, NEW f, f = [i \in 1 .. n |-> f[i]], NEW x
    PROVE  Append(f, x) = [i \in 1 .. n + 1 |-> IF i = n + 1 THEN x ELSE f[i]]
<1> DEFINE S == {f[i] : i \in 1 .. n} \cup {x}
<1>1. f \in [1 .. n -> S] /\ x \in S
  OBVIOUS
<1> HIDE DEF S
<1>2. f \in Seq(S) /\ Len(f) = n
  BY <1>1
<1>3. QED
  BY <1>1, <1>2

\* A sequence without its first.
LEMMA Behead ==
    ASSUME NEW n \in Nat, n > 0, NEW f, f = [i \in 1 .. n |-> f[i]]
    PROVE  /\ f # <<>> /\ Head(f) = f[1]
           /\ Tail(f) = [i \in 1 .. n - 1 |-> f[i + 1]]
<1> DEFINE S == {f[i] : i \in 1 .. n}
<1>1. f \in [1 .. n -> S]
  OBVIOUS
<1> HIDE DEF S
<1>2. f \in Seq(S) /\ Len(f) = n
  BY <1>1
<1>3. QED
  BY <1>2

LEMMA ComingIsSeq == Coming = [i \in 1 .. Len(queue) |-> Coming[i]]
  BY DEF Coming

LEMMA ComingNone ==
    ASSUME queue = <<>> PROVE Coming = <<>>
<1>1. Len(queue) = 0
  OBVIOUS
<1>2. QED
  BY <1>1 DEF Coming

LEMMA ComingSame ==
    ASSUME UNCHANGED <<queue, view, mapped>>
    PROVE  Coming' = Coming /\ Picture(Page)' = Picture(Page)
  BY DEF Coming, Page, Picture

\* What is sent last comes last, and is what the page then ends with.
LEMMA ComingSent ==
    ASSUME TypeOK, NEW m, queue' = Append(queue, m), UNCHANGED <<view, mapped>>
    PROVE  /\ Coming' = Append(Coming, Picture(CaughtUp'))
           /\ Picture(Page)' = Picture(Page)
<1> DEFINE n == Len(queue)
           r == Append(queue, m)
<1>1. queue \in Seq(Message)
  BY TypesOK
<1>2. n \in Nat /\ Len(r) = n + 1
  BY <1>1
<1>3. Page' = Page
  BY DEF Page
<1>4. \A k \in 0 .. n : Reading(Page, r)[k] = Reading(Page, queue)[k]
  BY <1>1, ReadAppend
<1>5. CaughtUp' = Reading(Page, r)[n + 1]
  BY <1>2, <1>3 DEF CaughtUp, AfterReading
<1> HIDE DEF r
<1>6. Coming' = [i \in 1 .. n + 1 |-> Picture(Reading(Page, r)[i])]
  BY <1>2, <1>3 DEF Coming, r
<1> HIDE DEF n
<1>7. ASSUME NEW i \in 1 .. n + 1
      PROVE  Picture(Reading(Page, r)[i]) = IF i = n + 1 THEN Picture(CaughtUp') ELSE Coming[i]
  <2>1. CASE i = n + 1
    BY <1>5, <2>1
  <2>2. CASE i # n + 1
    <3>1. i \in 1 .. n /\ i \in 0 .. n
      BY <1>2, <2>2
    <3>2. Coming[i] = Picture(Reading(Page, queue)[i])
      BY <3>1 DEF Coming, n
    <3>3. QED
      BY <1>4, <2>2, <3>1, <3>2
  <2>3. QED
    BY <2>1, <2>2
<1>8. Append(Coming, Picture(CaughtUp')) =
        [i \in 1 .. n + 1 |-> IF i = n + 1 THEN Picture(CaughtUp') ELSE Coming[i]]
  <2> DEFINE f == Coming
             x == Picture(CaughtUp')
  <2>1. f = [i \in 1 .. n |-> f[i]]
    BY ComingIsSeq DEF n
  <2> HIDE DEF f, x
  <2>2. Append(f, x) = [i \in 1 .. n + 1 |-> IF i = n + 1 THEN x ELSE f[i]]
    BY <1>2, <2>1, Appended
  <2>3. QED
    BY <2>2 DEF f, x
<1>9. QED
  BY <1>3, <1>6, <1>7, <1>8

LEMMA ComingFirst ==
    ASSUME NEW m, queue' = <<m>>
    PROVE  Coming' = <<Picture(CaughtUp')>>
<1>1. Len(queue') = 1
  OBVIOUS
<1>2. CaughtUp' = Reading(Page', queue')[1]
  BY <1>1 DEF CaughtUp, AfterReading
<1>3. Coming' = [i \in 1 .. 1 |-> Picture(Reading(Page', queue')[i])]
  BY <1>1 DEF Coming
<1> DEFINE x == Picture(CaughtUp')
<1>4. Coming' = [i \in 1 .. 1 |-> x]
  BY <1>2, <1>3
<1> HIDE DEF x
<1>5. Coming' = <<x>>
  BY <1>4
<1>6. QED
  BY <1>5 DEF x

LEMMA ComingRead ==
    ASSUME TypeOK, Receive
    PROVE  /\ Coming # <<>> /\ Picture(Page)' = Head(Coming)
           /\ Coming' = Tail(Coming)
<1> DEFINE n == Len(queue)
<1>1. queue \in Seq(Message) /\ queue # <<>>
  BY TypesOK DEF Receive
<1>2. n \in Nat /\ n > 0 /\ Len(Tail(queue)) = n - 1 /\ Head(queue) = queue[1]
  BY <1>1
<1>3. Page' = Updated(Page, Head(queue)) /\ queue' = Tail(queue)
  BY DEF Receive, Page, Updated
<1>4. Reads(Reading(Page, queue), Page, queue, n)
  BY <1>2, ReadsAll
<1>5. Reading(Page, queue)[1] = Page'
  <2> DEFINE f == Reading(Page, queue)
  <2>1. Reads(f, Page, queue, n)
    BY <1>4
  <2> HIDE DEF f, n
  <2>2. f[0] = Page /\ \A i \in 1 .. n : f[i] = Updated(f[i - 1], queue[i])
    BY <1>2, <2>1, ReadsStep
  <2>3. 1 \in 1 .. n /\ 1 - 1 = 0
    BY <1>2
  <2>4. f[1] = Updated(Page, queue[1])
    BY <2>2, <2>3
  <2>5. QED
    BY <1>2, <1>3, <2>4 DEF f
<1>6. \A k \in 0 .. n - 1 : Reading(Page', queue')[k] = Reading(Page, queue)[k + 1]
  BY <1>1, <1>3, ReadHead
<1> HIDE DEF n
<1>7. Coming # <<>> /\ Head(Coming) = Coming[1]
      /\ Tail(Coming) = [i \in 1 .. n - 1 |-> Coming[i + 1]]
  <2> DEFINE f == Coming
  <2>1. f = [i \in 1 .. n |-> f[i]]
    BY ComingIsSeq DEF n
  <2> HIDE DEF f
  <2>2. f # <<>> /\ Head(f) = f[1] /\ Tail(f) = [i \in 1 .. n - 1 |-> f[i + 1]]
    BY <1>2, <2>1, Behead
  <2>3. QED
    BY <2>2 DEF f
<1>8. \A i \in 1 .. n : Coming[i] = Picture(Reading(Page, queue)[i])
  BY DEF Coming, n
<1>9. Coming[1] = Picture(Page')
  BY <1>2, <1>5, <1>8
<1>10. Coming' = [i \in 1 .. n - 1 |-> Picture(Reading(Page', queue')[i])]
  BY <1>2, <1>3 DEF Coming
<1>11. ASSUME NEW i \in 1 .. n - 1
       PROVE  Picture(Reading(Page', queue')[i]) = Coming[i + 1]
  <2>1. i \in 0 .. n - 1 /\ i + 1 \in 1 .. n
    BY <1>2
  <2>2. QED
    BY <1>6, <1>8, <2>1
<1>12. Picture(Page)' = Picture(Page')
  BY DEF Picture
<1>13. QED
  BY <1>7, <1>9, <1>10, <1>11, <1>12

\* The last picture is the one the page ends with.
LEMMA LatestCaughtUp ==
    ASSUME TypeOK PROVE Pages!Latest = Picture(CaughtUp)
<1>1. queue \in Seq(Message)
  BY TypesOK
<1>2. CASE queue = <<>>
  <2>1. Coming = <<>> /\ CaughtUp = Page
    BY <1>2, ComingNone, ReadNothing DEF CaughtUp
  <2>2. QED
    BY <2>1 DEF Pages!Latest
<1>3. CASE queue # <<>>
  <2> DEFINE n == Len(queue)
             f == Coming
  <2>1. n \in Nat /\ n > 0
    BY <1>1, <1>3
  <2>2. f = [i \in 1 .. n |-> f[i]] /\ f[n] = Picture(CaughtUp)
    BY <2>1 DEF Coming, CaughtUp, AfterReading
  <2> HIDE DEF n, f
  <2>3. f # <<>> /\ Len(f) = n
    <3> DEFINE S == {f[i] : i \in 1 .. n}
    <3>1. f \in [1 .. n -> S]
      BY <2>2
    <3> HIDE DEF S
    <3>2. f \in Seq(S) /\ Len(f) = n
      BY <2>1, <3>1
    <3>3. QED
      BY <2>1, <3>2
  <2>4. QED
    BY <2>2, <2>3 DEF f, Pages!Latest
<1>4. QED
  BY <1>2, <1>3

\* A page that faces the server, but for what it shows as the last picture does,
\* has retaken that picture.
LEMMA PictureTaken ==
    ASSUME NEW c, NEW s, NEW w, NEW old \in SUBSET s,
           \A e \in old : Picture(c)[e] = Pages!Latest[e],
           \A e \in Entity : IF e \in s THEN Placed(c.view[e]) /\ (e \in old \/ c.view[e].value = w[e])
                             ELSE c.view[e] = NotShown
    PROVE  Picture(c) = Pages!Retaken(old, s, w)
<1>1. ASSUME NEW e \in Entity
      PROVE  (IF c.view[e] = NotShown THEN NotShown ELSE c.view[e].value)
                = IF e \in old THEN Pages!Latest[e] ELSE IF e \in s THEN w[e] ELSE NotShown
  <2>1. CASE e \in old
    <3>1. Picture(c)[e] = IF c.view[e] = NotShown THEN NotShown ELSE c.view[e].value
      BY DEF Picture
    <3>2. QED
      BY <2>1, <3>1
  <2>2. CASE e \in s \ old
    <3> DEFINE shown == c.view[e]
    <3>1. Placed(shown) /\ shown.value = w[e]
      BY <2>2
    <3> HIDE DEF shown
    <3>2. shown # NotShown
      BY <3>1, PlacedShown
    <3>3. QED
      BY <2>2, <3>1, <3>2 DEF shown
  <2>3. CASE e \notin s
    BY <2>3
  <2>4. QED
    BY <2>1, <2>2, <2>3
<1>2. Pages!Retaken(old, s, w) =
        [e \in Entity |-> IF e \in old THEN Pages!Latest[e]
                          ELSE IF e \in s THEN w[e] ELSE NotShown]
  BY DEF Pages!Retaken, Pages!Taken
<1>3. QED
  BY <1>1, <1>2 DEF Picture

\* A page that faces the server exactly has taken its picture.
LEMMA PictureExact ==
    ASSUME NEW c, NEW s, NEW w,
           \A e \in Entity : IF e \in s THEN Faces(c.view[e], w[e]) ELSE c.view[e] = NotShown
    PROVE  Picture(c) = Pages!Taken(s, w)
<1>1. ASSUME NEW e \in Entity
      PROVE  (IF c.view[e] = NotShown THEN NotShown ELSE c.view[e].value)
                = IF e \in s THEN w[e] ELSE NotShown
  <2> DEFINE shown == c.view[e]
             value == w[e]
  <2>1. IF e \in s THEN Faces(shown, value) ELSE shown = NotShown
    OBVIOUS
  <2> HIDE DEF shown, value
  <2>2. (IF shown = NotShown THEN NotShown ELSE shown.value)
           = IF e \in s THEN value ELSE NotShown
    BY <2>1, FacesShown
  <2>3. QED
    BY <2>2 DEF shown, value
<1>2. QED
  BY <1>1 DEF Picture, Pages!Taken

\* A page without entities is blank.
LEMMA BlankPage ==
    ASSUME view' = [e \in Entity |-> NotShown] PROVE Picture(Page)' = Pages!Blank
  BY DEF Picture, Page, Pages!Blank, Pages!Taken

\* A session that ends leaves nothing on the page and nothing on its way.
LEMMA EndStops ==
    ASSUME session' # "open", ClientStops PROVE Pages!Stop
<1>1. (queue = <<>> => Coming = <<>>)'
  BY ComingNone, PTL
<1>2. known' = {} /\ missed' = {} /\ Picture(Page)' = Pages!Blank /\ Coming' = <<>>
  BY <1>1, BlankPage DEF ClientStops
<1>3. QED
  BY <1>2 DEF Pages!Stop

LEMMA ServingSends ==
    ASSUME TypeOK, TypeOK', MirrorInv, MirrorInv', TickServing
    PROVE  Pages!Send \/ Pages!Stop
<1>1. CASE Stalled
  BY <1>1, EndStops DEF TickServing
<1>2. CASE ~Stalled
  <2>1. PICK o \in Outcomes, cells \in Sight :
           \E near \in SUBSET Other, batch \in ChunkBatches(o.now, known) :
              Tell(o, near, batch, cells)
    BY <1>2 DEF TickServing
  <2>2. /\ session = "open" /\ session' = "open" /\ doomed' = {}
        /\ UNCHANGED <<view, mapped>> /\ missed' = missed \cap known'
        /\ \E m : queue' = Append(queue, m)
    BY <1>2, <2>1, TellOK DEF TickServing, Swept
  <2>3. Coming' = Append(Coming, Picture(CaughtUp')) /\ Picture(Page)' = Picture(Page)
    BY <2>2, ComingSent
  <2>4. known' \subseteq Entity
    BY DEF TypeOK
  <2> DEFINE old == {e \in missed' : Picture(CaughtUp')[e] = Picture(CaughtUp)[e]}
  <2>5. old \in SUBSET missed' /\ old \in SUBSET known'
    BY <2>2
  <2>6. \A e \in old : Picture(CaughtUp')[e] = Pages!Latest[e]
    BY LatestCaughtUp
  <2>7. /\ \A e \in Entity \ known' : CaughtUp'.view[e] = NotShown
        /\ \A e \in known' : Placed(CaughtUp'.view[e])
        /\ \A e \in known' \ missed' : Faces(CaughtUp'.view[e], component'[e])
    BY <2>2 DEF MirrorInv
  <2>8. ASSUME NEW e \in known' PROVE e \in old \/ CaughtUp'.view[e].value = component'[e]
    <3>1. CASE e \notin missed'
      BY <2>7, <3>1 DEF Faces
    <3>2. CASE e \in missed'
      <4>1. CaughtUp'.view[e].value \in {CaughtUp.view[e].value, component'[e]}
        BY <2>2, <3>2, ServingMirrors
      <4>2. Placed(CaughtUp.view[e]) /\ Placed(CaughtUp'.view[e])
        <5>1. e \in known
          BY <2>2, <3>2, TypesOK
        <5>2. Placed(CaughtUp.view[e])
          BY <2>2, <5>1 DEF MirrorInv
        <5>3. QED
          BY <2>7, <5>2
      <4>3. CaughtUp.view[e] # NotShown /\ CaughtUp'.view[e] # NotShown
        BY <4>2, PlacedShown
      <4>4. /\ Picture(CaughtUp)[e] = CaughtUp.view[e].value
            /\ Picture(CaughtUp')[e] = CaughtUp'.view[e].value
        BY <2>4, <4>3 DEF Picture
      <4>5. QED
        BY <3>2, <4>1, <4>4
    <3>3. QED
      BY <3>1, <3>2
  <2> HIDE DEF old
  <2>9. Picture(CaughtUp') = Pages!Retaken(old, known', component')
    BY <2>5, <2>6, <2>7, <2>8, PictureTaken
  <2>10. QED
    BY <2>2, <2>3, <2>4, <2>5, <2>9 DEF Pages!Send
<1>3. QED
  BY <1>1, <1>2

LEMMA RegisterStarts ==
    ASSUME TypeOK, TypeOK', Register PROVE Pages!Start
<1>1. /\ session' = "open" /\ component' = component /\ view' = [e \in Entity |-> NotShown]
      /\ missed' = {} /\ \E m : queue' = <<m>>
  BY DEF Register, server
<1>2. Picture(Page)' = Pages!Blank /\ Coming' = <<Picture(CaughtUp')>>
  BY <1>1, BlankPage, ComingFirst
<1>3. \A e \in Entity : IF e \in known' THEN Faces(CaughtUp'.view[e], component'[e])
                        ELSE CaughtUp'.view[e] = NotShown
  BY RegisterMirrors
<1>4. Picture(CaughtUp') = Pages!Taken(known', component')
  BY <1>3, PictureExact
<1>5. known' \subseteq Entity
  BY DEF TypeOK
<1>6. QED
  BY <1>1, <1>2, <1>4, <1>5 DEF Pages!Start

\* A tick without a message changes only what is then missed.
LEMMA UnsentMisses ==
    ASSUME TypeOK, TypeOK', MirrorInv, UnsentTick PROVE Pages!Miss \/ Pages!Change
<1>1. UNCHANGED <<session, known, queue, view, mapped>>
  BY DEF UnsentTick
<1>2. Coming' = Coming /\ Picture(Page)' = Picture(Page)
  BY <1>1, ComingSame
<1>3. missed \subseteq missed' /\ missed' \subseteq known
  BY <1>1, TypesOK DEF UnsentTick, TypeOK
<1>4. CASE session = "open"
  <2>1. \A e \in known \ missed' : component'[e] = component[e]
    BY <1>4, UnsentChanges
  <2>2. QED
    BY <1>1, <1>2, <1>3, <1>4, <2>1 DEF Pages!Miss
<1>5. CASE session # "open"
  <2>1. missed = {} /\ missed' = {}
    BY <1>3, <1>5 DEF MirrorInv
  <2>2. QED
    BY <1>1, <1>2, <1>5, <2>1 DEF Pages!Change
<1>6. QED
  BY <1>4, <1>5

LEMMA MomentsStep ==
    ASSUME TypeOK, TypeOK', MirrorInv, MirrorInv', [Next]_vars
    PROVE  [Pages!Next]_Pages!vars
<1>1. CASE TickServing
  BY <1>1, ServingSends DEF Pages!Next
<1>2. CASE TickUnserved
  <2>1. /\ session # "open" /\ session' # "open"
        /\ UNCHANGED <<known, missed, queue, view, mapped>>
    BY <1>2 DEF TickUnserved
  <2>2. QED
    BY <2>1, ComingSame DEF Pages!Change, Pages!Next
<1>3. CASE Connect
  <2>1. UNCHANGED <<session, known, missed, queue, view, mapped>>
    BY <1>3 DEF Connect
  <2>2. \A e \in Entity \ {Player} : component'[e] = component[e]
    BY <1>3, TypesOK DEF Connect, Adopt, SpawnFresh, server
  <2>3. QED
    BY <2>1, <2>2, ComingSame DEF Pages!Change, Pages!Next
<1>4. CASE Hydrate \/ UNCHANGED vars
  <2>1. UNCHANGED <<component, session, known, missed, queue, view, mapped>>
    BY <1>4 DEF Hydrate, server, vars
  <2>2. QED
    BY <2>1, ComingSame DEF Pages!vars
<1>5. CASE Register
  BY <1>5, RegisterStarts DEF Pages!Next
<1>6. CASE WriteFails \/ Leave
  BY <1>6, EndStops DEF WriteFails, Leave, Pages!Next
<1>7. CASE Receive
  <2>1. session = "open" /\ UNCHANGED <<component, session, known, missed>>
    BY <1>7 DEF Receive, server
  <2>2. QED
    BY <1>7, <2>1, ComingRead DEF Pages!Show, Pages!Next
<1>8. CASE UnsentTick
  BY <1>8, UnsentMisses DEF Pages!Next
<1>9. QED
  BY <1>1, <1>2, <1>3, <1>4, <1>5, <1>6, <1>7, <1>8 DEF Next, Tick

(* Spawns, deltas, removals and destroys in one message, read one message  *)
(* after the other however late, implement a page that goes through past   *)
(* moments of the world in their order, each exact in all its session knew *)
(* then and had missed no change of.                                       *)
THEOREM StreamShowsMoments == Spec => ShowsMoments
<1>1. Init => Pages!Init /\ MirrorInv
  <2> SUFFICES ASSUME Init PROVE Pages!Init /\ MirrorInv
    OBVIOUS
  <2>1. session = "none" /\ known = {} /\ missed = {} /\ queue = <<>>
        /\ view = [e \in Entity |-> NotShown]
    BY DEF Init
  <2>2. component \in [Entity -> Nat]
    BY DEF Init, Absent
  <2>3. Picture(Page) = Pages!Blank
    BY <2>1 DEF Picture, Page, Pages!Blank, Pages!Taken
  <2>4. Coming = <<>>
    BY <2>1, ComingNone
  <2>5. QED
    BY <2>1, <2>2, <2>3, <2>4 DEF Pages!Init, MirrorInv
<1>2. TypeOK /\ MirrorInv /\ [Next]_vars => MirrorInv'
  BY StepMirrors
<1>3. TypeOK /\ TypeOK' /\ MirrorInv /\ MirrorInv' /\ [Next]_vars
         => [Pages!Next]_Pages!vars
  BY MomentsStep
<1>4. QED
  BY <1>1, <1>2, <1>3, StreamTypeCorrect, PTL DEF Spec, ShowsMoments, Pages!Spec
=============================================================================
