----------------------------- MODULE Combat_proofs -----------------------------
(***************************************************************************)
(* Proofs about Combat for any resources, damages, durations and costs:    *)
(* types, tags that follow the slots, locked actions that play out, and    *)
(* lone reactions that are played.                                         *)
(***************************************************************************)
EXTENDS Combat, TLAPS

-----------------------------------------------------------------------------
(* The inductive invariant. *)

\* No action overstays its phase.
InTime(a) ==
    \A s \in Slot : LET r == a.slots[s] IN
        r # None => PhaseTicks(s, r) = Forever \/ r.t < PhaseTicks(s, r)

Tagged(a) == a.tags = UNION {TagsOf(s, a.slots[s]) : s \in Slot}

\* What the dispatcher made of slot s: the action advanced, or another one
\* started where the advanced one could be displaced.
Ran(s) ==
    LET cur == Advanced(s, now.slots[s])
    IN  \/ next.slots[s] = cur
        \/ \E want \in DOMAIN Catalogue[s] :
              next.slots[s] = Fresh(want) /\ Starts(s, want, cur)

\* The pending reaction was served, or one that is no lighter goes on.
Served ==
    now.health # 0 /\ now.pending # None =>
        /\ next.slots.reaction # None
        /\ ~Heavier("reaction", Fresh(now.pending), next.slots.reaction)

StageOK ==
    /\ stage = "rest" => next = now
    /\ stage = "open" => next.slots = now.slots /\ next.tags = now.tags
    /\ stage = "acted" => Served /\ \A s \in Slot : Ran(s)

\* A reaction that is the only one posted is the one that will be pending, and
\* what was promised is pending.
PostsPend ==
    /\ stage # "rest" /\ posted \in Reaction /\ now.pending = None =>
          next.pending = posted
    /\ owed # None => now.pending = owed

IInv ==
    /\ TypeOK
    /\ InTime(now) /\ InTime(next)
    /\ Tagged(now) /\ Tagged(next)
    /\ StageOK
    /\ PostsPend

-----------------------------------------------------------------------------
(* The actions, as content defines them. *)

LEMMA SlotIs == Slot = {"primary", "locomotion", "reaction"}
  BY DEF Slot, Catalogue

\* What the actions have in common.  A locked one cannot be cancelled past its
\* first phase, and a reaction not at all.
Plain(d) ==
    /\ d.kind \in {"ambient", "active", "reaction"}
    /\ d.tags \subseteq {"blocking", "iframe", "staggered"}
    /\ d.cost \in Nat /\ d.weight \in Nat
    /\ d.gates \subseteq {"not_staggered", "not_exhausted"}
    /\ d.kind = "reaction" => d.gates = {} /\ d.cost = 0 /\ ~d.committed

Phased(d) ==
    /\ Len(d.phases) \in 1..3 /\ DOMAIN d.phases = 1..Len(d.phases)
    /\ \A n \in DOMAIN d.phases : d.phases[n].ticks \in Nat
    /\ (d.committed \/ d.kind = "reaction") =>
          \A n \in DOMAIN d.phases :
              /\ d.phases[n].ticks # Forever
              /\ (n > 1 \/ d.kind = "reaction") => ~d.phases[n].free

Sane(d) == Plain(d) /\ Phased(d)

SlotTag == [primary |-> "blocking", locomotion |-> "iframe", reaction |-> "staggered"]

LEMMA OnePhase ==
    ASSUME NEW d, NEW h, d.phases = <<h>>
    PROVE  /\ Len(d.phases) = 1 /\ DOMAIN d.phases = 1..1 /\ d.phases[1] = h
           /\ \A n \in DOMAIN d.phases : n = 1 /\ d.phases[n] = h
<1>1. DOMAIN <<h>> = 1..1 /\ <<h>>[1] = h /\ Len(<<h>>) = 1
  OBVIOUS
<1>2. \A n \in 1..1 : n = 1
  OBVIOUS
<1>3. QED
  BY <1>1, <1>2

LEMMA AmbientSane ==
    \A d \in {Ambient, Block} : Sane(d) /\ d.tags \subseteq {"blocking"} /\ d.kind # "reaction"
<1>1. Hold.ticks = 0 /\ Hold.free = TRUE
  BY DEF Hold, Forever
<1>2. \A d \in {Ambient, Block} :
         /\ d.phases = <<Hold>> /\ d.kind = "ambient" /\ d.committed = FALSE
         /\ d.tags \subseteq {"blocking"} /\ d.gates = {} /\ d.cost = 0 /\ d.weight = 0
  BY DEF Ambient, Block
<1>3. SUFFICES ASSUME NEW d \in {Ambient, Block} PROVE Sane(d)
  BY <1>2
<1>4. /\ Len(d.phases) = 1 /\ DOMAIN d.phases = 1..1
      /\ \A n \in DOMAIN d.phases : d.phases[n] = Hold
  BY <1>1, <1>2, OnePhase
<1>5. Plain(d)
  BY <1>2 DEF Plain
<1>6. Phased(d)
  BY <1>1, <1>2, <1>4 DEF Phased
<1>7. QED
  BY <1>5, <1>6 DEF Sane

LEMMA AmbientTags == Ambient.tags = {}
  BY DEF Ambient

LEMMA SwingSane == Sane(Swing) /\ Swing.tags = {} /\ Swing.kind = "active"
<1> DEFINE ph == <<[ticks |-> SwingTicks[1], free |-> TRUE],
                   Busy(SwingTicks[2]), Busy(SwingTicks[3])>>
<1>1. \A n \in 1..3 : SwingTicks[n] \in Nat /\ SwingTicks[n] # 0
  BY CombatAssumption
<1>2. /\ DOMAIN ph = 1..3 /\ Len(ph) = 3
      /\ ph[1] = [ticks |-> SwingTicks[1], free |-> TRUE]
      /\ ph[2] = [ticks |-> SwingTicks[2], free |-> FALSE]
      /\ ph[3] = [ticks |-> SwingTicks[3], free |-> FALSE]
  BY DEF Busy
<1>3. /\ ph[1].ticks = SwingTicks[1] /\ ph[1].free = TRUE
      /\ ph[2].ticks = SwingTicks[2] /\ ph[2].free = FALSE
      /\ ph[3].ticks = SwingTicks[3] /\ ph[3].free = FALSE
  BY <1>2
<1> HIDE DEF ph
<1>4. \A n \in 1..3 : /\ ph[n].ticks \in Nat /\ ph[n].ticks # 0
                      /\ n > 1 => ~ph[n].free
  <2>1. \A n \in 1..3 : n = 1 \/ n = 2 \/ n = 3
    OBVIOUS
  <2>2. QED
    BY <1>1, <1>3, <2>1
<1>5. /\ Swing.phases = ph /\ Swing.cost \in Nat /\ Swing.kind = "active"
      /\ Swing.tags = {} /\ Swing.gates = {} /\ Swing.committed = TRUE /\ Swing.weight = 5
  BY CombatAssumption DEF Swing, ph
<1>6. Plain(Swing)
  BY <1>5 DEF Plain
<1>7. Phased(Swing)
  <2>1. Len(Swing.phases) = 3 /\ DOMAIN Swing.phases = 1..3
    BY <1>2, <1>5
  <2>2. \A n \in 1..3 : /\ Swing.phases[n].ticks \in Nat /\ Swing.phases[n].ticks # 0
                        /\ n > 1 => ~Swing.phases[n].free
    BY <1>4, <1>5
  <2>3. QED
    BY <1>5, <2>1, <2>2 DEF Phased, Forever
<1>8. QED
  BY <1>5, <1>6, <1>7 DEF Sane

LEMMA DodgeSane == Sane(DodgeRoll) /\ DodgeRoll.tags = {"iframe"} /\ DodgeRoll.kind = "active"
<1> DEFINE h == Busy(DashTicks)
<1>1. h.ticks \in Nat /\ h.ticks # 0 /\ h.free = FALSE
  BY CombatAssumption DEF Busy
<1>2. /\ DodgeRoll.phases = <<h>> /\ DodgeRoll.cost \in Nat /\ DodgeRoll.kind = "active"
      /\ DodgeRoll.tags = {"iframe"} /\ DodgeRoll.gates = {"not_staggered", "not_exhausted"}
      /\ DodgeRoll.committed = TRUE /\ DodgeRoll.weight = 6
  BY CombatAssumption DEF DodgeRoll
<1> HIDE DEF h
<1>3. /\ Len(DodgeRoll.phases) = 1 /\ DOMAIN DodgeRoll.phases = 1..1
      /\ \A n \in DOMAIN DodgeRoll.phases : DodgeRoll.phases[n] = h
  BY <1>1, <1>2, OnePhase
<1>4. Plain(DodgeRoll)
  BY <1>2 DEF Plain
<1>5. Phased(DodgeRoll)
  BY <1>1, <1>2, <1>3 DEF Phased, Forever
<1>6. QED
  BY <1>2, <1>4, <1>5 DEF Sane

LEMMA ReactSane ==
    ASSUME NEW id \in Reaction, NEW w \in Nat, NEW tags \in SUBSET {"staggered"}
    PROVE  LET d == React(id, w, tags)
           IN  Sane(d) /\ d.kind = "reaction" /\ d.tags = tags
<1> DEFINE h == Busy(PlayTicks[id])
           d == React(id, w, tags)
<1>1. h.ticks \in Nat /\ h.ticks # 0 /\ h.free = FALSE
  BY CombatAssumption DEF Busy
<1>2. /\ d.phases = <<h>> /\ d.cost = 0 /\ d.kind = "reaction"
      /\ d.tags = tags /\ d.gates = {} /\ d.committed = FALSE /\ d.weight = w
  BY DEF React
<1> HIDE DEF h, d
<1>3. /\ Len(d.phases) = 1 /\ DOMAIN d.phases = 1..1
      /\ \A n \in DOMAIN d.phases : d.phases[n] = h
  BY <1>1, <1>2, OnePhase
<1>4. Plain(d)
  BY <1>2 DEF Plain
<1>5. Phased(d)
  BY <1>1, <1>2, <1>3 DEF Phased, Forever
<1>6. QED
  BY <1>2, <1>4, <1>5 DEF d, Sane

LEMMA CatalogueSane ==
    ASSUME NEW s \in Slot, NEW id \in DOMAIN Catalogue[s]
    PROVE  /\ Sane(Catalogue[s][id]) /\ id \in Name
           /\ Catalogue[s][id].tags \subseteq {SlotTag[s]}
           /\ Catalogue[s][id].kind = "reaction" <=> s = "reaction"
<1>1. CASE s = "primary"
  BY <1>1, AmbientSane, SwingSane DEF Catalogue, SlotTag, Name
<1>2. CASE s = "locomotion"
  BY <1>2, AmbientSane, AmbientTags, DodgeSane DEF Catalogue, SlotTag, Name
<1>3. CASE s = "reaction"
  <2>1. \A r \in {HitFront, StaggerLight, StaggerHeavy, Death} :
           Sane(r) /\ r.kind = "reaction" /\ r.tags \subseteq {"staggered"}
    BY ReactSane DEF HitFront, StaggerLight, StaggerHeavy, Death, Reaction
  <2>2. QED
    BY <1>3, <2>1 DEF Catalogue, SlotTag, Name, Reaction
<1>4. QED
  BY <1>1, <1>2, <1>3, SlotIs

LEMMA ReactionIds == DOMAIN Catalogue["reaction"] = Reaction
  BY DEF Catalogue, Reaction

-----------------------------------------------------------------------------
(* Running actions. *)

RunOK(s, r) ==
    r # None =>
        /\ r \in Running /\ r.id \in DOMAIN Catalogue[s]
        /\ r.phase \in DOMAIN Def(s, r).phases
        /\ PhaseTicks(s, r) = Forever \/ r.t < PhaseTicks(s, r)

LEMMA LessOK ==
    ASSUME NEW a \in Nat, NEW d \in Nat
    PROVE  Less(a, d) \in Nat /\ Less(a, d) <= a
  BY DEF Less

\* Advancing keeps the action, or ends it.
LEMMA AdvancedOK ==
    ASSUME NEW s \in Slot, NEW r, RunOK(s, r)
    PROVE  /\ RunOK(s, Advanced(s, r))
           /\ Advanced(s, r) # None => r # None /\ Advanced(s, r).id = r.id
<1> DEFINE d == Catalogue[s][r.id]
           q == Advanced(s, r)
<1>1. CASE r = None
  BY <1>1 DEF Advanced, RunOK
<1>2. CASE r # None
  <2>1. /\ r \in Running /\ r.id \in Name /\ r.phase \in Nat /\ r.t \in Nat
        /\ r.id \in DOMAIN Catalogue[s] /\ r.phase \in DOMAIN d.phases
        /\ Phased(d)
    BY <1>2, CatalogueSane DEF RunOK, Def, Running, Sane
  <2>2. PhaseTicks(s, r) = d.phases[r.phase].ticks /\ PhaseTicks(s, r) \in Nat
    BY <2>1 DEF Phased, PhaseTicks, Def
  <2>3. r = [id |-> r.id, phase |-> r.phase, t |-> r.t]
    BY <2>1 DEF Running
  <2>4. ASSUME NEW m \in Nat, m \in DOMAIN d.phases, NEW t \in Nat,
               d.phases[m].ticks = Forever \/ t < d.phases[m].ticks,
               q = [id |-> r.id, phase |-> m, t |-> t]
        PROVE  RunOK(s, q) /\ q.id = r.id
    <3>1. q \in Running /\ q.id = r.id /\ q.phase = m /\ q.t = t
      BY <2>1, <2>4 DEF Running
    <3> HIDE DEF q
    <3>2. QED
      BY <2>1, <2>4, <3>1 DEF RunOK, Def, PhaseTicks
  <2>5. CASE PhaseTicks(s, r) = Forever
    <3>1. Count(r.t + 1) \in Nat
      BY <2>1, CombatAssumption DEF Count, Min2
    <3>2. q = [r EXCEPT !.t = Count(@ + 1)]
      BY <1>2, <2>5 DEF Advanced
    <3>3. q = [id |-> r.id, phase |-> r.phase, t |-> Count(r.t + 1)]
      BY <2>3, <3>2
    <3>4. QED
      BY <1>2, <2>1, <2>2, <2>4, <2>5, <3>1, <3>3
  <2>6. CASE PhaseTicks(s, r) # Forever /\ ~PhaseEnds(s, r)
    <3>1. q = [r EXCEPT !.t = @ + 1]
      BY <1>2, <2>6 DEF Advanced
    <3>2. q = [id |-> r.id, phase |-> r.phase, t |-> r.t + 1]
      BY <2>3, <3>1
    <3>3. r.t + 1 \in Nat /\ r.t + 1 < PhaseTicks(s, r)
      BY <2>1, <2>2, <2>6 DEF PhaseEnds
    <3>4. QED
      BY <1>2, <2>1, <2>2, <2>4, <3>2, <3>3
  <2>7. CASE PhaseTicks(s, r) # Forever /\ PhaseEnds(s, r)
    <3>1. CASE r.phase < Len(d.phases)
      <4>1. q = [r EXCEPT !.phase = @ + 1, !.t = 0]
        BY <1>2, <2>7, <3>1 DEF Advanced, Def
      <4>2. q = [id |-> r.id, phase |-> r.phase + 1, t |-> 0]
        BY <2>3, <4>1
      <4>3. r.phase + 1 \in DOMAIN d.phases /\ r.phase + 1 \in Nat
        BY <2>1, <3>1 DEF Phased
      <4>4. d.phases[r.phase + 1].ticks = Forever \/ 0 < d.phases[r.phase + 1].ticks
        BY <2>1, <4>3 DEF Phased, Forever
      <4>5. QED
        BY <1>2, <2>4, <4>2, <4>3, <4>4
    <3>2. CASE ~(r.phase < Len(d.phases))
      BY <1>2, <2>7, <3>2 DEF Advanced, Def, RunOK
    <3>3. QED
      BY <3>1, <3>2
  <2>8. QED
    BY <2>5, <2>6, <2>7
<1>3. QED
  BY <1>1, <1>2

LEMMA FreshOK ==
    ASSUME NEW s \in Slot, NEW id \in DOMAIN Catalogue[s]
    PROVE  RunOK(s, Fresh(id)) /\ Fresh(id) # None /\ Fresh(id).id = id
           /\ Def(s, Fresh(id)) = Catalogue[s][id]
<1>1. Phased(Catalogue[s][id]) /\ id \in Name
  BY CatalogueSane DEF Sane
<1>2. /\ Fresh(id).id = id /\ Fresh(id).phase = 1 /\ Fresh(id).t = 0
      /\ Fresh(id) \in Running
  BY <1>1 DEF Fresh, Running
<1>3. 1 \in DOMAIN Catalogue[s][id].phases /\ Catalogue[s][id].phases[1].ticks \in Nat
  BY <1>1 DEF Phased
<1>4. Fresh(id) # None
  BY <1>2, CombatAssumption
<1>5. QED
  BY <1>2, <1>3, <1>4 DEF RunOK, Def, PhaseTicks, Forever

-----------------------------------------------------------------------------
(* Dispatch of the actor. *)

Want(keys, gait) ==
    [primary |-> PrimaryIntent(keys), locomotion |-> LocomotionIntent(keys, gait),
     reaction |-> ReactionIntent]
Cur(s) == Advanced(s, now.slots[s])
Started(s, w) == Starts(s, w[s], Cur(s))
Run(s, w) == IF Started(s, w) THEN Fresh(w[s]) ELSE Cur(s)

Pending == (Reaction \ {"death"}) \cup {None}

LEMMA ActorIs ==
    ASSUME NEW a, ActorOK(a), InTime(a)
    PROVE  /\ a.slots \in [Slot -> Running \cup {None}]
           /\ \A s \in Slot : RunOK(s, a.slots[s])
           /\ a.tags \subseteq {"blocking", "iframe", "staggered"}
           /\ a.health \in Nat /\ a.health <= MaxHealth
           /\ a.poise \in Nat /\ a.poise <= MaxPoise
           /\ a.stamina \in Nat /\ a.stamina <= MaxStamina
           /\ a.pending \in Pending
           /\ a = [slots |-> a.slots, tags |-> a.tags, health |-> a.health,
                   poise |-> a.poise, stamina |-> a.stamina, pending |-> a.pending]
<1>1. {MaxHealth, MaxPoise, MaxStamina} \subseteq Nat
  BY CombatAssumption
<1>2. /\ a.slots \in [Slot -> Running \cup {None}]
      /\ a.tags \subseteq {"blocking", "iframe", "staggered"}
      /\ a.health \in 0..MaxHealth /\ a.poise \in 0..MaxPoise
      /\ a.stamina \in 0..MaxStamina /\ a.pending \in Pending
      /\ a = [slots |-> a.slots, tags |-> a.tags, health |-> a.health,
              poise |-> a.poise, stamina |-> a.stamina, pending |-> a.pending]
  BY DEF ActorOK, Pending
<1>3. \A s \in Slot : RunOK(s, a.slots[s])
  BY <1>2 DEF ActorOK, InTime, RunOK
<1>4. QED
  BY <1>1, <1>2, <1>3

\* The converse, for a record built field by field.
LEMMA ActorMake ==
    ASSUME NEW slots \in [Slot -> Running \cup {None}],
           \A s \in Slot : RunOK(s, slots[s]),
           NEW tags \in SUBSET {"blocking", "iframe", "staggered"},
           NEW health \in 0..MaxHealth, NEW poise \in 0..MaxPoise,
           NEW stamina \in 0..MaxStamina, NEW pending \in Pending,
           NEW a, a = [slots |-> slots, tags |-> tags, health |-> health,
                       poise |-> poise, stamina |-> stamina, pending |-> pending]
    PROVE  ActorOK(a) /\ InTime(a)
<1>1. a.slots = slots
  OBVIOUS
<1>2. a \in [slots   : [Slot -> Running \cup {None}],
             tags    : SUBSET {"blocking", "iframe", "staggered"},
             health  : 0..MaxHealth, poise : 0..MaxPoise, stamina : 0..MaxStamina,
             pending : (Reaction \ {"death"}) \cup {None}]
  BY DEF Pending
<1>3. QED
  BY <1>1, <1>2 DEF ActorOK, InTime, RunOK

\* Every intent names an action of its slot.
LEMMA WantOK ==
    ASSUME TypeOK, NEW keys, NEW gait \in Gaits, NEW s \in Slot
    PROVE  Want(keys, gait)[s] \in DOMAIN Catalogue[s] \cup {None}
<1>1. CASE s = "primary"
  <2>1. PrimaryIntent(keys) \in {"block", "swing_light", "primary_idle", None}
    BY DEF PrimaryIntent
  <2>2. DOMAIN Catalogue["primary"] = {"block", "swing_light", "primary_idle"}
    BY DEF Catalogue
  <2>3. QED
    BY <1>1, <2>1, <2>2 DEF Want
<1>2. CASE s = "locomotion"
  <2>1. LocomotionIntent(keys, gait) \in Gaits \cup {"dodge_roll", None}
    BY DEF LocomotionIntent
  <2>2. DOMAIN Catalogue["locomotion"] = Gaits \cup {"dodge_roll"}
    BY DEF Catalogue
  <2>3. QED
    BY <1>2, <2>1, <2>2 DEF Want
<1>3. CASE s = "reaction"
  <2>1. ReactionIntent \in Reaction \cup {None}
    BY DEF ReactionIntent, TypeOK, ActorOK, Reaction
  <2>2. QED
    BY <1>3, <2>1, ReactionIds DEF Want
<1>4. QED
  BY <1>1, <1>2, <1>3, SlotIs

LEMMA RunIsOK ==
    ASSUME TypeOK, InTime(now), NEW keys, NEW gait \in Gaits, NEW s \in Slot
    PROVE  /\ RunOK(s, Run(s, Want(keys, gait)))
           /\ Started(s, Want(keys, gait)) => Want(keys, gait)[s] \in DOMAIN Catalogue[s]
<1> DEFINE w == Want(keys, gait)
<1>1. Started(s, w) => w[s] \in DOMAIN Catalogue[s]
  BY WantOK DEF Started, Starts
<1>2. RunOK(s, Cur(s))
  BY ActorIs, AdvancedOK DEF TypeOK, Cur
<1>3. QED
  BY <1>1, <1>2, FreshOK DEF Run

\* What Act writes.
Spent(w) ==
    CostOf("primary", w.primary, Started("primary", w))
      + CostOf("locomotion", w.locomotion, Started("locomotion", w))

ActTags(w) ==
    (next.tags \ UNION {Exited(s, Started(s, w)) : s \in Slot})
      \cup UNION {TagsOf(s, Run(s, w)) : s \in {x \in Slot : Started(x, w)}}

ActPending(parried) ==
    IF TakesPending THEN None ELSE IF parried THEN "stagger_heavy" ELSE next.pending

LEMMA ActIs ==
    ASSUME NEW keys, NEW gait, NEW parried, Act(keys, gait, parried),
           ActorOK(next), InTime(next)
    PROVE  LET w == Want(keys, gait)
           IN  next' = [slots |-> [s \in Slot |-> Run(s, w)], tags |-> ActTags(w),
                        health |-> next.health, poise |-> next.poise,
                        stamina |-> Less(next.stamina, Spent(w)),
                        pending |-> ActPending(parried)]
<1> DEFINE w == Want(keys, gait)
           cur == [s \in Slot |-> Advanced(s, now.slots[s])]
           started == [s \in Slot |-> Starts(s, w[s], cur[s])]
           run == [s \in Slot |-> IF started[s] THEN Fresh(w[s]) ELSE cur[s]]
           spent == CostOf("primary", w.primary, started.primary)
                   + CostOf("locomotion", w.locomotion, started.locomotion)
           tags == (next.tags \ UNION {Exited(s, started[s]) : s \in Slot})
                      \cup UNION {TagsOf(s, run[s]) : s \in {x \in Slot : started[x]}}
<1>1. next' = [next EXCEPT !.slots = run, !.tags = tags, !.stamina = Less(@, spent),
                           !.pending = ActPending(parried)]
  BY DEF Act, Want, ActPending
<1>2. \A s \in Slot : started[s] = Started(s, w)
  BY DEF Started, Cur
<1>3. run = [s \in Slot |-> Run(s, w)]
  BY <1>2 DEF Run, Cur
<1>4. spent = Spent(w)
  BY <1>2, SlotIs DEF Spent
<1>5. tags = ActTags(w)
  <2>1. {x \in Slot : started[x]} = {x \in Slot : Started(x, w)}
    BY <1>2
  <2>2. {Exited(s, started[s]) : s \in Slot} = {Exited(s, Started(s, w)) : s \in Slot}
    BY <1>2
  <2>3. {TagsOf(s, run[s]) : s \in {x \in Slot : Started(x, w)}}
          = {TagsOf(s, Run(s, w)) : s \in {x \in Slot : Started(x, w)}}
    BY <1>3
  <2> HIDE DEF run, started
  <2>4. QED
    BY <2>1, <2>2, <2>3 DEF ActTags
<1> HIDE DEF run, started, tags, spent
<1>6. next = [slots |-> next.slots, tags |-> next.tags, health |-> next.health,
              poise |-> next.poise, stamina |-> next.stamina, pending |-> next.pending]
  BY ActorIs
<1>7. next' = [slots |-> run, tags |-> tags, health |-> next.health,
               poise |-> next.poise, stamina |-> Less(next.stamina, spent),
               pending |-> ActPending(parried)]
  BY <1>1, <1>6
<1>8. QED
  BY <1>3, <1>4, <1>5, <1>7

\* Costs are no debts, so what is spent is a natural number.
LEMMA SpentOK ==
    ASSUME TypeOK, InTime(now), NEW keys, NEW gait \in Gaits
    PROVE  Spent(Want(keys, gait)) \in Nat
<1> DEFINE w == Want(keys, gait)
<1>1. ASSUME NEW s \in Slot PROVE CostOf(s, w[s], Started(s, w)) \in Nat
  BY RunIsOK, CatalogueSane DEF CostOf, Sane, Plain
<1>2. /\ CostOf("primary", w["primary"], Started("primary", w)) \in Nat
      /\ CostOf("locomotion", w["locomotion"], Started("locomotion", w)) \in Nat
  BY <1>1, SlotIs
<1>3. w["primary"] = w.primary /\ w["locomotion"] = w.locomotion
  OBVIOUS
<1> HIDE DEF w
<1>4. Spent(w) \in Nat
  BY <1>2, <1>3 DEF Spent
<1>5. QED
  BY <1>4 DEF w

\* A tag belongs to one slot.
LEMMA TagOfSlot ==
    ASSUME NEW s \in Slot, NEW r, RunOK(s, r)
    PROVE  TagsOf(s, r) \subseteq {SlotTag[s]}
  BY CatalogueSane DEF TagsOf, RunOK, Def

LEMMA SlotTags ==
    /\ \A s, t \in Slot : SlotTag[s] = SlotTag[t] => s = t
    /\ \A s \in Slot : SlotTag[s] \in {"blocking", "iframe", "staggered"}
  BY SlotIs DEF SlotTag

\* The exits and enters of a dispatch leave the tags of what runs.
LEMMA ActTagsOK ==
    ASSUME TypeOK, InTime(now), Tagged(now), next.tags = now.tags,
           NEW keys, NEW gait \in Gaits
    PROVE  LET w == Want(keys, gait)
           IN  ActTags(w) = UNION {TagsOf(s, Run(s, w)) : s \in Slot}
<1> DEFINE w == Want(keys, gait)
<1>1. ASSUME NEW s \in Slot
      PROVE  /\ RunOK(s, now.slots[s]) /\ RunOK(s, Run(s, w))
             /\ Exited(s, Started(s, w)) \subseteq {SlotTag[s]}
             /\ TagsOf(s, Run(s, w)) \subseteq {SlotTag[s]}
             /\ TagsOf(s, now.slots[s]) \subseteq {SlotTag[s]}
             /\ Cur(s) # None => TagsOf(s, Cur(s)) = TagsOf(s, now.slots[s])
  <2>1. RunOK(s, now.slots[s]) /\ RunOK(s, Run(s, w))
    BY RunIsOK, ActorIs DEF TypeOK
  <2>2. TagsOf(s, Run(s, w)) \subseteq {SlotTag[s]}
    BY <2>1, TagOfSlot
  <2>3. TagsOf(s, now.slots[s]) \subseteq {SlotTag[s]}
    BY <2>1, TagOfSlot
  <2>4. Exited(s, Started(s, w)) \subseteq {SlotTag[s]}
    BY <2>3 DEF Exited
  <2>5. Cur(s) # None => TagsOf(s, Cur(s)) = TagsOf(s, now.slots[s])
    BY <2>1, AdvancedOK DEF Cur, TagsOf, Def
  <2>6. QED
    BY <2>1, <2>2, <2>3, <2>4, <2>5
<1>2. ASSUME NEW x \in ActTags(w)
      PROVE  \E s \in Slot : x \in TagsOf(s, Run(s, w))
  <2>1. CASE \E s \in Slot : Started(s, w) /\ x \in TagsOf(s, Run(s, w))
    BY <2>1
  <2>2. CASE /\ x \in next.tags
             /\ \A s \in Slot : x \notin Exited(s, Started(s, w))
    <3>1. PICK s \in Slot : x \in TagsOf(s, now.slots[s])
      BY <2>2 DEF Tagged
    <3>2. Cur(s) # None /\ ~Started(s, w)
      BY <2>2, <3>1 DEF Exited, Cur
    <3>3. QED
      BY <1>1, <3>1, <3>2 DEF Run
  <2>3. QED
    BY <1>2, <2>1, <2>2 DEF ActTags
<1>3. ASSUME NEW s \in Slot, NEW x \in TagsOf(s, Run(s, w))
      PROVE  x \in ActTags(w)
  <2>1. CASE Started(s, w)
    BY <1>3, <2>1 DEF ActTags
  <2>2. CASE ~Started(s, w)
    <3>1. Cur(s) # None /\ Run(s, w) = Cur(s)
      BY <1>3, <2>2 DEF Run, TagsOf
    <3>2. x \in TagsOf(s, now.slots[s]) /\ x = SlotTag[s]
      BY <1>1, <1>3, <3>1
    <3>3. x \in next.tags
      BY <3>2 DEF Tagged
    <3>4. \A t \in Slot : x \notin Exited(t, Started(t, w))
      <4>1. Exited(s, Started(s, w)) = {}
        BY <2>2, <3>1 DEF Exited, Cur
      <4>2. \A t \in Slot : t # s => SlotTag[s] \notin Exited(t, Started(t, w))
        BY <1>1, SlotTags
      <4>3. QED
        BY <3>2, <4>1, <4>2
    <3>5. QED
      BY <3>3, <3>4 DEF ActTags
  <2>3. QED
    BY <2>1, <2>2
<1>4. \A x : x \in ActTags(w) <=> x \in UNION {TagsOf(s, Run(s, w)) : s \in Slot}
  BY <1>2, <1>3
<1>5. QED
  BY <1>4

\* The pending reaction is started, or something no lighter runs on.
LEMMA ReactionServed ==
    ASSUME TypeOK, InTime(now), NEW keys, NEW gait \in Gaits,
           now.health # 0, now.pending # None
    PROVE  LET q == Run("reaction", Want(keys, gait))
           IN  q # None /\ ~Heavier("reaction", Fresh(now.pending), q)
<1> DEFINE w == Want(keys, gait)
           cur == Cur("reaction")
           p == now.pending
<1>1. w["reaction"] = p /\ "reaction" \in Slot
  BY SlotIs DEF Want, ReactionIntent
<1>2. p \in DOMAIN Catalogue["reaction"]
  BY <1>1, WantOK
<1>3. CanStart("reaction", p)
  <2>1. /\ Catalogue["reaction"][p].gates = {} /\ Catalogue["reaction"][p].cost = 0
        /\ Catalogue["reaction"][p].kind = "reaction"
    BY <1>1, <1>2, CatalogueSane DEF Sane, Plain
  <2>2. now.stamina \in Nat
    BY ActorIs DEF TypeOK
  <2>3. QED
    BY <2>1, <2>2 DEF CanStart
<1>4. RunOK("reaction", cur)
  BY <1>1, ActorIs, AdvancedOK DEF TypeOK, Cur
<1>5. CASE Started("reaction", w)
  <2>1. Run("reaction", w) = Fresh(p)
    BY <1>1, <1>5 DEF Run
  <2>2. Fresh(p) # None /\ Def("reaction", Fresh(p)) = Catalogue["reaction"][p]
    BY <1>1, <1>2, FreshOK
  <2>3. Catalogue["reaction"][p].weight \in Nat
    BY <1>1, <1>2, CatalogueSane DEF Sane, Plain
  <2>4. QED
    BY <2>1, <2>2, <2>3 DEF Heavier
<1>6. CASE ~Started("reaction", w)
  <2>1. Run("reaction", w) = cur
    BY <1>6 DEF Run
  <2>2. cur # None /\ (cur.id = p \/ ~Displaces("reaction", p, cur))
    BY <1>1, <1>3, <1>6 DEF Started, Starts
  <2>3. /\ Catalogue["reaction"][p].kind = "reaction"
        /\ Catalogue["reaction"][p].weight \in Nat
    BY <1>1, <1>2, CatalogueSane DEF Sane, Plain
  <2>4. ~(Catalogue["reaction"][p].weight > Def("reaction", cur).weight)
    BY <2>2, <2>3 DEF Displaces, Def
  <2>5. Def("reaction", Fresh(p)) = Catalogue["reaction"][p]
    BY <1>1, <1>2, FreshOK
  <2>6. QED
    BY <2>1, <2>2, <2>4, <2>5 DEF Heavier
<1>7. QED
  BY <1>5, <1>6

-----------------------------------------------------------------------------
(* Each step keeps the inductive invariant. *)

LEMMA InitOK == Init => IInv
<1> SUFFICES ASSUME Init PROVE IInv
  OBVIOUS
<1>1. /\ MaxHealth \in Nat /\ MaxPoise \in Nat /\ MaxStamina \in Nat /\ MaxStrikes \in Nat
  BY CombatAssumption
<1>2. /\ now = [slots |-> [s \in Slot |-> None], tags |-> {}, health |-> MaxHealth,
                poise |-> MaxPoise, stamina |-> MaxStamina, pending |-> None]
      /\ next = now
  BY DEF Init
<1>3. ActorOK(now) /\ InTime(now)
  <2>1. [s \in Slot |-> None] \in [Slot -> Running \cup {None}]
    OBVIOUS
  <2>2. \A s \in Slot : RunOK(s, [t \in Slot |-> None][s])
    BY DEF RunOK
  <2>3. MaxHealth \in 0..MaxHealth /\ MaxPoise \in 0..MaxPoise /\ MaxStamina \in 0..MaxStamina
    BY <1>1
  <2>4. None \in Pending
    BY DEF Pending
  <2> DEFINE slots == [s \in Slot |-> None]
  <2>5. slots \in [Slot -> Running \cup {None}] /\ \A s \in Slot : RunOK(s, slots[s])
    BY <2>2
  <2>6. now.slots = slots /\ now = [slots |-> slots, tags |-> {}, health |-> MaxHealth,
                  poise |-> MaxPoise, stamina |-> MaxStamina, pending |-> None]
    BY <1>2
  <2> HIDE DEF slots
  <2>7. QED
    BY <2>3, <2>4, <2>5, <2>6, ActorMake
<1>4. Tagged(now)
  BY <1>2 DEF Tagged, TagsOf
<1>5. TypeOK
  <2>1. strikes \in 0..MaxStrikes
    BY <1>1 DEF Init
  <2>2. doomed \in BOOLEAN /\ alive \in BOOLEAN
    BY DEF Init
  <2>3. QED
    BY <1>2, <1>3, <2>1, <2>2 DEF TypeOK, Init
<1>6. QED
  BY <1>2, <1>3, <1>4, <1>5 DEF IInv, StageOK, PostsPend, Init

LEMMA BeginTickOK == ASSUME IInv, BeginTick PROVE IInv'
<1> USE DEF IInv
<1>1. /\ stage = "rest" /\ stage' = "open" /\ now' = now /\ next = now
      /\ strikes' = 0 /\ doomed' = FALSE /\ posted' = None /\ alive' = alive /\ owed' = owed
  BY DEF BeginTick, StageOK
<1>2. PICK p \in {0, 1}, s \in {0, 1} :
         next' = [now EXCEPT !.poise = Min2(@ + p, MaxPoise),
                             !.stamina = Min2(@ + s, MaxStamina)]
  BY DEF BeginTick
<1>3. ActorOK(now) /\ InTime(now)
  BY DEF TypeOK
<1>4. /\ next' = [slots |-> now.slots, tags |-> now.tags, health |-> now.health,
                  poise |-> Min2(now.poise + p, MaxPoise),
                  stamina |-> Min2(now.stamina + s, MaxStamina),
                  pending |-> now.pending]
  <2>1. now = [slots |-> now.slots, tags |-> now.tags, health |-> now.health,
               poise |-> now.poise, stamina |-> now.stamina, pending |-> now.pending]
    BY <1>3, ActorIs
  <2>2. QED
    BY <1>2, <2>1
<1>5. /\ Min2(now.poise + p, MaxPoise) \in 0..MaxPoise
      /\ Min2(now.stamina + s, MaxStamina) \in 0..MaxStamina
      /\ now.health \in 0..MaxHealth
  BY <1>3, ActorIs, CombatAssumption DEF Min2
<1>6. ActorOK(next') /\ InTime(next')
  <2> DEFINE poise == Min2(now.poise + p, MaxPoise)
             stamina == Min2(now.stamina + s, MaxStamina)
             a == next'
  <2>1. /\ now.slots \in [Slot -> Running \cup {None}] /\ now.pending \in Pending
        /\ \A t \in Slot : RunOK(t, now.slots[t])
        /\ now.tags \in SUBSET {"blocking", "iframe", "staggered"}
    BY <1>3, ActorIs
  <2>2. poise \in 0..MaxPoise /\ stamina \in 0..MaxStamina
    BY <1>5
  <2>3. a = [slots |-> now.slots, tags |-> now.tags, health |-> now.health,
             poise |-> poise, stamina |-> stamina, pending |-> now.pending]
    BY <1>4
  <2> HIDE DEF poise, stamina, a
  <2>4. ActorOK(a) /\ InTime(a)
    BY <1>5, <2>1, <2>2, <2>3, ActorMake
  <2>5. QED
    BY <2>4 DEF a
<1>7. next'.slots = now.slots /\ next'.tags = now.tags
  BY <1>4
<1>8. Tagged(next')
  BY <1>7 DEF Tagged
<1>9. TypeOK'
  <2>1. strikes' \in 0..MaxStrikes
    BY <1>1, CombatAssumption
  <2>2. doomed' \in BOOLEAN
    BY <1>1
  <2>3. QED
    BY <1>1, <1>6, <2>1, <2>2 DEF TypeOK
<1>10. StageOK' /\ PostsPend'
  <2>1. posted' \notin Reaction
    BY <1>1, CombatAssumption DEF Name
  <2>2. QED
    BY <1>1, <1>7, <2>1 DEF StageOK, PostsPend
<1>11. QED
  BY <1>1, <1>6, <1>8, <1>9, <1>10

LEMMA EndTickOK == ASSUME IInv, EndTick PROVE IInv'
<1> USE DEF IInv
<1>1. /\ stage = "acted" /\ stage' = "rest" /\ now' = next /\ next' = next
      /\ owed' = Promised /\ strikes' = 0 /\ doomed' = FALSE /\ posted' = None
      /\ alive' = ~Dies
  BY DEF EndTick
<1>2. alive' \in BOOLEAN
  BY <1>1
<1>3. owed' \in Reaction \cup {None} /\ (owed' # None => next.pending = owed')
  BY <1>1 DEF Promised, PostsPend
<1>4. TypeOK'
  <2>1. strikes' \in 0..MaxStrikes
    BY <1>1, CombatAssumption
  <2>2. doomed' \in BOOLEAN
    BY <1>1
  <2>3. QED
    BY <1>1, <1>2, <1>3, <2>1, <2>2 DEF TypeOK
<1>5. StageOK' /\ PostsPend'
  BY <1>1, <1>3 DEF StageOK, PostsPend
<1>6. QED
  BY <1>1, <1>4, <1>5

\* A reaction that is posted where none was is the only one.
LEMMA AlsoOK ==
    ASSUME NEW id \in Reaction, Also(id) \in Reaction
    PROVE  posted = None /\ Also(id) = id
  BY DEF Also, Many, Reaction

LEMMA WoundedIs ==
    ASSUME ActorOK(next), InTime(next), ActorOK(now), InTime(now),
           NEW d \in Damages, NEW blocked \in BOOLEAN
    PROVE  LET a == Wounded(d, blocked)
           IN  /\ ActorOK(a) /\ InTime(a)
               /\ a.slots = next.slots /\ a.tags = next.tags
               /\ a.pending = IF blocked \/ d = 0 THEN next.pending ELSE Posts(d)
               /\ Posts(d) \in Reaction
<1> DEFINE a == Wounded(d, blocked)
<1>1. /\ d \in Nat /\ MaxPoise \in Nat /\ MaxHealth \in Nat
  BY CombatAssumption
<1>2. /\ next.slots \in [Slot -> Running \cup {None}]
      /\ \A s \in Slot : RunOK(s, next.slots[s])
      /\ next.tags \in SUBSET {"blocking", "iframe", "staggered"}
      /\ next.health \in Nat /\ next.health <= MaxHealth
      /\ next.poise \in Nat /\ next.poise <= MaxPoise
      /\ next.stamina \in 0..MaxStamina /\ next.pending \in Pending
  BY ActorIs, CombatAssumption
<1>3. next = [slots |-> next.slots, tags |-> next.tags, health |-> next.health,
              poise |-> next.poise, stamina |-> next.stamina, pending |-> next.pending]
  BY ActorIs
<1>4. Posts(d) \in Reaction \ {"death"} /\ Posts(d) \in Pending
  BY DEF Posts, Tier, Reaction, Pending
<1>5. Less(next.health, d) \in 0..MaxHealth /\ Less(next.poise, d) \in 0..MaxPoise
  <2>1. /\ Less(next.health, d) \in Nat /\ Less(next.health, d) <= next.health
        /\ Less(next.poise, d) \in Nat /\ Less(next.poise, d) <= next.poise
    BY <1>1, <1>2, LessOK
  <2>2. QED
    BY <1>1, <1>2, <2>1
<1>6. CASE blocked \/ d = 0
  <2>1. a = [next EXCEPT !.health = Less(@, d)]
    BY <1>6 DEF Wounded
  <2>2. a = [slots |-> next.slots, tags |-> next.tags, health |-> Less(next.health, d),
             poise |-> next.poise, stamina |-> next.stamina, pending |-> next.pending]
    BY <1>3, <2>1
  <2>3. next.poise \in 0..MaxPoise
    BY <1>1, <1>2
  <2> HIDE DEF a
  <2>4. ActorOK(a) /\ InTime(a)
    BY <1>2, <1>5, <2>2, <2>3, ActorMake
  <2>5. QED
    BY <1>4, <1>6, <2>2, <2>4 DEF a
<1>7. CASE ~(blocked \/ d = 0)
  <2> DEFINE poise == IF Breaks(d) THEN MaxPoise ELSE Less(next.poise, d)
  <2>1. a = [[next EXCEPT !.health = Less(@, d)] EXCEPT !.pending = Posts(d),
                !.poise = IF Breaks(d) THEN MaxPoise ELSE Less(@, d)]
    BY <1>7 DEF Wounded
  <2>2. [next EXCEPT !.health = Less(@, d)]
          = [slots |-> next.slots, tags |-> next.tags, health |-> Less(next.health, d),
             poise |-> next.poise, stamina |-> next.stamina, pending |-> next.pending]
    BY <1>3
  <2>3. a = [slots |-> next.slots, tags |-> next.tags, health |-> Less(next.health, d),
             poise |-> poise, stamina |-> next.stamina, pending |-> Posts(d)]
    BY <2>1, <2>2
  <2>4. poise \in 0..MaxPoise
    BY <1>1, <1>5
  <2> HIDE DEF a, poise
  <2>5. ActorOK(a) /\ InTime(a)
    BY <1>2, <1>4, <1>5, <2>3, <2>4, ActorMake
  <2>6. QED
    BY <1>4, <1>7, <2>3, <2>5 DEF a
<1>8. QED
  BY <1>6, <1>7

LEMMA StrikeOK == ASSUME IInv, Strike PROVE IInv'
<1> USE DEF IInv
<1>1. /\ stage # "rest" /\ strikes < MaxStrikes /\ strikes' = strikes + 1
      /\ now' = now /\ stage' = stage /\ alive' = alive /\ owed' = owed
  BY DEF Strike
<1>2. /\ ActorOK(now) /\ InTime(now) /\ ActorOK(next) /\ InTime(next)
  BY DEF TypeOK
<1>3. PICK d \in Damages, inArc \in BOOLEAN, parryAllowed \in BOOLEAN :
         IF "iframe" \in now.tags \/ Parries(inArc, parryAllowed)
         THEN UNCHANGED <<next, doomed, posted>>
         ELSE /\ next' = Wounded(d, Blocks(inArc))
              /\ doomed' = (doomed \/ d >= now.health)
              /\ posted' = IF Blocks(inArc) \/ d = 0 THEN posted ELSE Also(Posts(d))
  BY DEF Strike
<1>4. Blocks(inArc) \in BOOLEAN
  BY DEF Blocks
<1>5. /\ ActorOK(next') /\ InTime(next')
      /\ next'.slots = next.slots /\ next'.tags = next.tags
  BY <1>2, <1>3, <1>4, WoundedIs
<1>6. doomed' \in BOOLEAN
  <2>1. CASE doomed' = doomed
    BY <2>1 DEF TypeOK
  <2>2. CASE doomed' = (doomed \/ d >= now.health)
    BY <2>2
  <2>3. QED
    BY <1>3, <2>1, <2>2
<1>7. posted' \in Reaction \cup {None, Many}
  <2>1. Posts(d) \in Reaction
    BY <1>2, <1>4, WoundedIs
  <2>2. QED
    BY <1>3, <2>1 DEF Also, TypeOK
<1>8. TypeOK'
  <2>1. strikes' \in 0..MaxStrikes
    BY <1>1, CombatAssumption DEF TypeOK
  <2>2. QED
    BY <1>1, <1>5, <1>6, <1>7, <2>1 DEF TypeOK
<1>9. Tagged(next')
  BY <1>5 DEF Tagged
<1>10. StageOK'
  <2>1. \A s \in Slot : Ran(s) => Ran(s)'
    BY <1>1, <1>5 DEF Ran, Starts, CanStart, Gate
  <2>2. Served => Served'
    BY <1>1, <1>5 DEF Served
  <2>3. QED
    BY <1>1, <1>5, <2>1, <2>2 DEF StageOK
<1>11. PostsPend'
  <2>1. CASE next' = next /\ posted' = posted
    BY <1>1, <2>1 DEF PostsPend
  <2>2. CASE next' = Wounded(d, Blocks(inArc)) /\ ~(Blocks(inArc) \/ d = 0)
             /\ posted' = Also(Posts(d))
    <3>1. next'.pending = Posts(d) /\ Posts(d) \in Reaction
      BY <1>2, <1>4, <2>2, WoundedIs
    <3>2. posted' \in Reaction => posted' = Posts(d)
      BY <2>2, <3>1, AlsoOK
    <3>3. QED
      BY <1>1, <3>1, <3>2 DEF PostsPend
  <2>3. CASE next' = Wounded(d, Blocks(inArc)) /\ (Blocks(inArc) \/ d = 0)
             /\ posted' = posted
    <3>1. next'.pending = next.pending
      BY <1>2, <1>4, <2>3, WoundedIs
    <3>2. QED
      BY <1>1, <2>3, <3>1 DEF PostsPend
  <2>4. QED
    BY <1>3, <2>1, <2>2, <2>3
<1>12. QED
  BY <1>1, <1>5, <1>8, <1>9, <1>10, <1>11

LEMMA DispatchOK == ASSUME IInv, Dispatch PROVE IInv'
<1> USE DEF IInv
<1>1. /\ stage = "open" /\ stage' = "acted" /\ now' = now /\ strikes' = strikes
      /\ doomed' = doomed /\ alive' = alive /\ owed' = owed
      /\ next.slots = now.slots /\ next.tags = now.tags
  BY DEF Dispatch, StageOK
<1>2. /\ ActorOK(now) /\ InTime(now) /\ ActorOK(next) /\ InTime(next)
  BY DEF TypeOK
<1>3. PICK keys \in SUBSET {"block", "use_skill", "dodge"}, gait \in Gaits,
           parried \in BOOLEAN :
         /\ Act(keys, gait, parried)
         /\ posted' = IF parried THEN Also("stagger_heavy") ELSE posted
  BY DEF Dispatch
<1> DEFINE w == Want(keys, gait)
           slots == [s \in Slot |-> Run(s, w)]
           tags == ActTags(w)
           stamina == Less(next.stamina, Spent(w))
           pending == ActPending(parried)
           a == next'
<1>4. a = [slots |-> slots, tags |-> tags, health |-> next.health, poise |-> next.poise,
           stamina |-> stamina, pending |-> pending]
  BY <1>2, <1>3, ActIs
<1>5. /\ \A s \in Slot : RunOK(s, slots[s])
      /\ slots \in [Slot -> Running \cup {None}]
  <2>1. \A s \in Slot : RunOK(s, Run(s, w))
    BY <1>2, RunIsOK
  <2>2. \A s \in Slot : Run(s, w) \in Running \cup {None}
    BY <2>1 DEF RunOK
  <2> HIDE DEF w
  <2>3. QED
    BY <2>1, <2>2
<1>6. tags = UNION {TagsOf(s, slots[s]) : s \in Slot}
  <2>1. tags = UNION {TagsOf(s, Run(s, w)) : s \in Slot}
    BY <1>1, <1>2, ActTagsOK
  <2> HIDE DEF w, tags
  <2>2. {TagsOf(s, Run(s, w)) : s \in Slot} = {TagsOf(s, slots[s]) : s \in Slot}
    OBVIOUS
  <2>3. QED
    BY <2>1, <2>2
<1>7. tags \in SUBSET {"blocking", "iframe", "staggered"}
  <2>1. \A s \in Slot : TagsOf(s, slots[s]) \subseteq {"blocking", "iframe", "staggered"}
    BY <1>5, TagOfSlot, SlotTags
  <2> HIDE DEF tags, slots
  <2>2. QED
    BY <1>6, <2>1
<1>8. /\ stamina \in 0..MaxStamina /\ next.health \in 0..MaxHealth
      /\ next.poise \in 0..MaxPoise
  <2>1. Spent(w) \in Nat
    BY <1>2, SpentOK
  <2>2. /\ next.stamina \in Nat /\ next.stamina <= MaxStamina /\ next.health \in Nat
        /\ next.health <= MaxHealth /\ next.poise \in Nat /\ next.poise <= MaxPoise
    BY <1>2, ActorIs
  <2>3. stamina \in Nat /\ stamina <= next.stamina
    BY <2>1, <2>2, LessOK
  <2> HIDE DEF stamina
  <2>4. QED
    BY <2>2, <2>3, CombatAssumption
<1>9. pending \in Pending
  <2>1. next.pending \in Pending
    BY <1>2, ActorIs
  <2>2. QED
    BY <2>1 DEF ActPending, Pending, Reaction
<1>10. ActorOK(next') /\ InTime(next')
  <2> HIDE DEF slots, tags, stamina, pending, a
  <2>1. ActorOK(a) /\ InTime(a)
    BY <1>4, <1>5, <1>7, <1>8, <1>9, ActorMake
  <2>2. QED
    BY <2>1 DEF a
<1>11. next'.slots = slots /\ next'.tags = tags /\ next'.pending = pending
  BY <1>4
<1>12. Tagged(next')
  <2> HIDE DEF slots, tags
  <2>1. QED
    BY <1>6, <1>11 DEF Tagged
<1>13. posted' \in Reaction \cup {None, Many}
  BY <1>3 DEF Also, TypeOK, Reaction
<1>14. TypeOK'
  BY <1>1, <1>10, <1>13 DEF TypeOK
<1>15. \A s \in Slot : Ran(s)'
  <2> SUFFICES ASSUME NEW s \in Slot PROVE Ran(s)'
    OBVIOUS
  <2>1. next'.slots[s] = Run(s, w)
    BY <1>11
  <2>2. Started(s, w) => w[s] \in DOMAIN Catalogue[s]
    BY <1>2, RunIsOK
  <2>3. \/ next'.slots[s] = Cur(s)
        \/ /\ w[s] \in DOMAIN Catalogue[s]
           /\ next'.slots[s] = Fresh(w[s]) /\ Starts(s, w[s], Cur(s))
    BY <2>1, <2>2 DEF Run, Started
  <2>4. \A id : Starts(s, id, Cur(s)) <=> Starts(s, id, Cur(s))'
    BY <1>1 DEF Starts, CanStart, Gate, Cur
  <2> HIDE DEF w
  <2>5. QED
    BY <1>1, <2>3, <2>4 DEF Ran, Cur
<1>16. Served'
  <2> SUFFICES ASSUME now.health # 0, now.pending # None
               PROVE  LET q == next'.slots.reaction
                      IN  q # None /\ ~Heavier("reaction", Fresh(now.pending), q)
    BY <1>1 DEF Served
  <2>1. next'.slots["reaction"] = Run("reaction", w)
    BY <1>11, SlotIs
  <2>2. QED
    BY <1>2, <2>1, ReactionServed
<1>17. PostsPend'
  <2>1. ASSUME posted' \in Reaction, now.pending = None PROVE next'.pending = posted'
    <3>1. next'.pending = IF parried THEN "stagger_heavy" ELSE next.pending
      BY <1>11, <2>1 DEF ActPending, TakesPending
    <3>2. CASE parried
      <4>1. posted' = "stagger_heavy"
        BY <1>3, <2>1, <3>2, AlsoOK DEF Reaction
      <4>2. QED
        BY <3>1, <3>2, <4>1
    <3>3. CASE ~parried
      BY <1>1, <1>3, <2>1, <3>1, <3>3 DEF PostsPend
    <3>4. QED
      BY <3>2, <3>3
  <2>2. QED
    BY <1>1, <2>1 DEF PostsPend
<1>18. QED
  BY <1>1, <1>10, <1>12, <1>14, <1>15, <1>16, <1>17 DEF StageOK

LEMMA IInvStep == IInv /\ [Next]_vars => IInv'
<1> SUFFICES ASSUME IInv, [Next]_vars PROVE IInv'
  OBVIOUS
<1>1. CASE BeginTick
  BY <1>1, BeginTickOK
<1>2. CASE Dispatch
  BY <1>2, DispatchOK
<1>3. CASE EndTick
  BY <1>3, EndTickOK
<1>4. CASE Strike
  BY <1>4, StrikeOK
<1>5. CASE UNCHANGED vars
  <2> USE <1>5 DEF vars
  <2>1. TypeOK'
    BY DEF IInv, TypeOK
  <2>2. \A s \in Slot : Ran(s) => Ran(s)'
    BY DEF Ran, Starts, CanStart, Gate
  <2>3. StageOK'
    BY <2>2 DEF IInv, StageOK, Served
  <2>4. InTime(now') /\ InTime(next') /\ Tagged(now') /\ Tagged(next') /\ PostsPend'
    BY DEF IInv, PostsPend
  <2>5. QED
    BY <2>1, <2>3, <2>4 DEF IInv
<1>6. QED
  BY <1>1, <1>2, <1>3, <1>4, <1>5 DEF Next, Tick

LEMMA IInvHolds == Spec => []IInv
<1>1. QED
  BY InitOK, IInvStep, PTL DEF Spec

\* Resources stay within their bounds and slots run only actions of their own,
\* in whatever order hits, costs and regeneration compose (mutate.ts,
\* dispatcher.ts, health_hit_handler.ts).
THEOREM CombatTypeCorrect == Spec => []TypeOK
<1>1. IInv => TypeOK
  BY DEF IInv
<1>2. QED
  BY <1>1, IInvHolds, PTL

\* A tag is present exactly while an action that installs it runs: no way out of
\* an action, completion or displacement, leaves its tag behind (dispatcher.ts,
\* resolvers/tags.ts).
THEOREM TagsAlwaysFollowSlots == Spec => []TagsFollowSlots
<1>1. IInv => TagsFollowSlots
  BY DEF IInv, Tagged, TagsFollowSlots
<1>2. QED
  BY <1>1, IInvHolds, PTL

-----------------------------------------------------------------------------
(* Commitment. *)

\* What a locked action is: every phase ends, and none past the first admits
\* another action.
LEMMA LockedIs ==
    ASSUME NEW s \in Slot, NEW r, RunOK(s, r), Locked(s, r)
    PROVE  LET d == Def(s, r)
           IN  /\ r # None /\ r.phase \in 1..Len(d.phases) /\ r.t \in Nat
               /\ Len(d.phases) \in 1..3
               /\ \A n \in 1..Len(d.phases) :
                     /\ d.phases[n].ticks \in Nat \ {0} /\ Ticks(s, r, n) = d.phases[n].ticks
                     /\ (n > 1 \/ d.kind = "reaction") => ~d.phases[n].free
               /\ \A n \in 1..3 : n > Len(d.phases) => Ticks(s, r, n) = 0
               /\ r.t < d.phases[r.phase].ticks
               /\ PhaseTicks(s, r) = d.phases[r.phase].ticks
<1> DEFINE d == Def(s, r)
<1>1. r # None /\ r.id \in DOMAIN Catalogue[s] /\ d = Catalogue[s][r.id]
  BY DEF Locked, RunOK, Def
<1>2. Phased(d) /\ (d.kind = "reaction" \/ d.committed)
  BY <1>1, CatalogueSane DEF Sane, Locked
<1>3. r.phase \in 1..Len(d.phases) /\ r.t \in Nat
  BY <1>1, <1>2 DEF RunOK, Phased, Running
<1>4. \A n \in 1..Len(d.phases) :
         /\ d.phases[n].ticks \in Nat \ {0}
         /\ (n > 1 \/ d.kind = "reaction") => ~d.phases[n].free
  BY <1>2 DEF Phased, Forever
<1>5. DOMAIN d.phases = 1..Len(d.phases) /\ Len(d.phases) \in 1..3
  BY <1>2 DEF Phased
<1>6. PhaseTicks(s, r) = d.phases[r.phase].ticks
  BY DEF PhaseTicks
<1>7. r.t < d.phases[r.phase].ticks
  BY <1>1, <1>3, <1>4, <1>6 DEF RunOK, Forever
<1>8. /\ \A n \in 1..Len(d.phases) : Ticks(s, r, n) = d.phases[n].ticks
      /\ \A n \in 1..3 : n > Len(d.phases) => Ticks(s, r, n) = 0
  BY <1>5 DEF Ticks
<1> HIDE DEF d
<1>9. QED
  BY <1>1, <1>3, <1>4, <1>5, <1>6, <1>7, <1>8 DEF d

\* Advancing a locked action takes it one tick further, or it has completed.
LEMMA AdvancePlays ==
    ASSUME NEW s \in Slot, NEW r, RunOK(s, r), Locked(s, r)
    PROVE  LET q == Advanced(s, r)
           IN  IF q = None THEN Elapsed(s, r) + 1 = Length(s, r)
               ELSE q.id = r.id /\ Elapsed(s, q) = Elapsed(s, r) + 1
<1> DEFINE d == Def(s, r)
           q == Advanced(s, r)
           L == Len(d.phases)
           T(n) == Ticks(s, r, n)
<1>1. /\ r # None /\ r.phase \in 1..L /\ r.t \in Nat /\ L \in 1..3
      /\ \A n \in 1..L : T(n) \in Nat /\ T(n) # 0
      /\ \A n \in 1..3 : n > L => T(n) = 0
      /\ r.t < T(r.phase) /\ PhaseTicks(s, r) = T(r.phase)
  BY LockedIs
<1>2. r = [id |-> r.id, phase |-> r.phase, t |-> r.t]
  BY <1>1 DEF RunOK, Running
<1>3. \A m, t : LET x == [id |-> r.id, phase |-> m, t |-> t]
                IN  Elapsed(s, x) = (IF m > 1 THEN T(1) ELSE 0)
                                      + (IF m > 2 THEN T(2) ELSE 0) + t
  BY DEF Elapsed, Ticks, Def
<1>4. Elapsed(s, r) = (IF r.phase > 1 THEN T(1) ELSE 0)
                        + (IF r.phase > 2 THEN T(2) ELSE 0) + r.t
  BY DEF Elapsed
<1>5. Length(s, r) = T(1) + T(2) + T(3)
  BY DEF Length
<1>6. PhaseTicks(s, r) # Forever
  BY <1>1 DEF Forever
<1>7. \A n \in 1..3 : T(n) \in Nat
  BY <1>1
<1>8. CASE ~PhaseEnds(s, r)
  <2>1. q = [id |-> r.id, phase |-> r.phase, t |-> r.t + 1]
    <3>1. q = [r EXCEPT !.t = @ + 1]
      BY <1>1, <1>6, <1>8 DEF Advanced
    <3>2. QED
      BY <1>2, <3>1
  <2>2. q # None
    BY <1>1, <1>6, <1>8, <2>1, AdvancedOK, CombatAssumption DEF RunOK, Running
  <2>3. q.id = r.id
    BY <2>1
  <2> HIDE DEF q, T
  <2>4. Elapsed(s, q) = (IF r.phase > 1 THEN T(1) ELSE 0)
                          + (IF r.phase > 2 THEN T(2) ELSE 0) + (r.t + 1)
    BY <1>3, <2>1
  <2>5. Elapsed(s, q) = Elapsed(s, r) + 1
    <3> DEFINE b == (IF r.phase > 1 THEN T(1) ELSE 0) + (IF r.phase > 2 THEN T(2) ELSE 0)
    <3>1. b \in Nat /\ r.t \in Nat
      BY <1>1, <1>7
    <3>2. Elapsed(s, r) = b + r.t /\ Elapsed(s, q) = b + (r.t + 1)
      BY <1>4, <2>4
    <3> HIDE DEF b
    <3>3. QED
      BY <3>1, <3>2
  <2>6. QED
    BY <2>2, <2>3, <2>5 DEF q
<1>9. CASE PhaseEnds(s, r) /\ r.phase < L
  <2>1. q = [id |-> r.id, phase |-> r.phase + 1, t |-> 0]
    <3>1. q = [r EXCEPT !.phase = @ + 1, !.t = 0]
      BY <1>1, <1>6, <1>9 DEF Advanced
    <3>2. QED
      BY <1>2, <3>1
  <2>2. q # None
    BY <1>1, <2>1, AdvancedOK, CombatAssumption DEF RunOK, Running
  <2>3. q.id = r.id
    BY <2>1
  <2>4. r.t + 1 = T(r.phase)
    BY <1>1, <1>7, <1>9 DEF PhaseEnds
  <2> HIDE DEF q, T, L
  <2>5. Elapsed(s, q) = (IF r.phase + 1 > 1 THEN T(1) ELSE 0)
                          + (IF r.phase + 1 > 2 THEN T(2) ELSE 0) + 0
    BY <1>3, <2>1
  <2>6. r.phase = 1 \/ r.phase = 2
    BY <1>1, <1>9
  <2>7. Elapsed(s, q) = Elapsed(s, r) + 1
    <3>1. T(1) \in Nat /\ T(2) \in Nat /\ r.t \in Nat
      BY <1>1, <1>7
    <3>2. CASE r.phase = 1
      BY <1>4, <2>4, <2>5, <3>1, <3>2
    <3>3. CASE r.phase = 2
      BY <1>4, <2>4, <2>5, <3>1, <3>3
    <3>4. QED
      BY <2>6, <3>2, <3>3
  <2>8. QED
    BY <2>2, <2>3, <2>7 DEF q
<1>10. CASE PhaseEnds(s, r) /\ ~(r.phase < L)
  <2>1. q = None
    BY <1>1, <1>6, <1>10 DEF Advanced
  <2>2. r.t + 1 = T(r.phase) /\ r.phase = L
    BY <1>1, <1>7, <1>10 DEF PhaseEnds
  <2>3. Elapsed(s, r) + 1 = Length(s, r)
    <3> HIDE DEF T, L
    <3>1. L = 1 \/ L = 2 \/ L = 3
      BY <1>1
    <3>2. QED
      BY <1>1, <1>4, <1>5, <1>7, <2>2, <3>1
  <2>4. QED
    BY <2>1, <2>3
<1>11. QED
  BY <1>8, <1>9, <1>10

\* What starts in the slot of a locked action that goes on is heavier.
LEMMA StartsOverLocked ==
    ASSUME NEW s \in Slot, NEW r, RunOK(s, r), Locked(s, r),
           Advanced(s, r) # None, NEW want \in DOMAIN Catalogue[s],
           Starts(s, want, Advanced(s, r))
    PROVE  s = "reaction" /\ Heavier(s, Fresh(want), r)
<1> DEFINE cur == Advanced(s, r)
           d == Def(s, r)
<1>1. RunOK(s, cur) /\ cur # None /\ cur.id = r.id /\ Def(s, cur) = d
  BY AdvancedOK DEF Def
<1>2. Elapsed(s, cur) = Elapsed(s, r) + 1
  BY AdvancePlays
<1>3. Locked(s, cur)
  <2>1. Elapsed(s, r) \in Nat
    <3>1. /\ r.t \in Nat /\ \A n \in 1..3 : Ticks(s, r, n) \in Nat
      BY LockedIs
    <3>2. QED
      BY <3>1 DEF Elapsed
  <2>2. QED
    BY <1>1, <1>2, <2>1 DEF Locked
<1>4. Displaces(s, want, cur)
  BY <1>1 DEF Starts
<1>5. \A n \in 1..Len(d.phases) : (n > 1 \/ d.kind = "reaction") => ~d.phases[n].free
  BY LockedIs
<1>6. cur.phase \in 1..Len(d.phases) /\ cur.t \in Nat
  BY <1>1, <1>3, LockedIs
<1>7. ASSUME d.committed => InGrace(cur), d.phases[cur.phase].free
      PROVE  FALSE
  <2>1. cur.phase = 1 /\ d.kind # "reaction"
    BY <1>5, <1>6, <1>7
  <2>2. d.committed /\ Elapsed(s, r) >= 1
    BY <2>1 DEF Locked
  <2>3. cur.t <= 1
    BY <1>7, <2>2 DEF InGrace
  <2>4. Elapsed(s, cur) = cur.t
    BY <1>6, <2>1 DEF Elapsed
  <2>5. Elapsed(s, r) \in Nat
    <3>1. /\ r.t \in Nat /\ \A n \in 1..3 : Ticks(s, r, n) \in Nat
      BY LockedIs
    <3>2. QED
      BY <3>1 DEF Elapsed
  <2>6. QED
    BY <1>2, <1>6, <2>2, <2>3, <2>4, <2>5
<1>8. Catalogue[s][want].kind = "reaction" /\ Catalogue[s][want].weight > d.weight
  BY <1>1, <1>4, <1>7 DEF Displaces
<1>9. QED
  BY <1>8, FreshOK, CatalogueSane DEF Heavier

\* A reaction, or a committed action past its first tick, plays to its end, one
\* tick per tick: keys and hits cannot cut it short, save a heavier reaction in
\* its own slot (dispatcher.ts, arbitrate).
THEOREM LockedPlaysOut == Spec => PlaysOut
<1>1. ASSUME IInv, EndTick, NEW s \in Slot, Locked(s, now.slots[s])
      PROVE  LET r == now.slots[s]
                 q == now'.slots[s]
             IN  \/ q # None /\ q.id = r.id /\ Elapsed(s, q) = Elapsed(s, r) + 1
                 \/ Elapsed(s, r) + 1 = Length(s, r)
                 \/ s = "reaction" /\ Heavier(s, q, r)
  <2> DEFINE r == now.slots[s]
             q == now'.slots[s]
  <2>1. now' = next /\ Ran(s) /\ RunOK(s, r)
    BY <1>1, ActorIs DEF EndTick, IInv, StageOK, TypeOK
  <2>2. CASE q = Advanced(s, r)
    BY <1>1, <2>1, <2>2, AdvancePlays
  <2>3. ASSUME NEW want \in DOMAIN Catalogue[s], q = Fresh(want),
               Starts(s, want, Advanced(s, r))
        PROVE  \/ Elapsed(s, r) + 1 = Length(s, r)
               \/ s = "reaction" /\ Heavier(s, q, r)
    BY <1>1, <2>1, <2>3, AdvancePlays, StartsOverLocked
  <2>4. QED
    BY <2>1, <2>2, <2>3 DEF Ran
<1>2. [Next]_vars /\ stage = "acted" /\ stage' = "rest" => EndTick
  BY DEF Next, Tick, BeginTick, Dispatch, EndTick, Strike, vars
<1>3. IInv /\ [Next]_vars =>
        [stage = "acted" /\ stage' = "rest" =>
          \A s \in Slot :
             LET r == now.slots[s]
                 q == now'.slots[s]
             IN  Locked(s, r) =>
                   \/ q # None /\ q.id = r.id /\ Elapsed(s, q) = Elapsed(s, r) + 1
                   \/ Elapsed(s, r) + 1 = Length(s, r)
                   \/ s = "reaction" /\ Heavier(s, q, r)]_vars
  BY <1>1, <1>2
<1>4. QED
  BY <1>3, IInvHolds, PTL DEF Spec, PlaysOut

\* A reaction posted alone in a tick is played in the next, or something no
\* lighter is, or the actor died (health_hit_handler.ts, intent.ts).
THEOREM LonePostAlwaysPlays == Spec => LonePostPlays
<1>1. ASSUME IInv, EndTick, owed # None
      PROVE  \/ ~alive'
             \/ /\ now'.slots.reaction # None
                /\ ~Heavier("reaction", Fresh(owed), now'.slots.reaction)
  <2>1. now.pending = owed /\ Served /\ now' = next /\ alive' = ~Dies
    BY <1>1 DEF IInv, PostsPend, StageOK, EndTick
  <2>2. CASE now.health = 0
    BY <2>1, <2>2 DEF Dies
  <2>3. CASE now.health # 0
    BY <1>1, <2>1, <2>3 DEF Served
  <2>4. QED
    BY <2>2, <2>3
<1>2. [Next]_vars /\ stage = "acted" /\ stage' = "rest" => EndTick
  BY DEF Next, Tick, BeginTick, Dispatch, EndTick, Strike, vars
<1>3. IInv /\ [Next]_vars =>
        [stage = "acted" /\ stage' = "rest" /\ owed # None =>
          \/ ~alive'
          \/ /\ now'.slots.reaction # None
             /\ ~Heavier("reaction", Fresh(owed), now'.slots.reaction)]_vars
  BY <1>1, <1>2
<1>4. QED
  BY <1>3, IInvHolds, PTL DEF Spec, LonePostPlays
====
