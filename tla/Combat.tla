-------------------------------- MODULE Combat --------------------------------
(* One actor in a fight: the action dispatcher that runs its slots, and the   *)
(* hit handler through which its opponents act on it.                         *)
(*                                                                            *)
(* Everything reads the state committed at the end of the last tick (now) and *)
(* queues its writes (next), which take effect in program order.  A tick is   *)
(* BeginTick (resources), any number of Strikes by opponents the dispatcher   *)
(* visits before the actor, Dispatch of the actor, Strikes by opponents it    *)
(* visits after, and EndTick (deaths, commit).  What the geometry decides -   *)
(* who is hit, how hard, inside the block arc or not - is a choice.           *)
EXTENDS Integers, Sequences

CONSTANTS
    None,            \* no action, nothing pending
    MaxHealth, MaxPoise, MaxStamina,
    Damages,         \* damage of a hit, after every multiplier
    HeavyOvershoot,  \* heavyTierDamageOvershoot
    ParryWindow,     \* parryWindowTicks
    SwingTicks,      \* windup, active and winddown of a swing
    DashTicks,       \* the dash of a dodge roll
    PlayTicks,       \* the play phase of each reaction
    SwingCost, DodgeCost,
    Gaits,           \* steady locomotion actions
    MaxStrikes       \* bound: opponents that hit the actor in one tick

Reaction == {"hit_front", "stagger_light", "stagger_heavy", "death"}
Name == Gaits \cup Reaction \cup {"primary_idle", "block", "swing_light", "dodge_roll"}

\* A running action: phase is an index into its phases, t is ticksInPhase.
Running == [id : Name, phase : Nat, t : Nat]

\* history: more than one reaction
Many == "many"

ASSUME CombatAssumption ==
    /\ {MaxHealth, MaxPoise, MaxStamina, DashTicks} \subseteq Nat \ {0}
    /\ {HeavyOvershoot, ParryWindow, SwingCost, DodgeCost, MaxStrikes} \subseteq Nat
    /\ Damages \subseteq Nat
    /\ SwingTicks \in [1..3 -> Nat \ {0}]
    /\ PlayTicks \in [Reaction -> Nat \ {0}]
    /\ Gaits # {} /\ Gaits \subseteq {"idle", "walk_forward", "walk_backward",
                                      "strafe_left", "strafe_right"}
    /\ None \notin Name \cup Running \cup {Many}

-----------------------------------------------------------------------------
(* The actions, as content defines them.  A phase either admits every        *)
(* cancellation (into "any") or none; tags are set by the first phase's      *)
(* :enter and cleared by its :exit.                                          *)

Forever == 0  \* ticks: -1

Hold == [ticks |-> Forever, free |-> TRUE]
Busy(n) == [ticks |-> n, free |-> FALSE]

Ambient ==
    [kind |-> "ambient", phases |-> <<Hold>>, tags |-> {}, gates |-> {},
     cost |-> 0, committed |-> FALSE, weight |-> 0]

Block == [Ambient EXCEPT !.tags = {"blocking"}]

Swing ==
    [kind |-> "active",
     phases |-> <<[ticks |-> SwingTicks[1], free |-> TRUE],
                  Busy(SwingTicks[2]), Busy(SwingTicks[3])>>,
     tags |-> {}, gates |-> {}, cost |-> SwingCost, committed |-> TRUE,
     weight |-> 5]

DodgeRoll ==
    [kind |-> "active", phases |-> <<Busy(DashTicks)>>, tags |-> {"iframe"},
     gates |-> {"not_staggered", "not_exhausted"}, cost |-> DodgeCost,
     committed |-> TRUE, weight |-> 6]

React(id, interruptPriority, tags) ==
    [kind |-> "reaction", phases |-> <<Busy(PlayTicks[id])>>, tags |-> tags,
     gates |-> {}, cost |-> 0, committed |-> FALSE,
     weight |-> interruptPriority]

HitFront     == React("hit_front", 10, {})
StaggerLight == React("stagger_light", 50, {"staggered"})
StaggerHeavy == React("stagger_heavy", 60, {"staggered"})
Death        == React("death", 100, {})

Catalogue ==
    [primary    |-> [primary_idle |-> Ambient, block |-> Block,
                     swing_light |-> Swing],
     locomotion |-> [a \in Gaits \cup {"dodge_roll"} |->
                      IF a = "dodge_roll" THEN DodgeRoll ELSE Ambient],
     reaction   |-> [hit_front |-> HitFront, stagger_light |-> StaggerLight,
                     stagger_heavy |-> StaggerHeavy, death |-> Death]]

Slot == DOMAIN Catalogue

-----------------------------------------------------------------------------
VARIABLES
    now,      \* the actor as committed at the end of the last tick
    next,     \* the same with the writes queued in this tick
    stage,    \* "rest" between ticks, "open" before, "acted" after Dispatch
    strikes,  \* hits taken in this tick
    doomed,   \* a death has been requested in this tick
    alive,
    posted,   \* history: the reactions posted in this tick, Many if several
    owed      \* history: the reaction the last tick promised to play

vars == <<now, next, stage, strikes, doomed, alive, posted, owed>>

Min2(a, b) == IF a < b THEN a ELSE b

\* Mutant: the clamp is left out.
LessUnclamped(a, d) == a - d

\* adjustResourceKey by -d: clamped at zero.
Less(a, d) == IF a > d THEN a - d ELSE 0

\* An action that starts.
Fresh(id) == [id |-> id, phase |-> 1, t |-> 0]

Def(s, r) == Catalogue[s][r.id]

PhaseTicks(s, r) == Def(s, r).phases[r.phase].ticks

\* A perpetual phase counts on for ever; nobody looks beyond the parry window
\* or the two ticks a dodge waits for.
Count(n) == Min2(n, IF ParryWindow > 2 THEN ParryWindow ELSE 2)

\* history
Also(id) == IF posted = None THEN id ELSE Many

Init ==
    /\ now = [slots   |-> [s \in Slot |-> None], tags |-> {},
              health  |-> MaxHealth, poise |-> MaxPoise,
              stamina |-> MaxStamina, pending |-> None]
    /\ next = now
    /\ stage = "rest"
    /\ strikes = 0
    /\ doomed = FALSE
    /\ alive = TRUE
    /\ posted = None
    /\ owed = None

-----------------------------------------------------------------------------
(* The hit handler                                                           *)

\* The Blocking tag counts while there is stamina, inside the block arc.
Blocks(inArc) == now.stamina > 0 /\ "blocking" \in now.tags /\ inArc

\* The opening ticks of the held block parry what a weapon delivers.
Parries(inArc, parryAllowed) ==
    /\ parryAllowed
    /\ Blocks(inArc)
    /\ LET r == now.slots.primary
       IN  r # None /\ r.id = "block" /\ r.t < ParryWindow

\* An unblocked hit breaks the poise it does not leave.
Breaks(d) == d >= now.poise

Tier(d) ==
    IF d - now.poise >= HeavyOvershoot THEN "stagger_heavy" ELSE "stagger_light"

\* The reaction a hit that was not blocked posts: the stagger is posted after
\* the flinch and replaces it.
Posts(d) == IF Breaks(d) THEN Tier(d) ELSE "hit_front"

Wounded(d, blocked) ==
    LET hurt == [next EXCEPT !.health = Less(@, d)]
    IN  IF blocked \/ d = 0 THEN hurt
        ELSE [hurt EXCEPT !.pending = Posts(d),
                          !.poise = IF Breaks(d) THEN MaxPoise ELSE Less(@, d)]

\* An opponent hits the actor.  An i-frame or a parry turns the hit away;
\* what a parry does, it does to the opponent.  Every decision reads
\* committed state; health and poise are lowered by composing mutates.
Strike ==
    /\ stage # "rest" /\ strikes < MaxStrikes
    /\ strikes' = strikes + 1
    /\ UNCHANGED <<now, stage, alive, owed>>
    /\ \E d \in Damages, inArc \in BOOLEAN, parryAllowed \in BOOLEAN :
          IF "iframe" \in now.tags \/ Parries(inArc, parryAllowed)
          THEN UNCHANGED <<next, doomed, posted>>
          ELSE /\ next' = Wounded(d, Blocks(inArc))
               /\ doomed' = (doomed \/ d >= now.health)
               /\ posted' = IF Blocks(inArc) \/ d = 0 THEN posted
                            ELSE Also(Posts(d))

-----------------------------------------------------------------------------
(* The dispatcher                                                            *)

PhaseEnds(s, r) ==
    PhaseTicks(s, r) # Forever /\ r.t + 1 >= PhaseTicks(s, r)

\* advance: one tick of a running action; None when it has completed.
Advanced(s, r) ==
    IF r = None THEN None
    ELSE IF PhaseTicks(s, r) = Forever THEN [r EXCEPT !.t = Count(@ + 1)]
    ELSE IF ~PhaseEnds(s, r) THEN [r EXCEPT !.t = @ + 1]
    ELSE IF r.phase < Len(Def(s, r).phases)
    THEN [r EXCEPT !.phase = @ + 1, !.t = 0]
    ELSE None

\* The blade is traced when the active phase is entered and on its ticks.
Traces(r) ==
    /\ r # None /\ r.id = "swing_light"
    /\ \/ r.phase = 1 /\ PhaseEnds("primary", r)
       \/ r.phase = 2 /\ r.t > 0

Swinging ==
    LET r == now.slots.primary
    IN  r # None /\ Def("primary", r).kind = "active"

PrimaryIntent(keys) ==
    CASE "block" \in keys            -> "block"
      [] "block" \notin keys /\ Swinging -> None
      [] OTHER -> IF "use_skill" \in keys THEN "swing_light" ELSE "primary_idle"

\* gait is what the velocity asks for.
LocomotionIntent(keys, gait) ==
    LET r == now.slots.locomotion
        steady == r = None \/ r.id \in Gaits
    IN  CASE ~steady -> None
          [] steady /\ "dodge" \in keys /\ r # None /\ r.t > 1 -> "dodge_roll"
          [] OTHER -> gait

ReactionIntent == IF now.health = 0 THEN "death" ELSE now.pending

\* Mutant: the component is removed whether or not it was there at the start
\* of the tick.
TakesAny == now.health > 0

\* The resolver takes the pending reaction it serves; the removal also undoes
\* what was posted earlier in this tick.
TakesPending == now.health > 0 /\ now.pending # None

Gate(g) ==
    CASE g = "not_staggered" -> "staggered" \notin now.tags
      [] g = "not_exhausted" -> now.stamina > 0

CanStart(s, want) ==
    /\ \A g \in Catalogue[s][want].gates : Gate(g)
    /\ Catalogue[s][want].cost <= now.stamina

InGrace(r) == r.phase = 1 /\ r.t <= 1

\* Mutant: a reaction has no weight of its own once it runs (before T-254).
DisplacesAnyReaction(s, want, cur) ==
    \/ Catalogue[s][want].kind = "reaction"
    \/ /\ Def(s, cur).committed => InGrace(cur)
       /\ Def(s, cur).phases[cur.phase].free

\* Whether want may displace cur: a weightier reaction always, anything else
\* where the running action's commitment and cancel rules let it.
Displaces(s, want, cur) ==
    \/ /\ Catalogue[s][want].kind = "reaction"
       /\ Catalogue[s][want].weight > Def(s, cur).weight
    \/ /\ Def(s, cur).committed => InGrace(cur)
       /\ Def(s, cur).phases[cur.phase].free

\* arbitrate: cur is the slot's action after it has been advanced.
Starts(s, want, cur) ==
    /\ want # None
    /\ cur # None => cur.id # want /\ Displaces(s, want, cur)
    /\ CanStart(s, want)

TagsOf(s, r) == IF r = None THEN {} ELSE Def(s, r).tags

\* Mutant: a displaced action's :exit does not fire.
ExitedOnCompletion(s, started) ==
    IF Advanced(s, now.slots[s]) = None THEN TagsOf(s, now.slots[s]) ELSE {}

\* The tags whose clear_tag fires: the action completed, or is displaced.
Exited(s, started) ==
    IF Advanced(s, now.slots[s]) = None \/ started
    THEN TagsOf(s, now.slots[s]) ELSE {}

CostOf(s, want, started) == IF started THEN Catalogue[s][want].cost ELSE 0

\* Dispatch of the actor: advance every slot, resolve the intents from
\* committed state, arbitrate.  A swing may be parried meanwhile, which posts
\* a heavy stagger on the actor.
Act(keys, gait, parried) ==
    LET want == [primary    |-> PrimaryIntent(keys),
                 locomotion |-> LocomotionIntent(keys, gait),
                 reaction   |-> ReactionIntent]
        cur     == [s \in Slot |-> Advanced(s, now.slots[s])]
        started == [s \in Slot |-> Starts(s, want[s], cur[s])]
        run     == [s \in Slot |-> IF started[s] THEN Fresh(want[s]) ELSE cur[s]]
        spent   == CostOf("primary", want.primary, started.primary)
                   + CostOf("locomotion", want.locomotion, started.locomotion)
    IN  next' = [next EXCEPT
          !.slots   = run,
          !.tags    = (@ \ UNION {Exited(s, started[s]) : s \in Slot})
                      \cup UNION {TagsOf(s, run[s]) : s \in {x \in Slot : started[x]}},
          !.stamina = Less(@, spent),
          !.pending = IF TakesPending THEN None
                      ELSE IF parried THEN "stagger_heavy" ELSE @]

Dispatch ==
    /\ stage = "open"
    /\ stage' = "acted"
    /\ \E keys \in SUBSET {"block", "use_skill", "dodge"}, gait \in Gaits,
          parried \in BOOLEAN :
          /\ parried => Traces(now.slots.primary)
          /\ Act(keys, gait, parried)
          /\ posted' = IF parried THEN Also("stagger_heavy") ELSE posted
    /\ UNCHANGED <<now, strikes, doomed, alive, owed>>

-----------------------------------------------------------------------------
(* The tick                                                                  *)

\* ResourceSystem runs before the dispatcher; modifiers may stop a regeneration.
BeginTick ==
    /\ stage = "rest" /\ alive
    /\ stage' = "open"
    /\ strikes' = 0 /\ doomed' = FALSE /\ posted' = None
    /\ \E p, s \in {0, 1} :
          next' = [now EXCEPT !.poise   = Min2(@ + p, MaxPoise),
                              !.stamina = Min2(@ + s, MaxStamina)]
    /\ UNCHANGED <<now, alive, owed>>

\* DeathSystem, the last system: a death requested by a hit, or a health that
\* several hits of the previous tick brought to zero.
Dies == doomed \/ now.health = 0

\* history: the reaction that is the only one posted in the tick and did not
\* meet a pending one of the tick before.
Promised ==
    IF posted \in Reaction /\ now.pending = None THEN posted ELSE None

EndTick ==
    /\ stage = "acted"
    /\ stage' = "rest"
    /\ alive' = ~Dies
    /\ now' = next
    /\ owed' = Promised
    /\ strikes' = 0 /\ doomed' = FALSE /\ posted' = None
    /\ UNCHANGED next

Tick == BeginTick \/ Dispatch \/ EndTick

Next == Tick \/ Strike

Spec == Init /\ [][Next]_vars

-----------------------------------------------------------------------------
(* Properties                                                                *)

ActorOK(a) ==
    /\ a \in [slots   : [Slot -> Running \cup {None}],
               tags    : SUBSET {"blocking", "iframe", "staggered"},
               health  : 0..MaxHealth,
               poise   : 0..MaxPoise,
               stamina : 0..MaxStamina,
               pending : (Reaction \ {"death"}) \cup {None}]
    /\ \A s \in Slot : a.slots[s] # None =>
          /\ a.slots[s].id \in DOMAIN Catalogue[s]
          /\ a.slots[s].phase \in DOMAIN Def(s, a.slots[s]).phases

\* Every variable has its type; no resource leaves its bounds, in whatever
\* order the writes of a tick compose.
TypeOK ==
    /\ ActorOK(now) /\ ActorOK(next)
    /\ stage \in {"rest", "open", "acted"}
    /\ strikes \in 0..MaxStrikes
    /\ doomed \in BOOLEAN /\ alive \in BOOLEAN
    /\ posted \in Reaction \cup {None, Many}
    /\ owed \in Reaction \cup {None}

\* A tag is present exactly while an action that installs it occupies its
\* slot ("that window is the stagger", "the dash phase's ticks is the i-frame
\* window"): a displaced or completed action never leaves its tag behind, and
\* an action that replaces another of the same tag keeps it.
TagsFollowSlots ==
    now.tags = UNION {TagsOf(s, now.slots[s]) : s \in Slot}

\* Ticks an action has been running, and the ticks it takes.  No action has
\* more than three phases.
Ticks(s, r, n) ==
    IF n \in DOMAIN Def(s, r).phases THEN Def(s, r).phases[n].ticks ELSE 0
Elapsed(s, r) ==
    (IF r.phase > 1 THEN Ticks(s, r, 1) ELSE 0)
      + (IF r.phase > 2 THEN Ticks(s, r, 2) ELSE 0) + r.t
Length(s, r) == Ticks(s, r, 1) + Ticks(s, r, 2) + Ticks(s, r, 3)

\* An action nobody may cancel any more: a reaction, or a committed action
\* past its first tick.
Locked(s, r) ==
    r # None /\ \/ Def(s, r).kind = "reaction"
                \/ Def(s, r).committed /\ Elapsed(s, r) >= 1

Heavier(s, a, b) == a # None /\ Def(s, a).weight > Def(s, b).weight

\* Commitment (T-295) and reactions (T-254): a locked action plays to its last
\* tick, one tick per tick, whatever keys are held and hits taken; in its own
\* slot only a weightier reaction cuts in.
PlaysOut ==
    [][stage = "acted" /\ stage' = "rest" =>
          \A s \in Slot :
             LET r == now.slots[s]
                 q == now'.slots[s]
             IN  Locked(s, r) =>
                   \/ q # None /\ q.id = r.id /\ Elapsed(s, q) = Elapsed(s, r) + 1
                   \/ Elapsed(s, r) + 1 = Length(s, r)
                   \/ s = "reaction" /\ Heavier(s, q, r)]_vars

\* "Stagger supersedes the flinch", "a parry hard-staggers the attacker": a
\* reaction that is posted alone in its tick, and does not meet a pending one,
\* is played in the next tick, or one at least as heavy is, or the actor died.
LonePostPlays ==
    [][stage = "acted" /\ stage' = "rest" /\ owed # None =>
          \/ ~alive'
          \/ /\ now'.slots.reaction # None
             /\ ~Heavier("reaction", Fresh(owed), now'.slots.reaction)]_vars

\* "Presence = the actor is in stagger recovery and may not start actions."
StaggeredStartsNothing ==
    [][stage = "acted" /\ stage' = "rest" /\ "staggered" \in now.tags =>
          \A s \in {"primary", "locomotion"} :
             LET q == now'.slots[s]
             IN  ~(q # None /\ Def(s, q).kind = "active" /\ Elapsed(s, q) = 0)]_vars
=============================================================================
