---------------------------- MODULE AbstractWorld ----------------------------
(***************************************************************************)
(* What engine/src/world.ts promises its callers, without indices, slots   *)
(* or changesets: deferred operations are invisible until the end of the   *)
(* tick, then behave as if each was applied in program order to a private  *)
(* copy of the store, which replaces the store in one step together with   *)
(* the removal of the entities destroyed during the tick.                  *)
(***************************************************************************)
EXTENDS Naturals, Sequences

CONSTANTS Entity, Component, Value, Mutation, Effect, Absent

VARIABLES
    alive,    \* entities that exist
    doomed,   \* entities that the end of the tick removes
    value,    \* value[e][c]: what a reader sees
    queue,    \* operations deferred to the end of the tick
    staged,   \* the private copy, while the end of the tick runs
    staging   \* TRUE while the end of the tick runs

vars == <<alive, doomed, value, queue, staged, staging>>

Nothing == [c \in Component |-> Absent]
Blank == [e \in Entity |-> Nothing]

Operation ==
    [kind : {"set"}, entity : Entity, comp : Component, arg : Value]
      \cup [kind : {"mutate"}, entity : Entity, comp : Component, arg : Mutation]
      \cup [kind : {"remove"}, entity : Entity, comp : Component, arg : {Absent}]

\* An operation applied to a store on its own.
Apply(op, s) ==
    CASE op.kind = "set"    -> [s EXCEPT ![op.entity][op.comp] = op.arg]
      [] op.kind = "remove" -> [s EXCEPT ![op.entity][op.comp] = Absent]
      [] op.kind = "mutate" ->
            IF s[op.entity][op.comp] = Absent THEN s
            ELSE [s EXCEPT ![op.entity][op.comp] = Effect[op.arg][@]]

Init ==
    /\ alive = {}
    /\ doomed = {}
    /\ value = Blank
    /\ queue = <<>>
    /\ staged = Blank
    /\ staging = FALSE

Spawn(e) ==
    /\ ~staging
    /\ e \notin alive
    /\ alive' = alive \cup {e}
    /\ UNCHANGED <<doomed, value, queue, staged, staging>>

Doom(e) ==
    /\ ~staging
    /\ doomed' = doomed \cup {e}
    /\ UNCHANGED <<alive, value, queue, staged, staging>>

\* An immediate write or erase is visible at once.
Poke(e, c, v) ==
    /\ ~staging
    /\ e \in alive
    /\ value' = [value EXCEPT ![e][c] = v]
    /\ UNCHANGED <<alive, doomed, queue, staged, staging>>

Defer(op) ==
    /\ ~staging
    /\ queue' = Append(queue, op)
    /\ UNCHANGED <<alive, doomed, value, staged, staging>>

BeginStaging ==
    /\ ~staging
    /\ staging' = TRUE
    /\ staged' = value
    /\ UNCHANGED <<alive, doomed, value, queue>>

\* The next operation acts on the copy, unless its entity is gone or doomed.
Stage ==
    /\ staging
    /\ queue # <<>>
    /\ staged' = IF Head(queue).entity \in alive \ doomed
                 THEN Apply(Head(queue), staged) ELSE staged
    /\ queue' = Tail(queue)
    /\ UNCHANGED <<alive, doomed, value, staging>>

Swap ==
    /\ staging
    /\ queue = <<>>
    /\ value' = [e \in Entity |-> IF e \in doomed THEN Nothing ELSE staged[e]]
    /\ alive' = alive \ doomed
    /\ doomed' = {}
    /\ staged' = Blank
    /\ staging' = FALSE
    /\ UNCHANGED queue

Next ==
    \/ \E e \in Entity : Spawn(e) \/ Doom(e)
    \/ \E e \in Entity, c \in Component, v \in Value \cup {Absent} : Poke(e, c, v)
    \/ \E op \in Operation : Defer(op)
    \/ BeginStaging
    \/ Stage
    \/ Swap

Spec == Init /\ [][Next]_vars
=============================================================================
