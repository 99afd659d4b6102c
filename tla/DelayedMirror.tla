---------------------------- MODULE DelayedMirror ----------------------------
(***************************************************************************)
(* What a stream of messages is to the page that reads it, with no spawns, *)
(* deltas, versions or queues: everything the page ever shows is a picture *)
(* of the world at one moment, exact in all that it was to show then, and  *)
(* it goes through these pictures in the order of their moments, late but  *)
(* without skipping one or mixing two.  Only when the world moves and no   *)
(* picture is sent, the pictures are blurred from then on in what moved:   *)
(* they show it as it is or as the picture before did.                     *)
(***************************************************************************)
EXTENDS Naturals, Sequences

CONSTANTS
    Entity,
    Hidden,
    Body     \* an entity that may enter the world on its own

VARIABLES
    on,      \* a page is being served
    world,   \* world[e]: the component of e
    subject, \* what the page is to show
    shown,   \* the picture it shows
    coming,  \* the pictures on their way to it, oldest first
    blurred  \* the part of the subject that moved without a picture

vars == <<on, world, subject, shown, coming, blurred>>

Taken(s, w) == [e \in Entity |-> IF e \in s THEN w[e] ELSE Hidden]
Blank == Taken({}, world)

\* The last picture taken.
Latest == IF coming = <<>> THEN shown ELSE coming[Len(coming)]

\* A picture that shows some entities as the last one did.
Retaken(old, s, w) == [e \in Entity |-> IF e \in old THEN Latest[e] ELSE Taken(s, w)[e]]

\* The world moves on, and a picture of it is sent.
Send ==
    /\ on /\ on'
    /\ subject' \subseteq Entity
    /\ blurred' = blurred \cap subject'
    /\ \E old \in SUBSET blurred' : coming' = Append(coming, Retaken(old, subject', world'))
    /\ UNCHANGED shown

\* The world moves on, and no picture is sent.
Miss ==
    /\ on /\ on'
    /\ blurred \subseteq blurred' /\ blurred' \subseteq subject
    /\ \A e \in subject \ blurred' : world'[e] = world[e]
    /\ UNCHANGED <<subject, shown, coming>>

Show ==
    /\ on /\ on'
    /\ coming # <<>>
    /\ shown' = Head(coming)
    /\ coming' = Tail(coming)
    /\ UNCHANGED <<world, subject, blurred>>

\* Another page is served, from nothing.
Start ==
    /\ on'
    /\ subject' \subseteq Entity
    /\ shown' = Blank
    /\ coming' = <<Taken(subject', world)>>
    /\ blurred' = {}
    /\ UNCHANGED world

Stop ==
    /\ ~on'
    /\ subject' = {}
    /\ shown' = Blank
    /\ coming' = <<>>
    /\ blurred' = {}

\* With nobody watching the world moves as it likes; a page that is served is
\* not told only of a body's entry.
Change ==
    /\ UNCHANGED <<on, subject, shown, coming, blurred>>
    /\ on => \A e \in Entity \ {Body} : world'[e] = world[e]

Init ==
    /\ on = FALSE
    /\ world \in [Entity -> Nat]
    /\ subject = {}
    /\ shown = Blank
    /\ coming = <<>>
    /\ blurred = {}

Next == Send \/ Miss \/ Show \/ Start \/ Stop \/ Change

Spec == Init /\ [][Next]_vars
=============================================================================
