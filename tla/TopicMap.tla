------------------------------ MODULE TopicMap ------------------------------
(***************************************************************************)
(* What the topic map of DDSManager promises to the code that uses it: a   *)
(* map from names to objects that acts in one step per operation, whatever *)
(* the threads do at the same time, and objects that live exactly as long  *)
(* as somebody can reach them.  There are no locks, no steps inside a call *)
(* and no destructors here; TopicRegistry, which has them, implements it.  *)
(***************************************************************************)
CONSTANTS Topics, Groups, Actors, NoGroup

VARIABLES
    entry,  \* [Topics -> group or NoGroup]: the map
    held,   \* [Actors -> SUBSET Groups]: what each actor has a pointer to
    life    \* [Groups -> {"free", "alive", "dying"}]

vars == <<entry, held, life>>

Referenced(g) ==
    (\E t \in Topics : entry[t] = g) \/ (\E a \in Actors : g \in held[a])

Init ==
    /\ entry = [t \in Topics |-> NoGroup]
    /\ held = [a \in Actors |-> {}]
    /\ life = [g \in Groups |-> "free"]

\* What is made is alive, and a group dies in the step in which the last
\* reference to it goes away.
Lives(made) ==
    life' = [g \in Groups |->
                IF g \in made THEN "alive"
                ELSE IF Referenced(g) /\ ~Referenced(g)' THEN "dying"
                ELSE life[g]]

\* Actor a makes a group for itself.
Make(a, g) ==
    /\ life[g] = "free"
    /\ held' = [held EXCEPT ![a] = @ \cup {g}]
    /\ Lives({g})
    /\ UNCHANGED entry

\* A new group goes straight into the map.
MakeIn(t, g) ==
    /\ life[g] = "free"
    /\ entry' = [entry EXCEPT ![t] = g]
    /\ Lives({g})
    /\ UNCHANGED held

\* Actor a looks t up and keeps what it finds.
Get(a, t) ==
    /\ entry[t] # NoGroup
    /\ held' = [held EXCEPT ![a] = @ \cup {entry[t]}]
    /\ UNCHANGED <<entry, life>>

\* Actor a stores a group that it holds, in the place of what is there.
Put(a, t, g) ==
    /\ g \in held[a]
    /\ entry' = [entry EXCEPT ![t] = g]
    /\ Lives({})
    /\ UNCHANGED held

\* Actor a takes t out of the map and holds what was there, if anything.
Remove(a, t) ==
    /\ entry' = [entry EXCEPT ![t] = NoGroup]
    /\ held' = [held EXCEPT ![a] = @ \cup ({entry[t]} \ {NoGroup})]
    /\ UNCHANGED life

\* t leaves the map and nobody holds on to what was there.
Clear(t) ==
    /\ entry' = [entry EXCEPT ![t] = NoGroup]
    /\ Lives({})
    /\ UNCHANGED held

\* Actor a lets go of a group.
Drop(a, g) ==
    /\ held' = [held EXCEPT ![a] = @ \ {g}]
    /\ Lives({})
    /\ UNCHANGED entry

\* The destructor of g has run.
Free(g) ==
    /\ life[g] = "dying"
    /\ life' = [life EXCEPT ![g] = "free"]
    /\ UNCHANGED <<entry, held>>

Next ==
    \/ \E a \in Actors, g \in Groups : Make(a, g) \/ Drop(a, g)
    \/ \E t \in Topics, g \in Groups : MakeIn(t, g)
    \/ \E a \in Actors, t \in Topics : Get(a, t) \/ Remove(a, t)
    \/ \E a \in Actors, t \in Topics, g \in Groups : Put(a, t, g)
    \/ \E t \in Topics : Clear(t)
    \/ \E g \in Groups : Free(g)

Spec == Init /\ [][Next]_vars

\* A group is alive exactly while the map or an actor points to it: nobody
\* can reach one that is destroyed, and none is left behind.
AliveIffReferenced == \A g \in Groups : life[g] = "alive" <=> Referenced(g)
=============================================================================
