--------------------------- MODULE SampleDelivery ---------------------------
(***************************************************************************)
(* What the callbacks of a reader may rely on: from the moment an emitter  *)
(* takes a sample every callback it had then is owed it, and gets it once, *)
(* nothing else and nothing twice.  Until callbacks run on several threads *)
(* no sample overtakes an older one of its instance.  There are no threads *)
(* here, no batches, no queues and no reader; SampleFlow, which has them,  *)
(* implements it.                                                          *)
(***************************************************************************)
EXTENDS Naturals, Sequences

CONSTANTS
    Callbacks,
    Calls       \* [key, sample]: an instance and the number of a sample of it

VARIABLES
    owed,     \* [Callbacks -> SUBSET Calls]: what was taken for a callback
    got,      \* [Callbacks -> Seq(Calls)]: what it was given, in order
    ordered   \* callbacks have run on one thread at a time

vars == <<owed, got, ordered>>

\* d is an older sample of the same instance.
Before(d, e) == d.key = e.key /\ d.sample < e.sample

Given(c) == {got[c][i] : i \in 1..Len(got[c])}

Init ==
    /\ owed = [c \in Callbacks |-> {}]
    /\ got = [c \in Callbacks |-> <<>>]
    /\ ordered = TRUE

\* Samples are taken, newer ones than any taken before, and owed to some
\* callbacks; perhaps by a thread that makes them run concurrently.
Take(to, calls) ==
    /\ \A c \in to, e \in calls : \A d \in owed[c] : d.key = e.key => Before(d, e)
    /\ owed' = [c \in Callbacks |-> IF c \in to THEN owed[c] \cup calls ELSE owed[c]]
    /\ ordered' \in {ordered, FALSE}
    /\ UNCHANGED got

\* Some callbacks get a sample they are owed and did not get so far.
Give(to, call) ==
    /\ \A c \in to :
          /\ call \in owed[c] \ Given(c)
          /\ ordered => \A d \in owed[c] : Before(d, call) => d \in Given(c)
    /\ got' = [c \in Callbacks |-> IF c \in to THEN Append(got[c], call) ELSE got[c]]
    /\ UNCHANGED <<owed, ordered>>

\* Callbacks may run concurrently from now on.
Unorder ==
    /\ ordered' = FALSE
    /\ UNCHANGED <<owed, got>>

Next ==
    \/ \E to \in SUBSET Callbacks, calls \in SUBSET Calls : Take(to, calls)
    \/ \E to \in SUBSET Callbacks, call \in Calls : Give(to, call)
    \/ Unorder

Spec == Init /\ [][Next]_vars
=============================================================================
