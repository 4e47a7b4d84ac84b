-------------------------- MODULE MCSimpleManager ---------------------------
(***************************************************************************)
(* Small instances of SimpleManager for TLC.                               *)
(***************************************************************************)
EXTENDS SimpleManager, TLC

\* The last rate that fits, the first that does not, and one whose product
\* wraps around to a valid value.
EdgeRates == {999, 1000, 4295}

\* The default preset and the one that offers least.
TwoPresets == {"LATEST_RELIABLE_TRANSIENT", "BEST_EFFORT"}

\* Threads are interchangeable; no property distinguishes them.
Symmetry == Permutations(Threads)
=============================================================================
