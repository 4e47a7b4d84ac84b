-------------------------- MODULE MCTransportJoin --------------------------
(***************************************************************************)
(* Small instances of TransportJoin for TLC.                               *)
(***************************************************************************)
EXTENDS TransportJoin, TLC

\* Managers are interchangeable.
Swaps == Permutations(Managers)
=============================================================================
