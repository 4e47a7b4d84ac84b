------------------------ MODULE MCParticipantMonitor ------------------------
(***************************************************************************)
(* Small instances of ParticipantMonitor for TLC.                          *)
(***************************************************************************)
EXTENDS ParticipantMonitor

\* joinDomain of DDSSimpleManager supplies both functions.
BothCallbacks == {"onAdd", "onRemove"}
=============================================================================
