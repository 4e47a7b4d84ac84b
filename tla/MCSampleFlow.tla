---------------------------- MODULE MCSampleFlow ----------------------------
(***************************************************************************)
(* Small instances of SampleFlow for TLC.                                  *)
(***************************************************************************)
EXTENDS SampleFlow

\* One function per callback that is added.
TwoCallbacks == {"first", "second"}
=============================================================================
