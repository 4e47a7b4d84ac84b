------------------------------ MODULE TopicQos ------------------------------
(***************************************************************************)
(* QosDictionary: the policies behind the presets of std_qos.idl, and what *)
(* OpenDDS makes of them: which endpoints match, which changes an entity   *)
(* takes after it was created, and which time-based filters are valid.     *)
(*                                                                         *)
(* Only the policies in which the presets differ are kept.                 *)
(***************************************************************************)
EXTENDS Naturals

\* STD_QOS::QosType, and the qosPreset of a group that has none (-1).
Presets == {"LATEST_RELIABLE_TRANSIENT", "LATEST_RELIABLE", "STRICT_RELIABLE",
            "BEST_EFFORT"}
NoPreset == "-1"

\* What the constructor of a TopicGroup starts with.
DefaultPreset == "LATEST_RELIABLE_TRANSIENT"

\* Stronger policies have greater numbers.
Policies(durability, reliability, history) ==
    [durability |-> durability, reliability |-> reliability, history |-> history]

\* Mutant: the readers' entry for best effort asks for reliable delivery.
DataReaderReliable(preset) ==
    CASE preset = "LATEST_RELIABLE_TRANSIENT" -> Policies(1, 1, "last")
      [] preset = "LATEST_RELIABLE"           -> Policies(0, 1, "last")
      [] preset = "STRICT_RELIABLE"           -> Policies(0, 1, "all")
      [] preset = "BEST_EFFORT"               -> Policies(0, 1, "last")

\* QosDictionary::DataReader.
DataReader(preset) ==
    CASE preset = "LATEST_RELIABLE_TRANSIENT" -> Policies(1, 1, "last")
      [] preset = "LATEST_RELIABLE"           -> Policies(0, 1, "last")
      [] preset = "STRICT_RELIABLE"           -> Policies(0, 1, "all")
      [] preset = "BEST_EFFORT"               -> Policies(0, 0, "last")

\* QosDictionary::DataWriter.
DataWriter(preset) ==
    CASE preset = "LATEST_RELIABLE_TRANSIENT" -> Policies(1, 1, "last")
      [] preset = "LATEST_RELIABLE"           -> Policies(0, 1, "last")
      [] preset = "STRICT_RELIABLE"           -> Policies(0, 1, "all")
      [] preset = "BEST_EFFORT"               -> Policies(0, 0, "last")

\* A reader gets a writer's samples when the writer offers what it requests
\* (the history of each is its own affair).
Compatible(offered, requested) ==
    /\ offered.durability >= requested.durability
    /\ offered.reliability >= requested.reliability

\* set_qos on an entity that exists: durability, reliability and history stay
\* as they were, or the call is refused.
Changeable(old, new) == old = new

-----------------------------------------------------------------------------
(* setMaxDataRate: minimum_separation.nanosec = rate * 1000000.  The member *)
(* has 32 bits, and the product, an int, wraps in the usual builds.  Times  *)
(* are in units of 64 ns, which divides 1000000 and 2^32.                   *)

Separations == {s \in Nat : s < 67108864}

Separation(rate) == (rate * 15625) % 67108864

\* nanosec has to be below 10^9.
ValidSeparation(separation) == separation < 15625000
=============================================================================
