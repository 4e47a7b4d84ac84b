---------------------------- MODULE MCTopicGroup ----------------------------
(***************************************************************************)
(* Small instances of TopicGroup for TLC.                                  *)
(***************************************************************************)
EXTENDS TopicGroup, TLC

\* A topic with a subscriber whose filter is replaced.
FilterCalls == {"registerTopic", "createSubscriber", "addCallback",
                "replaceFilter"}

\* A topic with a subscriber and a callback.
CallbackCalls == {"registerTopic", "createSubscriber", "addCallback",
                  "unregisterTopic"}
=============================================================================
