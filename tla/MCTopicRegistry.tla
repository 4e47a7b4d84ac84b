-------------------------- MODULE MCTopicRegistry --------------------------
(***************************************************************************)
(* Small instances of TopicRegistry for TLC.  Which thread makes which     *)
(* calls is what the runs vary.                                            *)
(***************************************************************************)
EXTENDS TopicRegistry, TLC

CONSTANTS
    main, worker,           \* the two application threads
    MainCalls, WorkerCalls  \* how many calls each makes

CallBounds == (main :> MainCalls) @@ (worker :> WorkerCalls)

\* One thread owns the topics, reads them and shuts down; the other one publishes.
OneOwner ==
    (main :> {"registerTopic", "registerQos", "unregisterTopic",
              "createSubscriber", "addCallback", "readCallbacks",
              "cleanUpTopics"})
    @@ (worker :> {"createPublisher", "getWriter"})

\* Both threads register, configure and unregister the same topics.
Churn ==
    (main :> {"registerTopic", "unregisterTopic", "createSubscriber",
              "addCallback"})
    @@ (worker :> {"registerQos", "setQos", "unregisterTopic", "addCallback"})

\* Both threads register the same topic.
TwoRegistrars ==
    (main :> {"registerTopic", "createPublisher"}) @@ (worker :> {"registerTopic"})

\* A QoS is set for a topic while another thread looks topics up.
QosBeforeRegistration ==
    (main :> {"setQos", "registerTopic"}) @@ (worker :> {"getWriter"})

\* A thread that adds a callback, one that creates a publisher.
CallbackAndPublisher ==
    (main :> {"registerTopic", "createSubscriber", "addCallback"})
    @@ (worker :> {"createPublisher"})

\* What callbacks do in the runs: answer through a writer, or nothing.
Reply == {"getWriter"}
NoCalls == {}
=============================================================================
