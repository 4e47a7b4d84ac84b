----------------------------- MODULE TopicGroup -----------------------------
(***************************************************************************)
(* One topic of a DDSManager from registration to the end of ~TopicGroup:  *)
(* the pointers a TopicGroup keeps, the DDS entities they stand for in the *)
(* participant, the emitters with their listener threads, and every way in *)
(* which creating or deleting an entity can fail.                          *)
(*                                                                         *)
(* One application thread makes the calls (TopicRegistry has them race);   *)
(* the listener threads run beside it.  What OpenDDS does is modelled from *)
(* how the code uses it: a creation may fail, a filter name is unique in   *)
(* its participant, and a deletion is refused with PRECONDITION_NOT_MET    *)
(* while what it would delete is in use: a reader whose samples are on     *)
(* loan, a subscriber or filter with a reader, a topic with any of these.  *)
(***************************************************************************)
EXTENDS Naturals

CONSTANTS
    Names,          \* data reader names
    Calls,          \* the calls the application makes, of AllCalls
    NoName          \* no reader name

AllCalls == { "registerTopic", "setQos", "createPublisher", "createSubscriber",
              "addCallback", "replaceFilter", "SetWriterListenerHandler",
              "unregisterTopic", "delete_participant" }

ASSUME GroupAssumption == NoName \notin Names /\ Calls \subseteq AllCalls

VARIABLES
    inMap,      \* does m_topics have the topic?
    m,          \* the members of its TopicGroup
    emitter,    \* [Names -> "none", "stopped", "running"]: emitters, m_running
    hasReader,  \* SUBSET Names: emitters whose m_reader is not nil
    thread,     \* [Names -> "off", "loop", "wait", "loan"]: listener threads
    dds,        \* the topic's entities in the participant
    phase,      \* where the application thread is
    target,     \* the reader whose listener thread is being joined
    crashed,    \* a null pointer was dereferenced
    refused     \* auxiliary: a reader's deletion was refused for its loan

vars == <<inMap, m, emitter, hasReader, thread, dds, phase, target, crashed,
          refused>>

-----------------------------------------------------------------------------

Members == [ topic : BOOLEAN, publisher : BOOLEAN, writer : BOOLEAN,
             subscriber : BOOLEAN, readers : SUBSET Names,
             m_readerListeners : SUBSET Names, filteredTopics : SUBSET Names ]

\* Mutant: the constructor leaves a pointer indeterminate.
NewMembersUnset == [ topic |-> FALSE, publisher |-> NoName, writer |-> FALSE,
                     subscriber |-> FALSE, readers |-> {},
                     m_readerListeners |-> {}, filteredTopics |-> {} ]

\* The writer's listener is stored with the writer; the name of a filtered
\* topic is the reader's name with the suffix "_0".
NewMembers == [ topic |-> FALSE, publisher |-> FALSE, writer |-> FALSE,
                subscriber |-> FALSE, readers |-> {}, m_readerListeners |-> {},
                filteredTopics |-> {} ]

\* orphans: readers no TopicGroup points to any more.
Entities == [ topic : BOOLEAN, publisher : BOOLEAN, writer : BOOLEAN,
              subscriber : BOOLEAN, readers : SUBSET Names,
              filters : SUBSET Names, orphans : SUBSET Names ]

NoEntities == [ topic |-> FALSE, publisher |-> FALSE, writer |-> FALSE,
                subscriber |-> FALSE, readers |-> {}, filters |-> {},
                orphans |-> {} ]

Phases == {"live", "replacing", "readers", "endpoints", "stop", "join", "topics",
           "gone"}

TypeOK ==
    /\ inMap \in BOOLEAN
    /\ m \in Members
    /\ emitter \in [Names -> {"none", "stopped", "running"}]
    /\ hasReader \subseteq Names
    /\ thread \in [Names -> {"off", "loop", "wait", "loan"}]
    /\ dds \in Entities
    /\ phase \in Phases
    /\ target \in Names \cup {NoName}
    /\ crashed \in BOOLEAN
    /\ refused \in BOOLEAN

\* The domain has been joined; the topic is not known yet.
Init ==
    /\ inMap = FALSE
    /\ m = NewMembers
    /\ emitter = [n \in Names |-> "none"]
    /\ hasReader = {}
    /\ thread = [n \in Names |-> "off"]
    /\ dds = NoEntities
    /\ phase = "live"
    /\ target = NoName
    /\ crashed = FALSE
    /\ refused = FALSE

\* The application thread is free to make call c.
Calling(c) == phase = "live" /\ ~crashed /\ c \in Calls

threads == <<emitter, hasReader, thread>>
control == <<phase, target, crashed, refused>>

-----------------------------------------------------------------------------
(* Creation.                                                               *)

\* registerTopic with its registerQos: a new group, or the one that a set*Qos
\* call left behind.  When create_topic fails nothing is stored.
RegisterTopic ==
    /\ Calling("registerTopic")
    /\ ~(inMap /\ m.topic)
    /\ \/ /\ inMap' = TRUE
          /\ m' = [m EXCEPT !.topic = TRUE]
          /\ dds' = [dds EXCEPT !.topic = TRUE]
       \/ UNCHANGED <<inMap, m, dds>>
    /\ UNCHANGED <<threads, control>>

\* A set*Qos call makes a group for an unknown topic.
SetQos ==
    /\ Calling("setQos")
    /\ ~inMap
    /\ inMap' = TRUE
    /\ UNCHANGED <<m, dds, threads, control>>

\* Mutant: the publisher is stored when its writer has been created.
CreatePublisherLate ==
    /\ Calling("createPublisher")
    /\ inMap /\ m.topic /\ ~m.publisher
    /\ \E made \in 0..2 :
          /\ m' = [m EXCEPT !.publisher = made = 2, !.writer = made = 2]
          /\ dds' = [dds EXCEPT !.publisher = made >= 1, !.writer = made = 2]
    /\ UNCHANGED <<inMap, threads, control>>

\* made counts the entities that could be created: publisher, writer.  A
\* publisher that is there already makes the call succeed at once.
CreatePublisher ==
    /\ Calling("createPublisher")
    /\ inMap /\ m.topic /\ ~m.publisher
    /\ \E made \in 0..2 :
          /\ m' = [m EXCEPT !.publisher = made >= 1, !.writer = made = 2]
          /\ dds' = [dds EXCEPT !.publisher = made >= 1, !.writer = made = 2]
    /\ UNCHANGED <<inMap, threads, control>>

\* made counts subscriber, filtered topic if one is asked for, reader.
CreateSubscriber(n, filtered) ==
    /\ Calling("createSubscriber")
    /\ inMap /\ m.topic /\ n \notin m.m_readerListeners
    /\ \E made \in 0..3 :
          LET cft == IF filtered /\ made >= 2 THEN {n} ELSE {}
              rd == IF made = 3 THEN {n} ELSE {} IN
          /\ cft \cap dds.filters = {}
          /\ m' = [m EXCEPT !.subscriber = @ \/ made >= 1,
                            !.filteredTopics = @ \cup cft,
                            !.readers = @ \cup rd,
                            !.m_readerListeners = @ \cup rd]
          /\ dds' = [dds EXCEPT !.subscriber = @ \/ made >= 1,
                                !.filters = @ \cup cft,
                                !.readers = @ \cup rd]
    /\ UNCHANGED <<inMap, threads, control>>

\* Mutant: run() sets m_running for an emitter that is read by hand, too.
AddCallbackMarked(n, queueMessages) ==
    LET nil == emitter[n] # "none" /\ n \notin hasReader IN
    /\ Calling("addCallback")
    /\ inMap /\ n \in m.readers
    /\ hasReader' = IF nil THEN hasReader ELSE hasReader \cup {n}
    /\ emitter' = [emitter EXCEPT ![n] = "running"]
    /\ thread' = [thread EXCEPT ![n] =
                     IF emitter[n] = "running" \/ nil \/ queueMessages THEN @
                                                                       ELSE "loop"]
    /\ UNCHANGED <<inMap, m, dds, control>>

\* The emitter is made on the first callback.  run() sets m_running and starts
\* listen(), which gives up at once when the emitter has lost its reader.
AddCallback(n, queueMessages) ==
    LET nil == emitter[n] # "none" /\ n \notin hasReader IN
    /\ Calling("addCallback")
    /\ inMap /\ n \in m.readers
    /\ hasReader' = IF nil THEN hasReader ELSE hasReader \cup {n}
    /\ IF queueMessages
       THEN /\ emitter' = [emitter EXCEPT ![n] = IF @ = "none" THEN "stopped" ELSE @]
            /\ UNCHANGED thread
       ELSE /\ emitter' = [emitter EXCEPT ![n] = "running"]
            /\ thread' = [thread EXCEPT ![n] =
                             IF emitter[n] = "running" \/ nil THEN @ ELSE "loop"]
    /\ UNCHANGED <<inMap, m, dds, control>>

\* m_writerListener of every group is dereferenced.
SetWriterListenerHandler ==
    /\ Calling("SetWriterListenerHandler")
    /\ inMap
    /\ crashed' = ~m.writer
    /\ UNCHANGED <<inMap, m, dds, threads, phase, target, refused>>

-----------------------------------------------------------------------------
(* The listener threads.                                                   *)

\* The head of the loop looks at m_running and waits for data ...
Loop(n) ==
    /\ thread[n] = "loop"
    /\ emitter[n] = "running"
    /\ thread' = [thread EXCEPT ![n] = "wait"]
    /\ UNCHANGED <<inMap, m, emitter, hasReader, dds, control>>

\* ... or leaves the loop; listen() lets go of its reader.
Exit(n) ==
    /\ thread[n] = "loop"
    /\ emitter[n] # "running"
    /\ thread' = [thread EXCEPT ![n] = "off"]
    /\ hasReader' = hasReader \ {n}
    /\ UNCHANGED <<inMap, m, emitter, dds, control>>

\* The wait ends with its 10 ms time-out ...
TimeOut(n) ==
    /\ thread[n] = "wait"
    /\ thread' = [thread EXCEPT ![n] = "loop"]
    /\ UNCHANGED <<inMap, m, emitter, hasReader, dds, control>>

\* ... or with data: readQueue() takes the samples of the reader ...
Take(n) ==
    /\ thread[n] = "wait"
    /\ n \in dds.readers
    /\ thread' = [thread EXCEPT ![n] = "loan"]
    /\ UNCHANGED <<inMap, m, emitter, hasReader, dds, control>>

\* ... and gives the loan back when the callbacks have run.
ReturnLoan(n) ==
    /\ thread[n] = "loan"
    /\ thread' = [thread EXCEPT ![n] = "loop"]
    /\ UNCHANGED <<inMap, m, emitter, hasReader, dds, control>>

-----------------------------------------------------------------------------
(* replaceFilter.                                                          *)

\* A running emitter is stopped.
ReplaceFilter(n) ==
    /\ Calling("replaceFilter")
    /\ inMap /\ m.subscriber /\ n \in m.readers
    /\ emitter' = [emitter EXCEPT ![n] = IF @ = "running" THEN "stopped" ELSE @]
    /\ phase' = "replacing"
    /\ target' = n
    /\ UNCHANGED <<inMap, m, hasReader, thread, dds, crashed, refused>>

\* Mutant: stop() does not wait for the thread.
ReplaceDeleteNoJoin ==
    /\ phase = "replacing" /\ ~crashed
    /\ \/ UNCHANGED <<m, dds, crashed>>
       \/ /\ dds' = [dds EXCEPT !.readers = @ \ {target},
                                !.filters = @ \ (m.filteredTopics \cap {target})]
          /\ m' = [m EXCEPT !.filteredTopics = @ \ {target}]
          /\ crashed' = TRUE
    /\ phase' = "live"
    /\ target' = NoName
    /\ UNCHANGED <<inMap, threads, refused>>

\* Its thread is joined.  A refused deletion ends the call.  Otherwise the
\* reader and its filter are gone, dataReader is nullptr, and the next
\* statement calls a method on it: the rest is never executed.
ReplaceDelete ==
    /\ phase = "replacing" /\ ~crashed
    /\ thread[target] = "off" \/ emitter[target] = "none"
    /\ \/ UNCHANGED <<m, dds, crashed>>
       \/ /\ dds' = [dds EXCEPT !.readers = @ \ {target},
                                !.filters = @ \ (m.filteredTopics \cap {target})]
          /\ m' = [m EXCEPT !.filteredTopics = @ \ {target}]
          /\ crashed' = TRUE
    /\ phase' = "live"
    /\ target' = NoName
    /\ UNCHANGED <<inMap, threads, refused>>

-----------------------------------------------------------------------------
(* unregisterTopic and ~TopicGroup.                                        *)

\* The entry leaves the map and the last shared_ptr goes out of scope.
UnregisterTopic ==
    /\ Calling("unregisterTopic")
    /\ inMap
    /\ inMap' = FALSE
    /\ phase' = "readers"
    /\ UNCHANGED <<m, dds, threads, target, crashed, refused>>

\* delete_datareader for one reader; the pointer is dropped in any case.
DeleteReader(n) ==
    /\ phase = "readers"
    /\ n \in m.readers
    /\ m' = [m EXCEPT !.readers = @ \ {n}]
    /\ IF thread[n] = "loan"
       THEN refused' = TRUE /\ UNCHANGED dds
       ELSE dds' = [dds EXCEPT !.readers = @ \ {n}] /\ UNCHANGED refused
    /\ phase' = IF m.readers = {n} THEN "endpoints" ELSE "readers"
    /\ UNCHANGED <<inMap, threads, target, crashed>>

NoReaders ==
    /\ phase = "readers"
    /\ m.readers = {}
    /\ phase' = "endpoints"
    /\ UNCHANGED <<inMap, m, dds, threads, target, crashed, refused>>

\* Mutant: the publisher is deleted before its writer, and refused.
DeleteEndpointsSwapped ==
    /\ phase = "endpoints"
    /\ m' = [m EXCEPT !.writer = FALSE, !.publisher = FALSE, !.subscriber = FALSE]
    /\ dds' = [dds EXCEPT !.writer = FALSE,
                          !.publisher = @ /\ dds.writer,
                          !.subscriber = @ /\ dds.readers # {}]
    /\ phase' = "stop"
    /\ UNCHANGED <<inMap, threads, target, crashed, refused>>

\* Writer, publisher, subscriber.
DeleteEndpoints ==
    /\ phase = "endpoints"
    /\ m' = [m EXCEPT !.writer = FALSE, !.publisher = FALSE, !.subscriber = FALSE]
    /\ dds' = [dds EXCEPT !.writer = FALSE, !.publisher = FALSE,
                          !.subscriber = @ /\ dds.readers # {}]
    /\ phase' = "stop"
    /\ UNCHANGED <<inMap, threads, target, crashed, refused>>

\* Mutant: m_running is not cleared.
StopEmitterRunning(n) ==
    /\ phase = "stop"
    /\ emitter[n] = "running"
    /\ target' = n
    /\ phase' = "join"
    /\ UNCHANGED <<inMap, m, threads, dds, crashed, refused>>

\* stop() on one emitter after another: m_running is cleared ...
StopEmitter(n) ==
    /\ phase = "stop"
    /\ emitter[n] = "running"
    /\ emitter' = [emitter EXCEPT ![n] = "stopped"]
    /\ target' = n
    /\ phase' = "join"
    /\ UNCHANGED <<inMap, m, hasReader, thread, dds, crashed, refused>>

\* Mutant: stop() does not wait for the thread.
JoinEmitterNot ==
    /\ phase = "join"
    /\ target' = NoName
    /\ phase' = "stop"
    /\ UNCHANGED <<inMap, m, threads, dds, crashed, refused>>

\* ... and the thread is joined.
JoinEmitter ==
    /\ phase = "join"
    /\ thread[target] = "off"
    /\ target' = NoName
    /\ phase' = "stop"
    /\ UNCHANGED <<inMap, m, threads, dds, crashed, refused>>

\* emitters.clear()
ClearEmitters ==
    /\ phase = "stop"
    /\ \A n \in Names : emitter[n] # "running"
    /\ emitter' = [n \in Names |-> "none"]
    /\ hasReader' = {}
    /\ phase' = "topics"
    /\ UNCHANGED <<inMap, m, thread, dds, target, crashed, refused>>

\* The filtered topics, then the topic.  Whatever could not be deleted has no
\* TopicGroup any more.
DeleteTopics ==
    LET filters == dds.filters \ (m.filteredTopics \ dds.readers)
        orphans == dds.orphans \cup dds.readers IN
    /\ phase = "topics"
    /\ m' = NewMembers
    /\ dds' = [dds EXCEPT !.filters = filters,
                          !.readers = {},
                          !.orphans = orphans,
                          !.topic = @ /\ (~m.topic \/ filters # {} \/ orphans # {})]
    /\ phase' = "live"
    /\ UNCHANGED <<inMap, threads, target, crashed, refused>>

\* ~DDSManager, once no topic is left: delete_contained_entities takes what is
\* still in the participant along.
DeleteParticipant ==
    /\ Calling("delete_participant")
    /\ ~inMap
    /\ dds' = NoEntities
    /\ phase' = "gone"
    /\ UNCHANGED <<inMap, m, threads, target, crashed, refused>>

-----------------------------------------------------------------------------

Create ==
    \/ RegisterTopic \/ SetQos \/ CreatePublisher \/ SetWriterListenerHandler
    \/ \E n \in Names, filtered \in BOOLEAN : CreateSubscriber(n, filtered)
    \/ \E n \in Names, queueMessages \in BOOLEAN : AddCallback(n, queueMessages)

\* What the application thread does inside a call it has begun.
Finish ==
    \/ ReplaceDelete \/ NoReaders \/ DeleteEndpoints
    \/ JoinEmitter \/ ClearEmitters \/ DeleteTopics
    \/ \E n \in Names : DeleteReader(n) \/ StopEmitter(n)

Listener(n) == Loop(n) \/ Exit(n) \/ TimeOut(n) \/ Take(n) \/ ReturnLoan(n)

Stopped == (phase = "gone" \/ crashed) /\ UNCHANGED vars

Next ==
    \/ Create \/ UnregisterTopic \/ DeleteParticipant \/ Finish
    \/ \E n \in Names : ReplaceFilter(n) \/ (~crashed /\ Listener(n))
    \/ Stopped

Spec == Init /\ [][Next]_vars

\* The scheduler runs the application thread inside a call it has begun and
\* every listener thread; callbacks return.
Fairness == WF_vars(Finish) /\ \A n \in Names : WF_vars(Listener(n))

FairSpec == Spec /\ Fairness

-----------------------------------------------------------------------------
(* Properties.                                                             *)

\* Between calls, whatever failed before, the group points to exactly the
\* entities it owns: nothing was created without being recorded for deletion.
PointersMatch ==
    phase = "live" /\ ~crashed =>
        /\ m.publisher = dds.publisher
        /\ m.writer = dds.writer
        /\ m.readers = dds.readers
        /\ m.m_readerListeners = m.readers
        /\ m.filteredTopics \subseteq dds.filters
        /\ m.subscriber => dds.subscriber
        /\ m.topic => dds.topic
        /\ ~inMap => m = NewMembers

\* unregisterTopic leaves nothing of the topic in the participant.
CleanTeardown == (phase = "live" /\ ~inMap) => dds = NoEntities

\* ... unless a listener thread had samples on loan while its reader was
\* being deleted: nothing else makes the teardown leak, no failed creation and
\* no order of the calls.
LeakOnlyByLoan == refused \/ CleanTeardown

\* An emitter that has its reader and says it is running has a thread: with
\* queueMessages FALSE "callbacks are invoked immediately after data is
\* received".  (One that lost its reader in a replaceFilter that failed has not.)
CallbacksServed ==
    \A n \in hasReader :
        phase = "live" /\ emitter[n] = "running" => thread[n] # "off"

\* But for the destructor, a listener thread waits on a reader that exists, and
\* belongs to an emitter that will stop it.
ThreadHasReader ==
    \A n \in Names :
        phase = "live" /\ thread[n] # "off" =>
            n \in dds.readers /\ n \in hasReader /\ emitter[n] = "running"

\* Every stop() in the destructor waits for its thread: none runs on when the
\* emitter is destroyed.
ThreadsJoined ==
    phase \in {"topics", "gone"} => \A n \in Names : thread[n] = "off"

\* replaceFilter "returns true if the operation was successful; false
\* otherwise": it does return, and no call dereferences a null pointer.
NoCrash == ~crashed

\* unregisterTopic returns: the destructor joins every listener thread.
TeardownEnds == (phase = "readers") ~> (phase = "live")
=============================================================================
