--------------------------- MODULE SimpleManager ----------------------------
(***************************************************************************)
(* DDSSimpleManager: Publisher, Subscriber, Callback and Listener make one  *)
(* call of registerTopic, its registerQos, createPublisher or              *)
(* createSubscriber, and remember the topic under the type, so that Write  *)
(* needs no topic name.  Several threads make these calls for the same     *)
(* topics, while others change the QoS, the partition and the rate of a    *)
(* reader.                                                                 *)
(*                                                                         *)
(* The point is what the endpoints of a topic end up with: registerTopic   *)
(* looks the topic up, creates it without a lock and stores the group      *)
(* under another one, registerQos then puts the preset into it, one        *)
(* set*Qos at a time, and what an entity was created with it mostly keeps. *)
(*                                                                         *)
(* A TopicGroup is known by its topic and the number of the call that made *)
(* it.  A group that is replaced in m_topics dies with its last            *)
(* shared_ptr, with its endpoints (TopicRegistry has that part); here it   *)
(* is just never found again.  All topics have one type; they stay         *)
(* registered.                                                             *)
(***************************************************************************)
EXTENDS TopicQos, FiniteSets

CONSTANTS
    Threads,        \* application threads
    Topics,
    Names,          \* reader names
    Generated,      \* the one made of the topic's name and "Reader"
    NoName,         \* the empty one
    Rates,          \* arguments of setMaxDataRate, in ms
    Offered,        \* the presets that calls are made with
    NoEntity,       \* a DDS entity that does not exist
    NoGroup,        \* m_topics has no entry; a call has no group
    NoTopic,        \* the type is in no map
    MaxMakings,     \* bound: calls that make endpoints, of all threads together
    MaxChanges      \* bound: the other calls

Groups == Topics \X (1..MaxMakings + MaxChanges)

ASSUME SimpleAssumption ==
    /\ Rates \subseteq Nat \ {0}
    /\ Offered \subseteq Presets
    /\ MaxMakings \in Nat /\ MaxChanges \in Nat
    /\ NoTopic \notin Topics
    /\ Generated \in Names /\ NoName \notin Names

VARIABLES
    m_topics,       \* [Topics -> its group or NoGroup]
    \* The members of the groups.  A preset stands for the QoS that it has in
    \* the dictionary.
    topic,          \* [Groups -> BOOLEAN]: create_topic has made a topic
    dataReaderQos,  \* [Groups -> Presets]
    dataWriterQos,  \* [Groups -> Presets]
    partitioned,    \* [Groups -> BOOLEAN]: pubQos and subQos have a partition
    qosPreset,      \* [Groups -> Presets or NoPreset]
    publisher,      \* [Groups -> created in the partition?, or NoEntity]
    subscriber,     \* [Groups -> the same]
    writer,         \* [Groups -> Endpoint or NoEntity]
    readers,        \* [Groups -> [Names -> Endpoint or NoEntity]]
    \* The manager.
    m_pubMap,       \* the topic that Write takes
    m_subMap,       \* the topic that GetNumberOfPublishers takes
    call,           \* [Threads -> the call of a thread and where it is]
    makings,        \* how many calls that make endpoints have begun
    changes,        \* how many others
    crashed,        \* a null pointer was dereferenced
    \* History.
    promised,       \* [Groups -> [Names -> the rate set last, or 0]]
    odd             \* [Topics -> what went otherwise than planned]

settings == <<dataReaderQos, dataWriterQos, partitioned, qosPreset>>
entities == <<publisher, subscriber, writer, readers>>
maps == <<m_pubMap, m_subMap>>
calls == <<makings, changes>>
vars == <<m_topics, topic, settings, entities, maps, call, calls, crashed, promised,
          odd>>

\* What an endpoint was created with, and a reader's time-based filter.
Endpoint == [qos : Presets, separation : Separations]

New(q) == [qos |-> q, separation |-> 0]

Operations == {"Publisher", "Subscriber", "Callback", "Listener"}

Idle == [op |-> "idle"]

\* A call that makes endpoints, at its next step, with the group that it has a
\* pointer to; and one of setMaxDataRate, with the group of its reader.
Making == [ op : Operations, topic : Topics, name : Names, qos : Presets,
            group : Groups \cup {NoGroup},
            at : {"topic", "store", "lookup", "check", "reader", "writer", "preset",
                  "create", "listen"} ]

Rating == [ op : {"setMaxDataRate"}, topic : Topics, name : Names, rate : Rates,
            group : Groups, qos : Presets, at : {"get", "set"} ]

ASSUME NothingAssumption ==
    NoGroup \notin Groups /\ NoEntity \notin BOOLEAN \cup Endpoint

\* "twice": two threads were registering the topic at once; "early": an endpoint
\* was created before the preset was there; "custom": the application set another
\* QoS; "late": a partition came after an endpoint; "failed": OpenDDS would not
\* create an endpoint.
Oddities == {"twice", "early", "custom", "late", "failed"}

TypeOK ==
    /\ m_topics \in [Topics -> Groups \cup {NoGroup}]
    /\ topic \in [Groups -> BOOLEAN]
    /\ dataReaderQos \in [Groups -> Presets]
    /\ dataWriterQos \in [Groups -> Presets]
    /\ partitioned \in [Groups -> BOOLEAN]
    /\ qosPreset \in [Groups -> Presets \cup {NoPreset}]
    /\ publisher \in [Groups -> BOOLEAN \cup {NoEntity}]
    /\ subscriber \in [Groups -> BOOLEAN \cup {NoEntity}]
    /\ writer \in [Groups -> Endpoint \cup {NoEntity}]
    /\ readers \in [Groups -> [Names -> Endpoint \cup {NoEntity}]]
    /\ m_pubMap \in Topics \cup {NoTopic}
    /\ m_subMap \in Topics \cup {NoTopic}
    /\ call \in [Threads -> {Idle} \cup Making \cup Rating]
    /\ makings \in 0..MaxMakings
    /\ changes \in 0..MaxChanges
    /\ crashed \in BOOLEAN
    /\ promised \in [Groups -> [Names -> Rates \cup {0}]]
    /\ odd \in [Topics -> SUBSET Oddities]

\* Every group starts as the constructor of TopicGroup leaves it.
Init ==
    /\ m_topics = [t \in Topics |-> NoGroup]
    /\ topic = [g \in Groups |-> FALSE]
    /\ dataReaderQos = [g \in Groups |-> DefaultPreset]
    /\ dataWriterQos = [g \in Groups |-> DefaultPreset]
    /\ partitioned = [g \in Groups |-> FALSE]
    /\ qosPreset = [g \in Groups |-> NoPreset]
    /\ publisher = [g \in Groups |-> NoEntity]
    /\ subscriber = [g \in Groups |-> NoEntity]
    /\ writer = [g \in Groups |-> NoEntity]
    /\ readers = [g \in Groups |-> [n \in Names |-> NoEntity]]
    /\ m_pubMap = NoTopic
    /\ m_subMap = NoTopic
    /\ call = [a \in Threads |-> Idle]
    /\ makings = 0
    /\ changes = 0
    /\ crashed = FALSE
    /\ promised = [g \in Groups |-> [n \in Names |-> 0]]
    /\ odd = [t \in Topics |-> {}]

-----------------------------------------------------------------------------
(* The steps of these calls, lock by lock.                                 *)

Registered(t) == m_topics[t] # NoGroup /\ topic[m_topics[t]]

\* m_topics[t], or the new TopicGroup of a call that begins and finds none.
GroupOf(t) == IF m_topics[t] = NoGroup THEN <<t, makings + changes + 1>> ELSE m_topics[t]

\* A call begins, of the one kind or the other.
BeginMaking(a) ==
    /\ call[a] = Idle
    /\ makings < MaxMakings
    /\ makings' = makings + 1
    /\ UNCHANGED changes

BeginChange(a) ==
    /\ call[a] = Idle
    /\ changes < MaxChanges
    /\ changes' = changes + 1
    /\ UNCHANGED makings

\* In a call of one of these operations, before step at.
At(a, ops, at) == call[a].op \in ops /\ call[a].at = at

Goto(a, at) == call' = [call EXCEPT ![a].at = at]

\* registerTopic returns, and the call goes on to make its endpoint.
ToCreate(a) == call' = [call EXCEPT ![a].at = "create", ![a].group = NoGroup]

Return(a) == call' = [call EXCEPT ![a] = Idle]

\* In registerTopic for t, between the lookup and the store.
Missed(a, t) ==
    call[a].op \in Operations /\ call[a].topic = t /\ call[a].at \in {"topic", "store"}

Noted(t, what) == odd' = [odd EXCEPT ![t] = @ \cup what]

\* Mutant: an empty name stays empty.
GenerateReaderNameNot(n) == n

GenerateReaderName(n) == IF n = NoName THEN Generated ELSE n

\* registerTopic looks the topic up: one that is there will do, whatever its
\* preset; for a new one there is a new group, or the one that a set*Qos made.
RegisterTopic(a, op, t, n, q) ==
    /\ BeginMaking(a)
    /\ op \in {"Publisher", "Listener"} => n = NoName
    /\ call' = [call EXCEPT ![a] =
          [op |-> op, topic |-> t, name |-> GenerateReaderName(n), qos |-> q,
           group |-> IF Registered(t) THEN NoGroup ELSE GroupOf(t),
           at |-> IF Registered(t) THEN "create" ELSE "topic"]]
    /\ Noted(t, IF ~Registered(t) /\ \E b \in Threads : Missed(b, t)
                THEN {"twice"} ELSE {})
    /\ UNCHANGED <<m_topics, topic, settings, entities, maps, crashed, promised>>

\* create_topic, without a lock.  That it fails is not looked at by the callers
\* of registerTopic.
CreateTopic(a, made) ==
    /\ At(a, Operations, "topic")
    /\ topic' = [topic EXCEPT ![call[a].group] = made]
    /\ IF made THEN Goto(a, "store") ELSE ToCreate(a)
    /\ UNCHANGED <<m_topics, settings, entities, maps, calls, crashed, promised, odd>>

\* The group is stored, whatever has been stored for the topic meanwhile.
StoreTopic(a) ==
    /\ At(a, Operations, "store")
    /\ m_topics' = [m_topics EXCEPT ![call[a].topic] = call[a].group]
    /\ Goto(a, "lookup")
    /\ UNCHANGED <<topic, settings, entities, maps, calls, crashed, promised, odd>>

\* registerQos looks the topic up again ...
RegisterQos(a) ==
    /\ At(a, Operations, "lookup")
    /\ call' = [call EXCEPT ![a].at = "check", ![a].group = m_topics[call[a].topic]]
    /\ UNCHANGED <<m_topics, topic, settings, entities, maps, calls, crashed, promised,
                   odd>>

\* ... and without the lock whether the group it found has a preset.
CheckPreset(a) ==
    /\ At(a, Operations, "check")
    /\ IF qosPreset[call[a].group] # NoPreset THEN ToCreate(a) ELSE Goto(a, "reader")
    /\ UNCHANGED <<m_topics, topic, settings, entities, maps, calls, crashed, promised,
                   odd>>

\* set_qos on the readers of a group: each takes it, or refuses.
ReadersTake(g, q) ==
    [n \in Names |->
        IF readers[g][n] # NoEntity
           /\ Changeable(DataReader(readers[g][n].qos), DataReader(q))
        THEN [readers[g][n] EXCEPT !.separation = 0]
        ELSE readers[g][n]]

\* setReaderQos, of a preset: stored, and given to every reader, whose
\* time-based filter it replaces.
SetReaderQos(t, q) ==
    LET g == GroupOf(t) IN
    /\ m_topics' = [m_topics EXCEPT ![t] = g]
    /\ dataReaderQos' = [dataReaderQos EXCEPT ![g] = q]
    /\ readers' = [readers EXCEPT ![g] = ReadersTake(g, q)]
    /\ promised' = [promised EXCEPT ![g] = [n \in Names |-> 0]]

\* setWriterQos: stored; the writer takes it or refuses, and has nothing in it
\* that could change.
SetWriterQos(t, q) ==
    LET g == GroupOf(t) IN
    /\ m_topics' = [m_topics EXCEPT ![t] = g]
    /\ dataWriterQos' = [dataWriterQos EXCEPT ![g] = q]

\* With no preset registerQos goes on to set the readers' QoS, by name ...
RegisterReaderQos(a) ==
    /\ At(a, Operations, "reader")
    /\ SetReaderQos(call[a].topic, call[a].qos)
    /\ Goto(a, "writer")
    /\ UNCHANGED <<topic, dataWriterQos, partitioned, qosPreset, publisher, subscriber,
                   writer, maps, calls, crashed, odd>>

\* ... the writer's ...
RegisterWriterQos(a) ==
    /\ At(a, Operations, "writer")
    /\ SetWriterQos(call[a].topic, call[a].qos)
    /\ Goto(a, "preset")
    /\ UNCHANGED <<topic, dataReaderQos, partitioned, qosPreset, entities, maps, calls,
                   crashed, promised, odd>>

\* ... and notes the preset in the group it has.
RegisterPreset(a) ==
    /\ At(a, Operations, "preset")
    /\ qosPreset' = [qosPreset EXCEPT ![call[a].group] = call[a].qos]
    /\ ToCreate(a)
    /\ UNCHANGED <<m_topics, topic, dataReaderQos, dataWriterQos, partitioned, entities,
                   maps, calls, crashed, promised, odd>>

\* Anything odd about an endpoint that is created now?
Early(t) ==
    IF Registered(t) /\ qosPreset[m_topics[t]] = NoPreset THEN {"early"} ELSE {}

\* Mutant: Publisher maps the type whatever createPublisher returned.
CreatePublisherMapped(a, made) ==
    LET t == call[a].topic
        g == m_topics[t]
        fresh == Registered(t) /\ publisher[g] = NoEntity
        succeeds == Registered(t) /\ (publisher[g] # NoEntity \/ made = 2) IN
    /\ At(a, {"Publisher"}, "create")
    /\ publisher' = IF fresh /\ made >= 1
                    THEN [publisher EXCEPT ![g] = partitioned[g]] ELSE publisher
    /\ writer' = IF fresh /\ made = 2
                 THEN [writer EXCEPT ![g] = New(dataWriterQos[g])] ELSE writer
    /\ Noted(t, Early(t) \cup (IF succeeds THEN {} ELSE {"failed"}))
    /\ m_pubMap' = t
    /\ Return(a)
    /\ UNCHANGED <<m_topics, topic, settings, subscriber, readers, m_subMap, calls,
                   crashed, promised>>

\* createPublisher, where made counts what could be created of publisher and
\* writer: with a publisher, whether it has a writer or not, the call succeeds.
\* Publisher maps the type if it does.
CreatePublisher(a, made) ==
    LET t == call[a].topic
        g == m_topics[t]
        fresh == Registered(t) /\ publisher[g] = NoEntity
        succeeds == Registered(t) /\ (publisher[g] # NoEntity \/ made = 2) IN
    /\ At(a, {"Publisher"}, "create")
    /\ publisher' = IF fresh /\ made >= 1
                    THEN [publisher EXCEPT ![g] = partitioned[g]] ELSE publisher
    /\ writer' = IF fresh /\ made = 2
                 THEN [writer EXCEPT ![g] = New(dataWriterQos[g])] ELSE writer
    /\ Noted(t, Early(t) \cup (IF succeeds THEN {} ELSE {"failed"}))
    /\ m_pubMap' = IF succeeds THEN t ELSE m_pubMap
    /\ Return(a)
    /\ UNCHANGED <<m_topics, topic, settings, subscriber, readers, m_subMap, calls,
                   crashed, promised>>

\* createSubscriber: subscriber and reader, refused for a name that is taken.
\* Subscriber and Listener map the type in any case; Callback if all went well,
\* whatever becomes of its addCallback.
CreateSubscriber(a, made) ==
    LET t == call[a].topic
        g == m_topics[t]
        n == call[a].name
        fresh == Registered(t) /\ readers[g][n] = NoEntity IN
    /\ At(a, Operations \ {"Publisher"}, "create")
    /\ subscriber' = IF fresh /\ made >= 1 /\ subscriber[g] = NoEntity
                     THEN [subscriber EXCEPT ![g] = partitioned[g]] ELSE subscriber
    /\ readers' = IF fresh /\ made = 2
                  THEN [readers EXCEPT ![g][n] = New(dataReaderQos[g])] ELSE readers
    /\ Noted(t, Early(t)
          \cup (IF Registered(t) /\ (~fresh \/ made = 2) THEN {} ELSE {"failed"}))
    /\ m_subMap' = IF call[a].op = "Callback" /\ ~(fresh /\ made = 2)
                   THEN m_subMap ELSE t
    /\ IF call[a].op = "Listener" THEN Goto(a, "listen") ELSE Return(a)
    /\ UNCHANGED <<m_topics, topic, settings, publisher, writer, m_pubMap, calls,
                   crashed, promised>>

\* getReader.
ReaderOf(t, n) == IF m_topics[t] = NoGroup THEN NoEntity ELSE readers[m_topics[t]][n]

\* Listener gives the reader of the generated name a listener, if there is none
\* through a null pointer.
SetListener(a) ==
    /\ At(a, {"Listener"}, "listen")
    /\ crashed' = (ReaderOf(call[a].topic, Generated) = NoEntity)
    /\ Return(a)
    /\ UNCHANGED <<m_topics, topic, settings, entities, maps, calls, promised, odd>>

\* Write and Dispose without a topic name: the writer of the topic that the
\* type is mapped to.
WriterFor ==
    IF m_pubMap = NoTopic \/ m_topics[m_pubMap] = NoGroup THEN NoEntity
    ELSE writer[m_topics[m_pubMap]]

\* GetNumberOfPublishers and GetPublisherAddress with a reader's name.
ReaderFor(n) == IF m_subMap = NoTopic THEN NoEntity ELSE ReaderOf(m_subMap, n)

-----------------------------------------------------------------------------
(* What else the application does with a topic.                            *)

\* addPartition, for publishers and subscribers yet to be created.
AddPartition(a, t) ==
    LET g == m_topics[t] IN
    /\ BeginChange(a)
    /\ g # NoGroup
    /\ partitioned' = [partitioned EXCEPT ![g] = TRUE]
    /\ Noted(t, IF publisher[g] = NoEntity /\ subscriber[g] = NoEntity
                THEN {} ELSE {"late"})
    /\ UNCHANGED <<m_topics, topic, dataReaderQos, dataWriterQos, qosPreset, entities,
                   maps, call, crashed, promised>>

\* The application's own setReaderQos or setWriterQos.
CustomReaderQos(a, t, q) ==
    /\ BeginChange(a)
    /\ SetReaderQos(t, q)
    /\ Noted(t, IF q = dataReaderQos[GroupOf(t)] THEN {} ELSE {"custom"})
    /\ UNCHANGED <<topic, dataWriterQos, partitioned, qosPreset, publisher, subscriber,
                   writer, maps, call, crashed>>

CustomWriterQos(a, t, q) ==
    /\ BeginChange(a)
    /\ SetWriterQos(t, q)
    /\ Noted(t, IF q = dataWriterQos[GroupOf(t)] THEN {} ELSE {"custom"})
    /\ UNCHANGED <<topic, dataReaderQos, partitioned, qosPreset, entities, maps, call,
                   crashed, promised>>

\* setMaxDataRate gets the reader ...
GetReader(a, t, n, rate) ==
    /\ BeginChange(a)
    /\ ReaderOf(t, n) # NoEntity
    /\ call' = [call EXCEPT ![a] =
          [op |-> "setMaxDataRate", topic |-> t, name |-> n, rate |-> rate,
           group |-> m_topics[t], qos |-> DefaultPreset, at |-> "get"]]
    /\ UNCHANGED <<m_topics, topic, settings, entities, maps, crashed, promised, odd>>

\* ... the QoS that is stored for its topic ...
GetReaderQos(a) ==
    /\ At(a, {"setMaxDataRate"}, "get")
    /\ call' = [call EXCEPT ![a].at = "set",
                            ![a].qos = dataReaderQos[m_topics[call[a].topic]]]
    /\ UNCHANGED <<m_topics, topic, settings, entities, maps, calls, crashed, promised,
                   odd>>

\* Mutant: the filter is set for all readers of the topic.
SetMaxDataRateAll(a) ==
    /\ At(a, {"setMaxDataRate"}, "set")
    /\ LET g == call[a].group
           s == Separation(call[a].rate) IN
         /\ readers' = [readers EXCEPT ![g] = [n \in Names |->
               IF readers[g][n] # NoEntity /\ ValidSeparation(s)
               THEN [readers[g][n] EXCEPT !.separation = s] ELSE readers[g][n]]]
         /\ promised' = [promised EXCEPT ![g][call[a].name] = call[a].rate]
    /\ Return(a)
    /\ UNCHANGED <<m_topics, topic, settings, publisher, subscriber, writer, maps,
                   calls, crashed, odd>>

\* ... and sets it, with the filter, on this reader.  Whether the reader takes
\* it is not looked at: the call returns true.
SetMaxDataRate(a) ==
    /\ At(a, {"setMaxDataRate"}, "set")
    /\ LET g == call[a].group
           n == call[a].name
           s == Separation(call[a].rate) IN
         /\ readers' = [readers EXCEPT ![g][n].separation =
               IF /\ ValidSeparation(s)
                  /\ Changeable(DataReader(readers[g][n].qos), DataReader(call[a].qos))
               THEN s ELSE @]
         /\ promised' = [promised EXCEPT ![g][n] = call[a].rate]
    /\ Return(a)
    /\ UNCHANGED <<m_topics, topic, settings, publisher, subscriber, writer, maps,
                   calls, crashed, odd>>

-----------------------------------------------------------------------------

\* The names that an application passes, where none makes the generated one.
Given == (Names \ {Generated}) \cup {NoName}

Thread(a) ==
    \/ \E t \in Topics, q \in Offered :
          \/ \E op \in Operations, n \in Given : RegisterTopic(a, op, t, n, q)
          \/ CustomReaderQos(a, t, q)
          \/ CustomWriterQos(a, t, q)
    \/ \E made \in BOOLEAN : CreateTopic(a, made)
    \/ StoreTopic(a) \/ RegisterQos(a) \/ CheckPreset(a)
    \/ RegisterReaderQos(a) \/ RegisterWriterQos(a) \/ RegisterPreset(a)
    \/ \E made \in 0..2 : CreatePublisher(a, made) \/ CreateSubscriber(a, made)
    \/ SetListener(a)
    \/ \E t \in Topics : AddPartition(a, t)
    \/ \E t \in Topics, n \in Names, rate \in Rates : GetReader(a, t, n, rate)
    \/ GetReaderQos(a) \/ SetMaxDataRate(a)

\* The bound on calls is reached, or the process is gone.
Done ==
    /\ crashed \/ (/\ makings = MaxMakings /\ changes = MaxChanges
                   /\ \A a \in Threads : call[a] = Idle)
    /\ UNCHANGED vars

Next == (~crashed /\ \E a \in Threads : Thread(a)) \/ Done

Spec == Init /\ [][Next]_vars

-----------------------------------------------------------------------------
(* Properties.                                                             *)

\* The writer and the readers that a manager has of a topic fit together:
\* what the writer sends the readers get, also if the calls that made them named
\* different presets.  The exceptions are two threads that register the topic at
\* once, of which the second replaces the group of the first and either sets the
\* QoS of both; an application that changes the QoS or the partition of a topic;
\* and a thread that finds the topic after another has stored it and creates an
\* endpoint before the preset is there: harmless with the preset that is the
\* default.
EndpointsMatch ==
    \A t \in Topics : \A n \in Names :
        LET g == m_topics[t] IN
        (/\ g # NoGroup /\ writer[g] # NoEntity /\ readers[g][n] # NoEntity
         /\ \/ odd[t] \subseteq {"failed"}
            \/ odd[t] \subseteq {"failed", "early"} /\ qosPreset[g] = DefaultPreset) =>
            /\ Compatible(DataWriter(writer[g].qos), DataReader(readers[g][n].qos))
            /\ publisher[g] = subscriber[g]

\* A rate that setMaxDataRate accepted is the rate of that reader, whatever
\* other threads set meanwhile, until setReaderQos: for rates below a second, of
\* a topic that was not registered by two threads at once, whose QoS the
\* application leaves alone, and whose readers waited for the preset.
RateKept ==
    \A t \in Topics : \A n \in Names :
        LET g == m_topics[t] IN
        (/\ g # NoGroup /\ promised[g][n] # 0 /\ promised[g][n] < 1000
         /\ odd[t] \cap {"twice", "custom", "early"} = {}) =>
            readers[g][n].separation = promised[g][n] * 15625

\* Write and GetNumberOfPublishers find what they look for: the topic that the
\* type is mapped to has a publisher, and a writer or a reader, once Publisher,
\* Subscriber or Callback has been through, and Listener has its reader: unless
\* two threads registered that topic at once, so that the group with the
\* endpoints was replaced, or OpenDDS would not create something for it (which
\* the publisher does not depend on).
MapsServe ==
    /\ (m_pubMap # NoTopic /\ "twice" \notin odd[m_pubMap]) =>
          m_topics[m_pubMap] # NoGroup /\ publisher[m_topics[m_pubMap]] # NoEntity
    /\ (m_pubMap # NoTopic /\ odd[m_pubMap] \cap {"twice", "failed"} = {}) =>
          WriterFor # NoEntity
    /\ (m_subMap # NoTopic /\ odd[m_subMap] \cap {"twice", "failed"} = {}) =>
          \E n \in Names : ReaderFor(n) # NoEntity
    /\ crashed => \E t \in Topics : odd[t] \cap {"twice", "failed"} # {}
=============================================================================
