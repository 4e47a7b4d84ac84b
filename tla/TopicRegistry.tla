--------------------------- MODULE TopicRegistry ---------------------------
(***************************************************************************)
(* The topic map of DDSManager: m_topics, the mutex m_topicMutex that      *)
(* guards it, and the life of the TopicGroup objects that std::shared_ptr  *)
(* keeps alive, with every public call that looks a topic up, inserts one, *)
(* replaces one or erases one running concurrently on several threads.     *)
(*                                                                         *)
(* An actor is a thread: a thread of the application (Threads), the        *)
(* listener thread of the emitter of group g (the actor is g itself) or    *)
(* the std::async task that unregisters topic t during the manager's       *)
(* shutdown (the actor is t itself).  pc[a] names the next step of actor   *)
(* a; a step is a stretch of code between two points where another thread  *)
(* can interfere: a lock acquisition, an unlock, an access to shared state *)
(* made without exclusive ownership, a join.                               *)
(*                                                                         *)
(* Per group the model keeps what these calls branch on; the DDS entities  *)
(* in full, and the ways in which creating one can fail, are in TopicGroup.*)
(***************************************************************************)
EXTENDS Naturals

CONSTANTS
    Threads,            \* the application's threads
    Topics,             \* topic names
    Groups,             \* storage cells for TopicGroup objects
    NoGroup,            \* the null std::shared_ptr<TopicGroup>
    NoActor,            \* m_topicMutex is not held exclusively
    MayCall,            \* [Threads -> SUBSET Calls]: what each thread calls
    CallbackCalls,      \* what a data callback calls, on whichever thread
    AddToRunning,       \* are callbacks added to emitters that already run?
    MaxCalls,           \* bound: [Threads -> Nat], calls per thread
    MaxCallbacks,       \* bound: callbacks per listener cell
    WriterPreferring    \* does a waiting writer hold back new readers?

Actors == Threads \cup Groups \cup Topics

Calls == { "registerTopic", "registerQos", "setQos", "unregisterTopic",
           "createPublisher", "createSubscriber", "addCallback",
           "getWriter", "readCallbacks", "cleanUpTopics" }

\* The calls of a callback that are modelled inside readCallbacks too.
NestedCalls == {"getWriter", "createPublisher", "unregisterTopic"}

ASSUME RegistryAssumption ==
    /\ NoGroup \notin Actors
    /\ NoActor \notin Actors
    /\ Threads \cap Groups = {}
    /\ Threads \cap Topics = {}
    /\ Groups \cap Topics = {}
    /\ MayCall \in [Threads -> SUBSET Calls]
    /\ CallbackCalls \subseteq Calls
    /\ (\/ "readCallbacks" \in CallbackCalls
        \/ \E a \in Threads : "readCallbacks" \in MayCall[a])
           => CallbackCalls \subseteq NestedCalls
    /\ AddToRunning \in BOOLEAN
    /\ MaxCalls \in [Threads -> Nat]
    /\ MaxCallbacks \in Nat
    /\ WriterPreferring \in BOOLEAN

VARIABLES
    m_topics,   \* [Topics -> group or NoGroup]: the map, NoGroup = no entry
    status,     \* [Groups -> "free", "alive", "dying" (in its destructor)]
    group,      \* [Groups -> Group]: the members the calls branch on
    unique,     \* the holder of m_topicMutex in exclusive mode
    shared,     \* [Actors -> 0..2]: shared acquisitions, nested ones counted
    pc,         \* [Actors -> PCs]
    topicName,  \* [Actors -> Topics]: the argument of the running call
    owner,      \* [Actors -> group]: the topicGroup local of registerTopic
    local,      \* [Actors -> group]: the shared_ptr local of the other calls
    setsLeft,   \* [Actors -> 0..3]: set*Qos calls still to make
    dying,      \* [Actors -> group]: the group whose destructor runs here
    callsLeft   \* [Actors -> Nat]: the bound on calls, counting down

threadVars == <<topicName, owner, local, setsLeft, dying, callsLeft>>
vars == <<m_topics, status, group, unique, shared, pc, threadVars>>

-----------------------------------------------------------------------------
(* TopicGroup as the calls see it.                                         *)

Group == [ topic   : BOOLEAN,      \* topic != nullptr
           preset  : BOOLEAN,      \* qosPreset != -1
           writer  : BOOLEAN,      \* publisher and writer exist
           reader  : BOOLEAN,      \* the reader (one name) exists
           emitter : {"none", "queued", "running"} ]

\* TopicGroup::TopicGroup().
NewGroup == [ topic |-> FALSE, preset |-> FALSE, writer |-> FALSE,
              reader |-> FALSE, emitter |-> "none" ]

\* The first step of each call, and the steps that wait for the mutex with
\* the step each acquisition leads to.
Entry == [ registerTopic |-> "reg_wait",      registerQos |-> "qos_wait",
           setQos |-> "set_wait",             unregisterTopic |-> "unreg_wait",
           createPublisher |-> "pub_wait",    createSubscriber |-> "sub_wait",
           addCallback |-> "cb_wait",         getWriter |-> "get_wait",
           readCallbacks |-> "read_wait",     cleanUpTopics |-> "clean_wait" ]

\* Mutant: createPublisher takes the shared lock, as createSubscriber does.
SharedStepPublish ==
    [ reg_wait |-> "reg_find",    qos_wait |-> "qos_find",
      set_wait |-> "set_find",    qos_rewait |-> "qos_preset",
      sub_wait |-> "sub_find",    cb_wait |-> "cb_find",
      cb_rewait |-> "cb_reader",  get_wait |-> "get_find",
      read_wait |-> "read_find",  read_rewait |-> "read_reply",
      pub_wait |-> "pub_create" ]

SharedStep == [ reg_wait |-> "reg_find",    qos_wait |-> "qos_find",
                set_wait |-> "set_find",    qos_rewait |-> "qos_preset",
                sub_wait |-> "sub_find",    cb_wait |-> "cb_find",
                cb_rewait |-> "cb_reader",  get_wait |-> "get_find",
                read_wait |-> "read_find",  read_rewait |-> "read_reply" ]

UniqueStep == [ reg_rewait |-> "reg_store",  unreg_wait |-> "unreg_erase",
                pub_wait |-> "pub_create",   clean_wait |-> "clean_spawn",
                clean_rewait |-> "clean_clear",
                read_create |-> "pub_create", read_erase |-> "unreg_erase" ]

SharedWaits == DOMAIN SharedStep
UniqueWaits == DOMAIN UniqueStep

\* Steps taken while the mutex is held in shared, in exclusive mode.
SharedHeld == { "reg_find", "qos_find", "set_find", "set_insert", "qos_preset",
                "sub_find", "sub_store", "cb_find", "cb_rewait", "cb_reader",
                "cb_emitter", "get_find", "read_find", "read_emit",
                "read_rewait", "read_reply", "read_create", "read_erase" }
UniqueHeld == {"reg_store", "unreg_erase", "pub_create", "clean_spawn",
               "clean_clear"}

PCs == {"off", "idle", "reg_create", "qos_check", "cb_run", "clean_join",
        "return", "destroy", "join"}
         \cup SharedWaits \cup UniqueWaits \cup SharedHeld \cup UniqueHeld

TypeOK ==
    /\ m_topics \in [Topics -> Groups \cup {NoGroup}]
    /\ status \in [Groups -> {"free", "alive", "dying"}]
    /\ group \in [Groups -> Group]
    /\ unique \in Actors \cup {NoActor}
    /\ shared \in [Actors -> 0..2]
    /\ pc \in [Actors -> PCs]
    /\ topicName \in [Actors -> Topics]
    /\ owner \in [Actors -> Groups \cup {NoGroup}]
    /\ local \in [Actors -> Groups \cup {NoGroup}]
    /\ setsLeft \in [Actors -> 0..3]
    /\ dying \in [Actors -> Groups \cup {NoGroup}]
    /\ callsLeft \in [Actors -> Nat]

\* The manager after joinDomain: no topics, every application thread idle.
Init ==
    /\ m_topics = [t \in Topics |-> NoGroup]
    /\ status = [g \in Groups |-> "free"]
    /\ group = [g \in Groups |-> NewGroup]
    /\ unique = NoActor
    /\ shared = [a \in Actors |-> 0]
    /\ pc = [a \in Actors |-> IF a \in Threads THEN "idle" ELSE "off"]
    /\ \E t \in Topics : topicName = [a \in Actors |-> t]
    /\ owner = [a \in Actors |-> NoGroup]
    /\ local = [a \in Actors |-> NoGroup]
    /\ setsLeft = [a \in Actors |-> 0]
    /\ dying = [a \in Actors |-> NoGroup]
    /\ callsLeft = [a \in Actors |-> IF a \in Threads THEN MaxCalls[a]
                                     ELSE IF a \in Groups THEN MaxCallbacks
                                     ELSE 0]

-----------------------------------------------------------------------------
(* Helpers.                                                                *)

Goto(a, p) == pc' = [pc EXCEPT ![a] = p]

\* unlock() of one shared acquisition; of the exclusive one.
UnlockShared(a) == shared' = [shared EXCEPT ![a] = @ - 1]
UnlockUnique == unique' = NoActor

\* Is there a shared_ptr to g in the map under another name than t; in a
\* local variable of a call?
InMapElse(g, t) == \E u \in Topics \ {t} : m_topics[u] = g
InLocals(g) == \E a \in Actors : owner[a] = g \/ local[a] = g

\* A cell that make_shared<TopicGroup>() may use.
IsFree(g) == status[g] = "free"

\* The entry an actor's call is about.
Found(a) == m_topics[topicName[a]]

-----------------------------------------------------------------------------
(* A call starts, and m_topicMutex is acquired.                            *)

\* A thread, or a listener thread inside a data callback, calls the manager.
Call(a, c, t) ==
    /\ pc[a] = "idle"
    /\ IF a \in Threads THEN c \in MayCall[a]
                        ELSE a \in Groups /\ c \in CallbackCalls
    /\ c = "addCallback" /\ m_topics[t] # NoGroup /\ ~AddToRunning =>
          group[m_topics[t]].emitter # "running"
    /\ callsLeft[a] > 0
    /\ callsLeft' = [callsLeft EXCEPT ![a] = @ - 1]
    /\ topicName' = [topicName EXCEPT ![a] = t]
    /\ setsLeft' = [setsLeft EXCEPT ![a] = IF c = "setQos" THEN 1 ELSE 0]
    /\ Goto(a, Entry[c])
    /\ UNCHANGED <<m_topics, status, group, unique, shared, owner, local, dying>>

\* std::shared_mutex::lock_shared().  Whether a reader gets past a waiting
\* writer is up to the platform's implementation.
LockShared(a) ==
    /\ pc[a] \in SharedWaits
    /\ unique = NoActor
    /\ WriterPreferring => \A b \in Actors : pc[b] \notin UniqueWaits
    /\ shared' = [shared EXCEPT ![a] = @ + 1]
    /\ Goto(a, SharedStep[pc[a]])
    /\ UNCHANGED <<m_topics, status, group, unique, threadVars>>

\* std::shared_mutex::lock().
LockUnique(a) ==
    /\ pc[a] \in UniqueWaits
    /\ unique = NoActor
    /\ \A b \in Actors : shared[b] = 0
    /\ unique' = a
    /\ Goto(a, UniqueStep[pc[a]])
    /\ UNCHANGED <<m_topics, status, group, shared, threadVars>>

-----------------------------------------------------------------------------
(* registerTopic.                                                          *)

\* Mutant: the lookup is not made, a new group is always created.
RegFindAlwaysNew(a, g) ==
    /\ pc[a] = "reg_find"
    /\ IsFree(g)
    /\ status' = [status EXCEPT ![g] = "alive"]
    /\ group' = [group EXCEPT ![g] = NewGroup]
    /\ owner' = [owner EXCEPT ![a] = g]
    /\ UnlockShared(a)
    /\ Goto(a, "reg_create")
    /\ UNCHANGED <<m_topics, unique, topicName, local, setsLeft, dying, callsLeft>>

\* No entry: a new group.
RegFindNone(a, g) ==
    /\ pc[a] = "reg_find"
    /\ Found(a) = NoGroup
    /\ IsFree(g)
    /\ status' = [status EXCEPT ![g] = "alive"]
    /\ group' = [group EXCEPT ![g] = NewGroup]
    /\ owner' = [owner EXCEPT ![a] = g]
    /\ UnlockShared(a)
    /\ Goto(a, "reg_create")
    /\ UNCHANGED <<m_topics, unique, topicName, local, setsLeft, dying, callsLeft>>

\* An entry without a topic object is used; with one, nothing is left to do.
RegFindSome(a) ==
    /\ pc[a] = "reg_find"
    /\ Found(a) # NoGroup
    /\ IF group[Found(a)].topic
       THEN /\ Goto(a, "return")
            /\ UNCHANGED <<owner, shared>>
       ELSE /\ owner' = [owner EXCEPT ![a] = Found(a)]
            /\ UnlockShared(a)
            /\ Goto(a, "reg_create")
    /\ UNCHANGED <<m_topics, status, group, unique, topicName, local, setsLeft,
                   dying, callsLeft>>

\* register_type and create_topic, without the mutex; both can fail.
RegCreate(a) ==
    /\ pc[a] = "reg_create"
    /\ \/ /\ group' = [group EXCEPT ![owner[a]].topic = TRUE]
          /\ Goto(a, "reg_rewait")
       \/ /\ group' = [group EXCEPT ![owner[a]].topic = FALSE]
          /\ Goto(a, "return")
    /\ UNCHANGED <<m_topics, status, unique, shared, threadVars>>

\* m_topics[topicName] = topicGroup: the group that was there, if any, loses
\* the map's reference and is destroyed right here if it was the last one.
RegStore(a) ==
    /\ pc[a] = "reg_store"
    /\ m_topics' = [m_topics EXCEPT ![topicName[a]] = owner[a]]
    /\ IF \/ Found(a) = NoGroup
          \/ InLocals(Found(a))
          \/ InMapElse(Found(a), topicName[a])
       THEN /\ UnlockUnique
            /\ Goto(a, "qos_wait")
            /\ UNCHANGED <<status, dying>>
       ELSE /\ status' = [status EXCEPT ![Found(a)] = "dying"]
            /\ dying' = [dying EXCEPT ![a] = Found(a)]
            /\ Goto(a, "destroy")
            /\ UNCHANGED unique
    /\ UNCHANGED <<group, shared, topicName, owner, local, setsLeft, callsLeft>>

-----------------------------------------------------------------------------
(* registerQos, also the tail of registerTopic, and the set*Qos calls.     *)

QosFind(a) ==
    /\ pc[a] = "qos_find"
    /\ IF Found(a) = NoGroup
       THEN /\ Goto(a, "return")
            /\ UNCHANGED <<local, shared>>
       ELSE /\ local' = [local EXCEPT ![a] = Found(a)]
            /\ UnlockShared(a)
            /\ Goto(a, "qos_check")
    /\ UNCHANGED <<m_topics, status, group, unique, topicName, owner, setsLeft,
                   dying, callsLeft>>

\* qosPreset is read after the unlock.  A preset that is already there, or a
\* qosType that is none of the four, ends the call.
QosCheck(a) ==
    /\ pc[a] = "qos_check"
    /\ \E valid \in BOOLEAN :
          IF group[local[a]].preset \/ ~valid
          THEN /\ Goto(a, "return")
               /\ UNCHANGED setsLeft
          ELSE /\ setsLeft' = [setsLeft EXCEPT ![a] = 3]
               /\ Goto(a, "set_wait")
    /\ UNCHANGED <<m_topics, status, group, unique, shared, topicName, owner,
                   local, dying, callsLeft>>

\* Mutant: one set*Qos call too many.
SetDoneTooLate(a) ==
    /\ setsLeft' = [setsLeft EXCEPT ![a] = @ - 1]
    /\ IF setsLeft[a] >= 1
       THEN UnlockShared(a) /\ Goto(a, "set_wait")
       ELSE UNCHANGED shared /\ Goto(a, "return")

\* Where a set*Qos call goes when it ends: the next one, or its caller.
SetDone(a) ==
    /\ setsLeft' = [setsLeft EXCEPT ![a] = @ - 1]
    /\ IF setsLeft[a] > 1
       THEN UnlockShared(a) /\ Goto(a, "set_wait")
       ELSE IF local[a] # NoGroup
       THEN UnlockShared(a) /\ Goto(a, "qos_rewait")
       ELSE UNCHANGED shared /\ Goto(a, "return")

\* The lookup of a set*Qos call; the QoS value itself is in TopicGroup.
SetFind(a) ==
    /\ pc[a] = "set_find"
    /\ IF Found(a) = NoGroup
       THEN /\ Goto(a, "set_insert")
            /\ UNCHANGED <<setsLeft, shared>>
       ELSE SetDone(a)
    /\ UNCHANGED <<m_topics, status, group, unique, topicName, owner, local,
                   dying, callsLeft>>

\* m_topics[topicName] = make_shared<TopicGroup>(), under the shared lock.  An
\* entry another thread put there since the lookup is replaced and, if that was
\* its last reference, destroyed on the spot (Join then comes back to the call).
SetInsert(a, g) ==
    /\ pc[a] = "set_insert"
    /\ IsFree(g)
    /\ group' = [group EXCEPT ![g] = NewGroup]
    /\ m_topics' = [m_topics EXCEPT ![topicName[a]] = g]
    /\ IF \/ Found(a) = NoGroup
          \/ InLocals(Found(a))
          \/ InMapElse(Found(a), topicName[a])
       THEN /\ status' = [status EXCEPT ![g] = "alive"]
            /\ SetDone(a)
            /\ UNCHANGED dying
       ELSE /\ status' = [status EXCEPT ![g] = "alive", ![Found(a)] = "dying"]
            /\ dying' = [dying EXCEPT ![a] = Found(a)]
            /\ Goto(a, "destroy")
            /\ UNCHANGED <<setsLeft, shared>>
    /\ UNCHANGED <<unique, topicName, owner, local, callsLeft>>

QosPreset(a) ==
    /\ pc[a] = "qos_preset"
    /\ group' = [group EXCEPT ![local[a]].preset = TRUE]
    /\ Goto(a, "return")
    /\ UNCHANGED <<m_topics, status, unique, shared, threadVars>>

-----------------------------------------------------------------------------
(* unregisterTopic, createPublisher, createSubscriber, getWriter.          *)

\* Mutant: the group is deleted in place, whoever else points to it.
UnregDelete(a) ==
    /\ pc[a] = "unreg_erase"
    /\ m_topics' = [m_topics EXCEPT ![topicName[a]] = NoGroup]
    /\ UnlockUnique
    /\ IF Found(a) = NoGroup
       THEN Goto(a, "return") /\ UNCHANGED <<status, dying>>
       ELSE /\ status' = [status EXCEPT ![Found(a)] = "dying"]
            /\ dying' = [dying EXCEPT ![a] = Found(a)]
            /\ Goto(a, "destroy")
    /\ UNCHANGED <<group, shared, topicName, owner, local, setsLeft, callsLeft>>

\* Mutant: no unlock before savePtrToDelete goes out of scope.
UnregLocked(a) ==
    /\ pc[a] = "unreg_erase"
    /\ local' = [local EXCEPT ![a] = Found(a)]
    /\ m_topics' = [m_topics EXCEPT ![topicName[a]] = NoGroup]
    /\ Goto(a, "return")
    /\ UNCHANGED <<status, group, unique, shared, topicName, owner, setsLeft,
                   dying, callsLeft>>

UnregErase(a) ==
    /\ pc[a] = "unreg_erase"
    /\ local' = [local EXCEPT ![a] = Found(a)]
    /\ m_topics' = [m_topics EXCEPT ![topicName[a]] = NoGroup]
    /\ UnlockUnique
    /\ Goto(a, "return")
    /\ UNCHANGED <<status, group, shared, topicName, owner, setsLeft, dying,
                   callsLeft>>

\* Entity creation under the exclusive lock; it can fail.
PubCreate(a) ==
    /\ pc[a] = "pub_create"
    /\ \/ /\ Found(a) # NoGroup
          /\ group[Found(a)].topic
          /\ group' = [group EXCEPT ![Found(a)].writer = TRUE]
       \/ UNCHANGED group
    /\ Goto(a, "return")
    /\ UNCHANGED <<m_topics, status, unique, shared, threadVars>>

SubFind(a) ==
    /\ pc[a] = "sub_find"
    /\ IF Found(a) # NoGroup /\ group[Found(a)].topic
       THEN /\ local' = [local EXCEPT ![a] = Found(a)]
            /\ Goto(a, IF group[Found(a)].reader THEN "return" ELSE "sub_store")
       ELSE /\ Goto(a, "return")
            /\ UNCHANGED local
    /\ UNCHANGED <<m_topics, status, group, unique, shared, topicName, owner,
                   setsLeft, dying, callsLeft>>

\* Entity creation and the insertion into readers and m_readerListeners, all
\* of it under the shared lock; the creation can fail.
SubStore(a) ==
    /\ pc[a] = "sub_store"
    /\ \/ group' = [group EXCEPT ![local[a]].reader = TRUE]
       \/ UNCHANGED group
    /\ Goto(a, "return")
    /\ UNCHANGED <<m_topics, status, unique, shared, threadVars>>

\* Mutant: the group's pointer is kept and the lock given back first.
GetFindUnlocked(a) ==
    /\ pc[a] = "get_find"
    /\ local' = [local EXCEPT ![a] = Found(a)]
    /\ UnlockShared(a)
    /\ Goto(a, "return")
    /\ UNCHANGED <<m_topics, status, group, unique, topicName, owner, setsLeft,
                   dying, callsLeft>>

\* getWriter, also inside writeSample and disposeSample: the lookup of a writer.
GetFind(a) ==
    /\ pc[a] = "get_find"
    /\ Goto(a, "return")
    /\ UNCHANGED <<m_topics, status, group, unique, shared, threadVars>>

-----------------------------------------------------------------------------
(* addCallback and readCallbacks.                                          *)

\* Mutant: addCallback gives its lock back before it calls getReader().
CbFindUnlocked(a) ==
    /\ pc[a] = "cb_find"
    /\ IF Found(a) = NoGroup
       THEN UNCHANGED shared /\ Goto(a, "return")
       ELSE UnlockShared(a) /\ Goto(a, "cb_rewait")
    /\ UNCHANGED <<m_topics, status, group, unique, threadVars>>

CbFind(a) ==
    /\ pc[a] = "cb_find"
    /\ Goto(a, IF Found(a) = NoGroup THEN "return" ELSE "cb_rewait")
    /\ UNCHANGED <<m_topics, status, group, unique, shared, threadVars>>

\* The nested getReader() returns and gives its own shared lock back.
CbReader(a) ==
    /\ pc[a] = "cb_reader"
    /\ UnlockShared(a)
    /\ Goto(a, IF group[Found(a)].reader THEN "cb_emitter" ELSE "return")
    /\ UNCHANGED <<m_topics, status, group, unique, threadVars>>

\* iter->second is copied, the emitter is found or created, then unlock().
CbEmitter(a) ==
    /\ pc[a] = "cb_emitter"
    /\ local' = [local EXCEPT ![a] = Found(a)]
    /\ group' = [group EXCEPT ![Found(a)].emitter =
                    IF @ = "none" THEN "queued" ELSE @]
    /\ UnlockShared(a)
    /\ Goto(a, "cb_run")
    /\ UNCHANGED <<m_topics, status, unique, topicName, owner, setsLeft, dying,
                   callsLeft>>

\* Unless messages are queued, emitter->run() starts the listener thread,
\* through a raw pointer and without the mutex.
CbRun(a) ==
    /\ pc[a] = "cb_run"
    /\ \/ /\ group[local[a]].emitter = "queued"
          /\ group' = [group EXCEPT ![local[a]].emitter = "running"]
          /\ pc' = [pc EXCEPT ![a] = "return", ![local[a]] = "idle"]
       \/ /\ Goto(a, "return")
          /\ UNCHANGED group
    /\ UNCHANGED <<m_topics, status, unique, shared, threadVars>>

ReadFind(a) ==
    /\ pc[a] = "read_find"
    /\ IF Found(a) # NoGroup /\ group[Found(a)].emitter # "none"
       THEN /\ local' = [local EXCEPT ![a] = Found(a)]
            /\ Goto(a, "read_emit")
       ELSE /\ Goto(a, "return")
            /\ UNCHANGED local
    /\ UNCHANGED <<m_topics, status, group, unique, shared, topicName, owner,
                   setsLeft, dying, callsLeft>>

\* readQueue() runs the callbacks with the shared lock held, and a callback makes
\* its calls from there: getWriter takes the shared lock again, createPublisher
\* and unregisterTopic wait for the exclusive one.
NestedWait == [ getWriter |-> "read_rewait", createPublisher |-> "read_create",
                unregisterTopic |-> "read_erase" ]

ReadEmit(a) ==
    /\ pc[a] = "read_emit"
    /\ \/ Goto(a, "return")
       \/ \E c \in CallbackCalls \cap NestedCalls : Goto(a, NestedWait[c])
    /\ UNCHANGED <<m_topics, status, group, unique, shared, threadVars>>

ReadReply(a) ==
    /\ pc[a] = "read_reply"
    /\ UnlockShared(a)
    /\ Goto(a, "return")
    /\ UNCHANGED <<m_topics, status, group, unique, threadVars>>

-----------------------------------------------------------------------------
(* cleanUpTopicsForOneManager.                                             *)

\* One asynchronous unregisterTopic per entry, each on a thread of its own
\* (the destructor is the only caller: no earlier task is still around).
CleanSpawn(a) ==
    /\ pc[a] = "clean_spawn"
    /\ \A t \in Topics : pc[t] = "off"
    /\ pc' = [b \in Actors |->
                 IF b = a THEN "clean_join"
                 ELSE IF b \in Topics /\ m_topics[b] # NoGroup THEN "unreg_wait"
                 ELSE pc[b]]
    /\ topicName' = [b \in Actors |-> IF b \in Topics THEN b ELSE topicName[b]]
    /\ UnlockUnique
    /\ UNCHANGED <<m_topics, status, group, shared, owner, local, setsLeft,
                   dying, callsLeft>>

\* Mutant: the futures are not waited for.
CleanJoinAtOnce(a) ==
    /\ pc[a] = "clean_join"
    /\ Goto(a, "clean_rewait")
    /\ UNCHANGED <<m_topics, status, group, unique, shared, threadVars>>

CleanJoin(a) ==
    /\ pc[a] = "clean_join"
    /\ \A t \in Topics : pc[t] = "off"
    /\ Goto(a, "clean_rewait")
    /\ UNCHANGED <<m_topics, status, group, unique, shared, threadVars>>

\* m_topics.clear(): node by node, destroying groups under the lock.
CleanClear(a) ==
    /\ pc[a] = "clean_clear"
    /\ \/ \E t \in Topics :
            /\ m_topics[t] # NoGroup
            /\ m_topics' = [m_topics EXCEPT ![t] = NoGroup]
            /\ IF InLocals(m_topics[t]) \/ InMapElse(m_topics[t], t)
               THEN UNCHANGED <<status, dying, pc>>
               ELSE /\ status' = [status EXCEPT ![m_topics[t]] = "dying"]
                    /\ dying' = [dying EXCEPT ![a] = m_topics[t]]
                    /\ Goto(a, "destroy")
       \/ /\ \A t \in Topics : m_topics[t] = NoGroup
          /\ Goto(a, "return")
          /\ UNCHANGED <<m_topics, status, dying>>
    /\ UNCHANGED <<group, unique, shared, topicName, owner, local, setsLeft,
                   callsLeft>>

-----------------------------------------------------------------------------
(* Leaving a call: its locals are destroyed in reverse order of their      *)
(* declaration, the lock among them, and a last shared_ptr takes its group *)
(* along.                                                                  *)

\* Mutant: an emitter's callback holds a shared_ptr to its own group.
ReleaseCycle(a, g, others) == UNCHANGED <<status, dying, pc>>

\* A shared_ptr of actor a to g goes away; others says whether one is left.
Release(a, g, others) ==
    IF others
    THEN UNCHANGED <<status, dying, pc>>
    ELSE /\ status' = [status EXCEPT ![g] = "dying"]
         /\ dying' = [dying EXCEPT ![a] = g]
         /\ Goto(a, "destroy")

\* topicGroup (savePtrToDelete) is declared after the lock: it goes first.
DropLocal(a) ==
    LET g == local[a] IN
    /\ pc[a] = "return"
    /\ g # NoGroup
    /\ local' = [local EXCEPT ![a] = NoGroup]
    /\ Release(a, g, \/ \E t \in Topics : m_topics[t] = g
                     \/ \E b \in Actors : owner[b] = g
                     \/ \E b \in Actors \ {a} : local[b] = g)
    /\ UNCHANGED <<m_topics, group, unique, shared, topicName, owner, setsLeft,
                   callsLeft>>

\* The lock, if it is still held.
DropLock(a) ==
    /\ pc[a] = "return"
    /\ local[a] = NoGroup
    /\ shared[a] > 0 \/ unique = a
    /\ shared' = [shared EXCEPT ![a] = 0]
    /\ unique' = IF unique = a THEN NoActor ELSE unique
    /\ UNCHANGED <<m_topics, status, group, pc, threadVars>>

\* registerTopic's topicGroup goes last, when registerQos has returned.
DropOwner(a) ==
    LET g == owner[a] IN
    /\ pc[a] = "return"
    /\ local[a] = NoGroup
    /\ shared[a] = 0 /\ unique # a
    /\ g # NoGroup
    /\ owner' = [owner EXCEPT ![a] = NoGroup]
    /\ Release(a, g, \/ \E t \in Topics : m_topics[t] = g
                     \/ \E b \in Actors : local[b] = g
                     \/ \E b \in Actors \ {a} : owner[b] = g)
    /\ UNCHANGED <<m_topics, group, unique, shared, topicName, local, setsLeft,
                   callsLeft>>

\* The call returns.  An asynchronous unregisterTopic ends its thread.
Return(a) ==
    /\ pc[a] = "return"
    /\ local[a] = NoGroup /\ owner[a] = NoGroup
    /\ shared[a] = 0 /\ unique # a
    /\ Goto(a, IF a \in Topics THEN "off" ELSE "idle")
    /\ UNCHANGED <<m_topics, status, group, unique, shared, threadVars>>

-----------------------------------------------------------------------------
(* The destructor and the listener thread.                                 *)

\* Mutant: the thread is joined without being told to stop.
DestroyRunning(a) ==
    /\ pc[a] = "destroy"
    /\ Goto(a, "join")
    /\ UNCHANGED <<m_topics, status, group, unique, shared, threadVars>>

\* ~TopicGroup: Emitter::stop() clears m_running ...
Destroy(a) ==
    /\ pc[a] = "destroy"
    /\ group' = [group EXCEPT ![dying[a]].emitter =
                    IF @ = "running" THEN "queued" ELSE @]
    /\ Goto(a, "join")
    /\ UNCHANGED <<m_topics, status, unique, shared, threadVars>>

\* ... and joins the thread.  A thread that joins itself never gets here.
\* Then the memory is given back and the interrupted call goes on: a store of
\* registerTopic, a clear(), a set*Qos or a return.
Join(a) ==
    /\ pc[a] = "join"
    /\ dying[a] # a
    /\ pc[dying[a]] = "off"
    /\ status' = [status EXCEPT ![dying[a]] = "free"]
    /\ group' = [group EXCEPT ![dying[a]] = NewGroup]
    /\ dying' = [dying EXCEPT ![a] = NoGroup]
    /\ IF unique = a /\ owner[a] # NoGroup
       THEN UnlockUnique /\ Goto(a, "qos_wait")
       ELSE /\ Goto(a, IF unique = a THEN "clean_clear"
                       ELSE IF shared[a] > 0 /\ setsLeft[a] > 0 THEN "set_find"
                       ELSE "return")
            /\ UNCHANGED unique
    /\ UNCHANGED <<m_topics, shared, topicName, owner, local, setsLeft, callsLeft>>

\* listen() leaves its loop once m_running is false.
ListenerExit(g) ==
    /\ pc[g] = "idle"
    /\ group[g].emitter # "running"
    /\ Goto(g, "off")
    /\ UNCHANGED <<m_topics, status, group, unique, shared, threadVars>>

-----------------------------------------------------------------------------

Lookup(a) ==
    \/ RegFindSome(a) \/ QosFind(a) \/ QosCheck(a) \/ SetFind(a) \/ SubFind(a)
    \/ GetFind(a) \/ CbFind(a) \/ CbReader(a) \/ ReadFind(a) \/ ReadEmit(a)
    \/ ReadReply(a)

Update(a) ==
    \/ \E g \in Groups : RegFindNone(a, g) \/ SetInsert(a, g)
    \/ RegCreate(a) \/ RegStore(a) \/ QosPreset(a) \/ UnregErase(a)
    \/ PubCreate(a) \/ SubStore(a) \/ CbEmitter(a) \/ CbRun(a)
    \/ CleanSpawn(a) \/ CleanJoin(a) \/ CleanClear(a)

Leave(a) ==
    \/ DropLocal(a) \/ DropLock(a) \/ DropOwner(a) \/ Return(a)
    \/ Destroy(a) \/ Join(a)

\* What a running thread does by itself.
Step(a) == LockShared(a) \/ LockUnique(a) \/ Lookup(a) \/ Update(a) \/ Leave(a)

\* Every thread between calls, every bound used up.
Finished ==
    /\ \A a \in Actors : pc[a] \in {"idle", "off"}
    /\ UNCHANGED vars

Next ==
    \/ \E a \in Actors : Step(a)
    \/ \E a \in Actors, c \in Calls, t \in Topics : Call(a, c, t)
    \/ \E g \in Groups : ListenerExit(g)
    \/ Finished

Spec == Init /\ [][Next]_vars

\* The scheduler runs every thread that can run: one that is inside a call,
\* and a listener whose wait has its 10 ms time-out.
Fairness ==
    /\ \A a \in Actors : WF_vars(Step(a))
    /\ \A g \in Groups : WF_vars(ListenerExit(g))

FairSpec == Spec /\ Fairness

-----------------------------------------------------------------------------
(* Safety.                                                                 *)

\* Nobody uses a TopicGroup whose destructor has begun: not the map, not a
\* call that carries a pointer across an unlock (registerTopic over
\* create_topic, registerQos over its set*Qos calls, addCallback over
\* emitter->run()), and a listener thread never outlives the group that
\* contains its emitter.
NoUseAfterFree ==
    /\ \A t \in Topics : m_topics[t] # NoGroup => status[m_topics[t]] = "alive"
    /\ \A a \in Actors : owner[a] # NoGroup => status[owner[a]] = "alive"
    /\ \A a \in Actors : local[a] # NoGroup => status[local[a]] = "alive"
    /\ \A g \in Groups : pc[g] # "off" => status[g] # "free"

\* The iterators and pointers that a call took out of m_topics stay valid
\* while it goes on using them under the shared lock, in addCallback over the
\* nested acquisition of getReader() included: the topic stays in the map.
LookupStable ==
    \A a \in Actors :
        pc[a] \in {"cb_rewait", "cb_reader", "cb_emitter", "sub_store",
                  "read_emit", "read_rewait", "read_reply", "read_create",
                  "read_erase"} => Found(a) # NoGroup

\* An entry leaves the map only while one thread has the mutex to itself
\* ("Erase from map within a unique_lock, so we are thread safe").
EraseStep ==
    \A t \in Topics :
        (m_topics[t] # NoGroup /\ m_topics'[t] = NoGroup) =>
            unique # NoActor /\ \A a \in Actors : shared[a] = 0

EraseExclusive == [][EraseStep]_vars

\* "We have to delete outside of a mutex lock so we don't deadlock with
\* OpenDDS mutexes": a thread inside ~TopicGroup does not hold m_topicMutex.
DestroyOutsideLock ==
    \A a \in Actors : dying[a] # NoGroup => unique # a /\ shared[a] = 0

\* Steps that modify the structure of m_topics, and those that walk it.
MapWrites == {"reg_store", "set_insert", "unreg_erase", "clean_clear"}
MapReads == {"reg_find", "qos_find", "set_find", "sub_find", "cb_find",
             "cb_reader", "get_find", "read_find", "read_reply", "pub_create",
             "clean_spawn"}

\* The group whose members a step touches, if any.
Object(a) ==
    CASE pc[a] = "reg_create" -> owner[a]
      [] pc[a] \in {"qos_check", "qos_preset", "sub_store", "cb_run", "read_emit",
                    "read_rewait", "read_reply", "read_create", "read_erase"} ->
            local[a]
      [] pc[a] \in {"destroy", "join"} -> dying[a]
      [] OTHER -> Found(a)

\* The members of TopicGroup and of its emitter that a step modifies ...
WrittenAt(p) ==
    CASE p = "reg_create" -> {"topic"}
      [] p = "set_find" -> {"qos"}
      [] p = "qos_preset" -> {"qosPreset"}
      [] p = "pub_create" -> {"writer"}
      [] p = "sub_store" -> {"readers"}
      [] p = "cb_emitter" -> {"emitters", "m_callbacks"}
      [] p = "cb_run" -> {"m_dataThread"}
      [] p \in {"destroy", "join"} -> {"topic", "writer", "readers", "m_dataThread"}
      [] OTHER -> {}

\* ... and those it reads.  Callbacks run while readCallbacks iterates over
\* m_callbacks, whatever they call.
ReadAt(p) ==
    CASE p = "reg_find" -> {"topic"}
      [] p = "qos_check" -> {"qosPreset"}
      [] p = "pub_create" -> {"topic", "qos"}
      [] p = "sub_find" -> {"topic", "readers"}
      [] p = "sub_store" -> {"qos"}
      [] p = "get_find" -> {"writer"}
      [] p = "cb_reader" -> {"readers"}
      [] p = "read_find" -> {"emitters"}
      [] p = "read_reply" -> {"m_callbacks", "writer"}
      [] p \in {"read_emit", "read_rewait", "read_create", "read_erase"} ->
            {"m_callbacks"}
      [] OTHER -> {}

Writes(a, g) == IF Object(a) = g THEN WrittenAt(pc[a]) ELSE {}

\* The listener thread of g iterates over its callbacks whenever it runs.
Reads(a, g) == (IF Object(a) = g THEN ReadAt(pc[a]) ELSE {})
                  \cup (IF a = g /\ pc[a] # "off" THEN {"m_callbacks"} ELSE {})

\* No data race on the map or on a TopicGroup: while a thread is about to modify
\* the tree of m_topics, or a member of a group or of its emitter, no other one
\* is about to read or modify that.  (The flag m_running is left out: stop()
\* clears it, unsynchronised, while the listener reads it.)
DataRaceFree ==
    \A a, b \in Actors : a # b =>
        /\ pc[a] \in MapWrites => pc[b] \notin MapWrites \cup MapReads
        /\ \A g \in Groups : Writes(a, g) \cap (Reads(b, g) \cup Writes(b, g)) = {}

\* A data callback never turns out to hold the last reference to the group
\* that runs it: the listener thread would join itself.
NoSelfJoin == \A g \in Groups : dying[g] # g

\* What a thread set up on a topic stays there until the topic is
\* unregistered: a group that has a reader or a writer is not replaced.
NoLostEntities ==
    [][ \A t \in Topics :
          LET g == m_topics[t] IN
          (g # NoGroup /\ m_topics'[t] # g) =>
              \/ \E a \in Actors : pc[a] \in {"unreg_erase", "clean_clear"}
              \/ ~group[g].reader /\ ~group[g].writer ]_vars

\* The clear() at the end of the shutdown is only "a fallback, topics should
\* already be cleared by the unregisterTopic() calls".
FallbackUnused ==
    \A a \in Actors : pc[a] = "clean_clear" =>
        \A t \in Topics : m_topics[t] = NoGroup

-----------------------------------------------------------------------------
(* Refinement.                                                             *)

\* The groups an actor's local shared_ptrs point to.
Held == [a \in Actors |-> {owner[a], local[a]} \ {NoGroup}]

Map == INSTANCE TopicMap WITH entry <- m_topics, held <- Held, life <- status

\* The calls, interleaved as they may be, behave like a map whose operations
\* take one step each and whose groups are destroyed with their last reference.
ImplementsMap == Map!Spec

\* No group leaks: one that lives is in the map or in use by a call.  (That one
\* in the map or in use lives is NoUseAfterFree.)
AliveIffReferenced == Map!AliveIffReferenced

-----------------------------------------------------------------------------
(* Liveness.                                                               *)

\* Every call on an application thread returns, whatever the others do: no
\* deadlock on m_topicMutex and none with the join of a listener thread.
CallsReturn == \A a \in Threads : (pc[a] # "idle") ~> (pc[a] = "idle")
=============================================================================
