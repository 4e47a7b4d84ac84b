-------------------------- MODULE TopicOwnerProofs --------------------------
(***************************************************************************)
(* What TopicRegistry's calls promise to an application in which one       *)
(* thread owns the topics.  The owner makes the calls that create, change  *)
(* and remove topics; every other thread, and every data callback, only    *)
(* publishes, looks writers up and reads callbacks.  The runs that race    *)
(* show what goes wrong without that discipline; here it is shown to be    *)
(* enough, for any number of threads, topics, groups and calls.            *)
(***************************************************************************)
EXTENDS TopicRegistryProofs

\* Calls that leave m_topics and the containers of a TopicGroup alone, or work
\* on them under the exclusive lock.
UserCalls == {"createPublisher", "getWriter", "readCallbacks"}

\* Thread o owns the topics.  It makes any call but the bare set*Qos, which
\* inserts a missing topic under the shared lock.
SingleOwner(o) ==
    /\ MayCall[o] \subseteq Calls \ {"setQos"}
    /\ \A a \in Threads \ {o} : MayCall[a] \subseteq UserCalls
    /\ CallbackCalls \subseteq UserCalls

-----------------------------------------------------------------------------
(* The inductive invariant, on top of that of TopicRegistryProofs.         *)

\* Where a user of the topics and a task of the shutdown can be.
UserPCs == {"off", "idle", "pub_wait", "pub_create", "get_wait", "get_find",
            "read_wait", "read_find", "read_emit", "read_rewait", "read_reply",
            "read_create", "read_erase",
            "return"}
TaskPCs == {"off", "unreg_wait", "unreg_erase", "return", "destroy", "join"}

\* A user points to a group only under the shared lock and destroys none.
UsersInv(o) ==
    \A a \in Actors \ {o} :
        /\ owner[a] = NoGroup
        /\ a \notin Topics =>
              /\ pc[a] \in UserPCs
              /\ dying[a] = NoGroup
              /\ local[a] # NoGroup => shared[a] > 0

\* The tasks of the shutdown run while the owner waits for them, and take every
\* topic with them.
TasksInv(o) ==
    /\ \A t \in Topics :
          /\ pc[t] \in TaskPCs
          /\ pc[t] # "off" => topicName[t] = t /\ pc[o] = "clean_join"
          /\ pc[o] = "clean_join" /\ m_topics[t] # NoGroup =>
                pc[t] \in {"unreg_wait", "unreg_erase"}
    /\ pc[o] \in {"clean_rewait", "clean_clear"} =>
          \A t \in Topics : m_topics[t] = NoGroup

\* The owner finds the map as it left it: what registerTopic looked up is still
\* there when it stores, and what registerQos found when it sets the QoS.
PlaceInv(o) ==
    /\ pc[o] # "set_insert"
    /\ pc[o] \in {"reg_create", "reg_rewait", "reg_store"} =>
          owner[o] # NoGroup /\ Found(o) \in {NoGroup, owner[o]}
    /\ pc[o] \in {"qos_check", "set_wait", "set_find", "qos_rewait", "qos_preset"} =>
          local[o] # NoGroup /\ Found(o) = local[o]

\* Where a call has a group in its local variable; under the lock it is the one
\* in the map.
Carrying == {"qos_check", "set_wait", "set_find", "qos_rewait", "qos_preset",
             "sub_store", "cb_run", "read_emit", "read_rewait", "read_reply",
             "read_create", "read_erase", "return"}

LocalInv ==
    \A a \in Actors : local[a] # NoGroup =>
        /\ pc[a] \in Carrying
        /\ shared[a] > 0 \/ unique = a => Found(a) = local[a]

\* A destructor runs outside the lock.
OutsideInv ==
    \A a \in Actors :
        pc[a] \in {"destroy", "join"} => unique # a /\ shared[a] = 0

OwnInv(o) ==
    UsersInv(o) /\ TasksInv(o) /\ PlaceInv(o) /\ LocalInv /\ OutsideInv

-----------------------------------------------------------------------------
(* The discipline.                                                         *)

\* Who makes which call.
LEMMA Callers ==
    ASSUME NEW o \in Threads, SingleOwner(o),
           NEW a \in Actors, NEW c \in Calls, NEW t \in Topics, Call(a, c, t)
    PROVE  /\ a = o => c # "setQos"
           /\ a # o => a \notin Topics /\ c \in UserCalls
  BY RegistryAssumption DEF SingleOwner, Call, Actors

\* ... and how the calls of the users begin.
LEMMA UserEntries ==
    ASSUME NEW c \in UserCalls
    PROVE  Entry[c] \in {"pub_wait", "get_wait", "read_wait"}
  BY DEF UserCalls, Entry

\* Every call begins with waiting for the mutex.
LEMMA EntryNames ==
    ASSUME NEW c \in Calls
    PROVE  /\ Entry[c] \in { "reg_wait", "qos_wait", "set_wait", "unreg_wait",
                             "pub_wait", "sub_wait", "cb_wait", "get_wait",
                             "read_wait", "clean_wait" }
           /\ Entry[c] = "set_wait" <=> c = "setQos"
  BY DEF Calls, Entry

\* An owner is an actor, but no group and no topic.
LEMMA OwnerIsThread ==
    ASSUME NEW o \in Threads
    PROVE  o \in Actors /\ o \notin Groups /\ o \notin Topics
  BY RegistryAssumption DEF Actors

\* The places only the owner gets to, and one that nobody does.
LEMMA OwnerOnly ==
    ASSUME NEW o \in Threads, UsersInv(o), TasksInv(o), NEW a \in Actors,
           pc[a] \in { "reg_wait", "reg_find", "reg_create", "reg_rewait",
                       "reg_store", "qos_wait", "qos_find", "qos_check", "set_wait",
                       "set_find", "set_insert", "qos_rewait", "qos_preset",
                       "sub_wait", "sub_find", "sub_store", "cb_wait", "cb_find",
                       "cb_rewait", "cb_reader", "cb_emitter", "cb_run",
                       "clean_wait", "clean_spawn", "clean_join", "clean_rewait",
                       "clean_clear" }
    PROVE  a = o
  BY DEF UsersInv, TasksInv, UserPCs, TaskPCs

\* run() turns a listener thread on that was off, and touches no other thread.
LEMMA RunStarts ==
    ASSUME TypeOK, ListenerInv, NoUseAfterFree, NEW a \in Actors, CbRun(a)
    PROVE  /\ pc'[a] = "return"
           /\ \A b \in Actors \ {a} :
                 pc'[b] = pc[b] \/ (b \in Groups /\ pc[b] = "off" /\ pc'[b] = "idle")
<1>1. CASE Goto(a, "return")
  BY <1>1 DEF Goto, TypeOK
<1>2. CASE /\ group[local[a]].emitter = "queued"
           /\ pc' = [pc EXCEPT ![a] = "return", ![local[a]] = "idle"]
  <2>1. local[a] = NoGroup => local[a] \notin Actors
    BY RegistryAssumption
  <2>2. local[a] # NoGroup => local[a] \in Groups /\ pc[local[a]] = "off"
    BY <1>2 DEF TypeOK, ListenerInv, NoUseAfterFree
  <2>3. local[a] # a
    BY <2>1, <2>2 DEF CbRun
  <2> QED
    BY <1>2, <2>1, <2>2, <2>3 DEF TypeOK
<1> QED
  BY <1>1, <1>2 DEF CbRun

-----------------------------------------------------------------------------
(* The steps.                                                              *)

\* The users stay within their calls; one that leaves readCallbacks under the
\* lock never has the last pointer to a group.
LEMMA UsersStep ==
    ASSUME NEW o \in Threads, SingleOwner(o), TypeOK, LockInv, [Next]_vars,
           ListenerInv, NoUseAfterFree, UsersInv(o), TasksInv(o),
           PlaceInv(o), LocalInv
    PROVE  UsersInv(o)'
<1> USE DEF UsersInv, UserPCs, TypeOK
<1>0. /\ o \in Actors /\ o \notin Groups /\ o \notin Topics
      /\ NoActor \notin Actors /\ NoGroup \notin Groups
      /\ Topics \subseteq Actors /\ Topics \cap Groups = {}
  BY OwnerIsThread, RegistryAssumption DEF Actors
<1>1. ASSUME UNCHANGED vars
      PROVE  UsersInv(o)'
  BY <1>1, <1>0, OwnerOnly DEF vars, threadVars
<1>2. ASSUME NEW a \in Actors, NEW c \in Calls, NEW t \in Topics, Call(a, c, t)
      PROVE  UsersInv(o)'
  BY <1>2, <1>0, OwnerOnly, Callers, UserEntries DEF Call, threadVars, Goto
<1>3. ASSUME NEW a \in Actors, LockShared(a)
      PROVE  UsersInv(o)'
  BY <1>3, <1>0, OwnerOnly
  DEF LockShared, threadVars, Goto, SharedWaits, SharedStep
<1>4. ASSUME NEW a \in Actors, LockUnique(a)
      PROVE  UsersInv(o)'
  <2>1. pc[a] \notin {"read_create", "read_erase"}
    BY <1>4, NoUpgrade DEF SharedHeld
  <2> QED
    BY <1>4, <1>0, <2>1, OwnerOnly
    DEF LockUnique, threadVars, Goto, UniqueWaits, UniqueStep
<1>5. ASSUME NEW a \in Actors, RegFindSome(a)
      PROVE  UsersInv(o)'
  BY <1>5, <1>0, OwnerOnly DEF RegFindSome, UnlockShared, threadVars, Goto
<1>6. ASSUME NEW a \in Actors, QosFind(a)
      PROVE  UsersInv(o)'
  BY <1>6, <1>0, OwnerOnly DEF QosFind, UnlockShared, threadVars, Goto
<1>7. ASSUME NEW a \in Actors, QosCheck(a)
      PROVE  UsersInv(o)'
  BY <1>7, <1>0, OwnerOnly DEF QosCheck, threadVars, Goto
<1>8. ASSUME NEW a \in Actors, SetFind(a)
      PROVE  UsersInv(o)'
  BY <1>8, <1>0, OwnerOnly
  DEF SetFind, SetDone, UnlockShared, threadVars, Goto
<1>9. ASSUME NEW a \in Actors, SubFind(a)
      PROVE  UsersInv(o)'
  BY <1>9, <1>0, OwnerOnly DEF SubFind, threadVars, Goto
<1>10. ASSUME NEW a \in Actors, GetFind(a)
      PROVE  UsersInv(o)'
  BY <1>10, <1>0, OwnerOnly DEF GetFind, threadVars, Goto
<1>11. ASSUME NEW a \in Actors, CbFind(a)
      PROVE  UsersInv(o)'
  BY <1>11, <1>0, OwnerOnly DEF CbFind, threadVars, Goto
<1>12. ASSUME NEW a \in Actors, CbReader(a)
      PROVE  UsersInv(o)'
  BY <1>12, <1>0, OwnerOnly DEF CbReader, UnlockShared, threadVars, Goto
<1>13. ASSUME NEW a \in Actors, ReadFind(a)
      PROVE  UsersInv(o)'
  BY <1>13, <1>0, OwnerOnly
  DEF ReadFind, threadVars, Goto, LockInv, SharedHeld, Nested
<1>14. ASSUME NEW a \in Actors, ReadEmit(a)
      PROVE  UsersInv(o)'
  BY <1>14, <1>0, OwnerOnly, ReadGoes DEF ReadEmit, threadVars, Goto
<1>15. ASSUME NEW a \in Actors, ReadReply(a)
      PROVE  UsersInv(o)'
  BY <1>15, <1>0, OwnerOnly
  DEF ReadReply, UnlockShared, threadVars, Goto, LockInv, SharedHeld, Nested
<1>16. ASSUME NEW a \in Actors, RegCreate(a)
      PROVE  UsersInv(o)'
  BY <1>16, <1>0, OwnerOnly DEF RegCreate, threadVars, Goto
<1>17. ASSUME NEW a \in Actors, QosPreset(a)
      PROVE  UsersInv(o)'
  BY <1>17, <1>0, OwnerOnly DEF QosPreset, threadVars, Goto
<1>18. ASSUME NEW a \in Actors, PubCreate(a)
      PROVE  UsersInv(o)'
  BY <1>18, <1>0, OwnerOnly DEF PubCreate, threadVars, Goto
<1>19. ASSUME NEW a \in Actors, SubStore(a)
      PROVE  UsersInv(o)'
  BY <1>19, <1>0, OwnerOnly DEF SubStore, threadVars, Goto
<1>20. ASSUME NEW a \in Actors, CbEmitter(a)
      PROVE  UsersInv(o)'
  BY <1>20, <1>0, OwnerOnly DEF CbEmitter, UnlockShared, threadVars, Goto
<1>21. ASSUME NEW a \in Actors, CleanJoin(a)
      PROVE  UsersInv(o)'
  BY <1>21, <1>0, OwnerOnly DEF CleanJoin, threadVars, Goto
<1>22. ASSUME NEW a \in Actors, RegStore(a)
      PROVE  UsersInv(o)'
  BY <1>22, <1>0, OwnerOnly
  DEF RegStore, UnlockUnique, InLocals, threadVars, Goto
<1>23. ASSUME NEW a \in Actors, UnregErase(a)
      PROVE  UsersInv(o)'
  BY <1>23, <1>0, OwnerOnly DEF UnregErase, UnlockUnique, threadVars, Goto
<1>24. ASSUME NEW a \in Actors, CbRun(a)
      PROVE  UsersInv(o)'
  BY <1>24, <1>0, OwnerOnly, RunStarts DEF CbRun, threadVars, Goto
<1>25. ASSUME NEW a \in Actors, CleanSpawn(a)
      PROVE  UsersInv(o)'
  BY <1>25, <1>0, OwnerOnly DEF CleanSpawn, UnlockUnique, threadVars
<1>26. ASSUME NEW a \in Actors, CleanClear(a)
      PROVE  UsersInv(o)'
  BY <1>26, <1>0, OwnerOnly
  DEF CleanClear, InLocals, InMapElse, threadVars, Goto
<1>27. ASSUME NEW a \in Actors, DropLocal(a)
      PROVE  UsersInv(o)'
  <2>1. a # o /\ a \notin Topics => shared[a] > 0 /\ Found(a) = local[a]
    BY <1>27 DEF DropLocal, LocalInv
  <2>2. a # o /\ a \notin Topics => UNCHANGED <<status, dying, pc>>
    BY <1>27, <2>1 DEF DropLocal, Release, Found
  <2> QED
    BY <1>27, <2>2 DEF DropLocal, Release, Goto
<1>28. ASSUME NEW a \in Actors, DropLock(a)
      PROVE  UsersInv(o)'
  BY <1>28, <1>0, OwnerOnly DEF DropLock, threadVars, Goto
<1>29. ASSUME NEW a \in Actors, DropOwner(a)
      PROVE  UsersInv(o)'
  BY <1>29, <1>0, OwnerOnly DEF DropOwner, Release, threadVars, Goto
<1>30. ASSUME NEW a \in Actors, Return(a)
      PROVE  UsersInv(o)'
  BY <1>30, <1>0, OwnerOnly DEF Return, threadVars, Goto
<1>31. ASSUME NEW a \in Actors, Destroy(a)
      PROVE  UsersInv(o)'
  BY <1>31, <1>0, OwnerOnly DEF Destroy, threadVars, Goto
<1>32. ASSUME NEW a \in Actors, Join(a)
      PROVE  UsersInv(o)'
  BY <1>32, <1>0, OwnerOnly DEF Join, UnlockUnique, threadVars, Goto
<1>33. ASSUME NEW a \in Actors, NEW g \in Groups, RegFindNone(a, g)
      PROVE  UsersInv(o)'
  BY <1>33, <1>0, OwnerOnly DEF RegFindNone, IsFree, UnlockShared, Goto
<1>34. ASSUME NEW a \in Actors, NEW g \in Groups, SetInsert(a, g)
      PROVE  UsersInv(o)'
  BY <1>34, <1>0, OwnerOnly DEF SetInsert, PlaceInv
<1>35. ASSUME NEW g \in Groups, ListenerExit(g)
      PROVE  UsersInv(o)'
  BY <1>35, <1>0, OwnerOnly DEF ListenerExit, threadVars, Goto
<1> QED
  BY <1>1, <1>2, <1>3, <1>4, <1>5, <1>6, <1>7, <1>8, <1>9, <1>10, <1>11,
     <1>12, <1>13, <1>14, <1>15, <1>16, <1>17, <1>18, <1>19, <1>20, <1>21,
     <1>22, <1>23, <1>24, <1>25, <1>26, <1>27, <1>28, <1>29, <1>30, <1>31,
     <1>32, <1>33, <1>34, <1>35
  DEF Next, Step, Lookup, Update, Leave, Finished

\* A task erases its topic and ends; nobody puts a topic back before the owner
\* goes on.
LEMMA TasksStep ==
    ASSUME NEW o \in Threads, SingleOwner(o), TypeOK, LockInv, [Next]_vars,
           DyingInv, ListenerInv, NoUseAfterFree, UsersInv(o), TasksInv(o),
           PlaceInv(o), LocalInv, OutsideInv
    PROVE  TasksInv(o)'
<1> USE DEF TasksInv, TaskPCs, TypeOK, Found
<1>0. /\ o \in Actors /\ o \notin Groups /\ o \notin Topics
      /\ NoActor \notin Actors /\ NoGroup \notin Groups
      /\ Topics \subseteq Actors /\ Topics \cap Groups = {}
  BY OwnerIsThread, RegistryAssumption DEF Actors
<1>1. ASSUME UNCHANGED vars
      PROVE  TasksInv(o)'
  BY <1>1, <1>0, OwnerOnly DEF vars, threadVars
<1>2. ASSUME NEW a \in Actors, NEW c \in Calls, NEW t \in Topics, Call(a, c, t)
      PROVE  TasksInv(o)'
  <2>1. \A b \in Actors \ {a} : pc'[b] = pc[b] /\ topicName'[b] = topicName[b]
    BY <1>2 DEF Call, Goto
  <2>2. pc'[a] = Entry[c] /\ pc[a] = "idle" /\ m_topics' = m_topics
    BY <1>2 DEF Call, Goto
  <2>3. a \notin Topics
    BY <1>2, <1>0, Callers
  <2>4. local' = local /\ unique' = unique /\ shared' = shared
    BY <1>2 DEF Call
  <2>5. a = o => \A t2 \in Topics : pc[t2] = "off"
    BY <2>2
  <2>6. pc'[o] \notin {"clean_rewait", "clean_clear"} \/ pc'[o] = pc[o]
    BY <2>1, <2>2, EntryNames, <1>0
  <2>7. pc'[o] = "clean_join" => pc[o] = "clean_join"
    BY <2>1, <2>2, EntryNames, <1>0
  <2> QED
    BY <1>0, <2>1, <2>2, <2>3, <2>4, <2>5, <2>6, <2>7
<1>3. ASSUME NEW a \in Actors, LockShared(a)
      PROVE  TasksInv(o)'
  BY <1>3, <1>0, OwnerOnly
  DEF LockShared, threadVars, Goto, SharedWaits, SharedStep
<1>4. ASSUME NEW a \in Actors, LockUnique(a)
      PROVE  TasksInv(o)'
  BY <1>4, <1>0, OwnerOnly
  DEF LockUnique, threadVars, Goto, UniqueWaits, UniqueStep
<1>5. ASSUME NEW a \in Actors, RegFindSome(a)
      PROVE  TasksInv(o)'
  BY <1>5, <1>0, OwnerOnly DEF RegFindSome, UnlockShared, threadVars, Goto
<1>6. ASSUME NEW a \in Actors, QosFind(a)
      PROVE  TasksInv(o)'
  BY <1>6, <1>0, OwnerOnly DEF QosFind, UnlockShared, threadVars, Goto
<1>7. ASSUME NEW a \in Actors, QosCheck(a)
      PROVE  TasksInv(o)'
  BY <1>7, <1>0, OwnerOnly DEF QosCheck, threadVars, Goto
<1>8. ASSUME NEW a \in Actors, SetFind(a)
      PROVE  TasksInv(o)'
  BY <1>8, <1>0, OwnerOnly
  DEF SetFind, SetDone, UnlockShared, threadVars, Goto
<1>9. ASSUME NEW a \in Actors, SubFind(a)
      PROVE  TasksInv(o)'
  BY <1>9, <1>0, OwnerOnly DEF SubFind, threadVars, Goto
<1>10. ASSUME NEW a \in Actors, GetFind(a)
      PROVE  TasksInv(o)'
  BY <1>10, <1>0, OwnerOnly DEF GetFind, threadVars, Goto
<1>11. ASSUME NEW a \in Actors, CbFind(a)
      PROVE  TasksInv(o)'
  BY <1>11, <1>0, OwnerOnly DEF CbFind, threadVars, Goto
<1>12. ASSUME NEW a \in Actors, CbReader(a)
      PROVE  TasksInv(o)'
  BY <1>12, <1>0, OwnerOnly DEF CbReader, UnlockShared, threadVars, Goto
<1>13. ASSUME NEW a \in Actors, ReadFind(a)
      PROVE  TasksInv(o)'
  BY <1>13, <1>0, OwnerOnly DEF ReadFind, threadVars, Goto
<1>14. ASSUME NEW a \in Actors, ReadEmit(a)
      PROVE  TasksInv(o)'
  BY <1>14, <1>0, OwnerOnly, ReadGoes DEF ReadEmit, threadVars, Goto
<1>15. ASSUME NEW a \in Actors, ReadReply(a)
      PROVE  TasksInv(o)'
  BY <1>15, <1>0, OwnerOnly DEF ReadReply, UnlockShared, threadVars, Goto
<1>16. ASSUME NEW a \in Actors, RegCreate(a)
      PROVE  TasksInv(o)'
  BY <1>16, <1>0, OwnerOnly DEF RegCreate, threadVars, Goto
<1>17. ASSUME NEW a \in Actors, QosPreset(a)
      PROVE  TasksInv(o)'
  BY <1>17, <1>0, OwnerOnly DEF QosPreset, threadVars, Goto
<1>18. ASSUME NEW a \in Actors, PubCreate(a)
      PROVE  TasksInv(o)'
  BY <1>18, <1>0, OwnerOnly DEF PubCreate, threadVars, Goto
<1>19. ASSUME NEW a \in Actors, SubStore(a)
      PROVE  TasksInv(o)'
  BY <1>19, <1>0, OwnerOnly DEF SubStore, threadVars, Goto
<1>20. ASSUME NEW a \in Actors, CbEmitter(a)
      PROVE  TasksInv(o)'
  BY <1>20, <1>0, OwnerOnly DEF CbEmitter, UnlockShared, threadVars, Goto
<1>21. ASSUME NEW a \in Actors, CleanJoin(a)
      PROVE  TasksInv(o)'
  BY <1>21, <1>0, OwnerOnly DEF CleanJoin, threadVars, Goto
<1>22. ASSUME NEW a \in Actors, RegStore(a)
      PROVE  TasksInv(o)'
  BY <1>22, <1>0, OwnerOnly
  DEF RegStore, UnlockUnique, InLocals, threadVars, Goto
<1>23. ASSUME NEW a \in Actors, UnregErase(a)
      PROVE  TasksInv(o)'
  BY <1>23, <1>0, OwnerOnly DEF UnregErase, UnlockUnique, threadVars, Goto
<1>24. ASSUME NEW a \in Actors, CbRun(a)
      PROVE  TasksInv(o)'
  BY <1>24, <1>0, OwnerOnly, RunStarts DEF CbRun, threadVars, Goto
<1>25. ASSUME NEW a \in Actors, CleanSpawn(a)
      PROVE  TasksInv(o)'
  BY <1>25, <1>0, OwnerOnly DEF CleanSpawn, UnlockUnique, threadVars
<1>26. ASSUME NEW a \in Actors, CleanClear(a)
      PROVE  TasksInv(o)'
  BY <1>26, <1>0, OwnerOnly
  DEF CleanClear, InLocals, InMapElse, threadVars, Goto
<1>27. ASSUME NEW a \in Actors, DropLocal(a)
      PROVE  TasksInv(o)'
  BY <1>27, <1>0, OwnerOnly DEF DropLocal, Release, threadVars, Goto
<1>28. ASSUME NEW a \in Actors, DropLock(a)
      PROVE  TasksInv(o)'
  BY <1>28, <1>0, OwnerOnly DEF DropLock, threadVars, Goto
<1>29. ASSUME NEW a \in Actors, DropOwner(a)
      PROVE  TasksInv(o)'
  BY <1>29, <1>0, OwnerOnly DEF DropOwner, Release, threadVars, Goto
<1>30. ASSUME NEW a \in Actors, Return(a)
      PROVE  TasksInv(o)'
  BY <1>30, <1>0, OwnerOnly DEF Return, threadVars, Goto
<1>31. ASSUME NEW a \in Actors, Destroy(a)
      PROVE  TasksInv(o)'
  BY <1>31, <1>0, OwnerOnly DEF Destroy, threadVars, Goto
<1>32. ASSUME NEW a \in Actors, Join(a)
      PROVE  TasksInv(o)'
  BY <1>32, <1>0, OwnerOnly
  DEF Join, UnlockUnique, threadVars, Goto, OutsideInv
<1>33. ASSUME NEW a \in Actors, NEW g \in Groups, RegFindNone(a, g)
      PROVE  TasksInv(o)'
  BY <1>33, <1>0, OwnerOnly DEF RegFindNone, IsFree, UnlockShared, Goto
<1>34. ASSUME NEW a \in Actors, NEW g \in Groups, SetInsert(a, g)
      PROVE  TasksInv(o)'
  BY <1>34, <1>0, OwnerOnly DEF SetInsert, PlaceInv
<1>35. ASSUME NEW g \in Groups, ListenerExit(g)
      PROVE  TasksInv(o)'
  BY <1>35, <1>0, OwnerOnly DEF ListenerExit, threadVars, Goto
<1> QED
  BY <1>1, <1>2, <1>3, <1>4, <1>5, <1>6, <1>7, <1>8, <1>9, <1>10, <1>11,
     <1>12, <1>13, <1>14, <1>15, <1>16, <1>17, <1>18, <1>19, <1>20, <1>21,
     <1>22, <1>23, <1>24, <1>25, <1>26, <1>27, <1>28, <1>29, <1>30, <1>31,
     <1>32, <1>33, <1>34, <1>35
  DEF Next, Step, Lookup, Update, Leave, Finished

\* Nobody but the owner changes what the owner looked up.
LEMMA PlaceStep ==
    ASSUME NEW o \in Threads, SingleOwner(o), TypeOK, LockInv, [Next]_vars,
           UsersInv(o), TasksInv(o), PlaceInv(o), LocalInv, OutsideInv
    PROVE  PlaceInv(o)'
<1> USE DEF PlaceInv, TypeOK, Found
<1>0. /\ o \in Actors /\ o \notin Groups /\ o \notin Topics
      /\ NoActor \notin Actors /\ NoGroup \notin Groups
      /\ Topics \subseteq Actors /\ Topics \cap Groups = {}
  BY OwnerIsThread, RegistryAssumption DEF Actors
<1>1. ASSUME UNCHANGED vars
      PROVE  PlaceInv(o)'
  BY <1>1, <1>0, OwnerOnly DEF vars, threadVars
<1>2. ASSUME NEW a \in Actors, NEW c \in Calls, NEW t \in Topics, Call(a, c, t)
      PROVE  PlaceInv(o)'
  BY <1>2, <1>0, OwnerOnly, Callers, EntryNames DEF Call, threadVars, Goto
<1>3. ASSUME NEW a \in Actors, LockShared(a)
      PROVE  PlaceInv(o)'
  BY <1>3, <1>0, OwnerOnly
  DEF LockShared, threadVars, Goto, SharedWaits, SharedStep
<1>4. ASSUME NEW a \in Actors, LockUnique(a)
      PROVE  PlaceInv(o)'
  BY <1>4, <1>0, OwnerOnly
  DEF LockUnique, threadVars, Goto, UniqueWaits, UniqueStep
<1>5. ASSUME NEW a \in Actors, RegFindSome(a)
      PROVE  PlaceInv(o)'
  BY <1>5, <1>0, OwnerOnly DEF RegFindSome, UnlockShared, threadVars, Goto
<1>6. ASSUME NEW a \in Actors, QosFind(a)
      PROVE  PlaceInv(o)'
  BY <1>6, <1>0, OwnerOnly DEF QosFind, UnlockShared, threadVars, Goto
<1>7. ASSUME NEW a \in Actors, QosCheck(a)
      PROVE  PlaceInv(o)'
  BY <1>7, <1>0, OwnerOnly DEF QosCheck, threadVars, Goto
<1>8. ASSUME NEW a \in Actors, SetFind(a)
      PROVE  PlaceInv(o)'
  BY <1>8, <1>0, OwnerOnly
  DEF SetFind, SetDone, UnlockShared, threadVars, Goto
<1>9. ASSUME NEW a \in Actors, SubFind(a)
      PROVE  PlaceInv(o)'
  BY <1>9, <1>0, OwnerOnly DEF SubFind, threadVars, Goto
<1>10. ASSUME NEW a \in Actors, GetFind(a)
      PROVE  PlaceInv(o)'
  BY <1>10, <1>0, OwnerOnly DEF GetFind, threadVars, Goto
<1>11. ASSUME NEW a \in Actors, CbFind(a)
      PROVE  PlaceInv(o)'
  BY <1>11, <1>0, OwnerOnly DEF CbFind, threadVars, Goto
<1>12. ASSUME NEW a \in Actors, CbReader(a)
      PROVE  PlaceInv(o)'
  BY <1>12, <1>0, OwnerOnly DEF CbReader, UnlockShared, threadVars, Goto
<1>13. ASSUME NEW a \in Actors, ReadFind(a)
      PROVE  PlaceInv(o)'
  BY <1>13, <1>0, OwnerOnly DEF ReadFind, threadVars, Goto
<1>14. ASSUME NEW a \in Actors, ReadEmit(a)
      PROVE  PlaceInv(o)'
  BY <1>14, <1>0, OwnerOnly, ReadGoes DEF ReadEmit, threadVars, Goto
<1>15. ASSUME NEW a \in Actors, ReadReply(a)
      PROVE  PlaceInv(o)'
  BY <1>15, <1>0, OwnerOnly DEF ReadReply, UnlockShared, threadVars, Goto
<1>16. ASSUME NEW a \in Actors, RegCreate(a)
      PROVE  PlaceInv(o)'
  BY <1>16, <1>0, OwnerOnly DEF RegCreate, threadVars, Goto
<1>17. ASSUME NEW a \in Actors, QosPreset(a)
      PROVE  PlaceInv(o)'
  BY <1>17, <1>0, OwnerOnly DEF QosPreset, threadVars, Goto
<1>18. ASSUME NEW a \in Actors, PubCreate(a)
      PROVE  PlaceInv(o)'
  BY <1>18, <1>0, OwnerOnly DEF PubCreate, threadVars, Goto
<1>19. ASSUME NEW a \in Actors, SubStore(a)
      PROVE  PlaceInv(o)'
  BY <1>19, <1>0, OwnerOnly DEF SubStore, threadVars, Goto
<1>20. ASSUME NEW a \in Actors, CbEmitter(a)
      PROVE  PlaceInv(o)'
  BY <1>20, <1>0, OwnerOnly DEF CbEmitter, UnlockShared, threadVars, Goto
<1>21. ASSUME NEW a \in Actors, CleanJoin(a)
      PROVE  PlaceInv(o)'
  BY <1>21, <1>0, OwnerOnly DEF CleanJoin, threadVars, Goto
<1>22. ASSUME NEW a \in Actors, RegStore(a)
      PROVE  PlaceInv(o)'
  BY <1>22, <1>0, OwnerOnly
  DEF RegStore, UnlockUnique, InLocals, threadVars, Goto
<1>23. ASSUME NEW a \in Actors, UnregErase(a)
      PROVE  PlaceInv(o)'
  BY <1>23, <1>0, OwnerOnly
  DEF UnregErase, UnlockUnique, threadVars, Goto, UsersInv, UserPCs, TasksInv
<1>24. ASSUME NEW a \in Actors, CbRun(a)
      PROVE  PlaceInv(o)'
  BY <1>24, <1>0, OwnerOnly DEF CbRun, threadVars, Goto
<1>25. ASSUME NEW a \in Actors, CleanSpawn(a)
      PROVE  PlaceInv(o)'
  BY <1>25, <1>0, OwnerOnly DEF CleanSpawn, UnlockUnique, threadVars
<1>26. ASSUME NEW a \in Actors, CleanClear(a)
      PROVE  PlaceInv(o)'
  BY <1>26, <1>0, OwnerOnly
  DEF CleanClear, InLocals, InMapElse, threadVars, Goto
<1>27. ASSUME NEW a \in Actors, DropLocal(a)
      PROVE  PlaceInv(o)'
  BY <1>27, <1>0, OwnerOnly DEF DropLocal, Release, threadVars, Goto
<1>28. ASSUME NEW a \in Actors, DropLock(a)
      PROVE  PlaceInv(o)'
  BY <1>28, <1>0, OwnerOnly DEF DropLock, threadVars, Goto
<1>29. ASSUME NEW a \in Actors, DropOwner(a)
      PROVE  PlaceInv(o)'
  BY <1>29, <1>0, OwnerOnly DEF DropOwner, Release, threadVars, Goto
<1>30. ASSUME NEW a \in Actors, Return(a)
      PROVE  PlaceInv(o)'
  BY <1>30, <1>0, OwnerOnly DEF Return, threadVars, Goto
<1>31. ASSUME NEW a \in Actors, Destroy(a)
      PROVE  PlaceInv(o)'
  BY <1>31, <1>0, OwnerOnly DEF Destroy, threadVars, Goto
<1>32. ASSUME NEW a \in Actors, Join(a)
      PROVE  PlaceInv(o)'
  BY <1>32, <1>0, OwnerOnly
  DEF Join, UnlockUnique, threadVars, Goto, OutsideInv
<1>33. ASSUME NEW a \in Actors, NEW g \in Groups, RegFindNone(a, g)
      PROVE  PlaceInv(o)'
  BY <1>33, <1>0, OwnerOnly DEF RegFindNone, IsFree, UnlockShared, Goto
<1>34. ASSUME NEW a \in Actors, NEW g \in Groups, SetInsert(a, g)
      PROVE  PlaceInv(o)'
  BY <1>34, <1>0, OwnerOnly DEF SetInsert, PlaceInv
<1>35. ASSUME NEW g \in Groups, ListenerExit(g)
      PROVE  PlaceInv(o)'
  BY <1>35, <1>0, OwnerOnly DEF ListenerExit, threadVars, Goto
<1> QED
  BY <1>1, <1>2, <1>3, <1>4, <1>5, <1>6, <1>7, <1>8, <1>9, <1>10, <1>11,
     <1>12, <1>13, <1>14, <1>15, <1>16, <1>17, <1>18, <1>19, <1>20, <1>21,
     <1>22, <1>23, <1>24, <1>25, <1>26, <1>27, <1>28, <1>29, <1>30, <1>31,
     <1>32, <1>33, <1>34, <1>35
  DEF Next, Step, Lookup, Update, Leave, Finished

\* While a call has the lock the group it found stays in the map.
LEMMA LocalStep ==
    ASSUME NEW o \in Threads, SingleOwner(o), TypeOK, LockInv, [Next]_vars,
           ListenerInv, NoUseAfterFree, UsersInv(o), TasksInv(o),
           PlaceInv(o), LocalInv
    PROVE  LocalInv'
<1> USE DEF LocalInv, Carrying, TypeOK, Found
<1>0. /\ o \in Actors /\ o \notin Groups /\ o \notin Topics
      /\ NoActor \notin Actors /\ NoGroup \notin Groups
      /\ Topics \subseteq Actors /\ Topics \cap Groups = {}
  BY OwnerIsThread, RegistryAssumption DEF Actors
<1>1. ASSUME UNCHANGED vars
      PROVE  LocalInv'
  BY <1>1, <1>0, OwnerOnly DEF vars, threadVars
<1>2. ASSUME NEW a \in Actors, NEW c \in Calls, NEW t \in Topics, Call(a, c, t)
      PROVE  LocalInv'
  BY <1>2, <1>0, OwnerOnly DEF Call, threadVars, Goto
<1>3. ASSUME NEW a \in Actors, LockShared(a)
      PROVE  LocalInv'
  BY <1>3, <1>0, OwnerOnly
  DEF LockShared, threadVars, Goto, SharedWaits, SharedStep, PlaceInv,
      LockInv, SharedHeld, Nested
<1>4. ASSUME NEW a \in Actors, LockUnique(a)
      PROVE  LocalInv'
  <2>1. pc[a] \notin {"read_create", "read_erase"}
    BY <1>4, NoUpgrade DEF SharedHeld
  <2> QED
    BY <1>4, <1>0, <2>1, OwnerOnly
    DEF LockUnique, threadVars, Goto, UniqueWaits, UniqueStep
<1>5. ASSUME NEW a \in Actors, RegFindSome(a)
      PROVE  LocalInv'
  BY <1>5, <1>0, OwnerOnly DEF RegFindSome, UnlockShared, threadVars, Goto
<1>6. ASSUME NEW a \in Actors, QosFind(a)
      PROVE  LocalInv'
  BY <1>6, <1>0, OwnerOnly DEF QosFind, UnlockShared, threadVars, Goto
<1>7. ASSUME NEW a \in Actors, QosCheck(a)
      PROVE  LocalInv'
  BY <1>7, <1>0, OwnerOnly DEF QosCheck, threadVars, Goto
<1>8. ASSUME NEW a \in Actors, SetFind(a)
      PROVE  LocalInv'
  BY <1>8, <1>0, OwnerOnly
  DEF SetFind, SetDone, UnlockShared, threadVars, Goto, PlaceInv
<1>9. ASSUME NEW a \in Actors, SubFind(a)
      PROVE  LocalInv'
  BY <1>9, <1>0, OwnerOnly DEF SubFind, threadVars, Goto
<1>10. ASSUME NEW a \in Actors, GetFind(a)
      PROVE  LocalInv'
  BY <1>10, <1>0, OwnerOnly DEF GetFind, threadVars, Goto
<1>11. ASSUME NEW a \in Actors, CbFind(a)
      PROVE  LocalInv'
  BY <1>11, <1>0, OwnerOnly DEF CbFind, threadVars, Goto
<1>12. ASSUME NEW a \in Actors, CbReader(a)
      PROVE  LocalInv'
  BY <1>12, <1>0, OwnerOnly DEF CbReader, UnlockShared, threadVars, Goto
<1>13. ASSUME NEW a \in Actors, ReadFind(a)
      PROVE  LocalInv'
  BY <1>13, <1>0, OwnerOnly DEF ReadFind, threadVars, Goto
<1>14. ASSUME NEW a \in Actors, ReadEmit(a)
      PROVE  LocalInv'
  BY <1>14, <1>0, OwnerOnly, ReadGoes DEF ReadEmit, threadVars, Goto
<1>15. ASSUME NEW a \in Actors, ReadReply(a)
      PROVE  LocalInv'
  BY <1>15, <1>0, OwnerOnly DEF ReadReply, UnlockShared, threadVars, Goto
<1>16. ASSUME NEW a \in Actors, RegCreate(a)
      PROVE  LocalInv'
  BY <1>16, <1>0, OwnerOnly DEF RegCreate, threadVars, Goto
<1>17. ASSUME NEW a \in Actors, QosPreset(a)
      PROVE  LocalInv'
  BY <1>17, <1>0, OwnerOnly DEF QosPreset, threadVars, Goto
<1>18. ASSUME NEW a \in Actors, PubCreate(a)
      PROVE  LocalInv'
  BY <1>18, <1>0, OwnerOnly DEF PubCreate, threadVars, Goto
<1>19. ASSUME NEW a \in Actors, SubStore(a)
      PROVE  LocalInv'
  BY <1>19, <1>0, OwnerOnly DEF SubStore, threadVars, Goto
<1>20. ASSUME NEW a \in Actors, CbEmitter(a)
      PROVE  LocalInv'
  BY <1>20, <1>0, OwnerOnly DEF CbEmitter, UnlockShared, threadVars, Goto
<1>21. ASSUME NEW a \in Actors, CleanJoin(a)
      PROVE  LocalInv'
  BY <1>21, <1>0, OwnerOnly DEF CleanJoin, threadVars, Goto
<1>22. ASSUME NEW a \in Actors, RegStore(a)
      PROVE  LocalInv'
  BY <1>22, <1>0, OwnerOnly
  DEF RegStore, UnlockUnique, InLocals, threadVars, Goto, LockInv, UniqueHeld
<1>23. ASSUME NEW a \in Actors, UnregErase(a)
      PROVE  LocalInv'
  BY <1>23, <1>0, OwnerOnly
  DEF UnregErase, UnlockUnique, threadVars, Goto, LockInv, UniqueHeld,
      Leaving, SharedHeld
<1>24. ASSUME NEW a \in Actors, CbRun(a)
      PROVE  LocalInv'
  BY <1>24, <1>0, OwnerOnly, RunStarts DEF CbRun, threadVars, Goto
<1>25. ASSUME NEW a \in Actors, CleanSpawn(a)
      PROVE  LocalInv'
  BY <1>25, <1>0, OwnerOnly DEF CleanSpawn, UnlockUnique, threadVars
<1>26. ASSUME NEW a \in Actors, CleanClear(a)
      PROVE  LocalInv'
  BY <1>26, <1>0, OwnerOnly
  DEF CleanClear, InLocals, InMapElse, threadVars, Goto, LockInv, UniqueHeld
<1>27. ASSUME NEW a \in Actors, DropLocal(a)
      PROVE  LocalInv'
  BY <1>27, <1>0, OwnerOnly DEF DropLocal, Release, threadVars, Goto
<1>28. ASSUME NEW a \in Actors, DropLock(a)
      PROVE  LocalInv'
  BY <1>28, <1>0, OwnerOnly DEF DropLock, threadVars, Goto
<1>29. ASSUME NEW a \in Actors, DropOwner(a)
      PROVE  LocalInv'
  BY <1>29, <1>0, OwnerOnly DEF DropOwner, Release, threadVars, Goto
<1>30. ASSUME NEW a \in Actors, Return(a)
      PROVE  LocalInv'
  BY <1>30, <1>0, OwnerOnly DEF Return, threadVars, Goto
<1>31. ASSUME NEW a \in Actors, Destroy(a)
      PROVE  LocalInv'
  BY <1>31, <1>0, OwnerOnly DEF Destroy, threadVars, Goto
<1>32. ASSUME NEW a \in Actors, Join(a)
      PROVE  LocalInv'
  BY <1>32, <1>0, OwnerOnly DEF Join, UnlockUnique, threadVars, Goto
<1>33. ASSUME NEW a \in Actors, NEW g \in Groups, RegFindNone(a, g)
      PROVE  LocalInv'
  BY <1>33, <1>0, OwnerOnly DEF RegFindNone, IsFree, UnlockShared, Goto
<1>34. ASSUME NEW a \in Actors, NEW g \in Groups, SetInsert(a, g)
      PROVE  LocalInv'
  BY <1>34, <1>0, OwnerOnly DEF SetInsert, PlaceInv
<1>35. ASSUME NEW g \in Groups, ListenerExit(g)
      PROVE  LocalInv'
  BY <1>35, <1>0, OwnerOnly DEF ListenerExit, threadVars, Goto
<1> QED
  BY <1>1, <1>2, <1>3, <1>4, <1>5, <1>6, <1>7, <1>8, <1>9, <1>10, <1>11,
     <1>12, <1>13, <1>14, <1>15, <1>16, <1>17, <1>18, <1>19, <1>20, <1>21,
     <1>22, <1>23, <1>24, <1>25, <1>26, <1>27, <1>28, <1>29, <1>30, <1>31,
     <1>32, <1>33, <1>34, <1>35
  DEF Next, Step, Lookup, Update, Leave, Finished

\* A last pointer goes away only where the lock is not held.
LEMMA OutsideStep ==
    ASSUME NEW o \in Threads, SingleOwner(o), TypeOK, LockInv, [Next]_vars,
           UsersInv(o), TasksInv(o), PlaceInv(o), LocalInv, OutsideInv
    PROVE  OutsideInv'
<1> USE DEF OutsideInv, TypeOK, Found
<1>0. /\ o \in Actors /\ o \notin Groups /\ o \notin Topics
      /\ NoActor \notin Actors /\ NoGroup \notin Groups
      /\ Topics \subseteq Actors /\ Topics \cap Groups = {}
  BY OwnerIsThread, RegistryAssumption DEF Actors
<1>1. ASSUME UNCHANGED vars
      PROVE  OutsideInv'
  BY <1>1, <1>0, OwnerOnly DEF vars, threadVars
<1>2. ASSUME NEW a \in Actors, NEW c \in Calls, NEW t \in Topics, Call(a, c, t)
      PROVE  OutsideInv'
  BY <1>2, <1>0, OwnerOnly, EntryNames DEF Call, threadVars, Goto
<1>3. ASSUME NEW a \in Actors, LockShared(a)
      PROVE  OutsideInv'
  BY <1>3, <1>0, OwnerOnly
  DEF LockShared, threadVars, Goto, SharedWaits, SharedStep
<1>4. ASSUME NEW a \in Actors, LockUnique(a)
      PROVE  OutsideInv'
  BY <1>4, <1>0, OwnerOnly
  DEF LockUnique, threadVars, Goto, UniqueWaits, UniqueStep
<1>5. ASSUME NEW a \in Actors, RegFindSome(a)
      PROVE  OutsideInv'
  BY <1>5, <1>0, OwnerOnly DEF RegFindSome, UnlockShared, threadVars, Goto
<1>6. ASSUME NEW a \in Actors, QosFind(a)
      PROVE  OutsideInv'
  BY <1>6, <1>0, OwnerOnly DEF QosFind, UnlockShared, threadVars, Goto
<1>7. ASSUME NEW a \in Actors, QosCheck(a)
      PROVE  OutsideInv'
  BY <1>7, <1>0, OwnerOnly DEF QosCheck, threadVars, Goto
<1>8. ASSUME NEW a \in Actors, SetFind(a)
      PROVE  OutsideInv'
  BY <1>8, <1>0, OwnerOnly
  DEF SetFind, SetDone, UnlockShared, threadVars, Goto
<1>9. ASSUME NEW a \in Actors, SubFind(a)
      PROVE  OutsideInv'
  BY <1>9, <1>0, OwnerOnly DEF SubFind, threadVars, Goto
<1>10. ASSUME NEW a \in Actors, GetFind(a)
      PROVE  OutsideInv'
  BY <1>10, <1>0, OwnerOnly DEF GetFind, threadVars, Goto
<1>11. ASSUME NEW a \in Actors, CbFind(a)
      PROVE  OutsideInv'
  BY <1>11, <1>0, OwnerOnly DEF CbFind, threadVars, Goto
<1>12. ASSUME NEW a \in Actors, CbReader(a)
      PROVE  OutsideInv'
  BY <1>12, <1>0, OwnerOnly DEF CbReader, UnlockShared, threadVars, Goto
<1>13. ASSUME NEW a \in Actors, ReadFind(a)
      PROVE  OutsideInv'
  BY <1>13, <1>0, OwnerOnly DEF ReadFind, threadVars, Goto
<1>14. ASSUME NEW a \in Actors, ReadEmit(a)
      PROVE  OutsideInv'
  BY <1>14, <1>0, OwnerOnly, ReadGoes DEF ReadEmit, threadVars, Goto
<1>15. ASSUME NEW a \in Actors, ReadReply(a)
      PROVE  OutsideInv'
  BY <1>15, <1>0, OwnerOnly DEF ReadReply, UnlockShared, threadVars, Goto
<1>16. ASSUME NEW a \in Actors, RegCreate(a)
      PROVE  OutsideInv'
  BY <1>16, <1>0, OwnerOnly DEF RegCreate, threadVars, Goto
<1>17. ASSUME NEW a \in Actors, QosPreset(a)
      PROVE  OutsideInv'
  BY <1>17, <1>0, OwnerOnly DEF QosPreset, threadVars, Goto
<1>18. ASSUME NEW a \in Actors, PubCreate(a)
      PROVE  OutsideInv'
  BY <1>18, <1>0, OwnerOnly DEF PubCreate, threadVars, Goto
<1>19. ASSUME NEW a \in Actors, SubStore(a)
      PROVE  OutsideInv'
  BY <1>19, <1>0, OwnerOnly DEF SubStore, threadVars, Goto
<1>20. ASSUME NEW a \in Actors, CbEmitter(a)
      PROVE  OutsideInv'
  BY <1>20, <1>0, OwnerOnly DEF CbEmitter, UnlockShared, threadVars, Goto
<1>21. ASSUME NEW a \in Actors, CleanJoin(a)
      PROVE  OutsideInv'
  BY <1>21, <1>0, OwnerOnly DEF CleanJoin, threadVars, Goto
<1>22. ASSUME NEW a \in Actors, RegStore(a)
      PROVE  OutsideInv'
  BY <1>22, <1>0, OwnerOnly
  DEF RegStore, UnlockUnique, InLocals, threadVars, Goto, PlaceInv
<1>23. ASSUME NEW a \in Actors, UnregErase(a)
      PROVE  OutsideInv'
  BY <1>23, <1>0, OwnerOnly DEF UnregErase, UnlockUnique, threadVars, Goto
<1>24. ASSUME NEW a \in Actors, CbRun(a)
      PROVE  OutsideInv'
  BY <1>24, <1>0, OwnerOnly DEF CbRun, threadVars, Goto
<1>25. ASSUME NEW a \in Actors, CleanSpawn(a)
      PROVE  OutsideInv'
  BY <1>25, <1>0, OwnerOnly DEF CleanSpawn, UnlockUnique, threadVars
<1>26. ASSUME NEW a \in Actors, CleanClear(a)
      PROVE  OutsideInv'
  BY <1>26, <1>0, OwnerOnly
  DEF CleanClear, InLocals, InMapElse, threadVars, Goto, TasksInv
<1>27. ASSUME NEW a \in Actors, DropLocal(a)
      PROVE  OutsideInv'
  BY <1>27, <1>0, OwnerOnly DEF DropLocal, Release, threadVars, Goto, LocalInv
<1>28. ASSUME NEW a \in Actors, DropLock(a)
      PROVE  OutsideInv'
  BY <1>28, <1>0, OwnerOnly DEF DropLock, threadVars, Goto
<1>29. ASSUME NEW a \in Actors, DropOwner(a)
      PROVE  OutsideInv'
  BY <1>29, <1>0, OwnerOnly DEF DropOwner, Release, threadVars, Goto
<1>30. ASSUME NEW a \in Actors, Return(a)
      PROVE  OutsideInv'
  BY <1>30, <1>0, OwnerOnly DEF Return, threadVars, Goto
<1>31. ASSUME NEW a \in Actors, Destroy(a)
      PROVE  OutsideInv'
  BY <1>31, <1>0, OwnerOnly DEF Destroy, threadVars, Goto
<1>32. ASSUME NEW a \in Actors, Join(a)
      PROVE  OutsideInv'
  BY <1>32, <1>0, OwnerOnly DEF Join, UnlockUnique, threadVars, Goto
<1>33. ASSUME NEW a \in Actors, NEW g \in Groups, RegFindNone(a, g)
      PROVE  OutsideInv'
  BY <1>33, <1>0, OwnerOnly DEF RegFindNone, IsFree, UnlockShared, Goto
<1>34. ASSUME NEW a \in Actors, NEW g \in Groups, SetInsert(a, g)
      PROVE  OutsideInv'
  BY <1>34, <1>0, OwnerOnly DEF SetInsert, PlaceInv
<1>35. ASSUME NEW g \in Groups, ListenerExit(g)
      PROVE  OutsideInv'
  BY <1>35, <1>0, OwnerOnly DEF ListenerExit, threadVars, Goto
<1> QED
  BY <1>1, <1>2, <1>3, <1>4, <1>5, <1>6, <1>7, <1>8, <1>9, <1>10, <1>11,
     <1>12, <1>13, <1>14, <1>15, <1>16, <1>17, <1>18, <1>19, <1>20, <1>21,
     <1>22, <1>23, <1>24, <1>25, <1>26, <1>27, <1>28, <1>29, <1>30, <1>31,
     <1>32, <1>33, <1>34, <1>35
  DEF Next, Step, Lookup, Update, Leave, Finished

-----------------------------------------------------------------------------
(* The theorems.                                                           *)

\* The manager starts in the invariant: no thread is inside a call.
LEMMA OwnInit == ASSUME NEW o \in Threads PROVE Init => OwnInv(o)
<1> SUFFICES ASSUME Init PROVE OwnInv(o)
  OBVIOUS
<1>1. \A a \in Actors : pc[a] \in {"idle", "off"} /\ local[a] = NoGroup
                        /\ owner[a] = NoGroup /\ dying[a] = NoGroup
  BY DEF Init
<1>2. \A t \in Topics : t \in Actors /\ pc[t] = "off"
  BY RegistryAssumption DEF Init, Actors
<1>3. o \in Actors
  BY DEF Actors
<1>4. UsersInv(o) /\ LocalInv /\ OutsideInv
  BY <1>1 DEF UsersInv, UserPCs, LocalInv, OutsideInv
<1>5. TasksInv(o)
  BY <1>1, <1>2, <1>3 DEF TasksInv, TaskPCs
<1>6. PlaceInv(o)
  BY <1>1, <1>3 DEF PlaceInv
<1> QED
  BY <1>4, <1>5, <1>6 DEF OwnInv

\* Every step keeps it, under the invariant of the registry itself.
LEMMA OwnNext ==
    ASSUME NEW o \in Threads, SingleOwner(o)
    PROVE  IInv /\ OwnInv(o) /\ [Next]_vars => OwnInv(o)'
  BY UsersStep, TasksStep, PlaceStep, LocalStep, OutsideStep DEF IInv, OwnInv

LEMMA OwnInvariance ==
    ASSUME NEW o \in Threads, SingleOwner(o)
    PROVE  Spec => []OwnInv(o)
<1>1. Init => OwnInv(o)
  BY OwnInit
<1>2. IInv /\ OwnInv(o) /\ [Next]_vars => OwnInv(o)'
  BY OwnNext
<1> QED
  BY <1>1, <1>2, Invariance, PTL DEF Spec

-----------------------------------------------------------------------------
(* Race freedom takes a second condition.                                  *)

\* Only the owner runs readCallbacks, and it adds a callback to a reader only
\* before the reader's listener thread runs.
SoleReader(o) ==
    /\ \A a \in Threads \ {o} : "readCallbacks" \notin MayCall[a]
    /\ "readCallbacks" \notin CallbackCalls
    /\ ~AddToRunning

Reading == {"read_wait", "read_find", "read_emit", "read_rewait", "read_reply",
            "read_create", "read_erase"}
Adding == {"cb_wait", "cb_find", "cb_rewait", "cb_reader", "cb_emitter"}

\* A group in the map has its topic, one that is getting it is not in the map,
\* and addCallback finds no running listener.
AccessInv(o) ==
    /\ \A a \in Actors \ {o} : pc[a] \notin Reading
    /\ \A t \in Topics : m_topics[t] # NoGroup => group[m_topics[t]].topic
    /\ pc[o] = "reg_create" => \A t \in Topics : m_topics[t] # owner[o]
    /\ pc[o] \in {"reg_rewait", "reg_store"} => group[owner[o]].topic
    /\ pc[o] \in Adding /\ Found(o) # NoGroup => group[Found(o)].emitter # "running"

\* What a Call leads to under the two conditions.
LEMMA AccessEntries ==
    ASSUME NEW o \in Threads, SingleOwner(o), SoleReader(o),
           NEW a \in Actors, NEW c \in Calls, NEW t \in Topics, Call(a, c, t)
    PROVE  /\ a # o => Entry[c] \notin Reading
           /\ Entry[c] \notin {"reg_create", "reg_rewait", "reg_store"}
           /\ Entry[c] \in Adding => c = "addCallback"
<1>1. a # o => c \in UserCalls \ {"readCallbacks"}
  <2>1. a # o => a \notin Topics /\ c \in UserCalls
    BY Callers
  <2>2. IF a \in Threads THEN c \in MayCall[a] ELSE c \in CallbackCalls
    BY DEF Call
  <2> QED
    BY <2>1, <2>2 DEF SoleReader
<1>2. c \in UserCalls \ {"readCallbacks"} => Entry[c] \in {"pub_wait", "get_wait"}
  BY DEF UserCalls, Entry
<1>3. c # "addCallback" => Entry[c] \notin Adding
  BY DEF Calls, Entry, Adding
<1>4. Entry[c] \notin {"reg_create", "reg_rewait", "reg_store"}
  BY EntryNames
<1> QED
  BY <1>1, <1>2, <1>3, <1>4 DEF Reading

\* What the acquisition of the mutex leads to.
LEMMA AccessLocks ==
    /\ \A p \in SharedWaits :
          /\ SharedStep[p] \in Reading => p \in Reading
          /\ SharedStep[p] \in Adding => p \in Adding
          /\ SharedStep[p] \notin {"reg_create", "reg_rewait", "reg_store"}
    /\ \A p \in UniqueWaits :
          /\ UniqueStep[p] \notin Reading \cup Adding
          /\ UniqueStep[p] \notin {"reg_create", "reg_rewait"}
          /\ UniqueStep[p] = "reg_store" => p = "reg_rewait"
  BY DEF SharedWaits, SharedStep, UniqueWaits, UniqueStep, Reading, Adding

LEMMA AccessStep ==
    ASSUME NEW o \in Threads, SingleOwner(o), SoleReader(o), IInv, OwnInv(o),
           AccessInv(o), [Next]_vars
    PROVE  AccessInv(o)'
<1> USE DEF AccessInv, Found
<1>0. /\ o \in Actors /\ o \notin Groups /\ o \notin Topics
      /\ NoActor \notin Actors /\ NoGroup \notin Groups
      /\ Topics \subseteq Actors /\ Topics \cap Groups = {}
  BY OwnerIsThread, RegistryAssumption DEF Actors
<1>t. TypeOK /\ UsersInv(o) /\ TasksInv(o) /\ PlaceInv(o)
  BY DEF IInv, OwnInv
\* Steps that touch neither the map nor a group.
<1>1. ASSUME NEW a \in Actors, NEW p, Goto(a, p),
             UNCHANGED <<m_topics, group, owner, topicName>>,
             a # o => p \notin Reading,
             a = o => p \notin {"reg_create", "reg_rewait"},
             a = o /\ p = "reg_store" => pc[o] = "reg_rewait",
             a = o /\ p \in Adding => pc[o] \in Adding
      PROVE  AccessInv(o)'
  BY <1>0, <1>1, <1>t DEF Goto, TypeOK, Reading, Adding
<1>2. ASSUME UNCHANGED vars
      PROVE  AccessInv(o)'
  BY <1>2 DEF vars, threadVars
<1>3. ASSUME NEW a \in Actors, NEW c \in Calls, NEW t \in Topics, Call(a, c, t)
      PROVE  AccessInv(o)'
  BY <1>0, <1>3, <1>t, AccessEntries DEF Call, Goto, SoleReader, TypeOK, Reading
<1>4. ASSUME NEW a \in Actors, LockShared(a)
      PROVE  AccessInv(o)'
  <2>1. a # o => SharedStep[pc[a]] \notin Reading
    BY <1>4, AccessLocks DEF LockShared
  <2> QED
    BY <1>1, <1>4, <2>1, AccessLocks DEF LockShared, threadVars
<1>5. ASSUME NEW a \in Actors, LockUnique(a)
      PROVE  AccessInv(o)'
  BY <1>1, <1>5, AccessLocks DEF LockUnique, threadVars
<1>6. ASSUME NEW a \in Actors, RegFindSome(a)
      PROVE  AccessInv(o)'
  <2>1. Goto(a, "return") /\ UNCHANGED <<m_topics, group, owner, topicName>>
    BY <1>6, <1>t DEF RegFindSome, TypeOK
  <2> QED
    BY <1>1, <2>1 DEF Reading, Adding
<1>7. ASSUME NEW a \in Actors,
             \/ QosFind(a) \/ QosCheck(a) \/ SetFind(a) \/ SubFind(a)
             \/ GetFind(a) \/ CbReader(a) \/ CleanJoin(a)
      PROVE  AccessInv(o)'
  <2>1. PICK p \in {"return", "qos_check", "set_wait", "set_insert", "qos_rewait",
                    "sub_store", "cb_emitter", "clean_rewait"} :
             Goto(a, p) /\ (p = "cb_emitter" => pc[a] = "cb_reader")
    BY <1>7 DEF QosFind, QosCheck, SetFind, SetDone, SubFind, GetFind, CbReader,
       CleanJoin
  <2>2. UNCHANGED <<m_topics, group, owner, topicName>>
    BY <1>7 DEF QosFind, QosCheck, SetFind, SubFind, GetFind, CbReader, CleanJoin,
       threadVars
  <2> QED
    BY <1>1, <2>1, <2>2 DEF Reading, Adding
<1>8. ASSUME NEW a \in Actors, CbFind(a)
      PROVE  AccessInv(o)'
  BY <1>1, <1>8 DEF CbFind, threadVars, Reading, Adding
<1>9. ASSUME NEW a \in Actors, ReadFind(a) \/ ReadEmit(a) \/ ReadReply(a)
      PROVE  AccessInv(o)'
  <2>1. PICK p \in {"return", "read_emit", "read_rewait", "read_create",
                    "read_erase"} : Goto(a, p)
    BY <1>9, ReadGoes DEF ReadFind, ReadReply
  <2>2. pc[a] \in Reading
    BY <1>9 DEF ReadFind, ReadEmit, ReadReply, Reading
  <2>3. UNCHANGED <<m_topics, group, owner, topicName>>
    BY <1>9 DEF ReadFind, ReadEmit, ReadReply, threadVars
  <2> QED
    BY <1>1, <2>1, <2>2, <2>3 DEF Adding
<1>10. ASSUME NEW a \in Actors, RegCreate(a)
       PROVE  AccessInv(o)'
  <2>1. a = o /\ owner[o] \in Groups
    BY <1>10, <1>0, <1>t, OwnerOnly DEF RegCreate, PlaceInv, TypeOK
  <2>2. \A g \in Groups \ {owner[o]} : group'[g] = group[g]
    BY <1>10, <2>1, <1>t DEF RegCreate, TypeOK
  <2>3. pc'[o] = "reg_rewait" => group'[owner[o]].topic
    BY <1>10, <2>1, <1>t DEF RegCreate, Goto, TypeOK, Group
  <2>4. \A b \in Actors \ {o} : pc'[b] = pc[b]
    BY <1>10, <2>1, <1>t DEF RegCreate, Goto, TypeOK
  <2>5. pc'[o] \in {"reg_rewait", "return"}
    BY <1>10, <2>1, <1>t, <1>0 DEF RegCreate, Goto, TypeOK
  <2>6. pc[o] = "reg_create" /\ UNCHANGED <<m_topics, owner, topicName>>
    BY <1>10, <2>1 DEF RegCreate, threadVars
  <2> QED
    BY <1>t, <2>2, <2>3, <2>4, <2>5, <2>6 DEF TypeOK, Adding
<1>11. ASSUME NEW a \in Actors, RegStore(a)
       PROVE  AccessInv(o)'
  <2>1. a = o
    BY <1>11, <1>t, OwnerOnly DEF RegStore
  <2>2. pc' = [pc EXCEPT ![o] = "qos_wait"] \/ pc' = [pc EXCEPT ![o] = "destroy"]
    BY <1>11, <2>1 DEF RegStore, Goto
  <2>3. /\ m_topics' = [m_topics EXCEPT ![topicName[o]] = owner[o]]
        /\ UNCHANGED <<group, owner>> /\ pc[o] = "reg_store"
    BY <1>11, <2>1 DEF RegStore
  <2> QED
    BY <1>0, <1>t, <2>2, <2>3 DEF TypeOK, Adding
<1>12. ASSUME NEW a \in Actors, UnregErase(a) \/ CleanClear(a)
       PROVE  AccessInv(o)'
  <2>1. \A t \in Topics : m_topics'[t] \in {m_topics[t], NoGroup}
    BY <1>12, <1>t DEF UnregErase, CleanClear, TypeOK
  <2>2. a = o \/ pc[o] = "clean_join"
    BY <1>12, <1>t, OwnerOnly DEF UnregErase, CleanClear, UsersInv, TasksInv, UserPCs
  <2>3. /\ \A b \in Actors \ {a} : pc'[b] = pc[b]
        /\ pc'[a] \in {"return", "destroy", "clean_clear"}
        /\ UNCHANGED <<group, owner, topicName>>
    BY <1>12, <1>t DEF UnregErase, CleanClear, Goto, TypeOK
  <2> QED
    BY <1>0, <1>t, <2>1, <2>2, <2>3 DEF TypeOK, Adding, Reading
<1>13. ASSUME NEW a \in Actors,
              QosPreset(a) \/ PubCreate(a) \/ SubStore(a) \/ CbEmitter(a)
       PROVE  AccessInv(o)'
  <2>1. \A g \in Groups : /\ group'[g].topic = group[g].topic
                          /\ group'[g].emitter = "running" =>
                                group[g].emitter = "running"
    BY <1>13, <1>t DEF QosPreset, PubCreate, SubStore, CbEmitter, TypeOK, Group
  <2>2. /\ pc'[a] \in {"return", "cb_run"}
        /\ \A b \in Actors \ {a} : pc'[b] = pc[b]
    BY <1>13, <1>t DEF QosPreset, PubCreate, SubStore, CbEmitter, Goto, TypeOK
  <2>3. UNCHANGED <<m_topics, owner, topicName>>
    BY <1>13 DEF QosPreset, PubCreate, SubStore, CbEmitter, threadVars
  <2>4. pc[o] \in {"reg_rewait", "reg_store"} => owner[o] \in Groups
    BY <1>0, <1>t DEF PlaceInv, TypeOK
  <2>5. m_topics \in [Topics -> Groups \cup {NoGroup}] /\ topicName[o] \in Topics
    BY <1>0, <1>t DEF TypeOK
  <2>6. \A b \in Actors : pc'[b] = pc[b] \/ pc'[b] \in {"return", "cb_run"}
    BY <2>2
  <2> QED
    BY <1>0, <2>1, <2>3, <2>4, <2>5, <2>6 DEF Adding, Reading
<1>14. ASSUME NEW a \in Actors, CbRun(a)
       PROVE  AccessInv(o)'
  <2>1. a = o
    BY <1>14, <1>t, OwnerOnly DEF CbRun
  <2>2. \A g \in Groups : group'[g].topic = group[g].topic
    BY <1>14, <1>t DEF CbRun, TypeOK, Group
  <2>3. /\ pc'[o] = "return"
        /\ \A b \in Actors \ {o} : pc'[b] \in {pc[b], "idle"}
    BY <1>14, <2>1, RunStarts DEF IInv
  <2>4. UNCHANGED <<m_topics, owner, topicName>>
    BY <1>14 DEF CbRun, threadVars
  <2> QED
    BY <1>0, <1>t, <2>2, <2>3, <2>4 DEF TypeOK, Adding, Reading
<1>15. ASSUME NEW a \in Actors, CleanSpawn(a)
       PROVE  AccessInv(o)'
  <2>1. a = o
    BY <1>15, <1>t, OwnerOnly DEF CleanSpawn
  <2>2. /\ pc'[o] = "clean_join"
        /\ \A b \in Actors \ {o} : pc'[b] \in {pc[b], "unreg_wait"}
    BY <1>15, <1>0, <2>1 DEF CleanSpawn
  <2>3. UNCHANGED <<m_topics, group, owner>>
    BY <1>15 DEF CleanSpawn
  <2> QED
    BY <1>0, <2>2, <2>3 DEF Adding, Reading
<1>16. ASSUME NEW a \in Actors, DropLocal(a) \/ DropLock(a) \/ DropOwner(a) \/ Return(a)
       PROVE  AccessInv(o)'
  <2>1. /\ pc'[a] \in {"return", "destroy", "off", "idle"} /\ pc[a] = "return"
        /\ \A b \in Actors \ {a} : pc'[b] = pc[b] /\ owner'[b] = owner[b]
    BY <1>16, <1>t DEF DropLocal, DropLock, DropOwner, Return, Release, Goto, TypeOK,
       threadVars
  <2>2. UNCHANGED <<m_topics, group, topicName>>
    BY <1>16 DEF DropLocal, DropLock, DropOwner, Return, threadVars
  <2> QED
    BY <1>0, <2>1, <2>2 DEF Adding, Reading
<1>17. ASSUME NEW a \in Actors, Destroy(a)
       PROVE  AccessInv(o)'
  <2>1. \A g \in Groups : /\ group'[g].topic = group[g].topic
                          /\ group'[g].emitter = "running" =>
                                group[g].emitter = "running"
    BY <1>17, <1>t DEF Destroy, TypeOK, Group
  <2>2. pc[o] \in {"reg_rewait", "reg_store"} => owner[o] \in Groups
    BY <1>0, <1>t DEF PlaceInv, TypeOK
  <2>3. /\ pc' = [pc EXCEPT ![a] = "join"]
        /\ UNCHANGED <<m_topics, owner, topicName>>
    BY <1>17 DEF Destroy, Goto, threadVars
  <2> QED
    BY <1>0, <1>t, <2>1, <2>2, <2>3 DEF TypeOK, Adding, Reading
<1>18. ASSUME NEW a \in Actors, Join(a)
       PROVE  AccessInv(o)'
  <2>1. a = o \/ pc[o] = "clean_join"
    BY <1>18, <1>t DEF Join, UsersInv, TasksInv, UserPCs
  <2>2. \A t \in Topics : m_topics[t] # NoGroup =>
            m_topics[t] # dying[a] /\ m_topics[t] \in Groups
    BY <1>18, <1>t DEF Join, IInv, DyingInv, NoUseAfterFree, TypeOK
  <2>3. \A g \in Groups : g # dying[a] => group'[g] = group[g]
    BY <1>18, <1>t DEF Join, TypeOK
  <2>4. /\ pc'[a] \in {"qos_wait", "clean_clear", "set_find", "return"}
        /\ \A b \in Actors \ {a} : pc'[b] = pc[b]
    BY <1>18, <1>t DEF Join, Goto, TypeOK
  <2>5. UNCHANGED <<m_topics, owner, topicName>>
    BY <1>18 DEF Join
  <2> QED
    BY <1>0, <2>1, <2>2, <2>3, <2>4, <2>5 DEF Adding, Reading
<1>19. ASSUME NEW a \in Actors, NEW g \in Groups, RegFindNone(a, g)
       PROVE  AccessInv(o)'
  <2>1. a = o
    BY <1>19, <1>t, OwnerOnly DEF RegFindNone
  <2>2. \A t \in Topics : m_topics[t] # g
    BY <1>0, <1>19 DEF RegFindNone, IsFree, IInv, NoUseAfterFree
  <2>3. /\ pc' = [pc EXCEPT ![o] = "reg_create"] /\ owner' = [owner EXCEPT ![o] = g]
        /\ group' = [group EXCEPT ![g] = NewGroup] /\ UNCHANGED m_topics
    BY <1>19, <2>1 DEF RegFindNone, Goto
  <2> QED
    BY <1>0, <1>t, <2>2, <2>3 DEF TypeOK, Adding
<1>20. ASSUME NEW a \in Actors, NEW g \in Groups, SetInsert(a, g)
       PROVE  AccessInv(o)'
  BY <1>20, <1>t, OwnerOnly DEF SetInsert, PlaceInv
<1>21. ASSUME NEW g \in Groups, ListenerExit(g)
       PROVE  AccessInv(o)'
  BY <1>0, <1>1, <1>21 DEF ListenerExit, threadVars, Actors, Reading
<1> QED
  BY <1>2, <1>3, <1>4, <1>5, <1>6, <1>7, <1>8, <1>9, <1>10, <1>11, <1>12, <1>13,
     <1>14, <1>15, <1>16, <1>17, <1>18, <1>19, <1>20, <1>21
  DEF Next, Step, Lookup, Update, Leave, Finished

LEMMA AccessInvariance ==
    ASSUME NEW o \in Threads, SingleOwner(o), SoleReader(o)
    PROVE  Spec => []AccessInv(o)
<1>1. Init => AccessInv(o)
  BY OwnerIsThread DEF Init, AccessInv, Reading, Adding
<1>2. IInv /\ OwnInv(o) /\ AccessInv(o) /\ [Next]_vars => AccessInv(o)'
  BY AccessStep
<1> QED
  BY <1>1, <1>2, Invariance, OwnInvariance, PTL DEF Spec

\* What each step may write, and to which group.
LEMMA WriteCases ==
    ASSUME NEW a \in Actors, NEW g \in Groups, NEW x \in Writes(a, g)
    PROVE  \/ pc[a] = "reg_create" /\ owner[a] = g /\ x = "topic"
           \/ pc[a] = "set_find" /\ Found(a) = g /\ x = "qos"
           \/ pc[a] = "qos_preset" /\ local[a] = g /\ x = "qosPreset"
           \/ pc[a] = "pub_create" /\ Found(a) = g /\ x = "writer"
           \/ pc[a] = "sub_store" /\ local[a] = g /\ x = "readers"
           \/ pc[a] = "cb_emitter" /\ Found(a) = g /\ x \in {"emitters", "m_callbacks"}
           \/ pc[a] = "cb_run" /\ local[a] = g /\ x = "m_dataThread"
           \/ /\ pc[a] \in {"destroy", "join"} /\ dying[a] = g
              /\ x \in {"topic", "writer", "readers", "m_dataThread"}
  BY DEF Writes, WrittenAt, Object

\* The accesses of a thread that is not the owner.
LEMMA AccessCases ==
    ASSUME NEW o \in Threads, UsersInv(o), TasksInv(o), AccessInv(o),
           NEW b \in Actors, b # o, NEW g \in Groups,
           NEW x \in Reads(b, g) \cup Writes(b, g)
    PROVE  \/ b = g /\ pc[b] # "off" /\ x = "m_callbacks"
           \/ pc[b] = "get_find" /\ x = "writer"
           \/ pc[b] = "pub_create" /\ Found(b) = g /\ x \in {"topic", "qos", "writer"}
           \/ pc[b] \in {"destroy", "join"} /\ dying[b] = g /\ x # "m_callbacks"
<1>1. /\ pc[b] \in UserPCs \cup TaskPCs
      /\ pc[b] \notin Reading
  BY DEF UsersInv, TasksInv, AccessInv
<1>2. CASE x \in Writes(b, g)
  BY <1>1, <1>2, WriteCases DEF UserPCs, TaskPCs
<1>3. CASE Object(b) = g /\ x \in ReadAt(pc[b])
  BY <1>1, <1>3 DEF ReadAt, Object, UserPCs, TaskPCs, Reading
<1> QED
  BY <1>2, <1>3 DEF Reads

\* A step works on a group that lives, unless it is the group's destructor.
LEMMA ObjectLives ==
    ASSUME TypeOK, NoUseAfterFree, NEW a \in Actors, NEW g \in Groups,
           Object(a) = g, pc[a] \notin {"destroy", "join"}
    PROVE  status[g] = "alive"
<1>1. NoGroup \notin Groups
  BY RegistryAssumption DEF Actors
<1>2. topicName[a] \in Topics
  BY DEF TypeOK
<1>3. g \in {owner[a], local[a], Found(a)}
  BY DEF Object
<1> QED
  BY <1>1, <1>2, <1>3 DEF NoUseAfterFree, Found

\* With one owner who also is the only reader, m_topicMutex and the owner's order
\* of calls are enough: no thread modifies the map, a TopicGroup or its emitter
\* while another one, a listener iterating over its callbacks included, is at it.
THEOREM OwnedIsRaceFree ==
    ASSUME NEW o \in Threads, SingleOwner(o), SoleReader(o)
    PROVE  Spec => []DataRaceFree
<1>1. ASSUME IInv, OwnInv(o), AccessInv(o), NEW a \in Actors, NEW b \in Actors, a # b
      PROVE  pc[a] \in MapWrites => pc[b] \notin MapWrites \cup MapReads
  <2>1. pc[a] # "set_insert" /\ pc[b] # "set_insert"
    BY <1>1, OwnerOnly DEF OwnInv, PlaceInv
  <2>2. pc[a] \in MapWrites => unique = a
    BY <1>1, <2>1 DEF IInv, LockInv, MapWrites, UniqueHeld
  <2>3. unique = a => unique # b /\ unique # NoActor
    BY <1>1, RegistryAssumption
  <2>4. pc[b] \in MapWrites \cup MapReads => shared[b] > 0 \/ unique = b
    BY <1>1, <2>1 DEF IInv, LockInv, MapWrites, MapReads, UniqueHeld, SharedHeld, Nested
  <2>5. unique = a => shared[b] = 0
    BY <1>1, <2>3 DEF IInv, LockInv
  <2> QED
    BY <2>2, <2>3, <2>4, <2>5
<1>2. ASSUME IInv, OwnInv(o), AccessInv(o), NEW a \in Actors, NEW b \in Actors,
             a # b, NEW g \in Groups
      PROVE  Writes(a, g) \cap (Reads(b, g) \cup Writes(b, g)) = {}
  <2> SUFFICES ASSUME NEW x \in Writes(a, g), x \in Reads(b, g) \cup Writes(b, g)
               PROVE  FALSE
    OBVIOUS
  <2>0. /\ TypeOK /\ LockInv /\ DyingInv /\ ListenerInv /\ NoUseAfterFree
        /\ UsersInv(o) /\ TasksInv(o) /\ PlaceInv(o)
        /\ NoGroup \notin Groups
    BY <1>2, RegistryAssumption DEF IInv, OwnInv, Actors
  <2>1. Object(a) = g /\ (Object(b) = g \/ (b = g /\ x = "m_callbacks"))
    <3>1. \A c : x \in Writes(c, g) => Object(c) = g
      BY DEF Writes
    <3>2. x \in Reads(b, g) => Object(b) = g \/ (b = g /\ x = "m_callbacks")
      BY DEF Reads
    <3> QED
      BY <3>1, <3>2
  \* The destructor has the group to itself.
  <2>2. ASSUME NEW c \in {a, b}, pc[c] \in {"destroy", "join"}, Object(c) = g
        PROVE  FALSE
    <3>1. status[g] = "dying" /\ dying[c] = g
      BY <1>2, <2>0, <2>2 DEF Object, DyingInv
    <3>2. \A d \in {a, b} : Object(d) = g /\ d # c => FALSE
      <4> SUFFICES ASSUME NEW d \in {a, b}, Object(d) = g, d # c PROVE FALSE
        OBVIOUS
      <4>1. pc[d] \in {"destroy", "join"}
        BY <2>0, <3>1, ObjectLives
      <4> QED
        BY <2>0, <3>1, <4>1 DEF Object, DyingInv
    <3>3. c = a /\ b = g /\ x = "m_callbacks"
      BY <1>2, <2>1, <2>2, <3>2
    <3> QED
      BY <2>2, <3>3, WriteCases
  <2>3. pc[a] \notin {"destroy", "join"}
    BY <2>1, <2>2
  <2>4. x # "m_callbacks" => pc[b] \notin {"destroy", "join"}
    BY <2>1, <2>2
  <2>5. /\ pc[a] \in {"set_find", "qos_preset", "sub_store", "cb_emitter"} => shared[a] = 1
        /\ pc[b] = "get_find" => shared[b] = 1
        /\ pc[b] = "pub_create" => unique = b /\ shared[a] = 0 /\ unique # a
        /\ pc[a] = "pub_create" => unique = a /\ shared[b] = 0 /\ unique # b
    BY <1>2, <2>0, RegistryAssumption DEF LockInv, UniqueHeld, SharedHeld, Nested
  <2>6. CASE a # o
    <3>1. pc[a] = "pub_create" /\ x = "writer" /\ Found(a) = g
      BY <2>0, <2>3, <2>6, OwnerOnly, WriteCases
    <3>2. CASE b = o
      <4>1. x \in Reads(b, g) => pc[b] = "get_find" \/ pc[b] = "read_reply"
        BY <3>1 DEF Reads, ReadAt
      <4>2. x \in Writes(b, g) => pc[b] = "pub_create"
        BY <2>4, <3>1, WriteCases
      <4>3. pc[b] \in {"get_find", "read_reply"} => shared[b] > 0
        BY <2>0 DEF LockInv, SharedHeld, Nested
      <4> QED
        BY <2>5, <3>1, <4>1, <4>2, <4>3
    <3>3. CASE b # o
      BY <1>2, <2>0, <2>4, <2>5, <3>1, <3>3, AccessCases
    <3> QED
      BY <3>2, <3>3
  <2>7. CASE a = o
    <3>1. \/ b = g /\ pc[b] # "off" /\ x = "m_callbacks"
          \/ pc[b] = "get_find" /\ x = "writer"
          \/ pc[b] = "pub_create" /\ Found(b) = g /\ x \in {"topic", "qos", "writer"}
      BY <1>2, <2>0, <2>4, <2>7, AccessCases
    <3>2. CASE x = "m_callbacks"
      <4>1. pc[a] = "cb_emitter" /\ Found(a) = g
        BY <2>3, <3>2, WriteCases
      <4>2. status[g] = "alive" /\ group[g].emitter # "running"
        BY <1>2, <2>0, <2>1, <2>3, <2>7, <4>1, ObjectLives DEF AccessInv, Adding
      <4> QED
        BY <2>0, <3>1, <3>2, <4>2 DEF ListenerInv
    <3>3. CASE x # "m_callbacks"
      <4>1. pc[b] = "pub_create" /\ Found(b) = g
        BY <2>3, <2>5, <3>1, <3>3, WriteCases
      <4>2. pc[a] = "reg_create" /\ owner[a] = g
        BY <2>3, <2>5, <3>1, <3>3, <4>1, WriteCases
      <4> QED
        BY <1>2, <2>0, <2>7, <4>1, <4>2 DEF AccessInv, Found, TypeOK
    <3> QED
      BY <3>2, <3>3
  <2> QED
    BY <2>6, <2>7
<1>3. IInv /\ OwnInv(o) /\ AccessInv(o) => DataRaceFree
  BY <1>1, <1>2 DEF DataRaceFree
<1> QED
  BY <1>3, Invariance, OwnInvariance, AccessInvariance, PTL

\* With one owner no TopicGroup is destroyed with the mutex held: the store of
\* registerTopic and the clear() of the shutdown never drop a last pointer.
THEOREM OwnedDieOutsideLock ==
    ASSUME NEW o \in Threads, SingleOwner(o)
    PROVE  Spec => []DestroyOutsideLock
<1>1. IInv /\ OwnInv(o) => DestroyOutsideLock
  BY DEF IInv, DyingInv, OwnInv, OutsideInv, DestroyOutsideLock
<1> QED
  BY <1>1, Invariance, OwnInvariance, PTL

\* With one owner no data callback destroys the group it runs on, so that no
\* listener thread joins itself.
THEOREM OwnedNeverSelfJoin ==
    ASSUME NEW o \in Threads, SingleOwner(o)
    PROVE  Spec => []NoSelfJoin
<1>1. OwnInv(o) => NoSelfJoin
  <2> SUFFICES ASSUME OwnInv(o), NEW g \in Groups PROVE dying[g] # g
    BY DEF NoSelfJoin
  <2>1. g \in Actors \ {o} /\ g \notin Topics /\ g # NoGroup
    BY RegistryAssumption DEF Actors
  <2> QED
    BY <2>1 DEF OwnInv, UsersInv
<1> QED
  BY <1>1, OwnInvariance, PTL

\* With one owner the clear() at the end of the shutdown finds an empty map: the
\* tasks have unregistered every topic and nobody has put one back.
THEOREM OwnedNeedNoFallback ==
    ASSUME NEW o \in Threads, SingleOwner(o)
    PROVE  Spec => []FallbackUnused
<1>1. OwnInv(o) => FallbackUnused
  BY OwnerOnly DEF OwnInv, TasksInv, FallbackUnused
<1> QED
  BY <1>1, OwnInvariance, PTL

\* A group whose destructor has begun has an actor that runs it.
Attended == \A g \in Groups : status[g] = "dying" => \E a \in Actors : dying[a] = g

LEMMA AttendedStep ==
    ASSUME TypeOK, DyingInv, NoUseAfterFree, Attended, [Next]_vars
    PROVE  Attended'
<1>0. /\ NoGroup \notin Groups
      /\ status \in [Groups -> {"free", "alive", "dying"}]
      /\ dying \in [Actors -> Groups \cup {NoGroup}]
  BY RegistryAssumption DEF Actors, TypeOK
\* No destructor begins or ends.
<1>1. ASSUME UNCHANGED dying,
             \A g \in Groups : status'[g] = "dying" => status[g] = "dying"
      PROVE  Attended'
  BY <1>1 DEF Attended
\* The destructor of h begins.
<1>2. ASSUME NEW a \in Actors, NEW h \in Groups, pc[a] \notin {"destroy", "join"},
             dying' = [dying EXCEPT ![a] = h],
             \A g \in Groups : status'[g] = "dying" => status[g] = "dying" \/ g = h
      PROVE  Attended'
  <2>1. dying[a] = NoGroup
    BY <1>2 DEF DyingInv
  <2> SUFFICES ASSUME NEW g \in Groups, status'[g] = "dying"
               PROVE  \E b \in Actors : dying'[b] = g
    BY DEF Attended
  <2>2. CASE g = h
    BY <1>0, <1>2, <2>2
  <2>3. CASE g # h
    <3>1. PICK b \in Actors : dying[b] = g
      BY <1>2, <2>3 DEF Attended
    <3>2. b # a
      BY <1>0, <2>1, <3>1
    <3> QED
      BY <1>0, <1>2, <3>1, <3>2
  <2> QED
    BY <2>2, <2>3
<1>3. ASSUME UNCHANGED <<status, dying>> PROVE Attended'
  BY <1>1, <1>3
<1>4. ASSUME UNCHANGED vars PROVE Attended'
  BY <1>3, <1>4 DEF vars, threadVars
<1>5. ASSUME NEW a \in Actors, NEW c \in Calls, NEW t \in Topics, Call(a, c, t)
      PROVE  Attended'
  BY <1>3, <1>5 DEF Call
<1>6. ASSUME NEW a \in Actors, LockShared(a) \/ LockUnique(a)
      PROVE  Attended'
  BY <1>3, <1>6 DEF LockShared, LockUnique, threadVars
<1>7. ASSUME NEW a \in Actors, Lookup(a)
      PROVE  Attended'
  BY <1>3, <1>7, ReadGoes DEF Lookup, RegFindSome, QosFind, QosCheck, SetFind, SubFind, GetFind,
     CbFind, CbReader, ReadFind, ReadEmit, ReadReply, threadVars
<1>8. ASSUME NEW a \in Actors,
             \/ RegCreate(a) \/ QosPreset(a) \/ UnregErase(a) \/ SubStore(a)
             \/ CbEmitter(a) \/ CbRun(a) \/ CleanSpawn(a) \/ CleanJoin(a)
      PROVE  Attended'
  BY <1>3, <1>8 DEF RegCreate, QosPreset, UnregErase, SubStore, CbEmitter, CbRun,
     CleanSpawn, CleanJoin, threadVars
<1>9. ASSUME NEW a \in Actors, PubCreate(a) PROVE Attended'
  BY <1>3, <1>9 DEF PubCreate, threadVars
<1>10. ASSUME NEW a \in Actors, NEW g \in Groups, RegFindNone(a, g)
       PROVE  Attended'
  BY <1>0, <1>1, <1>10 DEF RegFindNone
<1>11. ASSUME NEW a \in Actors, RegStore(a) PROVE Attended'
  <2>1. CASE UNCHANGED <<status, dying>>
    BY <1>3, <2>1
  <2>2. CASE /\ Found(a) # NoGroup
             /\ status' = [status EXCEPT ![Found(a)] = "dying"]
             /\ dying' = [dying EXCEPT ![a] = Found(a)]
    <3>1. Found(a) \in Groups
      BY <2>2 DEF Found, TypeOK
    <3> QED
      BY <1>0, <1>2, <1>11, <2>2, <3>1 DEF RegStore
  <2> QED
    BY <1>11, <2>1, <2>2 DEF RegStore
<1>12. ASSUME NEW a \in Actors, NEW g \in Groups, SetInsert(a, g)
       PROVE  Attended'
  <2>1. CASE status' = [status EXCEPT ![g] = "alive"] /\ UNCHANGED dying
    BY <1>0, <1>1, <2>1
  <2>2. CASE /\ Found(a) # NoGroup
             /\ status' = [status EXCEPT ![g] = "alive", ![Found(a)] = "dying"]
             /\ dying' = [dying EXCEPT ![a] = Found(a)]
    <3>1. Found(a) \in Groups
      BY <2>2 DEF Found, TypeOK
    <3> QED
      BY <1>0, <1>2, <1>12, <2>2, <3>1 DEF SetInsert
  <2> QED
    BY <1>12, <2>1, <2>2 DEF SetInsert
<1>13. ASSUME NEW a \in Actors, CleanClear(a) PROVE Attended'
  <2>1. CASE UNCHANGED <<status, dying>>
    BY <1>3, <2>1
  <2>2. ASSUME NEW t \in Topics, m_topics[t] # NoGroup,
               status' = [status EXCEPT ![m_topics[t]] = "dying"],
               dying' = [dying EXCEPT ![a] = m_topics[t]]
        PROVE  Attended'
    <3>1. m_topics[t] \in Groups
      BY <2>2 DEF TypeOK
    <3> QED
      BY <1>0, <1>2, <1>13, <2>2, <3>1 DEF CleanClear
  <2> QED
    BY <1>13, <2>1, <2>2 DEF CleanClear
<1>14. ASSUME NEW a \in Actors, DropLocal(a) \/ DropOwner(a)
       PROVE  Attended'
  <2>1. CASE UNCHANGED <<status, dying>>
    BY <1>3, <2>1
  <2>2. ASSUME NEW g \in Groups, status' = [status EXCEPT ![g] = "dying"],
               dying' = [dying EXCEPT ![a] = g]
        PROVE  Attended'
    BY <1>0, <1>2, <1>14, <2>2 DEF DropLocal, DropOwner
  <2>3. local[a] \in Groups \cup {NoGroup} /\ owner[a] \in Groups \cup {NoGroup}
    BY DEF TypeOK
  <2> QED
    BY <1>14, <2>1, <2>2, <2>3 DEF DropLocal, DropOwner, Release
<1>15. ASSUME NEW a \in Actors, DropLock(a) \/ Return(a) \/ Destroy(a)
       PROVE  Attended'
  BY <1>3, <1>15 DEF DropLock, Return, Destroy, threadVars
<1>16. ASSUME NEW a \in Actors, Join(a) PROVE Attended'
  <2>1. /\ status' = [status EXCEPT ![dying[a]] = "free"]
        /\ dying' = [dying EXCEPT ![a] = NoGroup]
    BY <1>16 DEF Join
  <2> SUFFICES ASSUME NEW g \in Groups, status'[g] = "dying"
               PROVE  \E b \in Actors : dying'[b] = g
    BY DEF Attended
  <2>2. g # dying[a] /\ status[g] = "dying"
    BY <1>0, <2>1
  <2>3. PICK b \in Actors : dying[b] = g
    BY <2>2 DEF Attended
  <2> QED
    BY <1>0, <2>1, <2>2, <2>3
<1>17. ASSUME NEW g \in Groups, ListenerExit(g) PROVE Attended'
  BY <1>3, <1>17 DEF ListenerExit, threadVars
<1> QED
  BY <1>4, <1>5, <1>6, <1>7, <1>8, <1>9, <1>10, <1>11, <1>12, <1>13, <1>14, <1>15,
     <1>16, <1>17
  DEF Next, Step, Lookup, Update, Leave, Finished

\* With one owner destructors run inside the owner's calls: when one of them has
\* returned, every group that began to die is freed and its thread has ended.
THEOREM OwnedFreedInCalls ==
    ASSUME NEW o \in Threads, SingleOwner(o)
    PROVE  Spec => [](pc[o] = "idle" => \A g \in Groups : status[g] # "dying")
<1>1. Init => Attended
  BY DEF Init, Attended
<1>2. IInv /\ Attended /\ [Next]_vars => Attended'
  BY AttendedStep DEF IInv
<1>3. ASSUME IInv, OwnInv(o), Attended, pc[o] = "idle", NEW g \in Groups,
             status[g] = "dying"
      PROVE  FALSE
  <2>1. PICK a \in Actors : dying[a] = g
    BY <1>3 DEF Attended
  <2>0. dying[a] # NoGroup
    BY <2>1, RegistryAssumption DEF Actors
  <2>2. pc[a] \in {"destroy", "join"}
    BY <1>3, <2>0 DEF IInv, DyingInv
  <2>3. CASE a = o
    BY <1>3, <2>2, <2>3
  <2>4. CASE a # o /\ a \in Topics
    BY <1>3, <2>2, <2>4 DEF OwnInv, TasksInv
  <2>5. CASE a # o /\ a \notin Topics
    BY <1>3, <2>0, <2>5 DEF OwnInv, UsersInv
  <2> QED
    BY <2>3, <2>4, <2>5
<1>4. IInv /\ OwnInv(o) /\ Attended =>
         (pc[o] = "idle" => \A g \in Groups : status[g] # "dying")
  BY <1>3
<1> QED
  BY <1>1, <1>2, <1>4, Invariance, OwnInvariance, PTL DEF Spec

\* The steps that change the map.
LEMMA MapChanges ==
    ASSUME [Next]_vars
    PROVE  \/ UNCHANGED m_topics
           \/ \E a \in Actors : RegStore(a) \/ UnregErase(a) \/ CleanClear(a)
           \/ \E a \in Actors, g \in Groups : SetInsert(a, g)
<1> DEFINE Changes(a) == \/ RegStore(a) \/ UnregErase(a) \/ CleanClear(a)
                         \/ \E g \in Groups : SetInsert(a, g)
<1>1. ASSUME NEW a \in Actors, LockShared(a) \/ LockUnique(a)
      PROVE  UNCHANGED m_topics
  BY <1>1 DEF LockShared, LockUnique
<1>2. ASSUME NEW a \in Actors, Lookup(a)
      PROVE  UNCHANGED m_topics
  BY <1>2, ReadGoes DEF Lookup, RegFindSome, QosFind, QosCheck, SetFind, SubFind, GetFind,
         CbFind, CbReader, ReadFind, ReadEmit, ReadReply
<1>3. ASSUME NEW a \in Actors, Update(a)
      PROVE  UNCHANGED m_topics \/ Changes(a)
  BY <1>3 DEF Update, RegFindNone, RegCreate, QosPreset, PubCreate, SubStore,
         CbEmitter, CbRun, CleanSpawn, CleanJoin
<1>4. ASSUME NEW a \in Actors, Leave(a)
      PROVE  UNCHANGED m_topics
  BY <1>4 DEF Leave, DropLocal, DropLock, DropOwner, Return, Destroy, Join
<1>5. ASSUME NEW a \in Actors, NEW c \in Calls, NEW t \in Topics, Call(a, c, t)
      PROVE  UNCHANGED m_topics
  BY <1>5 DEF Call
<1>6. ASSUME NEW g \in Groups, ListenerExit(g)
      PROVE  UNCHANGED m_topics
  BY <1>6 DEF ListenerExit
<1>7. ASSUME UNCHANGED vars
      PROVE  UNCHANGED m_topics
  BY <1>7 DEF vars
<1> QED
  BY <1>1, <1>2, <1>3, <1>4, <1>5, <1>6, <1>7 DEF Next, Step, Finished

\* What one step may do to the entry of a topic.
LostStep ==
    \A t \in Topics :
        LET g == m_topics[t] IN
        (g # NoGroup /\ m_topics'[t] # g) =>
            \/ \E a \in Actors : pc[a] \in {"unreg_erase", "clean_clear"}
            \/ ~group[g].reader /\ ~group[g].writer

\* With one owner no registration throws away the reader or the writer that
\* another call has set up: registerTopic stores only where nothing was, or the
\* group it found.
THEOREM OwnedLoseNothing ==
    ASSUME NEW o \in Threads, SingleOwner(o)
    PROVE  Spec => NoLostEntities
<1>1. ASSUME IInv, OwnInv(o), [Next]_vars
      PROVE  LostStep
  <2>1. CASE UNCHANGED m_topics
    BY <2>1 DEF LostStep
  <2>2. ASSUME NEW a \in Actors, RegStore(a)
        PROVE  LostStep
    <3>0. UsersInv(o) /\ TasksInv(o) /\ PlaceInv(o) /\ pc[a] = "reg_store"
      BY <1>1, <2>2 DEF RegStore, OwnInv
    <3>1. a = o /\ Found(a) \in {NoGroup, owner[a]}
      BY <3>0, OwnerOnly DEF PlaceInv
    <3>2. \A t \in Topics : m_topics[t] # NoGroup => m_topics'[t] = m_topics[t]
      BY <1>1, <2>2, <3>1 DEF RegStore, Found, IInv, TypeOK
    <3> QED
      BY <3>2 DEF LostStep
  <2>3. ASSUME NEW a \in Actors, UnregErase(a) \/ CleanClear(a)
        PROVE  LostStep
    BY <2>3 DEF UnregErase, CleanClear, LostStep
  <2>4. ASSUME NEW a \in Actors, NEW g \in Groups, SetInsert(a, g)
        PROVE  FALSE
    <3>1. UsersInv(o) /\ TasksInv(o) /\ PlaceInv(o) /\ pc[a] = "set_insert"
      BY <1>1, <2>4 DEF SetInsert, OwnInv
    <3> QED
      BY <3>1, OwnerOnly DEF PlaceInv
  <2> QED
    BY <1>1, <2>1, <2>2, <2>3, <2>4, MapChanges
<1>2. IInv /\ OwnInv(o) /\ [Next]_vars => [LostStep]_vars
  BY <1>1
<1> QED
  BY <1>2, Invariance, OwnInvariance, PTL DEF Spec, NoLostEntities, LostStep

=============================================================================
