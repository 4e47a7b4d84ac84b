------------------------ MODULE TopicRegistryProofs ------------------------
(***************************************************************************)
(* Theorems about TopicRegistry, for any number of threads, topics, groups *)
(* and calls and for either kind of std::shared_mutex.                     *)
(***************************************************************************)
EXTENDS TopicRegistry, TLAPS

-----------------------------------------------------------------------------
(* The inductive invariant.                                                *)

\* A step names how often its thread holds the mutex in shared mode, and an
\* exclusive holder is alone.
Nested == {"cb_reader", "read_reply"}
Leaving == {"return", "destroy", "join"}

LockInv ==
    /\ unique # NoActor => \A a \in Actors : shared[a] = 0
    /\ \A a \in Actors :
          /\ pc[a] \in UniqueHeld => unique = a
          /\ pc[a] \in Nested => shared[a] = 2
          /\ pc[a] \in SharedHeld \ Nested => shared[a] = 1
          /\ pc[a] \in Leaving => shared[a] <= 1
          /\ pc[a] \notin SharedHeld \cup Leaving => shared[a] = 0

\* The countdown of set*Qos calls is never below the call that is running.
SetsInv ==
    \A a \in Actors :
        pc[a] \in {"set_wait", "set_find", "set_insert"} => setsLeft[a] >= 1

\* A destructor runs on one thread, for a group nobody else can reach.
DyingInv ==
    /\ \A a \in Actors : dying[a] # NoGroup => status[dying[a]] = "dying"
    /\ \A a, b \in Actors : dying[a] # NoGroup /\ dying[a] = dying[b] => a = b
    /\ \A a \in Actors : pc[a] \notin {"destroy", "join"} => dying[a] = NoGroup

\* A listener thread exists only from run() until the join.
ListenerInv ==
    \A g \in Groups :
        status[g] = "alive" /\ group[g].emitter # "running" => pc[g] = "off"

IInv == TypeOK /\ LockInv /\ SetsInv /\ DyingInv /\ ListenerInv
        /\ NoUseAfterFree /\ LookupStable

-----------------------------------------------------------------------------
(* The steps that acquire the mutex.                                       *)

\* What a shared acquisition leads to: a step that holds the mutex shared, and
\* holds it twice exactly in the nested lookups.
LEMMA SharedSteps ==
    ASSUME NEW p \in SharedWaits
    PROVE  /\ SharedStep[p] \in SharedHeld
           /\ SharedStep[p] \in Nested <=> p \in {"cb_rewait", "read_rewait"}
           /\ SharedStep[p] \in {"set_find", "set_insert"} => p = "set_wait"
           /\ SharedStep[p] \in {"cb_rewait", "cb_reader", "cb_emitter",
                                 "sub_store", "read_emit", "read_rewait",
                                 "read_reply", "read_create", "read_erase"} =>
                 p \in {"cb_rewait", "read_rewait"}
  BY DEF SharedWaits, SharedStep, SharedHeld, Nested

\* An exclusive acquisition leads to a step that holds the mutex exclusively.
LEMMA UniqueSteps == ASSUME NEW p \in UniqueWaits PROVE UniqueStep[p] \in UniqueHeld
  BY DEF UniqueWaits, UniqueStep, UniqueHeld

\* Every call of the manager starts by waiting for m_topicMutex, holding nothing.
LEMMA Entries ==
    ASSUME NEW c \in Calls
    PROVE  /\ Entry[c] \in SharedWaits \cup UniqueWaits
           /\ Entry[c] \notin SharedHeld \cup UniqueHeld \cup Leaving
           /\ Entry[c] = "set_wait" <=> c = "setQos"
  BY DEF Calls, Entry, SharedWaits, UniqueWaits, SharedStep, UniqueStep,
         SharedHeld, UniqueHeld, Leaving

\* The steps named in the actions are steps.
LEMMA PcNames ==
    { "off", "idle", "reg_create", "qos_check", "cb_run", "clean_join", "return",
      "destroy", "join", "set_find", "set_insert", "cb_rewait", "cb_emitter",
      "sub_store", "read_emit", "read_rewait", "read_create", "read_erase",
      "qos_wait", "set_wait",
      "qos_rewait", "reg_rewait", "unreg_wait", "clean_rewait", "clean_clear" }
        \subseteq PCs
  BY DEF PCs, SharedWaits, UniqueWaits, SharedStep, UniqueStep, SharedHeld,
         UniqueHeld

\* What a step knows about its thread's shared acquisitions.
LEMMA SharedDepth ==
    ASSUME TypeOK, LockInv, NEW a \in Actors
    PROVE  /\ pc[a] \in SharedHeld => shared[a] - 1 \in 0..1 /\ shared[a] \in 1..2
           /\ pc[a] \in SharedWaits => shared[a] \in 0..1 /\ shared[a] + 1 \in 1..2
<1>1. pc[a] \in SharedHeld => shared[a] \in 1..2
  BY DEF TypeOK, LockInv, SharedHeld, Nested
<1>2. pc[a] \in SharedWaits => shared[a] \in 0..1
  BY DEF TypeOK, LockInv, SharedHeld, Nested, Leaving, SharedWaits, SharedStep
<1> QED
  BY <1>1, <1>2

\* Setting one member of one group.
LEMMA MemberUpdates ==
    ASSUME NEW r \in Group
    PROVE  /\ [r EXCEPT !.topic = TRUE] \in Group
           /\ [r EXCEPT !.topic = FALSE] \in Group
           /\ [r EXCEPT !.preset = TRUE] \in Group
           /\ [r EXCEPT !.writer = TRUE] \in Group
           /\ [r EXCEPT !.reader = TRUE] \in Group
           /\ [r EXCEPT !.emitter = "queued"] \in Group
           /\ [r EXCEPT !.emitter = "running"] \in Group
  BY DEF Group

\* ... keeps the type of all the groups.
LEMMA GroupUpdates ==
    ASSUME NEW G \in [Groups -> Group], NEW x
    PROVE  /\ [G EXCEPT ![x].topic = TRUE] \in [Groups -> Group]
           /\ [G EXCEPT ![x].topic = FALSE] \in [Groups -> Group]
           /\ [G EXCEPT ![x].preset = TRUE] \in [Groups -> Group]
           /\ [G EXCEPT ![x].writer = TRUE] \in [Groups -> Group]
           /\ [G EXCEPT ![x].reader = TRUE] \in [Groups -> Group]
           /\ [G EXCEPT ![x].emitter = "running"] \in [Groups -> Group]
  BY MemberUpdates

\* Where a callback that readCallbacks runs may take its thread.
LEMMA ReadGoes ==
    ASSUME NEW a \in Actors, ReadEmit(a)
    PROVE  \E p \in {"return", "read_rewait", "read_create", "read_erase"} :
               Goto(a, p)
<1>1. ASSUME NEW c \in NestedCalls
      PROVE  NestedWait[c] \in {"read_rewait", "read_create", "read_erase"}
  BY DEF NestedCalls, NestedWait
<1> QED
  BY <1>1 DEF ReadEmit

\* A callback under readCallbacks never gets the exclusive lock: its own thread
\* has the shared one.
LEMMA NoUpgrade ==
    ASSUME LockInv, NEW a \in Actors, LockUnique(a)
    PROVE  pc[a] \in UniqueWaits \ SharedHeld
  BY DEF LockUnique, LockInv, Nested

\* A step of any thread keeps the types; the set*Qos countdown and the count of
\* shared acquisitions need LockInv and SetsInv not to run below zero.
LEMMA TypeStep ==
    ASSUME TypeOK, LockInv, SetsInv, [Next]_vars
    PROVE  TypeOK'
<1> USE DEF TypeOK
<1>1. ASSUME UNCHANGED vars
      PROVE  TypeOK'
  BY <1>1, PcNames DEF vars, threadVars
<1>2. ASSUME NEW a \in Actors, NEW c \in Calls, NEW t \in Topics, Call(a, c, t)
      PROVE  TypeOK'
  BY <1>2, Entries, PcNames DEF Call, threadVars, Goto, PCs, Actors
<1>3. ASSUME NEW a \in Actors, LockShared(a)
      PROVE  TypeOK'
  BY <1>3, SharedSteps, SharedDepth, PcNames DEF LockShared, threadVars, Goto,
         PCs
<1>4. ASSUME NEW a \in Actors, LockUnique(a)
      PROVE  TypeOK'
  BY <1>4, UniqueSteps, PcNames DEF LockUnique, threadVars, Goto, PCs
<1>5. ASSUME NEW a \in Actors, RegFindSome(a)
      PROVE  TypeOK'
  BY <1>5, SharedDepth, PcNames DEF RegFindSome, UnlockShared, Found,
         threadVars, Goto, SharedHeld
<1>6. ASSUME NEW a \in Actors, QosFind(a)
      PROVE  TypeOK'
  BY <1>6, SharedDepth, PcNames DEF QosFind, UnlockShared, Found, threadVars,
         Goto, SharedHeld
<1>7. ASSUME NEW a \in Actors, SetFind(a)
      PROVE  TypeOK'
  BY <1>7, SharedDepth, PcNames DEF SetFind, SetDone, UnlockShared, Found,
         threadVars, Goto, SharedHeld, SetsInv
<1>8. ASSUME NEW a \in Actors, CbReader(a)
      PROVE  TypeOK'
  BY <1>8, SharedDepth, PcNames DEF CbReader, UnlockShared, Found, threadVars,
         Goto, SharedHeld
<1>9. ASSUME NEW a \in Actors, ReadReply(a)
      PROVE  TypeOK'
  BY <1>9, SharedDepth, PcNames DEF ReadReply, UnlockShared, threadVars, Goto,
         SharedHeld
<1>10. ASSUME NEW a \in Actors, RegCreate(a)
      PROVE  TypeOK'
  <2>1. group' \in [Groups -> Group]
    <3>1. CASE group' = [group EXCEPT ![owner[a]].topic = TRUE]
      BY <3>1, GroupUpdates
    <3>2. CASE group' = [group EXCEPT ![owner[a]].topic = FALSE]
      BY <3>2, GroupUpdates
    <3> QED
      BY <1>10, <3>1, <3>2 DEF RegCreate
  <2>2. pc' \in [Actors -> PCs]
    BY <1>10, PcNames DEF RegCreate, Goto
  <2> QED
    BY <1>10, <2>1, <2>2 DEF RegCreate, threadVars
<1>11. ASSUME NEW a \in Actors, QosPreset(a)
      PROVE  TypeOK'
  BY ZenonT(60), <1>11, PcNames DEF QosPreset, threadVars, Goto, Group, NewGroup
<1>12. ASSUME NEW a \in Actors, PubCreate(a)
      PROVE  TypeOK'
  <2>1. group' \in [Groups -> Group]
    <3>1. CASE group' = [group EXCEPT ![Found(a)].writer = TRUE]
      BY <3>1, GroupUpdates
    <3>2. CASE group' = group
      BY <3>2, GroupUpdates
    <3> QED
      BY <1>12, <3>1, <3>2 DEF PubCreate
  <2>2. pc' \in [Actors -> PCs]
    BY <1>12, PcNames DEF PubCreate, Goto
  <2> QED
    BY <1>12, <2>1, <2>2 DEF PubCreate, threadVars
<1>13. ASSUME NEW a \in Actors, SubStore(a)
      PROVE  TypeOK'
  <2>1. group' \in [Groups -> Group]
    <3>1. CASE group' = [group EXCEPT ![local[a]].reader = TRUE]
      BY <3>1, GroupUpdates
    <3>2. CASE group' = group
      BY <3>2, GroupUpdates
    <3> QED
      BY <1>13, <3>1, <3>2 DEF SubStore
  <2>2. pc' \in [Actors -> PCs]
    BY <1>13, PcNames DEF SubStore, Goto
  <2> QED
    BY <1>13, <2>1, <2>2 DEF SubStore, threadVars
<1>14. ASSUME NEW a \in Actors, CbEmitter(a)
      PROVE  TypeOK'
  <2>1. group' \in [Groups -> Group]
    <3>1. CASE group[Found(a)].emitter = "none"
      BY ZenonT(60), <1>14, <3>1 DEF CbEmitter, Group
    <3>2. CASE group[Found(a)].emitter # "none"
      BY ZenonT(60), <1>14, <3>2 DEF CbEmitter, Group
    <3> QED
      BY <3>1, <3>2
  <2>2. pc' \in [Actors -> PCs]
    BY <1>14, PcNames DEF CbEmitter, Goto
  <2>3. shared' \in [Actors -> 0..2]
    BY <1>14, SharedDepth DEF CbEmitter, UnlockShared, SharedHeld
  <2> QED
    BY <1>14, <2>1, <2>2, <2>3 DEF CbEmitter, Found
<1>15. ASSUME NEW a \in Actors, CbRun(a)
      PROVE  TypeOK'
  <2>1. group' \in [Groups -> Group]
    BY <1>15 DEF CbRun, Group
  <2>2. pc' \in [Actors -> PCs]
    BY <1>15, PcNames DEF CbRun, Goto
  <2> QED
    BY <1>15, <2>1, <2>2 DEF CbRun, threadVars
<1>16. ASSUME NEW a \in Actors, Destroy(a)
      PROVE  TypeOK'
  BY ZenonT(60), <1>16, PcNames DEF Destroy, threadVars, Goto, Group, NewGroup
<1>17. ASSUME NEW a \in Actors, Join(a)
      PROVE  TypeOK'
  BY ZenonT(60), <1>17, PcNames DEF Join, UnlockUnique, threadVars, Goto, Group, NewGroup
<1>18. ASSUME NEW a \in Actors,
             QosCheck(a) \/ SubFind(a) \/ GetFind(a) \/ CbFind(a)
      PROVE  TypeOK'
  BY <1>18, PcNames DEF QosCheck, SubFind, Found, GetFind, CbFind, threadVars,
         Goto
<1>19. ASSUME NEW a \in Actors,
             ReadFind(a) \/ ReadEmit(a)
      PROVE  TypeOK'
  BY <1>19, PcNames, ReadGoes DEF ReadFind, Found, ReadEmit, threadVars, Goto
<1>20. ASSUME NEW a \in Actors,
             RegStore(a) \/ UnregErase(a) \/ CleanSpawn(a) \/
                    CleanJoin(a)
      PROVE  TypeOK'
  BY <1>20, PcNames DEF RegStore, UnlockUnique, Found, InLocals, InMapElse,
         UnregErase, CleanSpawn, CleanJoin, threadVars, Goto
<1>21. ASSUME NEW a \in Actors, CleanClear(a)
      PROVE  TypeOK'
  BY <1>21, PcNames DEF CleanClear, InLocals, InMapElse, threadVars, Goto
<1>22. ASSUME NEW a \in Actors,
             DropLocal(a) \/ DropLock(a) \/ DropOwner(a) \/ Return(a)
      PROVE  TypeOK'
  BY <1>22, PcNames DEF DropLocal, Release, DropLock, DropOwner, Return,
         threadVars, Goto
<1>23. ASSUME NEW a \in Actors, NEW g \in Groups, RegFindNone(a, g)
      PROVE  TypeOK'
  BY <1>23, SharedDepth, PcNames DEF RegFindNone, IsFree, UnlockShared, Found,
         Goto, SharedHeld, Group, NewGroup
<1>24. ASSUME NEW a \in Actors, NEW g \in Groups, SetInsert(a, g)
      PROVE  TypeOK'
  <2>1. group' \in [Groups -> Group]
    BY <1>24 DEF SetInsert, Group, NewGroup
  <2>2. pc' \in [Actors -> PCs]
    BY <1>24, PcNames DEF SetInsert, SetDone, Goto
  <2>3. m_topics' \in [Topics -> Groups \cup {NoGroup}]
    BY <1>24 DEF SetInsert
  <2>4. shared' \in [Actors -> 0..2]
    BY <1>24, SharedDepth DEF SetInsert, SetDone, UnlockShared, SharedHeld
  <2>5. setsLeft' \in [Actors -> 0..3]
    BY <1>24 DEF SetInsert, SetDone, SetsInv
  <2>6. status' \in [Groups -> {"free", "alive", "dying"}]
    BY <1>24 DEF SetInsert
  <2>7. dying' \in [Actors -> Groups \cup {NoGroup}]
    BY <1>24 DEF SetInsert, Found
  <2> QED
    BY <1>24, <2>1, <2>2, <2>3, <2>4, <2>5, <2>6, <2>7 DEF SetInsert
<1>25. ASSUME NEW g \in Groups, ListenerExit(g)
      PROVE  TypeOK'
  BY <1>25, PcNames DEF ListenerExit, threadVars, Goto
<1> QED
  BY <1>1, <1>2, <1>3, <1>4, <1>5, <1>6, <1>7, <1>8, <1>9, <1>10, <1>11,
     <1>12, <1>13, <1>14, <1>15, <1>16, <1>17, <1>18, <1>19, <1>20, <1>21,
     <1>22, <1>23, <1>24, <1>25
  DEF Next, Step, Lookup, Update, Leave, Finished

\* A step keeps the mutex in order: one exclusive holder or some shared ones, and
\* every thread holds what its place in the code says.
LEMMA LockStep ==
    ASSUME TypeOK, LockInv, ListenerInv, NoUseAfterFree, [Next]_vars
    PROVE  LockInv'
<1> USE DEF TypeOK, LockInv, SharedHeld, UniqueHeld, Nested, Leaving
<1>1. ASSUME UNCHANGED vars
      PROVE  LockInv'
  BY <1>1 DEF vars, threadVars
<1>2. ASSUME NEW a \in Actors, NEW c \in Calls, NEW t \in Topics, Call(a, c, t)
      PROVE  LockInv'
  BY <1>2, Entries DEF Call, threadVars, Goto
<1>3. ASSUME NEW a \in Actors, LockShared(a)
      PROVE  LockInv'
  BY <1>3, RegistryAssumption, SharedSteps, SharedDepth DEF LockShared,
         threadVars, Goto, SharedWaits, SharedStep
<1>4. ASSUME NEW a \in Actors, LockUnique(a)
      PROVE  LockInv'
  <2>1. UniqueStep[pc[a]] \in UniqueHeld
    BY <1>4, UniqueSteps DEF LockUnique
  <2>2. \A b \in Actors : b # a => pc[b] \notin UniqueHeld
    BY <1>4, RegistryAssumption DEF LockUnique
  <2>3. pc[a] \notin SharedHeld \cup Leaving
    BY <1>4 DEF LockUnique, UniqueWaits, UniqueStep
  <2> QED
    BY <1>4, <2>1, <2>2, <2>3 DEF LockUnique, Goto
<1>5. ASSUME NEW a \in Actors, CbRun(a)
      PROVE  LockInv'
  <2>1. CASE UNCHANGED group /\ Goto(a, "return")
    BY <1>5, <2>1 DEF CbRun, Goto
  <2>2. CASE /\ group[local[a]].emitter = "queued"
             /\ pc' = [pc EXCEPT ![a] = "return", ![local[a]] = "idle"]
    <3>1. local[a] # NoGroup => local[a] \in Groups /\ pc[local[a]] = "off"
      BY <1>5, <2>2 DEF ListenerInv, NoUseAfterFree
    <3>2. local[a] = NoGroup => local[a] \notin Actors
      BY RegistryAssumption
    <3> QED
      BY <1>5, <2>2, <3>1, <3>2 DEF CbRun, Actors
  <2> QED
    BY <1>5, <2>1, <2>2 DEF CbRun
<1>6. ASSUME NEW a \in Actors, CleanSpawn(a)
      PROVE  LockInv'
  BY <1>6, RegistryAssumption DEF CleanSpawn, UnlockUnique, threadVars, Actors
<1>7. ASSUME NEW a \in Actors, Join(a)
      PROVE  LockInv'
  <2>1. CASE unique = a /\ owner[a] # NoGroup
    BY <1>7, <2>1, RegistryAssumption DEF Join, UnlockUnique, Goto
  <2>2. CASE unique = a /\ owner[a] = NoGroup
    BY <1>7, <2>2, RegistryAssumption DEF Join, Goto
  <2>3. CASE unique # a
    BY <1>7, <2>3 DEF Join, Goto
  <2> QED
    BY <2>1, <2>2, <2>3
<1>8. ASSUME NEW a \in Actors,
             RegFindSome(a) \/ QosFind(a) \/ QosCheck(a) \/ SetFind(a)
      PROVE  LockInv'
  BY <1>8 DEF RegFindSome, UnlockShared, QosFind, QosCheck, SetFind, SetDone,
         threadVars, Goto
<1>9. ASSUME NEW a \in Actors,
             SubFind(a) \/ GetFind(a) \/ CbFind(a) \/ CbReader(a)
      PROVE  LockInv'
  BY <1>9 DEF SubFind, GetFind, CbFind, CbReader, UnlockShared, threadVars,
         Goto
<1>10. ASSUME NEW a \in Actors,
             ReadFind(a) \/ ReadEmit(a) \/ ReadReply(a)
      PROVE  LockInv'
  BY <1>10, ReadGoes DEF ReadFind, ReadEmit, ReadReply, UnlockShared, threadVars, Goto
<1>11. ASSUME NEW a \in Actors,
             RegCreate(a) \/ RegStore(a) \/ QosPreset(a) \/ UnregErase(a)
      PROVE  LockInv'
  BY <1>11 DEF RegCreate, RegStore, UnlockUnique, QosPreset, UnregErase,
         threadVars, Goto
<1>12. ASSUME NEW a \in Actors,
             PubCreate(a) \/ SubStore(a) \/ CbEmitter(a) \/ CleanJoin(a)
      PROVE  LockInv'
  BY <1>12 DEF PubCreate, SubStore, CbEmitter, UnlockShared, CleanJoin,
         threadVars, Goto
<1>13. ASSUME NEW a \in Actors, CleanClear(a)
      PROVE  LockInv'
  BY <1>13 DEF CleanClear, threadVars, Goto
<1>14. ASSUME NEW a \in Actors,
             DropLocal(a) \/ DropLock(a) \/ DropOwner(a) \/ Return(a)
      PROVE  LockInv'
  BY <1>14 DEF DropLocal, Release, DropLock, DropOwner, Return, threadVars,
         Goto
<1>15. ASSUME NEW a \in Actors, Destroy(a)
      PROVE  LockInv'
  BY <1>15 DEF Destroy, threadVars, Goto
<1>16. ASSUME NEW a \in Actors, NEW g \in Groups, RegFindNone(a, g)
      PROVE  LockInv'
  BY <1>16 DEF RegFindNone, UnlockShared, Goto
<1>17. ASSUME NEW a \in Actors, NEW g \in Groups, SetInsert(a, g)
      PROVE  LockInv'
  BY <1>17 DEF SetInsert, SetDone, UnlockShared, Goto
<1>18. ASSUME NEW g \in Groups, ListenerExit(g)
      PROVE  LockInv'
  BY <1>18 DEF ListenerExit, threadVars, Goto
<1> QED
  BY <1>1, <1>2, <1>3, <1>4, <1>5, <1>6, <1>7, <1>8, <1>9, <1>10, <1>11,
     <1>12, <1>13, <1>14, <1>15, <1>16, <1>17, <1>18
  DEF Next, Step, Lookup, Update, Leave, Finished

\* A step keeps the set*Qos countdown of registerQos ahead of the calls.
LEMMA SetsStep ==
    ASSUME TypeOK, SetsInv, [Next]_vars
    PROVE  SetsInv'
<1> USE DEF TypeOK, SetsInv
<1>1. ASSUME UNCHANGED vars
      PROVE  SetsInv'
  BY <1>1 DEF vars, threadVars
<1>2. ASSUME NEW a \in Actors, NEW c \in Calls, NEW t \in Topics, Call(a, c, t)
      PROVE  SetsInv'
  BY <1>2, Entries DEF Call, threadVars, Goto, SharedHeld
<1>3. ASSUME NEW a \in Actors, LockShared(a)
      PROVE  SetsInv'
  BY <1>3, SharedSteps DEF LockShared, threadVars, Goto, SharedHeld
<1>4. ASSUME NEW a \in Actors, LockUnique(a)
      PROVE  SetsInv'
  BY <1>4, UniqueSteps DEF LockUnique, threadVars, Goto, UniqueHeld
<1>5. ASSUME NEW a \in Actors,
             RegFindSome(a) \/ QosFind(a) \/ QosCheck(a) \/ SetFind(a)
      PROVE  SetsInv'
  BY <1>5 DEF RegFindSome, UnlockShared, QosFind, QosCheck, SetFind, SetDone,
         threadVars, Goto
<1>6. ASSUME NEW a \in Actors,
             SubFind(a) \/ GetFind(a) \/ CbFind(a) \/ CbReader(a)
      PROVE  SetsInv'
  BY <1>6 DEF SubFind, GetFind, CbFind, CbReader, UnlockShared, threadVars,
         Goto
<1>7. ASSUME NEW a \in Actors,
             ReadFind(a) \/ ReadEmit(a) \/ ReadReply(a)
      PROVE  SetsInv'
  BY <1>7, ReadGoes DEF ReadFind, ReadEmit, ReadReply, UnlockShared, threadVars, Goto
<1>8. ASSUME NEW a \in Actors,
             RegCreate(a) \/ RegStore(a) \/ QosPreset(a) \/ UnregErase(a)
      PROVE  SetsInv'
  BY <1>8 DEF RegCreate, RegStore, UnlockUnique, QosPreset, UnregErase,
         threadVars, Goto
<1>9. ASSUME NEW a \in Actors,
             PubCreate(a) \/ SubStore(a) \/ CbEmitter(a) \/ CbRun(a)
      PROVE  SetsInv'
  BY <1>9 DEF PubCreate, SubStore, CbEmitter, UnlockShared, CbRun, threadVars,
         Goto
<1>10. ASSUME NEW a \in Actors,
             CleanSpawn(a) \/ CleanJoin(a) \/ CleanClear(a)
      PROVE  SetsInv'
  BY <1>10 DEF CleanSpawn, UnlockUnique, CleanJoin, CleanClear, threadVars,
         Goto
<1>11. ASSUME NEW a \in Actors,
             DropLocal(a) \/ DropLock(a) \/ DropOwner(a) \/ Return(a)
      PROVE  SetsInv'
  BY <1>11 DEF DropLocal, Release, DropLock, DropOwner, Return, threadVars,
         Goto
<1>12. ASSUME NEW a \in Actors,
             Destroy(a) \/ Join(a)
      PROVE  SetsInv'
  BY <1>12 DEF Destroy, Join, UnlockUnique, threadVars, Goto
<1>13. ASSUME NEW a \in Actors, NEW g \in Groups, RegFindNone(a, g)
      PROVE  SetsInv'
  BY <1>13 DEF RegFindNone, UnlockShared, Goto
<1>14. ASSUME NEW a \in Actors, NEW g \in Groups, SetInsert(a, g)
      PROVE  SetsInv'
  BY <1>14 DEF SetInsert, SetDone, UnlockShared, Goto
<1>15. ASSUME NEW g \in Groups, ListenerExit(g)
      PROVE  SetsInv'
  BY <1>15 DEF ListenerExit, threadVars, Goto
<1> QED
  BY <1>1, <1>2, <1>3, <1>4, <1>5, <1>6, <1>7, <1>8, <1>9, <1>10, <1>11,
     <1>12, <1>13, <1>14, <1>15
  DEF Next, Step, Lookup, Update, Leave, Finished

\* A step keeps every destructor on one thread, with a group of its own.
LEMMA DyingStep ==
    ASSUME TypeOK, DyingInv, ListenerInv, NoUseAfterFree, [Next]_vars
    PROVE  DyingInv'
<1> USE DEF TypeOK, DyingInv
<1>1. ASSUME UNCHANGED vars
      PROVE  DyingInv'
  BY <1>1 DEF vars, threadVars
<1>2. ASSUME NEW a \in Actors, NEW c \in Calls, NEW t \in Topics, Call(a, c, t)
      PROVE  DyingInv'
  BY <1>2, Entries DEF Call, threadVars, Goto, Leaving
<1>3. ASSUME NEW a \in Actors, LockShared(a)
      PROVE  DyingInv'
  BY <1>3, SharedSteps DEF LockShared, threadVars, Goto, SharedHeld,
         SharedWaits, SharedStep
<1>4. ASSUME NEW a \in Actors, LockUnique(a)
      PROVE  DyingInv'
  BY <1>4, UniqueSteps DEF LockUnique, threadVars, Goto, UniqueHeld,
         UniqueWaits, UniqueStep
<1>5. ASSUME NEW a \in Actors, RegStore(a)
      PROVE  DyingInv'
  BY <1>5 DEF RegStore, UnlockUnique, Found, InLocals, InMapElse, threadVars,
         Goto, NoUseAfterFree
<1>6. ASSUME NEW a \in Actors, CbRun(a)
      PROVE  DyingInv'
  BY <1>6, RegistryAssumption DEF CbRun, threadVars, Goto, ListenerInv,
         NoUseAfterFree
<1>7. ASSUME NEW a \in Actors, CleanSpawn(a)
      PROVE  DyingInv'
  BY <1>7 DEF CleanSpawn, UnlockUnique, threadVars, Actors
<1>8. ASSUME NEW a \in Actors, CleanClear(a)
      PROVE  DyingInv'
  BY <1>8 DEF CleanClear, InLocals, InMapElse, threadVars, Goto,
         NoUseAfterFree
<1>9. ASSUME NEW a \in Actors, DropLocal(a)
      PROVE  DyingInv'
  BY <1>9 DEF DropLocal, Release, threadVars, Goto, NoUseAfterFree
<1>10. ASSUME NEW a \in Actors, DropOwner(a)
      PROVE  DyingInv'
  <2>1. CASE UNCHANGED <<status, dying, pc>>
    BY <1>10, <2>1 DEF DropOwner
  <2>2. CASE /\ status' = [status EXCEPT ![owner[a]] = "dying"]
             /\ dying' = [dying EXCEPT ![a] = owner[a]]
             /\ Goto(a, "destroy")
    <3>1. owner[a] \in Groups /\ status[owner[a]] = "alive"
      BY <1>10 DEF DropOwner, NoUseAfterFree
    <3> QED
      BY <1>10, <2>2, <3>1 DEF DropOwner, Goto
  <2> QED
    BY <1>10, <2>1, <2>2 DEF DropOwner, Release
<1>11. ASSUME NEW a \in Actors,
             RegFindSome(a) \/ QosFind(a) \/ QosCheck(a) \/ SetFind(a)
      PROVE  DyingInv'
  BY <1>11 DEF RegFindSome, UnlockShared, Found, QosFind, QosCheck, SetFind,
         SetDone, threadVars, Goto
<1>12. ASSUME NEW a \in Actors,
             SubFind(a) \/ GetFind(a) \/ CbFind(a) \/ CbReader(a)
      PROVE  DyingInv'
  BY <1>12 DEF SubFind, Found, GetFind, CbFind, CbReader, UnlockShared,
         threadVars, Goto
<1>13. ASSUME NEW a \in Actors,
             ReadFind(a) \/ ReadEmit(a) \/ ReadReply(a)
      PROVE  DyingInv'
  BY <1>13, ReadGoes DEF ReadFind, Found, ReadEmit, ReadReply, UnlockShared, threadVars,
         Goto
<1>14. ASSUME NEW a \in Actors,
             RegCreate(a) \/ QosPreset(a) \/ UnregErase(a) \/
                    PubCreate(a)
      PROVE  DyingInv'
  BY <1>14 DEF RegCreate, QosPreset, UnregErase, UnlockUnique, Found,
         PubCreate, threadVars, Goto
<1>15. ASSUME NEW a \in Actors,
             SubStore(a) \/ CbEmitter(a) \/ CleanJoin(a)
      PROVE  DyingInv'
  BY <1>15 DEF SubStore, CbEmitter, UnlockShared, Found, CleanJoin,
         threadVars, Goto
<1>16. ASSUME NEW a \in Actors,
             DropLock(a) \/ Return(a) \/ Destroy(a) \/ Join(a)
      PROVE  DyingInv'
  BY <1>16 DEF DropLock, Return, Destroy, Join, UnlockUnique, threadVars, Goto
<1>17. ASSUME NEW a \in Actors, NEW g \in Groups, RegFindNone(a, g)
      PROVE  DyingInv'
  BY <1>17 DEF RegFindNone, IsFree, UnlockShared, Found, Goto
<1>18. ASSUME NEW a \in Actors, NEW g \in Groups, SetInsert(a, g)
      PROVE  DyingInv'
  BY <1>18 DEF SetInsert, IsFree, SetDone, UnlockShared, Found, InLocals,
         InMapElse, Goto, NoUseAfterFree
<1>19. ASSUME NEW g \in Groups, ListenerExit(g)
      PROVE  DyingInv'
  BY <1>19 DEF ListenerExit, threadVars, Goto
<1> QED
  BY <1>1, <1>2, <1>3, <1>4, <1>5, <1>6, <1>7, <1>8, <1>9, <1>10, <1>11,
     <1>12, <1>13, <1>14, <1>15, <1>16, <1>17, <1>18, <1>19
  DEF Next, Step, Lookup, Update, Leave, Finished

\* A step keeps the listener threads inside the life of their emitters: run()
\* starts one only when none is there, and the destructor joins it.
LEMMA ListenerStep ==
    ASSUME TypeOK, DyingInv, ListenerInv, NoUseAfterFree, [Next]_vars
    PROVE  ListenerInv'
<1> USE DEF TypeOK, ListenerInv, Actors
<1>1. ASSUME UNCHANGED vars
      PROVE  ListenerInv'
  BY <1>1 DEF vars, threadVars
<1>2. ASSUME NEW a \in Actors, NEW c \in Calls, NEW t \in Topics, Call(a, c, t)
      PROVE  ListenerInv'
  BY <1>2 DEF Call, threadVars, Goto
<1>3. ASSUME NEW a \in Actors, LockShared(a)
      PROVE  ListenerInv'
  BY <1>3 DEF LockShared, threadVars, Goto, SharedWaits, SharedStep
<1>4. ASSUME NEW a \in Actors, LockUnique(a)
      PROVE  ListenerInv'
  BY <1>4 DEF LockUnique, threadVars, Goto, UniqueWaits, UniqueStep
<1>5. ASSUME NEW a \in Actors, RegCreate(a)
      PROVE  ListenerInv'
  <2>1. \A g \in Groups : group'[g].emitter = group[g].emitter
    BY <1>5 DEF RegCreate, Group
  <2>2. pc[a] # "off" /\ \A b \in Actors : b # a => pc'[b] = pc[b]
    BY <1>5 DEF RegCreate, Goto
  <2> QED
    BY <1>5, <2>1, <2>2 DEF RegCreate
<1>6. ASSUME NEW a \in Actors, QosPreset(a)
      PROVE  ListenerInv'
  BY <1>6 DEF QosPreset, threadVars, Goto
<1>7. ASSUME NEW a \in Actors, PubCreate(a)
      PROVE  ListenerInv'
  <2>1. \A g \in Groups : group'[g].emitter = group[g].emitter
    BY <1>7 DEF PubCreate, Group
  <2>2. pc[a] # "off" /\ \A b \in Actors : b # a => pc'[b] = pc[b]
    BY <1>7 DEF PubCreate, Goto
  <2> QED
    BY <1>7, <2>1, <2>2 DEF PubCreate
<1>8. ASSUME NEW a \in Actors, SubStore(a)
      PROVE  ListenerInv'
  <2>1. \A g \in Groups : group'[g].emitter = group[g].emitter
    BY <1>8 DEF SubStore, Group
  <2>2. pc[a] # "off" /\ \A b \in Actors : b # a => pc'[b] = pc[b]
    BY <1>8 DEF SubStore, Goto
  <2> QED
    BY <1>8, <2>1, <2>2 DEF SubStore
<1>9. ASSUME NEW a \in Actors, CbEmitter(a)
      PROVE  ListenerInv'
  BY <1>9 DEF CbEmitter, UnlockShared, Found, threadVars, Goto
<1>10. ASSUME NEW a \in Actors, CbRun(a)
      PROVE  ListenerInv'
  <2>1. CASE UNCHANGED group /\ Goto(a, "return")
    BY <1>10, <2>1 DEF CbRun, Goto
  <2>2. CASE /\ group' = [group EXCEPT ![local[a]].emitter = "running"]
             /\ pc' = [pc EXCEPT ![a] = "return", ![local[a]] = "idle"]
    <3>1. \A g \in Groups : g # local[a] => group'[g] = group[g]
      BY <2>2
    <3>2. local[a] \in Groups => group'[local[a]].emitter = "running"
      BY <2>2 DEF Group
    <3> QED
      BY <1>10, <2>2, <3>1, <3>2 DEF CbRun
  <2> QED
    BY <1>10, <2>1, <2>2 DEF CbRun
<1>11. ASSUME NEW a \in Actors, CleanSpawn(a)
      PROVE  ListenerInv'
  BY <1>11, RegistryAssumption DEF CleanSpawn, UnlockUnique, threadVars
<1>12. ASSUME NEW a \in Actors, Destroy(a)
      PROVE  ListenerInv'
  <2>1. \A g \in Groups : status[g] # "dying" => group'[g] = group[g]
    BY <1>12, RegistryAssumption DEF Destroy, DyingInv
  <2> QED
    BY <1>12, <2>1 DEF Destroy, Goto
<1>13. ASSUME NEW a \in Actors,
             RegFindSome(a) \/ QosFind(a) \/ QosCheck(a) \/ SetFind(a)
      PROVE  ListenerInv'
  BY <1>13 DEF RegFindSome, UnlockShared, Found, QosFind, QosCheck, SetFind,
         SetDone, threadVars, Goto
<1>14. ASSUME NEW a \in Actors,
             SubFind(a) \/ GetFind(a) \/ CbFind(a) \/ CbReader(a)
      PROVE  ListenerInv'
  BY <1>14 DEF SubFind, Found, GetFind, CbFind, CbReader, UnlockShared,
         threadVars, Goto
<1>15. ASSUME NEW a \in Actors,
             ReadFind(a) \/ ReadEmit(a) \/ ReadReply(a)
      PROVE  ListenerInv'
  BY <1>15, ReadGoes DEF ReadFind, Found, ReadEmit, ReadReply, UnlockShared, threadVars,
         Goto
<1>16. ASSUME NEW a \in Actors,
             RegStore(a) \/ UnregErase(a) \/ CleanJoin(a) \/
                    CleanClear(a)
      PROVE  ListenerInv'
  BY <1>16 DEF RegStore, UnlockUnique, Found, InLocals, InMapElse, UnregErase,
         CleanJoin, CleanClear, threadVars, Goto
<1>17. ASSUME NEW a \in Actors,
             DropLocal(a) \/ DropLock(a) \/ DropOwner(a) \/ Return(a)
      PROVE  ListenerInv'
  BY <1>17 DEF DropLocal, Release, DropLock, DropOwner, Return, threadVars,
         Goto
<1>18. ASSUME NEW a \in Actors, Join(a)
      PROVE  ListenerInv'
  BY <1>18 DEF Join, UnlockUnique, threadVars, Goto
<1>19. ASSUME NEW a \in Actors, NEW g \in Groups, RegFindNone(a, g)
      PROVE  ListenerInv'
  BY <1>19 DEF RegFindNone, IsFree, UnlockShared, Found, Goto, NoUseAfterFree,
         NewGroup
<1>20. ASSUME NEW a \in Actors, NEW g \in Groups, SetInsert(a, g)
      PROVE  ListenerInv'
  BY <1>20 DEF SetInsert, IsFree, SetDone, UnlockShared, Found, InLocals,
         InMapElse, Goto, NoUseAfterFree, NewGroup
<1>21. ASSUME NEW g \in Groups, ListenerExit(g)
      PROVE  ListenerInv'
  BY <1>21 DEF ListenerExit, threadVars, Goto
<1> QED
  BY <1>1, <1>2, <1>3, <1>4, <1>5, <1>6, <1>7, <1>8, <1>9, <1>10, <1>11,
     <1>12, <1>13, <1>14, <1>15, <1>16, <1>17, <1>18, <1>19, <1>20, <1>21
  DEF Next, Step, Lookup, Update, Leave, Finished

\* A step leaves no pointer to a group that dies: the count of owners in the
\* map, in registerTopic's topicGroup and in the other calls' locals is exact.
LEMMA AliveStep ==
    ASSUME TypeOK, DyingInv, ListenerInv, NoUseAfterFree, [Next]_vars
    PROVE  NoUseAfterFree'
<1> USE DEF TypeOK, NoUseAfterFree, Actors
<1>1. ASSUME UNCHANGED vars
      PROVE  NoUseAfterFree'
  BY <1>1 DEF vars, threadVars
<1>2. ASSUME NEW a \in Actors, NEW c \in Calls, NEW t \in Topics, Call(a, c, t)
      PROVE  NoUseAfterFree'
  BY <1>2 DEF Call, threadVars, Goto
<1>3. ASSUME NEW a \in Actors, LockShared(a)
      PROVE  NoUseAfterFree'
  BY <1>3 DEF LockShared, threadVars, Goto, SharedWaits, SharedStep
<1>4. ASSUME NEW a \in Actors, LockUnique(a)
      PROVE  NoUseAfterFree'
  BY <1>4 DEF LockUnique, threadVars, Goto, UniqueWaits, UniqueStep
<1>5. ASSUME NEW a \in Actors, CbRun(a)
      PROVE  NoUseAfterFree'
  <2>1. CASE UNCHANGED group /\ Goto(a, "return")
    BY <1>5, <2>1 DEF CbRun, threadVars, Goto
  <2>2. CASE pc' = [pc EXCEPT ![a] = "return", ![local[a]] = "idle"]
    <3>1. \A g \in Groups : pc'[g] # "off" => pc[g] # "off" \/ g = local[a]
      BY <1>5, <2>2 DEF CbRun
    <3>2. \A g \in Groups : g = local[a] => status[g] = "alive"
      BY RegistryAssumption
    <3> QED
      BY <1>5, <3>1, <3>2 DEF CbRun, threadVars
  <2> QED
    BY <1>5, <2>1, <2>2 DEF CbRun
<1>6. ASSUME NEW a \in Actors, CleanSpawn(a)
      PROVE  NoUseAfterFree'
  BY <1>6, RegistryAssumption DEF CleanSpawn, UnlockUnique, threadVars
<1>7. ASSUME NEW a \in Actors, Join(a)
      PROVE  NoUseAfterFree'
  BY <1>7 DEF Join, UnlockUnique, threadVars, Goto, DyingInv
<1>8. ASSUME NEW a \in Actors,
             RegFindSome(a) \/ QosFind(a) \/ QosCheck(a) \/ SetFind(a)
      PROVE  NoUseAfterFree'
  BY <1>8 DEF RegFindSome, UnlockShared, Found, QosFind, QosCheck, SetFind,
         SetDone, threadVars, Goto
<1>9. ASSUME NEW a \in Actors,
             SubFind(a) \/ GetFind(a) \/ CbFind(a) \/ CbReader(a)
      PROVE  NoUseAfterFree'
  BY <1>9 DEF SubFind, Found, GetFind, CbFind, CbReader, UnlockShared,
         threadVars, Goto
<1>10. ASSUME NEW a \in Actors,
             ReadFind(a) \/ ReadEmit(a) \/ ReadReply(a)
      PROVE  NoUseAfterFree'
  BY <1>10, ReadGoes DEF ReadFind, Found, ReadEmit, ReadReply, UnlockShared, threadVars,
         Goto
<1>11. ASSUME NEW a \in Actors,
             RegCreate(a) \/ RegStore(a) \/ QosPreset(a) \/ UnregErase(a)
      PROVE  NoUseAfterFree'
  BY <1>11 DEF RegCreate, RegStore, UnlockUnique, Found, InLocals, InMapElse,
         QosPreset, UnregErase, threadVars, Goto
<1>12. ASSUME NEW a \in Actors,
             PubCreate(a) \/ SubStore(a) \/ CbEmitter(a) \/ CleanJoin(a)
      PROVE  NoUseAfterFree'
  BY <1>12 DEF PubCreate, Found, SubStore, CbEmitter, UnlockShared, CleanJoin,
         threadVars, Goto
<1>13. ASSUME NEW a \in Actors, CleanClear(a)
      PROVE  NoUseAfterFree'
  BY <1>13 DEF CleanClear, InLocals, InMapElse, threadVars, Goto
<1>14. ASSUME NEW a \in Actors,
             DropLocal(a) \/ DropLock(a) \/ DropOwner(a) \/ Return(a)
      PROVE  NoUseAfterFree'
  BY <1>14 DEF DropLocal, Release, DropLock, DropOwner, Return, threadVars,
         Goto
<1>15. ASSUME NEW a \in Actors, Destroy(a)
      PROVE  NoUseAfterFree'
  BY <1>15 DEF Destroy, threadVars, Goto
<1>16. ASSUME NEW a \in Actors, NEW g \in Groups, RegFindNone(a, g)
      PROVE  NoUseAfterFree'
  BY <1>16 DEF RegFindNone, IsFree, UnlockShared, Found, Goto
<1>17. ASSUME NEW a \in Actors, NEW g \in Groups, SetInsert(a, g)
      PROVE  NoUseAfterFree'
  BY <1>17 DEF SetInsert, IsFree, SetDone, UnlockShared, Found, InLocals,
         InMapElse, Goto
<1>18. ASSUME NEW g \in Groups, ListenerExit(g)
      PROVE  NoUseAfterFree'
  BY <1>18 DEF ListenerExit, threadVars, Goto
<1> QED
  BY <1>1, <1>2, <1>3, <1>4, <1>5, <1>6, <1>7, <1>8, <1>9, <1>10, <1>11,
     <1>12, <1>13, <1>14, <1>15, <1>16, <1>17, <1>18
  DEF Next, Step, Lookup, Update, Leave, Finished

\* A step of one thread takes no entry away that another one found under the
\* shared lock: that needs the exclusive mode.
LEMMA LookupStep ==
    ASSUME TypeOK, LockInv, SetsInv, LookupStable, [Next]_vars
    PROVE  LookupStable'
<1> USE DEF LookupStable, TypeOK, Found, LockInv, SharedHeld, UniqueHeld, Nested
<1>1. ASSUME UNCHANGED vars
      PROVE  LookupStable'
  BY <1>1 DEF vars, threadVars
<1>2. ASSUME NEW a \in Actors, NEW c \in Calls, NEW t \in Topics, Call(a, c, t)
      PROVE  LookupStable'
  BY <1>2, Entries DEF Call, threadVars, Goto
<1>3. ASSUME NEW a \in Actors, LockShared(a)
      PROVE  LookupStable'
  BY <1>3, SharedSteps DEF LockShared, threadVars, Goto, SharedWaits
<1>4. ASSUME NEW a \in Actors, LockUnique(a)
      PROVE  LookupStable'
  BY <1>4, UniqueSteps DEF LockUnique, threadVars, Goto, UniqueHeld
<1>5. ASSUME NEW a \in Actors, RegStore(a)
      PROVE  LookupStable'
  BY <1>5, RegistryAssumption DEF RegStore, UnlockUnique, threadVars, Goto
<1>6. ASSUME NEW a \in Actors, UnregErase(a)
      PROVE  LookupStable'
  BY <1>6, RegistryAssumption DEF UnregErase, UnlockUnique, threadVars, Goto
<1>7. ASSUME NEW a \in Actors, CleanSpawn(a)
      PROVE  LookupStable'
  BY <1>7, RegistryAssumption DEF CleanSpawn, UnlockUnique, threadVars, Actors
<1>8. ASSUME NEW a \in Actors, CleanClear(a)
      PROVE  LookupStable'
  BY <1>8, RegistryAssumption DEF CleanClear, threadVars, Goto
<1>9. ASSUME NEW a \in Actors,
             RegFindSome(a) \/ QosFind(a) \/ QosCheck(a) \/ SetFind(a)
      PROVE  LookupStable'
  BY <1>9 DEF RegFindSome, UnlockShared, QosFind, QosCheck, SetFind, SetDone,
         threadVars, Goto
<1>10. ASSUME NEW a \in Actors,
             SubFind(a) \/ GetFind(a) \/ CbFind(a) \/ CbReader(a)
      PROVE  LookupStable'
  BY <1>10 DEF SubFind, GetFind, CbFind, CbReader, UnlockShared, threadVars,
         Goto
<1>11. ASSUME NEW a \in Actors,
             ReadFind(a) \/ ReadEmit(a) \/ ReadReply(a)
      PROVE  LookupStable'
  BY <1>11, ReadGoes DEF ReadFind, ReadEmit, ReadReply, UnlockShared, threadVars, Goto
<1>12. ASSUME NEW a \in Actors,
             RegCreate(a) \/ QosPreset(a) \/ PubCreate(a) \/ SubStore(a)
      PROVE  LookupStable'
  BY <1>12 DEF RegCreate, QosPreset, PubCreate, SubStore, threadVars, Goto
<1>13. ASSUME NEW a \in Actors,
             CbEmitter(a) \/ CbRun(a) \/ CleanJoin(a)
      PROVE  LookupStable'
  BY <1>13 DEF CbEmitter, UnlockShared, CbRun, CleanJoin, threadVars, Goto
<1>14. ASSUME NEW a \in Actors,
             DropLocal(a) \/ DropLock(a) \/ DropOwner(a) \/ Return(a)
      PROVE  LookupStable'
  BY <1>14 DEF DropLocal, Release, DropLock, DropOwner, Return, threadVars,
         Goto
<1>15. ASSUME NEW a \in Actors,
             Destroy(a) \/ Join(a)
      PROVE  LookupStable'
  BY <1>15 DEF Destroy, Join, UnlockUnique, threadVars, Goto
<1>16. ASSUME NEW a \in Actors, NEW g \in Groups, RegFindNone(a, g)
      PROVE  LookupStable'
  BY <1>16 DEF RegFindNone, IsFree, UnlockShared, Goto
<1>17. ASSUME NEW a \in Actors, NEW g \in Groups, SetInsert(a, g)
      PROVE  LookupStable'
  BY SMTT(30), <1>17, RegistryAssumption DEF SetInsert, IsFree, SetDone, UnlockShared,
         Goto, Actors
<1>18. ASSUME NEW g \in Groups, ListenerExit(g)
      PROVE  LookupStable'
  BY <1>18 DEF ListenerExit, threadVars, Goto
<1> QED
  BY <1>1, <1>2, <1>3, <1>4, <1>5, <1>6, <1>7, <1>8, <1>9, <1>10, <1>11,
     <1>12, <1>13, <1>14, <1>15, <1>16, <1>17, <1>18
  DEF Next, Step, Lookup, Update, Leave, Finished

-----------------------------------------------------------------------------
(* The theorems.                                                           *)

\* The manager starts in the inductive invariant.
LEMMA InitInv == Init => IInv
<1> SUFFICES ASSUME Init PROVE IInv
  OBVIOUS
<1>1. TypeOK
  <2>1. \A a \in Actors : callsLeft[a] \in Nat
    BY RegistryAssumption DEF Init
  <2>2. group \in [Groups -> Group]
    BY DEF Init, Group, NewGroup
  <2>3. pc \in [Actors -> PCs]
    BY PcNames DEF Init
  <2>4. callsLeft \in [Actors -> Nat]
    BY <2>1 DEF Init
  <2> QED
    BY <2>2, <2>3, <2>4 DEF Init, TypeOK
<1>2. \A a \in Actors : pc[a] \in {"idle", "off"}
  BY DEF Init
<1>3. LockInv
  BY <1>2 DEF Init, LockInv, UniqueHeld, SharedHeld, Nested, Leaving
<1>4. SetsInv /\ DyingInv /\ LookupStable
  BY <1>2 DEF Init, SetsInv, DyingInv, LookupStable
<1>5. ListenerInv /\ NoUseAfterFree
  BY RegistryAssumption DEF Init, ListenerInv, NoUseAfterFree, Actors
<1> QED
  BY <1>1, <1>3, <1>4, <1>5 DEF IInv

\* Every step of every thread keeps the inductive invariant.
LEMMA NextInv == IInv /\ [Next]_vars => IInv'
  BY TypeStep, LockStep, SetsStep, DyingStep, ListenerStep, AliveStep, LookupStep
  DEF IInv

\* The inductive invariant holds in every reachable state: the mutex protocol,
\* the countdowns, the destructors, the listener threads and the pointers.
THEOREM Invariance == Spec => []IInv
  BY InitInv, NextInv, PTL DEF Spec

\* Every variable keeps its type; in particular no thread ever holds more than
\* two shared locks, the one of addCallback or readCallbacks and the nested one.
THEOREM TypeCorrect == Spec => []TypeOK
<1>1. IInv => TypeOK
  BY DEF IInv
<1> QED
  BY <1>1, Invariance, PTL

\* The shared_ptr copies that registerTopic, registerQos, unregisterTopic,
\* addCallback and readCallbacks take are enough: no call, and no listener
\* thread, ever works on a TopicGroup that has begun to be destroyed.
THEOREM GroupsOutliveTheirUsers == Spec => []NoUseAfterFree
<1>1. IInv => NoUseAfterFree
  BY DEF IInv
<1> QED
  BY <1>1, Invariance, PTL

\* What a call found in the map under the shared lock is still there when it
\* uses it, even when it has acquired the lock a second time in between.
THEOREM LookupsStayValid == Spec => []LookupStable
<1>1. IInv => LookupStable
  BY DEF IInv
<1> QED
  BY <1>1, Invariance, PTL

\* An entry leaves the map only in a step of the exclusive holder.
LEMMA EraseStepHolds ==
    ASSUME TypeOK, LockInv, [Next]_vars
    PROVE  EraseStep
<1> USE DEF TypeOK, LockInv, EraseStep, UniqueHeld, Actors
<1>1. ASSUME UNCHANGED vars
      PROVE  EraseStep
  BY <1>1 DEF vars, threadVars
<1>2. ASSUME NEW a \in Actors, NEW c \in Calls, NEW t \in Topics, Call(a, c, t)
      PROVE  EraseStep
  BY <1>2 DEF Call, threadVars, Goto
<1>3. ASSUME NEW a \in Actors, LockShared(a)
      PROVE  EraseStep
  BY <1>3 DEF LockShared, threadVars, Goto
<1>4. ASSUME NEW a \in Actors, LockUnique(a)
      PROVE  EraseStep
  BY <1>4 DEF LockUnique, threadVars, Goto
<1>5. ASSUME NEW a \in Actors, RegStore(a)
      PROVE  EraseStep
  BY <1>5, RegistryAssumption DEF RegStore, UnlockUnique, threadVars, Goto
<1>6. ASSUME NEW a \in Actors, UnregErase(a)
      PROVE  EraseStep
  BY <1>6, RegistryAssumption DEF UnregErase, UnlockUnique, threadVars, Goto
<1>7. ASSUME NEW a \in Actors, CleanClear(a)
      PROVE  EraseStep
  BY <1>7, RegistryAssumption DEF CleanClear, threadVars, Goto
<1>8. ASSUME NEW a \in Actors,
             RegFindSome(a) \/ QosFind(a) \/ QosCheck(a) \/ SetFind(a)
      PROVE  EraseStep
  BY <1>8 DEF RegFindSome, UnlockShared, QosFind, QosCheck, SetFind, SetDone,
         threadVars, Goto
<1>9. ASSUME NEW a \in Actors,
             SubFind(a) \/ GetFind(a) \/ CbFind(a) \/ CbReader(a)
      PROVE  EraseStep
  BY <1>9 DEF SubFind, GetFind, CbFind, CbReader, UnlockShared, threadVars,
         Goto
<1>10. ASSUME NEW a \in Actors,
             ReadFind(a) \/ ReadEmit(a) \/ ReadReply(a)
      PROVE  EraseStep
  BY <1>10, ReadGoes DEF ReadFind, ReadEmit, ReadReply, UnlockShared, threadVars, Goto
<1>11. ASSUME NEW a \in Actors,
             RegCreate(a) \/ QosPreset(a) \/ PubCreate(a) \/ SubStore(a)
      PROVE  EraseStep
  BY <1>11 DEF RegCreate, QosPreset, PubCreate, SubStore, threadVars, Goto
<1>12. ASSUME NEW a \in Actors,
             CbEmitter(a) \/ CbRun(a) \/ CleanSpawn(a) \/ CleanJoin(a)
      PROVE  EraseStep
  BY <1>12 DEF CbEmitter, UnlockShared, CbRun, CleanSpawn, UnlockUnique,
         CleanJoin, threadVars, Goto
<1>13. ASSUME NEW a \in Actors,
             DropLocal(a) \/ DropLock(a) \/ DropOwner(a) \/ Return(a)
      PROVE  EraseStep
  BY <1>13 DEF DropLocal, Release, DropLock, DropOwner, Return, threadVars,
         Goto
<1>14. ASSUME NEW a \in Actors,
             Destroy(a) \/ Join(a)
      PROVE  EraseStep
  BY <1>14 DEF Destroy, Join, UnlockUnique, threadVars, Goto
<1>15. ASSUME NEW a \in Actors, NEW g \in Groups, RegFindNone(a, g)
      PROVE  EraseStep
  BY <1>15 DEF RegFindNone, IsFree, UnlockShared, Goto
<1>16. ASSUME NEW a \in Actors, NEW g \in Groups, SetInsert(a, g)
      PROVE  EraseStep
  BY <1>16, RegistryAssumption DEF SetInsert, IsFree, SetDone, UnlockShared,
         Goto
<1>17. ASSUME NEW g \in Groups, ListenerExit(g)
      PROVE  EraseStep
  BY <1>17 DEF ListenerExit, threadVars, Goto
<1> QED
  BY <1>1, <1>2, <1>3, <1>4, <1>5, <1>6, <1>7, <1>8, <1>9, <1>10, <1>11,
     <1>12, <1>13, <1>14, <1>15, <1>16, <1>17
  DEF Next, Step, Lookup, Update, Leave, Finished

\* An entry leaves m_topics only in the exclusive mode of m_topicMutex, in
\* unregisterTopic and in the clear() of the shutdown.
THEOREM ErasesAreExclusive == Spec => EraseExclusive
<1>1. IInv /\ [Next]_vars => [EraseStep]_vars
  BY EraseStepHolds DEF IInv
<1> QED
  BY <1>1, Invariance, PTL DEF Spec, EraseExclusive

\* What one step may do to a callback that waits for the exclusive lock inside
\* readCallbacks.
HangStep ==
    \A a \in Actors : pc[a] \in {"read_create", "read_erase"} => pc'[a] = pc[a]

LEMMA HangStepHolds == ASSUME IInv, [Next]_vars PROVE HangStep
<1> USE DEF HangStep
<1>0. TypeOK /\ LockInv /\ ListenerInv /\ NoUseAfterFree /\ NoGroup \notin Groups
  BY RegistryAssumption DEF IInv, Actors
\* A step of a thread that is elsewhere.
<1>1. ASSUME NEW a \in Actors, NEW p, Goto(a, p),
             pc[a] \notin {"read_create", "read_erase"}
      PROVE  HangStep
  BY <1>0, <1>1 DEF Goto, TypeOK
<1>2. ASSUME UNCHANGED pc PROVE HangStep
  BY <1>2
<1>3. ASSUME UNCHANGED vars PROVE HangStep
  BY <1>3 DEF vars
<1>4. ASSUME NEW a \in Actors, NEW c \in Calls, NEW t \in Topics, Call(a, c, t)
      PROVE  HangStep
  BY <1>1, <1>4 DEF Call
<1>5. ASSUME NEW a \in Actors, LockShared(a)
      PROVE  HangStep
  BY <1>1, <1>5 DEF LockShared, SharedWaits, SharedStep
<1>6. ASSUME NEW a \in Actors, LockUnique(a)
      PROVE  HangStep
  <2>1. pc[a] \notin {"read_create", "read_erase"}
    BY <1>0, <1>6, NoUpgrade DEF SharedHeld
  <2> QED
    BY <1>1, <1>6, <2>1 DEF LockUnique
<1>7. ASSUME NEW a \in Actors, Lookup(a)
      PROVE  HangStep
  <2>1. PICK p : Goto(a, p)
    BY <1>7, ReadGoes DEF Lookup, RegFindSome, QosFind, QosCheck, SetFind, SetDone,
       SubFind, GetFind, CbFind, CbReader, ReadFind, ReadReply
  <2>2. pc[a] \notin {"read_create", "read_erase"}
    BY <1>7 DEF Lookup, RegFindSome, QosFind, QosCheck, SetFind, SubFind, GetFind,
       CbFind, CbReader, ReadFind, ReadEmit, ReadReply
  <2> QED
    BY <1>1, <2>1, <2>2
<1>8. ASSUME NEW a \in Actors,
             \/ \E g \in Groups : RegFindNone(a, g) \/ SetInsert(a, g)
             \/ RegCreate(a) \/ RegStore(a) \/ QosPreset(a) \/ UnregErase(a)
             \/ PubCreate(a) \/ SubStore(a) \/ CbEmitter(a) \/ CleanJoin(a)
      PROVE  HangStep
  <2>1. PICK p : Goto(a, p)
    BY <1>8 DEF RegFindNone, SetInsert, SetDone, RegCreate, RegStore, QosPreset,
       UnregErase, PubCreate, SubStore, CbEmitter, CleanJoin
  <2>2. pc[a] \notin {"read_create", "read_erase"}
    BY <1>8 DEF RegFindNone, SetInsert, RegCreate, RegStore, QosPreset, UnregErase,
       PubCreate, SubStore, CbEmitter, CleanJoin
  <2> QED
    BY <1>1, <2>1, <2>2
<1>9. ASSUME NEW a \in Actors, CbRun(a)
      PROVE  HangStep
  <2>1. CASE Goto(a, "return")
    BY <1>1, <1>9, <2>1 DEF CbRun
  <2>2. CASE /\ group[local[a]].emitter = "queued"
             /\ pc' = [pc EXCEPT ![a] = "return", ![local[a]] = "idle"]
    <3>1. local[a] \in Groups => pc[local[a]] = "off"
      BY <1>0, <2>2 DEF NoUseAfterFree, ListenerInv
    <3>2. local[a] \in Groups \cup {NoGroup}
      BY <1>0 DEF TypeOK
    <3>3. NoGroup \notin Actors
      BY RegistryAssumption
    <3> QED
      BY <1>0, <1>9, <2>2, <3>1, <3>2, <3>3 DEF CbRun, TypeOK
  <2> QED
    BY <1>9, <2>1, <2>2 DEF CbRun
<1>10. ASSUME NEW a \in Actors, CleanSpawn(a)
       PROVE  HangStep
  BY <1>0, <1>10 DEF CleanSpawn, TypeOK
<1>11. ASSUME NEW a \in Actors, CleanClear(a)
       PROVE  HangStep
  BY <1>1, <1>2, <1>11 DEF CleanClear
<1>12. ASSUME NEW a \in Actors, Leave(a)
       PROVE  HangStep
  <2>1. UNCHANGED pc \/ \E p : Goto(a, p)
    BY <1>12 DEF Leave, DropLocal, DropLock, DropOwner, Return, Destroy, Join, Release
  <2>2. pc[a] \notin {"read_create", "read_erase"}
    BY <1>12 DEF Leave, DropLocal, DropLock, DropOwner, Return, Destroy, Join
  <2> QED
    BY <1>1, <1>2, <2>1, <2>2
<1>13. ASSUME NEW g \in Groups, ListenerExit(g)
       PROVE  HangStep
  BY <1>1, <1>13 DEF ListenerExit, Actors
<1> QED
  BY <1>3, <1>4, <1>5, <1>6, <1>7, <1>8, <1>9, <1>10, <1>11, <1>12, <1>13
  DEF Next, Step, Update, Finished

\* A callback that readCallbacks runs and that calls createPublisher or
\* unregisterTopic waits for ever: its own thread has the shared lock and never
\* gets to give it back.
THEOREM CallbacksNeverUpgrade == Spec => [][HangStep]_vars
<1>1. IInv /\ [Next]_vars => [HangStep]_vars
  BY HangStepHolds
<1> QED
  BY <1>1, Invariance, PTL DEF Spec

=============================================================================
