--------------------------- MODULE TopicMapProofs ---------------------------
(***************************************************************************)
(* TopicRegistry implements TopicMap, for any number of threads, topics,   *)
(* groups and calls: every step is an operation on the abstract map or     *)
(* leaves it as it is.                                                     *)
(***************************************************************************)
EXTENDS TopicRegistryProofs

-----------------------------------------------------------------------------
(* Where a call has its pointers.                                          *)

\* Steps in which registerTopic has its topicGroup, in which the other calls
\* have theirs: at every other step the variable is not in scope.
OwnerInScope ==
    { "reg_create", "reg_rewait", "reg_store", "qos_wait", "qos_find",
      "qos_check", "set_wait", "set_find", "set_insert", "qos_rewait",
      "qos_preset", "return", "destroy", "join" }

LocalInScope ==
    { "qos_check", "set_wait", "set_find", "set_insert", "qos_rewait",
      "qos_preset", "sub_store", "cb_run", "read_emit", "read_rewait",
      "read_reply", "read_create", "read_erase", "return", "destroy", "join" }

\* The third part is about a destructor that runs inside a store of
\* registerTopic or a clear(), and comes back there; the last two say where the
\* pointers of registerTopic and of a running destructor are not null.
ScopeInv ==
    \A a \in Actors :
        /\ pc[a] \notin OwnerInScope => owner[a] = NoGroup
        /\ pc[a] \notin LocalInScope => local[a] = NoGroup
        /\ pc[a] \in {"destroy", "join"} /\ unique = a => local[a] = NoGroup
        /\ pc[a] \in {"reg_create", "reg_rewait", "reg_store"} => owner[a] # NoGroup
        /\ pc[a] \in {"destroy", "join"} => dying[a] # NoGroup

\* Acquiring the mutex brings no pointer into scope and takes none away.  (A
\* thread that holds it in shared mode never acquires it exclusively.)
LEMMA ScopeOfLocks ==
    /\ \A p \in SharedWaits :
          /\ SharedStep[p] \in OwnerInScope <=> p \in OwnerInScope
          /\ SharedStep[p] \in LocalInScope <=> p \in LocalInScope
          /\ SharedStep[p] \notin {"destroy", "join", "reg_create", "reg_rewait",
                                   "reg_store"}
    /\ \A p \in UniqueWaits \ SharedHeld :
          /\ UniqueStep[p] \in OwnerInScope <=> p \in OwnerInScope
          /\ UniqueStep[p] \in LocalInScope <=> p \in LocalInScope
          /\ UniqueStep[p] \notin {"destroy", "join", "reg_create", "reg_rewait"}
          /\ UniqueStep[p] = "reg_store" => p = "reg_rewait"
  BY DEF SharedWaits, SharedStep, UniqueWaits, UniqueStep, SharedHeld,
         OwnerInScope, LocalInScope

LEMMA ScopeOfEntries ==
    \A c \in Calls :
        Entry[c] \notin {"destroy", "join", "reg_create", "reg_rewait", "reg_store"}
  BY DEF Calls, Entry

\* A step keeps every pointer in its scope.
LEMMA ScopeStep ==
    ASSUME TypeOK, LockInv, ListenerInv, NoUseAfterFree, ScopeInv, [Next]_vars
    PROVE  ScopeInv'
<1> USE DEF TypeOK, ScopeInv, OwnerInScope, LocalInScope
<1>1. ASSUME UNCHANGED vars
      PROVE  ScopeInv'
  BY <1>1 DEF vars, threadVars
<1>2. ASSUME NEW a \in Actors, NEW c \in Calls, NEW t \in Topics, Call(a, c, t)
      PROVE  ScopeInv'
  BY <1>2, ScopeOfEntries DEF Call, Goto
<1>3. ASSUME NEW a \in Actors, LockShared(a)
      PROVE  ScopeInv'
  BY <1>3, ScopeOfLocks DEF LockShared, threadVars, Goto
<1>4. ASSUME NEW a \in Actors, LockUnique(a)
      PROVE  ScopeInv'
  <2>1. pc[a] \in UniqueWaits \ SharedHeld
    BY <1>4, NoUpgrade
  <2> QED
    BY <1>4, <2>1, ScopeOfLocks DEF LockUnique, threadVars, Goto
<1>5. ASSUME NEW a \in Actors,
             RegFindSome(a) \/ QosFind(a) \/ QosCheck(a) \/ SetFind(a)
      PROVE  ScopeInv'
  BY <1>5 DEF RegFindSome, UnlockShared, QosFind, QosCheck, SetFind, SetDone,
         threadVars, Goto
<1>6. ASSUME NEW a \in Actors,
             SubFind(a) \/ GetFind(a) \/ CbFind(a) \/ CbReader(a)
      PROVE  ScopeInv'
  BY <1>6 DEF SubFind, GetFind, CbFind, CbReader, UnlockShared, threadVars,
         Goto
<1>7. ASSUME NEW a \in Actors,
             ReadFind(a) \/ ReadEmit(a) \/ ReadReply(a)
      PROVE  ScopeInv'
  BY <1>7, ReadGoes DEF ReadFind, ReadEmit, ReadReply, UnlockShared, threadVars, Goto
<1>8. ASSUME NEW a \in Actors,
             RegCreate(a) \/ QosPreset(a) \/ PubCreate(a) \/ SubStore(a)
      PROVE  ScopeInv'
  BY <1>8 DEF RegCreate, QosPreset, PubCreate, SubStore, threadVars, Goto
<1>9. ASSUME NEW a \in Actors, RegStore(a)
      PROVE  ScopeInv'
  BY <1>9, RegistryAssumption DEF RegStore, UnlockUnique, Goto
<1>10. ASSUME NEW a \in Actors, UnregErase(a)
       PROVE  ScopeInv'
  BY <1>10, RegistryAssumption DEF UnregErase, UnlockUnique, Goto
<1>11. ASSUME NEW a \in Actors, CbEmitter(a) \/ CleanJoin(a)
       PROVE  ScopeInv'
  BY <1>11 DEF CbEmitter, UnlockShared, CleanJoin, threadVars, Goto
<1>12. ASSUME NEW a \in Actors, CbRun(a)
       PROVE  ScopeInv'
  <2>1. CASE Goto(a, "return")
    BY <1>12, <2>1 DEF CbRun, threadVars, Goto
  <2>2. CASE /\ group[local[a]].emitter = "queued"
             /\ pc' = [pc EXCEPT ![a] = "return", ![local[a]] = "idle"]
    <3>1. local[a] # NoGroup => local[a] \in Groups /\ pc[local[a]] = "off"
      BY <1>12, <2>2 DEF ListenerInv, NoUseAfterFree
    <3>2. local[a] = NoGroup => local[a] \notin Actors
      BY RegistryAssumption
    <3> QED
      BY <1>12, <2>2, <3>1, <3>2 DEF CbRun, threadVars, Actors
  <2> QED
    BY <1>12, <2>1, <2>2 DEF CbRun
<1>13. ASSUME NEW a \in Actors, CleanSpawn(a)
       PROVE  ScopeInv'
  BY <1>13, RegistryAssumption DEF CleanSpawn, UnlockUnique, Actors
<1>14. ASSUME NEW a \in Actors, CleanClear(a)
       PROVE  ScopeInv'
  BY <1>14 DEF CleanClear, Goto
<1>15. ASSUME NEW a \in Actors, DropLocal(a) \/ DropOwner(a)
       PROVE  ScopeInv'
  BY <1>15 DEF DropLocal, Release, DropOwner, Goto
<1>16. ASSUME NEW a \in Actors, DropLock(a) \/ Return(a)
       PROVE  ScopeInv'
  BY <1>16, RegistryAssumption DEF DropLock, Return, threadVars, Goto
<1>17. ASSUME NEW a \in Actors, Destroy(a)
       PROVE  ScopeInv'
  BY <1>17 DEF Destroy, threadVars, Goto
<1>18. ASSUME NEW a \in Actors, Join(a)
       PROVE  ScopeInv'
  BY <1>18, RegistryAssumption DEF Join, UnlockUnique, Goto
<1>19. ASSUME NEW a \in Actors, NEW g \in Groups, RegFindNone(a, g)
       PROVE  ScopeInv'
  BY <1>19, RegistryAssumption DEF RegFindNone, UnlockShared, Goto, Actors
<1>20. ASSUME NEW a \in Actors, NEW g \in Groups, SetInsert(a, g)
       PROVE  ScopeInv'
  BY <1>20, RegistryAssumption DEF SetInsert, SetDone, UnlockShared, Goto,
         LockInv, SharedHeld
<1>21. ASSUME NEW g \in Groups, ListenerExit(g)
       PROVE  ScopeInv'
  BY <1>21 DEF ListenerExit, threadVars, Goto
<1> QED
  BY <1>1, <1>2, <1>3, <1>4, <1>5, <1>6, <1>7, <1>8, <1>9, <1>10, <1>11,
     <1>12, <1>13, <1>14, <1>15, <1>16, <1>17, <1>18, <1>19, <1>20, <1>21
  DEF Next, Step, Lookup, Update, Leave, Finished

\* Scopes are right in every reachable state.
LEMMA ScopeInvariance == Spec => []ScopeInv
<1>1. Init => ScopeInv
  BY RegistryAssumption DEF Init, ScopeInv
<1>2. IInv /\ ScopeInv /\ [Next]_vars => ScopeInv'
  BY ScopeStep DEF IInv
<1> QED
  BY <1>1, <1>2, Invariance, PTL DEF Spec

-----------------------------------------------------------------------------
(* The refinement mapping.                                                 *)

\* The abstract references are the map's and those of the calls' locals.
LEMMA References ==
    ASSUME NEW g \in Groups, TypeOK
    PROVE  Map!Referenced(g) <=>
              (\E t \in Topics : m_topics[t] = g) \/ InLocals(g)
<1>1. g # NoGroup
  BY RegistryAssumption DEF Actors
<1>2. \A a \in Actors : g \in Held[a] <=> owner[a] = g \/ local[a] = g
  BY <1>1 DEF Held
<1> QED
  BY <1>2 DEF Map!Referenced, InLocals

\* The same after a step.
LEMMA ReferencesNext ==
    ASSUME NEW g \in Groups, TypeOK'
    PROVE  Map!Referenced(g)' <=>
              (\E t \in Topics : m_topics'[t] = g) \/ InLocals(g)'
<1>1. g # NoGroup
  BY RegistryAssumption DEF Actors
<1>2. \A a \in Actors : g \in Held'[a] <=> owner'[a] = g \/ local'[a] = g
  BY <1>1 DEF Held
<1> QED
  BY <1>2 DEF Map!Referenced, InLocals

\* A step in which at most one group loses its references and dies of it is
\* what Lives({}) says.
LEMMA OneMayDie ==
    ASSUME TypeOK, TypeOK', NEW g \in Groups,
           \A h \in Groups : h # g /\ Map!Referenced(h) => Map!Referenced(h)',
           Map!Referenced(g),
           status' = IF Map!Referenced(g)' THEN status
                     ELSE [status EXCEPT ![g] = "dying"]
    PROVE  Map!Lives({})
  BY DEF Map!Lives, TypeOK

\* What the initial state of the manager is to the abstract map.
LEMMA InitMaps == Init => Map!Init
<1> SUFFICES ASSUME Init PROVE Map!Init
  OBVIOUS
<1>1. Held = [a \in Actors |-> {}]
  BY DEF Init, Held
<1> QED
  BY <1>1 DEF Init, Map!Init

\* A step that leaves the map, the pointers and the lives alone.
LEMMA Stutters ==
    ASSUME UNCHANGED <<m_topics, owner, local, status>>
    PROVE  UNCHANGED Map!vars
  BY DEF Map!vars, Held

\* A call looks its topic up and keeps the pointer.
LEMMA GetMaps ==
    ASSUME NEW a \in Actors, TypeOK,
           Found(a) # NoGroup,
           UNCHANGED <<m_topics, status>>,
           \/ /\ local[a] = NoGroup
              /\ local' = [local EXCEPT ![a] = Found(a)]
              /\ owner' = owner
           \/ /\ owner[a] = NoGroup
              /\ owner' = [owner EXCEPT ![a] = Found(a)]
              /\ local' = local
    PROVE  Map!Get(a, topicName[a])
<1>1. \A b \in Actors :
         Held'[b] = IF b = a THEN Held[b] \cup {Found(a)} ELSE Held[b]
  <2>1. CASE local[a] = NoGroup /\ local' = [local EXCEPT ![a] = Found(a)]
    BY <2>1 DEF Held, TypeOK
  <2>2. CASE owner[a] = NoGroup /\ owner' = [owner EXCEPT ![a] = Found(a)]
    BY <2>2 DEF Held, TypeOK
  <2> QED
    BY <2>1, <2>2
<1>2. Held' = [Held EXCEPT ![a] = @ \cup {Found(a)}]
  BY <1>1 DEF Held
<1> QED
  BY <1>2 DEF Map!Get, Found

\* A pointer of a call goes away.
LEMMA DropMaps ==
    ASSUME NEW a \in Actors, NEW g \in Groups, TypeOK, TypeOK',
           UNCHANGED m_topics,
           \/ /\ local[a] = g
              /\ local' = [local EXCEPT ![a] = NoGroup]
              /\ owner' = owner
           \/ /\ owner[a] = g /\ local[a] = NoGroup
              /\ owner' = [owner EXCEPT ![a] = NoGroup]
              /\ local' = local,
           status' = IF (\E t \in Topics : m_topics[t] = g) \/ InLocals(g)'
                     THEN status ELSE [status EXCEPT ![g] = "dying"]
    PROVE  Map!Drop(a, g) \/ UNCHANGED Map!vars
<1>1. g # NoGroup
  BY RegistryAssumption DEF Actors
<1>2. CASE owner'[a] = g
  <2>1. InLocals(g)'
    BY <1>2 DEF InLocals
  <2>2. UNCHANGED <<owner, m_topics, status>>
    BY <1>1, <1>2, <2>1 DEF TypeOK
  <2>3. Held' = Held
    BY <1>1, <1>2, <2>2 DEF Held, TypeOK
  <2> QED
    BY <2>2, <2>3 DEF Map!vars
<1>3. CASE owner'[a] # g
  <2>1. Held' = [Held EXCEPT ![a] = @ \ {g}]
    <3>1. \A b \in Actors :
             Held'[b] = IF b = a THEN Held[b] \ {g} ELSE Held[b]
      BY <1>1, <1>3 DEF Held, TypeOK
    <3> QED
      BY <3>1 DEF Held
  <2>2. \A h \in Groups : h # g /\ Map!Referenced(h) => Map!Referenced(h)'
    <3>1. ASSUME NEW h \in Groups, h # g, InLocals(h)
          PROVE  InLocals(h)'
      BY <1>1, <3>1 DEF InLocals, TypeOK
    <3> QED
      BY <3>1, References, ReferencesNext
  <2>3. Map!Referenced(g)
    BY References DEF InLocals
  <2>4. Map!Lives({})
    BY <2>2, <2>3, ReferencesNext, OneMayDie
  <2> QED
    BY <2>1, <2>4 DEF Map!Drop
<1> QED
  BY <1>2, <1>3

\* When an entry is overwritten or removed, the groups that nothing refers to
\* any more are the one that was there or none.
LEMMA Displaced ==
    ASSUME NEW t \in Topics, NEW v \in Groups \cup {NoGroup},
           NEW d \in Groups \cup {NoGroup}, TypeOK, TypeOK',
           m_topics[t] = d,
           m_topics' = [m_topics EXCEPT ![t] = v],
           UNCHANGED <<owner, local>>,
           v # d \/ InLocals(d)
    PROVE  \A h \in Groups :
              Map!Referenced(h) /\ ~Map!Referenced(h)' <=>
                 h = d /\ ~InLocals(d) /\ ~InMapElse(d, t)
<1>1. \A h \in Groups : InLocals(h)' <=> InLocals(h)
  BY DEF InLocals
<1>2. ASSUME NEW h \in Groups, h # d, Map!Referenced(h)
      PROVE  Map!Referenced(h)'
  <2>1. ASSUME NEW u \in Topics, m_topics[u] = h
        PROVE  \E w \in Topics : m_topics'[w] = h
    BY <1>2, <2>1 DEF TypeOK
  <2> QED
    BY <1>1, <1>2, <2>1, References, ReferencesNext
<1>3. ASSUME d \in Groups
      PROVE  /\ Map!Referenced(d)
             /\ Map!Referenced(d)' <=> InLocals(d) \/ InMapElse(d, t)
  <2>1. v # d => ((\E u \in Topics : m_topics'[u] = d) <=> InMapElse(d, t))
    BY DEF InMapElse, TypeOK
  <2>2. Map!Referenced(d)' <=>
           (\E u \in Topics : m_topics'[u] = d) \/ InLocals(d)
    BY <1>1, <1>3, ReferencesNext
  <2>3. Map!Referenced(d)
    BY <1>3, References
  <2> QED
    BY <2>1, <2>2, <2>3
<1> QED
  BY <1>2, <1>3

-----------------------------------------------------------------------------
(* The steps.                                                              *)

\* Every step is an operation on the abstract map or none.
LEMMA StepMaps ==
    ASSUME IInv, IInv', ScopeInv, [Next]_vars
    PROVE  [Map!Next]_(Map!vars)
<1> USE DEF IInv
<1>1. ASSUME UNCHANGED vars
      PROVE  UNCHANGED Map!vars
  BY <1>1, Stutters DEF vars, threadVars
<1>2. ASSUME NEW a \in Actors, NEW c \in Calls, NEW t \in Topics, Call(a, c, t)
      PROVE  UNCHANGED Map!vars
  BY <1>2, Stutters DEF Call
<1>3. ASSUME NEW a \in Actors, LockShared(a) \/ LockUnique(a)
      PROVE  UNCHANGED Map!vars
  BY <1>3, Stutters DEF LockShared, LockUnique, threadVars
<1>4. ASSUME NEW a \in Actors,
             QosCheck(a) \/ SetFind(a) \/ GetFind(a) \/ CbFind(a) \/ CbReader(a)
      PROVE  UNCHANGED Map!vars
  BY <1>4, Stutters DEF QosCheck, SetFind, GetFind, CbFind, CbReader, threadVars
<1>5. ASSUME NEW a \in Actors,
             ReadEmit(a) \/ ReadReply(a) \/ RegCreate(a) \/ QosPreset(a)
      PROVE  UNCHANGED Map!vars
  BY <1>5, Stutters, ReadGoes DEF ReadEmit, ReadReply, RegCreate, QosPreset, threadVars
<1>6. ASSUME NEW a \in Actors,
             PubCreate(a) \/ SubStore(a) \/ CbRun(a) \/ CleanSpawn(a)
      PROVE  UNCHANGED Map!vars
  BY <1>6, Stutters DEF PubCreate, SubStore, CbRun, CleanSpawn, threadVars
<1>7. ASSUME NEW a \in Actors,
             CleanJoin(a) \/ DropLock(a) \/ Return(a) \/ Destroy(a)
      PROVE  UNCHANGED Map!vars
  BY <1>7, Stutters DEF CleanJoin, DropLock, Return, Destroy, threadVars
<1>8. ASSUME NEW g \in Groups, ListenerExit(g)
      PROVE  UNCHANGED Map!vars
  BY <1>8, Stutters DEF ListenerExit, threadVars
<1>9. ASSUME NEW a \in Actors, RegFindSome(a)
      PROVE  Map!Get(a, topicName[a]) \/ UNCHANGED Map!vars
  <2>1. owner[a] = NoGroup
    BY <1>9 DEF RegFindSome, ScopeInv, OwnerInScope
  <2>2. CASE owner' = owner
    BY <1>9, <2>2, Stutters DEF RegFindSome
  <2>3. CASE owner' = [owner EXCEPT ![a] = Found(a)]
    BY <1>9, <2>1, <2>3, GetMaps DEF RegFindSome
  <2> QED
    BY <1>9, <2>2, <2>3 DEF RegFindSome
<1>10. ASSUME NEW a \in Actors,
              QosFind(a) \/ SubFind(a) \/ ReadFind(a)
       PROVE  Map!Get(a, topicName[a]) \/ UNCHANGED Map!vars
  <2>1. local[a] = NoGroup
    BY <1>10 DEF QosFind, SubFind, ReadFind, ScopeInv, LocalInScope
  <2>2. CASE local' = local
    BY <1>10, <2>2, Stutters DEF QosFind, SubFind, ReadFind
  <2>3. CASE Found(a) # NoGroup /\ local' = [local EXCEPT ![a] = Found(a)]
    BY <1>10, <2>1, <2>3, GetMaps DEF QosFind, SubFind, ReadFind
  <2> QED
    BY <1>10, <2>2, <2>3 DEF QosFind, SubFind, ReadFind
<1>11. ASSUME NEW a \in Actors, CbEmitter(a)
       PROVE  Map!Get(a, topicName[a])
  <2>1. local[a] = NoGroup
    BY <1>11 DEF CbEmitter, ScopeInv, LocalInScope
  <2>2. Found(a) # NoGroup
    BY <1>11 DEF CbEmitter, LookupStable
  <2> QED
    BY <1>11, <2>1, <2>2, GetMaps DEF CbEmitter
<1>12. ASSUME NEW a \in Actors, NEW g \in Groups, RegFindNone(a, g)
       PROVE  Map!Make(a, g)
  <2>1. owner[a] = NoGroup
    BY <1>12 DEF RegFindNone, ScopeInv, OwnerInScope
  <2>2. g # NoGroup
    BY RegistryAssumption DEF Actors
  <2>3. \A b \in Actors :
           Held'[b] = IF b = a THEN Held[b] \cup {g} ELSE Held[b]
    BY <1>12, <2>1, <2>2 DEF RegFindNone, Held, TypeOK
  <2>4. Held' = [Held EXCEPT ![a] = @ \cup {g}]
    BY <2>3 DEF Held
  <2>5. \A h \in Groups : Map!Referenced(h) => Map!Referenced(h)'
    <3>1. \A h \in Groups : InLocals(h) => InLocals(h)'
      BY <1>12, <2>1, RegistryAssumption DEF RegFindNone, InLocals, TypeOK, Actors
    <3>2. m_topics' = m_topics
      BY <1>12 DEF RegFindNone
    <3> QED
      BY <3>1, <3>2, References, ReferencesNext
  <2> QED
    BY <1>12, <2>4, <2>5 DEF RegFindNone, IsFree, Map!Make, Map!Lives, TypeOK
<1>13. ASSUME NEW a \in Actors, RegStore(a)
       PROVE  Map!Put(a, topicName[a], owner[a])
  <2>1. owner[a] # NoGroup
    BY <1>13 DEF RegStore, ScopeInv
  <2>2. owner[a] \in Held[a]
    BY <2>1 DEF Held
  <2>3. Held' = Held
    BY <1>13 DEF RegStore, Held
  <2>4. PICK d \in Groups \cup {NoGroup} : d = Found(a)
    BY DEF Found, TypeOK
  <2>5. m_topics[topicName[a]] = d
    BY <2>4 DEF Found
  <2>6. \A h \in Groups : Map!Referenced(h) /\ ~Map!Referenced(h)' <=>
            h = d /\ ~InLocals(d) /\ ~InMapElse(d, topicName[a])
    <3>1. owner[a] # d \/ InLocals(d)
      BY DEF InLocals
    <3>2. topicName[a] \in Topics /\ owner[a] \in Groups \cup {NoGroup}
      BY DEF TypeOK
    <3>3. /\ m_topics' = [m_topics EXCEPT ![topicName[a]] = owner[a]]
          /\ UNCHANGED <<owner, local>>
      BY <1>13 DEF RegStore
    <3> QED
      BY ZenonT(60), <2>5, <3>1, <3>2, <3>3, Displaced
  <2>7. status' = IF d = NoGroup \/ InLocals(d) \/ InMapElse(d, topicName[a])
                  THEN status ELSE [status EXCEPT ![d] = "dying"]
    BY <1>13, <2>4 DEF RegStore
  <2>8. NoGroup \notin Groups
    BY RegistryAssumption DEF Actors
  <2>9. Map!Lives({})
    BY <2>6, <2>7, <2>8 DEF Map!Lives, TypeOK
  <2> QED
    BY <1>13, <2>2, <2>3, <2>9 DEF RegStore, Map!Put
<1>14. ASSUME NEW a \in Actors, NEW g \in Groups, SetInsert(a, g)
       PROVE  Map!MakeIn(topicName[a], g)
  <2>1. Held' = Held
    BY <1>14 DEF SetInsert, Held
  <2>2. PICK d \in Groups \cup {NoGroup} : d = Found(a)
    BY DEF Found, TypeOK
  <2>3. m_topics[topicName[a]] = d
    BY <2>2 DEF Found
  <2>4. d # g
    BY <1>14, <2>3, RegistryAssumption
    DEF SetInsert, IsFree, NoUseAfterFree, TypeOK, Actors
  <2>5. \A h \in Groups : Map!Referenced(h) /\ ~Map!Referenced(h)' <=>
            h = d /\ ~InLocals(d) /\ ~InMapElse(d, topicName[a])
    <3>1. topicName[a] \in Topics /\ g \in Groups \cup {NoGroup}
      BY DEF TypeOK
    <3>2. /\ m_topics' = [m_topics EXCEPT ![topicName[a]] = g]
          /\ UNCHANGED <<owner, local>>
      BY <1>14 DEF SetInsert
    <3> QED
      BY <2>3, <2>4, <3>1, <3>2, Displaced
  <2>6. status' = IF d = NoGroup \/ InLocals(d) \/ InMapElse(d, topicName[a])
                  THEN [status EXCEPT ![g] = "alive"]
                  ELSE [status EXCEPT ![g] = "alive", ![d] = "dying"]
    BY <1>14, <2>2 DEF SetInsert
  <2>7. NoGroup \notin Groups
    BY RegistryAssumption DEF Actors
  <2>8. Map!Lives({g})
    <3>1. CASE d = NoGroup \/ InLocals(d) \/ InMapElse(d, topicName[a])
      <4>1. \A h \in Groups : ~(Map!Referenced(h) /\ ~Map!Referenced(h)')
        BY <2>5, <2>7, <3>1
      <4>2. status' = [status EXCEPT ![g] = "alive"]
        BY <2>6, <3>1
      <4> QED
        BY <4>1, <4>2 DEF Map!Lives, TypeOK
    <3>2. CASE ~(d = NoGroup \/ InLocals(d) \/ InMapElse(d, topicName[a]))
      <4>1. \A h \in Groups : Map!Referenced(h) /\ ~Map!Referenced(h)' <=> h = d
        BY <2>5, <3>2
      <4>2. status' = [status EXCEPT ![g] = "alive", ![d] = "dying"]
        BY <2>6, <3>2
      <4> QED
        BY <2>4, <4>1, <4>2 DEF Map!Lives, TypeOK
    <3> QED
      BY <3>1, <3>2
  <2> QED
    BY <1>14, <2>1, <2>8 DEF SetInsert, IsFree, Map!MakeIn
<1>15. ASSUME NEW a \in Actors, UnregErase(a)
       PROVE  Map!Remove(a, topicName[a])
  <2>1. local[a] = NoGroup
    BY <1>15 DEF UnregErase, ScopeInv, LocalInScope
  <2>2. \A b \in Actors :
           Held'[b] = IF b = a THEN Held[b] \cup ({Found(a)} \ {NoGroup})
                      ELSE Held[b]
    BY <1>15, <2>1 DEF UnregErase, Held, TypeOK
  <2>3. Held' = [Held EXCEPT ![a] = @ \cup ({Found(a)} \ {NoGroup})]
    BY <2>2 DEF Held
  <2> QED
    BY <1>15, <2>3 DEF UnregErase, Map!Remove, Found
<1>16. ASSUME NEW a \in Actors, CleanClear(a)
       PROVE  (\E t \in Topics : Map!Clear(t)) \/ UNCHANGED Map!vars
  <2>1. CASE UNCHANGED <<m_topics, status>>
    BY <1>16, <2>1, Stutters DEF CleanClear
  <2>2. ASSUME NEW t \in Topics, m_topics[t] # NoGroup,
               m_topics' = [m_topics EXCEPT ![t] = NoGroup],
               IF InLocals(m_topics[t]) \/ InMapElse(m_topics[t], t)
               THEN UNCHANGED status
               ELSE status' = [status EXCEPT ![m_topics[t]] = "dying"]
        PROVE  Map!Clear(t)
    <3>1. PICK d \in Groups : d = m_topics[t]
      BY <2>2 DEF TypeOK
    <3>2. Held' = Held
      BY <1>16 DEF CleanClear, Held
    <3>3. \A h \in Groups : Map!Referenced(h) /\ ~Map!Referenced(h)' <=>
              h = d /\ ~InLocals(d) /\ ~InMapElse(d, t)
      BY <1>16, <2>2, <3>1, Displaced DEF CleanClear
    <3>4. Map!Lives({})
      BY <2>2, <3>1, <3>3 DEF Map!Lives, TypeOK
    <3> QED
      BY <2>2, <3>2, <3>4 DEF Map!Clear
  <2> QED
    BY <1>16, <2>1, <2>2 DEF CleanClear
<1>17. ASSUME NEW a \in Actors, DropLocal(a)
       PROVE  \E g \in Groups : Map!Drop(a, g) \/ UNCHANGED Map!vars
  <2>1. PICK g \in Groups : g = local[a]
    BY <1>17 DEF DropLocal, TypeOK
  <2>2. local' = [local EXCEPT ![a] = NoGroup] /\ UNCHANGED <<m_topics, owner>>
    BY <1>17 DEF DropLocal
  <2>3. InLocals(g)' <=> \/ \E b \in Actors : owner[b] = g
                         \/ \E b \in Actors \ {a} : local[b] = g
    BY <2>1, <2>2, RegistryAssumption DEF InLocals, TypeOK, Actors
  <2>4. status' = IF (\E t \in Topics : m_topics[t] = g) \/ InLocals(g)'
                  THEN status ELSE [status EXCEPT ![g] = "dying"]
    BY <1>17, <2>1, <2>3 DEF DropLocal, Release
  <2> QED
    BY <2>1, <2>2, <2>4, DropMaps
<1>18. ASSUME NEW a \in Actors, DropOwner(a)
       PROVE  \E g \in Groups : Map!Drop(a, g) \/ UNCHANGED Map!vars
  <2>1. PICK g \in Groups : g = owner[a]
    BY <1>18 DEF DropOwner, TypeOK
  <2>2. owner' = [owner EXCEPT ![a] = NoGroup] /\ UNCHANGED <<m_topics, local>>
    BY <1>18 DEF DropOwner
  <2>3. InLocals(g)' <=> \/ \E b \in Actors : local[b] = g
                         \/ \E b \in Actors \ {a} : owner[b] = g
    BY <2>1, <2>2, RegistryAssumption DEF InLocals, TypeOK, Actors
  <2>4. status' = IF (\E t \in Topics : m_topics[t] = g) \/ InLocals(g)'
                  THEN status ELSE [status EXCEPT ![g] = "dying"]
    BY <1>18, <2>1, <2>3 DEF DropOwner, Release
  <2>5. local[a] = NoGroup
    BY <1>18 DEF DropOwner
  <2> QED
    BY <2>1, <2>2, <2>4, <2>5, DropMaps
<1>19. ASSUME NEW a \in Actors, Join(a)
       PROVE  Map!Free(dying[a]) /\ dying[a] \in Groups
  <2>1. dying[a] \in Groups /\ status[dying[a]] = "dying"
    BY <1>19 DEF Join, ScopeInv, DyingInv, TypeOK
  <2>2. Held' = Held
    BY <1>19 DEF Join, Held
  <2> QED
    BY <1>19, <2>1, <2>2 DEF Join, Map!Free
<1> QED
  <2>1. \A a \in Actors : topicName[a] \in Topics
    BY DEF TypeOK
  <2>2. \A a \in Actors : RegStore(a) => owner[a] \in Groups
    BY DEF RegStore, ScopeInv, TypeOK
  <2> QED
    BY <1>1, <1>2, <1>3, <1>4, <1>5, <1>6, <1>7, <1>8, <1>9, <1>10, <1>11,
       <1>12, <1>13, <1>14, <1>15, <1>16, <1>17, <1>18, <1>19, <2>1, <2>2
    DEF Next, Step, Lookup, Update, Leave, Finished, Map!Next

\* TopicRegistry implements TopicMap: whatever the threads do, the topic map
\* acts in one step per operation, and a group is destroyed with the last
\* reference to it, no sooner and no later.
THEOREM RegistryImplementsMap == Spec => ImplementsMap
<1>1. IInv /\ IInv' /\ ScopeInv /\ [Next]_vars => [Map!Next]_(Map!vars)
  BY StepMaps
<1> QED
  BY <1>1, InitMaps, Invariance, ScopeInvariance, PTL
  DEF Spec, ImplementsMap, Map!Spec

-----------------------------------------------------------------------------
(* No leak.                                                                *)

\* An operation on the abstract map leaves no living group without a reference.
LEMMA MapKeepsAlive ==
    ASSUME TypeOK, TypeOK', [Map!Next]_(Map!vars), NEW g \in Groups,
           status[g] = "alive" => Map!Referenced(g), status'[g] = "alive"
    PROVE  Map!Referenced(g)'
<1>1. /\ m_topics \in [Topics -> Groups \cup {NoGroup}]
      /\ \A a \in Actors : Held[a] \in SUBSET Groups
      /\ Held = [a \in Actors |-> Held[a]]
      /\ status \in [Groups -> {"free", "alive", "dying"}]
  BY DEF TypeOK, Held
<1>2. ASSUME NEW made \in SUBSET Groups, Map!Lives(made), g \notin made
      PROVE  Map!Referenced(g)'
  BY <1>2 DEF Map!Lives
<1>3. CASE UNCHANGED Map!vars
  BY <1>3 DEF Map!vars, Map!Referenced
<1>4. ASSUME NEW a \in Actors, NEW h \in Groups, Map!Make(a, h)
      PROVE  Map!Referenced(g)'
  <2>1. CASE g = h
    BY <1>1, <1>4, <2>1 DEF Map!Make, Map!Referenced
  <2>2. CASE g # h
    BY <1>2, <1>4, <2>2 DEF Map!Make
  <2> QED
    BY <2>1, <2>2
<1>5. ASSUME NEW t \in Topics, NEW h \in Groups, Map!MakeIn(t, h)
      PROVE  Map!Referenced(g)'
  <2>1. CASE g = h
    BY <1>1, <1>5, <2>1 DEF Map!MakeIn, Map!Referenced
  <2>2. CASE g # h
    BY <1>2, <1>5, <2>2 DEF Map!MakeIn
  <2> QED
    BY <2>1, <2>2
<1>6. ASSUME NEW a \in Actors, NEW t \in Topics, Map!Get(a, t)
      PROVE  Map!Referenced(g)'
  BY <1>1, <1>6 DEF Map!Get, Map!Referenced
<1>7. ASSUME NEW a \in Actors, NEW t \in Topics, Map!Remove(a, t)
      PROVE  Map!Referenced(g)'
  <2>1. g # NoGroup
    BY RegistryAssumption DEF Actors
  <2>2. CASE m_topics[t] = g
    BY <1>1, <1>7, <2>1, <2>2 DEF Map!Remove, Map!Referenced
  <2>3. CASE m_topics[t] # g
    BY <1>1, <1>7, <2>3 DEF Map!Remove, Map!Referenced
  <2> QED
    BY <2>2, <2>3
<1>8. ASSUME NEW a \in Actors, NEW h \in Groups,
             Map!Drop(a, h) \/ \E t \in Topics : Map!Put(a, t, h)
      PROVE  Map!Referenced(g)'
  BY <1>2, <1>8 DEF Map!Drop, Map!Put
<1>9. ASSUME NEW t \in Topics, Map!Clear(t)
      PROVE  Map!Referenced(g)'
  BY <1>2, <1>9 DEF Map!Clear
<1>10. ASSUME NEW h \in Groups, Map!Free(h)
       PROVE  Map!Referenced(g)'
  BY <1>1, <1>10 DEF Map!Free, Map!Referenced
<1> QED
  BY <1>3, <1>4, <1>5, <1>6, <1>7, <1>8, <1>9, <1>10 DEF Map!Next

\* No TopicGroup leaks, and none is destroyed while the map or a call refers to
\* it: it is alive exactly as long as it is referenced.
THEOREM NoGroupLeaks == Spec => []AliveIffReferenced
<1> USE DEF AliveIffReferenced, Map!AliveIffReferenced
<1>1. IInv => \A g \in Groups : Map!Referenced(g) => status[g] = "alive"
  BY References, RegistryAssumption DEF IInv, NoUseAfterFree, InLocals, Actors
<1>2. IInv' => \A g \in Groups : Map!Referenced(g)' => status'[g] = "alive"
  BY ReferencesNext, RegistryAssumption
  DEF IInv, NoUseAfterFree, InLocals, Actors
<1>3. Init => AliveIffReferenced
  BY InitInv, <1>1 DEF Init
<1>4. IInv /\ IInv' /\ ScopeInv /\ AliveIffReferenced /\ [Next]_vars
         => AliveIffReferenced'
  <2> SUFFICES ASSUME IInv, IInv', ScopeInv, AliveIffReferenced, [Next]_vars
               PROVE  AliveIffReferenced'
    OBVIOUS
  <2>1. [Map!Next]_(Map!vars)
    BY StepMaps
  <2>2. TypeOK /\ TypeOK'
    BY DEF IInv
  <2>3. \A g \in Groups : status'[g] = "alive" => Map!Referenced(g)'
    BY <2>1, <2>2, MapKeepsAlive
  <2> QED
    BY <1>2, <2>3
<1> QED
  BY <1>3, <1>4, Invariance, ScopeInvariance, PTL DEF Spec
=============================================================================
