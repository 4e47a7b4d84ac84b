------------------------ MODULE TransportJoinProofs ------------------------
(***************************************************************************)
(* Theorems about TransportJoin, for any number of managers, domains and   *)
(* joins.                                                                  *)
(***************************************************************************)
EXTENDS TransportJoin, TLAPS

-----------------------------------------------------------------------------
(* The inductive invariant.                                                *)

\* What a place in joinDomain says about the manager and its participant.
PlaceInv ==
    \A m \in Managers :
        /\ pc[m] # "idle" => participant[m] # NoDomain /\ bound[m] = NoConfig
        /\ participant[m] = NoDomain =>
              bound[m] = NoConfig /\ carried[m] = {} /\ ~joined[m]
        /\ pc[m] \in {"lookup", "create", "inst"} => configName[m] \in Names
        /\ pc[m] \in {"read", "write", "name", "lookup", "create"} =>
              carried[m] = {}
        /\ pc[m] = "inst" =>
              instLeft[m] <= rtps /\ (carried[m] = {} <=> instLeft[m] = rtps)

\* Names in use are in the registry, and each is used by one manager.
OwnerInv ==
    /\ \A m \in Managers :
          /\ carried[m] \subseteq transports
          /\ bound[m] \in Names => bound[m] \in configs
          /\ pc[m] = "inst" => configName[m] \in configs
    /\ \A m, n \in Managers : m # n =>
          /\ carried[m] \cap carried[n] = {}
          /\ bound[m] = bound[n] => bound[m] \in {NoConfig, NamedConfig}
          /\ pc[m] = "inst" => configName[m] # bound[n]
          /\ pc[m] = "inst" /\ pc[n] = "inst" => configName[m] # configName[n]

\* Managers that join one after the other: the counter is exact.
SerialInv ==
    ~raced =>
        /\ \A m, n \in Managers : pc[m] # "idle" /\ pc[n] # "idle" => m = n
        /\ \A c \in configs \cup transports : c[2] <= g_transportInstances[c[1]]
        /\ \A m \in Managers :
              /\ pc[m] = "write" => seen[m] = g_transportInstances[participant[m]]
              /\ pc[m] = "name" =>
                    <<participant[m], g_transportInstances[participant[m]]>>
                        \notin configs \cup transports
              /\ pc[m] \in {"lookup", "create"} =>
                    configName[m] \notin configs \cup transports
              /\ pc[m] \in {"lookup", "create", "inst"} =>
                    configName[m] = <<participant[m],
                                      g_transportInstances[participant[m]]>>

\* A participant that no joinDomain is working on is bound, but for the two
\* ways around it.
UsableInv ==
    \A m \in Managers :
        participant[m] # NoDomain /\ pc[m] = "idle" =>
            \/ bound[m] = NamedConfig
            \/ bound[m] \in configs /\ (carried[m] = {} <=> rtps = 0)
            \/ m \in spoiled
            \/ raced

IInv == TypeOK /\ PlaceInv /\ OwnerInv /\ SerialInv /\ UsableInv

-----------------------------------------------------------------------------

\* The manager starts in the inductive invariant.
LEMMA InitInv == Init => IInv
<1> SUFFICES ASSUME Init PROVE IInv
  OBVIOUS
<1>0. MaxJoins \in Nat
  BY JoinAssumption
<1>1. TypeOK
  <2>1. g_transportInstances \in [Domains -> Nat] /\ seen \in [Managers -> Nat]
    BY DEF Init
  <2>2. joinsLeft \in [Managers -> 0..MaxJoins] /\ instLeft \in [Managers -> 0..2]
    BY <1>0 DEF Init
  <2>3. joined \in [Managers -> BOOLEAN] /\ carried \in [Managers -> SUBSET Names]
    BY DEF Init
  <2>4. pc \in [Managers -> PCs] /\ config \in [Managers -> {"none", "known", "unknown"}]
    BY DEF Init, PCs
  <2>5. configName \in [Managers -> Names \cup {NoConfig}]
    BY DEF Init
  <2>6. bound \in [Managers -> Names \cup {NoConfig, NamedConfig}]
    BY DEF Init
  <2>7. participant \in [Managers -> Domains \cup {NoDomain}]
    BY DEF Init
  <2>8. /\ configs \subseteq Names /\ transports \subseteq Names
        /\ rtps \in 0..2 /\ raced \in BOOLEAN /\ spoiled \subseteq Managers
    BY DEF Init
  <2> QED
    BY <2>1, <2>2, <2>3, <2>4, <2>5, <2>6, <2>7, <2>8 DEF TypeOK
<1>2. PlaceInv
  BY DEF Init, PlaceInv
<1>3. OwnerInv
  BY JoinAssumption DEF Init, OwnerInv, Names
<1>4. SerialInv
  BY DEF Init, SerialInv
<1>5. UsableInv
  BY DEF Init, UsableInv
<1> QED
  BY <1>1, <1>2, <1>3, <1>4, <1>5 DEF IInv

\* A manager inside joinDomain has a name for its next configuration.
LEMMA CurrentName ==
    ASSUME TypeOK, PlaceInv, NEW m \in Managers, pc[m] # "idle"
    PROVE  /\ participant[m] \in Domains
           /\ <<participant[m], g_transportInstances[participant[m]]>> \in Names
<1>1. participant[m] \in Domains
  BY DEF TypeOK, PlaceInv
<1>2. g_transportInstances[participant[m]] \in Nat
  BY <1>1 DEF TypeOK
<1> QED
  BY <1>1, <1>2 DEF Names

\* A step of any manager keeps the types; no count runs below zero.
LEMMA TypeStep ==
    ASSUME TypeOK, PlaceInv, [Next]_vars
    PROVE  TypeOK'
<1> USE DEF TypeOK, PCs
<1>1. ASSUME UNCHANGED vars
      PROVE  TypeOK'
  BY <1>1 DEF vars, registryVars, managerVars, threadVars
<1>0. ASSUME NEW m \in Managers, Start(m)
      PROVE  joinsLeft' \in [Managers -> 0..MaxJoins]
  <2>1. joinsLeft[m] - 1 \in 0..MaxJoins
    BY <1>0, JoinAssumption DEF Start
  <2> QED
    BY <1>0, <2>1 DEF Start
<1>2. ASSUME NEW m \in Managers, NEW d \in Domains, JoinAgain(m, d)
      PROVE  TypeOK'
  <2>1. joined' \in [Managers -> BOOLEAN]
    BY <1>2, Zenon DEF JoinAgain
  <2>2. joinsLeft' \in [Managers -> 0..MaxJoins]
    BY <1>0, <1>2 DEF JoinAgain
  <2> QED
    BY <1>2, <2>1, <2>2 DEF JoinAgain, registryVars, threadVars
<1>3. ASSUME NEW m \in Managers, JoinFail(m)
      PROVE  TypeOK'
  <2>1. joinsLeft' \in [Managers -> 0..MaxJoins]
    BY <1>0, <1>3 DEF JoinFail
  <2> QED
    BY <1>3, <2>1 DEF JoinFail, registryVars, threadVars
<1>4. ASSUME NEW m \in Managers, NEW d \in Domains,
             NEW c \in {"none", "known", "unknown"}, JoinCreate(m, d, c)
      PROVE  TypeOK'
  <2>1. joinsLeft' \in [Managers -> 0..MaxJoins]
    BY <1>0, <1>4 DEF JoinCreate
  <2>2. raced' \in BOOLEAN
    BY <1>4, Zenon DEF JoinCreate
  <2> QED
    BY <1>4, <2>1, <2>2 DEF JoinCreate, Goto, registryVars
<1>5. ASSUME NEW m \in Managers, ReadCount(m)
      PROVE  TypeOK'
  BY <1>5 DEF ReadCount, Goto, registryVars, managerVars, PlaceInv
<1>6. ASSUME NEW m \in Managers, WriteCount(m)
      PROVE  TypeOK'
  <2>1. g_transportInstances' \in [Domains -> Nat]
    <3>1. seen[m] + 1 \in Nat
      OBVIOUS
    <3> QED
      BY <1>6, <3>1 DEF WriteCount
  <2>2. CASE config[m] = "none" /\ pc' = [pc EXCEPT ![m] = "name"]
    BY <1>6, <2>1, <2>2 DEF WriteCount, ReturnTrue, ReturnFalse, Goto
  <2>3. CASE bound' = [bound EXCEPT ![m] = NamedConfig] /\ ReturnTrue(m)
    BY <1>6, <2>1, <2>3 DEF WriteCount, ReturnTrue, Goto
  <2>4. CASE bound' = bound /\ ReturnFalse(m)
    BY <1>6, <2>1, <2>4 DEF WriteCount, ReturnFalse, Goto
  <2> QED
    BY <1>6, <2>2, <2>3, <2>4 DEF WriteCount, Goto
<1>7. ASSUME NEW m \in Managers, NameConfig(m)
      PROVE  TypeOK'
  <2>1. <<participant[m], g_transportInstances[participant[m]]>> \in Names
    BY <1>7, CurrentName DEF NameConfig
  <2> QED
    BY <1>7, <2>1 DEF NameConfig, Goto, registryVars, managerVars
<1>8. ASSUME NEW m \in Managers, LookupConfig(m)
      PROVE  TypeOK'
  BY <1>8 DEF LookupConfig, ReturnTrue, Goto, registryVars
<1>9. ASSUME NEW m \in Managers, CreateConfig(m)
      PROVE  TypeOK'
  <2>1. configName[m] \in Names
    BY <1>9 DEF CreateConfig, PlaceInv
  <2>2. CASE configName[m] \in configs
    BY <1>9, <2>2 DEF CreateConfig, ReturnFalse, Goto
  <2>3. CASE configName[m] \notin configs
    BY <1>9, <2>1, <2>3 DEF CreateConfig, Goto
  <2> QED
    BY <2>2, <2>3
<1>10. ASSUME NEW m \in Managers, CreateInst(m)
      PROVE  TypeOK'
  <2> DEFINE name == <<participant[m], g_transportInstances[participant[m]]>>
  <2>1. name \in Names
    BY <1>10, CurrentName DEF CreateInst
  <2>2. instLeft[m] > 0 => instLeft[m] - 1 \in 0..2
    OBVIOUS
  <2> HIDE DEF name
  <2>3. CASE name \in transports
    BY <1>10, <2>3 DEF CreateInst, ReturnFalse, Goto, name
  <2>4. CASE name \notin transports
    BY <1>10, <2>1, <2>2, <2>4 DEF CreateInst, name
  <2> QED
    BY <2>3, <2>4
<1>11. ASSUME NEW m \in Managers, BindConfig(m)
      PROVE  TypeOK'
  BY <1>11 DEF BindConfig, ReturnTrue, Goto, registryVars, PlaceInv
<1>12. ASSUME NEW m \in Managers, Delete(m)
      PROVE  TypeOK'
  BY <1>12 DEF Delete, registryVars, threadVars
<1> QED
  BY <1>1, <1>2, <1>3, <1>4, <1>5, <1>6, <1>7, <1>8, <1>9, <1>10, <1>11, <1>12
  DEF Next, Join, Configure, Finished
\* A step keeps what a place in joinDomain says about its manager.
LEMMA PlaceStep ==
    ASSUME TypeOK, PlaceInv, [Next]_vars
    PROVE  PlaceInv'
<1> USE DEF TypeOK, PlaceInv, PCs
<1>1. ASSUME UNCHANGED vars
      PROVE  PlaceInv'
  BY <1>1 DEF vars, registryVars, managerVars, threadVars
<1>2. ASSUME NEW m \in Managers, NEW d \in Domains, JoinAgain(m, d)
      PROVE  PlaceInv'
  BY <1>2, JoinAssumption DEF JoinAgain, Start, registryVars, threadVars
<1>3. ASSUME NEW m \in Managers, JoinFail(m)
      PROVE  PlaceInv'
  BY <1>3 DEF JoinFail, Start, registryVars, threadVars
<1>4. ASSUME NEW m \in Managers, NEW d \in Domains,
             NEW c \in {"none", "known", "unknown"}, JoinCreate(m, d, c)
      PROVE  PlaceInv'
  BY <1>4, JoinAssumption DEF JoinCreate, Start, Goto, registryVars
<1>5. ASSUME NEW m \in Managers, ReadCount(m)
      PROVE  PlaceInv'
  BY <1>5 DEF ReadCount, Goto, registryVars, managerVars
<1>6. ASSUME NEW m \in Managers, WriteCount(m)
      PROVE  PlaceInv'
  BY <1>6 DEF WriteCount, ReturnTrue, ReturnFalse, Goto
<1>7. ASSUME NEW m \in Managers, NameConfig(m)
      PROVE  PlaceInv'
  BY <1>7, CurrentName DEF NameConfig, Goto, registryVars, managerVars
<1>8. ASSUME NEW m \in Managers, LookupConfig(m)
      PROVE  PlaceInv'
  BY <1>8 DEF LookupConfig, ReturnTrue, Goto, registryVars
<1>9. ASSUME NEW m \in Managers, CreateConfig(m)
      PROVE  PlaceInv'
  BY <1>9 DEF CreateConfig, ReturnFalse, Goto
<1>10. ASSUME NEW m \in Managers, CreateInst(m)
      PROVE  PlaceInv'
  BY <1>10 DEF CreateInst, ReturnFalse, Goto
<1>11. ASSUME NEW m \in Managers, BindConfig(m)
      PROVE  PlaceInv'
  BY <1>11 DEF BindConfig, ReturnTrue, Goto, registryVars
<1>12. ASSUME NEW m \in Managers, Delete(m)
      PROVE  PlaceInv'
  BY <1>12 DEF Delete, registryVars, threadVars
<1> QED
  BY <1>1, <1>2, <1>3, <1>4, <1>5, <1>6, <1>7, <1>8, <1>9, <1>10, <1>11, <1>12
  DEF Next, Join, Configure, Finished

\* The two values of bound that are no names.
LEMMA NotNames == NoConfig \notin Names /\ NamedConfig \notin Names
  BY JoinAssumption DEF Names

\* A step gives no manager a name another one has: the registry refuses it.
LEMMA OwnerStep ==
    ASSUME TypeOK, PlaceInv, OwnerInv, [Next]_vars
    PROVE  OwnerInv'
<1> USE DEF TypeOK, PlaceInv, OwnerInv, PCs
<1>1. ASSUME UNCHANGED vars
      PROVE  OwnerInv'
  BY <1>1 DEF vars, registryVars, managerVars, threadVars
<1>2. ASSUME NEW m \in Managers, NEW d \in Domains, JoinAgain(m, d)
      PROVE  OwnerInv'
  BY <1>2 DEF JoinAgain, Start, registryVars, threadVars
<1>3. ASSUME NEW m \in Managers, JoinFail(m)
      PROVE  OwnerInv'
  BY <1>3 DEF JoinFail, Start, registryVars, threadVars
<1>4. ASSUME NEW m \in Managers, NEW d \in Domains,
             NEW c \in {"none", "known", "unknown"}, JoinCreate(m, d, c)
      PROVE  OwnerInv'
  BY <1>4 DEF JoinCreate, Start, Goto, registryVars
<1>5. ASSUME NEW m \in Managers, ReadCount(m)
      PROVE  OwnerInv'
  BY <1>5 DEF ReadCount, Goto, registryVars, managerVars
<1>6. ASSUME NEW m \in Managers, WriteCount(m)
      PROVE  OwnerInv'
  BY <1>6, NotNames DEF WriteCount, ReturnTrue, ReturnFalse, Goto
<1>7. ASSUME NEW m \in Managers, NameConfig(m)
      PROVE  OwnerInv'
  BY <1>7, CurrentName DEF NameConfig, Goto, registryVars, managerVars
<1>8. ASSUME NEW m \in Managers, LookupConfig(m)
      PROVE  OwnerInv'
  BY <1>8 DEF LookupConfig, ReturnTrue, Goto, registryVars
<1>9. ASSUME NEW m \in Managers, CreateConfig(m)
      PROVE  OwnerInv'
  BY <1>9 DEF CreateConfig, ReturnFalse, Goto
<1>10. ASSUME NEW m \in Managers, CreateInst(m)
      PROVE  OwnerInv'
  <2> DEFINE name == <<participant[m], g_transportInstances[participant[m]]>>
  <2> HIDE DEF name
  <2>1. CASE name \in transports
    BY <1>10, <2>1 DEF CreateInst, ReturnFalse, Goto, name
  <2>2. CASE name \notin transports
    <3>1. /\ transports' = transports \cup {name}
          /\ carried' = [carried EXCEPT ![m] = carried[m] \cup {name}]
          /\ UNCHANGED <<configs, bound, configName, pc>>
      BY <1>10, <2>2 DEF CreateInst, name
    <3>2. \A n \in Managers : carried'[n] \subseteq transports'
      BY <3>1
    <3>3. \A n, k \in Managers : n # k => carried'[n] \cap carried'[k] = {}
      BY <2>2, <3>1
    <3> QED
      BY <3>1, <3>2, <3>3
  <2> QED
    BY <2>1, <2>2
<1>11. ASSUME NEW m \in Managers, BindConfig(m)
      PROVE  OwnerInv'
  BY <1>11, JoinAssumption DEF BindConfig, ReturnTrue, Goto, registryVars
<1>12. ASSUME NEW m \in Managers, Delete(m)
      PROVE  OwnerInv'
  BY <1>12, NotNames DEF Delete, registryVars, threadVars
<1> QED
  BY <1>1, <1>2, <1>3, <1>4, <1>5, <1>6, <1>7, <1>8, <1>9, <1>10, <1>11, <1>12
  DEF Next, Join, Configure, Finished

\* A step keeps the counter exact while managers join one at a time.
LEMMA SerialStep ==
    ASSUME TypeOK, PlaceInv, OwnerInv, SerialInv, [Next]_vars
    PROVE  SerialInv'
<1> USE DEF TypeOK, PlaceInv, SerialInv, PCs
<1>1. ASSUME UNCHANGED vars
      PROVE  SerialInv'
  BY <1>1 DEF vars, registryVars, managerVars, threadVars
<1>2. ASSUME NEW m \in Managers, NEW d \in Domains, JoinAgain(m, d)
      PROVE  SerialInv'
  BY <1>2 DEF JoinAgain, Start, registryVars, threadVars
<1>3. ASSUME NEW m \in Managers, JoinFail(m)
      PROVE  SerialInv'
  BY <1>3 DEF JoinFail, Start, registryVars, threadVars
<1>4. ASSUME NEW m \in Managers, NEW d \in Domains,
             NEW c \in {"none", "known", "unknown"}, JoinCreate(m, d, c)
      PROVE  SerialInv'
  BY ZenonT(60), <1>4 DEF JoinCreate, Start, Goto, registryVars
<1>5. ASSUME NEW m \in Managers, ReadCount(m)
      PROVE  SerialInv'
  BY <1>5 DEF ReadCount, Goto, registryVars, managerVars
<1>6. ASSUME NEW m \in Managers, WriteCount(m)
      PROVE  SerialInv'
  <2> DEFINE d == participant[m]
             name == <<d, g_transportInstances[d] + 1>>
  <2>1. d \in Domains /\ g_transportInstances[d] \in Nat
    BY <1>6, CurrentName DEF WriteCount
  <2>2. ASSUME ~raced
        PROVE  /\ g_transportInstances' =
                      [g_transportInstances EXCEPT ![d] = g_transportInstances[d] + 1]
               /\ name \notin configs \cup transports
               /\ \A c \in configs \cup transports :
                     c[2] <= g_transportInstances'[c[1]]
    <3>1. g_transportInstances' =
              [g_transportInstances EXCEPT ![d] = g_transportInstances[d] + 1]
      BY <1>6, <2>2 DEF WriteCount
    <3>2. name \notin configs \cup transports
      <4>1. name[1] = d /\ name[2] = g_transportInstances[d] + 1
        OBVIOUS
      <4> QED
        BY <2>1, <2>2, <4>1
    <3>3. ASSUME NEW c \in configs \cup transports
          PROVE  c[2] <= g_transportInstances'[c[1]]
      <4>1. c[1] \in Domains /\ c[2] \in Nat
        BY DEF Names
      <4>2. c[2] <= g_transportInstances[c[1]]
        BY <2>2
      <4> QED
        BY <2>1, <3>1, <4>1, <4>2
    <3> QED
      BY <3>1, <3>2, <3>3
  <2>3. ASSUME ~raced, NEW n \in Managers, pc'[n] # "idle"
        PROVE  n = m /\ pc'[n] = "name"
    BY <1>6, <2>3 DEF WriteCount, ReturnTrue, ReturnFalse, Goto
  <2>4. /\ configs' = configs /\ transports' = transports /\ raced' = raced
        /\ participant' = participant
    BY <1>6 DEF WriteCount
  <2>5. g_transportInstances[d] + 1 = g_transportInstances'[d] \/ raced
    BY <2>1, <2>2
  <2> HIDE DEF d, name
  <2> QED
    BY <2>2, <2>3, <2>4, <2>5 DEF d, name
<1>7. ASSUME NEW m \in Managers, NameConfig(m)
      PROVE  SerialInv'
  BY <1>7, CurrentName DEF NameConfig, Goto, registryVars, managerVars
<1>8. ASSUME NEW m \in Managers, LookupConfig(m)
      PROVE  SerialInv'
  BY <1>8 DEF LookupConfig, ReturnTrue, Goto, registryVars
<1>9. ASSUME NEW m \in Managers, CreateConfig(m)
      PROVE  SerialInv'
  <2> DEFINE d == participant[m]
             name == <<d, g_transportInstances[d]>>
  <2>1. name[1] = d /\ name[2] = g_transportInstances[d]
    OBVIOUS
  <2>2. d \in Domains /\ g_transportInstances[d] \in Nat
    BY <1>9, CurrentName DEF CreateConfig
  <2>3. ASSUME ~raced
        PROVE  configName[m] = name /\ configName[m] \notin configs
    BY <1>9, <2>3 DEF CreateConfig
  <2>4. ASSUME ~raced, NEW c \in configs \cup {name} \cup transports
        PROVE  c[2] <= g_transportInstances[c[1]]
    BY <2>1, <2>2, <2>4
  <2>5. ASSUME ~raced
        PROVE  configs' = configs \cup {name}
    BY <1>9, <2>3, <2>5 DEF CreateConfig
  <2>6. ASSUME ~raced, NEW n \in Managers, pc'[n] # "idle"
        PROVE  n = m /\ pc'[n] = "inst"
    BY <1>9, <2>3, <2>6 DEF CreateConfig, Goto
  <2>7. /\ transports' = transports /\ raced' = raced /\ participant' = participant
        /\ g_transportInstances' = g_transportInstances /\ configName' = configName
    BY <1>9 DEF CreateConfig
  <2> HIDE DEF name
  <2>8. ASSUME ~raced
        PROVE  \A c \in configs' \cup transports' :
                   c[2] <= g_transportInstances'[c[1]]
    BY <2>4, <2>5, <2>7, <2>8
  <2> QED
    BY <2>3, <2>6, <2>7, <2>8 DEF name
<1>10. ASSUME NEW m \in Managers, CreateInst(m)
      PROVE  SerialInv'
  BY <1>10 DEF CreateInst, ReturnFalse, Goto
<1>11. ASSUME NEW m \in Managers, BindConfig(m)
      PROVE  SerialInv'
  BY <1>11 DEF BindConfig, ReturnTrue, Goto, registryVars
<1>12. ASSUME NEW m \in Managers, Delete(m)
      PROVE  SerialInv'
  BY <1>12 DEF Delete, registryVars, threadVars
<1> QED
  BY <1>1, <1>2, <1>3, <1>4, <1>5, <1>6, <1>7, <1>8, <1>9, <1>10, <1>11, <1>12
  DEF Next, Join, Configure, Finished

\* A step that leaves joinDomain has bound the participant, or records why not.
LEMMA UsableStep ==
    ASSUME TypeOK, PlaceInv, OwnerInv, SerialInv, UsableInv, [Next]_vars
    PROVE  UsableInv'
<1> USE DEF TypeOK, PlaceInv, UsableInv, PCs
<1>1. ASSUME UNCHANGED vars
      PROVE  UsableInv'
  BY <1>1 DEF vars, registryVars, managerVars, threadVars
<1>2. ASSUME NEW m \in Managers, NEW d \in Domains, JoinAgain(m, d)
      PROVE  UsableInv'
  BY <1>2 DEF JoinAgain, Start, registryVars, threadVars
<1>3. ASSUME NEW m \in Managers, JoinFail(m)
      PROVE  UsableInv'
  BY <1>3 DEF JoinFail, Start, registryVars, threadVars
<1>4. ASSUME NEW m \in Managers, NEW d \in Domains,
             NEW c \in {"none", "known", "unknown"}, JoinCreate(m, d, c)
      PROVE  UsableInv'
  BY <1>4 DEF JoinCreate, Start, Goto, registryVars
<1>5. ASSUME NEW m \in Managers, ReadCount(m)
      PROVE  UsableInv'
  BY <1>5 DEF ReadCount, Goto, registryVars, managerVars
<1>6. ASSUME NEW m \in Managers, WriteCount(m)
      PROVE  UsableInv'
  BY <1>6 DEF WriteCount, ReturnTrue, ReturnFalse, Goto
<1>7. ASSUME NEW m \in Managers, NameConfig(m)
      PROVE  UsableInv'
  BY <1>7 DEF NameConfig, Goto, registryVars, managerVars
<1>8. ASSUME NEW m \in Managers, LookupConfig(m)
      PROVE  UsableInv'
  <2>1. ~raced => configName[m] \notin configs
    BY <1>8 DEF LookupConfig, SerialInv
  <2>2. CASE configName[m] \in configs
    BY <1>8, <2>1, <2>2 DEF LookupConfig, ReturnTrue, Goto, registryVars
  <2>3. CASE configName[m] \notin configs
    BY <1>8, <2>3 DEF LookupConfig, Goto, registryVars
  <2> QED
    BY <2>2, <2>3
<1>9. ASSUME NEW m \in Managers, CreateConfig(m)
      PROVE  UsableInv'
  BY <1>9 DEF CreateConfig, ReturnFalse, Goto
<1>10. ASSUME NEW m \in Managers, CreateInst(m)
      PROVE  UsableInv'
  BY <1>10 DEF CreateInst, ReturnFalse, Goto
<1>11. ASSUME NEW m \in Managers, BindConfig(m)
      PROVE  UsableInv'
  <2>1. configName[m] \in configs /\ (carried[m] = {} <=> rtps = 0)
    BY <1>11 DEF BindConfig, OwnerInv
  <2> QED
    BY <1>11, <2>1 DEF BindConfig, ReturnTrue, Goto, registryVars
<1>12. ASSUME NEW m \in Managers, Delete(m)
      PROVE  UsableInv'
  BY <1>12 DEF Delete, registryVars, threadVars
<1> QED
  BY <1>1, <1>2, <1>3, <1>4, <1>5, <1>6, <1>7, <1>8, <1>9, <1>10, <1>11, <1>12
  DEF Next, Join, Configure, Finished

\* Every step of every manager keeps the inductive invariant.
LEMMA NextInv == IInv /\ [Next]_vars => IInv'
  BY TypeStep, PlaceStep, OwnerStep, SerialStep, UsableStep DEF IInv

\* The inductive invariant holds in every reachable state: the registry's names
\* belong to one manager each, and the counter is exact until two managers join
\* at once.
THEOREM Invariance == Spec => []IInv
  BY InitInv, NextInv, PTL DEF Spec

\* The managers' places in joinDomain, the names of the registry and the counter
\* keep their types.
THEOREM TypeCorrect == Spec => []TypeOK
<1>1. IInv => TypeOK
  BY DEF IInv
<1> QED
  BY <1>1, Invariance, PTL

\* The INI file's instances are no names of the registry.
LEMMA IniIsApart ==
    ASSUME TypeOK, NEW m \in Managers
    PROVE  carried[m] \cap IniTransports = {}
<1>1. carried[m] \subseteq Domains \X Nat
  BY DEF TypeOK, Names
<1>2. NoConfig \notin Domains
  BY JoinAssumption
<1> QED
  BY <1>1, <1>2 DEF IniTransports

\* No RTPS transport made for one participant is used by another, not even when
\* managers join at the same time: the registry refuses a name that is taken,
\* and joinDomain does not bind a configuration it finds there.  Participants
\* share only the INI file's own, and only for the reasons OnIniFile names.
THEOREM TransportsAreUnique == Spec => []UniqueTransport
<1>1. ASSUME IInv
      PROVE  UniqueTransport
  <2> USE <1>1 DEF IInv
  <2>1. ASSUME NEW m \in Managers, NEW n \in Managers, m # n
        PROVE  carried[m] \cap carried[n] = {}
    BY <2>1 DEF OwnerInv
  <2>2. ASSUME NEW m \in Managers
        PROVE  \/ UsedBy(m) = carried[m]
               \/ UsedBy(m) = {}
               \/ UsedBy(m) = IniTransports /\ OnIniFile(m)
    <3>1. ASSUME participant[m] # NoDomain, pc[m] = "idle", bound[m] \notin Names
          PROVE  OnIniFile(m)
      BY <3>1 DEF TypeOK, OwnerInv, UsableInv, OnIniFile
    <3> QED
      BY <3>1 DEF UsedBy
  <2>3. ASSUME NEW m \in Managers, NEW n \in Managers, m # n,
               UsedBy(m) \cap UsedBy(n) # {}
        PROVE  OnIniFile(m) /\ OnIniFile(n)
    BY <2>1, <2>2, <2>3, IniIsApart
  <2> QED
    BY <2>3 DEF OwnerInv, UniqueTransport
<1> QED
  BY <1>1, Invariance, PTL

\* A joinDomain that returns true has bound the participant, unless an earlier
\* one failed half-way or two managers have been joining at once.
THEOREM JoinsBind == Spec => []JoinedIsBound
<1>1. IInv => JoinedIsBound
  BY DEF IInv, TypeOK, PlaceInv, UsableInv, JoinedIsBound
<1> QED
  BY <1>1, Invariance, PTL

\* One manager at a time, the counter is ahead of every name in the registry.
THEOREM CounterIsAhead == Spec => []CounterCovers
<1>1. IInv => CounterCovers
  BY DEF IInv, SerialInv, CounterCovers
<1> QED
  BY <1>1, Invariance, PTL

=============================================================================
