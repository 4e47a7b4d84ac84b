------------------------ MODULE SimpleManagerProofs -------------------------
(***************************************************************************)
(* Theorems about SimpleManager, for any number of threads, topics, reader *)
(* names, rates and calls.                                                 *)
(*                                                                         *)
(* The invariant is stated topic by topic (TopicInv), since a step of a    *)
(* call is about one topic and leaves the others as they are (TopicFrame). *)
(***************************************************************************)
EXTENDS SimpleManager, TLAPS

-----------------------------------------------------------------------------
(* The inductive invariant.                                                *)

\* The groups of a topic that some call has made by now.
GroupsOf(t) == {g \in Groups : g[1] = t /\ g[2] <= makings + changes}

\* Thread a is in registerTopic for a topic that it did not find, and has
\* stored its group.
Inside == {"topic", "store", "lookup", "check", "reader", "writer", "preset"}
In(a, t) == call[a].op \in Operations /\ call[a].topic = t /\ call[a].at \in Inside
Stored(a, t) == In(a, t) /\ call[a].at \notin {"topic", "store"}

\* Whatever refers to a group refers to one of its topic that was made.
RefInv ==
    /\ \A t \in Topics : m_topics[t] # NoGroup => m_topics[t] \in GroupsOf(t)
    /\ \A a \in Threads, t \in Topics :
          /\ In(a, t) => call[a].group \in GroupsOf(t)
          /\ Stored(a, t) => m_topics[t] # NoGroup
    /\ \A a \in Threads : call[a].op = "setMaxDataRate" =>
          /\ call[a].group \in GroupsOf(call[a].topic)
          /\ m_topics[call[a].topic] # NoGroup
          /\ readers[call[a].group][call[a].name] # NoEntity
    /\ \A a \in Threads : call[a].op = "Listener" => call[a].name = Generated
    /\ \A g \in Groups : topic[g] => g \in GroupsOf(g[1])

-----------------------------------------------------------------------------
(* Types.                                                                  *)

\* Times are in range; a rate below a second is kept as it is.
LEMMA RateFacts ==
    /\ 0 \in Separations
    /\ \A rate \in Rates : Separation(rate) \in Separations
    /\ \A rate \in Rates : rate < 1000 =>
          ValidSeparation(Separation(rate)) /\ Separation(rate) = rate * 15625
<1>1. /\ 0 \in Separations
      /\ \A rate \in Rates : Separation(rate) \in Separations
  BY SMT, SimpleAssumption DEF Separation, Separations
<1>2. ASSUME NEW rate \in Rates, rate < 1000
      PROVE  ValidSeparation(Separation(rate)) /\ Separation(rate) = rate * 15625
  <2>1. rate \in Nat /\ rate * 15625 \in Nat
    BY SMT, SimpleAssumption
  <2>2. rate * 15625 < 15625000
    BY SMT, <1>2, <2>1
  <2> QED
    BY SMT, <2>1, <2>2 DEF Separation, ValidSeparation
<1> QED
  BY SMT, <1>1, <1>2

\* No two of the things that are told apart are equal.
LEMMA Facts ==
    /\ Offered \subseteq Presets /\ MaxMakings \in Nat /\ MaxChanges \in Nat
    /\ NoTopic \notin Topics /\ Generated \in Names /\ NoGroup \notin Groups
    /\ DefaultPreset \in Presets /\ NoPreset \notin Presets
    /\ \A q \in Presets : New(q) \in Endpoint /\ New(q) # NoEntity /\ New(q).qos = q
    /\ \A e \in Endpoint : e # NoEntity
    /\ \A b \in BOOLEAN : b # NoEntity
<1>1. /\ Offered \subseteq Presets /\ MaxMakings \in Nat /\ MaxChanges \in Nat
      /\ NoTopic \notin Topics /\ Generated \in Names /\ NoGroup \notin Groups
  BY SMT, SimpleAssumption, NothingAssumption
<1>2. DefaultPreset \in Presets /\ NoPreset \notin Presets
  BY DEF DefaultPreset, NoPreset, Presets
<1>3. /\ \A e \in Endpoint : e # NoEntity
      /\ \A b \in BOOLEAN : b # NoEntity
  BY NothingAssumption
<1>4. \A q \in Presets : New(q) \in Endpoint /\ New(q) # NoEntity /\ New(q).qos = q
  BY RateFacts, <1>3, SMT DEF New, Endpoint
<1> QED
  BY <1>1, <1>2, <1>3, <1>4

\* The initial state has the types.
LEMMA InitType == Init => TypeOK
<1> SUFFICES ASSUME Init
             PROVE  TypeOK
  OBVIOUS
<1>1. /\ readers \in [Groups -> [Names -> Endpoint \cup {NoEntity}]]
      /\ promised \in [Groups -> [Names -> Rates \cup {0}]]
  BY DEF Init
<1>2. odd \in [Topics -> SUBSET Oddities]
  BY DEF Init
<1>3. makings \in 0..MaxMakings /\ changes \in 0..MaxChanges
  BY Facts DEF Init
<1>4. /\ dataReaderQos \in [Groups -> Presets] /\ dataWriterQos \in [Groups -> Presets]
      /\ qosPreset \in [Groups -> Presets \cup {NoPreset}]
  BY Facts DEF Init
<1> QED
  BY <1>1, <1>2, <1>3, <1>4 DEF Init, TypeOK

\* A call of either kind.
LEMMA CallType ==
    ASSUME TypeOK, NEW a \in Threads
    PROVE  /\ call[a].op \in Operations => call[a] \in Making
           /\ call[a].op = "setMaxDataRate" => call[a] \in Rating
           /\ call[a] = Idle => call[a].op \notin Operations \cup {"setMaxDataRate"}
<1>1. call[a] \in {Idle} \cup Making \cup Rating
  BY DEF TypeOK
<1> QED
  BY <1>1 DEF Idle, Making, Rating, Operations

\* A group that is made now is a new one.
LEMMA GroupOfType ==
    ASSUME TypeOK, RefInv, NEW t \in Topics,
           makings < MaxMakings \/ changes < MaxChanges \/ m_topics[t] # NoGroup
    PROVE  /\ GroupOf(t) \in Groups /\ GroupOf(t)[1] = t
           /\ m_topics[t] # NoGroup => GroupOf(t) = m_topics[t]
           /\ m_topics[t] = NoGroup => GroupOf(t)[2] = makings + changes + 1
<1>1. CASE m_topics[t] # NoGroup
  BY <1>1 DEF GroupOf, RefInv, GroupsOf
<1>2. CASE m_topics[t] = NoGroup
  <2>1. makings + changes + 1 \in 1..MaxMakings + MaxChanges
    BY <1>2, Facts DEF TypeOK
  <2> QED
    BY <1>2, <2>1 DEF GroupOf, Groups
<1> QED
  BY <1>1, <1>2

\* What the steps of a call do to it.
LEMMA CallSteps ==
    ASSUME TypeOK, NEW a \in Threads
    PROVE  /\ \A at : Goto(a, at) =>
                 /\ call'[a] = [call[a] EXCEPT !.at = at]
                 /\ \A b \in Threads : b # a => call'[b] = call[b]
           /\ ToCreate(a) =>
                 /\ call'[a] = [call[a] EXCEPT !.at = "create", !.group = NoGroup]
                 /\ \A b \in Threads : b # a => call'[b] = call[b]
           /\ Return(a) =>
                 /\ call'[a] = Idle
                 /\ \A b \in Threads : b # a => call'[b] = call[b]
BY DEF Goto, ToCreate, Return, TypeOK

\* And what becomes of its fields.
LEMMA GotoCall ==
    ASSUME TypeOK, NEW a \in Threads, call[a].op \in Operations,
           NEW at \in Inside \cup {"create", "listen"}, Goto(a, at)
    PROVE  /\ call'[a].op = call[a].op /\ call'[a].topic = call[a].topic
           /\ call'[a].name = call[a].name /\ call'[a].qos = call[a].qos
           /\ call'[a].group = call[a].group /\ call'[a].at = at
           /\ call'[a] \in Making
           /\ \A b \in Threads : b # a => call'[b] = call[b]
           /\ call' \in [Threads -> {Idle} \cup Making \cup Rating]
<1>1. call[a] \in Making
  BY CallType
<1>2. [call[a] EXCEPT !.at = at] \in Making
  BY <1>1 DEF Making, Inside
<1> QED
  BY <1>1, <1>2, CallSteps DEF Making, Goto, TypeOK

\* When registerTopic returns.
LEMMA ToCreateCall ==
    ASSUME TypeOK, NEW a \in Threads, call[a].op \in Operations, ToCreate(a)
    PROVE  /\ call'[a].op = call[a].op /\ call'[a].topic = call[a].topic
           /\ call'[a].name = call[a].name /\ call'[a].qos = call[a].qos
           /\ call'[a].at = "create" /\ call'[a] \in Making
           /\ \A b \in Threads : b # a => call'[b] = call[b]
           /\ call' \in [Threads -> {Idle} \cup Making \cup Rating]
<1>1. call[a] \in Making
  BY CallType
<1>2. call'[a] = [call[a] EXCEPT !.at = "create", !.group = NoGroup]
  BY CallSteps
<1>3. call'[a] \in Making
  BY <1>1, <1>2 DEF Making
<1> QED
  BY <1>1, <1>2, <1>3, CallSteps DEF Making, ToCreate, TypeOK

\* When the call returns.
LEMMA ReturnCall ==
    ASSUME TypeOK, NEW a \in Threads, Return(a)
    PROVE  /\ call'[a].op \notin Operations \cup {"setMaxDataRate"}
           /\ \A b \in Threads : b # a => call'[b] = call[b]
           /\ call' \in [Threads -> {Idle} \cup Making \cup Rating]
BY CallSteps DEF Return, TypeOK, Idle, Operations

\* A call of registerTopic begins.
LEMMA RegisterCall ==
    ASSUME TypeOK, RefInv, NEW a \in Threads, NEW op \in Operations, NEW t \in Topics,
           NEW n \in Given, NEW q \in Offered, RegisterTopic(a, op, t, n, q)
    PROVE  /\ call[a].op \notin Operations \cup {"setMaxDataRate"}
           /\ call'[a].op = op /\ call'[a].topic = t /\ call'[a].qos = q
           /\ call'[a].name = GenerateReaderName(n)
           /\ call'[a].group = IF Registered(t) THEN NoGroup ELSE GroupOf(t)
           /\ call'[a].at = IF Registered(t) THEN "create" ELSE "topic"
           /\ call'[a] \in Making
           /\ \A b \in Threads : b # a => call'[b] = call[b]
           /\ call' \in [Threads -> {Idle} \cup Making \cup Rating]
<1> DEFINE new == [op |-> op, topic |-> t, name |-> GenerateReaderName(n), qos |-> q,
                   group |-> IF Registered(t) THEN NoGroup ELSE GroupOf(t),
                   at |-> IF Registered(t) THEN "create" ELSE "topic"]
<1>1. call' = [call EXCEPT ![a] = new] /\ call[a] = Idle /\ makings < MaxMakings
  BY DEF RegisterTopic, BeginMaking
<1>2. GroupOf(t) \in Groups
  BY <1>1, GroupOfType
<1>3. GenerateReaderName(n) \in Names /\ q \in Presets
  BY Facts DEF GenerateReaderName, Given
<1>4. new \in Making
  BY <1>2, <1>3 DEF Making
<1>5. new.op = op /\ new.topic = t /\ new.name = GenerateReaderName(n) /\ new.qos = q
      /\ new.group = (IF Registered(t) THEN NoGroup ELSE GroupOf(t))
      /\ new.at = (IF Registered(t) THEN "create" ELSE "topic")
  OBVIOUS
<1> HIDE DEF new
<1>6. call'[a] = new /\ \A b \in Threads : b # a => call'[b] = call[b]
  BY <1>1 DEF TypeOK
<1> QED
  BY <1>1, <1>4, <1>5, <1>6, CallType DEF TypeOK

\* A call of setMaxDataRate begins ...
LEMMA RateCall ==
    ASSUME TypeOK, RefInv, NEW a \in Threads, NEW t \in Topics, NEW n \in Names,
           NEW rate \in Rates, GetReader(a, t, n, rate)
    PROVE  /\ call[a].op \notin Operations \cup {"setMaxDataRate"}
           /\ call'[a].op = "setMaxDataRate" /\ call'[a].op \notin Operations
           /\ call'[a].topic = t /\ call'[a].name = n /\ call'[a].rate = rate
           /\ call'[a].group = m_topics[t] /\ call'[a].at = "get"
           /\ m_topics[t] # NoGroup /\ readers[m_topics[t]][n] # NoEntity
           /\ \A b \in Threads : b # a => call'[b] = call[b]
           /\ call' \in [Threads -> {Idle} \cup Making \cup Rating]
<1> DEFINE new == [op |-> "setMaxDataRate", topic |-> t, name |-> n, rate |-> rate,
                   group |-> m_topics[t], qos |-> DefaultPreset, at |-> "get"]
<1>1. call' = [call EXCEPT ![a] = new] /\ call[a] = Idle
  BY DEF GetReader, BeginChange
<1>2. m_topics[t] # NoGroup /\ readers[m_topics[t]][n] # NoEntity
  BY DEF GetReader, ReaderOf
<1>3. m_topics[t] \in Groups
  BY <1>2 DEF TypeOK
<1>4. new \in Rating
  BY <1>3, Facts DEF Rating
<1>5. new.op = "setMaxDataRate" /\ new.topic = t /\ new.name = n /\ new.rate = rate
      /\ new.group = m_topics[t] /\ new.at = "get"
  OBVIOUS
<1> HIDE DEF new
<1>6. call'[a] = new /\ \A b \in Threads : b # a => call'[b] = call[b]
  BY <1>1 DEF TypeOK
<1> QED
  BY <1>1, <1>2, <1>4, <1>5, <1>6, CallType DEF TypeOK, Operations

\* ... and goes on.
LEMMA RatingCall ==
    ASSUME TypeOK, RefInv, NEW a \in Threads, GetReaderQos(a)
    PROVE  /\ call[a] \in Rating /\ call'[a] \in Rating
           /\ call'[a].op = "setMaxDataRate" /\ call[a].op = "setMaxDataRate"
           /\ call'[a].topic = call[a].topic /\ call'[a].name = call[a].name
           /\ call'[a].rate = call[a].rate /\ call'[a].group = call[a].group
           /\ call'[a].at = "set"
           /\ call'[a].qos = dataReaderQos[m_topics[call[a].topic]]
           /\ \A b \in Threads : b # a => call'[b] = call[b]
           /\ call' \in [Threads -> {Idle} \cup Making \cup Rating]
<1>1. call[a].op = "setMaxDataRate" /\ call[a] \in Rating
  BY CallType DEF GetReaderQos, At
<1>2. m_topics[call[a].topic] \in Groups
  BY <1>1 DEF RefInv, TypeOK, Rating
<1>3. dataReaderQos[m_topics[call[a].topic]] \in Presets
  BY <1>2 DEF TypeOK
<1> DEFINE q == dataReaderQos[m_topics[call[a].topic]]
           new == [call[a] EXCEPT !.at = "set", !.qos = q]
<1>4. call' = [call EXCEPT ![a] = new]
  BY DEF GetReaderQos
<1> HIDE DEF q
<1>5. new \in Rating
  BY <1>1, <1>3 DEF Rating, q
<1>6. /\ new.op = call[a].op /\ new.topic = call[a].topic /\ new.name = call[a].name
      /\ new.rate = call[a].rate /\ new.group = call[a].group
      /\ new.at = "set" /\ new.qos = q
  BY <1>1 DEF Rating
<1> HIDE DEF new
<1>7. call'[a] = new /\ \A b \in Threads : b # a => call'[b] = call[b]
  BY <1>4 DEF TypeOK
<1> QED
  BY <1>1, <1>4, <1>5, <1>6, <1>7 DEF TypeOK, q

\* registerQos begins.
LEMMA LookupCall ==
    ASSUME TypeOK, RefInv, NEW a \in Threads, RegisterQos(a)
    PROVE  /\ call'[a].op = call[a].op /\ call'[a].topic = call[a].topic
           /\ call'[a].name = call[a].name /\ call'[a].qos = call[a].qos
           /\ call'[a].group = m_topics[call[a].topic] /\ call'[a].at = "check"
           /\ call'[a] \in Making
           /\ \A b \in Threads : b # a => call'[b] = call[b]
           /\ call' \in [Threads -> {Idle} \cup Making \cup Rating]
<1>1. call[a] \in Making
  BY CallType DEF RegisterQos, At
<1>2. m_topics[call[a].topic] \in Groups \cup {NoGroup}
  BY <1>1 DEF TypeOK, Making
<1> DEFINE g == m_topics[call[a].topic]
           new == [call[a] EXCEPT !.at = "check", !.group = g]
<1>3. call' = [call EXCEPT ![a] = new]
  BY DEF RegisterQos
<1> HIDE DEF g
<1>4. new \in Making
  BY <1>1, <1>2 DEF Making, g
<1>5. /\ new.op = call[a].op /\ new.topic = call[a].topic /\ new.name = call[a].name
      /\ new.qos = call[a].qos /\ new.group = g /\ new.at = "check"
  BY <1>1 DEF Making
<1> HIDE DEF new
<1>6. call'[a] = new /\ \A b \in Threads : b # a => call'[b] = call[b]
  BY <1>3 DEF TypeOK
<1> QED
  BY <1>3, <1>4, <1>5, <1>6 DEF TypeOK, g

\* set_qos leaves readers what they are.
LEMMA TakeType ==
    ASSUME TypeOK, NEW g \in Groups, NEW q \in Presets
    PROVE  /\ ReadersTake(g, q) \in [Names -> Endpoint \cup {NoEntity}]
           /\ \A n \in Names :
                 /\ ReadersTake(g, q)[n] = NoEntity <=> readers[g][n] = NoEntity
                 /\ readers[g][n] # NoEntity =>
                       ReadersTake(g, q)[n].qos = readers[g][n].qos
<1>1. ASSUME NEW n \in Names
      PROVE  /\ ReadersTake(g, q)[n] \in Endpoint \cup {NoEntity}
             /\ ReadersTake(g, q)[n] = NoEntity <=> readers[g][n] = NoEntity
             /\ readers[g][n] # NoEntity => ReadersTake(g, q)[n].qos = readers[g][n].qos
  <2>1. readers[g][n] \in Endpoint \cup {NoEntity}
    BY DEF TypeOK
  <2>2. CASE readers[g][n] = NoEntity
    BY <2>2 DEF ReadersTake
  <2>3. CASE readers[g][n] # NoEntity
    <3>1. readers[g][n] \in Endpoint
      BY <2>1, <2>3
    <3>2. [readers[g][n] EXCEPT !.separation = 0] \in Endpoint
      BY <3>1, RateFacts DEF Endpoint
    <3>3. [readers[g][n] EXCEPT !.separation = 0].qos = readers[g][n].qos
      BY <3>1 DEF Endpoint
    <3>4. ReadersTake(g, q)[n] \in {readers[g][n], [readers[g][n] EXCEPT !.separation = 0]}
      BY DEF ReadersTake
    <3> QED
      BY <2>3, <3>1, <3>2, <3>3, <3>4, Facts
  <2> QED
    BY <2>2, <2>3
<1> QED
  BY <1>1 DEF ReadersTake

\* setReaderQos and setWriterQos, which may make a group.
LEMMA SetReaderDoes ==
    ASSUME TypeOK, NEW t \in Topics, NEW q \in Presets, GroupOf(t) \in Groups,
           SetReaderQos(t, q)
    PROVE  LET g == GroupOf(t) IN
           /\ m_topics'[t] = g /\ \A u \in Topics : u # t => m_topics'[u] = m_topics[u]
           /\ dataReaderQos'[g] = q
           /\ readers'[g] = ReadersTake(g, q)
           /\ promised'[g] = [n \in Names |-> 0]
           /\ \A h \in Groups : h # g =>
                 /\ dataReaderQos'[h] = dataReaderQos[h] /\ readers'[h] = readers[h]
                 /\ promised'[h] = promised[h]
           /\ m_topics' \in [Topics -> Groups \cup {NoGroup}]
           /\ dataReaderQos' \in [Groups -> Presets]
           /\ readers' \in [Groups -> [Names -> Endpoint \cup {NoEntity}]]
           /\ promised' \in [Groups -> [Names -> Rates \cup {0}]]
<1> DEFINE g == GroupOf(t)
<1>1. /\ m_topics' = [m_topics EXCEPT ![t] = g]
      /\ dataReaderQos' = [dataReaderQos EXCEPT ![g] = q]
      /\ readers' = [readers EXCEPT ![g] = ReadersTake(g, q)]
      /\ promised' = [promised EXCEPT ![g] = [n \in Names |-> 0]]
  BY DEF SetReaderQos
<1>2. ReadersTake(g, q) \in [Names -> Endpoint \cup {NoEntity}]
  BY TakeType
<1> HIDE DEF g
<1> QED
  BY <1>1, <1>2 DEF TypeOK, g

\* setWriterQos does so too.
LEMMA SetWriterDoes ==
    ASSUME TypeOK, NEW t \in Topics, NEW q \in Presets, GroupOf(t) \in Groups,
           SetWriterQos(t, q)
    PROVE  LET g == GroupOf(t) IN
           /\ m_topics'[t] = g /\ \A u \in Topics : u # t => m_topics'[u] = m_topics[u]
           /\ dataWriterQos'[g] = q
           /\ \A h \in Groups : h # g => dataWriterQos'[h] = dataWriterQos[h]
           /\ m_topics' \in [Topics -> Groups \cup {NoGroup}]
           /\ dataWriterQos' \in [Groups -> Presets]
<1> DEFINE g == GroupOf(t)
<1>1. /\ m_topics' = [m_topics EXCEPT ![t] = g]
      /\ dataWriterQos' = [dataWriterQos EXCEPT ![g] = q]
  BY DEF SetWriterQos
<1> HIDE DEF g
<1> QED
  BY <1>1 DEF TypeOK, g

\* In registerQos the group that is set is the one that is there.
LEMMA StoredGroup ==
    ASSUME TypeOK, RefInv, NEW a \in Threads, call[a].op \in Operations,
           call[a].at \in {"lookup", "check", "reader", "writer", "preset"}
    PROVE  LET t == call[a].topic IN
           /\ t \in Topics /\ call[a].qos \in Presets /\ Stored(a, t) /\ In(a, t)
           /\ m_topics[t] \in Groups /\ GroupOf(t) = m_topics[t]
           /\ call[a].group \in Groups
<1>1. call[a] \in Making
  BY CallType
<1>2. call[a].topic \in Topics /\ call[a].qos \in Presets
  BY <1>1 DEF Making
<1>3. Stored(a, call[a].topic) /\ In(a, call[a].topic)
  BY DEF Stored, In, Inside
<1> QED
  BY <1>2, <1>3 DEF RefInv, GroupsOf, GroupOf

\* What was noted stays so.
LEMMA NotedDoes ==
    ASSUME TypeOK, NEW t \in Topics, NEW s \in SUBSET Oddities, Noted(t, s)
    PROVE  /\ odd'[t] = odd[t] \cup s
           /\ \A u \in Topics : u # t => odd'[u] = odd[u]
           /\ odd' \in [Topics -> SUBSET Oddities]
BY DEF Noted, TypeOK

\* A call that begins is counted.
LEMMA BeginDoes ==
    ASSUME TypeOK, NEW a \in Threads, BeginMaking(a) \/ BeginChange(a)
    PROVE  /\ makings' + changes' = makings + changes + 1
           /\ makings' \in 0..MaxMakings /\ changes' \in 0..MaxChanges
           /\ call[a] = Idle /\ (makings < MaxMakings \/ changes < MaxChanges)
<1>1. /\ makings \in Nat /\ changes \in Nat
      /\ makings <= MaxMakings /\ changes <= MaxChanges
  BY Facts DEF TypeOK
<1>2. CASE BeginMaking(a)
  BY <1>1, <1>2, Facts DEF BeginMaking
<1>3. CASE BeginChange(a)
  BY <1>1, <1>3, Facts DEF BeginChange
<1> QED
  BY <1>2, <1>3

\* Every step keeps the types.
LEMMA TypeStep ==
    ASSUME TypeOK, RefInv, [Next]_vars
    PROVE  TypeOK'
<1> USE DEF settings, entities, maps, calls
<1>0. Offered \subseteq Presets
  BY Facts
<1>1. ASSUME NEW a \in Threads, NEW op \in Operations, NEW t \in Topics,
             NEW n \in Given, NEW q \in Offered, RegisterTopic(a, op, t, n, q)
      PROVE  TypeOK'
  <2>1. call' \in [Threads -> {Idle} \cup Making \cup Rating]
    BY <1>1, RegisterCall
  <2>2. makings' \in 0..MaxMakings /\ changes' \in 0..MaxChanges
    BY <1>1, BeginDoes DEF RegisterTopic
  <2>3. odd' \in [Topics -> SUBSET Oddities]
    <3>1. PICK s \in SUBSET Oddities : Noted(t, s)
      BY <1>1 DEF RegisterTopic, Oddities
    <3> QED
      BY <3>1, NotedDoes
  <2> QED
    BY <1>1, <2>1, <2>2, <2>3 DEF RegisterTopic, TypeOK
<1>2. ASSUME NEW a \in Threads, NEW t \in Topics, NEW q \in Offered,
             CustomReaderQos(a, t, q)
      PROVE  TypeOK'
  <2>1. makings' \in 0..MaxMakings /\ changes' \in 0..MaxChanges /\ GroupOf(t) \in Groups
    BY <1>2, BeginDoes, GroupOfType DEF CustomReaderQos
  <2>2. odd' \in [Topics -> SUBSET Oddities]
    <3>1. PICK s \in SUBSET Oddities : Noted(t, s)
      BY <1>2 DEF CustomReaderQos, Oddities
    <3> QED
      BY <3>1, NotedDoes
  <2> QED
    BY <1>0, <1>2, <2>1, <2>2, SetReaderDoes DEF CustomReaderQos, TypeOK
<1>3. ASSUME NEW a \in Threads, NEW t \in Topics, NEW q \in Offered,
             CustomWriterQos(a, t, q)
      PROVE  TypeOK'
  <2>1. makings' \in 0..MaxMakings /\ changes' \in 0..MaxChanges /\ GroupOf(t) \in Groups
    BY <1>3, BeginDoes, GroupOfType DEF CustomWriterQos
  <2>2. odd' \in [Topics -> SUBSET Oddities]
    <3>1. PICK s \in SUBSET Oddities : Noted(t, s)
      BY <1>3 DEF CustomWriterQos, Oddities
    <3> QED
      BY <3>1, NotedDoes
  <2> QED
    BY <1>0, <1>3, <2>1, <2>2, SetWriterDoes DEF CustomWriterQos, TypeOK
<1>4. ASSUME NEW a \in Threads, NEW made \in BOOLEAN, CreateTopic(a, made)
      PROVE  TypeOK'
  <2>1. call' \in [Threads -> {Idle} \cup Making \cup Rating]
    BY <1>4, GotoCall, ToCreateCall DEF CreateTopic, At, Inside
  <2> QED
    BY <1>4, <2>1 DEF CreateTopic, TypeOK
<1>5. ASSUME NEW a \in Threads, StoreTopic(a)
      PROVE  TypeOK'
  <2>1. call' \in [Threads -> {Idle} \cup Making \cup Rating]
    BY <1>5, GotoCall DEF StoreTopic, At, Inside
  <2>2. call[a] \in Making
    BY <1>5, CallType DEF StoreTopic, At
  <2>3. call[a].group \in Groups \cup {NoGroup}
    BY <2>2 DEF Making
  <2> QED
    BY <1>5, <2>1, <2>3 DEF StoreTopic, TypeOK
<1>6. ASSUME NEW a \in Threads, RegisterQos(a)
      PROVE  TypeOK'
  BY <1>6, LookupCall DEF RegisterQos, TypeOK
<1>7. ASSUME NEW a \in Threads, CheckPreset(a)
      PROVE  TypeOK'
  <2>1. call' \in [Threads -> {Idle} \cup Making \cup Rating]
    BY <1>7, GotoCall, ToCreateCall DEF CheckPreset, At, Inside
  <2> QED
    BY <1>7, <2>1 DEF CheckPreset, TypeOK
<1>8. ASSUME NEW a \in Threads, RegisterReaderQos(a)
      PROVE  TypeOK'
  <2>1. call' \in [Threads -> {Idle} \cup Making \cup Rating]
    BY <1>8, GotoCall DEF RegisterReaderQos, At, Inside
  <2>2. call[a].topic \in Topics /\ call[a].qos \in Presets /\ GroupOf(call[a].topic) \in Groups
    BY <1>8, StoredGroup DEF RegisterReaderQos, At
  <2>3. SetReaderQos(call[a].topic, call[a].qos)
    BY <1>8 DEF RegisterReaderQos
  <2> QED
    BY <1>8, <2>1, <2>2, <2>3, SetReaderDoes DEF RegisterReaderQos, TypeOK
<1>9. ASSUME NEW a \in Threads, RegisterWriterQos(a)
      PROVE  TypeOK'
  <2>1. call' \in [Threads -> {Idle} \cup Making \cup Rating]
    BY <1>9, GotoCall DEF RegisterWriterQos, At, Inside
  <2>2. call[a].topic \in Topics /\ call[a].qos \in Presets /\ GroupOf(call[a].topic) \in Groups
    BY <1>9, StoredGroup DEF RegisterWriterQos, At
  <2>3. SetWriterQos(call[a].topic, call[a].qos)
    BY <1>9 DEF RegisterWriterQos
  <2> QED
    BY <1>9, <2>1, <2>2, <2>3, SetWriterDoes DEF RegisterWriterQos, TypeOK
<1>10. ASSUME NEW a \in Threads, RegisterPreset(a)
       PROVE  TypeOK'
  <2>1. call' \in [Threads -> {Idle} \cup Making \cup Rating]
    BY <1>10, ToCreateCall DEF RegisterPreset, At
  <2>2. call[a].qos \in Presets
    BY <1>10, StoredGroup DEF RegisterPreset, At
  <2> QED
    BY <1>10, <2>1, <2>2 DEF RegisterPreset, TypeOK
<1>11. ASSUME NEW a \in Threads, NEW made \in 0..2, CreatePublisher(a, made)
       PROVE  TypeOK'
  <2>1. call' \in [Threads -> {Idle} \cup Making \cup Rating]
    BY <1>11, ReturnCall DEF CreatePublisher
  <2>2. call[a].topic \in Topics
    BY <1>11, CallType DEF CreatePublisher, At, Making, Operations
  <2>3. odd' \in [Topics -> SUBSET Oddities]
    <3>1. PICK s \in SUBSET Oddities : Noted(call[a].topic, s)
      BY <1>11 DEF CreatePublisher, Oddities, Early
    <3> QED
      BY <2>2, <3>1, NotedDoes
  <2>4. /\ publisher' \in [Groups -> BOOLEAN \cup {NoEntity}]
        /\ writer' \in [Groups -> Endpoint \cup {NoEntity}]
        /\ m_pubMap' \in Topics \cup {NoTopic}
    <3> DEFINE g == m_topics[call[a].topic]
    <3>1. Registered(call[a].topic) =>
             partitioned[g] \in BOOLEAN /\ New(dataWriterQos[g]) \in Endpoint
      BY <2>2, Facts DEF Registered, TypeOK
    <3> QED
      BY <1>11, <2>2, <3>1 DEF CreatePublisher, TypeOK
  <2> QED
    BY <1>11, <2>1, <2>3, <2>4 DEF CreatePublisher, TypeOK
<1>12. ASSUME NEW a \in Threads, NEW made \in 0..2, CreateSubscriber(a, made)
       PROVE  TypeOK'
  <2>1. call[a].op \in Operations
    BY <1>12 DEF CreateSubscriber, At
  <2>2. call' \in [Threads -> {Idle} \cup Making \cup Rating]
    BY <1>12, <2>1, ReturnCall, GotoCall DEF CreateSubscriber
  <2>3. call[a].topic \in Topics /\ call[a].name \in Names
    BY <2>1, CallType DEF Making
  <2>4. odd' \in [Topics -> SUBSET Oddities]
    <3>1. PICK s \in SUBSET Oddities : Noted(call[a].topic, s)
      BY <1>12 DEF CreateSubscriber, Oddities, Early
    <3> QED
      BY <2>3, <3>1, NotedDoes
  <2>5. /\ subscriber' \in [Groups -> BOOLEAN \cup {NoEntity}]
        /\ readers' \in [Groups -> [Names -> Endpoint \cup {NoEntity}]]
        /\ m_subMap' \in Topics \cup {NoTopic}
    <3> DEFINE g == m_topics[call[a].topic]
    <3>1. Registered(call[a].topic) =>
             partitioned[g] \in BOOLEAN /\ New(dataReaderQos[g]) \in Endpoint
      BY <2>3, Facts DEF Registered, TypeOK
    <3> QED
      BY <1>12, <2>3, <3>1 DEF CreateSubscriber, TypeOK
  <2> QED
    BY <1>12, <2>2, <2>4, <2>5 DEF CreateSubscriber, TypeOK
<1>13. ASSUME NEW a \in Threads, SetListener(a)
       PROVE  TypeOK'
  <2>1. crashed' \in BOOLEAN
    BY <1>13, Zenon DEF SetListener
  <2> QED
    BY <1>13, <2>1, ReturnCall DEF SetListener, TypeOK
<1>14. ASSUME NEW a \in Threads, NEW t \in Topics, AddPartition(a, t)
       PROVE  TypeOK'
  <2>1. makings' \in 0..MaxMakings /\ changes' \in 0..MaxChanges
    BY <1>14, BeginDoes DEF AddPartition
  <2>2. odd' \in [Topics -> SUBSET Oddities]
    <3>1. PICK s \in SUBSET Oddities : Noted(t, s)
      BY <1>14 DEF AddPartition, Oddities
    <3> QED
      BY <3>1, NotedDoes
  <2> QED
    BY <1>14, <2>1, <2>2 DEF AddPartition, TypeOK
<1>15. ASSUME NEW a \in Threads, NEW t \in Topics, NEW n \in Names, NEW rate \in Rates,
              GetReader(a, t, n, rate)
       PROVE  TypeOK'
  <2>1. makings' \in 0..MaxMakings /\ changes' \in 0..MaxChanges
    BY <1>15, BeginDoes DEF GetReader
  <2> QED
    BY <1>15, <2>1, RateCall DEF GetReader, TypeOK
<1>16. ASSUME NEW a \in Threads, GetReaderQos(a)
       PROVE  TypeOK'
  BY <1>16, RatingCall DEF GetReaderQos, TypeOK
<1>17. ASSUME NEW a \in Threads, SetMaxDataRate(a)
       PROVE  TypeOK'
  <2> DEFINE g == call[a].group
             n == call[a].name
             s == Separation(call[a].rate)
  <2>1. call[a].op = "setMaxDataRate" /\ call[a] \in Rating
    BY <1>17, CallType DEF SetMaxDataRate, At
  <2>2. g \in Groups /\ n \in Names /\ call[a].rate \in Rates /\ s \in Separations
    BY <2>1, RateFacts DEF Rating
  <2>3. readers[g][n] \in Endpoint
    BY <2>1, <2>2 DEF RefInv, TypeOK
  <2>4. PICK x \in Separations : readers' = [readers EXCEPT ![g][n].separation = x]
    <3>1. readers[g][n].separation \in Separations
      BY <2>3 DEF Endpoint
    <3> QED
      BY <1>17, <2>2, <3>1 DEF SetMaxDataRate
  <2>5. [readers[g][n] EXCEPT !.separation = x] \in Endpoint
    BY <2>3 DEF Endpoint
  <2> HIDE DEF g, n
  <2>6. readers' \in [Groups -> [Names -> Endpoint \cup {NoEntity}]]
    BY <2>2, <2>4, <2>5 DEF TypeOK
  <2>7. promised' \in [Groups -> [Names -> Rates \cup {0}]]
    BY <1>17, <2>2 DEF SetMaxDataRate, TypeOK, g, n
  <2> QED
    BY <1>17, <2>6, <2>7, ReturnCall DEF SetMaxDataRate, TypeOK
<1>18. CASE UNCHANGED vars
  BY <1>18 DEF vars, TypeOK
<1> QED
  BY <1>1, <1>2, <1>3, <1>4, <1>5, <1>6, <1>7, <1>8, <1>9, <1>10, <1>11, <1>12, <1>13,
     <1>14, <1>15, <1>16, <1>17, <1>18
  DEF Next, Thread, Done

\* What one thread refers to.
RefOf(a) ==
    /\ \A t \in Topics :
          /\ In(a, t) => call[a].group \in GroupsOf(t)
          /\ Stored(a, t) => m_topics[t] # NoGroup
    /\ call[a].op = "setMaxDataRate" =>
          /\ call[a].group \in GroupsOf(call[a].topic)
          /\ m_topics[call[a].topic] # NoGroup
          /\ readers[call[a].group][call[a].name] # NoEntity
    /\ call[a].op = "Listener" => call[a].name = Generated

\* What a step has to keep of the references of the others.
LEMMA RefKept ==
    ASSUME TypeOK, TypeOK', RefInv, NEW a \in Threads,
           \A b \in Threads : b # a => call'[b] = call[b],
           makings' + changes' >= makings + changes,
           \A t \in Topics : m_topics'[t] = m_topics[t] \/ m_topics'[t] \in GroupsOf(t)',
           \A g \in Groups, n \in Names :
               readers[g][n] # NoEntity => readers'[g][n] # NoEntity,
           \A g \in Groups : topic'[g] => topic[g] \/ g \in GroupsOf(g[1])',
           RefOf(a)'
    PROVE  RefInv'
<1>1. ASSUME NEW t \in Topics
      PROVE  GroupsOf(t) \subseteq GroupsOf(t)'
  <2>1. makings + changes \in Nat /\ makings' + changes' \in Nat
    BY Facts DEF TypeOK
  <2>2. \A g \in Groups : g[2] \in Nat
    BY Facts DEF Groups
  <2> QED
    BY <2>1, <2>2 DEF GroupsOf
<1>2. \A t \in Topics : m_topics[t] # NoGroup => m_topics'[t] \in GroupsOf(t)'
  BY <1>1 DEF RefInv
<1>3. \A t \in Topics : m_topics'[t] # NoGroup => m_topics'[t] \in GroupsOf(t)'
  BY <1>2
<1>4. \A t \in Topics : m_topics[t] # NoGroup => m_topics'[t] # NoGroup
  BY <1>2, Facts DEF GroupsOf
<1>5. ASSUME NEW b \in Threads
      PROVE  RefOf(b)'
  <2>1. CASE b = a
    BY <2>1
  <2>2. CASE b # a
    <3>1. call'[b] = call[b]
      BY <2>2
    <3>2. ASSUME NEW t \in Topics, In(b, t)'
          PROVE  /\ call'[b].group \in GroupsOf(t)'
                 /\ Stored(b, t)' => m_topics'[t] # NoGroup
      <4>1. In(b, t) /\ (Stored(b, t)' => Stored(b, t))
        BY <3>1, <3>2 DEF In, Stored
      <4> QED
        BY <1>1, <1>4, <3>1, <4>1 DEF RefInv
    <3>3. ASSUME call'[b].op = "setMaxDataRate"
          PROVE  (/\ call[b].group \in GroupsOf(call[b].topic)
                  /\ m_topics[call[b].topic] # NoGroup
                  /\ readers[call[b].group][call[b].name] # NoEntity)'
      <4>1. call[b].op = "setMaxDataRate" /\ call[b].topic \in Topics
            /\ call[b].name \in Names /\ call[b].group \in Groups
        BY <3>1, <3>3, CallType DEF Rating
      <4>2. /\ call[b].group \in GroupsOf(call[b].topic)
            /\ m_topics[call[b].topic] # NoGroup
            /\ readers[call[b].group][call[b].name] # NoEntity
        BY <4>1 DEF RefInv
      <4>3. call[b].group \in GroupsOf(call[b].topic)'
        BY <1>1, <4>1, <4>2, <3>1, Zenon
      <4> QED
        BY <1>4, <3>1, <4>1, <4>2, <4>3
    <3>4. call'[b].op = "Listener" => call'[b].name = Generated
      BY <3>1 DEF RefInv
    <3>5. \A t \in Topics : Stored(b, t)' => In(b, t)'
      BY DEF Stored
    <3> QED
      BY <3>2, <3>3, <3>4, <3>5 DEF RefOf
  <2> QED
    BY <2>1, <2>2
<1>6. \A g \in Groups : topic'[g] => g \in GroupsOf(g[1])'
  <2>1. \A g \in Groups : g[1] \in Topics
    BY DEF Groups
  <2> QED
    BY <1>1, <2>1 DEF RefInv
<1> QED
  BY <1>3, <1>5, <1>6 DEF RefInv, RefOf

\* A group that is there, or a new one, is one that the call has made by then.
LEMMA GroupOfMade ==
    ASSUME TypeOK, TypeOK', RefInv, NEW t \in Topics,
           makings' + changes' = makings + changes + 1,
           makings < MaxMakings \/ changes < MaxChanges
    PROVE  /\ GroupOf(t) \in GroupsOf(t)'
           /\ m_topics[t] = NoGroup => ~topic[GroupOf(t)]
<1>1. /\ makings + changes \in Nat /\ makings' + changes' \in Nat
      /\ makings' + changes' = makings + changes + 1
  <2>1. makings \in Nat /\ changes \in Nat
    BY Facts DEF TypeOK
  <2> QED
    BY <2>1
<1>2. /\ GroupOf(t) \in Groups /\ GroupOf(t)[1] = t
      /\ m_topics[t] # NoGroup => GroupOf(t) = m_topics[t]
      /\ m_topics[t] = NoGroup => GroupOf(t)[2] = makings + changes + 1
  BY GroupOfType
<1>3. \A g \in Groups : g[2] \in Nat
  BY Facts DEF Groups
<1>4. GroupOf(t) \in GroupsOf(t)'
  BY <1>1, <1>2, <1>3 DEF GroupsOf, RefInv
<1>5. m_topics[t] = NoGroup => ~topic[GroupOf(t)]
  BY <1>1, <1>2 DEF GroupsOf, RefInv
<1> QED
  BY <1>4, <1>5

\* A thread that is in no call that refers to a group.
LEMMA NoRef ==
    ASSUME NEW a \in Threads, call'[a].op \notin {"setMaxDataRate"},
           call'[a].op = "Listener" => call'[a].name = Generated,
           call'[a].op \in Operations => call'[a].at \in {"create", "listen"}
    PROVE  RefOf(a)'
BY DEF RefOf, In, Stored, Inside

\* Every step keeps the references.
LEMMA RefStep ==
    ASSUME TypeOK, TypeOK', RefInv, [Next]_vars
    PROVE  RefInv'
<1> USE DEF settings, entities, maps, calls
<1>0. Offered \subseteq Presets /\ makings + changes \in Nat
  <2>1. makings \in Nat /\ changes \in Nat
    BY Facts DEF TypeOK
  <2> QED
    BY <2>1, Facts
<1>1. ASSUME NEW a \in Threads, NEW op \in Operations, NEW t \in Topics,
             NEW n \in Given, NEW q \in Offered, RegisterTopic(a, op, t, n, q)
      PROVE  RefInv'
  <2>1. /\ makings' + changes' = makings + changes + 1
        /\ makings < MaxMakings \/ changes < MaxChanges
    BY <1>1, BeginDoes DEF RegisterTopic
  <2>2. GroupOf(t) \in GroupsOf(t)'
    BY <2>1, GroupOfMade
  <2>3. RefOf(a)'
    <3>1. /\ call'[a].op = op /\ call'[a].topic = t
          /\ call'[a].name = GenerateReaderName(n)
          /\ call'[a].group = IF Registered(t) THEN NoGroup ELSE GroupOf(t)
          /\ call'[a].at = IF Registered(t) THEN "create" ELSE "topic"
      BY <1>1, RegisterCall
    <3>2. op = "Listener" => GenerateReaderName(n) = Generated
      BY <1>1 DEF RegisterTopic, GenerateReaderName
    <3>3. \A u \in Topics : In(a, u)' => u = t /\ call'[a].group = GroupOf(t)
      BY <3>1 DEF In, Inside
    <3>4. \A u \in Topics : ~Stored(a, u)'
      BY <3>1 DEF Stored, In, Inside
    <3>5. op # "setMaxDataRate"
      BY DEF Operations
    <3> QED
      BY <2>2, <3>1, <3>2, <3>3, <3>4, <3>5 DEF RefOf
  <2>4. \A b \in Threads : b # a => call'[b] = call[b]
    BY <1>1, RegisterCall
  <2> QED
    BY <1>0, <1>1, <2>1, <2>3, <2>4, RefKept DEF RegisterTopic
<1>2. ASSUME NEW a \in Threads, NEW t \in Topics, NEW q \in Offered,
             CustomReaderQos(a, t, q) \/ CustomWriterQos(a, t, q)
      PROVE  RefInv'
  <2>1. /\ makings' + changes' = makings + changes + 1
        /\ makings < MaxMakings \/ changes < MaxChanges
        /\ call[a] = Idle
    BY <1>2, BeginDoes DEF CustomReaderQos, CustomWriterQos
  <2>2. GroupOf(t) \in GroupsOf(t)'
    BY <2>1, GroupOfMade
  <2>3. GroupOf(t) \in Groups
    BY <2>2 DEF GroupsOf
  <2>4. call' = call /\ topic' = topic
    BY <1>2 DEF CustomReaderQos, CustomWriterQos
  <2>5. RefOf(a)'
    BY <2>1, <2>4, NoRef, CallType DEF Operations
  <2>6. /\ m_topics'[t] = GroupOf(t)
        /\ \A u \in Topics : u # t => m_topics'[u] = m_topics[u]
        /\ \A g \in Groups, n \in Names :
              readers[g][n] # NoEntity => readers'[g][n] # NoEntity
    <3>1. CASE CustomReaderQos(a, t, q)
      <4>1. q \in Presets /\ SetReaderQos(t, q)
        BY <1>0, <3>1 DEF CustomReaderQos
      <4>2. ReadersTake(GroupOf(t), q) = readers'[GroupOf(t)]
            /\ \A g \in Groups : g # GroupOf(t) => readers'[g] = readers[g]
        BY <2>3, <4>1, SetReaderDoes
      <4>3. \A n \in Names : readers[GroupOf(t)][n] # NoEntity
                                => readers'[GroupOf(t)][n] # NoEntity
        BY <2>3, <4>1, <4>2, TakeType
      <4> QED
        BY <2>3, <4>1, <4>2, <4>3, SetReaderDoes
    <3>2. CASE CustomWriterQos(a, t, q)
      BY <1>0, <2>3, <3>2, SetWriterDoes DEF CustomWriterQos
    <3> QED
      BY <1>2, <3>1, <3>2
  <2> QED
    BY <1>0, <2>1, <2>2, <2>4, <2>5, <2>6, RefKept
<1>3. ASSUME NEW a \in Threads, NEW made \in BOOLEAN, CreateTopic(a, made)
      PROVE  RefInv'
  <2>1. call[a].op \in Operations /\ call[a].at = "topic" /\ call[a] \in Making
    BY <1>3, CallType DEF CreateTopic, At
  <2> PICK t \in Topics, h \in Groups \cup {NoGroup} : t = call[a].topic /\ h = call[a].group
    BY <2>1 DEF Making
  <2>2. h \in GroupsOf(t)
    BY <2>1 DEF RefInv, In, Inside
  <2>3. h \in Groups /\ h[1] = t /\ h \in GroupsOf(t)'
    BY <1>3, <2>2 DEF GroupsOf, CreateTopic
  <2>4. \A g \in Groups : topic'[g] => topic[g] \/ g \in GroupsOf(g[1])'
    <3>1. \A g \in Groups : topic'[g] => topic[g] \/ g = h
      BY <1>3, <2>3 DEF CreateTopic, TypeOK
    <3> QED
      BY <2>3, <3>1
  <2>5. RefOf(a)'
    <3>1. CASE made
      <4>1. /\ call'[a].op = call[a].op /\ call'[a].topic = call[a].topic
            /\ call'[a].name = call[a].name /\ call'[a].group = call[a].group
            /\ call'[a].at = "store"
        BY <1>3, <2>1, <3>1, GotoCall DEF CreateTopic, Inside
      <4>2. \A u \in Topics : ~Stored(a, u)' /\ (In(a, u)' => u = t)
        BY <4>1 DEF Stored, In
      <4>4. call[a].op # "setMaxDataRate"
        BY <2>1 DEF Operations
      <4> QED
        BY <2>1, <2>3, <4>1, <4>2, <4>4 DEF RefOf, RefInv
    <3>2. CASE ~made
      BY <1>3, <2>1, <3>2, ToCreateCall, NoRef DEF CreateTopic, RefInv, Operations
    <3> QED
      BY <3>1, <3>2
  <2>6. \A b \in Threads : b # a => call'[b] = call[b]
    BY <1>3, <2>1, CallSteps DEF CreateTopic
  <2> QED
    BY <1>0, <1>3, <2>4, <2>5, <2>6, RefKept DEF CreateTopic
<1>4. ASSUME NEW a \in Threads, StoreTopic(a)
      PROVE  RefInv'
  <2>1. call[a].op \in Operations /\ call[a].at = "store" /\ call[a] \in Making
    BY <1>4, CallType DEF StoreTopic, At
  <2> PICK t \in Topics, h \in Groups \cup {NoGroup} : t = call[a].topic /\ h = call[a].group
    BY <2>1 DEF Making
  <2>2. h \in GroupsOf(t)
    BY <2>1 DEF RefInv, In, Inside
  <2>3. h \in GroupsOf(t)' /\ h # NoGroup
    BY <1>4, <2>2, Facts DEF GroupsOf, StoreTopic
  <2>4. /\ call'[a].op = call[a].op /\ call'[a].topic = call[a].topic
        /\ call'[a].name = call[a].name /\ call'[a].group = call[a].group
        /\ \A b \in Threads : b # a => call'[b] = call[b]
    BY <1>4, <2>1, GotoCall DEF StoreTopic, Inside
  <2>5. m_topics'[t] = h /\ \A u \in Topics : u # t => m_topics'[u] = m_topics[u]
    BY <1>4 DEF StoreTopic, TypeOK
  <2>7. RefOf(a)'
    <3>1. \A u \in Topics : (In(a, u)' \/ Stored(a, u)') => u = t
      BY <2>4 DEF In, Stored
    <3>2. call[a].op # "setMaxDataRate"
      BY <2>1 DEF Operations
    <3> QED
      BY <2>1, <2>3, <2>4, <2>5, <3>1, <3>2 DEF RefOf, RefInv
  <2>8. \A u \in Topics : m_topics'[u] = m_topics[u] \/ m_topics'[u] \in GroupsOf(u)'
    BY <2>3, <2>5
  <2> QED
    BY <1>0, <1>4, <2>4, <2>7, <2>8, RefKept DEF StoreTopic
<1>5. ASSUME NEW a \in Threads,
             RegisterQos(a) \/ CheckPreset(a) \/ RegisterReaderQos(a) \/ RegisterWriterQos(a)
             \/ RegisterPreset(a)
      PROVE  RefInv'
  <2>1. /\ call[a].op \in Operations
        /\ call[a].at \in {"lookup", "check", "reader", "writer", "preset"}
    BY <1>5
    DEF RegisterQos, CheckPreset, RegisterReaderQos, RegisterWriterQos, RegisterPreset, At
  <2>2. /\ call[a].topic \in Topics /\ call[a].qos \in Presets
        /\ Stored(a, call[a].topic) /\ In(a, call[a].topic)
        /\ m_topics[call[a].topic] \in Groups
        /\ GroupOf(call[a].topic) = m_topics[call[a].topic]
    BY <2>1, StoredGroup
  <2>3. /\ call[a].group \in GroupsOf(call[a].topic)
        /\ m_topics[call[a].topic] \in GroupsOf(call[a].topic)
    BY <2>2, Facts DEF RefInv
  <2>4. UNCHANGED <<makings, changes, topic>>
    BY <1>5
    DEF RegisterQos, CheckPreset, RegisterReaderQos, RegisterWriterQos, RegisterPreset
  <2>5. /\ \A u \in Topics : m_topics'[u] = m_topics[u]
        /\ \A g \in Groups, n \in Names :
              readers[g][n] # NoEntity => readers'[g][n] # NoEntity
    <3>1. CASE RegisterReaderQos(a)
      <4>1. SetReaderQos(call[a].topic, call[a].qos)
        BY <3>1 DEF RegisterReaderQos
      <4> QED
        <5>1. ReadersTake(m_topics[call[a].topic], call[a].qos)
                 = readers'[m_topics[call[a].topic]]
          BY <2>2, <4>1, SetReaderDoes
        <5>2. \A n \in Names : readers[m_topics[call[a].topic]][n] # NoEntity
                                  => readers'[m_topics[call[a].topic]][n] # NoEntity
          BY <2>2, <5>1, TakeType
        <5> QED
          BY <2>2, <4>1, <5>2, SetReaderDoes
    <3>2. CASE RegisterWriterQos(a)
      <4>1. SetWriterQos(call[a].topic, call[a].qos) /\ readers' = readers
        BY <3>2 DEF RegisterWriterQos
      <4> QED
        BY <2>2, <4>1, SetWriterDoes
    <3> QED
      BY <1>5, <3>1, <3>2 DEF RegisterQos, CheckPreset, RegisterPreset
  <2>6. /\ call'[a].op = call[a].op /\ call'[a].topic = call[a].topic
        /\ call'[a].name = call[a].name
        /\ \/ call'[a].group \in {call[a].group, m_topics[call[a].topic]}
           \/ call'[a].at = "create"
        /\ \A b \in Threads : b # a => call'[b] = call[b]
    <3>1. CASE RegisterQos(a)
      BY <3>1, LookupCall
    <3>2. CASE \E at \in Inside : Goto(a, at)
      BY <2>1, <3>2, GotoCall
    <3>3. CASE ToCreate(a)
      BY <2>1, <3>3, ToCreateCall
    <3> QED
      BY <1>5, <3>1, <3>2, <3>3
      DEF CheckPreset, RegisterReaderQos, RegisterWriterQos, RegisterPreset, Inside
  <2>7. RefOf(a)'
    <3>1. \A u \in Topics : (In(a, u)' \/ Stored(a, u)') =>
             u = call[a].topic /\ call'[a].at # "create"
      BY <2>6 DEF In, Stored, Inside
    <3>2. \A u \in Topics : GroupsOf(u)' = GroupsOf(u)
      BY <2>4 DEF GroupsOf
    <3>3. call[a].op # "setMaxDataRate"
      BY <2>1 DEF Operations
    <3> QED
      BY <2>2, <2>3, <2>5, <2>6, <3>1, <3>2, <3>3, Facts DEF RefOf, RefInv
  <2> QED
    BY <1>0, <2>4, <2>5, <2>6, <2>7, RefKept
<1>6. ASSUME NEW a \in Threads, NEW made \in 0..2,
             CreatePublisher(a, made) \/ CreateSubscriber(a, made) \/ SetListener(a)
      PROVE  RefInv'
  <2>1. call[a].op \in Operations /\ call[a] \in Making
    BY <1>6, CallType DEF CreatePublisher, CreateSubscriber, SetListener, At, Operations
  <2>2. RefOf(a)'
    <3>1. CASE Return(a)
      BY <3>1, ReturnCall, NoRef DEF Operations
    <3>2. CASE Goto(a, "listen")
      BY <2>1, <3>2, GotoCall, NoRef DEF RefInv, Operations
    <3> QED
      BY <1>6, <3>1, <3>2 DEF CreatePublisher, CreateSubscriber, SetListener
  <2>3. \A b \in Threads : b # a => call'[b] = call[b]
    BY <1>6, CallSteps DEF CreatePublisher, CreateSubscriber, SetListener
  <2>4. UNCHANGED <<makings, changes, topic, m_topics>>
    BY <1>6 DEF CreatePublisher, CreateSubscriber, SetListener
  <2>5. \A g \in Groups, n \in Names :
           readers[g][n] # NoEntity => readers'[g][n] # NoEntity
    <3>1. CASE CreateSubscriber(a, made)
      <4> DEFINE h == m_topics[call[a].topic]
                 m == call[a].name
      <4>1. readers' = readers \/ (readers' = [readers EXCEPT ![h][m] = New(dataReaderQos[h])]
                                   /\ Registered(call[a].topic))
        BY <3>1 DEF CreateSubscriber
      <4>2. Registered(call[a].topic) => h \in Groups
        BY <2>1 DEF Registered, TypeOK, Making
      <4>4. m \in Names
        BY <2>1 DEF Making
      <4>3. h \in Groups => New(dataReaderQos[h]) # NoEntity
        BY Facts DEF TypeOK
      <4> HIDE DEF h, m
      <4>5. CASE readers' = readers
        BY <4>5
      <4>6. CASE /\ Registered(call[a].topic)
                 /\ readers' = [readers EXCEPT ![h][m] = New(dataReaderQos[h])]
        <5> DEFINE e == New(dataReaderQos[h])
        <5>1. h \in Groups /\ e # NoEntity /\ readers' = [readers EXCEPT ![h][m] = e]
          BY <4>2, <4>3, <4>6
        <5> HIDE DEF e
        <5> QED
          BY <4>4, <5>1 DEF TypeOK
      <4> QED
        BY <4>1, <4>5, <4>6
    <3> QED
      BY <1>6, <3>1 DEF CreatePublisher, SetListener
  <2> QED
    BY <1>0, <2>2, <2>3, <2>4, <2>5, RefKept
<1>7. ASSUME NEW a \in Threads, NEW t \in Topics, AddPartition(a, t)
      PROVE  RefInv'
  <2>1. /\ makings' + changes' = makings + changes + 1 /\ call[a] = Idle
    BY <1>7, BeginDoes DEF AddPartition
  <2>2. RefOf(a)'
    BY <1>7, <2>1, NoRef, CallType DEF Operations, AddPartition
  <2> QED
    BY <1>0, <1>7, <2>1, <2>2, RefKept DEF AddPartition
<1>8. ASSUME NEW a \in Threads, NEW t \in Topics, NEW n \in Names, NEW rate \in Rates,
             GetReader(a, t, n, rate)
      PROVE  RefInv'
  <2>1. makings' + changes' = makings + changes + 1
    BY <1>8, BeginDoes DEF GetReader
  <2>2. /\ call'[a].op = "setMaxDataRate" /\ call'[a].op \notin Operations
        /\ call'[a].topic = t /\ call'[a].name = n /\ call'[a].group = m_topics[t]
        /\ m_topics[t] # NoGroup /\ readers[m_topics[t]][n] # NoEntity
        /\ \A b \in Threads : b # a => call'[b] = call[b]
    BY <1>8, RateCall
  <2>3. m_topics[t] \in GroupsOf(t)'
    <3>1. m_topics[t] \in GroupsOf(t)
      BY <2>2 DEF RefInv
    <3>2. m_topics[t][2] \in Nat
      BY <3>1, Facts DEF GroupsOf, Groups
    <3>3. makings' + changes' \in Nat
      BY <2>1, <1>0
    <3> QED
      BY <1>0, <2>1, <3>1, <3>2, <3>3 DEF GroupsOf
  <2>4. UNCHANGED <<m_topics, readers, topic>>
    BY <1>8 DEF GetReader
  <2>5. RefOf(a)'
    <3>1. \A u \in Topics : ~In(a, u)' /\ ~Stored(a, u)'
      BY <2>2 DEF In, Stored
    <3>2. (call[a].group \in GroupsOf(call[a].topic))'
      BY <2>2, <2>3, Zenon
    <3> QED
      BY <2>2, <2>4, <3>1, <3>2 DEF RefOf
  <2> QED
    BY <1>0, <2>1, <2>2, <2>4, <2>5, RefKept
<1>9. ASSUME NEW a \in Threads, GetReaderQos(a)
      PROVE  RefInv'
  <2>1. /\ call[a] \in Rating /\ call'[a].op = "setMaxDataRate"
        /\ call[a].op = "setMaxDataRate" /\ call'[a].topic = call[a].topic
        /\ call'[a].name = call[a].name /\ call'[a].group = call[a].group
        /\ \A b \in Threads : b # a => call'[b] = call[b]
    BY <1>9, RatingCall
  <2>2. UNCHANGED <<m_topics, readers, topic, makings, changes>>
    BY <1>9 DEF GetReaderQos
  <2>3. RefOf(a)'
    <3>1. \A u \in Topics : ~In(a, u)' /\ ~Stored(a, u)'
      BY <2>1 DEF In, Stored, Operations
    <3>2. /\ call[a].group \in GroupsOf(call[a].topic)
          /\ m_topics[call[a].topic] # NoGroup
          /\ readers[call[a].group][call[a].name] # NoEntity
      BY <2>1 DEF RefInv
    <3>3. (call[a].group \in GroupsOf(call[a].topic))'
      BY <2>1, <2>2, <3>2 DEF GroupsOf
    <3> QED
      BY <2>1, <2>2, <3>1, <3>2, <3>3 DEF RefOf
  <2> QED
    BY <1>0, <2>1, <2>2, <2>3, RefKept
<1>10. ASSUME NEW a \in Threads, SetMaxDataRate(a)
       PROVE  RefInv'
  <2>1. call[a] \in Rating /\ call[a].op = "setMaxDataRate"
    BY <1>10, CallType DEF SetMaxDataRate, At
  <2> DEFINE h == call[a].group
             m == call[a].name
  <2>2. h \in Groups /\ m \in Names /\ readers[h][m] \in Endpoint
    BY <2>1 DEF Rating, RefInv, TypeOK
  <2>3. PICK x \in Separations : readers' = [readers EXCEPT ![h][m].separation = x]
    <3>1. readers[h][m].separation \in Separations /\ Separation(call[a].rate) \in Separations
      BY <2>1, <2>2, RateFacts DEF Endpoint, Rating
    <3> QED
      BY <1>10, <2>2, <3>1 DEF SetMaxDataRate
  <2>4. [readers[h][m] EXCEPT !.separation = x] # NoEntity
    <3>1. [readers[h][m] EXCEPT !.separation = x] \in Endpoint
      BY <2>2 DEF Endpoint
    <3> QED
      BY <3>1, Facts
  <2> HIDE DEF h, m
  <2>5. \A g \in Groups, n \in Names :
           readers[g][n] # NoEntity => readers'[g][n] # NoEntity
    BY <2>2, <2>3, <2>4 DEF TypeOK
  <2>6. RefOf(a)' /\ \A b \in Threads : b # a => call'[b] = call[b]
    BY <1>10, ReturnCall, NoRef DEF SetMaxDataRate, Operations
  <2> QED
    <3>1. UNCHANGED <<makings, changes, topic, m_topics>>
      BY <1>10 DEF SetMaxDataRate
    <3> QED
      BY <1>0, <2>5, <2>6, <3>1, RefKept
<1>11. CASE UNCHANGED vars
  BY <1>11 DEF vars, RefInv, GroupsOf, In, Stored
<1> QED
  BY <1>1, <1>2, <1>3, <1>4, <1>5, <1>6, <1>7, <1>8, <1>9, <1>10, <1>11
  DEF Next, Thread, Done

-----------------------------------------------------------------------------
(* The invariant of one topic.                                             *)

Once(t) == "twice" \notin odd[t]
Plain(t) == odd[t] \cap {"twice", "custom"} = {}

\* The group that is found under the topic, with a DDS topic.
InUse(g, t) == g = m_topics[t] /\ topic[g]

\* A group with no preset and nothing created in it.
Bare(g) ==
    /\ qosPreset[g] = NoPreset
    /\ publisher[g] = NoEntity /\ subscriber[g] = NoEntity /\ writer[g] = NoEntity
    /\ \A n \in Names : readers[g][n] = NoEntity

\* At most one thread is registering the topic, into a group that nothing has
\* happened to.
OnceInv(t) == Once(t) =>
    /\ \A a, b \in Threads : In(a, t) /\ In(b, t) => a = b
    /\ \A a \in Threads : In(a, t) =>
          /\ call[a].at = "topic" => ~Registered(t)
          /\ call[a].at = "store" =>
                /\ topic[call[a].group]
                /\ \/ m_topics[t] \in {NoGroup, call[a].group}
                   \/ ~topic[m_topics[t]]
          /\ Stored(a, t) => Registered(t) /\ call[a].group = m_topics[t]
          /\ \A g \in Groups : g[1] = t => qosPreset[g] = NoPreset
    /\ \A g \in Groups : g[1] = t => Bare(g) \/ InUse(g, t)

\* The QoS that are stored are the default until registerQos sets them, and
\* then those of the preset.
QosInv(t) == Plain(t) =>
    /\ \A g \in Groups : g[1] = t /\ ~InUse(g, t) =>
          dataReaderQos[g] = DefaultPreset /\ dataWriterQos[g] = DefaultPreset
    /\ \A a \in Threads : In(a, t) /\ m_topics[t] # NoGroup =>
          /\ call[a].at \in {"writer", "preset"} =>
                dataReaderQos[m_topics[t]] = call[a].qos
          /\ call[a].at \notin {"writer", "preset"} =>
                dataReaderQos[m_topics[t]] = DefaultPreset
          /\ call[a].at = "preset" => dataWriterQos[m_topics[t]] = call[a].qos
          /\ call[a].at # "preset" => dataWriterQos[m_topics[t]] = DefaultPreset
    /\ m_topics[t] # NoGroup /\ qosPreset[m_topics[t]] # NoPreset =>
          /\ dataReaderQos[m_topics[t]] = qosPreset[m_topics[t]]
          /\ dataWriterQos[m_topics[t]] = qosPreset[m_topics[t]]

\* What an endpoint can have been created with.
Fits(t, q) ==
    /\ qosPreset[m_topics[t]] # NoPreset => q \in {DefaultPreset, qosPreset[m_topics[t]]}
    /\ \A a \in Threads : In(a, t) => q \in {DefaultPreset, call[a].qos}
    /\ "early" \notin odd[t] => q = qosPreset[m_topics[t]]

FitsInv(t) == Plain(t) /\ m_topics[t] # NoGroup =>
    /\ writer[m_topics[t]] # NoEntity => Fits(t, writer[m_topics[t]].qos)
    /\ \A n \in Names :
          readers[m_topics[t]][n] # NoEntity => Fits(t, readers[m_topics[t]][n].qos)

\* Endpoints have parents, which are in the partition of the group.
ParentInv(t) == \A g \in Groups : g[1] = t =>
    /\ writer[g] # NoEntity => publisher[g] # NoEntity
    /\ \A n \in Names :
          /\ readers[g][n] # NoEntity => subscriber[g] # NoEntity
          /\ promised[g][n] # 0 => readers[g][n] # NoEntity
    /\ "late" \notin odd[t] =>
          /\ publisher[g] # NoEntity => publisher[g] = partitioned[g]
          /\ subscriber[g] # NoEntity => subscriber[g] = partitioned[g]
    /\ "failed" \notin odd[t] /\ publisher[g] # NoEntity => writer[g] # NoEntity

\* A rate that was accepted is kept, and the QoS that setMaxDataRate is about to
\* set is the one that the reader has.
RateInv(t) == odd[t] \cap {"twice", "custom", "early"} = {} =>
    /\ m_topics[t] # NoGroup => \A n \in Names :
          promised[m_topics[t]][n] # 0 /\ promised[m_topics[t]][n] < 1000 =>
              readers[m_topics[t]][n].separation = promised[m_topics[t]][n] * 15625
    /\ \A a \in Threads :
          call[a].op = "setMaxDataRate" /\ call[a].topic = t /\ call[a].at = "set" =>
              call[a].qos = qosPreset[m_topics[t]]

\* Listener finds its reader.
ListenInv(t) == odd[t] \cap {"twice", "failed"} = {} => \A a \in Threads :
    call[a].op = "Listener" /\ call[a].at = "listen" /\ call[a].topic = t =>
        m_topics[t] # NoGroup /\ readers[m_topics[t]][Generated] # NoEntity

TopicInv(t) ==
    /\ OnceInv(t) /\ QosInv(t) /\ FitsInv(t)
    /\ ParentInv(t) /\ RateInv(t) /\ ListenInv(t)

-----------------------------------------------------------------------------
(* What leaves it alone.                                                   *)

\* No call moves on in registerTopic for the topic.
Quiet(t) == \A b \in Threads :
    (In(b, t)' <=> In(b, t)) /\ (In(b, t) => call'[b] = call[b])

\* No call comes to set a rate or a listener.
Waits(b, t) ==
    /\ call[b].topic = t
    /\ \/ call[b].op = "setMaxDataRate" /\ call[b].at = "set"
       \/ call[b].op = "Listener" /\ call[b].at = "listen"
Resting(t) == \A b \in Threads :
    (call[b].op \in {"setMaxDataRate", "Listener"} /\ Waits(b, t))' => call'[b] = call[b]

Mapped(t) == m_topics'[t] = m_topics[t] /\ odd[t] \subseteq odd'[t]

SameTopics(t) == \A g \in Groups : g[1] = t =>
    topic'[g] = topic[g] /\ qosPreset'[g] = qosPreset[g]
SameQos(t) == \A g \in Groups : g[1] = t =>
    dataReaderQos'[g] = dataReaderQos[g] /\ dataWriterQos'[g] = dataWriterQos[g]
SameEntities(t) == \A g \in Groups : g[1] = t =>
    /\ publisher'[g] = publisher[g] /\ subscriber'[g] = subscriber[g]
    /\ writer'[g] = writer[g] /\ readers'[g] = readers[g]
    /\ partitioned'[g] = partitioned[g] /\ promised'[g] = promised[g]

\* The group of a topic.
LEMMA MappedGroup ==
    ASSUME RefInv, NEW t \in Topics, m_topics[t] # NoGroup
    PROVE  m_topics[t] \in Groups /\ m_topics[t][1] = t
BY DEF RefInv, GroupsOf

\* Each part of the invariant of a topic depends on a part of the state.
LEMMA OnceFrame ==
    ASSUME TypeOK, RefInv, NEW t \in Topics, OnceInv(t), Mapped(t), Quiet(t), SameTopics(t),
           \A g \in Groups : g[1] = t /\ Bare(g) => Bare(g)' \/ InUse(g, t)
    PROVE  OnceInv(t)'
<1> SUFFICES ASSUME Once(t)'
             PROVE  OnceInv(t)'
  BY DEF OnceInv
<1>1. Once(t)
  BY DEF Once, Mapped
<1>2. Registered(t)' = Registered(t)
  BY MappedGroup DEF Registered, Mapped, SameTopics
<1>3. \A g \in Groups : g[1] = t => (InUse(g, t)' <=> InUse(g, t))
  BY DEF InUse, Mapped, SameTopics
<1>4. \A a, b \in Threads : In(a, t)' /\ In(b, t)' => a = b
  BY <1>1 DEF OnceInv, Quiet
<1>5. \A g \in Groups : g[1] = t => Bare(g)' \/ InUse(g, t)'
  BY <1>1, <1>3 DEF OnceInv
<1>6. ASSUME NEW a \in Threads, In(a, t)'
      PROVE  (/\ call[a].at = "topic" => ~Registered(t)
              /\ call[a].at = "store" =>
                    /\ topic[call[a].group]
                    /\ \/ m_topics[t] \in {NoGroup, call[a].group}
                       \/ ~topic[m_topics[t]]
              /\ Stored(a, t) => Registered(t) /\ call[a].group = m_topics[t]
              /\ \A g \in Groups : g[1] = t => qosPreset[g] = NoPreset)'
  <2>1. In(a, t) /\ call'[a] = call[a]
    BY <1>6 DEF Quiet
  <2>2. Stored(a, t)' => Stored(a, t)
    BY <2>1 DEF Stored
  <2>3. call[a].group \in Groups /\ call[a].group[1] = t
    BY <2>1 DEF RefInv, GroupsOf
  <2>4. \A g \in Groups : g[1] = t => qosPreset'[g] = NoPreset
    BY <1>1, <2>1 DEF OnceInv, SameTopics
  <2>5. call[a].at = "store" =>
           /\ topic[call[a].group]
           /\ \/ m_topics[t] \in {NoGroup, call[a].group}
              \/ ~topic[m_topics[t]]
    BY <1>1, <2>1 DEF OnceInv
  <2>6. call'[a].at = "store" =>
           /\ topic'[call'[a].group]
           /\ \/ m_topics'[t] \in {NoGroup, call'[a].group}
              \/ ~topic'[m_topics'[t]]
    BY <2>1, <2>3, <2>5, MappedGroup DEF Mapped, SameTopics
  <2>7. /\ call'[a].at = "topic" => ~Registered(t)'
        /\ Stored(a, t)' => Registered(t)' /\ call'[a].group = m_topics'[t]
    BY <1>1, <1>2, <2>1, <2>2 DEF OnceInv, Mapped
  <2> QED
    BY <2>4, <2>6, <2>7
<1> QED
  BY <1>4, <1>5, <1>6 DEF OnceInv

LEMMA QosFrame ==
    ASSUME TypeOK, RefInv, NEW t \in Topics, QosInv(t), Mapped(t), Quiet(t),
           SameTopics(t), SameQos(t)
    PROVE  QosInv(t)'
<1> SUFFICES ASSUME Plain(t)'
             PROVE  QosInv(t)'
  BY DEF QosInv
<1>1. Plain(t)
  BY DEF Plain, Mapped
<1>2. \A g \in Groups : g[1] = t => (InUse(g, t)' <=> InUse(g, t))
  BY DEF InUse, Mapped, SameTopics
<1>3. m_topics[t] # NoGroup =>
         /\ dataReaderQos'[m_topics[t]] = dataReaderQos[m_topics[t]]
         /\ dataWriterQos'[m_topics[t]] = dataWriterQos[m_topics[t]]
         /\ qosPreset'[m_topics[t]] = qosPreset[m_topics[t]]
  BY MappedGroup DEF SameTopics, SameQos
<1>4. \A a \in Threads : In(a, t)' => In(a, t) /\ call'[a] = call[a]
  BY DEF Quiet
<1> QED
  BY <1>1, <1>2, <1>3, <1>4 DEF QosInv, Mapped, SameQos

\* An endpoint that is there then was there before.
OldEndpoints(t) == \A g \in Groups : g[1] = t =>
    /\ writer'[g] # NoEntity => writer[g] # NoEntity /\ writer'[g].qos = writer[g].qos
    /\ \A n \in Names : readers'[g][n] # NoEntity =>
          readers[g][n] # NoEntity /\ readers'[g][n].qos = readers[g][n].qos

LEMMA FitsFrame ==
    ASSUME TypeOK, RefInv, NEW t \in Topics, FitsInv(t), Mapped(t), Quiet(t),
           SameTopics(t), OldEndpoints(t)
    PROVE  FitsInv(t)'
<1> SUFFICES ASSUME Plain(t)', m_topics'[t] # NoGroup
             PROVE  FitsInv(t)'
  BY DEF FitsInv
<1>1. Plain(t) /\ m_topics[t] # NoGroup
  BY DEF Plain, Mapped
<1>2. m_topics[t] \in Groups /\ m_topics[t][1] = t /\ m_topics'[t] = m_topics[t]
  BY <1>1, MappedGroup DEF Mapped
<1>3. ASSUME NEW q, Fits(t, q)
      PROVE  (/\ qosPreset[m_topics[t]] # NoPreset =>
                    q \in {DefaultPreset, qosPreset[m_topics[t]]}
              /\ "early" \notin odd[t] => q = qosPreset[m_topics[t]])'
             /\ \A a \in Threads : In(a, t)' => q \in {DefaultPreset, call'[a].qos}
  BY <1>2, <1>3 DEF Fits, Mapped, Quiet, SameTopics
<1>4. writer'[m_topics'[t]] # NoEntity => Fits(t, writer[m_topics[t]].qos)'
  <2> SUFFICES ASSUME writer'[m_topics'[t]] # NoEntity
               PROVE  Fits(t, writer[m_topics[t]].qos)'
    OBVIOUS
  <2> DEFINE q == writer[m_topics[t]].qos
  <2>1. Fits(t, q) /\ q' = q
    BY <1>1, <1>2 DEF FitsInv, OldEndpoints
  <2> QED
    BY <1>3, <2>1 DEF Fits
<1>5. ASSUME NEW n \in Names, readers'[m_topics'[t]][n] # NoEntity
      PROVE  Fits(t, readers[m_topics[t]][n].qos)'
  <2> DEFINE q == readers[m_topics[t]][n].qos
  <2>1. Fits(t, q) /\ q' = q
    BY <1>1, <1>2, <1>5 DEF FitsInv, OldEndpoints
  <2> QED
    BY <1>3, <2>1 DEF Fits
<1> QED
  BY <1>4, <1>5 DEF FitsInv

LEMMA ParentFrame ==
    ASSUME NEW t \in Topics, ParentInv(t), odd[t] \subseteq odd'[t], SameEntities(t)
    PROVE  ParentInv(t)'
BY DEF ParentInv, SameEntities

LEMMA RateFrame ==
    ASSUME TypeOK, RefInv, NEW t \in Topics, RateInv(t), Mapped(t), Resting(t),
           SameTopics(t),
           \A g \in Groups : g[1] = t => readers'[g] = readers[g] /\ promised'[g] = promised[g]
    PROVE  RateInv(t)'
<1> SUFFICES ASSUME odd'[t] \cap {"twice", "custom", "early"} = {}
             PROVE  RateInv(t)'
  BY DEF RateInv
<1>1. odd[t] \cap {"twice", "custom", "early"} = {}
  BY DEF Mapped
<1>2. m_topics[t] # NoGroup => m_topics[t] \in Groups /\ m_topics[t][1] = t
  BY MappedGroup
<1>3. m_topics'[t] # NoGroup => \A n \in Names :
         promised'[m_topics'[t]][n] # 0 /\ promised'[m_topics'[t]][n] < 1000 =>
             readers'[m_topics'[t]][n].separation = promised'[m_topics'[t]][n] * 15625
  BY <1>1, <1>2 DEF RateInv, Mapped
<1>4. ASSUME NEW a \in Threads, (call[a].op = "setMaxDataRate" /\ call[a].topic = t
                                 /\ call[a].at = "set")'
      PROVE  call'[a].qos = qosPreset'[m_topics'[t]]
  <2>1. call'[a] = call[a]
    BY <1>4 DEF Resting, Waits
  <2>2. call[a].qos = qosPreset[m_topics[t]]
    BY <1>1, <1>4, <2>1 DEF RateInv
  <2>3. m_topics[t] # NoGroup
    BY <1>4, <2>1 DEF RefInv
  <2> QED
    BY <1>2, <2>1, <2>2, <2>3 DEF Mapped, SameTopics
<1> QED
  BY <1>3, <1>4 DEF RateInv

LEMMA ListenFrame ==
    ASSUME TypeOK, RefInv, NEW t \in Topics, ListenInv(t), Mapped(t), Resting(t),
           \A g \in Groups, n \in Names : g[1] = t =>
               (readers[g][n] # NoEntity => readers'[g][n] # NoEntity)
    PROVE  ListenInv(t)'
<1> SUFFICES ASSUME odd'[t] \cap {"twice", "failed"} = {},
                    NEW a \in Threads, (call[a].op = "Listener" /\ call[a].at = "listen"
                                        /\ call[a].topic = t)'
             PROVE  m_topics'[t] # NoGroup /\ readers'[m_topics'[t]][Generated] # NoEntity
  BY DEF ListenInv
<1>1. call'[a] = call[a]
  BY DEF Resting, Waits
<1>2. m_topics[t] # NoGroup /\ readers[m_topics[t]][Generated] # NoEntity
  BY <1>1 DEF ListenInv, Mapped
<1> QED
  BY <1>2, MappedGroup, Facts DEF Mapped

\* A step that is about another topic leaves all of it alone.
LEMMA TopicFrame ==
    ASSUME TypeOK, RefInv, NEW t \in Topics, TopicInv(t), Mapped(t), Quiet(t), Resting(t),
           SameTopics(t), SameQos(t), SameEntities(t)
    PROVE  TopicInv(t)'
<1>1. \A g \in Groups : g[1] = t /\ Bare(g) => Bare(g)'
  BY DEF Bare, SameTopics, SameEntities
<1>2. OldEndpoints(t)
  BY DEF OldEndpoints, SameEntities
<1>3. OnceInv(t)' /\ QosInv(t)' /\ FitsInv(t)'
  BY <1>1, <1>2, OnceFrame, QosFrame, FitsFrame DEF TopicInv
<1>4. ParentInv(t)' /\ RateInv(t)' /\ ListenInv(t)'
  BY ParentFrame, RateFrame, ListenFrame DEF TopicInv, SameEntities, Mapped
<1> QED
  BY <1>3, <1>4 DEF TopicInv

\* A thread whose call is not about the registration of a topic leaves that
\* quiet; one that does not come to set anything leaves it resting.
LEMMA CallQuiet ==
    ASSUME NEW a \in Threads, \A b \in Threads : b # a => call'[b] = call[b],
           NEW t \in Topics, ~In(a, t), ~In(a, t)'
    PROVE  Quiet(t)
<1>1. ASSUME NEW b \in Threads
      PROVE  (In(b, t)' <=> In(b, t)) /\ (In(b, t) => call'[b] = call[b])
  <2>1. CASE b = a
    BY <2>1
  <2>2. CASE b # a
    BY <2>2 DEF In
  <2> QED
    BY <2>1, <2>2
<1> QED
  BY <1>1 DEF Quiet

LEMMA CallRests ==
    ASSUME NEW a \in Threads, \A b \in Threads : b # a => call'[b] = call[b],
           NEW t \in Topics,
           ~(call[a].op \in {"setMaxDataRate", "Listener"} /\ Waits(a, t))'
    PROVE  Resting(t)
BY DEF Resting

\* A topic that was registered twice only keeps its parents.
LEMMA TwiceInv ==
    ASSUME NEW t \in Topics, ~Once(t)', ParentInv(t)'
    PROVE  TopicInv(t)'
BY DEF TopicInv, Once, OnceInv, QosInv, FitsInv, RateInv, ListenInv, Plain

\* A topic that no one has registered has nothing in it.
LEMMA AllBare ==
    ASSUME RefInv, NEW t \in Topics, OnceInv(t), Once(t), ~Registered(t)
    PROVE  /\ \A g \in Groups : g[1] = t => Bare(g) /\ ~InUse(g, t)
           /\ m_topics[t] # NoGroup => Bare(m_topics[t])
           /\ \A a \in Threads : ~Stored(a, t)
<1>1. \A g \in Groups : g[1] = t => Bare(g) /\ ~InUse(g, t)
  BY Facts DEF OnceInv, InUse, Registered
<1>2. \A a \in Threads : ~Stored(a, t)
  BY DEF OnceInv, Stored
<1> QED
  BY <1>1, <1>2, MappedGroup

\* The steps of a registration, in the order of the code.
LEMMA RegisterTopicInv ==
    ASSUME TypeOK, RefInv, NEW a \in Threads, NEW op \in Operations, NEW t \in Topics,
           NEW n \in Given, NEW q \in Offered, RegisterTopic(a, op, t, n, q),
           NEW u \in Topics, TopicInv(u)
    PROVE  TopicInv(u)'
<1> USE DEF settings, entities
<1>1. /\ call[a].op \notin Operations \cup {"setMaxDataRate"}
      /\ call'[a].op = op /\ call'[a].topic = t /\ call'[a].qos = q
      /\ call'[a].group = IF Registered(t) THEN NoGroup ELSE GroupOf(t)
      /\ call'[a].at = IF Registered(t) THEN "create" ELSE "topic"
      /\ \A b \in Threads : b # a => call'[b] = call[b]
  BY RegisterCall
<1>2. /\ UNCHANGED <<m_topics, topic, dataReaderQos, dataWriterQos, partitioned, qosPreset>>
      /\ UNCHANGED <<publisher, subscriber, writer, readers, promised>>
  BY DEF RegisterTopic
<1>3. \A x : ~In(a, x)
  BY <1>1 DEF In
<1>4. PICK s \in SUBSET Oddities : /\ Noted(t, s)
                                   /\ ~Registered(t) /\ (\E b \in Threads : Missed(b, t))
                                         => "twice" \in s
  BY DEF RegisterTopic, Oddities
<1>5. Mapped(u)
  BY <1>2, <1>4, NotedDoes DEF Mapped
<1>6. SameTopics(u) /\ SameQos(u) /\ SameEntities(u)
  BY <1>2 DEF SameTopics, SameQos, SameEntities
<1>7. Resting(u)
  BY <1>1, CallRests DEF Waits
<1>8. CASE Registered(t) \/ u # t
  <2>1. ~In(a, u)'
    BY <1>1, <1>8 DEF In, Inside
  <2> QED
    BY <1>1, <1>3, <1>5, <1>6, <1>7, <2>1, CallQuiet, TopicFrame
<1>9. CASE ~Registered(t) /\ u = t
  <2>1. ParentInv(t)' /\ RateInv(t)' /\ ListenInv(t)'
    BY <1>2, <1>5, <1>6, <1>7, <1>9, ParentFrame, RateFrame, ListenFrame
    DEF TopicInv, Mapped
  <2>2. CASE ~Once(t)'
    BY <1>9, <2>1, <2>2, TwiceInv
  <2>3. CASE Once(t)'
    <3>1. Once(t) /\ OnceInv(t) /\ ~\E b \in Threads : Missed(b, t)
      BY <1>4, <1>9, <2>3, NotedDoes DEF Once, TopicInv
    <3>2. /\ \A g \in Groups : g[1] = t => Bare(g) /\ ~InUse(g, t)
          /\ m_topics[t] # NoGroup => Bare(m_topics[t])
          /\ \A b \in Threads : ~Stored(b, t)
      BY <1>9, <3>1, AllBare
    <3>3. \A b \in Threads : ~In(b, t)
      BY <3>1, <3>2 DEF Missed, Stored, In
    <3>4. \A b \in Threads : In(b, t)' => b = a
      BY <1>1, <3>3 DEF In
    <3>5. call'[a].at = "topic" /\ ~Registered(t)' /\ ~Stored(a, t)'
      BY <1>1, <1>2, <1>9 DEF Registered, Stored
    <3>6. /\ \A g \in Groups : g[1] = t => Bare(g)' /\ ~InUse(g, t)'
          /\ m_topics'[t] # NoGroup => Bare(m_topics[t])'
      BY <1>2, <3>2 DEF Bare, InUse
    <3>7. OnceInv(t)'
      BY <3>4, <3>5, <3>6 DEF OnceInv, Bare
    <3>8. QosInv(t)'
      <4>1. Plain(t)' => Plain(t)
        BY <1>5, <1>9 DEF Plain, Mapped
      <4>2. m_topics[t] # NoGroup => m_topics[t] \in Groups /\ m_topics[t][1] = t
        BY MappedGroup
      <4>3. Plain(t)' => \A g \in Groups : g[1] = t =>
               dataReaderQos'[g] = DefaultPreset /\ dataWriterQos'[g] = DefaultPreset
        BY <1>2, <1>9, <3>2, <4>1 DEF TopicInv, QosInv
      <4> QED
        BY <1>2, <3>4, <3>5, <3>6, <4>2, <4>3 DEF QosInv, Bare
    <3>9. FitsInv(t)'
      BY <3>6 DEF FitsInv, Bare
    <3> QED
      BY <1>9, <2>1, <3>7, <3>8, <3>9 DEF TopicInv
  <2> QED
    BY <2>2, <2>3
<1> QED
  BY <1>8, <1>9

LEMMA CreateTopicInv ==
    ASSUME TypeOK, RefInv, NEW a \in Threads, NEW made \in BOOLEAN, CreateTopic(a, made),
           NEW u \in Topics, TopicInv(u)
    PROVE  TopicInv(u)'
<1> USE DEF settings, entities
<1>1. call[a].op \in Operations /\ call[a].at = "topic" /\ call[a] \in Making
  BY CallType DEF CreateTopic, At
<1> PICK t \in Topics, h \in Groups \cup {NoGroup} : t = call[a].topic /\ h = call[a].group
  BY <1>1 DEF Making
<1>2. In(a, t)
  BY <1>1 DEF In, Inside
<1>3. h \in Groups /\ h[1] = t
  BY <1>2 DEF RefInv, GroupsOf
<1>4. /\ UNCHANGED <<m_topics, dataReaderQos, dataWriterQos, partitioned, qosPreset>>
      /\ UNCHANGED <<publisher, subscriber, writer, readers, promised, odd>>
  BY DEF CreateTopic
<1>5. topic'[h] = made /\ \A g \in Groups : g # h => topic'[g] = topic[g]
  BY <1>3 DEF CreateTopic, TypeOK
<1>6. /\ call'[a].op = call[a].op /\ call'[a].topic = t /\ call'[a].qos = call[a].qos
      /\ made => call'[a].at = "store" /\ call'[a].group = h
      /\ ~made => call'[a].at = "create"
      /\ \A b \in Threads : b # a => call'[b] = call[b]
  <2>1. CASE made
    BY <1>1, <2>1, GotoCall DEF CreateTopic, Inside
  <2>2. CASE ~made
    BY <1>1, <2>2, ToCreateCall DEF CreateTopic
  <2> QED
    BY <2>1, <2>2
<1>7. Mapped(u) /\ SameQos(u) /\ SameEntities(u)
  BY <1>4 DEF Mapped, SameQos, SameEntities
<1>8. Resting(u)
  BY <1>6, CallRests DEF Waits
<1>9. CASE u # t
  <2>1. ~In(a, u) /\ ~In(a, u)'
    BY <1>6, <1>9 DEF In
  <2>2. SameTopics(u)
    BY <1>3, <1>4, <1>5, <1>9 DEF SameTopics
  <2> QED
    BY <1>6, <1>7, <1>8, <2>1, <2>2, CallQuiet, TopicFrame
<1>10. CASE u = t
  <2>1. ParentInv(t)'
    BY <1>4, <1>7, <1>10, ParentFrame DEF TopicInv
  <2>2. CASE ~Once(t)'
    BY <1>10, <2>1, <2>2, TwiceInv
  <2>3. CASE Once(t)'
    <3>1. Once(t) /\ OnceInv(t) /\ ~Registered(t)
      BY <1>1, <1>2, <1>4, <1>10, <2>3 DEF Once, TopicInv, OnceInv
    <3>2. /\ \A g \in Groups : g[1] = t => Bare(g) /\ ~InUse(g, t)
          /\ m_topics[t] # NoGroup => Bare(m_topics[t])
          /\ \A b \in Threads : ~Stored(b, t)
      BY <3>1, AllBare
    <3>3. \A b \in Threads : In(b, t)' => b = a /\ made
      BY <1>2, <1>6, <3>1 DEF In, OnceInv, Inside
    <3>4. \A g \in Groups : g[1] = t => Bare(g)' /\ qosPreset'[g] = NoPreset
      BY <1>4, <3>2 DEF Bare
    <3>5. m_topics[t] # NoGroup => m_topics[t] \in Groups /\ m_topics[t][1] = t
      BY MappedGroup
    <3>6. made => topic'[h] /\ (m_topics'[t] \in {NoGroup, h} \/ ~topic'[m_topics'[t]])
      BY <1>4, <1>5, <3>1, <3>5 DEF Registered
    <3>7. OnceInv(t)'
      BY <1>6, <3>3, <3>4, <3>6 DEF OnceInv, Stored
    <3>8. QosInv(t)'
      <4>1. Plain(t)' => \A g \in Groups : g[1] = t =>
               dataReaderQos'[g] = DefaultPreset /\ dataWriterQos'[g] = DefaultPreset
        BY <1>4, <1>10, <3>2 DEF TopicInv, QosInv, Plain
      <4> QED
        BY <1>4, <1>6, <3>3, <3>4, <3>5, <4>1 DEF QosInv
    <3>9. FitsInv(t)'
      BY <1>4, <3>4, <3>5 DEF FitsInv, Bare
    <3>10. RateInv(t)'
      <4>1. \A b \in Threads : ~(call[b].op = "setMaxDataRate" /\ call[b].topic = t
                                  /\ call[b].at = "set")'
        <5> SUFFICES ASSUME NEW b \in Threads, (call[b].op = "setMaxDataRate" /\ call[b].topic = t
                                                /\ call[b].at = "set")'
                     PROVE  FALSE
          OBVIOUS
        <5>1. call'[b] = call[b]
          BY <1>8, <1>10 DEF Resting, Waits
        <5>2. /\ call[b].group \in Groups /\ call[b].group[1] = t /\ call[b].name \in Names
              /\ readers[call[b].group][call[b].name] # NoEntity
          BY <5>1, CallType DEF RefInv, GroupsOf, Rating
        <5> QED
          BY <3>2, <5>2 DEF Bare
      <4>2. m_topics[t] # NoGroup => \A n \in Names : promised[m_topics[t]][n] = 0
        BY <1>10, <3>2, <3>5 DEF Bare, TopicInv, ParentInv
      <4> QED
        BY <1>4, <4>1, <4>2 DEF RateInv
    <3>11. ListenInv(t)'
      BY <1>4, <1>7, <1>8, <1>10, ListenFrame DEF TopicInv
    <3> QED
      BY <1>10, <2>1, <3>7, <3>8, <3>9, <3>10, <3>11 DEF TopicInv
  <2> QED
    BY <2>2, <2>3
<1> QED
  BY <1>9, <1>10

LEMMA StoreTopicInv ==
    ASSUME TypeOK, RefInv, NEW a \in Threads, StoreTopic(a), NEW u \in Topics, TopicInv(u)
    PROVE  TopicInv(u)'
<1> USE DEF settings, entities
<1>1. call[a].op \in Operations /\ call[a].at = "store" /\ call[a] \in Making
  BY CallType DEF StoreTopic, At
<1> PICK t \in Topics, h \in Groups \cup {NoGroup} : t = call[a].topic /\ h = call[a].group
  BY <1>1 DEF Making
<1>2. In(a, t)
  BY <1>1 DEF In, Inside
<1>3. h \in Groups /\ h[1] = t /\ h # NoGroup
  BY <1>2, Facts DEF RefInv, GroupsOf
<1>4. /\ UNCHANGED <<topic, dataReaderQos, dataWriterQos, partitioned, qosPreset>>
      /\ UNCHANGED <<publisher, subscriber, writer, readers, promised, odd>>
  BY DEF StoreTopic
<1>5. m_topics'[t] = h /\ \A x \in Topics : x # t => m_topics'[x] = m_topics[x]
  BY DEF StoreTopic, TypeOK
<1>6. /\ call'[a].op = call[a].op /\ call'[a].topic = t /\ call'[a].qos = call[a].qos
      /\ call'[a].at = "lookup" /\ call'[a].group = h
      /\ \A b \in Threads : b # a => call'[b] = call[b]
  BY <1>1, GotoCall DEF StoreTopic, Inside
<1>7. SameTopics(u) /\ SameQos(u) /\ SameEntities(u)
  BY <1>4 DEF SameTopics, SameQos, SameEntities
<1>8. Resting(u)
  BY <1>6, CallRests DEF Waits
<1>9. CASE u # t
  <2>1. ~In(a, u) /\ ~In(a, u)'
    BY <1>6, <1>9 DEF In
  <2>2. Mapped(u)
    BY <1>4, <1>5, <1>9 DEF Mapped
  <2> QED
    BY <1>6, <1>7, <1>8, <2>1, <2>2, CallQuiet, TopicFrame
<1>10. CASE u = t
  <2>1. ParentInv(t)'
    BY <1>4, <1>7, <1>10, ParentFrame DEF TopicInv
  <2>2. CASE ~Once(t)'
    BY <1>10, <2>1, <2>2, TwiceInv
  <2>3. CASE Once(t)'
    <3>1. /\ Once(t) /\ OnceInv(t) /\ topic[h]
          /\ m_topics[t] \in {NoGroup, h} \/ ~topic[m_topics[t]]
          /\ \A g \in Groups : g[1] = t => qosPreset[g] = NoPreset
          /\ \A b \in Threads : In(b, t) => b = a
      BY <1>1, <1>2, <1>4, <1>10, <2>3 DEF Once, TopicInv, OnceInv
    <3>2. \A g \in Groups : g[1] = t /\ ~Bare(g) => g = h /\ m_topics[t] = h
      BY <3>1, Facts DEF OnceInv, InUse
    <3>3. \A b \in Threads : In(b, t)' <=> b = a
      BY <1>1, <1>2, <1>6, <3>1 DEF In, Inside
    <3>4. \A g \in Groups : g[1] = t => Bare(g)' \/ InUse(g, t)'
      BY <1>4, <1>5, <3>1, <3>2 DEF Bare, InUse
    <3>5. Registered(t)'
      BY <1>3, <1>4, <1>5, <3>1 DEF Registered
    <3>6. OnceInv(t)'
      BY <1>4, <1>5, <1>6, <3>1, <3>3, <3>4, <3>5 DEF OnceInv, Stored
    <3>7. QosInv(t)'
      <4> SUFFICES ASSUME Plain(t)'
                   PROVE  QosInv(t)'
        BY DEF QosInv
      <4>1. Plain(t) /\ QosInv(t)
        BY <1>4, <1>10 DEF Plain, TopicInv
      <4>2. \A g \in Groups : g[1] = t =>
               dataReaderQos[g] = DefaultPreset /\ dataWriterQos[g] = DefaultPreset
        <5> SUFFICES ASSUME NEW g \in Groups, g[1] = t
                     PROVE  dataReaderQos[g] = DefaultPreset /\ dataWriterQos[g] = DefaultPreset
          OBVIOUS
        <5>1. CASE ~InUse(g, t)
          BY <4>1, <5>1 DEF QosInv
        <5>2. CASE InUse(g, t)
          <6>1. m_topics[t] = g /\ m_topics[t] # NoGroup
            BY <5>2, Facts DEF InUse
          <6> QED
            BY <1>1, <1>2, <4>1, <6>1 DEF QosInv
        <5> QED
          BY <5>1, <5>2
      <4> QED
        BY <1>3, <1>4, <1>5, <1>6, <3>1, <3>3, <4>2 DEF QosInv
    <3>8. FitsInv(t)'
      <4> SUFFICES ASSUME Plain(t)'
                   PROVE  FitsInv(t)'
        BY DEF FitsInv
      <4>1. Plain(t) /\ FitsInv(t)
        BY <1>4, <1>10 DEF Plain, TopicInv
      <4>2. CASE Bare(h)
        BY <1>4, <1>5, <4>2 DEF FitsInv, Bare
      <4>3. CASE ~Bare(h)
        <5>1. m_topics[t] = h
          BY <1>3, <3>2, <4>3
        <5>2. ASSUME NEW q, Fits(t, q)
              PROVE  /\ \A b \in Threads : In(b, t)' => q \in {DefaultPreset, call'[b].qos}
                     /\ "early" \notin odd[t] => q = qosPreset[h]
          BY <1>2, <1>6, <3>3, <5>1, <5>2 DEF Fits
        <5>3. m_topics'[t] = h /\ qosPreset'[h] = NoPreset
              /\ (writer' = writer /\ readers' = readers /\ odd' = odd)
              /\ qosPreset' = qosPreset
          BY <1>3, <1>4, <1>5, <3>1
        <5>4. writer'[m_topics'[t]] # NoEntity => Fits(t, writer[m_topics[t]].qos)'
          <6> SUFFICES ASSUME writer'[m_topics'[t]] # NoEntity
                       PROVE  Fits(t, writer[m_topics[t]].qos)'
            OBVIOUS
          <6> DEFINE q == writer[m_topics[t]].qos
          <6>1. Fits(t, q) /\ q' = q
            BY <1>3, <4>1, <5>1, <5>3 DEF FitsInv
          <6> QED
            BY <5>2, <5>3, <6>1 DEF Fits
        <5>5. ASSUME NEW n \in Names, readers'[m_topics'[t]][n] # NoEntity
              PROVE  Fits(t, readers[m_topics[t]][n].qos)'
          <6> DEFINE q == readers[m_topics[t]][n].qos
          <6>1. Fits(t, q) /\ q' = q
            BY <1>3, <4>1, <5>1, <5>3, <5>5 DEF FitsInv
          <6> QED
            BY <5>2, <5>3, <6>1 DEF Fits
        <5> QED
          BY <5>4, <5>5 DEF FitsInv
      <4> QED
        BY <4>2, <4>3
    <3>9. RateInv(t)'
      <4> SUFFICES ASSUME odd'[t] \cap {"twice", "custom", "early"} = {}
                   PROVE  RateInv(t)'
        BY DEF RateInv
      <4>1. RateInv(t) /\ odd[t] \cap {"twice", "custom", "early"} = {}
        BY <1>4, <1>10 DEF TopicInv
      <4>2. ASSUME NEW n \in Names, promised[h][n] # 0
            PROVE  m_topics[t] = h
        BY <1>3, <1>10, <3>2, <4>2 DEF TopicInv, ParentInv, Bare
      <4>3. ASSUME NEW b \in Threads, (call[b].op = "setMaxDataRate" /\ call[b].topic = t
                                       /\ call[b].at = "set")'
            PROVE  call'[b] = call[b] /\ m_topics[t] = h
        <5>1. call'[b] = call[b]
          BY <1>8, <1>10, <4>3 DEF Resting, Waits
        <5>2. /\ call[b].group \in Groups /\ call[b].group[1] = t /\ call[b].name \in Names
              /\ readers[call[b].group][call[b].name] # NoEntity
          BY <4>3, <5>1, CallType DEF RefInv, GroupsOf, Rating
        <5> QED
          BY <3>2, <5>1, <5>2 DEF Bare
      <4> QED
        BY <1>3, <1>4, <1>5, <4>1, <4>2, <4>3 DEF RateInv
    <3>10. ListenInv(t)'
      <4> SUFFICES ASSUME odd'[t] \cap {"twice", "failed"} = {},
                          NEW b \in Threads, (call[b].op = "Listener" /\ call[b].at = "listen"
                                              /\ call[b].topic = t)'
                   PROVE  readers'[m_topics'[t]][Generated] # NoEntity
        BY <1>3, <1>5 DEF ListenInv
      <4>1. call'[b] = call[b]
        BY <1>8, <1>10 DEF Resting, Waits
      <4>2. m_topics[t] # NoGroup /\ readers[m_topics[t]][Generated] # NoEntity
        BY <1>4, <1>10, <4>1 DEF TopicInv, ListenInv
      <4>3. ~Bare(m_topics[t])
        BY <4>2, Facts DEF Bare
      <4> QED
        BY <1>4, <1>5, <3>2, <4>2, <4>3, MappedGroup
    <3> QED
      BY <1>10, <2>1, <3>6, <3>7, <3>8, <3>9, <3>10 DEF TopicInv
  <2> QED
    BY <2>2, <2>3
<1> QED
  BY <1>9, <1>10

\* What a step of registerQos leaves as it was, whichever it is.
Advance(a, t) ==
    /\ topic' = topic /\ odd' = odd /\ \A x \in Topics : m_topics'[x] = m_topics[x]
    /\ publisher' = publisher /\ subscriber' = subscriber /\ writer' = writer
    /\ partitioned' = partitioned
    /\ \A g \in Groups, n \in Names :
          /\ readers'[g][n] # NoEntity <=> readers[g][n] # NoEntity
          /\ readers[g][n] # NoEntity => readers'[g][n].qos = readers[g][n].qos
          /\ promised'[g][n] # 0 =>
                promised'[g][n] = promised[g][n] /\ readers'[g][n] = readers[g][n]
    /\ call'[a].op = call[a].op /\ call'[a].topic = call[a].topic
    /\ call'[a].qos = call[a].qos
    /\ \A b \in Threads : b # a => call'[b] = call[b]
    /\ \/ /\ \A g \in Groups : qosPreset'[g] = qosPreset[g]
          /\ call'[a].at \in {"check", "reader", "writer", "preset"}
          /\ call'[a].group = m_topics[t]
       \/ /\ qosPreset'[m_topics[t]] = call[a].qos
          /\ \A g \in Groups : g # m_topics[t] => qosPreset'[g] = qosPreset[g]
          /\ call'[a].at = "create"

\* In a topic that no one else registers they keep the invariant, once the QoS
\* that are stored are as they should be.
LEMMA AdvanceInv ==
    ASSUME TypeOK, RefInv, NEW a \in Threads, NEW t \in Topics, Stored(a, t), Advance(a, t),
           Once(t), TopicInv(t), QosInv(t)'
    PROVE  TopicInv(t)'
<1>1. In(a, t) /\ call[a].topic = t /\ call[a].op \in Operations
      /\ call[a].at \notin {"topic", "store"}
  BY DEF Stored, In
<1> DEFINE h == m_topics[t]
<1>2. h \in Groups /\ h[1] = t /\ h # NoGroup /\ m_topics'[t] = h
  BY MappedGroup DEF RefInv, Advance
<1>3. /\ \A b \in Threads : In(b, t) => b = a
      /\ topic[h] /\ topic'[h]
      /\ \A g \in Groups : g[1] = t => qosPreset[g] = NoPreset
      /\ \A g \in Groups : g[1] = t => Bare(g) \/ g = h
  BY <1>1 DEF TopicInv, OnceInv, Registered, InUse, Advance
<1>4. call[a].qos \in Presets /\ NoPreset \notin Presets /\ DefaultPreset \in Presets
  BY <1>1, CallType, Facts DEF Making
<1> HIDE DEF h
<1>5. \A b \in Threads : In(b, t)' => b = a /\ call'[a].at # "create"
  BY <1>3 DEF In, Inside, Advance
<1>6. Once(t)'
  BY DEF Once, Advance
<1>7. OnceInv(t)'
  <2>1. \A g \in Groups : g[1] = t => Bare(g)' \/ InUse(g, t)'
    <3> SUFFICES ASSUME NEW g \in Groups, g[1] = t, g # h
                 PROVE  Bare(g)'
      BY <1>2, <1>3 DEF InUse
    <3>1. Bare(g) /\ qosPreset'[g] = qosPreset[g]
      BY <1>3 DEF Advance, h
    <3> QED
      BY <3>1 DEF Bare, Advance
  <2>2. ASSUME NEW b \in Threads, In(b, t)'
        PROVE  /\ call'[b].at \notin {"topic", "store"} /\ call'[b].group = h
               /\ \A g \in Groups : g[1] = t => qosPreset'[g] = NoPreset
    <3>1. b = a /\ call'[a].at # "create"
      BY <1>5, <2>2
    <3> QED
      BY <1>3, <3>1 DEF Advance, h
  <2>3. Registered(t)'
    BY <1>2, <1>3 DEF Registered
  <2> QED
    BY <1>2, <1>5, <2>1, <2>2, <2>3 DEF OnceInv
<1>8. FitsInv(t)'
  <2> SUFFICES ASSUME Plain(t)'
               PROVE  FitsInv(t)'
    BY DEF FitsInv
  <2>1. Plain(t) /\ FitsInv(t)
    BY DEF Plain, Advance, TopicInv
  <2>2. ASSUME NEW q, Fits(t, q)
        PROVE  /\ qosPreset'[h] # NoPreset => q \in {DefaultPreset, qosPreset'[h]}
               /\ \A b \in Threads : In(b, t)' => q \in {DefaultPreset, call'[b].qos}
               /\ "early" \notin odd[t] => q = qosPreset'[h]
    <3>1. q \in {DefaultPreset, call[a].qos} /\ "early" \in odd[t]
      BY <1>1, <1>2, <1>3, <1>4, <2>2 DEF Fits, h
    <3>2. \A b \in Threads : In(b, t)' => q \in {DefaultPreset, call'[b].qos}
      BY <1>5, <3>1 DEF Advance
    <3>3. qosPreset'[h] # NoPreset => qosPreset'[h] = call[a].qos
      BY <1>2, <1>3 DEF Advance, h
    <3> QED
      BY <3>1, <3>2, <3>3
  <2>3. writer'[m_topics'[t]] # NoEntity => Fits(t, writer[m_topics[t]].qos)'
    <3> SUFFICES ASSUME writer'[m_topics'[t]] # NoEntity
                 PROVE  Fits(t, writer[m_topics[t]].qos)'
      OBVIOUS
    <3> DEFINE q == writer[m_topics[t]].qos
    <3>1. Fits(t, q) /\ q' = q
      BY <1>2, <2>1 DEF FitsInv, Advance, h
    <3>2. m_topics'[t] = h /\ odd' = odd
      BY <1>2 DEF Advance
    <3> QED
      BY <2>2, <3>1, <3>2 DEF Fits
  <2>4. ASSUME NEW n \in Names, readers'[m_topics'[t]][n] # NoEntity
        PROVE  Fits(t, readers[m_topics[t]][n].qos)'
    <3> DEFINE q == readers[m_topics[t]][n].qos
    <3>1. Fits(t, q) /\ q' = q
      BY <1>2, <2>1, <2>4 DEF FitsInv, Advance, h
    <3>2. m_topics'[t] = h /\ odd' = odd
      BY <1>2 DEF Advance
    <3> QED
      BY <2>2, <3>1, <3>2 DEF Fits
  <2> QED
    BY <2>3, <2>4 DEF FitsInv
<1>9. ParentInv(t)'
  BY DEF TopicInv, ParentInv, Advance
<1>10. Resting(t)
  BY <1>1, CallRests DEF Waits, Advance, Operations
<1>11. RateInv(t)'
  <2> SUFFICES ASSUME odd'[t] \cap {"twice", "custom", "early"} = {}
               PROVE  RateInv(t)'
    BY DEF RateInv
  <2>1. RateInv(t) /\ odd[t] \cap {"twice", "custom", "early"} = {}
    BY DEF TopicInv, Advance
  <2>2. \A n \in Names : promised'[h][n] # 0 /\ promised'[h][n] < 1000 =>
           readers'[h][n].separation = promised'[h][n] * 15625
    BY <1>2, <2>1 DEF RateInv, Advance, h
  <2>3. \A b \in Threads : ~(call[b].op = "setMaxDataRate" /\ call[b].topic = t
                              /\ call[b].at = "set")'
    <3> SUFFICES ASSUME NEW b \in Threads, (call[b].op = "setMaxDataRate" /\ call[b].topic = t
                                            /\ call[b].at = "set")'
                 PROVE  FALSE
      OBVIOUS
    <3>1. call'[b] = call[b]
      BY <1>10 DEF Resting, Waits
    <3>2. call[b].qos = qosPreset[h] /\ call[b].qos \in Presets
      BY <2>1, <3>1, CallType DEF RateInv, Rating, h
    <3> QED
      BY <1>2, <1>3, <1>4, <3>2
  <2> QED
    BY <1>2, <2>2, <2>3 DEF RateInv
<1>12. ListenInv(t)'
  <2>1. Mapped(t) /\ \A g \in Groups, n \in Names : g[1] = t =>
           (readers[g][n] # NoEntity => readers'[g][n] # NoEntity)
    BY DEF Mapped, Advance
  <2> QED
    BY <1>10, <2>1, ListenFrame DEF TopicInv
<1> QED
  BY <1>7, <1>8, <1>9, <1>11, <1>12 DEF TopicInv

\* What every step of registerQos knows.
LEMMA RegisterStep ==
    ASSUME TypeOK, RefInv, NEW a \in Threads,
           RegisterQos(a) \/ CheckPreset(a) \/ RegisterReaderQos(a) \/ RegisterWriterQos(a)
           \/ RegisterPreset(a),
           NEW t \in Topics, t = call[a].topic
    PROVE  /\ Stored(a, t) /\ call[a] \in Making /\ m_topics[t] \in Groups
           /\ m_topics[t][1] = t /\ m_topics[t] # NoGroup
           /\ call[a].group \in GroupsOf(t) /\ call[a].qos \in Presets
           /\ call'[a].op = call[a].op /\ call'[a].topic = t /\ call'[a].qos = call[a].qos
           /\ \A b \in Threads : b # a => call'[b] = call[b]
<1>1. /\ call[a].op \in Operations
      /\ call[a].at \in {"lookup", "check", "reader", "writer", "preset"}
  BY DEF RegisterQos, CheckPreset, RegisterReaderQos, RegisterWriterQos, RegisterPreset, At
<1>2. Stored(a, t) /\ In(a, t) /\ m_topics[t] \in Groups /\ call[a].qos \in Presets
  BY <1>1, StoredGroup
<1>3. m_topics[t] # NoGroup /\ m_topics[t][1] = t /\ call[a].group \in GroupsOf(t)
  BY <1>2, Facts, MappedGroup DEF RefInv
<1>4. call[a] \in Making
  BY <1>1, CallType
<1>5. /\ call'[a].op = call[a].op /\ call'[a].topic = t /\ call'[a].qos = call[a].qos
      /\ \A b \in Threads : b # a => call'[b] = call[b]
  <2>1. CASE RegisterQos(a)
    BY <2>1, LookupCall
  <2>2. CASE \E at \in Inside : Goto(a, at)
    BY <1>1, <2>2, GotoCall
  <2>3. CASE ToCreate(a)
    BY <1>1, <2>3, ToCreateCall
  <2> QED
    BY <2>1, <2>2, <2>3
    DEF CheckPreset, RegisterReaderQos, RegisterWriterQos, RegisterPreset, Inside
<1> QED
  BY <1>2, <1>3, <1>4, <1>5

\* They are about one topic.
LEMMA RegisterElsewhere ==
    ASSUME TypeOK, RefInv, NEW a \in Threads,
           RegisterQos(a) \/ CheckPreset(a) \/ RegisterReaderQos(a) \/ RegisterWriterQos(a)
           \/ RegisterPreset(a),
           NEW u \in Topics, u # call[a].topic, TopicInv(u)
    PROVE  TopicInv(u)'
<1> USE DEF settings, entities
<1> PICK t \in Topics : t = call[a].topic
  <2>1. call[a].op \in Operations
    BY DEF RegisterQos, CheckPreset, RegisterReaderQos, RegisterWriterQos, RegisterPreset, At
  <2> QED
    BY <2>1, CallType DEF Making
<1>1. /\ Stored(a, t) /\ m_topics[t] \in Groups /\ m_topics[t] # NoGroup
      /\ m_topics[t][1] = t /\ call[a].group \in GroupsOf(t) /\ call[a].qos \in Presets
      /\ call'[a].op = call[a].op /\ call'[a].topic = t /\ call[a].op \in Operations
      /\ \A b \in Threads : b # a => call'[b] = call[b]
  BY RegisterStep DEF Stored, In
<1>2. ~In(a, u) /\ ~In(a, u)' /\ ~Waits(a, u)'
  BY <1>1 DEF In, Waits
<1>3. Quiet(u) /\ Resting(u)
  BY <1>1, <1>2, CallQuiet, CallRests
<1>4. GroupOf(t) = m_topics[t]
  BY <1>1 DEF GroupOf
<1>5. odd' = odd /\ topic' = topic
  BY DEF RegisterQos, CheckPreset, RegisterReaderQos, RegisterWriterQos, RegisterPreset
<1>6. Mapped(u) /\ SameQos(u) /\ SameEntities(u)
  <2>1. CASE RegisterReaderQos(a)
    <3>1. SetReaderQos(t, call[a].qos)
          /\ UNCHANGED <<dataWriterQos, partitioned, publisher, subscriber, writer>>
      BY <2>1 DEF RegisterReaderQos
    <3>2. /\ m_topics'[u] = m_topics[u]
          /\ \A h \in Groups : h # m_topics[t] =>
                /\ dataReaderQos'[h] = dataReaderQos[h] /\ readers'[h] = readers[h]
                /\ promised'[h] = promised[h]
      BY <1>1, <1>4, <3>1, SetReaderDoes
    <3> QED
      BY <1>1, <1>5, <3>1, <3>2 DEF Mapped, SameQos, SameEntities
  <2>2. CASE RegisterWriterQos(a)
    <3>1. SetWriterQos(t, call[a].qos)
          /\ UNCHANGED <<dataReaderQos, partitioned, publisher, subscriber, writer, readers,
                         promised>>
      BY <2>2 DEF RegisterWriterQos
    <3>2. /\ m_topics'[u] = m_topics[u]
          /\ \A h \in Groups : h # m_topics[t] => dataWriterQos'[h] = dataWriterQos[h]
      BY <1>1, <1>4, <3>1, SetWriterDoes
    <3> QED
      BY <1>1, <1>5, <3>1, <3>2 DEF Mapped, SameQos, SameEntities
  <2> QED
    BY <1>5, <2>1, <2>2
    DEF RegisterQos, CheckPreset, RegisterPreset, Mapped, SameQos, SameEntities
<1>7. SameTopics(u)
  <2>1. CASE RegisterPreset(a)
    <3>1. call[a].group[1] = t
      BY <1>1 DEF GroupsOf
    <3>2. \A g \in Groups : g # call[a].group => qosPreset'[g] = qosPreset[g]
      BY <2>1 DEF RegisterPreset, TypeOK
    <3> QED
      BY <1>5, <3>1, <3>2 DEF SameTopics
  <2> QED
    BY <1>5, <2>1
    DEF RegisterQos, CheckPreset, RegisterReaderQos, RegisterWriterQos, SameTopics
<1> QED
  BY <1>3, <1>6, <1>7, TopicFrame

\* In its own topic, that no one else registers too.
LEMMA RegisterHere ==
    ASSUME TypeOK, RefInv, NEW a \in Threads,
           RegisterQos(a) \/ CheckPreset(a) \/ RegisterReaderQos(a) \/ RegisterWriterQos(a)
           \/ RegisterPreset(a),
           NEW t \in Topics, t = call[a].topic, TopicInv(t), Once(t)
    PROVE  TopicInv(t)'
<1> USE DEF settings, entities
<1>1. /\ Stored(a, t) /\ call[a] \in Making /\ m_topics[t] \in Groups
      /\ m_topics[t][1] = t /\ m_topics[t] # NoGroup
      /\ call[a].group \in GroupsOf(t) /\ call[a].qos \in Presets
      /\ call'[a].op = call[a].op /\ call'[a].topic = t /\ call'[a].qos = call[a].qos
      /\ \A b \in Threads : b # a => call'[b] = call[b]
  BY RegisterStep
<1>2. In(a, t) /\ call[a].op \in Operations
  BY <1>1 DEF Stored, In
<1> DEFINE h == m_topics[t]
<1>3. /\ \A b \in Threads : In(b, t) => b = a
      /\ call[a].group = h /\ topic[h]
      /\ \A g \in Groups : g[1] = t => qosPreset[g] = NoPreset
  BY <1>1, <1>2 DEF TopicInv, OnceInv, Registered
<1>4. GroupOf(t) = h
  BY <1>1 DEF GroupOf
<1>5. QosInv(t)
  BY DEF TopicInv
<1>6. Plain(t) =>
         /\ \A g \in Groups : g[1] = t /\ g # h =>
               dataReaderQos[g] = DefaultPreset /\ dataWriterQos[g] = DefaultPreset
         /\ call[a].at \in {"writer", "preset"} => dataReaderQos[h] = call[a].qos
         /\ call[a].at \notin {"writer", "preset"} => dataReaderQos[h] = DefaultPreset
         /\ call[a].at = "preset" => dataWriterQos[h] = call[a].qos
         /\ call[a].at # "preset" => dataWriterQos[h] = DefaultPreset
  BY <1>1, <1>2, <1>5 DEF QosInv, InUse
<1> HIDE DEF h
\* What QosInv then takes.
<1>7. ASSUME odd' = odd, topic' = topic, m_topics'[t] = h,
             Plain(t) =>
                /\ \A g \in Groups : g[1] = t /\ g # h =>
                      dataReaderQos'[g] = DefaultPreset /\ dataWriterQos'[g] = DefaultPreset
                /\ In(a, t)' =>
                      /\ call'[a].at \in {"writer", "preset"} =>
                            dataReaderQos'[h] = call'[a].qos
                      /\ call'[a].at \notin {"writer", "preset"} =>
                            dataReaderQos'[h] = DefaultPreset
                      /\ call'[a].at = "preset" => dataWriterQos'[h] = call'[a].qos
                      /\ call'[a].at # "preset" => dataWriterQos'[h] = DefaultPreset
                /\ qosPreset'[h] # NoPreset =>
                      dataReaderQos'[h] = qosPreset'[h] /\ dataWriterQos'[h] = qosPreset'[h]
      PROVE  QosInv(t)'
  <2>1. Plain(t)' = Plain(t)
    BY <1>7 DEF Plain
  <2>2. \A b \in Threads : In(b, t)' => b = a
    BY <1>1, <1>3 DEF In
  <2>3. \A g \in Groups : g[1] = t /\ ~InUse(g, t)' => g # h
    BY <1>3, <1>7 DEF InUse
  <2> QED
    BY <1>7, <2>1, <2>2, <2>3 DEF QosInv
<1>8. CASE RegisterQos(a)
  <2>1. call[a].at = "lookup" /\ call'[a].at = "check" /\ call'[a].group = h
    BY <1>8, LookupCall DEF RegisterQos, At, h
  <2>2. UNCHANGED <<m_topics, topic, dataReaderQos, dataWriterQos, partitioned, qosPreset,
                    publisher, subscriber, writer, readers, promised, odd>>
    BY <1>8 DEF RegisterQos
  <2>3. Advance(a, t)
    BY <1>1, <2>1, <2>2 DEF Advance, h
  <2>4. QosInv(t)'
    BY <1>1, <1>3, <1>6, <1>7, <2>1, <2>2 DEF h
  <2> QED
    BY <1>1, <2>3, <2>4, AdvanceInv
<1>9. CASE CheckPreset(a)
  <2>1. call[a].at = "check" /\ Goto(a, "reader")
    BY <1>1, <1>3, <1>9 DEF CheckPreset, At, h
  <2>2. call'[a].at = "reader" /\ call'[a].group = h
    BY <1>2, <1>3, <2>1, GotoCall DEF Inside
  <2>3. UNCHANGED <<m_topics, topic, dataReaderQos, dataWriterQos, partitioned, qosPreset,
                    publisher, subscriber, writer, readers, promised, odd>>
    BY <1>9 DEF CheckPreset
  <2>4. Advance(a, t)
    BY <1>1, <2>2, <2>3 DEF Advance, h
  <2>5. QosInv(t)'
    BY <1>1, <1>3, <1>6, <1>7, <2>1, <2>2, <2>3 DEF h
  <2> QED
    BY <1>1, <2>4, <2>5, AdvanceInv
<1>10. CASE RegisterReaderQos(a)
  <2>1. call[a].at = "reader" /\ call'[a].at = "writer" /\ call'[a].group = h
    BY <1>2, <1>3, <1>10, GotoCall DEF RegisterReaderQos, At, Inside
  <2>2. UNCHANGED <<topic, dataWriterQos, partitioned, qosPreset, publisher, subscriber,
                    writer, odd>> /\ SetReaderQos(t, call[a].qos)
    BY <1>10 DEF RegisterReaderQos
  <2>3. /\ \A x \in Topics : m_topics'[x] = m_topics[x]
        /\ dataReaderQos'[h] = call[a].qos
        /\ readers'[h] = ReadersTake(h, call[a].qos)
        /\ promised'[h] = [n \in Names |-> 0]
        /\ \A g \in Groups : g # h =>
              /\ dataReaderQos'[g] = dataReaderQos[g] /\ readers'[g] = readers[g]
              /\ promised'[g] = promised[g]
    BY <1>1, <1>4, <2>2, SetReaderDoes DEF h
  <2>4. \A n \in Names :
           /\ readers'[h][n] # NoEntity <=> readers[h][n] # NoEntity
           /\ readers[h][n] # NoEntity => readers'[h][n].qos = readers[h][n].qos
           /\ promised'[h][n] = 0
    BY <1>1, <2>3, TakeType DEF h
  <2>5. Advance(a, t)
    BY <1>1, <2>1, <2>2, <2>3, <2>4 DEF Advance, h
  <2>6. QosInv(t)'
    BY <1>1, <1>3, <1>6, <1>7, <2>1, <2>2, <2>3 DEF h
  <2> QED
    BY <1>1, <2>5, <2>6, AdvanceInv
<1>11. CASE RegisterWriterQos(a)
  <2>1. call[a].at = "writer" /\ call'[a].at = "preset" /\ call'[a].group = h
    BY <1>2, <1>3, <1>11, GotoCall DEF RegisterWriterQos, At, Inside
  <2>2. UNCHANGED <<topic, dataReaderQos, partitioned, qosPreset, publisher, subscriber,
                    writer, readers, promised, odd>> /\ SetWriterQos(t, call[a].qos)
    BY <1>11 DEF RegisterWriterQos
  <2>3. /\ \A x \in Topics : m_topics'[x] = m_topics[x]
        /\ dataWriterQos'[h] = call[a].qos
        /\ \A g \in Groups : g # h => dataWriterQos'[g] = dataWriterQos[g]
    BY <1>1, <1>4, <2>2, SetWriterDoes DEF h
  <2>4. Advance(a, t)
    BY <1>1, <2>1, <2>2, <2>3 DEF Advance, h
  <2>5. QosInv(t)'
    BY <1>1, <1>3, <1>6, <1>7, <2>1, <2>2, <2>3 DEF h
  <2> QED
    BY <1>1, <2>4, <2>5, AdvanceInv
<1>12. CASE RegisterPreset(a)
  <2>1. call[a].at = "preset" /\ call'[a].at = "create"
    BY <1>2, <1>12, ToCreateCall DEF RegisterPreset, At
  <2>2. UNCHANGED <<m_topics, topic, dataReaderQos, dataWriterQos, partitioned, publisher,
                    subscriber, writer, readers, promised, odd>>
    BY <1>12 DEF RegisterPreset
  <2>3. /\ qosPreset'[h] = call[a].qos
        /\ \A g \in Groups : g # h => qosPreset'[g] = qosPreset[g]
    BY <1>1, <1>3, <1>12 DEF RegisterPreset, TypeOK, h
  <2>4. Advance(a, t)
    BY <1>1, <2>1, <2>2, <2>3 DEF Advance, h
  <2>5. QosInv(t)'
    <3>1. ~In(a, t)'
      BY <2>1 DEF In, Inside
    <3> QED
      BY <1>1, <1>3, <1>6, <1>7, <2>1, <2>2, <2>3, <3>1 DEF h
  <2> QED
    BY <1>1, <2>4, <2>5, AdvanceInv
<1> QED
  BY <1>8, <1>9, <1>10, <1>11, <1>12

\* In a topic that was registered twice only the parents matter, which these
\* steps do not touch.
LEMMA RegisterTwice ==
    ASSUME TypeOK, RefInv, NEW a \in Threads,
           RegisterQos(a) \/ CheckPreset(a) \/ RegisterReaderQos(a) \/ RegisterWriterQos(a)
           \/ RegisterPreset(a),
           NEW t \in Topics, t = call[a].topic, TopicInv(t), ~Once(t)
    PROVE  TopicInv(t)'
<1> USE DEF settings, entities
<1>1. UNCHANGED <<publisher, subscriber, writer, partitioned, odd>>
  BY DEF RegisterQos, CheckPreset, RegisterReaderQos, RegisterWriterQos, RegisterPreset
<1>2. \A g \in Groups, n \in Names :
         /\ readers'[g][n] # NoEntity <=> readers[g][n] # NoEntity
         /\ promised'[g][n] # 0 => promised'[g][n] = promised[g][n]
  <2>1. CASE RegisterReaderQos(a)
    <3>1. m_topics[t] \in Groups /\ m_topics[t] # NoGroup /\ call[a].qos \in Presets
      BY RegisterStep
    <3>2. SetReaderQos(t, call[a].qos) /\ GroupOf(t) = m_topics[t]
      BY <2>1, <3>1 DEF RegisterReaderQos, GroupOf
    <3>3. /\ readers'[m_topics[t]] = ReadersTake(m_topics[t], call[a].qos)
          /\ promised'[m_topics[t]] = [n \in Names |-> 0]
          /\ \A g \in Groups : g # m_topics[t] =>
                readers'[g] = readers[g] /\ promised'[g] = promised[g]
      BY <3>1, <3>2, SetReaderDoes
    <3>4. \A n \in Names : readers'[m_topics[t]][n] # NoEntity
                              <=> readers[m_topics[t]][n] # NoEntity
      BY <3>1, <3>3, TakeType
    <3> QED
      BY <3>3, <3>4
  <2> QED
    BY <2>1 DEF RegisterQos, CheckPreset, RegisterWriterQos, RegisterPreset
<1>3. ParentInv(t)'
  BY <1>1, <1>2 DEF TopicInv, ParentInv
<1> QED
  BY <1>1, <1>3, TwiceInv DEF Once

\* An endpoint that is created fits, or it is noted that it came early.
LEMMA NewFits ==
    ASSUME TypeOK, RefInv, NEW t \in Topics, QosInv(t), Plain(t), Registered(t),
           Early(t) \subseteq odd'[t],
           NEW q \in {dataReaderQos[m_topics[t]], dataWriterQos[m_topics[t]]}
    PROVE  /\ qosPreset[m_topics[t]] # NoPreset => q \in {DefaultPreset, qosPreset[m_topics[t]]}
           /\ \A a \in Threads : In(a, t) => q \in {DefaultPreset, call[a].qos}
           /\ "early" \notin odd'[t] => q = qosPreset[m_topics[t]]
<1>1. m_topics[t] # NoGroup
  BY DEF Registered
<1>2. \A a \in Threads : In(a, t) => q \in {DefaultPreset, call[a].qos}
  BY <1>1 DEF QosInv
<1>3. qosPreset[m_topics[t]] # NoPreset => q = qosPreset[m_topics[t]]
  BY <1>1 DEF QosInv
<1>4. "early" \notin odd'[t] => qosPreset[m_topics[t]] # NoPreset
  BY DEF Early
<1> QED
  BY <1>2, <1>3, <1>4

\* Endpoints that are created now, and those that were there.
LEMMA FitsCreate ==
    ASSUME TypeOK, RefInv, NEW t \in Topics, QosInv(t), FitsInv(t), Mapped(t), Quiet(t),
           SameTopics(t), Early(t) \subseteq odd'[t],
           LET g == m_topics[t] IN
           /\ m_topics[t] # NoGroup /\ writer'[g] # NoEntity =>
                 \/ writer[g] # NoEntity /\ writer'[g].qos = writer[g].qos
                 \/ Registered(t) /\ writer'[g].qos = dataWriterQos[g]
           /\ \A n \in Names : m_topics[t] # NoGroup /\ readers'[g][n] # NoEntity =>
                 \/ readers[g][n] # NoEntity /\ readers'[g][n].qos = readers[g][n].qos
                 \/ Registered(t) /\ readers'[g][n].qos = dataReaderQos[g]
    PROVE  FitsInv(t)'
<1> SUFFICES ASSUME Plain(t)', m_topics'[t] # NoGroup
             PROVE  FitsInv(t)'
  BY DEF FitsInv
<1> DEFINE h == m_topics[t]
<1>1. Plain(t) /\ h # NoGroup
  BY DEF Plain, Mapped
<1>2. h \in Groups /\ h[1] = t /\ m_topics'[t] = h /\ qosPreset'[h] = qosPreset[h]
  BY <1>1, MappedGroup DEF Mapped, SameTopics
<1>3. ASSUME NEW q, Fits(t, q) \/ (Registered(t) /\ q \in {dataReaderQos[h], dataWriterQos[h]})
      PROVE  /\ qosPreset'[h] # NoPreset => q \in {DefaultPreset, qosPreset'[h]}
             /\ \A a \in Threads : In(a, t)' => q \in {DefaultPreset, call'[a].qos}
             /\ "early" \notin odd'[t] => q = qosPreset'[h]
  <2>1. /\ qosPreset[h] # NoPreset => q \in {DefaultPreset, qosPreset[h]}
        /\ \A a \in Threads : In(a, t) => q \in {DefaultPreset, call[a].qos}
        /\ "early" \notin odd'[t] => q = qosPreset[h]
    <3>1. CASE Fits(t, q)
      BY <3>1 DEF Fits, Mapped
    <3>2. CASE Registered(t) /\ q \in {dataReaderQos[h], dataWriterQos[h]}
      BY <1>1, <3>2, NewFits
    <3> QED
      BY <1>3, <3>1, <3>2
  <2> QED
    BY <1>2, <2>1 DEF Quiet
<1>4. writer'[m_topics'[t]] # NoEntity => Fits(t, writer[m_topics[t]].qos)'
  <2> SUFFICES ASSUME writer'[m_topics'[t]] # NoEntity
               PROVE  Fits(t, writer[m_topics[t]].qos)'
    OBVIOUS
  <2>1. \/ Fits(t, writer'[h].qos)
        \/ Registered(t) /\ writer'[h].qos \in {dataReaderQos[h], dataWriterQos[h]}
    BY <1>1, <1>2 DEF FitsInv
  <2> PICK q : q = writer'[h].qos
    OBVIOUS
  <2> HIDE DEF h
  <2>2. /\ qosPreset'[h] # NoPreset => q \in {DefaultPreset, qosPreset'[h]}
        /\ \A a \in Threads : In(a, t)' => q \in {DefaultPreset, call'[a].qos}
        /\ "early" \notin odd'[t] => q = qosPreset'[h]
    BY <1>3, <2>1
  <2> QED
    BY <1>2, <2>2 DEF Fits
<1>5. ASSUME NEW n \in Names, readers'[m_topics'[t]][n] # NoEntity
      PROVE  Fits(t, readers[m_topics[t]][n].qos)'
  <2>1. \/ Fits(t, readers'[h][n].qos)
        \/ Registered(t) /\ readers'[h][n].qos \in {dataReaderQos[h], dataWriterQos[h]}
    BY <1>1, <1>2, <1>5 DEF FitsInv
  <2> PICK q : q = readers'[h][n].qos
    OBVIOUS
  <2> HIDE DEF h
  <2>2. /\ qosPreset'[h] # NoPreset => q \in {DefaultPreset, qosPreset'[h]}
        /\ \A a \in Threads : In(a, t)' => q \in {DefaultPreset, call'[a].qos}
        /\ "early" \notin odd'[t] => q = qosPreset'[h]
    BY <1>3, <2>1
  <2> QED
    BY <1>2, <2>2 DEF Fits
<1> QED
  BY <1>4, <1>5 DEF FitsInv

\* The other steps keep the invariant of a topic too.
LEMMA CreatePublisherInv ==
    ASSUME TypeOK, RefInv, NEW a \in Threads, NEW made \in 0..2, CreatePublisher(a, made),
           NEW u \in Topics, TopicInv(u)
    PROVE  TopicInv(u)'
<1> USE DEF settings, entities
<1>1. call[a].op = "Publisher" /\ call[a].at = "create" /\ call[a] \in Making
  BY CallType DEF CreatePublisher, At, Operations
<1> PICK t \in Topics : t = call[a].topic
  BY <1>1 DEF Making
<1> DEFINE g == m_topics[t]
           fresh == Registered(t) /\ publisher[g] = NoEntity
           succeeds == Registered(t) /\ (publisher[g] # NoEntity \/ made = 2)
           s == Early(t) \cup (IF succeeds THEN {} ELSE {"failed"})
<1>2. /\ UNCHANGED <<m_topics, topic, dataReaderQos, dataWriterQos, partitioned, qosPreset>>
      /\ UNCHANGED <<subscriber, readers, promised>>
  BY DEF CreatePublisher
<1>3. call'[a].op \notin Operations \cup {"setMaxDataRate"}
      /\ \A b \in Threads : b # a => call'[b] = call[b]
  BY ReturnCall DEF CreatePublisher
<1>4. odd'[t] = odd[t] \cup s /\ \A x \in Topics : x # t => odd'[x] = odd[x]
  <2>1. Noted(t, s) /\ s \in SUBSET Oddities
    BY DEF CreatePublisher, Early, Oddities
  <2> HIDE DEF s
  <2> QED
    BY <2>1, NotedDoes
<1>5. ~In(a, u) /\ ~In(a, u)' /\ ~(call[a].op \in {"setMaxDataRate", "Listener"} /\ Waits(a, u))'
  BY <1>1, <1>3 DEF In, Inside, Operations
<1>6. Quiet(u) /\ Resting(u)
  BY <1>3, <1>5, CallQuiet, CallRests
<1>7. Mapped(u) /\ SameTopics(u) /\ SameQos(u)
  BY <1>2, <1>4 DEF Mapped, SameTopics, SameQos
<1>8. Registered(t) => g \in Groups /\ g[1] = t
  BY MappedGroup DEF Registered
<1>9. /\ fresh /\ made >= 1 => publisher'[g] = partitioned[g]
      /\ \A h \in Groups : ~(fresh /\ made >= 1 /\ h = g) => publisher'[h] = publisher[h]
      /\ fresh /\ made = 2 => writer'[g] = New(dataWriterQos[g])
      /\ \A h \in Groups : ~(fresh /\ made = 2 /\ h = g) => writer'[h] = writer[h]
  <2>1. /\ publisher' = IF fresh /\ made >= 1
                        THEN [publisher EXCEPT ![g] = partitioned[g]] ELSE publisher
        /\ writer' = IF fresh /\ made = 2
                     THEN [writer EXCEPT ![g] = New(dataWriterQos[g])] ELSE writer
    BY DEF CreatePublisher
  <2>2. fresh => g \in Groups
    BY <1>8
  <2> HIDE DEF g, fresh
  <2> QED
    BY <2>1, <2>2 DEF TypeOK
<1>10. Registered(t) => /\ partitioned[g] # NoEntity /\ New(dataWriterQos[g]) # NoEntity
                        /\ New(dataWriterQos[g]).qos = dataWriterQos[g]
  BY <1>8, Facts DEF TypeOK
<1>11. CASE u # t
  <2>1. SameEntities(u)
    BY <1>2, <1>8, <1>9, <1>11 DEF SameEntities
  <2> QED
    BY <1>6, <1>7, <2>1, TopicFrame
<1>12. CASE u = t
  <2>1. OnceInv(t)'
    <3>1. \A h \in Groups : h[1] = t /\ Bare(h) => Bare(h)' \/ InUse(h, t)
      BY <1>2, <1>9 DEF Bare, InUse, Registered
    <3> QED
      BY <1>6, <1>7, <1>12, <3>1, OnceFrame DEF TopicInv
  <2>2. QosInv(t)' /\ RateInv(t)' /\ ListenInv(t)'
    BY <1>2, <1>6, <1>7, <1>12, QosFrame, RateFrame, ListenFrame DEF TopicInv
  <2>3. FitsInv(t)'
    <3>1. Early(t) \subseteq odd'[t]
      BY <1>4
    <3>2. g # NoGroup /\ writer'[g] # NoEntity =>
             \/ writer[g] # NoEntity /\ writer'[g].qos = writer[g].qos
             \/ Registered(t) /\ writer'[g].qos = dataWriterQos[g]
      BY <1>9, <1>10, MappedGroup
    <3> QED
      BY <1>2, <1>6, <1>7, <1>12, <3>1, <3>2, FitsCreate DEF TopicInv
  <2>4. ParentInv(t)'
    <3> SUFFICES ASSUME NEW h \in Groups, h[1] = t
                 PROVE  (/\ writer[h] # NoEntity => publisher[h] # NoEntity
                         /\ \A n \in Names :
                               /\ readers[h][n] # NoEntity => subscriber[h] # NoEntity
                               /\ promised[h][n] # 0 => readers[h][n] # NoEntity
                         /\ "late" \notin odd[t] =>
                               /\ publisher[h] # NoEntity => publisher[h] = partitioned[h]
                               /\ subscriber[h] # NoEntity => subscriber[h] = partitioned[h]
                         /\ "failed" \notin odd[t] /\ publisher[h] # NoEntity =>
                               writer[h] # NoEntity)'
      BY DEF ParentInv
    <3>1. /\ writer[h] # NoEntity => publisher[h] # NoEntity
          /\ \A n \in Names :
                /\ readers[h][n] # NoEntity => subscriber[h] # NoEntity
                /\ promised[h][n] # 0 => readers[h][n] # NoEntity
          /\ "late" \notin odd[t] =>
                /\ publisher[h] # NoEntity => publisher[h] = partitioned[h]
                /\ subscriber[h] # NoEntity => subscriber[h] = partitioned[h]
          /\ "failed" \notin odd[t] /\ publisher[h] # NoEntity => writer[h] # NoEntity
      BY <1>12 DEF TopicInv, ParentInv
    <3>2. odd[t] \subseteq odd'[t]
      BY <1>4
    <3>3. CASE fresh /\ made >= 1 /\ h = g
      <4>1. publisher'[h] = partitioned[h] /\ partitioned[h] # NoEntity
            /\ partitioned' = partitioned
        BY <1>2, <1>9, <1>10, <3>3
      <4>2. "failed" \notin odd'[t] => writer'[h] # NoEntity
        BY <1>4, <1>9, <1>10, <3>3
      <4> QED
        BY <1>2, <3>1, <3>2, <4>1, <4>2
    <3>4. CASE ~(fresh /\ made >= 1 /\ h = g)
      <4>1. publisher'[h] = publisher[h] /\ writer'[h] = writer[h]
        BY <1>9, <3>4
      <4> QED
        BY <1>2, <3>1, <3>2, <4>1
    <3> QED
      BY <3>3, <3>4
  <2> QED
    BY <1>12, <2>1, <2>2, <2>3, <2>4 DEF TopicInv
<1> QED
  BY <1>11, <1>12

LEMMA CreateSubscriberInv ==
    ASSUME TypeOK, RefInv, NEW a \in Threads, NEW made \in 0..2, CreateSubscriber(a, made),
           NEW u \in Topics, TopicInv(u)
    PROVE  TopicInv(u)'
<1> USE DEF settings, entities
<1>1. /\ call[a].op \in Operations \ {"Publisher"} /\ call[a].at = "create"
      /\ call[a] \in Making
      /\ call[a].op = "Listener" => call[a].name = Generated
  BY CallType DEF CreateSubscriber, At, RefInv
<1> PICK t \in Topics, m \in Names : t = call[a].topic /\ m = call[a].name
  BY <1>1 DEF Making
<1> DEFINE g == m_topics[t]
           fresh == Registered(t) /\ readers[g][m] = NoEntity
           s == Early(t)
                \cup (IF Registered(t) /\ (~fresh \/ made = 2) THEN {} ELSE {"failed"})
<1>2. /\ UNCHANGED <<m_topics, topic, dataReaderQos, dataWriterQos, partitioned, qosPreset>>
      /\ UNCHANGED <<publisher, writer, promised>>
  BY DEF CreateSubscriber
<1>3. /\ \A b \in Threads : b # a => call'[b] = call[b]
      /\ call'[a].op \in Operations =>
            /\ call'[a].op = "Listener" /\ call[a].op = "Listener"
            /\ call'[a].at = "listen" /\ call'[a].topic = t
      /\ call'[a].op # "setMaxDataRate"
  <2>1. CASE call[a].op = "Listener"
    <3>1. Goto(a, "listen")
      BY <2>1 DEF CreateSubscriber
    <3> QED
      BY <1>1, <2>1, <3>1, GotoCall
  <2>2. CASE call[a].op # "Listener"
    <3>1. Return(a)
      BY <2>2 DEF CreateSubscriber
    <3> QED
      BY <3>1, ReturnCall
  <2> QED
    BY <2>1, <2>2
<1>4. odd'[t] = odd[t] \cup s /\ \A x \in Topics : x # t => odd'[x] = odd[x]
  <2>1. Noted(t, s) /\ s \in SUBSET Oddities
    BY DEF CreateSubscriber, Early, Oddities
  <2> HIDE DEF s
  <2> QED
    BY <2>1, NotedDoes
<1>5. ~In(a, u) /\ ~In(a, u)'
  BY <1>1, <1>3 DEF In, Inside
<1>6. Quiet(u)
  BY <1>3, <1>5, CallQuiet
<1>7. Mapped(u) /\ SameTopics(u) /\ SameQos(u)
  BY <1>2, <1>4 DEF Mapped, SameTopics, SameQos
<1>8. Registered(t) => g \in Groups /\ g[1] = t /\ g # NoGroup
  BY MappedGroup DEF Registered
<1>9. /\ fresh /\ made >= 1 /\ subscriber[g] = NoEntity => subscriber'[g] = partitioned[g]
      /\ \A h \in Groups : ~(fresh /\ made >= 1 /\ subscriber[g] = NoEntity /\ h = g) =>
            subscriber'[h] = subscriber[h]
      /\ fresh /\ made = 2 => readers'[g][m] = New(dataReaderQos[g])
      /\ \A h \in Groups, n \in Names : ~(fresh /\ made = 2 /\ h = g /\ n = m) =>
            readers'[h][n] = readers[h][n]
  <2>1. /\ subscriber' = IF fresh /\ made >= 1 /\ subscriber[g] = NoEntity
                         THEN [subscriber EXCEPT ![g] = partitioned[g]] ELSE subscriber
        /\ readers' = IF fresh /\ made = 2
                      THEN [readers EXCEPT ![g][m] = New(dataReaderQos[g])] ELSE readers
    BY DEF CreateSubscriber
  <2>2. fresh => g \in Groups
    BY <1>8
  <2> HIDE DEF g, fresh
  <2> QED
    BY <2>1, <2>2 DEF TypeOK
<1>10. Registered(t) => /\ partitioned[g] # NoEntity /\ New(dataReaderQos[g]) # NoEntity
                        /\ New(dataReaderQos[g]).qos = dataReaderQos[g]
                        /\ New(dataReaderQos[g]).separation = 0
  BY <1>8, Facts DEF TypeOK, New
<1>11. CASE u # t
  <2>1. SameEntities(u)
    <3> SUFFICES ASSUME NEW h \in Groups, h[1] = u
                 PROVE  subscriber'[h] = subscriber[h] /\ readers'[h] = readers[h]
      BY <1>2 DEF SameEntities
    <3>1. h # g \/ ~fresh
      BY <1>8, <1>11
    <3>2. \/ readers' = readers
          \/ fresh /\ readers' = [readers EXCEPT ![g][m] = New(dataReaderQos[g])]
      BY DEF CreateSubscriber
    <3> QED
      BY <1>9, <3>1, <3>2 DEF TypeOK
  <2>2. Resting(u)
    BY <1>3, <1>11, CallRests DEF Waits, Operations
  <2> QED
    BY <1>6, <1>7, <2>1, <2>2, TopicFrame
<1>12. CASE u = t
  <2>1. OnceInv(t)'
    <3>1. \A h \in Groups : h[1] = t /\ Bare(h) => Bare(h)' \/ InUse(h, t)
      BY <1>2, <1>9 DEF Bare, InUse, Registered
    <3> QED
      BY <1>6, <1>7, <1>12, <3>1, OnceFrame DEF TypeOK, TopicInv
  <2>2. QosInv(t)'
    BY <1>6, <1>7, <1>12, QosFrame DEF TopicInv
  <2>3. FitsInv(t)'
    <3>1. Early(t) \subseteq odd'[t]
      BY <1>4
    <3>2. \A n \in Names : g # NoGroup /\ readers'[g][n] # NoEntity =>
             \/ readers[g][n] # NoEntity /\ readers'[g][n].qos = readers[g][n].qos
             \/ Registered(t) /\ readers'[g][n].qos = dataReaderQos[g]
      BY <1>9, <1>10, MappedGroup
    <3> QED
      BY <1>2, <1>6, <1>7, <1>12, <3>1, <3>2, FitsCreate DEF TopicInv
  <2>4. ParentInv(t)'
    <3> SUFFICES ASSUME NEW h \in Groups, h[1] = t
                 PROVE  (/\ writer[h] # NoEntity => publisher[h] # NoEntity
                         /\ \A n \in Names :
                               /\ readers[h][n] # NoEntity => subscriber[h] # NoEntity
                               /\ promised[h][n] # 0 => readers[h][n] # NoEntity
                         /\ "late" \notin odd[t] =>
                               /\ publisher[h] # NoEntity => publisher[h] = partitioned[h]
                               /\ subscriber[h] # NoEntity => subscriber[h] = partitioned[h]
                         /\ "failed" \notin odd[t] /\ publisher[h] # NoEntity =>
                               writer[h] # NoEntity)'
      BY DEF ParentInv
    <3>1. /\ writer[h] # NoEntity => publisher[h] # NoEntity
          /\ \A n \in Names :
                /\ readers[h][n] # NoEntity => subscriber[h] # NoEntity
                /\ promised[h][n] # 0 => readers[h][n] # NoEntity
          /\ "late" \notin odd[t] =>
                /\ publisher[h] # NoEntity => publisher[h] = partitioned[h]
                /\ subscriber[h] # NoEntity => subscriber[h] = partitioned[h]
          /\ "failed" \notin odd[t] /\ publisher[h] # NoEntity => writer[h] # NoEntity
      BY <1>12 DEF TopicInv, ParentInv
    <3>2. odd[t] \subseteq odd'[t]
      BY <1>4
    <3>3. \/ subscriber'[h] = subscriber[h]
          \/ subscriber'[h] = partitioned[h] /\ partitioned[h] # NoEntity
             /\ subscriber[h] = NoEntity
      BY <1>9, <1>10
    <3>4. ASSUME NEW n \in Names
          PROVE  /\ readers'[h][n] # NoEntity => subscriber'[h] # NoEntity
                 /\ promised'[h][n] # 0 => readers'[h][n] # NoEntity
      <4>1. CASE fresh /\ made = 2 /\ h = g /\ n = m
        <5>1. subscriber'[h] # NoEntity
          BY <1>9, <1>10, <4>1
        <5> QED
          BY <1>9, <1>10, <4>1, <5>1
      <4>2. CASE ~(fresh /\ made = 2 /\ h = g /\ n = m)
        <5>1. readers'[h][n] = readers[h][n]
          BY <1>9, <4>2
        <5> QED
          BY <1>2, <3>1, <3>3, <5>1
      <4> QED
        BY <4>1, <4>2
    <3> QED
      BY <1>2, <3>1, <3>2, <3>3, <3>4
  <2>5. Resting(t) \/ call[a].op = "Listener"
    BY <1>3, CallRests DEF Waits, Operations
  <2>6. RateInv(t)'
    <3> SUFFICES ASSUME odd'[t] \cap {"twice", "custom", "early"} = {}
                 PROVE  RateInv(t)'
      BY DEF RateInv
    <3>1. RateInv(t) /\ odd[t] \cap {"twice", "custom", "early"} = {}
      BY <1>4, <1>12 DEF TopicInv
    <3>2. g # NoGroup => g \in Groups /\ g[1] = t
      BY MappedGroup
    <3>3. ASSUME NEW n \in Names, g # NoGroup, promised'[g][n] # 0, promised'[g][n] < 1000
          PROVE  readers'[g][n].separation = promised'[g][n] * 15625
      <4>1. readers[g][n] # NoEntity
        BY <1>2, <1>12, <3>2, <3>3 DEF TopicInv, ParentInv
      <4>2. readers'[g][n] = readers[g][n]
        BY <1>9, <3>2, <3>3, <4>1
      <4> QED
        BY <1>2, <3>1, <3>3, <4>2 DEF RateInv
    <3>4. \A b \in Threads : (call[b].op = "setMaxDataRate" /\ call[b].topic = t
                               /\ call[b].at = "set")' => call'[b] = call[b]
      BY <1>3
    <3> QED
      BY <1>2, <3>1, <3>3, <3>4 DEF RateInv
  <2>7. ListenInv(t)'
    <3> SUFFICES ASSUME odd'[t] \cap {"twice", "failed"} = {},
                        NEW b \in Threads, (call[b].op = "Listener" /\ call[b].at = "listen"
                                            /\ call[b].topic = t)'
                 PROVE  g # NoGroup /\ readers'[g][Generated] # NoEntity
      BY <1>2 DEF ListenInv
    <3>1. CASE b = a
      <4>1. m = Generated
        BY <1>1, <1>3, <3>1 DEF Operations
      <4>2. Registered(t) /\ (~fresh \/ made = 2)
        BY <1>4
      <4>3. g # NoGroup /\ g \in Groups
        BY <1>8, <4>2
      <4> QED
        BY <1>9, <1>10, <4>1, <4>2, <4>3
    <3>2. CASE b # a
      <4>1. g # NoGroup /\ readers[g][Generated] # NoEntity
        BY <1>3, <1>4, <1>12, <3>2 DEF TopicInv, ListenInv
      <4>2. Generated \in Names /\ g \in Groups
        BY <4>1, MappedGroup, Facts
      <4> QED
        BY <1>9, <4>1, <4>2
    <3> QED
      BY <3>1, <3>2
  <2> QED
    BY <1>12, <2>1, <2>2, <2>3, <2>4, <2>6, <2>7 DEF TopicInv
<1> QED
  BY <1>11, <1>12

LEMMA SetListenerInv ==
    ASSUME TypeOK, RefInv, NEW a \in Threads, SetListener(a), NEW u \in Topics, TopicInv(u)
    PROVE  TopicInv(u)'
<1> USE DEF settings, entities
<1>1. call[a].at = "listen" /\ call'[a].op \notin Operations \cup {"setMaxDataRate"}
      /\ \A b \in Threads : b # a => call'[b] = call[b]
  BY ReturnCall DEF SetListener, At
<1>2. Quiet(u) /\ Resting(u)
  BY <1>1, CallQuiet, CallRests DEF In, Inside, Operations
<1>3. Mapped(u) /\ SameTopics(u) /\ SameQos(u) /\ SameEntities(u)
  BY DEF SetListener, Mapped, SameTopics, SameQos, SameEntities
<1> QED
  BY <1>2, <1>3, TopicFrame

LEMMA AddPartitionInv ==
    ASSUME TypeOK, RefInv, NEW a \in Threads, NEW t \in Topics, AddPartition(a, t),
           NEW u \in Topics, TopicInv(u)
    PROVE  TopicInv(u)'
<1> USE DEF settings, entities
<1> DEFINE g == m_topics[t]
<1>1. Quiet(u) /\ Resting(u)
  BY DEF AddPartition, Quiet, Resting, In
<1>2. /\ UNCHANGED <<m_topics, topic, dataReaderQos, dataWriterQos, qosPreset>>
      /\ UNCHANGED <<publisher, subscriber, writer, readers, promised>>
      /\ g # NoGroup
  BY DEF AddPartition
<1>3. g \in Groups /\ g[1] = t
  BY <1>2, MappedGroup
<1>4. PICK s \in SUBSET Oddities :
         /\ Noted(t, s)
         /\ (publisher[g] = NoEntity /\ subscriber[g] = NoEntity) \/ "late" \in s
  BY DEF AddPartition, Oddities
<1>5. odd'[t] = odd[t] \cup s /\ \A x \in Topics : x # t => odd'[x] = odd[x]
  BY <1>4, NotedDoes
<1>6. \A h \in Groups : h # g => partitioned'[h] = partitioned[h]
  BY <1>3 DEF AddPartition, TypeOK
<1>7. Mapped(u) /\ SameTopics(u) /\ SameQos(u)
  BY <1>2, <1>5 DEF Mapped, SameTopics, SameQos
<1>8. CASE u # t
  <2>1. SameEntities(u)
    BY <1>2, <1>3, <1>6, <1>8 DEF SameEntities
  <2> QED
    BY <1>1, <1>7, <2>1, TopicFrame
<1>9. CASE u = t
  <2>1. OnceInv(t)' /\ QosInv(t)' /\ FitsInv(t)'
    <3>1. \A h \in Groups : Bare(h)' = Bare(h)
      BY <1>2 DEF Bare
    <3>2. OldEndpoints(t)
      BY <1>2 DEF OldEndpoints
    <3> QED
      BY <1>1, <1>7, <1>9, <3>1, <3>2, OnceFrame, QosFrame, FitsFrame DEF TopicInv
  <2>2. RateInv(t)' /\ ListenInv(t)'
    BY <1>1, <1>2, <1>7, <1>9, RateFrame, ListenFrame DEF TopicInv
  <2>3. ParentInv(t)'
    BY <1>2, <1>4, <1>5, <1>6, <1>9 DEF TopicInv, ParentInv
  <2> QED
    BY <1>9, <2>1, <2>2, <2>3 DEF TopicInv
<1> QED
  BY <1>8, <1>9

\* What the application's own setReaderQos and setWriterQos have in common.
Custom(t, q) ==
    /\ topic' = topic /\ qosPreset' = qosPreset /\ partitioned' = partitioned
    /\ publisher' = publisher /\ subscriber' = subscriber /\ writer' = writer
    /\ call' = call
    /\ m_topics'[t] = GroupOf(t) /\ \A x \in Topics : x # t => m_topics'[x] = m_topics[x]
    /\ odd[t] \subseteq odd'[t] /\ \A x \in Topics : x # t => odd'[x] = odd[x]
    /\ \A h \in Groups :
          /\ "custom" \notin odd'[t] \/ h[1] # t =>
                dataReaderQos'[h] = dataReaderQos[h] /\ dataWriterQos'[h] = dataWriterQos[h]
          /\ h[1] # t => readers'[h] = readers[h] /\ promised'[h] = promised[h]
          /\ \A n \in Names :
                /\ readers'[h][n] # NoEntity <=> readers[h][n] # NoEntity
                /\ readers[h][n] # NoEntity => readers'[h][n].qos = readers[h][n].qos
                /\ promised'[h][n] # 0 =>
                      promised'[h][n] = promised[h][n] /\ readers'[h][n] = readers[h][n]

\* Each of the two is such a step.
LEMMA CustomDoes ==
    ASSUME TypeOK, TypeOK', RefInv, NEW a \in Threads, NEW t \in Topics, NEW q \in Offered,
           CustomReaderQos(a, t, q) \/ CustomWriterQos(a, t, q)
    PROVE  /\ Custom(t, q)
           /\ GroupOf(t) \in Groups /\ GroupOf(t)[1] = t
           /\ m_topics[t] # NoGroup => GroupOf(t) = m_topics[t]
           /\ m_topics[t] = NoGroup => ~topic[GroupOf(t)]
<1> USE DEF entities
<1>1. /\ makings' + changes' = makings + changes + 1
      /\ makings < MaxMakings \/ changes < MaxChanges
  BY BeginDoes DEF CustomReaderQos, CustomWriterQos
<1>2. /\ GroupOf(t) \in Groups /\ GroupOf(t)[1] = t
      /\ m_topics[t] # NoGroup => GroupOf(t) = m_topics[t]
      /\ m_topics[t] = NoGroup => ~topic[GroupOf(t)]
  BY <1>1, GroupOfType, GroupOfMade
<1>3. q \in Presets
  BY Facts
<1> DEFINE g == GroupOf(t)
<1>4. CASE CustomReaderQos(a, t, q)
  <2>1. SetReaderQos(t, q) /\ UNCHANGED <<topic, dataWriterQos, partitioned, qosPreset,
           publisher, subscriber, writer, call>>
    BY <1>4 DEF CustomReaderQos
  <2>2. /\ m_topics'[t] = g /\ \A x \in Topics : x # t => m_topics'[x] = m_topics[x]
        /\ dataReaderQos'[g] = q /\ readers'[g] = ReadersTake(g, q)
        /\ promised'[g] = [n \in Names |-> 0]
        /\ \A h \in Groups : h # g =>
              /\ dataReaderQos'[h] = dataReaderQos[h] /\ readers'[h] = readers[h]
              /\ promised'[h] = promised[h]
    BY <1>2, <1>3, <2>1, SetReaderDoes
  <2>3. \A n \in Names :
           /\ readers'[g][n] # NoEntity <=> readers[g][n] # NoEntity
           /\ readers[g][n] # NoEntity => readers'[g][n].qos = readers[g][n].qos
           /\ promised'[g][n] = 0
    BY <1>2, <1>3, <2>2, TakeType
  <2>4. PICK s \in SUBSET Oddities : Noted(t, s) /\ (q = dataReaderQos[g] \/ "custom" \in s)
    BY <1>4 DEF CustomReaderQos, Oddities
  <2>5. odd'[t] = odd[t] \cup s /\ \A x \in Topics : x # t => odd'[x] = odd[x]
    BY <2>4, NotedDoes
  <2> HIDE DEF g
  <2> QED
    BY <1>2, <2>1, <2>2, <2>3, <2>4, <2>5 DEF Custom, g
<1>5. CASE CustomWriterQos(a, t, q)
  <2>1. SetWriterQos(t, q) /\ UNCHANGED <<topic, dataReaderQos, partitioned, qosPreset,
           publisher, subscriber, writer, readers, promised, call>>
    BY <1>5 DEF CustomWriterQos
  <2>2. /\ m_topics'[t] = g /\ \A x \in Topics : x # t => m_topics'[x] = m_topics[x]
        /\ dataWriterQos'[g] = q
        /\ \A h \in Groups : h # g => dataWriterQos'[h] = dataWriterQos[h]
    BY <1>2, <1>3, <2>1, SetWriterDoes
  <2>4. PICK s \in SUBSET Oddities : Noted(t, s) /\ (q = dataWriterQos[g] \/ "custom" \in s)
    BY <1>5 DEF CustomWriterQos, Oddities
  <2>5. odd'[t] = odd[t] \cup s /\ \A x \in Topics : x # t => odd'[x] = odd[x]
    BY <2>4, NotedDoes
  <2> HIDE DEF g
  <2> QED
    BY <1>2, <2>1, <2>2, <2>4, <2>5 DEF Custom, g
<1> QED
  BY <1>2, <1>4, <1>5

LEMMA CustomInv ==
    ASSUME TypeOK, TypeOK', RefInv, RefInv', NEW a \in Threads, NEW t \in Topics,
           NEW q \in Offered, CustomReaderQos(a, t, q) \/ CustomWriterQos(a, t, q),
           NEW u \in Topics, TopicInv(u)
    PROVE  TopicInv(u)'
<1> PICK g : g = GroupOf(t)
  OBVIOUS
<1>1. /\ Custom(t, q) /\ g \in Groups /\ g[1] = t /\ g # NoGroup
      /\ m_topics[t] # NoGroup => g = m_topics[t]
      /\ m_topics[t] = NoGroup => ~topic[g]
  BY CustomDoes, Facts
<1>2. m_topics'[t] = g
  BY <1>1 DEF Custom
<1>3. call' = call /\ topic' = topic /\ qosPreset' = qosPreset
  BY <1>1 DEF Custom
<1>4. Quiet(u) /\ Resting(u) /\ SameTopics(u)
  BY <1>3 DEF Quiet, Resting, In, SameTopics
<1>5. CASE u # t
  <2>1. Mapped(u) /\ SameQos(u) /\ SameEntities(u)
    BY <1>1, <1>5 DEF Custom, Mapped, SameQos, SameEntities
  <2> QED
    BY <1>4, <2>1, TopicFrame
<1>6. CASE u = t
  <2>1. odd[t] \subseteq odd'[t]
    BY <1>1 DEF Custom
  <2>2. \A h \in Groups : Bare(h)' <=> Bare(h)
    BY <1>1 DEF Bare, Custom
  <2>3. \A h \in Groups : InUse(h, t)' <=> InUse(h, t)
    BY <1>1, <1>2, <1>3, Facts DEF InUse
  <2>4. Registered(t)' <=> Registered(t)
    BY <1>1, <1>2, <1>3 DEF Registered
  <2>5. \A b \in Threads : In(b, t)' <=> In(b, t)
    BY <1>3 DEF In
  <2>6. OnceInv(t)'
    <3> SUFFICES ASSUME Once(t)'
                 PROVE  OnceInv(t)'
      BY DEF OnceInv
    <3>1. OnceInv(t) /\ Once(t)
      BY <1>6, <2>1 DEF Once, TopicInv
    <3>2. \A x, y \in Threads : In(x, t)' /\ In(y, t)' => x = y
      BY <2>5, <3>1 DEF OnceInv
    <3>3. \A h \in Groups : h[1] = t => Bare(h)' \/ InUse(h, t)'
      BY <2>2, <2>3, <3>1 DEF OnceInv
    <3>4. ASSUME NEW b \in Threads, In(b, t)'
          PROVE  (/\ call[b].at = "topic" => ~Registered(t)
                  /\ call[b].at = "store" =>
                        /\ topic[call[b].group]
                        /\ \/ m_topics[t] \in {NoGroup, call[b].group}
                           \/ ~topic[m_topics[t]]
                  /\ Stored(b, t) => Registered(t) /\ call[b].group = m_topics[t]
                  /\ \A h \in Groups : h[1] = t => qosPreset[h] = NoPreset)'
      <4>1. /\ call[b].at = "topic" => ~Registered(t)
            /\ call[b].at = "store" =>
                  /\ topic[call[b].group]
                  /\ \/ m_topics[t] \in {NoGroup, call[b].group}
                     \/ ~topic[m_topics[t]]
            /\ Stored(b, t) => Registered(t) /\ call[b].group = m_topics[t]
            /\ \A h \in Groups : h[1] = t => qosPreset[h] = NoPreset
        BY <2>5, <3>1, <3>4 DEF OnceInv
      <4>2. Stored(b, t)' => Stored(b, t) /\ m_topics[t] # NoGroup
        BY <1>3, <2>5, <4>1 DEF Stored, Registered
      <4>3. call[b].at = "store" =>
               m_topics'[t] \in {NoGroup, call[b].group} \/ ~topic[m_topics'[t]]
        BY <1>1, <1>2, <4>1
      <4> QED
        BY <1>1, <1>2, <1>3, <2>4, <4>1, <4>2, <4>3
    <3> QED
      BY <3>2, <3>3, <3>4 DEF OnceInv
  <2>7. m_topics[t] = NoGroup /\ Once(t) => Bare(g) /\ ~InUse(g, t)
    BY <1>1, <1>6, Facts DEF TopicInv, OnceInv, InUse
  <2>8. QosInv(t)'
    <3> SUFFICES ASSUME Plain(t)'
                 PROVE  QosInv(t)'
      BY DEF QosInv
    <3>1. Plain(t) /\ QosInv(t) /\ Once(t) /\ OnceInv(t)
      BY <1>6, <2>1 DEF Plain, Once, TopicInv
    <3>2. \A h \in Groups : dataReaderQos'[h] = dataReaderQos[h]
                            /\ dataWriterQos'[h] = dataWriterQos[h]
      BY <1>1 DEF Plain, Custom
    <3>3. \A h \in Groups : h[1] = t /\ ~InUse(h, t)' =>
             dataReaderQos'[h] = DefaultPreset /\ dataWriterQos'[h] = DefaultPreset
      BY <2>3, <3>1, <3>2 DEF QosInv
    <3>4. CASE m_topics[t] # NoGroup
      <4>1. m_topics'[t] = m_topics[t] /\ m_topics[t] \in Groups
        BY <1>1, <1>2, <3>4
      <4> QED
        BY <1>3, <2>5, <3>1, <3>2, <3>3, <3>4, <4>1 DEF QosInv
    <3>5. CASE m_topics[t] = NoGroup
      <4>1. dataReaderQos'[g] = DefaultPreset /\ dataWriterQos'[g] = DefaultPreset
        BY <1>1, <2>3, <2>7, <3>1, <3>3, <3>5
      <4>2. qosPreset'[g] = NoPreset
        BY <1>3, <2>7, <3>1, <3>5 DEF Bare
      <4>3. \A b \in Threads : In(b, t) => call[b].at \notin {"writer", "preset"}
        BY <3>1, <3>5 DEF OnceInv, Stored, Registered
      <4> QED
        BY <1>2, <1>3, <2>5, <3>3, <4>1, <4>2, <4>3 DEF QosInv
    <3> QED
      BY <3>4, <3>5
  <2>9. FitsInv(t)'
    <3>1. CASE m_topics[t] # NoGroup
      <4>1. Mapped(t) /\ OldEndpoints(t)
        BY <1>1, <1>2, <2>1, <3>1 DEF Mapped, OldEndpoints, Custom
      <4> QED
        BY <1>4, <1>6, <4>1, FitsFrame DEF TopicInv
    <3>2. CASE m_topics[t] = NoGroup
      <4>1. Once(t)' => Once(t)
        BY <2>1 DEF Once
      <4>2. Plain(t)' => Bare(g)'
        BY <1>1, <2>2, <2>7, <3>2, <4>1 DEF Plain, Once
      <4> QED
        BY <1>2, <4>2 DEF FitsInv, Bare
    <3> QED
      BY <3>1, <3>2
  <2>10. ParentInv(t)'
    BY <1>1, <1>6, <2>1 DEF TopicInv, ParentInv, Custom
  <2>11. RateInv(t)'
    <3> SUFFICES ASSUME odd'[t] \cap {"twice", "custom", "early"} = {}
                 PROVE  RateInv(t)'
      BY DEF RateInv
    <3>1. RateInv(t) /\ odd[t] \cap {"twice", "custom", "early"} = {} /\ Once(t)
      BY <1>6, <2>1 DEF TopicInv, Once
    <3>2. ASSUME NEW n \in Names, promised'[g][n] # 0
          PROVE  /\ m_topics[t] = g /\ promised'[g][n] = promised[g][n]
                 /\ readers'[g][n] = readers[g][n]
      <4>1. /\ promised'[g][n] = promised[g][n] /\ readers'[g][n] = readers[g][n]
            /\ promised[g][n] # 0
        BY <1>1, <3>2 DEF Custom
      <4>2. ~Bare(g)
        BY <1>1, <1>6, <4>1 DEF TopicInv, ParentInv, Bare
      <4> QED
        BY <1>1, <2>7, <3>1, <4>1, <4>2
    <3>3. ASSUME NEW b \in Threads, (call[b].op = "setMaxDataRate" /\ call[b].topic = t
                                     /\ call[b].at = "set")'
          PROVE  call'[b].qos = qosPreset'[m_topics'[t]]
      <4>1. m_topics[t] # NoGroup
        BY <1>3, <3>3 DEF RefInv
      <4>2. call[b].qos = qosPreset[m_topics[t]]
        BY <1>3, <3>1, <3>3 DEF RateInv
      <4> QED
        BY <1>1, <1>2, <1>3, <4>1, <4>2
    <3> QED
      BY <1>1, <1>2, <3>1, <3>2, <3>3 DEF RateInv
  <2>12. ListenInv(t)'
    <3> SUFFICES ASSUME odd'[t] \cap {"twice", "failed"} = {},
                        NEW b \in Threads, (call[b].op = "Listener" /\ call[b].at = "listen"
                                            /\ call[b].topic = t)'
                 PROVE  readers'[g][Generated] # NoEntity
      BY <1>1, <1>2 DEF ListenInv
    <3>1. m_topics[t] # NoGroup /\ readers[m_topics[t]][Generated] # NoEntity
      BY <1>3, <1>6, <2>1 DEF TopicInv, ListenInv
    <3> QED
      BY <1>1, <3>1, Facts DEF Custom
  <2> QED
    BY <1>6, <2>6, <2>8, <2>9, <2>10, <2>11, <2>12 DEF TopicInv
<1> QED
  BY <1>5, <1>6

LEMMA GetReaderInv ==
    ASSUME TypeOK, RefInv, NEW a \in Threads, NEW t \in Topics, NEW n \in Names,
           NEW rate \in Rates, GetReader(a, t, n, rate), NEW u \in Topics, TopicInv(u)
    PROVE  TopicInv(u)'
<1> USE DEF settings, entities
<1>1. /\ call[a].op \notin Operations /\ call'[a].op \notin Operations
      /\ call'[a].op = "setMaxDataRate" /\ call'[a].at = "get"
      /\ \A b \in Threads : b # a => call'[b] = call[b]
  BY RateCall
<1>2. Quiet(u) /\ Resting(u)
  BY <1>1, CallQuiet, CallRests DEF In, Waits
<1>3. Mapped(u) /\ SameTopics(u) /\ SameQos(u) /\ SameEntities(u)
  BY DEF GetReader, Mapped, SameTopics, SameQos, SameEntities
<1> QED
  BY <1>2, <1>3, TopicFrame

\* In a topic that was registered once the readers that a thread has are those of
\* the group that is found.
LEMMA RatedReader ==
    ASSUME TypeOK, RefInv, NEW a \in Threads, call[a].op = "setMaxDataRate",
           NEW t \in Topics, t = call[a].topic, OnceInv(t), Once(t)
    PROVE  call[a].group = m_topics[t] /\ readers[m_topics[t]][call[a].name] # NoEntity
<1>1. /\ call[a].group \in Groups /\ call[a].group[1] = t /\ call[a].name \in Names
      /\ readers[call[a].group][call[a].name] # NoEntity
  BY CallType DEF RefInv, GroupsOf, Rating
<1> QED
  BY <1>1 DEF OnceInv, Bare, InUse

\* The QoS of a reader that did not come early is that of the preset.
LEMMA FitReader ==
    ASSUME TypeOK, RefInv, NEW t \in Topics, TopicInv(t),
           odd[t] \cap {"twice", "custom", "early"} = {}, m_topics[t] # NoGroup,
           NEW n \in Names, readers[m_topics[t]][n] # NoEntity
    PROVE  /\ readers[m_topics[t]][n].qos = qosPreset[m_topics[t]]
           /\ dataReaderQos[m_topics[t]] = qosPreset[m_topics[t]]
<1>1. Plain(t) /\ "early" \notin odd[t]
  BY DEF Plain
<1>2. readers[m_topics[t]][n].qos = qosPreset[m_topics[t]]
  BY <1>1 DEF TopicInv, FitsInv, Fits
<1>3. readers[m_topics[t]][n].qos \in Presets
  BY MappedGroup DEF TypeOK, Endpoint
<1> QED
  BY <1>1, <1>2, <1>3, Facts DEF TopicInv, QosInv

LEMMA GetReaderQosInv ==
    ASSUME TypeOK, RefInv, NEW a \in Threads, GetReaderQos(a), NEW u \in Topics, TopicInv(u)
    PROVE  TopicInv(u)'
<1> USE DEF settings, entities
<1>1. /\ call[a] \in Rating /\ call'[a].op = "setMaxDataRate"
      /\ call[a].op = "setMaxDataRate" /\ call'[a].topic = call[a].topic
      /\ call'[a].at = "set" /\ call'[a].qos = dataReaderQos[m_topics[call[a].topic]]
      /\ \A b \in Threads : b # a => call'[b] = call[b]
  BY RatingCall
<1> PICK t \in Topics, n \in Names : t = call[a].topic /\ n = call[a].name
  BY <1>1 DEF Rating
<1>2. Quiet(u)
  BY <1>1, CallQuiet DEF In, Operations
<1>3. Mapped(u) /\ SameTopics(u) /\ SameQos(u) /\ SameEntities(u)
  BY DEF GetReaderQos, Mapped, SameTopics, SameQos, SameEntities
<1>4. CASE u # t
  <2>1. Resting(u)
    BY <1>1, <1>4, CallRests DEF Waits
  <2> QED
    BY <1>2, <1>3, <2>1, TopicFrame
<1>5. CASE u = t
  <2>1. OnceInv(t)' /\ QosInv(t)' /\ FitsInv(t)' /\ ParentInv(t)'
    <3>1. (\A g \in Groups : Bare(g)' = Bare(g)) /\ OldEndpoints(t)
      BY DEF GetReaderQos, Bare, OldEndpoints
    <3> QED
      BY <1>2, <1>3, <1>5, <3>1, OnceFrame, QosFrame, FitsFrame, ParentFrame
      DEF TopicInv, Mapped
  <2>2. UNCHANGED <<m_topics, odd, readers, promised, qosPreset>>
    BY DEF GetReaderQos
  <2>3. RateInv(t)'
    <3> SUFFICES ASSUME odd[t] \cap {"twice", "custom", "early"} = {}
                 PROVE  RateInv(t)'
      BY <2>2 DEF RateInv
    <3>1. RateInv(t) /\ OnceInv(t) /\ Once(t)
      BY <1>5 DEF TopicInv, Once
    <3>2. m_topics[t] # NoGroup /\ readers[m_topics[t]][n] # NoEntity
      BY <1>1, <3>1, RatedReader DEF RefInv
    <3>3. dataReaderQos[m_topics[t]] = qosPreset[m_topics[t]]
      BY <1>5, <3>2, FitReader
    <3>4. \A b \in Threads :
             (call[b].op = "setMaxDataRate" /\ call[b].topic = t /\ call[b].at = "set")' =>
                 call'[b].qos = qosPreset[m_topics[t]]
      BY <1>1, <3>1, <3>3 DEF RateInv
    <3> QED
      BY <2>2, <3>1, <3>4 DEF RateInv
  <2>4. ListenInv(t)'
    BY <1>1, <1>5, <2>2 DEF TopicInv, ListenInv
  <2> QED
    BY <1>5, <2>1, <2>3, <2>4 DEF TopicInv
<1> QED
  BY <1>4, <1>5

LEMMA SetMaxDataRateInv ==
    ASSUME TypeOK, RefInv, NEW a \in Threads, SetMaxDataRate(a), NEW u \in Topics, TopicInv(u)
    PROVE  TopicInv(u)'
<1> USE DEF settings, entities
<1>1. call[a].op = "setMaxDataRate" /\ call[a] \in Rating
  BY CallType DEF SetMaxDataRate, At
<1> PICK t \in Topics, m \in Names, g \in Groups, rate \in Rates, q \in Presets :
       t = call[a].topic /\ m = call[a].name /\ g = call[a].group /\ rate = call[a].rate
       /\ q = call[a].qos
  BY <1>1 DEF Rating
<1>2. g[1] = t /\ m_topics[t] # NoGroup /\ readers[g][m] # NoEntity
      /\ readers[g][m] \in Endpoint /\ call[a].at = "set"
  BY <1>1 DEF RefInv, GroupsOf, TypeOK, SetMaxDataRate, At
<1> DEFINE x == IF /\ ValidSeparation(Separation(rate))
                   /\ Changeable(DataReader(readers[g][m].qos), DataReader(q))
                THEN Separation(rate) ELSE readers[g][m].separation
<1>3. /\ readers' = [readers EXCEPT ![g][m].separation = x]
      /\ promised' = [promised EXCEPT ![g][m] = rate]
  BY <1>2 DEF SetMaxDataRate
<1>4. x \in Separations
  BY <1>2, RateFacts DEF Endpoint
<1>5. UNCHANGED <<m_topics, topic, dataReaderQos, dataWriterQos, partitioned, qosPreset,
                  publisher, subscriber, writer, odd>>
  BY DEF SetMaxDataRate
<1>6. readers[g][m].qos = q /\ rate < 1000 => x = rate * 15625
  BY RateFacts DEF Changeable
<1> HIDE DEF x
<1>7. /\ readers'[g][m] = [readers[g][m] EXCEPT !.separation = x]
      /\ \A h \in Groups : h # g => readers'[h] = readers[h] /\ promised'[h] = promised[h]
      /\ \A n \in Names : n # m =>
            readers'[g][n] = readers[g][n] /\ promised'[g][n] = promised[g][n]
      /\ promised'[g][m] = rate
  BY <1>3 DEF TypeOK
<1>8. /\ readers'[g][m] # NoEntity /\ readers'[g][m].qos = readers[g][m].qos
      /\ readers'[g][m].separation = x
  <2>1. /\ [readers[g][m] EXCEPT !.separation = x] \in Endpoint
        /\ [readers[g][m] EXCEPT !.separation = x].qos = readers[g][m].qos
        /\ [readers[g][m] EXCEPT !.separation = x].separation = x
    BY <1>2, <1>4 DEF Endpoint
  <2> QED
    BY <1>7, <2>1, Facts
<1>9. \A h \in Groups, n \in Names :
         /\ readers'[h][n] # NoEntity <=> readers[h][n] # NoEntity
         /\ readers[h][n] # NoEntity => readers'[h][n].qos = readers[h][n].qos
  <2> SUFFICES ASSUME NEW h \in Groups, NEW n \in Names
               PROVE  /\ readers'[h][n] # NoEntity <=> readers[h][n] # NoEntity
                      /\ readers[h][n] # NoEntity => readers'[h][n].qos = readers[h][n].qos
    OBVIOUS
  <2>1. CASE h = g /\ n = m
    BY <1>2, <1>8, <2>1
  <2>2. CASE h # g \/ n # m
    BY <1>7, <2>2
  <2> QED
    BY <2>1, <2>2
<1>10. /\ call'[a].op \notin Operations \cup {"setMaxDataRate"}
       /\ \A b \in Threads : b # a => call'[b] = call[b]
  BY ReturnCall DEF SetMaxDataRate
<1>11. Quiet(u) /\ Resting(u)
  BY <1>1, <1>10, CallQuiet, CallRests DEF In, Operations
<1>12. Mapped(u) /\ SameTopics(u) /\ SameQos(u)
  BY <1>5 DEF Mapped, SameTopics, SameQos
<1>13. CASE u # t
  <2>1. SameEntities(u)
    BY <1>2, <1>5, <1>7, <1>13 DEF SameEntities
  <2> QED
    BY <1>11, <1>12, <2>1, TopicFrame
<1>14. CASE u = t
  <2>1. OnceInv(t)' /\ QosInv(t)' /\ FitsInv(t)'
    <3>1. (\A h \in Groups : Bare(h)' <=> Bare(h)) /\ OldEndpoints(t)
      BY <1>5, <1>9 DEF Bare, OldEndpoints
    <3> QED
      BY <1>11, <1>12, <1>14, <3>1, OnceFrame, QosFrame, FitsFrame DEF TopicInv
  <2>2. ListenInv(t)'
    BY <1>9, <1>11, <1>12, <1>14, ListenFrame DEF TopicInv
  <2>3. ParentInv(t)'
    <3>1. \A h \in Groups, n \in Names : promised'[h][n] # 0 =>
             promised[h][n] # 0 \/ readers[h][n] # NoEntity
      BY <1>2, <1>7
    <3> QED
      BY <1>5, <1>9, <1>14, <3>1 DEF TopicInv, ParentInv
  <2>4. RateInv(t)'
    <3> SUFFICES ASSUME odd[t] \cap {"twice", "custom", "early"} = {}
                 PROVE  RateInv(t)'
      BY <1>5 DEF RateInv
    <3>1. RateInv(t) /\ OnceInv(t) /\ Once(t)
      BY <1>14 DEF TopicInv, Once
    <3>2. g = m_topics[t] /\ readers[m_topics[t]][m] # NoEntity
      BY <1>1, <3>1, RatedReader
    <3>3. readers[g][m].qos = q
      <4>1. q = qosPreset[g]
        BY <1>1, <1>2, <3>1, <3>2 DEF RateInv
      <4> QED
        BY <1>2, <1>14, <3>2, <4>1, FitReader
    <3>4. ASSUME NEW n \in Names, promised'[g][n] # 0, promised'[g][n] < 1000
          PROVE  readers'[g][n].separation = promised'[g][n] * 15625
      <4>1. CASE n = m
        <5>1. promised'[g][m] = rate /\ readers'[g][m].separation = x
          BY <1>7, <1>8
        <5>2. rate < 1000
          BY <3>4, <4>1, <5>1
        <5>3. x = rate * 15625
          BY <1>6, <3>3, <5>2
        <5> QED
          BY <4>1, <5>1, <5>3
      <4>2. CASE n # m
        <5>1. readers'[g][n] = readers[g][n] /\ promised'[g][n] = promised[g][n]
          BY <1>7, <4>2
        <5>2. promised[g][n] # 0 /\ promised[g][n] < 1000 =>
                 readers[g][n].separation = promised[g][n] * 15625
          BY <1>2, <3>1, <3>2 DEF RateInv
        <5> QED
          BY <3>4, <5>1, <5>2
      <4> QED
        BY <4>1, <4>2
    <3>5. \A b \in Threads :
             (call[b].op = "setMaxDataRate" /\ call[b].topic = t /\ call[b].at = "set")' =>
                 call'[b].qos = qosPreset[m_topics[t]]
      BY <1>10, <3>1 DEF RateInv
    <3> QED
      BY <1>5, <3>2, <3>4, <3>5 DEF RateInv
  <2> QED
    BY <1>14, <2>1, <2>2, <2>3, <2>4 DEF TopicInv
<1> QED
  BY <1>13, <1>14

\* Every step keeps the invariant of every topic.
LEMMA TopicStep ==
    ASSUME TypeOK, TypeOK', RefInv, RefInv', [Next]_vars, NEW u \in Topics, TopicInv(u)
    PROVE  TopicInv(u)'
<1>1. ASSUME NEW a \in Threads, Thread(a)
      PROVE  TopicInv(u)'
  <2>1. ASSUME RegisterQos(a) \/ CheckPreset(a) \/ RegisterReaderQos(a)
               \/ RegisterWriterQos(a) \/ RegisterPreset(a)
        PROVE  TopicInv(u)'
    <3>1. CASE u # call[a].topic
      BY <2>1, <3>1, RegisterElsewhere
    <3>2. CASE u = call[a].topic
      BY <2>1, <3>2, RegisterHere, RegisterTwice
    <3> QED
      BY <3>1, <3>2
  <2> QED
    BY <1>1, <2>1, RegisterTopicInv, CustomInv, CreateTopicInv, StoreTopicInv,
       CreatePublisherInv, CreateSubscriberInv, SetListenerInv, AddPartitionInv,
       GetReaderInv, GetReaderQosInv, SetMaxDataRateInv
    DEF Thread
<1>2. CASE UNCHANGED vars
  <2>1. UNCHANGED <<m_topics, topic, dataReaderQos, dataWriterQos, partitioned, qosPreset,
                    publisher, subscriber, writer, readers, call, promised, odd>>
    BY <1>2 DEF vars, settings, entities
  <2>2. Mapped(u) /\ Quiet(u) /\ Resting(u) /\ SameTopics(u) /\ SameQos(u) /\ SameEntities(u)
    BY <2>1 DEF Mapped, Quiet, Resting, SameTopics, SameQos, SameEntities, In
  <2> QED
    BY <2>2, TopicFrame
<1> QED
  BY <1>1, <1>2 DEF Next, Done

\* Nothing that was noted or created is undone, and a group in which something
\* was created stays where it is found.
Grows ==
    /\ \A t \in Topics : odd[t] \subseteq odd'[t]
    /\ \A g \in Groups : publisher[g] # NoEntity => publisher'[g] # NoEntity
    /\ \A g \in Groups, n \in Names : readers[g][n] # NoEntity => readers'[g][n] # NoEntity
    /\ \A t \in Topics : Once(t) /\ m_topics[t] # NoGroup /\ ~Bare(m_topics[t]) =>
          m_topics'[t] = m_topics[t]

\* So does every step.
LEMMA GrowsStep ==
    ASSUME TypeOK, TypeOK', RefInv, \A t \in Topics : TopicInv(t), [Next]_vars
    PROVE  Grows
<1> USE DEF settings, entities
<1>1. ASSUME NEW a \in Threads, NEW op \in Operations, NEW t \in Topics,
             NEW n \in Given, NEW q \in Offered, RegisterTopic(a, op, t, n, q)
      PROVE  Grows
  <2>1. PICK s \in SUBSET Oddities : Noted(t, s)
    BY <1>1 DEF RegisterTopic, Oddities
  <2>2. \A u \in Topics : odd[u] \subseteq odd'[u]
    BY <2>1, NotedDoes
  <2> QED
    BY <1>1, <2>2 DEF RegisterTopic, Grows
<1>2. ASSUME NEW a \in Threads, NEW t \in Topics, NEW q \in Offered,
             CustomReaderQos(a, t, q) \/ CustomWriterQos(a, t, q)
      PROVE  Grows
  <2>1. Custom(t, q) /\ (m_topics[t] # NoGroup => GroupOf(t) = m_topics[t])
    BY <1>2, CustomDoes
  <2> QED
    BY <2>1 DEF Custom, Grows
<1>3. ASSUME NEW a \in Threads, StoreTopic(a)
      PROVE  Grows
  <2>1. call[a].op \in Operations /\ call[a].at = "store" /\ call[a] \in Making
    BY <1>3, CallType DEF StoreTopic, At
  <2> PICK t \in Topics, h \in Groups \cup {NoGroup} : t = call[a].topic /\ h = call[a].group
    BY <2>1 DEF Making
  <2>2. In(a, t)
    BY <2>1 DEF In, Inside
  <2>3. m_topics'[t] = h /\ \A u \in Topics : u # t => m_topics'[u] = m_topics[u]
    BY <1>3 DEF StoreTopic, TypeOK
  <2>4. Once(t) => m_topics[t] \in {NoGroup, h} \/ ~topic[m_topics[t]]
    BY <2>1, <2>2 DEF TopicInv, OnceInv
  <2>5. Once(t) /\ m_topics[t] # NoGroup /\ ~Bare(m_topics[t]) => topic[m_topics[t]]
    BY MappedGroup DEF TopicInv, OnceInv, InUse
  <2> QED
    BY <1>3, <2>3, <2>4, <2>5 DEF StoreTopic, Grows
<1>4. ASSUME NEW a \in Threads,
             CreateTopic(a, TRUE) \/ CreateTopic(a, FALSE) \/ RegisterQos(a)
             \/ CheckPreset(a) \/ RegisterPreset(a) \/ SetListener(a) \/ GetReaderQos(a)
      PROVE  Grows
  BY <1>4
  DEF CreateTopic, RegisterQos, CheckPreset, RegisterPreset, SetListener, GetReaderQos, Grows
<1>5. ASSUME NEW a \in Threads, RegisterReaderQos(a) \/ RegisterWriterQos(a)
      PROVE  Grows
  <2>1. call[a].op \in Operations /\ call[a].at \in {"reader", "writer"}
    BY <1>5 DEF RegisterReaderQos, RegisterWriterQos, At
  <2> PICK t \in Topics, q \in Presets : t = call[a].topic /\ q = call[a].qos
    BY <2>1, StoredGroup
  <2>2. m_topics[t] \in Groups /\ GroupOf(t) = m_topics[t]
    BY <2>1, StoredGroup
  <2>3. CASE RegisterReaderQos(a)
    <3>1. SetReaderQos(t, q) /\ UNCHANGED <<odd, publisher>>
      BY <2>3 DEF RegisterReaderQos
    <3>2. /\ \A u \in Topics : m_topics'[u] = m_topics[u]
          /\ readers'[m_topics[t]] = ReadersTake(m_topics[t], q)
          /\ \A g \in Groups : g # m_topics[t] => readers'[g] = readers[g]
      BY <2>2, <3>1, SetReaderDoes
    <3>3. \A n \in Names : readers'[m_topics[t]][n] # NoEntity
                              <=> readers[m_topics[t]][n] # NoEntity
      BY <2>2, <3>2, TakeType
    <3> QED
      BY <3>1, <3>2, <3>3 DEF Grows
  <2>4. CASE RegisterWriterQos(a)
    <3>1. SetWriterQos(t, q) /\ UNCHANGED <<odd, publisher, readers>>
      BY <2>4 DEF RegisterWriterQos
    <3>2. \A u \in Topics : m_topics'[u] = m_topics[u]
      BY <2>2, <3>1, SetWriterDoes
    <3> QED
      BY <3>1, <3>2 DEF Grows
  <2> QED
    BY <1>5, <2>3, <2>4
<1>6. ASSUME NEW a \in Threads, NEW made \in 0..2, CreatePublisher(a, made)
      PROVE  Grows
  <2>1. call[a].topic \in Topics
    BY <1>6, CallType DEF CreatePublisher, At, Operations, Making
  <2> PICK t \in Topics : t = call[a].topic
    BY <2>1
  <2>2. PICK s \in SUBSET Oddities : Noted(t, s)
    BY <1>6 DEF CreatePublisher, Early, Oddities
  <2>3. \A u \in Topics : odd[u] \subseteq odd'[u]
    BY <2>2, NotedDoes
  <2>4. \A g \in Groups : publisher[g] # NoEntity => publisher'[g] # NoEntity
    <3>1. publisher' = publisher
          \/ (publisher' = [publisher EXCEPT ![m_topics[t]] = partitioned[m_topics[t]]]
              /\ Registered(t) /\ publisher[m_topics[t]] = NoEntity)
      BY <1>6 DEF CreatePublisher
    <3> QED
      BY <3>1 DEF TypeOK
  <2> QED
    BY <1>6, <2>3, <2>4 DEF CreatePublisher, Grows
<1>7. ASSUME NEW a \in Threads, NEW made \in 0..2, CreateSubscriber(a, made)
      PROVE  Grows
  <2>1. call[a].op \in Operations
    BY <1>7 DEF CreateSubscriber, At
  <2> PICK t \in Topics, m \in Names : t = call[a].topic /\ m = call[a].name
    BY <2>1, CallType DEF Making
  <2>2. PICK s \in SUBSET Oddities : Noted(t, s)
    BY <1>7 DEF CreateSubscriber, Early, Oddities
  <2>3. \A u \in Topics : odd[u] \subseteq odd'[u]
    BY <2>2, NotedDoes
  <2>4. \A g \in Groups, n \in Names : readers[g][n] # NoEntity => readers'[g][n] # NoEntity
    <3>1. readers' = readers
          \/ (readers' = [readers EXCEPT ![m_topics[t]][m] = New(dataReaderQos[m_topics[t]])]
              /\ readers[m_topics[t]][m] = NoEntity)
      BY <1>7 DEF CreateSubscriber
    <3>2. CASE readers' = readers
      BY <3>2
    <3>3. CASE readers' = [readers EXCEPT ![m_topics[t]][m] = New(dataReaderQos[m_topics[t]])]
               /\ readers[m_topics[t]][m] = NoEntity
      <4> DEFINE e == New(dataReaderQos[m_topics[t]])
      <4>1. readers' = [readers EXCEPT ![m_topics[t]][m] = e]
        BY <3>3
      <4> HIDE DEF e
      <4> QED
        BY <3>3, <4>1 DEF TypeOK
    <3> QED
      BY <3>1, <3>2, <3>3
  <2> QED
    BY <1>7, <2>3, <2>4 DEF CreateSubscriber, Grows
<1>8. ASSUME NEW a \in Threads, NEW t \in Topics, AddPartition(a, t)
      PROVE  Grows
  <2>1. PICK s \in SUBSET Oddities : Noted(t, s)
    BY <1>8 DEF AddPartition, Oddities
  <2>2. \A u \in Topics : odd[u] \subseteq odd'[u]
    BY <2>1, NotedDoes
  <2> QED
    BY <1>8, <2>2 DEF AddPartition, Grows
<1>9. ASSUME NEW a \in Threads, NEW t \in Topics, NEW n \in Names, NEW rate \in Rates,
             GetReader(a, t, n, rate)
      PROVE  Grows
  BY <1>9 DEF GetReader, Grows
<1>10. ASSUME NEW a \in Threads, SetMaxDataRate(a)
       PROVE  Grows
  <2>1. call[a].op = "setMaxDataRate" /\ call[a] \in Rating
    BY <1>10, CallType DEF SetMaxDataRate, At
  <2> PICK h \in Groups, m \in Names : h = call[a].group /\ m = call[a].name
    BY <2>1 DEF Rating
  <2>2. readers[h][m] \in Endpoint
    BY <2>1 DEF RefInv, TypeOK
  <2>3. PICK x \in Separations : readers' = [readers EXCEPT ![h][m].separation = x]
    <3>1. readers[h][m].separation \in Separations /\ Separation(call[a].rate) \in Separations
      BY <2>1, <2>2, RateFacts DEF Endpoint, Rating
    <3> QED
      BY <1>10, <2>2, <3>1 DEF SetMaxDataRate
  <2>4. [readers[h][m] EXCEPT !.separation = x] # NoEntity
    <3>1. [readers[h][m] EXCEPT !.separation = x] \in Endpoint
      BY <2>2 DEF Endpoint
    <3> QED
      BY <3>1, Facts
  <2>5. \A g \in Groups, n \in Names : readers[g][n] # NoEntity => readers'[g][n] # NoEntity
    <3> DEFINE e == [readers[h][m] EXCEPT !.separation = x]
    <3>1. readers' = [readers EXCEPT ![h][m] = e] /\ e # NoEntity
      BY <2>3, <2>4
    <3> HIDE DEF e
    <3> QED
      BY <3>1 DEF TypeOK
  <2> QED
    BY <1>10, <2>5 DEF SetMaxDataRate, Grows
<1>11. CASE UNCHANGED vars
  BY <1>11 DEF vars, Grows
<1> QED
  BY <1>1, <1>2, <1>3, <1>4, <1>5, <1>6, <1>7, <1>8, <1>9, <1>10, <1>11
  DEF Next, Thread, Done

-----------------------------------------------------------------------------
(* The maps of the types.                                                  *)

\* A type is mapped to a topic that has what the map is for.
MapsInv ==
    /\ m_pubMap # NoTopic /\ Once(m_pubMap) =>
          m_topics[m_pubMap] # NoGroup /\ publisher[m_topics[m_pubMap]] # NoEntity
    /\ m_subMap # NoTopic /\ odd[m_subMap] \cap {"twice", "failed"} = {} =>
          /\ m_topics[m_subMap] # NoGroup
          /\ \E n \in Names : readers[m_topics[m_subMap]][n] # NoEntity
    /\ crashed => \E t \in Topics : odd[t] \cap {"twice", "failed"} # {}

\* Every step keeps what is said of the maps.
LEMMA MapsStep ==
    ASSUME TypeOK, TypeOK', RefInv, \A t \in Topics : TopicInv(t), MapsInv, [Next]_vars
    PROVE  MapsInv'
<1> USE DEF settings, entities, maps
<1>1. Grows
  BY GrowsStep
<1>2. ASSUME m_pubMap' = m_pubMap, m_pubMap # NoTopic, Once(m_pubMap)'
      PROVE  m_topics'[m_pubMap] # NoGroup /\ publisher'[m_topics'[m_pubMap]] # NoEntity
  <2> PICK t \in Topics : t = m_pubMap
    BY <1>2 DEF TypeOK
  <2>1. Once(t)
    BY <1>1, <1>2 DEF Once, Grows
  <2>2. m_topics[t] # NoGroup /\ publisher[m_topics[t]] # NoEntity
    BY <1>2, <2>1 DEF MapsInv
  <2>3. ~Bare(m_topics[t]) /\ m_topics[t] \in Groups
    BY <2>2, MappedGroup DEF Bare
  <2> QED
    BY <1>1, <2>1, <2>2, <2>3 DEF Grows
<1>3. ASSUME m_subMap' = m_subMap, m_subMap # NoTopic,
             odd'[m_subMap] \cap {"twice", "failed"} = {}
      PROVE  /\ m_topics'[m_subMap] # NoGroup
             /\ \E n \in Names : readers'[m_topics'[m_subMap]][n] # NoEntity
  <2> PICK t \in Topics : t = m_subMap
    BY <1>3 DEF TypeOK
  <2>1. Once(t) /\ odd[t] \cap {"twice", "failed"} = {}
    BY <1>1, <1>3 DEF Once, Grows
  <2>2. PICK n \in Names : m_topics[t] # NoGroup /\ readers[m_topics[t]][n] # NoEntity
    BY <1>3, <2>1 DEF MapsInv
  <2>3. ~Bare(m_topics[t]) /\ m_topics[t] \in Groups
    BY <2>2, MappedGroup DEF Bare
  <2> QED
    BY <1>1, <2>1, <2>2, <2>3 DEF Grows
<1>4. ASSUME crashed' = crashed, crashed
      PROVE  \E t \in Topics : odd'[t] \cap {"twice", "failed"} # {}
  BY <1>1, <1>4 DEF MapsInv, Grows
<1>5. ASSUME NEW a \in Threads, NEW made \in 0..2, CreatePublisher(a, made)
      PROVE  MapsInv'
  <2>1. call[a].topic \in Topics
    BY <1>5, CallType DEF CreatePublisher, At, Operations, Making
  <2> PICK t \in Topics : t = call[a].topic
    BY <2>1
  <2>2. m_subMap' = m_subMap /\ crashed' = crashed /\ m_topics' = m_topics
    BY <1>5 DEF CreatePublisher
  <2>3. \/ m_pubMap' = m_pubMap
        \/ /\ m_pubMap' = t /\ Registered(t)
           /\ \/ publisher[m_topics[t]] # NoEntity
              \/ publisher' = [publisher EXCEPT ![m_topics[t]] = partitioned[m_topics[t]]]
    BY <1>5 DEF CreatePublisher
  <2>4. CASE m_pubMap' = m_pubMap
    BY <1>2, <1>3, <1>4, <2>2, <2>4 DEF MapsInv, Once
  <2>5. CASE m_pubMap' # m_pubMap
    <3>1. m_topics[t] \in Groups /\ m_topics[t] # NoGroup
      BY <2>3, <2>5, MappedGroup DEF Registered
    <3>2. partitioned[m_topics[t]] # NoEntity
      BY <3>1, Facts DEF TypeOK
    <3>3. publisher'[m_topics[t]] # NoEntity
      BY <1>1, <2>3, <2>5, <3>1, <3>2 DEF Grows, TypeOK
    <3> QED
      BY <1>3, <1>4, <2>2, <2>3, <2>5, <3>1, <3>3 DEF MapsInv
  <2> QED
    BY <2>4, <2>5
<1>6. ASSUME NEW a \in Threads, NEW made \in 0..2, CreateSubscriber(a, made)
      PROVE  MapsInv'
  <2>1. call[a].op \in Operations
    BY <1>6 DEF CreateSubscriber, At
  <2> PICK t \in Topics, m \in Names : t = call[a].topic /\ m = call[a].name
    BY <2>1, CallType DEF Making
  <2> DEFINE fresh == Registered(t) /\ readers[m_topics[t]][m] = NoEntity
  <2>2. m_pubMap' = m_pubMap /\ crashed' = crashed /\ m_topics' = m_topics
    BY <1>6 DEF CreateSubscriber
  <2>3. CASE m_subMap' = m_subMap
    BY <1>2, <1>3, <1>4, <2>2, <2>3 DEF MapsInv, Once
  <2>4. CASE m_subMap' # m_subMap
    <3>1. m_subMap' = t
      BY <1>6, <2>4 DEF CreateSubscriber
    <3>2. ASSUME odd'[t] \cap {"twice", "failed"} = {}
          PROVE  m_topics[t] # NoGroup /\ readers'[m_topics[t]][m] # NoEntity
      <4> DEFINE s == Early(t)
                      \cup (IF Registered(t) /\ (~fresh \/ made = 2) THEN {} ELSE {"failed"})
      <4>1. Noted(t, s) /\ s \in SUBSET Oddities
        BY <1>6 DEF CreateSubscriber, Early, Oddities
      <4>2. s \subseteq odd'[t]
        <5> HIDE DEF s
        <5> QED
          BY <4>1, NotedDoes
      <4>3. Registered(t) /\ (~fresh \/ made = 2)
        BY <3>2, <4>2
      <4>4. m_topics[t] \in Groups /\ m_topics[t] # NoGroup
        BY <4>3, MappedGroup DEF Registered
      <4>5. CASE ~fresh
        BY <1>1, <4>3, <4>4, <4>5 DEF Grows
      <4>6. CASE fresh /\ made = 2
        <5> DEFINE e == New(dataReaderQos[m_topics[t]])
        <5>1. readers' = [readers EXCEPT ![m_topics[t]][m] = e]
          BY <1>6, <4>6 DEF CreateSubscriber
        <5>2. e # NoEntity
          BY <4>4, Facts DEF TypeOK
        <5> HIDE DEF e
        <5> QED
          BY <4>4, <5>1, <5>2 DEF TypeOK
      <4> QED
        BY <4>3, <4>5, <4>6
    <3> QED
      BY <1>2, <1>4, <2>2, <3>1, <3>2 DEF MapsInv, Once
  <2> QED
    BY <2>3, <2>4
<1>7. ASSUME NEW a \in Threads, SetListener(a)
      PROVE  MapsInv'
  <2>1. UNCHANGED <<m_pubMap, m_subMap, odd>>
    BY <1>7 DEF SetListener
  <2>2. crashed' => \E t \in Topics : odd'[t] \cap {"twice", "failed"} # {}
    <3> SUFFICES ASSUME crashed'
                 PROVE  \E t \in Topics : odd'[t] \cap {"twice", "failed"} # {}
      OBVIOUS
    <3>1. call[a].op = "Listener" /\ call[a].at = "listen"
          /\ ReaderOf(call[a].topic, Generated) = NoEntity
      BY <1>7 DEF SetListener, At
    <3>2. call[a].topic \in Topics
      BY <3>1, CallType DEF Operations, Making
    <3>3. odd[call[a].topic] \cap {"twice", "failed"} # {}
      BY <3>1, <3>2 DEF TopicInv, ListenInv, ReaderOf
    <3> QED
      BY <2>1, <3>2, <3>3
  <2> QED
    BY <1>2, <1>3, <2>1, <2>2 DEF MapsInv, Once
<1>8. ASSUME UNCHANGED <<m_pubMap, m_subMap, crashed>>
      PROVE  MapsInv'
  BY <1>2, <1>3, <1>4, <1>8 DEF MapsInv, Once
<1>9. ASSUME NEW a \in Threads, Thread(a)
      PROVE  MapsInv'
  BY <1>5, <1>6, <1>7, <1>8, <1>9
  DEF Thread, RegisterTopic, CustomReaderQos, CustomWriterQos, CreateTopic, StoreTopic,
      RegisterQos, CheckPreset, RegisterReaderQos, RegisterWriterQos, RegisterPreset,
      AddPartition, GetReader, GetReaderQos, SetMaxDataRate
<1>10. CASE UNCHANGED vars
  BY <1>8, <1>10 DEF vars
<1> QED
  BY <1>9, <1>10 DEF Next, Done

-----------------------------------------------------------------------------
(* The theorems.                                                           *)

\* The inductive invariant.
Inv ==
    /\ TypeOK /\ RefInv
    /\ \A t \in Topics : TopicInv(t)
    /\ MapsInv

\* The initial state has the invariant ...
LEMMA InitInv == Init => Inv
<1> SUFFICES ASSUME Init
             PROVE  Inv
  OBVIOUS
<1>1. TypeOK
  BY InitType
<1>2. \A a \in Threads : call[a].op \notin Operations \cup {"setMaxDataRate"}
  BY DEF Init, Idle, Operations
<1>3. RefInv
  <2>1. \A a \in Threads, t \in Topics : ~In(a, t) /\ ~Stored(a, t)
    BY <1>2 DEF In, Stored
  <2> QED
    BY <1>2, <2>1 DEF Init, RefInv, Operations
<1>4. ASSUME NEW t \in Topics
      PROVE  TopicInv(t)
  <2>1. \A a \in Threads : ~In(a, t)
    BY <1>2 DEF In
  <2>2. \A g \in Groups : Bare(g)
    BY DEF Init, Bare
  <2>3. OnceInv(t)
    BY <2>1, <2>2 DEF OnceInv
  <2>4. QosInv(t) /\ FitsInv(t)
    BY <2>1 DEF Init, QosInv, FitsInv
  <2>5. ParentInv(t)
    BY DEF Init, ParentInv
  <2>6. RateInv(t) /\ ListenInv(t)
    BY <1>2 DEF Init, RateInv, ListenInv, Operations
  <2> QED
    BY <2>3, <2>4, <2>5, <2>6 DEF TopicInv
<1>5. MapsInv
  BY DEF Init, MapsInv
<1> QED
  BY <1>1, <1>3, <1>4, <1>5 DEF Inv

\* ... and every step keeps it.
LEMMA Invariance == Spec => []Inv
<1>1. Inv /\ [Next]_vars => Inv'
  <2> SUFFICES ASSUME Inv, [Next]_vars
               PROVE  Inv'
    OBVIOUS
  <2>1. TypeOK'
    BY TypeStep DEF Inv
  <2>2. RefInv'
    BY <2>1, RefStep DEF Inv
  <2>3. \A t \in Topics : TopicInv(t)'
    BY <2>1, <2>2, TopicStep DEF Inv
  <2>4. MapsInv'
    BY <2>1, MapsStep DEF Inv
  <2> QED
    BY <2>1, <2>2, <2>3, <2>4 DEF Inv
<1> QED
  BY InitInv, <1>1, PTL DEF Spec

\* The types of the groups' members, the endpoints, the maps and the calls.
THEOREM TypeCorrect == Spec => []TypeOK
<1>1. Inv => TypeOK
  BY DEF Inv
<1> QED
  BY Invariance, <1>1, PTL

\* The writer and the readers of a topic fit together, in QoS and in partition,
\* whichever of createPublisher and createSubscriber comes first and whatever
\* preset each call names: unless two threads register the topic at once, the
\* application changes the QoS, or the partition too late, or a thread meets the
\* topic before its preset.
THEOREM EndpointsAlwaysMatch == Spec => []EndpointsMatch
<1>1. Inv => EndpointsMatch
  <2> SUFFICES ASSUME Inv, NEW t \in Topics, NEW n \in Names,
                      m_topics[t] # NoGroup, writer[m_topics[t]] # NoEntity,
                      readers[m_topics[t]][n] # NoEntity,
                      \/ odd[t] \subseteq {"failed"}
                      \/ /\ odd[t] \subseteq {"failed", "early"}
                         /\ qosPreset[m_topics[t]] = DefaultPreset
               PROVE  /\ Compatible(DataWriter(writer[m_topics[t]].qos),
                                    DataReader(readers[m_topics[t]][n].qos))
                      /\ publisher[m_topics[t]] = subscriber[m_topics[t]]
    BY DEF EndpointsMatch
  <2> DEFINE g == m_topics[t]
  <2>1. g \in Groups /\ g[1] = t /\ TopicInv(t) /\ TypeOK
    BY MappedGroup DEF Inv
  <2>2. publisher[g] = subscriber[g]
    BY <2>1 DEF TopicInv, ParentInv
  <2>3. Fits(t, writer[g].qos) /\ Fits(t, readers[g][n].qos)
    BY <2>1 DEF TopicInv, FitsInv, Plain
  <2>4. writer[g].qos = readers[g][n].qos
    <3>1. CASE odd[t] \subseteq {"failed"}
      BY <2>3, <3>1 DEF Fits
    <3>2. CASE qosPreset[g] = DefaultPreset
      <4>1. DefaultPreset # NoPreset
        BY Facts
      <4> QED
        BY <2>3, <3>2, <4>1 DEF Fits
    <3> QED
      BY <3>1, <3>2
  <2>5. writer[g].qos \in Presets
    BY <2>1 DEF TypeOK, Endpoint
  <2>6. \A q \in Presets : Compatible(DataWriter(q), DataReader(q))
    BY SMT DEF Presets, Compatible, DataWriter, DataReader, Policies
  <2> QED
    BY <2>2, <2>4, <2>5, <2>6
<1> QED
  BY Invariance, <1>1, PTL

\* A rate below a second stays with its reader until setReaderQos, with the same
\* exceptions.
THEOREM RatesAreKept == Spec => []RateKept
<1>1. Inv => RateKept
  BY DEF Inv, TopicInv, RateInv, RateKept
<1> QED
  BY Invariance, <1>1, PTL

\* The maps lead to what is there, and Listener dereferences a reader: unless two
\* threads register the topic at once or OpenDDS refuses to create something.
THEOREM MapsAlwaysServe == Spec => []MapsServe
<1>1. Inv => MapsServe
  <2> SUFFICES ASSUME Inv
               PROVE  MapsServe
    OBVIOUS
  <2>1. TypeOK /\ RefInv /\ MapsInv /\ \A t \in Topics : TopicInv(t)
    BY DEF Inv
  <2>2. m_pubMap # NoTopic /\ odd[m_pubMap] \cap {"twice", "failed"} = {} =>
           WriterFor # NoEntity
    <3> SUFFICES ASSUME m_pubMap # NoTopic, odd[m_pubMap] \cap {"twice", "failed"} = {}
                 PROVE  WriterFor # NoEntity
      OBVIOUS
    <3> PICK t \in Topics : t = m_pubMap
      BY <2>1 DEF TypeOK
    <3>1. m_topics[t] # NoGroup /\ publisher[m_topics[t]] # NoEntity
      BY <2>1 DEF MapsInv, Once
    <3>2. writer[m_topics[t]] # NoEntity
      BY <2>1, <3>1, MappedGroup DEF TopicInv, ParentInv
    <3> QED
      BY <3>1, <3>2 DEF WriterFor
  <2> QED
    BY <2>1, <2>2 DEF MapsServe, MapsInv, Once, ReaderFor, ReaderOf
<1> QED
  BY Invariance, <1>1, PTL
=============================================================================
