-------------------------- MODULE TopicGroupProofs --------------------------
(***************************************************************************)
(* Theorems about TopicGroup, for any set of reader names and of calls.    *)
(***************************************************************************)
EXTENDS TopicGroup, TLAPS

\* Where the destructor is, and where the members still are those of a group
\* that is used.
Destructing == {"readers", "endpoints", "stop", "join", "topics"}
Using == {"live", "replacing"}

\* A null pointer ends the program in the middle of a call on a known topic;
\* what is being destroyed has left the map.
PhaseInv ==
    /\ crashed => phase = "live" /\ inMap
    /\ phase \in Destructing \cup {"gone"} => ~inMap
    /\ phase = "replacing" => inMap

\* The group's pointers stand for entities, in every phase.
PointerInv ==
    ~crashed /\ phase # "gone" =>
        /\ m.publisher = dds.publisher /\ m.writer = dds.writer
        /\ m.filteredTopics \subseteq dds.filters
        /\ m.subscriber => dds.subscriber
        /\ m.topic => dds.topic
        /\ phase \in Using => /\ m.readers = dds.readers
                              /\ m.m_readerListeners = m.readers
                              /\ ~inMap => m = NewMembers
        /\ phase \in Destructing \ {"readers"} => m.readers = {}
        /\ phase \in {"stop", "join", "topics"} =>
              ~m.publisher /\ ~m.writer /\ ~m.subscriber

\* And as long as no deletion was refused there are no others.
OwnedInv ==
    ~crashed /\ phase # "gone" /\ ~refused =>
        /\ dds.readers = m.readers /\ dds.filters = m.filteredTopics
        /\ dds.subscriber = m.subscriber /\ dds.topic = m.topic
        /\ dds.orphans = {}

\* A listener thread has its emitter, with the reader and told to run unless
\* it is the one that is being joined.
ThreadInv ==
    \A n \in Names :
        /\ n \in hasReader /\ emitter[n] = "running" => thread[n] # "off"
        /\ thread[n] # "off" =>
              /\ n \in hasReader /\ emitter[n] # "none"
              /\ phase \notin {"topics", "gone"}
              /\ emitter[n] = "running" \/ (phase \in {"replacing", "join"} /\ n = target)
              /\ phase \in Using => n \in dds.readers

GroupInv == PhaseInv /\ PointerInv /\ OwnedInv /\ ThreadInv

-----------------------------------------------------------------------------
(* Every step keeps each part.                                             *)

\* The types of pointers, entities, emitters and threads.
LEMMA TypeStep == TypeOK /\ [Next]_vars => TypeOK'
<1> SUFFICES ASSUME TypeOK, [Next]_vars PROVE TypeOK'
  OBVIOUS
<1> USE DEF threads, control
<1>1. CASE RegisterTopic
  BY <1>1 DEF RegisterTopic, TypeOK, Members, Entities
<1>2. CASE SetQos
  BY <1>2 DEF SetQos, TypeOK
<1>3. CASE CreatePublisher
  <2>1. PICK made \in 0..2 :
           /\ m' = [m EXCEPT !.publisher = made >= 1, !.writer = made = 2]
           /\ dds' = [dds EXCEPT !.publisher = made >= 1, !.writer = made = 2]
    BY <1>3 DEF CreatePublisher
  <2> DEFINE pub == made >= 1
             wri == (made = 2)
  <2>2. pub \in BOOLEAN /\ wri \in BOOLEAN
    OBVIOUS
  <2>3. /\ m' = [m EXCEPT !.publisher = pub, !.writer = wri]
        /\ dds' = [dds EXCEPT !.publisher = pub, !.writer = wri]
    BY <2>1
  <2> HIDE DEF pub, wri
  <2>4. m' \in Members /\ dds' \in Entities
    BY <2>2, <2>3 DEF TypeOK, Members, Entities
  <2> QED
    BY <1>3, <2>4 DEF CreatePublisher, TypeOK
<1>4. ASSUME NEW n \in Names, NEW filtered \in BOOLEAN, CreateSubscriber(n, filtered)
      PROVE TypeOK'
  <2>1. PICK made \in 0..3 :
          LET cft == IF filtered /\ made >= 2 THEN {n} ELSE {}
              rd == IF made = 3 THEN {n} ELSE {} IN
          /\ m' = [m EXCEPT !.subscriber = @ \/ made >= 1,
                            !.filteredTopics = @ \cup cft,
                            !.readers = @ \cup rd,
                            !.m_readerListeners = @ \cup rd]
          /\ dds' = [dds EXCEPT !.subscriber = @ \/ made >= 1,
                                !.filters = @ \cup cft,
                                !.readers = @ \cup rd]
    BY <1>4 DEF CreateSubscriber
  <2> DEFINE cft == IF filtered /\ made >= 2 THEN {n} ELSE {}
             rd == IF made = 3 THEN {n} ELSE {}
             sub == made >= 1
  <2>2. sub \in BOOLEAN /\ cft \subseteq Names /\ rd \subseteq Names
    OBVIOUS
  <2>3. /\ m' = [m EXCEPT !.subscriber = m.subscriber \/ sub,
                         !.filteredTopics = m.filteredTopics \cup cft,
                         !.readers = m.readers \cup rd,
                         !.m_readerListeners = m.m_readerListeners \cup rd]
        /\ dds' = [dds EXCEPT !.subscriber = dds.subscriber \/ sub,
                             !.filters = dds.filters \cup cft,
                             !.readers = dds.readers \cup rd]
    BY <2>1
  <2> HIDE DEF sub, cft, rd
  <2>4. m' \in Members /\ dds' \in Entities
    BY <2>2, <2>3 DEF TypeOK, Members, Entities
  <2> QED
    BY <1>4, <2>4 DEF CreateSubscriber, TypeOK
<1>5. ASSUME NEW n \in Names, NEW queueMessages \in BOOLEAN, AddCallback(n, queueMessages)
      PROVE TypeOK'
  BY <1>5 DEF AddCallback, TypeOK
<1>6. CASE SetWriterListenerHandler
  BY <1>6 DEF SetWriterListenerHandler, TypeOK
<1>7. ASSUME NEW n \in Names, ~crashed, Listener(n) PROVE TypeOK'
  BY <1>7 DEF Listener, Loop, Exit, TimeOut, Take, ReturnLoan, TypeOK
<1>8. ASSUME NEW n \in Names, ReplaceFilter(n) PROVE TypeOK'
  BY <1>8 DEF ReplaceFilter, TypeOK, Phases
<1>9. CASE ReplaceDelete
  <2>1. CASE UNCHANGED <<m, dds, crashed>>
    BY <1>9, <2>1 DEF ReplaceDelete, TypeOK, Phases
  <2>2. CASE /\ dds' = [dds EXCEPT !.readers = @ \ {target},
                                    !.filters = @ \ (m.filteredTopics \cap {target})]
             /\ m' = [m EXCEPT !.filteredTopics = @ \ {target}]
             /\ crashed' = TRUE
    <3>1. dds' \in Entities
      BY <2>2 DEF TypeOK, Entities
    <3>2. m' \in Members
      BY <2>2 DEF TypeOK, Members
    <3> QED
      BY <1>9, <2>2, <3>1, <3>2 DEF ReplaceDelete, TypeOK, Phases
  <2> QED
    BY <1>9, <2>1, <2>2 DEF ReplaceDelete
<1>10. CASE UnregisterTopic
  BY <1>10 DEF UnregisterTopic, TypeOK, Phases
<1>11. ASSUME NEW n \in Names, DeleteReader(n) PROVE TypeOK'
  <2>1. m' \in Members
    BY <1>11 DEF DeleteReader, TypeOK, Members
  <2>2. dds' \in Entities /\ refused' \in BOOLEAN
    BY ZenonT(60), <1>11 DEF DeleteReader, TypeOK, Entities
  <2> QED
    BY <1>11, <2>1, <2>2 DEF DeleteReader, TypeOK, Phases
<1>12. CASE NoReaders
  BY <1>12 DEF NoReaders, TypeOK, Phases
<1>13. CASE DeleteEndpoints
  BY <1>13 DEF DeleteEndpoints, TypeOK, Members, Entities, Phases
<1>14. ASSUME NEW n \in Names, StopEmitter(n) PROVE TypeOK'
  BY <1>14 DEF StopEmitter, TypeOK, Phases
<1>15. CASE JoinEmitter
  BY <1>15 DEF JoinEmitter, TypeOK, Phases
<1>16. CASE ClearEmitters
  BY <1>16 DEF ClearEmitters, TypeOK, Phases
<1>17. CASE DeleteTopics
  BY <1>17 DEF DeleteTopics, TypeOK, Members, Entities, NewMembers, Phases
<1>18. CASE DeleteParticipant
  BY <1>18 DEF DeleteParticipant, TypeOK, Entities, NoEntities, Phases
<1>19. CASE UNCHANGED vars
  BY <1>19 DEF vars, TypeOK
<1> QED
  BY <1>1, <1>2, <1>3, <1>4, <1>5, <1>6, <1>7, <1>8, <1>9, <1>10, <1>11, <1>12,
     <1>13, <1>14, <1>15, <1>16, <1>17, <1>18, <1>19
  DEF Next, Create, Finish, Stopped

\* The owner's calls and the phases of the destructor.
LEMMA PhaseStep == TypeOK /\ PhaseInv /\ [Next]_vars => PhaseInv'
<1> SUFFICES ASSUME TypeOK, PhaseInv, [Next]_vars PROVE PhaseInv'
  OBVIOUS
<1> USE DEF threads, control
<1>1. CASE RegisterTopic
  BY <1>1 DEF RegisterTopic, PhaseInv, Destructing, Calling
<1>2. CASE SetQos
  BY <1>2 DEF SetQos, PhaseInv, Destructing, Calling
<1>3. CASE CreatePublisher
  BY <1>3 DEF CreatePublisher, PhaseInv
<1>4. ASSUME NEW n \in Names, NEW filtered \in BOOLEAN, CreateSubscriber(n, filtered)
      PROVE PhaseInv'
  BY <1>4 DEF CreateSubscriber, PhaseInv
<1>5. ASSUME NEW n \in Names, NEW queueMessages \in BOOLEAN, AddCallback(n, queueMessages)
      PROVE PhaseInv'
  BY <1>5 DEF AddCallback, PhaseInv
<1>6. CASE SetWriterListenerHandler
  BY <1>6 DEF SetWriterListenerHandler, PhaseInv, Calling
<1>7. ASSUME NEW n \in Names, ~crashed, Listener(n) PROVE PhaseInv'
  BY <1>7 DEF Listener, Loop, Exit, TimeOut, Take, ReturnLoan, PhaseInv
<1>8. ASSUME NEW n \in Names, ReplaceFilter(n) PROVE PhaseInv'
  BY <1>8 DEF ReplaceFilter, PhaseInv, Destructing, Calling
<1>9. CASE ReplaceDelete
  BY <1>9 DEF ReplaceDelete, PhaseInv, Destructing
<1>10. CASE UnregisterTopic
  BY <1>10 DEF UnregisterTopic, PhaseInv, Calling
<1>11. ASSUME NEW n \in Names, DeleteReader(n) PROVE PhaseInv'
  BY <1>11 DEF DeleteReader, PhaseInv, Destructing
<1>12. CASE NoReaders
  BY <1>12 DEF NoReaders, PhaseInv, Destructing
<1>13. CASE DeleteEndpoints
  BY <1>13 DEF DeleteEndpoints, PhaseInv, Destructing
<1>14. ASSUME NEW n \in Names, StopEmitter(n) PROVE PhaseInv'
  BY <1>14 DEF StopEmitter, PhaseInv, Destructing
<1>15. CASE JoinEmitter
  BY <1>15 DEF JoinEmitter, PhaseInv, Destructing
<1>16. CASE ClearEmitters
  BY <1>16 DEF ClearEmitters, PhaseInv, Destructing
<1>17. CASE DeleteTopics
  BY <1>17 DEF DeleteTopics, PhaseInv, Destructing
<1>18. CASE DeleteParticipant
  BY <1>18 DEF DeleteParticipant, PhaseInv
<1>19. CASE UNCHANGED vars
  BY <1>19 DEF vars, PhaseInv
<1> QED
  BY <1>1, <1>2, <1>3, <1>4, <1>5, <1>6, <1>7, <1>8, <1>9, <1>10, <1>11, <1>12,
     <1>13, <1>14, <1>15, <1>16, <1>17, <1>18, <1>19
  DEF Next, Create, Finish, Stopped

\* Whatever is created is recorded, whichever creation fails, and what is deleted
\* is forgotten in the same phase.
LEMMA PointerStep == TypeOK /\ PhaseInv /\ PointerInv /\ [Next]_vars => PointerInv'
<1> SUFFICES ASSUME TypeOK, PhaseInv, PointerInv, [Next]_vars PROVE PointerInv'
  OBVIOUS
<1> USE DEF threads, control
<1>1. CASE RegisterTopic
  BY <1>1 DEF RegisterTopic, PointerInv, TypeOK, Members, Entities
<1>2. CASE SetQos
  BY <1>2 DEF SetQos, PointerInv
<1>3. CASE CreatePublisher
  BY <1>3 DEF CreatePublisher, PointerInv, Calling
<1>4. ASSUME NEW n \in Names, NEW filtered \in BOOLEAN, CreateSubscriber(n, filtered)
      PROVE PointerInv'
  BY <1>4 DEF CreateSubscriber, PointerInv, Calling, Destructing
<1>5. ASSUME NEW n \in Names, NEW queueMessages \in BOOLEAN, AddCallback(n, queueMessages)
      PROVE PointerInv'
  BY <1>5 DEF AddCallback, PointerInv
<1>6. CASE SetWriterListenerHandler
  BY <1>6 DEF SetWriterListenerHandler, PointerInv, Calling
<1>7. ASSUME NEW n \in Names, ~crashed, Listener(n) PROVE PointerInv'
  BY <1>7 DEF Listener, Loop, Exit, TimeOut, Take, ReturnLoan, PointerInv
<1>8. ASSUME NEW n \in Names, ReplaceFilter(n) PROVE PointerInv'
  BY <1>8 DEF ReplaceFilter, PointerInv, Calling, Destructing, Using
<1>9. CASE ReplaceDelete
  BY <1>9 DEF ReplaceDelete, PointerInv, Destructing, Using
<1>10. CASE UnregisterTopic
  BY <1>10 DEF UnregisterTopic, PointerInv, Calling, Using
<1>11. ASSUME NEW n \in Names, DeleteReader(n) PROVE PointerInv'
  BY <1>11 DEF DeleteReader, PointerInv, TypeOK, Entities, Using
<1>12. CASE NoReaders
  BY <1>12 DEF NoReaders, PointerInv, Using
<1>13. CASE DeleteEndpoints
  BY <1>13 DEF DeleteEndpoints, PointerInv, Destructing, Using
<1>14. ASSUME NEW n \in Names, StopEmitter(n) PROVE PointerInv'
  BY <1>14 DEF StopEmitter, PointerInv, Destructing, Using
<1>15. CASE JoinEmitter
  BY <1>15 DEF JoinEmitter, PointerInv, Destructing, Using
<1>16. CASE ClearEmitters
  BY <1>16 DEF ClearEmitters, PointerInv, Destructing, Using
<1>17. CASE DeleteTopics
  BY <1>17 DEF DeleteTopics, PointerInv, TypeOK, Entities, NewMembers
<1>18. CASE DeleteParticipant
  BY <1>18 DEF DeleteParticipant, PointerInv
<1>19. CASE UNCHANGED vars
  BY <1>19 DEF vars, PointerInv
<1> QED
  BY <1>1, <1>2, <1>3, <1>4, <1>5, <1>6, <1>7, <1>8, <1>9, <1>10, <1>11, <1>12,
     <1>13, <1>14, <1>15, <1>16, <1>17, <1>18, <1>19
  DEF Next, Create, Finish, Stopped

\* Only a refused deletion leaves an entity without its pointer.
LEMMA OwnedStep == TypeOK /\ PhaseInv /\ PointerInv /\ OwnedInv /\ [Next]_vars => OwnedInv'
<1> SUFFICES ASSUME TypeOK, PhaseInv, PointerInv, OwnedInv, [Next]_vars PROVE OwnedInv'
  OBVIOUS
<1> USE DEF threads, control
<1>1. CASE RegisterTopic
  <2>1. CASE UNCHANGED <<inMap, m, dds>>
    BY <1>1, <2>1 DEF RegisterTopic, OwnedInv
  <2>2. CASE /\ m' = [m EXCEPT !.topic = TRUE] /\ dds' = [dds EXCEPT !.topic = TRUE]
    <3>1. /\ m'.topic = TRUE /\ m'.readers = m.readers
          /\ m'.filteredTopics = m.filteredTopics /\ m'.subscriber = m.subscriber
      BY <2>2 DEF TypeOK, Members
    <3>2. /\ dds'.topic = TRUE /\ dds'.readers = dds.readers
          /\ dds'.filters = dds.filters /\ dds'.subscriber = dds.subscriber
          /\ dds'.orphans = dds.orphans
      BY <2>2 DEF TypeOK, Entities
    <3> QED
      BY <1>1, <3>1, <3>2 DEF RegisterTopic, Calling, OwnedInv
  <2> QED
    BY <1>1, <2>1, <2>2 DEF RegisterTopic
<1>2. CASE SetQos
  BY <1>2 DEF SetQos, OwnedInv
<1>3. CASE CreatePublisher
  BY ZenonT(60), <1>3 DEF CreatePublisher, OwnedInv, TypeOK, Members, Entities
<1>4. ASSUME NEW n \in Names, NEW filtered \in BOOLEAN, CreateSubscriber(n, filtered)
      PROVE OwnedInv'
  BY <1>4 DEF CreateSubscriber, OwnedInv, PointerInv, TypeOK, Members, Entities
<1>5. ASSUME NEW n \in Names, NEW queueMessages \in BOOLEAN, AddCallback(n, queueMessages)
      PROVE OwnedInv'
  BY <1>5 DEF AddCallback, OwnedInv
<1>6. CASE SetWriterListenerHandler
  BY <1>6 DEF SetWriterListenerHandler, OwnedInv, Calling
<1>7. ASSUME NEW n \in Names, ~crashed, Listener(n) PROVE OwnedInv'
  BY <1>7 DEF Listener, Loop, Exit, TimeOut, Take, ReturnLoan, OwnedInv
<1>8. ASSUME NEW n \in Names, ReplaceFilter(n) PROVE OwnedInv'
  BY <1>8 DEF ReplaceFilter, OwnedInv, Calling
<1>9. CASE ReplaceDelete
  BY <1>9 DEF ReplaceDelete, OwnedInv
<1>10. CASE UnregisterTopic
  BY <1>10 DEF UnregisterTopic, OwnedInv, Calling
<1>11. ASSUME NEW n \in Names, DeleteReader(n) PROVE OwnedInv'
  BY <1>11 DEF DeleteReader, OwnedInv, TypeOK, Entities
<1>12. CASE NoReaders
  BY <1>12 DEF NoReaders, OwnedInv
<1>13. CASE DeleteEndpoints
  BY <1>13
  DEF DeleteEndpoints, OwnedInv, PointerInv, TypeOK, Members, Entities, Destructing
<1>14. ASSUME NEW n \in Names, StopEmitter(n) PROVE OwnedInv'
  BY <1>14 DEF StopEmitter, OwnedInv
<1>15. CASE JoinEmitter
  BY <1>15 DEF JoinEmitter, OwnedInv
<1>16. CASE ClearEmitters
  BY <1>16 DEF ClearEmitters, OwnedInv
<1>17. CASE DeleteTopics
  BY <1>17
  DEF DeleteTopics, OwnedInv, PointerInv, TypeOK, Entities, NewMembers, Destructing
<1>18. CASE DeleteParticipant
  BY <1>18 DEF DeleteParticipant, OwnedInv
<1>19. CASE UNCHANGED vars
  BY <1>19 DEF vars, OwnedInv
<1> QED
  BY <1>1, <1>2, <1>3, <1>4, <1>5, <1>6, <1>7, <1>8, <1>9, <1>10, <1>11, <1>12,
     <1>13, <1>14, <1>15, <1>16, <1>17, <1>18, <1>19
  DEF Next, Create, Finish, Stopped

\* Threads start with their emitter and end before it goes.
LEMMA ThreadStep == TypeOK /\ PhaseInv /\ PointerInv /\ ThreadInv /\ [Next]_vars => ThreadInv'
<1> SUFFICES ASSUME TypeOK, PhaseInv, PointerInv, ThreadInv, [Next]_vars PROVE ThreadInv'
  OBVIOUS
<1> USE DEF threads, control
<1>1. CASE RegisterTopic
  <2>1. dds'.readers = dds.readers
    BY <1>1 DEF RegisterTopic, TypeOK, Entities
  <2> QED
    BY <1>1, <2>1 DEF RegisterTopic, ThreadInv
<1>2. CASE SetQos
  BY <1>2 DEF SetQos, ThreadInv
<1>3. CASE CreatePublisher
  BY <1>3 DEF CreatePublisher, ThreadInv
<1>4. ASSUME NEW n \in Names, NEW filtered \in BOOLEAN, CreateSubscriber(n, filtered)
      PROVE ThreadInv'
  BY <1>4 DEF CreateSubscriber, ThreadInv
<1>5. ASSUME NEW n \in Names, NEW queueMessages \in BOOLEAN, AddCallback(n, queueMessages)
      PROVE ThreadInv'
  BY <1>5 DEF AddCallback, ThreadInv, PointerInv, Calling, TypeOK
<1>6. CASE SetWriterListenerHandler
  BY <1>6 DEF SetWriterListenerHandler, ThreadInv
<1>7. ASSUME NEW n \in Names, ~crashed, Listener(n) PROVE ThreadInv'
  BY <1>7 DEF Listener, Loop, Exit, TimeOut, Take, ReturnLoan, ThreadInv, TypeOK
<1>8. ASSUME NEW n \in Names, ReplaceFilter(n) PROVE ThreadInv'
  BY <1>8 DEF ReplaceFilter, ThreadInv, Calling, Using
<1>9. CASE ReplaceDelete
  <2>1. dds'.readers = dds.readers \/ dds'.readers = dds.readers \ {target}
    BY <1>9 DEF ReplaceDelete, TypeOK, Entities
  <2>2. \A n \in Names : n = target => thread[n] = "off"
    BY <1>9 DEF ReplaceDelete, ThreadInv
  <2> QED
    BY <1>9, <2>1, <2>2 DEF ReplaceDelete, ThreadInv, Using
<1>10. CASE UnregisterTopic
  BY <1>10 DEF UnregisterTopic, ThreadInv, Calling, Using
<1>11. ASSUME NEW n \in Names, DeleteReader(n) PROVE ThreadInv'
  BY <1>11 DEF DeleteReader, ThreadInv, Using
<1>12. CASE NoReaders
  BY <1>12 DEF NoReaders, ThreadInv, Using
<1>13. CASE DeleteEndpoints
  BY <1>13 DEF DeleteEndpoints, ThreadInv, Using
<1>14. ASSUME NEW n \in Names, StopEmitter(n) PROVE ThreadInv'
  BY <1>14 DEF StopEmitter, ThreadInv, Using
<1>15. CASE JoinEmitter
  BY <1>15 DEF JoinEmitter, ThreadInv, Using
<1>16. CASE ClearEmitters
  BY <1>16 DEF ClearEmitters, ThreadInv
<1>17. CASE DeleteTopics
  BY <1>17 DEF DeleteTopics, ThreadInv
<1>18. CASE DeleteParticipant
  BY <1>18 DEF DeleteParticipant, ThreadInv, PointerInv, Calling, Using, NewMembers
<1>19. CASE UNCHANGED vars
  BY <1>19 DEF vars, ThreadInv
<1> QED
  BY <1>1, <1>2, <1>3, <1>4, <1>5, <1>6, <1>7, <1>8, <1>9, <1>10, <1>11, <1>12,
     <1>13, <1>14, <1>15, <1>16, <1>17, <1>18, <1>19
  DEF Next, Create, Finish, Stopped

LEMMA InitGroup == Init => TypeOK /\ GroupInv
<1> SUFFICES ASSUME Init PROVE TypeOK /\ GroupInv
  OBVIOUS
<1>1. m \in Members /\ dds \in Entities
  BY DEF Init, NewMembers, NoEntities, Members, Entities
<1>2. TypeOK
  BY <1>1 DEF Init, TypeOK, Phases
<1>3. PhaseInv /\ ThreadInv
  BY DEF Init, PhaseInv, ThreadInv, Destructing
<1>4. PointerInv /\ OwnedInv
  BY DEF Init, PointerInv, OwnedInv, NewMembers, NoEntities, Using, Destructing
<1> QED
  BY <1>2, <1>3, <1>4 DEF GroupInv

\* The pointers, the entities, the emitters and the threads of a group.
THEOREM TypeCorrect == Spec => []TypeOK
<1>1. Init => TypeOK
  BY InitGroup
<1> QED
  BY <1>1, TypeStep, PTL DEF Spec

LEMMA GroupInvariant == Spec => [](TypeOK /\ GroupInv)
<1>1. TypeOK /\ GroupInv /\ [Next]_vars => TypeOK' /\ GroupInv'
  BY TypeStep, PhaseStep, PointerStep, OwnedStep, ThreadStep DEF GroupInv
<1> QED
  BY <1>1, InitGroup, PTL DEF Spec

-----------------------------------------------------------------------------
(* What follows.                                                           *)

\* Between calls a group points to exactly the entities it owns, whichever
\* creations and deletions failed before.
THEOREM PointersAlwaysMatch == Spec => []PointersMatch
<1>1. TypeOK /\ GroupInv => PointersMatch
  BY DEF GroupInv, PointerInv, PointersMatch, Using
<1> QED
  BY <1>1, GroupInvariant, PTL

\* A teardown leaves entities behind only when a loan made it.
THEOREM OnlyLoansLeak == Spec => []LeakOnlyByLoan
<1>1. ASSUME TypeOK, GroupInv PROVE LeakOnlyByLoan
  <2> SUFFICES ASSUME ~refused, phase = "live", ~inMap PROVE dds = NoEntities
    BY DEF LeakOnlyByLoan, CleanTeardown
  <2>1. ~crashed /\ m = NewMembers
    BY <1>1 DEF GroupInv, PhaseInv, PointerInv, Using
  <2>2. /\ dds.topic = FALSE /\ dds.publisher = FALSE /\ dds.writer = FALSE
        /\ dds.subscriber = FALSE /\ dds.readers = {} /\ dds.filters = {}
        /\ dds.orphans = {}
    BY <1>1, <2>1 DEF GroupInv, PointerInv, OwnedInv, NewMembers
  <2> QED
    BY <1>1, <2>2 DEF TypeOK, Entities, NoEntities
<1> QED
  BY <1>1, GroupInvariant, PTL

\* An emitter that has its reader and says it is running has its thread.
THEOREM RunningHasThread == Spec => []CallbacksServed
<1>1. TypeOK /\ GroupInv => CallbacksServed
  BY DEF TypeOK, GroupInv, ThreadInv, CallbacksServed
<1> QED
  BY <1>1, GroupInvariant, PTL

\* Between calls a listener thread waits on a reader that exists, for an emitter
\* that will stop it.
THEOREM ThreadsHaveReaders == Spec => []ThreadHasReader
<1>1. TypeOK /\ GroupInv => ThreadHasReader
  BY DEF GroupInv, ThreadInv, ThreadHasReader, Using
<1> QED
  BY <1>1, GroupInvariant, PTL

\* The destructor has waited for every thread before the emitters go.
THEOREM AllThreadsJoined == Spec => []ThreadsJoined
<1>1. TypeOK /\ GroupInv => ThreadsJoined
  BY DEF GroupInv, ThreadInv, ThreadsJoined
<1> QED
  BY <1>1, GroupInvariant, PTL

-----------------------------------------------------------------------------
(* Without callbacks.                                                      *)

\* Nothing is on loan, and nothing was when a reader was deleted.
NoLoans == ~refused /\ \A n \in Names : thread[n] = "off"

LEMMA LoanStep ==
    ASSUME "addCallback" \notin Calls
    PROVE  TypeOK /\ NoLoans /\ [Next]_vars => NoLoans'
<1> SUFFICES ASSUME TypeOK, NoLoans, [Next]_vars PROVE NoLoans'
  OBVIOUS
<1> USE DEF threads, control, NoLoans
<1>1. CASE Create
  <2>1. ASSUME NEW n \in Names, NEW queueMessages \in BOOLEAN
        PROVE  ~AddCallback(n, queueMessages)
    BY DEF AddCallback, Calling
  <2>2. UNCHANGED <<thread, refused>>
    BY <1>1, <2>1 DEF Create, RegisterTopic, SetQos, CreatePublisher,
       SetWriterListenerHandler, CreateSubscriber
  <2> QED
    BY <2>2
<1>2. ASSUME NEW n \in Names, Listener(n) PROVE NoLoans'
  BY <1>2 DEF Listener, Loop, Exit, TimeOut, Take, ReturnLoan, TypeOK
<1>3. ASSUME NEW n \in Names, DeleteReader(n) PROVE NoLoans'
  BY <1>3 DEF DeleteReader
<1>4. ASSUME NEW n \in Names, ReplaceFilter(n) \/ StopEmitter(n) PROVE NoLoans'
  BY <1>4 DEF ReplaceFilter, StopEmitter
<1>5. CASE ReplaceDelete \/ NoReaders \/ DeleteEndpoints \/ JoinEmitter
  BY <1>5 DEF ReplaceDelete, NoReaders, DeleteEndpoints, JoinEmitter
<1>6. CASE ClearEmitters \/ DeleteTopics
  BY <1>6 DEF ClearEmitters, DeleteTopics
<1>7. CASE UnregisterTopic \/ DeleteParticipant \/ UNCHANGED vars
  BY <1>7 DEF UnregisterTopic, DeleteParticipant, vars
<1> QED
  BY <1>1, <1>2, <1>3, <1>4, <1>5, <1>6, <1>7 DEF Next, Finish, Stopped

\* An application that adds no callbacks, and so never has a listener thread hold
\* a loan, gets every teardown clean, whichever creations failed before.  With
\* callbacks it does not: that is the run group_teardown.
THEOREM CleanWithoutCallbacks ==
    ASSUME "addCallback" \notin Calls
    PROVE  Spec => []CleanTeardown
<1>1. Init => NoLoans
  BY DEF Init, NoLoans
<1>2. NoLoans /\ LeakOnlyByLoan => CleanTeardown
  BY DEF NoLoans, LeakOnlyByLoan
<1> QED
  BY <1>1, <1>2, LoanStep, TypeCorrect, OnlyLoansLeak, PTL DEF Spec

=============================================================================
