-------------------------- MODULE SampleFlowProofs --------------------------
(***************************************************************************)
(* Theorems about SampleFlow, for any number of instances, callbacks,      *)
(* polling threads, pool threads and samples.                              *)
(***************************************************************************)
EXTENDS SampleFlow, Functions, FiniteSetTheorems, TLAPS

-----------------------------------------------------------------------------
(* Types.                                                                  *)

\* What the operators on sequences return.
LEMMA SeqFacts ==
    ASSUME NEW S
    PROVE  /\ <<>> \in Seq(S)
           /\ \A s \in Seq(S), x \in S : Append(s, x) \in Seq(S)
           /\ \A s \in Seq(S) : s # <<>> => Head(s) \in S /\ Tail(s) \in Seq(S)
           /\ \A s \in Seq(S) : Len(s) \in Nat /\ \A i \in 1..Len(s) : s[i] \in S
           /\ \A s, t \in Seq(S) : s \o t \in Seq(S)
  OBVIOUS

\* The types of what is made of samples, whatever their numbers are.
Samples == 1..MaxSamples

LEMMA SampleTypes ==
    TypeOK => /\ cache \in [Keys -> Seq(Samples)]
              /\ batch \in [Readers -> [Keys -> Seq(Samples)]]
              /\ Call = [key : Keys, sample : Samples]
              /\ Job = [to : Callbacks, key : Keys, sample : Samples]
  BY DEF TypeOK, Samples, Call, Job

\* No sample and no call so far.
LEMMA InitType == Init => TypeOK
<1> SUFFICES ASSUME Init PROVE TypeOK
  OBVIOUS
<1>1. MaxSamples \in Nat
  BY FlowAssumption
<1>2. sent \in [Keys -> 0..MaxSamples]
  BY <1>1 DEF Init
<1>3. cache \in [Keys -> Seq(1..MaxSamples)]
      /\ batch \in [Readers -> [Keys -> Seq(1..MaxSamples)]]
  BY DEF Init, Nothing
<1>4. events \in Seq(Job) /\ m_callbacks \in Seq(Callbacks)
  BY DEF Init
<1>5. called \in [Callbacks -> Seq(Call)] /\ owed \in [Callbacks -> SUBSET Call]
  BY DEF Init
<1>6. running \in [Workers -> Job \cup {NoJob}]
  BY DEF Init
<1> QED
  BY <1>2, <1>3, <1>4, <1>5, <1>6 DEF Init, TypeOK

\* The cache of a reader after a sample of instance k has arrived.
LEMMA ArriveType ==
    ASSUME TypeOK, NEW k \in Keys, Arrive(k)
    PROVE  /\ sent' \in [Keys -> 0..MaxSamples]
           /\ cache' \in [Keys -> Seq(1..MaxSamples)]
           /\ dataAvailable' \in BOOLEAN /\ left' \in BOOLEAN
<1>1. MaxSamples \in Nat /\ sent[k] \in 0..MaxSamples /\ sent[k] < MaxSamples
  BY FlowAssumption DEF TypeOK, Arrive
<1>2. sent[k] + 1 \in Samples /\ sent[k] + 1 \in 0..MaxSamples
  BY <1>1 DEF Samples
<1>3. sent' \in [Keys -> 0..MaxSamples]
  BY <1>2 DEF TypeOK, Arrive
<1>4. cache \in [Keys -> Seq(Samples)] /\ cache[k] \in Seq(Samples)
  BY SampleTypes
<1> DEFINE kept == IF Len(cache[k]) < Depth THEN cache[k] ELSE Tail(cache[k])
<1>5. kept \in Seq(Samples)
  <2>1. CASE Len(cache[k]) < Depth
    BY <2>1, <1>4
  <2>2. CASE ~(Len(cache[k]) < Depth)
    <3>1. Len(cache[k]) # 0
      BY <2>2, FlowAssumption
    <3>2. cache[k] # <<>>
      BY <3>1
    <3> QED
      BY <2>2, <3>2, <1>4, SeqFacts
  <2> QED
    BY <2>1, <2>2
<1>6. Append(kept, sent[k] + 1) \in Seq(Samples)
  BY <1>2, <1>5, SeqFacts
<1>7. cache' = [cache EXCEPT ![k] = Append(kept, sent[k] + 1)]
  BY DEF Arrive
<1> HIDE DEF kept
<1>8. cache' \in [Keys -> Seq(Samples)]
  BY <1>4, <1>6, <1>7
<1> QED
  BY <1>3, <1>8 DEF Arrive, Samples

\* What readQueue takes.
Taken == [k \in Keys |-> IF k \in Available THEN cache[k] ELSE <<>>]

LEMMA TakenType == TypeOK => Taken \in [Keys -> Seq(Samples)]
  BY SampleTypes, SeqFacts DEF Taken

\* What a take leaves in the reader.
LEMMA TakeOfType ==
    ASSUME TypeOK, NEW keys, TakeOf(keys)
    PROVE  cache' \in [Keys -> Seq(1..MaxSamples)] /\ dataAvailable' \in BOOLEAN
<1>1. cache' \in [Keys -> Seq(Samples)]
  BY SampleTypes, SeqFacts DEF TakeOf
<1> QED
  BY <1>1 DEF Samples, TakeOf

\* What readQueue leaves behind.
LEMMA ReadQueueType ==
    ASSUME TypeOK, NEW r \in Readers, ReadQueue(r)
    PROVE  /\ cache' \in [Keys -> Seq(1..MaxSamples)]
           /\ batch' \in [Readers -> [Keys -> Seq(1..MaxSamples)]]
           /\ pc' \in [Readers -> {"idle", "loop", "wait", "found", "loan", "emit"}]
           /\ owed' \in [Callbacks -> SUBSET Call]
           /\ dataAvailable' \in BOOLEAN
<1>0. batch' = [batch EXCEPT ![r] = Taken] /\ owed' = OwedFor(Taken)
      /\ TakeOf(Available)
  BY DEF ReadQueue, Taken
<1>1. batch' \in [Readers -> [Keys -> Seq(Samples)]]
  BY <1>0, TakenType, SampleTypes
<1>2. ASSUME NEW k \in Keys, NEW i \in 1..Len(Taken[k])
      PROVE  [key |-> k, sample |-> Taken[k][i]] \in Call
  <2>1. Taken[k][i] \in Samples
    BY TakenType, SeqFacts
  <2> QED
    BY <2>1, SampleTypes
<1>3. UNION { {[key |-> k, sample |-> Taken[k][i]] : i \in 1..Len(Taken[k])} : k \in Keys }
         \subseteq Call
  BY <1>2
<1>4. owed \in [Callbacks -> SUBSET Call]
  BY DEF TypeOK
<1>5. owed' \in [Callbacks -> SUBSET Call]
  BY <1>0, <1>3, <1>4 DEF OwedFor
<1>6. pc' \in [Readers -> {"idle", "loop", "wait", "found", "loan", "emit"}]
  BY DEF TypeOK, ReadQueue
<1> QED
  BY <1>0, <1>1, <1>5, <1>6, TakeOfType DEF Samples

\* The calls that emitMessage makes, or dispatches, for a sample.
CallOf(r, k) == [key |-> k, sample |-> Head(batch[r][k])]
JobsOf(r, k) == [i \in 1..Len(m_callbacks) |->
                    [to |-> m_callbacks[i], key |-> k, sample |-> Head(batch[r][k])]]

LEMMA JobsType ==
    ASSUME TypeOK, NEW r \in Readers, NEW k \in Keys, batch[r][k] # <<>>
    PROVE  JobsOf(r, k) \in Seq(Job)
<1>1. batch[r][k] \in Seq(Samples) /\ m_callbacks \in Seq(Callbacks)
  BY SampleTypes DEF TypeOK
<1>2. Head(batch[r][k]) \in Samples
  BY <1>1, SeqFacts
<1>3. Len(m_callbacks) \in Nat /\ \A i \in 1..Len(m_callbacks) : m_callbacks[i] \in Callbacks
  BY <1>1, SeqFacts
<1>4. \A i \in 1..Len(m_callbacks) :
         [to |-> m_callbacks[i], key |-> k, sample |-> Head(batch[r][k])] \in Job
  BY <1>2, <1>3, SampleTypes
<1> QED
  BY <1>3, <1>4 DEF JobsOf

LEMMA EmitType ==
    ASSUME TypeOK, NEW r \in Readers, NEW k \in Keys, Emit(r, k)
    PROVE  /\ batch' \in [Readers -> [Keys -> Seq(1..MaxSamples)]]
           /\ events' \in Seq(Job)
           /\ called' \in [Callbacks -> Seq(Call)]
<1>1. /\ batch[r] \in [Keys -> Seq(Samples)] /\ batch[r][k] \in Seq(Samples)
      /\ batch[r][k] # <<>>
  BY SampleTypes DEF Emit
<1>2. Head(batch[r][k]) \in Samples /\ Tail(batch[r][k]) \in Seq(Samples)
  BY <1>1, SeqFacts
<1>3. batch' = [batch EXCEPT ![r] = [batch[r] EXCEPT ![k] = Tail(batch[r][k])]]
  BY DEF Emit
<1>4. batch' \in [Readers -> [Keys -> Seq(Samples)]]
  BY <1>1, <1>2, <1>3, SampleTypes
<1>5. CallOf(r, k) \in Call
  BY <1>2, SampleTypes DEF CallOf
<1>6. JobsOf(r, k) \in Seq(Job)
  BY <1>1, JobsType
<1>7. /\ events' = events \/ events' = events \o JobsOf(r, k)
      /\ called' = called \/ called' = [c \in Callbacks |->
                    IF \E i \in 1..Len(m_callbacks) : m_callbacks[i] = c
                    THEN Append(called[c], CallOf(r, k)) ELSE called[c]]
  BY DEF Emit, CallOf, JobsOf
<1>8. events' \in Seq(Job)
  <2>1. events \in Seq(Job)
    BY DEF TypeOK
  <2>2. events \o JobsOf(r, k) \in Seq(Job)
    BY <2>1, <1>6, SeqFacts
  <2>3. events' = events \/ events' = events \o JobsOf(r, k)
    BY <1>7
  <2> QED
    BY <2>1, <2>2, <2>3
<1>9. called' \in [Callbacks -> Seq(Call)]
  <2>1. called \in [Callbacks -> Seq(Call)]
    BY DEF TypeOK
  <2>2. \A c \in Callbacks : Append(called[c], CallOf(r, k)) \in Seq(Call)
    BY <2>1, <1>5, SeqFacts
  <2>3. CASE called' = called
    BY <2>1, <2>3
  <2>4. CASE called' = [c \in Callbacks |->
                    IF \E i \in 1..Len(m_callbacks) : m_callbacks[i] = c
                    THEN Append(called[c], CallOf(r, k)) ELSE called[c]]
    <3>1. \A c \in Callbacks : called[c] \in Seq(Call)
      BY <2>1
    <3> QED
      BY <3>1, <2>2, <2>4
  <2> QED
    BY <2>3, <2>4, <1>7
<1> QED
  BY <1>4, <1>8, <1>9 DEF Samples

\* Every step of the owner, the pollers, the listener and the pool keeps the types.
LEMMA TypeStep == TypeOK /\ [Next]_vars => TypeOK'
<1> SUFFICES ASSUME TypeOK, [Next]_vars PROVE TypeOK'
  OBVIOUS
<1> USE DEF readerVars, emitterVars, poolVars, history
<1>1. ASSUME NEW k \in Keys, WriteSample(k) \/ DisposeSample(k) PROVE TypeOK'
  <2>1. Arrive(k) /\ alive' \in SUBSET Keys
    BY <1>1 DEF WriteSample, DisposeSample, TypeOK
  <2>2. /\ sent' \in [Keys -> 0..MaxSamples]
        /\ cache' \in [Keys -> Seq(1..MaxSamples)]
        /\ dataAvailable' \in BOOLEAN /\ left' \in BOOLEAN
    BY <2>1, ArriveType
  <2> QED
    BY <2>1, <2>2 DEF Arrive, TypeOK
<1>2. ASSUME NEW p \in Pollers, GetReader(p) PROVE TypeOK'
  BY <1>2 DEF GetReader, TypeOK
<1>3. ASSUME NEW p \in Pollers, NEW k \in Keys, TakeSample(p, k) PROVE TypeOK'
  <2>1. cache \in [Keys -> Seq(Samples)] /\ cache[k] # <<>>
    BY <1>3, SampleTypes DEF TakeSample, Available
  <2>2. Tail(cache[k]) \in Seq(Samples)
    BY <2>1, SeqFacts
  <2>3. cache' = [cache EXCEPT ![k] = Tail(cache[k])]
    BY <1>3 DEF TakeSample
  <2>4. cache' \in [Keys -> Seq(1..MaxSamples)]
    BY <2>1, <2>2, <2>3 DEF Samples
  <2> QED
    BY <1>3, <2>4 DEF TakeSample, TypeOK
<1>4. ASSUME NEW p \in Pollers, NEW keys \in SUBSET Keys, NEW readOnly \in BOOLEAN,
             TakeAllSamples(p, keys, readOnly)
      PROVE  TypeOK'
  <2>1. cache' \in [Keys -> Seq(1..MaxSamples)] /\ dataAvailable' \in BOOLEAN
    <3>1. CASE readOnly
      BY <1>4, <3>1 DEF TakeAllSamples, TypeOK
    <3>2. CASE ~readOnly
      BY <1>4, <3>2, TakeOfType DEF TakeAllSamples
    <3> QED
      BY <3>1, <3>2
  <2>2. left' \in BOOLEAN
    BY <1>4 DEF TakeAllSamples
  <2> QED
    BY <1>4, <2>1, <2>2 DEF TakeAllSamples, TypeOK
<1>5. ASSUME NEW p \in Pollers, TakeNothing(p) PROVE TypeOK'
  BY ZenonT(60), <1>5 DEF TakeNothing, TypeOK
<1>6. ASSUME NEW p \in Pollers, ReturnLoan(p) PROVE TypeOK'
  BY ZenonT(60), <1>6 DEF ReturnLoan, TypeOK
<1>7. ASSUME NEW c \in Callbacks, NEW queueMessages \in BOOLEAN,
             NEW asyncHandling \in BOOLEAN,
             AddCallback(c, queueMessages, asyncHandling)
      PROVE  TypeOK'
  <2>1. m_callbacks' \in Seq(Callbacks)
    <3>1. m_callbacks \in Seq(Callbacks)
      BY DEF TypeOK
    <3> QED
      BY <1>7, <3>1, SeqFacts DEF AddCallback
  <2>2. /\ m_running' \in BOOLEAN
        /\ pc' \in [Readers -> {"idle", "loop", "wait", "found", "loan", "emit"}]
    BY <1>7 DEF AddCallback, TypeOK, Readers
  <2> QED
    BY <1>7, <2>1, <2>2 DEF AddCallback, TypeOK
<1>8. ASSUME NEW p \in Pollers, ReadCallbacks(p) PROVE TypeOK'
  <2>1. p \in Readers /\ ReadQueue(p)
    BY <1>8 DEF ReadCallbacks, Readers
  <2> QED
    BY <1>8, <2>1, ReadQueueType DEF ReadCallbacks, TypeOK
<1>9. CASE Loop
  BY ZenonT(60), <1>9 DEF Loop, TypeOK
<1>10. CASE Wait
  BY ZenonT(60), <1>10 DEF Wait, TypeOK
<1>11. CASE Listen
  <2>1. CASE exists
    <3>1. Listener \in Readers /\ ReadQueue(Listener)
      BY <1>11, <2>1 DEF Listen, Readers
    <3> QED
      BY ZenonT(60), <1>11, <3>1, ReadQueueType DEF Listen, TypeOK
  <2>2. CASE ~exists
    BY <1>11, <2>2 DEF Listen, TypeOK
  <2> QED
    BY <2>1, <2>2
<1>12. ASSUME NEW r \in Readers, NEW k \in Keys, Emit(r, k) PROVE TypeOK'
  <2>1. /\ batch' \in [Readers -> [Keys -> Seq(1..MaxSamples)]]
        /\ events' \in Seq(Job) /\ called' \in [Callbacks -> Seq(Call)]
    BY <1>12, EmitType
  <2>2. UNCHANGED <<readerVars, exists, emitterVars, pc, inMap, dispatcher, running,
                    main, owed, left, mixed>>
    BY <1>12 DEF Emit
  <2> QED
    BY <2>1, <2>2 DEF TypeOK
<1>13. ASSUME NEW r \in Readers, EmitEnd(r) PROVE TypeOK'
  BY <1>13 DEF EmitEnd, TypeOK
<1>14. ASSUME NEW w \in Workers, Fetch(w) PROVE TypeOK'
  <2>1. events \in Seq(Job) /\ events # <<>>
    BY <1>14 DEF Fetch, TypeOK
  <2>2. Head(events) \in Job /\ Tail(events) \in Seq(Job)
    BY <2>1, SeqFacts
  <2> HIDE DEF Job
  <2>3. running' \in [Workers -> Job \cup {NoJob}]
    BY <1>14, <2>2 DEF Fetch, TypeOK
  <2> QED
    BY <1>14, <2>2, <2>3 DEF Fetch, TypeOK
<1>15. ASSUME NEW w \in Workers, HandleEvent(w) PROVE TypeOK'
  <2>1. running[w] \in Job /\ running[w] # NoJob
    BY <1>15 DEF HandleEvent, TypeOK
  <2>2. PICK job \in Job : job = running[w]
    BY <2>1
  <2>3. job.to \in Callbacks /\ [key |-> job.key, sample |-> job.sample] \in Call
    BY DEF Job, Call
  <2>4. called' = [called EXCEPT ![job.to] =
                     Append(@, [key |-> job.key, sample |-> job.sample])]
    BY <1>15, <2>2 DEF HandleEvent
  <2>5. called \in [Callbacks -> Seq(Call)] /\ called[job.to] \in Seq(Call)
    BY <2>3 DEF TypeOK
  <2>6. Append(called[job.to], [key |-> job.key, sample |-> job.sample]) \in Seq(Call)
    BY <2>3, <2>5, SeqFacts
  <2>7. called' \in [Callbacks -> Seq(Call)]
    BY <2>4, <2>5, <2>6
  <2> QED
    BY <1>15, <2>7 DEF HandleEvent, TypeOK
<1>16. CASE UnregisterTopic
  BY <1>16 DEF UnregisterTopic, TypeOK
<1>17. CASE DeleteReader
  BY <1>17 DEF DeleteReader, TypeOK
<1>18. CASE Stop
  BY <1>18 DEF Stop, TypeOK
<1>19. CASE Join
  BY <1>19 DEF Join, TypeOK
<1>20. CASE CloseDispatcher
  BY <1>20 DEF CloseDispatcher, TypeOK
<1>21. CASE ResetDispatcher
  BY <1>21 DEF ResetDispatcher, TypeOK
<1>22. CASE UNCHANGED vars
  BY <1>22 DEF vars, TypeOK
<1> QED
  BY <1>1, <1>2, <1>3, <1>4, <1>5, <1>6, <1>7, <1>8, <1>9, <1>10, <1>11, <1>12,
     <1>13, <1>14, <1>15, <1>16, <1>17, <1>18, <1>19, <1>20, <1>21, <1>22
  DEF Next, Write, Listening, EmitAll, Own, Finish, Poll, Pool, Destroyed, Readers

\* The types of the reader's samples, of the batches, of the pool's events and of
\* the callbacks' calls.
THEOREM TypeCorrect == Spec => []TypeOK
<1> QED
  BY InitType, TypeStep, PTL DEF Spec

-----------------------------------------------------------------------------
(* Wake-ups.                                                               *)

\* The reader outlives the registration, and what is there to take has set the
\* status or was left by a poller.
WakeInv ==
    /\ main \in {"live", "deleting"} => exists
    /\ (exists /\ Available # {}) => dataAvailable \/ left

\* A take of one sample resets the status: it says so if anything is left.
LEMMA TakeSampleWakes ==
    ASSUME TypeOK, NEW p, NEW k \in Keys, TakeSample(p, k), Available' # {}
    PROVE  left'
<1>1. PICK other \in Available' : TRUE
  OBVIOUS
<1>2. other \in alive /\ other \in Keys /\ cache'[other] # <<>>
  BY <1>1 DEF Available, TakeSample, TypeOK
<1>3. cache \in [Keys -> Seq(Samples)] /\ cache' = [cache EXCEPT ![k] = Tail(cache[k])]
  BY SampleTypes DEF TakeSample
<1>4. CASE other = k
  <2>1. cache[k] \in Seq(Samples) /\ Tail(cache[k]) # <<>> /\ cache[k] # <<>>
    BY <1>2, <1>3, <1>4 DEF TakeSample, Available
  <2>2. Len(cache[k]) > 1
    BY <2>1
  <2> QED
    BY <2>2 DEF TakeSample
<1>5. CASE other # k
  <2>1. cache[other] # <<>>
    BY <1>2, <1>3, <1>5
  <2>2. other \in Available
    BY <1>2, <2>1 DEF Available
  <2> QED
    BY <1>5, <2>2 DEF TakeSample
<1> QED
  BY <1>4, <1>5

\* After all samples of all instances that are alive, nothing is left.
LEMMA TakeOfEmpties ==
    ASSUME TypeOK, TakeOf(Available), UNCHANGED alive
    PROVE  Available' = {}
  BY DEF TakeOf, Available, TypeOK

LEMMA WakeStep == TypeOK /\ WakeInv /\ [Next]_vars => WakeInv'
<1> SUFFICES ASSUME TypeOK, WakeInv, [Next]_vars PROVE WakeInv'
  OBVIOUS
<1> USE DEF readerVars, emitterVars, poolVars, history
<1>1. ASSUME NEW k \in Keys, WriteSample(k) \/ DisposeSample(k) PROVE WakeInv'
  BY <1>1 DEF WriteSample, DisposeSample, Arrive, WakeInv
<1>2. ASSUME NEW p \in Pollers, NEW k \in Keys, TakeSample(p, k) PROVE WakeInv'
  BY <1>2, TakeSampleWakes DEF TakeSample, WakeInv
<1>3. ASSUME NEW p \in Pollers, NEW keys \in SUBSET Keys, NEW readOnly \in BOOLEAN,
             TakeAllSamples(p, keys, readOnly)
      PROVE  WakeInv'
  <2>1. CASE readOnly
    BY <1>3, <2>1 DEF TakeAllSamples, WakeInv
  <2>2. CASE ~readOnly /\ keys = Available
    <3>1. Available' = {}
      BY <1>3, <2>2, TakeOfEmpties DEF TakeAllSamples
    <3> QED
      BY <1>3, <3>1 DEF TakeAllSamples, WakeInv
  <2>3. CASE ~readOnly /\ keys # Available
    BY <1>3, <2>3 DEF TakeAllSamples, WakeInv
  <2> QED
    BY <2>1, <2>2, <2>3
<1>4. ASSUME NEW p \in Pollers, TakeNothing(p) PROVE WakeInv'
  BY <1>4 DEF TakeNothing, WakeInv, Available
<1>5. ASSUME NEW p \in Pollers, ReadCallbacks(p) PROVE WakeInv'
  <2>1. Available' = {}
    BY <1>5, TakeOfEmpties DEF ReadCallbacks, ReadQueue
  <2> QED
    BY <1>5, <2>1 DEF ReadCallbacks, WakeInv
<1>6. CASE Listen
  <2>1. CASE exists
    <3>1. Available' = {}
      BY <1>6, <2>1, TakeOfEmpties DEF Listen, ReadQueue
    <3> QED
      BY <1>6, <3>1 DEF Listen, WakeInv
  <2>2. CASE ~exists
    BY <1>6, <2>2 DEF Listen, WakeInv, Available
  <2> QED
    BY <2>1, <2>2
<1>7. CASE DeleteReader
  BY <1>7 DEF DeleteReader, WakeInv, Available
<1>8. CASE CloseDispatcher
  BY <1>8 DEF CloseDispatcher, WakeInv
<1>9. ASSUME UNCHANGED <<readerVars, exists, left>>,
             main' \in {"live", "deleting"} => main \in {"live", "deleting"}
      PROVE  WakeInv'
  BY <1>9 DEF WakeInv, Available
<1>10. ASSUME NEW p \in Pollers, GetReader(p) \/ ReturnLoan(p) PROVE WakeInv'
  BY <1>9, <1>10 DEF GetReader, ReturnLoan
<1>11. ASSUME NEW c \in Callbacks, NEW queueMessages \in BOOLEAN,
              NEW asyncHandling \in BOOLEAN,
              AddCallback(c, queueMessages, asyncHandling)
       PROVE  WakeInv'
  BY <1>9, <1>11 DEF AddCallback
<1>12. CASE Loop \/ Wait
  BY <1>9, <1>12 DEF Loop, Wait
<1>13. ASSUME NEW r \in Readers, EmitAll(r) PROVE WakeInv'
  BY <1>9, <1>13 DEF EmitAll, Emit, EmitEnd
<1>14. ASSUME NEW w \in Workers, Pool(w) PROVE WakeInv'
  BY <1>9, <1>14 DEF Pool, Fetch, HandleEvent
<1>15. CASE UnregisterTopic \/ Stop \/ Join \/ ResetDispatcher
  BY <1>9, <1>15 DEF UnregisterTopic, Stop, Join, ResetDispatcher
<1>16. CASE UNCHANGED vars
  BY <1>9, <1>16 DEF vars
<1> QED
  BY <1>1, <1>2, <1>3, <1>4, <1>5, <1>6, <1>7, <1>8, <1>10, <1>11, <1>12, <1>13,
     <1>14, <1>15, <1>16
  DEF Next, Write, Listening, Own, Finish, Poll, Destroyed, Readers

\* A listener never sleeps on samples it could take, unless a poller left them:
\* every read or take that resets DATA_AVAILABLE leaves nothing or says so.
THEOREM NoSleepOnSamples == Spec => []NoLostWakeup
<1>1. Init => WakeInv
  BY DEF Init, WakeInv, Available
<1>2. WakeInv => NoLostWakeup
  BY DEF WakeInv, NoLostWakeup
<1> QED
  BY <1>1, <1>2, TypeCorrect, WakeStep, PTL DEF Spec

-----------------------------------------------------------------------------
(* The end of the topic's threads, and of the pool.                        *)

\* The owner leaves one kind of thread behind with each phase: from the
\* unregistration on no readCallbacks, from the join on no listener, and from
\* the dispatcher's end on no job.
EndInv ==
    /\ main # "live" => \A p \in Pollers : pc[p] # "emit"
    /\ main \in {"unregistered", "closing", "destroyed"} => pc[Listener] = "idle"
    /\ main = "destroyed" =>
          events = <<>> /\ \A w \in Workers : running[w] = NoJob

LEMMA EndStep == TypeOK /\ EndInv /\ [Next]_vars => EndInv'
<1> SUFFICES ASSUME TypeOK, EndInv, [Next]_vars PROVE EndInv'
  OBVIOUS
<1> USE DEF readerVars, emitterVars, poolVars, history
<1>0. Listener \notin Pollers /\ Listener \in Readers /\ Pollers \subseteq Readers
      /\ pc \in [Readers -> {"idle", "loop", "wait", "found", "loan", "emit"}]
  BY FlowAssumption DEF Readers, TypeOK
\* A poller moves on, to emit only if the topic lives.
<1>1. ASSUME NEW p \in Pollers, NEW to, pc' = [pc EXCEPT ![p] = to],
             to = "emit" => main = "live", UNCHANGED <<main, events, running>>
      PROVE  EndInv'
  BY <1>0, <1>1 DEF EndInv
\* The listener moves on: it was not idle.
<1>2. ASSUME NEW to, pc' = [pc EXCEPT ![Listener] = to], pc[Listener] # "idle",
             UNCHANGED <<main, events, running>>
      PROVE  EndInv'
  BY <1>0, <1>2 DEF EndInv
<1>3. ASSUME UNCHANGED <<pc, main, events, running>> PROVE EndInv'
  BY <1>3 DEF EndInv
<1>4. CASE Write
  BY <1>3, <1>4 DEF Write, WriteSample, DisposeSample, Arrive
<1>5. ASSUME NEW p \in Pollers, Poll(p) PROVE EndInv'
  BY <1>1, <1>5 DEF Poll, GetReader, ReadCallbacks, ReadQueue, TakeSample,
     TakeAllSamples, TakeNothing, ReturnLoan
<1>6. ASSUME NEW r \in Readers, NEW k \in Keys, Emit(r, k) PROVE EndInv'
  <2>1. main # "destroyed"
    BY <1>0, <1>6 DEF Emit, EndInv, Readers
  <2> QED
    BY <1>6, <2>1 DEF Emit, EndInv
<1>7. ASSUME NEW r \in Readers, EmitEnd(r) PROVE EndInv'
  <2>1. CASE r = Listener
    BY <1>2, <1>7, <2>1 DEF EmitEnd
  <2>2. CASE r # Listener
    BY <1>1, <1>7, <2>2 DEF EmitEnd, Readers
  <2> QED
    BY <2>1, <2>2
<1>8. CASE Loop \/ Wait \/ Listen
  BY <1>2, <1>8 DEF Loop, Wait, Listen, ReadQueue
<1>9. ASSUME NEW c \in Callbacks, NEW queueMessages \in BOOLEAN,
             NEW asyncHandling \in BOOLEAN,
             AddCallback(c, queueMessages, asyncHandling)
      PROVE  EndInv'
  BY <1>0, <1>9 DEF AddCallback, EndInv
<1>10. ASSUME NEW w \in Workers, Pool(w) PROVE EndInv'
  <2>1. main # "destroyed"
    BY <1>10 DEF Pool, Fetch, HandleEvent, EndInv
  <2> QED
    BY <1>10, <2>1 DEF Pool, Fetch, HandleEvent, EndInv
<1>11. CASE UnregisterTopic
  BY <1>0, <1>11 DEF UnregisterTopic, Emitting, EndInv
<1>12. CASE DeleteReader \/ Stop \/ Join
  BY <1>12 DEF DeleteReader, Stop, Join, EndInv
<1>13. CASE CloseDispatcher \/ ResetDispatcher
  BY <1>13 DEF CloseDispatcher, ResetDispatcher, EndInv
<1>14. CASE UNCHANGED vars
  BY <1>3, <1>14 DEF vars
<1> QED
  BY <1>0, <1>4, <1>5, <1>6, <1>7, <1>8, <1>9, <1>10, <1>11, <1>12, <1>13, <1>14
  DEF Next, Listening, EmitAll, Own, Finish, Destroyed

\* After unregisterTopic no thread of the topic calls back, after ~DDSManager
\* nothing does, however many threads and jobs there were.
THEOREM QuietEnd == Spec => []QuietAfterwards
<1>1. Init => EndInv
  BY DEF Init, EndInv, Readers
<1>2. TypeOK /\ EndInv => QuietAfterwards
  BY DEF EndInv, QuietAfterwards, Emitting, Readers
<1> QED
  BY <1>1, <1>2, TypeCorrect, EndStep, PTL DEF Spec

-----------------------------------------------------------------------------
(* Nothing is lost.                                                        *)

\* x is an element of s.
Has(s, x) == \E i \in 1..Len(s) : s[i] = x

\* Append adds its element to the others.
LEMMA HasAppend ==
    ASSUME NEW S, NEW s \in Seq(S), NEW y \in S, NEW x
    PROVE  Has(Append(s, y), x) <=> Has(s, x) \/ x = y
<1>1. Len(Append(s, y)) = Len(s) + 1 /\ Append(s, y)[Len(s) + 1] = y
      /\ \A i \in 1..Len(s) : Append(s, y)[i] = s[i]
  OBVIOUS
<1>2. 1..(Len(s) + 1) = 1..Len(s) \cup {Len(s) + 1}
  OBVIOUS
<1> QED
  BY <1>1, <1>2 DEF Has

\* What the operators on sequences do to their elements.
LEMMA HasFacts ==
    ASSUME NEW S, NEW x
    PROVE  /\ ~Has(<<>>, x)
           /\ \A s \in Seq(S), y \in S : Has(Append(s, y), x) <=> Has(s, x) \/ x = y
           /\ \A s, t \in Seq(S) : Has(s \o t, x) <=> Has(s, x) \/ Has(t, x)
           /\ \A s \in Seq(S) : s # <<>> =>
                 (Has(s, x) <=> x = Head(s) \/ Has(Tail(s), x))
<1>1. ~Has(<<>>, x)
  BY DEF Has
<1>2. ASSUME NEW s \in Seq(S), NEW y \in S
      PROVE  Has(Append(s, y), x) <=> Has(s, x) \/ x = y
  BY HasAppend
<1>3. ASSUME NEW s \in Seq(S), NEW t \in Seq(S)
      PROVE  Has(s \o t, x) <=> Has(s, x) \/ Has(t, x)
  <2>1. Len(s \o t) = Len(s) + Len(t) /\ Len(s) \in Nat /\ Len(t) \in Nat
        /\ \A i \in 1..Len(s) : (s \o t)[i] = s[i]
        /\ \A j \in 1..Len(t) : (s \o t)[Len(s) + j] = t[j]
    OBVIOUS
  <2>2. ASSUME Has(s \o t, x) PROVE Has(s, x) \/ Has(t, x)
    <3>1. PICK i \in 1..(Len(s) + Len(t)) : (s \o t)[i] = x
      BY <2>1, <2>2 DEF Has
    <3>2. CASE i <= Len(s)
      BY <2>1, <3>1, <3>2 DEF Has
    <3>3. CASE i > Len(s)
      <4>1. i - Len(s) \in 1..Len(t) /\ i = Len(s) + (i - Len(s))
        BY <2>1, <3>3
      <4>2. t[i - Len(s)] = x
        BY <2>1, <3>1, <4>1
      <4> QED
        BY <4>1, <4>2 DEF Has
    <3> QED
      BY <2>1, <3>2, <3>3
  <2>3. ASSUME Has(s, x) PROVE Has(s \o t, x)
    <3>1. PICK i \in 1..Len(s) : s[i] = x
      BY <2>3 DEF Has
    <3>2. i \in 1..(Len(s) + Len(t))
      BY <2>1
    <3> QED
      BY <2>1, <3>1, <3>2 DEF Has
  <2>4. ASSUME Has(t, x) PROVE Has(s \o t, x)
    <3>1. PICK i \in 1..Len(t) : t[i] = x
      BY <2>4 DEF Has
    <3>2. Len(s) + i \in 1..(Len(s) + Len(t))
      BY <2>1
    <3> QED
      BY <2>1, <3>1, <3>2 DEF Has
  <2> QED
    BY <2>2, <2>3, <2>4
<1>4. ASSUME NEW s \in Seq(S), s # <<>>
      PROVE  Has(s, x) <=> x = Head(s) \/ Has(Tail(s), x)
  <2>1. Head(s) = s[1] /\ Len(s) \in Nat \ {0} /\ Len(Tail(s)) = Len(s) - 1
        /\ \A i \in 1..(Len(s) - 1) : Tail(s)[i] = s[i + 1]
    BY <1>4
  <2>2. ASSUME Has(s, x), x # Head(s) PROVE Has(Tail(s), x)
    <3>1. PICK i \in 1..Len(s) : s[i] = x
      BY <2>2 DEF Has
    <3>2. i - 1 \in 1..(Len(s) - 1) /\ (i - 1) + 1 = i
      BY <2>1, <2>2, <3>1
    <3>3. Tail(s)[i - 1] = x
      BY <2>1, <3>1, <3>2
    <3> QED
      BY <2>1, <3>2, <3>3 DEF Has
  <2>3. ASSUME x = Head(s) PROVE Has(s, x)
    <3>1. 1 \in 1..Len(s)
      BY <2>1
    <3> QED
      BY <2>1, <2>3, <3>1 DEF Has
  <2>4. ASSUME Has(Tail(s), x) PROVE Has(s, x)
    <3>1. PICK i \in 1..(Len(s) - 1) : Tail(s)[i] = x
      BY <2>1, <2>4 DEF Has
    <3>2. i + 1 \in 1..Len(s)
      BY <2>1
    <3> QED
      BY <2>1, <3>1, <3>2 DEF Has
  <2> QED
    BY <2>2, <2>3, <2>4
<1> QED
  BY <1>1, <1>2, <1>3, <1>4

\* One of them, for one sequence.
LEMMA HasTail ==
    ASSUME NEW S, NEW s \in Seq(S), s # <<>>, NEW x
    PROVE  Has(s, x) <=> x = Head(s) \/ Has(Tail(s), x)
  BY HasFacts

\* Where a call that callback c is owed can be.
JobFor(c, call) == [to |-> c, key |-> call.key, sample |-> call.sample]
InBatch(c, call) ==
    Has(m_callbacks, c) /\ \E r \in Readers : Has(batch[r][call.key], call.sample)
Queued(c, call) == Has(events, JobFor(c, call))
Working(c, call) == \E w \in Workers : running[w] = JobFor(c, call)
Done(c, call) == Has(called[c], call)

\* NothingLost, call by call.
Accounted ==
    \A c \in Callbacks, call \in Call :
        call \in owed[c] <=>
            InBatch(c, call) \/ Queued(c, call) \/ Working(c, call) \/ Done(c, call)

LossInv ==
    /\ Accounted
    /\ \A r \in Readers : pc[r] # "emit" => batch[r] = Nothing
    /\ dispatcher = "up" \/ main \in {"closing", "destroyed"}

\* A call is an instance and a sample of it, a job a call for somebody.
LEMMA CallParts ==
    /\ \A call \in Call : /\ call.key \in Keys /\ call.sample \in Samples
                          /\ call = [key |-> call.key, sample |-> call.sample]
    /\ \A k \in Keys, n \in Samples : [key |-> k, sample |-> n] \in Call
    /\ \A job \in Job :
          /\ job.to \in Callbacks /\ [key |-> job.key, sample |-> job.sample] \in Call
          /\ job = JobFor(job.to, [key |-> job.key, sample |-> job.sample])
<1>1. /\ Call = [key : Keys, sample : Samples]
      /\ Job = [to : Callbacks, key : Keys, sample : Samples]
  BY DEF Call, Job, Samples
<1> QED
  BY <1>1 DEF JobFor

\* readQueue owes the samples it takes to every callback there is.
LEMMA ReadQueueOwes ==
    ASSUME NEW r \in Readers, ReadQueue(r), NEW c \in Callbacks, NEW call \in Call
    PROVE  call \in owed'[c] <=>
              call \in owed[c] \/ (Has(m_callbacks, c) /\ Has(Taken[call.key], call.sample))
<1> DEFINE of(k) == {[key |-> k, sample |-> Taken[k][i]] : i \in 1..Len(Taken[k])}
<1>1. call.key \in Keys /\ call = [key |-> call.key, sample |-> call.sample]
  BY DEF Call
<1>2. call \in UNION {of(k) : k \in Keys} <=> Has(Taken[call.key], call.sample)
  <2>1. ASSUME NEW k \in Keys, call \in of(k) PROVE Has(Taken[call.key], call.sample)
    BY <2>1 DEF Has
  <2>2. ASSUME Has(Taken[call.key], call.sample) PROVE call \in of(call.key)
    BY <1>1, <2>2 DEF Has
  <2> HIDE DEF of
  <2> QED
    BY <1>1, <2>1, <2>2
<1>3. owed'[c] = IF Has(m_callbacks, c) THEN owed[c] \cup UNION {of(k) : k \in Keys}
                 ELSE owed[c]
  BY DEF ReadQueue, OwedFor, Has, Taken
<1> HIDE DEF of
<1> QED
  BY <1>2, <1>3

\* Another reader's batch, or an empty one, owes nobody anything more.
LEMMA ReadQueueLoss ==
    ASSUME TypeOK, LossInv, NEW r \in Readers, pc[r] # "emit", ReadQueue(r),
           UNCHANGED <<m_callbacks, events, running, called, dispatcher, main>>
    PROVE  LossInv'
<1>1. /\ batch' = [batch EXCEPT ![r] = Taken] /\ owed' = OwedFor(Taken)
      /\ batch[r] = Nothing /\ pc' = [pc EXCEPT ![r] = "emit"]
      /\ batch \in [Readers -> [Keys -> Seq(Samples)]]
  BY SampleTypes DEF ReadQueue, Taken, LossInv
<1>2. \A s \in Readers : pc'[s] # "emit" => batch'[s] = Nothing
  BY <1>1 DEF TypeOK, LossInv
<1>3. ASSUME NEW c \in Callbacks, NEW call \in Call
      PROVE  (call \in owed[c] <=>
                InBatch(c, call) \/ Queued(c, call) \/ Working(c, call) \/ Done(c, call))'
  <2>1. call.key \in Keys /\ call = [key |-> call.key, sample |-> call.sample]
    BY DEF Call
  <2>2. InBatch(c, call)' <=>
           InBatch(c, call) \/ (Has(m_callbacks, c) /\ Has(Taken[call.key], call.sample))
    <3>1. batch'[r][call.key] = Taken[call.key]
      BY <1>1, <2>1
    <3>2. ~Has(batch[r][call.key], call.sample)
      BY <1>1, <2>1, HasFacts DEF Nothing
    <3>3. \A s \in Readers : s # r => batch'[s][call.key] = batch[s][call.key]
      BY <1>1
    <3> QED
      BY <3>1, <3>2, <3>3 DEF InBatch
  <2>3. call \in owed'[c] <=>
           call \in owed[c] \/ (Has(m_callbacks, c) /\ Has(Taken[call.key], call.sample))
    BY ReadQueueOwes
  <2>4. /\ (Queued(c, call) <=> Queued(c, call)') /\ (Working(c, call) <=> Working(c, call)')
        /\ (Done(c, call) <=> Done(c, call)')
    BY DEF Queued, Working, Done
  <2>5. call \in owed[c] <=>
           InBatch(c, call) \/ Queued(c, call) \/ Working(c, call) \/ Done(c, call)
    BY DEF LossInv, Accounted
  <2> QED
    BY <2>2, <2>3, <2>4, <2>5
<1> QED
  BY <1>2, <1>3 DEF LossInv, Accounted, Call

\* The jobs for a sample are the calls of it, one for each callback.
LEMMA HasJobsOf ==
    ASSUME TypeOK, NEW r \in Readers, NEW k \in Keys, batch[r][k] # <<>>
    PROVE  \A c \in Callbacks, call \in Call :
              Has(JobsOf(r, k), JobFor(c, call)) <=>
                  Has(m_callbacks, c) /\ call = CallOf(r, k)
<1> DEFINE first == Head(batch[r][k])
<1>0. batch[r][k] \in Seq(Samples) /\ first \in Samples
  BY SampleTypes, SeqFacts
<1>1. Len(JobsOf(r, k)) = Len(m_callbacks)
  <2>1. m_callbacks \in Seq(Callbacks)
    BY DEF TypeOK
  <2>2. Len(m_callbacks) \in Nat
    BY <2>1, SeqFacts
  <2> QED
    BY <2>2 DEF JobsOf
<1>2. \A i \in 1..Len(m_callbacks) :
         JobsOf(r, k)[i] = [to |-> m_callbacks[i], key |-> k, sample |-> first]
  BY DEF JobsOf
<1>3. \A call \in Call : call = CallOf(r, k) <=> call.key = k /\ call.sample = first
  BY DEF Call, CallOf
<1>4. \A i \in 1..Len(m_callbacks), c \in Callbacks, call \in Call :
         JobsOf(r, k)[i] = JobFor(c, call) <=> m_callbacks[i] = c /\ call = CallOf(r, k)
  <2> HIDE DEF first
  <2> SUFFICES ASSUME NEW i \in 1..Len(m_callbacks), NEW c \in Callbacks, NEW call \in Call
               PROVE  JobsOf(r, k)[i] = JobFor(c, call) <=>
                          m_callbacks[i] = c /\ call = CallOf(r, k)
    OBVIOUS
  <2>1. JobsOf(r, k)[i] = [to |-> m_callbacks[i], key |-> k, sample |-> first]
    BY <1>2
  <2>2. call = CallOf(r, k) <=> call.key = k /\ call.sample = first
    BY <1>3
  <2> QED
    BY <2>1, <2>2 DEF JobFor
<1> QED
  BY <1>1, <1>4 DEF Has

\* emitMessage moves a sample's calls, from the batch to the callbacks or to the
\* queue, which takes them: no thread emits when the dispatcher closes.
LEMMA EmitLoss ==
    ASSUME TypeOK, EndInv, LossInv, NEW r \in Readers, NEW k \in Keys, Emit(r, k)
    PROVE  LossInv'
<1>1. dispatcher = "up"
  BY FlowAssumption DEF EndInv, LossInv, Emit, Readers
<1> DEFINE first == Head(batch[r][k])
           rest == Tail(batch[r][k])
<1>2. /\ batch[r][k] \in Seq(Samples) /\ batch[r][k] # <<>>
      /\ first \in Samples /\ rest \in Seq(Samples)
  BY SampleTypes, SeqFacts DEF Emit
<1>3. batch' = [batch EXCEPT ![r] = [batch[r] EXCEPT ![k] = rest]]
  BY DEF Emit
<1>4. CallOf(r, k) \in Call /\ CallOf(r, k) = [key |-> k, sample |-> first]
  BY <1>2, SampleTypes DEF CallOf
<1>5. \A c \in Callbacks, call \in Call :
         Has(JobsOf(r, k), JobFor(c, call)) <=> Has(m_callbacks, c) /\ call = CallOf(r, k)
  BY <1>2, HasJobsOf
<1>6. ASSUME NEW c \in Callbacks, NEW call \in Call
      PROVE  (call \in owed[c] <=>
                InBatch(c, call) \/ Queued(c, call) \/ Working(c, call) \/ Done(c, call))'
  <2>1. call.key \in Keys /\ call = [key |-> call.key, sample |-> call.sample]
    BY DEF Call
  <2>2. InBatch(c, call) <=>
           InBatch(c, call)' \/ (Has(m_callbacks, c) /\ call = CallOf(r, k))
    <3>1. \A s \in Readers : s # r => batch'[s][call.key] = batch[s][call.key]
      BY <1>3, SampleTypes
    <3>2. CASE call.key = k
      <4>1. batch'[r][call.key] = rest
        BY <1>3, <3>2, SampleTypes
      <4>2. Has(batch[r][call.key], call.sample) <=> call.sample = first \/ Has(rest, call.sample)
        BY <1>2, <3>2, HasTail
      <4>3. call = CallOf(r, k) <=> call.sample = first
        BY <1>4, <2>1, <3>2
      <4> HIDE DEF first, rest
      <4> QED
        BY <1>3, <3>1, <4>1, <4>2, <4>3 DEF InBatch, Emit, emitterVars
    <3>3. CASE call.key # k
      <4>1. batch'[r][call.key] = batch[r][call.key]
        BY <1>3, <2>1, <3>3, SampleTypes
      <4>2. call # CallOf(r, k)
        BY <1>4, <3>3
      <4> QED
        BY <3>1, <4>1, <4>2 DEF InBatch, Emit, emitterVars
    <3> QED
      BY <3>2, <3>3
  <2>3. (Queued(c, call)' \/ Done(c, call)') <=>
           Queued(c, call) \/ Done(c, call) \/ (Has(m_callbacks, c) /\ call = CallOf(r, k))
    <3>1. CASE m_asyncEmitter
      <4>1. events' = events \o JobsOf(r, k) /\ called' = called
        BY <1>1, <3>1 DEF Emit, JobsOf
      <4>2. events \in Seq(Job) /\ JobsOf(r, k) \in Seq(Job)
        BY JobsType DEF TypeOK, Emit
      <4>3. Has(events \o JobsOf(r, k), JobFor(c, call)) <=>
               Has(events, JobFor(c, call)) \/ Has(JobsOf(r, k), JobFor(c, call))
        BY <4>2, HasFacts
      <4> QED
        BY <1>5, <4>1, <4>3 DEF Queued, Done
    <3>2. CASE ~m_asyncEmitter
      <4>1. /\ events' = events
            /\ called' = [d \in Callbacks |->
                    IF Has(m_callbacks, d)
                    THEN Append(called[d], CallOf(r, k)) ELSE called[d]]
        BY <3>2 DEF Emit, CallOf, Has
      <4>2. called[c] \in Seq(Call)
        BY DEF TypeOK
      <4>3. Has(Append(called[c], CallOf(r, k)), call) <=>
               Has(called[c], call) \/ call = CallOf(r, k)
        BY <1>4, <4>2, HasFacts
      <4> QED
        BY <4>1, <4>3 DEF Queued, Done
    <3> QED
      BY <3>1, <3>2
  <2>4. (Working(c, call) <=> Working(c, call)') /\ owed' = owed
    BY DEF Working, Emit
  <2>5. call \in owed[c] <=>
           InBatch(c, call) \/ Queued(c, call) \/ Working(c, call) \/ Done(c, call)
    BY DEF LossInv, Accounted
  <2> QED
    BY <2>2, <2>3, <2>4, <2>5
<1>7. \A s \in Readers : pc'[s] # "emit" => batch'[s] = Nothing
  BY <1>3, SampleTypes DEF LossInv, Emit
<1> QED
  BY <1>1, <1>6, <1>7 DEF LossInv, Accounted, Call, Emit

\* A worker takes the oldest job, and nothing else.
LEMMA FetchLoss ==
    ASSUME TypeOK, LossInv, NEW w \in Workers, Fetch(w)
    PROVE  LossInv'
<1>1. events \in Seq(Job) /\ events # <<>> /\ running[w] = NoJob
      /\ running \in [Workers -> Job \cup {NoJob}]
  BY DEF Fetch, TypeOK
<1>2. events' = Tail(events) /\ running' = [running EXCEPT ![w] = Head(events)]
  BY DEF Fetch
<1>3. ASSUME NEW c \in Callbacks, NEW call \in Call
      PROVE  (call \in owed[c] <=>
                InBatch(c, call) \/ Queued(c, call) \/ Working(c, call) \/ Done(c, call))'
  <2>1. JobFor(c, call) # NoJob
    BY FlowAssumption DEF JobFor, Call
  <2>2. Queued(c, call) <=> JobFor(c, call) = Head(events) \/ Queued(c, call)'
    BY <1>1, <1>2, HasFacts DEF Queued
  <2>3. Working(c, call)' <=> JobFor(c, call) = Head(events) \/ Working(c, call)
    BY <1>1, <1>2, <2>1 DEF Working
  <2>4. (InBatch(c, call) <=> InBatch(c, call)') /\ (Done(c, call) <=> Done(c, call)')
        /\ owed' = owed
    BY DEF InBatch, Done, Fetch, emitterVars, history
  <2>5. call \in owed[c] <=>
           InBatch(c, call) \/ Queued(c, call) \/ Working(c, call) \/ Done(c, call)
    BY DEF LossInv, Accounted
  <2> QED
    BY <2>2, <2>3, <2>4, <2>5
<1> QED
  BY <1>3 DEF LossInv, Accounted, Call, Fetch

\* It makes that call.
LEMMA HandleEventLoss ==
    ASSUME TypeOK, LossInv, NEW w \in Workers, HandleEvent(w)
    PROVE  LossInv'
<1>1. running[w] \in Job /\ running \in [Workers -> Job \cup {NoJob}]
  BY DEF HandleEvent, TypeOK
<1>2. PICK job \in Job : job = running[w]
  BY <1>1
<1> DEFINE made == [key |-> job.key, sample |-> job.sample]
<1>3. job.to \in Callbacks /\ made \in Call
  BY DEF Job, Call
<1>4. /\ running' = [running EXCEPT ![w] = NoJob]
      /\ called' = [called EXCEPT ![job.to] = Append(called[job.to], made)]
  BY <1>2 DEF HandleEvent
<1>5. ASSUME NEW c \in Callbacks, NEW call \in Call
      PROVE  (call \in owed[c] <=>
                InBatch(c, call) \/ Queued(c, call) \/ Working(c, call) \/ Done(c, call))'
  <2>1. JobFor(c, call) # NoJob
    BY FlowAssumption DEF JobFor, Call
  <2>2. job = JobFor(c, call) <=> job.to = c /\ made = call
    BY DEF JobFor, Call, Job
  <2>3. Working(c, call) <=> job = JobFor(c, call) \/ Working(c, call)'
    BY <1>1, <1>2, <1>4, <2>1 DEF Working
  <2>4. Done(c, call)' <=> Done(c, call) \/ job = JobFor(c, call)
    <3>1. called \in [Callbacks -> Seq(Call)] /\ called[c] \in Seq(Call)
      BY DEF TypeOK
    <3>2. Has(Append(called[c], made), call) <=> Has(called[c], call) \/ call = made
      <4> HIDE DEF made
      <4> QED
        BY <1>3, <3>1, HasAppend
    <3>3. called'[c] = IF c = job.to THEN Append(called[c], made) ELSE called[c]
      BY <1>3, <1>4, <3>1
    <3> HIDE DEF made
    <3> QED
      BY <2>2, <3>2, <3>3 DEF Done
  <2>5. (InBatch(c, call) <=> InBatch(c, call)') /\ (Queued(c, call) <=> Queued(c, call)')
        /\ owed' = owed
    BY DEF InBatch, Queued, HandleEvent, emitterVars
  <2>6. call \in owed[c] <=>
           InBatch(c, call) \/ Queued(c, call) \/ Working(c, call) \/ Done(c, call)
    BY DEF LossInv, Accounted
  <2> QED
    BY <2>3, <2>4, <2>5, <2>6
<1> QED
  BY <1>5 DEF LossInv, Accounted, Call, HandleEvent

LEMMA LossStep == TypeOK /\ EndInv /\ LossInv /\ [Next]_vars => LossInv'
<1> SUFFICES ASSUME TypeOK, EndInv, LossInv, [Next]_vars PROVE LossInv'
  OBVIOUS
<1> USE DEF readerVars, emitterVars, poolVars, history
<1>0. Listener \in Readers /\ Pollers \subseteq Readers
      /\ pc \in [Readers -> {"idle", "loop", "wait", "found", "loan", "emit"}]
  BY DEF Readers, TypeOK
\* A thread moves on that does not emit, or has emitted all.
<1>1. ASSUME NEW r \in Readers, NEW to, pc' = [pc EXCEPT ![r] = to] \/ pc' = pc,
             pc' # pc => pc[r] # "emit" \/ batch[r] = Nothing,
             UNCHANGED <<m_callbacks, batch, events, running, called, owed>>,
             dispatcher' = "up" \/ main' \in {"closing", "destroyed"}
      PROVE  LossInv'
  <2>1. \A s \in Readers : pc'[s] # "emit" => batch'[s] = Nothing
    BY <1>0, <1>1 DEF LossInv
  <2>2. Accounted'
    BY <1>1 DEF LossInv, Accounted, Call, InBatch, Queued, Working, Done
  <2> QED
    BY <1>1, <2>1, <2>2 DEF LossInv
<1>2. dispatcher = "up" \/ main \in {"closing", "destroyed"}
  BY DEF LossInv
<1>3. CASE Write
  BY <1>0, <1>1, <1>2, <1>3 DEF Write, WriteSample, DisposeSample, Arrive
<1>4. ASSUME NEW p \in Pollers, GetReader(p) \/ TakeNothing(p) \/ ReturnLoan(p)
      PROVE  LossInv'
  BY <1>0, <1>1, <1>2, <1>4 DEF GetReader, TakeNothing, ReturnLoan
<1>5. ASSUME NEW p \in Pollers, NEW k \in Keys, TakeSample(p, k) PROVE LossInv'
  BY <1>0, <1>1, <1>2, <1>5 DEF TakeSample
<1>6. ASSUME NEW p \in Pollers, NEW keys \in SUBSET Keys, NEW readOnly \in BOOLEAN,
             TakeAllSamples(p, keys, readOnly)
      PROVE  LossInv'
  BY <1>0, <1>1, <1>2, <1>6 DEF TakeAllSamples
<1>7. ASSUME NEW p \in Pollers, ReadCallbacks(p) PROVE LossInv'
  BY <1>0, <1>7, ReadQueueLoss DEF ReadCallbacks
<1>8. CASE Loop \/ Wait
  BY <1>0, <1>1, <1>2, <1>8 DEF Loop, Wait
<1>9. CASE Listen
  <2>1. CASE exists
    BY <1>0, <1>9, <2>1, ReadQueueLoss DEF Listen
  <2>2. CASE ~exists
    BY <1>0, <1>1, <1>2, <1>9, <2>2 DEF Listen
  <2> QED
    BY <2>1, <2>2
<1>10. ASSUME NEW r \in Readers, NEW k \in Keys, Emit(r, k) PROVE LossInv'
  BY <1>10, EmitLoss
<1>11. ASSUME NEW r \in Readers, EmitEnd(r) PROVE LossInv'
  BY <1>1, <1>2, <1>11 DEF EmitEnd
<1>12. ASSUME NEW c \in Callbacks, NEW queueMessages \in BOOLEAN,
              NEW asyncHandling \in BOOLEAN,
              AddCallback(c, queueMessages, asyncHandling)
       PROVE  LossInv'
  <2>1. \A r \in Readers : batch[r] = Nothing
    BY <1>12 DEF AddCallback, Emitting, LossInv
  <2>2. \A d \in Callbacks, call \in Call : ~InBatch(d, call) /\ ~InBatch(d, call)'
    <3>1. \A call \in Call : Nothing[call.key] = <<>>
      BY DEF Nothing, Call
    <3>2. \A r \in Readers, call \in Call :
             batch[r][call.key] = <<>> /\ batch'[r][call.key] = <<>>
      BY <1>12, <2>1, <3>1 DEF AddCallback
    <3> QED
      BY <3>2, HasFacts DEF InBatch
  <2>3. Accounted'
    BY <1>12, <2>2 DEF LossInv, Accounted, Call, Queued, Working, Done, AddCallback
  <2> QED
    BY <1>12, <1>2, <2>1, <2>3 DEF LossInv, AddCallback
<1>13. ASSUME NEW w \in Workers, Pool(w) PROVE LossInv'
  BY <1>13, FetchLoss, HandleEventLoss DEF Pool
<1>14. CASE UnregisterTopic \/ DeleteReader \/ Stop \/ Join
  BY <1>0, <1>1, <1>2, <1>14 DEF UnregisterTopic, DeleteReader, Stop, Join
<1>15. CASE CloseDispatcher \/ ResetDispatcher
  BY <1>0, <1>1, <1>15 DEF CloseDispatcher, ResetDispatcher
<1>16. CASE UNCHANGED vars
  BY <1>0, <1>1, <1>2, <1>16 DEF vars
<1> QED
  BY <1>0, <1>3, <1>4, <1>5, <1>6, <1>7, <1>8, <1>9, <1>10, <1>11, <1>12, <1>13,
     <1>14, <1>15, <1>16
  DEF Next, Listening, EmitAll, Own, Finish, Poll, Destroyed

\* NothingLost is Accounted: what is owed and what is given are calls.
LEMMA AccountedSuffices == TypeOK /\ Accounted => NothingLost
<1> SUFFICES ASSUME TypeOK, Accounted, NEW c \in Callbacks
             PROVE  owed[c] = UnderWay(c) \cup Got(c)
  BY DEF NothingLost
<1>1. owed[c] \subseteq Call
  BY DEF TypeOK
<1>2. Got(c) = {call \in Call : Done(c, call)}
  <2>1. called[c] \in Seq(Call)
    BY DEF TypeOK
  <2>2. \A i \in 1..Len(called[c]) : called[c][i] \in Call
    BY <2>1, SeqFacts
  <2> QED
    BY <2>2 DEF Got, Done, Has
<1>3. UnderWay(c) = {call \in Call :
                        InBatch(c, call) \/ Queued(c, call) \/ Working(c, call)}
  BY DEF UnderWay, InBatch, Queued, Working, Has, JobFor
<1> QED
  BY <1>1, <1>2, <1>3 DEF Accounted

LEMMA InitLoss == Init => LossInv
<1> SUFFICES ASSUME Init PROVE LossInv
  OBVIOUS
<1>1. ASSUME NEW c \in Callbacks, NEW call \in Call
      PROVE  ~InBatch(c, call) /\ ~Queued(c, call) /\ ~Working(c, call) /\ ~Done(c, call)
  <2>1. JobFor(c, call) # NoJob
    BY FlowAssumption DEF JobFor, Call
  <2> QED
    BY <2>1, HasFacts DEF Init, InBatch, Queued, Working, Done
<1>2. Accounted
  BY <1>1 DEF Accounted, Init
<1> QED
  BY <1>2 DEF Init, LossInv

\* Whatever an emitter took for a callback is on its way or was given to it.
THEOREM NoSampleLost == Spec => []NothingLost
<1>1. Init => EndInv
  BY DEF Init, EndInv, Readers
<1>2. LossInv => Accounted
  BY DEF LossInv
<1> QED
  BY <1>1, <1>2, InitLoss, TypeCorrect, EndStep, LossStep, AccountedSuffices, PTL DEF Spec

-----------------------------------------------------------------------------
(* Nothing is called twice.                                                *)

\* No element of s occurs twice.
Distinct(s) == \A i, j \in 1..Len(s) : s[i] = s[j] => i = j

\* A new element leaves the elements of a sequence distinct.
LEMMA DistinctAppend ==
    ASSUME NEW S, NEW s \in Seq(S), NEW y \in S, Distinct(s), ~Has(s, y)
    PROVE  Distinct(Append(s, y))
<1>1. Len(Append(s, y)) = Len(s) + 1 /\ Append(s, y)[Len(s) + 1] = y
      /\ \A i \in 1..Len(s) : Append(s, y)[i] = s[i]
  OBVIOUS
<1>2. 1..(Len(s) + 1) = 1..Len(s) \cup {Len(s) + 1}
  OBVIOUS
<1> QED
  BY <1>1, <1>2 DEF Has, Distinct

\* Without its head a sequence is distinct, and the head does not occur in it.
LEMMA DistinctTail ==
    ASSUME NEW S, NEW s \in Seq(S), s # <<>>, Distinct(s)
    PROVE  Distinct(Tail(s)) /\ ~Has(Tail(s), Head(s))
<1>1. /\ Head(s) = s[1] /\ Len(s) \in Nat \ {0} /\ Len(Tail(s)) = Len(s) - 1
      /\ \A i \in 1..(Len(s) - 1) : Tail(s)[i] = s[i + 1]
  OBVIOUS
<1>2. \A i \in 1..(Len(s) - 1) : i + 1 \in 1..Len(s) /\ i + 1 # 1
  BY <1>1
<1>3. 1 \in 1..Len(s)
  BY <1>1
<1>4. Distinct(Tail(s))
  BY <1>1, <1>2 DEF Distinct
<1>5. ~Has(Tail(s), Head(s))
  BY <1>1, <1>2, <1>3 DEF Distinct, Has
<1> QED
  BY <1>4, <1>5

\* Two distinct sequences with no element in common are distinct together.
LEMMA DistinctConcat ==
    ASSUME NEW S, NEW s \in Seq(S), NEW t \in Seq(S), Distinct(s), Distinct(t),
           \A x \in S : ~(Has(s, x) /\ Has(t, x))
    PROVE  Distinct(s \o t)
<1>1. /\ Len(s \o t) = Len(s) + Len(t) /\ Len(s) \in Nat /\ Len(t) \in Nat
      /\ \A i \in 1..Len(s) : (s \o t)[i] = s[i]
      /\ \A i \in 1..Len(t) : (s \o t)[Len(s) + i] = t[i]
      /\ \A i \in 1..Len(s) : s[i] \in S
  OBVIOUS
<1>2. SUFFICES ASSUME NEW i \in 1..(Len(s) + Len(t)), NEW j \in 1..(Len(s) + Len(t)),
                      (s \o t)[i] = (s \o t)[j]
               PROVE  i = j
  BY <1>1 DEF Distinct
<1>3. \A n \in 1..(Len(s) + Len(t)) :
         \/ n \in 1..Len(s) /\ (s \o t)[n] = s[n]
         \/ n - Len(s) \in 1..Len(t) /\ (s \o t)[n] = t[n - Len(s)]
  <2> SUFFICES ASSUME NEW n \in 1..(Len(s) + Len(t)), n \notin 1..Len(s)
               PROVE  n - Len(s) \in 1..Len(t) /\ (s \o t)[n] = t[n - Len(s)]
    BY <1>1
  <2>1. n - Len(s) \in 1..Len(t) /\ n = Len(s) + (n - Len(s))
    BY <1>1
  <2> QED
    BY <1>1, <2>1
<1>4. ASSUME NEW m \in 1..Len(s), NEW n \in 1..Len(t) PROVE s[m] # t[n]
  BY <1>1 DEF Has
<1>5. CASE i \in 1..Len(s) /\ j \in 1..Len(s)
  BY <1>1, <1>2, <1>5 DEF Distinct
<1>6. CASE i \notin 1..Len(s) /\ j \notin 1..Len(s)
  <2>1. i - Len(s) = j - Len(s)
    BY <1>2, <1>3, <1>6 DEF Distinct
  <2> QED
    BY <1>1, <2>1
<1> QED
  BY <1>2, <1>3, <1>4, <1>5, <1>6

\* An emitter has taken sample n of instance k.
Gone(k, n) ==
    \/ \E r \in Readers : Has(batch[r][k], n)
    \/ \E c \in Callbacks : [key |-> k, sample |-> n] \in owed[c]

\* The reader keeps no sample twice, and none that an emitter took.
CacheInv ==
    \A k \in Keys :
        /\ Distinct(cache[k])
        /\ \A n \in Samples : Has(cache[k], n) => n <= sent[k] /\ ~Gone(k, n)
        /\ \A n \in Samples : Gone(k, n) => n <= sent[k]

\* A sample is in one batch, once.
BatchInv ==
    /\ \A r \in Readers, k \in Keys : Distinct(batch[r][k])
    /\ \A r, s \in Readers, k \in Keys, n \in Samples :
          Has(batch[r][k], n) /\ Has(batch[s][k], n) => r = s

\* A call that is owed is in one place, once.
CallInv ==
    /\ Distinct(m_callbacks) /\ Distinct(events)
    /\ \A v, w \in Workers : running[v] = running[w] /\ running[v] # NoJob => v = w
    /\ \A c \in Callbacks : Distinct(called[c])
    /\ \A c \in Callbacks, call \in Call :
          /\ InBatch(c, call) => ~Queued(c, call) /\ ~Working(c, call) /\ ~Done(c, call)
          /\ Queued(c, call) => ~Working(c, call) /\ ~Done(c, call)
          /\ Working(c, call) => ~Done(c, call)

\* What an emitter took is gone from the reader: also when it read nothing more.
LEMMA CacheKept ==
    ASSUME CacheInv, sent' = sent,
           \A k \in Keys : /\ Distinct(cache'[k])
                           /\ \A n \in Samples : Has(cache'[k], n) => Has(cache[k], n)
                           /\ \A n \in Samples : Gone(k, n)' => Gone(k, n)
    PROVE  CacheInv'
  BY DEF CacheInv, Samples

\* An arriving sample has a number of its own.
LEMMA ArriveCache ==
    ASSUME TypeOK, CacheInv, NEW k \in Keys, Arrive(k)
    PROVE  CacheInv'
<1>1. /\ sent[k] \in Nat /\ sent[k] + 1 \in Samples /\ cache[k] \in Seq(Samples)
      /\ cache \in [Keys -> Seq(Samples)] /\ sent \in [Keys -> 0..MaxSamples]
  BY FlowAssumption, SampleTypes DEF TypeOK, Arrive, Samples
<1> DEFINE kept == IF Len(cache[k]) < Depth THEN cache[k] ELSE Tail(cache[k])
<1>2. /\ kept \in Seq(Samples) /\ Distinct(kept)
      /\ \A n : Has(kept, n) => Has(cache[k], n)
  <2>1. CASE Len(cache[k]) < Depth
    BY <1>1, <2>1 DEF CacheInv
  <2>2. CASE ~(Len(cache[k]) < Depth)
    <3>1. cache[k] # <<>>
      <4>1. Len(cache[k]) # 0
        BY <2>2, FlowAssumption
      <4> QED
        BY <4>1
    <3>2. Distinct(cache[k])
      BY DEF CacheInv
    <3>3. Tail(cache[k]) \in Seq(Samples) /\ Distinct(Tail(cache[k]))
      BY <1>1, <3>1, <3>2, SeqFacts, DistinctTail
    <3>4. \A n : Has(Tail(cache[k]), n) => Has(cache[k], n)
      BY <1>1, <3>1, HasTail
    <3> QED
      BY <2>2, <3>3, <3>4
  <2> QED
    BY <2>1, <2>2
<1>3. /\ cache' = [cache EXCEPT ![k] = Append(kept, sent[k] + 1)]
      /\ sent' = [sent EXCEPT ![k] = sent[k] + 1]
      /\ batch' = batch /\ owed' = owed
  BY DEF Arrive
<1> HIDE DEF kept
<1>4. \A n \in Samples : n <= sent[k] => n # sent[k] + 1
  BY <1>1 DEF Samples
<1>5. ~Has(kept, sent[k] + 1)
  BY <1>1, <1>2, <1>4 DEF CacheInv
<1>6. Distinct(Append(kept, sent[k] + 1))
  BY <1>1, <1>2, <1>5, DistinctAppend
<1>7. \A n : Has(Append(kept, sent[k] + 1), n) => Has(cache[k], n) \/ n = sent[k] + 1
  BY <1>1, <1>2, HasAppend
<1>8. \A l \in Keys, n \in Samples : Gone(l, n)' <=> Gone(l, n)
  BY <1>3 DEF Gone
<1>9. ASSUME NEW l \in Keys
      PROVE  /\ Distinct(cache'[l])
             /\ \A n \in Samples : Has(cache'[l], n) => n <= sent'[l] /\ ~Gone(l, n)'
             /\ \A n \in Samples : Gone(l, n)' => n <= sent'[l]
  <2>1. CASE l = k
    <3>1. cache'[l] = Append(kept, sent[k] + 1) /\ sent'[l] = sent[k] + 1
      BY <1>1, <1>3, <2>1
    <3>2. ~Gone(k, sent[k] + 1)
      BY <1>1, <1>4 DEF CacheInv
    <3>3. \A n \in Samples : n <= sent[k] => n <= sent[k] + 1
      BY <1>1 DEF Samples
    <3> QED
      BY <1>1, <1>6, <1>7, <1>8, <2>1, <3>1, <3>2, <3>3 DEF CacheInv
  <2>2. CASE l # k
    BY <1>1, <1>3, <1>8, <2>2 DEF CacheInv
  <2> QED
    BY <2>1, <2>2
<1> QED
  BY <1>9 DEF CacheInv, Samples

\* What readQueue takes is gone, and nothing else.
LEMMA ReadQueueGone ==
    ASSUME TypeOK, NEW r \in Readers, ReadQueue(r), NEW k \in Keys, NEW n \in Samples,
           Gone(k, n)'
    PROVE  Gone(k, n) \/ (k \in Available /\ Has(cache[k], n))
<1>1. /\ batch' = [batch EXCEPT ![r] = Taken] /\ owed' = OwedFor(Taken)
      /\ batch \in [Readers -> [Keys -> Seq(Samples)]]
  BY SampleTypes DEF ReadQueue, Taken
<1>2. Has(Taken[k], n) => k \in Available /\ Has(cache[k], n)
  BY HasFacts DEF Taken
<1>3. CASE \E s \in Readers : Has(batch'[s][k], n)
  <2>1. PICK s \in Readers : Has(batch'[s][k], n)
    BY <1>3
  <2>2. CASE s = r
    BY <1>1, <1>2, <2>1, <2>2
  <2>3. CASE s # r
    BY <1>1, <2>1, <2>3 DEF Gone
  <2> QED
    BY <2>2, <2>3
<1>4. CASE \E c \in Callbacks : [key |-> k, sample |-> n] \in owed'[c]
  <2>1. PICK c \in Callbacks : [key |-> k, sample |-> n] \in owed'[c]
    BY <1>4
  <2>2. PICK call \in Call : call = [key |-> k, sample |-> n]
    BY SampleTypes
  <2>3. call \in owed[c] \/ Has(Taken[call.key], call.sample)
    BY <2>1, <2>2, ReadQueueOwes
  <2> QED
    BY <1>2, <2>2, <2>3 DEF Gone
<1> QED
  BY <1>3, <1>4 DEF Gone

LEMMA ReadQueueCache ==
    ASSUME TypeOK, CacheInv, NEW r \in Readers, ReadQueue(r), sent' = sent
    PROVE  CacheInv'
<1>1. cache' = [k \in Keys |-> IF k \in Available THEN <<>> ELSE cache[k]]
  BY DEF ReadQueue, TakeOf
<1>2. ASSUME NEW k \in Keys
      PROVE  /\ Distinct(cache'[k])
             /\ \A n \in Samples : Has(cache'[k], n) => n <= sent'[k] /\ ~Gone(k, n)'
             /\ \A n \in Samples : Gone(k, n)' => n <= sent'[k]
  <2>1. Distinct(<<>>) /\ \A n : ~Has(<<>>, n)
    BY DEF Distinct, Has
  <2>2. CASE k \in Available
    <3>1. cache'[k] = <<>>
      BY <1>1, <2>2
    <3> QED
      BY <2>1, <3>1, ReadQueueGone DEF CacheInv
  <2>3. CASE k \notin Available
    <3>1. cache'[k] = cache[k]
      BY <1>1, <2>3
    <3> QED
      BY <2>3, <3>1, ReadQueueGone DEF CacheInv
  <2> QED
    BY <2>2, <2>3
<1> QED
  BY <1>2 DEF CacheInv, Samples

\* A take leaves a part of each instance.
LEMMA TakeCache ==
    ASSUME TypeOK, CacheInv, sent' = sent, batch' = batch, owed' = owed,
           \/ cache' = cache
           \/ \E keys \in SUBSET Keys : TakeOf(keys)
           \/ \E k \in Available : cache' = [cache EXCEPT ![k] = Tail(cache[k])]
    PROVE  CacheInv'
<1>1. \A k \in Keys, n \in Samples : Gone(k, n)' <=> Gone(k, n)
  BY DEF Gone
<1>2. \A k \in Keys : Distinct(cache[k])
  BY DEF CacheInv
<1>3. ASSUME NEW k \in Keys
      PROVE  /\ Distinct(cache'[k])
             /\ \A n \in Samples : Has(cache'[k], n) => Has(cache[k], n)
  <2>1. CASE cache' = cache
    BY <1>2, <2>1
  <2>2. CASE \E keys \in SUBSET Keys : TakeOf(keys)
    <3>1. cache'[k] = <<>> \/ cache'[k] = cache[k]
      BY <2>2 DEF TakeOf
    <3>2. Distinct(<<>>) /\ \A n : ~Has(<<>>, n)
      BY DEF Distinct, Has
    <3> QED
      BY <1>2, <3>1, <3>2
  <2>3. ASSUME NEW l \in Available, cache' = [cache EXCEPT ![l] = Tail(cache[l])]
        PROVE  /\ Distinct(cache'[k])
               /\ \A n \in Samples : Has(cache'[k], n) => Has(cache[k], n)
    <3>1. cache \in [Keys -> Seq(Samples)] /\ l \in Keys /\ cache[l] # <<>>
      BY SampleTypes DEF Available, TypeOK
    <3>2. cache[l] \in Seq(Samples)
      BY <3>1
    <3>3. Distinct(Tail(cache[l]))
      BY <1>2, <3>1, <3>2, DistinctTail
    <3>4. \A n \in Samples : Has(Tail(cache[l]), n) => Has(cache[l], n)
      BY <3>1, <3>2, HasTail
    <3>5. cache'[k] = IF k = l THEN Tail(cache[l]) ELSE cache[k]
      BY <2>3, <3>1
    <3> QED
      BY <1>2, <3>3, <3>4, <3>5
  <2> QED
    BY <2>1, <2>2, <2>3
<1> QED
  BY <1>1, <1>3, CacheKept

\* Emit takes the head off one batch.
LEMMA EmitBatch ==
    ASSUME TypeOK, NEW r \in Readers, NEW k \in Keys, Emit(r, k)
    PROVE  /\ batch[r][k] \in Seq(Samples) /\ batch[r][k] # <<>>
           /\ batch' = [batch EXCEPT ![r] = [batch[r] EXCEPT ![k] = Tail(batch[r][k])]]
           /\ \A s \in Readers, l \in Keys :
                 batch'[s][l] = IF s = r /\ l = k THEN Tail(batch[r][k]) ELSE batch[s][l]
           /\ \A s \in Readers, l \in Keys, n \in Samples :
                 Has(batch'[s][l], n) => Has(batch[s][l], n)
<1>1. /\ batch[r][k] \in Seq(Samples) /\ batch[r][k] # <<>>
      /\ batch \in [Readers -> [Keys -> Seq(Samples)]]
  BY SampleTypes DEF Emit
<1>2. batch' = [batch EXCEPT ![r] = [batch[r] EXCEPT ![k] = Tail(batch[r][k])]]
  BY DEF Emit
<1>3. \A s \in Readers, l \in Keys :
         batch'[s][l] = IF s = r /\ l = k THEN Tail(batch[r][k]) ELSE batch[s][l]
  BY <1>1, <1>2
<1>4. \A n \in Samples : Has(Tail(batch[r][k]), n) => Has(batch[r][k], n)
  BY <1>1, HasTail
<1> QED
  BY <1>1, <1>2, <1>3, <1>4

LEMMA CacheStep == TypeOK /\ CacheInv /\ [Next]_vars => CacheInv'
<1> SUFFICES ASSUME TypeOK, CacheInv, [Next]_vars PROVE CacheInv'
  OBVIOUS
<1> USE DEF readerVars, emitterVars, poolVars, history
<1>1. ASSUME UNCHANGED <<sent, cache, batch, owed>> PROVE CacheInv'
  BY <1>1, TakeCache
<1>2. CASE Write
  BY <1>2, ArriveCache DEF Write, WriteSample, DisposeSample
<1>3. ASSUME NEW p \in Pollers, Poll(p) PROVE CacheInv'
  <2>1. CASE ReadCallbacks(p)
    BY <2>1, ReadQueueCache DEF ReadCallbacks, Readers
  <2>2. ASSUME NEW k \in Keys, TakeSample(p, k) PROVE CacheInv'
    BY <2>2, TakeCache DEF TakeSample
  <2>3. ASSUME NEW keys \in SUBSET Keys, NEW readOnly \in BOOLEAN,
               TakeAllSamples(p, keys, readOnly)
        PROVE  CacheInv'
    BY <2>3, TakeCache DEF TakeAllSamples
  <2>4. CASE GetReader(p) \/ TakeNothing(p) \/ ReturnLoan(p)
    BY <1>1, <2>4 DEF GetReader, TakeNothing, ReturnLoan
  <2> QED
    BY <1>3, <2>1, <2>2, <2>3, <2>4 DEF Poll
<1>4. CASE Listen
  <2>1. CASE exists
    BY <1>4, <2>1, ReadQueueCache DEF Listen, Readers
  <2>2. CASE ~exists
    BY <1>1, <1>4, <2>2 DEF Listen
  <2> QED
    BY <2>1, <2>2
<1>5. ASSUME NEW r \in Readers, NEW k \in Keys, Emit(r, k) PROVE CacheInv'
  <2>1. \A l \in Keys, n \in Samples : Gone(l, n)' => Gone(l, n)
    BY <1>5, EmitBatch DEF Gone, Emit
  <2>2. UNCHANGED <<sent, cache>>
    BY <1>5 DEF Emit
  <2> QED
    BY <2>1, <2>2, CacheKept DEF CacheInv
<1>6. CASE Loop \/ Wait \/ Own \/ Finish \/ UNCHANGED vars
  BY <1>1, <1>6 DEF Loop, Wait, Own, AddCallback, UnregisterTopic, CloseDispatcher,
     Finish, DeleteReader, Stop, Join, ResetDispatcher, vars
<1>7. ASSUME NEW r \in Readers, EmitEnd(r) PROVE CacheInv'
  BY <1>1, <1>7 DEF EmitEnd
<1>8. ASSUME NEW w \in Workers, Pool(w) PROVE CacheInv'
  BY <1>1, <1>8 DEF Pool, Fetch, HandleEvent
<1> QED
  BY <1>2, <1>3, <1>4, <1>5, <1>6, <1>7, <1>8
  DEF Next, Listening, EmitAll, Destroyed, Readers

LEMMA BatchStep == TypeOK /\ CacheInv /\ BatchInv /\ [Next]_vars => BatchInv'
<1> SUFFICES ASSUME TypeOK, CacheInv, BatchInv, [Next]_vars PROVE BatchInv'
  OBVIOUS
<1> USE DEF readerVars, emitterVars, poolVars, history
<1>1. ASSUME batch' = batch PROVE BatchInv'
  BY <1>1 DEF BatchInv, Samples
<1>2. ASSUME NEW r \in Readers, ReadQueue(r) PROVE BatchInv'
  <2>1. /\ batch' = [batch EXCEPT ![r] = Taken]
        /\ batch \in [Readers -> [Keys -> Seq(Samples)]]
    BY <1>2, SampleTypes DEF ReadQueue, Taken
  <2>2. \A s \in Readers, k \in Keys :
           batch'[s][k] = IF s = r THEN Taken[k] ELSE batch[s][k]
    BY <2>1
  <2>3. \A k \in Keys : /\ Distinct(Taken[k])
                        /\ \A n \in Samples : Has(Taken[k], n) => ~Gone(k, n)
    <3>1. Distinct(<<>>) /\ \A n : ~Has(<<>>, n)
      BY DEF Distinct, Has
    <3> QED
      BY <3>1 DEF Taken, CacheInv
  <2>4. \A s \in Readers, k \in Keys, n \in Samples : Has(batch[s][k], n) => Gone(k, n)
    BY DEF Gone
  <2> QED
    BY <2>2, <2>3, <2>4 DEF BatchInv, Samples
<1>3. ASSUME NEW r \in Readers, NEW k \in Keys, Emit(r, k) PROVE BatchInv'
  <2>1. Distinct(Tail(batch[r][k]))
    BY <1>3, EmitBatch, DistinctTail DEF BatchInv
  <2>2. /\ \A s \in Readers, l \in Keys :
             batch'[s][l] = Tail(batch[r][k]) \/ batch'[s][l] = batch[s][l]
        /\ \A s \in Readers, l \in Keys, n \in Samples :
              Has(batch'[s][l], n) => Has(batch[s][l], n)
    BY <1>3, EmitBatch
  <2> QED
    BY <2>1, <2>2 DEF BatchInv, Samples
<1>4. CASE Write
  BY <1>1, <1>4 DEF Write, WriteSample, DisposeSample, Arrive
<1>5. ASSUME NEW p \in Pollers, Poll(p) PROVE BatchInv'
  BY <1>1, <1>2, <1>5 DEF Poll, Readers, GetReader, ReadCallbacks, TakeSample,
     TakeAllSamples, TakeNothing, ReturnLoan
<1>6. CASE Listen
  BY <1>1, <1>2, <1>6 DEF Listen, Readers
<1>7. CASE Loop \/ Wait \/ Own \/ Finish \/ UNCHANGED vars
  BY <1>1, <1>7 DEF Loop, Wait, Own, AddCallback, UnregisterTopic, CloseDispatcher,
     Finish, DeleteReader, Stop, Join, ResetDispatcher, vars
<1>8. ASSUME NEW r \in Readers, EmitEnd(r) PROVE BatchInv'
  BY <1>1, <1>8 DEF EmitEnd
<1>9. ASSUME NEW w \in Workers, Pool(w) PROVE BatchInv'
  BY <1>1, <1>9 DEF Pool, Fetch, HandleEvent
<1> QED
  BY <1>3, <1>4, <1>5, <1>6, <1>7, <1>8, <1>9
  DEF Next, Listening, EmitAll, Destroyed, Readers

\* What readQueue takes was owed to nobody, so it is under way nowhere else.
LEMMA ReadQueueCalls ==
    ASSUME TypeOK, LossInv, CacheInv, CallInv, NEW r \in Readers, pc[r] # "emit",
           ReadQueue(r), UNCHANGED <<m_callbacks, events, running, called>>
    PROVE  CallInv'
<1>1. /\ batch' = [batch EXCEPT ![r] = Taken]
      /\ batch \in [Readers -> [Keys -> Seq(Samples)]]
  BY SampleTypes DEF ReadQueue, Taken
<1>2. ASSUME NEW c \in Callbacks, NEW call \in Call
      PROVE  /\ InBatch(c, call)' =>
                    ~Queued(c, call)' /\ ~Working(c, call)' /\ ~Done(c, call)'
             /\ Queued(c, call)' => ~Working(c, call)' /\ ~Done(c, call)'
             /\ Working(c, call)' => ~Done(c, call)'
  <2>1. call.key \in Keys /\ call.sample \in Samples
        /\ call = [key |-> call.key, sample |-> call.sample]
    BY CallParts
  <2>2. /\ (Queued(c, call)' <=> Queued(c, call)) /\ (Working(c, call)' <=> Working(c, call))
        /\ (Done(c, call)' <=> Done(c, call))
    BY DEF Queued, Working, Done
  <2>3. InBatch(c, call)' => InBatch(c, call) \/ Has(Taken[call.key], call.sample)
    BY <1>1, <2>1 DEF InBatch
  <2>4. Has(Taken[call.key], call.sample) => call \notin owed[c]
    <3>1. Has(Taken[call.key], call.sample) => Has(cache[call.key], call.sample)
      BY <2>1, HasFacts DEF Taken
    <3> QED
      BY <2>1, <3>1 DEF CacheInv, Gone
  <2>5. Queued(c, call) \/ Working(c, call) \/ Done(c, call) => call \in owed[c]
    BY DEF LossInv, Accounted
  <2> QED
    BY <2>2, <2>3, <2>4, <2>5 DEF CallInv
<1> QED
  BY <1>2 DEF CallInv, Call

\* emitMessage hands a sample out that is then in no batch any more.
LEMMA EmitCalls ==
    ASSUME TypeOK, BatchInv, CallInv, NEW r \in Readers, NEW k \in Keys, Emit(r, k)
    PROVE  CallInv'
<1>1. /\ batch[r][k] \in Seq(Samples) /\ batch[r][k] # <<>>
      /\ \A s \in Readers, l \in Keys :
            batch'[s][l] = IF s = r /\ l = k THEN Tail(batch[r][k]) ELSE batch[s][l]
      /\ \A s \in Readers, l \in Keys, n \in Samples :
            Has(batch'[s][l], n) => Has(batch[s][l], n)
  BY EmitBatch
<1>2. PICK n \in Samples : n = Head(batch[r][k])
  BY <1>1, SeqFacts
<1>3. PICK new \in Call : new = CallOf(r, k) /\ new.key = k /\ new.sample = n
  <2>1. CallOf(r, k) = [key |-> k, sample |-> n]
    BY <1>2 DEF CallOf
  <2> QED
    BY <2>1, CallParts
<1>4. Has(batch[r][k], n) /\ ~Has(Tail(batch[r][k]), n)
  BY <1>1, <1>2, HasTail, DistinctTail DEF BatchInv
<1>5. \A s \in Readers : ~Has(batch'[s][k], n)
  BY <1>1, <1>4 DEF BatchInv
<1>6. ASSUME NEW c \in Callbacks, NEW call \in Call
      PROVE  /\ InBatch(c, call)' => InBatch(c, call) /\ call # new
             /\ call = new /\ Has(m_callbacks, c) => InBatch(c, call)
  <2>1. call.key \in Keys /\ call.sample \in Samples
    BY CallParts
  <2>2. InBatch(c, call)' => InBatch(c, call)
    BY <1>1, <2>1 DEF InBatch, Emit, emitterVars
  <2>3. call = new => ~InBatch(c, call)'
    BY <1>3, <1>5 DEF InBatch
  <2> QED
    BY <1>3, <1>4, <2>2, <2>3 DEF InBatch
<1>7. CASE UNCHANGED <<events, called>>
  <2>1. \A c \in Callbacks, call \in Call :
           /\ (Queued(c, call)' <=> Queued(c, call)) /\ (Working(c, call)' <=> Working(c, call))
           /\ (Done(c, call)' <=> Done(c, call))
    BY <1>7 DEF Queued, Working, Done, Emit
  <2> QED
    BY <1>6, <1>7, <2>1 DEF CallInv, Call, Emit, emitterVars
<1>8. CASE m_asyncEmitter /\ dispatcher = "up"
  <2>1. events' = events \o JobsOf(r, k) /\ called' = called
    BY <1>8 DEF Emit, JobsOf
  <2>2. events \in Seq(Job) /\ JobsOf(r, k) \in Seq(Job)
    BY JobsType DEF TypeOK, Emit
  <2>3. \A c \in Callbacks, call \in Call :
           Has(JobsOf(r, k), JobFor(c, call)) <=> Has(m_callbacks, c) /\ call = new
    BY <1>1, <1>3, HasJobsOf
  <2>4. Distinct(JobsOf(r, k))
    <3>1. m_callbacks \in Seq(Callbacks)
      BY DEF TypeOK
    <3>2. Len(m_callbacks) \in Nat
      BY <3>1, SeqFacts
    <3>3. Len(JobsOf(r, k)) = Len(m_callbacks)
          /\ \A i \in 1..Len(m_callbacks) : JobsOf(r, k)[i].to = m_callbacks[i]
      BY <3>2 DEF JobsOf
    <3> QED
      BY <3>3 DEF Distinct, CallInv
  <2>5. ASSUME NEW job \in Job PROVE ~(Has(events, job) /\ Has(JobsOf(r, k), job))
    <3>1. PICK c \in Callbacks, call \in Call : job = JobFor(c, call)
      BY ZenonT(60), CallParts
    <3> QED
      BY <1>6, <2>3, <3>1 DEF CallInv, Queued
  <2>6. Distinct(events')
    BY <2>1, <2>2, <2>4, <2>5, DistinctConcat DEF CallInv
  <2>7. ASSUME NEW c \in Callbacks, NEW call \in Call
        PROVE  /\ Queued(c, call)' <=> Queued(c, call) \/ (Has(m_callbacks, c) /\ call = new)
               /\ Working(c, call)' <=> Working(c, call)
               /\ Done(c, call)' <=> Done(c, call)
    <3>1. Has(events \o JobsOf(r, k), JobFor(c, call)) <=>
             Has(events, JobFor(c, call)) \/ Has(JobsOf(r, k), JobFor(c, call))
      BY <2>2, HasFacts
    <3> QED
      BY <2>1, <2>3, <3>1 DEF Queued, Working, Done, Emit
  <2> QED
    BY <1>6, <2>1, <2>6, <2>7 DEF CallInv, Call, Emit, emitterVars
<1>9. CASE ~m_asyncEmitter
  <2>1. /\ events' = events
        /\ called' = [c \in Callbacks |->
                IF Has(m_callbacks, c) THEN Append(called[c], new) ELSE called[c]]
    BY <1>3, <1>9 DEF Emit, CallOf, Has
  <2>2. \A c \in Callbacks : called[c] \in Seq(Call)
    BY DEF TypeOK
  <2>3. ASSUME NEW c \in Callbacks, NEW call \in Call
        PROVE  /\ Queued(c, call)' <=> Queued(c, call)
               /\ Working(c, call)' <=> Working(c, call)
               /\ Done(c, call)' <=> Done(c, call) \/ (Has(m_callbacks, c) /\ call = new)
    <3>1. Has(Append(called[c], new), call) <=> Has(called[c], call) \/ call = new
      BY <2>2, HasAppend
    <3> QED
      BY <2>1, <3>1 DEF Queued, Working, Done, Emit
  <2>4. ASSUME NEW c \in Callbacks PROVE Distinct(called'[c])
    <3>1. CASE Has(m_callbacks, c)
      <4>1. ~Has(called[c], new)
        BY <1>6, <3>1 DEF CallInv, Done
      <4>2. Distinct(Append(called[c], new))
        BY <2>2, <4>1, DistinctAppend DEF CallInv
      <4> QED
        BY <2>1, <3>1, <4>2
    <3>2. CASE ~Has(m_callbacks, c)
      BY <2>1, <3>2 DEF CallInv
    <3> QED
      BY <3>1, <3>2
  <2> QED
    BY <1>6, <2>1, <2>3, <2>4 DEF CallInv, Call, Emit, emitterVars
<1> QED
  BY <1>7, <1>8, <1>9 DEF Emit

\* A job that a worker has is not in the queue any more.
LEMMA FetchCalls ==
    ASSUME TypeOK, CallInv, NEW w \in Workers, Fetch(w)
    PROVE  CallInv'
<1>1. /\ events \in Seq(Job) /\ events # <<>> /\ running[w] = NoJob
      /\ running \in [Workers -> Job \cup {NoJob}]
  BY DEF Fetch, TypeOK
<1>2. PICK job \in Job : job = Head(events)
  BY <1>1, SeqFacts
<1>3. events' = Tail(events) /\ running' = [running EXCEPT ![w] = job]
  BY <1>2 DEF Fetch
<1>4. PICK d \in Callbacks, new \in Call : job = JobFor(d, new)
  BY CallParts
<1>5. Distinct(events') /\ ~Has(events', job)
  BY <1>1, <1>2, <1>3, DistinctTail DEF CallInv
<1>6. job # NoJob /\ Queued(d, new)
  BY <1>1, <1>2, <1>4, FlowAssumption, HasTail DEF Queued, Job
<1>7. \A v \in Workers : running[v] # job
  BY <1>4, <1>6 DEF CallInv, Working
<1>8. \A u, v \in Workers : running'[u] = running'[v] /\ running'[u] # NoJob => u = v
  BY <1>1, <1>3, <1>7 DEF CallInv
<1>9. ASSUME NEW c \in Callbacks, NEW call \in Call
      PROVE  /\ InBatch(c, call)' <=> InBatch(c, call)
             /\ Done(c, call)' <=> Done(c, call)
             /\ Queued(c, call) <=> JobFor(c, call) = job \/ Queued(c, call)'
             /\ JobFor(c, call) = job => ~Queued(c, call)'
             /\ Working(c, call)' <=> JobFor(c, call) = job \/ Working(c, call)
  <2>1. JobFor(c, call) # NoJob
    BY FlowAssumption DEF JobFor, Call
  <2>2. Queued(c, call) <=> JobFor(c, call) = job \/ Queued(c, call)'
    BY <1>1, <1>2, <1>3, HasTail DEF Queued
  <2>3. Working(c, call)' <=> JobFor(c, call) = job \/ Working(c, call)
    BY <1>1, <1>3, <2>1 DEF Working
  <2>4. JobFor(c, call) = job => ~Queued(c, call)'
    BY <1>5 DEF Queued
  <2> QED
    BY <2>2, <2>3, <2>4 DEF InBatch, Done, Fetch, emitterVars, history
<1> QED
  BY <1>5, <1>8, <1>9 DEF CallInv, Call, Fetch, emitterVars, history

\* Nor with the worker when the call has been made.
LEMMA HandleEventCalls ==
    ASSUME TypeOK, CallInv, NEW w \in Workers, HandleEvent(w)
    PROVE  CallInv'
<1>1. running[w] \in Job /\ running \in [Workers -> Job \cup {NoJob}]
  BY DEF HandleEvent, TypeOK
<1>2. PICK job \in Job : job = running[w]
  BY <1>1
<1>3. PICK d \in Callbacks, new \in Call :
         d = job.to /\ new = [key |-> job.key, sample |-> job.sample]
         /\ job = JobFor(d, new)
  BY CallParts
<1>4. job # NoJob
  BY FlowAssumption DEF Job
<1>5. /\ running' = [running EXCEPT ![w] = NoJob]
      /\ called' = [called EXCEPT ![d] = Append(called[d], new)]
      /\ called \in [Callbacks -> Seq(Call)] /\ called[d] \in Seq(Call)
  BY <1>2, <1>3 DEF HandleEvent, TypeOK
<1>6. Working(d, new)
  BY <1>2, <1>3 DEF Working
<1>7. ~Has(called[d], new)
  BY <1>6 DEF CallInv, Done
<1>8. \A c \in Callbacks : Distinct(called'[c])
  <2>1. Distinct(Append(called[d], new))
    BY <1>5, <1>7, DistinctAppend DEF CallInv
  <2> QED
    BY <1>5, <2>1 DEF CallInv
<1>9. \A u, v \in Workers : running'[u] = running'[v] /\ running'[u] # NoJob => u = v
  BY <1>1, <1>5 DEF CallInv
<1>10. ASSUME NEW c \in Callbacks, NEW call \in Call
       PROVE  /\ InBatch(c, call)' <=> InBatch(c, call)
              /\ Queued(c, call)' <=> Queued(c, call)
              /\ Working(c, call) <=> (c = d /\ call = new) \/ Working(c, call)'
              /\ c = d /\ call = new => ~Working(c, call)'
              /\ Done(c, call)' <=> (c = d /\ call = new) \/ Done(c, call)
  <2>1. JobFor(c, call) # NoJob
    BY FlowAssumption DEF JobFor, Call
  <2>2. JobFor(c, call) = job <=> c = d /\ call = new
    BY <1>3 DEF JobFor, Call
  <2>3. Working(c, call) <=> JobFor(c, call) = job \/ Working(c, call)'
    BY <1>1, <1>2, <1>5, <2>1 DEF Working
  <2>4. JobFor(c, call) = job => ~Working(c, call)'
    BY <1>1, <1>2, <1>4, <1>5 DEF Working, CallInv
  <2>5. Done(c, call)' <=> (c = d /\ call = new) \/ Done(c, call)
    <3>1. Has(Append(called[d], new), call) <=> Has(called[d], call) \/ call = new
      BY <1>5, HasAppend
    <3> QED
      BY <1>5, <3>1 DEF Done
  <2> QED
    BY <2>2, <2>3, <2>4, <2>5 DEF InBatch, Queued, HandleEvent, emitterVars
<1> QED
  BY <1>8, <1>9, <1>10 DEF CallInv, Call, HandleEvent, emitterVars

LEMMA CallStep ==
    TypeOK /\ LossInv /\ CacheInv /\ BatchInv /\ CallInv /\ [Next]_vars => CallInv'
<1> SUFFICES ASSUME TypeOK, LossInv, CacheInv, BatchInv, CallInv, [Next]_vars
             PROVE  CallInv'
  OBVIOUS
<1> USE DEF readerVars, emitterVars, poolVars, history
<1>1. ASSUME UNCHANGED <<m_callbacks, batch, events, running, called>> PROVE CallInv'
  BY <1>1 DEF CallInv, Call, InBatch, Queued, Working, Done
<1>2. CASE Write
  BY <1>1, <1>2 DEF Write, WriteSample, DisposeSample, Arrive
<1>3. ASSUME NEW p \in Pollers, Poll(p) PROVE CallInv'
  <2>1. CASE ReadCallbacks(p)
    BY <2>1, ReadQueueCalls DEF ReadCallbacks, Readers
  <2>2. CASE ~ReadCallbacks(p)
    BY <1>1, <1>3, <2>2 DEF Poll, GetReader, TakeSample, TakeAllSamples, TakeNothing,
       ReturnLoan
  <2> QED
    BY <2>1, <2>2
<1>4. CASE Listen
  <2>1. CASE exists
    BY <1>4, <2>1, ReadQueueCalls DEF Listen, Readers
  <2>2. CASE ~exists
    BY <1>1, <1>4, <2>2 DEF Listen
  <2> QED
    BY <2>1, <2>2
<1>5. ASSUME NEW r \in Readers, NEW k \in Keys, Emit(r, k) PROVE CallInv'
  BY <1>5, EmitCalls
<1>6. ASSUME NEW c \in Callbacks, NEW queueMessages \in BOOLEAN,
             NEW asyncHandling \in BOOLEAN,
             AddCallback(c, queueMessages, asyncHandling)
      PROVE  CallInv'
  <2>1. Distinct(m_callbacks')
    <3>1. m_callbacks \in Seq(Callbacks) /\ ~Has(m_callbacks, c)
          /\ m_callbacks' = Append(m_callbacks, c)
      BY <1>6 DEF AddCallback, TypeOK, Has
    <3> QED
      BY <3>1, DistinctAppend DEF CallInv
  <2>2. \A d \in Callbacks, call \in Call : ~InBatch(d, call)'
    <3>1. \A call \in Call : Nothing[call.key] = <<>>
      BY DEF Nothing, Call
    <3>2. \A r \in Readers : batch[r] = Nothing
      BY <1>6 DEF AddCallback, Emitting, LossInv
    <3>3. \A r \in Readers, call \in Call : batch'[r][call.key] = <<>>
      BY <1>6, <3>1, <3>2 DEF AddCallback
    <3> QED
      BY <3>3, HasFacts DEF InBatch
  <2> QED
    BY <1>6, <2>1, <2>2 DEF CallInv, Call, Queued, Working, Done, AddCallback
<1>7. CASE Loop \/ Wait \/ Finish \/ UNCHANGED vars
  BY <1>1, <1>7 DEF Loop, Wait, Finish, DeleteReader, Stop, Join, ResetDispatcher, vars
<1>8. CASE UnregisterTopic \/ CloseDispatcher
  BY <1>1, <1>8 DEF UnregisterTopic, CloseDispatcher
<1>9. ASSUME NEW r \in Readers, EmitEnd(r) PROVE CallInv'
  BY <1>1, <1>9 DEF EmitEnd
<1>10. ASSUME NEW w \in Workers, Pool(w) PROVE CallInv'
  BY <1>10, FetchCalls, HandleEventCalls DEF Pool
<1> QED
  BY <1>2, <1>3, <1>4, <1>5, <1>6, <1>7, <1>8, <1>9, <1>10
  DEF Next, Listening, EmitAll, Own, Destroyed, Readers

\* The calls of a callback are as many as the samples it got, if no call was
\* made twice.
LEMMA DistinctCardinality ==
    ASSUME NEW S, NEW s \in Seq(S), Distinct(s)
    PROVE  Cardinality({s[i] : i \in 1..Len(s)}) = Len(s)
<1> DEFINE T == {s[i] : i \in 1..Len(s)}
<1>1. Len(s) \in Nat /\ s \in [1..Len(s) -> T]
  OBVIOUS
<1>2. s \in Bijection(1..Len(s), T)
  BY <1>1 DEF Bijection, Injection, Surjection, IsInjective, Distinct
<1>3. IsFiniteSet(1..Len(s)) /\ Cardinality(1..Len(s)) = Len(s)
  BY <1>1, FS_Interval
<1>4. ExistsBijection(1..Len(s), T)
  BY <1>2 DEF ExistsBijection
<1> HIDE DEF T
<1>5. Cardinality(T) = Cardinality(1..Len(s))
  BY <1>3, <1>4, FS_Bijection
<1> QED
  BY <1>3, <1>5 DEF T

\* No sample was taken so far.
LEMMA InitCalls == Init => CacheInv /\ BatchInv /\ CallInv
<1> SUFFICES ASSUME Init PROVE CacheInv /\ BatchInv /\ CallInv
  OBVIOUS
<1>1. Distinct(<<>>) /\ \A n : ~Has(<<>>, n)
  BY DEF Distinct, Has
<1>2. CacheInv
  BY <1>1 DEF Init, CacheInv, Gone, Nothing
<1>3. BatchInv
  BY <1>1 DEF Init, BatchInv, Nothing
<1>4. ASSUME NEW c \in Callbacks, NEW call \in Call
      PROVE  ~Queued(c, call) /\ ~Working(c, call)
  <2>1. JobFor(c, call) # NoJob
    BY FlowAssumption DEF JobFor, Call
  <2> QED
    BY <1>1, <2>1 DEF Init, Queued, Working
<1>5. \A c \in Callbacks, call \in Call : ~Done(c, call)
  BY <1>1 DEF Init, Done
<1>6. CallInv
  BY <1>1, <1>4, <1>5 DEF Init, CallInv
<1> QED
  BY <1>2, <1>3, <1>6

\* Every sample an emitter took is handed to each of its callbacks exactly once,
\* now or later, whichever threads read and however the topic ends.
THEOREM CallsExactlyOnce == Spec => []ExactlyOnce
<1>1. TypeOK /\ CallInv => CalledOnce
  <2> SUFFICES ASSUME TypeOK, CallInv, NEW c \in Callbacks
               PROVE  Cardinality(Got(c)) = Len(called[c])
    BY DEF CalledOnce
  <2>1. called[c] \in Seq(Call) /\ Distinct(called[c])
    BY DEF TypeOK, CallInv
  <2> QED
    BY <2>1, DistinctCardinality DEF Got
<1>2. LossInv => Accounted
  BY DEF LossInv
<1>3. Init => EndInv
  BY DEF Init, EndInv, Readers
<1>4. NothingLost /\ CalledOnce => ExactlyOnce
  BY DEF ExactlyOnce
<1> QED
  BY <1>1, <1>2, <1>3, <1>4, InitLoss, InitCalls, TypeCorrect, EndStep, LossStep,
     CacheStep, BatchStep, CallStep, AccountedSuffices, PTL DEF Spec

-----------------------------------------------------------------------------
(* In the order they were sent.                                            *)

\* The elements of s grow.
Ascending(s) == \A i, j \in 1..Len(s) : i < j => s[i] < s[j]

\* A new greatest element leaves a sequence ascending.
LEMMA AscendingAppend ==
    ASSUME NEW S, S \subseteq Nat, NEW s \in Seq(S), NEW y \in S, Ascending(s),
           \A x \in S : Has(s, x) => x < y
    PROVE  Ascending(Append(s, y))
<1>1. /\ Len(Append(s, y)) = Len(s) + 1 /\ Append(s, y)[Len(s) + 1] = y
      /\ Len(s) \in Nat
      /\ \A i \in 1..Len(s) : Append(s, y)[i] = s[i] /\ s[i] \in S
  OBVIOUS
<1>2. \A i \in 1..Len(s) : s[i] < y
  BY <1>1 DEF Has
<1>3. ASSUME NEW i \in 1..(Len(s) + 1), NEW j \in 1..(Len(s) + 1), i < j
      PROVE  Append(s, y)[i] < Append(s, y)[j]
  <2>1. i \in 1..Len(s)
    BY <1>1, <1>3
  <2>2. CASE j = Len(s) + 1
    BY <1>1, <1>2, <2>1, <2>2
  <2>3. CASE j # Len(s) + 1
    <3>1. j \in 1..Len(s)
      BY <1>1, <2>3
    <3>2. s[i] < s[j]
      BY <1>3, <2>1, <3>1 DEF Ascending
    <3> QED
      BY <1>1, <2>1, <3>1, <3>2
  <2> QED
    BY <2>2, <2>3
<1> QED
  BY <1>1, <1>3 DEF Ascending

\* Without its head a sequence is ascending, and the head is below the rest.
LEMMA AscendingTail ==
    ASSUME NEW S, NEW s \in Seq(S), s # <<>>, Ascending(s)
    PROVE  /\ Ascending(Tail(s))
           /\ \A x : Has(Tail(s), x) => Head(s) < x
<1>1. /\ Head(s) = s[1] /\ Len(s) \in Nat \ {0} /\ Len(Tail(s)) = Len(s) - 1
      /\ \A i \in 1..(Len(s) - 1) : Tail(s)[i] = s[i + 1]
  OBVIOUS
<1>2. \A i \in 1..(Len(s) - 1) : i + 1 \in 1..Len(s) /\ 1 < i + 1
  BY <1>1
<1>3. 1 \in 1..Len(s)
  BY <1>1
<1>4. \A i, j \in 1..(Len(s) - 1) : i < j => i + 1 < j + 1
  BY <1>1
<1>5. Ascending(Tail(s))
  BY <1>1, <1>2, <1>4 DEF Ascending
<1>6. ASSUME NEW x, Has(Tail(s), x) PROVE Head(s) < x
  BY <1>1, <1>2, <1>3, <1>6 DEF Ascending, Has
<1> QED
  BY <1>5, <1>6

\* The reader keeps the samples of an instance in the order they were sent.
SortedInv == \A k \in Keys : Ascending(cache[k])

\* Sample n of instance k comes before all that a thread can take from now on.
Older(k, n) ==
    n <= sent[k] /\ \A m \in Samples : Has(cache[k], m) => n < m

\* What a step does to the reader: samples that were not sent before are new.
CacheMoves ==
    \A k \in Keys :
        /\ sent[k] <= sent'[k]
        /\ \A m \in Samples : Has(cache'[k], m) => Has(cache[k], m) \/ sent[k] < m

\* While no callback was asynchronous and no two threads emitted, the samples
\* that callbacks got come before those of a batch, and these before those in the
\* reader.
SyncInv ==
    /\ ~m_asyncEmitter /\ events = <<>> /\ \A w \in Workers : running[w] = NoJob
    /\ \A r, s \in Readers : pc[r] = "emit" /\ pc[s] = "emit" => r = s

BatchOrder ==
    \A r \in Readers, k \in Keys :
        /\ Ascending(batch[r][k])
        /\ \A n \in Samples : Has(batch[r][k], n) => Older(k, n)

CallOrder ==
    /\ \A c \in Callbacks, call \in Call :
          Done(c, call) => Older(call.key, call.sample)
    /\ \A c \in Callbacks, call \in Call, r \in Readers, n \in Samples :
          Done(c, call) /\ Has(batch[r][call.key], n) => call.sample < n

OrderInv == InOrder /\ (mixed \/ (SyncInv /\ BatchOrder /\ CallOrder))

\* An arriving sample goes to the end of its instance.
LEMMA ArriveSorted ==
    ASSUME TypeOK, CacheInv, SortedInv, NEW k \in Keys, Arrive(k)
    PROVE  SortedInv' /\ CacheMoves
<1>1. /\ sent[k] \in Nat /\ sent[k] + 1 \in Samples /\ cache[k] \in Seq(Samples)
      /\ cache \in [Keys -> Seq(Samples)] /\ sent \in [Keys -> 0..MaxSamples]
  BY FlowAssumption, SampleTypes DEF TypeOK, Arrive, Samples
<1> DEFINE kept == IF Len(cache[k]) < Depth THEN cache[k] ELSE Tail(cache[k])
<1>2. /\ kept \in Seq(Samples) /\ Ascending(kept)
      /\ \A n : Has(kept, n) => Has(cache[k], n)
  <2>1. CASE Len(cache[k]) < Depth
    BY <1>1, <2>1 DEF SortedInv
  <2>2. CASE ~(Len(cache[k]) < Depth)
    <3>1. Len(cache[k]) # 0
      BY <2>2, FlowAssumption
    <3>2. cache[k] # <<>>
      BY <3>1
    <3>3. Ascending(cache[k])
      BY DEF SortedInv
    <3>4. Tail(cache[k]) \in Seq(Samples) /\ Ascending(Tail(cache[k]))
      BY <1>1, <3>2, <3>3, SeqFacts, AscendingTail
    <3>5. \A n : Has(Tail(cache[k]), n) => Has(cache[k], n)
      BY <1>1, <3>2, HasTail
    <3> QED
      BY <2>2, <3>4, <3>5
  <2> QED
    BY <2>1, <2>2
<1>3. /\ cache' = [cache EXCEPT ![k] = Append(kept, sent[k] + 1)]
      /\ sent' = [sent EXCEPT ![k] = sent[k] + 1]
  BY DEF Arrive
<1> HIDE DEF kept
<1>4. \A n \in Samples : Has(kept, n) => n < sent[k] + 1
  <2>1. \A n \in Samples : Has(kept, n) => n <= sent[k]
    BY <1>2 DEF CacheInv
  <2> QED
    BY <1>1, <2>1 DEF Samples
<1>5. Samples \subseteq Nat
  BY DEF Samples
<1>6. Ascending(Append(kept, sent[k] + 1))
  BY <1>1, <1>2, <1>4, <1>5, AscendingAppend
<1>7. \A n : Has(Append(kept, sent[k] + 1), n) => Has(cache[k], n) \/ n = sent[k] + 1
  BY <1>1, <1>2, HasAppend
<1>8. SortedInv'
  BY <1>1, <1>3, <1>6 DEF SortedInv
<1>9. ASSUME NEW l \in Keys
      PROVE  /\ sent[l] <= sent'[l]
             /\ \A m \in Samples : Has(cache'[l], m) => Has(cache[l], m) \/ sent[l] < m
  <2>1. CASE l = k
    <3>1. cache'[l] = Append(kept, sent[k] + 1) /\ sent'[l] = sent[k] + 1
      BY <1>1, <1>3, <2>1
    <3> QED
      BY <1>1, <1>7, <2>1, <3>1
  <2>2. CASE l # k
    <3>1. cache'[l] = cache[l] /\ sent'[l] = sent[l] /\ sent[l] \in Nat
      BY <1>1, <1>3, <2>2
    <3> QED
      BY <3>1
  <2> QED
    BY <2>1, <2>2
<1> QED
  BY <1>8, <1>9 DEF CacheMoves

\* A take leaves the last of an instance.
LEMMA TakeSorted ==
    ASSUME TypeOK, SortedInv, sent' = sent,
           \/ cache' = cache
           \/ \E keys \in SUBSET Keys : TakeOf(keys)
           \/ \E k \in Available : cache' = [cache EXCEPT ![k] = Tail(cache[k])]
    PROVE  SortedInv' /\ CacheMoves
<1>1. \A k \in Keys : sent[k] <= sent[k]
  BY DEF TypeOK
<1>2. ASSUME NEW k \in Keys
      PROVE  /\ Ascending(cache'[k])
             /\ \A n \in Samples : Has(cache'[k], n) => Has(cache[k], n)
  <2>1. CASE cache' = cache
    BY <2>1 DEF SortedInv
  <2>2. CASE \E keys \in SUBSET Keys : TakeOf(keys)
    <3>1. cache'[k] = <<>> \/ cache'[k] = cache[k]
      BY <2>2 DEF TakeOf
    <3>2. Ascending(<<>>) /\ \A n : ~Has(<<>>, n)
      BY DEF Ascending, Has
    <3> QED
      BY <3>1, <3>2 DEF SortedInv
  <2>3. ASSUME NEW l \in Available, cache' = [cache EXCEPT ![l] = Tail(cache[l])]
        PROVE  /\ Ascending(cache'[k])
               /\ \A n \in Samples : Has(cache'[k], n) => Has(cache[k], n)
    <3>1. cache \in [Keys -> Seq(Samples)] /\ l \in Keys /\ cache[l] # <<>>
      BY SampleTypes DEF Available, TypeOK
    <3>2. cache[l] \in Seq(Samples) /\ Ascending(cache[l])
      BY <3>1 DEF SortedInv
    <3>3. Ascending(Tail(cache[l]))
      BY <3>1, <3>2, AscendingTail
    <3>4. \A n \in Samples : Has(Tail(cache[l]), n) => Has(cache[l], n)
      BY <3>1, <3>2, HasTail
    <3>5. cache'[k] = IF k = l THEN Tail(cache[l]) ELSE cache[k]
      BY <2>3, <3>1
    <3> QED
      BY <3>3, <3>4, <3>5 DEF SortedInv
  <2> QED
    BY <2>1, <2>2, <2>3
<1> QED
  BY <1>1, <1>2 DEF SortedInv, CacheMoves

LEMMA SortedStep ==
    TypeOK /\ CacheInv /\ SortedInv /\ [Next]_vars => SortedInv' /\ CacheMoves
<1> SUFFICES ASSUME TypeOK, CacheInv, SortedInv, [Next]_vars
             PROVE  SortedInv' /\ CacheMoves
  OBVIOUS
<1> USE DEF readerVars, emitterVars, poolVars, history
<1>1. ASSUME UNCHANGED <<sent, cache>> PROVE SortedInv' /\ CacheMoves
  BY <1>1, TakeSorted
<1>2. CASE Write
  BY <1>2, ArriveSorted DEF Write, WriteSample, DisposeSample
<1>3. ASSUME NEW p \in Pollers, Poll(p) PROVE SortedInv' /\ CacheMoves
  <2>0. Available \in SUBSET Keys
    BY DEF Available, TypeOK
  <2>1. CASE ReadCallbacks(p)
    BY <2>0, <2>1, TakeSorted DEF ReadCallbacks, ReadQueue
  <2>2. ASSUME NEW k \in Keys, TakeSample(p, k) PROVE SortedInv' /\ CacheMoves
    BY <2>2, TakeSorted DEF TakeSample
  <2>3. ASSUME NEW keys \in SUBSET Keys, NEW readOnly \in BOOLEAN,
               TakeAllSamples(p, keys, readOnly)
        PROVE  SortedInv' /\ CacheMoves
    BY <2>3, TakeSorted DEF TakeAllSamples
  <2>4. CASE GetReader(p) \/ TakeNothing(p) \/ ReturnLoan(p)
    BY <1>1, <2>4 DEF GetReader, TakeNothing, ReturnLoan
  <2> QED
    BY <1>3, <2>1, <2>2, <2>3, <2>4 DEF Poll
<1>4. CASE Listen
  <2>0. Available \in SUBSET Keys
    BY DEF Available, TypeOK
  <2> QED
    BY <1>4, <2>0, TakeSorted DEF Listen, ReadQueue
<1>5. ASSUME NEW r \in Readers, EmitAll(r) PROVE SortedInv' /\ CacheMoves
  BY <1>1, <1>5 DEF EmitAll, Emit, EmitEnd
<1>6. CASE Loop \/ Wait \/ Own \/ Finish \/ UNCHANGED vars
  BY <1>1, <1>6 DEF Loop, Wait, Own, AddCallback, UnregisterTopic, CloseDispatcher,
     Finish, DeleteReader, Stop, Join, ResetDispatcher, vars
<1>7. ASSUME NEW w \in Workers, Pool(w) PROVE SortedInv' /\ CacheMoves
  BY <1>1, <1>7 DEF Pool, Fetch, HandleEvent
<1> QED
  BY <1>2, <1>3, <1>4, <1>5, <1>6, <1>7
  DEF Next, Listening, Destroyed, Readers

\* What was before the reader's samples stays before them.
LEMMA OlderKept ==
    ASSUME TypeOK, TypeOK', CacheMoves, NEW k \in Keys, NEW n \in Samples, Older(k, n)
    PROVE  Older(k, n)'
<1>1. /\ n \in Nat /\ Samples \subseteq Nat
      /\ sent[k] \in Nat /\ sent'[k] \in Nat /\ sent[k] <= sent'[k]
  BY DEF TypeOK, CacheMoves, Samples
<1>2. ASSUME NEW m \in Samples, Has(cache'[k], m) PROVE n < m
  <2>1. Has(cache[k], m) \/ sent[k] < m
    BY <1>2 DEF CacheMoves
  <2>2. n <= sent[k] /\ m \in Nat
    BY <1>1 DEF Older
  <2> QED
    BY <1>1, <2>1, <2>2 DEF Older
<1> QED
  BY <1>1, <1>2 DEF Older

\* A step that neither takes nor calls, nor makes the emitter asynchronous, keeps
\* the order.
LEMMA OrderFrame ==
    ASSUME TypeOK, TypeOK', CacheMoves, OrderInv,
           UNCHANGED <<batch, called, events, running>>,
           mixed' \/ (~mixed /\ ~m_asyncEmitter'),
           \A r \in Readers : pc'[r] = "emit" => pc[r] = "emit"
    PROVE  OrderInv'
<1> SUFFICES ASSUME ~mixed' PROVE OrderInv'
  BY DEF OrderInv, InOrder
<1>1. SyncInv /\ BatchOrder /\ CallOrder /\ ~mixed
  BY DEF OrderInv
<1>2. SyncInv'
  BY <1>1 DEF SyncInv
<1>3. BatchOrder'
  BY <1>1, OlderKept DEF BatchOrder, Samples
<1>4. CallOrder'
  <2>1. \A c \in Callbacks, call \in Call : Done(c, call)' <=> Done(c, call)
    BY DEF Done
  <2>2. \A call \in Call : call.key \in Keys /\ call.sample \in Samples
    BY CallParts
  <2> QED
    BY <1>1, <2>1, <2>2, OlderKept DEF CallOrder, Call, Samples
<1>5. InOrder'
  BY <1>1 DEF OrderInv, InOrder
<1> QED
  BY <1>2, <1>3, <1>4, <1>5 DEF OrderInv

\* readQueue takes what is in the reader, when nobody else has a batch.
LEMMA ReadQueueOrder ==
    ASSUME TypeOK, TypeOK', CacheInv, LossInv, SortedInv, CacheMoves, OrderInv,
           NEW r \in Readers, ReadQueue(r),
           UNCHANGED <<sent, called, events, running, m_asyncEmitter>>,
           mixed' \/ (~mixed /\ Emitting = {})
    PROVE  OrderInv'
<1> SUFFICES ASSUME ~mixed' PROVE OrderInv'
  BY DEF OrderInv, InOrder
<1>1. SyncInv /\ BatchOrder /\ CallOrder /\ ~mixed /\ Emitting = {}
  BY DEF OrderInv
<1>2. /\ batch' = [batch EXCEPT ![r] = Taken] /\ batch \in [Readers -> [Keys -> Seq(Samples)]]
      /\ pc' = [pc EXCEPT ![r] = "emit"] /\ TakeOf(Available)
      /\ pc \in [Readers -> {"idle", "loop", "wait", "found", "loan", "emit"}]
  BY SampleTypes DEF ReadQueue, Taken, TypeOK
<1>3. \A s \in Readers, k \in Keys : batch[s][k] = <<>>
  BY <1>1 DEF Emitting, LossInv, Nothing
<1>4. \A s \in Readers, k \in Keys :
         batch'[s][k] = IF s = r /\ k \in Available THEN cache[k] ELSE <<>>
  BY <1>2, <1>3 DEF Taken
<1>5. Ascending(<<>>) /\ \A n : ~Has(<<>>, n)
  BY DEF Ascending, Has
<1>6. SyncInv'
  BY <1>1, <1>2 DEF SyncInv, Emitting
<1>7. \A s \in Readers, k \in Keys, n \in Samples :
         Has(batch'[s][k], n) => Has(cache[k], n) /\ cache'[k] = <<>>
  BY <1>2, <1>4, <1>5 DEF TakeOf
<1>8. BatchOrder'
  <2>1. \A s \in Readers, k \in Keys : Ascending(batch'[s][k])
    BY <1>4, <1>5 DEF SortedInv
  <2>2. ASSUME NEW s \in Readers, NEW k \in Keys, NEW n \in Samples, Has(batch'[s][k], n)
        PROVE  Older(k, n)'
    <3>1. n <= sent'[k]
      BY <1>7, <2>2 DEF CacheInv
    <3>2. \A m \in Samples : ~Has(cache'[k], m)
      BY <1>5, <1>7, <2>2
    <3> QED
      BY <3>1, <3>2 DEF Older, Samples
  <2> QED
    BY <2>1, <2>2 DEF BatchOrder, Samples
<1>9. CallOrder'
  <2>1. \A c \in Callbacks, call \in Call : Done(c, call)' <=> Done(c, call)
    BY DEF Done
  <2>2. \A call \in Call : call.key \in Keys /\ call.sample \in Samples
    BY CallParts
  <2>3. ASSUME NEW c \in Callbacks, NEW call \in Call, NEW s \in Readers,
               NEW n \in Samples, Done(c, call), Has(batch'[s][call.key], n)
        PROVE  call.sample < n
    <3>1. Has(cache[call.key], n)
      BY <1>7, <2>2, <2>3
    <3>2. Older(call.key, call.sample)
      BY <1>1, <2>3 DEF CallOrder
    <3> QED
      BY <3>1, <3>2 DEF Older
  <2>4. \A c \in Callbacks, call \in Call : Done(c, call)' => Older(call.key, call.sample)'
    BY <1>1, <2>1, <2>2, OlderKept DEF CallOrder
  <2> QED
    BY <2>1, <2>3, <2>4 DEF CallOrder, Call, Samples
<1>10. InOrder'
  BY <1>1 DEF OrderInv, InOrder
<1> QED
  BY <1>6, <1>8, <1>9, <1>10 DEF OrderInv

\* The next sample of the only batch comes after all that were called before, and
\* before all that are left.
LEMMA EmitOrder ==
    ASSUME TypeOK, TypeOK', LossInv, CacheMoves, OrderInv,
           NEW r \in Readers, NEW k \in Keys, Emit(r, k)
    PROVE  OrderInv'
<1> SUFFICES ASSUME ~mixed' PROVE OrderInv'
  BY DEF OrderInv, InOrder
<1>1. SyncInv /\ BatchOrder /\ CallOrder /\ ~mixed
  BY DEF OrderInv, Emit
<1> DEFINE b == batch[r][k]
           call == CallOf(r, k)
<1>2. /\ b \in Seq(Samples) /\ b # <<>> /\ pc[r] = "emit"
      /\ \A s \in Readers, l \in Keys :
            batch'[s][l] = IF s = r /\ l = k THEN Tail(b) ELSE batch[s][l]
      /\ \A s \in Readers, l \in Keys, n \in Samples :
            Has(batch'[s][l], n) => Has(batch[s][l], n)
  BY EmitBatch DEF Emit
<1>3. /\ UNCHANGED <<sent, cache, m_asyncEmitter, pc, running>> /\ events' = events
      /\ called' = [c \in Callbacks |->
            IF Has(m_callbacks, c) THEN Append(called[c], call) ELSE called[c]]
  BY <1>1 DEF SyncInv, Emit, CallOf, Has, readerVars, emitterVars
<1>4. Head(b) \in Samples /\ call \in Call /\ call.key = k /\ call.sample = Head(b)
  BY <1>2, SeqFacts, SampleTypes DEF CallOf
<1>5. Ascending(Tail(b)) /\ \A n : Has(Tail(b), n) => Head(b) < n
  BY <1>1, <1>2, AscendingTail DEF BatchOrder
<1>6. Has(b, Head(b))
  BY <1>2, HasTail
<1>7. \A l \in Keys, n \in Samples : Older(l, n)' <=> Older(l, n)
  BY <1>3 DEF Older
<1>8. Older(k, Head(b))
  BY <1>1, <1>4, <1>6 DEF BatchOrder
<1>9. \A s \in Readers, n \in Samples : Has(batch'[s][k], n) => Head(b) < n
  <2>1. ASSUME NEW s \in Readers, s # r PROVE batch'[s][k] = <<>>
    <3>1. pc[s] # "emit"
      BY <1>1, <1>2, <2>1 DEF SyncInv
    <3> QED
      BY <1>2, <2>1, <3>1 DEF LossInv, Nothing
  <2> QED
    BY <1>2, <1>5, <2>1, HasFacts
<1>10. ASSUME NEW c \in Callbacks
       PROVE  /\ called[c] \in Seq(Call)
              /\ called'[c] = called[c] \/ called'[c] = Append(called[c], call)
  BY <1>3 DEF TypeOK
<1> HIDE DEF b, call
<1>11. ASSUME NEW c \in Callbacks, NEW d \in Call, Done(c, d)'
       PROVE  Done(c, d) \/ d = call
  <2>1. CASE called'[c] = called[c]
    BY <1>11, <2>1 DEF Done
  <2>2. CASE called'[c] = Append(called[c], call)
    <3>1. Has(Append(called[c], call), d) <=> Has(called[c], d) \/ d = call
      BY <1>4, <1>10, HasAppend
    <3> QED
      BY <1>11, <2>2, <3>1 DEF Done
  <2> QED
    BY <1>10, <2>1, <2>2
<1>12. \A d \in Call : d.key \in Keys /\ d.sample \in Samples
  BY CallParts
<1>13. SyncInv'
  BY <1>1, <1>3 DEF SyncInv
<1>14. BatchOrder'
  BY <1>1, <1>2, <1>5, <1>7 DEF BatchOrder, Samples
<1>15. CallOrder'
  <2>1. \A c \in Callbacks, d \in Call : Done(c, d)' => Older(d.key, d.sample)'
    BY <1>1, <1>4, <1>7, <1>8, <1>11, <1>12 DEF CallOrder
  <2>2. ASSUME NEW c \in Callbacks, NEW d \in Call, NEW s \in Readers, NEW n \in Samples,
               Done(c, d)', Has(batch'[s][d.key], n)
        PROVE  d.sample < n
    BY <1>1, <1>2, <1>4, <1>9, <1>11, <1>12, <2>2 DEF CallOrder
  <2> QED
    BY <2>1, <2>2 DEF CallOrder, Call, Samples
<1>16. InOrder'
  <2> SUFFICES ASSUME NEW c \in Callbacks, NEW i \in 1..Len(called'[c]),
                      NEW j \in 1..Len(called'[c]), i < j,
                      called'[c][i].key = called'[c][j].key
               PROVE  called'[c][i].sample < called'[c][j].sample
    BY DEF InOrder
  <2>1. ASSUME NEW m \in 1..Len(called[c]), NEW n \in 1..Len(called[c]), m < n,
               called[c][m].key = called[c][n].key
        PROVE  called[c][m].sample < called[c][n].sample
    BY <1>1, <2>1 DEF OrderInv, InOrder
  <2>2. CASE called'[c] = called[c]
    BY <2>1, <2>2
  <2>3. CASE called'[c] = Append(called[c], call)
    <3>1. /\ Len(called[c]) \in Nat /\ Len(called'[c]) = Len(called[c]) + 1
          /\ called'[c][Len(called[c]) + 1] = call
          /\ \A m \in 1..Len(called[c]) :
                called'[c][m] = called[c][m] /\ called[c][m] \in Call
      BY <1>4, <1>10, <2>3
    <3>2. i \in 1..Len(called[c])
      BY <3>1
    <3>3. CASE j = Len(called[c]) + 1
      <4>1. Done(c, called[c][i]) /\ called[c][i] \in Call /\ called[c][i].key = k
        BY <1>4, <3>1, <3>2, <3>3 DEF Done, Has
      <4>2. Has(batch[r][k], Head(b))
        BY <1>6 DEF b
      <4>3. called[c][i].sample < Head(b)
        BY <1>1, <1>4, <4>1, <4>2 DEF CallOrder
      <4> QED
        BY <1>4, <3>1, <3>2, <3>3, <4>3
    <3>4. CASE j # Len(called[c]) + 1
      <4>1. j \in 1..Len(called[c])
        BY <3>1, <3>4
      <4> QED
        BY <2>1, <3>1, <3>2, <4>1
    <3> QED
      BY <3>3, <3>4
  <2> QED
    BY <1>10, <2>2, <2>3
<1> QED
  BY <1>13, <1>14, <1>15, <1>16 DEF OrderInv

LEMMA OrderStep ==
    TypeOK /\ TypeOK' /\ CacheInv /\ LossInv /\ SortedInv /\ CacheMoves /\ OrderInv
       /\ [Next]_vars => OrderInv'
<1> SUFFICES ASSUME TypeOK, TypeOK', CacheInv, LossInv, SortedInv, CacheMoves, OrderInv,
                    [Next]_vars
             PROVE  OrderInv'
  OBVIOUS
<1> USE DEF readerVars, emitterVars, poolVars, history
<1>0. /\ Listener \in Readers /\ Pollers \subseteq Readers
      /\ pc \in [Readers -> {"idle", "loop", "wait", "found", "loan", "emit"}]
      /\ mixed \/ ~m_asyncEmitter
  BY DEF Readers, TypeOK, OrderInv, SyncInv
\* A thread moves on that takes nothing for callbacks.
<1>1. ASSUME NEW r \in Readers, NEW to, to # "emit",
             pc' = [pc EXCEPT ![r] = to] \/ pc' = pc,
             UNCHANGED <<batch, called, events, running, m_asyncEmitter>>,
             mixed' = mixed \/ mixed' = TRUE
      PROVE  OrderInv'
  <2>1. \A s \in Readers : pc'[s] = "emit" => pc[s] = "emit"
    BY <1>0, <1>1
  <2>2. mixed' \/ (~mixed /\ ~m_asyncEmitter')
    BY <1>0, <1>1
  <2> QED
    BY <1>1, <2>1, <2>2, OrderFrame
<1>2. CASE Write
  <2>1. UNCHANGED <<pc, batch, called, events, running, m_asyncEmitter, mixed>>
    BY <1>2 DEF Write, WriteSample, DisposeSample, Arrive
  <2> QED
    BY <1>0, <1>1, <2>1
<1>3. ASSUME NEW p \in Pollers, Poll(p) PROVE OrderInv'
  <2>1. CASE ReadCallbacks(p)
    <3>1. mixed' \/ (~mixed /\ Emitting = {})
      BY <2>1 DEF ReadCallbacks, TypeOK
    <3> QED
      BY <1>0, <2>1, <3>1, ReadQueueOrder DEF ReadCallbacks
  <2>2. CASE GetReader(p) \/ TakeNothing(p) \/ ReturnLoan(p)
    BY <1>0, <1>1, <2>2 DEF GetReader, TakeNothing, ReturnLoan
  <2>3. ASSUME NEW k \in Keys, TakeSample(p, k) PROVE OrderInv'
    BY <1>0, <1>1, <2>3 DEF TakeSample
  <2>4. ASSUME NEW keys \in SUBSET Keys, NEW readOnly \in BOOLEAN,
               TakeAllSamples(p, keys, readOnly)
        PROVE  OrderInv'
    BY <1>0, <1>1, <2>4 DEF TakeAllSamples
  <2> QED
    BY <1>3, <2>1, <2>2, <2>3, <2>4 DEF Poll
<1>4. CASE Loop \/ Wait
  BY <1>0, <1>1, <1>4 DEF Loop, Wait
<1>5. CASE Listen
  <2>1. mixed' \/ (~mixed /\ Emitting = {})
    BY <1>5 DEF Listen, TypeOK
  <2>2. CASE exists
    BY <1>0, <1>5, <2>1, <2>2, ReadQueueOrder DEF Listen
  <2>3. CASE ~exists
    <3>1. pc' = [pc EXCEPT ![Listener] = "loop"] /\ (mixed' = mixed \/ mixed' = TRUE)
          /\ UNCHANGED <<batch, called, events, running, m_asyncEmitter>>
      BY <1>5, <2>1, <2>3 DEF Listen, TypeOK
    <3> QED
      BY <1>0, <1>1, <3>1
  <2> QED
    BY <2>2, <2>3
<1>6. ASSUME NEW r \in Readers, NEW k \in Keys, Emit(r, k) PROVE OrderInv'
  BY <1>6, EmitOrder
<1>7. ASSUME NEW r \in Readers, EmitEnd(r) PROVE OrderInv'
  <2>1. UNCHANGED <<batch, called, events, running, m_asyncEmitter, mixed>>
    BY <1>7 DEF EmitEnd
  <2>2. PICK to \in {"loop", "idle"} : pc' = [pc EXCEPT ![r] = to]
    BY <1>7 DEF EmitEnd
  <2> QED
    BY <1>1, <2>1, <2>2
<1>8. ASSUME NEW c \in Callbacks, NEW queueMessages \in BOOLEAN,
             NEW asyncHandling \in BOOLEAN,
             AddCallback(c, queueMessages, asyncHandling)
      PROVE  OrderInv'
  <2>1. \A s \in Readers : pc'[s] = "emit" => pc[s] = "emit"
    BY <1>0, <1>8 DEF AddCallback
  <2>2. mixed' \/ (~mixed /\ ~m_asyncEmitter')
    BY <1>8 DEF AddCallback, TypeOK
  <2> QED
    BY <1>8, <2>1, <2>2, OrderFrame DEF AddCallback
<1>9. ASSUME NEW w \in Workers, Pool(w) PROVE OrderInv'
  <2>1. mixed /\ mixed'
    BY <1>9 DEF Pool, Fetch, HandleEvent, OrderInv, SyncInv
  <2> QED
    BY <2>1 DEF OrderInv, InOrder
<1>10. CASE UnregisterTopic \/ CloseDispatcher \/ Finish
  BY <1>0, <1>1, <1>10 DEF UnregisterTopic, CloseDispatcher, Finish, DeleteReader, Stop,
     Join, ResetDispatcher
<1>11. CASE UNCHANGED vars
  BY <1>0, <1>1, <1>11 DEF vars
<1> QED
  BY <1>0, <1>2, <1>3, <1>4, <1>5, <1>6, <1>7, <1>8, <1>9, <1>10, <1>11
  DEF Next, Listening, EmitAll, Own, Destroyed, Readers

\* Nothing was sent so far.
LEMMA InitOrder == Init => SortedInv /\ OrderInv
<1> SUFFICES ASSUME Init PROVE SortedInv /\ OrderInv
  OBVIOUS
<1>1. Ascending(<<>>) /\ \A n : ~Has(<<>>, n)
  BY DEF Ascending, Has
<1>2. SortedInv /\ BatchOrder
  BY <1>1 DEF Init, Nothing, SortedInv, BatchOrder
<1>3. SyncInv
  BY DEF Init, SyncInv
<1>4. CallOrder
  BY <1>1 DEF Init, CallOrder, Done
<1>5. InOrder
  BY DEF Init, InOrder
<1> QED
  BY <1>2, <1>3, <1>4, <1>5 DEF OrderInv

\* A callback sees the samples of an instance in the order they were sent, as long
\* as no callback was asynchronous and no two threads emitted.
THEOREM CallsInOrder == Spec => []InOrder
<1>1. Init => EndInv
  BY DEF Init, EndInv, Readers
<1>2. OrderInv => InOrder
  BY DEF OrderInv
<1> QED
  BY <1>1, <1>2, InitLoss, InitCalls, InitOrder, TypeCorrect, EndStep, LossStep,
     CacheStep, SortedStep, OrderStep, PTL DEF Spec

-----------------------------------------------------------------------------
(* The refinement.                                                         *)

\* What an emitter took before is older than what is in the reader.
GoneOlder == \A k \in Keys, n \in Samples : Gone(k, n) => Older(k, n)

\* Only readQueue takes samples for callbacks, and leaves nothing of theirs.
LEMMA GoneStep ==
    TypeOK /\ TypeOK' /\ CacheInv /\ CacheMoves /\ GoneOlder /\ [Next]_vars
       => GoneOlder'
<1> SUFFICES ASSUME TypeOK, TypeOK', CacheInv, CacheMoves, GoneOlder, [Next]_vars
             PROVE  GoneOlder'
  OBVIOUS
<1> USE DEF readerVars, emitterVars, poolVars, history
<1>1. ASSUME \A k \in Keys, n \in Samples : Gone(k, n)' => Gone(k, n)
      PROVE  GoneOlder'
  BY <1>1, OlderKept DEF GoneOlder, Samples
<1>2. ASSUME UNCHANGED <<batch, owed>> PROVE GoneOlder'
  BY <1>1, <1>2 DEF Gone
<1>3. ASSUME NEW r \in Readers, ReadQueue(r), sent' = sent PROVE GoneOlder'
  <2> SUFFICES ASSUME NEW k \in Keys, NEW n \in Samples, Gone(k, n)'
               PROVE  Older(k, n)'
    BY DEF GoneOlder, Samples
  <2>1. CASE Gone(k, n)
    BY <2>1, OlderKept DEF GoneOlder
  <2>2. CASE ~Gone(k, n)
    <3>1. k \in Available /\ Has(cache[k], n)
      BY <1>3, <2>2, ReadQueueGone
    <3>2. cache'[k] = <<>>
      BY <1>3, <3>1 DEF ReadQueue, TakeOf
    <3>3. n <= sent'[k]
      BY <1>3, <3>1 DEF CacheInv
    <3>4. \A m \in Samples : ~Has(cache'[k], m)
      BY <3>2 DEF Has
    <3> QED
      BY <3>3, <3>4 DEF Older, Samples
  <2> QED
    BY <2>1, <2>2
<1>4. CASE Write
  BY <1>2, <1>4 DEF Write, WriteSample, DisposeSample, Arrive
<1>5. ASSUME NEW p \in Pollers, Poll(p) PROVE GoneOlder'
  <2>1. CASE ReadCallbacks(p)
    BY <1>3, <2>1 DEF ReadCallbacks, Readers
  <2>2. CASE ~ReadCallbacks(p)
    BY <1>2, <1>5, <2>2 DEF Poll, GetReader, TakeSample, TakeAllSamples, TakeNothing,
       ReturnLoan
  <2> QED
    BY <2>1, <2>2
<1>6. CASE Listen
  BY <1>2, <1>3, <1>6 DEF Listen, Readers
<1>7. ASSUME NEW r \in Readers, NEW k \in Keys, Emit(r, k) PROVE GoneOlder'
  BY <1>1, <1>7, EmitBatch DEF Gone, Emit
<1>8. CASE Loop \/ Wait \/ Own \/ Finish \/ UNCHANGED vars
  BY <1>2, <1>8 DEF Loop, Wait, Own, AddCallback, UnregisterTopic, CloseDispatcher,
     Finish, DeleteReader, Stop, Join, ResetDispatcher, vars
<1>9. ASSUME NEW r \in Readers, EmitEnd(r) PROVE GoneOlder'
  BY <1>2, <1>9 DEF EmitEnd
<1>10. ASSUME NEW w \in Workers, Pool(w) PROVE GoneOlder'
  BY <1>2, <1>10 DEF Pool, Fetch, HandleEvent
<1> QED
  BY <1>4, <1>5, <1>6, <1>7, <1>8, <1>9, <1>10
  DEF Next, Listening, EmitAll, Destroyed, Readers

\* A callback was given a call if the call is done.
LEMMA GivenIsDone ==
    ASSUME NEW c \in Callbacks, NEW call
    PROVE  call \in Delivery!Given(c) <=> Done(c, call)
  BY DEF Delivery!Given, Done, Has

\* readQueue is Take, for all callbacks there are.
LEMMA ReadQueueMaps ==
    ASSUME TypeOK, TypeOK', GoneOlder, NEW r \in Readers, ReadQueue(r),
           called' = called, mixed' = mixed \/ mixed' = TRUE
    PROVE  Delivery!Next
<1> DEFINE to == {c \in Callbacks : Has(m_callbacks, c)}
           calls == {call \in Call : Has(Taken[call.key], call.sample)}
<1>1. ASSUME NEW c \in to, NEW e \in calls, NEW d \in owed[c], d.key = e.key
      PROVE  Delivery!Before(d, e)
  <2>1. d \in Call /\ e \in Call
    BY DEF TypeOK
  <2>2. /\ e.key \in Keys /\ e.sample \in Samples /\ d.sample \in Samples
        /\ d = [key |-> e.key, sample |-> d.sample]
    BY <1>1, <2>1, CallParts
  <2>3. Has(Taken[e.key], e.sample)
    OBVIOUS
  <2>4. Has(cache[e.key], e.sample)
    <3>1. ~Has(<<>>, e.sample)
      BY DEF Has
    <3> QED
      BY <2>2, <2>3, <3>1 DEF Taken
  <2> HIDE DEF to, calls
  <2>5. c \in Callbacks
    BY DEF to
  <2>6. Gone(e.key, d.sample)
    BY <2>2, <2>5 DEF Gone
  <2>7. Older(e.key, d.sample)
    BY <2>2, <2>6 DEF GoneOlder
  <2>8. d.sample < e.sample
    BY <2>2, <2>4, <2>7 DEF Older
  <2> QED
    BY <1>1, <2>8 DEF Delivery!Before
<1>2. owed' = [c \in Callbacks |-> IF c \in to THEN owed[c] \cup calls ELSE owed[c]]
  <2>1. owed \in [Callbacks -> SUBSET Call] /\ owed' \in [Callbacks -> SUBSET Call]
    BY DEF TypeOK
  <2>2. ASSUME NEW c \in Callbacks
        PROVE  owed'[c] = IF c \in to THEN owed[c] \cup calls ELSE owed[c]
    <3>1. owed[c] \subseteq Call /\ owed'[c] \subseteq Call
      BY <2>1
    <3>2. \A call \in Call : call \in owed'[c] <=>
             call \in owed[c] \/ (Has(m_callbacks, c) /\ Has(Taken[call.key], call.sample))
      BY ReadQueueOwes
    <3>3. CASE Has(m_callbacks, c)
      BY <3>1, <3>2, <3>3
    <3>4. CASE ~Has(m_callbacks, c)
      BY <3>1, <3>2, <3>4
    <3> QED
      BY <3>3, <3>4
  <2> HIDE DEF to, calls
  <2>3. owed' = [c \in Callbacks |-> owed'[c]]
    BY <2>1
  <2> QED
    BY <2>2, <2>3
<1>3. (~mixed') \in {~mixed, FALSE}
  BY DEF TypeOK
<1>4. to \in SUBSET Callbacks /\ calls \in SUBSET Call
  OBVIOUS
<1> HIDE DEF to, calls
<1>5. Delivery!Take(to, calls)
  BY <1>1, <1>2, <1>3 DEF Delivery!Take
<1> QED
  BY <1>4, <1>5 DEF Delivery!Next

\* A synchronous emitMessage is Give, to all callbacks at once; an asynchronous
\* one changes nothing that they see.
LEMMA EmitMaps ==
    ASSUME TypeOK, LossInv, CallInv, OrderInv, NEW r \in Readers, NEW k \in Keys,
           Emit(r, k)
    PROVE  [Delivery!Next]_(Delivery!vars)
<1> DEFINE to == {c \in Callbacks : Has(m_callbacks, c)}
           call == CallOf(r, k)
<1>1. /\ batch[r][k] \in Seq(Samples) /\ batch[r][k] # <<>> /\ pc[r] = "emit"
  BY EmitBatch DEF Emit
<1>2. Head(batch[r][k]) \in Samples /\ Has(batch[r][k], Head(batch[r][k]))
  BY <1>1, SeqFacts, HasTail
<1>3. call \in Call /\ call.key = k /\ call.sample = Head(batch[r][k])
  BY <1>2, SampleTypes DEF CallOf
<1>4. owed' = owed /\ mixed' = mixed
  BY DEF Emit
<1>5. CASE called' = called
  BY <1>4, <1>5 DEF Delivery!vars
<1>6. CASE called' # called
  <2>1. called' = [c \in Callbacks |->
           IF c \in to THEN Append(called[c], call) ELSE called[c]]
    BY <1>6 DEF Emit, CallOf, Has
  <2>2. ASSUME NEW c \in to
        PROVE  call \in owed[c] /\ ~Done(c, call)
    <3>1. c \in Callbacks /\ InBatch(c, call)
      BY <1>2, <1>3 DEF InBatch
    <3> HIDE DEF to, call
    <3> QED
      BY <1>3, <3>1 DEF LossInv, Accounted, CallInv
  <2>3. ASSUME NEW c \in to, ~mixed, NEW d \in owed[c], Delivery!Before(d, call)
        PROVE  Done(c, d)
    <3>1. SyncInv /\ BatchOrder
      BY <2>3 DEF OrderInv
    <3>2. c \in Callbacks /\ d \in Call
      BY DEF TypeOK
    <3>3. d.key = k /\ d.sample < Head(batch[r][k]) /\ d.sample \in Samples
      BY <1>3, <2>3, <3>2, CallParts DEF Delivery!Before
    <3> HIDE DEF to, call
    <3>4. ~InBatch(c, d)
      <4> SUFFICES ASSUME NEW s \in Readers, Has(batch[s][k], d.sample)
                   PROVE  FALSE
        BY <3>3 DEF InBatch
      <4>1. CASE s = r
        <5>1. d.sample = Head(batch[r][k]) \/ Has(Tail(batch[r][k]), d.sample)
          BY <1>1, <4>1, HasTail
        <5>2. Ascending(batch[r][k])
          BY <3>1 DEF BatchOrder
        <5>3. Has(Tail(batch[r][k]), d.sample) => Head(batch[r][k]) < d.sample
          BY <1>1, <5>2, AscendingTail
        <5>4. Head(batch[r][k]) \in Nat /\ d.sample \in Nat
          BY <1>2, <3>3 DEF Samples
        <5> QED
          BY <3>3, <5>1, <5>3, <5>4
      <4>2. CASE s # r
        <5>1. batch[s][k] = <<>>
          BY <1>1, <3>1, <4>2 DEF SyncInv, LossInv, Nothing
        <5> QED
          BY <5>1 DEF Has
      <4> QED
        BY <4>1, <4>2
    <3>5. ~Queued(c, d)
      BY <3>1 DEF SyncInv, Queued, Has
    <3>6. ~Working(c, d)
      <4>1. JobFor(c, d) # NoJob
        BY <3>2, FlowAssumption DEF JobFor, Call
      <4> QED
        BY <3>1, <4>1 DEF SyncInv, Working
    <3> QED
      BY <3>2, <3>4, <3>5, <3>6 DEF LossInv, Accounted
  <2>4. to \in SUBSET Callbacks
    OBVIOUS
  <2> HIDE DEF to, call
  <2>5. Delivery!Give(to, call)
    BY <1>4, <2>1, <2>2, <2>3, <2>4, GivenIsDone DEF Delivery!Give
  <2> QED
    BY <1>3, <2>4, <2>5 DEF Delivery!Next
<1> QED
  BY <1>5, <1>6

\* A worker's call is Give, to one callback.
LEMMA HandleEventMaps ==
    ASSUME TypeOK, LossInv, CallInv, OrderInv, NEW w \in Workers, HandleEvent(w)
    PROVE  Delivery!Next
<1>1. running[w] \in Job
  BY DEF HandleEvent, TypeOK
<1>2. PICK job \in Job : job = running[w]
  BY <1>1
<1> DEFINE made == [key |-> job.key, sample |-> job.sample]
<1>3. job.to \in Callbacks /\ made \in Call /\ job = JobFor(job.to, made)
  BY CallParts
<1>4. /\ called' = [called EXCEPT ![job.to] = Append(called[job.to], made)]
      /\ owed' = owed /\ mixed' = mixed /\ called \in [Callbacks -> Seq(Call)]
  BY <1>2 DEF HandleEvent, TypeOK
<1>5. mixed
  BY DEF OrderInv, SyncInv, HandleEvent
<1> HIDE DEF made
<1>6. Working(job.to, made)
  BY <1>2, <1>3 DEF Working
<1>7. made \in owed[job.to] /\ ~Done(job.to, made)
  BY <1>3, <1>6 DEF LossInv, Accounted, CallInv
<1>8. called' = [c \in Callbacks |->
         IF c \in {job.to} THEN Append(called[c], made) ELSE called[c]]
  BY <1>3, <1>4
<1>9. Delivery!Give({job.to}, made)
  BY <1>3, <1>4, <1>5, <1>7, <1>8, GivenIsDone DEF Delivery!Give
<1> QED
  BY <1>3, <1>9 DEF Delivery!Next

\* Every other step changes nothing that the callbacks see, or lets them run
\* concurrently.
LEMMA StepDelivers ==
    TypeOK /\ TypeOK' /\ LossInv /\ CallInv /\ OrderInv /\ GoneOlder /\ [Next]_vars
       => [Delivery!Next]_(Delivery!vars)
<1> SUFFICES ASSUME TypeOK, TypeOK', LossInv, CallInv, OrderInv, GoneOlder, [Next]_vars
             PROVE  [Delivery!Next]_(Delivery!vars)
  OBVIOUS
<1> USE DEF readerVars, emitterVars, poolVars, history
<1>1. ASSUME UNCHANGED <<called, owed, mixed>> PROVE [Delivery!Next]_(Delivery!vars)
  BY <1>1 DEF Delivery!vars
<1>2. CASE Write
  BY <1>1, <1>2 DEF Write, WriteSample, DisposeSample, Arrive
<1>3. ASSUME NEW p \in Pollers, Poll(p) PROVE [Delivery!Next]_(Delivery!vars)
  <2>1. CASE ReadCallbacks(p)
    <3>1. mixed' = mixed \/ mixed' = TRUE
      BY <2>1 DEF ReadCallbacks, TypeOK
    <3> QED
      BY <2>1, <3>1, ReadQueueMaps DEF ReadCallbacks, Readers
  <2>2. CASE ~ReadCallbacks(p)
    BY <1>1, <1>3, <2>2 DEF Poll, GetReader, TakeSample, TakeAllSamples, TakeNothing,
       ReturnLoan
  <2> QED
    BY <2>1, <2>2
<1>4. CASE Listen
  <2>1. mixed' = mixed \/ mixed' = TRUE
    BY <1>4 DEF Listen, TypeOK
  <2>2. CASE exists
    BY <1>4, <2>1, <2>2, ReadQueueMaps DEF Listen, Readers
  <2>3. CASE ~exists
    <3>1. called' = called /\ owed' = owed
      BY <1>4, <2>3 DEF Listen
    <3>2. CASE mixed' = mixed
      BY <1>1, <3>1, <3>2
    <3>3. CASE mixed' = TRUE
      BY <3>1, <3>3 DEF Delivery!Next, Delivery!Unorder
    <3> QED
      BY <2>1, <3>2, <3>3
  <2> QED
    BY <2>2, <2>3
<1>5. ASSUME NEW r \in Readers, NEW k \in Keys, Emit(r, k)
      PROVE  [Delivery!Next]_(Delivery!vars)
  BY <1>5, EmitMaps
<1>6. ASSUME NEW c \in Callbacks, NEW queueMessages \in BOOLEAN,
             NEW asyncHandling \in BOOLEAN,
             AddCallback(c, queueMessages, asyncHandling)
      PROVE  [Delivery!Next]_(Delivery!vars)
  <2>1. called' = called /\ owed' = owed
    BY <1>6 DEF AddCallback
  <2>2. mixed' = mixed \/ mixed' = TRUE
    BY <1>6 DEF AddCallback, TypeOK
  <2>3. CASE mixed' = mixed
    BY <1>1, <2>1, <2>3
  <2>4. CASE mixed' = TRUE
    BY <2>1, <2>4 DEF Delivery!Next, Delivery!Unorder
  <2> QED
    BY <2>2, <2>3, <2>4
<1>7. CASE Loop \/ Wait \/ Finish \/ UNCHANGED vars
  BY <1>1, <1>7 DEF Loop, Wait, Finish, DeleteReader, Stop, Join, ResetDispatcher, vars
<1>8. CASE UnregisterTopic \/ CloseDispatcher
  BY <1>1, <1>8 DEF UnregisterTopic, CloseDispatcher
<1>9. ASSUME NEW r \in Readers, EmitEnd(r) PROVE [Delivery!Next]_(Delivery!vars)
  BY <1>1, <1>9 DEF EmitEnd
<1>10. ASSUME NEW w \in Workers, Pool(w) PROVE [Delivery!Next]_(Delivery!vars)
  BY <1>1, <1>10, HandleEventMaps DEF Pool, Fetch
<1> QED
  BY <1>2, <1>3, <1>4, <1>5, <1>6, <1>7, <1>8, <1>9, <1>10
  DEF Next, Listening, EmitAll, Own, Destroyed, Readers

\* SampleFlow implements SampleDelivery: to the callbacks all the threads, batches
\* and queues look like one step per sample.
THEOREM FlowImplementsDelivery == Spec => ImplementsDelivery
<1>1. Init => EndInv
  BY DEF Init, EndInv, Readers
<1>2. Init => GoneOlder
  BY DEF Init, GoneOlder, Gone, Nothing, Has
<1>3. Init => Delivery!Init
  BY DEF Init, Delivery!Init
<1> QED
  BY <1>1, <1>2, <1>3, InitLoss, InitCalls, InitOrder, TypeCorrect, EndStep, LossStep,
     CacheStep, BatchStep, CallStep, SortedStep, OrderStep, GoneStep, StepDelivers, PTL
  DEF Spec, ImplementsDelivery, Delivery!Spec

=============================================================================
