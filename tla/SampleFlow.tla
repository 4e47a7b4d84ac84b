----------------------------- MODULE SampleFlow -----------------------------
(***************************************************************************)
(* The samples of one reader: from writeSample through the reader's cache  *)
(* to the application, which gets them in three ways that do not know of   *)
(* each other: the listener thread of the reader's Emitter, readCallbacks  *)
(* on a thread of the application, and takeSample or takeAllSamples.  With *)
(* asyncHandling an emitter hands its callbacks to the thread pool of the  *)
(* DDSManager.  unregisterTopic and ~DDSManager end all of it.             *)
(*                                                                         *)
(* The reader is modelled from how the code uses it: a history of every    *)
(* instance (KEEP_LAST Depth), and a DATA_AVAILABLE status that an arrival *)
(* sets and any read or take resets.                                       *)
(***************************************************************************)
EXTENDS Naturals, Sequences, FiniteSets

CONSTANTS
    Keys,        \* instances of the topic
    Depth,       \* samples the reader keeps per instance
    Callbacks,   \* functions the application adds
    Pollers,     \* application threads that read by hand
    Workers,     \* threads of the pool
    Listener,    \* the emitter's listener thread
    NoJob,       \* what a worker with nothing to do runs
    MaxSamples   \* bound: writes and disposals per instance

Readers == Pollers \cup {Listener}

ASSUME FlowAssumption ==
    /\ Depth \in Nat \ {0} /\ MaxSamples \in Nat
    /\ IsFiniteSet(Callbacks)
    /\ Workers # {} /\ Listener \notin Pollers
    /\ NoJob \notin [to : Callbacks, key : Keys, sample : 1..MaxSamples]

VARIABLES
    \* The reader.
    sent,            \* [Keys -> Nat]: samples sent, numbered per instance
    cache,           \* [Keys -> Seq(1..MaxSamples)]
    alive,           \* instances that are not disposed
    dataAvailable,   \* the DATA_AVAILABLE status
    exists,          \* the reader has not been deleted
    \* The emitter, and the threads that read.
    m_callbacks,     \* functions, from the first to the last added
    m_asyncEmitter,
    m_running,
    pc,              \* [Readers -> where the thread is]
    batch,           \* [Readers -> [Keys -> samples taken for callbacks]]
    \* The manager.
    inMap,           \* m_topics has the topic
    dispatcher,      \* "up", "closing" (in shutdown) or "gone"
    events,          \* the dispatcher's queue
    running,         \* [Workers -> the job of a worker]
    main,            \* where the thread that owns the manager is
    \* History.
    owed,            \* [Callbacks -> samples an emitter took while it had them]
    called,          \* [Callbacks -> the calls that were made, in order]
    left,            \* a poller's read left samples behind since the last arrival
    mixed            \* callbacks ran, or could run, on several threads

readerVars == <<sent, cache, alive, dataAvailable>>
emitterVars == <<m_callbacks, m_asyncEmitter, m_running>>
poolVars == <<dispatcher, events, running>>
history == <<owed, called, left, mixed>>
vars == <<readerVars, exists, emitterVars, pc, batch, inMap, poolVars, main,
          history>>

Job == [to : Callbacks, key : Keys, sample : 1..MaxSamples]
Call == [key : Keys, sample : 1..MaxSamples]

TypeOK ==
    /\ sent \in [Keys -> 0..MaxSamples]
    /\ cache \in [Keys -> Seq(1..MaxSamples)]
    /\ alive \subseteq Keys
    /\ dataAvailable \in BOOLEAN
    /\ exists \in BOOLEAN
    /\ m_callbacks \in Seq(Callbacks)
    /\ m_asyncEmitter \in BOOLEAN
    /\ m_running \in BOOLEAN
    /\ pc \in [Readers -> {"idle", "loop", "wait", "found", "loan", "emit"}]
    /\ batch \in [Readers -> [Keys -> Seq(1..MaxSamples)]]
    /\ inMap \in BOOLEAN
    /\ dispatcher \in {"up", "closing", "gone"}
    /\ events \in Seq(Job)
    /\ running \in [Workers -> Job \cup {NoJob}]
    /\ main \in {"live", "deleting", "stopping", "joining", "unregistered",
                 "closing", "destroyed"}
    /\ owed \in [Callbacks -> SUBSET Call]
    /\ called \in [Callbacks -> Seq(Call)]
    /\ left \in BOOLEAN
    /\ mixed \in BOOLEAN

Nothing == [k \in Keys |-> <<>>]

Init ==
    /\ sent = [k \in Keys |-> 0]
    /\ cache = Nothing
    /\ alive = {}
    /\ dataAvailable = FALSE
    /\ exists = TRUE
    /\ m_callbacks = <<>>
    /\ m_asyncEmitter = FALSE
    /\ m_running = FALSE
    /\ pc = [r \in Readers |-> "idle"]
    /\ batch = [r \in Readers |-> Nothing]
    /\ inMap = TRUE
    /\ dispatcher = "up"
    /\ events = <<>>
    /\ running = [w \in Workers |-> NoJob]
    /\ main = "live"
    /\ owed = [c \in Callbacks |-> {}]
    /\ called = [c \in Callbacks |-> <<>>]
    /\ left = FALSE
    /\ mixed = FALSE

-----------------------------------------------------------------------------
(* Writers, of this participant or of another.                             *)

\* A sample, or the news of a disposal, which is one too, arrives.
Arrive(k) ==
    /\ exists
    /\ sent[k] < MaxSamples
    /\ sent' = [sent EXCEPT ![k] = @ + 1]
    /\ cache' = [cache EXCEPT ![k] =
          Append(IF Len(@) < Depth THEN @ ELSE Tail(@), sent[k] + 1)]
    /\ dataAvailable' = TRUE
    /\ left' = FALSE
    /\ UNCHANGED <<exists, emitterVars, pc, batch, inMap, poolVars, main, owed,
                   called, mixed>>

\* writeSample and disposeSample, whose writer is found and has no error.
WriteSample(k) == Arrive(k) /\ alive' = alive \cup {k}

DisposeSample(k) == k \in alive /\ Arrive(k) /\ alive' = alive \ {k}

-----------------------------------------------------------------------------
(* Taking and reading.                                                     *)

\* The instances that have something for ALIVE_INSTANCE_STATE.
Available == {k \in alive : cache[k] # <<>>}

\* All samples of some of them.
TakeOf(keys) ==
    /\ cache' = [k \in Keys |-> IF k \in keys THEN <<>> ELSE cache[k]]
    /\ dataAvailable' = FALSE

\* A poller finds the reader under the shared lock and goes on without it.
GetReader(p) ==
    /\ pc[p] = "idle"
    /\ inMap /\ main = "live"
    /\ pc' = [pc EXCEPT ![p] = "found"]
    /\ UNCHANGED <<readerVars, exists, emitterVars, batch, inMap, poolVars, main,
                   history>>

\* takeSample: one sample.
TakeSample(p, k) ==
    /\ pc[p] = "found" /\ exists
    /\ k \in Available
    /\ cache' = [cache EXCEPT ![k] = Tail(@)]
    /\ dataAvailable' = FALSE
    /\ left' = (Available # {k} \/ Len(cache[k]) > 1)
    /\ pc' = [pc EXCEPT ![p] = "loan"]
    /\ UNCHANGED <<sent, alive, exists, emitterVars, batch, inMap, poolVars, main,
                   owed, called, mixed>>

\* takeAllSamples: all, with a filter perhaps only those of some instances;
\* with readOnly they stay in the reader.
TakeAllSamples(p, keys, readOnly) ==
    /\ pc[p] = "found" /\ exists
    /\ keys \subseteq Available /\ keys # {}
    /\ IF readOnly
       THEN /\ left' = TRUE
            /\ dataAvailable' = FALSE
            /\ UNCHANGED cache
       ELSE /\ left' = (keys # Available)
            /\ TakeOf(keys)
    /\ pc' = [pc EXCEPT ![p] = "loan"]
    /\ UNCHANGED <<sent, alive, exists, emitterVars, batch, inMap, poolVars, main,
                   owed, called, mixed>>

\* Nothing matches, or the reader is gone: the calls return false.  A take of
\* nothing resets the status, too.
TakeNothing(p) ==
    /\ pc[p] = "found"
    /\ dataAvailable' = (dataAvailable /\ ~exists)
    /\ left' = (left \/ (exists /\ Available # {}))
    /\ pc' = [pc EXCEPT ![p] = "idle"]
    /\ UNCHANGED <<sent, cache, alive, exists, emitterVars, batch, inMap, poolVars,
                   main, owed, called, mixed>>

\* The sample is copied and the loan returned.
ReturnLoan(p) ==
    /\ pc[p] = "loan"
    /\ pc' = [pc EXCEPT ![p] = "idle"]
    /\ UNCHANGED <<readerVars, exists, emitterVars, batch, inMap, poolVars, main,
                   history>>

-----------------------------------------------------------------------------
(* The emitter.                                                            *)

Emitting == {r \in Readers : pc[r] = "emit"}

\* Every sample of a batch is for every callback.
OwedFor(samples) ==
    [c \in Callbacks |->
        IF \E i \in 1..Len(m_callbacks) : m_callbacks[i] = c
        THEN owed[c] \cup
             UNION { {[key |-> k, sample |-> samples[k][i]] : i \in 1..Len(samples[k])}
                     : k \in Keys }
        ELSE owed[c]]

\* Mutant: readQueue takes one sample of each instance.
ReadQueueFirst(r) ==
    LET some == [k \in Keys |-> IF k \in Available THEN <<Head(cache[k])>> ELSE <<>>]
    IN  /\ batch' = [batch EXCEPT ![r] = some]
        /\ owed' = OwedFor(some)
        /\ cache' = [k \in Keys |-> IF k \in Available THEN Tail(cache[k]) ELSE cache[k]]
        /\ dataAvailable' = FALSE
        /\ pc' = [pc EXCEPT ![r] = "emit"]

\* Mutant: readQueue reads instead of taking.
ReadQueueReads(r) ==
    LET all == [k \in Keys |-> IF k \in Available THEN cache[k] ELSE <<>>] IN
    /\ batch' = [batch EXCEPT ![r] = all]
    /\ owed' = OwedFor(all)
    /\ dataAvailable' = FALSE
    /\ pc' = [pc EXCEPT ![r] = "emit"]
    /\ UNCHANGED cache

\* readQueue takes whatever instances that are alive have.
ReadQueue(r) ==
    LET all == [k \in Keys |-> IF k \in Available THEN cache[k] ELSE <<>>] IN
    /\ batch' = [batch EXCEPT ![r] = all]
    /\ owed' = OwedFor(all)
    /\ TakeOf(Available)
    /\ pc' = [pc EXCEPT ![r] = "emit"]

\* addCallback: the function is the last one from now on, its asyncHandling
\* counts for all of them, and without queueMessages the listener is started.
\* (Not while an emitter calls back: TopicRegistry has that race.)
AddCallback(c, queueMessages, asyncHandling) ==
    /\ main = "live"
    /\ Emitting = {}
    /\ \A i \in 1..Len(m_callbacks) : m_callbacks[i] # c
    /\ m_callbacks' = Append(m_callbacks, c)
    /\ m_asyncEmitter' = asyncHandling
    /\ mixed' = (mixed \/ asyncHandling)
    /\ IF queueMessages \/ m_running
       THEN UNCHANGED <<m_running, pc>>
       ELSE /\ m_running' = TRUE
            /\ pc' = [pc EXCEPT ![Listener] = "loop"]
    /\ UNCHANGED <<readerVars, exists, batch, inMap, poolVars, main, owed, called,
                   left>>

\* readCallbacks, with the shared lock until its callbacks have returned.
ReadCallbacks(p) ==
    /\ pc[p] = "idle"
    /\ inMap /\ main = "live" /\ exists
    /\ m_callbacks # <<>>
    /\ ReadQueue(p)
    /\ mixed' = (mixed \/ m_running \/ Emitting # {})
    /\ UNCHANGED <<sent, alive, exists, emitterVars, inMap, poolVars, main, called,
                   left>>

\* The listener's loop ...
Loop ==
    /\ pc[Listener] = "loop"
    /\ pc' = [pc EXCEPT ![Listener] = IF m_running THEN "wait" ELSE "idle"]
    /\ UNCHANGED <<readerVars, exists, emitterVars, batch, inMap, poolVars, main,
                   history>>

\* ... waits for DATA_AVAILABLE, 10 ms at most ...
Wait ==
    /\ pc[Listener] = "wait"
    /\ pc' = [pc EXCEPT ![Listener] = IF dataAvailable THEN "found" ELSE "loop"]
    /\ UNCHANGED <<readerVars, exists, emitterVars, batch, inMap, poolVars, main,
                   history>>

\* ... and calls readQueue, unless the reader is gone.
Listen ==
    /\ pc[Listener] = "found"
    /\ IF exists
       THEN ReadQueue(Listener)
       ELSE pc' = [pc EXCEPT ![Listener] = "loop"]
            /\ UNCHANGED <<cache, dataAvailable, batch, owed>>
    /\ mixed' = (mixed \/ Emitting # {})
    /\ UNCHANGED <<sent, alive, exists, emitterVars, inMap, poolVars, main, called,
                   left>>

\* Mutant: the samples of an instance are handed out from the last.
EmitLast(r, k) ==
    /\ pc[r] = "emit"
    /\ batch[r][k] # <<>>
    /\ LET call == [key |-> k, sample |-> batch[r][k][Len(batch[r][k])]]
           jobs == [i \in 1..Len(m_callbacks) |->
                       [to |-> m_callbacks[i], key |-> k, sample |-> call.sample]] IN
         IF m_asyncEmitter
         THEN /\ events' = IF dispatcher = "up" THEN events \o jobs ELSE events
              /\ UNCHANGED called
         ELSE /\ called' = [c \in Callbacks |->
                    IF \E i \in 1..Len(m_callbacks) : m_callbacks[i] = c
                    THEN Append(called[c], call) ELSE called[c]]
              /\ UNCHANGED events
    /\ batch' = [batch EXCEPT ![r][k] = SubSeq(@, 1, Len(@) - 1)]
    /\ UNCHANGED <<readerVars, exists, emitterVars, pc, inMap, dispatcher, running,
                   main, owed, left, mixed>>

\* emitMessage for the next sample of an instance: every callback is called,
\* or dispatched, if there still is a dispatcher that takes events.
Emit(r, k) ==
    /\ pc[r] = "emit"
    /\ batch[r][k] # <<>>
    /\ LET call == [key |-> k, sample |-> Head(batch[r][k])]
           jobs == [i \in 1..Len(m_callbacks) |->
                       [to |-> m_callbacks[i], key |-> k, sample |-> call.sample]] IN
         IF m_asyncEmitter
         THEN /\ events' = IF dispatcher = "up" THEN events \o jobs ELSE events
              /\ UNCHANGED called
         ELSE /\ called' = [c \in Callbacks |->
                    IF \E i \in 1..Len(m_callbacks) : m_callbacks[i] = c
                    THEN Append(called[c], call) ELSE called[c]]
              /\ UNCHANGED events
    /\ batch' = [batch EXCEPT ![r][k] = Tail(@)]
    /\ UNCHANGED <<readerVars, exists, emitterVars, pc, inMap, dispatcher, running,
                   main, owed, left, mixed>>

\* The loan is returned; readCallbacks gives the lock up.
EmitEnd(r) ==
    /\ pc[r] = "emit"
    /\ batch[r] = Nothing
    /\ pc' = [pc EXCEPT ![r] = IF r = Listener THEN "loop" ELSE "idle"]
    /\ UNCHANGED <<readerVars, exists, emitterVars, batch, inMap, poolVars, main,
                   history>>

-----------------------------------------------------------------------------
(* The thread pool.                                                        *)

\* A worker gets the oldest event ...
Fetch(w) ==
    /\ running[w] = NoJob
    /\ events # <<>>
    /\ running' = [running EXCEPT ![w] = Head(events)]
    /\ events' = Tail(events)
    /\ UNCHANGED <<readerVars, exists, emitterVars, pc, batch, inMap, dispatcher,
                   main, history>>

\* Mutant: the job captures the sample by reference, and what it refers to is gone
\* once the loan has been returned.
HandleEventDangling(w) ==
    /\ running[w] # NoJob
    /\ LET job == running[w]
           sample == IF Emitting = {} THEN 0 ELSE job.sample
       IN called' = [called EXCEPT ![job.to] =
                        Append(@, [key |-> job.key, sample |-> sample])]
    /\ running' = [running EXCEPT ![w] = NoJob]
    /\ UNCHANGED <<readerVars, exists, emitterVars, pc, batch, inMap, dispatcher,
                   events, main, owed, left, mixed>>

\* ... and calls the function, which has a copy of the sample.
HandleEvent(w) ==
    /\ running[w] # NoJob
    /\ LET job == running[w] IN
         called' = [called EXCEPT ![job.to] =
                       Append(@, [key |-> job.key, sample |-> job.sample])]
    /\ running' = [running EXCEPT ![w] = NoJob]
    /\ UNCHANGED <<readerVars, exists, emitterVars, pc, batch, inMap, dispatcher,
                   events, main, owed, left, mixed>>

-----------------------------------------------------------------------------
(* unregisterTopic and ~DDSManager.                                        *)

\* Mutant: readCallbacks does not keep the shared lock.
UnregisterTopicNow ==
    /\ main = "live"
    /\ inMap' = FALSE
    /\ main' = "deleting"
    /\ UNCHANGED <<readerVars, exists, emitterVars, pc, batch, poolVars, history>>

\* The exclusive lock is free when no readCallbacks is under way.
UnregisterTopic ==
    /\ main = "live"
    /\ Emitting \subseteq {Listener}
    /\ inMap' = FALSE
    /\ main' = "deleting"
    /\ UNCHANGED <<readerVars, exists, emitterVars, pc, batch, poolVars, history>>

\* ~TopicGroup: delete_datareader, refused while samples are on loan ...
DeleteReader ==
    /\ main = "deleting"
    /\ exists' = (\E r \in Readers : pc[r] \in {"loan", "emit"})
    /\ main' = "stopping"
    /\ UNCHANGED <<readerVars, emitterVars, pc, batch, inMap, poolVars, history>>

\* ... and stop(), which joins the listener if it was ever started.
Stop ==
    /\ main = "stopping"
    /\ m_running' = FALSE
    /\ main' = "joining"
    /\ UNCHANGED <<readerVars, exists, m_callbacks, m_asyncEmitter, pc, batch, inMap,
                   poolVars, history>>

\* Mutant: the listener is not joined.
JoinNot ==
    /\ main = "joining"
    /\ main' = "unregistered"
    /\ UNCHANGED <<readerVars, exists, emitterVars, pc, batch, inMap, poolVars,
                   history>>

Join ==
    /\ main = "joining"
    /\ pc[Listener] = "idle"
    /\ main' = "unregistered"
    /\ UNCHANGED <<readerVars, exists, emitterVars, pc, batch, inMap, poolVars,
                   history>>

\* ~DDSManager, when no call on the manager is under way: the participant goes
\* with what is left in it, then the dispatcher: shutdown() takes no more
\* events ...
CloseDispatcher ==
    /\ main = "unregistered"
    /\ \A p \in Pollers : pc[p] = "idle"
    /\ exists' = FALSE
    /\ dispatcher' = "closing"
    /\ main' = "closing"
    /\ UNCHANGED <<readerVars, emitterVars, pc, batch, inMap, events, running,
                   history>>

\* ... and waits for those it has.
ResetDispatcher ==
    /\ main = "closing"
    /\ events = <<>>
    /\ \A w \in Workers : running[w] = NoJob
    /\ dispatcher' = "gone"
    /\ main' = "destroyed"
    /\ UNCHANGED <<readerVars, exists, emitterVars, pc, batch, inMap, events,
                   running, history>>

-----------------------------------------------------------------------------

Write == \E k \in Keys : WriteSample(k) \/ DisposeSample(k)

Poll(p) ==
    \/ GetReader(p) \/ ReadCallbacks(p)
    \/ \E k \in Keys : TakeSample(p, k)
    \/ \E keys \in SUBSET Keys, readOnly \in BOOLEAN :
          TakeAllSamples(p, keys, readOnly)
    \/ TakeNothing(p) \/ ReturnLoan(p)

\* What a thread does once it has samples for callbacks.
EmitAll(r) == (\E k \in Keys : Emit(r, k)) \/ EmitEnd(r)

Listening == Loop \/ Wait \/ Listen \/ EmitAll(Listener)

Pool(w) == Fetch(w) \/ HandleEvent(w)

\* The owner's calls, and what it does inside one that it has begun.
Own ==
    \/ \E c \in Callbacks, queueMessages, asyncHandling \in BOOLEAN :
          AddCallback(c, queueMessages, asyncHandling)
    \/ UnregisterTopic \/ CloseDispatcher

Finish == DeleteReader \/ Stop \/ Join \/ ResetDispatcher

Destroyed == main = "destroyed" /\ UNCHANGED vars

Next ==
    \/ Write \/ Listening \/ Own \/ Finish
    \/ \E p \in Pollers : Poll(p) \/ EmitAll(p)
    \/ \E w \in Workers : Pool(w)
    \/ Destroyed

Spec == Init /\ [][Next]_vars

\* Threads that have something to do run, and callbacks return.  Nothing obliges
\* the application to make a call.
Fairness ==
    /\ WF_vars(Listening)
    /\ WF_vars(Finish)
    /\ \A p \in Pollers : WF_vars(EmitAll(p))
    /\ \A w \in Workers : WF_vars(Pool(w))

FairSpec == Spec /\ Fairness

-----------------------------------------------------------------------------
(* Properties.                                                             *)

\* What is on its way to callback c: in a batch that is being handed out, in
\* the queue of the pool, with a worker.
UnderWay(c) ==
    { call \in Call :
        \/ \E i \in 1..Len(m_callbacks) : m_callbacks[i] = c
           /\ \E r \in Readers : \E j \in 1..Len(batch[r][call.key]) :
                 batch[r][call.key][j] = call.sample
        \/ \E j \in 1..Len(events) :
              events[j] = [to |-> c, key |-> call.key, sample |-> call.sample]
        \/ \E w \in Workers :
              running[w] = [to |-> c, key |-> call.key, sample |-> call.sample] }

Got(c) == {called[c][i] : i \in 1..Len(called[c])}

\* Every sample that an emitter took is for every callback it had then: it is
\* under way to it or was given to it, whichever threads took samples, whether
\* the pool or the listener makes the calls, and however the topic and the
\* manager ended in the meantime.
NothingLost == \A c \in Callbacks : owed[c] = UnderWay(c) \cup Got(c)

\* And it is given to it once, although listener, readCallbacks and takeSample
\* compete for the samples.
CalledOnce == \A c \in Callbacks : Cardinality(Got(c)) = Len(called[c])

\* Both: each sample an emitter took is handed to each of its callbacks exactly
\* once, now or later.
ExactlyOnce == NothingLost /\ CalledOnce

\* A callback sees the samples of an instance in the order they were sent: as
\* long as no callback was asynchronous and no two threads emitted.
InOrder ==
    mixed \/ \A c \in Callbacks : \A i, j \in 1..Len(called[c]) :
        (i < j /\ called[c][i].key = called[c][j].key) =>
            called[c][i].sample < called[c][j].sample

\* unregisterTopic returns when the topic's own threads call back no more, and
\* when the manager is gone no function of the application is called at all,
\* by whatever thread.
QuietAfterwards ==
    /\ main \in {"unregistered", "closing", "destroyed"} => Emitting = {}
    /\ main = "destroyed" =>
          events = <<>> /\ \A w \in Workers : running[w] = NoJob

\* A listener does not sleep on samples it could take: they make the status
\* wake it, unless an application thread read the same reader by hand and left
\* them there.
NoLostWakeup ==
    (m_running /\ exists /\ Available # {}) => dataAvailable \/ left

\* With a listener every sample of an instance that is alive reaches the
\* callbacks: it is taken, unless the topic goes, the instance is disposed or
\* somebody else reads.
Consumed ==
    \A k \in Keys :
        (m_running /\ k \in Available /\ ~left) ~>
            (k \notin Available \/ ~m_running \/ left)

\* What an emitter owes a callback is called in the end, also when the manager
\* is destroyed before the pool has got to it.
CalledInTheEnd ==
    \A c \in Callbacks : (owed[c] # Got(c)) ~> (owed[c] = Got(c))

\* SampleFlow implements SampleDelivery: whatever the listener, the pollers, the
\* pool and the owner do in between, the callbacks see one step per sample, in
\* which it is given to whom it was owed.
Delivery == INSTANCE SampleDelivery WITH
                Calls <- Call, got <- called, ordered <- ~mixed

ImplementsDelivery == Delivery!Spec
=============================================================================
