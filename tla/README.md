# A verification project for OpenDDW

OpenDDW is a C++ layer over OpenDDS. An application joins a domain, registers
topics, creates readers and writers under names of its own, and gets data by
polling or by callbacks. `DDSManager` does the work. Everything in it is shared
by the application's threads, by the listener threads that OpenDDW starts itself,
by the threads of OpenDDS that call its listeners, and by the tasks that shut a
manager down; what can go wrong is mostly a matter of who holds what when.

The modules here model the topic map, the life of a topic, the way of a sample to
the application, the participants of a domain, the joining of domains and the QoS
of endpoints, check them with TLC on small instances, and prove the central
invariants with TLAPS for any number of threads, topics, samples, participants and
managers.

    tlc -workers 2 -config registry_churn.cfg MCTopicRegistry.tla
    tlapm TopicRegistryProofs.tla

## 1. The system

| Part | Source | State | Operations |
|---|---|---|---|
| Topic map | `dds_manager.{h,hpp,cpp}` | `m_topics` (name -> `shared_ptr<TopicGroup>`), `m_topicMutex` (a `shared_mutex`) | `registerTopic`, `registerQos`, `set*Qos`, `createPublisher`, `createSubscriber`, `addCallback`, `readCallbacks`, `getWriter`/`getReader`, `unregisterTopic`, `replaceFilter`, `cleanUpTopicsForOneManager` |
| Topic group | same | topic, publisher, writer, subscriber, readers, filtered topics, listeners, emitters, QoS | creation by the calls above, the destructor |
| Emitter | `dds_callback.{h,cpp}` | reader, callbacks, `m_running`, the listener thread, an optional thread pool | `addCallback`, `run`, `listen`, `readQueue`, `stop` |
| Sample I/O | `dds_manager.hpp` | none of its own; the reader's cache and status | `takeSample`, `takeAllSamples`, `writeSample`, `disposeSample` |
| Domain and transports | `dds_manager.cpp` | the participant, global `g_transportInstances`, OpenDDS's transport registry | `joinDomain`, `~DDSManager`, `enableDomain` |
| QoS | `qos_dictionary.{h,cpp}`, `dds_manager.cpp` | QoS of each group, statics with defaults | presets, set/get, partitions, `setMaxDataRate` |
| Participant monitor | `participant_monitor.{h,cpp}` | `m_info_map` | two `on_data_available` handlers, `onAdd`, `onRemove` |
| Simple manager | `dds_simple.h` | `m_pubMap`, `m_subMap` (type -> topic) | `Publisher`, `Subscriber`, `Callback`, `Listener`, `Write` |
| Status listeners | `dds_listeners.{h,cpp}` | a handler pointer | log and forward |
| Logging, platform | `dds_logging.*`, `platformIndependent.h` | none | output, files, environment |

**How they interact.** Every call of `DDSManager` takes `m_topicMutex`, looks the
name up, and works on the `TopicGroup` it finds: some calls under the lock, some
with a `shared_ptr` copy after the unlock, some (`addCallback`, `readCallbacks`)
with the lock held while they call a method that takes it again. An emitter's
listener thread waits on a reader and runs the application's callbacks, or hands
them to the manager's thread pool; a callback may call the manager. The
application's own reads take from the same reader. `~TopicGroup` deletes the DDS
entities and joins the listener threads, on whichever thread drops the last
`shared_ptr`; `~DDSManager` unregisters everything and then shuts the pool down.
`DDSSimpleManager` is a `DDSManager` whose calls are sequences of these, and its
`joinDomain` makes a `ParticipantMonitor`, whose handlers run on OpenDDS's threads.
Several managers of one process share OpenDDS's transport registry and one global
counter.

**What is hard.** The mutex is given up and taken again inside calls
(`registerTopic`, `registerQos`), pointers are used after the unlock, destructors
that join run where a `shared_ptr` happens to die, the same lock is taken twice on
one thread, some insertions into containers are made under the *shared* lock, a
creation can fail after others have succeeded, and the order of `~TopicGroup` puts
the deletion of the readers before the end of the threads that read from them. Two
handlers write the entry of one participant and call back outside the mutex. Three
ways of reading compete for a reader's samples and for its status. A topic can be
found between its creation and its QoS. `PROJECT.json` lists these hazards at their
lines with the properties for them.

**What makes each part correct.**

- Topic map: it behaves like a map whose operations are atomic, on objects that
  live exactly as long as somebody can reach them (`TopicMap`). What was found under
  the lock stays; groups die outside the lock; each call returns; what a thread set
  up is not replaced.
- Topic group: pointers and entities agree whatever failed; the teardown leaves
  nothing; every listener thread has a reader, and is joined.
- Samples and emitter: what an emitter takes reaches each of its callbacks exactly
  once, in order where one thread delivers; no listener sleeps on samples; nothing
  is called once the topic, or the manager, is gone.
- Transports: a participant that makes its own shares them with nobody; a successful
  join has bound one.
- Participant monitor: when the handlers are through, the map and what the
  application was told last agree with the domain.
- QoS and simple manager: a writer and a reader of one topic match; a rate that was
  accepted is kept; the topic that a type is mapped to has what it is mapped for.

## 2. The modules

| Module | Content |
|---|---|
| `TopicMap` | abstract: an atomic map of reference-counted objects |
| `TopicRegistry` | the topic map, its mutex and the group life cycle, on concurrent threads; implements `TopicMap` |
| `TopicGroup` | one topic: entities, failures, emitters, `replaceFilter`, destructor |
| `SampleDelivery` | abstract: callbacks get each sample they are owed, once, in order while one thread calls |
| `SampleFlow` | one reader: writes, reads, listener thread, callbacks, thread pool, the end of topic and manager; implements `SampleDelivery` |
| `ParticipantMonitor` | two built-in readers, two handlers, the map and the callbacks |
| `TransportJoin` | `joinDomain` and `~DDSManager` for several managers |
| `TopicQos` | the presets of `QosDictionary`, and what OpenDDS makes of them |
| `SimpleManager` | the calls of `DDSSimpleManager` and what endpoints end up with; uses `TopicQos` |
| `MC*` | instances for TLC |
| `*Proofs` | theorems and proofs about the module of that name (`TopicMapProofs`: that `TopicRegistry` implements `TopicMap`; `TopicOwnerProofs`: `TopicRegistry` where one thread owns the topics) |

Some modules hold *mutants* besides the definitions of the code: the same operation
with a plausible bug, by which each property is shown to have teeth.

### TopicRegistry and TopicMap

An *actor* is a thread: an application thread, the listener thread of a group
(named by the group), or the asynchronous task that unregisters a topic in
`cleanUpTopicsForOneManager` (named by the topic). `pc[a]` is the place in the
code; its values are named after the call and what comes next:

| Code | Actions |
|---|---|
| `registerTopic` | `RegFindNone`/`RegFindSome`, `RegCreate` (without the lock), `RegStore`, then `registerQos` |
| `registerQos` | `QosFind`, `QosCheck`, three times `set*Qos`, `QosPreset` |
| `set*Qos` | `SetFind`, `SetInsert` (under the shared lock, as in the code), `SetDone` |
| `unregisterTopic` | `UnregErase`, then the release of the last reference |
| `createPublisher`, `createSubscriber` | `PubCreate`; `SubFind`, `SubStore` |
| `addCallback` | `CbFind`, the nested `getReader` (`CbReader`), `CbEmitter`, unlock, `CbRun` |
| `readCallbacks`, `getWriter` | `ReadFind`, `ReadEmit`, and under the shared lock a callback's nested `getWriter` (`ReadReply`), or its wait for the exclusive lock (`NestedWait`); `GetFind` |
| `cleanUpTopicsForOneManager` | `CleanSpawn`, `CleanJoin`, `CleanClear` |
| leaving a function | `DropLocal`, `DropLock`, `DropOwner` in the order in which the code's locals are declared, then `Return` |
| `~TopicGroup` | `Destroy` (stop), `Join` |
| the listener thread | `Call` for a callback that calls the manager, `ListenerExit` |

`status[g]` is the life of a group object. Its `shared_ptr` count is not a
variable: it is the number of places (`m_topics`, `owner`, `local`) that point to
it, and the action that clears the last one starts the destructor. `unique` and
`shared` are the mutex; `shared[a]` counts nested acquisitions. Whether a new
reader gets past a waiting writer is not settled by C++ or POSIX; the constant
`WriterPreferring` decides. A group holds here what the calls branch on (is there a
topic, a preset, a writer, a reader, an emitter); one reader name per topic.

`CallbackCalls` is what a data callback calls, on the listener thread as well as inside
`readCallbacks`, where the shared lock is held: `getWriter` takes it a second time,
`createPublisher` and `unregisterTopic` wait for the exclusive lock that their own thread
keeps away. `RegistryAssumption` allows no other call where `readCallbacks` is in use.
`AddToRunning` says whether callbacks are added to emitters that already run. For
`DataRaceFree` each step has the members of the group that it writes (`WrittenAt`) and
reads (`ReadAt`), the emitter's list of callbacks among them, over which `readCallbacks`
and the listener thread iterate.

`TopicMap` has no locks and no steps inside a call: `Make`, `Get`, `Put`, `Remove`,
`Clear`, `Drop` act on a map and on what each actor holds, and a group dies in the
step in which its last reference goes away. The refinement maps `entry` to
`m_topics`, `life` to `status` and `held` to the groups of `owner` and `local`.

### TopicGroup

One application thread makes the calls one after the other (`TopicRegistry` has
them race) and every creation may fail at every point. `m` holds the members of the
group, `dds` what exists in the participant: they are kept apart, so that a
pointer without entity, or an entity without pointer, is a state. The destructor
is one action per statement group, because the listener threads run in between:
`DeleteReader`, `DeleteEndpoints`, `StopEmitter`, `JoinEmitter`, `ClearEmitters`,
`DeleteTopics`. `replaceFilter` ends where the code does, at the dereference of the
null pointer. OpenDDS is modelled from how the code uses it: creations may fail,
names of filtered topics are unique per participant, and a deletion is refused
while what it would delete is in use (a reader with a loan, a subscriber with a
reader, a topic with either).

### SampleFlow and SampleDelivery

One reader with its KEEP_LAST history per instance (`cache`), its instances that
are alive and its DATA_AVAILABLE status, which an arrival sets and *any* read or
take resets, modelled from how the code uses it. Three kinds of threads read:

| Code | Actions |
|---|---|
| `writeSample`, `disposeSample` | `WriteSample`, `DisposeSample` (the arrival at the reader) |
| `takeSample`, `takeAllSamples` | `GetReader` under the lock, then without it `TakeSample` or `TakeAllSamples` (filtered to some instances, or read only), `TakeNothing`, `ReturnLoan` |
| `readCallbacks` | `ReadCallbacks`, `Emit`, `EmitEnd`, with the shared lock throughout |
| `Emitter::listen` | `Loop`, `Wait` (10 ms at most), `Listen`, `Emit`, `EmitEnd` |
| `addCallback` | `AddCallback`; the last caller's `asyncHandling` holds for all callbacks |
| thread pool | `Fetch`, `HandleEvent` |
| `unregisterTopic`, `~TopicGroup` | `UnregisterTopic`, `DeleteReader`, `Stop`, `Join` |
| `~DDSManager` | `CloseDispatcher`, `ResetDispatcher` |

Samples are numbered per instance, so that loss, repetition and order are visible.
`owed`, `called`, `left` and `mixed` are history: what an emitter took for a
callback, what the callback got, whether an application's own read left samples
behind, whether calls ran on several threads. A callback is added only while no
emitter calls back: the race of doing so is a hazard that is undefined in C++.
A filter of `takeAllSamples` picks whole instances here, and `takeSample` the oldest
sample of one, for a sample has no contents.

`SampleDelivery` knows neither reader nor threads, only what callbacks are `owed` and
what they `got`. The refinement maps `owed` to `owed`, `got` to `called` and `ordered`
to `~mixed`. `Take` is the `readQueue` of the listener or of `readCallbacks`; `Give` is
`emitMessage` where callbacks are called directly and `HandleEvent` where the pool calls
them. The order ends with an `addCallback` that makes the emitter asynchronous
(`Unorder`) or with a `readQueue` beside another emitter (`Take`, or `Unorder` if the
reader is gone by then). All other steps are stutters.

### ParticipantMonitor

`Join`, `Announce` and `Depart` are the domain: OpenDDS adds a sample to the history
of the reader for the participants' data, or of that for their locations, and calls
the listener if there is one. A participant may come back under its GUID. `Install`
and `InstallFails` are the constructor, one reader after the other. Each handler is
`Take` (the batch), `Handle` (one sample, from the lock to the unlock of
`m_info_map_mutex`) and `Notify` (the application's function, without the mutex):
between any two of these the other handler may run.

### TransportJoin

Each manager is used by one thread, and these interleave at every access to
`g_transportInstances` and the registry, as `m_transportMapMutex` is a member of
each manager and so protects nothing against another manager. Names such as
`config-3-1` are pairs of domain and count. `rtps` is the number of `rtps_udp`
instances of the INI file's global configuration. `raced` (have two managers been
joining at once?) and `spoiled` (managers that kept the participant of a join that
failed half-way) are auxiliary: no guard reads them, they let the properties name
the two ways in which the code does fall short. The registry refuses names that
are taken and keeps what was created for the life of the process.

`carried` are the transports that a join has made for its participant. A participant
that is bound to a section of the INI file, or that was left unbound, uses the INI file's
own transports instead, which `UsedBy` adds: every such participant has the same ones.
`UniqueTransport` says that this is the only sharing there is, and whom it can befall.

### TopicQos and SimpleManager

`TopicQos` has the policies in which the four presets differ (durability,
reliability, history), when a writer and a reader match, and `minimum_separation` as
the code computes it, in 32 bits. `SimpleManager` runs the calls of
`DDSSimpleManager` on several threads, each step being what is done under one lock or
between two:

| Code | Actions |
|---|---|
| `registerTopic` | `RegisterTopic` (the lookup), `CreateTopic` (without a lock), `StoreTopic`, then `registerQos` |
| `registerQos` | `RegisterQos` (the second lookup), `CheckPreset`, `RegisterReaderQos`, `RegisterWriterQos`, `RegisterPreset` |
| `Publisher`, `Subscriber`, `Callback` | these, then `CreatePublisher` or `CreateSubscriber` with its failures and the entry in `m_pubMap` or `m_subMap` |
| `Listener` | the same, then `SetListener` |
| `setMaxDataRate` | `GetReader`, `GetReaderQos`, `SetMaxDataRate` |
| `addPartition`, `setReaderQos`, `setWriterQos` | `AddPartition`, `CustomReaderQos`, `CustomWriterQos` |

Two threads may both miss a topic, create it and store it, as in the code: the second
store replaces the group of the first. A group is named by its topic and the number of
the call that made it, so that a replaced one is told from its successor. Topics stay
registered (`TopicRegistry` has them go). `promised` (the rate set last) and `odd` (what
went otherwise than planned with a topic: `"twice"` for the double registration) are
history.

### Not modelled

- `replaceFilter` and the two `Set*ListenerHandler` calls on concurrent threads.
  `replaceFilter` is in `TopicGroup`: its calls return early or end at the null
  dereference of finding 4, so that what else its locking could do (join a
  listener under the shared lock, meet a topic that was unregistered between two
  lookups) comes before the same end. `Set*ListenerHandler` walk the map without any
  lock, for which a race-freedom property would only repeat the code.
- `setTopicQos`, `setPublisherQos`, `setSubscriberQos`: store and forward; their
  insertion into the map is in `TopicRegistry`. Policies in which no preset differs.
- `WaitForSubscriber`, `WaitForPublisher` and the other waiting loops of the simple
  manager: they poll a count of OpenDDS against a clock.
- `-ORB` arguments, security, `enableDomain`, environment and file lookup.
- Status listeners (log and forward), logging, platform helpers: no state.
- Sample contents and types; memory that runs out; OpenDDS's own threads, except
  through what they call, what OpenDDS refuses and how long a wait lasts.

## 3. The runs

| Run | What it checks | Bounds |
|---|---|---|
| `registry_owner` | One thread owns the topic, reads it and shuts down, another publishes, and a data callback gets a writer; callbacks are added before the listener runs: `DataRaceFree`, `DestroyOutsideLock`, `NoSelfJoin`, `FallbackUnused`, `NoLostEntities`, and under fairness `CallsReturn` | 2 threads, 1 topic, 2 groups, 5 and 2 calls, 1 callback |
| `registry_churn` | Two threads register, configure and unregister the same topic against each other: `TypeOK`, `NoUseAfterFree`, `LookupStable`, `AliveIffReferenced`, and the refinement `ImplementsMap` | 2 threads, 1 topic, 3 groups, 3 calls each |
| `group_life` | A whole life with failures, filters, two listener threads, `replaceFilter`, teardown: `TypeOK`, `PointersMatch`, `LeakOnlyByLoan`, `CallbacksServed`, `ThreadHasReader`, `ThreadsJoined`, and under fairness `TeardownEnds` | 2 reader names, calls unbounded |
| `samples` | Listener, pool, `readCallbacks` and hand-made reads compete for one reader until the manager is gone: `TypeOK`, `ExactlyOnce`, `InOrder`, `QuietAfterwards`, `NoLostWakeup`, the refinement `ImplementsDelivery`, and under fairness `Consumed` and `CalledInTheEnd` | 1 instance, 3 samples, history of 2, 2 callbacks, 1 poller, 1 worker |
| `participants` | A participant comes, is announced, leaves and comes back while the handlers lag behind: `TypeOK`, `DepartedForgotten`, `PresentKnown`, `InfoComplete`, and under fairness `LossReported` | 1 participant, 3 joins, 3 announcements, history of 2 |
| `simple` | Two threads register one topic and set up its endpoints with different presets, lock by lock, while QoS, partition and rate change: `TypeOK`, `EndpointsMatch`, `RateKept`, `MapsServe` | 2 threads, 1 topic, 2 reader names, 2 calls that make endpoints and 2 others, rates 999, 1000 and 4295 ms, 2 presets |
| `transport_join` | Two managers join, fail, are deleted and join again: `TypeOK`, `UniqueTransport`, `JoinedIsBound`, `CounterCovers` | 2 managers, 2 domains, 2 joins each, 0 to 2 transports in the INI file |
| `registry_register_race` | violates `DestroyOutsideLock` | see findings |
| `registry_data_race` | violates `DataRaceFree` | see findings |
| `registry_writer_preferring` | violates `CallsReturn` | see findings |
| `group_replace_filter` | violates `NoCrash` | see findings |
| `group_teardown` | violates `CleanTeardown` | see findings |

**Bounds.** `MainCalls`, `WorkerCalls`, `MaxCallbacks`, `MaxJoins`, `MaxUpdates`,
`MaxSamples`, `MaxCalls`, `MaxMakings` and `MaxChanges` are the only caps, and all are guards. Every interaction
of the topic map is between two threads and at most one listener thread over one
name: a lookup, a replacement or an erasure in between. Three calls each in
`registry_churn` are enough for register, use and unregister on one side and the
same on the other, and three cells for a group that is replaced, its successor and
one being made. In `registry_owner` five calls are register, subscribe, callback,
unregister and one more: the topic comes back. In `samples` three samples overrun a
history of two, and one poller, one worker and the listener are one thread of each
kind; that more instances and threads change nothing is what the proofs say. In
`participants` the participants do not interact; three joins let a departure and two
returns pile up behind one handler. In `simple` 999 ms is the last rate that fits,
1000 the first that does not, and the product of 4295 wraps around to a valid
value; two calls that make endpoints are one thread's beside another's, or a writer's
and a reader's, and two others are a rate and a QoS or a partition. Two managers
with two joins each have a join after a deletion and one at the same time as
another's, and either may name a section. `TopicGroup` is finite without bounds. The next-state relations fire all their actions and
disjuncts over the passing runs. `Finished`, `Stopped`, `Destroyed`, `Quiet` and
`Done` let a system that is through rest, so the deadlock check stays on and a
thread stuck anywhere is an error; `registry_writer_preferring` turns it off, for
there the deadlock is what the temporal property reports.

**Fairness.** `TopicRegistry`: weak fairness of every actor's steps inside a call,
and of `ListenerExit`. The scheduler runs each thread that can run, and a listener's
wait times out after 10 ms and looks at `m_running` again. `Call` is not fair: an
application need not call anything, a callback need not call the manager. Weak
fairness of a lock step means only that a lock that stays free is got, not that
a thread overtaken for ever gets it; with bounded calls it is enough.
`TopicGroup`: weak fairness of the application thread inside a call (`Finish`) and
of each listener thread. `ReturnLoan` is part of the latter: callbacks return. No
new call is fair. `SampleFlow`: the listener thread, a poller that has samples for
callbacks, each worker, and what the owner has begun; no write, no read and no new
call. `ParticipantMonitor`: each handler, once it is to be called; nothing obliges a
participant to come, stay or leave. `TransportJoin` and `SimpleManager` have no
liveness property.

**Which use is safe.** `SingleOwner` in `TopicOwnerProofs` states a discipline: one thread
registers, configures, subscribes to and unregisters topics, while other threads and
data callbacks publish, look writers up and read callbacks. Under it no group dies under
the lock, no listener joins itself and nothing that was set up is lost. For race freedom
it takes `SoleReader` as well: the owner alone runs `readCallbacks`, and it adds a callback
to a reader only before the reader's listener thread runs (with `queueMessages` for all
but the last), for `addCallback` inserts into containers that the listener thread and
`readCallbacks` iterate over. `registry_owner` is an instance of both; the theorems hold
for all of them. One more rule is for liveness: a callback that `readCallbacks` runs must
not call `createPublisher` or `unregisterTopic`, which would wait for the shared lock of
its own thread for ever (`CallbacksNeverUpgrade`). The callbacks of `registry_owner`
keep it.

With two threads that own topics `NoUseAfterFree`, `LookupStable`
and the refinement still hold (`registry_churn`, and the theorems), but the
containers race and a group can die under the lock. `registry_churn` has callbacks
that only look up: with one that calls `createPublisher` the instance deadlocks for
good. `registerQos` takes the shared lock again at `dds_manager.cpp:547`, finds
that its local is the last reference as the topic was unregistered meanwhile, and
runs the destructor under that shared lock; the destructor joins a listener thread
whose callback waits for the exclusive lock. The same `DestroyOutsideLock` hazard,
by another way than in the first finding.

## 4. Findings

Each is a run in which TLC finds a counterexample to what the repository says of
itself.

1. `registry_register_race`. `registerTopic` releases the lock between its lookup and
   its store, so two threads both make a topic. The second store destroys the first
   group inside the exclusive lock (`dds_manager.hpp:198`), where `unregisterTopic`
   takes care "to delete outside of a mutex lock so we don't deadlock".
2. `registry_data_race`. `set*Qos` inserts into the map under the shared lock
   (`dds_manager.cpp:1461`): a second thread that walks the map at the same time
   has undefined behaviour.
3. `registry_writer_preferring`. `addCallback` holds the shared lock and takes it
   again in `getReader`. Where a waiting writer holds new readers back, a concurrent
   `createPublisher` makes both wait for ever.
4. `group_replace_filter`. When `replaceFilter` has deleted the reader it calls a
   method on the pointer that it has just set to null (`dds_manager.cpp:1050`).
5. `group_teardown`. The destructor deletes the readers before it stops the threads
   that read from them. With samples on loan the deletion is refused, and reader,
   subscriber and topic stay in the participant.

**Worth knowing**, as the properties are stated around it:

- A participant that comes back under its GUID: the late disposal in one reader
  erases the whole entry, with what the other handler has entered since. It is
  entered again by the next announcement, so `PresentKnown` holds, but the time
  stamp or the address is lost; `InfoComplete` is about participants that joined once.
- `onAdd` is called for every sample of either reader, `onRemove` for each reader.
- A sample that arrived before the monitor set its listener waits for the next one.
- A read of one sample, a filtered or a read-only one resets DATA_AVAILABLE and
  leaves samples: the listener thread sleeps on them until the next arrival
  (`left` in `NoLostWakeup` and `Consumed`).
- A callback that is added to be queued is called by a listener thread that already
  runs, and its `asyncHandling` becomes that of all callbacks of the reader.
- Participants bound to the same section of the INI file share its RTPS transports,
  which the note at `dds_manager.cpp:356` has as a limitation and the comment at
  `dds_manager.cpp:378` as what must not be. So do participants left unbound by a join
  that failed half-way or raced: those have the global configuration.
- Two threads that register a topic at once, each from a call of the simple manager: the
  second store replaces the group that the first one's endpoints may already be in, and
  both go through `registerQos`. Writer and readers may then have different presets, the
  QoS that is stored is no longer that of the reader, so that an accepted rate is
  refused, and `m_pubMap` leads to a topic without a publisher. All three are in the
  run `simple`, as the exception `"twice"` of its properties.
- The handler of `ParticipantMonitor` for the participants' data does not return its
  loan (`participant_monitor.cpp:165`), as that for their locations does (`:259`).
- The preset of the second `registerTopic` for a name is ignored silently; an
  endpoint created between a topic's store and its `registerQos` keeps the default
  QoS (`"early"` in `EndpointsMatch`); `set*Qos` on an entity that exists is refused
  by OpenDDS where it matters, which the code does not look at.
- `setMaxDataRate` with 1000 ms or more returns true and changes nothing, 4295 ms
  sets 32.7 microseconds, and a later `setReaderQos` takes the rate away.
- A `createPublisher` that failed half-way succeeds the next time, without a writer;
  `Listener` uses the reader it asked for whether it is there or not.
- The members of `DDSSimpleManager` are destroyed before `~DDSManager` has joined the
  threads whose callbacks may call `Write`.

## 5. The proofs

TLAPS proves, for arbitrary constants that satisfy the named assumptions:

| Theorem | States | Of |
|---|---|---|
| `TypeCorrect` | `[]TypeOK` | `TopicRegistry`, `TopicGroup`, `SampleFlow`, `ParticipantMonitor`, `SimpleManager`, `TransportJoin` |
| `Invariance` | the inductive invariant | `TopicRegistry`, `TransportJoin` |
| `GroupsOutliveTheirUsers` | `[]NoUseAfterFree` | `TopicRegistry` |
| `LookupsStayValid` | `[]LookupStable` | `TopicRegistry` |
| `ErasesAreExclusive` | entries leave the map only under the exclusive lock | `TopicRegistry` |
| `CallbacksNeverUpgrade` | a callback in `readCallbacks` that needs the exclusive lock takes no further step | `TopicRegistry` |
| `RegistryImplementsMap` | `ImplementsMap`: `TopicRegistry` implements `TopicMap` | `TopicRegistry` |
| `NoGroupLeaks` | `[]AliveIffReferenced` | `TopicRegistry` |
| `OwnedIsRaceFree` | `[]DataRaceFree`, with one owner who is the sole reader | `TopicRegistry` |
| `OwnedDieOutsideLock` | `[]DestroyOutsideLock`, with one owner | `TopicRegistry` |
| `OwnedNeverSelfJoin` | `[]NoSelfJoin`, with one owner | `TopicRegistry` |
| `OwnedNeedNoFallback` | `[]FallbackUnused`, with one owner | `TopicRegistry` |
| `OwnedLoseNothing` | `NoLostEntities`, with one owner | `TopicRegistry` |
| `OwnedFreedInCalls` | no group is half destroyed while the owner is between two calls | `TopicRegistry` |
| `PointersAlwaysMatch` | `[]PointersMatch` | `TopicGroup` |
| `OnlyLoansLeak` | `[]LeakOnlyByLoan` | `TopicGroup` |
| `RunningHasThread` | `[]CallbacksServed` | `TopicGroup` |
| `ThreadsHaveReaders` | `[]ThreadHasReader` | `TopicGroup` |
| `AllThreadsJoined` | `[]ThreadsJoined` | `TopicGroup` |
| `CleanWithoutCallbacks` | `[]CleanTeardown`, if the application adds no callbacks | `TopicGroup` |
| `NoSleepOnSamples` | `[]NoLostWakeup` | `SampleFlow` |
| `QuietEnd` | `[]QuietAfterwards` | `SampleFlow` |
| `NoSampleLost` | `[]NothingLost` | `SampleFlow` |
| `CallsExactlyOnce` | `[]ExactlyOnce` | `SampleFlow` |
| `CallsInOrder` | `[]InOrder` | `SampleFlow` |
| `FlowImplementsDelivery` | `ImplementsDelivery`: `SampleFlow` implements `SampleDelivery` | `SampleFlow` |
| `DepartedAreForgotten` | `[]DepartedForgotten` | `ParticipantMonitor` |
| `PresentAreKnown` | `[]PresentKnown` | `ParticipantMonitor` |
| `InfosAreComplete` | `[]InfoComplete` | `ParticipantMonitor` |
| `EndpointsAlwaysMatch` | `[]EndpointsMatch` | `SimpleManager` |
| `RatesAreKept` | `[]RateKept` | `SimpleManager` |
| `MapsAlwaysServe` | `[]MapsServe` | `SimpleManager` |
| `TransportsAreUnique` | `[]UniqueTransport` | `TransportJoin` |
| `JoinsBind` | `[]JoinedIsBound` | `TransportJoin` |
| `CounterIsAhead` | `[]CounterCovers` | `TransportJoin` |

**Assumptions.** `RegistryAssumption`: the names of threads, groups and topics are
disjoint and none is the null pointer or the free mutex; the bounds are naturals.
`GroupAssumption`, `FlowAssumption`, `MonitorAssumption`, `SimpleAssumption` and
`NothingAssumption` say the same of their constants: "nothing" is none of the
things, bounds and depths are naturals, and a history
holds at least one sample. Only the callbacks of
`SampleFlow` have to be finite, for their calls are counted. `JoinAssumption`: domain IDs are
naturals, "no domain" is none, and the two special configurations differ from each
other, from the domain IDs and from the generated names. TLC evaluates all of them. The
other sets need not be finite, and either kind of `shared_mutex` is covered.

**`TopicRegistry`.** None of the safety properties is inductive by itself.
`IInv` adds to `TypeOK`

- `LockInv`: an exclusive holder excludes shared ones, and what an actor holds
  follows from its place in the code, twice in the nested lookups. Without it
  `shared` could run below zero and `LookupStable` would have no reason to hold;
- `SetsInv`: a running `set*Qos` call is counted, so the countdown stays in `0..3`;
- `DyingInv`: a dying group has one actor that destroys it and nobody else points
  to it;
- `ListenerInv`: a listener thread exists only from `run()` until the join, so that
  a group is not freed under it.

`NoUseAfterFree` then is inductive relative to `IInv` (`AliveStep`): where a
reference is cleared and the destructor begins, the guard says that no other place
points to the group. `LookupStable` follows step by step from the holder of the
shared lock excluding the erasure (`LookupStep`), `ErasesAreExclusive` from `LockInv`.
`CallbacksNeverUpgrade` is `LockInv` again: a thread that waits for the exclusive lock from
inside `readCallbacks` is counted in `shared`, and the lock is free only when nobody is.

**One owner.** `DataRaceFree`, `DestroyOutsideLock`, `NoSelfJoin`, `FallbackUnused` and
`NoLostEntities` are not true of every use: two findings violate them. `TopicOwnerProofs`
proves them for every assignment of calls to threads in which some thread `o` is the
`SingleOwner`: it makes any call but the bare `set*Qos`, the others and the callbacks
only `createPublisher`, `getWriter` and `readCallbacks`. The inductive invariant `OwnInv`
adds to `IInv`

- `UsersInv`: a thread other than the owner points to a group only while it has the
  shared lock, so it never drops a last pointer;
- `TasksInv`: the tasks of the shutdown run only while the owner waits for them, each
  on its own topic, and no topic is left when the last one is through;
- `PlaceInv`: what the owner looked up before it gave the lock up is what it finds when
  it has the lock again. This is what `registerTopic` relies on without checking;
- `LocalInv`: under the lock, a group in a local variable is the one in the map;
- `OutsideInv`: a destructor runs with no lock held.

`OwnedIsRaceFree` needs `SoleReader` and one more invariant, `AccessInv`: nobody but the
owner is in `readCallbacks`, a group in the map has its topic while one that is getting it
is not in the map, and `addCallback` finds no emitter that runs.

`OwnedFreedInCalls` rests on `Attended`: a group that is being destroyed has an actor in
its destructor, which with one owner is the owner or a task that it waits for. Together
with the liveness property `CallsReturn` it says that every group that begins to die
is freed.

**The refinement of the map.** `TopicMapProofs` maps each action to one operation of `TopicMap`
or to a stutter, under `IInv` and `ScopeInv` (which of `owner` and `local` a place in
the code may use). The point of each case is that a group dies in the implementation
exactly where its last reference goes in the abstraction: the guards of `Release`,
`RegStore`, `SetInsert` and `CleanClear` are equivalent to `~Referenced'`.
`NoGroupLeaks` is then the invariant of the abstract map, proved there and carried
over.

**`TopicGroup`.** `GroupInv` goes by the phase of the call. `PhaseInv` says what may
be under way in each phase, `PointerInv` that pointers and entities agree up to the
one being made or deleted, `OwnedInv` that entities nobody points to were refused a
deletion because of a loan, `ThreadInv` that a thread belongs to an emitter that is
running, or is being stopped and will be joined. `CleanTeardown`, which finding 5
violates, holds if there are no callbacks (`NoLoans`): a listener's loan is the only
thing that a teardown can trip over, failed creations are not.

**`SampleFlow`.** `WakeInv` ties the status to the cache and to the readers between
their wait and their read. `EndInv` says which threads may still have samples as
`unregisterTopic` and `~DDSManager` go on: the join leaves no emitting listener, the
exclusive lock no `readCallbacks`, the dispatcher's shutdown no event and no job.
`LossInv` accounts for each owed call: in a batch, in the queue, with a worker, or
made. For exactly once it takes three more, each for the place a sample leaves:
`CacheInv` (a sample is in the cache or was taken, never both), `BatchInv` (no sample
in two batches or twice in one), `CallInv` (no job twice in the queue or with two
workers, none that was made already).

For the order, `OrderInv` keeps three places in line while `mixed` is false: what
callbacks got is older than what is in the one batch there can be (`CallOrder`), that is
older than what is in the reader or will arrive (`BatchOrder`), and each of them is
sorted (`SortedInv`). The refinement needs besides that what was ever taken for an
instance is older than what the reader has (`GoneOlder`, in any mode): `readQueue` takes
everything there is for an instance, while reads by hand may leave samples but only
take them away from the callbacks. With it `readQueue` is a `Take` of samples newer than
any owed, and with `OrderInv` a synchronous call is a `Give` of the oldest one still
owed; in the other modes `CallInv` says that a worker's call is one still owed.

**`ParticipantMonitor`.** What is not inductive is that the map is right; `MonitorInv`
says why it will be. `LastTells`: the last sample of a participant in a reader, or in
its batch when nothing is unread, tells whether the participant is there.
`CallTells`: a pending callback is right, or more samples are to come. `EntryTells`:
an entry, or a last call "added", is witnessed by a reader in which the participant is
announced or which has more to do about it. `NoEntryTells`: a missing entry, or a last
call "removed", of a participant that one reader announces is witnessed by the
*other* reader. When nothing is under way the witnesses contradict.
`InfoInv` is about a participant that joined once: what a reader still holds about it
and what its entry has already add up to what is known, whichever handler is ahead
(`FirstInv`), as one that never joined has left no trace (`FreshInv`).

**`SimpleManager`.** `Inv` adds to `TypeOK` and `RefInv` (whatever points to a group
points to one of its topic that a call has made, and a call finds the topic that it has
stored) one invariant per topic, `TopicInv`. Its parts assume of a topic's `odd` what they need.
`OnceInv`: if no two threads have been registering the topic at once, the one that is has
a group in which nothing has happened, or the one in the map once it has stored it; this
is why the set*Qos calls and the preset of `registerQos` reach one group although each
looks it up anew. `QosInv` says what QoS the group has at each step of that call,
`FitsInv` what an endpoint can have been created with, `ParentInv` in which partition,
and which of them imply others; `EndpointsMatch` combines them. `RateInv`: a
`setMaxDataRate` under way has read the QoS of its reader, so that the reader takes it.
`ListenInv` has the reader of `Listener`. `MapsInv` follows the two maps, by `Grows`:
entities once there stay, and a topic's group stays while `"twice"` is not noted.

**`TransportJoin`.** `IInv` adds to `TypeOK`

- `PlaceInv`: what `participant`, `bound`, `carried` and `configName` are at each
  place of `joinDomain`;
- `OwnerInv`: every name a manager binds or carries is in the registry, belongs to
  it alone, and a manager filling a configuration created it. This survives
  managers that race: `create_config` and `create_inst` are atomic and refuse taken
  names, and nothing but that refusal keeps transports apart then;
- `SerialInv`: while no two managers have been joining at once, at most one is
  not idle and the counter is at least every count in the registry, and above it
  where a name is about to be made;
- `UsableInv`: where a manager has joined, it is bound or one of the two excuses
  applies.

`UniqueTransport` then is a matter of names: those of the INI file are no generated ones
(`IniIsApart`), so that what two participants share is either a name that `OwnerInv` has
belong to one of them, or the INI file's.

**Only model-checked.** Liveness (`CallsReturn`, `TeardownEnds`, `Consumed`,
`CalledInTheEnd`, `LossReported`): fairness is out of the provers' reach. Every
invariant, action property and refinement of the passing runs is a theorem; of the
findings, the violated properties hold under `SingleOwner` and without callbacks, but
for `NoCrash` and for the deadlock of a `shared_mutex` that prefers writers.

**Left to do.** `replaceFilter` and `Set*ListenerHandler` as concurrent calls of
`TopicRegistry`, once the former gets past its null pointer; the array helpers and
the waiting loops of `DDSSimpleManager`; that `SampleFlow` and `TopicRegistry` agree on
when a topic's listener has ended, which each states for itself.
