# A TLA+ development of gta-reversed

gta-reversed is a re-implementation of GTA: San Andreas. Most of the game is one
sequential loop over floating-point data. What a model checker reaches, and what
nobody can test exhaustively, is the machinery around that loop:

* the game's own streaming (`source/game_sa`): a thread that reads files, two
  clients that share its streams, and request lists that change while reads are
  under way; beside it a thread that fades sounds in a table without a lock;
* the Linux port's (`source/app/platform/linux`): a parser thread with five
  services under one mutex, and a frame loop that replaces the whole world, for the
  camera or because a script waits for one, through transactions;
* the Linux port's vehicles: a pool with recycled references, and the life of a
  vehicle with its driver, whose calls change several objects and may fail between.

This project models these, checks them with TLC, and proves with TLAPS what matters
most of each of them. Line numbers are those of `source/game_sa/...` or
of `source/app/platform/linux/...`.

## 1. Inventory

| Component | State | Operations | Interacts with | What is hard |
|---|---|---|---|---|
| **CdStream** `CdStreamInfo.cpp`, `Queue.h` | five streams (sector count, `bInUse`, `bLocked`, status, handle), a ring of stream numbers, one semaphore for the thread, one per stream, a critical section | `CdStreamRead`, `CdStreamGetStatus`, `CdStreamSync`, `CdStreamRemoveImages`, `CdStreamShutdown`; `CdStreamThread` | called by CStreaming (streams 0, 1), the bank loader (4) | two threads, mostly unlocked reads and writes; semaphores; a queue with no test for full |
| **CAEMP3BankLoader** `Audio/Loaders/AEMP3BankLoader.cpp` | ring of 50 requests, bank slots, buffer, count of active requests | `LoadSoundBank`, `LoadSound`, `Service` every frame, slot getters | reads through CdStream; sound entities call it | all requests share a stream and its status; active entries are overwritten; reads are refused and fail |
| **CStreaming** `Streaming.cpp` | state and flags of every model, request list, loaded list, two counts, two channels, memory used, big-model flag | request, remove, release, purge, flush, `LoadRequestedModels` every frame, `LoadAllRequestedModels` | reads through CdStream; models need dictionaries and animations | removal and re-request during a read; evictions during a conversion; big models over both channels; retry loop |
| **Fades** `Audio/AESmoothFadeThread.cpp`, `Audio/Hardware/AEAudioChannel.cpp`, `AEStaticChannel.cpp` | a table of fades, the sound buffers' references, volume and state, the channels | `RequestFade`, `SetBufferVolume`, `Service` of the thread; stop, pause, resume, volume of a channel | audio hardware | a table read and written by two threads without a lock; references to buffers |
| CAEStreamThread, CAEStreamingChannel | track numbers, flags between two threads, a critical section | play, stop, service | audio hardware | a second thread with unlocked flags |
| **Native script services** `NativeScriptServiceTransaction.cpp` | phase, identity, attempt, six counts | begin, pending, prepared, commit, cancel, acknowledge, fail, release | script host, and every service of the Linux port that takes longer than a pass | late answers to an attempt that was cancelled and begun anew; counts at their maximum |
| **Realtime worker** `RealtimeStreaming.h`, `NativeVehicleAssetQueue.h` | mailboxes for worlds, vehicles, peds, models and textures, under one mutex | request, take, discard, retire, release, cancel, stop; `Run` | frame loop | one condition variable for all; turns; hand-over of results while a job runs; shutdown |
| **Live world** `Realtime.cpp`, `RealtimeScriptHost.cpp`, `NativeCarGeneratorResidency.cpp` | the world shown, the one being uploaded, the one being deleted; the script's transaction; the registry of car generators | `PrepareScriptWorld`, `CommitScriptWorld`, `CancelScriptWorld`, `Advance`; `PublishWorld`, `AdoptLiveWorld`; `Reconcile` | worker, script session, traffic | two ways to publish a world share one worker and one staging place; each may interrupt the other |
| **Native vehicle pool** `NativeVehiclePool.cpp` | slots with a generation of seven bits, a journal, producers, the published snapshot | bind, seal, allocate, update, release, publish | generators, scripts, the lifecycle | references outlive their vehicles; a snapshot is put together from several tables |
| **Vehicle lifecycle** `NativeSourceVehicleLifecycle.cpp`, with pad, camera, ped worlds and feedback | the pool, the vehicle, the camera, the ped's world, the last snapshot | spawn, frame, door, hand-over, destroy, evict | a probe calls it; `NativeSourceSliceFeedback` observes it | each call changes several objects and may be refused, or find no memory, half way |
| Car generators, garages, `Core/Pool.h` | tables of a sequential service | per-frame services | pool, transactions | long sequences |
| Tasks and events, scripts, world content | trees, lists and slots of the sequential game | several thousand | everything | volume rather than concurrency |
| Rendering, physics, animation, user interface | numerical | | | out of a model checker's reach |

What makes the modelled ones correct:

* **CdStream.** Every accepted read is carried out once; a result is reported
  with its data; a wait ends, and not before its read has; the queue neither
  overflows nor is read when empty; nothing is freed under the thread.
* **Bank loader.** A read goes to the buffer of the request that waits for it; a
  slot plays the bank it names; the count of active requests never goes below
  zero; every request is served.
* **CStreaming.** Lists, counts, states and memory agree; each model is read by
  at most one channel and converted only if it is still wanted; a loaded model has
  its textures and animations; every request is served or withdrawn.
* **Fades.** No thread touches a buffer that is gone, gives a reference back twice
  or forgets one; a sound its channel has stopped falls silent.
* **Script services.** An attempt is committed, cancelled or failed once; what is
  committed was prepared under the same ticket; a refused call changes nothing;
  the counts account for each other until the revision runs out.
* **Realtime worker.** It never sleeps over work; a completion is kept until it is
  taken; nothing cancelled is handed out; each kind of job gets its turn; at most
  two worlds exist; `Stop` returns.
* **Live world.** Physics, drawing and scripts see one generation; a script is told
  *Ready* only for the world it asked for; of the code's own checks only the
  residency's can fail, for a world taken over from the camera;
  the script, the camera and the traffic all get what they wait for.
* **Vehicle pool.** Slots, journal and census of a snapshot tell one story; an old
  reference resolves to nothing.
* **Vehicle lifecycle.** The ped stands in one world or sits at the wheel; the pool
  holds the published vehicle; a failed call is felt by no observer; a task ends.

`PROJECT.json` lists each hazard at its line with the properties that cover it.

## 2. Modules

```
                CdStreamService          what a stream promises its callers
               /       |        \
   (implements)   (INSTANCE)   (INSTANCE)
   CdStream      AEMP3BankLoader   CdStreamEmptyReads
      |               |               |  (INSTANCE)
  CdStreamProofs  AEMP3BankLoader-   Streaming
  MCCdStream      Proofs              |
                  MCAEMP3BankLoader  MCStreaming, StreamingProofs

   RealtimeWorker                  NativeScriptServicePhases
     |         \                     |            \
   (EXTENDS)  (EXTENDS)   (INSTANCE) |         (implements)
     |           \________________   |              \
   RealtimeWorkerClient           LiveWorld    NativeScriptServiceTransaction
     |            \                /  |              |            |
   MCRealtime-     \              /  MCLiveWorld   MC...       ...Proofs
   Worker           RealtimeProofs

   NativeVehiclePool  --(INSTANCE)-->  NativeSourceVehicleLifecycle      SmoothFadeThread
     |                                   |                                 |
   MCNativeVehiclePool                 MCNativeSourceVehicleLifecycle    MCSmoothFadeThread
   NativeVehiclePoolProofs             NativeSourceVehicle-              SmoothFadeThreadProofs
                                       LifecycleProofs
```

**CdStreamService** has no thread, queue, lock or semaphore. A stream goes
idle, waiting, reading, settling, idle. *Settling* is what the code really
promises and no more: the result can be reported already, while `CdStreamRead`
still refuses.

**CdStreamEmptyReads** is CdStreamService for a caller that also asks for reads of no
sectors. CStreaming does (`Streaming.cpp:1744`). `CdStreamRead` then leaves
`nSectorsToRead = 0` and `bInUse = false` but queues the stream, so that the next read is
accepted and queued at once, before the thread has taken the first entry. `spare` counts
the entries of a stream beyond the one its waiting read needs, `taken` says that the thread
is at one that has nothing to read. A read accepted before that (`Start`) is carried out
with the spare entry and leaves its own behind; one accepted while the thread is there
(`Meet`) is read after all, or cleared with the entry and reported as a success
without having been read. Each entry taken later sets `bInUse` for a moment, in which
reads are refused.

**CdStream** has two program counters, `mpc` for the main thread and `tpc` for
`CdStreamThread`, and one action per access to shared memory (accesses that the
other thread cannot tell apart are one action). Variables carry the source's
names. `Read_*`, `GetStatus_*`, `Sync_*` and `Thread_*` are the steps of the
functions of those names. `AddToQueue` is two steps, the store and the
publication of the tail, because the thread looks at the tail without a lock;
`GetStatus_TestInUse` and `GetStatus_TestSectors` are two, because
`CdStreamGetStatus` reads two fields without one. The critical section is the one
of `APPLY_CD_STREAM_DEADLOCK_FIX`. `data`, `expected` and `accepted` are history:
what a buffer holds and what its owner was promised. The refinement mapping is
the `INSTANCE CdStreamService WITH` at the end.

**AEMP3BankLoader** composes the ring of requests with one stream of
CdStreamService. A pass of `Service` visits the entries one by one (`at`); each
visit that asks for the status is split after `CdStreamGetStatus`, since the
stream may move before the answer is acted on. Sizes are units, and what a buffer
holds is the name of what was read into it, so that "the wrong bank" is visible.
`target`, `unread`, `disputed` and `overwritten` are history variables.

**Streaming** keeps the static data of `CStreaming` in one record `st`. Functions
without a call to CdStream (`RequestModel`, `RemoveModel`, `GetNextFileOnCd`,
`MakeSpaceFor`, ...) are operators from states to states, or to the set of states
they may end in. A call of the game is a sequence of tasks, `todo`, cut where it
calls CdStream, since that is where the streams may have moved. `FlushChannels`,
`LoadAllRequestedModels`, `ProcessLoadingChannel` and `RetryLoadFile` are such
sequences. Each loop is a recursive function on the natural numbers up to a bound
that the loop cannot pass (`RemovedUpTo`, `VisitedUpTo`, `FoundUpTo`, `JoinedUpTo`,
`EvictedUpTo`, `LoadedUpTo`: the state after so many rounds); no module declares a
RECURSIVE operator.

**NativeScriptServicePhases** is what a service of the script interpreter promises
its users: eight phases, the request they belong to, and which of them follow each
other. **NativeScriptServiceTransaction** is the class: tickets, attempts, counts
with their maxima, and a reply for every call in every phase, each refusal with
the order of its tests. `reply` is what the call returns and `history` which
tickets were prepared and how they ended. The refinement mapping is the `INSTANCE`
at its top.

**RealtimeWorker** has one action per critical section of the class `Worker`: those
of the caller (`Request`, `RequestVehicle`, `TakeReady`, ...) as operators that
other modules call, and those of `Run`. A job is two sections, its parsing lies
between them. The mutex stays held from the end of a job to the choice of the next
(`"Loop"`). A notification reaches the worker only while it sleeps.
**RealtimeWorkerClient** is a caller that uses all services at once and in any
order that the rules in the header's comments allow, with stale, repeated and
cancelled tickets, and may stop at any time.

**LiveWorld** is the other caller: the frame loop itself. `pc` goes through a
frame: take a model for the traffic, a script pass (`"Scripts"`; a pass may call
any number of services), fulfil a waiting model or texture, clean up, commit the
script's world, advance the camera's world, run physics and drawing. A step makes
at most one call to the worker, so that the worker may run between any two.
`Service` is the script's way to a world (`Prepare` ... `Committed`), `Stream` the
camera's (`Advance` ... `Published`), and both share `pending`, `retiring` and the
worker. The script's transaction is an instance of NativeScriptServicePhases, which
the proofs show the class to implement.

**NativeVehiclePool** has an action per call of the class. The pool is one record, so
that what a call does to it is an operator from pools to pools
(`Allocated`, `Updated`, `Released`) that the lifecycle's calls are made of. A reference
is slot times 256 plus generation, as in the code; `snapshot` is what a reader of
`Publish` has been given, however old.

**NativeSourceVehicleLifecycle** has an action per call: `Spawn`, `Frame` (`Tick`, split
by phase and button), `ReportDriverDoor`, `CompleteEntry` and `CompleteExit`
(`CompleteTask`), `Destroy`, `EvictWorld`, and `Walk` for the ped that others move. The
parts change in the code's order, and each refusal (`Fail`) leaves them as they are
by then. `Publish` ends every call and may find no memory (`NoMemory`): what was done
before stays done, except where the code undoes it. `pedWorlds` is where the ped
stands in each world. `Begins`, `Follows` and `Consistent` are what
`NativeSourceSliceFeedback` accepts.

**SmoothFadeThread** has a program counter for the main thread's call and one for the
fade thread, and one action per access to the status of an entry: `Request`, `Scan`,
`Take`, `Fill`, `Activate` for `RequestFade`; `Visit`, `Settle`, `StopBuffer`, `Release`,
`SetNull`, `SetIdle` for `Service`. The channels that call it are in the module, because
their reference is what keeps a buffer alive.

Abstractions in Streaming, each wider than the code unless marked:

* the place `GetNextFileOnCd` starts from is any model's place: `gLastCdStreamPosn`
  is shared with the bank loader;
* whether animations may be read now (no cutscene, and the first ped is loaded; l. 377) is free;
* the references that entities, vehicles and scripts hold are not counted: a loaded
  model may be evicted at any time unless another loaded model needs it;
* which vehicle or ped goes to make room is free, and how many do;
* a conversion of any kind that reports failures may fail, at most `MaxFaults` times;
* *narrower:* one image file; no dictionary has a parent; the game sets no
  `GAME_REQUIRED` flag other than with a request; it removes textures and animations
  only when no loaded model needs them, as its callers do (`CTxdStore::RemoveRef`,
  `TxdStore.cpp:267`; `TaskComplexPlayHandSignalAnim.cpp:51`);
* the entries that reads of no sectors leave in CdStream's queue are taken at any time,
  for each stream on its own and not in the order of the queue;
* *narrower:* the queue has room for all of them, and a read of no sectors never fails;
  what a buffer holds is not in the model, so that the models of a swallowed read are
  converted like any others.

Abstractions in LiveWorld:

* a world is its center and generation; its GPU part is uploaded and deleted in one
  or two steps (`Uploaded`, `Deleted`), since the code only tests whether there is
  any, whether it is complete and whether it is empty;
* what a new generation has to clean up first (`Obligations`: nothing, generators
  only, vehicles) is free; vehicles leave in the end;
* world, upload, model and collision may fail at any time; a failure that ends the
  program is a place of its own (`Faults`), from which only `Leave` goes on;
* *narrower:* a new game, not a loaded one; centers are at least 40 metres apart, so
  that moving is always far enough to want a world; the fields of `m_PendingLoad`
  are set with the phase; nothing is released after a failure, since the program
  ends; the data errors of `Reconcile` and the overflow of `m_WorldRevision` are
  left out; a minimised window pauses the loop and is left out.

Abstractions in the vehicle modules:

* generations of the pool are a constant, 128 in the code; calls that `ValidState`
  refuses change nothing and are left out;
* a position is one of two places, *near* is equality; a step of the physics goes
  anywhere or is refused;
* times, input sequences and the generations of snapshots only grow and are left out
  with the calls refused for them; the camera's transition has had its time whenever
  a frame says so;
* *narrower:* calls that are refused before they change anything do not occur, but for
  the frames, where the pad makes the difference; the ped walks only in the world
  the lifecycle knows; memory is missing only for the last `Publish` of a
  call, not for what is prepared before it (a `Spawn` undoes that, l. 163, 184). Only a probe of the repository calls the class: its order of
  calls is not assumed, any order the guards admit is modelled.

Abstractions in SmoothFadeThread: volumes are silent, half way or full; a fade has had
its time or not, at every visit; a sound ends at any time. *Narrower:* the main thread
is the only caller and its channels are static ones. The streaming channel calls from the
stream thread and, for `RescaleChannelVolumes` and `StartTrackPlayback`, from the main
thread; its own service and decoder are the original executable's. When a sound may be
played again (`m_bNeedsSynch`) and where it stands (`curPos`) is free.

## 3. Runs

| Run | Instance | Question | States |
|---|---|---|---|
| `cdstream_safety` | 2 streams, 2 files, symmetric | do queue, semaphores, lock and buffers fit together in every interleaving? | 1.1 million |
| `cdstream_live` | 2 streams, 1 file, fair | is it an implementation of CdStreamService, and is every wait ended? | 2 minutes |
| `cdstream_stale` | 1 stream, 2 files | does success mean that the read last asked for was made? **No** | |
| `bank_slots` | 2 slots, 2 banks, 2 sounds, ring of 2, fair | whose buffer does the device write, does a slot play its bank, is the count right, is every request served? | 947 000 |
| `stream_atomic` | vehicle, object, one big dictionary, 2 faults, fair | do lists, counts, channels and memory agree; do loaded models keep what they need; is every request served? | 237 000 |
| `stream_ped` | big collision file, ped, dictionary, animations, 1 fault | is a big read alone; do re-requests and reads of no sectors, with what these leave in CdStream's queue, keep everything consistent? | 330 000 |
| `script_transaction` | 2 ids, 2 commands, 2 owners, counts up to 9, symmetric | has every attempt one outcome, whatever tickets come back; does the class implement its phases? | 3 900 |
| `worker_jobs` | all five services, 4 jobs, fair | does the worker sleep over work, lose a completion, starve a job, or keep `Stop` waiting? | 583 000 |
| `live_world` | 2 centers, 1 move, 2 services, 1 vehicle of the traffic, fair | is one generation seen, which checks of the code may fail, and does everybody get what was asked for? | 468 000 |
| `pool_journal` | 2 slots, 2 generations, 2 producers | do slots, journal, census and snapshots agree; is an old reference refused? | 814 000 |
| `lifecycle` | 2 worlds, 2 spawns, 1 missing memory, fair | where is the ped; does the pool show the vehicle; is a failure felt; do tasks end? | 252 000 |
| `fade_table` | 1 sound, 2 entries, 4 calls, fair | do references add up in an unlocked table; do stopped sounds end? | 1.1 million |

Several properties are conjunctions of named parts, so that a part can be read,
and its mutants traced, on its own:

| Property | Parts |
|---|---|
| `QueueIsSound` | `TypeOK`, `SemaphoreCountsQueue`, `QueueNeverOverflows`, `ThreadHasWork` of CdStream |
| `BooksAgree` | bank loader: types, count of requests; Streaming: types, request list, loaded list, memory; transaction: types, `CountsAgree` |
| `ChannelsAgree` | `ReadingMeansInOneChannel`, `ChannelReadsItsModels` |
| `NothingIsAtOdds` | these two, `LoadedModelHasWhatItNeeds` and `BigModelHasBothHalves` |
| `WorkerIsSound` | types, the code's assertions, `FallThroughIsAWantedWorld`, `TwoPacketsAtMost` |
| `SlotsKeepTheirWord` | `AcceptedIsKept`, `CancelledIsNeverTaken` |
| `WorldsFitTogether` | types, `TwoWorldPackets`, `ReadyIsStaged` |
| `OnlyATakeOverIsRefused` | the places of refused commits, stale candidates, adoptions and admissions are not reached; the residency's only when `PublishWorld` publishes a world taken over from the camera; the worker's assertions |
| `ScriptIsServed` | `ScriptGetsItsWorld`, `ScriptGetsItsAsset` |
| `SnapshotsCanBeTrusted` | `PoolTypeOK`, `JournalTellsTheSlots`, `SnapshotTellsItsSlots`, `CensusAddsUp`, `ExtentIsFinal` |
| `PedIsInOnePlace` | types, `PlacesAgree` |
| `FailuresAreContained` | `NextIsObservable`, `MigrationIsUndone` |
| `TableIsSound` | types, `TableHoldsLiveBuffers`, `NothingLeaks` |

### Bounds, and why they are enough

*CdStream.* Two streams are the least that queue behind one another, wrap the
ring and let one be read while the other is asked about; the proofs cover every
number. Two files tell a stale buffer from a fresh one. A read is one sector: the
code tests the count only against zero. Semaphore maxima are 2 rather than 5 and
2; both are tight for two streams. The main thread calls without end, so reads
are accepted, refused, failed, waited for and asked about in every order.

*Bank loader.* Two banks tell whose data a slot holds. A ring of two wraps, and
is full with two active requests; `MaxOverwritten = 1` bounds how often an active
entry is overwritten (the count it inflates is never put right, so it would grow
without end). Two sounds per bank and a table of three leave an entry that no
sound fills. Two slots share the stream in `bank_slots`, one of them for a whole
bank and for a single sound of another; callers repeat their requests without end. The
code has 50 entries, 400 sounds and 45 slots; the proofs have no bounds.

*Streaming.* Half the buffer is two sectors: two small models are read together,
one of three is big. Memory is one or two sectors short of everything being
loaded, so that evictions happen. `LargeishSize` is 2 and a channel takes at most
3 models instead of 16. `UINT32` is 8 instead of 2^32: a wrap is a value no list
of at most four models explains. The game makes `MaxCalls` (2) calls and then
only calls `LoadRequestedModels`, which has no bound; a request of a DFF requests
up to three models, conversions and evictions request and remove more. `MaxFaults`
is 2 in `stream_atomic` and 1 in `stream_ped`.

*Script services.* Two requests and two commands give every answer to "the same?".
Nine revisions allow two full attempts with a cancellation and then run out; two
polls run out within an attempt. Nothing else is bounded, and the proofs have no
bounds.

*Realtime worker.* `MaxAsked` (4) jobs are given to the worker: enough for each of
peds, vehicles and worlds to wait while the others are served, and for a slot to be
used twice. `MaxSequence = 2` lets the vehicle tickets run out. Takes, cancels,
discards and repeated requests are not bounded. One center suffices, as the worker
never compares centers.

*Live world.* Two centers, one move of the camera and two services of scripts: the
script's world is asked for before, during and after the camera's, twice in a row
(for the same or another center), and beside a model or a texture. The traffic asks
for one model. Frames are not bounded, and for safety the proofs have no bounds.

*Vehicle pool.* Two slots, so that the lowest free one is not the only one, and two
generations, so that a slot is given away more often than it has generations within
the `MaxEvents` (6) entries of the journal. `MaxUpdates` and `MaxFrames` bound updates and
publications.

*Vehicle lifecycle.* Two worlds and two spawns: a way to the next world, and a spawn
after a destruction, in the same or in a later world. `MaxEvents` (4) bounds the
optional entries of a journal: entering, driving and the door; what ends a task or a
life has no bound. `MaxAhead` (1) bounds how far the pool runs ahead of the last
snapshot after a call that could not publish. Memory is missing once (`MaxFailures`),
at any call. Generations are the code's 128; the proofs have no bounds.

*Fades.* Four calls of one sound in two entries: a fade that is taken over, cancelled or
lost while the thread is at any step of it, and another one in the second entry. A
channel is used once.

Deadlock is checked in every run but `pool_journal` and `lifecycle`, whose bounds make
them stop. After `CdStreamShutdown` the model of CdStream
stutters (`Exited`): the program is over. So do RealtimeWorkerClient and LiveWorld
after `Stop` (`Join`, `Joined`).

### Fairness

* *CdStream*: weak fairness of each thread's steps. A call begins only if the game
  makes one, and no fairness says it does. `Thread_Lock` has strong fairness: the
  main thread may enter and leave the critical section for ever, and
  `EnterCriticalSection` does not starve a waiter. The device answers in the end.
* *CdStreamService*: weak fairness of a stream's own progress, which CdStream is
  shown to implement.
* *Bank loader*: `Service` is called every frame (`AEAudioHardware.cpp:816`), and
  the stream makes progress. Nothing is assumed of those who request.
* *Streaming*: the main thread takes steps unless it waits in `CdStreamSync`, and
  streams make progress. The first is weak fairness of `Step`, written out
  (`[]<>Waits \/ []<><<Step>>_vars`) because a step is possible exactly unless
  `Waits`; TLC would otherwise evaluate all of `Step` to know.
* *Realtime worker*: weak fairness of the thread (`Run`). It waits for the mutex,
  which is never held across a wait, and for `m_Wake`. Nothing is assumed of the
  caller. `WaitingJobsRun` assumes in its antecedent that models and textures of
  scripts, which have priority without turns, come to an end: a script waits for
  each one, and the traffic asks at most every 64 frames.
* *Live world*: weak fairness of the frame loop (`Main`), of the worker, and of the
  departure of a vehicle that has to go first. Nothing is assumed of scripts,
  player and traffic (`Wish`): they need never ask for anything.
* *Vehicle lifecycle*: weak fairness of a frame in which a transition has had its time
  (the loop goes on) and of the hand-over (the animation of the task ends).
* *Fades*: weak fairness of a call that has begun and of the fade thread. An entry that
  is visited again and again is over at some visit (strong fairness of
  `FadeIsOver`): time passes. No fairness says that a channel is used at all.

## 4. What the runs show

CdStream does what it promises: no lost wake-up, no wake-up for another read, no
overflow, no use of index -1, no data reported that is not there. The bank loader
never writes into memory it has freed and never mixes banks up unless two requests
for one slot overlap. CStreaming keeps its books through every interleaving of
reads, removals, evictions and failures but for one model that can get lost from the
loaded list (below). The transaction, the
worker and the frame loop do what their comments say but for one frame and one
take-over (below):
no notification is missing, the last branch of `Run`, which tests nothing, is only
reached when a world is wanted, and neither the script nor the camera can starve
the other although each may interrupt the other's upload. The references of the
unlocked table of fades add up with one caller. The pool's snapshots are
consistent, and the lifecycle survives refusals at every step and one
missing memory without a wrong publication.

One disagreement between code and comments is recorded as a violation run (see
`findings` in `PROJECT.json`):

* **`cdstream_stale`**: `CdStreamGetStatus` (l. 137, 140) can report success while
  `bInUse` is still set. The next `CdStreamRead` is refused, nobody looks at that,
  and the next status says success again.

Seen while modelling, with no run of their own:

*Bank loader.* A failure is reported once; the pass after it publishes the buffer, and
so does the pass after a refused read, whose result line 227 drops. A single sound's
request updates its slot in two halves with a read between them, so that a whole bank
published meanwhile is half overwritten; `SlotPlaysItsBank` leaves such slots out
(`disputed`).

*Streaming.* `GetNextFileOnCd` resets `ms_numPriorityRequests` (l. 407) while priority
requests wait for something; withdrawing or reading one of them wraps the unsigned
count, and requests without the flag are then passed over. Not for ever: the next
walk that finds nothing resets the count again, and `stream_atomic`, where the count
wraps too, serves every request. `FlushChannels` asks a started channel's stream once;
while the stream is still marked in use, the channel stays started, against the
comment at `Streaming.cpp:1543`.

A big dictionary that a script requests to be kept in memory (`KEEP_IN_MEMORY` with
`MISSION_REQUIRED`, as `ObjectCommands.cpp:112` asks) and gives up between the two halves
of its read gets lost: `SetModelIsDeletable` (l. 3021) does not put it on the loaded list,
since it is kept in memory and not loaded yet, and `FinishLoadingLargeFile` (l. 1488)
does not either, since the first half did that for models without the flag. It is loaded
and on no list, so that no eviction finds it. `LoadedListIsConsistent` would be violated
in `stream_atomic`; it leaves exactly these models out (`MayBeLost`).

A read of no sectors leaves an entry in the queue of CdStream (above). Lists, counts and
channels survive that (`stream_ped`), but a later read may be cleared with the entry: it is
reported as a success, and its models are converted from what the buffer held before.

*Live world.* The generators' registry is swapped by the frame loop as soon as the last
vehicle has gone (`Realtime.cpp:1367`), the world by the script's next poll: for the
rest of that frame the new world's generators run in the old world.
A script may ask for the very center whose world `AdoptLiveWorld` has tried and is waiting
to show until vehicles have left. `PublishWorld` takes the packet over and tries it again
with a snapshot of its own (`RealtimeScriptHost.cpp:2678`); an attempt is tied to the object
of its collision, so that `Reconcile` answers Error (`NativeCarGeneratorResidency.cpp:129`)
and the program ends, although "a normal pending upload is either transferred or discarded
by the script loader" (`Realtime.cpp:1452`). TLC reaches the place (`ResidencyError`);
`OnlyATakeOverIsRefused` says that this is the only way to it. The liveness properties
count it as an end of the program. It takes a script that asks for the camera's
center to the last bit.

*Vehicle pool.* The generation has seven bits (`NativeVehiclePool.cpp:129`): after 128
vehicles in a slot the first one's reference resolves to the last one. The lowest
free slot is always taken, so that reuse of one slot is the normal case.

*Vehicle lifecycle.* `CompleteTask` compares the ped with `m_Ped` (l. 351), which no walk
updates, and so does the near test with the position in the last snapshot: a ped that
walked before it began to enter can never finish (`Moved` in `TasksEnd`). A frame that is
refused publishes nothing, so that pad and lifecycle remember different buttons and
refuse each other's edges (l. 205) until the pad has seen a frame whose buttons are
those last published. `Spawn` undoes its allocation when the
preparation of the snapshot fails (l. 163, 184) and not when the final `Publish` does. A
hand-over whose snapshot cannot be published wedges the task. A spawn straight into a
later world leaves the ped in the earlier one as well; `PlacesAgree` speaks of the
lifecycle's world and later ones.

*Fades.* A fade that is taken over while the thread is finishing it is lost although
`RequestFade` answers TRUE: the entry stays active without a buffer and is never used
again. A stopped sound still ends, because the last reference goes; a paused one
plays on although `m_bPaused` is set. With a second caller two searches can find the same
idle entry, and a reference leaks. `AEStreamingChannel.cpp:165` asks for the fade in of a
resumed stream with `bStopBufferAfterFade` set.

## 5. Proofs

### CdStream, for every number of streams

`CdStreamProofs` proves these theorems of `CdStream!Spec` for every number of
streams, every set of files and places and every read size:

| Theorem | Property |
|---|---|
| `TypeCorrect` | `TypeOK` |
| `SemaphoreCorrect` | `SemaphoreCountsQueue`: no wake-up of the thread is lost or made up |
| `QueueCorrect` | `QueueNeverOverflows` |
| `ThreadCorrect` | `ThreadHasWork`: the thread never uses index -1 or an empty request |
| `QueueSound` | `QueueIsSound`: the four above |
| `WakeUpCorrect` | `WakeUpIsForThisRead` |
| `SyncCorrect` | `SyncReturnsWithTheData` |
| `StatusCorrect` | `SuccessMeansTheData` |
| `ShutdownCorrect` | `FreedWhenThreadWaits` |
| `Implements` | `Service!Spec`, the safety part of `ImplementsService` |

They rest on the assumptions of `CdStream.tla`: at least one stream, at least one
sector per read, semaphore maxima no smaller than the number of streams (thread)
and 1 (stream), and a `Garbage` that is no read. TLC evaluates them in every run.

None of the properties is inductive. The inductive invariant `IInv` is the
conjunction of

* `TypeOK`;
* `LockInv`: who owns the critical section, by the steps of both threads;
* `LifeInv`: a stream that has something to read is in exactly one place: being
  put into the queue, in it, or leaving it;
* `ThreadInv`: what the thread has in hand at each of its steps, and `bInUse`;
* `MainInv`: what the main thread knows of the stream of its call;
* `SemaphoreCountsQueue`: count of the semaphore, length of the queue and the
  positions of both threads;
* `SyncInv`: `bLocked`, the stream's semaphore and both threads. The heart of the
  argument: it says where a signal may be under way, and for whom;
* `DataInv`: a request that is not yet carried out is unchanged, and one that was
  has its data or its failure;
* `RemoveInv`: the streams `CdStreamRemoveImages` has been through are quiet.

The queue is handled by lemmas about the ring (distance, the set between head and
tail, and what storing, publishing and removing do to them). Then there is a lemma
per action, with a step for each conjunct the action can disturb.

`Implements` says that no interleaving of the two threads shows the callers of CdStream
anything the abstract streams of CdStreamService could not. `ServiceStep` maps each step
to the abstract step it is: `Read_Fill` to `Accept`, `Thread_SetInUse` to `Start`,
`Thread_ClearSectors` to `Complete`, `Thread_ClearInUse` to `Settle`, the three unlocked
tests to a refusal or a busy answer, and everything else to a stutter. Two steps need
more than the mapping. `Complete` promises the data of the request or a failure that
left the buffer alone, for which `IInv` does not suffice; `NothingTorn` (as long as the
device has not delivered, and if it failed, the buffer holds nothing that could be taken
for data) is proved along with it. And `Sync_Finish`, which writes `bInUse` of
its stream, is a stutter because `MainInv` knows that the thread has cleared it by then.

### Bank loader, for every ring, slot and caller

`AEMP3BankLoaderProofs` proves the four invariants of `bank_slots`: `BooksAgree`
(`BooksHold`), `DeviceWritesALiveBuffer` (`BuffersLive`), `PendingRequestHasItsRead`
(`ReadsAreRemembered`) and `SlotPlaysItsBank` (`SlotsPlayTheirBanks`), for any banks, slots
and sounds, any size of the ring and any callers. They rest on `SizeAssumption` (a ring
and banks that are not empty, a table with two entries at least: with one, the end of
the only sound would overwrite its start) and `NamesAssumption`. CdStream enters through
CdStreamService.

The inductive `IInv` adds to the properties:

* `StreamAgrees`: as long as a read is outstanding, its request, buffer and status are
  untouched;
* `ServiceAgrees`: Service goes on with an active request only, and only while no read is
  outstanding. The streaming thread may settle meanwhile but cannot begin a read, which
  is why the answer of `CdStreamGetStatus` is still good when Service acts on it;
* `RequestsFit`: a request asks for what belongs to it, and its buffer has that or nothing;
* `OneAtATime`: a slot that is not disputed has at most one active request. From it
  follows `HeadersAreIn`, that the table a sound was looked up in is still in the slot
  when the sound arrives;
* `SlotsFit`: a slot that names a bank has all of it, or one sound of it.

`AllocateStep` is the lemma of both reads of a request, `FinishStep` that of both ways to
end one; `StreamingStep` shows that what is read goes to the request that waits for it.

### Script services, for every maximum of the counts

`NativeScriptServiceTransactionProofs` proves `BooksAgree` (`BooksHold`, from `TypesHold` and
`CountsHold`), `OneOutcomePerAttempt` (`OutcomesHold`), `CommitsWhatItPrepared`
(`CommitsHold`), that a refused call changes nothing (`RepliesHold`), and that the class
implements NativeScriptServicePhases (`PhasesImplemented`: initial states map to initial
states, each call to a step or a stutter), for all sets of requests, commands and
owners and all maxima.

The inductive `Invariant` adds two parts to the properties: `TicketsAgree` (the current
attempt is the last one given out, and no ticket in the history is newer) and
`HistoryAgrees` (what the history has of the current attempt is what its phase says).
`CountsAgree` is what makes the code's order of tests right: the revision is at
least the sum of all other counts, so that it runs out first
(`RevisionOverflowsFirst`), and the increment that is not tested cannot wrap.

### Streaming, for every set of models and every disc

`StreamingProofs` proves of `Streaming!Spec` all the safety properties of its two runs,
`BooksAgree` (`BooksAlwaysAgree`), `ChannelsAgree` (`ChannelsAlwaysAgree`),
`LoadedModelHasWhatItNeeds` (`LoadedModelsAreWhole`) and `NothingIsAtOdds`
(`NothingIsEverAtOdds`), and `BigModelHasBothHalves`, a part of the last (`BigModelsFit`).
The models, their types, sizes and places on the disc, the buffer, the memory, the
number of slots, the limit of the count of priority requests, the requests of the game
and all bounds are any. The assumptions are `ModelAssumption` (a finite set of models; a DFF has a dictionary, and
animations or none), `DiscAssumption` (no model is empty, and the next one on the disc
begins where a model ends), `CallAssumption` (the game names models) and
`BoundAssumption` (sizes and limits are numbers).

None of the properties is inductive. The list of requests is right because the states of
the models are, these because the slots of the channels are, and the slots because of
what the streams carry out and what is left to do of the call under way. `Invariant` says
it in three parts:

* `Fits`: `Sound` holds of the record `st`, and the channels are in states that go with
  their slots (`ChannelsFit`). `Sound` has a part for each book: `RequestsFit`,
  `LoadedFit`, `MemoryFits`, `NeedsFit`, and `SlotsFit`, that a slot whose model is being
  read says where in the read it is, and that a model is in one slot only. The one
  exception is a big dictionary whose first half is there: it is not being read, and not
  in the right place for its second half. Its slot is a parameter (`half`), and
  `HalfLoaded` says when there is one;
* `StreamsFit`: a stream that waits or reads has the very request that its channel
  holds, and a started channel's stream has nothing more to do. It says nothing of the
  spare entries of reads of no sectors: however many there are, what the thread does at
  one of them is what it may do with a read that waits, or nothing;
* `TodoFits`: the tasks of a call may come at any time, but the two with which
  `RetryLoadFile` reads again (`Again`, `Reread`) are the first to come, and their channel
  has failed.

CStreaming changes its books through functions that call each other, and most of the
proof is one lemma per function: it keeps the books `Sound`, and does no more to the
rest than a relation says that is transitive, so that it holds of a loop as of one round.
The relations are `Asked` (requests: a model that was not loaded may be requested),
`Thinned` (removals: slots are emptied, nothing is loaded), `Evicted` (loaded models go)
and `Emptier` (conversions: slots are emptied, one channel changes its state). They are
what makes the order of the code right: making room may take a model away while others
of the channel are waiting for their turn, and `Evicted` says that it is none of these.

The loops need induction, which the library's theorems state with an operator as a
parameter. `NatInductionOnSets` says it of a set of numbers instead, from
well-foundedness; with it a lemma "...UpToDef" per loop shows that the recursive function
satisfies its equation, and a second induction carries the lemma of one round through.
That the memory adds up is the same argument over the subsets of the models
(`SumsExist`, `SumsAgree`): a sum does not depend on the order of its members, so that
`RemoveModel` subtracts what `ConvertBufferToObject` added (`SizeWithout`, `SizeWith`).

The proof was tried on the model as it stood and failed at two leaves: where a removal by
the game takes textures from a loaded model, which the callers exclude (the guard of
`CallRemoveModel`), and where a kept dictionary is given up between its halves, which
nothing excludes (section 4).

### Realtime worker, for every caller

`RealtimeProofs` proves, of the worker with any caller that keeps the header's
rules (RealtimeWorkerClient): `NoWakeUpIsLost` (`SleepsWithoutWork`), `TurnsStayFair`
(`TurnsAreFair`), `SlotsKeep` (`SlotsKeepTheirWord`, from `AcceptedStays` and
`CancelledStays`), and `SoundForEveryCaller` (`WorkerIsSound`). The assumptions are those of the modules: `NoWorldAssumption`,
`SequenceAssumption`, `NoRequestAssumption`, `AskedAssumption` (values that stand for
nothing are not values, bounds are natural numbers).

The inductive `ClientInvariant` has one part per mailbox (`WorldsAgree`, `SlotsAgree`,
`PedAgrees`, `VehicleAgrees`), the turns (`TurnsAgree`), the history (`OwedType`), and the properties
`AssertionsHold` and `SleepsWithoutWork`. The steps are grouped the same way: a lemma
"...StepsElsewhere" says which steps leave a mailbox alone, and a lemma "...Kept" goes
through those that do not. That two packets of a world exist at most (`ClientHasTwo`)
follows from where a generation can be.

### Vehicle pool, for every number of slots and generations

`NativeVehiclePoolProofs` proves of `PoolSpec` both properties of its run:
`SnapshotsCanBeTrusted` (`PoolCanBeTrusted`) and `StaleReferenceIsRejected`
(`StaleReferencesAreRejected`), from `PoolAssumption` alone: at least one slot, and no
more generations than the eight bits a reference has for them. The bounds of the run
(`MaxEvents`, `MaxUpdates`, `MaxFrames`) are any natural numbers.

A lemma per call says what it leaves in each field of the record (`AllocatedFields`,
`UpdatedFields`, `ReleasedFields`; that `FirstFree` finds a slot is the least-element
principle), and `StepLeaves` reduces every step to one of five shapes that the
invariants are proved over. The inductive `IInv` adds to the properties:

* `NoneBeforeTheFirst`: no reader has anything before the first publication. The code
  has one test for both (`publications = 0`), and only with this does it close the
  extent;
* `GenerationsCount`: seen from the event that gave out generation `g` of a slot, its
  generation is `g` plus the number of times it was given away since, less
  `Generations` if that is passed, or it was given away `Generations` times. This holds
  of events of the past that no property speaks about any more, and the stale reference
  is rejected because the two generations can only meet when the distance is 0 or
  `Generations`.

### Fades, for every table

`SmoothFadeThreadProofs` proves `TableIsSound` (`TableSound`) for any number of buffers,
entries and calls, from `FadeAssumption`: at least one entry, and a null pointer that is
no buffer.

There is no lock to argue with. The argument is what each thread may rely on in the
entry it has in hand while the other does what it likes: `ThreadKnows` (only the thread
makes an entry idle, so that the one it works on is not; it has a buffer until the
thread forgets it), `CallKnows` (only the caller makes an idle entry anything else) and
`IdleIsEmpty` (an idle entry has no buffer, but for the one the caller is filling).
Therefore `Take` writes over an empty entry only. `CallsHold` says that the channel of a
call keeps its buffer as long as the call lasts, `TableIsOfChannels` that a buffer in the
table has had a channel. With these `RefsAddUp`, the references of a buffer are exactly
those of the table and the channel, is inductive: five lemmas (`ChannelComes`,
`ChannelGoes`, `TableTakes`, `TableGives`, `TableForgets`) treat the steps that count a
reference, `RefsAddUpStep` shows that there are no others.

### Live world, for every map and every number of calls

`RealtimeProofs` proves of `LiveWorld` (`LiveSpec`) the three invariants of its run:
`SameGeneration` (`FrameSeesOneGeneration`), `WorldsFitTogether`
(`WorldsKeepTheirPlaces`) and `OnlyATakeOverIsRefused` (`OnlyTakeOversAreRefused`). The assumption is
`LiveAssumption`: the origin is a center, the identity of no transaction is none, the
bounds of the run (`MaxMoves`, `MaxCalls`, `MaxPopulation`) are any natural numbers,
and the value that stands for no world is no world.

That a frame sees one generation is the end of a chain. What is shown differs from what
the host has published only while a publication waits for the next commit (`~Shown` in
`PublicationFits`); where it may wait depends on what the script's transaction can do
meanwhile (`PlacesFit`, one line per place of the main thread); and both rest on there
being one world beside the one shown, which is in one place at a time. The inductive
`Invariant` says it in parts:

* `WorldsFit`: what may lie in each place where a world can be;
* `OneOnTheWay`: the second world is being built, ready, pending, discarded or on its way
  out, exactly one of these, and the worker is busy with it throughout;
* `GenerationsGrow`: it is the last one built, and newer than the one shown;
* `PublicationFits`: publication, saved publication and transaction against the pending
  world. A deletion is under way only of a world the script does not wait for;
* `SlotsFit`: a slot of models or textures has at most one ticket, that of the script or
  of the traffic that waits for it, so that the worker never refuses one;
* `ResidencyFits`: the attempts of the car generators are not behind their generations.

`OnlyTakeOversAreRefused` needs a second induction over these parts, `AttemptsFit`. An
attempt is one of two kinds. Made by the host it is of what was saved, and when nothing is,
of nothing newer than the publication; made for the worker's packet it has not been
committed beyond the publication. So whoever
tries a generation again has tried it with the same snapshot (`CleanUp`, and `Adopt` of a
packet that was never published) or is a script that publishes what `Adopt` has tried.
Most steps leave the residency alone (`Apart`), whatever they do to the worlds.

The lemmas "...Undisturbed" say which variables a part is about. Then there is a lemma
per action; what several steps do (a request, a discard, a retirement, an upload) is
stated once. The steps of the worker need none of what the main thread knows, but for
the one line on `"Release"`: between the release of a pair of worlds and the next request
the worker has nothing to do.

### Vehicle lifecycle, for every failure

`NativeSourceVehicleLifecycleProofs` proves of `NativeSourceVehicleLifecycle!Spec`
`PedIsInOnePlace` (`PedStaysInOnePlace`), `PoolHoldsTheVehicle`
(`PoolAgreesWithSnapshot`) and the action property `FailuresAreContained`
(`FailuresStayContained`), for any places, any buttons that include the one for the
door, any number of worlds, any capacity and generations of the pool, and any bounds.
The assumptions are `LifecycleAssumption` and `NoneAssumption` (null is no object).

The inductive `Invariant` has four parts:

* `PartsFit`, the types, with `OthersFit` for all that a failed publication can leave
  behind: a pool of the right shape, a vehicle that has a camera;
* `JournalFits`: the last snapshot is consistent in itself and the next event follows its
  last. It holds in spite of failures, since events that were not published are given
  out again, and it is why an observer accepts whatever is published next;
* `VehicleFits`: while memory lasts, the pool has the vehicle of the last snapshot, in
  that state, and no other, and the camera is where driving asks for no transition;
* `PedFits`: while memory lasts, the ped stands where the snapshot says.

The last two cannot be proved one without the other. A hand-over whose vehicle the pool
did not find would stop half way with the ped in both worlds, and a vehicle that drives
without its driver would leave the pool behind. The lemmas on the pool are about its
operators (`AllocatedPool`, `UpdatedPool`, `ReleasedPool`): the reference a caller gets
names the slot that was filled, and resolves. They hold of any pool of the right shape and use the
least-element principle to show that `FirstFree` is free.

### Only model-checked

* Liveness: `ImplementsService` beyond `Service!Spec`, that requests are served, waits end
  and tasks complete. It needs fairness and ENABLED, which the prover does not handle.

Every safety property of every passing run is the statement of a theorem.

## 6. Not modelled

`CdStreamOpen` and the table of images touch no stream; a failing
`CdStreamInitThread` leaves the program without a promise. The initialisation of
the bank loader comes before the first request. Policies above `CStreaming`'s
requests (zones, peds and vehicles to stream, scenes, `ReInit`) only choose
what to request and remove, which the model leaves open.

CAEStreamThread and CAEStreamingChannel: the unlocked flags of `StopTrack` and the
deletion of the track loader under `Service` are visible in this source
(`AEStreamThread.cpp:70`, `:181`), but the channel's service and its decoder are the
original executable's and `PrepareStream` is marked as broken, so that a model would
have to guess what a stop and a track mean.

A hazard seen that no property covers and that is not on the list of `PROJECT.json`:
the script host outlives the world and keeps a callback into it
(`RealtimeScriptHost.cpp:58`).

The other components of the inventory have no module: tasks and events, the
interpreter, world content, rendering and physics are sequential or numerical, and
their difficulty is volume.

## 7. Plan

Done: CdStreamService; CdStream with proofs and its refinement; AEMP3BankLoader,
NativeScriptServiceTransaction, RealtimeWorker, LiveWorld, NativeVehiclePool,
NativeSourceVehicleLifecycle, SmoothFadeThread and Streaming with proofs.

1. *Streaming and CdStream, the rest.* Reads of no sectors in CdStream itself, with a queue
   that may be full; parents of dictionaries; `SetModelIsDeletable` and `GAME_REQUIRED`
   from the game; what the callers of `LoadAllRequestedModels(true)` rely on.
2. *Fades with the stream thread as second caller*, once the streaming channel can be
   read from this source.
3. *Pools of the game* (`CPool`): handles with an identifier that wraps.
