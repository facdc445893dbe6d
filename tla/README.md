# A TLA+ development of the Community Shaders plugin

Community Shaders is a native plugin that replaces the shaders of a game, compiles them on a thread
pool while the game runs, keeps them on disk, and lets users, other plugins and file edits invalidate
them at any moment. This directory models the concurrent core of the plugin in TLA+, checks it with TLC
on small instances and proves theorems about it with TLAPS. Paths below are relative to the repository;
`src/...` is the plugin's own source directory.

    tlc -config MCShaderClaims.cfg MCShaderClaims      # a run
    tlapm ShaderClaimsProofs.tla                       # a proof

`PROJECT.json` is the machine-readable index: components, runs, the defects each property detects, the
source lines behind each definition, hazards, findings and theorems.

## 1. Inventory

### 1.1 Threads

| Thread | What it does here |
| --- | --- |
| main (render) thread | draws, requests shaders, clears the cache, begins and ends saves and loads, drains the game-task queue, runs the `DataLoaded` handler |
| management thread | `ManageCompilationSet`: takes tasks from the queue and detaches them to the pool |
| pool workers | `ProcessCompilationSet`: compile, publish, persist, retire |
| deferred writer | `ProcessDeferredDiskWrites`: writes blobs put off by a save or load |
| file watcher | `UpdateListener::UpdateCache`: reacts to edits of shader sources |
| service threads | DevBench and other plugins' calls, dispatched to the main thread |

### 1.2 Components

**Main-thread dispatch** (`src/Api/MainThreadDispatchState.h`, `RuntimeThreadAffinity.*`,
`RuntimeThreadBinding.cpp`, `DevBenchMainThreadDispatch.h`, `ScreenshotService.cpp`). State: per call a phase
(queued, running, completed, cancelled), its value or exception; globally the thread that owns the
runtime. Operations: submit with a deadline, begin, complete, cancel if still queued, wait; adopt the
thread that drains the queue. Hard: deadline against start, `AddTask` that throws after it has stored the
callback, a call made from inside a handler, a queue nobody drains. Correct when a caller is told what
happened to its handler and always returns.

**Compilation scheduler** (`CompilationSet` in `src/ShaderCache.{h,cpp}`). State: queued, running and
processed tasks, counters, one global and one epoch per category, dispatch slots, foreground or
background mode, the phase being logged, the startup phase. Operations: `Add`, `WaitTake`, `Complete`,
`ReleaseDispatchSlot`, `NotifyIfComplete`, `MarkPhaseStarted`, `Clear`, `ClearTypeLocked`, `Forget`,
`DropPrecompilesLocked`, `SetBackgroundCompilation`, `StopCompilation`. Hard: invalidation while
workers run, unsigned counters moved by several threads, wakeups, early paths. Correct when every task is
counted once, `IsCompiling` turns false exactly when nothing is left, batches drain.

**Shader map and claims** (`src/ShaderCache.cpp`, `src/ShaderCacheSmartClear.cpp`,
`src/Utils/GenerationClaim.h`). State: the bytecode map, parked evictions, source records, the shaders
drawn with. Operations: `ClaimCompilation`, `AddCompletedShader`, `ResolvePendingFailure`,
`TryDeferEviction`, `ApplyDeferredEviction`, `Clear()`, `Clear(type)`, `Clear(path)`, `ClearActive`.
Hard: waits without a timeout, decisions under one mutex used under another, clears that overtake
compiles. Correct when each pending entry has an owner, nothing stale is published, each wait and each
parked eviction ends, an edit takes effect.

**Compile deduplication** (`src/Utils/CompileDedupe.h`). State: a registry of entries by content hash,
each pending, done or failed; bytes retained. Operations: acquire (ticket, wait, blob), publish, fail,
clear. Hard: a clear with tickets out, a publication that throws, an unsigned cap. Correct when no waiter
is stranded and the retained bytes are exact.

**Deferred disk persistence** (`src/ShaderCache.cpp`). State: the queue, its order and bound, the batch
of the writer, files and manifest, the disk-cache generation. Operations: persist now or later, write a
batch, put an interrupted batch back, flush the manifest, block, unblock, clear, delete, teardown. Hard:
a block in the middle of a batch, a full queue, stale blobs, the writer going to sleep as a block ends.
Correct when no accepted write is lost or doubled, nothing cleared comes back, digests reach the disk.

**Shader pack** (`src/Utils/ShaderCachePack.cpp`, its switch in `src/ShaderCache.cpp`). State per lane: two
files with generations, an exact and a logical index, whether the lane is in use. Operations: open, append,
look up, checkpoint, compact, reset, quarantine. Hard: each file operation may fail or be the last before a
crash or a power loss; a failed append is reported under one mutex and dealt with under another. Correct
when nothing from before a durable reset is found again, the indexes are those of the files, and what a
checkpoint reported survives.

**Smart clear** (`src/ShaderCacheSmartClear.cpp`). State: the capture window, the shaders it saw, what it has
cleared. Operations: begin, track, rebind, expire, `ClearActive`. Hard: `ClearActive` runs while the
pool compiles and moves no generation. Correct when every shader it clears comes back.

**Save/load safe mode** (`src/State.cpp`, `src/Utils/WorldLoadTransitionPolicy.h`, the message handler of
`src/XSEPlugin.cpp`). State: the windows of world transition and safe mode, the end of the mutation block,
what it tells the cache, where it came from. Operations: the messages of a load's start, a load's end and a
save, the grace that upscaling arms, the update of every frame. Hard: messages on another thread with a
frame number already old, wrapping frame numbers, events that never come. Correct when the guards agree, last,
and end.

**Accepted-draw observers** (`src/Api/AcceptedDrawRegistry.cpp`, `AcceptedDrawService.cpp`). State: slots
with an active bit and a count of callbacks in one word, the number of subscribers, the thread that publishes.
Operations: register, unregister, dispatch, replay. Hard: dispatch takes no lock; observers throw and call
back. Correct when no callback runs after its `Unregister` returned, and every call returns.

**The rest of the cache**, not modelled: the disk cache's lifecycle and rollback (`CacheRollbackState.h`,
`CacheInvalidation.h`: crashes between file operations), the include dependency tracker and the watcher's
event handling, the enable and disable policies, the tracking-key cache.

**Services**, not modelled: the registry for other plugins (versions, leases), the upscaling
service's command table (retention, event pages), screenshot queues.

**Rendering**, mostly out of reach: features, upscalers, neural rendering, VR submission, the relatch of
VR render targets (its policies are pure and are candidates), texture streaming, water caches, TruePBR.
**The rest**: settings and migrations, weather, menus, the editor, diagnostics, engine fixes, HLSL, build
tooling, vendored interfaces. `PROJECT.json` gives the reason for each.

### 1.3 How the components interact

```
 draw / warm-up ----Add----> CompilationSet --WaitTake--> pool worker
                                  ^   |                       |  claim        +--> CompileDedupe
 Clear, Clear(type), Forget ------+   | generation            v               |    (ticket or wait)
                                      +----IsTaskStale--> shaderMap <--publish+--> disk now, or
 watcher --Clear(path)--> records, evictions (parked) --------^                    deferred queue
                                                                                        |
 save/load safe mode --SetSaveLoadDiskPersistenceBlocked--------------------------> writer --> files, pack
 smart clear --ClearActive--> map, records, shaders, CompilationSet.Forget
 services --DispatchMainThreadTask--> game-task queue --> main thread
```

The generation of the compilation set is the one thing they share: a worker carries the generation its
task was queued at, and every publication, counter and installation compares it with the live one.
`ShaderClaims` keeps it as `live`, `CompilationScheduler` as a sum of two epochs. The disk cache has a
generation of its own (`g_diskCacheGeneration`). Each module stands for itself and abstracts its
neighbours: a compile's outcome is a free choice for the scheduler; queue order, counters and limits are
left out of the claims; a clear of the dedupe registry may come at any time, a superset of when
`NotifyIfComplete`, `BumpGeneration` and `Clear` call it.

### 1.4 Hazards

`PROJECT.json` lists 40, each at its line with the properties that cover it; one has none: a
compile that reads "not blocked" may save directly while an older blob of the same path and generation is
queued; the older one then lands last. Both come from the same source in one generation.

Of some, the code does less than one might expect. Where a text of the repository promises more, section 5
quotes it:

* After `StopCompilation` the management thread has left for good while `Add` goes on counting, so
  `IsCompiling` stays true; `BatchesDrain` excludes stopped sets.
* The destructor ends the block so that deferred writes can be finished, and stops the writer at once; the
  writer discards what it has not taken yet. `WritesSettle` therefore excludes the destructor; that nothing
  is discarded is not a property of this code.
* A clear of the disk cache that cannot remove a file logs it and goes on. The old file stays (`undeleted`);
  its manifest entry does not, and what the manifest does not vouch for is not read.
* A shader the device refuses to create leaves its entry completed and its task finished, with no shader and
  no failure on record, and nothing asks again before a clear. `NoShaderIsLost` excepts it (`Refused`).
* `Clear()` drops the bookkeeping of an eviction that is half applied (`forgotten`): the thread that applies
  it goes on and erases what was claimed after the clear, so a key may be compiled twice, or a shader
  released. TLC meets it with two clears and four requests; `OneLiveOwner` and `NoShaderIsLost` except it.
* A key claimed between the two moves of the generation that `Clear()` makes loses its entry when `Clear()` empties
  the map, and may be claimed again before the second move. `OneLiveOwner` is not stated in between.
* When a compaction of the pack is interrupted and the next one too, the second has truncated the only
  durable copy of some records. `CheckpointedRecordsSurvive` excepts them (`Staked`, `Abandon`). A crash between
  truncation and the durable header leaves a blank file, and the lane is rejected until it is repaired.
* `Register` publishes its slot before it counts it: for a moment `HasObservers` is false although a
  subscription is active, and draws are skipped. If the new observer throws in that moment it is counted down
  first, and it is another, settled observer whose draws are skipped. `SubscribersAreCounted` says by how
  much the count is off, not that no draw is skipped.
* A load without a deadline gets one from the next message. If that is a save that read the frame number
  before the load's message, the guards fall before the grace after the load's message is over, by at most
  what the save is late by. `GuardsLast` says so (`early`).
* A save in the gap between a load's two messages gives safe mode a deadline, which until then it had
  none: the writes come free `Grace` frames after the save although the load goes on, unless the engine
  itself reports it. The repository's own test of a lost completion pins this order, and the window of the
  world transition is not affected.

## 2. The modules

| Module | Models | Checked by, proved in |
| --- | --- | --- |
| `DispatchContract` | what a caller of the dispatcher may rely on (abstract) | instanced by `MainThreadDispatch` |
| `MainThreadDispatch` | the dispatcher, thread affinity, the task queue | `MCMainThreadDispatch`, `MainThreadDispatchProofs` |
| `CompilationScheduler` | `CompilationSet`, dispatch, modes, startup | `MCCompilationScheduler`, `CompilationSchedulerProofs` |
| `ShaderClaims` | the bytecode map, evictions, clears, edits | `MCShaderClaims`, `ShaderClaimsProofs` |
| `SmartClear` | captures and `ClearActive`; extends `ShaderClaims` | `MCSmartClear` |
| `CompileDedupe` | the registry of shared compiles | `MCCompileDedupe`, `CompileDedupeProofs` |
| `DeferredPersistence` | deferred writes, files, manifest, teardown | `MCDeferredPersistence`, `DeferredPersistenceProofs` |
| `ShaderCachePack` | one lane of the managed pack | `MCShaderCachePack`, `ShaderCachePackProofs` |
| `SaveLoadSafeMode` | the guards of saves and loads | `MCSaveLoadSafeMode`, `SaveLoadSafeModeProofs` |
| `AcceptedDraws` | observers of draws | `MCAcceptedDraws`, `AcceptedDrawsProofs` |

In all of them one action is one critical section, one access to an atomic made outside one, or one file
operation; what the code does without giving up the lock is one action. Variables and actions keep the
names of the source, and a thread's place is a string named after what it does next. Constants that only
bound a run are marked `bound:`. Operators named `Mut...` are defects: each states a plausible bug in
the operator that follows, and some property's run fails when it takes that operator's place.

### 2.1 MainThreadDispatch and DispatchContract

The actions follow `DispatchMainThreadTask` line by line: `AddTaskStores`, `AddTaskReturns` or
`AddTaskThrows`, `WaitUntil`, `DeadlinePasses`, `CancelAfterDeadline`, `WaitForCompletion` on the caller;
`EnterRuntimeMainThreadTask`, `TryBegin`, `Complete` on the thread that drains the queue. The callback
may be stored although `AddTask` throws. `RunDevBenchMainThreadTask` and `HandleOnRuntimeMainThread`
are the two entrances; the second runs its handler in place on the main thread. It answers any
exception with the same empty response; the model keeps apart what was thrown, since that is what
`DispatchMainThreadTask` promises, and the missing task interface is its "unavailable". `ThreadTransition` moves
the queue to another thread, as the game does during startup and loading.
`DispatchContract` has four facts per call (verdict, executions, result, reply) and five steps; a call is
decided where its phase leaves "queued", and that is the refinement mapping.

### 2.2 CompilationScheduler

`taskGen` is the generation inside a queued copy, `slot` the detached pool closures, `user` what is left
of an operation a caller is inside (several operations release the mutex half-way), `manager` where the
management thread is. A `notify_one` issued after the mutex is released is remembered in `notifyOwed` and
delivered later; spurious wakeups happen. `IsCompiling` reads three atomics; they are taken as one read.
Priority weights, timings and hit counters are left out, and the two thread limits are fixed during
a run. A synchronous compile may start a phase with nobody left to latch its completion: `MarkPhaseStarted`
allows that, and so does the model. `Clear()` and `Clear(path)` empty a batch without
`TryCompleteStartupCompilationPhase`; `StartupPhaseEnds` speaks of batches with tasks only. A service stops
compilation on the main thread, so not while the `DataLoaded` handler occupies it.

### 2.3 ShaderClaims

One category and one source file; bytecode is the version of the source it was compiled from, and
installing it is `shader`. `TryDeferEviction` is two actions (`TryDefer`, `Park`), because it reads the
compilation set before it takes `mapMutex`; `Clear(path)` is six, `Clear()` five, `Clear(type)` one
(every mutex is held). `NamedForType` says whether the source file's stem names a category: for these
files a path with no record falls back to `Clear(type)`. It is FALSE for the image-space files, whose
category is cleared by the main thread (`VR.cpp`, `DynamicCubemaps.cpp`). Descriptors with the same macros share
a key. Requests come from any thread, also while the main thread is inside `Clear()`. The device may refuse to
create a shader (`Refused`, in the runs with faults). `forgotten` is a history variable: the keys whose half-applied
eviction a `Clear()` dropped (1.4).
Left out: edits of included files, the stop path, exceptions out of a draw's own compile, reuse from disk.

### 2.4 CompileDedupe

Acquire, wait, publish (charge, then wake) and fail (unlist, then wake) are separate critical sections.
An entry lives while something points at it; an identity nothing points at stands for memory that can be
allocated again. `TakeTicket` needs a free identity: with as many identities as threads in the run, a thread
may have to wait for one, which the code never does; the theorems, which hold for any number, are not
affected.

### 2.5 DeferredPersistence

A blob is its path and the generation its compile captured, the key of the queue. `log` remembers each
write the queue accepted and its fate. `Settles` and `Requeues` say what the end of a batch does to queue
and log; the writer takes them in three actions (`WriterSettles`, `WriterRequeues`, one blob at a time with the mutex
kept, `WriterFinishes`), the destructor only settles. The predicate of the writer and its going to sleep are two actions
with the mutex held between them (`MutexFree`), so that a lost notification can be told from one that waits
for the mutex. Left out: the pack layout, developer mode's second paths, contents; whether a
digest is the 25th since the last flush is a free choice; a manifest flush succeeds; the notification of an enqueue is
part of it. An interrupted batch returns to the front in reverse order (`push_front`), as in the code.
The digest comparison of a read is approximated by the generation. Removing a file may fail, for each path
by itself, and `undeleted` remembers those whose old file stayed. No compile runs in the destructor.
When a block begins and ends is free here; that it ends is what `SaveLoadSafeMode` shows (`GuardsEnd`).

### 2.6 ShaderCachePack

One action is one file operation, and `op` says how far a compaction or reset has got; before each the
process may die, and with the machine everything since the file's last `DurableFlush` may. Hashes, offsets
and sizes are left out: a scan finds, in order, the records whose commit trailer reached the file. A torn tail is a
flag. The history variables are what a checkpoint has reported as durable (`kept`) and what a durable reset covers
(`erased`). Left out: the manifest, the second lane and the admission of both lanes at once.

### 2.7 AcceptedDraws

One action is one access to an atomic; a compare-and-swap loop is the access that ends it, so a thread may
retry for ever only where others make progress. The token a draw carries is current or not. Calls the
registry refuses (an observer that registers or unregisters on its own thread) change nothing and have no
action. Filters by geometry, depth target and suppression decide whether a draw is delivered, and are
left out: any draw may be.

### 2.8 SmartClear

Every step of `ShaderClaims` is a step here (`OfClaims`), except that the main thread begins nothing while
it is inside `ClearActive`. How many frames a window lasts is free; frames that end on another thread
restart it (`Rebind`). A tracked lookup need not be followed by a request: safe mode and bulk loads suppress
requests but not tracking. Left out: the shaders of features, which are in no map, and the files, which are `DeferredPersistence`'s.

### 2.9 SaveLoadSafeMode

Every operation holds `saveLoadSafeModeMutex`, but what it publishes is read without it. Where the order
of two publications matters an operation is two actions (`Raise`, then `Publish`; `UpdateWindows`, then
`EndUpdate`), with the mutex held between them (`MutexFree`). A save's message reads the frame number before it
waits (`saver.frame`), and upscaling looks at safe mode before it extends it (`CanArmCompletionGrace`).
Frame numbers are counted modulo `Cycle` and zero is the code's sign for "none", both as in the code. What
makes a recovery unsafe besides a load (a menu, a pending reset, an unknown engine) is one free input.
`quiet` is a history variable: the frames since what the guards are there for. `early` is another: by how many
frames a late save has dated a load's guards too early (1.4). The messages of loads are handled on the main
thread between two frames, as the game sends them; the repository's tests also send them from other
threads, which the mutex allows and the model leaves out. Left out: the
generation number of the recovery token (its source is kept), the light-attachment invalidation, the log.

## 3. Runs

All runs finish well within five minutes on two cores.

| Run | Instance | Distinct states | Shows |
| --- | --- | --- | --- |
| `dispatch` | 2 calls, 2 threads | 44 000 | affinity, refinement of the contract (so replies are true), every call returns |
| `compile` | 2 tasks in 2 categories, 2 slots, 2 callers, limits 2 and 1, 2 operations of any kind | 331 000 | accounting, one worker per live task, stale work is on its way out, wanted work kept, no false completion, batches drain, the startup phase ends |
| `dedupe` | 2 keys that do not fit together, 3 threads, 3 entries | 130 000 | owners, admission of retries, exact retention, every wait ends |
| `persistence` | 1 compiler, 2 paths, queue and batch of 2, 3 compiles, 1 invalidation, 2 blocks, removals that fail | 559 000 | the queue is sound, writes are accounted for, the newest wins, nothing is resurrected, writes settle, digests reach the disk |
| `claims_safety` | 2 tasks of one key, 1 worker and the main thread, 4 requests and draws, 1 clear of either kind, 1 edit, failures | 8.0 million | claims have owners, one live owner, stale compiles are discarded, no shader is lost |
| `claims_async` | `SmartClear`: 1 task, 2 workers, 1 edit, one of `Clear()`, `Clear(type)` and a smart clear, pool tasks only | 374 000 | evictions are applied, waiters are woken |
| `pack` | 3 exact and 2 logical keys, generations up to 5, 3 appends, failures and crashes anywhere | 1.7 million | resets are final, indexes match the files, checkpointed records survive |
| `draws` | 2 renderers, 2 clients, 2 slots, counter of width 8, 4 subscriptions | 331 000 | subscribers are counted, unregistration is quiescent, calls return |
| `safe_mode` | 19 frame numbers, graces of 3 and 2, fallback of 4, 4 events, a save late by up to 2 frames | 575 000 | guards agree, last and end; a load is not taken for a save |
| `claims_parked`, `claims_edits`, `smart_clear` | 1 worker, 1 edit or 1 smart clear | violations | see 5 |

Why the bounds suffice. The hazards are races of two threads about one task, key, entry or blob, with at
most one invalidation between. Two tasks let a batch be half done when it is invalidated; two categories
tell a scoped clear from a global one; three operations build a task up, invalidate it and ask for it
again. A third thread in `dedupe` allows an owner, a late publisher and a waiter at once. A queue and batch
of two with three compiles fill the queue, interrupt a batch after its first write and find the queue
full when it is put back. Generations up to five let a reset follow a compaction that follows a reset, in this run; the
theorems have no such limit. Nineteen
frame numbers are more than twice the fallback, a late save and three frames together, which is what the
comparison of wrapping numbers needs (the theorems assume no more), and few enough that every event meets the
wrap. Two slots and a counter of width 8 let a slot be reused while its former subscriber's callback still
runs. What a bound could hide in an invariant or an action property is what the theorems are for: they hold
for every value of the constants, of generations and clears as well. Some combinations are in no run: two
workers beside the main thread in `ShaderClaims` (searched completely with one key, two requests, one clear, one edit
and failures, 2.2 million states; only there is `OneLiveOwner`'s exception within `Clear()` met), and two clears
with four requests, which is how the exception `forgotten` was found.

Type invariants and simple facts
that are theorems (`TypeOK` of the dispatcher, the claims, the registries; `InFlightIsHonest`) are in no run.

`CHECK_DEADLOCK FALSE` stands where the system may rest: the bounds on requests run out, or the destructor is done.

`claims_async` is restricted on purpose, and so is `OneLiveOwner`, which is stated while the watcher is not
half-way through `Clear(path)` and the main thread not in the last part of `Clear()`: without the restrictions the
code does not have these properties (1.4 and section 5).

### Fairness

A thread inside an operation goes on with it: weak fairness of each caller, worker, writer and of the
manager. Notifications are delivered. Nothing forces anyone to request, clear or edit, nothing forces the
game to drain its task queue (a paused game does not), and nothing forces `CompletionFlushes`. A clock
passes a deadline, a started handler ends, a compile ends (the compiler returns or throws). `Unblock` is
fair because `SaveLoadSafeMode` has `GuardsEnd`, which needs no more than that the game renders frames and
that a message being handled is finished. `ClearActive` goes on once begun. Observers return, replay or
throw; nothing is assumed of who gets the registry's mutex. Spurious wakeups are never relied on.

## 4. Theorems

TLAPS checks every step, from the named assumptions of each module only: finite sets of tasks, slots
and workers, categories, ranks, sizes and keys of the right type, limits of at least one, fresh null values. Every
theorem holds for all values of the constants.

* `MainThreadDispatchProofs`: `TypeCorrect`, `RepliesAreTrue`, `NeverCancelledBehindItsBack`,
  `AffinityFollowsTheQueue`, and `ImplementsContract`: the dispatcher implements `DispatchContract`. The
  invariant `CallInv` ties a caller's place, the phase and the number of runs together: the phase is the
  single point where a call is decided. `AffinityInv` is needed because the owner changes only at the
  next task, not at the transition.
* `CompilationSchedulerProofs`: `TypeCorrect`, `EveryTaskIsAccountedFor`, `LiveTasksHaveOneWorker`,
  `ThrottleIsExact`. `TypeOK` says the unsigned counters never wrap, which follows only from the accounting.
  `NoneAheadOfLive` (no closure or queued copy is ahead of the live generation) is the strengthening that makes an
  invalidation final: after an increment every older closure is stale. Lemmas on cardinalities count what
  a mode switch, a scoped clear and a retirement remove. Further `RequiredWorkIsKept`,
  `CompletionsAreAnnounced`, `StaleWorkIsOnItsWayOut` and `DeadGenerationsStayDead`, the last an action property.
* `ShaderClaimsProofs`: `TypeCorrect`, `NoClaimIsOrphaned`, `NothingStaleIsPublished`. Strengthened by
  `GenerationsArePast` (no thread or entry is ahead of `live`), and `CurrentWorkIsFresh`: a compile whose
  generation is live has read a source no older than the one the watcher has dealt with. Most actions are
  covered by two lemmas on steps that leave the map alone or only advance the generation. `OneOwnerPerKey`
  rests on a second invariant, `Ownership`: a live claim is in the map (`ClaimsAreListed`), nobody claims a
  key with a parked eviction (`ParkedKeysAreQuiet`), an eviction under way is parked (`EvictionsAreParked`). It is
  stated where `Clear(path)` decides nothing and `Clear()` is not in the part after the emptying of the map
  (`Calm`, `Emptied`); `CalmStays` says which steps stay clear of these parts.
  `NoShaderGoesMissing` adds a third, `Keeping`: a finished task has its shader and no eviction parked, and
  a compile past its point of no return brings what will be drawn (`ShadersAreKept`); completed entries hold
  a shader; records and evictions, parked or under way, name tasks of their own key (`RecordsAreByKey`,
  `EvictionsAreByKey`).
* `CompileDedupeProofs`: `TypeCorrect`, `NoWaiterIsStranded`, `RetryAdmissionIsReady`,
  `RetentionStaysUnderTheCap`, `RetentionIsCounted`. An entry has at most one owner, held entries are pending, an owner that
  publishes late after a clear is not listed, a failing entry is unlisted before its waiters wake.
  The charge is the cardinality of the set of bytes kept, each known by its key and its place (`BytesKept`),
  so that what charging, forgetting and clearing do to it needs no induction over a sum (`BytesAreCounted`).
* `DeferredPersistenceProofs`: `ClearsAreFinal` (nothing the manifest vouches for is older than the clear, and no
  file is that could be removed) and `SavesInProgressAreCurrent`. `FilesComeFirst` ties the two: who is about to record
  a digest has written the file it speaks of. While a save holds the shared lock its blob is of the current generation,
  and clears, which need the lock exclusively, are behind it. `TypesAreKept`, `TheQueueIsSound`,
  `WritesAreNeverLost` and `TheNewestWriteWins` rest on one invariant, `QueueInvariant`: what is queued, in the batch
  or being put back is exactly the accepted and unsettled part of the log, in its order and without repeats.
* `ShaderCachePackProofs`: `TypeCorrect`, `ResetsAreFinal`, `IndexesAreTheFiles`, `CheckpointsAreKept`. A reset is final because the
  empty file's generation leads the old one by two: what is searched is the active file and the generation
  just before (`OldIsHidden`, `Leads`, `OtherIsHidden`), and no later compaction, reset or clean-up closes
  the gap from below (`FilesGoOn`, `TargetAdvances`). The indexes are followed record by record
  (`IndexIsBuilt`), and a clean-up meets only what they do not name (`CleanupFindsNothing`).
  `CheckpointsAreKept` rests on two more invariants. `Sorted`: of one logical key, what stands later, in any
  version of either file that a power loss can bring back, is newer, so the newest location is the newest
  record, and a compaction copies the newest of each key. `Promised`: a kept record is durable in a file
  that will be searched whatever becomes of the other (`Stands`), and in the middle of a compaction it is
  in the file being left and either still to copy or copied (`Copied`). An attempt at this proof showed
  that the exception for an interrupted compaction was too narrow in the model: `Staked` counted a record
  as durable in the active file by what that file had held before it was rewritten. TLC finds the
  counterexample only with six appends; `HeldDurably` now compares the generations.
* `AcceptedDrawsProofs`: `TypeCorrect`, `QuiescentUnregister`, `Counting`. The active bit and the count
  in one word make a callback's entry and the deactivation of its slot exclusive; the subscribers are the
  active slots, corrected by who is between the two accesses.
* `SaveLoadSafeModeProofs`: `TypeCorrect`, `GuardsAlwaysAgree`. Strengthened by `OneHolder` (of the mutex),
  `RaisedBeforePublished` (what is about to publish safe mode has dated it and blocked the writes) and
  `BlockHasCause` (in the middle of an update writes are blocked for a reason the rest of it sees).
  `GuardsLastTheGrace` and `LoadsAreGuarded` rest on `Timing`: a save's frame number is not too old (`Lag`), a
  date that is set is near enough to be compared modulo `Cycle` (`DatesAreNear`), what is left of the grace
  is at least what has not passed of it (`Promise`), and the guards are dated after the load they are for
  (`Covered`). A late save that dates a load is part of `Lag` and `Promise`: it is late by at most `MaxLag + 1`
  frames, and what it cuts off is no more. The remainders are dealt with once, in lemmas about distances.

Only model-checked: all liveness properties (the prover has no rule for fairness) and the findings'
counterexamples. Every invariant and every action property of a passing run is a theorem.

## 5. Findings

1. `claims_parked`. `TryDeferEviction` decides that a pool task will apply the eviction without asking whether
   that task owns the pending entry. When a draw does, its own application is refused, and the pool
   task, made stale by the clear, returns early without applying: the eviction stays parked and blocks
   every later claim of the key.
2. `claims_edits`. `Clear(path)` evicts a published shader while its worker is still building from it; until
   the set's generation moves, the worker installs the old one, and the edit has no effect. A second way,
   not in that run: descriptors that share a key keep only the last descriptor's record, so an edit
   releases one of them. The same gap between looking and erasing has a third consequence: a claim made in
   it is erased without a notification, its owner publishes in vain, and another task of the key waits for
   good. `ClearActive` takes care to do both under one lock.
3. `smart_clear`. `ClearActive` asks whether a task is in progress and acts on the answer under other
   mutexes. A task still queued when it looks may be compiled, published and installed before it evicts, and
   in progress when it forgets: the task ends up finished without a shader, and nothing asks for it again.

Four more places where the code does less than a text of the repository says are no runs; the properties
named except them.

* `~ShaderCache` (`src/ShaderCache.cpp:3658`) means to "finish persisting them even if teardown began before the load
  grace window expired", but stops the writer right after lifting the block (3663), and the writer discards
  its queue when it sees the stop (6303). `WritesSettle` does not speak of the destructor.
* `FullSceneIndexedCoverage` (`include/VRAPI/CSacceptedDrawapi.h:23`) names the main scene's indexed draws as what
  observers are shown; draws are skipped while the count of subscribers is wrongly zero (1.4, `SubscribersAreCounted`).
* The tests of the save and load guards (`tests/world_load_transition_policy_test.cpp:95`,
  `tests/ordinary_save_state_test.cpp:211`) say that an older request must not shorten a deadline and that a save must not
  downgrade a load's protection. Both hold of a load that has a deadline; one that has none yet gets it
  from the save (1.4, `GuardsLast`).
* A shader the device refuses counts as a success in the progress the user sees (1.4, `NoShaderIsLost`).

## 6. Plan

Done, in this order: the dispatcher with its abstract contract, the scheduler, the claims, the two
registries they use, the pack, the accepted draws, smart clear, safe mode. Next, most important first:

1. Included files in `ShaderClaims`; an abstract specification of the cache (a drawn shader is of a version
   not older than the last handled edit) that the restricted `ShaderClaims` implements.
2. A composition of scheduler, claims and dedupe over one generation, to check the interfaces each module
   now abstracts (who calls `Clear` of the registry, `IsInProgress` against `WaitTake`), and one of
   `SaveLoadSafeMode` with `DeferredPersistence` in place of `Block` and `Unblock`.
3. `DiskCacheLifecycle`: validation, back-up, selective seeding, restore and rollback
   (`CacheRollbackState`) with a crash between any two file operations; invariant: a cache that is used
   matches its feature set. With it the manifest of the pack. Hazard known already: a manifest entry without a content
   key is accepted without a byte comparison after an interrupted overwrite (`ReadVerifiedCachedShaderBlob`).
4. `ServiceRegistry` and the command table of `UpscalingService`, the second as another user of the dispatch
   contract.
5. The VR relatch policies and texture streaming's restoration queue.

Theorems to come: the safety of `SmartClear` beyond what it shares with `ShaderClaims`, the refinement of
item 1.

## 7. Not modelled

What is modelled is a small part of the repository by lines and a large one of its concurrent core. Most
lines are rendering: upscaling, neural rendering, features, shaders and their menus. They submit work to
the GPU and to vendor libraries frame by frame on one thread; what can go wrong there is in device state,
floating-point images and the closed engine, none of which TLC can hold. Settings, migrations and weather
are sequential transformations that unit tests reach. What remains within reach is the plan above;
`PROJECT.json` names each component with its reason.
