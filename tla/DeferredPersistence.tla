------------------------- MODULE DeferredPersistence ------------------------
(***************************************************************************)
(* How compiled shaders reach the loose disk cache (ShaderCache.cpp).  A   *)
(* compile saves its blob itself, unless a save or load of the game blocks *)
(* persistence: then the blob joins a bounded queue that one writer thread *)
(* empties in batches once the block is over.  Clearing the cache advances *)
(* its generation under the exclusive lock every save shares, and the      *)
(* destructor closes the queue and joins the writer.                       *)
(*                                                                         *)
(* One action is one critical section, one atomic access or one file       *)
(* operation.  A blob is known by its path and the generation its compile  *)
(* captured; that pair is the key of the queue.  The managed pack layout,  *)
(* developer mode (a second set of paths) and the contents of blobs are    *)
(* left out.  Whether a digest is the 25th since the manifest was flushed  *)
(* is a free choice.                                                       *)
(***************************************************************************)
EXTENDS Integers, Sequences, FiniteSets, SequencesExt

CONSTANTS
    Compilers,      \* threads that compile and persist
    Writer,         \* the deferred disk writer thread
    Paths,          \* disk paths of shaders
    MaxQueued,      \* kMaximumDeferredDiskWrites
    BatchSize,      \* kDeferredDiskWriteBatchSize
    MaxCompiles,    \* bound: compiles that reach persistence
    MaxGeneration,  \* bound: invalidations of the disk cache
    MaxEvents       \* bound: the same and saves and loads of the game together

ASSUME BoundsAreNatural ==
    /\ MaxQueued \in Nat \ {0} /\ BatchSize \in Nat \ {0}
    /\ MaxCompiles \in Nat /\ MaxGeneration \in Nat /\ MaxEvents \in Nat
ASSUME WriterIsNoCompiler == Writer \notin Compilers

Actors == Compilers \cup {Writer}
Generations == 0 .. MaxGeneration + 1
Nothing == -1       \* no file, no manifest entry

VARIABLES
    \* the disk cache
    generation,     \* g_diskCacheGeneration
    active,         \* isDiskCache, no rollback held
    file,           \* the generation of the blob in each path's file
    manifest,       \* the generation each path's digest was recorded for
    saved,          \* Manifest.json
    clearedAt,      \* history: the generation that cleared each path last
    undeleted,      \* history: paths whose old file that clear could not remove
    owed,           \* history: a digest the writer recorded is not saved yet
    \* deferredDiskWritesMutex guards these
    writes,         \* deferredDiskWrites
    order,          \* deferredDiskWriteOrder
    inFlight,       \* deferredDiskWritesInFlight
    flushPending,   \* deferredManifestFlushPending
    log,            \* history: every write the queue accepted, and its fate
    \* flags
    blocked,        \* saveLoadDiskPersistenceBlocked
    accept,         \* acceptDeferredDiskWrites
    stop,           \* the writer's stop token
    \* threads
    pc, job,        \* where each is, and the blob it is saving
    batch,          \* the writer's local writes
    extracted, durable, flush, requeued,
    main,           \* the main thread
    compiles, blocks

disk == <<generation, active, file, manifest, saved, clearedAt, undeleted, owed>>
queue == <<writes, order, inFlight, flushPending, log>>
flags == <<blocked, accept, stop>>
local == <<batch, extracted, durable, flush, requeued>>
bounds == <<compiles, blocks>>
vars == <<disk, queue, flags, pc, job, local, main, bounds>>

Key(i) == <<log[i].path, log[i].gen>>
Blob(p, g, i) == [path |-> p, gen |-> g, id |-> i]
NoJob(p) == Blob(p, 0, 0)

\* bound
MayInvalidate == generation < MaxGeneration /\ blocks + generation < MaxEvents

\* The writer keeps the mutex from the evaluation of its predicate until the
\* condition variable has it asleep, and while it puts writes back.
MutexFree == pc[Writer] \notin {"fallingAsleep", "requeueing"}

Wake == pc' = [pc EXCEPT ![Writer] = IF @ = "asleep" THEN "ready" ELSE @]

Init ==
    /\ generation = 0 /\ active = TRUE
    /\ file = [p \in Paths |-> Nothing]
    /\ manifest = file /\ saved = file
    /\ clearedAt = [p \in Paths |-> 0] /\ undeleted = {}
    /\ owed = FALSE
    /\ writes = {} /\ order = <<>> /\ inFlight = 0 /\ flushPending = FALSE
    /\ log = <<>>
    /\ blocked = FALSE /\ accept = TRUE /\ stop = FALSE
    /\ pc = [a \in Actors |-> IF a = Writer THEN "ready" ELSE "idle"]
    /\ job = [a \in Actors |-> NoJob(CHOOSE p \in Paths : TRUE)]
    /\ batch = <<>> /\ extracted = 0 /\ durable = FALSE /\ flush = FALSE /\ requeued = FALSE
    /\ main = "idle"
    /\ compiles = 0 /\ blocks = 0
-----------------------------------------------------------------------------
(* CompileShader and PersistCompiledShaderBlob.                            *)

Goto(a, where) == pc' = [pc EXCEPT ![a] = where]

StartCompile(c, p) ==
    /\ pc[c] = "idle" /\ main \in {"idle", "unblocking"} /\ compiles < MaxCompiles
    /\ job' = [job EXCEPT ![c] = Blob(p, generation, 0)]
    /\ compiles' = compiles + 1
    /\ Goto(c, "compiling")
    /\ UNCHANGED <<disk, queue, flags, local, main, blocks>>

\* The compile failed, its source changed, or there is no disk cache.
PersistNothing(c) ==
    /\ pc[c] = "compiling"
    /\ Goto(c, "idle")
    /\ UNCHANGED <<disk, queue, flags, job, local, main, bounds>>

PersistCompiledShaderBlob(c) ==
    /\ pc[c] = "compiling" /\ accept /\ active
    /\ Goto(c, IF blocked THEN "deferring" ELSE "saving")
    /\ UNCHANGED <<disk, queue, flags, job, local, main, bounds>>

\* The waiting write for the same blob, if there is one, is replaced.
Queued(p, g) == {i \in writes : Key(i) = <<p, g>>}
Settle(ids, fate) ==
    [i \in DOMAIN log |-> IF i \in ids THEN [log[i] EXCEPT !.fate = fate] ELSE log[i]]

Enqueue(c, room) ==
    LET p == job[c].path
        g == job[c].gen
        old == Queued(p, g)
        new == Len(log) + 1
        entry == [path |-> p, gen |-> g, fate |-> "pending"]
    IN /\ pc[c] = "deferring" /\ MutexFree
       /\ IF accept /\ (old # {} \/ room)
          THEN /\ log' = Append(Settle(old, "superseded"), entry)
               /\ writes' = (writes \ old) \cup {new}
               /\ order' = IF old # {} THEN order ELSE Append(order, <<p, g>>)
          ELSE UNCHANGED <<log, writes, order>>
       /\ pc' = [pc EXCEPT ![c] = "idle",
                           ![Writer] = IF @ = "asleep" THEN "ready" ELSE @]
       /\ UNCHANGED <<disk, inFlight, flushPending, flags, job, local, main, bounds>>

\* Defect: writes the writer has taken do not count.
MutDeferWrite(c) == Enqueue(c, Cardinality(writes) < MaxQueued)

DeferWrite(c) == Enqueue(c, Cardinality(writes) + inFlight < MaxQueued)
-----------------------------------------------------------------------------
(* SaveShaderBlobToDisk, by a compile or by the writer.  A thread from     *)
(* "writing" to "recording" holds g_diskCacheMutationMutex shared.         *)

\* Defect: a compile's generation is not compared with the cache's.
MutSaveBegin(a) ==
    /\ pc[a] = "saving"
    /\ Goto(a, "writing")
    /\ UNCHANGED <<disk, queue, flags, job, local, main, bounds>>

\* What a save leaves behind: the caller goes on, the writer notes the fate
\* of the queued write.
EndSave(a, fate) ==
    /\ Goto(a, IF a = Writer THEN "working" ELSE "idle")
    /\ log' = IF a = Writer THEN Settle({job[a].id}, fate) ELSE log

SaveBegin(a) ==
    /\ pc[a] = "saving"
    /\ IF job[a].gen = generation THEN Goto(a, "writing") /\ UNCHANGED log
       ELSE EndSave(a, "skipped")
    /\ UNCHANGED <<disk, writes, order, inFlight, flushPending, flags, job, local, main, bounds>>

WriteCachedShaderBlob(a) ==
    /\ pc[a] = "writing"
    /\ file' = [file EXCEPT ![job[a].path] = job[a].gen]
    /\ undeleted' = undeleted \ {job[a].path}
    /\ Goto(a, "recording")
    /\ UNCHANGED <<generation, active, manifest, saved, clearedAt, owed,
                   queue, flags, job, local, main, bounds>>

WriteFails(a) ==
    /\ pc[a] = "writing"
    /\ EndSave(a, "skipped")
    /\ UNCHANGED <<disk, writes, order, inFlight, flushPending, flags, job, local, main, bounds>>

RecordShaderDigest(a) ==
    /\ pc[a] = "recording"
    /\ manifest' = [manifest EXCEPT ![job[a].path] = job[a].gen]
    /\ \/ saved' = manifest' /\ owed' = FALSE
       \/ saved' = saved /\ owed' = (owed \/ a = Writer)
    /\ durable' = (durable \/ a = Writer)
    /\ EndSave(a, "written")
    /\ UNCHANGED <<generation, active, file, clearedAt, undeleted, writes, order, inFlight,
                   flushPending, flags, job, batch, extracted, flush, requeued, main, bounds>>
-----------------------------------------------------------------------------
(* ProcessDeferredDiskWrites.                                              *)

HasPendingWork == writes # {} \/ flushPending

\* The predicate is false: the writer is about to sleep with the mutex held.
WriterWaits ==
    /\ pc[Writer] = "ready" /\ ~stop /\ (blocked \/ ~HasPendingWork)
    /\ Goto(Writer, "fallingAsleep")
    /\ UNCHANGED <<disk, queue, flags, job, local, main, bounds>>

WriterSleeps ==
    /\ pc[Writer] = "fallingAsleep"
    /\ Goto(Writer, IF stop THEN "ready" ELSE "asleep")
    /\ UNCHANGED <<disk, queue, flags, job, local, main, bounds>>

WriterWakes ==
    /\ pc[Writer] = "asleep"
    /\ Wake
    /\ UNCHANGED <<disk, queue, flags, job, local, main, bounds>>

Extract(taken) ==
    LET keys == SubSeq(order, 1, taken) IN
    /\ pc[Writer] = "ready" /\ ~stop /\ HasPendingWork /\ ~blocked
    /\ batch' = [n \in 1 .. taken |-> CHOOSE i \in writes : Key(i) = keys[n]]
    /\ order' = SubSeq(order, taken + 1, Len(order))
    /\ writes' = writes \ {batch'[n] : n \in 1 .. taken}
    /\ extracted' = taken
    /\ flush' = flushPending /\ flushPending' = FALSE
    /\ durable' = FALSE
    /\ Goto(Writer, "working")
    /\ UNCHANGED <<disk, log, flags, job, requeued, main, bounds>>

TakenNow == IF Len(order) < BatchSize THEN Len(order) ELSE BatchSize

\* Defect: a batch is counted as full.
MutWriterTakes ==
    /\ Extract(TakenNow)
    /\ inFlight' = inFlight + BatchSize

WriterTakes ==
    /\ Extract(TakenNow)
    /\ inFlight' = inFlight + TakenNow

\* The head of the batch: dropped without a cache, else saved.
WriterProceeds ==
    /\ pc[Writer] = "working" /\ batch # <<>> /\ ~blocked
    /\ batch' = Tail(batch)
    /\ IF active
       THEN /\ job' = [job EXCEPT ![Writer] =
                          Blob(log[Head(batch)].path, log[Head(batch)].gen, Head(batch))]
            /\ Goto(Writer, "saving")
            /\ UNCHANGED log
       ELSE /\ log' = Settle({Head(batch)}, "skipped")
            /\ UNCHANGED <<job, pc>>
    /\ UNCHANGED <<disk, writes, order, inFlight, flushPending, flags,
                   extracted, durable, flush, requeued, main, bounds>>

\* Under the mutex, kept until the last write is put back: the batch is over or
\* interrupted, and counts no longer.
Settles(rest) ==
    /\ pc[Writer] = "working" /\ (batch = <<>> \/ blocked)
    /\ inFlight' = IF inFlight >= extracted THEN inFlight - extracted ELSE 0
    /\ batch' = rest /\ extracted' = 0 /\ requeued' = FALSE
    /\ Goto(Writer, "requeueing")
    /\ UNCHANGED <<disk, writes, order, flushPending, log, flags, job, durable, flush,
                   main, bounds>>

\* Defect: the rest of an interrupted batch is dropped.
MutWriterSettles == Settles(<<>>)

WriterSettles == Settles(batch)

\* Where the write at the head of what is left goes.
BackToQueue(i) ==
    /\ writes' = writes \cup {i} /\ order' = <<Key(i)>> \o order
    /\ requeued' = TRUE
    /\ UNCHANGED log

Forgotten(i, fate) ==
    /\ log' = Settle({i}, fate)
    /\ UNCHANGED <<writes, order, requeued>>

\* Defect: an interrupted write takes a newer one's place.
MutRequeue(i) ==
    LET newer == {j \in writes : Key(j) = Key(i)} IN
    IF newer # {}
    THEN /\ writes' = (writes \ newer) \cup {i} /\ log' = Settle(newer, "superseded")
         /\ requeued' = TRUE
         /\ UNCHANGED order
    ELSE BackToQueue(i)

\* To the front, unless a newer write for the same blob came in or there is no room.
Requeue(i) ==
    IF \E j \in writes : Key(j) = Key(i) THEN Forgotten(i, "superseded")
    ELSE IF Cardinality(writes) + inFlight < MaxQueued THEN BackToQueue(i)
    ELSE Forgotten(i, "skipped")

WriterRequeues ==
    /\ pc[Writer] = "requeueing" /\ batch # <<>>
    /\ Requeue(Head(batch))
    /\ batch' = Tail(batch)
    /\ UNCHANGED <<disk, inFlight, flushPending, flags, pc, job, extracted, durable, flush,
                   main, bounds>>

FinishBatch(owesFlush) ==
    /\ pc[Writer] = "requeueing" /\ batch = <<>>
    /\ flushPending' = (flushPending \/ (requeued /\ owesFlush))
    /\ Goto(Writer, IF ~requeued /\ (flush \/ durable) THEN "flushing" ELSE "ready")
    /\ UNCHANGED <<disk, writes, order, inFlight, log, flags, job, local, main, bounds>>

\* Defect: an interrupted batch forgets the manifest it still has to flush.
MutFinishesUnflushed == FinishBatch(FALSE)

WriterFinishes == FinishBatch(flush \/ durable)

WriterFlushes ==
    /\ pc[Writer] = "flushing"
    /\ IF blocked THEN Goto(Writer, "deferringFlush") /\ UNCHANGED <<saved, owed>>
       ELSE Goto(Writer, "ready") /\ saved' = manifest /\ owed' = FALSE
    /\ UNCHANGED <<generation, active, file, manifest, clearedAt, undeleted, queue, flags, job,
                   local, main, bounds>>

WriterDefersFlush ==
    /\ pc[Writer] = "deferringFlush"
    /\ flushPending' = TRUE
    /\ Goto(Writer, "ready")
    /\ UNCHANGED <<disk, writes, order, inFlight, log, flags, job, local, main, bounds>>

WriterExits ==
    /\ pc[Writer] = "ready" /\ stop
    /\ log' = Settle(writes, "discarded")
    /\ writes' = {} /\ order' = <<>> /\ flushPending' = FALSE
    /\ Goto(Writer, "exited")
    /\ UNCHANGED <<disk, inFlight, flags, job, local, main, bounds>>
-----------------------------------------------------------------------------
(* SetSaveLoadDiskPersistenceBlocked, as a save or load begins and ends.   *)

Block ==
    /\ main = "idle" /\ blocks + generation < MaxEvents
    /\ blocked' = TRUE /\ blocks' = blocks + 1
    /\ UNCHANGED <<disk, queue, accept, stop, pc, job, local, main, compiles>>

Unblock ==
    /\ main = "idle" /\ blocked
    /\ blocked' = FALSE /\ main' = "unblocking"
    /\ UNCHANGED <<disk, queue, accept, stop, pc, job, local, bounds>>

\* Through the mutex, so that the edge is not lost on a writer that has
\* evaluated its predicate and does not sleep yet.
AfterEdge == IF main = "unblocking" THEN "idle" ELSE "stopping"

\* Defect: the notification does not wait for the mutex.
MutUnblockNotifies ==
    /\ main \in {"unblocking", "closing"}
    /\ Wake
    /\ main' = AfterEdge
    /\ UNCHANGED <<disk, queue, flags, job, local, bounds>>

UnblockNotifies ==
    /\ main \in {"unblocking", "closing"} /\ MutexFree
    /\ Wake
    /\ main' = AfterEdge
    /\ UNCHANGED <<disk, queue, flags, job, local, bounds>>

-----------------------------------------------------------------------------
(* Invalidation, under g_diskCacheMutationMutex held exclusively.          *)

NoSaveInProgress == \A a \in Actors : pc[a] \notin {"writing", "recording"}

Advance ==
    /\ main \in {"idle", "unblocking"} /\ NoSaveInProgress
    /\ MayInvalidate
    /\ generation' = generation + 1

\* ShaderCache::Clear(): queued writes become stale, files stay.
Clear ==
    /\ Advance
    /\ UNCHANGED <<active, file, manifest, saved, clearedAt, undeleted, owed, queue, flags, pc, job,
                   local, main, bounds>>

\* The disk paths of a smart clear, or of the shaders a source file feeds: their
\* entries go, and their files but for those that cannot be removed.
DeleteScopedDiskCacheEntries(P) ==
    /\ Advance /\ active
    /\ \E stuck \in SUBSET {p \in P : file[p] # Nothing} :
          /\ file' = [p \in Paths |-> IF p \in P \ stuck THEN Nothing ELSE file[p]]
          /\ undeleted' = (undeleted \ P) \cup stuck
    /\ clearedAt' = [p \in Paths |-> IF p \in P THEN generation' ELSE clearedAt[p]]
    /\ manifest' = [p \in Paths |-> IF p \in P THEN Nothing ELSE manifest[p]]
    /\ IF manifest' # manifest THEN saved' = manifest' /\ owed' = FALSE
       ELSE UNCHANGED <<saved, owed>>
    /\ UNCHANGED <<active, queue, flags, pc, job, local, main, bounds>>

SetDiskCache ==
    /\ main = "idle" /\ NoSaveInProgress
    /\ active' = ~active
    /\ IF active THEN MayInvalidate /\ generation' = generation + 1
       ELSE UNCHANGED generation
    /\ UNCHANGED <<file, manifest, saved, clearedAt, undeleted, owed, queue, flags, pc, job, local,
                   main, bounds>>

\* NotifyIfComplete flushes the manifest when a batch of compiles is over.
CompletionFlushes ==
    /\ main # "done" /\ saved # manifest
    /\ saved' = manifest /\ owed' = FALSE
    /\ UNCHANGED <<generation, active, file, manifest, clearedAt, undeleted, queue, flags, pc, job,
                   local, main, bounds>>
-----------------------------------------------------------------------------
(* The destructor, once the pool has finished what it was compiling.       *)

CloseIntake ==
    /\ main = "idle" /\ \A c \in Compilers : pc[c] = "idle"
    /\ accept' = FALSE /\ blocked' = FALSE
    /\ main' = IF blocked THEN "closing" ELSE "stopping"
    /\ UNCHANGED <<disk, queue, stop, pc, job, local, bounds>>

StopWriter ==
    /\ main = "stopping"
    /\ stop' = TRUE /\ main' = "joining"
    /\ Wake
    /\ UNCHANGED <<disk, queue, blocked, accept, job, local, bounds>>

\* Join, drop what is left, Clear and flush the manifest for the last time.
JoinWriter ==
    /\ main = "joining" /\ pc[Writer] = "exited" /\ NoSaveInProgress
    /\ log' = Settle(writes, "discarded")
    /\ writes' = {} /\ order' = <<>> /\ inFlight' = 0 /\ flushPending' = FALSE
    /\ generation' = generation + 1
    /\ saved' = manifest /\ owed' = FALSE
    /\ main' = "done"
    /\ UNCHANGED <<active, file, manifest, clearedAt, undeleted, flags, pc, job, local, bounds>>
-----------------------------------------------------------------------------
Save(a) ==
    \/ SaveBegin(a) \/ WriteCachedShaderBlob(a) \/ WriteFails(a) \/ RecordShaderDigest(a)

Persist(c) ==
    PersistNothing(c) \/ PersistCompiledShaderBlob(c) \/ DeferWrite(c) \/ Save(c)

WriterStep ==
    \/ WriterWaits \/ WriterSleeps \/ WriterTakes \/ WriterProceeds \/ Save(Writer)
    \/ WriterSettles \/ WriterRequeues \/ WriterFinishes
    \/ WriterFlushes \/ WriterDefersFlush \/ WriterExits

Teardown == UnblockNotifies \/ StopWriter \/ JoinWriter

Next ==
    \/ \E c \in Compilers : Persist(c) \/ \E p \in Paths : StartCompile(c, p)
    \/ WriterStep \/ WriterWakes
    \/ Block \/ Unblock \/ Clear \/ SetDiskCache \/ CompletionFlushes
    \/ \E P \in SUBSET Paths \ {{}} : DeleteScopedDiskCacheEntries(P)
    \/ CloseIntake \/ Teardown

Spec == Init /\ [][Next]_vars

\* Threads run.  A block ends: safe mode falls back on a frame count.
FairSpec ==
    /\ Spec
    /\ \A c \in Compilers : WF_vars(Persist(c))
    /\ WF_vars(WriterStep) /\ WF_vars(Unblock) /\ WF_vars(Teardown)
-----------------------------------------------------------------------------
(* Properties.                                                             *)

Fate == {"pending", "written", "skipped", "superseded", "discarded"}

Places == {"idle", "compiling", "deferring", "saving", "writing", "recording",
           "ready", "fallingAsleep", "asleep", "working", "requeueing", "flushing",
           "deferringFlush", "exited"}

TypeOK ==
    /\ pc \in [Actors -> Places]
    /\ generation \in Generations /\ active \in BOOLEAN
    /\ {file, manifest, saved} \subseteq [Paths -> Generations \cup {Nothing}]
    /\ clearedAt \in [Paths -> Generations] /\ undeleted \subseteq Paths
    /\ log \in Seq([path : Paths, gen : Generations, fate : Fate])
    /\ writes \subseteq DOMAIN log /\ ToSet(batch) \subseteq DOMAIN log
    /\ order \in Seq(Paths \X Generations)
    /\ {inFlight, extracted} \subseteq 0 .. MaxQueued
    /\ {blocked, accept, stop, flush, durable, requeued, flushPending, owed} \subseteq BOOLEAN

\* Writes of an interrupted batch that are still to be put back.
Returning == IF pc[Writer] = "requeueing" THEN Len(batch) ELSE 0

\* deferredDiskWriteOrder lists every queued write once and nothing else, and
\* with the writes in flight the queue keeps to its bound, also with what comes
\* back from an interrupted batch: none is dropped for want of room.
QueueIsSound ==
    /\ ToSet(order) = {Key(i) : i \in writes}
    /\ Len(order) = Cardinality(writes)
    /\ Cardinality(ToSet(order)) = Len(order)
    /\ Cardinality(writes) + inFlight + Returning <= MaxQueued

\* A write the queue accepted is waiting in it, in the writer's hands, or its
\* fate is known: an interrupted batch loses none, and none is written twice.
WritesAreAccountedFor ==
    \A i \in DOMAIN log :
        log[i].fate = "pending" <=>
            \/ i \in writes \/ i \in ToSet(batch)
            \/ pc[Writer] \in {"saving", "writing", "recording"} /\ job[Writer].id = i

\* A write that waits is the newest the queue accepted for its blob, and
\* once a newer one has been written no older one is still to come.
NewestWriteWins ==
    \A i, j \in DOMAIN log :
        (i < j /\ Key(i) = Key(j)) =>
            /\ i \notin writes
            /\ log[j].fate = "written" => log[i].fate # "pending"

\* A clear is final, whoever saves what it cleared and however late.  A file
\* from before it is there only if it could not be removed, and what the manifest
\* vouches for, which alone is read, was compiled and written after it.
NothingIsResurrected ==
    \A p \in Paths :
        /\ file[p] # Nothing => file[p] >= clearedAt[p] \/ p \in undeleted
        /\ manifest[p] # Nothing =>
              manifest[p] >= clearedAt[p] /\ file[p] >= clearedAt[p]

\* Every accepted write meets its fate once the game has loaded: the queue and
\* the writer's batch run empty, for the compiles end.  Not in the destructor: it
\* ends the block so that what waits is written, but stops the writer at once, and
\* the writer discards what it has not taken yet.
WritesSettle ==
    LET unsettled == \E i \in DOMAIN log : log[i].fate = "pending"
    IN unsettled ~> ~unsettled \/ stop

\* A digest the writer recorded reaches Manifest.json, even when a block
\* interrupts the batch or comes just before the flush.
DigestsReachTheDisk == owed ~> ~owed
=============================================================================
