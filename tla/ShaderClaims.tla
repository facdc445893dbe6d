---------------------------- MODULE ShaderClaims ----------------------------
(***************************************************************************)
(* The bytecode map of the shader cache (shaderMap, mapMutex and mapCV):   *)
(* the threads that claim a key, compile it and publish the result, and    *)
(* the clears and source edits that take results away while they do.       *)
(*                                                                         *)
(* One action is one critical section of mapMutex, or one access to the    *)
(* compilation set, to the source records or to the shaders in use made    *)
(* outside it.  All keys belong to one shader category and one source      *)
(* file.  Bytecode is the version of the source it was compiled from.  The *)
(* order of the queue, its counters and its limits are the subject of      *)
(* CompilationScheduler, the files of DeferredPersistence.                 *)
(***************************************************************************)
EXTENDS Integers, FiniteSets

CONSTANTS
    Tasks,          \* descriptors a draw or a warm-up asks for
    Keys,           \* macro sets; descriptors with the same macros share one
    KeyOf,          \* the key of each task
    Workers,        \* pool closures
    NamedForType,   \* the source file has the name of the category
    Operations,     \* bound: what the main thread does
    Faults,         \* bound: compiles may throw, the device may refuse a shader
    MaxRequests,    \* bound: tasks queued, and draws that compile themselves
    MaxClears,      \* bound: Clear() and Clear(type) by the main thread
    MaxEdits        \* bound: edits of the source file

ASSUME TasksHaveKeys == KeyOf \in [Tasks -> Keys]
ASSUME WorkersAreFinite == IsFiniteSet(Workers)
ASSUME BoundIsNatural == MaxEdits \in Nat
ASSUME FilesAreNamed == NamedForType \in BOOLEAN

CONSTANT Main       \* the main thread: it draws and clears
Threads == Workers \cup {Main}
ASSUME MainIsNotAWorker == Main \notin Workers

VARIABLES
    live,           \* LiveGeneration of the category
    map,            \* shaderMap
    parked,         \* deferredEvictions
    record,         \* hlslToShaderMap: the task recorded for each key
    shader,         \* vertexShaders and its kin: the shader drawn with
    task,           \* where the compilation set has each task
    taskGen,        \* the generation stored in its queued copy
    th,             \* what each thread is doing
    watcher,        \* the file watcher inside UpdateCache
    source,         \* the version of the source file
    seen,           \* the version the watcher has handled
    forgotten,      \* history: keys whose eviction Clear() dropped half-applied
    requests, clears

books == <<task, taskGen>>
world == <<source, seen>>
bounds == <<requests, clears, forgotten>>
vars == <<live, map, parked, record, shader, books, th, watcher, world, bounds>>

NoTask == "none"
Nothing == -1       \* no bytecode, no shader
Refused == -2       \* history: no shader, because the device did not create it
NoShader == {Nothing, Refused}
NoEntry == [status |-> "absent", gen |-> 0, src |-> Nothing]
Entry(status, g, v) == [status |-> status, gen |-> g, src |-> v]
NotParked == [task |-> NoTask, wait |-> FALSE, applying |-> FALSE]
Resting == [pc |-> "idle", task |-> NoTask, gen |-> 0, src |-> Nothing,
            next |-> "idle", evict |-> NoTask]
Watching == [pc |-> "idle", todo |-> {}, key |-> NoTask, wait |-> FALSE,
             records |-> [k \in Keys |-> NoTask], read |-> 0]

Key(a) == KeyOf[th[a].task]
IsParked(k) == parked[k] # NotParked
IsPending(k) == map[k].status = "pending"

Init ==
    /\ live = 0
    /\ map = [k \in Keys |-> NoEntry] /\ parked = [k \in Keys |-> NotParked]
    /\ record = [k \in Keys |-> NoTask] /\ shader = [t \in Tasks |-> Nothing]
    /\ task = [t \in Tasks |-> "none"] /\ taskGen = [t \in Tasks |-> 0]
    /\ th = [a \in Threads |-> Resting] /\ watcher = Watching
    /\ source = 0 /\ seen = 0
    /\ forgotten = {} /\ requests = 0 /\ clears = 0

Moved(threads, a, where) ==
    [threads EXCEPT ![a] = IF where = "idle" THEN Resting ELSE [@ EXCEPT !.pc = where]]

\* A thread about to work on a task.
Starting(a, t, g) == [th EXCEPT ![a] = [Resting EXCEPT !.task = t, !.gen = g]]
-----------------------------------------------------------------------------
(* The compilation set, as seen from here.                                 *)

\* GetVertexShader of a task with no shader yet: CompilationSet::Add.  Any thread
\* may look shaders up, also while the main thread is inside Clear().
Request(t) ==
    /\ shader[t] \in NoShader /\ requests < MaxRequests
    /\ task[t] = "none"
    /\ task' = [task EXCEPT ![t] = "available"]
    /\ taskGen' = [taskGen EXCEPT ![t] = live]
    /\ requests' = requests + 1
    /\ UNCHANGED <<live, map, parked, record, shader, th, watcher, world, forgotten, clears>>

Dispatch(w, t) ==
    /\ th[w].pc = "idle" /\ task[t] = "available"
    /\ task' = [task EXCEPT ![t] = "inProgress"]
    /\ th' = Moved(Starting(w, t, taskGen[t]), w, "detached")
    /\ UNCHANGED <<live, map, parked, record, shader, taskGen, watcher, world, bounds>>

\* ProcessCompilationSet; a stale task is dropped before it begins.
Begin(w) ==
    /\ th[w].pc = "detached"
    /\ th' = Moved(th, w, IF th[w].gen = live THEN "claiming" ELSE "idle")
    /\ UNCHANGED <<live, map, parked, record, shader, books, watcher, world, bounds>>

\* A draw that compiles for itself: MakeAndAddVertexShader on the main thread.
Draw(t) ==
    /\ "draw" \in Operations /\ requests < MaxRequests
    /\ shader[t] \in NoShader /\ th[Main].pc = "idle"
    /\ th' = Moved(Starting(Main, t, live), Main, "claiming")
    /\ requests' = requests + 1
    /\ UNCHANGED <<live, map, parked, record, shader, books, watcher, world, forgotten, clears>>
-----------------------------------------------------------------------------
(* CompileShader: claim, compile, publish.                                 *)

\* mapCV.notify_all.
Notified(threads) ==
    [a \in Threads |->
        IF threads[a].pc = "waiting" THEN [threads[a] EXCEPT !.pc = "claiming"]
        ELSE threads[a]]

\* Where a thread goes after its compile, whatever came of it.
Finished(a) == IF a = Main THEN "idle" ELSE "completing"

\* ClaimCompilation.
Claim(a, mustWait) ==
    LET k == Key(a)
        where == IF th[a].gen # live THEN Finished(a)
                 ELSE IF mustWait THEN "waiting"
                 ELSE IF map[k].status = "completed" THEN "building"
                 ELSE IF map[k].status = "failed" THEN Finished(a)
                 ELSE "compiling"
    IN /\ th[a].pc = "claiming"
       /\ th' = Moved([th EXCEPT ![a].src = map[k].src], a, where)
       /\ map' = IF where = "compiling"
                 THEN [map EXCEPT ![k] = Entry("pending", live, Nothing)] ELSE map
       /\ UNCHANGED <<live, parked, record, shader, books, watcher, world, bounds>>

\* Defect: a pending entry does not hold up a claim.
MutClaimPending(a) == Claim(a, IsParked(Key(a)))

ClaimCompilation(a) == Claim(a, IsParked(Key(a)) \/ IsPending(Key(a)))

\* The source is read; the compile may fail, or throw in a pool worker.
CompileShader(a) ==
    /\ th[a].pc = "compiling"
    /\ \E v \in {source, Nothing} : th' = Moved([th EXCEPT ![a].src = v], a, "publishing")
    /\ UNCHANGED <<live, map, parked, record, shader, books, watcher, world, bounds>>

CompileThrows(w) ==
    /\ Faults /\ th[w].pc = "compiling"
    /\ th' = Moved(th, w, "resolving")
    /\ UNCHANGED <<live, map, parked, record, shader, books, watcher, world, bounds>>

\* Defect: the generation is not looked at.
MutPublishAnyway(a, entry) == [map EXCEPT ![Key(a)] = entry]

\* Defect: a stale thread leaves its claim behind.
MutPublishKeepsClaim(a, entry) ==
    IF th[a].gen = live THEN [map EXCEPT ![Key(a)] = entry] ELSE map

\* GenerationClaim::TryPublish: a stale thread may take away its own claim.
TryPublish(a, entry) ==
    LET k == Key(a) IN
    IF th[a].gen = live THEN [map EXCEPT ![k] = entry]
    ELSE IF IsPending(k) /\ map[k].gen = th[a].gen THEN [map EXCEPT ![k] = NoEntry]
    ELSE map

Wakes(a) == th[a].gen = live \/ map' # map

\* AddCompletedShader: publish, record the source, apply a parked eviction.
Publish(a) ==
    LET failed == th[a].src = Nothing
        entry == Entry(IF failed THEN "failed" ELSE "completed", live, th[a].src)
        after == IF th[a].gen = live /\ ~failed THEN "building" ELSE Finished(a)
        told == [(IF Wakes(a) THEN Notified(th) ELSE th) EXCEPT ![a].next = after]
    IN /\ th[a].pc = "publishing"
       /\ map' = TryPublish(a, entry)
       /\ th' = Moved(told, a, IF th[a].gen = live THEN "recording" ELSE "applying")
       /\ UNCHANGED <<live, parked, record, shader, books, watcher, world, bounds>>

RecordSource(a) ==
    /\ th[a].pc = "recording"
    /\ record' = [record EXCEPT ![Key(a)] = th[a].task]
    /\ th' = Moved(th, a, "applying")
    /\ UNCHANGED <<live, map, parked, shader, books, watcher, world, bounds>>

ResolvePendingFailure(w) ==
    /\ th[w].pc = "resolving"
    /\ IF IsPending(Key(w))
       THEN map' = TryPublish(w, Entry("failed", live, Nothing))
       ELSE map' = map
    /\ th' = Moved([(IF map' # map THEN Notified(th) ELSE th) EXCEPT ![w].next = "completing"],
                   w, "applying")
    /\ UNCHANGED <<live, parked, record, shader, books, watcher, world, bounds>>

\* The shader drawn with, unless the task went stale or there is one.  If the
\* device refuses to create it the entry stays completed and no failure is noted.
Build(a) ==
    LET t == th[a].task IN
    /\ th[a].pc = "building"
    /\ IF th[a].gen = live /\ shader[t] \in NoShader
       THEN \E outcome \in {th[a].src} \cup (IF Faults THEN {Refused} ELSE {}) :
                shader' = [shader EXCEPT ![t] = outcome]
       ELSE UNCHANGED shader
    /\ th' = Moved(th, a, Finished(a))
    /\ UNCHANGED <<live, map, parked, record, books, watcher, world, bounds>>

\* Complete, then the eviction a finished task owes.
Complete(w) ==
    /\ th[w].pc = "completing"
    /\ task' = IF th[w].gen = live THEN [task EXCEPT ![th[w].task] = "processed"] ELSE task
    /\ th' = Moved([th EXCEPT ![w].next = "idle"], w, "retiring")
    /\ UNCHANGED <<live, map, parked, record, shader, taskGen, watcher, world, bounds>>
-----------------------------------------------------------------------------
(* ApplyDeferredEviction.                                                  *)

Apply(a, refused) ==
    LET k == Key(a) IN
    /\ th[a].pc \in {"applying", "retiring"}
    /\ IF ~IsParked(k) \/ parked[k].applying \/ refused
       THEN /\ th' = Moved(th, a, th[a].next)
            /\ UNCHANGED parked
       ELSE /\ parked' = [parked EXCEPT ![k].applying = TRUE]
            /\ th' = Moved([th EXCEPT ![a].evict = parked[k].task,
                                      ![a].next = IF @ = "building" THEN Finished(a) ELSE @],
                           a, "evicting")
    /\ UNCHANGED <<live, map, record, shader, books, watcher, world, bounds>>

\* Defect: an eviction that waits for the task is refused to the task as well.
MutApplyRefuses(a) == Apply(a, parked[Key(a)].wait)

ApplyDeferredEviction(a) == Apply(a, parked[Key(a)].wait /\ th[a].pc = "applying")

EvictShader(a) ==
    /\ th[a].pc = "evicting"
    /\ map' = [map EXCEPT ![Key(a)] = NoEntry]
    /\ th' = Moved(th, a, "releasing")
    /\ UNCHANGED <<live, parked, record, shader, books, watcher, world, bounds>>

EvictShaderResources(a) ==
    /\ th[a].pc = "releasing"
    /\ shader' = [shader EXCEPT ![th[a].evict] = Nothing]
    /\ th' = Moved(th, a, "forgetting")
    /\ UNCHANGED <<live, map, parked, record, books, watcher, world, bounds>>

Forget(a) ==
    /\ th[a].pc = "forgetting"
    /\ task' = [task EXCEPT ![th[a].evict] = IF @ = "processed" THEN "none" ELSE @]
    /\ th' = Moved(th, a, "unparking")
    /\ UNCHANGED <<live, map, parked, record, shader, taskGen, watcher, world, bounds>>

\* Defect: the threads that wait for the eviction are not told.
MutUnpark(a) ==
    LET k == Key(a) IN
    /\ th[a].pc = "unparking"
    /\ parked' = IF parked[k].applying THEN [parked EXCEPT ![k] = NotParked] ELSE parked
    /\ th' = Moved(th, a, th[a].next)
    /\ UNCHANGED <<live, map, record, shader, books, watcher, world, bounds>>

Unpark(a) ==
    LET k == Key(a) IN
    /\ th[a].pc = "unparking"
    /\ parked' = IF parked[k].applying THEN [parked EXCEPT ![k] = NotParked] ELSE parked
    /\ th' = Moved(Notified(th), a, th[a].next)
    /\ UNCHANGED <<live, map, record, shader, books, watcher, world, bounds>>
-----------------------------------------------------------------------------
(* ShaderCache::Clear() and Clear(type), on the main thread.               *)

EmptyMap == [k \in Keys |-> NoEntry]
NoShaders == [t \in Tasks |-> Nothing]
NoTasks == [t \in Tasks |-> "none"]

Clear ==
    /\ "clear" \in Operations /\ th[Main].pc = "idle" /\ clears < MaxClears
    /\ live' = live + 1 /\ clears' = clears + 1
    /\ th' = Moved(th, Main, "clearingShaders")
    /\ UNCHANGED <<map, parked, record, shader, books, watcher, world, forgotten, requests>>

ClearShaders ==
    /\ th[Main].pc = "clearingShaders"
    /\ shader' = NoShaders
    /\ th' = Moved(th, Main, "clearingMap")
    /\ UNCHANGED <<live, map, parked, record, books, watcher, world, bounds>>

ClearMap ==
    /\ th[Main].pc = "clearingMap"
    /\ map' = EmptyMap /\ parked' = [k \in Keys |-> NotParked]
    /\ forgotten' = forgotten \cup {k \in Keys : parked[k].applying}
    /\ th' = Moved(Notified(th), Main, "clearingRecords")
    /\ UNCHANGED <<live, record, shader, books, watcher, world, requests, clears>>

ClearRecords ==
    /\ th[Main].pc = "clearingRecords"
    /\ record' = [k \in Keys |-> NoTask]
    /\ th' = Moved(th, Main, "clearingSet")
    /\ UNCHANGED <<live, map, parked, shader, books, watcher, world, bounds>>

ClearSet ==
    /\ th[Main].pc = "clearingSet"
    /\ live' = live + 1 /\ task' = NoTasks
    /\ th' = Moved(th, Main, "idle")
    /\ UNCHANGED <<map, parked, record, shader, taskGen, watcher, world, bounds>>

\* Atomic: every mutex is held.  Parked evictions stay parked.
ClearType ==
    /\ live' = live + 1
    /\ map' = EmptyMap /\ shader' = NoShaders /\ task' = NoTasks
    /\ th' = Notified(th)
    /\ UNCHANGED <<parked, record, taskGen, forgotten, requests>>

MainClearsType ==
    /\ "type" \in Operations /\ th[Main].pc = "idle" /\ clears < MaxClears
    /\ clears' = clears + 1
    /\ ClearType
    /\ UNCHANGED <<watcher, world>>
-----------------------------------------------------------------------------
(* UpdateListener::UpdateCache: Clear(path), else Clear(type).             *)

Edit ==
    /\ source < MaxEdits
    /\ source' = source + 1
    /\ UNCHANGED <<live, map, parked, record, shader, books, th, watcher, seen, bounds>>

TakeRecords ==
    LET found == {k \in Keys : record[k] # NoTask} IN
    /\ watcher.pc = "idle" /\ seen # source
    /\ record' = [k \in Keys |-> NoTask]
    /\ \/ /\ found = {} /\ ~NamedForType
          /\ seen' = source
          /\ UNCHANGED watcher
       \/ /\ found # {} \/ NamedForType
          /\ watcher' = [Watching EXCEPT !.pc = IF found = {} THEN "fallback" ELSE "scanning",
                                         !.todo = found, !.records = record, !.read = source]
          /\ UNCHANGED seen
    /\ UNCHANGED <<live, map, parked, shader, books, th, source, bounds>>

ClearTypeInstead ==
    /\ watcher.pc = "fallback"
    /\ ClearType
    /\ watcher' = Watching /\ seen' = watcher.read
    /\ UNCHANGED <<source, clears>>

\* TryDeferEviction: is the task in progress, then is the entry pending?
TryDefer(k) ==
    /\ watcher.pc = "scanning" /\ k \in watcher.todo
    /\ watcher' = [watcher EXCEPT !.pc = "parking", !.key = k,
                                  !.wait = task[watcher.records[k]] = "inProgress"]
    /\ UNCHANGED <<live, map, parked, record, shader, books, th, world, bounds>>

NextRecord == [watcher EXCEPT !.pc = "scanning", !.todo = @ \ {watcher.key}]

Park ==
    LET k == watcher.key IN
    /\ watcher.pc = "parking"
    /\ IF IsPending(k)
       THEN /\ parked' = IF parked[k].applying THEN parked
                         ELSE [parked EXCEPT ![k].task = watcher.records[k],
                                             ![k].wait = @ \/ watcher.wait]
            /\ watcher' = NextRecord
       ELSE /\ watcher' = [watcher EXCEPT !.pc = "evicting"]
            /\ UNCHANGED parked
    /\ UNCHANGED <<live, map, record, shader, books, th, world, bounds>>

\* EvictShader once more, by the watcher: the mutex was released in between.
WatcherEvicts ==
    /\ watcher.pc = "evicting"
    /\ map' = [map EXCEPT ![watcher.key] = NoEntry]
    /\ watcher' = [watcher EXCEPT !.pc = "releasing"]
    /\ UNCHANGED <<live, parked, record, shader, books, th, world, bounds>>

WatcherReleases ==
    /\ watcher.pc = "releasing"
    /\ shader' = [shader EXCEPT ![watcher.records[watcher.key]] = Nothing]
    /\ watcher' = NextRecord
    /\ UNCHANGED <<live, map, parked, record, books, th, world, bounds>>

\* Defect: the generation moves, what is queued and done stays.
MutWatcherClearsSet ==
    /\ watcher.pc = "scanning" /\ watcher.todo = {}
    /\ live' = live + 1
    /\ watcher' = Watching /\ seen' = watcher.read
    /\ UNCHANGED <<map, parked, record, shader, books, th, source, bounds>>

\* CompilationSet::Clear ends it.
WatcherClearsSet ==
    /\ watcher.pc = "scanning" /\ watcher.todo = {}
    /\ live' = live + 1 /\ task' = NoTasks
    /\ watcher' = Watching /\ seen' = watcher.read
    /\ UNCHANGED <<map, parked, record, shader, taskGen, th, source, bounds>>
-----------------------------------------------------------------------------
Compile(a) ==
    \/ ClaimCompilation(a) \/ CompileShader(a) \/ Publish(a) \/ RecordSource(a)
    \/ Build(a)
    \/ ApplyDeferredEviction(a) \/ EvictShader(a) \/ EvictShaderResources(a)
    \/ Forget(a) \/ Unpark(a)

Work(w) == Begin(w) \/ ResolvePendingFailure(w) \/ Complete(w)

ClearGoesOn == ClearShaders \/ ClearMap \/ ClearRecords \/ ClearSet

Watch ==
    \/ TakeRecords \/ ClearTypeInstead \/ (\E k \in Keys : TryDefer(k)) \/ Park
    \/ WatcherEvicts \/ WatcherReleases \/ WatcherClearsSet

Next ==
    \/ \E t \in Tasks : Request(t) \/ Draw(t) \/ \E w \in Workers : Dispatch(w, t)
    \/ \E a \in Threads : Compile(a)
    \/ \E w \in Workers : Work(w) \/ CompileThrows(w)
    \/ Clear \/ ClearGoesOn \/ MainClearsType
    \/ Edit \/ Watch

Spec == Init /\ [][Next]_vars

\* Threads that are inside an operation go on with it.
FairSpec ==
    /\ Spec
    /\ \A a \in Threads : WF_vars(Compile(a))
    /\ \A w \in Workers : WF_vars(Work(w))
    /\ WF_vars(ClearGoesOn) /\ WF_vars(Watch)
-----------------------------------------------------------------------------
(* Properties.                                                             *)

\* Inside a compile, inside a task of the set only, inside Clear().
CompilePlaces == {"claiming", "waiting", "compiling", "publishing", "recording",
                  "building", "applying", "evicting", "releasing", "forgetting", "unparking"}
TaskPlaces == {"detached", "resolving", "completing", "retiring"}
ClearPlaces == {"clearingShaders", "clearingMap", "clearingRecords", "clearingSet"}
Places == {"idle"} \cup CompilePlaces \cup TaskPlaces \cup ClearPlaces

Versions == Nothing .. MaxEdits
Outcomes == Versions \cup {Refused}
SomeTask == Tasks \cup {NoTask}

EntryType == [status : {"absent", "pending", "completed", "failed"}, gen : Nat, src : Versions]
EvictionType == [task : SomeTask, wait : BOOLEAN, applying : BOOLEAN]
ThreadType == [pc : Places, task : SomeTask, gen : Nat, src : Versions,
               next : {"idle", "building", "completing"}, evict : SomeTask]
WatcherType == [pc : {"idle", "fallback", "scanning", "parking", "evicting", "releasing"},
                todo : SUBSET Keys, key : Keys \cup {NoTask}, wait : BOOLEAN,
                records : [Keys -> SomeTask], read : 0 .. MaxEdits]

TypeOK ==
    /\ live \in Nat
    /\ map \in [Keys -> EntryType] /\ parked \in [Keys -> EvictionType]
    /\ record \in [Keys -> SomeTask] /\ shader \in [Tasks -> Outcomes]
    /\ task \in [Tasks -> {"none", "available", "inProgress", "processed"}]
    /\ taskGen \in [Tasks -> Nat]
    /\ th \in [Threads -> ThreadType] /\ watcher \in WatcherType
    /\ \A a \in Threads :
        /\ th[a].pc \in CompilePlaces \cup TaskPlaces => th[a].task \in Tasks
        /\ a = Main => th[a].pc \notin TaskPlaces /\ th[a].next # "completing"
    /\ watcher.pc \in {"parking", "evicting", "releasing"} => watcher.key \in Keys
    /\ source \in 0 .. MaxEdits /\ seen \in 0 .. source /\ watcher.read \in 0 .. source

Owns(a, k) ==
    th[a].pc \in {"compiling", "publishing", "resolving"} /\ Key(a) = k

\* A pending entry belongs to a compile of its generation that is under way:
\* no entry is left behind that every later claim would wait for.
PendingHasOwner ==
    \A k \in Keys : IsPending(k) => \E a \in Threads : Owns(a, k) /\ th[a].gen = map[k].gen

\* ClaimCompilation: a key is compiled once at a time in a generation, unless
\* an eviction Clear() forgot is still under way and takes a claim with it.  Not
\* while Clear(path) decides, nor in Clear() from the emptying of the map, which
\* takes the claims of the generation it has just begun, to the next generation.
OneLiveOwner ==
    watcher.pc \in {"idle", "fallback"} /\ th[Main].pc \notin {"clearingRecords", "clearingSet"} =>
        \A k \in Keys \ forgotten : \A a, b \in Threads :
            Owns(a, k) /\ Owns(b, k) /\ th[a].gen = live /\ th[b].gen = live => a = b

\* TryPublish: a compile that began before an edit was dealt with does not
\* publish afterwards.  Of a file without a category's name, an edit is not
\* dealt with at all before its first result is recorded.
StaleCompilesAreDiscarded ==
    NamedForType => \A k \in Keys :
        map[k].status = "completed" /\ map[k].gen = live => map[k].src >= seen

\* Add skips a finished task, so a task may be finished without a shader only if
\* its failure is on record: else the game draws with its own shader for good.
\* Said of moments at which nobody is inside an operation, and not of an
\* eviction Clear() forgot: it may undo a compile that came after the clear.  Nor
\* of a shader the device refused to create: of that the code keeps no record.
NoShaderIsLost ==
    watcher.pc = "idle" /\ (\A a \in Threads : th[a].pc = "idle") =>
        \A t \in Tasks : task[t] = "processed" /\ shader[t] = Nothing
                            => map[KeyOf[t]].status = "failed" \/ KeyOf[t] \in forgotten

\* mapCV: a thread that waits for a key is woken.
WaitersAreWoken == \A a \in Threads : th[a].pc = "waiting" ~> th[a].pc # "waiting"

\* DeferredEviction: what is parked is applied in the end.
ParkedEvictionsAreApplied == \A k \in Keys : IsParked(k) ~> ~IsParked(k)

\* With nothing left to do, no shader of an older source is drawn with.
Quiet ==
    /\ seen = source /\ watcher.pc = "idle"
    /\ \A a \in Threads : th[a].pc = "idle"
    /\ \A t \in Tasks : task[t] # "available"

EditsTakeEffect == Quiet => \A t \in Tasks : shader[t] \in NoShader \cup {source}
=============================================================================
