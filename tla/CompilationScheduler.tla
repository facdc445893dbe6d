------------------------ MODULE CompilationScheduler ------------------------
(***************************************************************************)
(* The queue of shader compilations (CompilationSet in ShaderCache.h and   *)
(* ShaderCache.cpp), the management thread that dispatches it, the pool    *)
(* workers that retire it, and the threads that add to it, switch its mode *)
(* and invalidate it while it runs.                                        *)
(*                                                                         *)
(* One action is one critical section of compilationMutex, or one access   *)
(* to an atomic made outside it.  A notify_one issued after the mutex is   *)
(* released is remembered in notifyOwed and delivered by NotifyOne.        *)
(* Priority weights, timings and the hit counters are left out: they feed  *)
(* only the progress display.  What a task does while it runs is the       *)
(* subject of ShaderClaims.                                                *)
(***************************************************************************)
EXTENDS Naturals, FiniteSets

CONSTANTS
    Tasks,          \* task identities (MakeId of class, type and descriptor)
    Types,          \* shader categories
    TypeOf,         \* the category of each task
    Rank,           \* the order of availableTasks: priority, then identity
    Slots,          \* detached pool closures that can exist at once
    Users,          \* threads that call the cache: render, loader, menu, watcher
    FgLimit,        \* compilationThreadCount
    BgLimit,        \* backgroundCompilationThreadCount
    Operations,     \* bound: the kinds of operation the callers begin
    MaxRequests     \* bound: how many operations the callers begin

ASSUME TasksAreFinite == IsFiniteSet(Tasks)
ASSUME TasksHaveTypes == TypeOf \in [Tasks -> Types]
ASSUME TasksAreRanked ==
    /\ Rank \in [Tasks -> Nat]
    /\ \A t, u \in Tasks : Rank[t] = Rank[u] => t = u
ASSUME SlotsAreFinite == IsFiniteSet(Slots)
ASSUME LimitsArePositive ==      \* both are clamped to at least one
    FgLimit \in Nat \ {0} /\ BgLimit \in Nat \ {0}

VARIABLES
    available,      \* availableTasks
    inProgress,     \* tasksInProgress
    processed,      \* processedTasks
    precompiles,    \* queued tasks whose precompile flag is set
    taskGen,        \* generation stored in the queued or running copy of a task
    generation,     \* CompilationSet::generation
    typeEpochs,     \* CompilationSet::typeEpochs
    totalTasks, completedTasks, failedTasks,
    dispatchedTasksInFlight,
    finished,       \* completionTime # 0
    phaseStarted,   \* compilationPhaseStarted
    notifyOwed,     \* a notify_one of conditionVariable is about to be called
    background,     \* backgroundCompilation
    manager,        \* where the management thread is
    stop,           \* managementJthread's stop token
    slot,           \* what each detached pool closure is doing
    user,           \* what is left of the operation each caller is inside
    loader,         \* the DataLoaded handler
    menuLoaded, startupComplete, quitGame,
    requests,       \* bound: operations begun so far
    wanted,         \* history: tasks required by a draw and not invalidated since
    openPhase       \* history: "started" was logged and "completed" not yet

queueVars == <<available, inProgress, processed, precompiles, taskGen, wanted>>
counterVars == <<totalTasks, completedTasks, failedTasks>>
phaseVars == <<finished, phaseStarted, openPhase>>
epochVars == <<generation, typeEpochs>>
startVars == <<loader, menuLoaded, startupComplete, quitGame>>
dispatchVars == <<dispatchedTasksInFlight, manager, slot>>
vars == <<queueVars, counterVars, phaseVars, epochVars, startVars,
          dispatchVars, notifyOwed, background, stop, user, requests>>

Stages == {"free", "detached", "performing", "compiling", "completing",
           "notify", "transition", "release"}
Ops == {"idle", "notify", "transition", "stopping", "clearing", "compiling"}

Free == [stage |-> "free"]
Closure(stage, t, g) == [stage |-> stage, task |-> t, gen |-> g]
Idle == [op |-> "idle"]
-----------------------------------------------------------------------------
(* Readings of the state.                                                  *)

LiveGeneration(ty) == generation + typeEpochs[ty]

\* IsTaskStale of the closure in slot s, and IsCurrentGeneration.
IsCurrent(s) == slot[s].gen = LiveGeneration(TypeOf[slot[s].task])

\* ShaderCache::IsCompiling; its three loads are taken as one.
IsCompiling == totalTasks # 0 /\ completedTasks + failedTasks < totalTasks

Limit == IF background THEN BgLimit ELSE FgLimit

\* The predicate WaitTake waits for.
CanDispatch == available # {} /\ dispatchedTasksInFlight < Limit

Init ==
    /\ available = {} /\ inProgress = {} /\ processed = {} /\ precompiles = {}
    /\ taskGen = [t \in Tasks |-> 0]
    /\ generation = 0 /\ typeEpochs = [ty \in Types |-> 0]
    /\ totalTasks = 0 /\ completedTasks = 0 /\ failedTasks = 0
    /\ dispatchedTasksInFlight = 0
    /\ finished = FALSE /\ phaseStarted = FALSE
    /\ notifyOwed = FALSE /\ background \in BOOLEAN
    /\ manager = "loop" /\ stop = FALSE
    /\ slot = [s \in Slots |-> Free]
    /\ user = [u \in Users |-> Idle]
    /\ loader = "waiting" /\ menuLoaded = FALSE /\ startupComplete = FALSE
    /\ quitGame = FALSE /\ requests = 0
    /\ wanted = {} /\ openPhase = FALSE
-----------------------------------------------------------------------------
(* The management thread.                                                  *)

ManageCompilationSet ==
    /\ manager = "loop"
    /\ manager' = IF stop THEN "exited" ELSE "wait"
    /\ UNCHANGED <<queueVars, counterVars, phaseVars, epochVars, startVars,
                   dispatchedTasksInFlight, slot, notifyOwed, background, stop, user>>

\* The predicate is tested before the stop token: a stopped wait whose
\* predicate holds still hands one task out.
WaitTake(s) ==
    /\ manager = "wait" /\ CanDispatch
    /\ slot[s] = Free
    /\ \E t \in available :
          /\ \A o \in available : Rank[o] <= Rank[t]
          /\ available' = available \ {t}
          /\ precompiles' = precompiles \ {t}
          /\ inProgress' = inProgress \cup {t}
          /\ slot' = [slot EXCEPT ![s] = Closure("detached", t, taskGen[t])]
    /\ dispatchedTasksInFlight' = dispatchedTasksInFlight + 1
    /\ manager' = "loop"
    /\ UNCHANGED <<processed, taskGen, wanted, counterVars, phaseVars, epochVars,
                   startVars, notifyOwed, background, stop, user>>

WaitBlocks ==
    /\ manager = "wait" /\ ~CanDispatch
    /\ manager' = IF stop THEN "exited" ELSE "sleeping"
    /\ UNCHANGED <<queueVars, counterVars, phaseVars, epochVars, startVars,
                   dispatchedTasksInFlight, slot, notifyOwed, background, stop, user>>

Wake == manager' = IF manager = "sleeping" THEN "wait" ELSE manager

NotifyOne ==
    /\ notifyOwed
    /\ notifyOwed' = FALSE
    /\ Wake
    /\ UNCHANGED <<queueVars, counterVars, phaseVars, epochVars, startVars,
                   dispatchedTasksInFlight, slot, background, stop, user>>

SpuriousWakeup ==
    /\ manager = "sleeping"
    /\ manager' = "wait"
    /\ UNCHANGED <<queueVars, counterVars, phaseVars, epochVars, startVars,
                   dispatchedTasksInFlight, slot, notifyOwed, background, stop, user>>
-----------------------------------------------------------------------------
(* Critical sections that both the workers and the callers enter.  Each     *)
(* leaves slot, user and the other threads' state to its caller.            *)

\* NotifyIfComplete under the mutex; the notify_one that ends it is owed.
LatchCompletion ==
    LET terminal == completedTasks + failedTasks >= totalTasks
        latches == terminal /\ ~finished
    IN /\ finished' = (finished \/ latches)
       /\ openPhase' = (openPhase /\ ~(latches /\ phaseStarted))
       /\ phaseStarted' = phaseStarted
       /\ notifyOwed' = TRUE

AfterLatch == IF completedTasks + failedTasks >= totalTasks
              THEN "transition" ELSE "done"

TryCompleteStartupCompilationPhase ==
    startupComplete' = (startupComplete \/ (menuLoaded /\ ~IsCompiling))

\* MarkPhaseStarted for a request of category ty made at generation g.
MarkPhaseStarted(ty, g) ==
    IF g # LiveGeneration(ty) THEN UNCHANGED phaseVars
    ELSE /\ finished' = FALSE
         /\ phaseStarted' = TRUE
         /\ openPhase' = (openPhase \/ finished \/ ~phaseStarted)

\* CompilationSet::Clear.
ClearSet ==
    /\ available' = {} /\ inProgress' = {} /\ processed' = {} /\ precompiles' = {}
    /\ wanted' = {}
    /\ totalTasks' = 0 /\ completedTasks' = 0 /\ failedTasks' = 0
    /\ phaseStarted' = FALSE /\ finished' = FALSE
    /\ generation' = generation + 1
    /\ UNCHANGED <<taskGen, typeEpochs, openPhase>>
-----------------------------------------------------------------------------
(* Pool workers: ProcessCompilationSet.                                    *)

MoveTo(s, stage) == slot' = [slot EXCEPT ![s].stage = stage]

\* Defect: the early return releases the slot, and so does the scope guard.
MutBeginTask(s) ==
    /\ slot[s].stage = "detached"
    /\ MoveTo(s, IF stop \/ ~IsCurrent(s) THEN "release" ELSE "performing")
    /\ dispatchedTasksInFlight' = IF stop \/ ~IsCurrent(s)
                                  THEN dispatchedTasksInFlight - 1
                                  ELSE dispatchedTasksInFlight
    /\ UNCHANGED <<queueVars, counterVars, phaseVars, epochVars, startVars,
                   manager, notifyOwed, background, stop, user>>

BeginTask(s) ==
    /\ slot[s].stage = "detached"
    /\ MoveTo(s, IF stop \/ ~IsCurrent(s) THEN "release" ELSE "performing")
    /\ UNCHANGED <<queueVars, counterVars, phaseVars, epochVars, startVars,
                   dispatchedTasksInFlight, manager, notifyOwed, background, stop, user>>

\* CompileShader found no bytecode to reuse and starts the compiler.
StartSourceCompile(s) ==
    /\ slot[s].stage = "performing"
    /\ MarkPhaseStarted(TypeOf[slot[s].task], slot[s].gen)
    /\ MoveTo(s, "compiling")
    /\ UNCHANGED <<queueVars, counterVars, epochVars, startVars, manager,
                   dispatchedTasksInFlight, notifyOwed, background, stop, user>>

\* Perform returns or throws; both end at the second test of the stop token.
PerformReturns(s) ==
    /\ slot[s].stage \in {"performing", "compiling"}
    /\ MoveTo(s, IF stop THEN "release" ELSE "completing")
    /\ UNCHANGED <<queueVars, counterVars, phaseVars, epochVars, startVars,
                   dispatchedTasksInFlight, manager, notifyOwed, background, stop, user>>

\* Defect: a worker of a cleared batch retires its task all the same.
MutComplete(s) ==
    /\ slot[s].stage = "completing"
    /\ MoveTo(s, "notify")
    /\ completedTasks' = completedTasks + 1
    /\ processed' = processed \cup {slot[s].task}
    /\ inProgress' = inProgress \ {slot[s].task}
    /\ UNCHANGED <<available, precompiles, taskGen, wanted, totalTasks, failedTasks,
                   phaseVars, epochVars, startVars, dispatchedTasksInFlight,
                   manager, notifyOwed, background, stop, user>>

Complete(s) ==
    LET t == slot[s].task IN
    /\ slot[s].stage = "completing"
    /\ IF ~IsCurrent(s)
       THEN /\ MoveTo(s, "release")
            /\ UNCHANGED <<queueVars, counterVars>>
       ELSE /\ MoveTo(s, "notify")
            /\ \/ completedTasks' = completedTasks + 1 /\ UNCHANGED failedTasks
               \/ failedTasks' = failedTasks + 1 /\ UNCHANGED completedTasks
            /\ processed' = processed \cup {t}
            /\ inProgress' = inProgress \ {t}
            /\ UNCHANGED <<available, precompiles, taskGen, wanted, totalTasks>>
    /\ UNCHANGED <<phaseVars, epochVars, startVars, dispatchedTasksInFlight,
                   manager, notifyOwed, background, stop, user>>

WorkerNotifies(s) ==
    /\ slot[s].stage = "notify"
    /\ LatchCompletion
    /\ MoveTo(s, IF AfterLatch = "transition" THEN "transition" ELSE "release")
    /\ UNCHANGED <<queueVars, counterVars, epochVars, startVars, manager,
                   dispatchedTasksInFlight, background, stop, user>>

WorkerTransitions(s) ==
    /\ slot[s].stage = "transition"
    /\ TryCompleteStartupCompilationPhase
    /\ MoveTo(s, "release")
    /\ UNCHANGED <<queueVars, counterVars, phaseVars, epochVars, loader, menuLoaded,
                   quitGame, dispatchedTasksInFlight, manager, notifyOwed,
                   background, stop, user>>

\* Defect: the dispatcher is not told that capacity is back.
MutReleaseDispatchSlot(s) ==
    /\ slot[s].stage = "release"
    /\ slot' = [slot EXCEPT ![s] = Free]
    /\ dispatchedTasksInFlight' = dispatchedTasksInFlight - 1
    /\ UNCHANGED <<queueVars, counterVars, phaseVars, epochVars, startVars,
                   manager, notifyOwed, background, stop, user>>

ReleaseDispatchSlot(s) ==
    /\ slot[s].stage = "release"
    /\ slot' = [slot EXCEPT ![s] = Free]
    /\ dispatchedTasksInFlight' = dispatchedTasksInFlight - 1
    /\ notifyOwed' = TRUE
    /\ UNCHANGED <<queueVars, counterVars, phaseVars, epochVars, startVars,
                   manager, background, stop, user>>
-----------------------------------------------------------------------------
(* Callers.                                                                *)

Becomes(u, op) == user' = [user EXCEPT ![u] = [op |-> op]]

\* Defect: a required request leaves the queued copy speculative.
MutAddNoUpgrade(u, t, isPrecompile) ==
    LET adds == t \notin available \cup inProgress \cup processed IN
    /\ user[u] = Idle
    /\ ~(isPrecompile /\ background)
    /\ t \notin inProgress \cup processed
    /\ available' = available \cup {t}
    /\ precompiles' = precompiles \cup (IF isPrecompile /\ adds THEN {t} ELSE {})
    /\ taskGen' = IF adds THEN [taskGen EXCEPT ![t] = LiveGeneration(TypeOf[t])]
                  ELSE taskGen
    /\ totalTasks' = IF adds THEN totalTasks + 1 ELSE totalTasks
    /\ notifyOwed' = (notifyOwed \/ adds)
    /\ wanted' = IF isPrecompile THEN wanted ELSE wanted \cup {t}
    /\ UNCHANGED <<inProgress, processed, completedTasks, failedTasks, phaseVars,
                   epochVars, startVars, dispatchVars, background, stop, user>>

Add(u, t, isPrecompile) ==
    LET adds == t \notin available \cup inProgress \cup processed IN
    /\ user[u] = Idle
    /\ ~(isPrecompile /\ background)
    /\ t \notin inProgress \cup processed
    /\ available' = available \cup {t}
    /\ precompiles' = IF isPrecompile
                      THEN IF adds THEN precompiles \cup {t} ELSE precompiles
                      ELSE precompiles \ {t}
    /\ taskGen' = IF adds THEN [taskGen EXCEPT ![t] = LiveGeneration(TypeOf[t])]
                  ELSE taskGen
    /\ totalTasks' = IF adds THEN totalTasks + 1 ELSE totalTasks
    /\ notifyOwed' = (notifyOwed \/ adds)
    /\ wanted' = IF isPrecompile THEN wanted ELSE wanted \cup {t}
    /\ UNCHANGED <<inProgress, processed, completedTasks, failedTasks, phaseVars,
                   epochVars, startVars, dispatchVars, background, stop, user>>

\* DropPrecompilesLocked runs in the critical section that enters the mode.
SetBackgroundCompilation(u, value) ==
    LET dropped == IF value THEN precompiles ELSE {} IN
    /\ user[u] = Idle
    /\ background' = value
    /\ available' = available \ dropped
    /\ precompiles' = precompiles \ dropped
    /\ totalTasks' = totalTasks - Cardinality(dropped)
    /\ notifyOwed' = TRUE
    /\ Becomes(u, IF value THEN "notify" ELSE "idle")
    /\ UNCHANGED <<inProgress, processed, taskGen, wanted, completedTasks,
                   failedTasks, phaseVars, epochVars, startVars, dispatchVars, stop>>

CallerNotifies(u) ==
    /\ user[u].op = "notify"
    /\ LatchCompletion
    /\ Becomes(u, IF AfterLatch = "transition" THEN "transition" ELSE "idle")
    /\ UNCHANGED <<queueVars, counterVars, epochVars, startVars, dispatchVars,
                   background, stop>>

CallerTransitions(u) ==
    /\ user[u].op = "transition"
    /\ TryCompleteStartupCompilationPhase
    /\ Becomes(u, "idle")
    /\ UNCHANGED <<queueVars, counterVars, phaseVars, epochVars, loader, menuLoaded,
                   quitGame, dispatchVars, notifyOwed, background, stop>>

\* ShaderCache::Clear: the generation moves before the maps are cleared ...
BumpGeneration(u) ==
    /\ user[u] = Idle
    /\ generation' = generation + 1
    /\ Becomes(u, "clearing")
    /\ UNCHANGED <<queueVars, counterVars, phaseVars, typeEpochs, startVars,
                   dispatchVars, notifyOwed, background, stop>>

\* ... and the set afterwards.
ClearAfterBump(u) ==
    /\ user[u].op = "clearing"
    /\ ClearSet
    /\ Becomes(u, "idle")
    /\ UNCHANGED <<startVars, dispatchVars, notifyOwed, background, stop>>

\* Clear(path) clears the set without moving the generation first.
ClearPath(u) ==
    /\ user[u] = Idle
    /\ ClearSet
    /\ UNCHANGED <<user, startVars, dispatchVars, notifyOwed, background, stop>>

\* The window closes, or the shader service is asked to stop: the service runs
\* on the main thread, which the DataLoaded handler occupies while it waits.
StopRequested(u, closing) ==
    /\ user[u] = Idle
    /\ closing \/ loader # "waiting"
    /\ quitGame' = (quitGame \/ closing)
    /\ Becomes(u, "stopping")
    /\ UNCHANGED <<queueVars, counterVars, phaseVars, epochVars, loader, menuLoaded,
                   startupComplete, dispatchVars, notifyOwed, background, stop>>

\* request_stop wakes the dispatcher; the set is cleared afterwards.
StopCompilation(u) ==
    /\ user[u].op = "stopping"
    /\ stop' = TRUE
    /\ Wake
    /\ Becomes(u, "clearing")
    /\ UNCHANGED <<queueVars, counterVars, phaseVars, epochVars, startVars,
                   dispatchedTasksInFlight, slot, notifyOwed, background>>

\* Defect: tasks a worker has taken are left to the worker.
MutClearTypeLocked(u, ty) ==
    LET matching == {t \in Tasks : TypeOf[t] = ty} IN
    /\ user[u] = Idle
    /\ typeEpochs' = [typeEpochs EXCEPT ![ty] = @ + 1]
    /\ available' = available \ matching
    /\ processed' = processed \ matching
    /\ precompiles' = precompiles \ matching
    /\ wanted' = wanted \ matching
    /\ totalTasks' = totalTasks - Cardinality(available \cap matching)
    /\ Becomes(u, "notify")
    /\ UNCHANGED <<inProgress, taskGen, generation, completedTasks, failedTasks,
                   phaseVars, startVars, dispatchVars, notifyOwed, background, stop>>

ClearTypeLocked(u, ty) ==
    LET matching == {t \in Tasks : TypeOf[t] = ty}
        canceled == (available \cup inProgress) \cap matching
    IN /\ user[u] = Idle
       /\ typeEpochs' = [typeEpochs EXCEPT ![ty] = @ + 1]
       /\ available' = available \ matching
       /\ inProgress' = inProgress \ matching
       /\ processed' = processed \ matching
       /\ precompiles' = precompiles \ matching
       /\ wanted' = wanted \ matching
       /\ totalTasks' = totalTasks - Cardinality(canceled)
       /\ Becomes(u, "notify")
       /\ UNCHANGED <<taskGen, generation, completedTasks, failedTasks, phaseVars,
                      startVars, dispatchVars, notifyOwed, background, stop>>

\* Defect: running tasks are forgotten too.
MutForgetRunning(u, ids) ==
    /\ user[u] = Idle
    /\ ids # {}
    /\ processed' = processed \ ids
    /\ inProgress' = inProgress \ ids
    /\ wanted' = wanted \ ids
    /\ UNCHANGED <<available, precompiles, taskGen, counterVars, phaseVars,
                   epochVars, startVars, dispatchVars, notifyOwed, background, stop, user>>

\* Defect: the session is rearmed with its phase still marked as started.
MutForgetKeepsPhase(u, ids) ==
    /\ user[u] = Idle
    /\ ids # {}
    /\ processed' = processed \ ids
    /\ wanted' = wanted \ (ids \cap processed)
    /\ finished' = (finished /\ processed \cap ids = {})
    /\ UNCHANGED <<available, inProgress, precompiles, taskGen, counterVars, phaseStarted,
                   openPhase, epochVars, startVars, dispatchVars, notifyOwed,
                   background, stop, user>>

\* Only completed bookkeeping is forgotten; a finished session is rearmed.
Forget(u, ids) ==
    /\ user[u] = Idle
    /\ ids # {}
    /\ processed' = processed \ ids
    /\ wanted' = wanted \ (ids \cap processed)
    /\ IF processed \cap ids # {} /\ finished
       THEN finished' = FALSE /\ phaseStarted' = FALSE
       ELSE UNCHANGED <<finished, phaseStarted>>
    /\ UNCHANGED <<available, inProgress, precompiles, taskGen, counterVars, openPhase,
                   epochVars, startVars, dispatchVars, notifyOwed, background, stop, user>>

\* A draw compiles a shader itself, at the generation it read beforehand.
BeginSynchronousCompile(u, ty) ==
    /\ user[u] = Idle
    /\ user' = [user EXCEPT ![u] =
                   [op |-> "compiling", type |-> ty, gen |-> LiveGeneration(ty)]]
    /\ UNCHANGED <<queueVars, counterVars, phaseVars, epochVars, startVars,
                   dispatchVars, notifyOwed, background, stop>>

SynchronousCompile(u) ==
    /\ user[u].op = "compiling"
    /\ MarkPhaseStarted(user[u].type, user[u].gen)
    /\ Becomes(u, "idle")
    /\ UNCHANGED <<queueVars, counterVars, epochVars, startVars, dispatchVars,
                   notifyOwed, background, stop>>
-----------------------------------------------------------------------------
(* The DataLoaded message handler.                                         *)

DataLoadedReleased ==
    /\ loader = "waiting"
    /\ ~IsCompiling \/ background \/ quitGame
    /\ loader' = "loaded"
    /\ menuLoaded' = TRUE
    /\ UNCHANGED <<queueVars, counterVars, phaseVars, epochVars, startupComplete,
                   quitGame, dispatchVars, notifyOwed, background, stop, user>>

\* Defect: the transition is left to the last completion.
MutDataLoadedTransitions ==
    /\ loader = "loaded"
    /\ loader' = "done"
    /\ UNCHANGED <<queueVars, counterVars, phaseVars, epochVars, menuLoaded,
                   startupComplete, quitGame, dispatchVars, notifyOwed,
                   background, stop, user>>

DataLoadedTransitions ==
    /\ loader = "loaded"
    /\ loader' = "done"
    /\ TryCompleteStartupCompilationPhase
    /\ UNCHANGED <<queueVars, counterVars, phaseVars, epochVars, menuLoaded,
                   quitGame, dispatchVars, notifyOwed, background, stop, user>>
-----------------------------------------------------------------------------
Manager ==
    /\ ManageCompilationSet \/ WaitBlocks \/ \E s \in Slots : WaitTake(s)
    /\ UNCHANGED requests

Notify == NotifyOne /\ UNCHANGED requests

Worker(s) ==
    /\ \/ BeginTask(s) \/ StartSourceCompile(s) \/ PerformReturns(s) \/ Complete(s)
       \/ WorkerNotifies(s) \/ WorkerTransitions(s) \/ ReleaseDispatchSlot(s)
    /\ UNCHANGED requests

\* What a caller does to leave an operation it has entered.
Caller(u) ==
    /\ \/ CallerNotifies(u) \/ CallerTransitions(u) \/ StopCompilation(u)
       \/ ClearAfterBump(u) \/ SynchronousCompile(u)
    /\ UNCHANGED requests

Loader ==
    /\ "load" \in Operations
    /\ DataLoadedReleased \/ DataLoadedTransitions
    /\ UNCHANGED requests

Request(u) ==
    /\ requests < MaxRequests
    /\ requests' = requests + 1
    /\ \/ /\ "add" \in Operations
          /\ \E t \in Tasks, isPrecompile \in BOOLEAN : Add(u, t, isPrecompile)
       \/ /\ "mode" \in Operations
          /\ \E value \in BOOLEAN : SetBackgroundCompilation(u, value)
       \/ "clear" \in Operations /\ BumpGeneration(u)
       \/ "clearPath" \in Operations /\ ClearPath(u)
       \/ "clearType" \in Operations /\ \E ty \in Types : ClearTypeLocked(u, ty)
       \/ "forget" \in Operations /\ \E ids \in SUBSET Tasks : Forget(u, ids)
       \/ "stop" \in Operations /\ \E closing \in BOOLEAN : StopRequested(u, closing)
       \/ "draw" \in Operations /\ \E ty \in Types : BeginSynchronousCompile(u, ty)

Next ==
    \/ Manager \/ Notify \/ Loader
    \/ SpuriousWakeup /\ UNCHANGED requests
    \/ \E s \in Slots : Worker(s)
    \/ \E u \in Users : Caller(u) \/ Request(u)

Spec == Init /\ [][Next]_vars

\* Threads that have work to do get to run; nobody has to make a request.
FairSpec ==
    /\ Spec
    /\ WF_vars(Manager) /\ WF_vars(Notify) /\ WF_vars(Loader)
    /\ \A s \in Slots : WF_vars(Worker(s))
    /\ \A u \in Users : WF_vars(Caller(u))
-----------------------------------------------------------------------------
(* Properties.                                                             *)

SlotType ==
    {Free} \cup [stage : Stages \ {"free"}, task : Tasks, gen : Nat]
UserType ==
    [op : Ops \ {"compiling"}] \cup [op : {"compiling"}, type : Types, gen : Nat]

\* Type invariant; that the counters are naturals says the unsigned
\* subtractions of DropPrecompilesLocked, ClearTypeLocked and
\* ReleaseDispatchSlot never wrap.
TypeOK ==
    /\ available \subseteq Tasks /\ inProgress \subseteq Tasks
    /\ processed \subseteq Tasks /\ precompiles \subseteq available
    /\ wanted \subseteq Tasks
    /\ taskGen \in [Tasks -> Nat]
    /\ generation \in Nat /\ typeEpochs \in [Types -> Nat]
    /\ totalTasks \in Nat /\ completedTasks \in Nat /\ failedTasks \in Nat
    /\ dispatchedTasksInFlight \in Nat /\ requests \in Nat
    /\ finished \in BOOLEAN /\ phaseStarted \in BOOLEAN /\ openPhase \in BOOLEAN
    /\ notifyOwed \in BOOLEAN /\ background \in BOOLEAN /\ stop \in BOOLEAN
    /\ manager \in {"loop", "wait", "sleeping", "exited"}
    /\ slot \in [Slots -> SlotType]
    /\ user \in [Users -> UserType]
    /\ loader \in {"waiting", "loaded", "done"}
    /\ menuLoaded \in BOOLEAN /\ startupComplete \in BOOLEAN /\ quitGame \in BOOLEAN

\* Every task the batch counts is exactly one of done, queued and running:
\* whatever invalidates the queue while workers are inside their tasks,
\* IsCompiling turns false when, and only when, nothing is left.
TasksAreAccountedFor ==
    /\ available \cap inProgress = {}
    /\ (available \cup inProgress) \cap processed = {}
    /\ totalTasks = completedTasks + failedTasks
                    + Cardinality(available) + Cardinality(inProgress)

Unretired(s) ==
    /\ slot[s].stage \in {"detached", "performing", "compiling", "completing"}
    /\ IsCurrent(s)

\* A worker that still may retire its task in the live batch runs a task the
\* batch holds in progress, and no second worker runs that task: Clear, Clear
\* of a category and Forget never make one task be compiled and counted twice.
OneWorkerPerLiveTask ==
    /\ \A s \in Slots : Unretired(s) => slot[s].task \in inProgress
    /\ \A r, s \in Slots :
          Unretired(r) /\ Unretired(s) /\ slot[r].task = slot[s].task => r = s

\* Work of a dead generation stays in the queue only while the Clear that
\* killed it is on its way to emptying the queue.  Nobody else retires it:
\* left behind, it would keep IsCompiling true for good.
StaleWorkIsBeingCleared ==
    (\E t \in available \cup inProgress : taskGen[t] # LiveGeneration(TypeOf[t]))
        => \E u \in Users : user[u].op = "clearing"

\* A task that a draw asked for is queued, running or done until something
\* invalidates it.  Even when it was first queued as speculation, the switch to
\* background mode, which drops all speculation, cannot take it along.
WantedTasksAreKept ==
    /\ wanted \subseteq available \cup inProgress \cup processed
    /\ wanted \cap precompiles = {}

\* dispatchedTasksInFlight is the number of closures the pool holds: each
\* path out of ProcessCompilationSet gives its slot back exactly once.
InFlightIsHonest ==
    dispatchedTasksInFlight = Cardinality({s \in Slots : slot[s] # Free})

\* "Compilation completed" is logged only for a phase whose start was logged
\* and not yet answered: bursts served from the disk cache stay silent.
NoFalseCompletion == (phaseStarted /\ ~finished) => openPhase

\* A generation number never comes back to life: the sum of the global and
\* category epochs only grows, so no closure of a cleared batch counts again.
GenerationsOnlyGrow ==
    [][\A s \in Slots :
          (slot[s] # Free /\ ~IsCurrent(s)) => (slot'[s] = Free \/ ~IsCurrent(s)')]_vars

\* Whatever the order of additions, mode switches, clears and retirements, a
\* batch that is not stopped drains: no wakeup of the dispatcher is lost and
\* no slot leaks.
BatchesDrain == (IsCompiling /\ ~stop) ~> (~IsCompiling \/ stop)

\* Once data is loaded and a batch has drained, workers stop yielding to the
\* desktop, whichever of the loader and the last completion came first.
StartupPhaseEnds ==
    (menuLoaded /\ totalTasks > 0 /\ ~IsCompiling)
        ~> (startupComplete \/ IsCompiling \/ totalTasks = 0)
=============================================================================
