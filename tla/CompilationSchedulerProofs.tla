--------------------- MODULE CompilationSchedulerProofs ---------------------
(***************************************************************************)
(* Type correctness, the accounting of tasks and the uniqueness of live    *)
(* workers, for any tasks, categories, pool size, callers and limits.      *)
(***************************************************************************)
EXTENDS CompilationScheduler, FiniteSetTheorems, TLAPS

\* The frame tuples are abbreviations; they are expanded everywhere.
USE DEF queueVars, counterVars, phaseVars, epochVars, startVars, dispatchVars

\* No closure and no queued copy is ahead of the live generation.  This is
\* what makes an invalidation final: the generation moves past all of them.
NoneAheadOfLive ==
    /\ \A s \in Slots :
          slot[s] # Free => slot[s].gen <= LiveGeneration(TypeOf[slot[s].task])
    /\ \A t \in Tasks : taskGen[t] <= LiveGeneration(TypeOf[t])

\* The inductive invariant.
IInv ==
    /\ TypeOK
    /\ TasksAreAccountedFor
    /\ OneWorkerPerLiveTask
    /\ InFlightIsHonest
    /\ NoneAheadOfLive
    /\ WantedTasksAreKept
    /\ NoFalseCompletion
    /\ StaleWorkIsBeingCleared

-----------------------------------------------------------------------------
(* Facts about the state's shape.                                          *)

\* A slot is either free or holds a closure with a task and a generation.
LEMMA SlotShape ==
    ASSUME TypeOK, NEW s \in Slots
    PROVE  /\ slot[s] = Free <=> slot[s].stage = "free"
           /\ slot[s] # Free => /\ slot[s].task \in Tasks
                                /\ slot[s].gen \in Nat
                                /\ slot[s].stage \in Stages \ {"free"}
BY DEF TypeOK, SlotType, Free, Stages

\* The queue's sets are finite, so their cardinalities are numbers.
LEMMA QueueIsFinite ==
    ASSUME TypeOK
    PROVE  /\ IsFiniteSet(available) /\ Cardinality(available) \in Nat
           /\ IsFiniteSet(inProgress) /\ Cardinality(inProgress) \in Nat
           /\ IsFiniteSet(precompiles) /\ Cardinality(precompiles) \in Nat
<1>1. available \subseteq Tasks /\ inProgress \subseteq Tasks /\ precompiles \subseteq Tasks
  BY DEF TypeOK
<1>2. IsFiniteSet(available) /\ IsFiniteSet(inProgress) /\ IsFiniteSet(precompiles)
  BY <1>1, FS_Subset, TasksAreFinite
<1> QED
  BY <1>2, FS_CardinalityType

\* The live generation of a category is a number.
LEMMA LiveIsNat ==
    ASSUME TypeOK, NEW ty \in Types
    PROVE  LiveGeneration(ty) \in Nat
BY DEF TypeOK, LiveGeneration

\* Removing a part of a finite set subtracts its cardinality.
LEMMA CardinalityOfRest ==
    ASSUME NEW S, NEW P, IsFiniteSet(S), P \subseteq S
    PROVE  /\ IsFiniteSet(P) /\ Cardinality(P) \in Nat
           /\ Cardinality(S \ P) = Cardinality(S) - Cardinality(P)
<1>1. IsFiniteSet(P) /\ Cardinality(P) \in Nat /\ Cardinality(S) \in Nat
  BY FS_Subset, FS_CardinalityType
<1>2. Cardinality(S \ P) = Cardinality(S) - Cardinality(S \cap P)
  BY FS_Difference
<1>3. S \cap P = P
  OBVIOUS
<1> QED
  BY <1>1, <1>2, <1>3

\* Sets without a common member have the sum of their cardinalities.
LEMMA CardinalityOfDisjoint ==
    ASSUME NEW S, NEW T, IsFiniteSet(S), IsFiniteSet(T), S \cap T = {}
    PROVE  Cardinality(S \cup T) = Cardinality(S) + Cardinality(T)
<1>1. Cardinality(S \cup T)
        = Cardinality(S) + Cardinality(T) - Cardinality(S \cap T)
  BY FS_Union
<1>2. Cardinality(S \cap T) = 0
  BY FS_EmptySet
<1>3. Cardinality(S) \in Nat /\ Cardinality(T) \in Nat
  BY FS_CardinalityType
<1> QED
  BY <1>1, <1>2, <1>3

-----------------------------------------------------------------------------
(* The counters never wrap.                                                *)

\* What a switch to background mode drops had been counted.
LEMMA DropIsCounted ==
    ASSUME TypeOK, TasksAreAccountedFor
    PROVE  /\ Cardinality(precompiles) \in Nat
           /\ totalTasks - Cardinality(precompiles) \in Nat
           /\ Cardinality(available \ precompiles)
                = Cardinality(available) - Cardinality(precompiles)
<1>1. /\ Cardinality(available \ precompiles)
           = Cardinality(available) - Cardinality(precompiles)
      /\ Cardinality(available \ precompiles) \in Nat
  <2>1. precompiles \subseteq available /\ IsFiniteSet(available)
    BY QueueIsFinite DEF TypeOK
  <2>2. IsFiniteSet(available \ precompiles)
    BY <2>1, FS_Subset
  <2> QED
    BY <2>1, <2>2, CardinalityOfRest, FS_CardinalityType
<1> QED
  BY <1>1, QueueIsFinite DEF TypeOK, TasksAreAccountedFor

\* What the invalidation of a category cancels had been counted.
LEMMA CancelIsCounted ==
    ASSUME TypeOK, TasksAreAccountedFor, NEW M
    PROVE  LET canceled == (available \cup inProgress) \cap M
           IN  /\ totalTasks - Cardinality(canceled) \in Nat
               /\ totalTasks - Cardinality(canceled)
                    = completedTasks + failedTasks
                      + Cardinality(available \ M) + Cardinality(inProgress \ M)
<1> DEFINE A == available \cap M
           P == inProgress \cap M
<1>1. IsFiniteSet(A) /\ IsFiniteSet(P) /\ IsFiniteSet(available \ M)
      /\ IsFiniteSet(inProgress \ M)
  BY QueueIsFinite, FS_Subset
<1>2. /\ Cardinality(A) \in Nat /\ Cardinality(P) \in Nat
      /\ Cardinality(available \ M) \in Nat /\ Cardinality(inProgress \ M) \in Nat
  BY <1>1, FS_CardinalityType
<1>3. Cardinality(available \ M) = Cardinality(available) - Cardinality(A)
  <2>1. available \ M = available \ A
    OBVIOUS
  <2> QED
    BY <2>1, CardinalityOfRest, QueueIsFinite
<1>4. Cardinality(inProgress \ M) = Cardinality(inProgress) - Cardinality(P)
  <2>1. inProgress \ M = inProgress \ P
    OBVIOUS
  <2> QED
    BY <2>1, CardinalityOfRest, QueueIsFinite
<1>5. Cardinality((available \cup inProgress) \cap M) = Cardinality(A) + Cardinality(P)
  <2>1. (available \cup inProgress) \cap M = A \cup P
    OBVIOUS
  <2>2. A \cap P = {}
    BY DEF TasksAreAccountedFor
  <2> QED
    BY <1>1, <2>1, <2>2, CardinalityOfDisjoint
<1> HIDE DEF A, P
<1> QED
  BY <1>2, <1>3, <1>4, <1>5, QueueIsFinite DEF TypeOK, TasksAreAccountedFor

\* A closure that is not free is counted, so its release can be subtracted.
LEMMA ReleaseIsCounted ==
    ASSUME TypeOK, InFlightIsHonest, NEW s \in Slots, slot[s] # Free
    PROVE  /\ dispatchedTasksInFlight - 1 \in Nat
           /\ dispatchedTasksInFlight - 1
                = Cardinality({r \in Slots : slot[r] # Free} \ {s})
<1> DEFINE Held == {r \in Slots : slot[r] # Free}
<1>1. IsFiniteSet(Held) /\ s \in Held
  BY FS_Subset, SlotsAreFinite
<1>2. Cardinality(Held \ {s}) = Cardinality(Held) - 1
  BY <1>1, FS_RemoveElement
<1>3. Cardinality(Held \ {s}) \in Nat
  BY <1>1, FS_Subset, FS_CardinalityType
<1> QED
  BY <1>2, <1>3 DEF InFlightIsHonest

-----------------------------------------------------------------------------
(* Type correctness.                                                       *)

\* The part of the type invariant that moving a closure on can disturb.
LEMMA MoveKeepsType ==
    ASSUME TypeOK, NEW s \in Slots, slot[s].stage # "free",
           NEW stage \in Stages \ {"free"}, MoveTo(s, stage)
    PROVE  slot' \in [Slots -> SlotType]
<1>1. slot[s] \in [stage : Stages \ {"free"}, task : Tasks, gen : Nat]
  BY DEF TypeOK, SlotType, Free
<1>2. [slot[s] EXCEPT !.stage = stage]
        \in [stage : Stages \ {"free"}, task : Tasks, gen : Nat]
  BY <1>1
<1> QED
  BY <1>2 DEF TypeOK, SlotType, MoveTo

\* A caller's step to an operation without an argument.
LEMMA CallerKeepsType ==
    ASSUME TypeOK, NEW u \in Users, NEW op \in Ops \ {"compiling"}, Becomes(u, op)
    PROVE  user' \in [Users -> UserType]
BY DEF TypeOK, UserType, Becomes

\* Emptying the set leaves its part of the state well typed.
LEMMA ClearKeepsType ==
    ASSUME TypeOK, ClearSet
    PROVE  /\ available' \subseteq Tasks /\ inProgress' \subseteq Tasks
           /\ processed' \subseteq Tasks /\ precompiles' \subseteq available'
           /\ wanted' \subseteq Tasks /\ taskGen' \in [Tasks -> Nat]
           /\ generation' \in Nat /\ typeEpochs' \in [Types -> Nat]
           /\ totalTasks' \in Nat /\ completedTasks' \in Nat /\ failedTasks' \in Nat
           /\ finished' \in BOOLEAN /\ phaseStarted' \in BOOLEAN /\ openPhase' \in BOOLEAN
<1>1. available' \subseteq Tasks /\ inProgress' \subseteq Tasks
      /\ processed' \subseteq Tasks /\ precompiles' \subseteq available'
      /\ wanted' \subseteq Tasks
  BY DEF ClearSet
<1>2. taskGen' \in [Tasks -> Nat] /\ generation' \in Nat
      /\ typeEpochs' \in [Types -> Nat]
  BY DEF ClearSet, TypeOK
<1>3. /\ totalTasks' \in Nat /\ completedTasks' \in Nat /\ failedTasks' \in Nat
      /\ finished' \in BOOLEAN /\ phaseStarted' \in BOOLEAN /\ openPhase' \in BOOLEAN
  BY DEF ClearSet, TypeOK
<1> QED
  BY <1>1, <1>2, <1>3

\* The manager, the notifications and the loader keep every type.
LEMMA ManagerKeepsType ==
    ASSUME TypeOK, Manager \/ Notify \/ Loader \/ (SpuriousWakeup /\ UNCHANGED requests)
    PROVE  TypeOK'
<1>1. CASE ManageCompilationSet /\ UNCHANGED requests
  BY <1>1 DEF ManageCompilationSet, TypeOK
<1>2. CASE WaitBlocks /\ UNCHANGED requests
  BY <1>2 DEF WaitBlocks, TypeOK
<1>3. CASE (\E s \in Slots : WaitTake(s)) /\ UNCHANGED requests
  <2>1. PICK s \in Slots : WaitTake(s)
    BY <1>3
  <2>2. PICK t \in available :
          /\ available' = available \ {t}
          /\ precompiles' = precompiles \ {t}
          /\ inProgress' = inProgress \cup {t}
          /\ slot' = [slot EXCEPT ![s] = Closure("detached", t, taskGen[t])]
    BY <2>1 DEF WaitTake
  <2>3. t \in Tasks /\ taskGen[t] \in Nat
    BY <2>2 DEF TypeOK
  <2>4. slot' \in [Slots -> SlotType]
    BY <2>2, <2>3 DEF TypeOK, SlotType, Closure, Stages
  <2> QED
    BY <1>3, <2>1, <2>2, <2>3, <2>4 DEF WaitTake, TypeOK
<1>4. CASE Notify
  BY <1>4 DEF Notify, NotifyOne, Wake, TypeOK
<1>5. CASE DataLoadedReleased /\ UNCHANGED requests
  BY <1>5 DEF DataLoadedReleased, TypeOK
<1>6. CASE DataLoadedTransitions /\ UNCHANGED requests
  BY <1>6 DEF DataLoadedTransitions, TryCompleteStartupCompilationPhase, TypeOK
<1>7. CASE SpuriousWakeup /\ UNCHANGED requests
  BY <1>7 DEF SpuriousWakeup, TypeOK
<1> QED
  BY <1>1, <1>2, <1>3, <1>4, <1>5, <1>6, <1>7 DEF Manager, Loader

\* A pool closure keeps every type.
LEMMA WorkerKeepsType ==
    ASSUME TypeOK, InFlightIsHonest, NEW s \in Slots, Worker(s)
    PROVE  TypeOK'
<1>1. CASE BeginTask(s)
  <2>1. slot' \in [Slots -> SlotType]
    <3>1. CASE stop \/ ~IsCurrent(s)
      BY <1>1, <3>1, MoveKeepsType DEF BeginTask, Stages
    <3>2. CASE ~(stop \/ ~IsCurrent(s))
      BY <1>1, <3>2, MoveKeepsType DEF BeginTask, Stages
    <3> QED
      BY <3>1, <3>2
  <2> QED
    BY <1>1, <2>1 DEF Worker, BeginTask, TypeOK
<1>2. CASE StartSourceCompile(s)
  <2>1. slot' \in [Slots -> SlotType]
    BY <1>2, MoveKeepsType DEF StartSourceCompile, Stages
  <2>2. finished' \in BOOLEAN /\ phaseStarted' \in BOOLEAN /\ openPhase' \in BOOLEAN
    BY <1>2 DEF StartSourceCompile, MarkPhaseStarted, TypeOK
  <2> QED
    BY <1>2, <2>1, <2>2 DEF Worker, StartSourceCompile, TypeOK
<1>3. CASE PerformReturns(s)
  <2>1. slot' \in [Slots -> SlotType]
    <3>1. CASE stop
      BY <1>3, <3>1, MoveKeepsType DEF PerformReturns, Stages
    <3>2. CASE ~stop
      BY <1>3, <3>2, MoveKeepsType DEF PerformReturns, Stages
    <3> QED
      BY <3>1, <3>2
  <2> QED
    BY <1>3, <2>1 DEF Worker, PerformReturns, TypeOK
<1>4. CASE Complete(s)
  <2>1. slot[s].stage = "completing" /\ slot[s].task \in Tasks
    BY <1>4, SlotShape DEF Complete
  <2>2. slot' \in [Slots -> SlotType]
    <3>1. CASE IsCurrent(s)
      BY <1>4, <3>1, MoveKeepsType DEF Complete, Stages
    <3>2. CASE ~IsCurrent(s)
      BY <1>4, <3>2, MoveKeepsType DEF Complete, Stages
    <3> QED
      BY <3>1, <3>2
  <2>3. CASE IsCurrent(s)
    BY <1>4, <2>1, <2>2, <2>3 DEF Worker, Complete, TypeOK
  <2>4. CASE ~IsCurrent(s)
    BY <1>4, <2>2, <2>4 DEF Worker, Complete, TypeOK
  <2> QED
    BY <2>3, <2>4
<1>5. CASE WorkerNotifies(s)
  <2>1. slot' \in [Slots -> SlotType]
    <3>1. CASE AfterLatch = "transition"
      BY <1>5, <3>1, MoveKeepsType DEF WorkerNotifies, Stages
    <3>2. CASE AfterLatch # "transition"
      BY <1>5, <3>2, MoveKeepsType DEF WorkerNotifies, Stages
    <3> QED
      BY <3>1, <3>2
  <2>2. finished' \in BOOLEAN /\ phaseStarted' \in BOOLEAN /\ openPhase' \in BOOLEAN
        /\ notifyOwed' \in BOOLEAN
    BY <1>5 DEF WorkerNotifies, LatchCompletion, TypeOK
  <2> QED
    BY <1>5, <2>1, <2>2 DEF Worker, WorkerNotifies, TypeOK
<1>6. CASE WorkerTransitions(s)
  <2>1. slot' \in [Slots -> SlotType]
    BY <1>6, MoveKeepsType DEF WorkerTransitions, Stages
  <2> QED
    BY <1>6, <2>1 DEF Worker, WorkerTransitions, TryCompleteStartupCompilationPhase, TypeOK
<1>7. CASE ReleaseDispatchSlot(s)
  <2>1. slot' \in [Slots -> SlotType]
    BY <1>7 DEF ReleaseDispatchSlot, SlotType, TypeOK
  <2>2. dispatchedTasksInFlight' \in Nat
    BY <1>7, SlotShape, ReleaseIsCounted DEF ReleaseDispatchSlot
  <2> QED
    BY <1>7, <2>1, <2>2 DEF Worker, ReleaseDispatchSlot, TypeOK
<1> QED
  BY <1>1, <1>2, <1>3, <1>4, <1>5, <1>6, <1>7 DEF Worker

\* The threads that call the cache keep every type.
LEMMA CallerKeepsTypes ==
    ASSUME TypeOK, NEW u \in Users, Caller(u)
    PROVE  TypeOK'
<1>1. CASE CallerNotifies(u)
  <2>1. user' \in [Users -> UserType]
    <3>1. CASE AfterLatch = "transition"
      BY <1>1, <3>1, CallerKeepsType DEF CallerNotifies, Ops
    <3>2. CASE AfterLatch # "transition"
      BY <1>1, <3>2, CallerKeepsType DEF CallerNotifies, Ops
    <3> QED
      BY <3>1, <3>2
  <2>2. finished' \in BOOLEAN /\ phaseStarted' \in BOOLEAN /\ openPhase' \in BOOLEAN
        /\ notifyOwed' \in BOOLEAN
    BY <1>1 DEF CallerNotifies, LatchCompletion, TypeOK
  <2> QED
    BY <1>1, <2>1, <2>2 DEF Caller, CallerNotifies, TypeOK
<1>2. CASE CallerTransitions(u)
  <2>1. user' \in [Users -> UserType]
    BY <1>2, CallerKeepsType DEF CallerTransitions, Ops
  <2> QED
    BY <1>2, <2>1 DEF Caller, CallerTransitions, TryCompleteStartupCompilationPhase, TypeOK
<1>3. CASE StopCompilation(u)
  <2>1. user' \in [Users -> UserType]
    BY <1>3, CallerKeepsType DEF StopCompilation, Ops
  <2> QED
    BY <1>3, <2>1 DEF Caller, StopCompilation, Wake, TypeOK
<1>4. CASE ClearAfterBump(u)
  <2>1. user' \in [Users -> UserType]
    BY <1>4, CallerKeepsType DEF ClearAfterBump, Ops
  <2>2. ClearSet
    BY <1>4 DEF ClearAfterBump
  <2> QED
    BY <1>4, <2>1, <2>2, ClearKeepsType DEF Caller, ClearAfterBump, TypeOK
<1>5. CASE SynchronousCompile(u)
  <2>1. user' \in [Users -> UserType]
    BY <1>5, CallerKeepsType DEF SynchronousCompile, Ops
  <2>2. finished' \in BOOLEAN /\ phaseStarted' \in BOOLEAN /\ openPhase' \in BOOLEAN
    BY <1>5 DEF SynchronousCompile, MarkPhaseStarted, TypeOK
  <2> QED
    BY <1>5, <2>1, <2>2 DEF Caller, SynchronousCompile, TypeOK
<1> QED
  BY <1>1, <1>2, <1>3, <1>4, <1>5 DEF Caller

\* Asking for a shader keeps every type.
LEMMA RequestKeepsTypes ==
    ASSUME TypeOK, TasksAreAccountedFor, NEW u \in Users, Request(u)
    PROVE  TypeOK'
<1>0. requests' \in Nat
  BY DEF Request, TypeOK
<1>1. CASE \E t \in Tasks, isPrecompile \in BOOLEAN : Add(u, t, isPrecompile)
  <2>1. PICK t \in Tasks, isPrecompile \in BOOLEAN : Add(u, t, isPrecompile)
    BY <1>1
  <2>2. /\ available' \subseteq Tasks /\ precompiles' \subseteq available'
        /\ wanted' \subseteq Tasks
    BY <2>1 DEF Add, TypeOK
  <2>3. taskGen' \in [Tasks -> Nat]
    <3>1. LiveGeneration(TypeOf[t]) \in Nat
      BY LiveIsNat, TasksHaveTypes
    <3> QED
      BY <2>1, <3>1 DEF Add, TypeOK
  <2>4. totalTasks' \in Nat /\ notifyOwed' \in BOOLEAN
    BY <2>1 DEF Add, TypeOK
  <2> QED
    BY <1>0, <2>1, <2>2, <2>3, <2>4 DEF Add, TypeOK
<1>2. CASE \E value \in BOOLEAN : SetBackgroundCompilation(u, value)
  <2>1. PICK value \in BOOLEAN : SetBackgroundCompilation(u, value)
    BY <1>2
  <2>2. user' \in [Users -> UserType]
    <3>1. CASE value
      BY <2>1, <3>1, CallerKeepsType DEF SetBackgroundCompilation, Ops
    <3>2. CASE ~value
      BY <2>1, <3>2, CallerKeepsType DEF SetBackgroundCompilation, Ops
    <3> QED
      BY <3>1, <3>2
  <2>3. totalTasks' \in Nat
    <3>1. CASE value
      BY <2>1, <3>1, DropIsCounted DEF SetBackgroundCompilation
    <3>2. CASE ~value
      BY <2>1, <3>2, FS_EmptySet DEF SetBackgroundCompilation, TypeOK
    <3> QED
      BY <3>1, <3>2
  <2>4. available' \subseteq Tasks /\ precompiles' \subseteq available'
    BY <2>1 DEF SetBackgroundCompilation, TypeOK
  <2> QED
    BY <1>0, <2>1, <2>2, <2>3, <2>4 DEF SetBackgroundCompilation, TypeOK
<1>3. CASE BumpGeneration(u)
  <2>1. user' \in [Users -> UserType]
    BY <1>3, CallerKeepsType DEF BumpGeneration, Ops
  <2> QED
    BY <1>0, <1>3, <2>1 DEF BumpGeneration, TypeOK
<1>4. CASE ClearPath(u)
  <2>1. ClearSet
    BY <1>4 DEF ClearPath
  <2> QED
    BY <1>0, <1>4, <2>1, ClearKeepsType DEF ClearPath, TypeOK
<1>5. CASE \E ty \in Types : ClearTypeLocked(u, ty)
  <2>1. PICK ty \in Types : ClearTypeLocked(u, ty)
    BY <1>5
  <2>2. user' \in [Users -> UserType]
    BY <2>1, CallerKeepsType DEF ClearTypeLocked, Ops
  <2>3. totalTasks' \in Nat
    BY <2>1, CancelIsCounted DEF ClearTypeLocked
  <2>4. /\ available' \subseteq Tasks /\ inProgress' \subseteq Tasks
        /\ processed' \subseteq Tasks /\ precompiles' \subseteq available'
        /\ wanted' \subseteq Tasks
    BY <2>1 DEF ClearTypeLocked, TypeOK
  <2>5. typeEpochs' \in [Types -> Nat]
    BY <2>1 DEF ClearTypeLocked, TypeOK
  <2> QED
    BY <1>0, <2>1, <2>2, <2>3, <2>4, <2>5 DEF ClearTypeLocked, TypeOK
<1>6. CASE \E ids \in SUBSET Tasks : Forget(u, ids)
  <2>1. PICK ids \in SUBSET Tasks : Forget(u, ids)
    BY <1>6
  <2>2. processed' \subseteq Tasks /\ wanted' \subseteq Tasks
    BY <2>1 DEF Forget, TypeOK
  <2>3. finished' \in BOOLEAN /\ phaseStarted' \in BOOLEAN
    BY <2>1 DEF Forget, TypeOK
  <2> QED
    BY <1>0, <2>1, <2>2, <2>3 DEF Forget, TypeOK
<1>7. CASE \E closing \in BOOLEAN : StopRequested(u, closing)
  <2>1. PICK closing \in BOOLEAN : StopRequested(u, closing)
    BY <1>7
  <2>2. user' \in [Users -> UserType]
    BY <2>1, CallerKeepsType DEF StopRequested, Ops
  <2> QED
    BY <1>0, <2>1, <2>2 DEF StopRequested, TypeOK
<1>8. CASE \E ty \in Types : BeginSynchronousCompile(u, ty)
  <2>1. PICK ty \in Types : BeginSynchronousCompile(u, ty)
    BY <1>8
  <2>2. user' \in [Users -> UserType]
    BY <2>1, LiveIsNat DEF BeginSynchronousCompile, TypeOK, UserType
  <2> QED
    BY <1>0, <2>1, <2>2 DEF BeginSynchronousCompile, TypeOK
<1> QED
  BY <1>1, <1>2, <1>3, <1>4, <1>5, <1>6, <1>7, <1>8 DEF Request

-----------------------------------------------------------------------------
(* The accounting of tasks.                                                *)

\* The steps that touch the queue or its counters.
QueueStep ==
    \/ \E s \in Slots : WaitTake(s) \/ Complete(s)
    \/ \E u \in Users :
          \/ \E t \in Tasks, isPrecompile \in BOOLEAN : Add(u, t, isPrecompile)
          \/ \E value \in BOOLEAN : SetBackgroundCompilation(u, value)
          \/ ClearAfterBump(u) \/ ClearPath(u)
          \/ \E ty \in Types : ClearTypeLocked(u, ty)
          \/ \E ids \in SUBSET Tasks : Forget(u, ids)

\* Only the steps of the set touch the set and its counters.
LEMMA OtherStepsKeepTheQueue ==
    ASSUME [Next]_vars, ~QueueStep
    PROVE  UNCHANGED <<queueVars, counterVars>>
<1>1. CASE UNCHANGED vars
  BY <1>1 DEF vars
<1>2. CASE Manager \/ Notify \/ Loader \/ (SpuriousWakeup /\ UNCHANGED requests)
  BY <1>2 DEF QueueStep, Manager, ManageCompilationSet, WaitBlocks, Notify, NotifyOne,
      Loader, DataLoadedReleased, DataLoadedTransitions, SpuriousWakeup
<1>3. CASE \E s \in Slots : Worker(s)
  BY <1>3 DEF QueueStep, Worker, BeginTask, StartSourceCompile, PerformReturns,
      WorkerNotifies, WorkerTransitions, ReleaseDispatchSlot
<1>4. CASE \E u \in Users : Caller(u)
  BY <1>4 DEF QueueStep, Caller, CallerNotifies, CallerTransitions, StopCompilation,
      SynchronousCompile
<1>5. CASE \E u \in Users : Request(u)
  BY <1>5 DEF QueueStep, Request, BumpGeneration, StopRequested, BeginSynchronousCompile
<1> QED
  BY <1>1, <1>2, <1>3, <1>4, <1>5 DEF Next

\* Clearing a set whose counters are zeroed with it leaves nothing to count.
LEMMA ClearIsAccountedFor ==
    ASSUME ClearSet PROVE TasksAreAccountedFor'
BY FS_EmptySet DEF ClearSet, TasksAreAccountedFor

\* Every step keeps the counters in step with the sets.
LEMMA AccountingIsKept ==
    ASSUME TypeOK, TasksAreAccountedFor, OneWorkerPerLiveTask, [Next]_vars
    PROVE  TasksAreAccountedFor'
<1> USE QueueIsFinite
<1>1. CASE ~QueueStep
  BY <1>1, OtherStepsKeepTheQueue DEF TasksAreAccountedFor
<1>2. CASE \E s \in Slots : WaitTake(s)
  <2>1. PICK t \in available :
          available' = available \ {t} /\ inProgress' = inProgress \cup {t}
    BY <1>2 DEF WaitTake
  <2>2. UNCHANGED <<processed, totalTasks, completedTasks, failedTasks>>
    BY <1>2 DEF WaitTake
  <2>3. t \notin inProgress
    BY <2>1 DEF TasksAreAccountedFor
  <2>4. Cardinality(available') = Cardinality(available) - 1
    BY <2>1, FS_RemoveElement
  <2>5. Cardinality(inProgress') = Cardinality(inProgress) + 1
    BY <2>1, <2>3, FS_AddElement
  <2>6. available' \cap inProgress' = {} /\ (available' \cup inProgress') \cap processed' = {}
    BY <2>1, <2>2 DEF TasksAreAccountedFor
  <2> QED
    BY <2>2, <2>4, <2>5, <2>6 DEF TasksAreAccountedFor, TypeOK
<1>3. CASE \E s \in Slots : Complete(s)
  <2>1. PICK s \in Slots : Complete(s)
    BY <1>3
  <2>2. CASE ~IsCurrent(s)
    BY <2>1, <2>2 DEF Complete, TasksAreAccountedFor
  <2>3. CASE IsCurrent(s)
    <3> DEFINE t == slot[s].task
    <3>1. t \in inProgress
      BY <2>1, <2>3 DEF Complete, OneWorkerPerLiveTask, Unretired
    <3>2. /\ inProgress' = inProgress \ {t} /\ processed' = processed \cup {t}
          /\ UNCHANGED <<available, totalTasks>>
      BY <2>1, <2>3 DEF Complete
    <3>3. completedTasks' + failedTasks' = completedTasks + failedTasks + 1
      BY <2>1, <2>3 DEF Complete, TypeOK
    <3>4. Cardinality(inProgress') = Cardinality(inProgress) - 1
      BY <3>1, <3>2, FS_RemoveElement
    <3>5. available' \cap inProgress' = {} /\ (available' \cup inProgress') \cap processed' = {}
      BY <3>1, <3>2 DEF TasksAreAccountedFor
    <3> HIDE DEF t
    <3> QED
      BY <3>2, <3>3, <3>4, <3>5 DEF TasksAreAccountedFor, TypeOK
  <2> QED
    BY <2>2, <2>3
<1>4. ASSUME NEW u \in Users, NEW t \in Tasks, NEW isPrecompile \in BOOLEAN,
             Add(u, t, isPrecompile)
      PROVE  TasksAreAccountedFor'
  <2>1. /\ available' = available \cup {t} /\ t \notin inProgress \cup processed
        /\ UNCHANGED <<inProgress, processed, completedTasks, failedTasks>>
        /\ totalTasks' = IF t \notin available THEN totalTasks + 1 ELSE totalTasks
    BY <1>4 DEF Add
  <2>2. Cardinality(available') = IF t \notin available THEN Cardinality(available) + 1
                                 ELSE Cardinality(available)
    <3>1. CASE t \notin available
      BY <2>1, <3>1, FS_AddElement
    <3>2. CASE t \in available
      <4>1. available' = available
        BY <2>1, <3>2
      <4> QED
        BY <3>2, <4>1
    <3> QED
      BY <3>1, <3>2
  <2>3. available' \cap inProgress' = {} /\ (available' \cup inProgress') \cap processed' = {}
    BY <2>1 DEF TasksAreAccountedFor
  <2> QED
    BY <2>1, <2>2, <2>3 DEF TasksAreAccountedFor, TypeOK
<1>5. ASSUME NEW u \in Users, NEW value \in BOOLEAN, SetBackgroundCompilation(u, value)
      PROVE  TasksAreAccountedFor'
  <2>1. UNCHANGED <<inProgress, processed, completedTasks, failedTasks>>
    BY <1>5 DEF SetBackgroundCompilation
  <2>2. CASE value
    <3>1. /\ available' = available \ precompiles
          /\ totalTasks' = totalTasks - Cardinality(precompiles)
      BY <1>5, <2>2 DEF SetBackgroundCompilation
    <3>2. available' \cap inProgress' = {} /\ (available' \cup inProgress') \cap processed' = {}
      BY <2>1, <3>1 DEF TasksAreAccountedFor
    <3> QED
      BY <2>1, <3>1, <3>2, DropIsCounted DEF TasksAreAccountedFor, TypeOK
  <2>3. CASE ~value
    <3>1. available' = available /\ totalTasks' = totalTasks - Cardinality({})
      BY <1>5, <2>3 DEF SetBackgroundCompilation
    <3>2. totalTasks' = totalTasks
      BY <3>1, FS_EmptySet DEF TypeOK
    <3> QED
      BY <2>1, <3>1, <3>2 DEF TasksAreAccountedFor
  <2> QED
    BY <2>2, <2>3
<1>6. ASSUME NEW u \in Users, ClearAfterBump(u) \/ ClearPath(u)
      PROVE  TasksAreAccountedFor'
  BY <1>6, ClearIsAccountedFor DEF ClearAfterBump, ClearPath
<1>7. ASSUME NEW u \in Users, NEW ty \in Types, ClearTypeLocked(u, ty)
      PROVE  TasksAreAccountedFor'
  <2> DEFINE M == {t \in Tasks : TypeOf[t] = ty}
  <2>1. /\ available' = available \ M /\ inProgress' = inProgress \ M
        /\ processed' = processed \ M
        /\ totalTasks' = totalTasks - Cardinality((available \cup inProgress) \cap M)
        /\ UNCHANGED <<completedTasks, failedTasks>>
    BY <1>7 DEF ClearTypeLocked
  <2> HIDE DEF M
  <2>2. available' \cap inProgress' = {} /\ (available' \cup inProgress') \cap processed' = {}
    BY <2>1 DEF TasksAreAccountedFor
  <2> QED
    BY <2>1, <2>2, CancelIsCounted DEF TasksAreAccountedFor
<1>8. ASSUME NEW u \in Users, NEW ids \in SUBSET Tasks, Forget(u, ids)
      PROVE  TasksAreAccountedFor'
  BY <1>8 DEF Forget, TasksAreAccountedFor
<1> QED
  BY <1>1, <1>2, <1>3, <1>4, <1>5, <1>6, <1>7, <1>8 DEF QueueStep

-----------------------------------------------------------------------------
(* Workers and generations.                                                *)

UnretiredStages == {"detached", "performing", "compiling", "completing"}

\* Worker steps that only move a closure on, never back to a stage from
\* which it can still retire its task.
MoveStep(s) ==
    /\ slot[s].stage # "free"
    /\ \E stage \in Stages \ {"free"} :
          /\ MoveTo(s, stage)
          /\ stage \in UnretiredStages => slot[s].stage \in UnretiredStages
    /\ UNCHANGED <<inProgress, taskGen, epochVars, dispatchedTasksInFlight>>

\* A closure moves on, completes its task or gives back its slot.
LEMMA WorkersMoveOrRetire ==
    ASSUME NEW s \in Slots, Worker(s)
    PROVE  MoveStep(s) \/ Complete(s) \/ ReleaseDispatchSlot(s)
<1> USE DEF MoveStep, Stages, UnretiredStages
<1>1. CASE BeginTask(s)
  <2>1. CASE stop \/ ~IsCurrent(s)
    BY <1>1, <2>1 DEF BeginTask
  <2>2. CASE ~(stop \/ ~IsCurrent(s))
    BY <1>1, <2>2 DEF BeginTask
  <2> QED
    BY <2>1, <2>2
<1>2. CASE StartSourceCompile(s)
  BY <1>2 DEF StartSourceCompile
<1>3. CASE PerformReturns(s)
  <2>1. CASE stop
    BY <1>3, <2>1 DEF PerformReturns
  <2>2. CASE ~stop
    BY <1>3, <2>2 DEF PerformReturns
  <2> QED
    BY <2>1, <2>2
<1>4. CASE WorkerNotifies(s)
  <2>1. CASE AfterLatch = "transition"
    BY <1>4, <2>1 DEF WorkerNotifies
  <2>2. CASE AfterLatch # "transition"
    BY <1>4, <2>2 DEF WorkerNotifies
  <2> QED
    BY <2>1, <2>2
<1>5. CASE WorkerTransitions(s)
  BY <1>5 DEF WorkerTransitions
<1> QED
  BY <1>1, <1>2, <1>3, <1>4, <1>5 DEF Worker

\* Every step that does not touch a closure, a generation or the set of
\* running tasks.
QuietStep ==
    UNCHANGED <<slot, inProgress, epochVars, dispatchedTasksInFlight>>

\* The kinds of step the invariants about workers and generations tell apart.
LEMMA StepKinds ==
    ASSUME [Next]_vars
    PROVE  \/ QuietStep /\ UNCHANGED taskGen
           \/ \E s \in Slots : \/ WaitTake(s) \/ MoveStep(s) \/ Complete(s)
                               \/ ReleaseDispatchSlot(s)
           \/ \E u \in Users :
                 \/ \E t \in Tasks, isPrecompile \in BOOLEAN : Add(u, t, isPrecompile)
                 \/ BumpGeneration(u) \/ ClearAfterBump(u) \/ ClearPath(u)
                 \/ \E ty \in Types : ClearTypeLocked(u, ty)
<1>1. CASE UNCHANGED vars
  BY <1>1 DEF vars, QuietStep
<1>2. CASE Manager \/ Notify \/ Loader \/ (SpuriousWakeup /\ UNCHANGED requests)
  BY <1>2 DEF Manager, ManageCompilationSet, WaitBlocks, Notify, NotifyOne, Loader,
      DataLoadedReleased, DataLoadedTransitions, SpuriousWakeup, QuietStep
<1>3. CASE \E s \in Slots : Worker(s)
  BY <1>3, WorkersMoveOrRetire
<1>4. CASE \E u \in Users : Caller(u)
  BY <1>4 DEF Caller, CallerNotifies, CallerTransitions, StopCompilation,
      SynchronousCompile, QuietStep
<1>5. CASE \E u \in Users : Request(u)
  BY <1>5 DEF Request, StopRequested, BeginSynchronousCompile,
      SetBackgroundCompilation, Forget, QuietStep
<1> QED
  BY <1>1, <1>2, <1>3, <1>4, <1>5 DEF Next

\* The count of held closures follows the dispatches and the releases.
LEMMA CountIsKept ==
    ASSUME TypeOK, InFlightIsHonest, [Next]_vars
    PROVE  InFlightIsHonest'
<1> DEFINE Held == {r \in Slots : slot[r] # Free}
<1>0. IsFiniteSet(Held) /\ Cardinality(Held) \in Nat
  BY FS_Subset, SlotsAreFinite, FS_CardinalityType
<1>1. ASSUME NEW s \in Slots, WaitTake(s) PROVE InFlightIsHonest'
  <2>1. PICK t \in Tasks : slot' = [slot EXCEPT ![s] = Closure("detached", t, taskGen[t])]
    BY <1>1 DEF WaitTake, TypeOK
  <2>2. Held' = Held \cup {s} /\ s \notin Held
    BY <1>1, <2>1 DEF WaitTake, Closure, Free, TypeOK
  <2>3. Cardinality(Held \cup {s}) = Cardinality(Held) + 1
    BY <1>0, <2>2, FS_AddElement
  <2> QED
    BY <1>1, <2>2, <2>3 DEF WaitTake, InFlightIsHonest
<1>2. ASSUME NEW s \in Slots, ReleaseDispatchSlot(s) PROVE InFlightIsHonest'
  <2>1. slot[s] # Free
    BY <1>2, SlotShape DEF ReleaseDispatchSlot
  <2>2. Held' = Held \ {s}
    BY <1>2 DEF ReleaseDispatchSlot, TypeOK
  <2> QED
    BY <1>2, <2>1, <2>2, ReleaseIsCounted DEF ReleaseDispatchSlot, InFlightIsHonest
<1>3. ASSUME NEW s \in Slots, NEW stage \in Stages \ {"free"}, slot[s].stage # "free",
             MoveTo(s, stage), UNCHANGED dispatchedTasksInFlight
      PROVE  InFlightIsHonest'
  <2>1. slot[s] # Free /\ slot'[s].stage # "free"
    BY <1>3, SlotShape DEF MoveTo, TypeOK, SlotType, Free
  <2>2. slot'[s] # Free
    BY <2>1 DEF Free
  <2>3. Held' = Held
    BY <1>3, <2>1, <2>2 DEF MoveTo, TypeOK
  <2> QED
    BY <1>3, <2>3 DEF InFlightIsHonest
<1>4. ASSUME NEW s \in Slots, MoveStep(s) PROVE InFlightIsHonest'
  BY <1>3, <1>4 DEF MoveStep
<1>5. ASSUME NEW s \in Slots, Complete(s) PROVE InFlightIsHonest'
  <2>1. CASE IsCurrent(s)
    BY <1>3, <1>5, <2>1 DEF Complete, Stages
  <2>2. CASE ~IsCurrent(s)
    BY <1>3, <1>5, <2>2 DEF Complete, Stages
  <2> QED
    BY <2>1, <2>2
<1>6. CASE UNCHANGED <<slot, dispatchedTasksInFlight>>
  BY <1>6 DEF InFlightIsHonest
<1> QED
  BY <1>1, <1>2, <1>4, <1>5, <1>6, StepKinds
     DEF QuietStep, Add, BumpGeneration, ClearAfterBump, ClearPath, ClearTypeLocked

\* Generations grow, and everything tagged was tagged with the live one.
LEMMA GenerationsAreKept ==
    ASSUME TypeOK, NoneAheadOfLive, [Next]_vars
    PROVE  NoneAheadOfLive'
<1> USE TasksHaveTypes
<1>1. ASSUME NEW s \in Slots, WaitTake(s) PROVE NoneAheadOfLive'
  <2>1. PICK t \in Tasks : slot' = [slot EXCEPT ![s] = Closure("detached", t, taskGen[t])]
    BY <1>1 DEF WaitTake, TypeOK
  <2>2. UNCHANGED <<taskGen, epochVars>>
    BY <1>1 DEF WaitTake
  <2> QED
    BY <2>1, <2>2 DEF NoneAheadOfLive, LiveGeneration, Closure, TypeOK
<1>2. ASSUME NEW s \in Slots, NEW stage \in Stages \ {"free"}, slot[s].stage # "free",
             MoveTo(s, stage), UNCHANGED <<taskGen, epochVars>>
      PROVE  NoneAheadOfLive'
  <2>1. slot[s] # Free
    BY <1>2, SlotShape
  <2>2. \A r \in Slots : slot'[r] # Free =>
           slot[r] # Free /\ slot'[r].task = slot[r].task /\ slot'[r].gen = slot[r].gen
    <3> TAKE r \in Slots
    <3>1. CASE r # s
      BY <1>2, <3>1 DEF MoveTo, TypeOK
    <3>2. CASE r = s
      BY <1>2, <2>1, <3>2 DEF MoveTo, TypeOK
    <3> QED
      BY <3>1, <3>2
  <2> QED
    BY <1>2, <2>2 DEF NoneAheadOfLive, LiveGeneration
<1>3. ASSUME NEW s \in Slots, MoveStep(s) PROVE NoneAheadOfLive'
  BY <1>2, <1>3 DEF MoveStep
<1>4. ASSUME NEW s \in Slots, Complete(s) PROVE NoneAheadOfLive'
  <2>1. CASE IsCurrent(s)
    BY <1>2, <1>4, <2>1 DEF Complete, Stages
  <2>2. CASE ~IsCurrent(s)
    BY <1>2, <1>4, <2>2 DEF Complete, Stages
  <2> QED
    BY <2>1, <2>2
<1>5. ASSUME NEW s \in Slots, ReleaseDispatchSlot(s) PROVE NoneAheadOfLive'
  BY <1>5 DEF ReleaseDispatchSlot, NoneAheadOfLive, LiveGeneration, TypeOK
<1>6. ASSUME NEW u \in Users, NEW t \in Tasks, NEW isPrecompile \in BOOLEAN,
             Add(u, t, isPrecompile)
      PROVE  NoneAheadOfLive'
  <2>1. LiveGeneration(TypeOf[t]) \in Nat
    BY LiveIsNat
  <2>2. UNCHANGED <<slot, epochVars>>
    BY <1>6 DEF Add
  <2>3. taskGen' = taskGen \/ taskGen' = [taskGen EXCEPT ![t] = LiveGeneration(TypeOf[t])]
    BY <1>6 DEF Add
  <2> QED
    BY <2>1, <2>2, <2>3 DEF NoneAheadOfLive, LiveGeneration, TypeOK
<1>7. ASSUME UNCHANGED <<slot, taskGen>>,
             \A ty \in Types : LiveGeneration(ty)' \in Nat /\ LiveGeneration(ty) <= LiveGeneration(ty)'
      PROVE  NoneAheadOfLive'
  <2>1. ASSUME NEW s \in Slots, slot[s] # Free
        PROVE  slot[s].gen <= LiveGeneration(TypeOf[slot[s].task])'
    <3>1. slot[s].gen \in Nat /\ TypeOf[slot[s].task] \in Types
      BY <2>1, SlotShape
    <3>2. slot[s].gen <= LiveGeneration(TypeOf[slot[s].task])
      BY <2>1 DEF NoneAheadOfLive
    <3>3. TypeOf[slot[s].task]' = TypeOf[slot[s].task]
      BY <1>7
    <3> QED
      BY <1>7, <3>1, <3>2, <3>3, LiveIsNat
  <2>2. ASSUME NEW t \in Tasks PROVE taskGen[t] <= LiveGeneration(TypeOf[t])'
    <3>1. taskGen[t] \in Nat /\ TypeOf[t] \in Types
      BY DEF TypeOK
    <3>2. taskGen[t] <= LiveGeneration(TypeOf[t])
      BY DEF NoneAheadOfLive
    <3> QED
      BY <1>7, <3>1, <3>2, LiveIsNat
  <2> QED
    BY <1>7, <2>1, <2>2 DEF NoneAheadOfLive
<1>8. ASSUME NEW u \in Users, BumpGeneration(u) \/ ClearAfterBump(u) \/ ClearPath(u)
      PROVE  NoneAheadOfLive'
  BY <1>7, <1>8 DEF BumpGeneration, ClearAfterBump, ClearPath, ClearSet, LiveGeneration, TypeOK
<1>9. ASSUME NEW u \in Users, NEW ty \in Types, ClearTypeLocked(u, ty)
      PROVE  NoneAheadOfLive'
  <2>1. UNCHANGED <<slot, taskGen, generation>>
    BY <1>9 DEF ClearTypeLocked
  <2>2. typeEpochs' = [typeEpochs EXCEPT ![ty] = @ + 1]
    BY <1>9 DEF ClearTypeLocked
  <2> QED
    BY <1>7, <2>1, <2>2 DEF LiveGeneration, TypeOK
<1>10. CASE QuietStep /\ UNCHANGED taskGen
  BY <1>10 DEF QuietStep, NoneAheadOfLive, LiveGeneration
<1> QED
  BY <1>1, <1>3, <1>4, <1>5, <1>6, <1>8, <1>9, <1>10, StepKinds

\* A live task has one worker at most, and the set knows of it.
LEMMA WorkersAreKept ==
    ASSUME TypeOK, TasksAreAccountedFor, NoneAheadOfLive, OneWorkerPerLiveTask, [Next]_vars
    PROVE  OneWorkerPerLiveTask'
<1> USE TasksHaveTypes
<1>1. ASSUME NEW s \in Slots, WaitTake(s) PROVE OneWorkerPerLiveTask'
  <2>1. PICK t \in available : /\ inProgress' = inProgress \cup {t}
                               /\ slot' = [slot EXCEPT ![s] = Closure("detached", t, taskGen[t])]
    BY <1>1 DEF WaitTake
  <2>2. UNCHANGED epochVars
    BY <1>1 DEF WaitTake
  <2>3. slot'[s].task = t /\ \A r \in Slots \ {s} : slot'[r] = slot[r]
    BY <2>1 DEF Closure, TypeOK
  <2>4. \A r \in Slots \ {s} : Unretired(r)' => Unretired(r) /\ slot[r].task # t
    <3> TAKE r \in Slots \ {s}
    <3>1. Unretired(r)' => Unretired(r)
      BY <2>2, <2>3 DEF Unretired, IsCurrent, LiveGeneration
    <3>2. t \notin inProgress
      BY <2>1 DEF TasksAreAccountedFor
    <3> QED
      BY <3>1, <3>2 DEF OneWorkerPerLiveTask
  <2> QED
    BY <2>1, <2>3, <2>4 DEF OneWorkerPerLiveTask
<1>2. ASSUME NEW s \in Slots, MoveStep(s) PROVE OneWorkerPerLiveTask'
  <2>1. PICK stage \in Stages \ {"free"} :
          /\ MoveTo(s, stage)
          /\ stage \in UnretiredStages => slot[s].stage \in UnretiredStages
    BY <1>2 DEF MoveStep
  <2>2. slot[s] # Free /\ UNCHANGED <<inProgress, epochVars>>
    BY <1>2, SlotShape DEF MoveStep
  <2>3. slot'[s].stage = stage /\ slot'[s].task = slot[s].task /\ slot'[s].gen = slot[s].gen
        /\ \A r \in Slots \ {s} : slot'[r] = slot[r]
    <3>1. slot[s] \in [stage : Stages \ {"free"}, task : Tasks, gen : Nat]
      BY <2>2 DEF TypeOK, SlotType
    <3> QED
      BY <2>1, <3>1 DEF MoveTo, TypeOK
  <2>4. \A r \in Slots : Unretired(r)' => Unretired(r) /\ slot'[r].task = slot[r].task
    BY <2>1, <2>2, <2>3 DEF Unretired, UnretiredStages, IsCurrent, LiveGeneration
  <2> QED
    BY <2>2, <2>4 DEF OneWorkerPerLiveTask
<1>3. ASSUME NEW s \in Slots, Complete(s) PROVE OneWorkerPerLiveTask'
  <2>1. UNCHANGED epochVars /\ slot[s].stage = "completing" /\ slot[s] # Free
    BY <1>3, SlotShape DEF Complete
  <2>2. slot'[s].stage \in {"release", "notify"} /\ \A r \in Slots \ {s} : slot'[r] = slot[r]
    <3>1. slot[s] \in [stage : Stages \ {"free"}, task : Tasks, gen : Nat]
      BY <2>1 DEF TypeOK, SlotType
    <3>2. CASE IsCurrent(s)
      BY <1>3, <3>1, <3>2 DEF Complete, MoveTo, TypeOK
    <3>3. CASE ~IsCurrent(s)
      BY <1>3, <3>1, <3>3 DEF Complete, MoveTo, TypeOK
    <3> QED
      BY <3>2, <3>3
  <2>3. \A r \in Slots : Unretired(r)' => r # s /\ Unretired(r) /\ slot'[r] = slot[r]
    BY <2>1, <2>2 DEF Unretired, IsCurrent, LiveGeneration
  <2>4. \A r \in Slots : Unretired(r)' => slot'[r].task \in inProgress'
    <3> SUFFICES ASSUME NEW r \in Slots, Unretired(r)' PROVE slot'[r].task \in inProgress'
      OBVIOUS
    <3>1. r # s /\ Unretired(r) /\ slot'[r].task = slot[r].task /\ slot[r].task \in inProgress
      BY <2>3 DEF OneWorkerPerLiveTask
    <3>2. CASE ~IsCurrent(s)
      BY <1>3, <3>1, <3>2 DEF Complete
    <3>3. CASE IsCurrent(s)
      <4>1. Unretired(s)
        BY <2>1, <3>3 DEF Unretired
      <4>2. slot[r].task # slot[s].task
        BY <3>1, <4>1 DEF OneWorkerPerLiveTask
      <4> QED
        BY <1>3, <3>1, <3>3, <4>2 DEF Complete
    <3> QED
      BY <3>2, <3>3
  <2> QED
    BY <2>3, <2>4 DEF OneWorkerPerLiveTask
<1>4. ASSUME NEW s \in Slots, ReleaseDispatchSlot(s) PROVE OneWorkerPerLiveTask'
  <2>1. UNCHANGED <<inProgress, epochVars>>
    BY <1>4 DEF ReleaseDispatchSlot
  <2>2. \A r \in Slots : Unretired(r)' => Unretired(r) /\ slot'[r] = slot[r]
    BY <1>4, <2>1 DEF ReleaseDispatchSlot, Unretired, IsCurrent, LiveGeneration, Free, TypeOK
  <2> QED
    BY <2>1, <2>2 DEF OneWorkerPerLiveTask
<1>5. CASE UNCHANGED <<slot, inProgress, epochVars>>
  BY <1>5 DEF OneWorkerPerLiveTask, Unretired, IsCurrent, LiveGeneration
<1>6. ASSUME NEW u \in Users, BumpGeneration(u) \/ ClearAfterBump(u) \/ ClearPath(u)
      PROVE  OneWorkerPerLiveTask'
  <2>1. UNCHANGED <<slot, typeEpochs>> /\ generation' = generation + 1
    BY <1>6 DEF BumpGeneration, ClearAfterBump, ClearPath, ClearSet
  <2>2. ASSUME NEW s \in Slots PROVE ~Unretired(s)'
    <3>1. CASE slot[s] = Free
      BY <2>1, <3>1 DEF Unretired, Free
    <3>2. CASE slot[s] # Free
      <4>1. slot[s].task \in Tasks /\ slot[s].gen \in Nat
            /\ slot[s].gen <= LiveGeneration(TypeOf[slot[s].task])
        BY <3>2, SlotShape DEF NoneAheadOfLive
      <4> QED
        BY <2>1, <4>1 DEF Unretired, IsCurrent, LiveGeneration, TypeOK
    <3> QED
      BY <3>1, <3>2
  <2> QED
    BY <2>2 DEF OneWorkerPerLiveTask
<1>7. ASSUME NEW u \in Users, NEW ty \in Types, ClearTypeLocked(u, ty)
      PROVE  OneWorkerPerLiveTask'
  <2>1. /\ UNCHANGED <<slot, generation>>
        /\ typeEpochs' = [typeEpochs EXCEPT ![ty] = @ + 1]
        /\ inProgress' = inProgress \ {t \in Tasks : TypeOf[t] = ty}
    BY <1>7 DEF ClearTypeLocked
  <2>2. ASSUME NEW s \in Slots, Unretired(s)'
        PROVE  Unretired(s) /\ slot[s].task \in Tasks /\ TypeOf[slot[s].task] # ty
    <3>1. slot[s] # Free
      BY <2>1, <2>2 DEF Unretired, Free
    <3>2. slot[s].task \in Tasks /\ slot[s].gen \in Nat
          /\ slot[s].gen <= LiveGeneration(TypeOf[slot[s].task])
      BY <3>1, SlotShape DEF NoneAheadOfLive
    <3>3. TypeOf[slot[s].task] # ty
      BY <2>1, <2>2, <3>2 DEF Unretired, IsCurrent, LiveGeneration, TypeOK
    <3> QED
      BY <2>1, <2>2, <3>2, <3>3 DEF Unretired, IsCurrent, LiveGeneration, TypeOK
  <2> QED
    BY <2>1, <2>2 DEF OneWorkerPerLiveTask
<1> QED
  BY <1>1, <1>2, <1>3, <1>4, <1>5, <1>6, <1>7, StepKinds DEF QuietStep, Add

-----------------------------------------------------------------------------
(* Required work, phases and stale work.                                   *)

\* A required task stays in the batch and never counts as speculation.
LEMMA WantedIsKept ==
    ASSUME TypeOK, WantedTasksAreKept, [Next]_vars
    PROVE  WantedTasksAreKept'
<1>1. CASE ~QueueStep
  BY <1>1, OtherStepsKeepTheQueue DEF WantedTasksAreKept
<1>2. CASE \E s \in Slots : WaitTake(s)
  BY <1>2 DEF WaitTake, WantedTasksAreKept
<1>3. CASE \E s \in Slots : Complete(s)
  BY <1>3 DEF Complete, WantedTasksAreKept
<1>4. ASSUME NEW u \in Users, NEW t \in Tasks, NEW isPrecompile \in BOOLEAN,
             Add(u, t, isPrecompile)
      PROVE  WantedTasksAreKept'
  <2>1. /\ available' = available \cup {t} /\ t \notin inProgress \cup processed
        /\ UNCHANGED <<inProgress, processed>>
    BY <1>4 DEF Add
  <2>2. CASE isPrecompile
    <3>1. wanted' = wanted /\ (precompiles' = precompiles \/
             (precompiles' = precompiles \cup {t} /\ t \notin available))
      BY <1>4, <2>2 DEF Add
    <3> QED
      BY <2>1, <3>1 DEF WantedTasksAreKept
  <2>3. CASE ~isPrecompile
    <3>1. wanted' = wanted \cup {t} /\ precompiles' = precompiles \ {t}
      BY <1>4, <2>3 DEF Add
    <3> QED
      BY <2>1, <3>1 DEF WantedTasksAreKept
  <2> QED
    BY <2>2, <2>3
<1>5. ASSUME NEW u \in Users, NEW value \in BOOLEAN, SetBackgroundCompilation(u, value)
      PROVE  WantedTasksAreKept'
  BY <1>5 DEF SetBackgroundCompilation, WantedTasksAreKept
<1>6. ASSUME NEW u \in Users, ClearAfterBump(u) \/ ClearPath(u)
      PROVE  WantedTasksAreKept'
  BY <1>6 DEF ClearAfterBump, ClearPath, ClearSet, WantedTasksAreKept
<1>7. ASSUME NEW u \in Users, NEW ty \in Types, ClearTypeLocked(u, ty)
      PROVE  WantedTasksAreKept'
  BY <1>7 DEF ClearTypeLocked, WantedTasksAreKept
<1>8. ASSUME NEW u \in Users, NEW ids \in SUBSET Tasks, Forget(u, ids)
      PROVE  WantedTasksAreKept'
  BY <1>8 DEF Forget, WantedTasksAreKept
<1> QED
  BY <1>1, <1>2, <1>3, <1>4, <1>5, <1>6, <1>7, <1>8 DEF QueueStep

\* The phase variables move in a latch, at a phase's start, in a clear of the
\* set, and when a finished session is rearmed.
LEMMA PhaseSteps ==
    ASSUME [Next]_vars
    PROVE  \/ UNCHANGED phaseVars
           \/ LatchCompletion
           \/ \E ty, g : MarkPhaseStarted(ty, g)
           \/ ClearSet
           \/ finished' = FALSE /\ phaseStarted' = FALSE
<1>1. CASE UNCHANGED vars
  BY <1>1 DEF vars
<1>2. CASE Manager \/ Notify \/ Loader \/ (SpuriousWakeup /\ UNCHANGED requests)
  BY <1>2 DEF Manager, ManageCompilationSet, WaitBlocks, WaitTake, Notify, NotifyOne,
      Loader, DataLoadedReleased, DataLoadedTransitions, SpuriousWakeup
<1>3. CASE \E s \in Slots : Worker(s)
  BY <1>3 DEF Worker, BeginTask, StartSourceCompile, PerformReturns, Complete,
      WorkerNotifies, WorkerTransitions, ReleaseDispatchSlot
<1>4. CASE \E u \in Users : Caller(u)
  BY <1>4 DEF Caller, CallerNotifies, CallerTransitions, StopCompilation,
      ClearAfterBump, SynchronousCompile
<1>5. CASE \E u \in Users : Request(u)
  BY <1>5 DEF Request, Add, SetBackgroundCompilation, BumpGeneration, ClearPath,
      ClearTypeLocked, Forget, StopRequested, BeginSynchronousCompile
<1> QED
  BY <1>1, <1>2, <1>3, <1>4, <1>5 DEF Next

\* A running phase has been announced.
LEMMA PhasesAreKept ==
    ASSUME TypeOK, NoFalseCompletion, [Next]_vars
    PROVE  NoFalseCompletion'
<1>1. CASE UNCHANGED phaseVars
  BY <1>1 DEF NoFalseCompletion
<1>2. CASE LatchCompletion
  BY <1>2 DEF LatchCompletion, NoFalseCompletion
<1>3. CASE \E ty, g : MarkPhaseStarted(ty, g)
  BY <1>3 DEF MarkPhaseStarted, NoFalseCompletion
<1>4. CASE ClearSet
  BY <1>4 DEF ClearSet, NoFalseCompletion
<1>5. CASE finished' = FALSE /\ phaseStarted' = FALSE
  BY <1>5 DEF NoFalseCompletion
<1> QED
  BY <1>1, <1>2, <1>3, <1>4, <1>5, PhaseSteps

Clearing(u) == user[u].op = "clearing"

\* A clear under way stays under way until it empties the set.
LEMMA ClearsGoOn ==
    ASSUME TypeOK, [Next]_vars, NEW v \in Users, Clearing(v)
    PROVE  Clearing(v)' \/ ClearAfterBump(v)
<1> USE DEF Clearing
<1>1. CASE UNCHANGED vars
  BY <1>1 DEF vars
<1>2. CASE Manager \/ Notify \/ Loader \/ (SpuriousWakeup /\ UNCHANGED requests)
  BY <1>2 DEF Manager, ManageCompilationSet, WaitBlocks, WaitTake, Notify, NotifyOne,
      Loader, DataLoadedReleased, DataLoadedTransitions, SpuriousWakeup
<1>3. CASE \E s \in Slots : Worker(s)
  BY <1>3 DEF Worker, BeginTask, StartSourceCompile, PerformReturns, Complete,
      WorkerNotifies, WorkerTransitions, ReleaseDispatchSlot
<1>4. ASSUME NEW u \in Users, Caller(u) PROVE Clearing(v)' \/ ClearAfterBump(v)
  BY <1>4 DEF Caller, CallerNotifies, CallerTransitions, StopCompilation,
      ClearAfterBump, SynchronousCompile, Becomes, TypeOK
<1>5. ASSUME NEW u \in Users, Request(u) PROVE Clearing(v)'
  <2>1. user[u] = Idle
    BY <1>5 DEF Request, Add, SetBackgroundCompilation, BumpGeneration, ClearPath,
        ClearTypeLocked, Forget, StopRequested, BeginSynchronousCompile
  <2>2. u # v
    BY <2>1 DEF Idle
  <2>3. UNCHANGED user \/ \E op : user' = [user EXCEPT ![u] = op]
    BY <1>5 DEF Request, Add, SetBackgroundCompilation, BumpGeneration, ClearPath,
        ClearTypeLocked, Forget, StopRequested, BeginSynchronousCompile, Becomes
  <2> QED
    BY <2>2, <2>3 DEF TypeOK
<1> QED
  BY <1>1, <1>2, <1>3, <1>4, <1>5 DEF Next

\* Work that is not of the live generation is on its way out.
LEMMA StaleWorkIsKept ==
    ASSUME TypeOK, StaleWorkIsBeingCleared, [Next]_vars
    PROVE  StaleWorkIsBeingCleared'
<1> USE TasksHaveTypes
<1> DEFINE Stale == \E t \in available \cup inProgress : taskGen[t] # LiveGeneration(TypeOf[t])
           Held == \E u \in Users : Clearing(u)
<1>1. StaleWorkIsBeingCleared <=> (Stale => Held)
  BY DEF StaleWorkIsBeingCleared, Clearing
<1>2. StaleWorkIsBeingCleared' <=> (Stale' => Held')
  BY DEF StaleWorkIsBeingCleared, Clearing
<1>3. ASSUME Stale' => Stale, ~\E u \in Users : ClearAfterBump(u) PROVE Stale' => Held'
  BY <1>1, <1>3, ClearsGoOn
<1>4. ASSUME NEW u \in Users, ClearAfterBump(u) \/ ClearPath(u) PROVE ~Stale'
  BY <1>4 DEF ClearAfterBump, ClearPath, ClearSet
<1>5. ASSUME NEW u \in Users, BumpGeneration(u) PROVE Held'
  BY <1>5 DEF BumpGeneration, Becomes, Clearing, TypeOK
<1>6. ASSUME NEW u \in Users, NEW t \in Tasks, NEW isPrecompile \in BOOLEAN,
             Add(u, t, isPrecompile), Stale'
      PROVE  Stale
  <2>1. /\ available' = available \cup {t} /\ UNCHANGED <<inProgress, epochVars>>
        /\ IF t \notin available \cup inProgress \cup processed
           THEN taskGen' = [taskGen EXCEPT ![t] = LiveGeneration(TypeOf[t])]
           ELSE taskGen' = taskGen /\ t \in available
    BY <1>6 DEF Add
  <2>2. PICK r \in available' \cup inProgress' : taskGen'[r] # LiveGeneration(TypeOf[r])'
    BY <1>6
  <2>3. LiveGeneration(TypeOf[r])' = LiveGeneration(TypeOf[r])
    BY <2>1 DEF LiveGeneration
  <2>4. r \in available \cup inProgress /\ taskGen[r] = taskGen'[r]
    BY <2>1, <2>2, <2>3 DEF TypeOK
  <2> QED
    BY <2>2, <2>3, <2>4
<1>7. ASSUME NEW u \in Users, NEW ty \in Types, ClearTypeLocked(u, ty), Stale'
      PROVE  Stale
  <2>1. /\ available' = available \ {t \in Tasks : TypeOf[t] = ty}
        /\ inProgress' = inProgress \ {t \in Tasks : TypeOf[t] = ty}
        /\ UNCHANGED <<taskGen, generation>>
        /\ typeEpochs' = [typeEpochs EXCEPT ![ty] = @ + 1]
    BY <1>7 DEF ClearTypeLocked
  <2>2. PICK r \in available' \cup inProgress' : taskGen'[r] # LiveGeneration(TypeOf[r])'
    BY <1>7
  <2>3. r \in available \cup inProgress /\ TypeOf[r] # ty /\ TypeOf[r] \in Types
    BY <2>1, <2>2 DEF TypeOK
  <2> QED
    BY <2>1, <2>2, <2>3 DEF LiveGeneration, TypeOK
<1>8. ASSUME UNCHANGED <<taskGen, epochVars>>,
             available' \cup inProgress' \subseteq available \cup inProgress, Stale'
      PROVE  Stale
  BY <1>8 DEF LiveGeneration
<1>9. ASSUME NEW s \in Slots, WaitTake(s) \/ Complete(s), Stale' PROVE Stale
  <2>1. available' \cup inProgress' \subseteq available \cup inProgress
    BY <1>9 DEF WaitTake, Complete
  <2> QED
    BY <1>8, <1>9, <2>1 DEF WaitTake, Complete
<1>10. ASSUME NEW u \in Users, NEW value \in BOOLEAN, SetBackgroundCompilation(u, value), Stale'
       PROVE  Stale
  BY <1>8, <1>10 DEF SetBackgroundCompilation
<1>11. ASSUME NEW u \in Users, NEW ids \in SUBSET Tasks, Forget(u, ids), Stale' PROVE Stale
  BY <1>8, <1>11 DEF Forget
<1>12. ASSUME ~QueueStep, Stale' PROVE Stale \/ Held'
  <2>1. UNCHANGED queueVars
    BY <1>12, OtherStepsKeepTheQueue
  <2>2. UNCHANGED epochVars \/ \E u \in Users : BumpGeneration(u)
    <3>1. CASE QuietStep
      BY <3>1 DEF QuietStep
    <3>2. ASSUME NEW s \in Slots, MoveStep(s) \/ ReleaseDispatchSlot(s)
          PROVE  UNCHANGED epochVars
      BY <3>2 DEF MoveStep, ReleaseDispatchSlot
    <3> QED
      BY <1>12, <3>1, <3>2, StepKinds DEF QueueStep
  <2> QED
    BY <1>5, <1>8, <1>12, <2>1, <2>2
<1> HIDE DEF Stale, Held
<1>13. CASE \E u \in Users : ClearAfterBump(u) \/ ClearPath(u)
  BY <1>2, <1>4, <1>13
<1>14. CASE ~\E u \in Users : ClearAfterBump(u) \/ ClearPath(u)
  <2>1. Stale' => Stale \/ Held'
    BY <1>6, <1>7, <1>9, <1>10, <1>11, <1>12, <1>14 DEF QueueStep
  <2> QED
    BY <1>2, <1>3, <1>14, <2>1
<1> QED
  BY <1>13, <1>14

\* A closure of a past generation stays one until its slot is free again.
LEMMA PastStaysPast ==
    ASSUME TypeOK, NoneAheadOfLive, [Next]_vars, NEW s \in Slots,
           slot[s] # Free, ~IsCurrent(s)
    PROVE  slot'[s] = Free \/ ~IsCurrent(s)'
<1> USE TasksHaveTypes
<1> DEFINE t == slot[s].task
<1>1. t \in Tasks /\ TypeOf[t] \in Types /\ slot[s].gen \in Nat
      /\ slot[s] \in [stage : Stages \ {"free"}, task : Tasks, gen : Nat]
  BY SlotShape DEF TypeOK, SlotType
<1>2. slot[s].gen < LiveGeneration(TypeOf[t])
  BY <1>1, LiveIsNat DEF NoneAheadOfLive, IsCurrent
<1>3. /\ generation' + typeEpochs'[TypeOf[t]] \in Nat
      /\ LiveGeneration(TypeOf[t]) <= generation' + typeEpochs'[TypeOf[t]]
  <2>1. generation' = generation \/ generation' = generation + 1
    <3>1. ASSUME NEW r \in Slots, WaitTake(r) \/ MoveStep(r) \/ Complete(r) \/ ReleaseDispatchSlot(r)
          PROVE  generation' = generation
      BY <3>1 DEF WaitTake, MoveStep, Complete, ReleaseDispatchSlot
    <3> QED
      BY <3>1, StepKinds DEF QuietStep, Add, BumpGeneration, ClearAfterBump, ClearPath,
          ClearSet, ClearTypeLocked
  <2>2. typeEpochs' = typeEpochs \/ \E ty \in Types : typeEpochs' = [typeEpochs EXCEPT ![ty] = @ + 1]
    <3>1. ASSUME NEW r \in Slots, WaitTake(r) \/ MoveStep(r) \/ Complete(r) \/ ReleaseDispatchSlot(r)
          PROVE  typeEpochs' = typeEpochs
      BY <3>1 DEF WaitTake, MoveStep, Complete, ReleaseDispatchSlot
    <3> QED
      BY <3>1, StepKinds DEF QuietStep, Add, BumpGeneration, ClearAfterBump, ClearPath,
          ClearSet, ClearTypeLocked
  <2> QED
    BY <1>1, <2>1, <2>2 DEF LiveGeneration, TypeOK
<1>4. slot'[s] = Free \/ (slot'[s].task = t /\ slot'[s].gen = slot[s].gen)
  <2>1. ASSUME NEW r \in Slots, WaitTake(r) PROVE slot'[s] = slot[s]
    BY <2>1 DEF WaitTake, TypeOK
  <2>2. ASSUME NEW r \in Slots, NEW stage, MoveTo(r, stage)
        PROVE  slot'[s].task = t /\ slot'[s].gen = slot[s].gen
    BY <1>1, <2>2 DEF MoveTo, TypeOK
  <2>3. ASSUME NEW r \in Slots, MoveStep(r) \/ Complete(r)
        PROVE  slot'[s].task = t /\ slot'[s].gen = slot[s].gen
    BY <2>2, <2>3 DEF MoveStep, Complete
  <2>4. ASSUME NEW r \in Slots, ReleaseDispatchSlot(r)
        PROVE  slot'[s] = Free \/ slot'[s] = slot[s]
    BY <2>4 DEF ReleaseDispatchSlot, TypeOK
  <2>5. ASSUME UNCHANGED slot PROVE slot'[s] = slot[s]
    BY <2>5
  <2> QED
    BY <2>1, <2>3, <2>4, <2>5, StepKinds DEF QuietStep, Add, BumpGeneration,
        ClearAfterBump, ClearPath, ClearTypeLocked
<1>5. IsCurrent(s)' <=> slot'[s].gen = generation' + typeEpochs'[TypeOf[slot'[s].task]]
  BY DEF IsCurrent, LiveGeneration
<1> QED
  BY <1>1, <1>2, <1>3, <1>4, <1>5, LiveIsNat

-----------------------------------------------------------------------------
(* The theorems.                                                           *)

\* The invariant holds initially.
LEMMA InitEstablishes == Init => IInv
<1> SUFFICES ASSUME Init PROVE IInv
  OBVIOUS
<1>1. TypeOK
  BY DEF Init, TypeOK, SlotType, UserType, Ops, Free, Idle
<1>2. TasksAreAccountedFor
  BY FS_EmptySet DEF Init, TasksAreAccountedFor
<1>3. OneWorkerPerLiveTask
  BY DEF Init, OneWorkerPerLiveTask, Unretired, Free
<1>4. InFlightIsHonest
  <2>1. {s \in Slots : slot[s] # Free} = {}
    BY DEF Init
  <2> QED
    BY <2>1, FS_EmptySet DEF Init, InFlightIsHonest
<1>5. NoneAheadOfLive
  BY TasksHaveTypes DEF Init, NoneAheadOfLive, LiveGeneration
<1>6. WantedTasksAreKept /\ NoFalseCompletion /\ StaleWorkIsBeingCleared
  BY DEF Init, WantedTasksAreKept, NoFalseCompletion, StaleWorkIsBeingCleared
<1> QED
  BY <1>1, <1>2, <1>3, <1>4, <1>5, <1>6 DEF IInv

\* Every step preserves the invariant.
LEMMA StepPreserves == IInv /\ [Next]_vars => IInv'
<1> SUFFICES ASSUME IInv, [Next]_vars PROVE IInv'
  OBVIOUS
<1> USE DEF IInv
<1>1. TypeOK'
  <2>1. CASE UNCHANGED vars
    BY <2>1 DEF vars, TypeOK
  <2>2. CASE Next
    BY <2>2, ManagerKeepsType, WorkerKeepsType, CallerKeepsTypes, RequestKeepsTypes DEF Next
  <2> QED
    BY <2>1, <2>2
<1>2. TasksAreAccountedFor'
  BY AccountingIsKept
<1>3. OneWorkerPerLiveTask'
  BY WorkersAreKept
<1>4. InFlightIsHonest'
  BY CountIsKept
<1>5. NoneAheadOfLive'
  BY GenerationsAreKept
<1>6. WantedTasksAreKept' /\ NoFalseCompletion' /\ StaleWorkIsBeingCleared'
  BY WantedIsKept, PhasesAreKept, StaleWorkIsKept
<1> QED
  BY <1>1, <1>2, <1>3, <1>4, <1>5, <1>6

\* The invariant holds in every reachable state.
THEOREM InductiveInvariant == Spec => []IInv
  BY InitEstablishes, StepPreserves, PTL DEF Spec

\* The scheduler's state keeps its types: in particular no unsigned counter
\* of CompilationSet is ever decremented below zero.
THEOREM TypeCorrect == Spec => []TypeOK
<1>1. IInv => TypeOK
  BY DEF IInv
<1> QED
  BY <1>1, InductiveInvariant, PTL

\* totalTasks is always the number of tasks done, queued and running, so
\* IsCompiling is false exactly when nothing is left to do.
THEOREM EveryTaskIsAccountedFor == Spec => []TasksAreAccountedFor
<1>1. IInv => TasksAreAccountedFor
  BY DEF IInv
<1> QED
  BY <1>1, InductiveInvariant, PTL

\* A task of the live batch is never run by two workers, and a worker that
\* can still retire its task runs one the batch holds in progress.
THEOREM LiveTasksHaveOneWorker == Spec => []OneWorkerPerLiveTask
<1>1. IInv => OneWorkerPerLiveTask
  BY DEF IInv
<1> QED
  BY <1>1, InductiveInvariant, PTL

\* The throttle counts the closures the pool holds: the early path of a stale
\* or stopped task, an exception and a normal end give one slot back each.
THEOREM ThrottleIsExact == Spec => []InFlightIsHonest
<1>1. IInv => InFlightIsHonest
  BY DEF IInv
<1> QED
  BY <1>1, InductiveInvariant, PTL

\* What a draw has asked for stays in the batch until it is invalidated; no
\* switch to background mode takes it for speculation.
THEOREM RequiredWorkIsKept == Spec => []WantedTasksAreKept
<1>1. IInv => WantedTasksAreKept
  BY DEF IInv
<1> QED
  BY <1>1, InductiveInvariant, PTL

\* A completion is logged only for a phase whose start was logged.
THEOREM CompletionsAreAnnounced == Spec => []NoFalseCompletion
<1>1. IInv => NoFalseCompletion
  BY DEF IInv
<1> QED
  BY <1>1, InductiveInvariant, PTL

\* Work of a dead generation is in the batch only while the clear that killed
\* it is on its way to emptying the batch, so IsCompiling cannot hang on it.
THEOREM StaleWorkIsOnItsWayOut == Spec => []StaleWorkIsBeingCleared
<1>1. IInv => StaleWorkIsBeingCleared
  BY DEF IInv
<1> QED
  BY <1>1, InductiveInvariant, PTL

\* A closure that lost its generation never gets it back: no counter of a
\* later batch is touched by a worker of an earlier one.
THEOREM DeadGenerationsStayDead == Spec => GenerationsOnlyGrow
<1>1. IInv /\ [Next]_vars =>
        [\A s \in Slots :
            (slot[s] # Free /\ ~IsCurrent(s)) => (slot'[s] = Free \/ ~IsCurrent(s)')]_vars
  BY PastStaysPast DEF IInv
<1> QED
  BY <1>1, InductiveInvariant, PTL DEF Spec, GenerationsOnlyGrow
=============================================================================
