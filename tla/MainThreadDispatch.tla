------------------------- MODULE MainThreadDispatch -------------------------
(***************************************************************************)
(* The admission protocol between API callers on any thread and the        *)
(* callbacks SKSE's game-task queue runs on the game's main thread         *)
(* (Api/MainThreadDispatchState.h), its two entry points                   *)
(* (Api/DevBenchMainThreadDispatch.h, Api/ScreenshotService.cpp) and the   *)
(* thread identity they consult (Api/RuntimeThreadAffinity.cpp).           *)
(***************************************************************************)
EXTENDS Naturals, FiniteSets

CONSTANTS Calls,     \* the calls made to the dispatcher
          Threads,   \* the threads that call it or drain the task queue
          None

VARIABLES
    pc,       \* pc[c]: where the calling thread is inside the dispatch of c
    on,       \* on[c]: the thread that made call c
    phase,    \* phase[c]: MainThreadDispatchState::phase
    value,    \* value[c]: MainThreadDispatchState::result or ::error
    outcome,  \* outcome[c]: what the caller was told
    runs,     \* runs[c]: how often the handler of c was started (history)
    expired,  \* the calls whose deadline has passed
    handed,   \* the calls whose callback AddTask stored (history)
    queue,    \* the callbacks SKSE's queue holds
    body,     \* the callback the main thread is executing after TryBegin
    entered,  \* has that body passed EnterRuntimeMainThreadTask
    main,     \* the thread that drains SKSE's queue
    hosts,    \* the threads that have drained it (history)
    owner     \* RuntimeThreadAffinity::ownerThread

callVars == <<pc, on, outcome>>
stateVars == <<phase, value, runs>>
queueVars == <<handed, queue, body, entered>>
affinityVars == <<main, hosts, owner>>
vars == <<callVars, stateVars, queueVars, affinityVars, expired>>

Steps == {"idle", "inline", "inlineDone", "submitting", "rejecting",
          "waiting", "cancelling", "awaiting", "done"}
Results == {"result", "error"}
Refusals == {"unavailable", "rejected", "timeout"}
Outcomes == Results \cup Refusals \cup {"cancelledError"}

ASSUME NoneIsFresh == None \notin Calls \cup Threads \cup Outcomes \cup {"refused"}

TypeOK ==
    /\ pc \in [Calls -> Steps]
    /\ on \in [Calls -> Threads \cup {None}]
    /\ phase \in [Calls -> {"queued", "running", "cancelled", "completed"}]
    /\ value \in [Calls -> Results \cup {None}]
    /\ outcome \in [Calls -> Outcomes \cup {None}]
    /\ runs \in [Calls -> Nat]
    /\ expired \in SUBSET Calls
    /\ handed \in SUBSET Calls
    /\ queue \in SUBSET handed
    /\ body \in Calls \cup {None}
    /\ entered \in BOOLEAN /\ (entered => body # None)
    /\ main \in Threads
    /\ hosts \in SUBSET Threads
    /\ owner \in Threads \cup {None}

Init ==
    /\ pc = [c \in Calls |-> "idle"]
    /\ on = [c \in Calls |-> None]
    /\ phase = [c \in Calls |-> "queued"]
    /\ value = [c \in Calls |-> None]
    /\ outcome = [c \in Calls |-> None]
    /\ runs = [c \in Calls |-> 0]
    /\ expired = {}
    /\ handed = {} /\ queue = {}
    /\ body = None /\ entered = FALSE
    /\ main \in Threads /\ hosts = {}
    /\ owner = None

-----------------------------------------------------------------------------
(* Threads. A call blocks its thread, so a thread is inside one call at a   *)
(* time; the main thread can make one from the handler it is executing.     *)

Active(c) == pc[c] \notin {"idle", "done"}
Blocked(t) == \E c \in Calls : Active(c) /\ on[c] = t

GoTo(c, step) == pc' = [pc EXCEPT ![c] = step]
Return(c, told) ==
    /\ GoTo(c, "done")
    /\ outcome' = [outcome EXCEPT ![c] = told]

IsCurrentThread(t) == owner = t

-----------------------------------------------------------------------------
(* The caller.                                                              *)

\* RunDevBenchMainThreadTask: always goes through the queue.
RunDevBenchMainThreadTask(c, t) ==
    /\ pc[c] = "idle" /\ ~Blocked(t)
    /\ on' = [on EXCEPT ![c] = t]
    /\ \/ GoTo(c, "submitting") /\ UNCHANGED outcome
       \/ Return(c, "unavailable")       \* !a_tasks
    /\ UNCHANGED <<stateVars, queueVars, affinityVars, expired>>

\* HandleOnRuntimeMainThread: runs the handler in place on the owner thread.
HandleOnRuntimeMainThread(c, t) ==
    /\ pc[c] = "idle" /\ ~Blocked(t)
    /\ on' = [on EXCEPT ![c] = t]
    /\ \/ IsCurrentThread(t) /\ GoTo(c, "inline") /\ UNCHANGED outcome
       \/ ~IsCurrentThread(t) /\ GoTo(c, "submitting") /\ UNCHANGED outcome
       \/ ~IsCurrentThread(t) /\ Return(c, "unavailable")
    /\ UNCHANGED <<stateVars, queueVars, affinityVars, expired>>

InlineHandle(c) ==
    /\ pc[c] = "inline"
    /\ runs' = [runs EXCEPT ![c] = @ + 1]
    /\ GoTo(c, "inlineDone")
    /\ UNCHANGED <<on, outcome, phase, value, queueVars, affinityVars, expired>>

InlineReturn(c) ==
    /\ pc[c] = "inlineDone"
    /\ \E r \in Results : Return(c, r)
    /\ UNCHANGED <<on, stateVars, queueVars, affinityVars, expired>>

\* AddTask (external) stores the callback ...
AddTaskStores(c) ==
    /\ pc[c] = "submitting" /\ c \notin handed
    /\ handed' = handed \cup {c} /\ queue' = queue \cup {c}
    /\ UNCHANGED <<callVars, stateVars, body, entered, affinityVars, expired>>

\* ... and returns, or throws whether or not it has stored it.
AddTaskReturns(c) ==
    /\ pc[c] = "submitting" /\ c \in handed
    /\ GoTo(c, "waiting")
    /\ UNCHANGED <<on, outcome, stateVars, queueVars, affinityVars, expired>>

AddTaskThrows(c) ==
    /\ pc[c] = "submitting"
    /\ GoTo(c, "rejecting")
    /\ UNCHANGED <<on, outcome, stateVars, queueVars, affinityVars, expired>>

\* CancelIfQueued, then what its caller does when it wins or loses.
CancelIfQueued(c, refusal, otherwise) ==
    /\ IF phase[c] = "queued"
       THEN /\ phase' = [phase EXCEPT ![c] = "cancelled"]
            /\ Return(c, refusal)
       ELSE /\ GoTo(c, otherwise)
            /\ UNCHANGED <<phase, outcome>>
    /\ UNCHANGED <<on, value, runs, queueVars, affinityVars, expired>>

CancelAfterThrow(c) ==
    /\ pc[c] = "rejecting"
    /\ CancelIfQueued(c, "rejected", "waiting")

\* Mutant: the wait for admission has no deadline.
MutWaitUntil(c) ==
    /\ pc[c] = "waiting"
    /\ phase[c] # "queued" /\ GoTo(c, "awaiting")
    /\ UNCHANGED <<on, outcome, stateVars, queueVars, affinityVars, expired>>

\* WaitUntil returns when the phase left queued or the deadline passed.
WaitUntil(c) ==
    /\ pc[c] = "waiting"
    /\ \/ phase[c] # "queued" /\ GoTo(c, "awaiting")
       \/ phase[c] = "queued" /\ c \in expired /\ GoTo(c, "cancelling")
    /\ UNCHANGED <<on, outcome, stateVars, queueVars, affinityVars, expired>>

CancelAfterDeadline(c) ==
    /\ pc[c] = "cancelling"
    /\ CancelIfQueued(c, "timeout", "awaiting")

WaitForCompletion(c) ==
    /\ pc[c] = "awaiting"
    /\ phase[c] \in {"completed", "cancelled"}
    /\ Return(c, IF value[c] # None THEN value[c] ELSE "cancelledError")
    /\ UNCHANGED <<on, stateVars, queueVars, affinityVars, expired>>

DeadlinePasses(c) ==
    /\ Active(c) /\ c \notin expired
    /\ expired' = expired \cup {c}
    /\ UNCHANGED <<callVars, stateVars, queueVars, affinityVars>>

-----------------------------------------------------------------------------
(* The main thread, draining SKSE's queue (external) callback by callback.  *)

\* Mutant: the callback begins without asking for admission.
MutTryBegin(c) ==
    /\ c \in queue /\ body = None /\ ~Blocked(main)
    /\ queue' = queue \ {c}
    /\ phase' = [phase EXCEPT ![c] = "running"]
    /\ body' = c /\ entered' = FALSE
    /\ hosts' = hosts \cup {main}
    /\ UNCHANGED <<callVars, value, runs, handed, main, owner, expired>>

\* The callback's first statement: TryBegin, or return.
TryBegin(c) ==
    /\ c \in queue /\ body = None /\ ~Blocked(main)
    /\ queue' = queue \ {c}
    /\ IF phase[c] = "queued"
       THEN /\ phase' = [phase EXCEPT ![c] = "running"]
            /\ body' = c /\ entered' = FALSE
       ELSE UNCHANGED <<phase, body, entered>>
    /\ hosts' = hosts \cup {main}
    /\ UNCHANGED <<callVars, value, runs, handed, main, owner, expired>>

\* Mutant: the first thread ever bound keeps the identity (BindCurrentThread).
MutEnterRuntimeMainThreadTask ==
    /\ body # None /\ ~entered /\ ~Blocked(main)
    /\ owner' = (IF owner = None THEN main ELSE owner) /\ entered' = TRUE
    /\ runs' = [runs EXCEPT ![body] = @ + 1]
    /\ UNCHANGED <<callVars, phase, value, handed, queue, body, main, hosts, expired>>

\* The handler starts: AdoptCurrentThreadFromTaskQueue, then run().
EnterRuntimeMainThreadTask ==
    /\ body # None /\ ~entered /\ ~Blocked(main)
    /\ owner' = main /\ entered' = TRUE
    /\ runs' = [runs EXCEPT ![body] = @ + 1]
    /\ UNCHANGED <<callVars, phase, value, handed, queue, body, main, hosts, expired>>

\* Complete or Fail.
Complete(r) ==
    /\ body # None /\ entered /\ ~Blocked(main)
    /\ value' = [value EXCEPT ![body] = r]
    /\ phase' = [phase EXCEPT ![body] = "completed"]
    /\ body' = None /\ entered' = FALSE
    /\ UNCHANGED <<callVars, runs, handed, queue, affinityVars, expired>>

\* The callback of ScheduleRuntimeMainThreadBinding.
ScheduledBinding ==
    /\ body = None /\ ~Blocked(main)
    /\ owner' = main /\ hosts' = hosts \cup {main}
    /\ UNCHANGED <<callVars, stateVars, queueVars, main, expired>>

\* The game moves its main loop to another thread between two callbacks.
ThreadTransition(t) ==
    /\ t # main /\ body = None /\ ~Blocked(main) /\ ~Blocked(t)
    /\ main' = t
    /\ UNCHANGED <<callVars, stateVars, queueVars, hosts, owner, expired>>

-----------------------------------------------------------------------------
CallStep(c) ==
    \/ InlineHandle(c) \/ InlineReturn(c)
    \/ AddTaskStores(c) \/ AddTaskReturns(c) \/ AddTaskThrows(c)
    \/ CancelAfterThrow(c) \/ WaitUntil(c) \/ CancelAfterDeadline(c)
    \/ WaitForCompletion(c)

MainStep ==
    \/ \E c \in Calls : TryBegin(c)
    \/ EnterRuntimeMainThreadTask
    \/ \E r \in Results : Complete(r)
    \/ ScheduledBinding
    \/ \E t \in Threads : ThreadTransition(t)

Next ==
    \/ \E c \in Calls : CallStep(c) \/ DeadlinePasses(c)
    \/ \E c \in Calls, t \in Threads :
          RunDevBenchMainThreadTask(c, t) \/ HandleOnRuntimeMainThread(c, t)
    \/ MainStep

Spec == Init /\ [][Next]_vars

\* Callers are scheduled, clocks advance and a started handler ends. Nothing
\* makes the game drain the queue: a paused game does not.
FairSpec ==
    /\ Spec
    /\ \A c \in Calls : WF_vars(CallStep(c)) /\ WF_vars(DeadlinePasses(c))
    /\ WF_vars(EnterRuntimeMainThreadTask)
    /\ WF_vars(\E r \in Results : Complete(r))

-----------------------------------------------------------------------------
(* A caller told "rejected", "timeout" or "unavailable" may retry: the      *)
(* handler of that call has not run and never will, even if the queue still *)
(* holds its callback. One told a result got that of exactly one complete   *)
(* run of its own handler (MainThreadDispatchState.h, CancelIfQueued        *)
(* against TryBegin; screenshot clients retry on "retryable").              *)
ReplyMatchesExecution == \A c \in Calls :
    /\ outcome[c] \in Refusals => runs[c] = 0
    /\ outcome[c] \in Results => runs[c] = 1 /\ body # c
    /\ runs[c] <= 1

(* WaitForCompletion's "runtime-main dispatch was cancelled" is never what  *)
(* a caller of DispatchMainThreadTask is told: only the caller cancels, and *)
(* after a cancellation it does not wait.                                   *)
NoSpuriousCancellation == \A c \in Calls : outcome[c] # "cancelledError"

(* The thread that IsRuntimeMainThread() accepts has drained the task       *)
(* queue, and while a handler body runs it is the thread running it, across *)
(* transitions of the queue to another thread.                              *)
OwnerComesFromTaskQueue ==
    /\ owner \in hosts \cup {None}
    /\ body # None /\ entered => owner = main

(* No call blocks its thread for good: not when the game stops draining the *)
(* queue, not when the submission throws, not when the call is made by the  *)
(* main thread itself from inside a handler.                                *)
EveryCallReturns == \A c \in Calls : Active(c) ~> pc[c] = "done"

(* What the dispatcher's state says of the contract's. A call is decided    *)
(* where its phase leaves queued, or where it runs its handler in place.    *)
VerdictOf(c) ==
    IF \/ pc[c] \in {"inline", "inlineDone"}
       \/ phase[c] \in {"running", "completed"}
       \/ outcome[c] \in Results
    THEN "admitted"
    ELSE IF outcome[c] \in Refusals THEN "refused" ELSE "open"
ProducedOf(c) == IF outcome[c] \in Results THEN outcome[c] ELSE value[c]
ReplyOf(c) == IF outcome[c] \in Refusals THEN "refused" ELSE outcome[c]

Verdict == [c \in Calls |-> VerdictOf(c)]
Produced == [c \in Calls |-> ProducedOf(c)]
Reply == [c \in Calls |-> ReplyOf(c)]

Contract == INSTANCE DispatchContract WITH
    verdict <- Verdict, executions <- runs, produced <- Produced, reply <- Reply

(* Each call is decided once; an admitted handler runs exactly once and its  *)
(* own result is the reply; a refused handler never runs.                    *)
ContractSpec == Contract!ASpec
=============================================================================
