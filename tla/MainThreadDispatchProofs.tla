---------------------- MODULE MainThreadDispatchProofs ----------------------
(***************************************************************************)
(* For any sets of calls and threads: the dispatcher tells every caller    *)
(* what happened to its handler, and it implements DispatchContract.       *)
(***************************************************************************)
EXTENDS MainThreadDispatch, TLAPS

Waiting == {"submitting", "rejecting", "waiting", "cancelling", "awaiting"}

(* What a call's place in the dispatcher says of its shared state. The      *)
(* phase is the single point of decision: once it is cancelled the caller   *)
(* has returned and the callback cannot begin; once it is running only the  *)
(* body can change it.                                                      *)
CallInv(c) ==
    /\ pc[c] \in {"idle", "inline"} => runs[c] = 0 /\ phase[c] = "queued" /\ c \notin handed
    /\ pc[c] = "inlineDone" => runs[c] = 1 /\ phase[c] = "queued" /\ c \notin handed
    /\ pc[c] \in Waiting => phase[c] # "cancelled" /\ (phase[c] = "queued" => runs[c] = 0)
    /\ pc[c] = "awaiting" => phase[c] \in {"running", "completed"}
    /\ pc[c] = "done" <=> outcome[c] # None
    /\ outcome[c] # "cancelledError"
    /\ outcome[c] \in Results =>
         \/ phase[c] = "completed" /\ value[c] = outcome[c]
         \/ phase[c] = "queued" /\ c \notin handed /\ runs[c] = 1 /\ value[c] = None
    /\ outcome[c] \in Refusals =>
         /\ runs[c] = 0
         /\ phase[c] = "cancelled" \/ (phase[c] = "queued" /\ c \notin handed)
    /\ phase[c] = "cancelled" => outcome[c] \in Refusals
    /\ phase[c] = "running" <=> body = c
    /\ phase[c] = "running" => runs[c] = IF entered THEN 1 ELSE 0
    /\ phase[c] = "completed" => runs[c] = 1 /\ value[c] \in Results
    /\ phase[c] # "completed" => value[c] = None
    /\ phase[c] \in {"running", "completed"} => pc[c] \in Waiting \cup {"done"}

AffinityInv ==
    /\ owner \in hosts \cup {None}
    /\ body # None => main \in hosts
    /\ entered => owner = main

IInv == TypeOK /\ AffinityInv /\ \A c \in Calls : CallInv(c)

\* The invariant holds initially.
LEMMA InitIInv == Init => IInv
<1> SUFFICES ASSUME Init PROVE IInv
  OBVIOUS
<1> USE NoneIsFresh DEF Init, Results, Refusals, Outcomes
<1>1. TypeOK
  BY DEF TypeOK, Steps
<1>2. AffinityInv
  BY DEF AffinityInv
<1>3. ASSUME NEW c \in Calls PROVE CallInv(c)
  BY DEF CallInv, Waiting
<1> QED
  BY <1>1, <1>2, <1>3 DEF IInv

\* Every step preserves the invariant.
LEMMA StepIInv == IInv /\ [Next]_vars => IInv'
<1> SUFFICES ASSUME IInv, [Next]_vars PROVE IInv'
  OBVIOUS
<1> USE NoneIsFresh DEF IInv, TypeOK, AffinityInv, CallInv, Steps, Results, Refusals,
        Outcomes, Waiting, callVars, stateVars, queueVars, affinityVars, GoTo, Return
<1>1. ASSUME NEW c \in Calls, NEW t \in Threads, RunDevBenchMainThreadTask(c, t)
      PROVE IInv'
  BY <1>1 DEF RunDevBenchMainThreadTask
<1>2. ASSUME NEW c \in Calls, NEW t \in Threads, HandleOnRuntimeMainThread(c, t)
      PROVE IInv'
  BY <1>2 DEF HandleOnRuntimeMainThread
<1>3. ASSUME NEW c \in Calls, InlineHandle(c) PROVE IInv'
  BY <1>3 DEF InlineHandle
<1>4. ASSUME NEW c \in Calls, InlineReturn(c) PROVE IInv'
  BY <1>4 DEF InlineReturn
<1>5. ASSUME NEW c \in Calls, AddTaskStores(c) PROVE IInv'
  BY <1>5 DEF AddTaskStores
<1>6. ASSUME NEW c \in Calls, AddTaskReturns(c) PROVE IInv'
  BY <1>6 DEF AddTaskReturns
<1>7. ASSUME NEW c \in Calls, AddTaskThrows(c) PROVE IInv'
  BY <1>7 DEF AddTaskThrows
<1>8. ASSUME NEW c \in Calls, CancelAfterThrow(c) PROVE IInv'
  BY <1>8 DEF CancelAfterThrow, CancelIfQueued
<1>9. ASSUME NEW c \in Calls, WaitUntil(c) PROVE IInv'
  BY <1>9 DEF WaitUntil
<1>10. ASSUME NEW c \in Calls, CancelAfterDeadline(c) PROVE IInv'
  BY <1>10 DEF CancelAfterDeadline, CancelIfQueued
<1>11. ASSUME NEW c \in Calls, WaitForCompletion(c) PROVE IInv'
  BY <1>11 DEF WaitForCompletion
<1>12. ASSUME NEW c \in Calls, DeadlinePasses(c) PROVE IInv'
  BY <1>12 DEF DeadlinePasses
<1>13. ASSUME NEW c \in Calls, TryBegin(c) PROVE IInv'
  <2>1. TypeOK'
    <3>1. queue' \in SUBSET handed'
      BY <1>13 DEF TryBegin
    <3>2. hosts' \in SUBSET Threads
      BY <1>13 DEF TryBegin
    <3>3. CASE phase[c] = "queued"
      <4>1. phase' \in [Calls -> {"queued", "running", "cancelled", "completed"}]
        BY <1>13, <3>3 DEF TryBegin
      <4>2. body' \in Calls /\ entered' = FALSE
        BY <1>13, <3>3 DEF TryBegin
      <4> QED
        BY <1>13, <3>1, <3>2, <4>1, <4>2 DEF TryBegin
    <3>4. CASE phase[c] # "queued"
      BY <1>13, <3>1, <3>2, <3>4 DEF TryBegin
    <3> QED
      BY <3>3, <3>4
  <2>2. AffinityInv'
    BY <1>13 DEF TryBegin
  <2>3. ASSUME NEW d \in Calls PROVE CallInv(d)'
    BY <1>13 DEF TryBegin
  <2> QED
    BY <2>1, <2>2, <2>3 DEF IInv
<1>14. CASE EnterRuntimeMainThreadTask
  BY <1>14 DEF EnterRuntimeMainThreadTask
<1>15. ASSUME NEW r \in Results, Complete(r) PROVE IInv'
  <2>1. TypeOK'
    BY <1>15 DEF Complete
  <2>2. AffinityInv'
    BY <1>15 DEF Complete
  <2>3. ASSUME NEW d \in Calls PROVE CallInv(d)'
    BY <1>15 DEF Complete
  <2> QED
    BY <2>1, <2>2, <2>3 DEF IInv
<1>16. CASE ScheduledBinding
  BY <1>16 DEF ScheduledBinding
<1>17. ASSUME NEW t \in Threads, ThreadTransition(t) PROVE IInv'
  BY <1>17 DEF ThreadTransition
<1>18. CASE UNCHANGED vars
  BY <1>18 DEF vars
<1> QED
  BY <1>1, <1>2, <1>3, <1>4, <1>5, <1>6, <1>7, <1>8, <1>9, <1>10, <1>11, <1>12,
     <1>13, <1>14, <1>15, <1>16, <1>17, <1>18 DEF Next, CallStep, MainStep

\* The invariant holds in every reachable state.
LEMMA Inductive == Spec => []IInv
<1>1. Init => IInv
  BY InitIInv
<1>2. IInv /\ [Next]_vars => IInv'
  BY StepIInv
<1> QED
  BY <1>1, <1>2, PTL DEF Spec

\* The dispatcher's variables keep their types.
THEOREM TypeCorrect == Spec => []TypeOK
BY Inductive, PTL DEF IInv

\* A refusal means the handler has not run and never will; a result is that
\* of exactly one run of the caller's own handler.
THEOREM RepliesAreTrue == Spec => []ReplyMatchesExecution
<1>1. IInv => ReplyMatchesExecution
  <2> SUFFICES ASSUME IInv, NEW c \in Calls
               PROVE /\ outcome[c] \in Refusals => runs[c] = 0
                     /\ outcome[c] \in Results => runs[c] = 1 /\ body # c
                     /\ runs[c] <= 1
    BY DEF ReplyMatchesExecution
  <2>1. outcome[c] \in Results => runs[c] = 1 /\ body # c
    BY DEF IInv, CallInv
  <2>2. runs[c] <= 1
    BY NoneIsFresh DEF IInv, TypeOK, CallInv, Outcomes, Waiting, Steps
  <2> QED
    BY <2>1, <2>2 DEF IInv, CallInv
<1> QED
  BY Inductive, <1>1, PTL

\* No caller is told that its call was cancelled behind its back.
THEOREM NeverCancelledBehindItsBack == Spec => []NoSpuriousCancellation
<1>1. IInv => NoSpuriousCancellation
  BY DEF IInv, CallInv, NoSpuriousCancellation
<1> QED
  BY Inductive, <1>1, PTL

\* The identity IsRuntimeMainThread() accepts always comes from the queue.
THEOREM AffinityFollowsTheQueue == Spec => []OwnerComesFromTaskQueue
<1>1. IInv => OwnerComesFromTaskQueue
  BY DEF IInv, AffinityInv, OwnerComesFromTaskQueue
<1> QED
  BY Inductive, <1>1, PTL

-----------------------------------------------------------------------------
(* Refinement. Only the steps that decide, start, finish or answer a call    *)
(* change what the contract sees; every other step stutters.                 *)

\* Initial states map to initial states of the contract.
LEMMA InitRefines == Init => Contract!AInit
<1> SUFFICES ASSUME Init PROVE Contract!AInit
  OBVIOUS
<1>1. ASSUME NEW c \in Calls
      PROVE VerdictOf(c) = "open" /\ ProducedOf(c) = None /\ ReplyOf(c) = None
  BY NoneIsFresh DEF Init, VerdictOf, ProducedOf, ReplyOf, Results, Refusals, Outcomes
<1> QED
  BY <1>1 DEF Init, Contract!AInit, Verdict, Produced, Reply

\* What the contract sees of call c, and that a step leaves it alone.
Same(c) ==
    /\ VerdictOf(c)' = VerdictOf(c)
    /\ ProducedOf(c)' = ProducedOf(c)
    /\ ReplyOf(c)' = ReplyOf(c)

AVars == <<Verdict, runs, Produced, Reply>>

\* A step that moves no call is a stutter of the contract.
LEMMA NoneChanges ==
  ASSUME runs' = runs, \A c \in Calls : Same(c)
  PROVE  UNCHANGED AVars
BY DEF Same, AVars, Verdict, Produced, Reply

\* A step that moves one call moves that call in the contract.
LEMMA OneChanges ==
  ASSUME NEW c \in Calls, \A d \in Calls \ {c} : Same(d)
  PROVE  /\ Verdict' = [Verdict EXCEPT ![c] = VerdictOf(c)']
         /\ Produced' = [Produced EXCEPT ![c] = ProducedOf(c)']
         /\ Reply' = [Reply EXCEPT ![c] = ReplyOf(c)']
         /\ Verdict[c] = VerdictOf(c) /\ Produced[c] = ProducedOf(c) /\ Reply[c] = ReplyOf(c)
         /\ VerdictOf(c)' = VerdictOf(c) => Verdict' = Verdict
         /\ ProducedOf(c)' = ProducedOf(c) => Produced' = Produced
         /\ ReplyOf(c)' = ReplyOf(c) => Reply' = Reply
BY DEF Same, Verdict, Produced, Reply

\* Admit is a step of the contract or a stutter.
LEMMA AdmitRefines ==
  ASSUME NEW c \in Calls, \A d \in Calls \ {c} : Same(d), runs' = runs,
         VerdictOf(c) = "open", VerdictOf(c)' = "admitted",
         ProducedOf(c)' = ProducedOf(c), ReplyOf(c)' = ReplyOf(c)
  PROVE  Contract!AAdmit(c)
BY OneChanges DEF Contract!AAdmit

\* Refuse is a step of the contract or a stutter.
LEMMA RefuseRefines ==
  ASSUME NEW c \in Calls, \A d \in Calls \ {c} : Same(d), runs' = runs,
         VerdictOf(c) = "open", VerdictOf(c)' = "refused",
         ProducedOf(c)' = ProducedOf(c), ReplyOf(c)' = "refused"
  PROVE  Contract!ARefuse(c)
BY OneChanges DEF Contract!ARefuse

\* Start is a step of the contract or a stutter.
LEMMA StartRefines ==
  ASSUME NEW c \in Calls, \A d \in Calls : Same(d),
         VerdictOf(c) = "admitted", runs[c] = 0, runs' = [runs EXCEPT ![c] = 1]
  PROVE  Contract!AStart(c)
BY OneChanges DEF Contract!AStart, Same

\* Finish is a step of the contract or a stutter.
LEMMA FinishRefines ==
  ASSUME NEW c \in Calls, NEW r \in Results, \A d \in Calls \ {c} : Same(d), runs' = runs,
         VerdictOf(c)' = VerdictOf(c), runs[c] = 1,
         ProducedOf(c) = None, ProducedOf(c)' = r, ReplyOf(c)' \in {ReplyOf(c), r}
  PROVE  Contract!AFinish(c, r)
BY OneChanges DEF Contract!AFinish

\* Reply is a step of the contract or a stutter.
LEMMA ReplyRefines ==
  ASSUME NEW c \in Calls, \A d \in Calls \ {c} : Same(d), runs' = runs,
         VerdictOf(c)' = VerdictOf(c), ProducedOf(c)' = ProducedOf(c),
         ProducedOf(c) # None, ReplyOf(c) = None, ReplyOf(c)' = ProducedOf(c)
  PROVE  Contract!AReply(c)
BY OneChanges DEF Contract!AReply

\* Every step is a step of the contract or a stutter.
LEMMA StepRefines ==
  IInv /\ [Next]_vars => [Contract!ANext]_(Contract!avars)
<1> SUFFICES ASSUME IInv, [Next]_vars
             PROVE  Contract!ANext \/ UNCHANGED AVars
  BY DEF Contract!avars, AVars
<1> USE NoneIsFresh DEF IInv, TypeOK, CallInv, Steps, Results, Refusals, Outcomes, Waiting,
        callVars, stateVars, queueVars, affinityVars, GoTo, Return
<1> DEFINE Quiet == UNCHANGED AVars
<1>1. ASSUME NEW c \in Calls, NEW t \in Threads, RunDevBenchMainThreadTask(c, t)
      PROVE Contract!ARefuse(c) \/ Quiet
  BY <1>1, RefuseRefines, NoneChanges
     DEF RunDevBenchMainThreadTask, Same, VerdictOf, ProducedOf, ReplyOf
<1>2. ASSUME NEW c \in Calls, NEW t \in Threads, HandleOnRuntimeMainThread(c, t)
      PROVE Contract!AAdmit(c) \/ Contract!ARefuse(c) \/ Quiet
  BY <1>2, AdmitRefines, RefuseRefines, NoneChanges
     DEF HandleOnRuntimeMainThread, Same, VerdictOf, ProducedOf, ReplyOf
<1>3. ASSUME NEW c \in Calls, InlineHandle(c) PROVE Contract!AStart(c)
  <2>1. runs[c] = 0 /\ runs' = [runs EXCEPT ![c] = 1]
    <3>1. runs[c] = 0
      BY <1>3 DEF InlineHandle
    <3>2. runs' = [runs EXCEPT ![c] = runs[c] + 1]
      BY <1>3 DEF InlineHandle
    <3>3. runs[c] + 1 = 1
      BY <3>1
    <3> QED
      BY ONLY <3>1, <3>2, <3>3
  <2>2. VerdictOf(c) = "admitted" /\ \A d \in Calls : Same(d)
    BY <1>3 DEF InlineHandle, Same, VerdictOf, ProducedOf, ReplyOf
  <2> QED
    BY <2>1, <2>2, StartRefines
<1>4. ASSUME NEW c \in Calls, InlineReturn(c) PROVE \E r \in Results : Contract!AFinish(c, r)
  <2>1. PICK r \in Results : Return(c, r)
    BY <1>4 DEF InlineReturn
  <2>2. Contract!AFinish(c, r)
    BY <1>4, <2>1, FinishRefines DEF InlineReturn, Same, VerdictOf, ProducedOf, ReplyOf
  <2> QED
    BY <2>2
<1>5. ASSUME NEW c \in Calls,
             \/ AddTaskStores(c) \/ AddTaskReturns(c) \/ AddTaskThrows(c)
             \/ WaitUntil(c) \/ DeadlinePasses(c)
      PROVE Quiet
  BY <1>5, NoneChanges DEF AddTaskStores, AddTaskReturns, AddTaskThrows, WaitUntil,
     DeadlinePasses, Same, VerdictOf, ProducedOf, ReplyOf
<1>6. ASSUME NEW c \in Calls, CancelAfterThrow(c) \/ CancelAfterDeadline(c)
      PROVE Contract!ARefuse(c) \/ Quiet
  BY <1>6, RefuseRefines, NoneChanges
     DEF CancelAfterThrow, CancelAfterDeadline, CancelIfQueued, Same, VerdictOf, ProducedOf, ReplyOf
<1>7. ASSUME NEW c \in Calls, WaitForCompletion(c) PROVE Contract!AReply(c)
  BY <1>7, ReplyRefines DEF WaitForCompletion, Same, VerdictOf, ProducedOf, ReplyOf
<1>8. ASSUME NEW c \in Calls, TryBegin(c) PROVE Contract!AAdmit(c) \/ Quiet
  BY <1>8, AdmitRefines, NoneChanges DEF TryBegin, Same, VerdictOf, ProducedOf, ReplyOf
<1>9. CASE EnterRuntimeMainThreadTask
  <2>1. PICK c \in Calls : c = body
    BY <1>9 DEF EnterRuntimeMainThreadTask
  <2>2. runs[c] = 0 /\ runs' = [runs EXCEPT ![c] = 1]
    <3>1. runs[c] = 0
      BY <1>9, <2>1 DEF EnterRuntimeMainThreadTask
    <3>2. runs' = [runs EXCEPT ![c] = runs[c] + 1]
      BY <1>9, <2>1 DEF EnterRuntimeMainThreadTask
    <3>3. runs[c] + 1 = 1
      BY <3>1
    <3> QED
      BY ONLY <3>1, <3>2, <3>3
  <2>3. VerdictOf(c) = "admitted" /\ \A d \in Calls : Same(d)
    BY <1>9, <2>1 DEF EnterRuntimeMainThreadTask, Same, VerdictOf, ProducedOf, ReplyOf
  <2>4. Contract!AStart(c)
    BY <2>2, <2>3, StartRefines
  <2> QED
    BY <2>4 DEF Contract!ANext
<1>10. ASSUME NEW r \in Results, Complete(r) PROVE Contract!ANext
  <2>1. PICK c \in Calls : c = body
    BY <1>10 DEF Complete
  <2>2. \A d \in Calls \ {c} : Same(d)
    BY <1>10, <2>1 DEF Complete, Same, VerdictOf, ProducedOf, ReplyOf
  <2>3. /\ runs' = runs /\ runs[c] = 1
        /\ VerdictOf(c)' = VerdictOf(c) /\ ReplyOf(c)' = ReplyOf(c)
        /\ ProducedOf(c) = None /\ ProducedOf(c)' = r
    BY <1>10, <2>1 DEF Complete, VerdictOf, ProducedOf, ReplyOf
  <2>4. Contract!AFinish(c, r)
    BY <2>2, <2>3, FinishRefines
  <2> QED
    BY <2>4 DEF Contract!ANext
<1>11. ASSUME ScheduledBinding \/ (\E t \in Threads : ThreadTransition(t)) \/ UNCHANGED vars
       PROVE Quiet
  BY <1>11, NoneChanges DEF ScheduledBinding, ThreadTransition, vars, Same, VerdictOf, ProducedOf, ReplyOf
<1> QED
  BY <1>1, <1>2, <1>3, <1>4, <1>5, <1>6, <1>7, <1>8, <1>9, <1>10, <1>11
     DEF Next, CallStep, MainStep, Contract!ANext

\* The dispatcher implements its contract: one decision per call, an admitted
\* handler runs once and answers its caller, a refused one never runs.
THEOREM ImplementsContract == Spec => ContractSpec
<1>1. Init => Contract!AInit
  BY InitRefines
<1>2. IInv /\ [Next]_vars => [Contract!ANext]_(Contract!avars)
  BY StepRefines
<1> QED
  BY <1>1, <1>2, Inductive, PTL DEF Spec, ContractSpec, Contract!ASpec

=============================================================================
