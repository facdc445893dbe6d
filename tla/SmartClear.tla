----------------------------- MODULE SmartClear -----------------------------
(***************************************************************************)
(* Smart clear (ShaderCacheSmartClear.cpp): the main thread notes which    *)
(* shaders a scene looks up during a window of frames and then clears      *)
(* these alone, while the pool goes on compiling and no generation moves.  *)
(* A second window, once the menu is closed, catches what the menu hid.    *)
(*                                                                         *)
(* The other threads, and the map they share, are those of ShaderClaims.   *)
(* How many frames a window lasts is left open; the files it removes are   *)
(* DeferredPersistence's, and the shaders of features are in no map.       *)
(***************************************************************************)
EXTENDS ShaderClaims

CONSTANT MaxResets      \* bound: captures and clears by the main thread

VARIABLES
    stage,          \* activeShaderCaptureStage
    captured,       \* capturedShaders
    cleared,        \* clearedThisCaptureCycle
    erased,         \* clearedBytecodeThisCaptureCycle
    smart,          \* ClearActive: where it is, its entries, the current one, taskIds
    captures

capture == <<stage, captured, cleared, erased, smart, captures>>
allVars == <<vars, capture>>

NotClearing == [pc |-> "idle", entries |-> {}, task |-> NoTask, taskIds |-> {}]

SmartInit ==
    /\ Init
    /\ stage = "Idle" /\ captured = {} /\ cleared = {} /\ erased = {}
    /\ smart = NotClearing /\ captures = 0

MainIsFree == th[Main].pc = "idle" /\ smart.pc = "idle"
IsCapturing == stage \in {"FirstWindow", "SecondWindow"}
-----------------------------------------------------------------------------
(* The capture.                                                            *)

BeginActiveShaderCapture ==
    /\ MainIsFree /\ stage = "Idle" /\ captures + clears < MaxResets
    /\ stage' = "FirstWindow" /\ captures' = captures + 1
    /\ captured' = {} /\ cleared' = {} /\ erased' = {}
    /\ UNCHANGED <<vars, smart>>

\* A lookup by the capturing thread.  What it goes on to ask for is Request or
\* Draw, or nothing; those of the threads that load in bulk are not captured.
TrackActiveShader(t) ==
    /\ MainIsFree /\ IsCapturing
    /\ captured' = captured \cup {t}
    /\ UNCHANGED <<vars, stage, cleared, erased, smart, captures>>

\* Frames end on another thread than the capture began on: the window restarts.
Rebind ==
    /\ MainIsFree /\ IsCapturing
    /\ captured' = {}
    /\ UNCHANGED <<vars, stage, cleared, erased, smart, captures>>

\* TickActiveShaderCapture, at the end of a window: ClearActive begins.
WindowExpires ==
    /\ MainIsFree /\ IsCapturing
    /\ captured' = {}
    /\ smart' = [NotClearing EXCEPT !.pc = "checking", !.entries = captured \ cleared]
    /\ UNCHANGED <<vars, stage, cleared, erased, captures>>

MenuCloses ==
    /\ MainIsFree /\ stage = "AwaitingMenuClose"
    /\ stage' = "SecondWindow" /\ captured' = {}
    /\ UNCHANGED <<vars, cleared, erased, smart, captures>>
-----------------------------------------------------------------------------
(* ClearActive.                                                            *)

DoneWith(t) == [smart EXCEPT !.pc = "checking", !.entries = @ \ {t}]

\* Work in progress is left alone.
CheckTask(t) ==
    /\ smart.pc = "checking" /\ t \in smart.entries
    /\ smart' = IF task[t] = "inProgress" THEN DoneWith(t)
                ELSE [smart EXCEPT !.pc = "erasing", !.task = t]
    /\ UNCHANGED <<vars, stage, captured, cleared, erased, captures>>

\* Atomic: checked and erased under one lock of mapMutex.
EraseBytecode ==
    LET k == KeyOf[smart.task] IN
    /\ smart.pc = "erasing"
    /\ IF IsPending(k) \/ IsParked(k)
       THEN /\ smart' = DoneWith(smart.task)
            /\ UNCHANGED <<map, erased>>
       ELSE /\ smart' = [smart EXCEPT !.pc = "releasing"]
            /\ map' = IF k \in erased THEN map ELSE [map EXCEPT ![k] = NoEntry]
            /\ erased' = erased \cup {k}
    /\ UNCHANGED <<live, parked, record, shader, books, th, watcher, world, bounds,
                   stage, captured, cleared, captures>>

ReleaseCaptured ==
    LET t == smart.task IN
    /\ smart.pc = "releasing"
    /\ shader' = [shader EXCEPT ![t] = Nothing]
    /\ cleared' = cleared \cup {t}
    /\ smart' = [DoneWith(t) EXCEPT !.taskIds = @ \cup {t}]
    /\ UNCHANGED <<live, map, parked, record, books, th, watcher, world, bounds,
                   stage, captured, erased, captures>>

\* CompilationSet::Forget of all of them, then the next stage.
ForgetCaptured ==
    /\ smart.pc = "checking" /\ smart.entries = {}
    /\ task' = [t \in Tasks |->
                   IF t \in smart.taskIds /\ task[t] = "processed" THEN "none" ELSE task[t]]
    /\ smart' = NotClearing
    /\ \/ stage = "SecondWindow" /\ stage' = "Idle"
       \/ stage = "FirstWindow" /\ stage' \in {"SecondWindow", "AwaitingMenuClose"}
    /\ UNCHANGED <<live, map, parked, record, shader, taskGen, th, watcher, world, bounds,
                   captured, cleared, erased, captures>>

ClearActive ==
    \/ \E t \in Tasks : CheckTask(t)
    \/ EraseBytecode \/ ReleaseCaptured \/ ForgetCaptured
-----------------------------------------------------------------------------
\* A step of ShaderClaims.  Inside ClearActive the main thread begins neither a
\* draw nor a clear; other threads go on, and look shaders up as well.
OfClaims(step) ==
    /\ step
    /\ smart.pc = "idle" \/ (th'[Main] = th[Main] /\ clears' = clears)
    /\ captures + clears' <= MaxResets
    /\ UNCHANGED capture

SmartNext ==
    \/ OfClaims(Next)
    \/ BeginActiveShaderCapture \/ Rebind \/ WindowExpires \/ MenuCloses
    \/ \E t \in Tasks : TrackActiveShader(t)
    \/ ClearActive

SmartSpec == SmartInit /\ [][SmartNext]_allVars

\* As in ShaderClaims; the main thread also goes on with ClearActive.
FairSmartSpec ==
    /\ SmartSpec
    /\ \A a \in Threads : WF_allVars(OfClaims(Compile(a)))
    /\ \A w \in Workers : WF_allVars(OfClaims(Work(w)))
    /\ WF_allVars(OfClaims(ClearGoesOn)) /\ WF_allVars(OfClaims(Watch))
    /\ WF_allVars(ClearActive)
-----------------------------------------------------------------------------
(* Properties.                                                             *)

\* "Keep its task bookkeeping until both phases finish": a shader that was
\* cleared is compiled again when it is looked up again.
ClearedShadersComeBack == smart.pc = "idle" => NoShaderIsLost
=============================================================================
