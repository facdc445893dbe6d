-------------------------- MODULE SaveLoadSafeMode --------------------------
(***************************************************************************)
(* What the plugin holds back while the game saves or loads: writes of the *)
(* shader cache, changes of persistent state, and work that must not see   *)
(* half a world.  The guards are raised by the game's messages and by what *)
(* its save and load system reports each frame; they come down by frame    *)
(* numbers, which are unsigned and wrap.                                   *)
(*                                                                         *)
(* Every operation holds saveLoadSafeModeMutex, but what it publishes is   *)
(* read without it: one action is one operation up to the point where the  *)
(* order of two publications matters to such a reader, or the read of the  *)
(* frame number before it.                                                 *)
(***************************************************************************)
EXTENDS Integers

CONSTANTS
    Cycle,          \* frame numbers, 2^32 in the code
    Grace,          \* kSaveLoadSafeModeGraceFrames
    MutationGrace,  \* kSaveMutationBlockGraceFrames
    Fallback,       \* kSaveLoadSafeModeFallbackFrames
    MaxEvents,      \* bound: messages, and frames with save or load activity
    MaxLag          \* bound: frames between a save's read of the frame and its calls

ASSUME FramesAreMany ==
    /\ {Cycle, Grace, MutationGrace, Fallback, MaxEvents, MaxLag} \subseteq Nat \ {0}
    /\ MutationGrace <= Grace /\ Grace <= Fallback
    /\ 2 * (Fallback + MaxLag + 3) < Cycle

VARIABLES
    frame,              \* frameCount
    world,              \* worldLoadTransition...: active, start and end frame
    safe,               \* saveLoadSafeMode...: the same
    mutationEnd,        \* persistentMutationBlockEndFrame
    mutationBlocked,    \* persistentMutationBlocked
    diskBlocked,        \* ShaderCache::saveLoadDiskPersistenceBlocked
    source,             \* saveLoadRenderRecoveryState, without its generation
    engineActive,       \* engineSaveLoadActivityActive
    savingWasActive,    \* engineSavingWasActive
    main,               \* the main thread: frames, load messages
    saver,              \* the thread that delivers a save's message
    quiet,              \* history: frames since what the guards are for, up to Grace
    early,              \* history: frames by which a save dated a load's guards too early
    events

windows == <<world, safe>>
engine == <<engineActive, savingWasActive>>
history == <<quiet, early>>
vars == <<frame, windows, mutationEnd, mutationBlocked, diskBlocked, source, engine,
          main, saver, history, events>>

Closed == [active |-> FALSE, start |-> 0, end |-> 0]

Init ==
    /\ frame = 0 /\ world = Closed /\ safe = Closed
    /\ mutationEnd = 0 /\ mutationBlocked = FALSE /\ diskBlocked = FALSE
    /\ source = "none" /\ engineActive = FALSE /\ savingWasActive = FALSE
    /\ main = [pc |-> "idle", unsafe |-> FALSE, wasActive |-> FALSE]
    /\ saver = [pc |-> "idle", frame |-> 0]
    /\ quiet = Grace /\ early = 0 /\ events = 0

LockedPlaces == {"publishing", "beginning", "extending", "arming", "notifying"}
MutexFree == main.pc \notin LockedPlaces /\ saver.pc \notin LockedPlaces
-----------------------------------------------------------------------------
(* Frame numbers and windows (WorldLoadTransitionPolicy.h).                *)

Lowest(m, n) == IF m < n THEN m ELSE n

Distance(from, to) == (to - from) % Cycle

\* Defect: the first frame is taken as it is.
MutCurrent == frame

\* Zero stands for no frame.
Current == IF frame = 0 THEN 1 ELSE frame
FrameOf(given) == IF given # 0 THEN given ELSE Current

\* Defect: compared as numbers that do not wrap.
MutReachedDeadline(f, deadline) == f >= deadline

ReachedDeadline(f, deadline) == 2 * Distance(deadline, f) < Cycle

\* Later deadlines win; zero remains the sign of an unfinished load.
ExtendDeadline(previous, f, frames) ==
    LET sum == (f + frames) % Cycle
        end == IF sum = 0 THEN 1 ELSE sum
    IN IF previous = 0 \/ ReachedDeadline(f, previous) \/ ReachedDeadline(end, previous)
       THEN end ELSE previous

\* Defect: a load that is never reported complete is waited for.
MutEnds(w, f) == w.active /\ w.end # 0 /\ ReachedDeadline(f, w.end)

\* The grace is over, or a load began long ago and was never completed.
Ends(w, f) ==
    /\ w.active
    /\ IF w.end # 0 THEN ReachedDeadline(f, w.end)
       ELSE w.start # 0 /\ Distance(w.start, f) >= Fallback

Advance(w, replaces, f) ==
    IF replaces
    THEN [active |-> TRUE, start |-> IF w.active THEN w.start ELSE f,
          end |-> ExtendDeadline(w.end, f, Grace)]
    ELSE IF Ends(w, f) THEN Closed ELSE w

\* Defect: whatever came last is recorded.
MutRecorded(what) == what

\* RecordSaveLoadRenderRecoverySource: a load is not outdone by a save.
Recorded(what) == IF source = "other" THEN "other" ELSE what
-----------------------------------------------------------------------------
(* The guards a message raises.                                            *)

\* ExtendSaveLoadSafeModeImpl up to the block of the cache's writes.  A load that
\* has no deadline gets that of the message, which a save dates by its own frame,
\* also if the load began after it.
Raise(f) ==
    LET late == Distance(f, Current) IN
    /\ safe' = [safe EXCEPT !.start = IF @ = 0 THEN f ELSE @,
                            !.end = ExtendDeadline(@, f, Grace)]
    /\ diskBlocked' = TRUE
    /\ quiet' = Lowest(quiet, late)
    /\ early' = IF late <= quiet THEN 0
                ELSE IF safe.end = 0 THEN late - quiet ELSE early

\* The rest of it, and where the guard came from.
Publish(what) ==
    /\ safe' = [safe EXCEPT !.active = TRUE]
    /\ mutationBlocked' = TRUE
    /\ source' = Recorded(what)

\* BeginPersistentMutationBlock and ExtendPersistentMutationBlock.
BlockMutations(f) ==
    /\ MutexFree
    /\ mutationEnd' = ExtendDeadline(mutationEnd, f, MutationGrace)
    /\ mutationBlocked' = TRUE

MainAt(pc) == main' = [main EXCEPT !.pc = pc]

Happens == events < MaxEvents /\ events' = events + 1

\* kPreLoadGame: BeginSaveLoadSafeMode.
PreLoadGame ==
    /\ main.pc = "idle" /\ MutexFree /\ Happens
    /\ world' = [active |-> TRUE, start |-> Current, end |-> 0]
    /\ safe' = [safe EXCEPT !.start = Current, !.end = 0]
    /\ diskBlocked' = TRUE /\ quiet' = 0 /\ early' = 0
    /\ MainAt("beginning")
    /\ UNCHANGED <<frame, mutationEnd, mutationBlocked, source, engine, saver>>

\* ExtendSaveLoadSafeMode.
ExtendsSaveLoadSafeMode ==
    /\ MutexFree
    /\ world' = [active |-> TRUE, start |-> IF world.start = 0 THEN Current ELSE world.start,
                 end |-> ExtendDeadline(world.end, Current, Grace)]
    /\ Raise(Current)
    /\ UNCHANGED <<frame, mutationEnd, mutationBlocked, source, engine, saver>>

\* kPostLoadGame and kNewGame.
PostLoadGame ==
    main.pc = "idle" /\ Happens /\ ExtendsSaveLoadSafeMode /\ MainAt("extending")

\* Upscaling: a load whose completion is seen on the screen, not announced.  What
\* it looks at it looks at without the mutex.
CanArmCompletionGrace ==
    /\ main.pc = "idle" /\ safe.active /\ safe.end = 0
    /\ MainAt("armed")
    /\ UNCHANGED <<frame, windows, mutationEnd, mutationBlocked, diskBlocked, source, engine,
                   saver, history, events>>

ArmCompletionGrace ==
    /\ main.pc = "armed"
    /\ ExtendsSaveLoadSafeMode /\ MainAt("arming")
    /\ UNCHANGED events

PublishLoad ==
    /\ main.pc \in {"beginning", "extending", "arming"}
    /\ Publish("other")
    /\ MainAt(IF main.pc = "arming" THEN "idle" ELSE "blocking")
    /\ UNCHANGED <<frame, world, mutationEnd, diskBlocked, engine, saver, history, events>>

LoadBlocksMutations ==
    /\ main.pc = "blocking"
    /\ BlockMutations(Current)
    /\ MainAt("idle")
    /\ UNCHANGED <<frame, windows, diskBlocked, source, engine, saver, history, events>>

\* kSaveGame reads the frame number before it waits for the mutex.
SaveGame ==
    /\ saver.pc = "idle" /\ Happens
    /\ saver' = [pc |-> "saving", frame |-> frame]
    /\ UNCHANGED <<frame, windows, mutationEnd, mutationBlocked, diskBlocked, source, engine,
                   main, history>>

\* NotifyOrdinarySave.
RaiseForSave ==
    /\ saver.pc = "saving" /\ MutexFree
    /\ Raise(FrameOf(saver.frame))
    /\ saver' = [saver EXCEPT !.pc = "notifying"]
    /\ UNCHANGED <<frame, world, mutationEnd, mutationBlocked, source, engine, main, events>>

PublishSave ==
    /\ saver.pc = "notifying"
    /\ Publish("save")
    /\ saver' = [saver EXCEPT !.pc = "blocking"]
    /\ UNCHANGED <<frame, world, mutationEnd, diskBlocked, engine, main, history, events>>

SaveBlocksMutations ==
    /\ saver.pc = "blocking"
    /\ BlockMutations(FrameOf(saver.frame))
    /\ saver' = [pc |-> "idle", frame |-> 0]
    /\ UNCHANGED <<frame, windows, diskBlocked, source, engine, main, history, events>>
-----------------------------------------------------------------------------
(* State::Reset, once a frame.                                             *)

NextFrame ==
    /\ main.pc = "idle"
    /\ saver.pc # "idle" => Distance(saver.frame, frame) < MaxLag
    /\ frame' = (frame + 1) % Cycle
    /\ quiet' = Lowest(Grace, quiet + Distance(Current, Current'))
    /\ MainAt("updating")
    /\ UNCHANGED <<windows, mutationEnd, mutationBlocked, diskBlocked, source, engine,
                   saver, early, events>>

\* UpdateSaveLoadSafeMode up to the block of the cache's writes, or to the end
\* of the safe mode.  What makes a save's recovery unsafe besides a load (an
\* open menu, a pending reset, an unknown engine state) comes in as menu.
UpdateWindows(saving, replaces, menu) ==
    LET active == saving \/ replaces
        unsafe == replaces \/ menu
    IN /\ main.pc = "updating" /\ MutexFree
       /\ IF active THEN Happens /\ quiet' = 0 /\ early' = 0 ELSE UNCHANGED <<events, history>>
       /\ engineActive' = active /\ savingWasActive' = saving
       /\ source' = IF unsafe THEN Recorded("other")
                    ELSE IF saving /\ ~savingWasActive THEN Recorded("save") ELSE source
       /\ world' = Advance(world, replaces, Current)
       /\ IF active
          THEN /\ safe' = [safe EXCEPT !.start = IF safe.active THEN @ ELSE Current,
                                       !.end = ExtendDeadline(@, Current, Grace)]
               /\ diskBlocked' = (diskBlocked \/ ~safe.active)
          ELSE /\ safe' = IF Ends(safe, Current) THEN Closed ELSE safe
               /\ UNCHANGED diskBlocked
       /\ main' = [pc |-> "publishing", unsafe |-> unsafe, wasActive |-> safe.active]
       /\ UNCHANGED <<frame, mutationEnd, mutationBlocked, saver>>

\* Defect: the cache is let go at every frame without safe mode but the first.
MutUpdatePublishes(active, end) ==
    /\ main.pc = "publishing"
    /\ safe' = [safe EXCEPT !.active = active]
    /\ mutationEnd' = end
    /\ mutationBlocked' = (active \/ end # 0)
    /\ diskBlocked' = (diskBlocked /\ ~(main.wasActive /\ ~engineActive))
    /\ source' = IF ~active /\ ~main.unsafe THEN "none" ELSE source
    /\ main' = [pc |-> "idle", unsafe |-> FALSE, wasActive |-> FALSE]
    /\ UNCHANGED <<frame, world, engine, saver, history, events>>

\* The rest: the safe mode, mutations, and the cache's writes let go.
UpdatePublishes(active, end) ==
    /\ main.pc = "publishing"
    /\ safe' = [safe EXCEPT !.active = active]
    /\ mutationEnd' = end
    /\ mutationBlocked' = (active \/ end # 0)
    /\ diskBlocked' = (diskBlocked /\ ~(main.wasActive /\ ~active))
    /\ source' = IF ~active /\ ~main.unsafe THEN "none" ELSE source
    /\ main' = [pc |-> "idle", unsafe |-> FALSE, wasActive |-> FALSE]
    /\ UNCHANGED <<frame, world, engine, saver, history, events>>

EndUpdate ==
    UpdatePublishes(
        safe.active \/ engineActive,
        IF mutationEnd # 0 /\ ReachedDeadline(Current, mutationEnd) THEN 0 ELSE mutationEnd)
-----------------------------------------------------------------------------
Update ==
    \/ \E saving, replaces, menu \in BOOLEAN : UpdateWindows(saving, replaces, menu)
    \/ EndUpdate

Load == PreLoadGame \/ PostLoadGame \/ CanArmCompletionGrace

LoadGoesOn == ArmCompletionGrace \/ PublishLoad \/ LoadBlocksMutations

SaveGoesOn == RaiseForSave \/ PublishSave \/ SaveBlocksMutations

Next == NextFrame \/ Update \/ Load \/ LoadGoesOn \/ SaveGame \/ SaveGoesOn

Spec == Init /\ [][Next]_vars

\* The game renders frames, and a message that is being handled is finished.
FairSpec ==
    /\ Spec
    /\ WF_vars(NextFrame) /\ WF_vars(Update) /\ WF_vars(LoadGoesOn) /\ WF_vars(SaveGoesOn)
-----------------------------------------------------------------------------
(* Properties.                                                             *)

Frames == 0 .. Cycle - 1

\* An active window has a start: without one the fallback would never end it.
Window == {w \in [active : BOOLEAN, start : Frames, end : Frames] : w.active => w.start # 0}

\* Frames, windows and places; zero stands for no frame and nothing else.
TypeOK ==
    /\ frame \in Frames /\ world \in Window /\ safe \in Window /\ mutationEnd \in Frames
    /\ mutationBlocked \in BOOLEAN /\ diskBlocked \in BOOLEAN
    /\ source \in {"none", "save", "other"}
    /\ engineActive \in BOOLEAN /\ savingWasActive \in BOOLEAN
    /\ main \in [pc : {"idle", "updating", "publishing", "beginning", "extending", "armed",
                       "arming", "blocking"}, unsafe : BOOLEAN, wasActive : BOOLEAN]
    /\ saver \in [pc : {"idle", "saving", "notifying", "blocking"}, frame : Frames]
    /\ quiet \in 0 .. Grace /\ early \in Nat /\ events \in 0 .. MaxEvents

\* Who reads that safe mode is on, without the mutex, finds the cache's writes
\* blocked; and they are not left blocked when it is off, for only its end lets
\* them go.
GuardsAgree ==
    /\ safe.active => diskBlocked
    /\ MutexFree => (diskBlocked => safe.active) /\ (safe.active => mutationBlocked)

\* kSaveLoadSafeModeGraceFrames: for that long after the frame of a message, and
\* after the last frame with activity, every guard is up, also over the end of
\* the frame numbers.  But not so after a load's message if a save that read the
\* frame before it gives the load its deadline: its guards come down that many
\* frames early, of which there are at most those the save is late by.
GuardsLast ==
    /\ early <= MaxLag + 1
    /\ MutexFree /\ quiet + early < Grace => safe.active /\ diskBlocked /\ mutationBlocked

\* A load whose end has been seen is guarded like a save and longer, and no save
\* during it passes its recovery off as that of an ordinary save.
LoadsStayGuarded ==
    MutexFree /\ world.active /\ world.end # 0 => safe.active /\ source = "other"

\* Every guard comes down again, also if the game never reports the end of a load.
Guarded == safe.active \/ diskBlocked \/ mutationBlocked \/ world.active

GuardsEnd == Guarded ~> ~Guarded
=============================================================================
