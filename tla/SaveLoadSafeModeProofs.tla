----------------------- MODULE SaveLoadSafeModeProofs -----------------------
(***************************************************************************)
(* The guards of saves and loads agree with one another, last for their    *)
(* grace and cover the load they are for, for every width of the frame     *)
(* numbers, every grace and every number of messages.                      *)
(***************************************************************************)
EXTENDS SaveLoadSafeMode, TLAPS

Raising == main.pc \in {"beginning", "extending", "arming"} \/ saver.pc = "notifying"

\* saveLoadSafeModeMutex has one holder.
OneHolder == main.pc \notin LockedPlaces \/ saver.pc \notin LockedPlaces

\* What is about to publish safe mode has dated it and blocked the writes.
RaisedBeforePublished ==
    Raising \/ (main.pc = "publishing" /\ engineActive) => diskBlocked /\ safe.start # 0

\* Writes are blocked in the middle of an update because of safe mode, before
\* it or still, or because of what the engine reports in this frame.
BlockHasCause ==
    main.pc = "publishing" /\ diskBlocked => main.wasActive \/ engineActive \/ safe.active

IInv == TypeOK /\ GuardsAgree /\ OneHolder /\ RaisedBeforePublished /\ BlockHasCause
-----------------------------------------------------------------------------
(* Frame numbers.                                                          *)

LEMMA Remainders == ASSUME NEW m \in Int PROVE m % Cycle \in Frames
  BY FramesAreMany, SMTT(30) DEF Frames

LEMMA FramesAreNumbers == Frames \subseteq Nat /\ 0 \in Frames /\ 1 \in Frames
  <1>1. Cycle \in Nat /\ Fallback \in Nat \ {0} /\ MaxLag \in Nat
    BY FramesAreMany
  <1>2. 1 < Cycle
    BY <1>1, FramesAreMany
  <1> QED BY <1>1, <1>2 DEF Frames

LEMMA CurrentIsDated == ASSUME frame \in Frames PROVE Current \in Frames \ {0}
  BY FramesAreNumbers DEF Current

LEMMA GivenIsDated ==
  ASSUME frame \in Frames, NEW given \in Frames PROVE FrameOf(given) \in Frames \ {0}
  BY CurrentIsDated DEF FrameOf

LEMMA DistanceType ==
  ASSUME NEW from \in Frames, NEW to \in Frames PROVE Distance(from, to) \in Frames
  BY FramesAreNumbers, Remainders DEF Distance

LEMMA ExtendType ==
  ASSUME NEW previous \in Frames, NEW f \in Frames, NEW frames \in Nat
  PROVE  ExtendDeadline(previous, f, frames) \in Frames
  <1>1. (f + frames) % Cycle \in Frames
    BY FramesAreNumbers, Remainders
  <1> QED BY <1>1, FramesAreNumbers DEF ExtendDeadline

LEMMA AdvanceType ==
  ASSUME NEW w \in Window, NEW replaces \in BOOLEAN, NEW f \in Frames \ {0}
  PROVE  Advance(w, replaces, f) \in Window
  <1>1. ExtendDeadline(w.end, f, Grace) \in Frames
    BY ExtendType, FramesAreMany DEF Window
  <1>2. Closed \in Window
    BY FramesAreNumbers DEF Closed, Window
  <1> QED BY <1>1, <1>2 DEF Advance, Window
-----------------------------------------------------------------------------
LEMMA InitIInv == Init => IInv
  <1> SUFFICES ASSUME Init PROVE IInv
    OBVIOUS
  <1>1. Closed \in Window /\ ~Closed.active
    BY FramesAreNumbers DEF Window, Closed
  <1>2. Grace \in 0 .. Grace /\ 0 \in 0 .. MaxEvents
    BY FramesAreMany
  <1>3. TypeOK
    BY <1>1, <1>2, FramesAreNumbers DEF Init, TypeOK
  <1> QED
    BY <1>1, <1>3
       DEF Init, IInv, GuardsAgree, OneHolder, RaisedBeforePublished, BlockHasCause, Raising,
           LockedPlaces
-----------------------------------------------------------------------------
(* Steps that leave a part of the state alone.                             *)

LEMMA FrameType == ASSUME TypeOK PROVE frame \in Frames /\ Current \in Frames \ {0}
  BY CurrentIsDated DEF TypeOK

LEMMA LowestType ==
  ASSUME NEW m \in 0 .. Grace, NEW n \in Nat PROVE Lowest(m, n) \in 0 .. Grace
  BY FramesAreMany DEF Lowest

LEMMA Happening == ASSUME TypeOK, Happens PROVE events' \in 0 .. MaxEvents
  BY FramesAreMany DEF TypeOK, Happens

LEMMA RaiseKeeps ==
  ASSUME TypeOK, NEW f \in Frames \ {0}, Raise(f)
  PROVE  /\ safe' \in Window /\ safe'.start # 0 /\ safe'.active = safe.active
         /\ diskBlocked' = TRUE /\ quiet' \in 0 .. Grace /\ early' \in Nat
  <1>1. ExtendDeadline(safe.end, f, Grace) \in Frames
    BY ExtendType, FramesAreMany DEF TypeOK, Window
  <1>2. quiet \in 0 .. Grace /\ early \in Nat
    BY DEF TypeOK
  <1>3. Distance(f, Current) \in Nat
    BY DistanceType, FrameType, FramesAreNumbers
  <1>4. quiet' \in 0 .. Grace /\ early' \in Nat
    BY <1>2, <1>3, LowestType, FramesAreMany DEF Raise
  <1>5. safe' = [active |-> safe.active, start |-> IF safe.start = 0 THEN f ELSE safe.start,
                 end |-> ExtendDeadline(safe.end, f, Grace)]
    BY DEF Raise, TypeOK, Window
  <1> QED BY <1>1, <1>4, <1>5 DEF Raise, TypeOK, Window

LEMMA PublishKeeps ==
  ASSUME TypeOK, safe.start # 0, NEW what \in {"save", "other"}, Publish(what)
  PROVE  /\ safe' \in Window /\ safe'.active = TRUE /\ safe'.start = safe.start
         /\ mutationBlocked' = TRUE /\ source' \in {"none", "save", "other"}
  <1>1. safe' = [active |-> TRUE, start |-> safe.start, end |-> safe.end]
    BY DEF Publish, TypeOK, Window
  <1> QED BY <1>1 DEF Publish, Recorded, TypeOK, Window

LEMMA BlockKeeps ==
  ASSUME TypeOK, NEW f \in Frames, BlockMutations(f)
  PROVE  mutationEnd' \in Frames /\ mutationBlocked' = TRUE /\ MutexFree
  BY ExtendType, FramesAreMany DEF BlockMutations, TypeOK

\* The start of the next frame.
LEMMA NextFrameKeeps == ASSUME IInv, NextFrame PROVE IInv'
  <1>1. frame' \in Frames
    BY FramesAreNumbers, Remainders DEF IInv, TypeOK, NextFrame
  <1>2. Current' \in Frames
    BY <1>1, FramesAreNumbers DEF Current
  <1>3. quiet + Distance(Current, Current') \in Nat
    <2>1. Distance(Current, Current') \in Nat
      BY <1>2, FrameType, DistanceType, FramesAreNumbers DEF IInv
    <2> QED BY <2>1, FramesAreMany DEF IInv, TypeOK
  <1>4. quiet' \in 0 .. Grace
    BY <1>3, FramesAreMany DEF NextFrame, Lowest
  <1>5. TypeOK'
    BY <1>1, <1>4 DEF IInv, TypeOK, NextFrame, MainAt, windows, engine, history
  <1> QED
    BY <1>5 DEF IInv, NextFrame, MainAt, windows, engine, history, GuardsAgree, OneHolder,
                RaisedBeforePublished, BlockHasCause, Raising, MutexFree, LockedPlaces, TypeOK
-----------------------------------------------------------------------------
(* Messages.                                                               *)

LEMMA PreLoadKeeps == ASSUME IInv, PreLoadGame PROVE IInv'
  <1>1. Current \in Frames \ {0} /\ 0 \in Frames
    BY FrameType, FramesAreNumbers DEF IInv
  <1>2. safe' = [active |-> safe.active, start |-> Current, end |-> 0]
    BY DEF PreLoadGame, IInv, TypeOK, Window
  <1>3. safe' \in Window /\ world' \in Window
    BY <1>1, <1>2 DEF PreLoadGame, IInv, TypeOK, Window
  <1>4. events' \in 0 .. MaxEvents /\ quiet' \in 0 .. Grace /\ early' \in Nat
    BY Happening, FramesAreMany DEF PreLoadGame, IInv
  <1>5. main' = [pc |-> "beginning", unsafe |-> main.unsafe, wasActive |-> main.wasActive]
    BY DEF PreLoadGame, MainAt, IInv, TypeOK
  <1>6. TypeOK'
    BY <1>3, <1>4, <1>5 DEF PreLoadGame, IInv, TypeOK, engine, history
  <1> QED
    BY <1>1, <1>2, <1>5, <1>6
       DEF PreLoadGame, IInv, GuardsAgree, OneHolder, RaisedBeforePublished, BlockHasCause,
           Raising, MutexFree, LockedPlaces, engine, history, TypeOK

LEMMA ExtendKeeps ==
  ASSUME IInv, ExtendsSaveLoadSafeMode, NEW pc \in {"extending", "arming"}, MainAt(pc),
         events' \in 0 .. MaxEvents
  PROVE  IInv'
  <1>1. Current \in Frames \ {0}
    BY FrameType DEF IInv
  <1>2. Raise(Current)
    BY DEF ExtendsSaveLoadSafeMode
  <1>3. /\ safe' \in Window /\ safe'.start # 0 /\ safe'.active = safe.active
        /\ diskBlocked' = TRUE /\ quiet' \in 0 .. Grace /\ early' \in Nat
    BY <1>1, <1>2, RaiseKeeps DEF IInv
  <1>4. ExtendDeadline(world.end, Current, Grace) \in Frames
    BY <1>1, ExtendType, FramesAreMany DEF IInv, TypeOK, Window
  <1>5. world' \in Window
    BY <1>1, <1>4 DEF ExtendsSaveLoadSafeMode, IInv, TypeOK, Window
  <1>6. main' = [pc |-> pc, unsafe |-> main.unsafe, wasActive |-> main.wasActive]
    BY DEF MainAt, IInv, TypeOK
  <1>7. TypeOK'
    BY <1>3, <1>5, <1>6 DEF ExtendsSaveLoadSafeMode, IInv, TypeOK, engine, history
  <1> QED
    BY <1>3, <1>6, <1>7
       DEF ExtendsSaveLoadSafeMode, IInv, GuardsAgree, OneHolder, RaisedBeforePublished,
           BlockHasCause, Raising, MutexFree, LockedPlaces, engine, history, TypeOK

LEMMA PostLoadKeeps == ASSUME IInv, PostLoadGame PROVE IInv'
  BY ExtendKeeps, Happening DEF IInv, PostLoadGame

LEMMA CanArmKeeps == ASSUME IInv, CanArmCompletionGrace PROVE IInv'
  <1>1. main' = [pc |-> "armed", unsafe |-> main.unsafe, wasActive |-> main.wasActive]
    BY DEF CanArmCompletionGrace, MainAt, IInv, TypeOK
  <1> QED
    BY <1>1 DEF CanArmCompletionGrace, IInv, TypeOK, GuardsAgree, OneHolder, windows,
                RaisedBeforePublished, BlockHasCause, Raising, MutexFree, LockedPlaces, engine, history

LEMMA ArmKeeps == ASSUME IInv, ArmCompletionGrace PROVE IInv'
  BY ExtendKeeps DEF IInv, TypeOK, ArmCompletionGrace

LEMMA PublishLoadKeeps == ASSUME IInv, PublishLoad PROVE IInv'
  <1>1. safe.start # 0 /\ diskBlocked /\ Publish("other")
    BY DEF PublishLoad, IInv, RaisedBeforePublished, Raising
  <1>2. /\ safe' \in Window /\ safe'.active = TRUE /\ safe'.start = safe.start
        /\ mutationBlocked' = TRUE /\ source' \in {"none", "save", "other"}
    BY <1>1, PublishKeeps DEF IInv
  <1>3. PICK pc \in {"idle", "blocking"} :
            main' = [pc |-> pc, unsafe |-> main.unsafe, wasActive |-> main.wasActive]
    BY DEF PublishLoad, MainAt, IInv, TypeOK
  <1>4. TypeOK'
    BY <1>2, <1>3 DEF PublishLoad, IInv, TypeOK, engine, history
  <1> QED
    BY <1>1, <1>2, <1>3, <1>4
       DEF PublishLoad, IInv, GuardsAgree, OneHolder, RaisedBeforePublished, BlockHasCause,
           Raising, MutexFree, LockedPlaces, engine, history, TypeOK

LEMMA LoadBlocksKeeps == ASSUME IInv, LoadBlocksMutations PROVE IInv'
  <1>1. mutationEnd' \in Frames /\ mutationBlocked' = TRUE /\ MutexFree
    BY FrameType, BlockKeeps DEF LoadBlocksMutations, IInv
  <1>2. main' = [pc |-> "idle", unsafe |-> main.unsafe, wasActive |-> main.wasActive]
    BY DEF LoadBlocksMutations, MainAt, IInv, TypeOK
  <1>3. TypeOK'
    BY <1>1, <1>2 DEF LoadBlocksMutations, IInv, TypeOK, engine, history, windows
  <1> QED
    BY <1>1, <1>2, <1>3
       DEF LoadBlocksMutations, IInv, GuardsAgree, OneHolder, RaisedBeforePublished, windows,
           BlockHasCause, Raising, MutexFree, LockedPlaces, engine, history, TypeOK

LEMMA SaveGameKeeps == ASSUME IInv, SaveGame PROVE IInv'
  <1>1. events' \in 0 .. MaxEvents
    BY Happening DEF SaveGame, IInv
  <1> QED
    BY <1>1 DEF SaveGame, IInv, TypeOK, GuardsAgree, OneHolder, RaisedBeforePublished, windows,
                BlockHasCause, Raising, MutexFree, LockedPlaces, engine, history

LEMMA RaiseForSaveKeeps == ASSUME IInv, RaiseForSave PROVE IInv'
  <1>1. FrameOf(saver.frame) \in Frames \ {0} /\ Raise(FrameOf(saver.frame))
    BY GivenIsDated DEF RaiseForSave, IInv, TypeOK
  <1>2. /\ safe' \in Window /\ safe'.start # 0 /\ safe'.active = safe.active
        /\ diskBlocked' = TRUE /\ quiet' \in 0 .. Grace /\ early' \in Nat
    BY <1>1, RaiseKeeps DEF IInv
  <1>3. saver' = [pc |-> "notifying", frame |-> saver.frame]
    BY DEF RaiseForSave, IInv, TypeOK
  <1>4. TypeOK'
    BY <1>2, <1>3 DEF RaiseForSave, IInv, TypeOK, engine, history
  <1> QED
    BY <1>2, <1>3, <1>4
       DEF RaiseForSave, IInv, GuardsAgree, OneHolder, RaisedBeforePublished, BlockHasCause,
           Raising, MutexFree, LockedPlaces, engine, history, TypeOK

LEMMA PublishSaveKeeps == ASSUME IInv, PublishSave PROVE IInv'
  <1>1. safe.start # 0 /\ diskBlocked /\ Publish("save")
    BY DEF PublishSave, IInv, RaisedBeforePublished, Raising
  <1>2. /\ safe' \in Window /\ safe'.active = TRUE /\ safe'.start = safe.start
        /\ mutationBlocked' = TRUE /\ source' \in {"none", "save", "other"}
    BY <1>1, PublishKeeps DEF IInv
  <1>3. saver' = [pc |-> "blocking", frame |-> saver.frame]
    BY DEF PublishSave, IInv, TypeOK
  <1>4. TypeOK'
    BY <1>2, <1>3 DEF PublishSave, IInv, TypeOK, engine, history
  <1> QED
    BY <1>1, <1>2, <1>3, <1>4
       DEF PublishSave, IInv, GuardsAgree, OneHolder, RaisedBeforePublished, BlockHasCause,
           Raising, MutexFree, LockedPlaces, engine, history, TypeOK

LEMMA SaveBlocksKeeps == ASSUME IInv, SaveBlocksMutations PROVE IInv'
  <1>1. mutationEnd' \in Frames /\ mutationBlocked' = TRUE /\ MutexFree
    BY GivenIsDated, BlockKeeps DEF SaveBlocksMutations, IInv, TypeOK
  <1>2. TypeOK'
    BY <1>1, FramesAreNumbers DEF SaveBlocksMutations, IInv, TypeOK, engine, history, windows
  <1> QED
    BY <1>1, <1>2
       DEF SaveBlocksMutations, IInv, GuardsAgree, OneHolder, RaisedBeforePublished, windows,
           BlockHasCause, Raising, MutexFree, LockedPlaces, engine, history, TypeOK
-----------------------------------------------------------------------------
(* The update of every frame.                                              *)

LEMMA UpdateWindowsKeeps ==
  ASSUME IInv, NEW saving \in BOOLEAN, NEW replaces \in BOOLEAN, NEW menu \in BOOLEAN,
         UpdateWindows(saving, replaces, menu)
  PROVE  IInv'
  <1> DEFINE active == saving \/ replaces
             unsafe == replaces \/ menu
  <1>1. Current \in Frames \ {0} /\ 0 \in Frames
    BY FrameType, FramesAreNumbers DEF IInv
  <1>2. world' \in Window
    BY <1>1, AdvanceType DEF UpdateWindows, IInv, TypeOK
  <1>3. ExtendDeadline(safe.end, Current, Grace) \in Frames
    BY <1>1, ExtendType, FramesAreMany DEF IInv, TypeOK, Window
  <1>4. CASE active
    <2>1. safe' = [active |-> safe.active, start |-> IF safe.active THEN safe.start ELSE Current,
                   end |-> ExtendDeadline(safe.end, Current, Grace)]
      BY <1>4 DEF UpdateWindows, IInv, TypeOK, Window
    <2>2. safe' \in Window /\ safe'.start # 0
      BY <1>1, <1>3, <2>1 DEF IInv, TypeOK, Window
    <2>3. diskBlocked' = TRUE /\ engineActive' = TRUE
      BY <1>4 DEF UpdateWindows, IInv, GuardsAgree, TypeOK, Window
    <2>4. events' \in 0 .. MaxEvents /\ quiet' \in 0 .. Grace /\ early' \in Nat
      BY <1>4, Happening, FramesAreMany DEF UpdateWindows, IInv
    <2>5. TypeOK'
      BY <1>2, <2>2, <2>3, <2>4 DEF UpdateWindows, Recorded, IInv, TypeOK, Window
    <2> QED
      BY <2>1, <2>2, <2>3, <2>5
         DEF UpdateWindows, IInv, GuardsAgree, OneHolder, RaisedBeforePublished, BlockHasCause,
             Raising, MutexFree, LockedPlaces, TypeOK
  <1>5. CASE ~active
    <2>1. safe' = Closed \/ safe' = safe
      BY <1>5 DEF UpdateWindows
    <2>2. safe' \in Window /\ (safe'.active => safe.active)
      <3>1. Closed \in Window /\ ~Closed.active
        BY <1>1 DEF Window, Closed
      <3>2. safe \in Window
        BY DEF IInv, TypeOK
      <3> QED BY <2>1, <3>1, <3>2
    <2>3. diskBlocked' = diskBlocked /\ engineActive' = FALSE /\ UNCHANGED <<events, history>>
      BY <1>5 DEF UpdateWindows
    <2>4. main' = [pc |-> "publishing", unsafe |-> unsafe, wasActive |-> safe.active]
      BY DEF UpdateWindows
    <2>5. TypeOK'
      BY <1>2, <2>2, <2>3, <2>4 DEF UpdateWindows, Recorded, IInv, TypeOK, Window, history
    <2> QED
      BY <2>2, <2>3, <2>4, <2>5
         DEF UpdateWindows, IInv, GuardsAgree, OneHolder, RaisedBeforePublished, BlockHasCause,
             Raising, MutexFree, LockedPlaces, TypeOK
  <1> QED BY <1>4, <1>5

LEMMA EndUpdateKeeps == ASSUME IInv, EndUpdate PROVE IInv'
  <1> DEFINE active == safe.active \/ engineActive
             end == IF mutationEnd # 0 /\ ReachedDeadline(Current, mutationEnd)
                    THEN 0 ELSE mutationEnd
  <1>1. UpdatePublishes(active, end)
    BY DEF EndUpdate
  <1>2. safe' = [active |-> active, start |-> safe.start, end |-> safe.end]
    BY <1>1 DEF UpdatePublishes, IInv, TypeOK, Window
  <1>3. safe' \in Window
    BY <1>1, <1>2 DEF UpdatePublishes, IInv, TypeOK, Window, RaisedBeforePublished
  <1>4. end \in Frames
    BY FramesAreNumbers DEF IInv, TypeOK
  <1>5. /\ active => diskBlocked' /\ mutationBlocked'
        /\ diskBlocked' => active
    BY <1>1 DEF UpdatePublishes, IInv, TypeOK, GuardsAgree, RaisedBeforePublished, BlockHasCause
  <1>6. TypeOK'
    BY <1>1, <1>3, <1>4 DEF UpdatePublishes, IInv, TypeOK, engine, history
  <1> QED
    BY <1>1, <1>2, <1>5, <1>6
       DEF UpdatePublishes, IInv, GuardsAgree, OneHolder, RaisedBeforePublished, BlockHasCause,
           Raising, MutexFree, LockedPlaces, engine, history, TypeOK
-----------------------------------------------------------------------------
LEMMA StutterKeeps == ASSUME IInv, UNCHANGED vars PROVE IInv'
  BY DEF vars, windows, engine, history, IInv, TypeOK, GuardsAgree, OneHolder, RaisedBeforePublished,
         BlockHasCause, Raising, MutexFree

LEMMA Invariance == Spec => []IInv
  <1>1. IInv /\ [Next]_vars => IInv'
    BY NextFrameKeeps, PreLoadKeeps, PostLoadKeeps, CanArmKeeps, ArmKeeps, PublishLoadKeeps,
       LoadBlocksKeeps, SaveGameKeeps, RaiseForSaveKeeps, PublishSaveKeeps, SaveBlocksKeeps,
       UpdateWindowsKeeps, EndUpdateKeeps, StutterKeeps
       DEF Next, Update, Load, LoadGoesOn, SaveGoesOn
  <1> QED BY InitIInv, <1>1, PTL DEF Spec

\* Frame numbers keep their width, and an active window has a start, so that the
\* fallback ends a load that is never reported complete.
THEOREM TypeCorrect == Spec => []TypeOK
  <1>1. IInv => TypeOK
    BY DEF IInv
  <1> QED BY <1>1, Invariance, PTL

\* Whoever sees safe mode on, with or without the mutex, finds the cache's writes
\* blocked; with the mutex free they are blocked only while it is on.
THEOREM GuardsAlwaysAgree == Spec => []GuardsAgree
  <1>1. IInv => GuardsAgree
    BY DEF IInv
  <1> QED BY <1>1, Invariance, PTL
-----------------------------------------------------------------------------
(* Distances between frame numbers.                                        *)

LEMMA DistanceIs ==
  \A a, b \in Frames : Distance(a, b) = IF a <= b THEN b - a ELSE b - a + Cycle
  <1> SUFFICES ASSUME NEW a \in Frames, NEW b \in Frames
               PROVE  Distance(a, b) = IF a <= b THEN b - a ELSE b - a + Cycle
    OBVIOUS
  <1>1. Cycle \in Nat \ {0} /\ a \in Int /\ b \in Int /\ 0 <= a /\ a < Cycle /\ 0 <= b /\ b < Cycle
    BY FramesAreMany DEF Frames
  <1>2. CASE a <= b
    <2>1. 0 <= b - a /\ b - a < Cycle /\ b - a \in Int
      BY <1>1, <1>2
    <2> QED BY <1>1, <1>2, <2>1, SMTT(30) DEF Distance
  <1>3. CASE ~(a <= b)
    <2>1. 0 <= (b - a) + Cycle /\ b - a < 0 /\ b - a \in Int
      BY <1>1, <1>3
    <2> QED BY <1>1, <1>3, <2>1, SMTT(30) DEF Distance
  <1> QED BY <1>2, <1>3

\* A sum of frames is at most one turn too large.
LEMMA SumIs ==
  ASSUME NEW f \in Frames, NEW n \in 0 .. Fallback
  PROVE  (f + n) % Cycle = IF f + n < Cycle THEN f + n ELSE f + n - Cycle
  <1>1. /\ Cycle \in Nat \ {0} /\ f \in Int /\ n \in Int
        /\ 0 <= f + n /\ f + n < 2 * Cycle /\ f + n \in Int
    BY FramesAreMany DEF Frames
  <1>2. CASE f + n < Cycle
    BY <1>1, <1>2, SMTT(30)
  <1>3. CASE ~(f + n < Cycle)
    BY <1>1, <1>3, SMTT(30)
  <1> QED BY <1>2, <1>3

Widths ==
  /\ Cycle \in Nat /\ Grace \in Nat \ {0} /\ Fallback \in Nat /\ MaxLag \in Nat \ {0}
  /\ Grace <= Fallback /\ 2 * (Fallback + MaxLag + 3) < Cycle

\* The two ways between two frame numbers.
LEMMA Ways ==
  ASSUME NEW a \in Frames, NEW b \in Frames
  PROVE  /\ a \in Int /\ b \in Int /\ 0 <= a /\ a < Cycle /\ 0 <= b /\ b < Cycle
         /\ Distance(a, b) \in Int
         /\ a <= b => Distance(a, b) = b - a
         /\ b < a => Distance(a, b) = b - a + Cycle
  BY DistanceIs, FramesAreMany DEF Frames

\* A deadline is ahead of a moment, or not far behind it.
NearTo(now, e, slack) == Distance(now, e) <= Grace + 1 \/ Distance(e, now) <= slack

\* Of two deadlines near a moment, the first is not the earlier one.
NotBefore(e, d) == Distance(d, e) <= Grace + MaxLag + 3

\* The deadline a frame gives by itself.
Dated(f) == IF (f + Grace) % Cycle = 0 THEN 1 ELSE (f + Grace) % Cycle

LEMMA WidthsHold == Widths
  BY FramesAreMany DEF Widths

\* A deadline dated from a frame that is at most so late is near; it is as far
\* ahead as the grace promises, and a deadline still ahead is not given up for it.
LEMMA ExtendIsLater ==
  ASSUME NEW p \in Frames, NEW f \in Frames \ {0}, NEW now \in Frames \ {0},
         p # 0 => NearTo(now, p, MaxLag + 2), Distance(f, now) <= MaxLag + 1
  PROVE  LET e == ExtendDeadline(p, f, Grace)
         IN  /\ e \in Frames \ {0} /\ e \in {p, Dated(f)} /\ NearTo(now, e, MaxLag)
             /\ Distance(f, now) < Grace
                   => Distance(now, e) \in Grace - Distance(f, now) .. Grace + 1
             /\ NotBefore(e, Dated(f)) /\ (p # 0 => NotBefore(e, p))
             /\ p # 0 /\ Distance(now, p) \in 1 .. Grace + 1
                   => Distance(now, e) \in Distance(now, p) .. Grace + 1
  <1> DEFINE sum == (f + Grace) % Cycle
             end == IF sum = 0 THEN 1 ELSE sum
  <1>1. Grace \in 0 .. Fallback /\ f \in Frames
    BY WidthsHold DEF Widths
  <1>2. sum = IF f + Grace < Cycle THEN f + Grace ELSE f + Grace - Cycle
    BY <1>1, SumIs
  <1>3. end \in Frames \ {0} /\ 0 \in Frames
    BY <1>1, <1>2, WidthsHold DEF Frames, Widths
  <1>4. ExtendDeadline(p, f, Grace) =
           IF p = 0 \/ ReachedDeadline(f, p) \/ ReachedDeadline(end, p) THEN end ELSE p
    BY DEF ExtendDeadline
  <1>5. end = (IF sum = 0 THEN 1 ELSE sum) /\ end = Dated(f)
    BY DEF Dated
  <1> HIDE DEF end
  <1>6. PICK late \in Int, dated \in Int, new \in Int, old \in Int :
            /\ late = Distance(f, now) /\ dated = Distance(f, end)
            /\ new = Distance(now, end) /\ old = Distance(end, now)
    BY <1>1, <1>3, Ways
  <1>7. /\ f \in Int /\ now \in Int /\ end \in Int
        /\ 0 < f /\ f < Cycle /\ 0 < now /\ now < Cycle /\ 0 < end /\ end < Cycle
        /\ f <= now => late = now - f
        /\ now < f => late = now - f + Cycle
        /\ f <= end => dated = end - f
        /\ end < f => dated = end - f + Cycle
        /\ now <= end => new = end - now
        /\ end < now => new = end - now + Cycle
        /\ end <= now => old = now - end
        /\ now < end => old = now - end + Cycle
    <2>1. /\ f <= now => late = now - f
          /\ now < f => late = now - f + Cycle
      BY <1>1, <1>6, Ways
    <2>2. /\ f <= end => dated = end - f
          /\ end < f => dated = end - f + Cycle
      BY <1>1, <1>3, <1>6, Ways
    <2>3. /\ now <= end => new = end - now
          /\ end < now => new = end - now + Cycle
          /\ end <= now => old = now - end
          /\ now < end => old = now - end + Cycle
      BY <1>3, <1>6, Ways
    <2> QED BY <1>3, <2>1, <2>2, <2>3, FramesAreMany DEF Frames
  <1>8. dated \in Grace .. Grace + 1 /\ late <= MaxLag + 1
    <2>1. late <= MaxLag + 1
      BY <1>6
    <2>2. dated \in Grace .. Grace + 1
      BY <1>2, <1>5, <1>7, WidthsHold DEF Widths
    <2> QED BY <2>1, <2>2
  <1>9. /\ new <= Grace + 1 \/ old <= MaxLag
        /\ late < Grace => new \in Grace - late .. Grace + 1
    BY <1>7, <1>8, WidthsHold DEF Widths
  <1>13. Distance(end, end) = 0
    BY <1>3, Ways
  <1>10. CASE p = 0
    BY <1>3, <1>4, <1>5, <1>6, <1>9, <1>10, <1>13, WidthsHold DEF NearTo, NotBefore, Widths
  <1>11. CASE p # 0
    <2>1. PICK near \in Int, past \in Int, seen \in Int, step \in Int :
              /\ near = Distance(now, p) /\ past = Distance(p, now)
              /\ seen = Distance(p, f) /\ step = Distance(p, end)
      BY <1>1, <1>3, Ways
    <2>2. /\ p \in Int /\ 0 < p /\ p < Cycle
          /\ now <= p => near = p - now
          /\ p < now => near = p - now + Cycle
          /\ p <= now => past = now - p
          /\ now < p => past = now - p + Cycle
          /\ p <= f => seen = f - p
          /\ f < p => seen = f - p + Cycle
          /\ p <= end => step = end - p
          /\ end < p => step = end - p + Cycle
      <3>1. /\ now <= p => near = p - now
            /\ p < now => near = p - now + Cycle
            /\ p <= now => past = now - p
            /\ now < p => past = now - p + Cycle
        BY <2>1, Ways
      <3>2. /\ p <= f => seen = f - p
            /\ f < p => seen = f - p + Cycle
        BY <1>1, <2>1, Ways
      <3>3. /\ p <= end => step = end - p
            /\ end < p => step = end - p + Cycle
        BY <1>3, <2>1, Ways
      <3> QED BY <1>11, <3>1, <3>2, <3>3, FramesAreMany DEF Frames
    <2>3. near <= Grace + 1 \/ past <= MaxLag + 2
      BY <1>11, <2>1 DEF NearTo
    <2>6. PICK back \in Int : /\ back = Distance(end, p)
                              /\ end <= p => back = p - end
                              /\ p < end => back = p - end + Cycle
      BY <1>3, Ways
    <2>4. CASE 2 * seen < Cycle \/ 2 * step < Cycle
      <3>1. ExtendDeadline(p, f, Grace) = end
        BY <1>4, <2>1, <2>4 DEF ReachedDeadline
      <3>2. /\ step <= Grace + MaxLag + 3
            /\ near \in 1 .. Grace + 1 => new \in near .. Grace + 1
        BY <1>7, <1>8, <2>2, <2>3, <2>4, WidthsHold DEF Widths
      <3> QED
        BY <1>3, <1>5, <1>6, <1>9, <1>11, <1>13, <2>1, <3>1, <3>2, WidthsHold
           DEF NearTo, NotBefore, Widths
    <2>5. CASE ~(2 * seen < Cycle \/ 2 * step < Cycle)
      <3>1. ExtendDeadline(p, f, Grace) = p
        BY <1>4, <1>11, <2>1, <2>5 DEF ReachedDeadline
      <3>2. /\ near <= Grace + 1 \/ past <= MaxLag
            /\ late < Grace => near \in Grace - late .. Grace + 1
            /\ back <= Grace + MaxLag + 3
        BY <1>7, <1>8, <2>2, <2>3, <2>5, <2>6, WidthsHold DEF Widths
      <3>3. Distance(p, p) = 0
        BY Ways
      <3> QED
        BY <1>5, <1>6, <1>11, <2>1, <2>6, <3>1, <3>2, <3>3, WidthsHold
           DEF NearTo, NotBefore, Widths
    <2> QED BY <2>4, <2>5
  <1> QED BY <1>10, <1>11

\* The order of deadlines near a moment is transitive.
LEMMA OrderChains ==
  ASSUME NEW now \in Frames, NEW w \in Frames, NEW p \in Frames, NEW e \in Frames,
         NearTo(now, w, MaxLag + 2), NearTo(now, p, MaxLag + 2), NearTo(now, e, MaxLag + 2),
         NotBefore(p, w), NotBefore(e, p)
  PROVE  NotBefore(e, w)
  <1>1. PICK nw \in Int, wn \in Int, np \in Int, pn \in Int, ne \in Int, en \in Int,
             wp \in Int, pe \in Int, we \in Int :
            /\ nw = Distance(now, w) /\ wn = Distance(w, now)
            /\ np = Distance(now, p) /\ pn = Distance(p, now)
            /\ ne = Distance(now, e) /\ en = Distance(e, now)
            /\ wp = Distance(w, p) /\ pe = Distance(p, e) /\ we = Distance(w, e)
    BY Ways
  <1>2. /\ now \in Int /\ w \in Int /\ p \in Int /\ e \in Int
        /\ 0 <= now /\ now < Cycle /\ 0 <= w /\ w < Cycle
        /\ 0 <= p /\ p < Cycle /\ 0 <= e /\ e < Cycle
    BY Ways
  <1>3. /\ nw = (IF now <= w THEN w - now ELSE w - now + Cycle)
        /\ wn = (IF w <= now THEN now - w ELSE now - w + Cycle)
        /\ np = (IF now <= p THEN p - now ELSE p - now + Cycle)
        /\ pn = (IF p <= now THEN now - p ELSE now - p + Cycle)
        /\ ne = (IF now <= e THEN e - now ELSE e - now + Cycle)
        /\ en = (IF e <= now THEN now - e ELSE now - e + Cycle)
    BY <1>1, DistanceIs
  <1>4. /\ wp = (IF w <= p THEN p - w ELSE p - w + Cycle)
        /\ pe = (IF p <= e THEN e - p ELSE e - p + Cycle)
        /\ we = (IF w <= e THEN e - w ELSE e - w + Cycle)
    BY <1>1, DistanceIs
  <1>5. /\ nw <= Grace + 1 \/ wn <= MaxLag + 2
        /\ np <= Grace + 1 \/ pn <= MaxLag + 2
        /\ ne <= Grace + 1 \/ en <= MaxLag + 2
        /\ wp <= Grace + MaxLag + 3 /\ pe <= Grace + MaxLag + 3
    BY <1>1 DEF NearTo, NotBefore
  <1>6. we <= Grace + MaxLag + 3
    BY <1>2, <1>3, <1>4, <1>5, WidthsHold DEF Widths
  <1> QED BY <1>1, <1>6 DEF NotBefore

\* Of two deadlines near a moment, the earlier is reached with the later.
LEMMA ReachedInOrder ==
  ASSUME NEW now \in Frames, NEW w \in Frames, NEW e \in Frames,
         NearTo(now, w, MaxLag + 2), NearTo(now, e, MaxLag + 2), NotBefore(e, w),
         ReachedDeadline(now, e)
  PROVE  ReachedDeadline(now, w)
  <1>1. PICK nw \in Int, wn \in Int, ne \in Int, en \in Int, we \in Int :
            /\ nw = Distance(now, w) /\ wn = Distance(w, now)
            /\ ne = Distance(now, e) /\ en = Distance(e, now)
            /\ we = Distance(w, e)
    BY Ways
  <1>2. /\ now \in Int /\ w \in Int /\ e \in Int
        /\ 0 <= now /\ now < Cycle /\ 0 <= w /\ w < Cycle /\ 0 <= e /\ e < Cycle
    BY Ways
  <1>3. /\ nw = (IF now <= w THEN w - now ELSE w - now + Cycle)
        /\ wn = (IF w <= now THEN now - w ELSE now - w + Cycle)
        /\ ne = (IF now <= e THEN e - now ELSE e - now + Cycle)
        /\ en = (IF e <= now THEN now - e ELSE now - e + Cycle)
        /\ we = (IF w <= e THEN e - w ELSE e - w + Cycle)
    BY <1>1, DistanceIs
  <1>4. /\ nw <= Grace + 1 \/ wn <= MaxLag + 2
        /\ ne <= Grace + 1 \/ en <= MaxLag + 2
        /\ we <= Grace + MaxLag + 3 /\ 2 * en < Cycle
    BY <1>1 DEF NearTo, NotBefore, ReachedDeadline
  <1>5. 2 * wn < Cycle
    BY <1>2, <1>3, <1>4, WidthsHold DEF Widths
  <1> QED BY <1>1, <1>5 DEF ReachedDeadline

\* A deadline near a moment that is not reached is ahead of it.
LEMMA UnreachedIsAhead ==
  ASSUME NEW now \in Frames, NEW e \in Frames, NearTo(now, e, MaxLag + 2),
         ~ReachedDeadline(now, e)
  PROVE  Distance(now, e) <= Grace + 1
  <1>1. Distance(e, now) \in Int
    BY Ways
  <1> QED BY <1>1, WidthsHold DEF NearTo, ReachedDeadline, Widths

\* A deadline ahead of a moment is not reached.
LEMMA AheadIsUnreached ==
  ASSUME NEW now \in Frames, NEW e \in Frames, Distance(now, e) \in 1 .. Grace + 1
  PROVE  ~ReachedDeadline(now, e)
  <1>1. PICK ne \in Int, en \in Int : ne = Distance(now, e) /\ en = Distance(e, now)
    BY Ways
  <1>2. /\ ne = (IF now <= e THEN e - now ELSE e - now + Cycle)
        /\ en = (IF e <= now THEN now - e ELSE now - e + Cycle)
    BY <1>1, DistanceIs
  <1>3. now \in Int /\ e \in Int /\ 0 <= now /\ now < Cycle /\ 0 <= e /\ e < Cycle
    BY Ways
  <1>4. ~(2 * en < Cycle)
    BY <1>1, <1>2, <1>3, WidthsHold DEF Widths
  <1> QED BY <1>1, <1>4 DEF ReachedDeadline

\* How distances change as time goes on by at most two frames.
LEMMA TimeGoesOn ==
  ASSUME NEW a \in Frames, NEW b \in Frames, NEW x \in Frames, Distance(a, b) <= 2
  PROVE  LET d == Distance(a, b)
         IN  /\ d \in 0 .. 2
             /\ Distance(a, x) >= d => Distance(b, x) = Distance(a, x) - d
             /\ Distance(a, x) < d => Distance(x, b) <= 2
             /\ Distance(x, a) + d < Cycle => Distance(x, b) = Distance(x, a) + d
  <1>1. PICK d \in Int, ax \in Int, bx \in Int, xa \in Int, xb \in Int :
            /\ d = Distance(a, b) /\ ax = Distance(a, x) /\ bx = Distance(b, x)
            /\ xa = Distance(x, a) /\ xb = Distance(x, b)
    BY Ways
  <1>2. /\ a \in Int /\ b \in Int /\ x \in Int
        /\ 0 <= a /\ a < Cycle /\ 0 <= b /\ b < Cycle /\ 0 <= x /\ x < Cycle
    BY Ways
  <1>3. /\ d = (IF a <= b THEN b - a ELSE b - a + Cycle)
        /\ ax = (IF a <= x THEN x - a ELSE x - a + Cycle)
        /\ bx = (IF b <= x THEN x - b ELSE x - b + Cycle)
        /\ xa = (IF x <= a THEN a - x ELSE a - x + Cycle)
        /\ xb = (IF x <= b THEN b - x ELSE b - x + Cycle)
    BY <1>1, DistanceIs
  <1>4. d <= 2
    BY <1>1
  <1>5. /\ d \in 0 .. 2
        /\ ax >= d => bx = ax - d
        /\ ax < d => xb <= 2
        /\ xa + d < Cycle => xb = xa + d
    BY <1>2, <1>3, <1>4, WidthsHold DEF Widths
  <1> QED BY <1>1, <1>5
-----------------------------------------------------------------------------
(* How long guards last.                                                   *)

\* Safe mode is about to be published.
ComesOn == Raising \/ (main.pc = "publishing" /\ engineActive)

\* What NextFrame has added since the last update of the windows.
Behind == IF main.pc = "updating" THEN MaxLag + 2 ELSE MaxLag

Near(e) == NearTo(Current, e, Behind)

\* A save's frame number is not too old, nor was that of a save that dated a load.
Lag ==
  /\ saver.pc # "idle" => Distance(saver.frame, frame) <= MaxLag
  /\ early <= MaxLag + 1

\* A date belongs to a window that is open, or opened next, and is near: a window
\* whose date has come is closed before frame numbers could take it for a later one.
DatesAreNear ==
  /\ safe.end # 0 => Near(safe.end) /\ (safe.active \/ ComesOn)
  /\ world.end # 0 => Near(world.end) /\ world.active

\* What is left of the grace is at least what has not passed of it, and was not
\* cut off by a save that dated a load.
Promise ==
  quiet + early < Grace =>
    /\ safe.active \/ ComesOn
    /\ safe.end # 0 => Distance(Current, safe.end) \in Grace - quiet - early .. Grace + 1
    /\ safe.end = 0 => Distance(safe.start, Current) <= quiet

\* The guards are dated not before the end of the load they are for.
Covered ==
  world.end # 0 =>
    /\ safe.end # 0 /\ NotBefore(safe.end, world.end)
    /\ main.pc \notin {"extending", "arming"} =>
         source = "other" /\ (safe.active \/ (main.pc = "publishing" /\ engineActive))

Timing == Lag /\ DatesAreNear /\ Promise /\ Covered

LEMMA InitTiming == Init => Timing
  <1>1. ~(Grace + 0 < Grace) /\ 0 <= MaxLag + 1
    BY WidthsHold DEF Widths
  <1> QED BY <1>1 DEF Init, Timing, Lag, DatesAreNear, Promise, Covered, Closed

\* What the other lemmas need of the types.
LEMMA TimesAreFrames ==
  ASSUME TypeOK
  PROVE  /\ Current \in Frames \ {0} /\ frame \in Frames /\ saver.frame \in Frames
         /\ safe.start \in Frames /\ safe.end \in Frames /\ world.end \in Frames
         /\ quiet \in 0 .. Grace /\ early \in Nat /\ Distance(Current, Current) = 0
  <1>1. Current \in Frames \ {0}
    BY FrameType
  <1>2. Distance(Current, Current) = 0
    BY <1>1, Ways
  <1> QED BY <1>1, <1>2 DEF TypeOK, Window

LEMMA FreeComesNotOn == ASSUME MutexFree PROVE ~ComesOn
  BY DEF MutexFree, LockedPlaces, ComesOn, Raising

LEMMA NearIsNear == ASSUME TypeOK, NEW e \in Frames, Near(e) PROVE NearTo(Current, e, MaxLag + 2)
  <1>1. Distance(e, Current) \in Int
    BY TimesAreFrames, Ways
  <1> QED BY <1>1, WidthsHold DEF Near, NearTo, Behind, Widths

\* A deadline that stays near as the slack shrinks, or grows.
LEMMA NearerIsNear ==
  ASSUME TypeOK, TypeOK', Current' = Current, NEW e \in Frames, NearTo(Current, e, MaxLag)
  PROVE  Near(e)'
  <1>1. Distance(e, Current) \in Int
    BY TimesAreFrames, Ways
  <1> QED BY <1>1, WidthsHold DEF Near, NearTo, Behind, Widths, Distance
-----------------------------------------------------------------------------
(* Steps that date nothing.                                                *)

LEMMA UndatedKeep ==
  ASSUME IInv, Timing, UNCHANGED <<frame, windows, history, source, engine>>,
         Lag', ComesOn' = ComesOn,
         main.pc \notin {"updating", "publishing", "extending", "arming"},
         main'.pc \notin {"updating", "publishing", "extending", "arming"}
  PROVE  Timing'
  BY DEF Timing, DatesAreNear, Promise, Covered, Near, NearTo, Behind, Current, windows, engine, history,
         Distance, NotBefore

LEMMA CanArmTiming == ASSUME IInv, Timing, CanArmCompletionGrace PROVE Timing'
  <1>1. main.pc = "idle" /\ main'.pc = "armed"
    BY DEF CanArmCompletionGrace, MainAt, IInv, TypeOK
  <1>2. Lag' /\ ComesOn' = ComesOn
    BY <1>1 DEF CanArmCompletionGrace, Timing, Lag, ComesOn, Raising, engine, history, Distance
  <1> QED BY <1>1, <1>2, UndatedKeep DEF CanArmCompletionGrace

LEMMA LoadBlocksTiming == ASSUME IInv, Timing, LoadBlocksMutations PROVE Timing'
  <1>1. main.pc = "blocking" /\ main'.pc = "idle"
    BY DEF LoadBlocksMutations, MainAt, IInv, TypeOK
  <1>2. Lag' /\ ComesOn' = ComesOn
    BY <1>1 DEF LoadBlocksMutations, Timing, Lag, ComesOn, Raising, engine, history, Distance
  <1> QED BY <1>1, <1>2, UndatedKeep DEF LoadBlocksMutations

\* A save's steps that leave the main thread where it is.
LEMMA SaverKeeps ==
  ASSUME IInv, Timing, UNCHANGED <<frame, windows, history, source, engine, main>>,
         Lag', ComesOn' = ComesOn
  PROVE  Timing'
  BY DEF Timing, DatesAreNear, Promise, Covered, Near, NearTo, Behind, Current, windows, engine, history,
         Distance, NotBefore

LEMMA SaveGameTiming == ASSUME IInv, Timing, SaveGame PROVE Timing'
  <1>1. Distance(frame, frame) = 0
    BY TimesAreFrames, Ways DEF IInv
  <1>2. Lag'
    BY <1>1, WidthsHold DEF SaveGame, Timing, Lag, Widths, Distance, history
  <1>3. ComesOn' = ComesOn
    BY DEF SaveGame, ComesOn, Raising, engine, history
  <1> QED BY <1>2, <1>3, SaverKeeps DEF SaveGame

LEMMA SaveBlocksTiming == ASSUME IInv, Timing, SaveBlocksMutations PROVE Timing'
  <1>1. Lag'
    BY DEF SaveBlocksMutations, Timing, Lag, history
  <1>2. ComesOn' = ComesOn
    BY DEF SaveBlocksMutations, ComesOn, Raising, engine, history
  <1> QED BY <1>1, <1>2, SaverKeeps DEF SaveBlocksMutations

LEMMA StutterTiming == ASSUME IInv, Timing, UNCHANGED vars PROVE Timing'
  <1>1. Lag' /\ ComesOn' = ComesOn
    BY DEF vars, Timing, Lag, ComesOn, Raising, engine, history, Distance
  <1> QED BY <1>1, SaverKeeps DEF vars

\* What has been raised is published.
LEMMA PublishLoadTiming == ASSUME IInv, Timing, PublishLoad PROVE Timing'
  <1>1. /\ safe'.active = TRUE /\ safe'.start = safe.start /\ safe'.end = safe.end
        /\ source' = "other"
    BY DEF PublishLoad, Publish, Recorded, IInv, TypeOK, Window
  <1>2. main'.pc \in {"idle", "blocking"} /\ main.pc \in {"beginning", "extending", "arming"}
    BY DEF PublishLoad, MainAt, IInv, TypeOK
  <1>3. UNCHANGED <<frame, world, engine, saver, history>>
    BY DEF PublishLoad
  <1> QED
    BY <1>1, <1>2, <1>3
       DEF Timing, Lag, DatesAreNear, Promise, Covered, Near, NearTo, Behind, Current, engine, history,
           Distance, NotBefore

LEMMA PublishSaveTiming == ASSUME IInv, Timing, PublishSave PROVE Timing'
  <1>1. /\ safe'.active = TRUE /\ safe'.start = safe.start /\ safe'.end = safe.end
        /\ source = "other" => source' = "other"
    BY DEF PublishSave, Publish, Recorded, IInv, TypeOK, Window
  <1>2. UNCHANGED <<frame, world, engine, main, history>>
    BY DEF PublishSave
  <1>3. saver.pc = "notifying" /\ saver'.frame = saver.frame
    BY DEF PublishSave, IInv, TypeOK
  <1> QED
    BY <1>1, <1>2, <1>3
       DEF Timing, Lag, DatesAreNear, Promise, Covered, Near, NearTo, Behind, Current, engine, history,
           Distance, NotBefore

LEMMA EndUpdateTiming == ASSUME IInv, Timing, EndUpdate PROVE Timing'
  <1>1. /\ safe'.active = (safe.active \/ engineActive)
        /\ safe'.start = safe.start /\ safe'.end = safe.end
        /\ main.pc = "publishing" /\ main'.pc = "idle"
        /\ safe.active \/ engineActive => source' = source
    BY DEF EndUpdate, UpdatePublishes, IInv, TypeOK, Window
  <1>2. UNCHANGED <<frame, world, engine, saver, history>>
    BY DEF EndUpdate, UpdatePublishes
  <1>3. ~Raising
    BY <1>1 DEF IInv, OneHolder, LockedPlaces, Raising
  <1> QED
    BY <1>1, <1>2, <1>3
       DEF Timing, Lag, DatesAreNear, Promise, Covered, Near, NearTo, Behind, Current, engine, history,
           ComesOn, Distance, NotBefore
-----------------------------------------------------------------------------
(* Steps that date a window.                                               *)

LEMMA PreLoadTiming == ASSUME IInv, Timing, PreLoadGame PROVE Timing'
  <1>1. /\ safe'.start = Current /\ safe'.end = 0 /\ world'.end = 0 /\ quiet' = 0 /\ early' = 0
        /\ main'.pc = "beginning" /\ UNCHANGED <<frame, saver>>
    BY DEF PreLoadGame, MainAt, IInv, TypeOK, Window
  <1>2. Current' = Current /\ Distance(Current, Current)' = 0
    BY <1>1, TimesAreFrames DEF IInv, Current, Distance
  <1>3. ComesOn'
    BY <1>1 DEF ComesOn, Raising
  <1>4. Distance(safe.start, Current)' <= quiet'
    BY <1>1, <1>2 DEF Distance
  <1>5. Lag'
    BY <1>1, WidthsHold DEF Timing, Lag, Distance, Widths
  <1> QED
    BY <1>1, <1>3, <1>4, <1>5 DEF Timing, DatesAreNear, Promise, Covered, Distance

\* A date extended from a frame of late: near, and as far ahead as promised.
LEMMA ExtendedIsNear ==
  ASSUME TypeOK, NEW p \in Frames, p # 0 => Near(p), NEW f \in Frames \ {0},
         Distance(f, Current) <= MaxLag + 1
  PROVE  LET e == ExtendDeadline(p, f, Grace)
         IN  /\ e \in Frames \ {0} /\ e \in {p, Dated(f)} /\ NearTo(Current, e, MaxLag)
             /\ Distance(f, Current) < Grace
                   => Distance(Current, e) \in Grace - Distance(f, Current) .. Grace + 1
             /\ NotBefore(e, Dated(f)) /\ (p # 0 => NotBefore(e, p))
             /\ p # 0 /\ Distance(Current, p) \in 1 .. Grace + 1
                   => Distance(Current, e) \in Distance(Current, p) .. Grace + 1
  <1>1. Current \in Frames \ {0} /\ (p # 0 => NearTo(Current, p, MaxLag + 2))
    BY TimesAreFrames, NearIsNear
  <1> QED BY <1>1, ExtendIsLater

\* Both windows extended from the same frame: safe mode does not end first.
LEMMA BothExtended ==
  ASSUME IInv, Timing
  PROVE  NotBefore(ExtendDeadline(safe.end, Current, Grace), ExtendDeadline(world.end, Current, Grace))
  <1> DEFINE s == ExtendDeadline(safe.end, Current, Grace)
             w == ExtendDeadline(world.end, Current, Grace)
  <1>1. /\ Current \in Frames \ {0} /\ safe.end \in Frames /\ world.end \in Frames
        /\ Distance(Current, Current) <= MaxLag + 1
    BY TimesAreFrames, WidthsHold DEF IInv, Widths
  <1>2. /\ safe.end # 0 => Near(safe.end)
        /\ world.end # 0 => Near(world.end) /\ safe.end # 0 /\ NotBefore(safe.end, world.end)
    BY DEF Timing, DatesAreNear, Covered
  <1>3. /\ s \in Frames /\ NearTo(Current, s, MaxLag) /\ NotBefore(s, Dated(Current))
        /\ safe.end # 0 => NotBefore(s, safe.end)
    BY <1>1, <1>2, ExtendedIsNear DEF IInv
  <1>4. w \in Frames \ {0} /\ w \in {world.end, Dated(Current)}
    BY <1>1, <1>2, ExtendedIsNear DEF IInv
  <1> HIDE DEF s, w
  <1>5. CASE w = Dated(Current)
    BY <1>3, <1>5 DEF s, w
  <1>6. CASE w = world.end
    <2>1. NearTo(Current, s, MaxLag + 2)
      <3>1. Distance(s, Current) \in Int
        BY <1>1, <1>3, Ways
      <3> QED BY <1>3, <3>1, WidthsHold DEF NearTo, Widths
    <2>2. NearTo(Current, safe.end, MaxLag + 2) /\ NearTo(Current, world.end, MaxLag + 2)
      BY <1>1, <1>2, <1>4, <1>6, NearIsNear DEF IInv
    <2> QED BY <1>1, <1>2, <1>3, <1>4, <1>6, <2>1, <2>2, OrderChains DEF s, w
  <1> QED BY <1>4, <1>5, <1>6

\* Raise: the date, and what is promised.
LEMMA RaiseTiming ==
  ASSUME IInv, Timing, NEW f \in Frames \ {0}, Distance(f, Current) <= MaxLag + 1,
         Raise(f), MutexFree, frame' = frame
  PROVE  /\ safe'.end # 0 /\ safe'.end = ExtendDeadline(safe.end, f, Grace)
         /\ NearTo(Current, safe'.end, MaxLag)
         /\ safe.end # 0 => NotBefore(safe'.end, safe.end)
         /\ quiet' + early' < Grace
              => Distance(Current, safe'.end) \in Grace - quiet' - early' .. Grace + 1
         /\ early' <= MaxLag + 1
  <1> DEFINE e == ExtendDeadline(safe.end, f, Grace)
             late == Distance(f, Current)
  <1>1. safe'.end = e
    BY DEF Raise, IInv, TypeOK, Window
  <1>2. /\ safe.end \in Frames /\ quiet \in 0 .. Grace /\ early \in Nat /\ late \in Nat
        /\ late <= MaxLag + 1 /\ early <= MaxLag + 1
    BY TimesAreFrames, DistanceType, FramesAreNumbers DEF IInv, Timing, Lag
  <1>3. safe.end # 0 => Near(safe.end)
    BY DEF Timing, DatesAreNear
  <1>4. /\ e \in Frames \ {0} /\ NearTo(Current, e, MaxLag)
        /\ safe.end # 0 => NotBefore(e, safe.end)
        /\ late < Grace => Distance(Current, e) \in Grace - late .. Grace + 1
        /\ safe.end # 0 /\ Distance(Current, safe.end) \in 1 .. Grace + 1
              => Distance(Current, e) \in Distance(Current, safe.end) .. Grace + 1
    BY <1>2, <1>3, ExtendedIsNear DEF IInv
  <1>5. /\ quiet' = Lowest(quiet, late)
        /\ early' = IF late <= quiet THEN 0
                    ELSE IF safe.end = 0 THEN late - quiet ELSE early
    BY DEF Raise
  <1>6. Distance(Current, e) \in Int /\ Distance(Current, safe.end) \in Int
    BY <1>2, <1>4, TimesAreFrames, Ways DEF IInv
  <1> HIDE DEF e, late
  <1>7. ASSUME quiet' + early' < Grace
        PROVE  Distance(Current, e) \in Grace - quiet' - early' .. Grace + 1
    <2>1. CASE late <= quiet \/ safe.end = 0
      <3>1. quiet' + early' = late
        BY <1>2, <1>5, <2>1, WidthsHold DEF Lowest, Widths
      <3>2. quiet' \in Int /\ early' \in Int
        BY <1>2, <1>5, <2>1, WidthsHold DEF Lowest, Widths
      <3>3. Distance(Current, e) \in Grace - late .. Grace + 1
        BY <1>4, <1>7, <3>1
      <3>4. Grace - late = Grace - quiet' - early'
        BY <3>1, <3>2, WidthsHold DEF Widths
      <3> QED BY <3>3, <3>4
    <2>2. CASE ~(late <= quiet) /\ safe.end # 0
      <3>1. quiet' = quiet /\ early' = early
        BY <1>2, <1>5, <2>2, WidthsHold DEF Lowest, Widths
      <3>2. Distance(Current, safe.end) \in Grace - quiet - early .. Grace + 1
        BY <1>7, <2>2, <3>1 DEF Timing, Promise
      <3>3. Distance(Current, safe.end) \in 1 .. Grace + 1
        BY <1>2, <1>6, <1>7, <3>1, <3>2, WidthsHold DEF Widths
      <3>4. Distance(Current, e) \in Distance(Current, safe.end) .. Grace + 1
        BY <1>4, <2>2, <3>3
      <3> QED BY <1>2, <1>6, <3>1, <3>2, <3>4, WidthsHold DEF Widths
    <2> QED BY <2>1, <2>2
  <1>8. early' <= MaxLag + 1
    BY <1>2, <1>5, WidthsHold DEF Widths
  <1> QED BY <1>1, <1>4, <1>7, <1>8 DEF e

LEMMA ExtendsTiming ==
  ASSUME IInv, IInv', Timing, ExtendsSaveLoadSafeMode, NEW pc \in {"extending", "arming"},
         MainAt(pc)
  PROVE  Timing'
  <1>1. /\ Current \in Frames \ {0} /\ world.end \in Frames
        /\ Distance(Current, Current) <= MaxLag + 1
    BY TimesAreFrames, WidthsHold DEF IInv, Widths
  <1>2. /\ frame' = frame /\ saver' = saver /\ Raise(Current) /\ MutexFree
        /\ Current' = Current
    BY DEF ExtendsSaveLoadSafeMode, Current
  <1>3. /\ world'.active = TRUE
        /\ world'.end = ExtendDeadline(world.end, Current, Grace)
    BY DEF ExtendsSaveLoadSafeMode
  <1>4. /\ safe'.end # 0 /\ safe'.end = ExtendDeadline(safe.end, Current, Grace)
        /\ NearTo(Current, safe'.end, MaxLag)
        /\ quiet' + early' < Grace
              => Distance(Current, safe'.end) \in Grace - quiet' - early' .. Grace + 1
        /\ early' <= MaxLag + 1
    BY <1>1, <1>2, RaiseTiming
  <1>5. world'.end \in Frames \ {0} /\ NearTo(Current, world'.end, MaxLag)
    <2>1. world.end # 0 => Near(world.end)
      BY DEF Timing, DatesAreNear
    <2> QED BY <1>1, <1>3, <2>1, ExtendedIsNear DEF IInv
  <1>6. NotBefore(safe'.end, world'.end)
    BY <1>3, <1>4, BothExtended
  <1>7. main'.pc \in {"extending", "arming"}
    BY DEF MainAt, IInv, TypeOK
  <1>8. ComesOn'
    BY <1>7 DEF ComesOn, Raising
  <1>9. safe'.end \in Frames
    BY DEF IInv, TypeOK, Window
  <1>10. Near(safe.end)' /\ Near(world.end)'
    BY <1>2, <1>4, <1>5, <1>9, NearerIsNear DEF IInv, Near, NearTo, Behind, Distance
  <1>11. Promise'
    BY <1>2, <1>4, <1>8 DEF Promise, Distance
  <1>12. Covered' /\ Lag'
    BY <1>2, <1>4, <1>6, <1>7 DEF Covered, NotBefore, Distance, Timing, Lag
  <1> QED BY <1>3, <1>8, <1>10, <1>11, <1>12 DEF Timing, DatesAreNear

LEMMA PostLoadTiming == ASSUME IInv, IInv', Timing, PostLoadGame PROVE Timing'
  BY ExtendsTiming DEF PostLoadGame

LEMMA ArmTiming == ASSUME IInv, IInv', Timing, ArmCompletionGrace PROVE Timing'
  BY ExtendsTiming DEF ArmCompletionGrace

\* The frame number a save brings with it is at most one further away than Lag
\* says, for the number after zero stands for zero.
LEMMA SaversFrame ==
  ASSUME IInv, Lag, saver.pc # "idle"
  PROVE  FrameOf(saver.frame) \in Frames \ {0} /\ Distance(FrameOf(saver.frame), Current) <= MaxLag + 1
  <1>1. /\ Current \in Frames \ {0} /\ frame \in Frames /\ saver.frame \in Frames
        /\ Distance(Current, Current) = 0 /\ 1 \in Frames /\ 0 \in Frames
    BY TimesAreFrames, FramesAreNumbers DEF IInv
  <1>2. Distance(saver.frame, frame) <= MaxLag
    BY DEF Lag
  <1>3. CASE saver.frame = 0
    BY <1>1, <1>3, WidthsHold DEF FrameOf, Widths
  <1>4. CASE saver.frame # 0 /\ frame # 0
    <2>1. Distance(saver.frame, frame) \in Int
      BY <1>1, Ways
    <2> QED BY <1>1, <1>2, <1>4, <2>1, WidthsHold DEF FrameOf, Current, Widths
  <1>5. CASE saver.frame # 0 /\ frame = 0
    <2>1. PICK a \in Int, b \in Int : a = Distance(saver.frame, 0) /\ b = Distance(saver.frame, 1)
      BY <1>1, Ways
    <2>2. /\ a = (IF saver.frame <= 0 THEN 0 - saver.frame ELSE 0 - saver.frame + Cycle)
          /\ b = (IF saver.frame <= 1 THEN 1 - saver.frame ELSE 1 - saver.frame + Cycle)
      BY <1>1, <2>1, DistanceIs
    <2>3. saver.frame \in Int /\ 0 <= saver.frame /\ saver.frame < Cycle
      BY <1>1, Ways
    <2>4. b <= MaxLag + 1
      BY <1>2, <1>5, <2>1, <2>2, <2>3, WidthsHold DEF Widths
    <2> QED BY <1>1, <1>5, <2>1, <2>4 DEF FrameOf, Current
  <1> QED BY <1>3, <1>4, <1>5

LEMMA RaiseForSaveTiming == ASSUME IInv, IInv', Timing, RaiseForSave PROVE Timing'
  <1> DEFINE f == FrameOf(saver.frame)
  <1>1. f \in Frames \ {0} /\ Distance(f, Current) <= MaxLag + 1
    BY SaversFrame DEF RaiseForSave, Timing
  <1>2. /\ UNCHANGED <<frame, world, source, main, engine>> /\ Raise(f) /\ MutexFree
        /\ Current' = Current
    BY DEF RaiseForSave, Current
  <1>3. saver'.pc = "notifying" /\ saver'.frame = saver.frame
    BY DEF RaiseForSave, IInv, TypeOK
  <1>4. /\ safe'.end # 0
        /\ NearTo(Current, safe'.end, MaxLag)
        /\ safe.end # 0 => NotBefore(safe'.end, safe.end)
        /\ quiet' + early' < Grace
              => Distance(Current, safe'.end) \in Grace - quiet' - early' .. Grace + 1
        /\ early' <= MaxLag + 1
    BY <1>1, <1>2, RaiseTiming
  <1>5. safe'.end \in Frames /\ world.end \in Frames /\ safe.end \in Frames
        /\ Current \in Frames /\ safe'.active = safe.active
    BY <1>2, TimesAreFrames DEF IInv, Raise, TypeOK, Window
  <1>6. ComesOn' /\ ~ComesOn
    BY <1>2, <1>3, FreeComesNotOn DEF ComesOn, Raising
  <1>7. Near(safe.end)'
    BY <1>2, <1>4, <1>5, NearerIsNear DEF IInv, Near, NearTo, Behind, Distance
  <1>8. DatesAreNear'
    BY <1>2, <1>6, <1>7 DEF Timing, DatesAreNear, Near, NearTo, Behind, Current, Distance
  <1>9. Promise'
    BY <1>2, <1>4, <1>6 DEF Promise, Distance
  <1>10. Lag'
    BY <1>2, <1>3, <1>4 DEF Timing, Lag, Distance, RaiseForSave
  <1>11. Covered'
    <2>1. SUFFICES ASSUME world.end # 0 PROVE Covered'
      BY <1>2 DEF Covered
    <2>2. safe.end # 0 /\ NotBefore(safe.end, world.end) /\ Near(safe.end) /\ Near(world.end)
      BY <2>1 DEF Timing, Covered, DatesAreNear
    <2>3. NearTo(Current, safe'.end, MaxLag + 2)
      <3>1. Distance(safe'.end, Current) \in Int
        BY <1>5, Ways
      <3> QED BY <1>4, <3>1, WidthsHold DEF NearTo, Widths
    <2>4. NearTo(Current, safe.end, MaxLag + 2) /\ NearTo(Current, world.end, MaxLag + 2)
      BY <1>5, <2>2, NearIsNear DEF IInv
    <2>5. NotBefore(safe'.end, world.end)
      BY <1>4, <1>5, <2>2, <2>3, <2>4, OrderChains
    <2>6. main.pc \notin {"extending", "arming"} => source = "other" /\ safe.active
      BY <1>2, <2>1 DEF Timing, Covered, MutexFree, LockedPlaces
    <2> QED BY <1>2, <1>4, <1>5, <2>5, <2>6 DEF Covered, NotBefore, Distance
  <1> QED BY <1>8, <1>9, <1>10, <1>11 DEF Timing
-----------------------------------------------------------------------------
(* The update, and the next frame.                                         *)

\* The windows' dates as an update finds them: a window that stays open is ahead.
LEMMA StillAhead ==
  ASSUME IInv, Timing, main.pc = "updating", NEW e \in {safe.end, world.end}, e # 0,
         ~ReachedDeadline(Current, e)
  PROVE  NearTo(Current, e, MaxLag)
  <1>1. Near(e) /\ e \in Frames /\ Current \in Frames
    BY TimesAreFrames DEF Timing, DatesAreNear, IInv
  <1>2. Distance(Current, e) <= Grace + 1
    BY <1>1, NearIsNear, UnreachedIsAhead DEF IInv
  <1> QED BY <1>2 DEF NearTo

\* The world's window after an update: open and ahead, or without a date.
LEMMA WorldAdvances ==
  ASSUME IInv, Timing, main.pc = "updating", MutexFree, NEW replaces \in BOOLEAN,
         Advance(world, replaces, Current).end # 0
  PROVE  LET w == Advance(world, replaces, Current)
         IN  /\ w.active /\ NearTo(Current, w.end, MaxLag) /\ w.end \in Frames
             /\ replaces => w.end = ExtendDeadline(world.end, Current, Grace)
             /\ ~replaces => w.end = world.end /\ ~ReachedDeadline(Current, world.end)
  <1>1. /\ Current \in Frames \ {0} /\ world.end \in Frames
        /\ Distance(Current, Current) <= MaxLag + 1
    BY TimesAreFrames, WidthsHold DEF IInv, Widths
  <1>2. world.end # 0 => Near(world.end) /\ world.active
    BY DEF Timing, DatesAreNear
  <1>3. CASE replaces
    <2>1. LET e == ExtendDeadline(world.end, Current, Grace)
          IN  e \in Frames /\ NearTo(Current, e, MaxLag)
      BY <1>1, <1>2, ExtendedIsNear DEF IInv
    <2> QED BY <1>3, <2>1 DEF Advance
  <1>4. CASE ~replaces
    <2>1. Advance(world, replaces, Current) = world /\ ~Ends(world, Current)
      BY <1>4 DEF Advance, Closed
    <2>2. world.end # 0 /\ world.active /\ ~ReachedDeadline(Current, world.end)
      BY <1>2, <2>1 DEF Ends
    <2>3. NearTo(Current, world.end, MaxLag)
      BY <2>2, StillAhead
    <2> QED BY <1>1, <1>4, <2>1, <2>2, <2>3
  <1> QED BY <1>3, <1>4

\* In a frame with activity both windows are extended, or safe mode alone.
LEMMA ActiveUpdateTiming ==
  ASSUME IInv, IInv', Timing, NEW saving \in BOOLEAN, NEW replaces \in BOOLEAN,
         NEW menu \in BOOLEAN, UpdateWindows(saving, replaces, menu), saving \/ replaces
  PROVE  Timing'
  <1>1. /\ Current \in Frames \ {0} /\ world.end \in Frames /\ safe.end \in Frames
        /\ safe'.end \in Frames /\ Distance(Current, Current) = 0
    BY TimesAreFrames DEF IInv, TypeOK, Window
  <1>2. /\ main.pc = "updating" /\ MutexFree /\ frame' = frame /\ saver' = saver
        /\ quiet' = 0 /\ early' = 0 /\ engineActive' = TRUE /\ Current' = Current
        /\ world' = Advance(world, replaces, Current)
        /\ main'.pc = "publishing"
    BY DEF UpdateWindows, Current
  <1>3. safe'.end = ExtendDeadline(safe.end, Current, Grace)
    BY DEF UpdateWindows, IInv, TypeOK, Window
  <1>4. /\ safe'.end # 0 /\ NearTo(Current, safe'.end, MaxLag)
        /\ Distance(Current, safe'.end) \in Grace .. Grace + 1
        /\ safe.end # 0 => NotBefore(safe'.end, safe.end)
    <2>1. safe.end # 0 => Near(safe.end)
      BY DEF Timing, DatesAreNear
    <2>2. 0 <= MaxLag + 1 /\ 0 < Grace /\ Grace - 0 = Grace
      BY WidthsHold DEF Widths
    <2> DEFINE e == ExtendDeadline(safe.end, Current, Grace)
    <2>3. /\ e \in Frames \ {0} /\ NearTo(Current, e, MaxLag)
          /\ Distance(Current, e) \in Grace - 0 .. Grace + 1
          /\ safe.end # 0 => NotBefore(e, safe.end)
      BY <1>1, <2>1, <2>2, ExtendedIsNear DEF IInv
    <2> QED BY <1>3, <2>2, <2>3
  <1>5. ComesOn'
    BY <1>2 DEF ComesOn
  <1>6. Near(safe.end)'
    BY <1>1, <1>2, <1>4, NearerIsNear DEF IInv, Near, NearTo, Behind, Distance
  <1>7. ASSUME world'.end # 0
        PROVE  /\ Near(world.end)' /\ world'.active /\ NotBefore(safe'.end, world'.end)
               /\ source' = "other"
    <2>1. /\ world'.active /\ NearTo(Current, world'.end, MaxLag) /\ world'.end \in Frames
          /\ replaces => world'.end = ExtendDeadline(world.end, Current, Grace)
          /\ ~replaces => world'.end = world.end
      BY <1>2, <1>7, WorldAdvances
    <2>2. Near(world.end)'
      BY <1>2, <2>1, NearerIsNear DEF IInv, Near, NearTo, Behind, Distance
    <2>3. CASE replaces
      <3>1. NotBefore(safe'.end, world'.end)
        BY <1>3, <2>1, <2>3, BothExtended
      <3>2. source' = "other"
        BY <2>3 DEF UpdateWindows, Recorded
      <3> QED BY <2>1, <2>2, <3>1, <3>2
    <2>4. CASE ~replaces
      <3>1. /\ safe.end # 0 /\ NotBefore(safe.end, world.end) /\ Near(safe.end)
            /\ Near(world.end) /\ source = "other"
        BY <1>2, <1>7, <2>1, <2>4 DEF Timing, Covered, DatesAreNear
      <3>2. NearTo(Current, safe'.end, MaxLag + 2)
        <4>1. Distance(safe'.end, Current) \in Int
          BY <1>1, Ways
        <4> QED BY <1>4, <4>1, WidthsHold DEF NearTo, Widths
      <3>3. NearTo(Current, safe.end, MaxLag + 2) /\ NearTo(Current, world.end, MaxLag + 2)
        BY <1>1, <3>1, NearIsNear DEF IInv
      <3>4. NotBefore(safe'.end, world.end)
        BY <1>1, <1>4, <3>1, <3>2, <3>3, OrderChains
      <3>5. source' = "other"
        BY <3>1 DEF UpdateWindows, Recorded
      <3> QED BY <2>1, <2>2, <2>4, <3>4, <3>5
    <2> QED BY <2>3, <2>4
  <1>8. Promise'
    <2>1. Grace - quiet' - early' = Grace
      BY <1>2, WidthsHold DEF Widths
    <2> QED BY <1>2, <1>4, <1>5, <2>1 DEF Promise, Distance
  <1>9. Lag'
    BY <1>2, WidthsHold DEF Timing, Lag, Distance, Widths
  <1>10. Covered'
    BY <1>2, <1>4, <1>7 DEF Covered, NotBefore, Distance
  <1> QED BY <1>5, <1>6, <1>7, <1>8, <1>9, <1>10 DEF Timing, DatesAreNear

\* In any other frame each window stays or ends; safe mode ends only if the grace
\* is over, and with the load it is for.
LEMMA QuietUpdateTiming ==
  ASSUME IInv, IInv', Timing, NEW saving \in BOOLEAN, NEW replaces \in BOOLEAN,
         NEW menu \in BOOLEAN, UpdateWindows(saving, replaces, menu), ~(saving \/ replaces)
  PROVE  Timing'
  <1>1. /\ Current \in Frames \ {0} /\ world.end \in Frames /\ safe.end \in Frames
        /\ safe.start \in Frames /\ quiet \in 0 .. Grace /\ early \in Nat
    BY TimesAreFrames DEF IInv
  <1>2. /\ main.pc = "updating" /\ MutexFree /\ frame' = frame /\ saver' = saver
        /\ quiet' = quiet /\ early' = early /\ Current' = Current
        /\ world' = Advance(world, FALSE, Current) /\ main'.pc = "publishing"
        /\ safe' = (IF Ends(safe, Current) THEN Closed ELSE safe)
    BY DEF UpdateWindows, Current, history
  <1>3. ~ComesOn
    BY <1>2, FreeComesNotOn
  <1>4. ASSUME safe'.end # 0
        PROVE  safe' = safe /\ safe.active /\ Near(safe.end)'
    <2>1. safe' = safe /\ ~Ends(safe, Current)
      BY <1>2, <1>4 DEF Closed
    <2>2. safe.active /\ safe.end # 0
      BY <1>3, <1>4, <2>1 DEF Timing, DatesAreNear
    <2>3. ~ReachedDeadline(Current, safe.end)
      BY <2>1, <2>2 DEF Ends
    <2>4. NearTo(Current, safe.end, MaxLag)
      BY <1>2, <2>2, <2>3, StillAhead
    <2> QED
      BY <1>1, <1>2, <2>1, <2>2, <2>4, NearerIsNear DEF IInv, Near, NearTo, Behind, Distance
  <1>5. ASSUME world'.end # 0
        PROVE  /\ Near(world.end)' /\ world'.active /\ world'.end = world.end
               /\ ~ReachedDeadline(Current, world.end)
    <2>1. /\ world'.active /\ NearTo(Current, world'.end, MaxLag) /\ world'.end \in Frames
          /\ world'.end = world.end /\ ~ReachedDeadline(Current, world.end)
      BY <1>2, <1>5, WorldAdvances
    <2> QED BY <1>2, <2>1, NearerIsNear DEF IInv, Near, NearTo, Behind, Distance
  <1>6. ASSUME quiet + early < Grace PROVE safe' = safe
    <2>1. CASE safe.end # 0
      <3>1. Distance(Current, safe.end) \in Grace - quiet - early .. Grace + 1
        BY <1>6, <2>1 DEF Timing, Promise
      <3>2. Distance(Current, safe.end) \in 1 .. Grace + 1
        BY <1>1, <1>6, <3>1, WidthsHold DEF Widths
      <3>3. ~ReachedDeadline(Current, safe.end)
        BY <1>1, <3>2, AheadIsUnreached
      <3> QED BY <1>2, <2>1, <3>3 DEF Ends
    <2>2. CASE safe.end = 0
      <3>1. Distance(safe.start, Current) <= quiet
        BY <1>6, <2>2 DEF Timing, Promise
      <3>2. Distance(safe.start, Current) \in Int
        BY <1>1, Ways
      <3>3. ~(Distance(safe.start, Current) >= Fallback)
        BY <1>1, <1>6, <3>1, <3>2, WidthsHold DEF Widths
      <3> QED BY <1>2, <2>2, <3>3 DEF Ends
    <2> QED BY <2>1, <2>2
  <1>7. Promise'
    <2>1. SUFFICES ASSUME quiet + early < Grace PROVE Promise'
      BY <1>2 DEF Promise
    <2>2. safe' = safe /\ safe.active
      BY <1>3, <1>6, <2>1 DEF Timing, Promise
    <2> QED BY <1>2, <2>1, <2>2 DEF Timing, Promise, Distance
  <1>8. Covered'
    <2>1. SUFFICES ASSUME world'.end # 0 PROVE Covered'
      BY DEF Covered
    <2>2. world'.end = world.end /\ ~ReachedDeadline(Current, world.end) /\ world.end # 0
      BY <1>5, <2>1
    <2>3. /\ safe.end # 0 /\ NotBefore(safe.end, world.end) /\ source = "other" /\ safe.active
          /\ Near(safe.end) /\ Near(world.end)
      BY <1>2, <2>2 DEF Timing, Covered, DatesAreNear
    <2>4. NearTo(Current, safe.end, MaxLag + 2) /\ NearTo(Current, world.end, MaxLag + 2)
      BY <1>1, <2>3, NearIsNear DEF IInv
    <2>5. ~ReachedDeadline(Current, safe.end)
      BY <1>1, <2>2, <2>3, <2>4, ReachedInOrder
    <2>6. safe' = safe
      BY <1>2, <2>3, <2>5 DEF Ends
    <2>7. source' = "other"
      BY <2>3 DEF UpdateWindows, Recorded
    <2> QED BY <2>2, <2>3, <2>6, <2>7 DEF Covered, NotBefore, Distance
  <1>9. Lag'
    BY <1>2 DEF Timing, Lag, Distance
  <1> QED BY <1>4, <1>5, <1>7, <1>8, <1>9 DEF Timing, DatesAreNear

LEMMA UpdateTiming == ASSUME IInv, IInv', Timing, Update PROVE Timing'
  BY ActiveUpdateTiming, QuietUpdateTiming, EndUpdateTiming DEF Update

\* The number after the last one is skipped over by at most one.
LEMMA FrameGoesOn ==
  ASSUME TypeOK, frame' = (frame + 1) % Cycle
  PROVE  /\ Current \in Frames /\ Current' \in Frames
         /\ Distance(Current, Current') \in 0 .. 2
         /\ \A x \in Frames : Distance(x, frame) < MaxLag => Distance(x, frame') <= MaxLag
  <1>1. frame \in Frames /\ Current \in Frames /\ frame \in Int /\ 0 <= frame /\ frame < Cycle
    BY TimesAreFrames, Ways
  <1>2. 1 \in 0 .. Fallback
    BY WidthsHold DEF Widths
  <1>3. frame' = IF frame + 1 < Cycle THEN frame + 1 ELSE 0
    <2>1. (frame + 1) % Cycle = IF frame + 1 < Cycle THEN frame + 1 ELSE frame + 1 - Cycle
      BY <1>1, <1>2, SumIs
    <2> QED BY <1>1, <2>1, WidthsHold DEF Widths
  <1>4. frame' \in Frames
    BY <1>1, <1>3, WidthsHold DEF Frames, Widths
  <1>5. Current' \in Frames
    BY <1>4, FramesAreNumbers DEF Current
  <1>6. Distance(Current, Current') \in 0 .. 2
    <2>1. PICK d \in Int : d = Distance(Current, Current')
      BY <1>1, <1>5, Ways
    <2>2. d = IF Current <= Current' THEN Current' - Current ELSE Current' - Current + Cycle
      BY <1>1, <1>5, <2>1, DistanceIs
    <2>3. d \in 0 .. 2
      BY <1>1, <1>3, <2>2, WidthsHold DEF Current, Widths
    <2> QED BY <2>1, <2>3
  <1>7. ASSUME NEW x \in Frames, Distance(x, frame) < MaxLag PROVE Distance(x, frame') <= MaxLag
    <2>1. PICK a \in Int, b \in Int : a = Distance(x, frame) /\ b = Distance(x, frame')
      BY <1>1, <1>4, Ways
    <2>2. /\ a = (IF x <= frame THEN frame - x ELSE frame - x + Cycle)
          /\ b = (IF x <= frame' THEN frame' - x ELSE frame' - x + Cycle)
      BY <1>1, <1>4, <2>1, DistanceIs
    <2>3. x \in Int /\ 0 <= x /\ x < Cycle
      BY <1>1, Ways
    <2>4. b <= MaxLag
      BY <1>1, <1>3, <1>7, <2>1, <2>2, <2>3, WidthsHold DEF Widths
    <2> QED BY <2>1, <2>4
  <1> QED BY <1>1, <1>5, <1>6, <1>7

LEMMA NextFrameTiming == ASSUME IInv, IInv', Timing, NextFrame PROVE Timing'
  <1> DEFINE d == Distance(Current, Current')
  <1>1. /\ main.pc = "idle" /\ main'.pc = "updating"
        /\ frame' = (frame + 1) % Cycle
        /\ quiet' = Lowest(Grace, quiet + d) /\ early' = early
        /\ saver.pc # "idle" => Distance(saver.frame, frame) < MaxLag
        /\ UNCHANGED <<windows, source, engine, saver>>
    BY DEF NextFrame, MainAt, IInv, TypeOK
  <1>2. /\ Current \in Frames /\ Current' \in Frames /\ d \in 0 .. 2
        /\ \A x \in Frames : Distance(x, frame) < MaxLag => Distance(x, frame') <= MaxLag
    BY <1>1, FrameGoesOn DEF IInv
  <1>3. /\ safe.start \in Frames /\ safe.end \in Frames /\ world.end \in Frames
        /\ saver.frame \in Frames /\ quiet \in 0 .. Grace /\ early \in Nat
    BY TimesAreFrames DEF IInv
  <1>4. \A x \in Frames :
           /\ Distance(Current, x) >= d => Distance(Current', x) = Distance(Current, x) - d
           /\ Distance(Current, x) < d => Distance(x, Current') <= 2
           /\ Distance(x, Current) + d < Cycle
                 => Distance(x, Current') = Distance(x, Current) + d
    BY <1>2, TimeGoesOn
  <1> HIDE DEF d
  <1>5. Lag'
    BY <1>1, <1>2, <1>3 DEF Timing, Lag, Distance
  <1>6. ASSUME NEW x \in Frames, Near(x) PROVE NearTo(Current', x, MaxLag + 2)
    <2>1. /\ Distance(Current, x) \in Int /\ Distance(x, Current) \in Int
          /\ Distance(Current', x) \in Int /\ Distance(x, Current') \in Int
      BY <1>2, Ways
    <2>2. Distance(Current, x) <= Grace + 1 \/ Distance(x, Current) <= MaxLag
      BY <1>1, <1>6 DEF Near, NearTo, Behind
    <2> QED BY <1>2, <1>4, <2>1, <2>2, WidthsHold DEF NearTo, Widths
  <1>7. ComesOn' = ComesOn
    BY <1>1 DEF ComesOn, Raising, engine, history
  <1>8. DatesAreNear'
    BY <1>1, <1>3, <1>6, <1>7 DEF Timing, DatesAreNear, Near, NearTo, Behind, windows, Distance
  <1>9. Promise'
    <2>1. SUFFICES ASSUME quiet' + early < Grace PROVE Promise'
      BY <1>1 DEF Promise
    <2>2. quiet' = quiet + d /\ quiet + early < Grace
      BY <1>1, <1>2, <1>3, <2>1, WidthsHold DEF Lowest, Widths
    <2>3. /\ safe.active \/ ComesOn
          /\ safe.end # 0 => Distance(Current, safe.end) \in Grace - quiet - early .. Grace + 1
          /\ safe.end = 0 => Distance(safe.start, Current) <= quiet
      BY <2>2 DEF Timing, Promise
    <2>4. /\ Distance(Current, safe.end) \in Int /\ Distance(safe.start, Current) \in Int
          /\ Distance(Current', safe.end) \in Int
      BY <1>2, <1>3, Ways
    <2>5. safe.end # 0 => Distance(Current', safe.end) \in Grace - quiet' - early .. Grace + 1
      BY <1>2, <1>3, <1>4, <2>1, <2>2, <2>3, <2>4, WidthsHold DEF Widths
    <2>6. safe.end = 0 => Distance(safe.start, Current') <= quiet'
      BY <1>2, <1>3, <1>4, <2>1, <2>2, <2>3, <2>4, WidthsHold DEF Widths
    <2> QED BY <1>1, <1>7, <2>3, <2>5, <2>6 DEF Promise, windows, Distance
  <1>10. Covered'
    BY <1>1 DEF Timing, Covered, windows, engine, history, NotBefore, Distance
  <1> QED BY <1>5, <1>8, <1>9, <1>10 DEF Timing
-----------------------------------------------------------------------------
LEMMA TimingInvariance == Spec => []Timing
  <1>1. IInv /\ IInv' /\ Timing /\ [Next]_vars => Timing'
    BY NextFrameTiming, PreLoadTiming, PostLoadTiming, CanArmTiming, ArmTiming,
       PublishLoadTiming, LoadBlocksTiming, SaveGameTiming, RaiseForSaveTiming,
       PublishSaveTiming, SaveBlocksTiming, UpdateTiming, StutterTiming
       DEF Next, Load, LoadGoesOn, SaveGoesOn
  <1> QED BY InitTiming, <1>1, Invariance, PTL DEF Spec

\* For the grace after the frame of a message, and after the last frame with
\* activity, every guard is up whenever the mutex is free, whatever the width of the
\* frame numbers and wherever they wrap.  A load whose deadline is given by a save
\* that read the frame before its message is guarded from the save's frame: less
\* than the grace after its own message, by MaxLag + 1 frames at most.
THEOREM GuardsLastTheGrace == Spec => []GuardsLast
  <1>1. IInv /\ Timing => GuardsLast
    BY FreeComesNotOn DEF IInv, GuardsAgree, Timing, Lag, Promise, GuardsLast
  <1> QED BY <1>1, Invariance, TimingInvariance, PTL

\* While a load whose end has been seen is guarded, safe mode is on, and what it
\* has to recover from is recorded as a load, whatever saves come in between.
THEOREM LoadsAreGuarded == Spec => []LoadsStayGuarded
  <1>1. Timing => LoadsStayGuarded
    BY DEF Timing, Covered, LoadsStayGuarded, MutexFree, LockedPlaces
  <1> QED BY <1>1, TimingInvariance, PTL
=============================================================================
