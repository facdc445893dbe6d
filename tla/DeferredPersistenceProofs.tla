---------------------- MODULE DeferredPersistenceProofs ---------------------
(***************************************************************************)
(* For any number of compiles and paths, any bounds and any history of     *)
(* blocks: a clear is final, and the queue keeps what it promises.         *)
(*                                                                         *)
(* A clear is final because whoever holds the disk mutation lock to save   *)
(* has compared its generation with the cache's, and the generation moves  *)
(* only while nobody holds it.  The queue's invariant QInv says where each *)
(* accepted write is: what waits is for different blobs and is the newest  *)
(* for each; what the writer holds is for different blobs too, and if a    *)
(* newer write for one of them was accepted, one still waits; the room of  *)
(* what the writer holds stays counted until it has been put back.         *)
(***************************************************************************)
EXTENDS DeferredPersistence, FiniteSetTheorems, TLAPS

HoldsTheLock(a) == pc[a] \in {"writing", "recording"}

\* The variables the argument speaks of are functions over what they index.
Shape ==
    /\ generation \in Nat
    /\ pc \in [Actors -> Places]
    /\ job = [a \in Actors |-> job[a]]
    /\ file \in [Paths -> Int] /\ manifest \in [Paths -> Int]
    /\ clearedAt \in [Paths -> Nat] /\ undeleted \subseteq Paths

\* Nothing was cleared in the future.
ClearsAreBehind == \A p \in Paths : clearedAt[p] <= generation

\* A save in progress belongs to the cache's present generation.
SavesAreCurrent == \A a \in Actors : HoldsTheLock(a) => job[a].gen = generation

\* Who is about to record a digest has written the file it speaks of.
FilesComeFirst ==
    \A a \in Actors :
        pc[a] = "recording" /\ job[a].path \in Paths => file[job[a].path] = generation

IInv == Shape /\ ClearsAreBehind /\ SavesAreCurrent /\ FilesComeFirst /\ NothingIsResurrected

-----------------------------------------------------------------------------
\* The invariant holds initially.
LEMMA InitEstablishes == Init => IInv
<1> SUFFICES ASSUME Init PROVE IInv
  OBVIOUS
<1>1. Shape
  BY DEF Init, Shape, Places, Nothing
<1>2. ClearsAreBehind /\ SavesAreCurrent /\ FilesComeFirst /\ NothingIsResurrected
  BY DEF Init, ClearsAreBehind, SavesAreCurrent, HoldsTheLock, FilesComeFirst,
         NothingIsResurrected, Nothing
<1> QED
  BY <1>1, <1>2 DEF IInv

\* A step that saves nothing, clears nothing and lets nobody into the lock.
LEMMA NeutralStep ==
    ASSUME IInv, pc' \in [Actors -> Places],
           \A a \in Actors : pc'[a] \in {"writing", "recording"} => pc'[a] = pc[a] /\ job'[a] = job[a],
           job' = [a \in Actors |-> job'[a]],
           UNCHANGED <<generation, file, manifest, clearedAt, undeleted>>
    PROVE  IInv'
<1>1. Shape' /\ ClearsAreBehind'
  BY DEF IInv, Shape, ClearsAreBehind
<1>2. SavesAreCurrent'
  BY DEF IInv, SavesAreCurrent, HoldsTheLock
<1>3. NothingIsResurrected'
  BY DEF IInv, NothingIsResurrected
<1>4. FilesComeFirst'
  BY DEF IInv, FilesComeFirst
<1> QED
  BY <1>1, <1>2, <1>3, <1>4 DEF IInv

\* A thread moves to a place outside the lock, the others stay.
LEMMA MoveStep ==
    ASSUME IInv, NEW a \in Actors, NEW where \in Places \ {"writing", "recording"},
           Goto(a, where), UNCHANGED <<generation, file, manifest, clearedAt, undeleted, job>>
    PROVE  IInv'
<1>1. /\ pc' \in [Actors -> Places] /\ pc'[a] = where
      /\ \A b \in Actors \ {a} : pc'[b] = pc[b]
  BY DEF IInv, Shape, Goto
<1>2. job' = [b \in Actors |-> job'[b]]
  BY DEF IInv, Shape
<1> QED
  BY <1>1, <1>2, NeutralStep

\* A step that moves nobody and writes nothing preserves the invariant.
LEMMA StayStep ==
    ASSUME IInv, UNCHANGED <<generation, file, manifest, clearedAt, undeleted, pc, job>>
    PROVE  IInv'
<1>1. pc' \in [Actors -> Places] /\ job' = [b \in Actors |-> job'[b]]
  BY DEF IInv, Shape
<1> QED
  BY <1>1, NeutralStep

\* Waking the writer preserves the invariant.
LEMMA WakeStep ==
    ASSUME IInv, Wake, UNCHANGED <<generation, file, manifest, clearedAt, undeleted, job>>
    PROVE  IInv'
<1>1. /\ pc' \in [Actors -> Places]
      /\ pc'[Writer] = pc[Writer] \/ pc'[Writer] = "ready"
      /\ \A b \in Actors \ {Writer} : pc'[b] = pc[b]
  BY DEF IInv, Shape, Wake, Actors, Places
<1>2. job' = [b \in Actors |-> job'[b]]
  BY DEF IInv, Shape
<1> QED
  BY <1>1, <1>2, NeutralStep

\* The generation moves on while nobody holds the lock, and takes the entries of
\* some paths with it, and their files but for some.
LEMMA AdvanceStep ==
    ASSUME IInv, NoSaveInProgress, generation' = generation + 1,
           UNCHANGED <<pc, job>>, NEW P \in SUBSET Paths, NEW stuck \in SUBSET P,
           file' = [p \in Paths |-> IF p \in P \ stuck THEN Nothing ELSE file[p]],
           manifest' = [p \in Paths |-> IF p \in P THEN Nothing ELSE manifest[p]],
           undeleted' = (undeleted \ P) \cup stuck,
           clearedAt' = [p \in Paths |-> IF p \in P THEN generation' ELSE clearedAt[p]]
    PROVE  IInv'
<1>1. Shape'
  BY DEF IInv, Shape, Nothing
<1>2. ClearsAreBehind'
  BY DEF IInv, Shape, ClearsAreBehind
<1>3. SavesAreCurrent' /\ FilesComeFirst'
  BY DEF NoSaveInProgress, SavesAreCurrent, HoldsTheLock, FilesComeFirst
<1>4. NothingIsResurrected'
  BY DEF IInv, Shape, NothingIsResurrected
<1> QED
  BY <1>1, <1>2, <1>3, <1>4 DEF IInv

\* Beginning a generation that erases nothing, while nothing is saved, preserves the invariant.
LEMMA QuietAdvanceStep ==
    ASSUME IInv, NoSaveInProgress, generation' = generation + 1,
           UNCHANGED <<pc, job, file, manifest, clearedAt, undeleted>>
    PROVE  IInv'
<1>1. /\ file' = [p \in Paths |-> IF p \in {} \ {} THEN Nothing ELSE file[p]]
      /\ manifest' = [p \in Paths |-> IF p \in {} THEN Nothing ELSE manifest[p]]
      /\ clearedAt' = [p \in Paths |-> IF p \in {} THEN generation' ELSE clearedAt[p]]
      /\ undeleted' = (undeleted \ {}) \cup {}
  BY DEF IInv, Shape
<1>2. {} \in SUBSET Paths /\ {} \in SUBSET {} /\ UNCHANGED <<pc, job>>
  OBVIOUS
<1> QED
  BY <1>1, <1>2, AdvanceStep
-----------------------------------------------------------------------------
\* A point update, wherever the point lies.
LEMMA PointUpdate ==
    ASSUME NEW D, NEW R, NEW f \in [D -> R], NEW x, NEW v \in R
    PROVE  /\ [f EXCEPT ![x] = v] \in [D -> R]
           /\ \A y \in D : [f EXCEPT ![x] = v][y] = IF y = x THEN v ELSE f[y]
OBVIOUS

\* Saving the bytecode preserves the invariant.
LEMMA SavePreserves ==
    ASSUME IInv, NEW a \in Actors, Save(a)
    PROVE  IInv'
<1> DEFINE after == IF a = Writer THEN "working" ELSE "idle"
<1>1. after \in Places \ {"writing", "recording"}
  BY DEF Places
<1>2. CASE SaveBegin(a)
  <2>1. UNCHANGED <<generation, file, manifest, clearedAt, undeleted, job>>
    BY <1>2 DEF SaveBegin, disk
  <2>2. CASE job[a].gen = generation
    <3>1. Goto(a, "writing")
      BY <1>2, <2>2 DEF SaveBegin
    <3>2. /\ pc' \in [Actors -> Places]
          /\ \A b \in Actors \ {a} : pc'[b] = pc[b]
      BY <3>1 DEF Goto, IInv, Shape, Places
    <3>3. Shape' /\ ClearsAreBehind' /\ NothingIsResurrected'
      BY <2>1, <3>2 DEF IInv, Shape, ClearsAreBehind, NothingIsResurrected
    <3>4. SavesAreCurrent'
      BY <2>1, <2>2, <3>2 DEF IInv, SavesAreCurrent, HoldsTheLock
    <3>5. FilesComeFirst'
      <4>1. pc'[a] = "writing"
        BY <3>1 DEF Goto, IInv, Shape
      <4> QED
        BY <2>1, <3>2, <4>1 DEF IInv, FilesComeFirst
    <3> QED
      BY <3>3, <3>4, <3>5 DEF IInv
  <2>3. CASE job[a].gen # generation
    <3>1. Goto(a, after)
      BY <1>2, <2>3 DEF SaveBegin, EndSave
    <3> QED
      BY <1>1, <2>1, <3>1, MoveStep
  <2> QED
    BY <2>2, <2>3
<1>3. CASE WriteCachedShaderBlob(a)
  <2>1. /\ pc[a] = "writing" /\ Goto(a, "recording")
        /\ file' = [file EXCEPT ![job[a].path] = job[a].gen]
        /\ undeleted' = undeleted \ {job[a].path}
        /\ UNCHANGED <<generation, manifest, clearedAt, job>>
    BY <1>3 DEF WriteCachedShaderBlob
  <2>2. job[a].gen = generation /\ generation \in Nat
    BY <2>1 DEF IInv, Shape, SavesAreCurrent, HoldsTheLock
  <2>3. pc' \in [Actors -> Places] /\ \A b \in Actors \ {a} : pc'[b] = pc[b]
    BY <2>1 DEF Goto, IInv, Shape, Places
  <2>4. /\ file' \in [Paths -> Int]
        /\ \A p \in Paths : file'[p] = IF p = job[a].path THEN generation ELSE file[p]
    <3> DEFINE path == job[a].path
    <3>1. file' = [file EXCEPT ![path] = generation]
      BY <2>1, <2>2
    <3>2. file \in [Paths -> Int] /\ generation \in Int
      BY <2>2 DEF IInv, Shape
    <3> HIDE DEF path
    <3>3. /\ file' \in [Paths -> Int]
          /\ \A p \in Paths : file'[p] = IF p = path THEN generation ELSE file[p]
      BY <3>1, <3>2, PointUpdate
    <3> QED
      BY <3>3 DEF path
  <2>8. manifest' = manifest /\ clearedAt' = clearedAt
    BY <2>1
  <2>5. Shape' /\ ClearsAreBehind'
    BY <2>1, <2>3, <2>4 DEF IInv, Shape, ClearsAreBehind
  <2>6. SavesAreCurrent'
    BY <2>1, <2>2, <2>3 DEF IInv, SavesAreCurrent, HoldsTheLock
  <2>7. NothingIsResurrected'
    <3>1. \A p \in Paths : /\ clearedAt[p] \in Nat /\ clearedAt[p] <= generation
                          /\ generation \in Nat /\ generation >= clearedAt[p]
      BY DEF IInv, Shape, ClearsAreBehind
    <3> SUFFICES ASSUME NEW p \in Paths
                 PROVE  /\ file'[p] # Nothing => file'[p] >= clearedAt[p] \/ p \in undeleted'
                        /\ manifest[p] # Nothing =>
                              manifest[p] >= clearedAt[p] /\ file'[p] >= clearedAt[p]
      BY <2>8 DEF NothingIsResurrected
    <3>2. CASE p = job[a].path
      BY <2>4, <3>1, <3>2 DEF IInv, NothingIsResurrected
    <3>3. CASE p # job[a].path
      BY <2>1, <2>4, <3>3 DEF IInv, NothingIsResurrected
    <3> QED
      BY <3>2, <3>3
  <2>9. FilesComeFirst'
    <3>1. SUFFICES ASSUME NEW b \in Actors, pc'[b] = "recording", job'[b].path \in Paths
                   PROVE  file'[job'[b].path] = generation'
      BY DEF FilesComeFirst
    <3>2. job' = job /\ generation' = generation
      BY <2>1
    <3>3. CASE job[b].path = job[a].path
      BY <2>4, <3>1, <3>2, <3>3
    <3>4. CASE job[b].path # job[a].path
      <4>1. b # a
        BY <3>4
      <4>2. pc[b] = "recording"
        BY <2>3, <3>1, <4>1
      <4> QED
        BY <2>4, <3>1, <3>2, <3>4, <4>2 DEF IInv, FilesComeFirst
    <3> QED
      BY <3>3, <3>4
  <2> QED
    BY <2>5, <2>6, <2>7, <2>9 DEF IInv
<1>4. CASE WriteFails(a)
  <2>1. Goto(a, after) /\ UNCHANGED <<generation, file, manifest, clearedAt, undeleted, job>>
    BY <1>4 DEF WriteFails, EndSave, disk
  <2> QED
    BY <1>1, <2>1, MoveStep
<1>5. CASE RecordShaderDigest(a)
  <2>1. /\ pc[a] = "recording" /\ Goto(a, after)
        /\ manifest' = [manifest EXCEPT ![job[a].path] = job[a].gen]
        /\ UNCHANGED <<generation, file, clearedAt, undeleted, job>>
    BY <1>5 DEF RecordShaderDigest, EndSave
  <2>2. job[a].gen = generation /\ generation \in Nat
    BY <2>1 DEF IInv, Shape, SavesAreCurrent, HoldsTheLock
  <2>3. /\ pc' \in [Actors -> Places] /\ pc'[a] = after
        /\ \A b \in Actors \ {a} : pc'[b] = pc[b]
    BY <1>1, <2>1 DEF Goto, IInv, Shape
  <2>4. /\ manifest' \in [Paths -> Int]
        /\ \A p \in Paths :
              manifest'[p] = IF p = job[a].path THEN generation ELSE manifest[p]
    <3> DEFINE path == job[a].path
    <3>1. manifest' = [manifest EXCEPT ![path] = generation]
      BY <2>1, <2>2
    <3>2. manifest \in [Paths -> Int] /\ generation \in Int
      BY <2>2 DEF IInv, Shape
    <3> HIDE DEF path
    <3>3. /\ manifest' \in [Paths -> Int]
          /\ \A p \in Paths : manifest'[p] = IF p = path THEN generation ELSE manifest[p]
      BY <3>1, <3>2, PointUpdate
    <3> QED
      BY <3>3 DEF path
  <2>8. file' = file /\ clearedAt' = clearedAt /\ undeleted' = undeleted
    BY <2>1
  <2>5. Shape' /\ ClearsAreBehind'
    BY <2>1, <2>3, <2>4 DEF IInv, Shape, ClearsAreBehind
  <2>6. SavesAreCurrent'
    BY <1>1, <2>1, <2>3 DEF IInv, SavesAreCurrent, HoldsTheLock
  <2>7. NothingIsResurrected'
    <3>1. \A p \in Paths : /\ clearedAt[p] \in Nat /\ clearedAt[p] <= generation
                          /\ generation \in Nat /\ generation >= clearedAt[p]
      BY DEF IInv, Shape, ClearsAreBehind
    <3> SUFFICES ASSUME NEW p \in Paths
                 PROVE  manifest'[p] # Nothing =>
                            manifest'[p] >= clearedAt[p] /\ file[p] >= clearedAt[p]
      BY <2>8 DEF IInv, NothingIsResurrected
    <3>2. CASE p = job[a].path
      <4>1. file[p] = generation
        BY <2>1, <3>2 DEF IInv, FilesComeFirst
      <4> QED
        BY <2>4, <3>1, <3>2, <4>1
    <3>3. CASE p # job[a].path
      BY <2>4, <3>3 DEF IInv, NothingIsResurrected
    <3> QED
      BY <3>2, <3>3
  <2>9. FilesComeFirst'
    BY <1>1, <2>1, <2>3 DEF IInv, FilesComeFirst
  <2> QED
    BY <2>5, <2>6, <2>7, <2>9 DEF IInv
<1> QED
  BY <1>2, <1>3, <1>4, <1>5 DEF Save

\* The steps of a compile preserve the invariant.
LEMMA CompilerPreserves ==
    ASSUME IInv, NEW c \in Compilers, Persist(c) \/ \E p \in Paths : StartCompile(c, p)
    PROVE  IInv'
<1>1. c \in Actors
  BY DEF Actors
<1>2. CASE \E p \in Paths : StartCompile(c, p)
  <2>1. PICK p \in Paths : StartCompile(c, p)
    BY <1>2
  <2>2. /\ pc' \in [Actors -> Places] /\ pc'[c] = "compiling"
        /\ \A b \in Actors \ {c} : pc'[b] = pc[b] /\ job'[b] = job[b]
        /\ job' = [b \in Actors |-> job'[b]]
        /\ UNCHANGED <<generation, file, manifest, clearedAt, undeleted>>
    BY <1>1, <2>1 DEF StartCompile, Goto, disk, IInv, Shape, Places
  <2> QED
    BY <2>2, NeutralStep
<1>3. CASE PersistNothing(c)
  <2>1. Goto(c, "idle") /\ UNCHANGED <<generation, file, manifest, clearedAt, undeleted, job>>
    BY <1>3 DEF PersistNothing, disk
  <2> QED
    BY <1>1, <2>1, MoveStep DEF Places
<1>4. CASE PersistCompiledShaderBlob(c)
  <2>1. /\ Goto(c, IF blocked THEN "deferring" ELSE "saving")
        /\ UNCHANGED <<generation, file, manifest, clearedAt, undeleted, job>>
    BY <1>4 DEF PersistCompiledShaderBlob, disk
  <2> QED
    BY <1>1, <2>1, MoveStep DEF Places
<1>5. CASE DeferWrite(c)
  <2>1. /\ pc' = [pc EXCEPT ![c] = "idle", ![Writer] = IF @ = "asleep" THEN "ready" ELSE @]
        /\ UNCHANGED <<generation, file, manifest, clearedAt, undeleted, job>>
    BY <1>5 DEF DeferWrite, Enqueue, disk
  <2>2. /\ pc' \in [Actors -> Places] /\ job' = [b \in Actors |-> job'[b]]
        /\ \A b \in Actors : pc'[b] = pc[b] \/ pc'[b] \in {"idle", "ready"}
    BY <1>1, <2>1, WriterIsNoCompiler DEF IInv, Shape, Places, Actors
  <2> QED
    BY <2>1, <2>2, NeutralStep
<1>6. CASE Save(c)
  BY <1>1, <1>6, SavePreserves
<1> QED
  BY <1>2, <1>3, <1>4, <1>5, <1>6 DEF Persist

\* The steps of the writer preserve the invariant.
LEMMA WriterPreserves ==
    ASSUME IInv, WriterStep
    PROVE  IInv'
<1>1. Writer \in Actors
  BY DEF Actors
<1>2. ASSUME NEW where \in Places \ {"writing", "recording"}, Goto(Writer, where),
             UNCHANGED <<generation, file, manifest, clearedAt, undeleted, job>>
      PROVE  IInv'
  BY <1>1, <1>2, MoveStep
<1>3. CASE WriterWaits
  BY <1>2, <1>3 DEF WriterWaits, disk, Places
<1>4. CASE WriterSleeps
  BY <1>2, <1>4 DEF WriterSleeps, disk, Places
<1>5. CASE WriterTakes
  BY <1>2, <1>5 DEF WriterTakes, Extract, disk, Places
<1>6. CASE WriterProceeds
  <2>1. CASE active
    <3>1. /\ Goto(Writer, "saving") /\ UNCHANGED <<generation, file, manifest, clearedAt, undeleted>>
          /\ \E j : job' = [job EXCEPT ![Writer] = j]
      BY <1>6, <2>1 DEF WriterProceeds, disk
    <3>2. /\ pc' \in [Actors -> Places] /\ pc'[Writer] = "saving"
          /\ \A b \in Actors \ {Writer} : pc'[b] = pc[b] /\ job'[b] = job[b]
          /\ job' = [b \in Actors |-> job'[b]]
      BY <1>1, <3>1 DEF Goto, IInv, Shape, Places
    <3> QED
      BY <3>1, <3>2, NeutralStep
  <2>2. CASE ~active
    <3>1. UNCHANGED <<generation, file, manifest, clearedAt, undeleted, pc, job>>
      BY <1>6, <2>2 DEF WriterProceeds, disk
    <3> QED
      BY <3>1, StayStep
  <2> QED
    BY <2>1, <2>2
<1>7. CASE Save(Writer)
  BY <1>1, <1>7, SavePreserves
<1>8. CASE WriterSettles
  <2>1. Goto(Writer, "requeueing") /\ UNCHANGED <<generation, file, manifest, clearedAt, undeleted, job>>
    BY <1>8 DEF WriterSettles, Settles, disk
  <2> QED
    BY <1>2, <2>1 DEF Places
<1>12. CASE WriterRequeues
  BY <1>12, StayStep DEF WriterRequeues, disk
<1>13. CASE WriterFinishes
  <2>1. /\ \/ Goto(Writer, "flushing")
           \/ Goto(Writer, "ready")
        /\ UNCHANGED <<generation, file, manifest, clearedAt, undeleted, job>>
    BY <1>13 DEF WriterFinishes, FinishBatch, disk
  <2> QED
    BY <1>2, <2>1 DEF Places
<1>9. CASE WriterFlushes
  <2>1. /\ \/ Goto(Writer, "deferringFlush")
           \/ Goto(Writer, "ready")
        /\ UNCHANGED <<generation, file, manifest, clearedAt, undeleted, job>>
    BY <1>9 DEF WriterFlushes
  <2> QED
    BY <1>2, <2>1 DEF Places
<1>10. CASE WriterDefersFlush
  BY <1>2, <1>10 DEF WriterDefersFlush, disk, Places
<1>11. CASE WriterExits
  BY <1>2, <1>11 DEF WriterExits, disk, Places
<1> QED
  BY <1>3, <1>4, <1>5, <1>6, <1>7, <1>8, <1>9, <1>10, <1>11, <1>12, <1>13
     DEF WriterStep

\* Invalidating the cache preserves the invariant.
LEMMA InvalidationPreserves ==
    ASSUME IInv, \/ Clear \/ SetDiskCache
                 \/ \E P \in SUBSET Paths \ {{}} : DeleteScopedDiskCacheEntries(P)
    PROVE  IInv'
<1>1. CASE Clear
  BY <1>1, QuietAdvanceStep DEF Clear, Advance
<1>2. CASE SetDiskCache
  <2>1. CASE active
    BY <1>2, <2>1, QuietAdvanceStep DEF SetDiskCache
  <2>2. CASE ~active
    BY <1>2, <2>2, StayStep DEF SetDiskCache
  <2> QED
    BY <2>1, <2>2
<1>3. CASE \E P \in SUBSET Paths \ {{}} : DeleteScopedDiskCacheEntries(P)
  <2>1. PICK P \in SUBSET Paths : DeleteScopedDiskCacheEntries(P)
    BY <1>3
  <2> QED
    BY <2>1, AdvanceStep DEF DeleteScopedDiskCacheEntries, Advance
<1> QED
  BY <1>1, <1>2, <1>3

\* The steps of the main thread preserve the invariant.
LEMMA MainThreadPreserves ==
    ASSUME IInv, \/ Block \/ Unblock \/ CompletionFlushes \/ CloseIntake
                 \/ WriterWakes \/ Teardown
    PROVE  IInv'
<1>1. CASE Block \/ Unblock \/ CompletionFlushes \/ CloseIntake
  BY <1>1, StayStep DEF Block, Unblock, CompletionFlushes, CloseIntake, disk
<1>2. CASE WriterWakes \/ UnblockNotifies \/ StopWriter
  BY <1>2, WakeStep DEF WriterWakes, UnblockNotifies, StopWriter, disk
<1>3. CASE JoinWriter
  BY <1>3, QuietAdvanceStep DEF JoinWriter
<1> QED
  BY <1>1, <1>2, <1>3 DEF Teardown

\* Every step preserves the invariant.
LEMMA StepPreserves == IInv /\ [Next]_vars => IInv'
<1> SUFFICES ASSUME IInv, [Next]_vars PROVE IInv'
  OBVIOUS
<1>1. CASE \E c \in Compilers : Persist(c) \/ \E p \in Paths : StartCompile(c, p)
  BY <1>1, CompilerPreserves
<1>2. CASE WriterStep
  BY <1>2, WriterPreserves
<1>3. CASE \/ Clear \/ SetDiskCache
           \/ \E P \in SUBSET Paths \ {{}} : DeleteScopedDiskCacheEntries(P)
  BY <1>3, InvalidationPreserves
<1>4. CASE \/ Block \/ Unblock \/ CompletionFlushes \/ CloseIntake \/ WriterWakes \/ Teardown
  BY <1>4, MainThreadPreserves
<1>5. CASE UNCHANGED vars
  BY <1>5, StayStep DEF vars, disk
<1> QED
  BY <1>1, <1>2, <1>3, <1>4, <1>5 DEF Next

\* The invariant holds in every reachable state.
THEOREM InductiveInvariant == Spec => []IInv
BY InitEstablishes, StepPreserves, PTL DEF Spec

\* "Advancing the generation then prevents deferred or waiting writes from
\* resurrecting a blob selected by this clear" (DeleteScopedDiskCacheEntries):
\* no path's manifest entry, nor the file it vouches for, is older than the path's
\* last clear, and no file is unless that clear could not remove it.
THEOREM ClearsAreFinal == Spec => []NothingIsResurrected
<1>1. IInv => NothingIsResurrected
  BY DEF IInv
<1> QED
  BY <1>1, InductiveInvariant, PTL

\* The lock is enough: a save that holds it was compiled in the generation
\* the cache has now, so what it records describes the present inputs.
THEOREM SavesInProgressAreCurrent == Spec => []SavesAreCurrent
<1>1. IInv => SavesAreCurrent
  BY DEF IInv
<1> QED
  BY <1>1, InductiveInvariant, PTL
-----------------------------------------------------------------------------
(* The queue.                                                              *)

Saving == pc[Writer] \in {"saving", "writing", "recording"}
Holding == pc[Writer] \in {"working", "requeueing"} \/ Saving

Entries == [path : Paths, gen : Generations, fate : Fate]
Accepted == 1 .. Len(log)

QueueTypes ==
    /\ log \in Seq(Entries) /\ writes \in SUBSET Accepted /\ batch \in Seq(Accepted)
    /\ order \in Seq(Paths \X Generations)
    /\ inFlight \in Nat /\ extracted = inFlight

\* What the writer has in its hands is for different blobs, and in no queue.
Unmixed ==
    /\ ~Holding => batch = <<>>
    /\ ~Holding \/ pc[Writer] = "requeueing" => extracted = 0
    /\ pc[Writer] # "requeueing" => Len(batch) <= extracted
    /\ \A m, n \in 1 .. Len(batch) : Key(batch[m]) = Key(batch[n]) => m = n
    /\ \A n \in 1 .. Len(batch) : batch[n] \notin writes
    /\ Saving =>
         /\ job[Writer].id \in Accepted /\ job[Writer].id \notin writes
         /\ \A n \in 1 .. Len(batch) : Key(batch[n]) # Key(job[Writer].id)

\* What waits is for different blobs, and listed in some order; there is room for it.
Listed ==
    /\ \A i, j \in writes : Key(i) = Key(j) => i = j
    /\ \A n \in 1 .. Len(order) : \E i \in writes : Key(i) = order[n]
    /\ \A i \in writes : \E n \in 1 .. Len(order) : order[n] = Key(i)
    /\ \A m, n \in 1 .. Len(order) : order[m] = order[n] => m = n
    /\ Cardinality(writes) + inFlight + Returning <= MaxQueued

\* If a newer write came in for a blob in the writer's batch, one waits.
Newest ==
    /\ \A i \in writes, j \in Accepted : Key(i) = Key(j) => j <= i
    /\ \A n \in 1 .. Len(batch), j \in Accepted :
          batch[n] < j /\ Key(batch[n]) = Key(j) => \E k \in writes : Key(k) = Key(j)
    /\ \A i, j \in Accepted :
          i < j /\ Key(i) = Key(j) /\ log[j].fate = "written" => log[i].fate # "pending"

\* WritesAreAccountedFor, by position.
Accounted ==
    \A i \in Accepted :
        log[i].fate = "pending" <=>
            \/ i \in writes \/ \E n \in 1 .. Len(batch) : batch[n] = i
            \/ Saving /\ job[Writer].id = i

QInv == QueueTypes /\ Unmixed /\ Listed /\ Newest /\ Accounted

\* The queue is sound initially.
LEMMA InitQueue == Init => QInv
<1> SUFFICES ASSUME Init PROVE QInv
  OBVIOUS
<1>1. /\ log = <<>> /\ writes = {} /\ batch = <<>> /\ order = <<>> /\ inFlight = 0
      /\ extracted = 0 /\ pc[Writer] = "ready"
  BY DEF Init, Actors
<1>2. Len(log) = 0 /\ Len(batch) = 0 /\ Len(order) = 0
  BY <1>1
<1>3. QueueTypes
  BY <1>1 DEF QueueTypes, Accepted
<1>4. Cardinality(writes) = 0 /\ Returning = 0
  BY <1>1, FS_EmptySet DEF Returning
<1>5. MaxQueued \in Nat
  BY BoundsAreNatural
<1>6. Listed
  BY <1>1, <1>2, <1>4, <1>5 DEF Listed
<1>7. Unmixed /\ Newest /\ Accounted
  BY <1>1, <1>2 DEF Unmixed, Newest, Accounted, Accepted, Holding, Saving
<1> QED
  BY <1>3, <1>6, <1>7 DEF QInv

\* Fates are settled in place: nothing else of the log changes.
LEMMA SettleIs ==
    ASSUME log \in Seq(Entries), NEW ids, NEW fate \in Fate
    PROVE  LET settled == Settle(ids, fate)
           IN  /\ settled \in Seq(Entries) /\ Len(settled) = Len(log)
               /\ \A i \in Accepted :
                     /\ settled[i].path = log[i].path /\ settled[i].gen = log[i].gen
                     /\ settled[i].fate = IF i \in ids THEN fate ELSE log[i].fate
<1>1. DOMAIN log = Accepted /\ Len(log) \in Nat /\ \A i \in Accepted : log[i] \in Entries
  BY DEF Accepted
<1> DEFINE e(i) == IF i \in ids THEN [log[i] EXCEPT !.fate = fate] ELSE log[i]
<1>2. \A i \in Accepted : /\ e(i) \in Entries
                          /\ e(i).path = log[i].path /\ e(i).gen = log[i].gen
                          /\ e(i).fate = IF i \in ids THEN fate ELSE log[i].fate
  BY <1>1 DEF Entries
<1>3. Settle(ids, fate) = [i \in 1 .. Len(log) |-> e(i)]
  BY <1>1 DEF Settle, Accepted
<1> HIDE DEF e
<1>4. /\ Settle(ids, fate) \in [1 .. Len(log) -> Entries]
      /\ \A i \in Accepted : Settle(ids, fate)[i] = e(i)
  BY <1>2, <1>3 DEF Accepted
<1>5. Settle(ids, fate) \in Seq(Entries) /\ Len(Settle(ids, fate)) = Len(log)
  BY <1>1, <1>4
<1> QED
  BY <1>2, <1>4, <1>5

\* What waits can be counted.
LEMMA WaitingIsFinite ==
    ASSUME QueueTypes PROVE IsFiniteSet(writes) /\ Cardinality(writes) \in Nat
<1>1. Len(log) \in Int
  BY DEF QueueTypes
<1>2. IsFiniteSet(Accepted)
  BY <1>1, FS_Interval DEF Accepted
<1> QED
  BY <1>2, FS_Subset, FS_CardinalityType DEF QueueTypes

HoldingPlaces == {"working", "requeueing", "saving", "writing", "recording"}

\* A step that leaves the queue alone, and the writer's hands.
LEMMA QueueUntouched ==
    ASSUME QInv, UNCHANGED <<log, writes, order, batch, inFlight, extracted>>,
           \/ pc'[Writer] = pc[Writer] /\ job'[Writer] = job[Writer]
           \/ pc[Writer] \notin HoldingPlaces /\ pc'[Writer] \notin HoldingPlaces
           \/ Saving /\ Saving' /\ job'[Writer] = job[Writer]
    PROVE  QInv'
<1>1. Holding' = Holding /\ Saving' = Saving /\ Returning' = Returning
  BY DEF Holding, Saving, HoldingPlaces, Returning
<1>2. Saving => job'[Writer] = job[Writer]
  BY DEF Saving, HoldingPlaces
<1>3. QueueTypes'
  BY DEF QInv, QueueTypes, Accepted
<1>4. Listed'
  BY <1>1 DEF QInv, Listed, Key
<1>5. Newest'
  BY DEF QInv, Newest, Key, Accepted
<1>6. Unmixed'
  <2>1. /\ pc'[Writer] # "requeueing" => pc[Writer] # "requeueing" \/ batch = <<>>
        /\ pc'[Writer] = "requeueing" => pc[Writer] = "requeueing"
    BY DEF QInv, Unmixed, Saving, Holding, HoldingPlaces
  <2>2. batch = <<>> => Len(batch) = 0
    OBVIOUS
  <2>3. extracted \in Nat
    BY DEF QInv, QueueTypes
  <2> QED
    BY <1>1, <1>2, <2>1, <2>2, <2>3 DEF QInv, Unmixed, Key, Accepted
<1>7. Accounted'
  BY <1>1, <1>2 DEF QInv, Accounted, Accepted
<1> QED
  BY <1>3, <1>4, <1>5, <1>6, <1>7 DEF QInv

\* A compile's write takes the place of the one that waits for its blob, or the
\* last place, or is refused.
LEMMA EnqueueKeepsQueue ==
    ASSUME QInv, Shape, NEW c \in Compilers,
           job[c].path \in Paths, job[c].gen \in Generations, DeferWrite(c)
    PROVE  QInv'
<1>0. PICK new \in Nat : new = Len(log) + 1
  BY DEF QInv, QueueTypes
<1> DEFINE p == job[c].path
           g == job[c].gen
           old == Queued(p, g)
           entry == [path |-> p, gen |-> g, fate |-> "pending"]
           room == Cardinality(writes) + inFlight < MaxQueued
<1>1. /\ MutexFree /\ UNCHANGED <<inFlight, batch, extracted, job>>
      /\ pc' = [pc EXCEPT ![c] = "idle", ![Writer] = IF @ = "asleep" THEN "ready" ELSE @]
      /\ IF accept /\ (old # {} \/ room)
         THEN /\ log' = Append(Settle(old, "superseded"), entry)
              /\ writes' = (writes \ old) \cup {new}
              /\ order' = IF old # {} THEN order ELSE Append(order, <<p, g>>)
         ELSE UNCHANGED <<log, writes, order>>
  BY <1>0 DEF DeferWrite, Enqueue, local
<1>2. pc'[Writer] = IF pc[Writer] = "asleep" THEN "ready" ELSE pc[Writer]
  BY <1>1, WriterIsNoCompiler DEF Shape, Actors
<1>3. CASE UNCHANGED <<log, writes, order>>
  BY <1>1, <1>2, <1>3, QueueUntouched DEF HoldingPlaces
<1>4. CASE /\ old # {} \/ room
           /\ log' = Append(Settle(old, "superseded"), entry)
           /\ writes' = (writes \ old) \cup {new}
           /\ order' = IF old # {} THEN order ELSE Append(order, <<p, g>>)
  <2> DEFINE settled == Settle(old, "superseded")
  <2>1. /\ settled \in Seq(Entries) /\ Len(settled) = Len(log)
        /\ \A i \in Accepted : /\ settled[i].path = log[i].path /\ settled[i].gen = log[i].gen
                               /\ settled[i].fate = IF i \in old THEN "superseded" ELSE log[i].fate
    BY SettleIs DEF QInv, QueueTypes, Fate
  <2>2. entry \in Entries /\ Len(log) \in Nat
    BY DEF Entries, Fate, QInv, QueueTypes
  <2> HIDE DEF settled
  <2>3. /\ log' \in Seq(Entries) /\ Len(log') = new /\ log'[new] = entry
        /\ \A i \in Accepted : log'[i] = settled[i]
    BY <1>0, <1>4, <2>1, <2>2 DEF settled, Accepted
  <2>4. /\ \A i \in Accepted : Key(i)' = Key(i)
        /\ Key(new)' = <<p, g>> /\ log'[new].fate = "pending"
        /\ Accepted' = Accepted \cup {new} /\ new \notin Accepted
    <3>1. \A i \in Accepted : Key(i)' = Key(i)
      BY <2>1, <2>3 DEF Key
    <3>2. Key(new)' = <<p, g>> /\ log'[new].fate = "pending"
      BY <2>3 DEF Key
    <3>3. Accepted' = Accepted \cup {new} /\ new \notin Accepted
      BY <1>0, <2>2, <2>3 DEF Accepted
    <3> QED
      BY <3>1, <3>2, <3>3
  <2>5. \A i \in Accepted : log'[i].fate = IF i \in old THEN "superseded" ELSE log[i].fate
    BY <2>1, <2>3
  <2>6. old = {i \in writes : Key(i) = <<p, g>>} /\ writes \subseteq Accepted
    BY DEF Queued, QInv, QueueTypes
  <2>7. Holding' = Holding /\ Saving' = Saving
    BY <1>2 DEF Holding, Saving
  <2>8. Returning = 0 /\ Returning' = 0 /\ pc[Writer] # "requeueing" /\ pc'[Writer] # "requeueing"
    BY <1>1, <1>2 DEF MutexFree, Returning
  <2> HIDE DEF old, entry, p, g
  <2>9. order' \in Seq(Paths \X Generations)
    BY <1>4 DEF QInv, QueueTypes, p, g
  <2>10. QueueTypes'
    <3>1. batch \in Seq(Accepted') /\ writes' \in SUBSET Accepted'
      BY <1>4, <2>4, <2>6 DEF QInv, QueueTypes
    <3> QED
      BY <1>1, <2>3, <2>9, <3>1 DEF QInv, QueueTypes
  <2>11. \A n \in 1 .. Len(batch) : batch[n] \in Accepted /\ batch[n] # new
    BY <2>4 DEF QInv, QueueTypes
  <2>12. Unmixed'
    <3>1. Saving => job[Writer].id \in Accepted
      BY DEF QInv, Unmixed
    <3>2. /\ ~Holding' => batch' = <<>>
          /\ ~Holding' \/ pc'[Writer] = "requeueing" => extracted' = 0
      BY <1>1, <2>7, <2>8 DEF QInv, Unmixed
    <3>3. Len(batch') <= extracted'
      BY <1>1, <2>8 DEF QInv, Unmixed
    <3>4. \A n \in 1 .. Len(batch') : batch'[n] \notin writes'
      BY <1>1, <1>4, <2>4, <2>6, <2>11 DEF QInv, Unmixed
    <3>5. \A m, n \in 1 .. Len(batch') : Key(batch[m])' = Key(batch[n])' => m = n
      BY <1>1, <2>4, <2>11 DEF QInv, Unmixed
    <3>6. ASSUME Saving
          PROVE  /\ job'[Writer].id \in Accepted' /\ job'[Writer].id \notin writes'
                 /\ \A n \in 1 .. Len(batch') : Key(batch[n])' # Key(job[Writer].id)'
      BY <1>1, <1>4, <2>4, <2>6, <2>11, <3>1, <3>6 DEF QInv, Unmixed
    <3> QED
      BY <2>7, <3>2, <3>3, <3>4, <3>5, <3>6 DEF Unmixed
  <2>13. \A i, j \in old : i = j
    BY <2>6 DEF QInv, Listed
  <2>14. Cardinality(writes') = IF old # {} THEN Cardinality(writes) ELSE Cardinality(writes) + 1
    <3>1. IsFiniteSet(writes) /\ Cardinality(writes) \in Nat
      BY WaitingIsFinite DEF QInv
    <3>2. new \notin writes
      BY <2>4, <2>6
    <3>3. CASE old = {}
      BY <1>4, <3>1, <3>2, <3>3, FS_AddElement
    <3>4. CASE old # {}
      <4>1. PICK o \in writes : old = {o}
        BY <2>6, <2>13, <3>4
      <4>2. IsFiniteSet(writes \ {o}) /\ Cardinality(writes \ {o}) = Cardinality(writes) - 1
        BY <3>1, FS_RemoveElement
      <4>3. Cardinality((writes \ {o}) \cup {new}) = Cardinality(writes) - 1 + 1
        BY <3>2, <4>2, FS_AddElement
      <4> QED
        BY <1>4, <3>1, <3>4, <4>1, <4>3
    <3> QED
      BY <3>3, <3>4
  <2>15. \A i \in writes' : i = new \/ (i \in writes /\ i \notin old /\ Key(i) # <<p, g>>)
    BY <1>4, <2>6
  <2>16. Listed'
    <3>1. \A i, j \in writes' : Key(i)' = Key(j)' => i = j
      BY <2>4, <2>6, <2>15 DEF QInv, Listed
    <3>2. Cardinality(writes') + inFlight' + Returning' <= MaxQueued
      <4>1. Cardinality(writes) \in Nat /\ inFlight \in Nat /\ MaxQueued \in Nat
        BY WaitingIsFinite, BoundsAreNatural DEF QInv, QueueTypes
      <4> QED
        BY <1>1, <1>4, <2>8, <2>14, <4>1 DEF QInv, Listed
    <3>3. CASE old # {}
      <4>1. order' = order /\ \E i \in writes : Key(i) = <<p, g>>
        BY <1>4, <2>6, <3>3
      <4>2. \A n \in 1 .. Len(order') : \E i \in writes' : Key(i)' = order'[n]
        <5> SUFFICES ASSUME NEW n \in 1 .. Len(order) PROVE \E i \in writes' : Key(i)' = order[n]
          BY <4>1
        <5>1. PICK i \in writes : Key(i) = order[n]
          BY DEF QInv, Listed
        <5>2. CASE i \in old
          BY <1>4, <2>4, <2>6, <5>1, <5>2
        <5>3. CASE i \notin old
          BY <1>4, <2>4, <2>6, <5>1, <5>3
        <5> QED
          BY <5>2, <5>3
      <4>3. \A i \in writes' : \E n \in 1 .. Len(order') : order'[n] = Key(i)'
        BY <2>4, <2>6, <2>15, <4>1 DEF QInv, Listed
      <4> QED
        BY <3>1, <3>2, <4>1, <4>2, <4>3 DEF QInv, Listed
    <3>4. CASE old = {}
      <4>1. order \in Seq(Paths \X Generations) /\ <<p, g>> \in Paths \X Generations
        BY DEF QInv, QueueTypes, p, g
      <4>2. order' = Append(order, <<p, g>>)
        BY <1>4, <3>4
      <4>3. /\ Len(order') = Len(order) + 1 /\ Len(order) \in Nat
            /\ order'[Len(order) + 1] = <<p, g>>
            /\ \A n \in 1 .. Len(order) : order'[n] = order[n]
        BY <4>1, <4>2
      <4>4. writes' = writes \cup {new} /\ \A i \in writes : Key(i) # <<p, g>>
        BY <1>4, <2>6, <3>4
      <4>5. \A n \in 1 .. Len(order) : order[n] # <<p, g>>
        BY <4>4 DEF QInv, Listed
      <4>6. \A n \in 1 .. Len(order') : \E i \in writes' : Key(i)' = order'[n]
        <5> SUFFICES ASSUME NEW n \in 1 .. Len(order') PROVE \E i \in writes' : Key(i)' = order'[n]
          OBVIOUS
        <5>1. CASE n = Len(order) + 1
          BY <2>4, <4>3, <4>4, <5>1
        <5>2. CASE n \in 1 .. Len(order)
          <6>1. PICK i \in writes : Key(i) = order[n]
            BY <5>2 DEF QInv, Listed
          <6> QED
            BY <2>4, <2>6, <4>3, <4>4, <5>2, <6>1
        <5> QED
          BY <4>3, <5>1, <5>2
      <4>7. \A i \in writes' : \E n \in 1 .. Len(order') : order'[n] = Key(i)'
        <5> SUFFICES ASSUME NEW i \in writes' PROVE \E n \in 1 .. Len(order') : order'[n] = Key(i)'
          OBVIOUS
        <5>1. CASE i = new
          BY <2>4, <4>3, <5>1
        <5>2. CASE i \in writes
          <6>1. PICK n \in 1 .. Len(order) : order[n] = Key(i)
            BY <5>2 DEF QInv, Listed
          <6> QED
            BY <2>4, <2>6, <4>3, <5>2, <6>1
        <5> QED
          BY <4>4, <5>1, <5>2
      <4>8. \A m, n \in 1 .. Len(order') : order'[m] = order'[n] => m = n
        <5>1. \A m \in 1 .. Len(order') : m \in 1 .. Len(order) \/ m = Len(order) + 1
          BY <4>3
        <5>2. \A m, n \in 1 .. Len(order) : order[m] = order[n] => m = n
          BY DEF QInv, Listed
        <5> QED
          BY <4>3, <4>5, <5>1, <5>2
      <4> QED
        BY <3>1, <3>2, <4>6, <4>7, <4>8 DEF Listed
    <3> QED
      BY <3>3, <3>4
  <2>17. Newest'
    <3>1. \A i \in Accepted : i \in Nat /\ i < new
      BY <1>0, <2>2 DEF Accepted
    <3>2. \A i \in writes', j \in Accepted' : Key(i)' = Key(j)' => j <= i
      BY <1>0, <2>2, <2>4, <2>6, <2>15, <3>1 DEF QInv, Newest
    <3>3. ASSUME NEW n \in 1 .. Len(batch), NEW j \in Accepted',
                 batch[n] < j, Key(batch[n])' = Key(j)'
          PROVE  \E k \in writes' : Key(k)' = Key(j)'
      <4>1. CASE j = new
        BY <1>4, <4>1
      <4>2. CASE j \in Accepted
        <5>1. PICK k \in writes : Key(k) = Key(j)
          <6>1. Key(batch[n]) = Key(j) /\ batch[n] < j
            BY <1>1, <2>4, <2>11, <3>3, <4>2
          <6> QED
            BY <4>2, <6>1 DEF QInv, Newest
        <5>2. CASE k \in old
          BY <1>4, <2>4, <2>6, <4>2, <5>1, <5>2
        <5>3. CASE k \notin old
          BY <1>4, <2>4, <2>6, <4>2, <5>1, <5>3
        <5> QED
          BY <5>2, <5>3
      <4> QED
        BY <2>4, <4>1, <4>2
    <3>4. ASSUME NEW i \in Accepted', NEW j \in Accepted', i < j, Key(i)' = Key(j)',
                 log'[j].fate = "written"
          PROVE  log'[i].fate # "pending"
      <4>1. j # new
        BY <2>4, <3>4
      <4>2. i # new
        BY <1>0, <2>2, <2>4, <3>1, <3>4, <4>1
      <4> QED
        BY <2>4, <2>5, <3>4, <4>1, <4>2 DEF QInv, Newest
    <3> QED
      BY <1>1, <3>2, <3>3, <3>4 DEF Newest
  <2>18. Accounted'
    <3> SUFFICES ASSUME NEW i \in Accepted'
                 PROVE  log'[i].fate = "pending" <=>
                            \/ i \in writes' \/ \E n \in 1 .. Len(batch) : batch[n] = i
                            \/ Saving /\ job[Writer].id = i
      BY <1>1, <2>7 DEF Accounted
    <3>1. CASE i = new
      BY <1>4, <2>4, <3>1
    <3>2. CASE i \in Accepted /\ i \notin old
      BY <1>4, <2>4, <2>5, <2>6, <3>2 DEF QInv, Accounted
    <3>3. CASE i \in old
      BY <1>4, <2>4, <2>5, <2>6, <3>3 DEF QInv, Unmixed
    <3> QED
      BY <2>4, <3>1, <3>2, <3>3
  <2> QED
    BY <2>10, <2>12, <2>16, <2>17, <2>18 DEF QInv
<1> QED
  BY <1>1, <1>3, <1>4

\* One write that is in no queue and no batch any more meets its fate.
LEMMA SettledStep ==
    ASSUME QInv, NEW h \in Accepted, h \notin writes, NEW fate \in Fate \ {"pending"},
           log' = Settle({h}, fate), UNCHANGED <<writes, order, inFlight, extracted>>,
           \/ Saving /\ h = job[Writer].id /\ batch' = batch
           \/ ~Saving /\ batch # <<>> /\ h = Head(batch) /\ batch' = Tail(batch)
                /\ fate # "written",
           ~Saving', Holding, Holding', pc[Writer] = "requeueing" <=> pc'[Writer] = "requeueing"
    PROVE  QInv'
<1>1. /\ log' \in Seq(Entries) /\ Len(log') = Len(log) /\ Accepted' = Accepted
      /\ \A i \in Accepted :
            /\ log'[i].path = log[i].path /\ log'[i].gen = log[i].gen
            /\ log'[i].fate = IF i \in {h} THEN fate ELSE log[i].fate
  BY SettleIs DEF QInv, QueueTypes, Accepted
<1>2. \A i \in Accepted : /\ Key(i)' = Key(i)
                          /\ log'[i].fate = IF i = h THEN fate ELSE log[i].fate
  BY <1>1 DEF Key
<1> DEFINE off == IF Saving THEN 0 ELSE 1
<1>3. /\ off \in Nat /\ off = IF Saving THEN 0 ELSE 1
      /\ batch' \in Seq(Accepted) /\ Len(batch') = Len(batch) - off /\ Len(batch') \in Nat
      /\ \A n \in 1 .. Len(batch') : batch'[n] = batch[n + off] /\ n + off \in 1 .. Len(batch)
      /\ ~Saving => h = batch[1] /\ 1 \in 1 .. Len(batch)
  <2>1. batch \in Seq(Accepted)
    BY DEF QInv, QueueTypes
  <2>2. CASE Saving
    <3>1. /\ batch' \in Seq(Accepted) /\ Len(batch') = Len(batch) - 0 /\ Len(batch') \in Nat
          /\ \A n \in 1 .. Len(batch') : batch'[n] = batch[n + 0] /\ n + 0 \in 1 .. Len(batch)
      BY <2>1, <2>2
    <3> QED
      BY <2>2, <3>1
  <2>3. CASE ~Saving
    <3>1. /\ batch' \in Seq(Accepted) /\ Len(batch') = Len(batch) - 1 /\ Len(batch') \in Nat
          /\ \A n \in 1 .. Len(batch') : batch'[n] = batch[n + 1] /\ n + 1 \in 1 .. Len(batch)
          /\ h = batch[1] /\ 1 \in 1 .. Len(batch)
      BY <2>1, <2>3
    <3> QED
      BY <2>3, <3>1
  <2> QED
    BY <2>2, <2>3
<1> HIDE DEF off
<1>4. \A n \in 1 .. Len(batch) : batch[n] \in Accepted
  BY DEF QInv, QueueTypes
<1>5. \A n \in 1 .. Len(batch') : batch'[n] # h /\ Key(batch'[n]) # Key(h)
  BY <1>3 DEF QInv, Unmixed
<1>6. QueueTypes'
  BY <1>1, <1>3 DEF QInv, QueueTypes
<1>7. writes \subseteq Accepted
  BY DEF QInv, QueueTypes
<1>8. Unmixed'
  <2>1. inFlight \in Nat /\ extracted \in Nat
    BY DEF QInv, QueueTypes
  <2>2. pc'[Writer] # "requeueing" => Len(batch') <= extracted'
    BY <1>3, <2>1 DEF QInv, Unmixed
  <2>3. \A m, n \in 1 .. Len(batch') : Key(batch[m])' = Key(batch[n])' => m = n
    <3> SUFFICES ASSUME NEW m \in 1 .. Len(batch'), NEW n \in 1 .. Len(batch'),
                        Key(batch'[m]) = Key(batch'[n])
                 PROVE  m = n
      BY <1>2, <1>3, <1>4
    <3>1. m + off = n + off
      BY <1>3 DEF QInv, Unmixed
    <3> QED
      BY <1>3, <3>1
  <2>4. \A n \in 1 .. Len(batch') : batch'[n] \notin writes'
    BY <1>3 DEF QInv, Unmixed
  <2> QED
    BY <2>2, <2>3, <2>4 DEF QInv, Unmixed
<1>9. Listed'
  <2>1. Returning' <= Returning /\ Returning \in Nat /\ Returning' \in Nat
    BY <1>3 DEF Returning, QInv, QueueTypes
  <2>2. Cardinality(writes) \in Nat /\ inFlight \in Nat /\ MaxQueued \in Nat
    BY WaitingIsFinite, BoundsAreNatural DEF QInv, QueueTypes
  <2>3. Cardinality(writes') + inFlight' + Returning' <= MaxQueued
    BY <2>1, <2>2 DEF QInv, Listed
  <2>4. \A i \in writes : Key(i)' = Key(i)
    BY <1>2, <1>7
  <2> QED
    BY <2>3, <2>4 DEF QInv, Listed
<1>10. Newest'
  <2>1. \A i \in writes', j \in Accepted' : Key(i)' = Key(j)' => j <= i
    BY <1>1, <1>2, <1>7 DEF QInv, Newest
  <2>2. ASSUME NEW n \in 1 .. Len(batch'), NEW j \in Accepted', batch'[n] < j,
               Key(batch[n])' = Key(j)'
        PROVE  \E k \in writes' : Key(k)' = Key(j)'
    <3>1. Key(batch[n + off]) = Key(j) /\ batch[n + off] < j /\ n + off \in 1 .. Len(batch)
      BY <1>1, <1>2, <1>3, <1>4, <2>2
    <3>2. PICK k \in writes : Key(k) = Key(j)
      BY <1>1, <3>1 DEF QInv, Newest
    <3> QED
      BY <1>1, <1>2, <1>7, <3>2
  <2>3. \A i, j \in Accepted : i < j /\ Key(i) = Key(j) /\ log'[j].fate = "written"
                                  => log'[i].fate # "pending"
    <3> SUFFICES ASSUME NEW i \in Accepted, NEW j \in Accepted, i < j, Key(i) = Key(j),
                        log'[j].fate = "written", log'[i].fate = "pending"
                 PROVE  FALSE
      OBVIOUS
    <3>1. log[i].fate = "pending" /\ i # h
      BY <1>2
    <3>2. j = h
      BY <1>2, <3>1 DEF QInv, Newest
    <3>3. Saving /\ h = job[Writer].id
      BY <1>2, <3>2
    <3>4. i \notin writes
      BY <1>7 DEF QInv, Newest, QueueTypes, Accepted
    <3>5. \A n \in 1 .. Len(batch) : batch[n] # i
      BY <3>2, <3>3 DEF QInv, Unmixed
    <3> QED
      BY <3>1, <3>3, <3>4, <3>5 DEF QInv, Accounted
  <2>4. \A i, j \in Accepted' : i < j /\ Key(i)' = Key(j)' /\ log'[j].fate = "written"
                                   => log'[i].fate # "pending"
    <3>1. \A i, j \in Accepted : Key(i)' = Key(j)' <=> Key(i) = Key(j)
      BY <1>2
    <3> QED
      BY <1>1, <2>3, <3>1
  <2> QED
    BY <2>1, <2>2, <2>4 DEF Newest
<1>11. Accounted'
  <2> SUFFICES ASSUME NEW i \in Accepted
               PROVE  log'[i].fate = "pending" <=>
                          i \in writes \/ \E n \in 1 .. Len(batch') : batch'[n] = i
    BY <1>1 DEF Accounted
  <2>1. CASE i = h
    BY <1>2, <1>5, <2>1
  <2>2. CASE i # h
    <3>1. log[i].fate = "pending" <=> i \in writes \/ \E n \in 1 .. Len(batch) : batch[n] = i
      BY <2>2 DEF QInv, Accounted
    <3>2. (\E n \in 1 .. Len(batch) : batch[n] = i) <=> \E n \in 1 .. Len(batch') : batch'[n] = i
      <4>1. ASSUME NEW n \in 1 .. Len(batch), batch[n] = i
            PROVE  \E m \in 1 .. Len(batch') : batch'[m] = i
        <5>1. n - off \in 1 .. Len(batch') /\ (n - off) + off = n
          <6>1. Saving => off = 0
            BY <1>3
          <6>2. ~Saving => off = 1 /\ n # 1
            BY <1>3, <2>2, <4>1
          <6> QED
            BY <1>3, <6>1, <6>2
        <5> QED
          BY <1>3, <4>1, <5>1
      <4> QED
        BY <1>3, <4>1
    <3> QED
      BY <1>2, <2>2, <3>1, <3>2
  <2> QED
    BY <2>1, <2>2
<1> QED
  BY <1>6, <1>8, <1>9, <1>10, <1>11 DEF QInv

\* A save, by a compile or by the writer, whose write then has its fate.
LEMMA SaveKeepsQueue ==
    ASSUME QInv, Shape, NEW a \in Actors, Save(a)
    PROVE  QInv'
<1>1. UNCHANGED <<writes, order, batch, inFlight, extracted, job>>
  BY DEF Save, SaveBegin, WriteCachedShaderBlob, WriteFails, RecordShaderDigest, queue, local
<1>2. CASE a # Writer
  <2>1. log' = log /\ \E where : Goto(a, where)
    BY <1>2 DEF Save, SaveBegin, WriteCachedShaderBlob, WriteFails, RecordShaderDigest,
                EndSave, queue
  <2>2. pc'[Writer] = pc[Writer]
    BY <1>2, <2>1 DEF Goto, Shape, Actors
  <2> QED
    BY <1>1, <2>1, <2>2, QueueUntouched
<1>3. CASE a = Writer
  <2>1. Saving /\ Holding
    BY <1>3 DEF Save, SaveBegin, WriteCachedShaderBlob, WriteFails, RecordShaderDigest, Saving,
                Holding
  <2>2. CASE log' = log /\ \E where \in {"writing", "recording"} : Goto(a, where)
    <3>1. Saving'
      BY <1>3, <2>2 DEF Goto, Shape, Actors, Saving
    <3> QED
      BY <1>1, <2>1, <2>2, <3>1, QueueUntouched
  <2>3. CASE \E fate \in {"written", "skipped"} : EndSave(a, fate)
    <3>1. PICK fate \in Fate \ {"pending"} : EndSave(a, fate)
      BY <2>3 DEF Fate
    <3>2. pc'[Writer] = "working" /\ log' = Settle({job[Writer].id}, fate)
      BY <1>3, <3>1 DEF EndSave, Goto, Shape, Actors
    <3>3. job[Writer].id \in Accepted /\ job[Writer].id \notin writes
      BY <2>1 DEF QInv, Unmixed
    <3>4. /\ ~Saving' /\ Holding' /\ pc[Writer] # "requeueing" /\ pc'[Writer] # "requeueing"
      BY <2>1, <3>2 DEF Saving, Holding
    <3> QED
      BY <1>1, <2>1, <3>2, <3>3, <3>4, SettledStep
  <2>4. \/ log' = log /\ \E where \in {"writing", "recording"} : Goto(a, where)
        \/ \E fate \in {"written", "skipped"} : EndSave(a, fate)
    BY DEF Save, SaveBegin, WriteCachedShaderBlob, WriteFails, RecordShaderDigest, queue
  <2> QED
    BY <2>2, <2>3, <2>4
<1> QED
  BY <1>2, <1>3

\* The next of the batch: to be saved, or skipped.
LEMMA ProceedsKeepsQueue ==
    ASSUME QInv, Shape, WriterProceeds
    PROVE  QInv'
<1>1. /\ pc[Writer] = "working" /\ batch # <<>> /\ batch' = Tail(batch)
      /\ UNCHANGED <<writes, order, inFlight, extracted>>
      /\ ~Saving /\ Holding
  BY DEF WriterProceeds, Saving, Holding
<1>2. /\ batch \in Seq(Accepted) /\ Len(batch) \in Nat /\ Head(batch) = batch[1]
      /\ 1 \in 1 .. Len(batch) /\ batch' \in Seq(Accepted) /\ Len(batch') = Len(batch) - 1
      /\ \A n \in 1 .. Len(batch') : batch'[n] = batch[n + 1] /\ n + 1 \in 1 .. Len(batch)
  <2>1. batch \in Seq(Accepted)
    BY DEF QInv, QueueTypes
  <2> QED
    BY <1>1, <2>1
<1>3. CASE ~active
  <2>1. log' = Settle({Head(batch)}, "skipped") /\ UNCHANGED <<job, pc>>
    BY <1>3 DEF WriterProceeds
  <2>2. Head(batch) \in Accepted /\ Head(batch) \notin writes
    BY <1>2 DEF QInv, Unmixed
  <2>3. ~Saving' /\ Holding'
    BY <1>1, <2>1 DEF Saving, Holding
  <2>4. "skipped" \in Fate \ {"pending"}
    BY DEF Fate
  <2> QED
    BY <1>1, <2>1, <2>2, <2>3, <2>4, SettledStep
<1>4. CASE active
  <2>1. /\ pc'[Writer] = "saving" /\ job'[Writer].id = batch[1] /\ log' = log
    BY <1>2, <1>4 DEF WriterProceeds, Goto, Shape, Actors, Blob
  <2>2. Saving' /\ Holding'
    BY <2>1 DEF Saving, Holding
  <2>3. Returning = 0 /\ Returning' = 0
    BY <1>1, <2>1 DEF Returning
  <2>4. QueueTypes'
    BY <1>1, <1>2, <2>1 DEF QInv, QueueTypes, Accepted
  <2>5. \A i : Key(i)' = <<log[i].path, log[i].gen>>
    BY <2>1 DEF Key
  <2>6. Listed'
    BY <1>1, <2>3, <2>5 DEF QInv, Listed, Key
  <2>7. Unmixed'
    <3>1. extracted \in Nat /\ Len(batch) <= extracted
      BY <1>1 DEF QInv, QueueTypes, Unmixed
    <3>2. \A m, n \in 1 .. Len(batch') : Key(batch[m])' = Key(batch[n])' => m = n
      <4> SUFFICES ASSUME NEW m \in 1 .. Len(batch'), NEW n \in 1 .. Len(batch'),
                          Key(batch[m])' = Key(batch[n])'
                   PROVE  m = n
        OBVIOUS
      <4>1. Key(batch[m + 1]) = Key(batch[n + 1])
        BY <1>2, <2>1 DEF Key
      <4>2. m + 1 = n + 1
        BY <1>2, <4>1 DEF QInv, Unmixed
      <4> QED
        BY <1>2, <4>2
    <3>3. batch[1] \in Accepted' /\ batch[1] \notin writes
      BY <1>2, <2>1 DEF QInv, Unmixed, Accepted
    <3>4. \A n \in 1 .. Len(batch') : Key(batch[n])' # Key(job[Writer].id)'
      <4> SUFFICES ASSUME NEW n \in 1 .. Len(batch'), Key(batch[n])' = Key(job[Writer].id)'
                   PROVE  FALSE
        OBVIOUS
      <4>1. Key(batch[n + 1]) = Key(batch[1])
        BY <1>2, <2>1 DEF Key
      <4>2. n + 1 = 1
        BY <1>2, <4>1 DEF QInv, Unmixed
      <4> QED
        BY <1>2, <4>2
    <3>5. \A n \in 1 .. Len(batch') : batch'[n] \notin writes'
      BY <1>1, <1>2 DEF QInv, Unmixed
    <3>6. Len(batch') <= extracted'
      BY <1>1, <1>2, <3>1
    <3> QED
      BY <1>1, <2>1, <2>2, <3>2, <3>3, <3>4, <3>5, <3>6 DEF Unmixed
  <2>8. Newest'
    <3>1. \A n \in 1 .. Len(batch'), j \in Accepted :
              batch'[n] < j /\ Key(batch'[n]) = Key(j) => \E k \in writes : Key(k) = Key(j)
      BY <1>2 DEF QInv, Newest
    <3> QED
      BY <1>1, <2>1, <3>1 DEF QInv, Newest, Key, Accepted
  <2>9. Accounted'
    <3> SUFFICES ASSUME NEW i \in Accepted
                 PROVE  log[i].fate = "pending" <=>
                          \/ i \in writes \/ \E n \in 1 .. Len(batch') : batch'[n] = i
                          \/ batch[1] = i
      BY <1>1, <2>1, <2>2 DEF Accounted, Accepted
    <3>1. (\E n \in 1 .. Len(batch) : batch[n] = i)
             <=> (\E n \in 1 .. Len(batch') : batch'[n] = i) \/ batch[1] = i
      <4>1. ASSUME NEW n \in 1 .. Len(batch), batch[n] = i, n # 1
            PROVE  \E m \in 1 .. Len(batch') : batch'[m] = i
        <5>1. n - 1 \in 1 .. Len(batch') /\ (n - 1) + 1 = n
          BY <1>2, <4>1
        <5> QED
          BY <1>2, <4>1, <5>1
      <4> QED
        BY <1>2, <4>1
    <3> QED
      BY <1>1, <3>1 DEF QInv, Accounted
  <2> QED
    BY <2>4, <2>6, <2>7, <2>8, <2>9 DEF QInv
<1> QED
  BY <1>3, <1>4

\* The batch is no longer counted; what is left of it still has its room.
LEMMA SettlesKeepsQueue ==
    ASSUME QInv, Shape, WriterSettles
    PROVE  QInv'
<1>1. /\ pc[Writer] = "working" /\ pc'[Writer] = "requeueing"
      /\ batch' = batch /\ extracted' = 0 /\ UNCHANGED <<log, writes, order, job>>
      /\ inFlight' = IF inFlight >= extracted THEN inFlight - extracted ELSE 0
  BY DEF WriterSettles, Settles, Goto, Shape, Actors
<1>2. inFlight \in Nat /\ extracted = inFlight /\ inFlight' = 0
  BY <1>1 DEF QInv, QueueTypes
<1>3. Len(batch) <= inFlight /\ Len(batch) \in Nat
  BY <1>1, <1>2 DEF QInv, Unmixed, QueueTypes
<1>4. Returning = 0 /\ Returning' = Len(batch)
  BY <1>1 DEF Returning
<1>5. /\ ~Saving /\ ~Saving' /\ Holding /\ Holding'
  BY <1>1 DEF Saving, Holding
<1>6. QueueTypes'
  BY <1>1, <1>2 DEF QInv, QueueTypes, Accepted
<1>7. Unmixed'
  BY <1>1, <1>5 DEF QInv, Unmixed, Key
<1>8. Listed'
  <2>1. Cardinality(writes) \in Nat /\ MaxQueued \in Nat
    BY WaitingIsFinite, BoundsAreNatural DEF QInv
  <2>2. Cardinality(writes') + inFlight' + Returning' <= MaxQueued
    BY <1>1, <1>2, <1>3, <1>4, <2>1 DEF QInv, Listed
  <2> QED
    BY <1>1, <2>2 DEF QInv, Listed, Key
<1>9. Newest' /\ Accounted'
  BY <1>1, <1>5 DEF QInv, Newest, Accounted, Key, Accepted
<1> QED
  BY <1>6, <1>7, <1>8, <1>9 DEF QInv

\* The batch is over: the writer's hands are empty.
LEMMA FinishesKeepsQueue ==
    ASSUME QInv, Shape, WriterFinishes
    PROVE  QInv'
<1>1. /\ pc[Writer] = "requeueing" /\ pc'[Writer] \in {"flushing", "ready"} /\ batch = <<>>
      /\ UNCHANGED <<log, writes, order, batch, inFlight, extracted, job>>
  BY DEF WriterFinishes, FinishBatch, local, Goto, Shape, Actors
<1>2. Len(batch) = 0 /\ Returning = 0 /\ Returning' = 0
  BY <1>1 DEF Returning
<1>3. ~Saving /\ ~Saving' /\ ~Holding'
  BY <1>1 DEF Saving, Holding
<1>4. QueueTypes'
  BY <1>1 DEF QInv, QueueTypes, Accepted
<1>5. extracted = 0
  BY <1>1 DEF QInv, Unmixed
<1>6. Unmixed'
  BY <1>1, <1>2, <1>3, <1>5 DEF Unmixed
<1>7. Listed'
  BY <1>1, <1>2 DEF QInv, Listed, Key
<1>8. Newest' /\ Accounted'
  BY <1>1, <1>3 DEF QInv, Newest, Accounted, Key, Accepted
<1> QED
  BY <1>4, <1>6, <1>7, <1>8 DEF QInv

\* The queue is dropped by a writer with empty hands.
LEMMA DiscardKeepsQueue ==
    ASSUME QInv, ~Holding, ~Holding', log' = Settle(writes, "discarded"),
           writes' = {}, order' = <<>>, UNCHANGED <<batch, extracted>>, inFlight' \in {0, inFlight}
    PROVE  QInv'
<1>1. /\ log' \in Seq(Entries) /\ Len(log') = Len(log) /\ Accepted' = Accepted
      /\ \A i \in Accepted :
            /\ log'[i].path = log[i].path /\ log'[i].gen = log[i].gen
            /\ log'[i].fate = IF i \in writes THEN "discarded" ELSE log[i].fate
  BY SettleIs DEF QInv, QueueTypes, Accepted, Fate
<1>2. /\ batch = <<>> /\ extracted = 0 /\ inFlight = 0 /\ Len(batch) = 0 /\ Len(order') = 0
      /\ ~Saving /\ ~Saving' /\ pc[Writer] # "requeueing" /\ pc'[Writer] # "requeueing"
  BY DEF QInv, QueueTypes, Unmixed, Holding
<1>3. QueueTypes'
  <2>1. order' \in Seq(Paths \X Generations) /\ batch' \in Seq(Accepted')
    BY <1>2
  <2> QED
    BY <1>1, <1>2, <2>1 DEF QueueTypes
<1>4. Unmixed'
  BY <1>2 DEF Unmixed
<1>5. Listed'
  <2>1. Cardinality(writes') = 0 /\ Returning' = 0 /\ MaxQueued \in Nat
    BY <1>2, FS_EmptySet, BoundsAreNatural DEF Returning
  <2> QED
    BY <1>2, <2>1 DEF Listed
<1>6. Newest'
  <2>1. \A i, j \in Accepted : i < j /\ log'[i].path = log'[j].path /\ log'[i].gen = log'[j].gen
                                  /\ log'[j].fate = "written" => log'[i].fate # "pending"
    BY <1>1 DEF QInv, Newest, Key
  <2> QED
    BY <1>1, <1>2, <2>1 DEF Newest, Key
<1>7. Accounted'
  BY <1>1, <1>2 DEF QInv, Accounted
<1> QED
  BY <1>3, <1>4, <1>5, <1>6, <1>7 DEF QInv

\* A write goes back to the front: nothing newer for its blob was accepted, or it
\* would wait; and the room it left has been kept.
LEMMA RequeuesKeepsQueue ==
    ASSUME QInv, Shape, WriterRequeues
    PROVE  QInv'
<1> DEFINE h == batch[1]
<1>1. /\ pc[Writer] = "requeueing" /\ batch # <<>> /\ batch' = Tail(batch)
      /\ Requeue(Head(batch)) /\ UNCHANGED <<inFlight, extracted, pc, job>>
      /\ ~Saving /\ ~Saving' /\ Holding /\ Holding'
  BY DEF WriterRequeues, Saving, Holding
<1>2. /\ batch \in Seq(Accepted) /\ Len(batch) \in Nat /\ Head(batch) = h
      /\ 1 \in 1 .. Len(batch) /\ batch' \in Seq(Accepted) /\ Len(batch') = Len(batch) - 1
      /\ \A n \in 1 .. Len(batch') : batch'[n] = batch[n + 1] /\ n + 1 \in 1 .. Len(batch)
  <2>1. batch \in Seq(Accepted)
    BY DEF QInv, QueueTypes
  <2> QED
    BY <1>1, <2>1
<1>3. h \in Accepted /\ h \notin writes /\ writes \subseteq Accepted
  BY <1>2 DEF QInv, Unmixed, QueueTypes
<1> HIDE DEF h
<1>4. CASE \E fate \in {"superseded", "skipped"} : Forgotten(h, fate)
  <2>1. PICK fate \in Fate \ {"pending", "written"} : Forgotten(h, fate)
    BY <1>4 DEF Fate
  <2>2. log' = Settle({h}, fate) /\ UNCHANGED <<writes, order>>
    BY <2>1 DEF Forgotten
  <2> QED
    BY <1>1, <1>2, <1>3, <2>1, <2>2, SettledStep
<1>5. CASE BackToQueue(h) /\ \A j \in writes : Key(j) # Key(h)
  <2>1. /\ writes' = writes \cup {h} /\ order' = <<Key(h)>> \o order /\ log' = log
        /\ \A j \in writes : Key(j) # Key(h)
    BY <1>5 DEF BackToQueue
  <2>2. \A i : Key(i)' = <<log[i].path, log[i].gen>>
    BY <2>1 DEF Key
  <2>3. Key(h) \in Paths \X Generations
    <3>1. log[h] \in Entries
      BY <1>3 DEF QInv, QueueTypes, Accepted
    <3> QED
      BY <3>1 DEF Key, Entries
  <2>4. order \in Seq(Paths \X Generations)
    BY DEF QInv, QueueTypes
  <2>5. /\ order' \in Seq(Paths \X Generations) /\ Len(order') = Len(order) + 1
        /\ order'[1] = Key(h) /\ \A n \in 1 .. Len(order) : order'[n + 1] = order[n]
        /\ Len(order) \in Nat
    <3>1. <<Key(h)>> \in Seq(Paths \X Generations)
      BY <2>3
    <3> QED
      BY <2>1, <2>4, <3>1
  <2>6. QueueTypes'
    BY <1>1, <1>2, <1>3, <2>1, <2>5 DEF QInv, QueueTypes, Accepted
  <2>7. \A m, n \in 1 .. Len(batch) : Key(batch[m]) = Key(batch[n]) => m = n
    BY DEF QInv, Unmixed
  <2>8. \A n \in 1 .. Len(batch') : batch'[n] # h /\ Key(batch'[n]) # Key(h)
    <3> SUFFICES ASSUME NEW n \in 1 .. Len(batch'), Key(batch[n + 1]) = Key(batch[1])
                 PROVE  FALSE
      BY <1>2 DEF h
    <3>1. n + 1 = 1
      BY <1>2, <2>7
    <3> QED
      BY <1>2, <3>1
  <2>9. Unmixed'
    <3>1. \A m, n \in 1 .. Len(batch') : Key(batch[m])' = Key(batch[n])' => m = n
      <4> SUFFICES ASSUME NEW m \in 1 .. Len(batch'), NEW n \in 1 .. Len(batch'),
                          Key(batch[m])' = Key(batch[n])'
                   PROVE  m = n
        OBVIOUS
      <4>1. Key(batch[m + 1]) = Key(batch[n + 1])
        BY <1>2, <2>1 DEF Key
      <4>2. m + 1 = n + 1
        BY <1>2, <2>7, <4>1
      <4> QED
        BY <1>2, <4>2
    <3>2. \A n \in 1 .. Len(batch') : batch'[n] \notin writes'
      BY <1>2, <2>1, <2>8 DEF QInv, Unmixed
    <3> QED
      BY <1>1, <3>1, <3>2 DEF QInv, Unmixed
  <2>10. Listed'
    <3>1. \A i, j \in writes' : Key(i)' = Key(j)' => i = j
      BY <2>1 DEF QInv, Listed, Key
    <3>2. \A n \in 1 .. Len(order') : \E i \in writes' : Key(i)' = order'[n]
      <4> SUFFICES ASSUME NEW n \in 1 .. Len(order') PROVE \E i \in writes' : Key(i)' = order'[n]
        OBVIOUS
      <4>1. CASE n = 1
        BY <2>1, <2>5, <4>1 DEF Key
      <4>2. CASE n # 1
        <5>1. n - 1 \in 1 .. Len(order) /\ order'[n] = order[n - 1]
          <6>1. n - 1 \in 1 .. Len(order) /\ (n - 1) + 1 = n
            BY <2>5, <4>2
          <6> QED
            BY <2>5, <6>1
        <5>2. PICK i \in writes : Key(i) = order[n - 1]
          BY <5>1 DEF QInv, Listed
        <5> QED
          BY <2>1, <5>1, <5>2 DEF Key
      <4> QED
        BY <4>1, <4>2
    <3>3. \A i \in writes' : \E n \in 1 .. Len(order') : order'[n] = Key(i)'
      <4> SUFFICES ASSUME NEW i \in writes' PROVE \E n \in 1 .. Len(order') : order'[n] = Key(i)'
        OBVIOUS
      <4>1. CASE i = h
        <5>1. 1 \in 1 .. Len(order') /\ Key(i)' = Key(h)
          BY <2>1, <2>5, <4>1 DEF Key
        <5> QED
          BY <2>5, <5>1
      <4>2. CASE i \in writes
        <5>1. PICK n \in 1 .. Len(order) : order[n] = Key(i)
          BY <4>2 DEF QInv, Listed
        <5>2. n + 1 \in 1 .. Len(order') /\ Key(i)' = Key(i)
          BY <2>1, <2>5 DEF Key
        <5> QED
          BY <2>5, <5>1, <5>2
      <4> QED
        BY <2>1, <4>1, <4>2
    <3>4. \A m, n \in 1 .. Len(order') : order'[m] = order'[n] => m = n
      <4>1. \A n \in 1 .. Len(order) : order[n] # Key(h)
        BY <2>1 DEF QInv, Listed
      <4>2. \A m \in 1 .. Len(order') :
                m = 1 \/ (m - 1 \in 1 .. Len(order) /\ order'[m] = order[m - 1])
        <5> SUFFICES ASSUME NEW m \in 1 .. Len(order'), m # 1
                     PROVE  m - 1 \in 1 .. Len(order) /\ order'[m] = order[m - 1]
          OBVIOUS
        <5>1. m - 1 \in 1 .. Len(order) /\ (m - 1) + 1 = m
          BY <2>5
        <5> QED
          BY <2>5, <5>1
      <4>3. \A m, n \in 1 .. Len(order) : order[m] = order[n] => m = n
        BY DEF QInv, Listed
      <4> SUFFICES ASSUME NEW m \in 1 .. Len(order'), NEW n \in 1 .. Len(order'),
                          order'[m] = order'[n]
                   PROVE  m = n
        OBVIOUS
      <4>4. CASE m = 1 \/ n = 1
        BY <2>5, <4>1, <4>2, <4>4
      <4>5. CASE m # 1 /\ n # 1
        <5>1. m - 1 = n - 1
          BY <4>2, <4>3, <4>5
        <5> QED
          BY <2>5, <5>1
      <4> QED
        BY <4>4, <4>5
    <3>5. Cardinality(writes') + inFlight' + Returning' <= MaxQueued
      <4>1. IsFiniteSet(writes) /\ Cardinality(writes) \in Nat
        BY WaitingIsFinite DEF QInv
      <4>2. Cardinality(writes') = Cardinality(writes) + 1
        BY <1>3, <2>1, <4>1, FS_AddElement
      <4>3. Returning = Len(batch) /\ Returning' = Len(batch) - 1
        BY <1>1, <1>2 DEF Returning
      <4>4. inFlight \in Nat /\ MaxQueued \in Nat
        BY BoundsAreNatural DEF QInv, QueueTypes
      <4> QED
        BY <1>1, <1>2, <4>1, <4>2, <4>3, <4>4 DEF QInv, Listed
    <3> QED
      BY <3>1, <3>2, <3>3, <3>4, <3>5 DEF Listed
  <2>11. Newest'
    <3>1. \A j \in Accepted : Key(j) = Key(h) => j <= h
      <4> SUFFICES ASSUME NEW j \in Accepted, Key(j) = Key(h), h < j PROVE FALSE
        BY <1>3 DEF Accepted, QInv, QueueTypes
      <4>1. \E k \in writes : Key(k) = Key(j)
        BY <1>2 DEF h, QInv, Newest
      <4> QED
        BY <2>1, <4>1
    <3>2. \A i \in writes', j \in Accepted' : Key(i)' = Key(j)' => j <= i
      BY <2>1, <3>1 DEF QInv, Newest, Key, Accepted
    <3>3. \A n \in 1 .. Len(batch'), j \in Accepted :
              batch'[n] < j /\ Key(batch'[n]) = Key(j) => \E k \in writes : Key(k) = Key(j)
      BY <1>2 DEF QInv, Newest
    <3>4. \A n \in 1 .. Len(batch'), j \in Accepted' :
              batch'[n] < j /\ Key(batch[n])' = Key(j)' => \E k \in writes' : Key(k)' = Key(j)'
      <4> SUFFICES ASSUME NEW n \in 1 .. Len(batch'), NEW j \in Accepted,
                          batch'[n] < j, Key(batch[n])' = Key(j)'
                   PROVE  \E k \in writes' : Key(k)' = Key(j)'
        BY <2>1 DEF Accepted
      <4>1. Key(batch'[n]) = Key(j)
        BY <2>1 DEF Key
      <4>2. PICK k \in writes : Key(k) = Key(j)
        BY <3>3, <4>1
      <4> QED
        BY <2>1, <4>2 DEF Key
    <3> QED
      BY <2>1, <3>2, <3>4 DEF QInv, Newest, Key, Accepted
  <2>12. Accounted'
    <3> SUFFICES ASSUME NEW i \in Accepted
                 PROVE  log[i].fate = "pending" <=>
                          i \in writes' \/ \E n \in 1 .. Len(batch') : batch'[n] = i
      BY <1>1, <2>1 DEF Accounted, Accepted
    <3>1. (\E n \in 1 .. Len(batch) : batch[n] = i)
             <=> (\E n \in 1 .. Len(batch') : batch'[n] = i) \/ h = i
      <4>1. ASSUME NEW n \in 1 .. Len(batch), batch[n] = i, n # 1
            PROVE  \E m \in 1 .. Len(batch') : batch'[m] = i
        <5>1. n - 1 \in 1 .. Len(batch') /\ (n - 1) + 1 = n
          BY <1>2, <4>1
        <5> QED
          BY <1>2, <4>1, <5>1
      <4> QED
        BY <1>2, <4>1 DEF h
    <3> QED
      BY <1>1, <2>1, <3>1 DEF QInv, Accounted
  <2> QED
    BY <2>6, <2>9, <2>10, <2>11, <2>12 DEF QInv
<1> QED
  BY <1>1, <1>2, <1>4, <1>5 DEF Requeue

\* The writes whose keys come first are taken, and stay counted.
LEMMA TakesKeepsQueue ==
    ASSUME QInv, Shape, WriterTakes
    PROVE  QInv'
<1> DEFINE taken == TakenNow
           rest == Len(order) - taken
           Batched == {batch'[n] : n \in 1 .. taken}
<1>1. order \in Seq(Paths \X Generations) /\ Len(order) \in Nat /\ taken \in 0 .. Len(order)
  BY BoundsAreNatural DEF QInv, QueueTypes, TakenNow
<1>2. /\ pc[Writer] = "ready" /\ pc'[Writer] = "working"
      /\ batch' = [n \in 1 .. taken |-> CHOOSE i \in writes : Key(i) = SubSeq(order, 1, taken)[n]]
      /\ order' = SubSeq(order, taken + 1, Len(order))
      /\ writes' = writes \ Batched
      /\ extracted' = taken /\ inFlight' = inFlight + taken /\ log' = log
  BY DEF WriterTakes, Extract, Goto, Shape, Actors
<1>3. /\ extracted = 0 /\ inFlight = 0 /\ Returning = 0 /\ Returning' = 0
      /\ ~Saving /\ ~Saving' /\ Holding' /\ Len(batch) = 0
  BY <1>2 DEF QInv, QueueTypes, Unmixed, Returning, Saving, Holding
<1> HIDE DEF taken
<1>4. \A n \in 1 .. taken : SubSeq(order, 1, taken)[n] = order[n] /\ n \in 1 .. Len(order)
  BY <1>1
<1>5. \A n \in 1 .. taken : batch'[n] \in writes /\ Key(batch'[n]) = order[n]
  <2> SUFFICES ASSUME NEW n \in 1 .. taken PROVE batch'[n] \in writes /\ Key(batch'[n]) = order[n]
    OBVIOUS
  <2>1. batch'[n] = CHOOSE i \in writes : Key(i) = order[n]
    BY <1>2, <1>4
  <2>2. \E i \in writes : Key(i) = order[n]
    BY <1>4 DEF QInv, Listed
  <2> QED
    BY <2>1, <2>2
<1>6. writes \subseteq Accepted
  BY DEF QInv, QueueTypes
<1>7. batch' \in Seq(Accepted) /\ Len(batch') = taken
  <2>1. batch' \in [1 .. taken -> Accepted]
    <3> DEFINE e(n) == CHOOSE i \in writes : Key(i) = SubSeq(order, 1, taken)[n]
    <3>1. batch' = [n \in 1 .. taken |-> e(n)]
      BY <1>2
    <3> HIDE DEF e
    <3>2. \A n \in 1 .. taken : batch'[n] = e(n)
      BY <3>1
    <3>3. \A n \in 1 .. taken : e(n) \in Accepted
      BY <1>5, <1>6, <3>2
    <3> QED
      BY <3>1, <3>3
  <2> QED
    BY <1>1, <2>1
<1>8. /\ order' \in Seq(Paths \X Generations) /\ Len(order') = rest /\ rest \in Nat
      /\ \A n \in 1 .. rest : order'[n] = order[n + taken] /\ n + taken \in 1 .. Len(order)
  <2>1. /\ SubSeq(order, taken + 1, Len(order)) \in Seq(Paths \X Generations)
        /\ Len(SubSeq(order, taken + 1, Len(order))) = Len(order) - taken
    BY <1>1
  <2>2. \A n \in 1 .. rest : order'[n] = order[n + taken] /\ n + taken \in 1 .. Len(order)
    BY <1>1, <1>2
  <2> QED
    BY <1>1, <1>2, <2>1, <2>2
<1> HIDE DEF rest
<1>9. \A m, n \in 1 .. Len(order) : order[m] = order[n] => m = n
  BY DEF QInv, Listed
<1>10. Cardinality(Batched) = taken /\ Batched \subseteq writes
  <2> DEFINE f == [n \in 1 .. taken |-> batch'[n]]
  <2>1. f \in Bijection(1 .. taken, Batched)
    <3>1. f \in [1 .. taken -> Batched] /\ \A t \in Batched : \E n \in 1 .. taken : f[n] = t
      OBVIOUS
    <3>2. \A m, n \in 1 .. taken : f[m] = f[n] => m = n
      BY <1>4, <1>5, <1>9
    <3> QED
      BY <3>1, <3>2 DEF Bijection, Injection, Surjection, IsInjective
  <2>2. ExistsBijection(1 .. taken, Batched)
    BY <2>1 DEF ExistsBijection
  <2>3. IsFiniteSet(1 .. taken) /\ Cardinality(1 .. taken) = taken
    BY <1>1, FS_Interval
  <2>4. Cardinality(Batched) = taken
    BY <2>2, <2>3, FS_Bijection
  <2> QED
    BY <1>5, <2>4
<1>11. Cardinality(writes') = Cardinality(writes) - taken
  <2>1. IsFiniteSet(writes) /\ writes \cap Batched = Batched
    BY <1>10, WaitingIsFinite DEF QInv
  <2> HIDE DEF Batched
  <2>2. Cardinality(writes \ Batched) = Cardinality(writes) - Cardinality(writes \cap Batched)
    BY <2>1, FS_Difference
  <2> QED
    BY <1>2, <1>10, <2>1, <2>2
<1>12. QueueTypes'
  <2>1. writes' \in SUBSET Accepted' /\ batch' \in Seq(Accepted') /\ log' \in Seq(Entries)
    BY <1>2, <1>6, <1>7 DEF QInv, QueueTypes, Accepted
  <2>2. inFlight' \in Nat /\ extracted' = inFlight'
    BY <1>1, <1>2, <1>3
  <2> QED
    BY <1>8, <2>1, <2>2 DEF QueueTypes
<1>13. \A i : Key(i)' = <<log[i].path, log[i].gen>>
  BY <1>2 DEF Key
<1>14. Unmixed'
  <2>1. \A m, n \in 1 .. Len(batch') : Key(batch[m])' = Key(batch[n])' => m = n
    <3> SUFFICES ASSUME NEW m \in 1 .. taken, NEW n \in 1 .. taken, Key(batch'[m]) = Key(batch'[n])
                 PROVE  m = n
      <4> SUFFICES ASSUME NEW m \in 1 .. taken, NEW n \in 1 .. taken,
                          Key(batch[m])' = Key(batch[n])'
                   PROVE  Key(batch'[m]) = Key(batch'[n])
        BY <1>7
      <4> QED
        BY <1>2 DEF Key
    <3> QED
      BY <1>4, <1>5, <1>9
  <2>2. \A n \in 1 .. Len(batch') : batch'[n] \notin writes'
    <3>1. \A n \in 1 .. taken : batch'[n] \in Batched
      OBVIOUS
    <3>2. writes' = writes \ Batched
      BY <1>2
    <3> HIDE DEF Batched
    <3> QED
      BY <1>7, <3>1, <3>2
  <2>3. Len(batch') <= extracted'
    BY <1>1, <1>2, <1>7
  <2> QED
    BY <1>2, <1>3, <2>1, <2>2, <2>3 DEF Unmixed
<1>15. \A i \in writes : i \in writes' \/ \E n \in 1 .. taken : batch'[n] = i
  BY <1>2
<1>16. Listed'
  <2>1. \A i, j \in writes' : Key(i)' = Key(j)' => i = j
    BY <1>2 DEF QInv, Listed, Key
  <2>2. \A n \in 1 .. Len(order') : \E i \in writes' : Key(i)' = order'[n]
    <3> SUFFICES ASSUME NEW n \in 1 .. rest PROVE \E i \in writes' : Key(i)' = order'[n]
      BY <1>8
    <3>1. n + taken \in 1 .. Len(order) /\ order'[n] = order[n + taken]
      BY <1>8
    <3>2. PICK i \in writes : Key(i) = order[n + taken]
      BY <3>1 DEF QInv, Listed
    <3>3. ASSUME NEW m \in 1 .. taken PROVE batch'[m] # i
      <4>1. m # n + taken
        BY <1>1
      <4> QED
        BY <1>4, <1>5, <1>9, <3>1, <3>2, <4>1
    <3>4. i \in writes'
      BY <1>15, <3>3
    <3> QED
      BY <1>2, <3>1, <3>2, <3>4 DEF Key
  <2>3. \A i \in writes' : \E n \in 1 .. Len(order') : order'[n] = Key(i)'
    <3> SUFFICES ASSUME NEW i \in writes' PROVE \E n \in 1 .. rest : order'[n] = Key(i)
      BY <1>2, <1>8 DEF Key
    <3>1. i \in writes /\ \A n \in 1 .. taken : batch'[n] # i
      BY <1>2
    <3>2. PICK m \in 1 .. Len(order) : order[m] = Key(i)
      BY <3>1 DEF QInv, Listed
    <3>3. ~(m \in 1 .. taken)
      BY <1>5, <3>1, <3>2 DEF QInv, Listed
    <3>4. m - taken \in 1 .. rest /\ (m - taken) + taken = m
      BY <1>1, <3>3 DEF rest
    <3> QED
      BY <1>8, <3>2, <3>4
  <2>4. \A m, n \in 1 .. Len(order') : order'[m] = order'[n] => m = n
    <3> SUFFICES ASSUME NEW m \in 1 .. rest, NEW n \in 1 .. rest, order'[m] = order'[n]
                 PROVE  m = n
      BY <1>8
    <3>1. m + taken = n + taken
      BY <1>8, <1>9
    <3> QED
      BY <1>1, <1>8, <3>1
  <2>5. Cardinality(writes') + inFlight' + Returning' <= MaxQueued
    <3>1. Cardinality(writes) \in Nat /\ MaxQueued \in Nat
      BY WaitingIsFinite, BoundsAreNatural DEF QInv
    <3>2. Cardinality(writes) <= MaxQueued
      BY <1>3, <3>1 DEF QInv, Listed
    <3>3. inFlight' = inFlight + taken
      BY <1>2
    <3> HIDE DEF Batched
    <3> QED
      BY <1>1, <1>3, <1>11, <3>1, <3>2, <3>3
  <2> QED
    BY <2>1, <2>2, <2>3, <2>4, <2>5 DEF Listed
<1>17. Newest'
  <2>1. \A i \in writes', j \in Accepted' : Key(i)' = Key(j)' => j <= i
    BY <1>2 DEF QInv, Newest, Key, Accepted
  <2>2. ASSUME NEW n \in 1 .. taken, NEW j \in Accepted, Key(batch'[n]) = Key(j)
        PROVE  ~(batch'[n] < j)
    <3>1. j <= batch'[n] /\ batch'[n] \in Accepted
      BY <1>5, <1>6, <2>2 DEF QInv, Newest
    <3> QED
      BY <3>1 DEF Accepted
  <2>3. \A n \in 1 .. Len(batch'), j \in Accepted' :
            batch'[n] < j /\ Key(batch[n])' = Key(j)' => \E k \in writes' : Key(k)' = Key(j)'
    <3> SUFFICES ASSUME NEW n \in 1 .. taken, NEW j \in Accepted, batch'[n] < j,
                        Key(batch[n])' = Key(j)'
                 PROVE  FALSE
      BY <1>2, <1>7 DEF Accepted
    <3>1. Key(batch'[n]) = Key(j)
      BY <1>2 DEF Key
    <3> QED
      BY <2>2, <3>1
  <2> QED
    BY <1>2, <2>1, <2>3 DEF QInv, Newest, Key, Accepted
<1>18. Accounted'
  <2>0. log' = log /\ Len(batch') = taken /\ ~Saving'
    BY <1>2, <1>3, <1>7
  <2> SUFFICES ASSUME NEW i \in Accepted
               PROVE  log[i].fate = "pending" <=>
                        i \in writes' \/ \E n \in 1 .. taken : batch'[n] = i
    BY <2>0 DEF Accounted, Accepted
  <2>1. log[i].fate = "pending" <=> i \in writes
    BY <1>3 DEF QInv, Accounted
  <2>2. i \in writes' => i \in writes
    BY <1>2
  <2> HIDE DEF Batched
  <2> QED
    BY <1>5, <1>15, <2>1, <2>2
<1> QED
  BY <1>12, <1>14, <1>16, <1>17, <1>18 DEF QInv
-----------------------------------------------------------------------------
(* What the files and the flags hold.                                      *)

Busy == {"compiling", "deferring", "saving", "writing", "recording"}
Contents == [Paths -> Generations \cup {Nothing}]

\* The generation stops at its bound until the cache is closed.
GenerationTypes ==
    /\ generation \in Generations
    /\ main # "done" => generation <= MaxGeneration

JobTypes ==
    \A a \in Actors : pc[a] \in Busy => job[a].path \in Paths /\ job[a].gen \in Generations

FileTypes ==
    /\ file \in Contents /\ manifest \in Contents /\ saved \in Contents
    /\ clearedAt \in [Paths -> Generations]

FlagTypes ==
    /\ active \in BOOLEAN /\ blocked \in BOOLEAN /\ accept \in BOOLEAN /\ stop \in BOOLEAN
    /\ flush \in BOOLEAN /\ durable \in BOOLEAN /\ requeued \in BOOLEAN
    /\ flushPending \in BOOLEAN /\ owed \in BOOLEAN

DiskTypes == GenerationTypes /\ JobTypes /\ FileTypes /\ FlagTypes

\* The types hold initially.
LEMMA InitTypes == Init => DiskTypes
<1> SUFFICES ASSUME Init PROVE DiskTypes
  OBVIOUS
<1>1. 0 \in Generations /\ 0 <= MaxGeneration
  BY BoundsAreNatural DEF Generations
<1>2. GenerationTypes /\ FlagTypes
  BY <1>1 DEF Init, GenerationTypes, FlagTypes
<1>3. JobTypes
  BY DEF Init, JobTypes, Busy
<1>4. FileTypes
  BY <1>1 DEF Init, FileTypes, Contents
<1> QED
  BY <1>2, <1>3, <1>4 DEF DiskTypes

\* A step that leaves the generation alone.
LEMMA SameGeneration ==
    ASSUME GenerationTypes, generation' = generation, main' = main \/ main # "done"
    PROVE  GenerationTypes'
BY DEF GenerationTypes

\* The generation moves on, and may.
LEMMA NextGeneration ==
    ASSUME GenerationTypes, generation' = generation + 1, main # "done",
           MayInvalidate \/ main' = "done"
    PROVE  GenerationTypes'
BY BoundsAreNatural DEF GenerationTypes, Generations, MayInvalidate

\* No thread takes up a blob.
LEMMA SameJobs ==
    ASSUME JobTypes,
           \A a \in Actors : pc'[a] \in Busy => pc[a] \in Busy /\ job'[a] = job[a]
    PROVE  JobTypes'
BY DEF JobTypes

\* A thread moves on with its blob, or leaves it.
LEMMA MovingJobs ==
    ASSUME JobTypes, Shape, NEW a \in Actors, NEW where, Goto(a, where), job' = job,
           pc[a] \in Busy \/ where \notin Busy
    PROVE  JobTypes'
BY DEF JobTypes, Shape, Goto

\* The steps of a save keep to the types.
LEMMA SaveKeepsTypes ==
    ASSUME DiskTypes, Shape, NEW a \in Actors, Save(a)
    PROVE  DiskTypes'
<1>1. pc[a] \in Busy /\ job' = job /\ generation' = generation /\ main' = main
  BY DEF Save, SaveBegin, WriteCachedShaderBlob, WriteFails, RecordShaderDigest, Busy, disk
<1>2. \E where : Goto(a, where)
  BY DEF Save, SaveBegin, WriteCachedShaderBlob, WriteFails, RecordShaderDigest, EndSave
<1>3. GenerationTypes' /\ JobTypes'
  BY <1>1, <1>2, SameGeneration, MovingJobs DEF DiskTypes
<1>4. job[a].path \in Paths /\ job[a].gen \in Generations
  BY <1>1 DEF DiskTypes, JobTypes
<1>5. FileTypes'
  BY <1>4 DEF Save, SaveBegin, WriteCachedShaderBlob, WriteFails, RecordShaderDigest, disk,
              DiskTypes, FileTypes, Contents
<1>6. FlagTypes'
  BY DEF Save, SaveBegin, WriteCachedShaderBlob, WriteFails, RecordShaderDigest, disk, flags,
         local, queue, DiskTypes, FlagTypes
<1> QED
  BY <1>3, <1>5, <1>6 DEF DiskTypes

\* The steps of a compile keep to the types.
LEMMA CompilerKeepsTypes ==
    ASSUME DiskTypes, Shape, NEW c \in Compilers,
           Persist(c) \/ \E p \in Paths : StartCompile(c, p)
    PROVE  DiskTypes'
<1>1. c \in Actors /\ Writer \in Actors /\ c # Writer
  BY WriterIsNoCompiler DEF Actors
<1>2. CASE Save(c)
  BY <1>1, <1>2, SaveKeepsTypes
<1>3. CASE ~Save(c)
  <2>1. UNCHANGED <<generation, main, file, manifest, saved, clearedAt, undeleted, flags, local,
                    flushPending, owed, active>>
    BY <1>3 DEF Persist, PersistNothing, PersistCompiledShaderBlob, DeferWrite, Enqueue,
                StartCompile, disk, queue
  <2>2. GenerationTypes' /\ FileTypes' /\ FlagTypes'
    BY <2>1, SameGeneration DEF DiskTypes, FileTypes, FlagTypes, flags, local
  <2>3. CASE \E p \in Paths : StartCompile(c, p)
    <3>1. PICK p \in Paths : StartCompile(c, p)
      BY <2>3
    <3>2. /\ job'[c].path = p /\ job'[c].gen = generation
          /\ \A a \in Actors \ {c} : pc'[a] = pc[a] /\ job'[a] = job[a]
      BY <1>1, <3>1 DEF StartCompile, Goto, Shape, Blob
    <3>3. JobTypes'
      BY <3>2 DEF DiskTypes, JobTypes, GenerationTypes
    <3> QED
      BY <2>2, <3>3 DEF DiskTypes
  <2>4. CASE DeferWrite(c)
    <3>1. /\ job' = job
          /\ pc' = [pc EXCEPT ![c] = "idle", ![Writer] = IF @ = "asleep" THEN "ready" ELSE @]
      BY <2>4 DEF DeferWrite, Enqueue
    <3>2. \A a \in Actors : pc'[a] \in Busy => pc[a] \in Busy /\ job'[a] = job[a]
      BY <1>1, <3>1 DEF Shape, Busy
    <3> QED
      BY <2>2, <3>2, SameJobs DEF DiskTypes
  <2>5. CASE PersistNothing(c) \/ PersistCompiledShaderBlob(c)
    <3>1. /\ job' = job /\ pc[c] \in Busy
          /\ \E where : Goto(c, where)
      BY <2>5 DEF PersistNothing, PersistCompiledShaderBlob, Busy
    <3> QED
      BY <1>1, <2>2, <3>1, MovingJobs DEF DiskTypes
  <2> QED
    BY <1>3, <2>3, <2>4, <2>5 DEF Persist
<1> QED
  BY <1>2, <1>3

\* The steps of the writer keep to the types.
LEMMA WriterKeepsTypes ==
    ASSUME DiskTypes, QInv, Shape, WriterStep
    PROVE  DiskTypes'
<1>1. Writer \in Actors
  BY DEF Actors
<1>2. CASE Save(Writer)
  BY <1>1, <1>2, SaveKeepsTypes
<1>3. CASE ~Save(Writer)
  <2>1. UNCHANGED <<generation, main, file, manifest, clearedAt, undeleted, flags, active>>
    BY <1>3 DEF WriterStep, WriterWaits, WriterSleeps, WriterTakes, Extract, WriterProceeds,
                WriterSettles, Settles, WriterRequeues, WriterFinishes, FinishBatch,
                WriterFlushes, WriterDefersFlush, WriterExits, disk
  <2>2. GenerationTypes'
    BY <2>1, SameGeneration DEF DiskTypes
  <2>3. saved' = saved \/ saved' = manifest
    BY <1>3 DEF WriterStep, WriterWaits, WriterSleeps, WriterTakes, Extract, WriterProceeds,
                WriterSettles, Settles, WriterRequeues, WriterFinishes, FinishBatch,
                WriterFlushes, WriterDefersFlush, WriterExits, disk
  <2>4. FileTypes'
    BY <2>1, <2>3 DEF DiskTypes, FileTypes
  <2>5. FlagTypes'
    <3>1. flush' \in BOOLEAN /\ durable' \in BOOLEAN
      BY <1>3 DEF WriterStep, WriterWaits, WriterSleeps, WriterTakes, Extract, WriterProceeds,
                  WriterSettles, Settles, WriterRequeues, WriterFinishes, FinishBatch,
                  WriterFlushes, WriterDefersFlush, WriterExits, local, DiskTypes, FlagTypes
    <3>2. requeued' \in BOOLEAN
      BY <1>3 DEF WriterStep, WriterWaits, WriterSleeps, WriterTakes, Extract, WriterProceeds,
                  WriterSettles, Settles, WriterRequeues, Requeue, BackToQueue, Forgotten,
                  WriterFinishes, FinishBatch, WriterFlushes, WriterDefersFlush, WriterExits,
                  local, DiskTypes, FlagTypes
    <3>3. flushPending' \in BOOLEAN
      BY <1>3 DEF WriterStep, WriterWaits, WriterSleeps, WriterTakes, Extract, WriterProceeds,
                  WriterSettles, Settles, WriterRequeues, WriterFinishes, FinishBatch,
                  WriterFlushes, WriterDefersFlush, WriterExits, queue, DiskTypes, FlagTypes
    <3>4. owed' \in BOOLEAN
      BY <1>3 DEF WriterStep, WriterWaits, WriterSleeps, WriterTakes, Extract, WriterProceeds,
                  WriterSettles, Settles, WriterRequeues, WriterFinishes, FinishBatch,
                  WriterFlushes, WriterDefersFlush, WriterExits, disk, DiskTypes, FlagTypes
    <3> QED
      BY <2>1, <3>1, <3>2, <3>3, <3>4 DEF DiskTypes, FlagTypes, flags
  <2>6. CASE WriterProceeds /\ active
    <3>1. batch # <<>> /\ batch \in Seq(Accepted) /\ log \in Seq(Entries)
      BY <2>6 DEF WriterProceeds, QInv, QueueTypes
    <3>2. Head(batch) \in Accepted
      BY <3>1
    <3>3. log[Head(batch)] \in Entries
      BY <3>1, <3>2 DEF Accepted
    <3>4. /\ job'[Writer].path = log[Head(batch)].path /\ job'[Writer].gen = log[Head(batch)].gen
          /\ \A a \in Actors \ {Writer} : pc'[a] = pc[a] /\ job'[a] = job[a]
      BY <1>1, <2>6 DEF WriterProceeds, Goto, Shape, Blob
    <3>5. JobTypes'
      BY <3>3, <3>4 DEF DiskTypes, JobTypes, Entries
    <3> QED
      BY <2>2, <2>4, <2>5, <3>5 DEF DiskTypes
  <2>7. CASE ~(WriterProceeds /\ active)
    <3>1. /\ job' = job
          /\ pc' = pc \/ \E where : where \notin Busy /\ Goto(Writer, where)
      BY <1>3, <2>7 DEF WriterStep, WriterWaits, WriterSleeps, WriterTakes, Extract,
             WriterProceeds, WriterSettles, Settles, WriterRequeues, WriterFinishes,
             FinishBatch, WriterFlushes, WriterDefersFlush, WriterExits, Busy
    <3>2. JobTypes'
      BY <1>1, <3>1, SameJobs, MovingJobs DEF DiskTypes
    <3> QED
      BY <2>2, <2>4, <2>5, <3>2 DEF DiskTypes
  <2> QED
    BY <2>6, <2>7
<1> QED
  BY <1>2, <1>3

\* The steps of the main thread, and the clears, keep to the types.
LEMMA MainThreadKeepsTypes ==
    ASSUME DiskTypes, Shape,
           \/ Block \/ Unblock \/ Clear \/ SetDiskCache \/ CompletionFlushes
           \/ \E P \in SUBSET Paths \ {{}} : DeleteScopedDiskCacheEntries(P)
           \/ CloseIntake \/ Teardown \/ WriterWakes
    PROVE  DiskTypes'
<1>1. JobTypes'
  <2>1. job' = job /\ (pc' = pc \/ Wake)
    BY DEF Block, Unblock, Clear, SetDiskCache, CompletionFlushes, DeleteScopedDiskCacheEntries,
           CloseIntake, Teardown, UnblockNotifies, StopWriter, JoinWriter, WriterWakes
  <2>2. \A a \in Actors : pc'[a] \in Busy => pc[a] \in Busy /\ job'[a] = job[a]
    BY <2>1 DEF Wake, Shape, Busy
  <2> QED
    BY <2>2, SameJobs DEF DiskTypes
<1>2. GenerationTypes'
  <2>1. CASE Clear \/ \E P \in SUBSET Paths \ {{}} : DeleteScopedDiskCacheEntries(P)
    <3>1. generation' = generation + 1 /\ MayInvalidate /\ main # "done"
      BY <2>1 DEF Clear, DeleteScopedDiskCacheEntries, Advance
    <3> QED
      BY <3>1, NextGeneration DEF DiskTypes
  <2>2. CASE SetDiskCache
    <3>1. main' = main /\ main = "idle"
      BY <2>2 DEF SetDiskCache
    <3>2. \/ generation' = generation
          \/ generation' = generation + 1 /\ MayInvalidate
      BY <2>2 DEF SetDiskCache
    <3> QED
      BY <3>1, <3>2, SameGeneration, NextGeneration DEF DiskTypes
  <2>3. CASE JoinWriter
    <3>1. generation' = generation + 1 /\ main = "joining" /\ main' = "done"
      BY <2>3 DEF JoinWriter
    <3> QED
      BY <3>1, NextGeneration DEF DiskTypes
  <2>4. CASE Block \/ Unblock \/ CompletionFlushes \/ CloseIntake \/ UnblockNotifies \/ StopWriter
             \/ WriterWakes
    <3>1. generation' = generation /\ (main' = main \/ main # "done")
      BY <2>4 DEF Block, Unblock, CompletionFlushes, CloseIntake, UnblockNotifies, StopWriter,
                  WriterWakes, disk
    <3> QED
      BY <3>1, SameGeneration DEF DiskTypes
  <2> QED
    BY <2>1, <2>2, <2>3, <2>4 DEF Teardown
<1>3. FileTypes'
  <2>1. CASE \E P \in SUBSET Paths \ {{}} : DeleteScopedDiskCacheEntries(P)
    <3>1. PICK P \in SUBSET Paths : DeleteScopedDiskCacheEntries(P)
      BY <2>1
    <3>2. generation' \in Generations
      BY <1>2 DEF GenerationTypes
    <3>3. file' \in Contents /\ manifest' \in Contents
      BY <3>1 DEF DeleteScopedDiskCacheEntries, DiskTypes, FileTypes, Contents
    <3>4. clearedAt' \in [Paths -> Generations]
      BY <3>1, <3>2 DEF DeleteScopedDiskCacheEntries, DiskTypes, FileTypes
    <3>5. saved' = saved \/ saved' = manifest'
      BY <3>1 DEF DeleteScopedDiskCacheEntries
    <3> QED
      BY <3>3, <3>4, <3>5 DEF DiskTypes, FileTypes
  <2>2. CASE ~\E P \in SUBSET Paths \ {{}} : DeleteScopedDiskCacheEntries(P)
    <3>1. UNCHANGED <<file, manifest, clearedAt, undeleted>> /\ (saved' = saved \/ saved' = manifest)
      BY <2>2 DEF Block, Unblock, Clear, SetDiskCache, CompletionFlushes, CloseIntake, Teardown,
                  UnblockNotifies, StopWriter, JoinWriter, WriterWakes, disk
    <3> QED
      BY <3>1 DEF DiskTypes, FileTypes
  <2> QED
    BY <2>1, <2>2
<1>4. FlagTypes'
  <2>1. UNCHANGED local
    BY DEF Block, Unblock, Clear, SetDiskCache, CompletionFlushes, DeleteScopedDiskCacheEntries,
           CloseIntake, Teardown, UnblockNotifies, StopWriter, JoinWriter, WriterWakes
  <2>2. blocked' \in BOOLEAN /\ accept' \in BOOLEAN /\ stop' \in BOOLEAN
    BY DEF Block, Unblock, Clear, SetDiskCache, CompletionFlushes, DeleteScopedDiskCacheEntries,
           CloseIntake, Teardown, UnblockNotifies, StopWriter, JoinWriter, WriterWakes, flags,
           DiskTypes, FlagTypes
  <2>3. active' \in BOOLEAN /\ owed' \in BOOLEAN /\ flushPending' \in BOOLEAN
    BY DEF Block, Unblock, Clear, SetDiskCache, CompletionFlushes, DeleteScopedDiskCacheEntries,
           CloseIntake, Teardown, UnblockNotifies, StopWriter, JoinWriter, WriterWakes, disk,
           queue, DiskTypes, FlagTypes
  <2> QED
    BY <2>1, <2>2, <2>3 DEF local, DiskTypes, FlagTypes
<1> QED
  BY <1>1, <1>2, <1>3, <1>4 DEF DiskTypes

\* Every step keeps to the types.
LEMMA StepKeepsTypes ==
    ASSUME DiskTypes, QInv, Shape, [Next]_vars
    PROVE  DiskTypes'
<1>1. CASE UNCHANGED vars
  BY <1>1 DEF vars, disk, queue, flags, local, DiskTypes, GenerationTypes, JobTypes, FileTypes,
              FlagTypes
<1> QED
  BY <1>1, CompilerKeepsTypes, WriterKeepsTypes, MainThreadKeepsTypes DEF Next
-----------------------------------------------------------------------------
(* The queue's invariant, and what follows from it.                        *)

\* The steps of a compile keep the queue sound: the writer's hands are its own.
LEMMA CompilerKeepsQueue ==
    ASSUME QInv, Shape, DiskTypes, NEW c \in Compilers,
           Persist(c) \/ \E p \in Paths : StartCompile(c, p)
    PROVE  QInv'
<1>1. c \in Actors /\ Writer \in Actors /\ c # Writer
  BY WriterIsNoCompiler DEF Actors
<1>2. CASE Save(c)
  BY <1>1, <1>2, SaveKeepsQueue
<1>3. CASE DeferWrite(c)
  <2>1. job[c].path \in Paths /\ job[c].gen \in Generations
    BY <1>1, <1>3 DEF DeferWrite, Enqueue, DiskTypes, JobTypes, Busy
  <2> QED
    BY <1>3, <2>1, EnqueueKeepsQueue
<1>4. CASE PersistNothing(c) \/ PersistCompiledShaderBlob(c) \/ \E p \in Paths : StartCompile(c, p)
  <2>1. UNCHANGED <<log, writes, order, batch, inFlight, extracted>>
    BY <1>4 DEF PersistNothing, PersistCompiledShaderBlob, StartCompile, queue, local
  <2>2. pc'[Writer] = pc[Writer] /\ job'[Writer] = job[Writer]
    BY <1>1, <1>4 DEF PersistNothing, PersistCompiledShaderBlob, StartCompile, Goto, Shape
  <2> QED
    BY <2>1, <2>2, QueueUntouched
<1> QED
  BY <1>2, <1>3, <1>4 DEF Persist

\* The steps of the writer keep the queue sound.
LEMMA WriterKeepsQueue ==
    ASSUME QInv, Shape, WriterStep
    PROVE  QInv'
<1>1. Writer \in Actors
  BY DEF Actors
<1>2. CASE WriterWaits \/ WriterSleeps \/ WriterFlushes \/ WriterDefersFlush
  <2>1. UNCHANGED <<log, writes, order, batch, inFlight, extracted>>
    BY <1>2 DEF WriterWaits, WriterSleeps, WriterFlushes, WriterDefersFlush, queue, local
  <2>2. pc[Writer] \notin HoldingPlaces /\ pc'[Writer] \notin HoldingPlaces
    BY <1>1, <1>2 DEF WriterWaits, WriterSleeps, WriterFlushes, WriterDefersFlush, Goto, Shape,
                      HoldingPlaces
  <2> QED
    BY <2>1, <2>2, QueueUntouched
<1>3. CASE WriterExits
  <2>1. /\ ~Holding /\ ~Holding' /\ log' = Settle(writes, "discarded")
        /\ writes' = {} /\ order' = <<>> /\ UNCHANGED <<batch, extracted>>
        /\ inFlight' \in {0, inFlight}
    BY <1>1, <1>3 DEF WriterExits, Goto, Shape, Holding, Saving, local
  <2> QED
    BY <2>1, DiscardKeepsQueue
<1> QED
  BY <1>1, <1>2, <1>3, TakesKeepsQueue, ProceedsKeepsQueue, SaveKeepsQueue, SettlesKeepsQueue,
     RequeuesKeepsQueue, FinishesKeepsQueue DEF WriterStep

\* The steps of the main thread, and the clears, keep the queue sound.
LEMMA MainThreadKeepsQueue ==
    ASSUME QInv, Shape,
           \/ Block \/ Unblock \/ Clear \/ SetDiskCache \/ CompletionFlushes
           \/ \E P \in SUBSET Paths \ {{}} : DeleteScopedDiskCacheEntries(P)
           \/ CloseIntake \/ Teardown \/ WriterWakes
    PROVE  QInv'
<1>1. CASE JoinWriter
  <2>1. /\ ~Holding /\ ~Holding' /\ log' = Settle(writes, "discarded")
        /\ writes' = {} /\ order' = <<>> /\ UNCHANGED <<batch, extracted>>
        /\ inFlight' \in {0, inFlight}
    BY <1>1 DEF JoinWriter, Holding, Saving, local
  <2> QED
    BY <2>1, DiscardKeepsQueue
<1>2. CASE ~JoinWriter
  <2>1. UNCHANGED <<log, writes, order, batch, inFlight, extracted, job>> /\ (pc' = pc \/ Wake)
    BY <1>2 DEF Block, Unblock, Clear, SetDiskCache, CompletionFlushes,
                DeleteScopedDiskCacheEntries, CloseIntake, Teardown, UnblockNotifies,
                StopWriter, WriterWakes, queue, local
  <2>2. pc'[Writer] = pc[Writer] \/ (pc[Writer] = "asleep" /\ pc'[Writer] = "ready")
    BY <2>1 DEF Wake, Shape, Actors
  <2>3. \/ pc'[Writer] = pc[Writer] /\ job'[Writer] = job[Writer]
        \/ pc[Writer] \notin HoldingPlaces /\ pc'[Writer] \notin HoldingPlaces
    BY <2>1, <2>2 DEF HoldingPlaces
  <2> QED
    BY <2>1, <2>3, QueueUntouched
<1> QED
  BY <1>1, <1>2

\* Every step keeps the queue sound.
LEMMA StepKeepsQueue ==
    ASSUME QInv, Shape, DiskTypes, [Next]_vars
    PROVE  QInv'
<1>1. CASE UNCHANGED vars
  BY <1>1, QueueUntouched DEF vars, queue, local
<1> QED
  BY <1>1, CompilerKeepsQueue, WriterKeepsQueue, MainThreadKeepsQueue DEF Next

\* The queue's invariant holds in every reachable state, for any bounds, any
\* number of compiles and any history of blocks, clears and interrupted batches.
THEOREM QueueInvariant == Spec => [](IInv /\ DiskTypes /\ QInv)
<1>1. Init => IInv /\ DiskTypes /\ QInv
  BY InitEstablishes, InitTypes, InitQueue
<1>2. IInv /\ DiskTypes /\ QInv /\ [Next]_vars => (IInv /\ DiskTypes /\ QInv)'
  <2> SUFFICES ASSUME IInv, DiskTypes, QInv, [Next]_vars PROVE IInv' /\ DiskTypes' /\ QInv'
    OBVIOUS
  <2>1. Shape
    BY DEF IInv
  <2> QED
    BY <2>1, StepPreserves, StepKeepsTypes, StepKeepsQueue
<1> QED
  BY <1>1, <1>2, PTL DEF Spec

\* Every variable has its type in every reachable state; in particular the
\* generations of blobs, files and entries are ones the cache has had.
THEOREM TypesAreKept == Spec => []TypeOK
<1>1. IInv /\ DiskTypes /\ QInv => TypeOK
  <2> SUFFICES ASSUME IInv, DiskTypes, QInv PROVE TypeOK
    OBVIOUS
  <2>1. pc \in [Actors -> Places]
    BY DEF IInv, Shape
  <2>2. generation \in Generations
    BY DEF DiskTypes, GenerationTypes
  <2>3. /\ {file, manifest, saved} \subseteq [Paths -> Generations \cup {Nothing}]
        /\ clearedAt \in [Paths -> Generations] /\ undeleted \subseteq Paths
    BY DEF DiskTypes, FileTypes, Contents, IInv, Shape
  <2>4. log \in Seq([path : Paths, gen : Generations, fate : Fate])
    BY DEF QInv, QueueTypes, Entries
  <2>5. writes \subseteq DOMAIN log /\ ToSet(batch) \subseteq DOMAIN log
    <3>1. DOMAIN log = Accepted /\ DOMAIN batch = 1 .. Len(batch)
      BY DEF QInv, QueueTypes, Accepted
    <3> QED
      BY <3>1 DEF QInv, QueueTypes, ToSet
  <2>6. order \in Seq(Paths \X Generations)
    BY DEF QInv, QueueTypes
  <2>7. {inFlight, extracted} \subseteq 0 .. MaxQueued
    <3>1. inFlight \in Nat /\ extracted = inFlight /\ MaxQueued \in Nat
      BY BoundsAreNatural DEF QInv, QueueTypes
    <3>2. Cardinality(writes) \in Nat
      BY WaitingIsFinite DEF QInv
    <3>3. Returning \in Nat
      BY DEF Returning, QInv, QueueTypes
    <3>4. inFlight <= MaxQueued
      BY <3>1, <3>2, <3>3 DEF QInv, Listed
    <3> QED
      BY <3>1, <3>4
  <2>8. /\ active \in BOOLEAN
        /\ {blocked, accept, stop, flush, durable, requeued, flushPending, owed} \subseteq BOOLEAN
    BY DEF DiskTypes, FlagTypes
  <2> QED
    BY <2>1, <2>2, <2>3, <2>4, <2>5, <2>6, <2>7, <2>8 DEF TypeOK
<1> QED
  BY <1>1, QueueInvariant, PTL

\* deferredDiskWriteOrder and deferredDiskWrites describe the same writes, one
\* for each blob, and with the writer's batch they never exceed the bound: what
\* an interrupted batch puts back always finds its room.
THEOREM TheQueueIsSound == Spec => []QueueIsSound
<1>1. QInv => QueueIsSound
  <2> SUFFICES ASSUME QInv PROVE QueueIsSound
    OBVIOUS
  <2>1. order \in Seq(Paths \X Generations) /\ Len(order) \in Nat /\ DOMAIN order = 1 .. Len(order)
    BY DEF QInv, QueueTypes
  <2>2. IsFiniteSet(1 .. Len(order)) /\ Cardinality(1 .. Len(order)) = Len(order)
    BY <2>1, FS_Interval
  <2> DEFINE keys == {Key(i) : i \in writes}
  <2>3. ToSet(order) = keys
    BY <2>1 DEF ToSet, QInv, Listed
  <2>4. Cardinality(keys) = Len(order)
    <3>1. order \in Bijection(1 .. Len(order), keys)
      <4>1. order \in [1 .. Len(order) -> keys]
        BY <2>1 DEF QInv, Listed
      <4>2. \A t \in keys : \E n \in 1 .. Len(order) : order[n] = t
        BY DEF QInv, Listed
      <4>3. \A m, n \in 1 .. Len(order) : order[m] = order[n] => m = n
        BY DEF QInv, Listed
      <4> QED
        BY <4>1, <4>2, <4>3 DEF Bijection, Injection, Surjection, IsInjective
    <3>2. ExistsBijection(1 .. Len(order), keys)
      BY <3>1 DEF ExistsBijection
    <3> QED
      BY <2>2, <3>2, FS_Bijection
  <2>5. Cardinality(writes) = Cardinality(keys)
    <3> DEFINE f == [i \in writes |-> Key(i)]
    <3>1. f \in Bijection(writes, keys)
      <4>1. f \in [writes -> keys] /\ \A t \in keys : \E i \in writes : f[i] = t
        OBVIOUS
      <4>2. \A i, j \in writes : f[i] = f[j] => i = j
        BY DEF QInv, Listed
      <4> QED
        BY <4>1, <4>2 DEF Bijection, Injection, Surjection, IsInjective
    <3>2. ExistsBijection(writes, keys)
      BY <3>1 DEF ExistsBijection
    <3>3. IsFiniteSet(writes)
      BY WaitingIsFinite DEF QInv
    <3> QED
      BY <3>2, <3>3, FS_Bijection
  <2>6. Cardinality(writes) + inFlight + Returning <= MaxQueued
    BY DEF QInv, Listed
  <2> HIDE DEF keys
  <2>7. Len(order) = Cardinality(writes) /\ Cardinality(ToSet(order)) = Len(order)
    BY <2>3, <2>4, <2>5
  <2> QED
    BY <2>3, <2>6, <2>7 DEF QueueIsSound, keys
<1> QED
  BY <1>1, QueueInvariant, PTL

\* A write the queue accepted waits, is in the writer's hands, or is settled: no
\* interruption of a batch, clear or failed save loses one or settles it early.
THEOREM WritesAreNeverLost == Spec => []WritesAreAccountedFor
<1>1. QInv => WritesAreAccountedFor
  <2> SUFFICES ASSUME QInv, NEW i \in DOMAIN log
               PROVE  log[i].fate = "pending" <=>
                          \/ i \in writes \/ i \in ToSet(batch)
                          \/ pc[Writer] \in {"saving", "writing", "recording"}
                             /\ job[Writer].id = i
    BY DEF WritesAreAccountedFor
  <2>1. i \in Accepted /\ DOMAIN batch = 1 .. Len(batch)
    BY DEF QInv, QueueTypes, Accepted
  <2>2. i \in ToSet(batch) <=> \E n \in 1 .. Len(batch) : batch[n] = i
    BY <2>1 DEF ToSet
  <2> QED
    BY <2>1, <2>2 DEF QInv, Accounted, Saving
<1> QED
  BY <1>1, QueueInvariant, PTL

\* The last blob a compile hands over for a path and generation is the last that
\* is written: neither the queue nor a batch put back revives an older one.
THEOREM TheNewestWriteWins == Spec => []NewestWriteWins
<1>1. QInv => NewestWriteWins
  <2> SUFFICES ASSUME QInv, NEW i \in DOMAIN log, NEW j \in DOMAIN log, i < j, Key(i) = Key(j)
               PROVE  i \notin writes /\ (log[j].fate = "written" => log[i].fate # "pending")
    BY DEF NewestWriteWins
  <2>1. i \in Accepted /\ j \in Accepted /\ i \in Nat /\ j \in Nat
    BY DEF QInv, QueueTypes, Accepted
  <2> QED
    BY <2>1 DEF QInv, Newest
<1> QED
  BY <1>1, QueueInvariant, PTL
=============================================================================
