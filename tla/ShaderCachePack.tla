--------------------------- MODULE ShaderCachePack ---------------------------
(***************************************************************************)
(* One lane of the managed shader pack (Utils/ShaderCachePack.cpp) and the *)
(* switch the plugin keeps in front of it (ShaderCache.cpp): two files, A  *)
(* and B, each with a generation in its header and records appended to it. *)
(* The file of the higher generation is active; the other one is searched  *)
(* as well while it is the generation just before.  Compaction and reset   *)
(* rewrite the inactive file, one file operation at a time, and a process  *)
(* or the machine may die between any two of them.                         *)
(*                                                                         *)
(* One action is one file operation.  The store's mutex makes Compact and  *)
(* Reset one operation to everybody else: op says how far it has got.      *)
(* Hashes, offsets and sizes are left out: a scan finds the records whose  *)
(* commit trailer reached the file, in order, and a record's sequence is   *)
(* its place in that order.                                                *)
(***************************************************************************)
EXTENDS Integers, Sequences

CONSTANTS
    A, B,           \* the two fixed paths of the lane
    Exacts,         \* exact keys
    Logicals,       \* logical keys
    LogicalOf,      \* the logical key within an exact one
    None,           \* no record
    MaxGeneration,  \* the largest 64-bit generation; small in a run
    MaxAppends      \* bound: records ever appended

ASSUME FilesDiffer == A # B
ASSUME KeysNest == LogicalOf \in [Exacts -> Logicals]
ASSUME NoneIsNoLocation ==
    None \notin [file : {A, B}, gen : Nat, seq : Nat, rec : [exact : Exacts, id : Nat]]
ASSUME GenerationsFit == MaxGeneration \in Nat /\ MaxGeneration >= 1

VARIABLES
    image,          \* what a file holds for whoever reads it
    synced,         \* what it held at its last DurableFlush
    store,          \* Store: opened, active, exactIndex, liveByLogical
    op,             \* the Compact or Reset under way
    phase,          \* of the process: "down", "starting", "up"
    installed,      \* packs.optimized is not null
    available,      \* packs.optimizedAvailable
    condemned,      \* a saver is about to quarantine the lane
    pending,        \* records the writer has appended since its Checkpoint
    ids,            \* records ever appended
    kept,           \* records a Checkpoint reported as durable
    erased          \* records up to this one are covered by a durable reset

files == <<image, synced>>
lane == <<phase, installed, available, condemned>>
promises == <<pending, kept, erased>>
vars == <<files, store, op, lane, ids, promises>>

Files == {A, B}
Other(f) == IF f = A THEN B ELSE A

\* A file of zero bytes, and a file with nothing but a header.
Blank == [valid |-> FALSE, gen |-> 0, recs |-> <<>>, torn |-> FALSE]
Empty(g) == [valid |-> TRUE, gen |-> g, recs |-> <<>>, torn |-> FALSE]

\* Defect: the record goes behind the remains of an earlier one.
MutAppendTo(file, r) ==
    IF file.torn THEN file ELSE [file EXCEPT !.recs = Append(@, r)]

\* AppendLocked: what follows the last whole record is cut off first.
AppendTo(file, r) == [file EXCEPT !.recs = Append(@, r), !.torn = FALSE]
-----------------------------------------------------------------------------
(* OpenLocked and RebuildIndexes.                                          *)

LocationsIn(d, f) ==
    {[file |-> f, gen |-> d[f].gen, seq |-> i, rec |-> d[f].recs[i]] : i \in DOMAIN d[f].recs}

\* fallbackContinuesActive: a gap in the generations hides the older file.
Continues(d, a) ==
    /\ d[Other(a)].valid /\ d[Other(a)].gen # 0
    /\ d[Other(a)].gen + 1 = d[a].gen

Indexed(d, a) ==
    LocationsIn(d, a) \cup (IF Continues(d, a) THEN LocationsIn(d, Other(a)) ELSE {})

Newer(p, q) == p.gen > q.gen \/ (p.gen = q.gen /\ p.seq > q.seq)

NewestOf(locations) ==
    LET newest == {p \in locations : \A q \in locations : ~Newer(q, p)}
    IN IF newest = {} THEN None ELSE CHOOSE p \in newest : TRUE

Opened(d, a) ==
    [opened |-> TRUE, active |-> a,
     exactIndex |-> [x \in Exacts |-> NewestOf({p \in Indexed(d, a) : p.rec.exact = x})],
     liveByLogical |->
        [l \in Logicals |-> NewestOf({p \in Indexed(d, a) : LogicalOf[p.rec.exact] = l})]]

\* InvalidateStateLocked
Closed ==
    [opened |-> FALSE, active |-> A,
     exactIndex |-> [x \in Exacts |-> None], liveByLogical |-> [l \in Logicals |-> None]]

\* Admission changes nothing: both headers are valid, their generations differ.
Admissible(d) == d[A].valid /\ d[B].valid /\ d[A].gen # d[B].gen

ActiveIn(d) == IF d[B].gen > d[A].gen THEN B ELSE A

OpenLocked == Opened(image, ActiveIn(image))
-----------------------------------------------------------------------------
NoOp == [kind |-> "none", pc |-> "idle", target |-> A, gen |-> 0, todo |-> {}, only |-> {}]

Rewrite(kind, target, gen) ==
    [kind |-> kind, pc |-> "truncate", target |-> target, gen |-> gen,
     todo |-> {}, only |-> {}]

Idle == op = NoOp

Init ==
    /\ image = [f \in Files |-> IF f = A THEN Empty(1) ELSE Empty(0)]
    /\ synced = image
    /\ store = Closed /\ op = NoOp
    /\ phase = "down" /\ installed = FALSE /\ available = FALSE /\ condemned = FALSE
    /\ ids = 0 /\ pending = {} /\ kept = {} /\ erased = 0

(* The process starts: InitializeManagedPacks, once, and ValidateDiskCache.  *)

InitializeManagedPacks ==
    /\ phase = "down"
    /\ phase' = "starting"
    /\ \/ /\ Admissible(image)
          /\ store' = OpenLocked
          /\ installed' = TRUE /\ available' = TRUE
       \/ store' = Closed /\ UNCHANGED <<installed, available>>     \* rejected
    /\ UNCHANGED <<files, op, condemned, ids, promises>>

FinishValidation ==
    /\ phase = "starting" /\ Idle
    /\ phase' = "up"
    /\ UNCHANGED <<files, store, op, installed, available, condemned, ids, promises>>
-----------------------------------------------------------------------------
(* Saving, looking up, quarantine.                                         *)

\* The indexes of s once r is the last record of its active file.
Index(s, r) ==
    LET at == [file |-> s.active, gen |-> image[s.active].gen,
               seq |-> Len(image[s.active].recs) + 1, rec |-> r]
        live == s.liveByLogical[LogicalOf[r.exact]]
    IN [s EXCEPT !.exactIndex[r.exact] = at,
                 !.liveByLogical[LogicalOf[r.exact]] =
                    IF live = None \/ ~Newer(live, at) THEN at ELSE live]

CanSave == phase = "up" /\ Idle /\ installed /\ available /\ ids < MaxAppends

\* Append opens a store that a failure has closed.
ForAppend == IF store.opened THEN store ELSE OpenLocked

SaveShaderBlobToPack(x) ==
    LET r == [exact |-> x, id |-> ids + 1] IN
    /\ CanSave
    /\ store.opened \/ Admissible(image)
    /\ image' = [image EXCEPT ![ForAppend.active] = AppendTo(@, r)]
    /\ store' = Index(ForAppend, r)
    /\ ids' = ids + 1
    /\ pending' = pending \cup {r}
    /\ UNCHANGED <<synced, op, lane, kept, erased>>

\* The write fails, or throws: nothing, a part or all of the record is in the file.
AppendFails(x) ==
    LET r == [exact |-> x, id |-> ids + 1]
        f == ForAppend.active
    IN /\ CanSave
       /\ store.opened \/ Admissible(image)
       /\ \E after \in {[image[f] EXCEPT !.torn = FALSE], [image[f] EXCEPT !.torn = TRUE],
                        AppendTo(image[f], r)} :
             image' = [image EXCEPT ![f] = after]
       /\ store' = Closed
       /\ condemned' = TRUE
       /\ ids' = ids + 1
       /\ UNCHANGED <<synced, op, phase, installed, available, promises>>

\* It fails before it touches the file, or the store cannot be opened.
AppendRefused ==
    /\ CanSave
    /\ \/ UNCHANGED store
       \/ ~store.opened /\ Admissible(image) /\ store' = OpenLocked
    /\ condemned' = TRUE
    /\ UNCHANGED <<files, op, phase, installed, available, ids, promises>>

QuarantineShaderPackLane ==
    /\ condemned
    /\ condemned' = FALSE /\ available' = FALSE
    /\ UNCHANGED <<files, store, op, phase, installed, ids, promises>>

\* A record that cannot be read back costs the lane.
LoadFails ==
    /\ available /\ store.opened /\ Idle
    /\ available' = FALSE
    /\ UNCHANGED <<files, store, op, phase, installed, condemned, ids, promises>>

\* Defect: the records are counted as durable before they are flushed.
MutCheckpoint ==
    /\ pending # {} /\ Idle
    /\ available /\ store.opened
    /\ kept' = kept \cup pending
    /\ pending' = {}
    /\ UNCHANGED <<files, store, op, lane, ids, erased>>

Checkpoint ==
    /\ pending # {} /\ Idle
    /\ available /\ store.opened
    /\ synced' = [synced EXCEPT ![store.active] = image[store.active]]
    /\ kept' = kept \cup pending
    /\ pending' = {}
    /\ UNCHANGED <<image, store, op, lane, ids, erased>>

CheckpointFails ==
    /\ pending # {} /\ Idle
    /\ pending' = {}
    /\ available' = FALSE
    /\ UNCHANGED <<files, store, op, phase, installed, condemned, ids, kept, erased>>
-----------------------------------------------------------------------------
(* Compact and Reset.                                                      *)

\* CompactShaderPacksIfNeeded: at startup, when the active file holds a record
\* that a later one of the same logical key has superseded.
ShouldCompact ==
    \E i, j \in DOMAIN image[store.active].recs :
        i < j /\ LogicalOf[image[store.active].recs[i].exact]
                    = LogicalOf[image[store.active].recs[j].exact]

Live == {store.liveByLogical[l] : l \in Logicals} \ {None}

\* c answers a lookup of r's logical key at least as well.
Supersedes(c, r) == LogicalOf[c.exact] = LogicalOf[r.exact] /\ c.id >= r.id

\* What f holds, and not what it held before it was rewritten, is durable.
HeldDurably(r, f) ==
    /\ synced[f].gen = image[f].gen
    /\ \E i \in DOMAIN synced[f].recs : Supersedes(synced[f].recs[i], r)

\* The logical keys of checkpointed records that the active file does not hold
\* durably: the file a compaction rewrites has their one durable copy.
Staked == {LogicalOf[r.exact] : r \in {q \in kept : ~HeldDurably(q, store.active)}}

\* The live records are read into memory first.
Compact ==
    LET target == Other(store.active) IN
    /\ phase = "starting" /\ Idle /\ available /\ store.opened
    /\ ShouldCompact
    /\ op' = [Rewrite("compact", target, image[store.active].gen + 1) EXCEPT
                 !.todo = {p.rec : p \in Live},
                 !.only = Staked]
    /\ UNCHANGED <<files, store, lane, ids, promises>>

\* Defect: the barrier is the next generation, as after a compaction.
MutBarrierGeneration(g) == g + 1

\* The generation of a reset's barrier hides the one it replaces.
BarrierGeneration(g) == g + 2

\* ResetManagedShaderPacks: also of a lane in quarantine, not of one that was
\* never admitted.  A saver keeps it out until it has quarantined.
Reset ==
    /\ phase = "up" /\ Idle /\ installed /\ ~condemned
    /\ store.opened \/ Admissible(image)
    /\ store' = ForAppend
    /\ op' = Rewrite("barrier", Other(ForAppend.active),
                     BarrierGeneration(image[ForAppend.active].gen))
    /\ UNCHANGED <<files, lane, ids, promises>>

\* It cannot open the store: FailedBeforeCommit.
ResetRefused ==
    /\ phase = "up" /\ Idle /\ ~condemned /\ ~store.opened
    /\ available' = FALSE
    /\ UNCHANGED <<files, store, op, phase, installed, condemned, ids, promises>>

At(pc) == op.pc = pc
GoTo(pc) == op' = [op EXCEPT !.pc = pc]

\* Defect: nobody asks whether the generation is exhausted.
MutTruncate ==
    /\ At("truncate")
    /\ image' = [image EXCEPT ![op.target] = Blank]
    /\ GoTo("header")
    /\ IF op.kind = "barrier" THEN kept' = {} /\ pending' = {}
       ELSE UNCHANGED <<kept, pending>>
    /\ UNCHANGED <<synced, store, lane, ids, erased>>

\* InitializeEmpty opens the file for truncation: from here on it has changed.
\* A reset ends what its Checkpoints have promised.
Truncate ==
    /\ At("truncate") /\ op.gen <= MaxGeneration
    /\ image' = [image EXCEPT ![op.target] = Blank]
    /\ GoTo("header")
    /\ IF op.kind = "barrier" THEN kept' = {} /\ pending' = {}
       ELSE UNCHANGED <<kept, pending>>
    /\ UNCHANGED <<synced, store, lane, ids, erased>>

WriteHeader ==
    /\ At("header")
    /\ image' = [image EXCEPT ![op.target] = Empty(op.gen)]
    /\ GoTo("flush")
    /\ UNCHANGED <<synced, store, lane, ids, promises>>

Flush(f) == synced' = [synced EXCEPT ![f] = image[f]]

\* DurableFlush of the header: the point where a reset is committed.
FlushHeader ==
    /\ At("flush")
    /\ Flush(op.target)
    /\ GoTo(IF op.kind = "compact" THEN "copy" ELSE "reopen")
    /\ erased' = IF op.kind = "barrier" THEN ids ELSE erased
    /\ UNCHANGED <<image, store, lane, ids, pending, kept>>

CopyRecord ==
    /\ At("copy")
    /\ \E r \in op.todo :
          /\ image' = [image EXCEPT ![op.target] = AppendTo(@, r)]
          /\ op' = [op EXCEPT !.todo = @ \ {r}]
    /\ UNCHANGED <<synced, store, lane, ids, promises>>

FlushCopies ==
    /\ At("copy") /\ op.todo = {}
    /\ Flush(op.target)
    /\ GoTo("reopen")
    /\ UNCHANGED <<image, store, lane, ids, promises>>

Reopen ==
    /\ At("reopen") /\ Admissible(image)
    /\ store' = OpenLocked
    /\ op' = IF op.kind = "barrier"
             THEN Rewrite("cleanup", Other(store'.active), image[store'.active].gen - 1)
             ELSE NoOp
    /\ available' = (available \/ op.kind = "cleanup")
    /\ UNCHANGED <<files, phase, installed, condemned, ids, promises>>

\* Before the file is touched: the store stays as it is, unless a reset throws;
\* the lane is quarantined.
FailsBeforeMutation ==
    /\ At("truncate") /\ op.kind # "cleanup"
    /\ \/ UNCHANGED store
       \/ op.kind = "barrier" /\ store' = Closed
    /\ op' = NoOp
    /\ available' = FALSE
    /\ UNCHANGED <<files, phase, installed, condemned, ids, promises>>

\* What is left of the promises when the rewriting of a file is cut short.
Abandon == kept' = {r \in kept : LogicalOf[r.exact] \notin op.only}

\* Later, or when the store cannot be reopened: it gives up its authority.
FailsAfterMutation ==
    /\ ~Idle /\ ~At("truncate")
    /\ op.kind = "cleanup" => At("reopen")
    /\ store' = Closed /\ op' = NoOp
    /\ available' = FALSE
    /\ Abandon
    /\ UNCHANGED <<files, phase, installed, condemned, ids, pending, erased>>

\* retainAuthoritativeReset
Retained == [Closed EXCEPT !.opened = TRUE, !.active = store.active]

\* The clean-up of the old file fails anywhere: the empty generation stays.
CleanupFails ==
    /\ op.kind = "cleanup"
    /\ store' = Retained /\ op' = NoOp
    /\ available' = TRUE
    /\ UNCHANGED <<files, phase, installed, condemned, ids, promises>>
-----------------------------------------------------------------------------
(* The process and the machine.                                            *)

Down ==
    /\ phase # "down"
    /\ phase' = "down"
    /\ store' = Closed /\ op' = NoOp
    /\ installed' = FALSE /\ available' = FALSE /\ condemned' = FALSE
    /\ pending' = {}
    /\ Abandon

\* What the process has written stays.
ProcessEnds ==
    /\ Down
    /\ UNCHANGED <<files, ids, erased>>

\* The first n records of a file, and perhaps a part of the next.
Cut(file, n, torn) ==
    [file EXCEPT !.recs = SubSeq(@, 1, n), !.torn = file.valid /\ torn]

\* A power loss leaves what was flushed, with any part of what was appended to
\* it since; of a file that was rewritten since, the old or the new contents.
Survivors(f) ==
    LET now == image[f]
        old == synced[f]
        appended == now.valid /\ old.valid /\ now.gen = old.gen
    IN {Cut(now, n, torn) :
            n \in (IF appended THEN Len(old.recs) ELSE 0) .. Len(now.recs), torn \in BOOLEAN}
       \cup (IF appended THEN {} ELSE {old, Blank})

PowerLoss ==
    /\ Down
    /\ \E a \in Survivors(A), b \in Survivors(B) :
          image' = [f \in Files |-> IF f = A THEN a ELSE b]
    /\ synced' = image'
    /\ UNCHANGED <<ids, erased>>

Next ==
    \/ InitializeManagedPacks \/ FinishValidation
    \/ \E x \in Exacts : SaveShaderBlobToPack(x) \/ AppendFails(x)
    \/ AppendRefused \/ QuarantineShaderPackLane \/ LoadFails
    \/ Checkpoint \/ CheckpointFails
    \/ Compact \/ Reset \/ ResetRefused
    \/ Truncate \/ WriteHeader \/ FlushHeader \/ CopyRecord \/ FlushCopies \/ Reopen
    \/ FailsBeforeMutation \/ FailsAfterMutation \/ CleanupFails
    \/ ProcessEnds \/ PowerLoss

Spec == Init /\ [][Next]_vars
-----------------------------------------------------------------------------
(* Properties.                                                             *)

Records == [exact : Exacts, id : 1 .. ids]
Images == [valid : BOOLEAN, gen : 0 .. MaxGeneration, recs : Seq(Records), torn : BOOLEAN]
Locations == [file : Files, gen : 0 .. MaxGeneration, seq : Nat, rec : Records]

\* No generation passes the largest one: MaxGeneration is where the code refuses.
TypeOK ==
    /\ image \in [Files -> Images] /\ synced \in [Files -> Images]
    /\ store \in [opened : BOOLEAN, active : Files,
                  exactIndex : [Exacts -> Locations \cup {None}],
                  liveByLogical : [Logicals -> Locations \cup {None}]]
    /\ op \in [kind : {"none", "compact", "barrier", "cleanup"},
               pc : {"idle", "truncate", "header", "flush", "copy", "reopen"},
               target : Files, gen : Nat, todo : SUBSET Records, only : SUBSET Logicals]
    /\ phase \in {"down", "starting", "up"}
    /\ installed \in BOOLEAN /\ available \in BOOLEAN /\ condemned \in BOOLEAN
    /\ ids \in Nat /\ erased \in 0 .. ids
    /\ pending \subseteq Records /\ kept \subseteq Records

Answers == {store.exactIndex[x] : x \in Exacts} \cup Live

\* Once the barrier of a reset is durable, no lookup finds a record from before
\* it: not when its clean-up fails, not after a crash or a power loss, and not
\* when a later compaction or reset of the two files is interrupted.
ResetIsFinal ==
    Idle => \A p \in Answers : p # None => p.rec.id > erased

\* The indexes an open store answers from, kept by Append one record at a time
\* and cleared by a reset, are those a new process would build from the files.
IndexMatchesDisk ==
    store.opened /\ Idle =>
        /\ store.exactIndex = Opened(image, store.active).exactIndex
        /\ store.liveByLogical = Opened(image, store.active).liveByLogical

\* A record that a Checkpoint reported as durable, or a newer one of the same
\* logical key, is found whenever the lane is open, whatever has died since.
\* Except where a compaction rewrites the only copy, which takes the remains
\* of an earlier interrupted one, and is interrupted itself (Abandon).
CheckpointedRecordsSurvive ==
    store.opened /\ Idle =>
        \A r \in kept : r.id > erased =>
            LET live == store.liveByLogical[LogicalOf[r.exact]]
            IN live # None /\ live.rec.id >= r.id
=============================================================================
