------------------------ MODULE ShaderCachePackProofs ------------------------
(***************************************************************************)
(* Types, that a durable reset is final, that the indexes of an open store *)
(* are those of its files, and that what a Checkpoint reported as durable  *)
(* is found, for any keys, any number of records and any largest           *)
(* generation.                                                             *)
(***************************************************************************)
EXTENDS ShaderCachePack, TLAPS, SequenceTheorems, FiniteSetTheorems

LEMMA TwoFiles ==
    ASSUME NEW f \in Files
    PROVE  /\ Other(f) \in Files /\ Other(f) # f /\ Other(Other(f)) = f
           /\ \A g \in Files : g = f \/ g = Other(f)
BY FilesDiffer DEF Files, Other

\* What NewestOf returns is one of the locations it was given.
LEMMA NewestIsALocation ==
    ASSUME NEW S
    PROVE  NewestOf(S) = None \/ NewestOf(S) \in S
BY DEF NewestOf

LEMMA MoreIdsMoreRecords ==
    ASSUME ids \in Nat, ids' = ids \/ ids' = ids + 1
    PROVE  /\ Records \subseteq Records' /\ Images \subseteq Images'
           /\ Locations \subseteq Locations'
           /\ \A x \in Exacts : [exact |-> x, id |-> ids + 1] \in [exact : Exacts, id : 1 .. ids + 1]
<1>1. 1 .. ids \subseteq 1 .. ids'
  OBVIOUS
<1>2. Records \subseteq Records'
  BY <1>1 DEF Records
<1>3. \A s \in Seq(Records) : s \in Seq(Records')
  BY <1>2
<1>4. Images \subseteq Images'
  BY <1>3 DEF Images
<1> QED
  BY <1>2, <1>4 DEF Locations

FileTypes == image \in [Files -> Images] /\ synced \in [Files -> Images]

Stores ==
    [opened : BOOLEAN, active : Files,
     exactIndex : [Exacts -> Locations \cup {None}],
     liveByLogical : [Logicals -> Locations \cup {None}]]

LEMMA FoundIsTyped ==
    ASSUME NEW d \in [Files -> Images], NEW a \in Files
    PROVE  Indexed(d, a) \subseteq Locations
<1>1. \A f \in Files : LocationsIn(d, f) \subseteq Locations
  <2> SUFFICES ASSUME NEW f \in Files, NEW i \in DOMAIN d[f].recs
               PROVE  [file |-> f, gen |-> d[f].gen, seq |-> i, rec |-> d[f].recs[i]] \in Locations
    BY DEF LocationsIn
  <2>1. d[f].gen \in 0 .. MaxGeneration /\ d[f].recs \in Seq(Records)
    BY DEF Images
  <2>2. i \in Nat /\ d[f].recs[i] \in Records
    BY <2>1
  <2> QED
    BY <2>1, <2>2 DEF Locations
<1> QED
  BY <1>1, TwoFiles DEF Indexed

LEMMA OpenedIsTyped ==
    ASSUME NEW d \in [Files -> Images], NEW a \in Files
    PROVE  Opened(d, a) \in Stores
<1>1. \A S \in SUBSET Indexed(d, a) : NewestOf(S) \in Locations \cup {None}
  BY FoundIsTyped, NewestIsALocation
<1>2. \A x \in Exacts : {p \in Indexed(d, a) : p.rec.exact = x} \in SUBSET Indexed(d, a)
  OBVIOUS
<1>3. \A l \in Logicals :
          {p \in Indexed(d, a) : LogicalOf[p.rec.exact] = l} \in SUBSET Indexed(d, a)
  OBVIOUS
<1>4. [x \in Exacts |-> NewestOf({p \in Indexed(d, a) : p.rec.exact = x})]
          \in [Exacts -> Locations \cup {None}]
  BY <1>1, <1>2
<1>5. [l \in Logicals |-> NewestOf({p \in Indexed(d, a) : LogicalOf[p.rec.exact] = l})]
          \in [Logicals -> Locations \cup {None}]
  BY <1>1, <1>3
<1> QED
  BY <1>4, <1>5 DEF Opened, Stores

LEMMA ClosedIsTyped == Closed \in Stores /\ (store \in Stores => Retained \in Stores)
BY DEF Closed, Stores, Files, Retained

LEMMA OpenLockedIsTyped ==
    ASSUME FileTypes
    PROVE  OpenLocked \in Stores /\ ActiveIn(image) \in Files
BY OpenedIsTyped DEF OpenLocked, ActiveIn, Files, FileTypes

-----------------------------------------------------------------------------
(* TypeOK.                                                                 *)

LEMMA AppendToIsTyped ==
    ASSUME NEW m \in Images, NEW r \in Records
    PROVE  AppendTo(m, r) \in Images
<1>1. Append(m.recs, r) \in Seq(Records)
  BY DEF Images
<1> QED
  BY <1>1 DEF AppendTo, Images

LEMMA SurvivorsAreTyped ==
    ASSUME FileTypes, NEW f \in Files
    PROVE  Survivors(f) \subseteq Images
<1> DEFINE now == image[f]
           old == synced[f]
<1>1. now \in Images /\ old \in Images /\ Blank \in Images
  <2>1. <<>> \in Seq(Records) /\ 0 \in 0 .. MaxGeneration
    BY GenerationsFit
  <2> QED
    BY <2>1 DEF FileTypes, Images, Blank
<1>2. \A n \in 0 .. Len(now.recs), t \in BOOLEAN : Cut(now, n, t) \in Images
  <2> TAKE n \in 0 .. Len(now.recs), t \in BOOLEAN
  <2>1. SubSeq(now.recs, 1, n) \in Seq(Records)
    <3>1. now.recs \in Seq(Records)
      BY <1>1 DEF Images
    <3> HIDE DEF now
    <3>2. \A i \in 1 .. n : i \in 1 .. Len(now.recs)
      BY <3>1
    <3> QED
      BY <3>1, <3>2, SubSeqProperties
  <2>2. (now.valid /\ t) \in BOOLEAN
    BY <1>1
  <2> QED
    BY <1>1, <2>1, <2>2 DEF Images, Cut
<1>3. Len(old.recs) \in Nat
  BY <1>1 DEF Images
<1> DEFINE appended == now.valid /\ old.valid /\ now.gen = old.gen
           least == IF appended THEN Len(old.recs) ELSE 0
<1>4. \A n \in least .. Len(now.recs) : n \in 0 .. Len(now.recs)
  BY <1>3
<1>5. {Cut(now, n, t) : n \in least .. Len(now.recs), t \in BOOLEAN} \subseteq Images
  BY <1>2, <1>4
<1>6. (IF appended THEN {} ELSE {old, Blank}) \subseteq Images
  BY <1>1
<1> QED
  BY <1>5, <1>6 DEF Survivors

LEMMA IndexIsTyped ==
    ASSUME TypeOK, NEW s \in Stores, NEW x \in Exacts, ids' = ids + 1
    PROVE  Index(s, [exact |-> x, id |-> ids + 1]) \in Stores'
<1> DEFINE r == [exact |-> x, id |-> ids + 1]
           at == [file |-> s.active, gen |-> image[s.active].gen,
                  seq |-> Len(image[s.active].recs) + 1, rec |-> r]
           l == LogicalOf[x]
           live == s.liveByLogical[l]
<1>1. r \in Records' /\ Locations \subseteq Locations'
  BY MoreIdsMoreRecords DEF TypeOK, Records
<1>2. image[s.active] \in Images /\ Len(image[s.active].recs) \in Nat
  BY DEF TypeOK, Stores, Images
<1>3. at \in Locations'
  BY <1>1, <1>2 DEF Locations, Stores, Images
<1>4. l \in Logicals
  BY KeysNest
<1>5. (IF live = None \/ ~Newer(live, at) THEN at ELSE live) \in Locations' \cup {None}
  BY <1>1, <1>3, <1>4 DEF Stores
<1>6. Index(s, r) = [s EXCEPT !.exactIndex[x] = at,
                              !.liveByLogical[l] =
                                 IF live = None \/ ~Newer(live, at) THEN at ELSE live]
  BY DEF Index
<1>7. s.exactIndex \in [Exacts -> Locations' \cup {None}]
        /\ s.liveByLogical \in [Logicals -> Locations' \cup {None}]
  BY <1>1 DEF Stores
<1> DEFINE next == IF live = None \/ ~Newer(live, at) THEN at ELSE live
<1>8. Index(s, r) = [opened |-> s.opened, active |-> s.active,
                     exactIndex |-> [s.exactIndex EXCEPT ![x] = at],
                     liveByLogical |-> [s.liveByLogical EXCEPT ![l] = next]]
  BY <1>6 DEF Stores
<1>9. [s.exactIndex EXCEPT ![x] = at] \in [Exacts -> Locations' \cup {None}]
        /\ [s.liveByLogical EXCEPT ![l] = next] \in [Logicals -> Locations' \cup {None}]
  BY <1>3, <1>5, <1>7
<1>10. s.opened \in BOOLEAN /\ s.active \in Files
  BY DEF Stores
<1>11. Index(s, r) \in Stores'
  <2> HIDE DEF r, at, l, live, next
  <2> QED
    BY <1>8, <1>9, <1>10 DEF Stores, Files
<1> QED
  BY <1>11

LEMMA ForAppendIsTyped ==
    ASSUME TypeOK
    PROVE  ForAppend \in Stores /\ ForAppend.active \in Files
BY OpenLockedIsTyped DEF ForAppend, TypeOK, FileTypes, Stores

Operations ==
    [kind : {"none", "compact", "barrier", "cleanup"},
     pc : {"idle", "truncate", "header", "flush", "copy", "reopen"},
     target : Files, gen : Nat, todo : SUBSET Records, only : SUBSET Logicals]

\* A rewriting that has begun writes a generation that exists.
OpFits == op.pc \in {"header", "flush", "copy"} => op.gen <= MaxGeneration

LaneTypes ==
    /\ phase \in {"down", "starting", "up"}
    /\ installed \in BOOLEAN /\ available \in BOOLEAN /\ condemned \in BOOLEAN

PromiseTypes ==
    /\ ids \in Nat /\ erased \in 0 .. ids
    /\ pending \subseteq Records /\ kept \subseteq Records

\* TypeOK in parts, and what a step needs of the operation under way.
TypeInv ==
    /\ FileTypes /\ store \in Stores
    /\ op \in Operations /\ OpFits
    /\ LaneTypes /\ PromiseTypes

LEMMA TypeParts == TypeInv => TypeOK
BY DEF TypeInv, TypeOK, FileTypes, Stores, Operations, OpFits, LaneTypes, PromiseTypes

LEMMA OperationsAreTyped ==
    /\ NoOp \in Operations
    /\ \A kind \in {"compact", "barrier", "cleanup"}, f \in Files, g \in Nat :
           Rewrite(kind, f, g) \in Operations
BY DEF NoOp, Rewrite, Operations, Files

LEMMA SameIdsSameTypes ==
    ASSUME ids' = ids
    PROVE  /\ Records' = Records /\ Images' = Images /\ Stores' = Stores
           /\ Operations' = Operations
BY DEF Records, Images, Stores, Operations, Locations

\* One more record, and operations that only touch files and stores.
LEMMA OldTypesGrow ==
    ASSUME PromiseTypes, op \in Operations, store \in Stores, FileTypes,
           ids' = ids + 1, op' = op
    PROVE  /\ op \in Operations' /\ store \in Stores' /\ Images \subseteq Images'
           /\ Records \subseteq Records' /\ erased \in 0 .. ids'
<1>1. Records \subseteq Records' /\ Images \subseteq Images' /\ Locations \subseteq Locations'
  BY MoreIdsMoreRecords DEF PromiseTypes
<1>2. op.todo \subseteq Records'
  BY <1>1 DEF Operations
<1>3. op \in Operations'
  BY <1>2 DEF Operations, Files
<1>4. store.exactIndex \in [Exacts -> Locations' \cup {None}]
        /\ store.liveByLogical \in [Logicals -> Locations' \cup {None}]
  BY <1>1 DEF Stores
<1>5. store \in Stores'
  BY <1>4 DEF Stores, Files
<1> QED
  BY <1>1, <1>3, <1>5 DEF PromiseTypes

LEMMA TypeInit == Init => TypeInv
<1> SUFFICES ASSUME Init PROVE TypeInv
  OBVIOUS
<1>1. <<>> \in Seq(Records) /\ 0 \in 0 .. MaxGeneration /\ 1 \in 0 .. MaxGeneration
  BY GenerationsFit
<1>2. Empty(0) \in Images /\ Empty(1) \in Images
  BY <1>1 DEF Empty, Images
<1>3. FileTypes
  BY <1>2 DEF Init, FileTypes
<1>4. store \in Stores /\ op \in Operations
  BY ClosedIsTyped, OperationsAreTyped DEF Init
<1>5. OpFits
  BY DEF Init, OpFits, NoOp
<1>6. LaneTypes
  BY DEF Init, LaneTypes
<1>7. PromiseTypes
  BY DEF Init, PromiseTypes
<1> QED
  BY <1>3, <1>4, <1>5, <1>6, <1>7 DEF TypeInv

LEMMA SavingKeepsTypes ==
    ASSUME TypeInv, NEW x \in Exacts, SaveShaderBlobToPack(x) \/ AppendFails(x)
    PROVE  TypeInv'
<1> DEFINE r == [exact |-> x, id |-> ids + 1]
           f == ForAppend.active
<1>1. FileTypes /\ store \in Stores /\ op \in Operations /\ OpFits /\ LaneTypes /\ PromiseTypes
  BY DEF TypeInv
<1>2. ids' = ids + 1 /\ UNCHANGED <<synced, op, phase, installed, available, kept, erased>>
  BY DEF SaveShaderBlobToPack, AppendFails, lane, promises
<1>3. /\ op' \in Operations' /\ Images \subseteq Images' /\ Records \subseteq Records'
      /\ erased' \in 0 .. ids'
  BY <1>1, <1>2, OldTypesGrow
<1>4. ids' \in Nat /\ r \in Records'
  BY <1>1, <1>2 DEF PromiseTypes, Records
<1>5. f \in Files /\ ForAppend \in Stores
  BY ForAppendIsTyped, TypeParts
<1>6. image[f] \in Images'
  BY <1>1, <1>3, <1>5 DEF FileTypes
<1>7. AppendTo(image[f], r) \in Images'
  <2>1. Append(image[f].recs, r) \in Seq(Records')
    BY <1>4, <1>6 DEF Images
  <2> QED
    BY <1>6, <2>1 DEF AppendTo, Images
<1>8. [image[f] EXCEPT !.torn = FALSE] \in Images' /\ [image[f] EXCEPT !.torn = TRUE] \in Images'
  BY <1>6 DEF Images
<1>9. image \in [Files -> Images'] /\ synced' \in [Files -> Images']
  BY <1>1, <1>2, <1>3 DEF FileTypes
<1>10. OpFits'
  BY <1>1, <1>2 DEF OpFits
<1>11. CASE SaveShaderBlobToPack(x)
  <2>1. image' = [image EXCEPT ![f] = AppendTo(@, r)]
    BY <1>11 DEF SaveShaderBlobToPack
  <2>2. FileTypes'
    BY <2>1, <1>5, <1>7, <1>9 DEF FileTypes
  <2>3. store' = Index(ForAppend, r)
    BY <1>11 DEF SaveShaderBlobToPack
  <2>4. store' \in Stores'
    BY <2>3, <1>5, <1>2, IndexIsTyped, TypeParts
  <2>5. LaneTypes' /\ PromiseTypes'
    BY <1>1, <1>2, <1>3, <1>4, <1>11 DEF SaveShaderBlobToPack, LaneTypes, PromiseTypes, lane
  <2> QED
    BY <2>2, <2>4, <2>5, <1>3, <1>2, <1>10 DEF TypeInv
<1>12. CASE AppendFails(x)
  <2>1. PICK after \in {[image[f] EXCEPT !.torn = FALSE], [image[f] EXCEPT !.torn = TRUE],
                        AppendTo(image[f], r)} :
             image' = [image EXCEPT ![f] = after]
    BY <1>12 DEF AppendFails
  <2>2. FileTypes'
    BY <2>1, <1>5, <1>7, <1>8, <1>9 DEF FileTypes
  <2>3. store' \in Stores'
    <3>1. store' = Closed
      BY <1>12 DEF AppendFails
    <3> QED
      BY <3>1 DEF Closed, Stores, Files
  <2>4. LaneTypes' /\ PromiseTypes'
    BY <1>1, <1>2, <1>3, <1>4, <1>12 DEF AppendFails, LaneTypes, PromiseTypes, promises
  <2> QED
    BY <2>2, <2>3, <2>4, <1>3, <1>2, <1>10 DEF TypeInv
<1> QED
  BY <1>11, <1>12

\* What is left to show of a step that appends no record.
LEMMA TypesStay ==
    ASSUME ids' = ids, ids \in Nat,
           image' \in [Files -> Images], synced' \in [Files -> Images],
           store' \in Stores, op' \in Operations, OpFits', LaneTypes',
           erased' \in 0 .. ids, pending' \subseteq Records, kept' \subseteq Records
    PROVE  TypeInv'
<1>1. FileTypes' /\ store' \in Stores' /\ op' \in Operations'
  BY SameIdsSameTypes DEF FileTypes
<1>2. PromiseTypes'
  BY SameIdsSameTypes DEF PromiseTypes
<1> QED
  BY <1>1, <1>2 DEF TypeInv

LEMMA StepsKeepTypes == TypeInv /\ [Next]_vars => TypeInv'
<1> SUFFICES ASSUME TypeInv, [Next]_vars PROVE TypeInv'
  OBVIOUS
<1>1. /\ image \in [Files -> Images] /\ synced \in [Files -> Images]
      /\ store \in Stores /\ op \in Operations /\ OpFits /\ LaneTypes
      /\ ids \in Nat /\ erased \in 0 .. ids
      /\ pending \subseteq Records /\ kept \subseteq Records
  BY DEF TypeInv, FileTypes, PromiseTypes
<1>2. /\ OpenLocked \in Stores /\ Closed \in Stores /\ Retained \in Stores
      /\ ForAppend \in Stores /\ NoOp \in Operations
  BY <1>1, OpenLockedIsTyped, ClosedIsTyped, ForAppendIsTyped, TypeParts, OperationsAreTyped
     DEF FileTypes
<1>3. /\ store.active \in Files /\ ForAppend.active \in Files
      /\ op.target \in Files /\ op.gen \in Nat /\ op.todo \subseteq Records
  BY <1>1, <1>2 DEF Stores, Operations
<1>4. \A f \in Files : Other(f) \in Files
  BY TwoFiles
<1>5. \A f \in Files : image[f].gen \in Nat
  BY <1>1 DEF Images
<1>6. ASSUME UNCHANGED files, UNCHANGED ids, UNCHANGED <<op, erased>>,
             store' \in Stores, LaneTypes', pending' \subseteq Records, kept' \subseteq Records
      PROVE  TypeInv'
  <2>1. OpFits'
    BY <1>1, <1>6 DEF OpFits
  <2> QED
    BY <1>1, <1>6, <2>1, TypesStay DEF files
<1>7. CASE InitializeManagedPacks
  <2>1. LaneTypes'
    BY <1>1, <1>7 DEF InitializeManagedPacks, LaneTypes
  <2> QED
    BY <1>1, <1>2, <1>6, <1>7, <2>1 DEF InitializeManagedPacks, promises
<1>8. CASE FinishValidation \/ QuarantineShaderPackLane \/ LoadFails \/ AppendRefused
             \/ CheckpointFails \/ ResetRefused
  <2>1. LaneTypes'
    BY <1>1, <1>8
    DEF FinishValidation, QuarantineShaderPackLane, LoadFails, AppendRefused,
        CheckpointFails, ResetRefused, LaneTypes
  <2>2. /\ UNCHANGED <<files, ids, op, kept, erased>>
        /\ pending' = pending \/ pending' = {}
        /\ store' = store \/ store' = OpenLocked
    BY <1>8
    DEF FinishValidation, QuarantineShaderPackLane, LoadFails, AppendRefused,
        CheckpointFails, ResetRefused, promises
  <2> QED
    BY <1>1, <1>2, <1>6, <2>1, <2>2
<1>9. CASE Checkpoint
  <2>1. synced' \in [Files -> Images] /\ UNCHANGED image
    BY <1>1, <1>3, <1>9 DEF Checkpoint
  <2>2. OpFits' /\ LaneTypes'
    BY <1>1, <1>9 DEF Checkpoint, OpFits, LaneTypes, lane
  <2> QED
    BY <1>1, <1>9, <2>1, <2>2, TypesStay DEF Checkpoint
<1>10. CASE Compact
  <2> DEFINE todo == {p.rec : p \in Live}
  <2>1. Live \subseteq Locations
    BY <1>1 DEF Live, Stores
  <2>2. todo \subseteq Records
    BY <2>1 DEF Locations
  <2>3. Staked \subseteq Logicals
    BY <1>1, KeysNest DEF Staked, Records
  <2>4. op' = [kind |-> "compact", pc |-> "truncate", target |-> Other(store.active),
               gen |-> image[store.active].gen + 1, todo |-> todo, only |-> Staked]
    BY <1>10 DEF Compact, Rewrite
  <2>5. op' \in Operations
    BY <2>2, <2>3, <2>4, <1>3, <1>4, <1>5 DEF Operations
  <2>6. OpFits'
    BY <2>4 DEF OpFits
  <2>7. LaneTypes'
    BY <1>1, <1>10 DEF Compact, LaneTypes, lane
  <2> QED
    BY <1>1, <1>10, <2>5, <2>6, <2>7, TypesStay DEF Compact, files, promises
<1>11. CASE Reset
  <2> DEFINE a == ForAppend.active
  <2>1. op' = [kind |-> "barrier", pc |-> "truncate", target |-> Other(a),
               gen |-> image[a].gen + 2, todo |-> {}, only |-> {}]
    BY <1>11 DEF Reset, Rewrite, BarrierGeneration
  <2>2. op' \in Operations
    BY <2>1, <1>3, <1>4, <1>5 DEF Operations
  <2>3. OpFits' /\ LaneTypes'
    BY <1>1, <2>1, <1>11 DEF Reset, OpFits, LaneTypes, lane
  <2> QED
    BY <1>1, <1>2, <1>11, <2>2, <2>3, TypesStay DEF Reset, files, promises
<1>12. ASSUME NEW pc \in {"header", "flush", "copy", "reopen"}, GoTo(pc),
              op.gen <= MaxGeneration
       PROVE  op' \in Operations /\ OpFits'
  BY <1>1, <1>12 DEF GoTo, Operations, OpFits
<1>13. CASE Truncate
  <2>1. Blank \in Images
    <3>1. <<>> \in Seq(Records) /\ 0 \in 0 .. MaxGeneration
      BY GenerationsFit
    <3> QED
      BY <3>1 DEF Blank, Images
  <2>2. image' \in [Files -> Images]
    BY <1>1, <1>3, <1>13, <2>1 DEF Truncate
  <2>3. op' \in Operations /\ OpFits'
    BY <1>12, <1>13 DEF Truncate
  <2>4. LaneTypes'
    BY <1>1, <1>13 DEF Truncate, LaneTypes, lane
  <2>5. pending' \subseteq Records /\ kept' \subseteq Records
    BY <1>1, <1>13 DEF Truncate
  <2> QED
    BY <1>1, <1>13, <2>2, <2>3, <2>4, <2>5, TypesStay DEF Truncate
<1>14. CASE WriteHeader
  <2>1. op.gen \in 0 .. MaxGeneration
    BY <1>1, <1>3, <1>14, GenerationsFit DEF WriteHeader, At, OpFits
  <2>2. Empty(op.gen) \in Images
    <3>1. <<>> \in Seq(Records)
      OBVIOUS
    <3> QED
      BY <2>1, <3>1 DEF Empty, Images
  <2>3. image' \in [Files -> Images]
    BY <1>1, <1>3, <1>14, <2>2 DEF WriteHeader
  <2>4. op' \in Operations /\ OpFits'
    BY <1>12, <1>14, <2>1 DEF WriteHeader
  <2>5. LaneTypes'
    BY <1>1, <1>14 DEF WriteHeader, LaneTypes, lane
  <2> QED
    BY <1>1, <1>14, <2>3, <2>4, <2>5, TypesStay DEF WriteHeader, promises
<1>15. CASE FlushHeader \/ FlushCopies
  <2>1. op.gen <= MaxGeneration
    BY <1>1, <1>15 DEF FlushHeader, FlushCopies, At, OpFits
  <2>2. synced' \in [Files -> Images] /\ UNCHANGED image
    BY <1>1, <1>3, <1>15 DEF FlushHeader, FlushCopies, Flush
  <2>3. op' \in Operations /\ OpFits'
    BY <1>12, <1>15, <2>1 DEF FlushHeader, FlushCopies
  <2>4. LaneTypes'
    BY <1>1, <1>15 DEF FlushHeader, FlushCopies, LaneTypes, lane
  <2>5. UNCHANGED <<ids, store, pending, kept>> /\ erased' \in 0 .. ids
    BY <1>1, <1>15 DEF FlushHeader, FlushCopies, promises
  <2> QED
    BY <1>1, <2>2, <2>3, <2>4, <2>5, TypesStay
<1>16. CASE CopyRecord
  <2>1. PICK r \in op.todo :
            /\ image' = [image EXCEPT ![op.target] = AppendTo(@, r)]
            /\ op' = [op EXCEPT !.todo = @ \ {r}]
    BY <1>16 DEF CopyRecord
  <2>2. AppendTo(image[op.target], r) \in Images
    BY <1>1, <1>3, AppendToIsTyped
  <2>3. image' \in [Files -> Images]
    BY <1>1, <1>3, <2>1, <2>2
  <2>4. op' \in Operations /\ OpFits'
    BY <1>1, <2>1 DEF Operations, OpFits
  <2>5. LaneTypes'
    BY <1>1, <1>16 DEF CopyRecord, LaneTypes, lane
  <2> QED
    BY <1>1, <1>16, <2>3, <2>4, <2>5, TypesStay DEF CopyRecord, promises
<1>17. CASE Reopen
  <2> DEFINE a == OpenLocked.active
  <2>1. store' = OpenLocked
    BY <1>17 DEF Reopen
  <2>2. a = ActiveIn(image) /\ a \in Files
    BY <1>1, OpenLockedIsTyped DEF OpenLocked, Opened, FileTypes
  <2>3. image[a].gen - 1 \in Nat
    <3>1. image[A].gen # image[B].gen
      BY <1>17 DEF Reopen, Admissible
    <3>2. image[A].gen \in Nat /\ image[B].gen \in Nat
      BY <1>5 DEF Files
    <3> QED
      BY <2>2, <3>1, <3>2 DEF ActiveIn
  <2>4. op' \in Operations /\ OpFits'
    <3>1. CASE op.kind = "barrier"
      <4>1. op' = [kind |-> "cleanup", pc |-> "truncate", target |-> Other(a),
                   gen |-> image[a].gen - 1, todo |-> {}, only |-> {}]
        BY <1>17, <2>1, <3>1 DEF Reopen, Rewrite
      <4> QED
        BY <4>1, <2>2, <2>3, <1>4 DEF Operations, OpFits
    <3>2. CASE op.kind # "barrier"
      BY <1>2, <1>17, <3>2 DEF Reopen, OpFits, NoOp
    <3> QED
      BY <3>1, <3>2
  <2>5. LaneTypes'
    BY <1>1, <1>17 DEF Reopen, LaneTypes
  <2> QED
    BY <1>1, <1>2, <1>17, <2>1, <2>4, <2>5, TypesStay DEF Reopen, files, promises
<1>18. CASE FailsBeforeMutation \/ FailsAfterMutation \/ CleanupFails
  <2>1. op' = NoOp /\ OpFits'
    BY <1>18 DEF FailsBeforeMutation, FailsAfterMutation, CleanupFails, OpFits, NoOp
  <2>2. LaneTypes'
    BY <1>1, <1>18
    DEF FailsBeforeMutation, FailsAfterMutation, CleanupFails, LaneTypes
  <2>3. store' \in Stores /\ kept' \subseteq kept
    BY <1>1, <1>2, <1>18
    DEF FailsBeforeMutation, FailsAfterMutation, CleanupFails, Abandon, promises
  <2>4. UNCHANGED <<files, ids, pending, erased>>
    BY <1>18 DEF FailsBeforeMutation, FailsAfterMutation, CleanupFails, promises
  <2> QED
    BY <1>1, <1>2, <2>1, <2>2, <2>3, <2>4, TypesStay DEF files
<1>19. CASE Down /\ UNCHANGED <<ids, erased>>
               /\ image' \in [Files -> Images] /\ synced' \in [Files -> Images]
  <2>1. OpFits' /\ LaneTypes' /\ op' = NoOp /\ store' = Closed
    BY <1>19 DEF Down, OpFits, NoOp, LaneTypes
  <2>2. pending' \subseteq Records /\ kept' \subseteq Records
    BY <1>1, <1>19 DEF Down, Abandon
  <2> QED
    BY <1>1, <1>2, <1>19, <2>1, <2>2, TypesStay
<1>20. CASE ProcessEnds
  BY <1>1, <1>19, <1>20 DEF ProcessEnds, files
<1>21. CASE PowerLoss
  <2>1. PICK a \in Survivors(A), b \in Survivors(B) :
            image' = [f \in Files |-> IF f = A THEN a ELSE b]
    BY <1>21 DEF PowerLoss
  <2>2. a \in Images /\ b \in Images
    BY <1>1, SurvivorsAreTyped DEF Files, FileTypes
  <2>3. image' \in [Files -> Images]
    BY <2>1, <2>2
  <2> QED
    BY <1>19, <1>21, <2>3 DEF PowerLoss
<1>22. CASE UNCHANGED vars
  BY <1>1, <1>6, <1>22 DEF vars, lane, promises, LaneTypes
<1> QED
  BY <1>7, <1>8, <1>9, <1>10, <1>11, <1>13, <1>14, <1>15, <1>16, <1>17, <1>18,
     <1>20, <1>21, <1>22, SavingKeepsTypes DEF Next

\* Every run has the types the code gives its state, whatever fails in it; and
\* no file gets a generation past the largest one.
THEOREM TypeCorrect == Spec => []TypeOK
<1>1. TypeInv => TypeOK
  BY TypeParts
<1> QED
  BY <1>1, TypeInit, StepsKeepTypes, PTL DEF Spec
-----------------------------------------------------------------------------
(* ResetIsFinal.                                                           *)

\* What a power loss may bring back of a file, but for torn ends.
Versions(d, s, f) == {d[f], s[f]}

\* It holds a record from before the last durable reset.
HasOld(m, e) == \E i \in DOMAIN m.recs : m.recs[i].id <= e

BlanksAreEmpty(d, s) ==
    \A f \in Files : \A m \in Versions(d, s, f) : m.valid \/ m.recs = <<>>

\* A file that holds an old record is out of reach of every header of the other.
OldIsHidden(d, s, e) ==
    \A f \in Files : \A m \in Versions(d, s, f), n \in Versions(d, s, Other(f)) :
        HasOld(m, e) /\ n.valid => m.gen + 1 < n.gen

\* What a file held is a generation before, or a beginning of, what it holds.
Follows(now, old) ==
    now.valid /\ old.valid =>
        /\ old.gen <= now.gen
        /\ old.gen = now.gen => \A i \in DOMAIN old.recs :
                                    i \in DOMAIN now.recs /\ now.recs[i] = old.recs[i]

FilesGoOn(d, s) == \A f \in Files : Follows(d[f], s[f])

FilesAreSound(d, s, e) == BlanksAreEmpty(d, s) /\ OldIsHidden(d, s, e) /\ FilesGoOn(d, s)

\* The active file of an open store leads, and holds nothing old.
Leads(d, s, e, a) ==
    /\ d[a].valid /\ ~HasOld(d[a], e)
    /\ \A m \in Versions(d, s, Other(a)) : m.valid => m.gen < d[a].gen

StoreLeads ==
    store.opened /\ (Idle \/ At("truncate") \/ op.kind = "cleanup")
        => Leads(image, synced, erased, store.active)

\* A rewriting: the generation it writes hides what is old in the other file,
\* and that of a barrier hides the whole of it.
OtherIsHidden ==
    /\ image[Other(op.target)].valid
    /\ \A m \in Versions(image, synced, Other(op.target)) :
          m.valid /\ (op.kind = "barrier" \/ HasOld(m, erased)) => m.gen + 1 < op.gen

\* How far it has got with its own file.
TargetAdvances ==
    LET t == op.target IN
    /\ op.pc \in {"truncate", "header"} =>
          \A m \in Versions(image, synced, t) : m.valid => m.gen < op.gen
    /\ op.pc = "flush" => /\ image[t] = Empty(op.gen)
                          /\ synced[t].valid => synced[t].gen < op.gen
    /\ op.pc \in {"copy", "reopen"} =>
          \A m \in Versions(image, synced, t) :
              m.valid /\ m.gen = op.gen /\ (op.kind = "barrier" => m = Empty(op.gen))

CleanupKeeps ==
    op.kind = "cleanup" =>
        /\ store.opened /\ store.active = Other(op.target)
        /\ op.gen < image[Other(op.target)].gen

RewritingIsSafe ==
    ~Idle =>
        /\ op.kind # "none" /\ op.pc # "idle" /\ phase # "down"
        /\ op.kind # "compact" => op.todo = {} /\ op.pc # "copy"
        /\ OtherIsHidden /\ TargetAdvances /\ CleanupKeeps

TodoIsFresh == \A r \in op.todo : r.id > erased

\* What a store answers is newer than the records up to e.
Fresh(st, e) ==
    /\ \A x \in Exacts : st.exactIndex[x] # None => st.exactIndex[x].rec.id > e
    /\ \A l \in Logicals : st.liveByLogical[l] # None => st.liveByLogical[l].rec.id > e

\* Between the durable barrier and its reopening the old indexes are still there.
AnswersAreFresh == (op.kind = "barrier" /\ At("reopen")) \/ Fresh(store, erased)

Final ==
    /\ FilesAreSound(image, synced, erased)
    /\ StoreLeads /\ RewritingIsSafe /\ TodoIsFresh /\ AnswersAreFresh

-----------------------------------------------------------------------------
(* Opening, appending, flushing and losing power, as seen by the two files.  *)

LEMMA ImagesHave ==
    ASSUME NEW m \in Images, PromiseTypes
    PROVE  /\ m.valid \in BOOLEAN /\ m.gen \in Nat /\ m.recs \in Seq(Records)
           /\ \A i \in DOMAIN m.recs : i \in 1 .. Len(m.recs) /\ m.recs[i].id \in Nat
<1>1. m.recs \in Seq(Records) /\ m.gen \in Nat /\ m.valid \in BOOLEAN
  BY DEF Images
<1>2. \A i \in DOMAIN m.recs : i \in 1 .. Len(m.recs) /\ m.recs[i] \in Records
  BY <1>1
<1>3. \A r \in Records : r.id \in Nat
  BY DEF Records, PromiseTypes
<1> QED
  BY <1>1, <1>2, <1>3

LEMMA Reached ==
    ASSUME TypeInv
    PROVE  /\ PromiseTypes /\ FileTypes /\ store \in Stores /\ op \in Operations
           /\ erased \in Nat /\ ids \in Nat /\ erased <= ids /\ op.gen \in Nat
           /\ store.active \in Files /\ op.target \in Files
           /\ \A f \in Files : /\ image[f].gen \in Nat /\ synced[f].gen \in Nat
                               /\ image[f] \in Images /\ synced[f] \in Images
BY DEF TypeInv, PromiseTypes, FileTypes, Stores, Operations, Images

\* A file that is opened leads: an old record would be out of its reach.
LEMMA OpenedLeads ==
    ASSUME TypeInv, FilesAreSound(image, synced, erased), Admissible(image)
    PROVE  /\ Leads(image, synced, erased, ActiveIn(image))
           /\ \A p \in Indexed(image, ActiveIn(image)) : p.rec.id > erased
<1> DEFINE a == ActiveIn(image)
           o == Other(a)
<1>1. a \in Files /\ o \in Files /\ Other(o) = a
  BY TwoFiles DEF ActiveIn, Files
<1>2. /\ image[a] \in Images /\ image[o] \in Images /\ synced[o] \in Images
      /\ image[a].gen \in Nat /\ image[o].gen \in Nat /\ synced[o].gen \in Nat
  BY <1>1, Reached
<1>3. image[a].valid /\ image[o].valid /\ image[o].gen < image[a].gen
  <2>1. image[A].gen \in Nat /\ image[B].gen \in Nat
    BY Reached DEF Files
  <2> QED
    BY <2>1, FilesDiffer DEF Admissible, ActiveIn, Other
<1>4. ~HasOld(image[a], erased)
  <2>1. HasOld(image[a], erased) => image[a].gen + 1 < image[o].gen
    BY <1>1, <1>3 DEF FilesAreSound, OldIsHidden, Versions
  <2> QED
    BY <2>1, <1>2, <1>3
<1>5. synced[o].valid => synced[o].gen < image[a].gen
  <2>1. Follows(image[o], synced[o])
    BY <1>1 DEF FilesAreSound, FilesGoOn
  <2> QED
    BY <2>1, <1>2, <1>3 DEF Follows
<1>6. Leads(image, synced, erased, a)
  BY <1>3, <1>4, <1>5 DEF Leads, Versions
<1>7. HasOld(image[o], erased) => image[o].gen + 1 < image[a].gen
  BY <1>1, <1>3 DEF FilesAreSound, OldIsHidden, Versions
<1>8. Continues(image, a) => ~HasOld(image[o], erased)
  BY <1>2, <1>7 DEF Continues
<1>9. ASSUME NEW f \in Files, ~HasOld(image[f], erased), NEW p \in LocationsIn(image, f)
      PROVE  p.rec.id > erased
  <2>1. PICK i \in DOMAIN image[f].recs : p.rec = image[f].recs[i]
    BY DEF LocationsIn
  <2>2. image[f].recs[i].id \in Nat /\ erased \in Nat
    BY Reached, ImagesHave
  <2> QED
    BY <1>9, <2>1, <2>2 DEF HasOld
<1>10. \A p \in Indexed(image, a) : p.rec.id > erased
  <2> TAKE p \in Indexed(image, a)
  <2>1. p \in LocationsIn(image, a) \/ (Continues(image, a) /\ p \in LocationsIn(image, o))
    BY DEF Indexed
  <2> QED
    BY <2>1, <1>1, <1>4, <1>8, <1>9
<1> QED
  BY <1>6, <1>10

LEMMA OpenedIsFresh ==
    ASSUME TypeInv, FilesAreSound(image, synced, erased), Admissible(image)
    PROVE  /\ OpenLocked.opened /\ OpenLocked.active = ActiveIn(image)
           /\ Leads(image, synced, erased, OpenLocked.active)
           /\ Fresh(OpenLocked, erased)
<1> DEFINE a == ActiveIn(image)
<1>1. \A p \in Indexed(image, a) : p.rec.id > erased
  BY OpenedLeads
<1>2. \A S \in SUBSET Indexed(image, a) : NewestOf(S) # None => NewestOf(S).rec.id > erased
  BY <1>1, NewestIsALocation
<1>3. \A x \in Exacts : OpenLocked.exactIndex[x] = NewestOf({p \in Indexed(image, a) : p.rec.exact = x})
  BY DEF OpenLocked, Opened
<1>4. \A l \in Logicals : OpenLocked.liveByLogical[l]
                          = NewestOf({p \in Indexed(image, a) : LogicalOf[p.rec.exact] = l})
  BY DEF OpenLocked, Opened
<1>5. Fresh(OpenLocked, erased)
  <2>1. \A x \in Exacts : {p \in Indexed(image, a) : p.rec.exact = x} \in SUBSET Indexed(image, a)
    OBVIOUS
  <2>2. \A l \in Logicals :
            {p \in Indexed(image, a) : LogicalOf[p.rec.exact] = l} \in SUBSET Indexed(image, a)
    OBVIOUS
  <2> QED
    BY <1>2, <1>3, <1>4, <2>1, <2>2 DEF Fresh
<1>6. OpenLocked.opened /\ OpenLocked.active = a
  BY DEF OpenLocked, Opened
<1> QED
  BY <1>5, <1>6, OpenedLeads

\* Appending a fresh record, or leaving a torn end, changes nothing between the files.
LEMMA AppendingIsSound ==
    ASSUME TypeInv, FilesAreSound(image, synced, erased),
           NEW f \in Files, image[f].valid, NEW r, r.id \in Nat, r.id > erased, NEW after,
           after.valid = image[f].valid, after.gen = image[f].gen,
           after.recs = image[f].recs \/ after.recs = Append(image[f].recs, r)
    PROVE  /\ FilesAreSound([image EXCEPT ![f] = after], synced, erased)
           /\ HasOld(after, erased) => HasOld(image[f], erased)
<1> DEFINE d == [image EXCEPT ![f] = after]
           o == Other(f)
           recs == image[f].recs
<1>1. o \in Files /\ o # f /\ Other(o) = f /\ \A g \in Files : g = f \/ g = o
  BY TwoFiles
<1>2. d[f] = after /\ d[o] = image[o]
  BY <1>1, Reached DEF FileTypes
<1> HIDE DEF d
<1>3. recs \in Seq(Records)
  BY Reached DEF Images
<1>4. /\ \A i \in DOMAIN recs : i \in DOMAIN after.recs /\ after.recs[i] = recs[i]
      /\ \A i \in DOMAIN after.recs : i \in DOMAIN recs \/ after.recs[i] = r
  <2>1. CASE after.recs = recs
    BY <2>1
  <2>2. CASE after.recs = Append(recs, r)
    <3> HIDE DEF recs
    <3>1. /\ DOMAIN recs = 1 .. Len(recs) /\ Len(recs) \in Nat
          /\ DOMAIN Append(recs, r) = 1 .. Len(recs) + 1
      BY <1>3, AppendProperties
    <3>2. /\ \A i \in 1 .. Len(recs) : Append(recs, r)[i] = recs[i]
          /\ Append(recs, r)[Len(recs) + 1] = r
      BY <1>3, AppendProperties
    <3> QED
      BY <2>2, <3>1, <3>2
  <2> QED
    BY <2>1, <2>2
<1>5. HasOld(after, erased) => HasOld(image[f], erased)
  <2> SUFFICES ASSUME NEW i \in DOMAIN after.recs, after.recs[i].id <= erased
               PROVE  HasOld(image[f], erased)
    BY DEF HasOld
  <2>1. CASE i \in DOMAIN recs
    BY <1>4, <2>1 DEF HasOld
  <2>2. CASE after.recs[i] = r
    BY <2>2, Reached
  <2> QED
    BY <1>4, <2>1, <2>2
<1>6. BlanksAreEmpty(d, synced)
  BY <1>1, <1>2 DEF FilesAreSound, BlanksAreEmpty, Versions
<1>7. OldIsHidden(d, synced, erased)
  <2>1. \A m \in {after, synced[f]}, n \in {image[o], synced[o]} :
            HasOld(m, erased) /\ n.valid => m.gen + 1 < n.gen
    BY <1>1, <1>5 DEF FilesAreSound, OldIsHidden, Versions
  <2>2. \A m \in {image[o], synced[o]}, n \in {after, synced[f]} :
            HasOld(m, erased) /\ n.valid => m.gen + 1 < n.gen
    BY <1>1 DEF FilesAreSound, OldIsHidden, Versions
  <2> QED
    BY <1>1, <1>2, <2>1, <2>2 DEF OldIsHidden, Versions
<1>8. FilesGoOn(d, synced)
  <2>1. Follows(image[f], synced[f]) /\ Follows(image[o], synced[o])
    BY <1>1 DEF FilesAreSound, FilesGoOn
  <2>2. Follows(after, synced[f])
    BY <1>4, <2>1 DEF Follows
  <2> QED
    BY <1>1, <1>2, <2>1, <2>2 DEF FilesGoOn
<1> QED
  BY <1>5, <1>6, <1>7, <1>8 DEF FilesAreSound, d

\* A flush: what was held durably is what is held.
LEMMA FlushingIsSound ==
    ASSUME TypeInv, FilesAreSound(image, synced, erased), NEW f \in Files,
           synced' = [synced EXCEPT ![f] = image[f]]
    PROVE  /\ FilesAreSound(image, synced', erased)
           /\ synced'[f] = image[f] /\ synced'[Other(f)] = synced[Other(f)]
           /\ \A a \in Files : Leads(image, synced, erased, a)
                                   => Leads(image, synced', erased, a)
<1> DEFINE o == Other(f)
           s == synced'
<1>1. o \in Files /\ o # f /\ Other(o) = f /\ \A g \in Files : g = f \/ g = o
  BY TwoFiles
<1>2. s[f] = image[f] /\ s[o] = synced[o]
  BY <1>1, Reached DEF FileTypes
<1> HIDE DEF s
<1>3. \A g \in Files : Versions(image, s, g) \subseteq Versions(image, synced, g)
  BY <1>1, <1>2 DEF Versions
<1>4. BlanksAreEmpty(image, s) /\ OldIsHidden(image, s, erased)
  BY <1>1, <1>3 DEF FilesAreSound, BlanksAreEmpty, OldIsHidden
<1>5. FilesGoOn(image, s)
  <2>1. Follows(image[f], image[f])
    BY Reached DEF Follows
  <2>2. Follows(image[o], synced[o])
    BY <1>1 DEF FilesAreSound, FilesGoOn
  <2> QED
    BY <1>1, <1>2, <2>1, <2>2 DEF FilesGoOn
<1>6. \A a \in Files : Leads(image, synced, erased, a) => Leads(image, s, erased, a)
  BY <1>3, TwoFiles DEF Leads
<1> QED
  BY <1>2, <1>4, <1>5, <1>6 DEF FilesAreSound, s

\* m is v, or its beginning.
Begins(m, v) ==
    /\ m.valid = v.valid /\ m.gen = v.gen
    /\ \A i \in DOMAIN m.recs : i \in DOMAIN v.recs /\ m.recs[i] = v.recs[i]

\* What a power loss leaves of a file is the beginning of one of its versions,
\* and begins with what was durable unless the file was rewritten since.
LEMMA SurvivorsBegin ==
    ASSUME TypeInv, NEW f \in Files, NEW m \in Survivors(f)
    PROVE  /\ m = Blank \/ \E v \in Versions(image, synced, f) : Begins(m, v)
           /\ image[f].valid /\ synced[f].valid /\ image[f].gen = synced[f].gen
                 => /\ m.valid /\ m.gen = synced[f].gen
                    /\ FilesGoOn(image, synced) =>
                          \A i \in DOMAIN synced[f].recs :
                              i \in DOMAIN m.recs /\ m.recs[i] = synced[f].recs[i]
<1> DEFINE now == image[f]
           old == synced[f]
           appended == now.valid /\ old.valid /\ now.gen = old.gen
           least == IF appended THEN Len(old.recs) ELSE 0
<1>1. now.recs \in Seq(Records) /\ old.recs \in Seq(Records)
  BY Reached DEF Images
<1>2. CASE ~appended /\ (m = old \/ m = Blank)
  BY <1>2 DEF Versions, Begins
<1>3. CASE m \in {Cut(now, n, torn) : n \in least .. Len(now.recs), torn \in BOOLEAN}
  <2>1. PICK n \in least .. Len(now.recs), torn \in BOOLEAN : m = Cut(now, n, torn)
    BY <1>3
  <2>2. now \in Images
    BY Reached
  <2>3. m.valid = now.valid /\ m.gen = now.gen /\ m.recs = SubSeq(now.recs, 1, n)
    <3> HIDE DEF now, least
    <3> QED
      BY <2>1, <2>2 DEF Cut, Images
  <2>4. n \in 0 .. Len(now.recs)
    BY <1>1
  <2>5. /\ DOMAIN m.recs = 1 .. n
        /\ \A i \in 1 .. n : i \in DOMAIN now.recs /\ m.recs[i] = now.recs[i]
    <3> HIDE DEF now, least
    <3>1. \A i \in 1 .. n : i \in 1 .. Len(now.recs)
      BY <2>4
    <3>2. /\ Len(SubSeq(now.recs, 1, n)) = n
          /\ SubSeq(now.recs, 1, n) \in Seq(Records)
          /\ \A i \in 1 .. n : SubSeq(now.recs, 1, n)[i] = now.recs[1 + i - 1]
      BY <1>1, <2>4, <3>1, SubSeqProperties
    <3> QED
      BY <2>3, <3>1, <3>2, <1>1, <2>4
  <2>6. Begins(m, now)
    BY <2>3, <2>5 DEF Begins
  <2>7. ASSUME appended, FilesGoOn(image, synced), NEW i \in DOMAIN old.recs
        PROVE  i \in DOMAIN m.recs /\ m.recs[i] = old.recs[i]
    <3>1. now.recs[i] = old.recs[i]
      BY <2>7 DEF FilesGoOn, Follows
    <3>2. i \in 1 .. n
      <4>1. n \in Len(old.recs) .. Len(now.recs) /\ DOMAIN old.recs = 1 .. Len(old.recs)
            /\ Len(old.recs) \in Nat /\ Len(now.recs) \in Nat
        BY <1>1, <2>7
      <4> HIDE DEF now, old, least
      <4> QED
        BY <4>1, <2>7
    <3> QED
      BY <2>5, <3>1, <3>2
  <2> QED
    BY <2>3, <2>6, <2>7 DEF Versions
<1> QED
  BY <1>2, <1>3 DEF Survivors

\* It holds no more than that version did.
LEMMA SurvivorsAreVersions ==
    ASSUME TypeInv, NEW f \in Files, NEW m \in Survivors(f)
    PROVE  \/ m = Blank
           \/ \E v \in Versions(image, synced, f) :
                 /\ m.valid = v.valid /\ m.gen = v.gen
                 /\ v.recs = <<>> => m.recs = <<>>
                 /\ HasOld(m, erased) => HasOld(v, erased)
<1>1. SUFFICES ASSUME NEW v \in Versions(image, synced, f), Begins(m, v)
               PROVE  /\ v.recs = <<>> => m.recs = <<>>
                      /\ HasOld(m, erased) => HasOld(v, erased)
  BY SurvivorsBegin DEF Begins
<1>2. m.recs \in Seq(Records)
  BY SurvivorsAreTyped, Reached DEF Images
<1>3. v.recs = <<>> => m.recs = <<>>
  <2> SUFFICES ASSUME v.recs = <<>> PROVE m.recs = <<>>
    OBVIOUS
  <2>1. DOMAIN m.recs = 1 .. Len(m.recs) /\ Len(m.recs) \in Nat
    BY <1>2
  <2>2. 1 \notin DOMAIN m.recs
    BY <1>1 DEF Begins
  <2>3. Len(m.recs) = 0
    BY <2>1, <2>2
  <2> QED
    BY <1>2, <2>3, EmptySeq
<1> QED
  BY <1>1, <1>3 DEF Begins, HasOld

LEMMA PowerLossIsSound ==
    ASSUME TypeInv, FilesAreSound(image, synced, erased),
           NEW a \in Survivors(A), NEW b \in Survivors(B),
           image' = [f \in Files |-> IF f = A THEN a ELSE b], synced' = image'
    PROVE  FilesAreSound(image', synced', erased)
<1> DEFINE d == image'
<1>1. \A f \in Files : d[f] \in Survivors(f)
  BY FilesDiffer DEF Files
<1> HIDE DEF d
<1>2. \A f \in Files : /\ d[f].valid \in BOOLEAN /\ d[f].gen \in Nat
  <2> TAKE f \in Files
  <2>1. d[f] \in Images
    BY <1>1, SurvivorsAreTyped, Reached
  <2> QED
    BY <2>1 DEF Images
<1>3. /\ ~Blank.valid /\ Blank.recs = <<>>
      /\ ~HasOld(Blank, erased)
  BY DEF Blank, HasOld
<1>4. BlanksAreEmpty(d, d)
  <2> SUFFICES ASSUME NEW f \in Files PROVE d[f].valid \/ d[f].recs = <<>>
    BY DEF BlanksAreEmpty, Versions
  <2>1. \A v \in Versions(image, synced, f) : v.valid \/ v.recs = <<>>
    BY DEF FilesAreSound, BlanksAreEmpty
  <2> QED
    BY <1>1, <1>3, <2>1, SurvivorsAreVersions
<1>5. OldIsHidden(d, d, erased)
  <2> SUFFICES ASSUME NEW f \in Files, HasOld(d[f], erased), d[Other(f)].valid
               PROVE  d[f].gen + 1 < d[Other(f)].gen
    BY DEF OldIsHidden, Versions
  <2>1. PICK v \in Versions(image, synced, f) : d[f].gen = v.gen /\ HasOld(v, erased)
    BY <1>1, <1>3, SurvivorsAreVersions
  <2>2. PICK w \in Versions(image, synced, Other(f)) : d[Other(f)].gen = w.gen /\ w.valid
    BY <1>1, <1>3, TwoFiles, SurvivorsAreVersions
  <2> QED
    BY <2>1, <2>2 DEF FilesAreSound, OldIsHidden
<1>6. FilesGoOn(d, d)
  BY <1>2 DEF FilesGoOn, Follows
<1> QED
  BY <1>4, <1>5, <1>6 DEF FilesAreSound, d

-----------------------------------------------------------------------------
(* Final, step by step.                                                    *)

\* What is left to show of a step that ends with no operation under way.
LEMMA IdleIsFinal ==
    ASSUME FilesAreSound(image', synced', erased'), op' = NoOp, Fresh(store', erased'),
           store'.opened => Leads(image', synced', erased', store'.active)
    PROVE  Final'
BY DEF Final, StoreLeads, RewritingIsSafe, TodoIsFresh, AnswersAreFresh, Idle, NoOp

LEMMA NothingUnderWay ==
    ASSUME Final, Idle
    PROVE  /\ op = NoOp /\ Fresh(store, erased)
           /\ FilesAreSound(image, synced, erased)
           /\ store.opened => Leads(image, synced, erased, store.active)
BY DEF Final, StoreLeads, AnswersAreFresh, Idle, NoOp

LEMMA Rewriting ==
    ASSUME Final, ~Idle
    PROVE  /\ op.kind # "none" /\ op.pc # "idle" /\ phase # "down"
           /\ op.kind # "compact" => op.todo = {} /\ op.pc # "copy"
           /\ OtherIsHidden /\ TargetAdvances /\ CleanupKeeps
           /\ FilesAreSound(image, synced, erased) /\ TodoIsFresh
           /\ StoreLeads /\ AnswersAreFresh
BY DEF Final, RewritingIsSafe

LEMMA ClosedIsFresh == ~Closed.opened /\ \A e : Fresh(Closed, e)
BY DEF Closed, Fresh

LEMMA ForAppendLeads ==
    ASSUME TypeInv, Final, Idle, store.opened \/ Admissible(image)
    PROVE  /\ ForAppend.opened /\ Fresh(ForAppend, erased) /\ ForAppend.active \in Files
           /\ Leads(image, synced, erased, ForAppend.active)
BY NothingUnderWay, OpenedIsFresh, ForAppendIsTyped, TypeParts DEF ForAppend

\* Steps that touch no file and begin nothing.
LEMMA StandingIsFinal ==
    ASSUME TypeInv, Final, Idle, UNCHANGED <<files, op, erased>>,
           store' = store \/ (Admissible(image) /\ store' = OpenLocked) \/ store' = Closed
    PROVE  Final'
<1>1. /\ op' = NoOp /\ FilesAreSound(image', synced', erased')
      /\ image' = image /\ synced' = synced /\ erased' = erased
  BY NothingUnderWay DEF files
<1>2. CASE store' = store
  BY <1>1, <1>2, NothingUnderWay, IdleIsFinal
<1>3. CASE Admissible(image) /\ store' = OpenLocked
  BY <1>1, <1>3, NothingUnderWay, OpenedIsFresh, IdleIsFinal
<1>4. CASE store' = Closed
  BY <1>1, <1>4, ClosedIsFresh, IdleIsFinal
<1> QED
  BY <1>2, <1>3, <1>4

\* What a save, failed or not, does to the active file.
LEMMA SavingWrites ==
    ASSUME TypeInv, NEW x \in Exacts, SaveShaderBlobToPack(x) \/ AppendFails(x)
    PROVE  LET r == [exact |-> x, id |-> ids + 1]
               f == ForAppend.active
           IN \E after : /\ image' = [image EXCEPT ![f] = after]
                         /\ after.valid = image[f].valid /\ after.gen = image[f].gen
                         /\ after.recs = image[f].recs \/ after.recs = Append(image[f].recs, r)
<1> DEFINE r == [exact |-> x, id |-> ids + 1]
           f == ForAppend.active
           m == image[f]
           torn(b) == [m EXCEPT !.torn = b]
<1>1. m = [valid |-> m.valid, gen |-> m.gen, recs |-> m.recs, torn |-> m.torn]
  <2>1. m \in Images
    BY ForAppendIsTyped, TypeParts, Reached
  <2> HIDE DEF m
  <2> QED
    BY <2>1 DEF Images
<1>2. \A after \in {torn(FALSE), torn(TRUE), AppendTo(m, r)} :
          /\ after.valid = m.valid /\ after.gen = m.gen
          /\ after.recs = m.recs \/ after.recs = Append(m.recs, r)
  <2> HIDE DEF m, r
  <2> QED
    BY <1>1 DEF AppendTo
<1>3. \E after \in {torn(FALSE), torn(TRUE), AppendTo(m, r)} : image' = [image EXCEPT ![f] = after]
  BY DEF SaveShaderBlobToPack, AppendFails
<1> HIDE DEF r, f
<1>4. \E after : /\ image' = [image EXCEPT ![f] = after]
                 /\ after.valid = image[f].valid /\ after.gen = image[f].gen
                 /\ after.recs = image[f].recs \/ after.recs = Append(image[f].recs, r)
  BY <1>2, <1>3
<1> QED
  BY <1>4 DEF r, f

LEMMA SavingIsFinal ==
    ASSUME TypeInv, Final, NEW x \in Exacts, SaveShaderBlobToPack(x) \/ AppendFails(x)
    PROVE  Final'
<1> DEFINE r == [exact |-> x, id |-> ids + 1]
           f == ForAppend.active
<1>1. /\ Idle /\ (store.opened \/ Admissible(image))
      /\ synced' = synced /\ erased' = erased /\ op' = op
  BY DEF SaveShaderBlobToPack, AppendFails, CanSave, promises
<1>2. /\ op = NoOp /\ FilesAreSound(image, synced, erased) /\ f \in Files
      /\ Fresh(ForAppend, erased) /\ Leads(image, synced, erased, f)
  BY <1>1, NothingUnderWay, ForAppendLeads
<1>3. r.id \in Nat /\ r.id > erased /\ image[f] \in Images /\ image[f].valid
  BY <1>2, Reached DEF Leads
<1>4. PICK after : /\ image' = [image EXCEPT ![f] = after]
                   /\ after.valid = image[f].valid /\ after.gen = image[f].gen
                   /\ after.recs = image[f].recs \/ after.recs = Append(image[f].recs, r)
  BY SavingWrites
<1>5. /\ FilesAreSound(image', synced, erased)
      /\ HasOld(after, erased) => HasOld(image[f], erased)
      /\ image'[f] = after /\ image'[Other(f)] = image[Other(f)]
  <2>1. image'[f] = after /\ image'[Other(f)] = image[Other(f)]
    BY <1>2, <1>4, Reached, TwoFiles DEF FileTypes
  <2>2. FilesAreSound(image, synced, erased) /\ f \in Files /\ image[f].valid
    BY <1>2, <1>3
  <2>3. r.id \in Nat /\ r.id > erased
    BY <1>3
  <2> HIDE DEF r, f
  <2>4. /\ FilesAreSound([image EXCEPT ![f] = after], synced, erased)
        /\ HasOld(after, erased) => HasOld(image[f], erased)
    BY <1>4, <2>2, <2>3, AppendingIsSound
  <2> QED
    BY <1>4, <2>1, <2>4
<1>6. Leads(image', synced', erased', f)
  BY <1>1, <1>2, <1>4, <1>5 DEF Leads, Versions
<1>7. CASE store' = Closed
  BY <1>1, <1>2, <1>5, <1>7, ClosedIsFresh, IdleIsFinal
<1>8. CASE store' = Index(ForAppend, r)
  <2>1. ForAppend \in Stores /\ LogicalOf[x] \in Logicals
    BY ForAppendIsTyped, TypeParts, KeysNest
  <2> DEFINE at == [file |-> f, gen |-> image[f].gen, seq |-> Len(image[f].recs) + 1, rec |-> r]
             live == ForAppend.liveByLogical[LogicalOf[x]]
             next == IF live = None \/ ~Newer(live, at) THEN at ELSE live
  <2>2. store' = [ForAppend EXCEPT !.exactIndex[x] = at,
                                   !.liveByLogical[LogicalOf[x]] = next]
    BY <1>8 DEF Index
  <2>3. at.rec.id > erased
    BY <1>3
  <2> HIDE DEF at
  <2>4. next = at \/ (next = live /\ live # None)
    OBVIOUS
  <2> HIDE DEF next, f, r
  <2>5. store'.active = ForAppend.active
    BY <2>1, <2>2 DEF Stores
  <2>6. \A y \in Exacts : store'.exactIndex[y] = at
                          \/ store'.exactIndex[y] = ForAppend.exactIndex[y]
    BY <2>1, <2>2 DEF Stores
  <2>7. \A l \in Logicals : store'.liveByLogical[l] = next
                            \/ store'.liveByLogical[l] = ForAppend.liveByLogical[l]
    BY <2>1, <2>2 DEF Stores
  <2>8. next.rec.id > erased
    BY <1>2, <2>1, <2>3, <2>4 DEF Fresh
  <2>9. Fresh(store', erased)
    BY <1>2, <2>3, <2>6, <2>7, <2>8 DEF Fresh
  <2> USE DEF f
  <2> QED
    BY <1>1, <1>2, <1>5, <1>6, <2>5, <2>9, IdleIsFinal
<1> QED
  BY <1>7, <1>8 DEF SaveShaderBlobToPack, AppendFails

\* What is left to show of a step that goes on with a rewriting, or begins one.
LEMMA GoingOnIsFinal ==
    ASSUME FilesAreSound(image', synced', erased'), StoreLeads', AnswersAreFresh', TodoIsFresh',
           op'.kind # "none", op'.pc # "idle", phase' # "down",
           op'.kind # "compact" => op'.todo = {} /\ op'.pc # "copy",
           OtherIsHidden', TargetAdvances', CleanupKeeps'
    PROVE  Final'
BY DEF Final, RewritingIsSafe

\* Of the file that leads, what was held durably is a generation before it or
\* holds nothing old either.
LEMMA LeaderIsPassed ==
    ASSUME TypeInv, FilesAreSound(image, synced, erased), NEW a \in Files,
           Leads(image, synced, erased, a)
    PROVE  \A m \in Versions(image, synced, a) :
               m.valid => /\ m.gen <= image[a].gen
                          /\ HasOld(m, erased) => m.gen < image[a].gen
<1>1. Follows(image[a], synced[a]) /\ image[a].valid /\ ~HasOld(image[a], erased)
  BY DEF FilesAreSound, FilesGoOn, Leads
<1>2. image[a].gen \in Nat /\ synced[a].gen \in Nat
  BY Reached
<1>3. synced[a].valid => synced[a].gen <= image[a].gen
  BY <1>1 DEF Follows
<1>4. synced[a].valid /\ HasOld(synced[a], erased) => synced[a].gen # image[a].gen
  BY <1>1 DEF Follows, HasOld
<1> QED
  BY <1>1, <1>2, <1>3, <1>4 DEF Versions

LEMMA BeginningIsFinal ==
    ASSUME TypeInv, Final, Compact \/ Reset
    PROVE  Final'
<1>1. Idle /\ UNCHANGED <<image, synced, erased, phase>> /\ phase # "down"
  BY DEF Compact, Reset, files, lane, promises
<1>2. FilesAreSound(image', synced', erased')
  BY <1>1, NothingUnderWay
<1>3. store' \in {store, ForAppend} /\ store'.opened /\ store'.active \in Files
      /\ Fresh(store', erased') /\ Leads(image, synced, erased, store'.active)
  <2>1. CASE Compact
    BY <1>1, <2>1, NothingUnderWay, Reached DEF Compact
  <2>2. CASE Reset
    BY <1>1, <2>2, ForAppendLeads DEF Reset
  <2> QED
    BY <2>1, <2>2
<1> DEFINE a == store'.active
           t == op'.target
<1>4. /\ t = Other(a) /\ op'.pc = "truncate" /\ op'.kind \in {"compact", "barrier"}
      /\ op'.gen = image[a].gen + (IF op'.kind = "barrier" THEN 2 ELSE 1)
      /\ op'.kind = "barrier" => op'.todo = {}
      /\ \A r \in op'.todo : r.id > erased
  <2>1. CASE Compact
    <3>1. op' = [kind |-> "compact", pc |-> "truncate", target |-> Other(a),
                 gen |-> image[a].gen + 1, todo |-> {p.rec : p \in Live}, only |-> Staked]
      BY <2>1 DEF Compact, Rewrite
    <3>2. \A p \in Live : p.rec.id > erased
      BY <1>1, NothingUnderWay DEF Live, Fresh
    <3> QED
      BY <3>1, <3>2
  <2>2. CASE Reset
    <3>1. op' = [kind |-> "barrier", pc |-> "truncate", target |-> Other(a),
                 gen |-> image[a].gen + 2, todo |-> {}, only |-> {}]
      BY <2>2 DEF Reset, Rewrite, BarrierGeneration
    <3> QED
      BY <3>1
  <2> QED
    BY <2>1, <2>2
<1>5. t \in Files /\ Other(t) = a /\ t # a
  BY <1>3, <1>4, TwoFiles
<1>6. image[a].gen \in Nat /\ \A f \in Files : \A m \in Versions(image, synced, f) : m.gen \in Nat
  BY <1>3, Reached DEF Versions
<1> HIDE DEF a, t
<1>7. OtherIsHidden'
  <2>1. \A m \in Versions(image, synced, a) :
            m.valid => /\ m.gen <= image[a].gen
                       /\ HasOld(m, erased) => m.gen < image[a].gen
    BY <1>1, <1>3, LeaderIsPassed, NothingUnderWay DEF a
  <2>2. image[a].valid
    BY <1>3 DEF Leads, a
  <2>3. \A m \in Versions(image, synced, a) :
            m.valid /\ (op'.kind = "barrier" \/ HasOld(m, erased)) => m.gen + 1 < op'.gen
    BY <1>3, <1>4, <1>6, <2>1 DEF a
  <2> QED
    BY <1>1, <1>5, <2>2, <2>3 DEF OtherIsHidden, t
<1>8. TargetAdvances'
  <2>1. \A m \in Versions(image, synced, t) : m.valid => m.gen < op'.gen
    BY <1>3, <1>4, <1>5, <1>6 DEF Leads, a
  <2> QED
    BY <1>1, <1>4, <2>1 DEF TargetAdvances, t
<1>9. StoreLeads' /\ AnswersAreFresh' /\ TodoIsFresh' /\ CleanupKeeps'
  BY <1>1, <1>3, <1>4 DEF StoreLeads, AnswersAreFresh, TodoIsFresh, CleanupKeeps
<1> QED
  BY <1>1, <1>2, <1>4, <1>7, <1>8, <1>9, GoingOnIsFinal

\* A rewriting under way, and its two files.
LEMMA InRewriting ==
    ASSUME TypeInv, Final, ~Idle
    PROVE  LET t == op.target
               o == Other(t)
           IN /\ t \in Files /\ o \in Files /\ o # t /\ Other(o) = t
              /\ \A f \in Files : f = t \/ f = o
              /\ op.gen \in Nat
              /\ \A f \in Files : \A m \in Versions(image, synced, f) : m.gen \in Nat
BY Reached, TwoFiles DEF Versions

LEMMA AtIsBusy == \A pc \in {"truncate", "header", "flush", "copy", "reopen"} : At(pc) => ~Idle
BY DEF At, Idle, NoOp

LEMMA GoingSomewhere ==
    ASSUME op \in Operations, NEW pc, GoTo(pc)
    PROVE  /\ op'.pc = pc /\ op'.kind = op.kind /\ op'.target = op.target
           /\ op'.gen = op.gen /\ op'.todo = op.todo /\ op'.only = op.only
BY DEF GoTo, Operations

LEMMA TruncatingIsFinal ==
    ASSUME TypeInv, Final, Truncate
    PROVE  Final'
<1> DEFINE t == op.target
           o == Other(t)
<1>1. /\ ~Idle /\ op.pc = "truncate" /\ image' = [image EXCEPT ![t] = Blank]
      /\ UNCHANGED <<synced, store, erased, phase>> /\ GoTo("header")
  BY AtIsBusy DEF Truncate, At, lane
<1>2. /\ op'.pc = "header" /\ op'.kind = op.kind /\ op'.target = t
      /\ op'.gen = op.gen /\ op'.todo = op.todo
  BY <1>1, GoingSomewhere, Reached
<1>3. /\ t \in Files /\ o \in Files /\ o # t /\ Other(o) = t
      /\ \A f \in Files : f = t \/ f = o
  BY <1>1, InRewriting
<1>4. image'[t] = Blank /\ image'[o] = image[o]
  BY <1>1, <1>3, Reached DEF FileTypes
<1>5. ~Blank.valid /\ Blank.recs = <<>> /\ ~HasOld(Blank, erased)
  BY DEF Blank, HasOld
<1>6. /\ OtherIsHidden /\ TargetAdvances /\ CleanupKeeps /\ TodoIsFresh /\ StoreLeads
      /\ AnswersAreFresh /\ FilesAreSound(image, synced, erased)
      /\ op.kind # "none" /\ phase # "down" /\ (op.kind # "compact" => op.todo = {})
  BY <1>1, Rewriting
<1> HIDE DEF t, o
<1>7. FilesAreSound(image', synced', erased')
  <2>1. BlanksAreEmpty(image', synced')
    BY <1>1, <1>3, <1>4, <1>5, <1>6 DEF FilesAreSound, BlanksAreEmpty, Versions
  <2>2. OldIsHidden(image', synced', erased')
    <3>1. \A m \in {Blank, synced[t]}, n \in {image[o], synced[o]} :
              HasOld(m, erased) /\ n.valid => m.gen + 1 < n.gen
      BY <1>3, <1>5, <1>6 DEF FilesAreSound, OldIsHidden, Versions, o
    <3>2. \A m \in {image[o], synced[o]}, n \in {Blank, synced[t]} :
              HasOld(m, erased) /\ n.valid => m.gen + 1 < n.gen
      BY <1>3, <1>5, <1>6 DEF FilesAreSound, OldIsHidden, Versions
    <3> QED
      BY <1>1, <1>3, <1>4, <3>1, <3>2 DEF OldIsHidden, Versions, o
  <2>3. FilesGoOn(image', synced')
    BY <1>1, <1>3, <1>4, <1>5, <1>6 DEF FilesAreSound, FilesGoOn, Follows
  <2> QED
    BY <2>1, <2>2, <2>3 DEF FilesAreSound
<1>8. OtherIsHidden'
  BY <1>1, <1>2, <1>4, <1>6 DEF OtherIsHidden, Versions, o, t
<1>9. TargetAdvances'
  <2>1. \A m \in {Blank, synced[t]} : m.valid => m.gen < op.gen
    BY <1>1, <1>5, <1>6 DEF TargetAdvances, Versions, t
  <2> QED
    BY <1>1, <1>2, <1>4, <2>1 DEF TargetAdvances, Versions
<1>10. CleanupKeeps'
  BY <1>1, <1>2, <1>4, <1>6 DEF CleanupKeeps, o, t
<1>11. StoreLeads'
  <2> SUFFICES ASSUME store.opened, op.kind = "cleanup"
               PROVE  Leads(image', synced', erased', store.active)
    BY <1>1, <1>2, <1>6 DEF StoreLeads, Idle, NoOp, At
  <2>1. store.active = o /\ Leads(image, synced, erased, o)
    BY <1>6 DEF CleanupKeeps, StoreLeads, o, t
  <2> QED
    BY <1>1, <1>3, <1>4, <1>5, <2>1 DEF Leads, Versions
<1>12. AnswersAreFresh' /\ TodoIsFresh'
  BY <1>1, <1>2, <1>6 DEF AnswersAreFresh, TodoIsFresh, At
<1> QED
  BY <1>1, <1>2, <1>6, <1>7, <1>8, <1>9, <1>10, <1>11, <1>12, GoingOnIsFinal

LEMMA HeaderIsFinal ==
    ASSUME TypeInv, Final, WriteHeader
    PROVE  Final'
<1> DEFINE t == op.target
           o == Other(t)
           new == Empty(op.gen)
<1>1. /\ ~Idle /\ op.pc = "header" /\ image' = [image EXCEPT ![t] = new]
      /\ UNCHANGED <<synced, store, erased, phase>> /\ GoTo("flush")
  BY AtIsBusy DEF WriteHeader, At, lane, promises
<1>2. /\ op'.pc = "flush" /\ op'.kind = op.kind /\ op'.target = t
      /\ op'.gen = op.gen /\ op'.todo = op.todo
  BY <1>1, GoingSomewhere, Reached
<1>3. /\ t \in Files /\ o \in Files /\ o # t /\ Other(o) = t
      /\ \A f \in Files : f = t \/ f = o
      /\ op.gen \in Nat
      /\ \A f \in Files : \A m \in Versions(image, synced, f) : m.gen \in Nat
  BY <1>1, InRewriting
<1>4. image'[t] = new /\ image'[o] = image[o]
  BY <1>1, <1>3, Reached DEF FileTypes
<1>5. new.valid /\ new.gen = op.gen /\ ~HasOld(new, erased) /\ new = Empty(op.gen)
  BY DEF Empty, HasOld
<1>6. /\ OtherIsHidden /\ TargetAdvances /\ CleanupKeeps /\ TodoIsFresh /\ StoreLeads
      /\ AnswersAreFresh /\ FilesAreSound(image, synced, erased)
      /\ op.kind # "none" /\ phase # "down" /\ (op.kind # "compact" => op.todo = {})
  BY <1>1, Rewriting
<1>7. synced[t].valid => synced[t].gen < op.gen
  BY <1>1, <1>6 DEF TargetAdvances, Versions, t
<1> HIDE DEF t, o, new
<1>8. FilesAreSound(image', synced', erased')
  <2>1. BlanksAreEmpty(image', synced')
    BY <1>1, <1>3, <1>4, <1>5, <1>6 DEF FilesAreSound, BlanksAreEmpty, Versions
  <2>2. OldIsHidden(image', synced', erased')
    <3>1. \A m \in {new, synced[t]}, n \in {image[o], synced[o]} :
              HasOld(m, erased) /\ n.valid => m.gen + 1 < n.gen
      BY <1>3, <1>5, <1>6 DEF FilesAreSound, OldIsHidden, Versions, o
    <3>2. \A m \in {image[o], synced[o]} : HasOld(m, erased) => m.valid
      BY <1>3, <1>6 DEF FilesAreSound, BlanksAreEmpty, Versions, HasOld
    <3>3. \A m \in {image[o], synced[o]} : HasOld(m, erased) => m.gen + 1 < op.gen
      BY <1>6, <3>2 DEF OtherIsHidden, Versions, o, t
    <3>4. \A m \in {image[o], synced[o]}, n \in {new, synced[t]} :
              HasOld(m, erased) /\ n.valid => m.gen + 1 < n.gen
      BY <1>3, <1>5, <1>6, <3>3 DEF FilesAreSound, OldIsHidden, Versions
    <3> QED
      BY <1>1, <1>3, <1>4, <3>1, <3>4 DEF OldIsHidden, Versions, o
  <2>3. FilesGoOn(image', synced')
    <3>1. Follows(new, synced[t])
      BY <1>3, <1>5, <1>7 DEF Follows, Versions
    <3> QED
      BY <1>1, <1>3, <1>4, <1>6, <3>1 DEF FilesAreSound, FilesGoOn
  <2> QED
    BY <2>1, <2>2, <2>3 DEF FilesAreSound
<1>9. OtherIsHidden'
  BY <1>1, <1>2, <1>4, <1>6 DEF OtherIsHidden, Versions, o, t
<1>10. TargetAdvances'
  BY <1>1, <1>2, <1>4, <1>5, <1>7 DEF TargetAdvances
<1>11. CleanupKeeps'
  BY <1>1, <1>2, <1>4, <1>6 DEF CleanupKeeps, o, t
<1>12. StoreLeads'
  <2> SUFFICES ASSUME store.opened, op.kind = "cleanup"
               PROVE  Leads(image', synced', erased', store.active)
    BY <1>1, <1>2, <1>6 DEF StoreLeads, Idle, NoOp, At
  <2>1. store.active = o /\ Leads(image, synced, erased, o) /\ op.gen < image[o].gen
    BY <1>6 DEF CleanupKeeps, StoreLeads, o, t
  <2> QED
    BY <1>1, <1>3, <1>4, <1>5, <2>1 DEF Leads, Versions
<1>13. AnswersAreFresh' /\ TodoIsFresh'
  BY <1>1, <1>2, <1>6 DEF AnswersAreFresh, TodoIsFresh, At
<1> QED
  BY <1>1, <1>2, <1>6, <1>8, <1>9, <1>10, <1>11, <1>12, <1>13, GoingOnIsFinal

\* The header is durable.  From here on the barrier hides all there was.
LEMMA FlushingTheHeaderIsFinal ==
    ASSUME TypeInv, Final, FlushHeader
    PROVE  Final'
<1> DEFINE t == op.target
           o == Other(t)
           new == Empty(op.gen)
<1>1. /\ ~Idle /\ op.pc = "flush" /\ synced' = [synced EXCEPT ![t] = image[t]]
      /\ UNCHANGED <<image, store, phase>>
      /\ GoTo(IF op.kind = "compact" THEN "copy" ELSE "reopen")
      /\ erased' = IF op.kind = "barrier" THEN ids ELSE erased
  BY AtIsBusy DEF FlushHeader, Flush, At, lane
<1>2. /\ op'.pc = (IF op.kind = "compact" THEN "copy" ELSE "reopen")
      /\ op'.kind = op.kind /\ op'.target = t /\ op'.gen = op.gen /\ op'.todo = op.todo
  BY <1>1, GoingSomewhere, Reached
<1>3. /\ t \in Files /\ o \in Files /\ o # t /\ Other(o) = t
      /\ \A f \in Files : f = t \/ f = o
      /\ op.gen \in Nat
  BY <1>1, InRewriting
<1>4. /\ OtherIsHidden /\ TargetAdvances /\ CleanupKeeps /\ TodoIsFresh /\ StoreLeads
      /\ AnswersAreFresh /\ FilesAreSound(image, synced, erased)
      /\ op.kind # "none" /\ phase # "down" /\ (op.kind # "compact" => op.todo = {})
  BY <1>1, Rewriting
<1>5. image[t] = new
  BY <1>1, <1>4 DEF TargetAdvances
<1>6. new.valid /\ new.gen = op.gen /\ new.recs = <<>> /\ new = Empty(op.gen)
      /\ \A e : ~HasOld(new, e)
  BY DEF Empty, HasOld
<1>7. /\ FilesAreSound(image, synced', erased)
      /\ synced'[t] = new /\ synced'[o] = synced[o]
      /\ \A a \in Files : Leads(image, synced, erased, a) => Leads(image, synced', erased, a)
  BY <1>1, <1>3, <1>4, <1>5, FlushingIsSound
<1> HIDE DEF t, o, new
<1>8. FilesAreSound(image', synced', erased')
  <2>1. CASE op.kind # "barrier"
    BY <1>1, <1>7, <2>1
  <2>2. CASE op.kind = "barrier"
    <3>1. \A m \in {image[o], synced[o]} : m.recs # <<>> => m.gen + 1 < op.gen
      <4>1. \A m \in {image[o], synced[o]} : m.recs # <<>> => m.valid
        BY <1>3, <1>4 DEF FilesAreSound, BlanksAreEmpty, Versions
      <4> QED
        BY <1>4, <2>2, <4>1 DEF OtherIsHidden, Versions, o, t
    <3>2. \A m \in {image[o], synced[o]} : HasOld(m, erased') => m.gen + 1 < op.gen
      BY <3>1 DEF HasOld
    <3>3. OldIsHidden(image', synced', erased')
      BY <1>1, <1>3, <1>5, <1>6, <1>7, <3>2 DEF OldIsHidden, Versions
    <3> QED
      BY <1>1, <1>7, <3>3 DEF FilesAreSound
  <2> QED
    BY <2>1, <2>2
<1>9. OtherIsHidden'
  <2>1. \A m \in {image[o], synced[o]} : m.valid /\ op.kind = "barrier" => m.gen + 1 < op.gen
    BY <1>4 DEF OtherIsHidden, Versions, o, t
  <2>2. op.kind # "barrier" =>
            \A m \in {image[o], synced[o]} : m.valid /\ HasOld(m, erased) => m.gen + 1 < op.gen
    BY <1>4 DEF OtherIsHidden, Versions, o, t
  <2>3. image[o].valid
    BY <1>4 DEF OtherIsHidden, o, t
  <2> QED
    BY <1>1, <1>2, <1>7, <2>1, <2>2, <2>3 DEF OtherIsHidden, Versions, o
<1>10. TargetAdvances'
  BY <1>1, <1>2, <1>5, <1>6, <1>7 DEF TargetAdvances, Versions
<1>11. CleanupKeeps'
  BY <1>1, <1>2, <1>4 DEF CleanupKeeps, t
<1>12. StoreLeads'
  <2> SUFFICES ASSUME store.opened, op.kind = "cleanup"
               PROVE  Leads(image', synced', erased', store.active)
    BY <1>1, <1>2, <1>4 DEF StoreLeads, Idle, NoOp, At
  <2> QED
    BY <1>1, <1>4, <1>7, Reached DEF StoreLeads
<1>13. AnswersAreFresh' /\ TodoIsFresh'
  <2>1. CASE op.kind = "barrier"
    BY <1>1, <1>2, <1>4, <2>1 DEF AnswersAreFresh, TodoIsFresh, At
  <2>2. CASE op.kind # "barrier"
    BY <1>1, <1>2, <1>4, <2>2 DEF AnswersAreFresh, TodoIsFresh, At
  <2> QED
    BY <2>1, <2>2
<1> QED
  BY <1>1, <1>2, <1>4, <1>8, <1>9, <1>10, <1>11, <1>12, <1>13, GoingOnIsFinal

LEMMA CopyingIsFinal ==
    ASSUME TypeInv, Final, CopyRecord
    PROVE  Final'
<1> DEFINE t == op.target
           o == Other(t)
<1>1. /\ ~Idle /\ op.pc = "copy" /\ UNCHANGED <<synced, store, erased, phase>>
  BY AtIsBusy DEF CopyRecord, At, lane, promises
<1>2. PICK r \in op.todo : /\ image' = [image EXCEPT ![t] = AppendTo(@, r)]
                           /\ op' = [op EXCEPT !.todo = @ \ {r}]
  BY DEF CopyRecord
<1>3. /\ op'.pc = op.pc /\ op'.kind = op.kind /\ op'.target = t
      /\ op'.gen = op.gen /\ op'.todo = op.todo \ {r}
  BY <1>2, Reached DEF Operations
<1>4. /\ t \in Files /\ o \in Files /\ o # t /\ Other(o) = t
      /\ \A f \in Files : f = t \/ f = o
      /\ op.gen \in Nat
  BY <1>1, InRewriting
<1>5. /\ OtherIsHidden /\ TargetAdvances /\ CleanupKeeps /\ TodoIsFresh /\ StoreLeads
      /\ AnswersAreFresh /\ FilesAreSound(image, synced, erased)
      /\ op.kind # "none" /\ phase # "down" /\ (op.kind # "compact" => op.todo = {})
      /\ op.kind = "compact"
  BY <1>1, Rewriting
<1>6. /\ image[t].valid /\ image[t].gen = op.gen /\ synced[t].valid /\ synced[t].gen = op.gen
  BY <1>1, <1>5 DEF TargetAdvances, Versions
<1> DEFINE after == AppendTo(image[t], r)
<1>7. /\ after.valid = image[t].valid /\ after.gen = image[t].gen
      /\ after.recs = Append(image[t].recs, r)
  <2>1. image[t] = [valid |-> image[t].valid, gen |-> image[t].gen,
                    recs |-> image[t].recs, torn |-> image[t].torn]
    BY <1>4, Reached DEF Images
  <2> DEFINE m == image[t]
  <2>2. m = [valid |-> m.valid, gen |-> m.gen, recs |-> m.recs, torn |-> m.torn]
    BY <2>1
  <2> HIDE DEF m
  <2>3. /\ AppendTo(m, r).valid = m.valid /\ AppendTo(m, r).gen = m.gen
        /\ AppendTo(m, r).recs = Append(m.recs, r)
    BY <2>2 DEF AppendTo
  <2> QED
    BY <2>3 DEF m
<1>8. r.id \in Nat /\ r.id > erased
  BY <1>5, Reached DEF TodoIsFresh, Operations, Records
<1>9. image'[t] = after /\ image'[o] = image[o] /\ image' = [image EXCEPT ![t] = after]
  BY <1>2, <1>4, Reached DEF FileTypes
<1> HIDE DEF t, o, after
<1>10. FilesAreSound([image EXCEPT ![t] = after], synced, erased)
  BY <1>4, <1>5, <1>6, <1>7, <1>8, AppendingIsSound
<1>11. FilesAreSound(image', synced', erased')
  BY <1>1, <1>9, <1>10
<1>12. OtherIsHidden'
  BY <1>1, <1>3, <1>5, <1>9 DEF OtherIsHidden, Versions, o, t
<1>13. TargetAdvances'
  <2>1. \A m \in {after, synced[t]} : m.valid /\ m.gen = op.gen
    BY <1>6, <1>7
  <2>2. Versions(image', synced', t) = {after, synced[t]}
    BY <1>1, <1>9 DEF Versions
  <2>3. op'.pc = "copy" /\ op'.kind = "compact" /\ op'.target = t /\ op'.gen = op.gen
    BY <1>1, <1>3, <1>5
  <2> QED
    BY <2>1, <2>2, <2>3 DEF TargetAdvances
<1>14. CleanupKeeps' /\ StoreLeads' /\ AnswersAreFresh' /\ TodoIsFresh'
  BY <1>1, <1>3, <1>5 DEF CleanupKeeps, StoreLeads, AnswersAreFresh, TodoIsFresh, Idle, NoOp, At
<1> QED
  BY <1>1, <1>3, <1>5, <1>11, <1>12, <1>13, <1>14, GoingOnIsFinal

LEMMA FlushingTheCopiesIsFinal ==
    ASSUME TypeInv, Final, FlushCopies
    PROVE  Final'
<1> DEFINE t == op.target
           o == Other(t)
<1>1. /\ ~Idle /\ op.pc = "copy" /\ synced' = [synced EXCEPT ![t] = image[t]]
      /\ UNCHANGED <<image, store, erased, phase>> /\ GoTo("reopen") /\ op.todo = {}
  BY AtIsBusy DEF FlushCopies, Flush, At, lane, promises
<1>2. /\ op'.pc = "reopen" /\ op'.kind = op.kind /\ op'.target = t
      /\ op'.gen = op.gen /\ op'.todo = op.todo
  BY <1>1, GoingSomewhere, Reached
<1>3. t \in Files
  BY <1>1, InRewriting
<1>4. /\ OtherIsHidden /\ TargetAdvances /\ FilesAreSound(image, synced, erased)
      /\ StoreLeads /\ AnswersAreFresh /\ phase # "down" /\ op.kind = "compact"
  BY <1>1, Rewriting
<1>5. image[t].valid /\ image[t].gen = op.gen
  BY <1>1, <1>4 DEF TargetAdvances, Versions
<1>6. /\ FilesAreSound(image, synced', erased)
      /\ synced'[t] = image[t] /\ synced'[o] = synced[o]
  BY <1>1, <1>3, <1>4, FlushingIsSound
<1> HIDE DEF t, o
<1>7. OtherIsHidden'
  BY <1>1, <1>2, <1>4, <1>6 DEF OtherIsHidden, Versions, o, t
<1>8. TargetAdvances'
  BY <1>1, <1>2, <1>4, <1>5, <1>6 DEF TargetAdvances, Versions
<1>9. CleanupKeeps' /\ StoreLeads' /\ AnswersAreFresh' /\ TodoIsFresh'
  BY <1>1, <1>2, <1>4 DEF CleanupKeeps, StoreLeads, AnswersAreFresh, TodoIsFresh, Idle, NoOp, At
<1> QED
  BY <1>1, <1>2, <1>4, <1>6, <1>7, <1>8, <1>9, GoingOnIsFinal

\* After a durable barrier its file leads, and is empty.
LEMMA BarrierLeads ==
    ASSUME TypeInv, Final, At("reopen"), op.kind = "barrier"
    PROVE  LET t == op.target
               o == Other(t)
           IN /\ OpenLocked.active = t
              /\ image[t] = Empty(op.gen)
              /\ \A m \in Versions(image, synced, o) : m.valid => m.gen + 1 < op.gen
<1> DEFINE t == op.target
           o == Other(t)
<1>1. ~Idle /\ op.pc = "reopen"
  BY AtIsBusy DEF At
<1>2. /\ t \in Files /\ o \in Files /\ o # t /\ Other(o) = t
      /\ \A f \in Files : f = t \/ f = o
      /\ op.gen \in Nat
      /\ \A f \in Files : \A m \in Versions(image, synced, f) : m.gen \in Nat
  BY <1>1, InRewriting
<1>3. image[t] = Empty(op.gen) /\ image[t].gen = op.gen
  BY <1>1, Rewriting DEF TargetAdvances, Versions
<1>4. image[o].valid /\ \A m \in Versions(image, synced, o) : m.valid => m.gen + 1 < op.gen
  BY <1>1, Rewriting DEF OtherIsHidden
<1>5. image[o].gen < image[t].gen
  BY <1>2, <1>3, <1>4 DEF Versions
<1>6. OpenLocked.active = t
  <2>1. image[A].gen \in Nat /\ image[B].gen \in Nat
    BY Reached DEF Files
  <2>2. (t = A /\ o = B) \/ (t = B /\ o = A)
    BY <1>2 DEF Files
  <2>3. OpenLocked.active = ActiveIn(image)
    BY DEF OpenLocked, Opened
  <2> HIDE DEF t, o
  <2> QED
    BY <1>5, <2>1, <2>2, <2>3 DEF ActiveIn
<1> QED
  BY <1>3, <1>4, <1>6

\* The store opens whichever file leads; after a barrier it is the barrier.
LEMMA ReopeningIsFinal ==
    ASSUME TypeInv, Final, Reopen
    PROVE  Final'
<1> DEFINE t == op.target
           o == Other(t)
           a == OpenLocked.active
<1>1. /\ ~Idle /\ op.pc = "reopen" /\ Admissible(image) /\ store' = OpenLocked
      /\ UNCHANGED <<image, synced, erased, phase>>
  BY AtIsBusy DEF Reopen, At, files, promises
<1>2. /\ OtherIsHidden /\ TargetAdvances /\ phase # "down"
      /\ FilesAreSound(image, synced, erased)
  BY <1>1, Rewriting
<1>3. /\ a = ActiveIn(image) /\ store'.opened /\ Fresh(store', erased)
      /\ Leads(image, synced, erased, a)
  BY <1>1, <1>2, OpenedIsFresh
<1>4. CASE op.kind # "barrier"
  <2>1. op' = NoOp
    BY <1>4 DEF Reopen
  <2> QED
    BY <1>1, <1>2, <1>3, <2>1, IdleIsFinal
<1>5. CASE op.kind = "barrier"
  <2>1. /\ t \in Files /\ o \in Files /\ o # t /\ Other(o) = t
        /\ \A f \in Files : f = t \/ f = o
        /\ op.gen \in Nat
        /\ \A f \in Files : \A m \in Versions(image, synced, f) : m.gen \in Nat
    BY <1>1, InRewriting
  <2>2. \A m \in Versions(image, synced, t) : m.valid /\ m.gen = op.gen /\ m = Empty(op.gen)
    BY <1>1, <1>2, <1>5 DEF TargetAdvances
  <2>3. image[o].valid /\ \A m \in Versions(image, synced, o) : m.valid => m.gen + 1 < op.gen
    BY <1>2, <1>5 DEF OtherIsHidden
  <2>4. a = t
    BY <1>1, <1>5, BarrierLeads DEF At
  <2>5. image[t].gen = op.gen /\ image[t].valid
    BY <2>2 DEF Versions
  <2>6. op' = [kind |-> "cleanup", pc |-> "truncate", target |-> o,
               gen |-> op.gen - 1, todo |-> {}, only |-> {}]
    BY <1>1, <1>5, <2>4, <2>5 DEF Reopen, Rewrite
  <2> HIDE DEF t, o, a
  <2>7. OtherIsHidden'
    <3>1. \A m \in Versions(image, synced, t) : m.valid /\ ~HasOld(m, erased)
      BY <2>2 DEF Empty, HasOld
    <3>2. op'.target = o /\ op'.kind = "cleanup"
      BY <2>6
    <3> QED
      BY <1>1, <2>1, <2>5, <3>1, <3>2 DEF OtherIsHidden
  <2>8. TargetAdvances'
    <3>1. \A m \in Versions(image, synced, o) : m.valid => m.gen < op.gen - 1
      BY <2>1, <2>3
    <3>2. op'.target = o /\ op'.pc = "truncate" /\ op'.gen = op.gen - 1
      BY <2>6
    <3> QED
      BY <1>1, <3>1, <3>2 DEF TargetAdvances
  <2>9. CleanupKeeps'
    <3>1. store'.active = t
      BY <1>1, <2>4 DEF a
    <3>2. op'.target = o /\ op'.gen = op.gen - 1
      BY <2>6
    <3> QED
      BY <1>1, <1>3, <2>1, <2>5, <3>1, <3>2 DEF CleanupKeeps
  <2>10. StoreLeads'
    BY <1>1, <1>3 DEF StoreLeads, a
  <2>11. AnswersAreFresh' /\ TodoIsFresh'
    BY <1>1, <1>3, <2>6 DEF AnswersAreFresh, TodoIsFresh
  <2>12. op'.kind = "cleanup" /\ op'.pc = "truncate" /\ op'.todo = {}
    BY <2>6
  <2> QED
    BY <1>1, <1>2, <2>7, <2>8, <2>9, <2>10, <2>11, <2>12, GoingOnIsFinal
<1> QED
  BY <1>4, <1>5

LEMMA FailingIsFinal ==
    ASSUME TypeInv, Final, FailsBeforeMutation \/ FailsAfterMutation \/ CleanupFails
    PROVE  Final'
<1>1. /\ ~Idle /\ op' = NoOp /\ UNCHANGED <<image, synced, erased>>
  BY AtIsBusy
  DEF FailsBeforeMutation, FailsAfterMutation, CleanupFails, files, promises, Idle, NoOp
<1>2. /\ FilesAreSound(image', synced', erased') /\ StoreLeads /\ AnswersAreFresh
      /\ CleanupKeeps
  BY <1>1, Rewriting
<1>3. CASE store' = Closed
  BY <1>1, <1>2, <1>3, ClosedIsFresh, IdleIsFinal
<1>4. CASE At("truncate") /\ store' = store
  BY <1>1, <1>2, <1>4, IdleIsFinal DEF StoreLeads, AnswersAreFresh, At
<1>5. CASE CleanupFails
  <2>1. op.kind = "cleanup" /\ store' = Retained
    BY <1>5 DEF CleanupFails
  <2>2. /\ Retained.opened /\ Retained.active = store.active
        /\ Retained.exactIndex = Closed.exactIndex
        /\ Retained.liveByLogical = Closed.liveByLogical
    BY DEF Retained, Closed
  <2>3. Fresh(Retained, erased)
    BY <2>2, ClosedIsFresh DEF Fresh
  <2>4. Leads(image, synced, erased, Retained.active)
    BY <1>2, <2>1, <2>2 DEF StoreLeads, CleanupKeeps
  <2> QED
    BY <1>1, <1>2, <2>1, <2>3, <2>4, IdleIsFinal
<1> QED
  BY <1>3, <1>4, <1>5 DEF FailsBeforeMutation, FailsAfterMutation

LEMMA FinalInit == Init => Final
<1> SUFFICES ASSUME Init PROVE Final
  OBVIOUS
<1>1. \A f \in Files : synced[f] = image[f] /\ image[f].valid /\ image[f].gen \in Nat
                       /\ ~HasOld(image[f], erased)
  BY DEF Init, Empty, HasOld
<1>2. FilesAreSound(image, synced, erased)
  <2>1. BlanksAreEmpty(image, synced)
    BY <1>1 DEF BlanksAreEmpty, Versions
  <2>2. OldIsHidden(image, synced, erased)
    BY <1>1 DEF OldIsHidden, Versions
  <2>3. FilesGoOn(image, synced)
    BY <1>1 DEF FilesGoOn, Follows
  <2> QED
    BY <2>1, <2>2, <2>3 DEF FilesAreSound
<1>3. op = NoOp /\ Fresh(store, erased) /\ ~store.opened
  BY ClosedIsFresh DEF Init
<1> QED
  BY <1>2, <1>3 DEF Final, StoreLeads, RewritingIsSafe, TodoIsFresh, AnswersAreFresh, Idle, NoOp

LEMMA StepsKeepFinal == TypeInv /\ Final /\ [Next]_vars => Final'
<1> SUFFICES ASSUME TypeInv, Final, [Next]_vars PROVE Final'
  OBVIOUS
<1>1. CASE InitializeManagedPacks
  <2>1. Idle
    BY <1>1, Rewriting DEF InitializeManagedPacks
  <2> QED
    BY <1>1, <2>1, StandingIsFinal DEF InitializeManagedPacks, promises
<1>2. CASE FinishValidation \/ LoadFails \/ AppendRefused \/ CheckpointFails \/ ResetRefused
  BY <1>2, StandingIsFinal
  DEF FinishValidation, LoadFails, AppendRefused, CheckpointFails, ResetRefused, CanSave, promises
<1>3. CASE QuarantineShaderPackLane \/ UNCHANGED vars
  <2>1. UNCHANGED <<files, store, op, phase, erased>>
    BY <1>3 DEF QuarantineShaderPackLane, vars, lane, promises
  <2> QED
    BY <2>1
    DEF Final, files, StoreLeads, RewritingIsSafe, TodoIsFresh, AnswersAreFresh, Idle, At,
        OtherIsHidden, TargetAdvances, CleanupKeeps
<1>4. CASE \E x \in Exacts : SaveShaderBlobToPack(x) \/ AppendFails(x)
  BY <1>4, SavingIsFinal
<1>5. CASE Checkpoint
  <2>1. /\ Idle /\ store.opened /\ synced' = [synced EXCEPT ![store.active] = image[store.active]]
        /\ UNCHANGED <<image, store, op, erased>>
    BY <1>5 DEF Checkpoint
  <2>2. store.active \in Files
    BY Reached
  <2>3. FilesAreSound(image, synced', erased) /\ Leads(image, synced', erased, store.active)
    BY <2>1, <2>2, FlushingIsSound, NothingUnderWay
  <2> QED
    BY <2>1, <2>3, NothingUnderWay, IdleIsFinal
<1>6. CASE Down /\ UNCHANGED erased /\ FilesAreSound(image', synced', erased)
  BY <1>6, ClosedIsFresh, IdleIsFinal DEF Down
<1>7. FilesAreSound(image, synced, erased)
  BY DEF Final
<1>8. CASE ProcessEnds
  BY <1>6, <1>7, <1>8 DEF ProcessEnds, files
<1>9. CASE PowerLoss
  BY <1>6, <1>7, <1>9, PowerLossIsSound DEF PowerLoss
<1> QED
  BY <1>1, <1>2, <1>3, <1>4, <1>5, <1>8, <1>9, BeginningIsFinal, TruncatingIsFinal,
     HeaderIsFinal, FlushingTheHeaderIsFinal, CopyingIsFinal, FlushingTheCopiesIsFinal,
     ReopeningIsFinal, FailingIsFinal
  DEF Next

\* Once the empty generation of a reset is durable, no lookup of a store at rest
\* finds a record from before it, whatever fails, ends or loses power after it.
THEOREM ResetsAreFinal == Spec => []ResetIsFinal
<1>1. TypeInv /\ Final => ResetIsFinal
  <2> SUFFICES ASSUME Final, Idle PROVE \A p \in Answers : p # None => p.rec.id > erased
    BY DEF ResetIsFinal
  <2>1. Fresh(store, erased)
    BY NothingUnderWay
  <2> QED
    BY <2>1 DEF Answers, Live, Fresh
<1> QED
  BY <1>1, TypeInit, StepsKeepTypes, FinalInit, StepsKeepFinal, PTL DEF Spec

-----------------------------------------------------------------------------
(* IndexMatchesDisk.                                                       *)

Matches(st, d) ==
    /\ st.exactIndex = Opened(d, st.active).exactIndex
    /\ st.liveByLogical = Opened(d, st.active).liveByLogical

IndexIsBuilt ==
    store.opened /\ (Idle \/ (At("truncate") /\ op.kind # "cleanup")) => Matches(store, image)

\* The empty indexes that a failed clean-up leaves are right: nothing can be
\* found, in the barrier or behind it.
CleanupFindsNothing ==
    op.kind = "cleanup" =>
        /\ image[Other(op.target)].recs = <<>>
        /\ op.gen + 1 = image[Other(op.target)].gen
        /\ image[op.target].valid /\ image[op.target].gen = op.gen
              => image[op.target].recs = <<>>

Built == IndexIsBuilt /\ CleanupFindsNothing

\* A location newer than all of a set is the newest with it.
LEMMA NewestIsTheLast ==
    ASSUME NEW S, NEW at, \A p \in S : Newer(at, p) /\ ~Newer(p, at), ~Newer(at, at)
    PROVE  NewestOf(S \cup {at}) = at
<1> DEFINE T == S \cup {at}
           newest == {p \in T : \A q \in T : ~Newer(q, p)}
<1>1. at \in newest
  OBVIOUS
<1>2. \A p \in newest : p = at
  OBVIOUS
<1>3. newest = {at}
  BY <1>1, <1>2
<1> QED
  BY <1>3 DEF NewestOf

LEMMA NothingIsNewest == NewestOf({}) = None
BY DEF NewestOf

\* An append adds one location to what is indexed, newer than all others.
LEMMA AppendingAddsALocation ==
    ASSUME TypeInv, NEW f \in Files, NEW r, NEW after,
           after.gen = image[f].gen, after.valid = image[f].valid,
           after.recs = Append(image[f].recs, r)
    PROVE  LET d == [image EXCEPT ![f] = after]
               at == [file |-> f, gen |-> image[f].gen, seq |-> Len(image[f].recs) + 1, rec |-> r]
           IN /\ Indexed(d, f) = Indexed(image, f) \cup {at}
              /\ \A p \in Indexed(image, f) : Newer(at, p) /\ ~Newer(p, at)
              /\ ~Newer(at, at)
<1> DEFINE d == [image EXCEPT ![f] = after]
           at == [file |-> f, gen |-> image[f].gen, seq |-> Len(image[f].recs) + 1, rec |-> r]
           o == Other(f)
           recs == image[f].recs
<1>1. o \in Files /\ o # f
  BY TwoFiles
<1>2. d[f] = after /\ d[o] = image[o]
  BY <1>1, Reached DEF FileTypes
<1>3. recs \in Seq(Records) /\ image[f].gen \in Nat /\ image[o].gen \in Nat
      /\ image[o].recs \in Seq(Records)
  BY <1>1, Reached DEF Images
<1> HIDE DEF d, o, recs
<1>4. /\ DOMAIN recs = 1 .. Len(recs) /\ Len(recs) \in Nat
      /\ DOMAIN Append(recs, r) = 1 .. Len(recs) + 1
      /\ \A i \in 1 .. Len(recs) : Append(recs, r)[i] = recs[i]
      /\ Append(recs, r)[Len(recs) + 1] = r
  BY <1>3, AppendProperties
<1>5. 1 .. Len(recs) + 1 = (1 .. Len(recs)) \cup {Len(recs) + 1}
  BY <1>4
<1>6. LocationsIn(d, f) = LocationsIn(image, f) \cup {at}
  <2> DEFINE new == Append(recs, r)
             Loc(i) == [file |-> f, gen |-> image[f].gen, seq |-> i, rec |-> new[i]]
  <2>1. LocationsIn(d, f) = {Loc(i) : i \in 1 .. Len(recs) + 1}
    BY <1>2, <1>4 DEF LocationsIn, recs
  <2>2. LocationsIn(image, f) = {Loc(i) : i \in 1 .. Len(recs)}
    BY <1>4 DEF LocationsIn, recs
  <2>3. Loc(Len(recs) + 1) = at
    BY <1>4 DEF recs
  <2> HIDE DEF Loc, at
  <2> QED
    BY <1>5, <2>1, <2>2, <2>3
<1>7. LocationsIn(d, o) = LocationsIn(image, o)
  BY <1>2 DEF LocationsIn
<1>8. Continues(d, f) <=> Continues(image, f)
  BY <1>2 DEF Continues, o
<1>9. \A p \in LocationsIn(image, f) : p.gen = image[f].gen /\ p.seq \in Nat /\ p.seq <= Len(recs)
  BY <1>4 DEF LocationsIn, recs
<1>10. \A p \in LocationsIn(image, o) : p.gen = image[o].gen
  BY DEF LocationsIn
<1>11. Continues(image, f) => image[o].gen + 1 = image[f].gen
  BY DEF Continues, o
<1>12. at.gen = image[f].gen /\ at.seq = Len(recs) + 1
  BY DEF recs
<1>13. ASSUME NEW p \in Indexed(image, f)
       PROVE  Newer(at, p) /\ ~Newer(p, at)
  <2>1. p \in LocationsIn(image, f) \/ (Continues(image, f) /\ p \in LocationsIn(image, o))
    BY DEF Indexed, o
  <2> HIDE DEF at
  <2>2. CASE p \in LocationsIn(image, f)
    BY <1>3, <1>4, <1>9, <1>12, <2>2 DEF Newer
  <2>3. CASE Continues(image, f) /\ p \in LocationsIn(image, o)
    BY <1>3, <1>10, <1>11, <1>12, <2>3 DEF Newer
  <2> QED
    BY <2>1, <2>2, <2>3
<1>14. ~Newer(at, at)
  BY <1>3, <1>4, <1>12 DEF Newer
<1>15. Indexed(d, f) = Indexed(image, f) \cup {at}
  <2> HIDE DEF at
  <2> QED
    BY <1>6, <1>7, <1>8 DEF Indexed, o
<1> QED
  BY <1>13, <1>14, <1>15 DEF d

LEMMA ForAppendMatches ==
    ASSUME Idle, IndexIsBuilt
    PROVE  (store.opened \/ Admissible(image)) => Matches(ForAppend, image)
<1>1. Matches(OpenLocked, image)
  <2>1. OpenLocked.active = ActiveIn(image)
    BY DEF OpenLocked, Opened
  <2> QED
    BY <2>1 DEF Matches, OpenLocked
<1> QED
  BY <1>1 DEF ForAppend, IndexIsBuilt

\* Append keeps its indexes one record at a time; they stay those of the files.
LEMMA IndexingMatches ==
    ASSUME TypeInv, Final, Idle, IndexIsBuilt, NEW x \in Exacts,
           store.opened \/ Admissible(image)
    PROVE  LET r == [exact |-> x, id |-> ids + 1]
               f == ForAppend.active
           IN Matches(Index(ForAppend, r), [image EXCEPT ![f] = AppendTo(@, r)])
<1> DEFINE r == [exact |-> x, id |-> ids + 1]
           f == ForAppend.active
           l == LogicalOf[x]
           after == AppendTo(image[f], r)
           d == [image EXCEPT ![f] = after]
           at == [file |-> f, gen |-> image[f].gen, seq |-> Len(image[f].recs) + 1, rec |-> r]
           live == ForAppend.liveByLogical[l]
           st == Index(ForAppend, r)
<1>1. ForAppend \in Stores /\ f \in Files /\ l \in Logicals /\ Matches(ForAppend, image)
  BY ForAppendIsTyped, TypeParts, KeysNest, ForAppendMatches
<1>2. after.valid = image[f].valid /\ after.gen = image[f].gen
      /\ after.recs = Append(image[f].recs, r)
  <2> DEFINE m == image[f]
  <2>1. m = [valid |-> m.valid, gen |-> m.gen, recs |-> m.recs, torn |-> m.torn]
    <3>1. m \in Images
      BY <1>1, Reached
    <3> HIDE DEF m
    <3> QED
      BY <3>1 DEF Images
  <2> HIDE DEF m, r
  <2>2. /\ AppendTo(m, r).valid = m.valid /\ AppendTo(m, r).gen = m.gen
        /\ AppendTo(m, r).recs = Append(m.recs, r)
    BY <2>1 DEF AppendTo
  <2> QED
    BY <2>2 DEF m
<1>3. /\ Indexed(d, f) = Indexed(image, f) \cup {at}
      /\ \A p \in Indexed(image, f) : Newer(at, p) /\ ~Newer(p, at)
      /\ ~Newer(at, at)
  <2> HIDE DEF r, f, after
  <2> QED
    BY <1>1, <1>2, AppendingAddsALocation
<1>4. at.rec = r /\ r.exact = x
  OBVIOUS
<1>5. /\ st.active = f
      /\ st.exactIndex = [ForAppend.exactIndex EXCEPT ![x] = at]
      /\ st.liveByLogical = [ForAppend.liveByLogical EXCEPT ![l] =
                                IF live = None \/ ~Newer(live, at) THEN at ELSE live]
  BY <1>1 DEF Index, Stores
<1> DEFINE Of(S, y) == {p \in S : p.rec.exact = y}
           LiveOf(S, k) == {p \in S : LogicalOf[p.rec.exact] = k}
           old == Indexed(image, f)
           new == Indexed(d, f)
<1>6. /\ \A y \in Exacts : ForAppend.exactIndex[y] = NewestOf(Of(old, y))
      /\ \A k \in Logicals : ForAppend.liveByLogical[k] = NewestOf(LiveOf(old, k))
  BY <1>1 DEF Matches, Opened
<1>7. new = old \cup {at}
  BY <1>3
<1>8. \A p \in old : Newer(at, p) /\ ~Newer(p, at)
  BY <1>3
<1> HIDE DEF at, r, old, new, after, d, st
<1>9. ~Newer(live, at) \/ live = None
  <2>1. live = None \/ live \in LiveOf(old, l)
    BY <1>1, <1>6, NewestIsALocation
  <2> QED
    BY <1>8, <2>1
<1>10. \A S \in SUBSET old : NewestOf(S \cup {at}) = at
  BY <1>3, <1>8, NewestIsTheLast
<1>11. /\ Of(new, x) = Of(old, x) \cup {at}
       /\ \A y \in Exacts \ {x} : Of(new, y) = Of(old, y)
  BY <1>4, <1>7
<1>12. /\ LiveOf(new, l) = LiveOf(old, l) \cup {at}
       /\ \A k \in Logicals \ {l} : LiveOf(new, k) = LiveOf(old, k)
  BY <1>4, <1>7
<1>13. /\ NewestOf(Of(new, x)) = at /\ NewestOf(LiveOf(new, l)) = at
  <2>1. Of(old, x) \in SUBSET old /\ LiveOf(old, l) \in SUBSET old
    OBVIOUS
  <2> HIDE DEF Of, LiveOf
  <2> QED
    BY <1>10, <1>11, <1>12, <2>1
<1> HIDE DEF Of, LiveOf, live, f
<1>14. ForAppend.exactIndex \in [Exacts -> Locations \cup {None}]
       /\ ForAppend.liveByLogical \in [Logicals -> Locations \cup {None}]
  BY <1>1 DEF Stores
<1>15. st.exactIndex = [y \in Exacts |-> NewestOf(Of(new, y))]
  BY <1>5, <1>6, <1>11, <1>13, <1>14
<1>16. st.liveByLogical = [k \in Logicals |-> NewestOf(LiveOf(new, k))]
  BY <1>1, <1>5, <1>6, <1>9, <1>12, <1>13, <1>14
<1>17. Matches(st, d)
  BY <1>5, <1>15, <1>16 DEF Matches, Opened, Of, LiveOf, new, f
<1> QED
  BY <1>17 DEF st, d, r, f, after

\* A step that ends with a closed store has no index to keep.
LEMMA BuiltAtRest ==
    ASSUME op' = NoOp, store'.opened => Matches(store', image')
    PROVE  Built'
BY DEF Built, IndexIsBuilt, CleanupFindsNothing, NoOp

LEMMA NeverMatched == ~Closed.opened
BY DEF Closed

LEMMA OpenLockedMatches == OpenLocked.opened /\ Matches(OpenLocked, image)
<1>1. OpenLocked.active = ActiveIn(image) /\ OpenLocked.opened
  BY DEF OpenLocked, Opened
<1> QED
  BY <1>1 DEF Matches, OpenLocked

\* The steps between the truncation of a file and its reopening.
LEMMA RewritingSteps ==
    ASSUME TypeInv, Final,
           Truncate \/ WriteHeader \/ FlushHeader \/ CopyRecord \/ FlushCopies
    PROVE  LET o == Other(op.target)
           IN /\ ~Idle
              /\ op'.kind = op.kind /\ op'.target = op.target /\ op'.gen = op.gen
              /\ op'.only = op.only /\ op'.todo \subseteq op.todo
              /\ op'.pc # "truncate" /\ op'.pc # "idle"
              /\ image'[o] = image[o] /\ synced'[o] = synced[o] /\ store' = store
<1> DEFINE t == op.target
           o == Other(t)
<1>1. ~Idle /\ t \in Files /\ o \in Files /\ o # t
  <2>1. ~Idle
    BY AtIsBusy DEF Truncate, WriteHeader, FlushHeader, CopyRecord, FlushCopies
  <2> QED
    BY <2>1, InRewriting
<1>2. CASE Truncate
  BY <1>1, <1>2, GoingSomewhere, Reached DEF Truncate, FileTypes
<1>3. CASE WriteHeader
  BY <1>1, <1>3, GoingSomewhere, Reached DEF WriteHeader, FileTypes
<1>4. CASE FlushHeader
  BY <1>1, <1>4, GoingSomewhere, Reached DEF FlushHeader, Flush, FileTypes
<1>5. CASE CopyRecord
  <2>1. op.pc = "copy" /\ synced' = synced /\ store' = store
    BY <1>5 DEF CopyRecord, At
  <2>2. PICK r \in op.todo : /\ image' = [image EXCEPT ![t] = AppendTo(@, r)]
                             /\ op' = [op EXCEPT !.todo = @ \ {r}]
    BY <1>5 DEF CopyRecord
  <2>3. /\ op'.pc = op.pc /\ op'.kind = op.kind /\ op'.target = t
        /\ op'.gen = op.gen /\ op'.todo = op.todo \ {r} /\ op'.only = op.only
    BY <2>2, Reached DEF Operations
  <2>4. image'[o] = image[o]
    BY <1>1, <2>2, Reached DEF FileTypes
  <2> QED
    BY <1>1, <2>1, <2>3, <2>4
<1>6. CASE FlushCopies
  BY <1>1, <1>6, GoingSomewhere, Reached DEF FlushCopies, Flush, FileTypes
<1> QED
  BY <1>2, <1>3, <1>4, <1>5, <1>6

\* Steps of a rewriting: nobody reads the indexes, but a clean-up finds nothing.
LEMMA RewritingKeepsBuilt ==
    ASSUME TypeInv, Final, Built, Final',
           Truncate \/ WriteHeader \/ FlushHeader \/ CopyRecord \/ FlushCopies
    PROVE  Built'
<1> DEFINE t == op.target
           o == Other(t)
<1>1. ~Idle /\ t \in Files /\ o \in Files /\ o # t
  BY RewritingSteps, InRewriting
<1>2. /\ op'.kind = op.kind /\ op'.target = t /\ op'.gen = op.gen
      /\ op'.pc # "truncate" /\ op'.pc # "idle"
      /\ image'[o] = image[o]
  BY RewritingSteps
<1>3. IndexIsBuilt'
  BY <1>2 DEF IndexIsBuilt, Idle, NoOp, At
<1>4. ASSUME op.kind = "cleanup"
      PROVE  /\ image[o].recs = <<>> /\ op.gen + 1 = image[o].gen
             /\ image'[t].valid => image'[t].recs = <<>>
  <2>1. image[o].recs = <<>> /\ op.gen + 1 = image[o].gen
    BY <1>4 DEF Built, CleanupFindsNothing
  <2>2. Empty(op.gen).recs = <<>> /\ ~Blank.valid
    BY DEF Empty, Blank
  <2>3. CASE Truncate
    BY <1>1, <2>1, <2>2, <2>3, Reached DEF Truncate, FileTypes
  <2>4. CASE WriteHeader
    BY <1>1, <2>1, <2>2, <2>4, Reached DEF WriteHeader, FileTypes
  <2>5. CASE FlushHeader
    <3>1. image[t] = Empty(op.gen) /\ image' = image
      BY <1>1, <2>5, Rewriting DEF TargetAdvances, FlushHeader, At
    <3> QED
      BY <2>1, <2>2, <3>1
  <2>6. CASE CopyRecord \/ FlushCopies
    BY <1>1, <1>4, <2>6, Rewriting DEF CopyRecord, FlushCopies, At
  <2> QED
    BY <2>1, <2>3, <2>4, <2>5, <2>6
<1>5. CleanupFindsNothing'
  <2> HIDE DEF t
  <2> QED
    BY <1>2, <1>4 DEF CleanupFindsNothing
<1> QED
  BY <1>3, <1>5 DEF Built

LEMMA ReopeningBuilds ==
    ASSUME TypeInv, Final, Built, Final', Reopen
    PROVE  Built'
<1>1. store' = OpenLocked /\ image' = image /\ At("reopen")
  BY DEF Reopen, files
<1>2. CASE op.kind # "barrier"
  BY <1>1, <1>2, OpenLockedMatches, BuiltAtRest DEF Reopen
<1>3. CASE op.kind = "barrier"
  <2> DEFINE t == op.target
             o == Other(t)
  <2>1. t \in Files /\ o \in Files /\ Other(o) = t /\ op.gen \in Nat
        /\ image[o].gen \in Nat
    BY <1>1, InRewriting, AtIsBusy DEF Versions
  <2>2. /\ OpenLocked.active = t /\ image[t] = Empty(op.gen)
        /\ image[o].valid => image[o].gen + 1 < op.gen
    BY <1>1, <1>3, BarrierLeads DEF Versions
  <2>3. image[t].gen = op.gen /\ image[t].recs = <<>>
    BY <2>2 DEF Empty
  <2>4. op' = [kind |-> "cleanup", pc |-> "truncate", target |-> o,
               gen |-> op.gen - 1, todo |-> {}, only |-> {}]
    BY <1>1, <1>3, <2>2, <2>3 DEF Reopen, Rewrite
  <2> HIDE DEF t, o
  <2>5. op'.target = o /\ op'.gen = op.gen - 1 /\ op'.kind = "cleanup"
    BY <2>4
  <2>6. op.gen - 1 + 1 = op.gen /\ (image[o].valid => image[o].gen # op.gen - 1)
    BY <2>1, <2>2
  <2>7. CleanupFindsNothing'
    BY <1>1, <2>1, <2>3, <2>5, <2>6 DEF CleanupFindsNothing
  <2>8. IndexIsBuilt'
    BY <2>5 DEF IndexIsBuilt, Idle, NoOp
  <2> QED
    BY <2>7, <2>8 DEF Built
<1> QED
  BY <1>2, <1>3

LEMMA RetainedMatches ==
    ASSUME TypeInv, Final, Built, op.kind = "cleanup"
    PROVE  Matches(Retained, image)
<1> DEFINE t == op.target
           o == Other(t)
<1>1. ~Idle
  BY DEF Idle, NoOp
<1>2. /\ t \in Files /\ o \in Files /\ Other(o) = t
      /\ image[t].gen \in Nat /\ op.gen \in Nat /\ store.active = o
  BY <1>1, InRewriting, Rewriting DEF CleanupKeeps, Versions
<1>3. /\ image[o].recs = <<>> /\ op.gen + 1 = image[o].gen
      /\ image[t].valid /\ image[t].gen = op.gen => image[t].recs = <<>>
  BY DEF Built, CleanupFindsNothing
<1> HIDE DEF t, o
<1>4. \A f \in Files : image[f].recs = <<>> => LocationsIn(image, f) = {}
  BY DEF LocationsIn
<1>5. Continues(image, o) => image[t].recs = <<>>
  BY <1>2, <1>3 DEF Continues
<1>6. Indexed(image, o) = {}
  BY <1>2, <1>3, <1>4, <1>5 DEF Indexed
<1>7. /\ Opened(image, o).exactIndex = [x \in Exacts |-> None]
      /\ Opened(image, o).liveByLogical = [l \in Logicals |-> None]
  <2>1. \A x : {p \in Indexed(image, o) : p.rec.exact = x} = {}
    BY <1>6
  <2>2. \A l : {p \in Indexed(image, o) : LogicalOf[p.rec.exact] = l} = {}
    BY <1>6
  <2>3. [x \in Exacts |-> NewestOf({p \in Indexed(image, o) : p.rec.exact = x})]
            = [x \in Exacts |-> None]
    BY <2>1, NothingIsNewest
  <2>4. [l \in Logicals |-> NewestOf({p \in Indexed(image, o) : LogicalOf[p.rec.exact] = l})]
            = [l \in Logicals |-> None]
    BY <2>2, NothingIsNewest
  <2> QED
    BY <2>3, <2>4 DEF Opened
<1>8. /\ Retained.active = o
      /\ Retained.exactIndex = [x \in Exacts |-> None]
      /\ Retained.liveByLogical = [l \in Logicals |-> None]
  BY <1>2 DEF Retained, Closed
<1> QED
  BY <1>7, <1>8 DEF Matches

LEMMA StepsKeepBuilt == TypeInv /\ Final /\ Built /\ Final' /\ [Next]_vars => Built'
<1> SUFFICES ASSUME TypeInv, Final, Built, Final', [Next]_vars PROVE Built'
  OBVIOUS
<1>1. IndexIsBuilt /\ CleanupFindsNothing
  BY DEF Built
<1>2. ASSUME Idle, UNCHANGED <<image, op>>,
             store' = store \/ store' = OpenLocked \/ store' = Closed
      PROVE  Built'
  <2>1. op' = NoOp /\ (store.opened => Matches(store, image))
    BY <1>1, <1>2 DEF Idle, IndexIsBuilt
  <2>2. store'.opened => Matches(store', image)
    BY <1>2, <2>1, OpenLockedMatches, NeverMatched
  <2> QED
    BY <1>2, <2>1, <2>2, BuiltAtRest
<1>3. CASE InitializeManagedPacks
  <2>1. Idle
    BY <1>3, Rewriting DEF InitializeManagedPacks
  <2> QED
    BY <1>2, <1>3, <2>1 DEF InitializeManagedPacks, files
<1>4. CASE FinishValidation \/ LoadFails \/ AppendRefused \/ CheckpointFails \/ ResetRefused
             \/ Checkpoint
  BY <1>2, <1>4
  DEF FinishValidation, LoadFails, AppendRefused, CheckpointFails, ResetRefused, Checkpoint,
      CanSave, files
<1>5. CASE QuarantineShaderPackLane \/ UNCHANGED vars
  <2>1. UNCHANGED <<image, store, op>>
    BY <1>5 DEF QuarantineShaderPackLane, vars, files
  <2> QED
    BY <2>1, <1>1
    DEF Built, IndexIsBuilt, CleanupFindsNothing, Matches, Opened, Indexed, LocationsIn,
        Continues, Idle, At
<1>6. ASSUME NEW x \in Exacts, SaveShaderBlobToPack(x)
      PROVE  Built'
  <2> DEFINE r == [exact |-> x, id |-> ids + 1]
  <2>1. /\ Idle /\ op' = op /\ (store.opened \/ Admissible(image))
        /\ image' = [image EXCEPT ![ForAppend.active] = AppendTo(@, r)]
        /\ store' = Index(ForAppend, r)
    BY <1>6 DEF SaveShaderBlobToPack, CanSave
  <2>2. Matches(Index(ForAppend, r), [image EXCEPT ![ForAppend.active] = AppendTo(@, r)])
    BY <1>1, <2>1, IndexingMatches
  <2>3. Matches(store', image')
    BY <2>1, <2>2
  <2> QED
    BY <2>1, <2>3, BuiltAtRest DEF Idle
<1>7. ASSUME NEW x \in Exacts, AppendFails(x)
      PROVE  Built'
  BY <1>7, NeverMatched, BuiltAtRest DEF AppendFails, CanSave, Idle
<1>8. CASE Compact \/ Reset
  <2>1. Idle /\ image' = image /\ op'.kind \in {"compact", "barrier"}
    <3>1. CASE Compact
      <4>1. op'.kind = "compact"
        BY <3>1 DEF Compact, Rewrite
      <4> QED
        BY <3>1, <4>1 DEF Compact, files
    <3>2. CASE Reset
      <4>1. op'.kind = "barrier"
        BY <3>2 DEF Reset, Rewrite
      <4> QED
        BY <3>2, <4>1 DEF Reset, files
    <3> QED
      BY <1>8, <3>1, <3>2
  <2>2. store' = store \/ store' = OpenLocked
    BY <1>8 DEF Compact, Reset, ForAppend
  <2>3. store'.opened => Matches(store', image')
    BY <1>1, <2>1, <2>2, OpenLockedMatches DEF IndexIsBuilt
  <2> QED
    BY <2>1, <2>3 DEF Built, IndexIsBuilt, CleanupFindsNothing
<1>9. CASE FailsBeforeMutation
  <2>1. /\ At("truncate") /\ op.kind # "cleanup" /\ op' = NoOp /\ image' = image
        /\ store' = store \/ store' = Closed
    BY <1>9 DEF FailsBeforeMutation, files
  <2>2. store'.opened => Matches(store', image')
    BY <1>1, <2>1, NeverMatched DEF IndexIsBuilt
  <2> QED
    BY <2>1, <2>2, BuiltAtRest
<1>10. CASE FailsAfterMutation
  BY <1>10, NeverMatched, BuiltAtRest DEF FailsAfterMutation
<1>11. CASE CleanupFails
  <2>1. op.kind = "cleanup" /\ store' = Retained /\ op' = NoOp /\ image' = image
    BY <1>11 DEF CleanupFails, files
  <2>2. Matches(store', image')
    BY <2>1, RetainedMatches
  <2> QED
    BY <2>1, <2>2, BuiltAtRest
<1>12. CASE ProcessEnds \/ PowerLoss
  BY <1>12, NeverMatched, BuiltAtRest DEF ProcessEnds, PowerLoss, Down
<1> QED
  BY <1>3, <1>4, <1>5, <1>6, <1>7, <1>8, <1>9, <1>10, <1>11, <1>12,
     RewritingKeepsBuilt, ReopeningBuilds
  DEF Next

LEMMA BuiltInit == Init => Built
<1>1. Init => op = NoOp /\ ~store.opened
  BY NeverMatched DEF Init
<1> QED
  BY <1>1 DEF Built, IndexIsBuilt, CleanupFindsNothing, NoOp

\* The indexes an open store answers from, kept one record at a time and cleared
\* by a reset, are always those that a new process would build from the files.
THEOREM IndexesAreTheFiles == Spec => []IndexMatchesDisk
<1>1. Built => IndexMatchesDisk
  BY DEF Built, IndexIsBuilt, IndexMatchesDisk, Matches
<1> QED
  BY <1>1, BuiltInit, TypeInit, StepsKeepTypes, FinalInit, StepsKeepFinal, StepsKeepBuilt, PTL
  DEF Spec

-----------------------------------------------------------------------------
(* CheckpointedRecordsSurvive: what lookups find.                          *)

SameKey(c, r) == LogicalOf[c.exact] = LogicalOf[r.exact]

\* Of one logical key, what was written later is newer: here in contents m of
\* the file f and contents n of g.
InOrder(f, m, g, n) ==
    \A i \in DOMAIN m.recs, j \in DOMAIN n.recs :
        /\ SameKey(m.recs[i], n.recs[j])
        /\ m.gen < n.gen \/ (m.gen = n.gen /\ (f = g => i <= j))
        => m.recs[i].id <= n.recs[j].id

\* The copies of a compaction may be no newer than what they replace.
Ordered ==
    \A f, g \in Files : \A m \in Versions(image, synced, f), n \in Versions(image, synced, g) :
        InOrder(f, m, g, n)

\* A finite set has an element below no other.
LEMMA FiniteHasATop ==
    ASSUME NEW S, IsFiniteSet(S), S # {}, NEW R,
           \A p, q, r \in S : <<p, q>> \in R /\ <<q, r>> \in R => <<p, r>> \in R,
           \A p \in S : <<p, p>> \notin R
    PROVE  \E p \in S : \A q \in S : <<q, p>> \notin R
<1> DEFINE Above(p) == {q \in S : <<q, p>> \in R}
           T == {Above(p) : p \in S}
<1>1. T \subseteq FiniteSubsetsOf(S)
  <2>1. \A p \in S : Above(p) \in SUBSET S
    OBVIOUS
  <2>2. \A p \in S : IsFiniteSet(Above(p))
    BY <2>1, FS_Subset
  <2> HIDE DEF Above
  <2> QED
    BY <2>1, <2>2 DEF FiniteSubsetsOf
<1>2. T # {}
  <2>1. PICK p \in S : TRUE
    OBVIOUS
  <2> HIDE DEF Above
  <2>2. Above(p) \in T
    BY <2>1
  <2> QED
    BY <2>2
<1> HIDE DEF T
<1>3. PICK U \in T : \A V \in T : <<V, U>> \notin StrictSubsetOrdering(S)
  BY <1>1, <1>2, FS_StrictSubsetOrderingWellFounded, WFMin
<1>4. PICK p \in S : U = Above(p)
  BY DEF T
<1>5. ASSUME NEW q \in S, <<q, p>> \in R PROVE FALSE
  <2>1. Above(q) \subseteq Above(p) /\ q \in Above(p) /\ q \notin Above(q)
    BY <1>5
  <2>2. Above(q) \in T /\ Above(q) \in SUBSET S /\ Above(p) \in SUBSET S
    BY DEF T
  <2> HIDE DEF Above
  <2>3. <<Above(q), Above(p)>> \in StrictSubsetOrdering(S)
    BY <2>1, <2>2 DEF StrictSubsetOrdering
  <2> QED
    BY <1>3, <1>4, <2>2, <2>3
<1> QED
  BY <1>5

LEMMA NewestIsFound ==
    ASSUME NEW S, IsFiniteSet(S), S # {}, \A p \in S : p.gen \in Nat /\ p.seq \in Nat
    PROVE  NewestOf(S) \in S /\ \A q \in S : ~Newer(q, NewestOf(S))
<1> DEFINE R == {pq \in S \X S : Newer(pq[1], pq[2])}
<1>1. \A p, q \in S : <<p, q>> \in R <=> Newer(p, q)
  OBVIOUS
<1> HIDE DEF R
<1>2. \A p, q, r \in S : <<p, q>> \in R /\ <<q, r>> \in R => <<p, r>> \in R
  BY <1>1 DEF Newer
<1>3. \A p \in S : <<p, p>> \notin R
  BY <1>1 DEF Newer
<1>4. PICK p \in S : \A q \in S : ~Newer(q, p)
  BY <1>1, <1>2, <1>3, FiniteHasATop
<1> DEFINE newest == {x \in S : \A q \in S : ~Newer(q, x)}
<1>5. p \in newest
  BY <1>4
<1>6. NewestOf(S) = CHOOSE x \in newest : TRUE
  BY <1>5 DEF NewestOf
<1>7. NewestOf(S) \in newest
  <2> HIDE DEF newest
  <2> QED
    BY <1>5, <1>6
<1> QED
  BY <1>7

LEMMA IndexedIsFinite ==
    ASSUME TypeInv, NEW a \in Files
    PROVE  IsFiniteSet(Indexed(image, a))
<1>1. ASSUME NEW f \in Files PROVE IsFiniteSet(LocationsIn(image, f))
  <2> DEFINE recs == image[f].recs
             loc == [i \in 1 .. Len(recs) |->
                        [file |-> f, gen |-> image[f].gen, seq |-> i, rec |-> recs[i]]]
  <2>1. recs \in Seq(Records)
    BY Reached DEF Images
  <2>2. LocationsIn(image, f) = {[file |-> f, gen |-> image[f].gen, seq |-> i, rec |-> recs[i]]
                                  : i \in DOMAIN recs}
    BY DEF LocationsIn
  <2> HIDE DEF recs
  <2>3. DOMAIN recs = 1 .. Len(recs) /\ Len(recs) \in Nat
    BY <2>1
  <2>4. loc \in Surjection(1 .. Len(recs), LocationsIn(image, f))
    BY <2>2, <2>3 DEF Surjection
  <2>5. IsFiniteSet(1 .. Len(recs))
    BY <2>3, FS_Interval
  <2> QED
    BY <2>4, <2>5, FS_Surjection
<1> QED
  BY <1>1, TwoFiles, FS_Union, FS_EmptySet DEF Indexed

\* A lookup by logical key finds nothing older than any record there is of it.
LEMMA LookupsAreNewest ==
    ASSUME TypeInv, Ordered, NEW a \in Files, NEW p \in Indexed(image, a)
    PROVE  LET l == LogicalOf[p.rec.exact]
               q == Opened(image, a).liveByLogical[l]
           IN /\ l \in Logicals /\ q \in Indexed(image, a) /\ q # None
              /\ LogicalOf[q.rec.exact] = l /\ q.rec.id >= p.rec.id
<1> DEFINE l == LogicalOf[p.rec.exact]
           S == {x \in Indexed(image, a) : LogicalOf[x.rec.exact] = l}
           q == NewestOf(S)
<1>1. Indexed(image, a) \subseteq Locations
  BY FoundIsTyped, Reached DEF FileTypes
<1>2. \A x \in Locations : /\ x.gen \in Nat /\ x.seq \in Nat /\ x.rec \in Records
                           /\ x.rec.exact \in Exacts
  BY DEF Locations, Records
<1>3. l \in Logicals
  BY <1>1, <1>2, KeysNest
<1>4. /\ q \in Indexed(image, a) /\ LogicalOf[q.rec.exact] = l
      /\ ~Newer(p, q)
  <2>1. IsFiniteSet(S)
    BY IndexedIsFinite, FS_Subset
  <2>2. p \in S
    OBVIOUS
  <2>3. \A x \in S : x.gen \in Nat /\ x.seq \in Nat
    BY <1>1, <1>2
  <2> HIDE DEF S
  <2>4. q \in S /\ ~Newer(p, q)
    BY <2>1, <2>2, <2>3, NewestIsFound
  <2> QED
    BY <2>4 DEF S
<1>5. Opened(image, a).liveByLogical[l] = q
  BY <1>3 DEF Opened
<1>6. q # None
  <2>1. q \in [file : {A, B}, gen : Nat, seq : Nat, rec : [exact : Exacts, id : Nat]]
    BY <1>1, <1>4, Reached DEF Locations, Files, Records
  <2> QED
    BY <2>1, NoneIsNoLocation
<1>7. q.rec.id >= p.rec.id
  <2> HIDE DEF q
  <2>1. \A x \in Indexed(image, a) : \E f \in Files : \E i \in DOMAIN image[f].recs :
            x.gen = image[f].gen /\ x.seq = i /\ x.rec = image[f].recs[i]
    BY TwoFiles DEF Indexed, LocationsIn
  <2>2. PICK f \in Files : \E i \in DOMAIN image[f].recs :
            p.gen = image[f].gen /\ p.seq = i /\ p.rec = image[f].recs[i]
    BY <2>1
  <2>3. PICK g \in Files : \E j \in DOMAIN image[g].recs :
            q.gen = image[g].gen /\ q.seq = j /\ q.rec = image[g].recs[j]
    BY <1>4, <2>1
  <2>9. PICK i \in DOMAIN image[f].recs :
            p.gen = image[f].gen /\ p.seq = i /\ p.rec = image[f].recs[i]
    BY <2>2
  <2>10. PICK j \in DOMAIN image[g].recs :
            q.gen = image[g].gen /\ q.seq = j /\ q.rec = image[g].recs[j]
    BY <2>3
  <2>4. SameKey(image[f].recs[i], image[g].recs[j])
    BY <1>4, <2>9, <2>10 DEF SameKey
  <2>5. /\ image[f].gen \in Nat /\ image[g].gen \in Nat /\ i \in Nat /\ j \in Nat
    BY Reached, ImagesHave
  <2>6. image[f].gen < image[g].gen \/ (image[f].gen = image[g].gen /\ i <= j)
    BY <1>4, <2>9, <2>10, <2>5 DEF Newer
  <2>7. image[f].recs[i].id <= image[g].recs[j].id
    BY <2>4, <2>6 DEF Ordered, InOrder, Versions
  <2>8. image[f].recs[i].id \in Nat /\ image[g].recs[j].id \in Nat
    BY Reached, ImagesHave
  <2>11. p.rec.id = image[f].recs[i].id /\ q.rec.id = image[g].recs[j].id
    BY <2>9, <2>10
  <2> QED
    BY <2>7, <2>8, <2>11
<1> QED
  BY <1>3, <1>4, <1>5, <1>6, <1>7
-----------------------------------------------------------------------------
(* What is written later is newer.                                         *)

\* r is as new as any record of its logical key in any version of a file.
IsNewest(r) ==
    \A f \in Files : \A m \in Versions(image, synced, f) : \A i \in DOMAIN m.recs :
        SameKey(m.recs[i], r) => m.recs[i].id <= r.id

\* Generation zero is that of a blank file and of the one never written to.
Numbered ==
    \A f \in Files : \A m \in Versions(image, synced, f) :
        /\ ~m.valid => m.gen = 0
        /\ \A i \in DOMAIN m.recs : m.gen # 0

OpenIsNumbered ==
    store.opened /\ (Idle \/ At("truncate") \/ op.kind = "cleanup")
        => image[store.active].gen # 0

\* What a compaction copies is the newest there is.
TodoIsNewest ==
    \A r \in op.todo : IsNewest(r) /\ \A q \in op.todo : SameKey(q, r) => q.id <= r.id

CompactAdvances == op.kind = "compact" => op.gen = image[Other(op.target)].gen + 1

Sorted == Ordered /\ Numbered /\ OpenIsNumbered /\ TodoIsNewest /\ CompactAdvances

\* Steps after which the files hold the beginnings of what they held.
LEMMA ShrinkingKeepsOrder ==
    ASSUME Ordered, Numbered,
           \A f \in Files : \A m \in Versions(image', synced', f) :
               \/ DOMAIN m.recs = {} /\ (~m.valid => m.gen = 0)
               \/ \E v \in Versions(image, synced, f) : Begins(m, v)
    PROVE  Ordered' /\ Numbered' /\ \A r : IsNewest(r) => IsNewest(r)'
<1>1. \A f \in Files : \A m \in Versions(image', synced', f) : \A i \in DOMAIN m.recs :
          \E v \in Versions(image, synced, f) :
              m.gen = v.gen /\ i \in DOMAIN v.recs /\ m.recs[i] = v.recs[i]
  BY DEF Begins
<1>2. Ordered'
  <2> SUFFICES ASSUME NEW f \in Files, NEW g \in Files,
                      NEW m \in Versions(image', synced', f),
                      NEW n \in Versions(image', synced', g),
                      NEW i \in DOMAIN m.recs, NEW j \in DOMAIN n.recs,
                      SameKey(m.recs[i], n.recs[j]),
                      m.gen < n.gen \/ (m.gen = n.gen /\ (f = g => i <= j))
               PROVE  m.recs[i].id <= n.recs[j].id
    <3>1. SUFFICES ASSUME NEW f \in Files, NEW g \in Files,
                          NEW m \in Versions(image', synced', f),
                          NEW n \in Versions(image', synced', g)
                   PROVE  InOrder(f, m, g, n)
      BY DEF Ordered
    <3> QED
      BY DEF InOrder
  <2>1. PICK v \in Versions(image, synced, f) :
            m.gen = v.gen /\ i \in DOMAIN v.recs /\ m.recs[i] = v.recs[i]
    BY <1>1
  <2>2. PICK w \in Versions(image, synced, g) :
            n.gen = w.gen /\ j \in DOMAIN w.recs /\ n.recs[j] = w.recs[j]
    BY <1>1
  <2> QED
    BY <2>1, <2>2 DEF Ordered, InOrder
<1>3. Numbered'
  BY DEF Numbered, Begins
<1>4. ASSUME NEW r, IsNewest(r) PROVE IsNewest(r)'
  BY <1>1, <1>4 DEF IsNewest, SameKey
<1> QED
  BY <1>2, <1>3, <1>4

\* One more record of the leading file, as new as any of its logical key.
LEMMA AppendingKeepsOrder ==
    ASSUME TypeInv, FilesGoOn(image, synced), Ordered, Numbered,
           NEW f \in Files, image[f].valid, image[f].gen # 0,
           \A g \in Files : \A m \in Versions(image, synced, g) : m.valid =>
               m.gen <= image[f].gen /\ (g # f => m.gen < image[f].gen),
           NEW r, IsNewest(r), r.id \in Nat, NEW after,
           after.valid = image[f].valid, after.gen = image[f].gen,
           after.recs = image[f].recs \/ after.recs = Append(image[f].recs, r),
           image' = [image EXCEPT ![f] = after], synced' = synced
    PROVE  /\ Ordered' /\ Numbered'
           /\ \A c : IsNewest(c) /\ (SameKey(r, c) => r.id <= c.id) => IsNewest(c)'
<1> DEFINE recs == image[f].recs
           Old(g, m, i) == \E v \in Versions(image, synced, g) :
                               /\ m.gen = v.gen /\ m.valid = v.valid
                               /\ i \in DOMAIN v.recs /\ m.recs[i] = v.recs[i]
           New(g, m, i) == /\ g = f /\ m.gen = image[f].gen /\ m.recs[i] = r
                           /\ i = Len(recs) + 1
<1>1. recs \in Seq(Records) /\ Len(recs) \in Nat /\ DOMAIN recs = 1 .. Len(recs)
  BY Reached DEF Images
<1>2. image'[f] = after /\ \A g \in Files \ {f} : image'[g] = image[g]
  BY Reached DEF FileTypes
<1>3. \A i \in DOMAIN after.recs :
          \/ i \in DOMAIN recs /\ after.recs[i] = recs[i]
          \/ i = Len(recs) + 1 /\ after.recs[i] = r
  <2>1. CASE after.recs = recs
    BY <2>1
  <2>2. CASE after.recs = Append(recs, r)
    <3> HIDE DEF recs
    <3>1. /\ DOMAIN Append(recs, r) = 1 .. Len(recs) + 1
          /\ \A i \in 1 .. Len(recs) : Append(recs, r)[i] = recs[i]
          /\ Append(recs, r)[Len(recs) + 1] = r
      BY <1>1, AppendProperties
    <3> QED
      BY <1>1, <2>2, <3>1
  <2> QED
    BY <2>1, <2>2
<1>4. \A g \in Files : \A m \in Versions(image', synced', g) :
          m \in Versions(image, synced, g) \/ (g = f /\ m = after)
  BY <1>2 DEF Versions
<1>5. \A g \in Files : \A m \in Versions(image', synced', g) : \A i \in DOMAIN m.recs :
          Old(g, m, i) \/ New(g, m, i)
  <2> TAKE g \in Files
  <2> TAKE m \in Versions(image', synced', g)
  <2> TAKE i \in DOMAIN m.recs
  <2>1. CASE m \in Versions(image, synced, g)
    BY <2>1
  <2>2. CASE g = f /\ m = after
    <3>1. image[f] \in Versions(image, synced, g)
      BY <2>2 DEF Versions
    <3>2. CASE i \in DOMAIN recs /\ after.recs[i] = recs[i]
      BY <2>2, <3>1, <3>2
    <3>3. CASE i = Len(recs) + 1 /\ after.recs[i] = r
      BY <2>2, <3>3
    <3> QED
      BY <1>3, <2>2, <3>2, <3>3
  <2> QED
    BY <1>4, <2>1, <2>2
<1>6. \A g \in Files : \A v \in Versions(image, synced, g) :
          v.gen \in Nat /\ v.valid \in BOOLEAN /\ \A i \in DOMAIN v.recs : i \in Nat /\ v.valid
  <2>1. \A g \in Files : \A v \in Versions(image, synced, g) : v \in Images
    BY Reached DEF Versions
  <2>2. \A v \in Images : v.gen \in Nat /\ v.valid \in BOOLEAN
                          /\ \A i \in DOMAIN v.recs : i \in Nat
    BY Reached, ImagesHave
  <2> QED
    BY <2>1, <2>2 DEF Numbered
<1> HIDE DEF New, Old
<1>7. Ordered'
  <2> SUFFICES ASSUME NEW e \in Files, NEW g \in Files,
                      NEW m \in Versions(image', synced', e),
                      NEW n \in Versions(image', synced', g),
                      NEW i \in DOMAIN m.recs, NEW j \in DOMAIN n.recs,
                      SameKey(m.recs[i], n.recs[j]),
                      m.gen < n.gen \/ (m.gen = n.gen /\ (e = g => i <= j))
               PROVE  m.recs[i].id <= n.recs[j].id
    <3>1. SUFFICES ASSUME NEW e \in Files, NEW g \in Files,
                          NEW m \in Versions(image', synced', e),
                          NEW n \in Versions(image', synced', g)
                   PROVE  InOrder(e, m, g, n)
      BY DEF Ordered
    <3> QED
      BY DEF InOrder
  <2>1. CASE Old(e, m, i) /\ Old(g, n, j)
    <3>1. PICK v \in Versions(image, synced, e) :
              m.gen = v.gen /\ i \in DOMAIN v.recs /\ m.recs[i] = v.recs[i]
      BY <2>1 DEF Old
    <3>2. PICK w \in Versions(image, synced, g) :
              n.gen = w.gen /\ j \in DOMAIN w.recs /\ n.recs[j] = w.recs[j]
      BY <2>1 DEF Old
    <3> QED
      BY <3>1, <3>2 DEF Ordered, InOrder
  <2>2. CASE Old(e, m, i) /\ New(g, n, j)
    BY <2>2 DEF IsNewest, Old, New
  <2>3. CASE New(e, m, i) /\ New(g, n, j)
    BY <2>3 DEF New
  <2>4. CASE New(e, m, i) /\ Old(g, n, j)
    <3>1. PICK v \in Versions(image, synced, g) :
              n.gen = v.gen /\ j \in DOMAIN v.recs
      BY <2>4 DEF Old
    <3>2. v.valid /\ v.gen \in Nat /\ image[f].gen \in Nat
      BY <1>6, <3>1, Reached
    <3>3. e = f /\ g = f /\ v.gen = image[f].gen /\ i = Len(recs) + 1 /\ i <= j
      BY <2>4, <3>1, <3>2 DEF New
    <3>4. j \in DOMAIN recs
      BY <3>1, <3>2, <3>3 DEF Versions, FilesGoOn, Follows
    <3> QED
      BY <1>1, <3>3, <3>4
  <2> QED
    BY <1>5, <2>1, <2>2, <2>3, <2>4
<1>8. Numbered'
  <2> SUFFICES ASSUME NEW g \in Files, NEW m \in Versions(image', synced', g)
               PROVE  (~m.valid => m.gen = 0) /\ \A i \in DOMAIN m.recs : m.gen # 0
    BY DEF Numbered
  <2> QED
    BY <1>4 DEF Numbered
<1>9. ASSUME NEW c, IsNewest(c), SameKey(r, c) => r.id <= c.id
      PROVE  IsNewest(c)'
  <2> SUFFICES ASSUME NEW g \in Files, NEW m \in Versions(image', synced', g),
                      NEW i \in DOMAIN m.recs, SameKey(m.recs[i], c)
               PROVE  m.recs[i].id <= c.id
    BY DEF IsNewest, SameKey
  <2>1. CASE Old(g, m, i)
    BY <1>9, <2>1 DEF Old, IsNewest
  <2>2. CASE New(g, m, i)
    BY <1>9, <2>2 DEF New
  <2> QED
    BY <1>5, <2>1, <2>2
<1> QED
  BY <1>7, <1>8, <1>9

\* What a lookup by logical key finds is as new as anything any version holds.
LEMMA FoundIsNewest ==
    ASSUME TypeInv, FilesAreSound(image, synced, erased), Ordered,
           NEW a \in Files, Leads(image, synced, erased, a),
           NEW l \in Logicals, Opened(image, a).liveByLogical[l] # None
    PROVE  LET q == Opened(image, a).liveByLogical[l]
           IN IsNewest(q.rec) /\ LogicalOf[q.rec.exact] = l
<1> DEFINE q == Opened(image, a).liveByLogical[l]
           o == Other(a)
<1>1. q \in Indexed(image, a) /\ LogicalOf[q.rec.exact] = l
  <2>1. q = NewestOf({p \in Indexed(image, a) : LogicalOf[p.rec.exact] = l})
    BY DEF Opened
  <2>2. q # None
    OBVIOUS
  <2> HIDE DEF q
  <2> QED
    BY <2>1, <2>2, NewestIsALocation
<1> HIDE DEF q
<1>2. /\ o \in Files /\ o # a /\ Other(o) = a /\ \A f \in Files : f = a \/ f = o
  BY TwoFiles
<1>3. \A f \in Files : \A m \in Versions(image, synced, f) : m.gen \in Nat
  BY Reached DEF Versions
<1>4. \A f \in Files : \A m \in Versions(image, synced, f) : \A i \in DOMAIN m.recs : m.valid
  BY DEF FilesAreSound, BlanksAreEmpty
<1>5. PICK g \in Files : \E j \in DOMAIN image[g].recs :
          /\ q.rec = image[g].recs[j]
          /\ g = a \/ Continues(image, a)
  BY <1>1, <1>2 DEF Indexed, LocationsIn, o
<1>6. PICK j \in DOMAIN image[g].recs : q.rec = image[g].recs[j]
  BY <1>5
<1>7. image[g] \in Versions(image, synced, g) /\ image[a] \in Versions(image, synced, a)
      /\ image[g].gen <= image[a].gen /\ image[a].gen <= image[g].gen + 1
      /\ (g # a => Continues(image, a) /\ image[g].gen + 1 = image[a].gen)
  BY <1>2, <1>3, <1>5 DEF Versions, Continues, o
<1>8. ASSUME NEW f \in Files, f = a \/ Continues(image, a), NEW i \in DOMAIN image[f].recs,
             SameKey(image[f].recs[i], q.rec)
      PROVE  image[f].recs[i].id <= q.rec.id
  <2> DEFINE p == [file |-> f, gen |-> image[f].gen, seq |-> i, rec |-> image[f].recs[i]]
  <2>1. p \in Indexed(image, a) /\ p.rec = image[f].recs[i]
    <3>1. p \in LocationsIn(image, f)
      BY DEF LocationsIn
    <3> HIDE DEF p
    <3>2. p \in Indexed(image, a)
      BY <1>2, <1>8, <3>1 DEF Indexed, o
    <3> QED
      BY <3>2 DEF p
  <2> HIDE DEF p
  <2>2. LogicalOf[p.rec.exact] = l
    BY <1>1, <1>8, <2>1 DEF SameKey
  <2>3. q.rec.id >= p.rec.id
    BY <2>1, <2>2, LookupsAreNewest DEF q
  <2>4. p.rec.id \in Nat /\ q.rec.id \in Nat
    BY <1>6, <2>1, Reached, ImagesHave
  <2> QED
    BY <2>1, <2>3, <2>4
<1>9. ASSUME NEW f \in Files, NEW m \in Versions(image, synced, f), NEW i \in DOMAIN m.recs,
             SameKey(m.recs[i], q.rec)
      PROVE  m.recs[i].id <= q.rec.id
  <2>1. m.valid /\ m.gen \in Nat
    BY <1>3, <1>4
  <2>2. CASE m.gen < image[g].gen \/ (m.gen = image[g].gen /\ f # g)
    BY <1>6, <1>7, <1>9, <2>2 DEF Ordered, InOrder
  <2>3. ASSUME f = g, image[g].valid, m.gen = image[g].gen
        PROVE  m.recs[i].id <= q.rec.id
    <3>1. i \in DOMAIN image[g].recs /\ m.recs[i] = image[g].recs[i]
      BY <2>1, <2>3 DEF FilesAreSound, FilesGoOn, Follows, Versions
    <3> QED
      BY <1>5, <1>8, <1>9, <3>1
  <2>4. CASE f = a
    <3>1. image[a].valid /\ m.gen <= image[a].gen
      BY <2>1, <2>4, LeaderIsPassed DEF Leads
    <3>2. CASE g = a
      BY <1>3, <1>7, <2>1, <2>2, <2>3, <2>4, <3>1, <3>2
    <3>3. CASE g # a /\ m.gen < image[a].gen
      BY <1>3, <1>7, <2>1, <2>2, <2>4, <3>3
    <3>4. CASE m.gen = image[a].gen
      <4>1. i \in DOMAIN image[a].recs /\ m.recs[i] = image[a].recs[i]
        BY <2>1, <2>4, <3>1, <3>4 DEF FilesAreSound, FilesGoOn, Follows, Versions
      <4> QED
        BY <1>8, <1>9, <4>1
    <3> QED
      BY <1>3, <1>7, <2>1, <3>1, <3>2, <3>3, <3>4
  <2>5. CASE f = o
    <3>1. m.gen < image[a].gen
      BY <2>1, <2>5 DEF Leads, o
    <3>2. CASE g = a
      BY <1>2, <2>2, <2>5, <3>1, <3>2
    <3>3. CASE g = o
      <4>1. image[o].valid /\ image[o].gen + 1 = image[a].gen
        BY <1>2, <1>7, <3>3 DEF Continues, o
      <4> QED
        BY <1>3, <1>7, <2>1, <2>2, <2>3, <2>5, <3>1, <3>3, <4>1
    <3> QED
      BY <1>2, <3>2, <3>3
  <2> QED
    BY <1>2, <2>4, <2>5
<1>10. IsNewest(q.rec)
  BY <1>9 DEF IsNewest
<1> QED
  BY <1>1, <1>10 DEF q

\* Files that stay as they are.
LEMMA SameFilesSameOrder ==
    ASSUME UNCHANGED <<image, synced>>
    PROVE  /\ Ordered => Ordered'
           /\ Numbered => Numbered'
           /\ \A r : IsNewest(r) => IsNewest(r)'
BY DEF Ordered, InOrder, Numbered, IsNewest, SameKey, Versions

\* An open store has a file with a number.
LEMMA OpenLockedIsNumbered ==
    ASSUME TypeInv, Admissible(image)
    PROVE  image[OpenLocked.active].gen # 0
<1>1. OpenLocked.active = ActiveIn(image)
  BY DEF OpenLocked, Opened
<1>2. image[A].gen \in Nat /\ image[B].gen \in Nat
  BY Reached DEF Files
<1> QED
  BY <1>1, <1>2 DEF Admissible, ActiveIn

\* What is left to show of a step that ends with no operation under way.
LEMMA IdleIsSorted ==
    ASSUME Ordered', Numbered', op' = NoOp, store'.opened => image'[store'.active].gen # 0
    PROVE  Sorted'
BY DEF Sorted, OpenIsNumbered, TodoIsNewest, CompactAdvances, NoOp

\* Steps that touch no file and begin nothing.
LEMMA StandingIsSorted ==
    ASSUME TypeInv, Sorted, Idle, UNCHANGED <<image, synced, op>>,
           store' = store \/ (Admissible(image) /\ store' = OpenLocked) \/ store' = Closed
    PROVE  Sorted'
<1>1. Ordered' /\ Numbered' /\ op' = NoOp
  BY SameFilesSameOrder DEF Sorted, Idle
<1>2. store'.opened => image'[store'.active].gen # 0
  BY OpenLockedIsNumbered, NeverMatched DEF Sorted, OpenIsNumbered
<1> QED
  BY <1>1, <1>2, IdleIsSorted

LEMMA SavingIsSorted ==
    ASSUME TypeInv, Final, Sorted, NEW x \in Exacts, SaveShaderBlobToPack(x) \/ AppendFails(x)
    PROVE  Sorted'
<1> DEFINE r == [exact |-> x, id |-> ids + 1]
           f == ForAppend.active
<1>1. /\ Idle /\ (store.opened \/ Admissible(image))
      /\ synced' = synced /\ op' = op
  BY DEF SaveShaderBlobToPack, AppendFails, CanSave
<1>2. /\ op = NoOp /\ FilesAreSound(image, synced, erased) /\ f \in Files
      /\ Leads(image, synced, erased, f)
  BY <1>1, NothingUnderWay, ForAppendLeads
<1>3. image[f] \in Images /\ image[f].valid /\ image[f].gen # 0
  BY <1>1, <1>2, Reached, OpenLockedIsNumbered
  DEF Leads, ForAppend, Sorted, OpenIsNumbered
<1>4. r.id \in Nat /\ IsNewest(r)
  <2>1. r.id = ids + 1 /\ ids \in Nat
    BY Reached
  <2>2. \A m \in Images : \A i \in DOMAIN m.recs : m.recs[i].id <= ids
    <3> SUFFICES ASSUME NEW m \in Images, NEW i \in DOMAIN m.recs PROVE m.recs[i].id <= ids
      OBVIOUS
    <3>1. m.recs[i] \in Records
      BY DEF Images
    <3> QED
      BY <3>1 DEF Records
  <2>3. \A m \in Images : \A i \in DOMAIN m.recs : m.recs[i].id \in Nat
    BY Reached, ImagesHave
  <2>4. \A g \in Files : \A m \in Versions(image, synced, g) : m \in Images
    BY Reached DEF Versions
  <2> HIDE DEF r
  <2> QED
    BY <2>1, <2>2, <2>3, <2>4 DEF IsNewest
<1>5. PICK after : /\ image' = [image EXCEPT ![f] = after]
                   /\ after.valid = image[f].valid /\ after.gen = image[f].gen
                   /\ after.recs = image[f].recs \/ after.recs = Append(image[f].recs, r)
  BY SavingWrites
<1>6. image'[f].gen = image[f].gen
  BY <1>2, <1>5, Reached DEF FileTypes
<1> HIDE DEF r, f
<1>7. \A g \in Files : \A m \in Versions(image, synced, g) : m.valid =>
          m.gen <= image[f].gen /\ (g # f => m.gen < image[f].gen)
  <2>1. \A m \in Versions(image, synced, f) : m.valid => m.gen <= image[f].gen
    BY <1>2, LeaderIsPassed
  <2>2. \A m \in Versions(image, synced, Other(f)) : m.valid => m.gen < image[f].gen
    BY <1>2 DEF Leads
  <2>3. \A g \in Files : \A m \in Versions(image, synced, g) : m.gen \in Nat
    BY Reached DEF Versions
  <2>4. \A g \in Files : g = f \/ (g = Other(f) /\ g # f)
    BY <1>2, TwoFiles
  <2>5. image[f].gen \in Nat
    BY <1>2, Reached
  <2> TAKE g \in Files
  <2>6. CASE g = f
    BY <2>1, <2>6
  <2>7. CASE g = Other(f) /\ g # f
    BY <1>2, <2>2, <2>3, <2>5, <2>7
  <2> QED
    BY <2>4, <2>6, <2>7
<1>8. FilesGoOn(image, synced) /\ Ordered /\ Numbered
  BY <1>2 DEF FilesAreSound, Sorted
<1>9. Ordered' /\ Numbered'
  BY <1>1, <1>2, <1>3, <1>4, <1>5, <1>7, <1>8, AppendingKeepsOrder
<1>10. store' = Closed \/ store'.active = f
  <2>1. ForAppend \in Stores
    BY ForAppendIsTyped, TypeParts
  <2>2. \A rec : Index(ForAppend, rec).active = ForAppend.active
    BY <2>1 DEF Index, Stores
  <2> QED
    BY <2>2 DEF SaveShaderBlobToPack, AppendFails, f
<1> QED
  BY <1>1, <1>2, <1>3, <1>6, <1>9, <1>10, NeverMatched, IdleIsSorted

\* A compaction reads the newest of every logical key.
LEMMA BeginningIsSorted ==
    ASSUME TypeInv, Final, Built, Sorted, Compact \/ Reset
    PROVE  Sorted'
<1>1. Idle /\ UNCHANGED <<image, synced>>
  BY DEF Compact, Reset, files
<1>2. Ordered' /\ Numbered' /\ \A r : IsNewest(r) => IsNewest(r)'
  BY <1>1, SameFilesSameOrder DEF Sorted
<1>3. /\ FilesAreSound(image, synced, erased)
      /\ store.opened => Leads(image, synced, erased, store.active)
  BY <1>1, NothingUnderWay
<1>4. CASE Compact
  <2> DEFINE a == store.active
  <2>1. /\ store.opened /\ a \in Files /\ store' = store
        /\ store.liveByLogical = Opened(image, a).liveByLogical
    BY <1>1, <1>4, Reached DEF Compact, Built, IndexIsBuilt, Matches
  <2>2. op' = [kind |-> "compact", pc |-> "truncate", target |-> Other(a),
               gen |-> image[a].gen + 1, todo |-> {p.rec : p \in Live}, only |-> Staked]
    BY <1>4 DEF Compact, Rewrite
  <2>3. OpenIsNumbered' /\ CompactAdvances'
    <3>1. image[a].gen # 0
      BY <1>1, <2>1 DEF Sorted, OpenIsNumbered
    <3>2. op'.target = Other(a) /\ op'.gen = image[a].gen + 1
      BY <2>2
    <3> QED
      BY <1>1, <2>1, <3>1, <3>2, TwoFiles DEF OpenIsNumbered, CompactAdvances
  <2>4. \A l \in Logicals : store.liveByLogical[l] # None =>
            /\ IsNewest(store.liveByLogical[l].rec)
            /\ LogicalOf[store.liveByLogical[l].rec.exact] = l
    BY <1>3, <2>1, FoundIsNewest DEF Sorted
  <2>5. \A r \in op'.todo : \E l \in Logicals :
            /\ store.liveByLogical[l] # None /\ r = store.liveByLogical[l].rec
    <3>1. op'.todo = {p.rec : p \in Live}
      BY <2>2
    <3> QED
      BY <3>1 DEF Live
  <2>6. \A r \in op'.todo : r.id \in Nat
    <3>1. op' \in Operations'
      BY <1>4, StepsKeepTypes DEF Next, TypeInv
    <3>2. Records' = Records
      BY <1>4, SameIdsSameTypes DEF Compact
    <3>3. op'.todo \subseteq Records
      BY <3>1, <3>2 DEF Operations
    <3> QED
      BY <3>3, Reached DEF Records
  <2>7. \A r \in op'.todo : IsNewest(r) /\ \A q \in op'.todo : SameKey(q, r) => q = r
    <3>1. \A r \in op'.todo : IsNewest(r) /\ r = store.liveByLogical[LogicalOf[r.exact]].rec
      BY <2>4, <2>5
    <3> QED
      BY <3>1 DEF SameKey
  <2>8. TodoIsNewest'
    <3>1. \A r \in op'.todo : IsNewest(r)'
      BY <1>2, <2>7
    <3>2. \A r, q \in op'.todo : SameKey(q, r) => q.id <= r.id
      BY <2>6, <2>7
    <3> QED
      BY <3>1, <3>2 DEF TodoIsNewest, SameKey
  <2> QED
    BY <1>2, <2>3, <2>8 DEF Sorted
<1>5. CASE Reset
  <2>1. op'.kind = "barrier" /\ op'.todo = {} /\ store' = ForAppend
    BY <1>5 DEF Reset, Rewrite
  <2>2. image[ForAppend.active].gen # 0
    BY <1>1, <1>5, OpenLockedIsNumbered DEF Reset, ForAppend, Sorted, OpenIsNumbered
  <2> QED
    BY <1>1, <1>2, <2>1, <2>2 DEF Sorted, OpenIsNumbered, TodoIsNewest, CompactAdvances
<1> QED
  BY <1>4, <1>5

\* A step of a rewriting copies the next record, or none.
LEMMA RewritingKeepsSorted ==
    ASSUME TypeInv, Final, Sorted,
           Truncate \/ WriteHeader \/ FlushHeader \/ CopyRecord \/ FlushCopies
    PROVE  Sorted'
<1> DEFINE t == op.target
           o == Other(t)
<1>1. /\ ~Idle /\ t \in Files /\ o \in Files /\ o # t /\ Other(o) = t
      /\ \A f \in Files : f = t \/ f = o
      /\ \A f \in Files : \A m \in Versions(image, synced, f) : m.gen \in Nat
  BY RewritingSteps, InRewriting
<1>2. /\ OtherIsHidden /\ TargetAdvances /\ CleanupKeeps /\ FilesAreSound(image, synced, erased)
      /\ op.kind # "compact" => op.todo = {} /\ op.pc # "copy"
  BY <1>1, Rewriting
<1>3. Ordered /\ Numbered /\ OpenIsNumbered /\ TodoIsNewest /\ CompactAdvances
  BY DEF Sorted
<1>4. /\ op'.kind = op.kind /\ op'.target = t /\ op'.gen = op.gen
      /\ op'.pc # "truncate" /\ op'.pc # "idle" /\ op'.todo \subseteq op.todo
      /\ image'[o] = image[o] /\ synced'[o] = synced[o] /\ store' = store
  BY RewritingSteps
<1> HIDE DEF t, o
<1>5. OpenIsNumbered' /\ CompactAdvances'
  <2>1. store.opened /\ op.kind = "cleanup" => image'[store.active].gen # 0
    BY <1>2, <1>3, <1>4 DEF CleanupKeeps, OpenIsNumbered, o, t
  <2>2. OpenIsNumbered'
    BY <1>4, <2>1 DEF OpenIsNumbered, Idle, NoOp, At
  <2> QED
    BY <1>3, <1>4, <2>2 DEF CompactAdvances, o, t
<1>6. CASE ~CopyRecord
  <2>1. Versions(image', synced', o) = Versions(image, synced, o)
    BY <1>4 DEF Versions
  <2>2. \A m \in Versions(image', synced', t) :
            \/ DOMAIN m.recs = {} /\ (~m.valid => m.gen = 0)
            \/ m \in Versions(image, synced, t)
    <3>1. /\ DOMAIN Blank.recs = {} /\ (~Blank.valid => Blank.gen = 0)
          /\ DOMAIN Empty(op.gen).recs = {} /\ Empty(op.gen).valid
      BY DEF Blank, Empty
    <3>2. /\ image'[t] \in {Blank, Empty(op.gen), image[t]}
          /\ synced'[t] \in {synced[t], image[t]}
      <4>1. CASE Truncate \/ WriteHeader
        BY <1>1, <4>1, Reached DEF Truncate, WriteHeader, FileTypes, t
      <4>2. CASE FlushHeader \/ FlushCopies
        BY <1>1, <4>2, Reached DEF FlushHeader, FlushCopies, Flush, FileTypes, t
      <4> QED
        BY <1>6, <4>1, <4>2
    <3> QED
      BY <3>1, <3>2 DEF Versions
  <2>3. \A f \in Files : \A m \in Versions(image', synced', f) :
            \/ DOMAIN m.recs = {} /\ (~m.valid => m.gen = 0)
            \/ \E v \in Versions(image, synced, f) : Begins(m, v)
    BY <1>1, <2>1, <2>2 DEF Begins
  <2>4. Ordered' /\ Numbered' /\ \A r : IsNewest(r) => IsNewest(r)'
    BY <1>3, <2>3, ShrinkingKeepsOrder
  <2>5. TodoIsNewest'
    BY <1>3, <1>4, <2>4 DEF TodoIsNewest, SameKey
  <2> QED
    BY <1>5, <2>4, <2>5 DEF Sorted
<1>7. CASE CopyRecord
  <2>1. PICK r \in op.todo : /\ image' = [image EXCEPT ![t] = AppendTo(@, r)]
                             /\ op' = [op EXCEPT !.todo = @ \ {r}]
    BY <1>7 DEF CopyRecord, t
  <2> DEFINE after == AppendTo(image[t], r)
  <2>2. op.pc = "copy" /\ synced' = synced /\ op.kind = "compact"
    BY <1>2, <1>7 DEF CopyRecord, At
  <2>3. \A m \in Versions(image, synced, t) : m.valid /\ m.gen = op.gen
    BY <1>2, <2>2 DEF TargetAdvances, t
  <2>4. image[o].valid /\ op.gen = image[o].gen + 1
    BY <1>2, <1>3, <2>2 DEF OtherIsHidden, CompactAdvances, o, t
  <2>5. \A m \in Versions(image, synced, o) : m.valid => m.gen < op.gen
    <3>1. synced[o].valid => synced[o].gen <= image[o].gen
      BY <1>1, <1>2, <2>4 DEF FilesAreSound, FilesGoOn, Follows
    <3>2. image[o].gen \in Nat /\ synced[o].gen \in Nat
      BY <1>1 DEF Versions
    <3> QED
      BY <2>4, <3>1, <3>2 DEF Versions
  <2>6. image[t].valid /\ image[t].gen = op.gen /\ op.gen \in Nat /\ op.gen # 0
    <3>1. image[t].valid /\ image[t].gen = op.gen
      BY <2>3 DEF Versions
    <3>2. image[o].gen \in Nat
      BY <1>1 DEF Versions
    <3> QED
      BY <2>4, <3>1, <3>2
  <2>7. /\ after.valid = image[t].valid /\ after.gen = image[t].gen
        /\ after.recs = Append(image[t].recs, r)
    <3> DEFINE m == image[t]
    <3>1. m = [valid |-> m.valid, gen |-> m.gen, recs |-> m.recs, torn |-> m.torn]
      <4>1. m \in Images
        BY <1>1, Reached
      <4> HIDE DEF m
      <4> QED
        BY <4>1 DEF Images
    <3> HIDE DEF m
    <3>2. /\ AppendTo(m, r).valid = m.valid /\ AppendTo(m, r).gen = m.gen
          /\ AppendTo(m, r).recs = Append(m.recs, r)
      BY <3>1 DEF AppendTo
    <3> QED
      BY <3>2 DEF m
  <2>8. IsNewest(r) /\ r.id \in Nat
    BY <1>3, Reached DEF TodoIsNewest, Operations, Records
  <2>9. image' = [image EXCEPT ![t] = after]
    BY <2>1
  <2>10. \A g \in Files : \A m \in Versions(image, synced, g) : m.valid =>
             m.gen <= image[t].gen /\ (g # t => m.gen < image[t].gen)
    <3> TAKE g \in Files
    <3>1. CASE g = t
      BY <2>3, <2>6, <3>1
    <3>2. CASE g = o
      BY <1>1, <2>5, <2>6, <3>2
    <3> QED
      BY <1>1, <3>1, <3>2
  <2> HIDE DEF after
  <2>11. FilesGoOn(image, synced)
    BY <1>2 DEF FilesAreSound
  <2>12. /\ Ordered' /\ Numbered'
         /\ \A c : IsNewest(c) /\ (SameKey(r, c) => r.id <= c.id) => IsNewest(c)'
    BY <1>1, <1>3, <2>2, <2>6, <2>7, <2>8, <2>9, <2>10, <2>11, AppendingKeepsOrder
  <2>13. TodoIsNewest'
    BY <1>3, <1>4, <2>12 DEF TodoIsNewest, SameKey
  <2> QED
    BY <1>5, <2>12, <2>13 DEF Sorted
<1> QED
  BY <1>6, <1>7

LEMMA PowerLossIsSorted ==
    ASSUME TypeInv, Ordered, Numbered,
           NEW a \in Survivors(A), NEW b \in Survivors(B),
           image' = [f \in Files |-> IF f = A THEN a ELSE b], synced' = image'
    PROVE  Ordered' /\ Numbered'
<1>1. \A f \in Files : image'[f] \in Survivors(f) /\ Versions(image', synced', f) = {image'[f]}
  BY FilesDiffer DEF Files, Versions
<1>2. DOMAIN Blank.recs = {} /\ ~Blank.valid /\ Blank.gen = 0
  BY DEF Blank
<1>3. \A f \in Files : \A m \in Survivors(f) :
          m = Blank \/ \E v \in Versions(image, synced, f) : Begins(m, v)
  BY SurvivorsBegin
<1>4. \A f \in Files : \A m \in Versions(image', synced', f) :
          \/ DOMAIN m.recs = {} /\ (~m.valid => m.gen = 0)
          \/ \E v \in Versions(image, synced, f) : Begins(m, v)
  BY <1>1, <1>2, <1>3
<1> QED
  BY <1>4, ShrinkingKeepsOrder

LEMMA EndingIsSorted ==
    ASSUME TypeInv, Final, Sorted,
           Reopen \/ FailsBeforeMutation \/ FailsAfterMutation \/ CleanupFails
    PROVE  Sorted'
<1>1. Ordered' /\ Numbered' /\ image' = image /\ ~Idle
  <2>1. UNCHANGED <<image, synced>> /\ ~Idle
    BY AtIsBusy
    DEF Reopen, FailsBeforeMutation, FailsAfterMutation, CleanupFails, files, Idle, NoOp
  <2> QED
    BY <2>1, SameFilesSameOrder DEF Sorted
<1>2. OpenIsNumbered /\ CleanupKeeps
  BY <1>1, Rewriting DEF Sorted
<1>3. CASE Reopen
  <2>1. store' = OpenLocked /\ image'[store'.active].gen # 0
    BY <1>1, <1>3, OpenLockedIsNumbered DEF Reopen
  <2>2. CASE op.kind # "barrier"
    BY <1>1, <1>3, <2>1, <2>2, IdleIsSorted DEF Reopen
  <2>3. CASE op.kind = "barrier"
    <3>1. op'.kind = "cleanup" /\ op'.todo = {}
      BY <1>3, <2>3 DEF Reopen, Rewrite
    <3> QED
      BY <1>1, <2>1, <3>1 DEF Sorted, OpenIsNumbered, TodoIsNewest, CompactAdvances
  <2> QED
    BY <2>2, <2>3
<1>4. CASE ~Reopen
  <2>1. op' = NoOp
    BY <1>4 DEF FailsBeforeMutation, FailsAfterMutation, CleanupFails
  <2>2. store'.opened => image[store'.active].gen # 0
    <3>1. CASE store' = Closed
      BY <3>1, NeverMatched
    <3>2. CASE At("truncate") /\ store' = store
      BY <1>2, <3>2 DEF OpenIsNumbered
    <3>3. CASE CleanupFails
      <4>1. op.kind = "cleanup" /\ store' = Retained /\ Retained.active = store.active
        BY <3>3 DEF CleanupFails, Retained, Closed
      <4> QED
        BY <1>2, <4>1 DEF OpenIsNumbered, CleanupKeeps
    <3> QED
      BY <1>4, <3>1, <3>2, <3>3 DEF FailsBeforeMutation, FailsAfterMutation
  <2> QED
    BY <1>1, <2>1, <2>2, IdleIsSorted
<1> QED
  BY <1>3, <1>4

LEMMA SortedInit == Init => Sorted
<1> SUFFICES ASSUME Init PROVE Sorted
  OBVIOUS
<1>1. op = NoOp /\ ~store.opened
  BY NeverMatched DEF Init
<1>2. \A f \in Files : \A m \in Versions(image, synced, f) : m.valid /\ DOMAIN m.recs = {}
  BY DEF Init, Empty, Versions
<1>3. Ordered /\ Numbered
  BY <1>2 DEF Ordered, InOrder, Numbered
<1> QED
  BY <1>1, <1>3 DEF Sorted, OpenIsNumbered, TodoIsNewest, CompactAdvances, NoOp

LEMMA StepsKeepSorted == TypeInv /\ Final /\ Built /\ Sorted /\ [Next]_vars => Sorted'
<1> SUFFICES ASSUME TypeInv, Final, Built, Sorted, [Next]_vars PROVE Sorted'
  OBVIOUS
<1>1. CASE InitializeManagedPacks
  <2>1. Idle
    BY <1>1, Rewriting DEF InitializeManagedPacks
  <2> QED
    BY <1>1, <2>1, StandingIsSorted DEF InitializeManagedPacks, files
<1>2. CASE FinishValidation \/ LoadFails \/ AppendRefused \/ CheckpointFails \/ ResetRefused
  BY <1>2, StandingIsSorted
  DEF FinishValidation, LoadFails, AppendRefused, CheckpointFails, ResetRefused, CanSave, files
<1>3. CASE QuarantineShaderPackLane \/ UNCHANGED vars
  <2>1. UNCHANGED <<image, synced, store, op>>
    BY <1>3 DEF QuarantineShaderPackLane, vars, files
  <2>2. Ordered' /\ Numbered' /\ \A r : IsNewest(r) => IsNewest(r)'
    BY <2>1, SameFilesSameOrder DEF Sorted
  <2>3. OpenIsNumbered' /\ CompactAdvances'
    BY <2>1 DEF Sorted, OpenIsNumbered, CompactAdvances, Idle, At
  <2>4. TodoIsNewest'
    BY <2>1, <2>2 DEF Sorted, TodoIsNewest, SameKey
  <2> QED
    BY <2>2, <2>3, <2>4 DEF Sorted
<1>4. CASE \E x \in Exacts : SaveShaderBlobToPack(x) \/ AppendFails(x)
  BY <1>4, SavingIsSorted
<1>5. CASE Checkpoint
  <2>1. /\ Idle /\ store.opened /\ synced' = [synced EXCEPT ![store.active] = image[store.active]]
        /\ UNCHANGED <<image, store, op>>
    BY <1>5 DEF Checkpoint
  <2>2. \A f \in Files : Versions(image', synced', f) \subseteq Versions(image, synced, f)
    BY <2>1, Reached DEF Versions, FileTypes
  <2>3. Ordered' /\ Numbered'
    <3>1. \A f \in Files : \A m \in Versions(image', synced', f) :
              \E v \in Versions(image, synced, f) : Begins(m, v)
      BY <2>2 DEF Begins
    <3> QED
      BY <3>1, ShrinkingKeepsOrder DEF Sorted
  <2> QED
    BY <2>1, <2>3, IdleIsSorted DEF Sorted, OpenIsNumbered, Idle
<1>6. CASE Down /\ Ordered' /\ Numbered'
  BY <1>6, NeverMatched, IdleIsSorted DEF Down
<1>7. CASE ProcessEnds
  BY <1>6, <1>7, SameFilesSameOrder DEF ProcessEnds, files, Sorted
<1>8. CASE PowerLoss
  BY <1>6, <1>8, PowerLossIsSorted DEF PowerLoss, Sorted
<1> QED
  BY <1>1, <1>2, <1>3, <1>4, <1>5, <1>7, <1>8, BeginningIsSorted, RewritingKeepsSorted,
     EndingIsSorted
  DEF Next

-----------------------------------------------------------------------------
(* What a Checkpoint promises stays where a new process will look for it.  *)

Tops(f) == image[f].valid /\ (image[Other(f)].valid => image[Other(f)].gen < image[f].gen)

\* What the writer has appended is in the leading file until it is flushed.
PendingIsHeld ==
    /\ pending # {} => phase = "up" /\ (Idle \/ (op.kind = "barrier" /\ At("truncate")))
    /\ \A r \in pending :
          \E f \in Files : Tops(f) /\ \E i \in DOMAIN image[f].recs : image[f].recs[i] = r

\* From the truncation of a reset until its end there is nothing to keep.
KeptEnds ==
    (op.kind = "barrier" /\ ~At("truncate")) \/ op.kind = "cleanup" => kept = {}

\* Whatever becomes of the other file, f will be searched.
Safe(f) == \A m \in Versions(image, synced, Other(f)) : m.valid => m.gen <= image[f].gen + 1

Stands(r) == \E f \in Files : HeldDurably(r, f) /\ Safe(f)

\* What a compaction holds of r: in the other file, to copy, or copied.
Copied(r) ==
    /\ LogicalOf[r.exact] \in op.only \/ HeldDurably(r, Other(op.target))
    /\ ~At("reopen") =>
          \/ \E c \in op.todo : Supersedes(c, r)
          \/ At("copy") /\ \E i \in DOMAIN image[op.target].recs :
                               Supersedes(image[op.target].recs[i], r)
    /\ At("reopen") => HeldDurably(r, op.target)

KeptStand ==
    \A r \in kept : r.id > erased =>
        /\ Idle \/ At("truncate") => Stands(r)
        /\ op.kind = "compact" => Copied(r)

Promised == PendingIsHeld /\ KeptEnds /\ KeptStand

\* A record that is held durably is in a file that is valid now.
LEMMA HeldIsThere ==
    ASSUME TypeInv, FilesAreSound(image, synced, erased), Numbered,
           NEW r, NEW f \in Files, HeldDurably(r, f)
    PROVE  /\ image[f].valid /\ synced[f].valid /\ image[f].gen = synced[f].gen
           /\ image[f].gen # 0
           /\ \E i \in DOMAIN synced[f].recs :
                 /\ Supersedes(synced[f].recs[i], r)
                 /\ i \in DOMAIN image[f].recs /\ image[f].recs[i] = synced[f].recs[i]
<1>1. PICK i \in DOMAIN synced[f].recs : Supersedes(synced[f].recs[i], r)
  BY DEF HeldDurably
<1>2. synced[f].valid /\ synced[f].gen # 0 /\ image[f].gen = synced[f].gen
  BY <1>1 DEF HeldDurably, FilesAreSound, BlanksAreEmpty, Numbered, Versions
<1>3. image[f].valid
  BY <1>2 DEF Numbered, Versions
<1>4. i \in DOMAIN image[f].recs /\ image[f].recs[i] = synced[f].recs[i]
  BY <1>1, <1>2, <1>3 DEF FilesAreSound, FilesGoOn, Follows
<1> QED
  BY <1>1, <1>2, <1>3, <1>4

\* What stands is found, in the active file or in the one just before it.
LEMMA StandingIsFound ==
    ASSUME TypeInv, FilesAreSound(image, synced, erased), Ordered, Numbered,
           NEW a \in Files, Leads(image, synced, erased, a),
           NEW r \in Records, Stands(r)
    PROVE  LET q == Opened(image, a).liveByLogical[LogicalOf[r.exact]]
           IN LogicalOf[r.exact] \in Logicals /\ q # None /\ Supersedes(q.rec, r)
<1> DEFINE o == Other(a)
           q == Opened(image, a).liveByLogical[LogicalOf[r.exact]]
<1>1. PICK f \in Files : HeldDurably(r, f) /\ Safe(f)
  BY DEF Stands
<1>2. /\ image[f].valid /\ image[f].gen # 0
      /\ \E i \in DOMAIN image[f].recs : Supersedes(image[f].recs[i], r)
  BY <1>1, HeldIsThere
<1>3. PICK i \in DOMAIN image[f].recs : Supersedes(image[f].recs[i], r)
  BY <1>2
<1>4. o \in Files /\ Other(o) = a /\ (f = a \/ f = o)
  BY TwoFiles
<1>5. f = a \/ Continues(image, a)
  <2> SUFFICES ASSUME f = o PROVE Continues(image, a)
    BY <1>4
  <2>1. image[a].valid /\ image[o].gen < image[a].gen
    BY <1>2 DEF Leads, Versions, o
  <2>2. image[a].gen <= image[o].gen + 1
    BY <1>1, <1>4, <2>1 DEF Safe, Versions
  <2>3. image[a].gen \in Nat /\ image[o].gen \in Nat
    BY <1>4, Reached
  <2> HIDE DEF o
  <2>4. image[o].gen + 1 = image[a].gen
    BY <2>1, <2>2, <2>3
  <2> QED
    BY <1>2, <2>4 DEF Continues, o
<1> DEFINE p == [file |-> f, gen |-> image[f].gen, seq |-> i, rec |-> image[f].recs[i]]
<1>6. p \in Indexed(image, a) /\ p.rec = image[f].recs[i]
  <2>1. p \in LocationsIn(image, f)
    BY DEF LocationsIn
  <2> HIDE DEF p
  <2>2. p \in Indexed(image, a)
    BY <1>4, <1>5, <2>1 DEF Indexed
  <2> QED
    BY <2>2 DEF p
<1>7. LogicalOf[p.rec.exact] = LogicalOf[r.exact] /\ p.rec.id >= r.id
  BY <1>3, <1>6 DEF Supersedes
<1> HIDE DEF p
<1>8. /\ LogicalOf[r.exact] \in Logicals /\ q # None /\ q \in Indexed(image, a)
      /\ LogicalOf[q.rec.exact] = LogicalOf[r.exact] /\ q.rec.id >= p.rec.id
  <2> DEFINE found(l) == Opened(image, a).liveByLogical[l]
             l == LogicalOf[p.rec.exact]
  <2>1. /\ l \in Logicals /\ found(l) # None /\ found(l) \in Indexed(image, a)
        /\ LogicalOf[found(l).rec.exact] = l /\ found(l).rec.id >= p.rec.id
    BY <1>6, LookupsAreNewest
  <2>2. l = LogicalOf[r.exact]
    BY <1>7
  <2> HIDE DEF found, l
  <2>3. /\ LogicalOf[r.exact] \in Logicals
        /\ found(LogicalOf[r.exact]) # None
        /\ found(LogicalOf[r.exact]) \in Indexed(image, a)
        /\ LogicalOf[found(LogicalOf[r.exact]).rec.exact] = LogicalOf[r.exact]
        /\ found(LogicalOf[r.exact]).rec.id >= p.rec.id
    BY <2>1, <2>2
  <2> QED
    BY <2>3 DEF found
<1>9. r.id \in Nat /\ p.rec.id \in Nat /\ q.rec.id \in Nat
  <2>1. Indexed(image, a) \subseteq Locations
    BY FoundIsTyped, Reached DEF FileTypes
  <2>2. p.rec \in Records /\ q.rec \in Records
    BY <1>6, <1>8, <2>1 DEF Locations
  <2> HIDE DEF q
  <2> QED
    BY <2>2, Reached DEF Records
<1>10. Supersedes(q.rec, r)
  <2> HIDE DEF q
  <2> QED
    BY <1>7, <1>8, <1>9 DEF Supersedes
<1> QED
  BY <1>8, <1>10

\* Appending, or nothing at all, leaves what stands standing.
LEMMA AppendingLeavesStanding ==
    ASSUME synced' = synced,
           \A f \in Files : image'[f].gen = image[f].gen /\ image'[f].valid = image[f].valid
    PROVE  /\ \A r : Stands(r) => Stands(r)'
           /\ \A r, f : f \in Files /\ HeldDurably(r, f) => HeldDurably(r, f)'
<1>1. \A r, f : f \in Files /\ HeldDurably(r, f) => HeldDurably(r, f)'
  BY DEF HeldDurably, Supersedes
<1>2. \A f \in Files : Safe(f) => Safe(f)'
  BY TwoFiles DEF Safe, Versions
<1> QED
  BY <1>1, <1>2 DEF Stands

-----------------------------------------------------------------------------
(* Promised, step by step.                                                 *)

\* What is left to show of a step that ends with no operation under way.
LEMMA AtRestIsPromised ==
    ASSUME op' = NoOp, PendingIsHeld', \A r \in kept' : r.id > erased' => Stands(r)'
    PROVE  Promised'
BY DEF Promised, KeptEnds, KeptStand, NoOp

LEMMA NothingIsPending == pending' = {} => PendingIsHeld'
BY DEF PendingIsHeld

\* A file that tops the other one does so alone.
LEMMA OneTops ==
    ASSUME TypeInv, NEW f \in Files, NEW g \in Files, Tops(f), Tops(g)
    PROVE  f = g
<1> SUFFICES ASSUME g = Other(f) PROVE FALSE
  BY TwoFiles
<1>1. image[f].gen \in Nat /\ image[g].gen \in Nat /\ Other(g) = f
  BY Reached, TwoFiles
<1> QED
  BY <1>1 DEF Tops

\* Steps that touch no file and begin nothing.
LEMMA StandingIsPromised ==
    ASSUME TypeInv, Promised, Idle, UNCHANGED <<image, synced, op, kept, erased>>,
           pending' = {} \/ (pending' = pending /\ (phase' = phase \/ phase' = "up"))
    PROVE  Promised'
<1>1. PendingIsHeld'
  <2>1. PendingIsHeld /\ op' = NoOp
    BY DEF Promised, Idle
  <2> QED
    BY <2>1, NothingIsPending DEF PendingIsHeld, Tops, Idle
<1>2. \A r \in kept' : r.id > erased' => Stands(r)'
  BY AppendingLeavesStanding DEF Promised, KeptStand
<1> QED
  BY <1>1, <1>2, AtRestIsPromised DEF Idle

LEMMA SavingIsPromised ==
    ASSUME TypeInv, Final, Promised, NEW x \in Exacts, SaveShaderBlobToPack(x) \/ AppendFails(x)
    PROVE  Promised'
<1> DEFINE r == [exact |-> x, id |-> ids + 1]
<1>1. /\ Idle /\ op' = NoOp /\ phase = "up" /\ phase' = "up"
      /\ store.opened \/ Admissible(image)
      /\ UNCHANGED <<synced, kept, erased>>
      /\ pending' = pending \/ (pending' = pending \cup {r} /\ SaveShaderBlobToPack(x))
  BY DEF SaveShaderBlobToPack, AppendFails, CanSave, lane, promises, Idle
<1>2. PICK f \in Files : f = ForAppend.active
  BY <1>1, ForAppendLeads
<1>3. PICK o \in Files : o = Other(f)
  BY TwoFiles
<1>4. Leads(image, synced, erased, f) /\ o # f /\ \A g \in Files : g = f \/ g = o
  BY <1>2, <1>3, <1>1, ForAppendLeads, TwoFiles
<1>5. PICK after : /\ image' = [image EXCEPT ![f] = after]
                   /\ after.valid = image[f].valid /\ after.gen = image[f].gen
                   /\ after.recs = image[f].recs \/ after.recs = Append(image[f].recs, r)
  BY <1>2, SavingWrites
<1>6. image'[f] = after /\ image'[o] = image[o]
  BY <1>4, <1>5, Reached DEF FileTypes
<1>7. SaveShaderBlobToPack(x) => after.recs = Append(image[f].recs, r)
  <2> SUFFICES ASSUME SaveShaderBlobToPack(x) PROVE after.recs = Append(image[f].recs, r)
    OBVIOUS
  <2>1. image' = [image EXCEPT ![f] = AppendTo(@, r)]
    BY <1>2 DEF SaveShaderBlobToPack
  <2>2. after = AppendTo(image[f], r)
    BY <1>4, <1>6, <2>1, Reached DEF FileTypes
  <2>3. image[f] \in Images
    BY <1>4, Reached
  <2> HIDE DEF r
  <2> QED
    BY <2>2, <2>3 DEF AppendTo, Images
<1>8. /\ \A i \in DOMAIN image[f].recs : i \in DOMAIN after.recs /\ after.recs[i] = image[f].recs[i]
      /\ SaveShaderBlobToPack(x) => \E i \in DOMAIN after.recs : after.recs[i] = r
  <2> DEFINE recs == image[f].recs
  <2>1. recs \in Seq(Records)
    BY <1>4, Reached DEF Images
  <2>2. after.recs = recs \/ after.recs = Append(recs, r)
    BY <1>5
  <2>3. SaveShaderBlobToPack(x) => after.recs = Append(recs, r)
    BY <1>7
  <2> HIDE DEF recs, r
  <2>4. /\ DOMAIN Append(recs, r) = 1 .. Len(recs) + 1
        /\ DOMAIN recs = 1 .. Len(recs) /\ Len(recs) \in Nat
        /\ \A i \in 1 .. Len(recs) : Append(recs, r)[i] = recs[i]
        /\ Append(recs, r)[Len(recs) + 1] = r
    BY <2>1, AppendProperties
  <2>5. Len(recs) + 1 \in DOMAIN Append(recs, r)
    BY <2>4
  <2>6. \A i \in DOMAIN recs : i \in DOMAIN Append(recs, r)
    BY <2>4
  <2>7. \A i \in DOMAIN recs : i \in DOMAIN after.recs /\ after.recs[i] = recs[i]
    BY <2>2, <2>4, <2>6
  <2>8. SaveShaderBlobToPack(x) => \E i \in DOMAIN after.recs : after.recs[i] = r
    BY <2>3, <2>4, <2>5
  <2> USE DEF recs, r
  <2> QED
    BY <2>7, <2>8
<1> HIDE DEF r
<1>9. Tops(f) /\ Tops(f)'
  BY <1>3, <1>4, <1>5, <1>6 DEF Leads, Tops, Versions
<1>10. PendingIsHeld'
  <2>1. \A q \in pending : \E i \in DOMAIN image[f].recs : image[f].recs[i] = q
    BY <1>4, <1>9, OneTops DEF Promised, PendingIsHeld
  <2>2. \A q \in pending : \E i \in DOMAIN after.recs : after.recs[i] = q
    BY <1>8, <2>1
  <2>3. \A q \in pending' : \E i \in DOMAIN image'[f].recs : image'[f].recs[i] = q
    BY <1>1, <1>6, <1>8, <2>2
  <2> QED
    BY <1>1, <1>4, <1>9, <2>3 DEF PendingIsHeld, Idle
<1>11. \A q \in kept' : q.id > erased' => Stands(q)'
  <2>1. \A g \in Files : image'[g].gen = image[g].gen /\ image'[g].valid = image[g].valid
    BY <1>4, <1>5, <1>6
  <2> QED
    BY <1>1, <2>1, AppendingLeavesStanding DEF Promised, KeptStand
<1> QED
  BY <1>1, <1>10, <1>11, AtRestIsPromised

\* From here on the writer counts on what it has flushed.
LEMMA CheckpointIsPromised ==
    ASSUME TypeInv, Final, Sorted, Promised, Checkpoint
    PROVE  Promised'
<1>1. /\ Idle /\ op' = NoOp /\ UNCHANGED <<image, erased>> /\ pending' = {}
      /\ kept' = kept \cup pending
      /\ store.opened
      /\ synced' = [synced EXCEPT ![store.active] = image[store.active]]
  BY DEF Checkpoint, Idle
<1>2. PICK a \in Files : a = store.active
  BY Reached
<1>3. PICK o \in Files : o = Other(a)
  BY TwoFiles
<1>4. /\ o # a /\ Other(o) = a /\ \A g \in Files : g = a \/ g = o
      /\ image[a].gen \in Nat /\ image[o].gen \in Nat /\ synced[o].gen \in Nat
  BY <1>3, Reached, TwoFiles
<1>5. FilesAreSound(image, synced, erased) /\ Leads(image, synced, erased, a) /\ Numbered
  BY <1>1, <1>2, NothingUnderWay DEF Sorted
<1>6. synced'[a] = image[a] /\ synced'[o] = synced[o]
  BY <1>1, <1>4, <1>2, Reached DEF FileTypes
<1>7. Tops(a)
  BY <1>5 DEF Leads, Tops, Versions
<1>8. Safe(a)'
  <2>1. \A m \in {image[o], synced[o]} : m.valid => m.gen < image[a].gen
    BY <1>5, <1>3 DEF Leads, Versions
  <2>2. \A m \in {image[o], synced[o]} : m.valid => m.gen <= image[a].gen + 1
    BY <1>4, <2>1
  <2> QED
    BY <1>1, <1>6, <1>3, <2>2 DEF Safe, Versions
<1>9. ASSUME NEW r \in pending PROVE Stands(r)'
  <2>1. PICK i \in DOMAIN image[a].recs : image[a].recs[i] = r
    BY <1>4, <1>7, OneTops DEF Promised, PendingIsHeld
  <2>2. r.id \in Nat
    BY Reached DEF PromiseTypes, Records
  <2>3. Supersedes(synced'[a].recs[i], r)
    BY <1>6, <2>1, <2>2 DEF Supersedes
  <2>4. HeldDurably(r, a)'
    BY <1>1, <1>6, <2>1, <2>3 DEF HeldDurably, Supersedes
  <2> QED
    BY <1>4, <1>8, <2>4 DEF Stands
<1>10. ASSUME NEW r, Stands(r) PROVE Stands(r)'
  <2>1. PICK f \in Files : HeldDurably(r, f) /\ Safe(f)
    BY <1>10 DEF Stands
  <2>2. CASE f = a
    <3>1. PICK i \in DOMAIN image[a].recs : Supersedes(image[a].recs[i], r)
      BY <1>5, <2>1, <2>2, HeldIsThere
    <3>2. HeldDurably(r, a)'
      BY <1>1, <1>6, <3>1 DEF HeldDurably, Supersedes
    <3> QED
      BY <1>4, <1>8, <3>2 DEF Stands
  <2>3. CASE f = o
    <3>1. HeldDurably(r, o)'
      BY <1>1, <1>6, <2>1, <2>3 DEF HeldDurably, Supersedes
    <3>2. Safe(o)'
      BY <1>1, <1>4, <1>6, <2>1, <2>3 DEF Safe, Versions
    <3> QED
      BY <1>4, <3>1, <3>2 DEF Stands
  <2> QED
    BY <1>4, <2>2, <2>3
<1>11. \A r \in kept' : r.id > erased' => Stands(r)'
  BY <1>1, <1>9, <1>10 DEF Promised, KeptStand
<1> QED
  BY <1>1, <1>11, NothingIsPending, AtRestIsPromised

LEMMA BeginningIsPromised ==
    ASSUME TypeInv, Final, Built, Sorted, Promised, Compact \/ Reset
    PROVE  Promised'
<1>1. Idle /\ UNCHANGED <<image, synced, phase, pending, kept, erased>>
  BY DEF Compact, Reset, files, lane, promises
<1>2. \A r \in kept : r.id > erased => Stands(r) /\ Stands(r)'
  BY <1>1, AppendingLeavesStanding DEF Promised, KeptStand
<1>3. CASE Compact
  <2>1. PICK a \in Files : a = store.active
    BY Reached
  <2>2. PICK t \in Files : t = Other(a)
    BY TwoFiles
  <2>3. /\ Other(t) = a /\ Leads(image, synced, erased, a)
        /\ FilesAreSound(image, synced, erased)
        /\ store.liveByLogical = Opened(image, a).liveByLogical
    BY <1>1, <1>3, <2>1, <2>2, NothingUnderWay, TwoFiles
    DEF Compact, Built, IndexIsBuilt, Matches
  <2>4. op' = [kind |-> "compact", pc |-> "truncate", target |-> t,
               gen |-> image[a].gen + 1, todo |-> {p.rec : p \in Live}, only |-> Staked]
    BY <1>3, <2>1, <2>2 DEF Compact, Rewrite
  <2>5. /\ op'.kind = "compact" /\ op'.pc = "truncate" /\ op'.target = t
        /\ op'.todo = {p.rec : p \in Live} /\ op'.only = Staked
    BY <2>4
  <2>6. ASSUME NEW r \in kept, r.id > erased PROVE Copied(r)'
    <3>1. LogicalOf[r.exact] \in op'.only \/ HeldDurably(r, a)'
      <4>1. LogicalOf[r.exact] \in Staked \/ HeldDurably(r, a)
        BY <2>1 DEF Staked
      <4> QED
        BY <1>1, <2>5, <4>1 DEF HeldDurably, Supersedes
    <3>2. \E c \in op'.todo : Supersedes(c, r)
      <4> DEFINE q == store.liveByLogical[LogicalOf[r.exact]]
      <4>1. LogicalOf[r.exact] \in Logicals /\ q # None /\ Supersedes(q.rec, r)
        BY <1>2, <2>3, <2>6, Reached, StandingIsFound DEF Sorted, PromiseTypes
      <4>2. q.rec \in op'.todo
        BY <2>5, <4>1 DEF Live
      <4> QED
        BY <4>1, <4>2
    <3>3. \E c \in op'.todo : Supersedes(c, r)'
      BY <3>2 DEF Supersedes
    <3> QED
      BY <2>3, <2>5, <3>1, <3>3 DEF Copied, At
  <2>7. PendingIsHeld'
    BY <1>1, <1>3 DEF Promised, PendingIsHeld, Compact
  <2> QED
    BY <1>1, <1>2, <2>5, <2>6, <2>7 DEF Promised, KeptEnds, KeptStand
<1>4. CASE Reset
  <2>1. op'.kind = "barrier" /\ op'.pc = "truncate" /\ phase = "up"
    BY <1>4 DEF Reset, Rewrite
  <2>2. PendingIsHeld'
    BY <1>1, <2>1 DEF Promised, PendingIsHeld, Tops, At
  <2> QED
    BY <1>1, <1>2, <2>1, <2>2 DEF Promised, KeptEnds, KeptStand, At
<1> QED
  BY <1>3, <1>4

\* A reset and its clean-up have nothing to keep.
LEMMA ResetsKeepNothing ==
    ASSUME TypeInv, Final, Promised, ~Idle, op.kind # "compact",
           op.kind = "barrier" => ~At("truncate")
    PROVE  kept = {} /\ pending = {}
<1>1. op.kind \in {"barrier", "cleanup"}
  BY Reached, Rewriting DEF Operations
<1> QED
  BY <1>1 DEF Promised, KeptEnds, PendingIsHeld

LEMMA RewritingIsPromised ==
    ASSUME TypeInv, Final, Promised,
           Truncate \/ WriteHeader \/ FlushHeader \/ CopyRecord \/ FlushCopies
    PROVE  Promised'
<1>1. /\ ~Idle /\ op'.kind = op.kind /\ op'.only = op.only
      /\ op'.pc # "truncate" /\ op'.pc # "idle"
  BY RewritingSteps
<1>2. CASE kept' = {} /\ pending' = {}
  BY <1>2, NothingIsPending DEF Promised, KeptEnds, KeptStand
<1>3. CASE op.kind # "compact"
  <2>1. CASE op.kind = "barrier" /\ At("truncate")
    <3>1. Truncate
      BY <2>1 DEF At, WriteHeader, FlushHeader, CopyRecord, FlushCopies
    <3> QED
      BY <1>2, <2>1, <3>1 DEF Truncate
  <2>2. CASE ~(op.kind = "barrier" /\ At("truncate"))
    <3>1. kept = {} /\ pending = {}
      BY <1>1, <1>3, <2>2, ResetsKeepNothing
    <3>2. kept' = {} /\ pending' = {}
      BY <3>1 DEF Truncate, WriteHeader, FlushHeader, CopyRecord, FlushCopies, promises
    <3> QED
      BY <1>2, <3>2
  <2> QED
    BY <2>1, <2>2
<1>4. CASE op.kind = "compact"
  <2>1. PICK t \in Files : t = op.target
    BY Reached
  <2>2. PICK o \in Files : o = Other(t)
    BY TwoFiles
  <2>3. /\ op'.target = t /\ image'[o] = image[o] /\ synced'[o] = synced[o]
        /\ pending' = {} /\ kept' = kept /\ erased' = erased
    <3>1. pending = {}
      BY <1>1, <1>4 DEF Promised, PendingIsHeld
    <3>2. pending' = pending /\ kept' = kept /\ erased' = erased
      BY <1>4 DEF Truncate, WriteHeader, FlushHeader, CopyRecord, FlushCopies, promises
    <3> QED
      BY <2>1, <2>2, <3>1, <3>2, RewritingSteps
  <2>4. ASSUME NEW r \in kept, r.id > erased PROVE Copied(r)'
    <3>1. Copied(r)
      BY <1>4, <2>4 DEF Promised, KeptStand
    <3>2. LogicalOf[r.exact] \in op'.only \/ HeldDurably(r, o)'
      <4>1. LogicalOf[r.exact] \in op.only \/ HeldDurably(r, o)
        BY <2>1, <2>2, <3>1 DEF Copied
      <4> QED
        BY <1>1, <2>3, <4>1 DEF HeldDurably, Supersedes
    <3>3. CASE Truncate \/ WriteHeader \/ FlushHeader
      <4>1. ~At("reopen") /\ ~At("copy") /\ op'.pc # "reopen" /\ op'.todo = op.todo
        BY <1>4, <3>3, GoingSomewhere, Reached DEF At, Truncate, WriteHeader, FlushHeader
      <4>2. \E c \in op'.todo : Supersedes(c, r)'
        BY <3>1, <4>1 DEF Copied, Supersedes
      <4> QED
        BY <2>2, <2>3, <3>2, <4>1, <4>2 DEF Copied, At
    <3>4. CASE CopyRecord
      <4>1. PICK c \in op.todo : /\ image' = [image EXCEPT ![t] = AppendTo(@, c)]
                                 /\ op' = [op EXCEPT !.todo = @ \ {c}]
        BY <2>1, <3>4 DEF CopyRecord
      <4>2. op.pc = "copy" /\ op'.pc = "copy" /\ op'.todo = op.todo \ {c}
        BY <3>4, <4>1, Reached DEF CopyRecord, At, Operations
      <4>3. image'[t].recs = Append(image[t].recs, c)
        <5> DEFINE m == image[t]
        <5>1. m \in Images
          BY Reached
        <5>2. image'[t] = AppendTo(m, c)
          BY <4>1, Reached DEF FileTypes
        <5> HIDE DEF m
        <5>3. AppendTo(m, c).recs = Append(m.recs, c)
          BY <5>1 DEF AppendTo, Images
        <5> QED
          BY <5>2, <5>3 DEF m
      <4>4. /\ \E i \in DOMAIN image'[t].recs : image'[t].recs[i] = c
            /\ \A i \in DOMAIN image[t].recs :
                  i \in DOMAIN image'[t].recs /\ image'[t].recs[i] = image[t].recs[i]
        <5> DEFINE recs == image[t].recs
                   new == image'[t].recs
        <5>1. recs \in Seq(Records)
          BY Reached DEF Images
        <5>2. new = Append(recs, c)
          BY <4>3
        <5> HIDE DEF recs, new
        <5>3. /\ DOMAIN recs = 1 .. Len(recs) /\ Len(recs) \in Nat
              /\ DOMAIN Append(recs, c) = 1 .. Len(recs) + 1
              /\ \A i \in 1 .. Len(recs) : Append(recs, c)[i] = recs[i]
              /\ Append(recs, c)[Len(recs) + 1] = c
          BY <5>1, AppendProperties
        <5>4. Len(recs) + 1 \in DOMAIN new /\ new[Len(recs) + 1] = c
          BY <5>2, <5>3
        <5>5. \A i \in DOMAIN recs : i \in DOMAIN new /\ new[i] = recs[i]
          BY <5>2, <5>3
        <5>6. \E i \in DOMAIN new : new[i] = c
          BY <5>4
        <5> USE DEF recs, new
        <5> QED
          BY <5>5, <5>6
      <4>5. \/ \E b \in op'.todo : Supersedes(b, r)
            \/ \E i \in DOMAIN image'[t].recs : Supersedes(image'[t].recs[i], r)
        <5>1. \/ \E b \in op.todo : Supersedes(b, r)
              \/ \E i \in DOMAIN image[t].recs : Supersedes(image[t].recs[i], r)
          BY <2>1, <3>1, <4>2 DEF Copied, At
        <5> QED
          BY <4>2, <4>4, <5>1
      <4>6. \/ \E b \in op'.todo : Supersedes(b, r)'
            \/ \E i \in DOMAIN image'[t].recs : Supersedes(image[t].recs[i], r)'
        BY <4>5 DEF Supersedes
      <4> QED
        BY <2>2, <2>3, <3>2, <4>2, <4>6 DEF Copied, At
    <3>5. CASE FlushCopies
      <4>1. /\ op.pc = "copy" /\ op'.pc = "reopen" /\ op.todo = {}
            /\ image' = image /\ synced'[t] = image[t]
        BY <2>1, <3>5, GoingSomewhere, Reached DEF FlushCopies, Flush, At, FileTypes
      <4>2. \E i \in DOMAIN image[t].recs : Supersedes(image[t].recs[i], r)
        BY <2>1, <3>1, <4>1 DEF Copied, At
      <4>3. HeldDurably(r, t)'
        BY <4>1, <4>2 DEF HeldDurably, Supersedes
      <4> QED
        BY <2>2, <2>3, <3>2, <4>1, <4>3 DEF Copied, At
    <3> QED
      BY <3>3, <3>4, <3>5
  <2> QED
    BY <1>1, <1>4, <2>3, <2>4, NothingIsPending DEF Promised, KeptEnds, KeptStand, Idle, NoOp, At
<1> QED
  BY <1>3, <1>4

\* Wherever it is cut short, what a rewriting does not give up stands.
LEMMA CutShortStands ==
    ASSUME TypeInv, Final, Sorted, Promised,
           NEW r \in kept, r.id > erased, LogicalOf[r.exact] \notin op.only
    PROVE  Stands(r)
<1>1. CASE Idle \/ At("truncate")
  BY <1>1 DEF Promised, KeptStand
<1>2. CASE ~Idle /\ ~At("truncate")
  <2>1. op.kind = "compact"
    BY <1>2, ResetsKeepNothing
  <2> DEFINE t == op.target
             o == Other(t)
  <2>2. /\ t \in Files /\ o \in Files /\ Other(o) = t
        /\ \A f \in Files : \A m \in Versions(image, synced, f) : m.gen \in Nat
    BY <1>2, InRewriting
  <2>3. HeldDurably(r, o)
    BY <2>1 DEF Promised, KeptStand, Copied
  <2>4. op.gen = image[o].gen + 1 /\ TargetAdvances
    BY <1>2, <2>1, Rewriting DEF Sorted, CompactAdvances
  <2>5. \A m \in Versions(image, synced, t) : m.valid => m.gen <= op.gen
    <3>1. op.gen \in Nat /\ Empty(op.gen).gen = op.gen
      BY Reached DEF Empty
    <3>2. op.pc \in {"header", "flush", "copy", "reopen"}
      BY <1>2, Rewriting, Reached DEF Operations, At
    <3> HIDE DEF o
    <3> QED
      BY <2>2, <2>4, <3>1, <3>2 DEF TargetAdvances, Versions
  <2>6. Safe(o)
    BY <2>2, <2>4, <2>5 DEF Safe
  <2> QED
    BY <2>2, <2>3, <2>6 DEF Stands
<1> QED
  BY <1>1, <1>2

LEMMA EndingIsPromised ==
    ASSUME TypeInv, Final, Sorted, Promised,
           Reopen \/ FailsBeforeMutation \/ FailsAfterMutation \/ CleanupFails
    PROVE  Promised'
<1>1. /\ ~Idle /\ UNCHANGED <<image, synced, pending, phase, erased>> /\ kept' \subseteq kept
  BY AtIsBusy
  DEF Reopen, FailsBeforeMutation, FailsAfterMutation, CleanupFails, files, promises, Abandon,
      Idle, NoOp
<1>2. \A r : Stands(r) => Stands(r)'
  BY <1>1, AppendingLeavesStanding
<1>3. CASE kept = {} /\ pending = {}
  <2>1. kept' = {} /\ pending' = {}
    BY <1>1, <1>3
  <2> QED
    BY <2>1, NothingIsPending DEF Promised, KeptEnds, KeptStand
<1>4. CASE op' = NoOp /\ \A r \in kept' : r.id > erased => Stands(r)
  <2>1. PendingIsHeld'
    BY <1>1, <1>4 DEF Promised, PendingIsHeld, Tops, Idle
  <2> QED
    BY <1>1, <1>2, <1>4, <2>1, AtRestIsPromised
<1>5. CASE Reopen
  <2>1. At("reopen") /\ ~At("truncate")
    BY <1>5 DEF Reopen, At
  <2>2. CASE op.kind # "compact"
    BY <1>1, <1>3, <2>1, <2>2, ResetsKeepNothing
  <2>3. CASE op.kind = "compact"
    <3> DEFINE t == op.target
               o == Other(t)
    <3>1. /\ t \in Files /\ o \in Files /\ FilesAreSound(image, synced, erased)
          /\ \A f \in Files : \A m \in Versions(image, synced, f) : m.gen \in Nat
      BY <1>1, InRewriting, Rewriting
    <3>2. op.gen = image[o].gen + 1 /\ TargetAdvances /\ image[o].valid
      BY <1>1, <2>3, Rewriting DEF Sorted, CompactAdvances, OtherIsHidden
    <3>3. image[t].gen = op.gen
      BY <2>1, <3>2 DEF TargetAdvances, Versions, At
    <3>4. synced[o].valid => synced[o].gen <= image[o].gen
      BY <3>1, <3>2 DEF FilesAreSound, FilesGoOn, Follows
    <3>5. image[o].gen \in Nat /\ synced[o].gen \in Nat
      BY <3>1 DEF Versions
    <3>6. Safe(t)
      <4>1. \A m \in {image[o], synced[o]} : m.valid => m.gen <= image[t].gen + 1
        <5> HIDE DEF o, t
        <5> QED
          BY <3>2, <3>3, <3>4, <3>5
      <4> QED
        BY <4>1 DEF Safe, Versions
    <3>7. \A r \in kept : r.id > erased => HeldDurably(r, t)
      BY <2>1, <2>3 DEF Promised, KeptStand, Copied
    <3>8. \A r \in kept' : r.id > erased => Stands(r)
      BY <1>1, <3>1, <3>6, <3>7 DEF Stands
    <3>9. op' = NoOp
      BY <1>5, <2>3 DEF Reopen
    <3> QED
      BY <1>4, <3>8, <3>9
  <2> QED
    BY <2>2, <2>3
<1>6. CASE FailsBeforeMutation
  <2>1. op' = NoOp /\ At("truncate")
    BY <1>6 DEF FailsBeforeMutation
  <2> QED
    BY <1>1, <1>4, <2>1 DEF Promised, KeptStand
<1>7. CASE FailsAfterMutation
  <2>1. op' = NoOp /\ kept' = {r \in kept : LogicalOf[r.exact] \notin op.only}
    BY <1>7 DEF FailsAfterMutation, Abandon
  <2> QED
    BY <1>4, <2>1, CutShortStands
<1>8. CASE CleanupFails
  <2>1. op.kind = "cleanup"
    BY <1>8 DEF CleanupFails
  <2> QED
    BY <1>1, <1>3, <2>1, ResetsKeepNothing
<1> QED
  BY <1>5, <1>6, <1>7, <1>8

\* What stands is among what a power loss leaves.
LEMMA PowerLossLeavesStanding ==
    ASSUME TypeInv, FilesAreSound(image, synced, erased), Numbered,
           NEW a \in Survivors(A), NEW b \in Survivors(B),
           image' = [f \in Files |-> IF f = A THEN a ELSE b], synced' = image',
           NEW r, Stands(r)
    PROVE  Stands(r)'
<1>1. \A f \in Files : image'[f] \in Survivors(f)
  BY FilesDiffer DEF Files
<1>2. PICK f \in Files : HeldDurably(r, f) /\ Safe(f)
  BY DEF Stands
<1>3. PICK o \in Files : o = Other(f)
  BY TwoFiles
<1>4. /\ image[f].valid /\ synced[f].valid /\ image[f].gen = synced[f].gen
      /\ \E i \in DOMAIN synced[f].recs : Supersedes(synced[f].recs[i], r)
  BY <1>2, HeldIsThere
<1>5. PICK i \in DOMAIN synced[f].recs : Supersedes(synced[f].recs[i], r)
  BY <1>4
<1>6. FilesGoOn(image, synced)
  BY DEF FilesAreSound
<1>7. /\ image'[f].gen = synced[f].gen
      /\ i \in DOMAIN image'[f].recs /\ image'[f].recs[i] = synced[f].recs[i]
  BY <1>1, <1>4, <1>6, SurvivorsBegin
<1>8. HeldDurably(r, f)'
  BY <1>5, <1>7 DEF HeldDurably, Supersedes
<1>9. image'[o].valid => image'[o].gen <= image'[f].gen + 1
  <2>1. image'[o] = Blank \/ \E v \in Versions(image, synced, o) : Begins(image'[o], v)
    BY <1>1, SurvivorsBegin
  <2>2. ~Blank.valid
    BY DEF Blank
  <2> QED
    BY <1>2, <1>3, <1>4, <1>7, <2>1, <2>2 DEF Safe, Begins
<1>10. Safe(f)'
  BY <1>3, <1>9 DEF Safe, Versions
<1> QED
  BY <1>2, <1>8, <1>10 DEF Stands

LEMMA StepsKeepPromised == TypeInv /\ Final /\ Built /\ Sorted /\ Promised /\ [Next]_vars => Promised'
<1> SUFFICES ASSUME TypeInv, Final, Built, Sorted, Promised, [Next]_vars PROVE Promised'
  OBVIOUS
<1>1. CASE InitializeManagedPacks
  <2>1. Idle /\ pending = {}
    BY <1>1, Rewriting DEF InitializeManagedPacks, Promised, PendingIsHeld
  <2> QED
    BY <1>1, <2>1, StandingIsPromised DEF InitializeManagedPacks, files, promises
<1>2. CASE FinishValidation \/ LoadFails \/ AppendRefused \/ CheckpointFails \/ ResetRefused
  BY <1>2, StandingIsPromised
  DEF FinishValidation, LoadFails, AppendRefused, CheckpointFails, ResetRefused, CanSave,
      files, promises
<1>3. CASE QuarantineShaderPackLane \/ UNCHANGED vars
  <2>1. UNCHANGED <<image, synced, op, phase, pending, kept, erased>>
    BY <1>3 DEF QuarantineShaderPackLane, vars, files, lane, promises
  <2>2. PendingIsHeld' /\ KeptEnds'
    BY <2>1 DEF Promised, PendingIsHeld, KeptEnds, Tops, Idle, At
  <2>3. \A r : (Stands(r) => Stands(r)') /\ (Copied(r) => Copied(r)')
    BY <2>1, AppendingLeavesStanding DEF Copied, At, HeldDurably, Supersedes
  <2>4. KeptStand'
    BY <2>1, <2>3 DEF Promised, KeptStand, Idle, At
  <2> QED
    BY <2>2, <2>4 DEF Promised
<1>4. CASE \E x \in Exacts : SaveShaderBlobToPack(x) \/ AppendFails(x)
  BY <1>4, SavingIsPromised
<1>5. CASE Down /\ UNCHANGED erased /\ \A r : Stands(r) => Stands(r)'
  <2>1. op' = NoOp /\ pending' = {}
        /\ kept' = {r \in kept : LogicalOf[r.exact] \notin op.only}
    BY <1>5 DEF Down, Abandon
  <2>2. \A r \in kept' : r.id > erased' => Stands(r)'
    BY <1>5, <2>1, CutShortStands
  <2> QED
    BY <2>1, <2>2, NothingIsPending, AtRestIsPromised
<1>6. CASE ProcessEnds
  BY <1>5, <1>6, AppendingLeavesStanding DEF ProcessEnds, files
<1>7. CASE PowerLoss
  <2>1. FilesAreSound(image, synced, erased) /\ Numbered
    BY DEF Final, Sorted
  <2> QED
    BY <1>5, <1>7, <2>1, PowerLossLeavesStanding DEF PowerLoss
<1> QED
  BY <1>1, <1>2, <1>3, <1>4, <1>6, <1>7, CheckpointIsPromised, BeginningIsPromised,
     RewritingIsPromised, EndingIsPromised
  DEF Next

\* A record that a Checkpoint reported as durable, or a newer one of its logical
\* key, is found whenever the lane is open: after any appends, compactions and
\* resets, whatever failed in them, and whatever has died or lost power since.
THEOREM CheckpointsAreKept == Spec => []CheckpointedRecordsSurvive
<1>1. Init => Promised
  BY NeverMatched DEF Init, Promised, PendingIsHeld, KeptEnds, KeptStand, NoOp
<1>2. TypeInv /\ Final /\ Built /\ Sorted /\ Promised => CheckpointedRecordsSurvive
  <2> SUFFICES ASSUME TypeInv, Final, Built, Sorted, Promised, store.opened, Idle,
                      NEW r \in kept, r.id > erased
               PROVE  LET live == store.liveByLogical[LogicalOf[r.exact]]
                      IN live # None /\ live.rec.id >= r.id
    BY DEF CheckpointedRecordsSurvive
  <2>1. Stands(r) /\ r \in Records /\ Ordered /\ Numbered
    BY Reached DEF Promised, KeptStand, PromiseTypes, Sorted
  <2>2. /\ FilesAreSound(image, synced, erased) /\ store.active \in Files
        /\ Leads(image, synced, erased, store.active)
        /\ store.liveByLogical = Opened(image, store.active).liveByLogical
    BY NothingUnderWay, Reached DEF Built, IndexIsBuilt, Matches
  <2> DEFINE q == Opened(image, store.active).liveByLogical[LogicalOf[r.exact]]
  <2>3. q # None /\ Supersedes(q.rec, r)
    BY <2>1, <2>2, StandingIsFound
  <2> HIDE DEF q
  <2>4. q # None /\ q.rec.id >= r.id
    BY <2>3 DEF Supersedes
  <2> QED
    BY <2>2, <2>4 DEF q
<1> QED
  BY <1>1, <1>2, BuiltInit, TypeInit, StepsKeepTypes, FinalInit, StepsKeepFinal, StepsKeepBuilt,
     SortedInit, StepsKeepSorted, StepsKeepPromised, PTL
  DEF Spec
=============================================================================
