------------------------- MODULE ShaderClaimsProofs -------------------------
(***************************************************************************)
(* No claim is orphaned, nothing stale is published, no key is compiled    *)
(* twice at a time and no shader is lost to an eviction, for any number of *)
(* workers, keys and descriptors and any sequence of clears and edits.     *)
(***************************************************************************)
EXTENDS ShaderClaims, TLAPS

\* No generation is ahead of the live one: after a bump nothing is current.
GenerationsArePast ==
    /\ \A a \in Threads : th[a].gen <= live
    /\ \A k \in Keys : map[k].gen <= live
    /\ \A t \in Tasks : taskGen[t] <= live

\* A result about to be published in the live generation is of a source at
\* least as new as the last edit dealt with.
CurrentWorkIsFresh ==
    NamedForType => \A a \in Threads :
        th[a].pc = "publishing" /\ th[a].gen = live /\ th[a].src # Nothing
            => th[a].src >= seen

IInv ==
    /\ TypeOK
    /\ PendingHasOwner
    /\ GenerationsArePast
    /\ CurrentWorkIsFresh
    /\ StaleCompilesAreDiscarded
-----------------------------------------------------------------------------
(* What a step does to the threads.                                        *)

ThreadRule(threads, a) ==
    /\ threads[a].pc \in CompilePlaces \cup TaskPlaces => threads[a].task \in Tasks
    /\ a = Main => threads[a].pc \notin TaskPlaces /\ threads[a].next # "completing"

Lawful(threads) ==
    /\ threads \in [Threads -> ThreadType]
    /\ \A a \in Threads : ThreadRule(threads, a)

\* A thread is left alone, or woken from the wait for a key.
AloneOrWoken(threads, b) ==
    \/ threads[b] = th[b]
    \/ th[b].pc = "waiting" /\ threads[b] = [th[b] EXCEPT !.pc = "claiming"]

\* A thread at rest has the type of a thread.
LEMMA RestingIsLawful == Resting \in ThreadType
BY BoundIsNatural DEF Resting, ThreadType, Places, SomeTask, Versions, Nothing

\* A moved thread is where it was sent to, the others where they were.
LEMMA MovedShape ==
    ASSUME NEW f \in [Threads -> ThreadType], NEW a \in Threads, NEW where \in Places
    PROVE  /\ Moved(f, a, where) \in [Threads -> ThreadType]
           /\ where = "idle" => Moved(f, a, where)[a] = Resting
           /\ where # "idle" => Moved(f, a, where)[a] = [f[a] EXCEPT !.pc = where]
           /\ \A b \in Threads \ {a} : Moved(f, a, where)[b] = f[b]
<1>1. [f[a] EXCEPT !.pc = where] \in ThreadType
  BY DEF ThreadType
<1> QED BY <1>1, RestingIsLawful DEF Moved

\* A notification sends the waiting threads back to their claim and moves no other.
LEMMA NotifiedShape ==
    ASSUME NEW f \in [Threads -> ThreadType]
    PROVE  /\ Notified(f) \in [Threads -> ThreadType]
           /\ \A b \in Threads :
                /\ f[b].pc = "waiting" => Notified(f)[b] = [f[b] EXCEPT !.pc = "claiming"]
                /\ f[b].pc # "waiting" => Notified(f)[b] = f[b]
<1>1. \A b \in Threads : [f[b] EXCEPT !.pc = "claiming"] \in ThreadType
  BY DEF ThreadType, Places, CompilePlaces
<1> QED BY <1>1 DEF Notified

\* TypeOK says of the threads what Lawful says.
LEMMA ThreadsAreLawful == TypeOK => Lawful(th)
BY DEF TypeOK, Lawful, ThreadRule

\* A thread moves, the others stay where they are.
LEMMA MoveIsLawful ==
    ASSUME TypeOK, NEW a \in Threads, NEW f \in [Threads -> ThreadType], NEW where \in Places,
           \A b \in Threads \ {a} : AloneOrWoken(f, b),
           where \in CompilePlaces \cup TaskPlaces => f[a].task \in Tasks,
           a = Main => where \notin TaskPlaces /\ f[a].next # "completing"
    PROVE  /\ Lawful(Moved(f, a, where))
           /\ \A b \in Threads \ {a} : AloneOrWoken(Moved(f, a, where), b)
           /\ where # "idle" => Moved(f, a, where)[a] = [f[a] EXCEPT !.pc = where]
           /\ where = "idle" => Moved(f, a, where)[a] = Resting
<1> DEFINE g == Moved(f, a, where)
<1>1. /\ g \in [Threads -> ThreadType]
      /\ where = "idle" => g[a] = Resting
      /\ where # "idle" => g[a] = [f[a] EXCEPT !.pc = where]
      /\ \A b \in Threads \ {a} : g[b] = f[b]
  BY MovedShape
<1>2. ThreadRule(g, a)
  <2>1. CASE where = "idle"
    BY <1>1, <2>1 DEF ThreadRule, Resting, CompilePlaces, TaskPlaces
  <2>2. CASE where # "idle"
    BY <1>1, <2>2 DEF ThreadRule, ThreadType
  <2> QED BY <2>1, <2>2
<1>3. ASSUME NEW b \in Threads \ {a} PROVE ThreadRule(g, b)
  <2>1. ThreadRule(th, b) /\ th[b] \in ThreadType /\ g[b] = f[b]
    BY <1>1, ThreadsAreLawful DEF Lawful
  <2>2. CASE f[b] = th[b]
    BY <2>1, <2>2 DEF ThreadRule
  <2>3. CASE th[b].pc = "waiting" /\ f[b] = [th[b] EXCEPT !.pc = "claiming"]
    <3>1. g[b].pc = "claiming" /\ g[b].task = th[b].task /\ g[b].next = th[b].next
      BY <2>1, <2>3 DEF ThreadType
    <3> QED BY <2>1, <2>3, <3>1 DEF ThreadRule, CompilePlaces, TaskPlaces
  <2> QED BY <2>2, <2>3 DEF AloneOrWoken
<1>4. \A b \in Threads \ {a} : AloneOrWoken(g, b)
  BY <1>1 DEF AloneOrWoken
<1> QED BY <1>1, <1>2, <1>3, <1>4 DEF Lawful

\* The places a step can send a thread to.
LEMMA PlaceNames ==
    /\ {"idle", "detached", "claiming", "waiting", "compiling", "publishing", "recording",
        "resolving", "building", "applying", "completing", "retiring", "evicting",
        "releasing", "forgetting", "unparking", "clearingShaders", "clearingMap",
        "clearingRecords", "clearingSet"} = Places
    /\ \A a \in Threads : Finished(a) \in {"idle", "completing"}
    /\ \A a \in Workers : a \in Threads /\ a # Main
    /\ Main \in Threads /\ Finished(Main) = "idle"
    /\ \A a \in Threads : a # Main => a \in Workers
BY MainIsNotAWorker DEF Places, CompilePlaces, TaskPlaces, ClearPlaces, Finished, Threads

\* Thread a takes a step: the others are left alone or woken.
Steps(a) == Lawful(th') /\ \A b \in Threads \ {a} : AloneOrWoken(th', b)

\* MoveIsLawful, of the threads after a step.
LEMMA MoveSteps ==
    ASSUME TypeOK, NEW a \in Threads, NEW f \in [Threads -> ThreadType], NEW where \in Places,
           \A b \in Threads \ {a} : AloneOrWoken(f, b),
           where \in CompilePlaces \cup TaskPlaces => f[a].task \in Tasks,
           a = Main => where \notin TaskPlaces /\ f[a].next # "completing",
           th' = Moved(f, a, where)
    PROVE  /\ Steps(a)
           /\ where # "idle" => th'[a] = [f[a] EXCEPT !.pc = where]
           /\ where = "idle" => th'[a] = Resting
BY MoveIsLawful DEF Steps

\* The threads a notification wakes, and those that stay.
LEMMA NotifiedAlone ==
    ASSUME TypeOK
    PROVE  /\ Notified(th) \in [Threads -> ThreadType]
           /\ Lawful(Notified(th))
           /\ \A b \in Threads : AloneOrWoken(Notified(th), b)
           /\ \A b \in Threads : th[b].pc # "waiting" => Notified(th)[b] = th[b]
<1>1. th \in [Threads -> ThreadType] /\ Lawful(th)
  BY ThreadsAreLawful DEF Lawful
<1>2. /\ Notified(th) \in [Threads -> ThreadType]
      /\ \A b \in Threads : AloneOrWoken(Notified(th), b)
      /\ \A b \in Threads : th[b].pc # "waiting" => Notified(th)[b] = th[b]
  BY <1>1, NotifiedShape DEF AloneOrWoken
<1>3. ASSUME NEW b \in Threads PROVE ThreadRule(Notified(th), b)
  <2>1. ThreadRule(th, b) /\ th[b] \in ThreadType
    BY <1>1 DEF Lawful
  <2>2. CASE Notified(th)[b] = th[b]
    BY <2>1, <2>2 DEF ThreadRule
  <2>3. CASE th[b].pc = "waiting" /\ Notified(th)[b] = [th[b] EXCEPT !.pc = "claiming"]
    <3>1. /\ Notified(th)[b].pc = "claiming" /\ Notified(th)[b].task = th[b].task
          /\ Notified(th)[b].next = th[b].next
      BY <2>1, <2>3 DEF ThreadType
    <3> QED BY <2>1, <2>3, <3>1 DEF ThreadRule, CompilePlaces, TaskPlaces
  <2> QED BY <1>2, <2>2, <2>3 DEF AloneOrWoken
<1> QED BY <1>2, <1>3 DEF Lawful

\* TypeOK speaks of the threads exactly as Lawful does.
LEMMA TypeFromSteps ==
    ASSUME NEW a \in Threads, Steps(a),
           live' \in Nat, map' \in [Keys -> EntryType], parked' \in [Keys -> EvictionType],
           record' \in [Keys -> SomeTask], shader' \in [Tasks -> Outcomes],
           task' \in [Tasks -> {"none", "available", "inProgress", "processed"}],
           taskGen' \in [Tasks -> Nat], watcher' \in WatcherType,
           watcher.pc' \in {"parking", "evicting", "releasing"} => watcher.key' \in Keys,
           source' \in 0 .. MaxEdits, seen' \in 0 .. source', watcher.read' \in 0 .. source'
    PROVE  TypeOK'
BY DEF TypeOK, Steps, Lawful, ThreadRule
-----------------------------------------------------------------------------
(* The parts of the invariant, for a step of any thread.                   *)

\* The other threads keep their generation, task, claims and result.
LEMMA OthersStay ==
    ASSUME TypeOK, NEW a \in Threads, Steps(a), NEW b \in Threads \ {a}
    PROVE  /\ th'[b].gen = th[b].gen /\ th'[b].task = th[b].task /\ th'[b].src = th[b].src
           /\ \A k \in Keys : Owns(b, k)' <=> Owns(b, k)
           /\ th'[b].pc = "publishing" <=> th[b].pc = "publishing"
<1>1. th[b] \in ThreadType
  BY DEF TypeOK
<1>2. CASE th'[b] = th[b]
  BY <1>2 DEF Owns, Key
<1>3. CASE th[b].pc = "waiting" /\ th'[b] = [th[b] EXCEPT !.pc = "claiming"]
  <2>1. /\ th'[b].pc = "claiming" /\ th'[b].gen = th[b].gen /\ th'[b].task = th[b].task
        /\ th'[b].src = th[b].src
    BY <1>1, <1>3 DEF ThreadType
  <2> QED BY <1>3, <2>1 DEF Owns, Key
<1> QED BY <1>2, <1>3 DEF Steps, AloneOrWoken

\* A step that adds no pending entry, by a thread that leaves none behind.
LEMMA PendingKept ==
    ASSUME TypeOK, PendingHasOwner, NEW a \in Threads, Steps(a),
           \A k \in Keys : map'[k].status = "pending" => map'[k] = map[k],
           \A k \in Keys : Owns(a, k) /\ map'[k].status = "pending" /\ th[a].gen = map[k].gen
                              => Owns(a, k)' /\ th'[a].gen = th[a].gen
    PROVE  PendingHasOwner'
<1> SUFFICES ASSUME NEW k \in Keys, IsPending(k)'
             PROVE  \E b \in Threads : Owns(b, k)' /\ th'[b].gen = map'[k].gen
  BY DEF PendingHasOwner
<1>1. map'[k] = map[k] /\ IsPending(k) /\ map'[k].status = "pending"
  BY DEF IsPending
<1>2. PICK b \in Threads : Owns(b, k) /\ th[b].gen = map[k].gen
  BY <1>1 DEF PendingHasOwner
<1>3. CASE b = a
  BY <1>1, <1>2, <1>3
<1>4. CASE b # a
  BY <1>1, <1>2, <1>4, OthersStay
<1> QED BY <1>3, <1>4

Fresh == GenerationsArePast /\ CurrentWorkIsFresh /\ StaleCompilesAreDiscarded

\* A step within a generation that publishes nothing.
LEMMA FreshKept ==
    ASSUME TypeOK, TypeOK', Fresh, NEW a \in Threads, Steps(a), live' = live, seen' = seen,
           \A k \in Keys : map'[k].gen <= live,
           \A k \in Keys : map'[k].status = "completed" => map'[k] = map[k],
           \A t \in Tasks : taskGen'[t] <= live,
           th'[a].gen <= live,
           th'[a].pc = "publishing" => th'[a] = th[a]
    PROVE  Fresh'
<1>1. GenerationsArePast'
  BY OthersStay DEF Fresh, GenerationsArePast
<1>2. CurrentWorkIsFresh'
  BY OthersStay DEF Fresh, CurrentWorkIsFresh
<1>3. StaleCompilesAreDiscarded'
  BY DEF Fresh, StaleCompilesAreDiscarded
<1> QED BY <1>1, <1>2, <1>3 DEF Fresh

\* A step that bumps the generation leaves nothing current.
LEMMA BumpIsFresh ==
    ASSUME TypeOK, TypeOK', Fresh, NEW a \in Threads, Steps(a), live' = live + 1,
           \A k \in Keys : map'[k] = map[k] \/ map'[k] = NoEntry,
           taskGen' = taskGen,
           th'[a].gen <= live
    PROVE  Fresh'
<1>0. live \in Nat
  BY DEF TypeOK
<1>1. \A k \in Keys : map'[k].gen \in Nat /\ map'[k].gen <= live
  BY <1>0 DEF Fresh, GenerationsArePast, NoEntry, TypeOK, EntryType
<1>2. \A b \in Threads : th'[b].gen \in Nat /\ th'[b].gen <= live
  <2>1. \A b \in Threads : th'[b].gen \in Nat
    BY DEF TypeOK, ThreadType
  <2> QED BY <2>1, OthersStay DEF Fresh, GenerationsArePast
<1>3. GenerationsArePast'
  BY <1>0, <1>1, <1>2 DEF Fresh, GenerationsArePast, TypeOK
<1>4. CurrentWorkIsFresh' /\ StaleCompilesAreDiscarded'
  BY <1>0, <1>1, <1>2 DEF CurrentWorkIsFresh, StaleCompilesAreDiscarded
<1> QED BY <1>3, <1>4 DEF Fresh

\* A step that publishes nothing and begins no generation, by a thread that
\* owns no claim afterwards that it did not own before.
LEMMA QuietStep ==
    ASSUME IInv, NEW a \in Threads, Steps(a),
           live' = live, seen' = seen, source' \in source .. MaxEdits,
           \A k \in Keys : \/ map'[k] = map[k]
                           \/ map'[k].status \in {"absent", "failed"} /\ map'[k].gen <= live,
           map' \in [Keys -> EntryType], parked' \in [Keys -> EvictionType],
           record' \in [Keys -> SomeTask], shader' \in [Tasks -> Outcomes],
           task' \in [Tasks -> {"none", "available", "inProgress", "processed"}],
           taskGen' \in [Tasks -> 0 .. live], watcher' \in WatcherType,
           watcher.pc' \in {"parking", "evicting", "releasing"} => watcher.key' \in Keys,
           watcher.read' \in 0 .. source',
           th'[a].gen <= live,
           th'[a].pc = "publishing" => th'[a] = th[a],
           \A k \in Keys : Owns(a, k) /\ map'[k].status = "pending" /\ th[a].gen = map[k].gen
                              => Owns(a, k)' /\ th'[a].gen = th[a].gen
    PROVE  IInv'
<1>1. TypeOK /\ live \in Nat /\ source \in 0 .. MaxEdits /\ seen \in 0 .. source
  BY DEF IInv, TypeOK
<1>2. TypeOK'
  <2>1. /\ source' \in 0 .. MaxEdits /\ seen' \in 0 .. source'
        /\ taskGen' \in [Tasks -> Nat] /\ live' \in Nat
    BY <1>1
  <2> QED BY <2>1, TypeFromSteps
<1>3. \A k \in Keys : map'[k].status \in {"pending", "completed"} => map'[k] = map[k]
  OBVIOUS
<1>4. PendingHasOwner'
  BY <1>1, <1>3, PendingKept DEF IInv
<1>5. Fresh
  BY DEF IInv, Fresh
<1>6. \A k \in Keys : map'[k].gen <= live
  BY <1>1, <1>5 DEF Fresh, GenerationsArePast
<1>7. \A t \in Tasks : taskGen'[t] <= live
  BY <1>1
<1>8. Fresh'
  BY <1>1, <1>2, <1>3, <1>5, <1>6, <1>7, FreshKept
<1> QED BY <1>2, <1>4, <1>8 DEF IInv, Fresh

\* A step that begins a generation, by a thread that owns no claim.
LEMMA BumpStep ==
    ASSUME IInv, NEW a \in Threads, Steps(a),
           live' = live + 1, source' = source, seen' \in 0 .. source,
           \A k \in Keys : map'[k] = map[k] \/ map'[k] = NoEntry,
           map' \in [Keys -> EntryType], parked' = parked,
           record' \in [Keys -> SomeTask], shader' \in [Tasks -> Outcomes],
           task' \in [Tasks -> {"none", "available", "inProgress", "processed"}],
           taskGen' = taskGen, watcher' \in WatcherType,
           watcher.pc' \in {"parking", "evicting", "releasing"} => watcher.key' \in Keys,
           watcher.read' \in 0 .. source,
           th'[a].gen <= live,
           \A k \in Keys : Owns(a, k) => Owns(a, k)' /\ th'[a].gen = th[a].gen
    PROVE  IInv'
<1>1. TypeOK /\ live \in Nat /\ source \in 0 .. MaxEdits /\ taskGen \in [Tasks -> Nat]
  BY DEF IInv, TypeOK
<1>2. TypeOK'
  <2>1. /\ source' \in 0 .. MaxEdits /\ seen' \in 0 .. source' /\ watcher.read' \in 0 .. source'
        /\ taskGen' \in [Tasks -> Nat] /\ live' \in Nat /\ parked' \in [Keys -> EvictionType]
    BY <1>1 DEF TypeOK
  <2> QED BY <2>1, TypeFromSteps
<1>3. \A k \in Keys : map'[k].status = "pending" => map'[k] = map[k]
  BY DEF NoEntry
<1>4. PendingHasOwner'
  BY <1>1, <1>3, PendingKept DEF IInv
<1>5. Fresh'
  BY <1>1, <1>2, BumpIsFresh DEF IInv, Fresh
<1> QED BY <1>2, <1>4, <1>5 DEF IInv, Fresh

\* What the invariant says of a thread and of the rest.
LEMMA Known ==
    ASSUME IInv, NEW a \in Threads
    PROVE  /\ TypeOK /\ th \in [Threads -> ThreadType]
           /\ th[a] \in ThreadType /\ th[a].gen \in 0 .. live
           /\ live \in Nat /\ taskGen \in [Tasks -> 0 .. live]
           /\ source \in source .. MaxEdits /\ watcher.read \in 0 .. source
           /\ th[a].pc \in CompilePlaces \cup TaskPlaces => th[a].task \in Tasks
           /\ a = Main => th[a].next # "completing"
<1>1. TypeOK /\ GenerationsArePast
  BY DEF IInv
<1>2. /\ th \in [Threads -> ThreadType]
      /\ th[a] \in ThreadType /\ live \in Nat /\ taskGen \in [Tasks -> Nat]
      /\ source \in 0 .. MaxEdits /\ watcher.read \in 0 .. source
      /\ th[a].pc \in CompilePlaces \cup TaskPlaces => th[a].task \in Tasks
      /\ a = Main => th[a].next # "completing"
  BY <1>1 DEF TypeOK
<1>3. th[a].gen \in Nat
  BY <1>2 DEF ThreadType
<1>4. taskGen \in [Tasks -> 0 .. live]
  BY <1>1, <1>2 DEF GenerationsArePast
<1> QED BY <1>1, <1>2, <1>3, <1>4, BoundIsNatural DEF GenerationsArePast

\* A thread moves on, its fields set to those in g.
LEMMA Advance ==
    ASSUME IInv, NEW a \in Threads, NEW g \in [Threads -> ThreadType], g[a].gen <= live,
           \A b \in Threads \ {a} : AloneOrWoken(g, b),
           NEW where \in Places, th' = Moved(g, a, where),
           where \in CompilePlaces \cup TaskPlaces => g[a].task \in Tasks,
           a = Main => where \notin TaskPlaces /\ g[a].next # "completing"
    PROVE  /\ Steps(a)
           /\ th'[a].gen \in 0 .. live /\ th'[a].pc = where
           /\ where # "idle" => /\ th'[a].task = g[a].task /\ th'[a].gen = g[a].gen
                                /\ th'[a].src = g[a].src
<1>1. TypeOK /\ live \in Nat /\ g[a] \in ThreadType
  BY Known
<1>2. /\ Steps(a)
      /\ where # "idle" => th'[a] = [g[a] EXCEPT !.pc = where]
      /\ where = "idle" => th'[a] = Resting
  BY <1>1, MoveSteps
<1>3. g[a].gen \in 0 .. live /\ Resting.gen = 0 /\ Resting.pc = "idle"
  BY <1>1 DEF ThreadType, Resting
<1> QED BY <1>1, <1>2, <1>3 DEF ThreadType

\* The same with the fields of the thread as they are.
LEMMA AdvanceOnly ==
    ASSUME IInv, NEW a \in Threads, NEW where \in Places, th' = Moved(th, a, where),
           where \in CompilePlaces \cup TaskPlaces => th[a].task \in Tasks,
           a = Main => where \notin TaskPlaces
    PROVE  /\ Steps(a)
           /\ th'[a].gen \in 0 .. live /\ th'[a].pc = where
           /\ where # "idle" => /\ th'[a].task = th[a].task /\ th'[a].gen = th[a].gen
                                /\ th'[a].src = th[a].src
<1>1. /\ th \in [Threads -> ThreadType] /\ th[a].gen <= live
      /\ \A b \in Threads \ {a} : AloneOrWoken(th, b)
      /\ a = Main => where \notin TaskPlaces /\ th[a].next # "completing"
  BY Known DEF AloneOrWoken
<1> QED BY <1>1, Advance

\* The same for a thread that notifies the others.
LEMMA AdvanceNotifying ==
    ASSUME IInv, NEW a \in Threads, th[a].pc # "waiting",
           NEW where \in Places, th' = Moved(Notified(th), a, where),
           where \in CompilePlaces \cup TaskPlaces => th[a].task \in Tasks,
           a = Main => where \notin TaskPlaces
    PROVE  /\ Steps(a)
           /\ th'[a].gen \in 0 .. live /\ th'[a].pc = where
           /\ where # "idle" => /\ th'[a].task = th[a].task /\ th'[a].gen = th[a].gen
                                /\ th'[a].src = th[a].src
<1> DEFINE g == Notified(th)
<1>1. /\ g \in [Threads -> ThreadType] /\ g[a] = th[a]
      /\ \A b \in Threads \ {a} : AloneOrWoken(g, b)
  BY Known, NotifiedAlone
<1>2. th' = Moved(g, a, where)
  OBVIOUS
<1> HIDE DEF g
<1>3. /\ g[a].gen <= live
      /\ where \in CompilePlaces \cup TaskPlaces => g[a].task \in Tasks
      /\ a = Main => where \notin TaskPlaces /\ g[a].next # "completing"
  BY <1>1, Known
<1>4. /\ Steps(a)
      /\ th'[a].gen \in 0 .. live /\ th'[a].pc = where
      /\ where # "idle" => /\ th'[a].task = g[a].task /\ th'[a].gen = g[a].gen
                           /\ th'[a].src = g[a].src
  BY <1>1, <1>2, <1>3, Advance
<1> QED BY <1>1, <1>4

\* The watcher works, and may notify the threads.
LEMMA ThreadsStay ==
    ASSUME IInv, th' = th \/ th' = Notified(th)
    PROVE  /\ Main \in Threads /\ Steps(Main) /\ th'[Main].gen <= live
           /\ th'[Main].pc = "publishing" => th'[Main] = th[Main]
           /\ \A k \in Keys : Owns(Main, k) => Owns(Main, k)' /\ th'[Main].gen = th[Main].gen
<1>1. Main \in Threads /\ TypeOK /\ th[Main] \in ThreadType /\ th[Main].gen <= live
  BY Known, PlaceNames
<1>2. Steps(Main)
  BY <1>1, ThreadsAreLawful, NotifiedAlone DEF Steps, AloneOrWoken
<1>3. AloneOrWoken(th', Main)
  BY <1>1, NotifiedAlone DEF AloneOrWoken
<1> QED BY <1>1, <1>2, <1>3 DEF AloneOrWoken, ThreadType, Owns, Key

\* What owns no claim keeps all its claims.
LEMMA NothingOwned ==
    ASSUME NEW a \in Threads, th[a].pc \notin {"compiling", "publishing", "resolving"}
    PROVE  \A k \in Keys : ~Owns(a, k)
BY DEF Owns

\* The empty entry, the missing bytecode and the empty eviction have their types.
LEMMA Empties ==
    /\ NoEntry \in EntryType /\ Nothing \in Versions /\ NotParked \in EvictionType
    /\ Nothing \in Outcomes /\ Refused \in Outcomes /\ Versions \subseteq Outcomes
BY BoundIsNatural
   DEF Outcomes, NoEntry, EntryType, Versions, Nothing, NotParked, EvictionType, SomeTask, NoTask
-----------------------------------------------------------------------------
(* The steps of a thread on its way through a compile.                     *)

\* Begin preserves the invariant.
LEMMA BeginStep ==
    ASSUME IInv, NEW w \in Workers, Begin(w)
    PROVE  IInv'
<1>0. w \in Threads /\ th[w].pc # "waiting"
  BY PlaceNames DEF Begin
<1>1. /\ w \in Threads /\ TypeOK /\ th[w] \in ThreadType /\ live \in Nat
      /\ taskGen \in [Tasks -> 0 .. live]
      /\ source \in source .. MaxEdits /\ watcher.read \in 0 .. source
      /\ th[w].pc \in CompilePlaces \cup TaskPlaces => th[w].task \in Tasks
      /\ w = Main => th[w].next # "completing"
  BY Known, PlaceNames
<1> DEFINE where == IF th[w].gen = live THEN "claiming" ELSE "idle"
<1>2. /\ where \in Places \ {"publishing"} /\ th' = Moved(th, w, where)
      /\ where \in CompilePlaces \cup TaskPlaces => th[w].task \in Tasks
      /\ w = Main => where \notin TaskPlaces
  BY <1>1, PlaceNames DEF Begin, CompilePlaces, TaskPlaces, ThreadType
<1> HIDE DEF where
<1>3. /\ Steps(w) /\ th'[w].gen \in 0 .. live /\ th'[w].pc # "publishing"
  BY <1>0, <1>2, AdvanceOnly
<1>4. \A k \in Keys : Owns(w, k) => Owns(w, k)' /\ th'[w].gen = th[w].gen
  BY <1>1, NothingOwned DEF Begin
<1>5. /\ map' \in [Keys -> EntryType] /\ parked' \in [Keys -> EvictionType]
      /\ record' \in [Keys -> SomeTask] /\ shader' \in [Tasks -> Outcomes]
      /\ task' \in [Tasks -> {"none", "available", "inProgress", "processed"}]
      /\ watcher' \in WatcherType
      /\ watcher.pc' \in {"parking", "evicting", "releasing"} => watcher.key' \in Keys
      /\ seen' \in 0 .. source
  BY <1>1, Empties DEF Begin, TypeOK, books, world, bounds
<1>6. \A k \in Keys : map'[k] = map[k] \/ map'[k] = NoEntry
  BY <1>1 DEF Begin, TypeOK
<1> QED BY <1>1, <1>3, <1>4, <1>5, <1>6, QuietStep
       DEF Begin, books, world, bounds, NoEntry

\* CompileThrows preserves the invariant.
LEMMA CompileThrowsStep ==
    ASSUME IInv, NEW w \in Workers, CompileThrows(w)
    PROVE  IInv'
<1>0. w \in Threads /\ th[w].pc # "waiting"
  BY PlaceNames DEF CompileThrows
<1>1. /\ w \in Threads /\ TypeOK /\ th[w] \in ThreadType /\ live \in Nat
      /\ taskGen \in [Tasks -> 0 .. live]
      /\ source \in source .. MaxEdits /\ watcher.read \in 0 .. source
      /\ th[w].pc \in CompilePlaces \cup TaskPlaces => th[w].task \in Tasks
      /\ w = Main => th[w].next # "completing"
  BY Known, PlaceNames
<1> DEFINE where == "resolving"
<1>2. /\ where \in Places \ {"publishing"} /\ th' = Moved(th, w, where)
      /\ where \in CompilePlaces \cup TaskPlaces => th[w].task \in Tasks
      /\ w = Main => where \notin TaskPlaces
  BY <1>1, PlaceNames DEF CompileThrows, CompilePlaces, TaskPlaces, ThreadType
<1>7. where = "resolving"
  OBVIOUS
<1> HIDE DEF where
<1>3. /\ Steps(w) /\ th'[w].gen \in 0 .. live /\ th'[w].pc # "publishing"
      /\ th'[w].pc = "resolving" /\ th'[w].task = th[w].task /\ th'[w].gen = th[w].gen
  BY <1>0, <1>2, <1>7, AdvanceOnly
<1>4. \A k \in Keys : Owns(w, k) => Owns(w, k)' /\ th'[w].gen = th[w].gen
  BY <1>3 DEF CompileThrows, Owns, Key
<1>5. /\ map' \in [Keys -> EntryType] /\ parked' \in [Keys -> EvictionType]
      /\ record' \in [Keys -> SomeTask] /\ shader' \in [Tasks -> Outcomes]
      /\ task' \in [Tasks -> {"none", "available", "inProgress", "processed"}]
      /\ watcher' \in WatcherType
      /\ watcher.pc' \in {"parking", "evicting", "releasing"} => watcher.key' \in Keys
      /\ seen' \in 0 .. source
  BY <1>1, Empties DEF CompileThrows, TypeOK, books, world, bounds
<1>6. \A k \in Keys : map'[k] = map[k] \/ map'[k] = NoEntry
  BY <1>1 DEF CompileThrows, TypeOK
<1> QED BY <1>1, <1>3, <1>4, <1>5, <1>6, QuietStep
       DEF CompileThrows, books, world, bounds, NoEntry

\* RecordSource preserves the invariant.
LEMMA RecordSourceStep ==
    ASSUME IInv, NEW a \in Threads, RecordSource(a)
    PROVE  IInv'
<1>0. a \in Threads /\ th[a].pc # "waiting"
  BY PlaceNames DEF RecordSource
<1>1. /\ a \in Threads /\ TypeOK /\ th[a] \in ThreadType /\ live \in Nat
      /\ taskGen \in [Tasks -> 0 .. live]
      /\ source \in source .. MaxEdits /\ watcher.read \in 0 .. source
      /\ th[a].pc \in CompilePlaces \cup TaskPlaces => th[a].task \in Tasks
      /\ a = Main => th[a].next # "completing"
  BY Known, PlaceNames
<1> DEFINE where == "applying"
<1>2. /\ where \in Places \ {"publishing"} /\ th' = Moved(th, a, where)
      /\ where \in CompilePlaces \cup TaskPlaces => th[a].task \in Tasks
      /\ a = Main => where \notin TaskPlaces
  BY <1>1, PlaceNames DEF RecordSource, CompilePlaces, TaskPlaces, ThreadType
<1> HIDE DEF where
<1>3. /\ Steps(a) /\ th'[a].gen \in 0 .. live /\ th'[a].pc # "publishing"
  BY <1>0, <1>2, AdvanceOnly
<1>4. \A k \in Keys : Owns(a, k) => Owns(a, k)' /\ th'[a].gen = th[a].gen
  BY <1>1, NothingOwned DEF RecordSource
<1>5. /\ map' \in [Keys -> EntryType] /\ parked' \in [Keys -> EvictionType]
      /\ record' \in [Keys -> SomeTask] /\ shader' \in [Tasks -> Outcomes]
      /\ task' \in [Tasks -> {"none", "available", "inProgress", "processed"}]
      /\ watcher' \in WatcherType
      /\ watcher.pc' \in {"parking", "evicting", "releasing"} => watcher.key' \in Keys
      /\ seen' \in 0 .. source
  BY <1>1, Empties DEF RecordSource, TypeOK, books, world, bounds, SomeTask, CompilePlaces
<1>6. \A k \in Keys : map'[k] = map[k] \/ map'[k] = NoEntry
  BY <1>1 DEF RecordSource, TypeOK
<1> QED BY <1>1, <1>3, <1>4, <1>5, <1>6, QuietStep
       DEF RecordSource, books, world, bounds, NoEntry

\* Build preserves the invariant.
LEMMA BuildStep ==
    ASSUME IInv, NEW a \in Threads, Build(a)
    PROVE  IInv'
<1>0. a \in Threads /\ th[a].pc # "waiting"
  BY PlaceNames DEF Build
<1>1. /\ a \in Threads /\ TypeOK /\ th[a] \in ThreadType /\ live \in Nat
      /\ taskGen \in [Tasks -> 0 .. live]
      /\ source \in source .. MaxEdits /\ watcher.read \in 0 .. source
      /\ th[a].pc \in CompilePlaces \cup TaskPlaces => th[a].task \in Tasks
      /\ a = Main => th[a].next # "completing"
  BY Known, PlaceNames
<1> DEFINE where == Finished(a)
<1>2. /\ where \in Places \ {"publishing"} /\ th' = Moved(th, a, where)
      /\ where \in CompilePlaces \cup TaskPlaces => th[a].task \in Tasks
      /\ a = Main => where \notin TaskPlaces
  BY <1>1, PlaceNames DEF Build, CompilePlaces, TaskPlaces, ThreadType
<1> HIDE DEF where
<1>3. /\ Steps(a) /\ th'[a].gen \in 0 .. live /\ th'[a].pc # "publishing"
  BY <1>0, <1>2, AdvanceOnly
<1>4. \A k \in Keys : Owns(a, k) => Owns(a, k)' /\ th'[a].gen = th[a].gen
  BY <1>1, NothingOwned DEF Build
<1>5. /\ map' \in [Keys -> EntryType] /\ parked' \in [Keys -> EvictionType]
      /\ record' \in [Keys -> SomeTask] /\ shader' \in [Tasks -> Outcomes]
      /\ task' \in [Tasks -> {"none", "available", "inProgress", "processed"}]
      /\ watcher' \in WatcherType
      /\ watcher.pc' \in {"parking", "evicting", "releasing"} => watcher.key' \in Keys
      /\ seen' \in 0 .. source
  BY <1>1, Empties DEF Build, TypeOK, books, world, bounds, ThreadType
<1>6. \A k \in Keys : map'[k] = map[k] \/ map'[k] = NoEntry
  BY <1>1 DEF Build, TypeOK
<1> QED BY <1>1, <1>3, <1>4, <1>5, <1>6, QuietStep
       DEF Build, books, world, bounds, NoEntry

\* EvictShader preserves the invariant.
LEMMA EvictShaderStep ==
    ASSUME IInv, NEW a \in Threads, EvictShader(a)
    PROVE  IInv'
<1>0. a \in Threads /\ th[a].pc # "waiting"
  BY PlaceNames DEF EvictShader
<1>1. /\ a \in Threads /\ TypeOK /\ th[a] \in ThreadType /\ live \in Nat
      /\ taskGen \in [Tasks -> 0 .. live]
      /\ source \in source .. MaxEdits /\ watcher.read \in 0 .. source
      /\ th[a].pc \in CompilePlaces \cup TaskPlaces => th[a].task \in Tasks
      /\ a = Main => th[a].next # "completing"
  BY Known, PlaceNames
<1> DEFINE where == "releasing"
<1>2. /\ where \in Places \ {"publishing"} /\ th' = Moved(th, a, where)
      /\ where \in CompilePlaces \cup TaskPlaces => th[a].task \in Tasks
      /\ a = Main => where \notin TaskPlaces
  BY <1>1, PlaceNames DEF EvictShader, CompilePlaces, TaskPlaces, ThreadType
<1> HIDE DEF where
<1>3. /\ Steps(a) /\ th'[a].gen \in 0 .. live /\ th'[a].pc # "publishing"
  BY <1>0, <1>2, AdvanceOnly
<1>4. \A k \in Keys : Owns(a, k) => Owns(a, k)' /\ th'[a].gen = th[a].gen
  BY <1>1, NothingOwned DEF EvictShader
<1>5. /\ map' \in [Keys -> EntryType] /\ parked' \in [Keys -> EvictionType]
      /\ record' \in [Keys -> SomeTask] /\ shader' \in [Tasks -> Outcomes]
      /\ task' \in [Tasks -> {"none", "available", "inProgress", "processed"}]
      /\ watcher' \in WatcherType
      /\ watcher.pc' \in {"parking", "evicting", "releasing"} => watcher.key' \in Keys
      /\ seen' \in 0 .. source
  BY <1>1, Empties DEF EvictShader, TypeOK, books, world, bounds
<1>6. \A k \in Keys : map'[k] = map[k] \/ map'[k] = NoEntry
  BY <1>1 DEF EvictShader, TypeOK
<1> QED BY <1>1, <1>3, <1>4, <1>5, <1>6, QuietStep
       DEF EvictShader, books, world, bounds, NoEntry

\* EvictResources preserves the invariant.
LEMMA EvictResourcesStep ==
    ASSUME IInv, NEW a \in Threads, EvictShaderResources(a)
    PROVE  IInv'
<1>0. a \in Threads /\ th[a].pc # "waiting"
  BY PlaceNames DEF EvictShaderResources
<1>1. /\ a \in Threads /\ TypeOK /\ th[a] \in ThreadType /\ live \in Nat
      /\ taskGen \in [Tasks -> 0 .. live]
      /\ source \in source .. MaxEdits /\ watcher.read \in 0 .. source
      /\ th[a].pc \in CompilePlaces \cup TaskPlaces => th[a].task \in Tasks
      /\ a = Main => th[a].next # "completing"
  BY Known, PlaceNames
<1> DEFINE where == "forgetting"
<1>2. /\ where \in Places \ {"publishing"} /\ th' = Moved(th, a, where)
      /\ where \in CompilePlaces \cup TaskPlaces => th[a].task \in Tasks
      /\ a = Main => where \notin TaskPlaces
  BY <1>1, PlaceNames DEF EvictShaderResources, CompilePlaces, TaskPlaces, ThreadType
<1> HIDE DEF where
<1>3. /\ Steps(a) /\ th'[a].gen \in 0 .. live /\ th'[a].pc # "publishing"
  BY <1>0, <1>2, AdvanceOnly
<1>4. \A k \in Keys : Owns(a, k) => Owns(a, k)' /\ th'[a].gen = th[a].gen
  BY <1>1, NothingOwned DEF EvictShaderResources
<1>5. /\ map' \in [Keys -> EntryType] /\ parked' \in [Keys -> EvictionType]
      /\ record' \in [Keys -> SomeTask] /\ shader' \in [Tasks -> Outcomes]
      /\ task' \in [Tasks -> {"none", "available", "inProgress", "processed"}]
      /\ watcher' \in WatcherType
      /\ watcher.pc' \in {"parking", "evicting", "releasing"} => watcher.key' \in Keys
      /\ seen' \in 0 .. source
  BY <1>1, Empties DEF EvictShaderResources, TypeOK, books, world, bounds
<1>6. \A k \in Keys : map'[k] = map[k] \/ map'[k] = NoEntry
  BY <1>1 DEF EvictShaderResources, TypeOK
<1> QED BY <1>1, <1>3, <1>4, <1>5, <1>6, QuietStep
       DEF EvictShaderResources, books, world, bounds, NoEntry

\* Forget preserves the invariant.
LEMMA ForgetStep ==
    ASSUME IInv, NEW a \in Threads, Forget(a)
    PROVE  IInv'
<1>0. a \in Threads /\ th[a].pc # "waiting"
  BY PlaceNames DEF Forget
<1>1. /\ a \in Threads /\ TypeOK /\ th[a] \in ThreadType /\ live \in Nat
      /\ taskGen \in [Tasks -> 0 .. live]
      /\ source \in source .. MaxEdits /\ watcher.read \in 0 .. source
      /\ th[a].pc \in CompilePlaces \cup TaskPlaces => th[a].task \in Tasks
      /\ a = Main => th[a].next # "completing"
  BY Known, PlaceNames
<1> DEFINE where == "unparking"
<1>2. /\ where \in Places \ {"publishing"} /\ th' = Moved(th, a, where)
      /\ where \in CompilePlaces \cup TaskPlaces => th[a].task \in Tasks
      /\ a = Main => where \notin TaskPlaces
  BY <1>1, PlaceNames DEF Forget, CompilePlaces, TaskPlaces, ThreadType
<1> HIDE DEF where
<1>3. /\ Steps(a) /\ th'[a].gen \in 0 .. live /\ th'[a].pc # "publishing"
  BY <1>0, <1>2, AdvanceOnly
<1>4. \A k \in Keys : Owns(a, k) => Owns(a, k)' /\ th'[a].gen = th[a].gen
  BY <1>1, NothingOwned DEF Forget
<1>5. /\ map' \in [Keys -> EntryType] /\ parked' \in [Keys -> EvictionType]
      /\ record' \in [Keys -> SomeTask] /\ shader' \in [Tasks -> Outcomes]
      /\ task' \in [Tasks -> {"none", "available", "inProgress", "processed"}]
      /\ watcher' \in WatcherType
      /\ watcher.pc' \in {"parking", "evicting", "releasing"} => watcher.key' \in Keys
      /\ seen' \in 0 .. source
  BY <1>1, Empties DEF Forget, TypeOK, books, world, bounds
<1>6. \A k \in Keys : map'[k] = map[k] \/ map'[k] = NoEntry
  BY <1>1 DEF Forget, TypeOK
<1> QED BY <1>1, <1>3, <1>4, <1>5, <1>6, QuietStep
       DEF Forget, books, world, bounds, NoEntry

\* Unpark preserves the invariant.
LEMMA UnparkStep ==
    ASSUME IInv, NEW a \in Threads, Unpark(a)
    PROVE  IInv'
<1>0. a \in Threads /\ th[a].pc # "waiting"
  BY PlaceNames DEF Unpark
<1>1. /\ a \in Threads /\ TypeOK /\ th[a] \in ThreadType /\ live \in Nat
      /\ taskGen \in [Tasks -> 0 .. live]
      /\ source \in source .. MaxEdits /\ watcher.read \in 0 .. source
      /\ th[a].pc \in CompilePlaces \cup TaskPlaces => th[a].task \in Tasks
      /\ a = Main => th[a].next # "completing"
  BY Known, PlaceNames
<1> DEFINE where == th[a].next
<1>2. /\ where \in Places \ {"publishing"} /\ th' = Moved(Notified(th), a, where)
      /\ where \in CompilePlaces \cup TaskPlaces => th[a].task \in Tasks
      /\ a = Main => where \notin TaskPlaces
  BY <1>1, PlaceNames DEF Unpark, CompilePlaces, TaskPlaces, ThreadType
<1> HIDE DEF where
<1>3. /\ Steps(a) /\ th'[a].gen \in 0 .. live /\ th'[a].pc # "publishing"
  BY <1>0, <1>2, AdvanceNotifying
<1>4. \A k \in Keys : Owns(a, k) => Owns(a, k)' /\ th'[a].gen = th[a].gen
  BY <1>1, NothingOwned DEF Unpark
<1>5. /\ map' \in [Keys -> EntryType] /\ parked' \in [Keys -> EvictionType]
      /\ record' \in [Keys -> SomeTask] /\ shader' \in [Tasks -> Outcomes]
      /\ task' \in [Tasks -> {"none", "available", "inProgress", "processed"}]
      /\ watcher' \in WatcherType
      /\ watcher.pc' \in {"parking", "evicting", "releasing"} => watcher.key' \in Keys
      /\ seen' \in 0 .. source
  BY <1>1, Empties DEF Unpark, TypeOK, books, world, bounds
<1>6. \A k \in Keys : map'[k] = map[k] \/ map'[k] = NoEntry
  BY <1>1 DEF Unpark, TypeOK
<1> QED BY <1>1, <1>3, <1>4, <1>5, <1>6, QuietStep
       DEF Unpark, books, world, bounds, NoEntry

\* Clear preserves the invariant.
LEMMA ClearStep ==
    ASSUME IInv, Clear
    PROVE  IInv'
<1>0. Main \in Threads /\ th[Main].pc # "waiting"
  BY PlaceNames DEF Clear
<1>1. /\ Main \in Threads /\ TypeOK /\ th[Main] \in ThreadType /\ live \in Nat
      /\ taskGen \in [Tasks -> 0 .. live]
      /\ source \in source .. MaxEdits /\ watcher.read \in 0 .. source
      /\ th[Main].pc \in CompilePlaces \cup TaskPlaces => th[Main].task \in Tasks
      /\ Main = Main => th[Main].next # "completing"
  BY Known, PlaceNames
<1> DEFINE where == "clearingShaders"
<1>2. /\ where \in Places \ {"publishing"} /\ th' = Moved(th, Main, where)
      /\ where \in CompilePlaces \cup TaskPlaces => th[Main].task \in Tasks
      /\ Main = Main => where \notin TaskPlaces
  BY <1>1, PlaceNames DEF Clear, CompilePlaces, TaskPlaces, ThreadType
<1> HIDE DEF where
<1>3. /\ Steps(Main) /\ th'[Main].gen \in 0 .. live /\ th'[Main].pc # "publishing"
  BY <1>0, <1>2, AdvanceOnly
<1>4. \A k \in Keys : Owns(Main, k) => Owns(Main, k)' /\ th'[Main].gen = th[Main].gen
  BY <1>1, NothingOwned DEF Clear
<1>5. /\ map' \in [Keys -> EntryType] /\ parked' \in [Keys -> EvictionType]
      /\ record' \in [Keys -> SomeTask] /\ shader' \in [Tasks -> Outcomes]
      /\ task' \in [Tasks -> {"none", "available", "inProgress", "processed"}]
      /\ watcher' \in WatcherType
      /\ watcher.pc' \in {"parking", "evicting", "releasing"} => watcher.key' \in Keys
      /\ seen' \in 0 .. source
  BY <1>1, Empties DEF Clear, TypeOK, books, world, bounds
<1>6. \A k \in Keys : map'[k] = map[k] \/ map'[k] = NoEntry
  BY <1>1 DEF Clear, TypeOK
<1> QED BY <1>1, <1>3, <1>4, <1>5, <1>6, BumpStep
       DEF Clear, books, world, bounds, NoEntry

\* ClearShaders preserves the invariant.
LEMMA ClearShadersStep ==
    ASSUME IInv, ClearShaders
    PROVE  IInv'
<1>0. Main \in Threads /\ th[Main].pc # "waiting"
  BY PlaceNames DEF ClearShaders
<1>1. /\ Main \in Threads /\ TypeOK /\ th[Main] \in ThreadType /\ live \in Nat
      /\ taskGen \in [Tasks -> 0 .. live]
      /\ source \in source .. MaxEdits /\ watcher.read \in 0 .. source
      /\ th[Main].pc \in CompilePlaces \cup TaskPlaces => th[Main].task \in Tasks
      /\ Main = Main => th[Main].next # "completing"
  BY Known, PlaceNames
<1> DEFINE where == "clearingMap"
<1>2. /\ where \in Places \ {"publishing"} /\ th' = Moved(th, Main, where)
      /\ where \in CompilePlaces \cup TaskPlaces => th[Main].task \in Tasks
      /\ Main = Main => where \notin TaskPlaces
  BY <1>1, PlaceNames DEF ClearShaders, CompilePlaces, TaskPlaces, ThreadType
<1> HIDE DEF where
<1>3. /\ Steps(Main) /\ th'[Main].gen \in 0 .. live /\ th'[Main].pc # "publishing"
  BY <1>0, <1>2, AdvanceOnly
<1>4. \A k \in Keys : Owns(Main, k) => Owns(Main, k)' /\ th'[Main].gen = th[Main].gen
  BY <1>1, NothingOwned DEF ClearShaders
<1>5. /\ map' \in [Keys -> EntryType] /\ parked' \in [Keys -> EvictionType]
      /\ record' \in [Keys -> SomeTask] /\ shader' \in [Tasks -> Outcomes]
      /\ task' \in [Tasks -> {"none", "available", "inProgress", "processed"}]
      /\ watcher' \in WatcherType
      /\ watcher.pc' \in {"parking", "evicting", "releasing"} => watcher.key' \in Keys
      /\ seen' \in 0 .. source
  BY <1>1, Empties DEF ClearShaders, TypeOK, books, world, bounds, NoShaders
<1>6. \A k \in Keys : map'[k] = map[k] \/ map'[k] = NoEntry
  BY <1>1 DEF ClearShaders, TypeOK
<1> QED BY <1>1, <1>3, <1>4, <1>5, <1>6, QuietStep
       DEF ClearShaders, books, world, bounds, NoEntry

\* ClearMap preserves the invariant.
LEMMA ClearMapStep ==
    ASSUME IInv, ClearMap
    PROVE  IInv'
<1>0. Main \in Threads /\ th[Main].pc # "waiting"
  BY PlaceNames DEF ClearMap
<1>1. /\ Main \in Threads /\ TypeOK /\ th[Main] \in ThreadType /\ live \in Nat
      /\ taskGen \in [Tasks -> 0 .. live]
      /\ source \in source .. MaxEdits /\ watcher.read \in 0 .. source
      /\ th[Main].pc \in CompilePlaces \cup TaskPlaces => th[Main].task \in Tasks
      /\ Main = Main => th[Main].next # "completing"
  BY Known, PlaceNames
<1> DEFINE where == "clearingRecords"
<1>2. /\ where \in Places \ {"publishing"} /\ th' = Moved(Notified(th), Main, where)
      /\ where \in CompilePlaces \cup TaskPlaces => th[Main].task \in Tasks
      /\ Main = Main => where \notin TaskPlaces
  BY <1>1, PlaceNames DEF ClearMap, CompilePlaces, TaskPlaces, ThreadType
<1> HIDE DEF where
<1>3. /\ Steps(Main) /\ th'[Main].gen \in 0 .. live /\ th'[Main].pc # "publishing"
  BY <1>0, <1>2, AdvanceNotifying
<1>4. \A k \in Keys : Owns(Main, k) => Owns(Main, k)' /\ th'[Main].gen = th[Main].gen
  BY <1>1, NothingOwned DEF ClearMap
<1>5. /\ map' \in [Keys -> EntryType] /\ parked' \in [Keys -> EvictionType]
      /\ record' \in [Keys -> SomeTask] /\ shader' \in [Tasks -> Outcomes]
      /\ task' \in [Tasks -> {"none", "available", "inProgress", "processed"}]
      /\ watcher' \in WatcherType
      /\ watcher.pc' \in {"parking", "evicting", "releasing"} => watcher.key' \in Keys
      /\ seen' \in 0 .. source
  BY <1>1, Empties DEF ClearMap, TypeOK, books, world, bounds, EmptyMap
<1>6. \A k \in Keys : map'[k] = map[k] \/ map'[k] = NoEntry
  BY <1>1 DEF ClearMap, TypeOK, EmptyMap
<1> QED BY <1>1, <1>3, <1>4, <1>5, <1>6, QuietStep
       DEF ClearMap, books, world, bounds, NoEntry

\* ClearRecords preserves the invariant.
LEMMA ClearRecordsStep ==
    ASSUME IInv, ClearRecords
    PROVE  IInv'
<1>0. Main \in Threads /\ th[Main].pc # "waiting"
  BY PlaceNames DEF ClearRecords
<1>1. /\ Main \in Threads /\ TypeOK /\ th[Main] \in ThreadType /\ live \in Nat
      /\ taskGen \in [Tasks -> 0 .. live]
      /\ source \in source .. MaxEdits /\ watcher.read \in 0 .. source
      /\ th[Main].pc \in CompilePlaces \cup TaskPlaces => th[Main].task \in Tasks
      /\ Main = Main => th[Main].next # "completing"
  BY Known, PlaceNames
<1> DEFINE where == "clearingSet"
<1>2. /\ where \in Places \ {"publishing"} /\ th' = Moved(th, Main, where)
      /\ where \in CompilePlaces \cup TaskPlaces => th[Main].task \in Tasks
      /\ Main = Main => where \notin TaskPlaces
  BY <1>1, PlaceNames DEF ClearRecords, CompilePlaces, TaskPlaces, ThreadType
<1> HIDE DEF where
<1>3. /\ Steps(Main) /\ th'[Main].gen \in 0 .. live /\ th'[Main].pc # "publishing"
  BY <1>0, <1>2, AdvanceOnly
<1>4. \A k \in Keys : Owns(Main, k) => Owns(Main, k)' /\ th'[Main].gen = th[Main].gen
  BY <1>1, NothingOwned DEF ClearRecords
<1>5. /\ map' \in [Keys -> EntryType] /\ parked' \in [Keys -> EvictionType]
      /\ record' \in [Keys -> SomeTask] /\ shader' \in [Tasks -> Outcomes]
      /\ task' \in [Tasks -> {"none", "available", "inProgress", "processed"}]
      /\ watcher' \in WatcherType
      /\ watcher.pc' \in {"parking", "evicting", "releasing"} => watcher.key' \in Keys
      /\ seen' \in 0 .. source
  BY <1>1, Empties DEF ClearRecords, TypeOK, books, world, bounds, SomeTask
<1>6. \A k \in Keys : map'[k] = map[k] \/ map'[k] = NoEntry
  BY <1>1 DEF ClearRecords, TypeOK
<1> QED BY <1>1, <1>3, <1>4, <1>5, <1>6, QuietStep
       DEF ClearRecords, books, world, bounds, NoEntry

\* ClearSet preserves the invariant.
LEMMA ClearSetStep ==
    ASSUME IInv, ClearSet
    PROVE  IInv'
<1>0. Main \in Threads /\ th[Main].pc # "waiting"
  BY PlaceNames DEF ClearSet
<1>1. /\ Main \in Threads /\ TypeOK /\ th[Main] \in ThreadType /\ live \in Nat
      /\ taskGen \in [Tasks -> 0 .. live]
      /\ source \in source .. MaxEdits /\ watcher.read \in 0 .. source
      /\ th[Main].pc \in CompilePlaces \cup TaskPlaces => th[Main].task \in Tasks
      /\ Main = Main => th[Main].next # "completing"
  BY Known, PlaceNames
<1> DEFINE where == "idle"
<1>2. /\ where \in Places \ {"publishing"} /\ th' = Moved(th, Main, where)
      /\ where \in CompilePlaces \cup TaskPlaces => th[Main].task \in Tasks
      /\ Main = Main => where \notin TaskPlaces
  BY <1>1, PlaceNames DEF ClearSet, CompilePlaces, TaskPlaces, ThreadType
<1> HIDE DEF where
<1>3. /\ Steps(Main) /\ th'[Main].gen \in 0 .. live /\ th'[Main].pc # "publishing"
  BY <1>0, <1>2, AdvanceOnly
<1>4. \A k \in Keys : Owns(Main, k) => Owns(Main, k)' /\ th'[Main].gen = th[Main].gen
  BY <1>1, NothingOwned DEF ClearSet
<1>5. /\ map' \in [Keys -> EntryType] /\ parked' \in [Keys -> EvictionType]
      /\ record' \in [Keys -> SomeTask] /\ shader' \in [Tasks -> Outcomes]
      /\ task' \in [Tasks -> {"none", "available", "inProgress", "processed"}]
      /\ watcher' \in WatcherType
      /\ watcher.pc' \in {"parking", "evicting", "releasing"} => watcher.key' \in Keys
      /\ seen' \in 0 .. source
  BY <1>1, Empties DEF ClearSet, TypeOK, books, world, bounds, NoTasks
<1>6. \A k \in Keys : map'[k] = map[k] \/ map'[k] = NoEntry
  BY <1>1 DEF ClearSet, TypeOK
<1> QED BY <1>1, <1>3, <1>4, <1>5, <1>6, BumpStep
       DEF ClearSet, books, world, bounds, NoEntry
-----------------------------------------------------------------------------
(* The steps that change more of the thread than its place.                *)

\* Dispatch preserves the invariant.
LEMMA DispatchStep ==
    ASSUME IInv, NEW w \in Workers, NEW t \in Tasks, Dispatch(w, t)
    PROVE  IInv'
<1>0. w \in Threads /\ th[w].pc # "waiting"
  BY PlaceNames DEF Dispatch, Starting
<1>1. /\ TypeOK /\ th \in [Threads -> ThreadType] /\ th[w] \in ThreadType
      /\ live \in Nat /\ th[w].gen \in 0 .. live /\ taskGen \in [Tasks -> 0 .. live]
      /\ source \in source .. MaxEdits /\ watcher.read \in 0 .. source
      /\ th[w].pc \in CompilePlaces \cup TaskPlaces => th[w].task \in Tasks
      /\ w = Main => th[w].next # "completing"
  BY <1>0, Known
<1> DEFINE x == [Resting EXCEPT !.task = t, !.gen = taskGen[t]]
<1> DEFINE where == "detached"
<1> DEFINE g == [th EXCEPT ![w] = x]
<1>2. x \in ThreadType /\ x.gen \in 0 .. live
  BY <1>0, <1>1, PlaceNames, RestingIsLawful DEF Dispatch, Starting, CompilePlaces, TaskPlaces, ThreadType, TypeOK, EntryType, SomeTask, Resting
<1>3. /\ where \in Places \ {"publishing"}
      /\ where \in CompilePlaces \cup TaskPlaces => x.task \in Tasks
      /\ w = Main => where \notin TaskPlaces /\ x.next # "completing"
  BY <1>0, <1>1, PlaceNames DEF Dispatch, Starting, CompilePlaces, TaskPlaces, ThreadType, Resting, NoTask, Resting
<1>4. th' = Moved(g, w, where)
  BY <1>0, <1>1 DEF Dispatch, Starting
<1> HIDE DEF where, x
<1>5. /\ g \in [Threads -> ThreadType] /\ g[w] = x
      /\ \A b \in Threads \ {w} : AloneOrWoken(g, b)
  BY <1>0, <1>1, <1>2, NotifiedAlone DEF AloneOrWoken
<1> HIDE DEF g
<1>6. /\ Steps(w) /\ th'[w].gen \in 0 .. live /\ th'[w].pc = where
      /\ where # "idle" => /\ th'[w].task = x.task /\ th'[w].gen = x.gen
                           /\ th'[w].src = x.src
  BY <1>0, <1>1, <1>2, <1>3, <1>4, <1>5, Advance
<1>7. /\ parked' \in [Keys -> EvictionType]
      /\ record' \in [Keys -> SomeTask] /\ shader' \in [Tasks -> Outcomes]
      /\ task' \in [Tasks -> {"none", "available", "inProgress", "processed"}]
      /\ watcher' \in WatcherType
      /\ watcher.pc' \in {"parking", "evicting", "releasing"} => watcher.key' \in Keys
      /\ live' = live /\ seen' = seen /\ seen \in 0 .. source /\ source' = source
      /\ taskGen' \in [Tasks -> 0 .. live] /\ watcher.read' = watcher.read
  BY <1>1, Empties DEF Dispatch, Starting, TypeOK, books, world, bounds
<1>8. \A k \in Keys : ~Owns(w, k)
  BY <1>0, NothingOwned DEF Dispatch
<1>9. map' = map /\ map \in [Keys -> EntryType]
  BY <1>1 DEF Dispatch, TypeOK
<1> QED BY <1>0, <1>1, <1>3, <1>6, <1>7, <1>8, <1>9, QuietStep

\* Draw preserves the invariant.
LEMMA DrawStep ==
    ASSUME IInv, NEW t \in Tasks, Draw(t)
    PROVE  IInv'
<1>0. Main \in Threads /\ th[Main].pc # "waiting"
  BY PlaceNames DEF Draw, Starting
<1>1. /\ TypeOK /\ th \in [Threads -> ThreadType] /\ th[Main] \in ThreadType
      /\ live \in Nat /\ th[Main].gen \in 0 .. live /\ taskGen \in [Tasks -> 0 .. live]
      /\ source \in source .. MaxEdits /\ watcher.read \in 0 .. source
      /\ th[Main].pc \in CompilePlaces \cup TaskPlaces => th[Main].task \in Tasks
      /\ Main = Main => th[Main].next # "completing"
  BY <1>0, Known
<1> DEFINE x == [Resting EXCEPT !.task = t, !.gen = live]
<1> DEFINE where == "claiming"
<1> DEFINE g == [th EXCEPT ![Main] = x]
<1>2. x \in ThreadType /\ x.gen \in 0 .. live
  <2>1. t \in SomeTask /\ live \in Nat /\ live \in 0 .. live
    BY <1>1 DEF SomeTask
  <2> QED BY <2>1, RestingIsLawful DEF ThreadType
<1>3. /\ where \in Places \ {"publishing"}
      /\ where \in CompilePlaces \cup TaskPlaces => x.task \in Tasks
      /\ Main = Main => where \notin TaskPlaces /\ x.next # "completing"
  BY <1>0, <1>1, PlaceNames DEF Draw, Starting, CompilePlaces, TaskPlaces, ThreadType, Resting, NoTask
<1>4. th' = Moved(g, Main, where)
  BY <1>0, <1>1 DEF Draw, Starting
<1> HIDE DEF where, x
<1>5. /\ g \in [Threads -> ThreadType] /\ g[Main] = x
      /\ \A b \in Threads \ {Main} : AloneOrWoken(g, b)
  BY <1>0, <1>1, <1>2, NotifiedAlone DEF AloneOrWoken
<1> HIDE DEF g
<1>6. /\ Steps(Main) /\ th'[Main].gen \in 0 .. live /\ th'[Main].pc = where
      /\ where # "idle" => /\ th'[Main].task = x.task /\ th'[Main].gen = x.gen
                           /\ th'[Main].src = x.src
  BY <1>0, <1>1, <1>2, <1>3, <1>4, <1>5, Advance
<1>7. /\ parked' \in [Keys -> EvictionType]
      /\ record' \in [Keys -> SomeTask] /\ shader' \in [Tasks -> Outcomes]
      /\ task' \in [Tasks -> {"none", "available", "inProgress", "processed"}]
      /\ watcher' \in WatcherType
      /\ watcher.pc' \in {"parking", "evicting", "releasing"} => watcher.key' \in Keys
      /\ live' = live /\ seen' = seen /\ seen \in 0 .. source /\ source' = source
      /\ taskGen' \in [Tasks -> 0 .. live] /\ watcher.read' = watcher.read
  BY <1>1, Empties DEF Draw, Starting, TypeOK, books, world, bounds
<1>8. \A k \in Keys : ~Owns(Main, k)
  BY <1>0, NothingOwned DEF Draw
<1>9. map' = map /\ map \in [Keys -> EntryType]
  BY <1>1 DEF Draw, TypeOK
<1> QED BY <1>0, <1>1, <1>3, <1>6, <1>7, <1>8, <1>9, QuietStep

\* Complete preserves the invariant.
LEMMA CompleteStep ==
    ASSUME IInv, NEW w \in Workers, Complete(w)
    PROVE  IInv'
<1>0. w \in Threads /\ th[w].pc # "waiting"
  BY PlaceNames DEF Complete
<1>1. /\ TypeOK /\ th \in [Threads -> ThreadType] /\ th[w] \in ThreadType
      /\ live \in Nat /\ th[w].gen \in 0 .. live /\ taskGen \in [Tasks -> 0 .. live]
      /\ source \in source .. MaxEdits /\ watcher.read \in 0 .. source
      /\ th[w].pc \in CompilePlaces \cup TaskPlaces => th[w].task \in Tasks
      /\ w = Main => th[w].next # "completing"
  BY <1>0, Known
<1> DEFINE x == [th[w] EXCEPT !.next = "idle"]
<1> DEFINE where == "retiring"
<1> DEFINE g == [th EXCEPT ![w] = x]
<1>2. x \in ThreadType /\ x.gen \in 0 .. live
  BY <1>0, <1>1, PlaceNames, RestingIsLawful DEF Complete, CompilePlaces, TaskPlaces, ThreadType, TypeOK, EntryType, SomeTask
<1>3. /\ where \in Places \ {"publishing"}
      /\ where \in CompilePlaces \cup TaskPlaces => x.task \in Tasks
      /\ w = Main => where \notin TaskPlaces /\ x.next # "completing"
  BY <1>0, <1>1, PlaceNames DEF Complete, CompilePlaces, TaskPlaces, ThreadType, Resting, NoTask
<1>4. th' = Moved(g, w, where)
  BY <1>0, <1>1 DEF Complete
<1> HIDE DEF where, x
<1>5. /\ g \in [Threads -> ThreadType] /\ g[w] = x
      /\ \A b \in Threads \ {w} : AloneOrWoken(g, b)
  BY <1>0, <1>1, <1>2, NotifiedAlone DEF AloneOrWoken
<1> HIDE DEF g
<1>6. /\ Steps(w) /\ th'[w].gen \in 0 .. live /\ th'[w].pc = where
      /\ where # "idle" => /\ th'[w].task = x.task /\ th'[w].gen = x.gen
                           /\ th'[w].src = x.src
  BY <1>0, <1>1, <1>2, <1>3, <1>4, <1>5, Advance
<1>7. /\ parked' \in [Keys -> EvictionType]
      /\ record' \in [Keys -> SomeTask] /\ shader' \in [Tasks -> Outcomes]
      /\ task' \in [Tasks -> {"none", "available", "inProgress", "processed"}]
      /\ watcher' \in WatcherType
      /\ watcher.pc' \in {"parking", "evicting", "releasing"} => watcher.key' \in Keys
      /\ live' = live /\ seen' = seen /\ seen \in 0 .. source /\ source' = source
      /\ taskGen' \in [Tasks -> 0 .. live] /\ watcher.read' = watcher.read
  BY <1>1, Empties DEF Complete, TypeOK, books, world, bounds
<1>8. \A k \in Keys : ~Owns(w, k)
  BY <1>0, NothingOwned DEF Complete
<1>9. map' = map /\ map \in [Keys -> EntryType]
  BY <1>1 DEF Complete, TypeOK
<1> QED BY <1>0, <1>1, <1>3, <1>6, <1>7, <1>8, <1>9, QuietStep

\* Apply preserves the invariant.
LEMMA ApplyStep ==
    ASSUME IInv, NEW a \in Threads, ApplyDeferredEviction(a)
    PROVE  IInv'
<1>0. a \in Threads /\ th[a].pc # "waiting"
  BY PlaceNames DEF ApplyDeferredEviction, Apply
<1>1. /\ TypeOK /\ th \in [Threads -> ThreadType] /\ th[a] \in ThreadType
      /\ live \in Nat /\ th[a].gen \in 0 .. live /\ taskGen \in [Tasks -> 0 .. live]
      /\ source \in source .. MaxEdits /\ watcher.read \in 0 .. source
      /\ th[a].pc \in CompilePlaces \cup TaskPlaces => th[a].task \in Tasks
      /\ a = Main => th[a].next # "completing"
  BY <1>0, Known
<1> DEFINE refused == ~IsParked(Key(a)) \/ parked[Key(a)].applying
                         \/ (parked[Key(a)].wait /\ th[a].pc = "applying")
<1>12. parked[Key(a)].task \in SomeTask
  BY <1>0, <1>1, TasksHaveKeys
     DEF ApplyDeferredEviction, Apply, Key, CompilePlaces, TaskPlaces, TypeOK, EvictionType
<1> DEFINE x == IF refused THEN th[a]
               ELSE [th[a] EXCEPT !.evict = parked[Key(a)].task,
                                  !.next = IF @ = "building" THEN Finished(a) ELSE @]
<1> DEFINE where == IF refused THEN th[a].next ELSE "evicting"
<1> DEFINE g == [th EXCEPT ![a] = x]
<1>2. x \in ThreadType /\ x.gen \in 0 .. live
  BY <1>0, <1>1, <1>12, PlaceNames, RestingIsLawful DEF ApplyDeferredEviction, Apply, CompilePlaces, TaskPlaces, ThreadType, TypeOK, EntryType, SomeTask, refused
<1>3. /\ where \in Places \ {"publishing"}
      /\ where \in CompilePlaces \cup TaskPlaces => x.task \in Tasks
      /\ a = Main => where \notin TaskPlaces /\ x.next # "completing"
  BY <1>0, <1>1, PlaceNames DEF ApplyDeferredEviction, Apply, CompilePlaces, TaskPlaces, ThreadType, Resting, NoTask, refused
<1>4. th' = Moved(g, a, where)
  <2>1. CASE refused
    <3>1. g = th
      BY <1>1, <2>1
    <3> QED BY <2>1, <3>1 DEF ApplyDeferredEviction, Apply
  <2>2. CASE ~refused
    <3> DEFINE h == [th EXCEPT ![a].evict = parked[Key(a)].task,
                               ![a].next = IF @ = "building" THEN Finished(a) ELSE @]
    <3>1. th' = Moved(h, a, "evicting")
      BY <2>2 DEF ApplyDeferredEviction, Apply
    <3>2. h = g
      BY <1>0, <1>1, <2>2
    <3> QED BY <2>2, <3>1, <3>2
  <2> QED BY <2>1, <2>2
<1> HIDE DEF where, x
<1>5. /\ g \in [Threads -> ThreadType] /\ g[a] = x
      /\ \A b \in Threads \ {a} : AloneOrWoken(g, b)
  BY <1>0, <1>1, <1>2, NotifiedAlone DEF AloneOrWoken
<1> HIDE DEF g
<1>6. /\ Steps(a) /\ th'[a].gen \in 0 .. live /\ th'[a].pc = where
      /\ where # "idle" => /\ th'[a].task = x.task /\ th'[a].gen = x.gen
                           /\ th'[a].src = x.src
  BY <1>0, <1>1, <1>2, <1>3, <1>4, <1>5, Advance
<1>13. parked' \in [Keys -> EvictionType]
  <2>1. parked \in [Keys -> EvictionType]
    BY <1>1 DEF TypeOK
  <2>2. \A k \in Keys : [parked[k] EXCEPT !.applying = TRUE] \in EvictionType
    BY <2>1 DEF EvictionType
  <2> QED BY <2>1, <2>2 DEF ApplyDeferredEviction, Apply
<1>7. /\ parked' \in [Keys -> EvictionType]
      /\ record' \in [Keys -> SomeTask] /\ shader' \in [Tasks -> Outcomes]
      /\ task' \in [Tasks -> {"none", "available", "inProgress", "processed"}]
      /\ watcher' \in WatcherType
      /\ watcher.pc' \in {"parking", "evicting", "releasing"} => watcher.key' \in Keys
      /\ live' = live /\ seen' = seen /\ seen \in 0 .. source /\ source' = source
      /\ taskGen' \in [Tasks -> 0 .. live] /\ watcher.read' = watcher.read
  BY <1>1, <1>13 DEF ApplyDeferredEviction, Apply, TypeOK, books, world, bounds
<1>8. \A k \in Keys : ~Owns(a, k)
  BY <1>0, NothingOwned DEF ApplyDeferredEviction, Apply
<1>9. map' = map /\ map \in [Keys -> EntryType]
  BY <1>1 DEF ApplyDeferredEviction, Apply, TypeOK
<1> QED BY <1>0, <1>1, <1>3, <1>6, <1>7, <1>8, <1>9, QuietStep

\* Claim preserves the invariant.
LEMMA ClaimStep ==
    ASSUME IInv, NEW a \in Threads, ClaimCompilation(a)
    PROVE  IInv'
<1>0. a \in Threads /\ th[a].pc # "waiting"
  BY PlaceNames DEF ClaimCompilation, Claim
<1>1. /\ TypeOK /\ th \in [Threads -> ThreadType] /\ th[a] \in ThreadType
      /\ live \in Nat /\ th[a].gen \in 0 .. live /\ taskGen \in [Tasks -> 0 .. live]
      /\ source \in source .. MaxEdits /\ watcher.read \in 0 .. source
      /\ th[a].pc \in CompilePlaces \cup TaskPlaces => th[a].task \in Tasks
      /\ a = Main => th[a].next # "completing"
  BY <1>0, Known
<1>11. Key(a) \in Keys /\ map[Key(a)].src \in Versions
  BY <1>0, <1>1, TasksHaveKeys DEF ClaimCompilation, Claim, Key, CompilePlaces, TypeOK, EntryType
<1> DEFINE x == [th[a] EXCEPT !.src = map[Key(a)].src]
<1> DEFINE where == IF th[a].gen # live THEN Finished(a)
                   ELSE IF IsParked(Key(a)) \/ IsPending(Key(a)) THEN "waiting"
                   ELSE IF map[Key(a)].status = "completed" THEN "building"
                   ELSE IF map[Key(a)].status = "failed" THEN Finished(a)
                   ELSE "compiling"
<1> DEFINE g == [th EXCEPT ![a] = x]
<1>2. x \in ThreadType /\ x.gen \in 0 .. live
  BY <1>0, <1>1, <1>11, PlaceNames, RestingIsLawful DEF ClaimCompilation, Claim, CompilePlaces, TaskPlaces, ThreadType, TypeOK, EntryType, SomeTask
<1>3. /\ where \in Places \ {"publishing"}
      /\ where \in CompilePlaces \cup TaskPlaces => x.task \in Tasks
      /\ a = Main => where \notin TaskPlaces /\ x.next # "completing"
  BY <1>0, <1>1, PlaceNames DEF ClaimCompilation, Claim, CompilePlaces, TaskPlaces, ThreadType, Resting, NoTask
<1>4. th' = Moved(g, a, where)
  BY <1>0, <1>1 DEF ClaimCompilation, Claim
<1> HIDE DEF where, x
<1>5. /\ g \in [Threads -> ThreadType] /\ g[a] = x
      /\ \A b \in Threads \ {a} : AloneOrWoken(g, b)
  BY <1>0, <1>1, <1>2, NotifiedAlone DEF AloneOrWoken
<1> HIDE DEF g
<1>6. /\ Steps(a) /\ th'[a].gen \in 0 .. live /\ th'[a].pc = where
      /\ where # "idle" => /\ th'[a].task = x.task /\ th'[a].gen = x.gen
                           /\ th'[a].src = x.src
  BY <1>0, <1>1, <1>2, <1>3, <1>4, <1>5, Advance
<1>7. /\ parked' \in [Keys -> EvictionType]
      /\ record' \in [Keys -> SomeTask] /\ shader' \in [Tasks -> Outcomes]
      /\ task' \in [Tasks -> {"none", "available", "inProgress", "processed"}]
      /\ watcher' \in WatcherType
      /\ watcher.pc' \in {"parking", "evicting", "releasing"} => watcher.key' \in Keys
      /\ live' = live /\ seen' = seen /\ seen \in 0 .. source /\ source' = source
      /\ taskGen' \in [Tasks -> 0 .. live] /\ watcher.read' = watcher.read
  BY <1>1, Empties DEF ClaimCompilation, Claim, TypeOK, books, world, bounds
<1>8. \A k \in Keys : ~Owns(a, k)
  BY <1>0, NothingOwned DEF ClaimCompilation, Claim
<1>9. CASE where # "compiling"
  <2>1. map' = map /\ map \in [Keys -> EntryType]
    BY <1>1, <1>9 DEF ClaimCompilation, Claim, TypeOK, where
  <2> QED BY <1>0, <1>1, <1>3, <1>6, <1>7, <1>8, <2>1, QuietStep
<1>10. CASE where = "compiling"
  <2>0. PICK k \in Keys : k = Key(a)
    BY <1>11
  <2> DEFINE entry == Entry("pending", live, Nothing)
  <2>1. map' = [map EXCEPT ![k] = entry] /\ th[a].gen = live
    BY <1>10, <2>0 DEF ClaimCompilation, Claim, where, Finished
  <2>2. entry \in EntryType /\ entry.status = "pending" /\ entry.gen = live
    BY <1>1, Empties DEF Entry, EntryType
  <2>3. Owns(a, k)' /\ th'[a].gen = live
    BY <1>6, <1>10, <2>0, <2>1 DEF Owns, Key, x
  <2> HIDE DEF entry
  <2>4. map' \in [Keys -> EntryType] /\ map'[k] = entry /\ \A l \in Keys \ {k} : map'[l] = map[l]
    BY <1>1, <2>1, <2>2 DEF TypeOK
  <2>5. TypeOK'
    BY <1>0, <1>1, <1>6, <1>7, <2>4, TypeFromSteps
  <2>6. ASSUME NEW l \in Keys, IsPending(l)'
        PROVE  \E b \in Threads : Owns(b, l)' /\ th'[b].gen = map'[l].gen
    <3>1. CASE l = k
      BY <1>0, <2>2, <2>3, <2>4, <3>1
    <3>2. CASE l # k
      <4>1. IsPending(l) /\ map'[l] = map[l]
        BY <2>4, <2>6, <3>2 DEF IsPending
      <4>2. PICK b \in Threads : Owns(b, l) /\ th[b].gen = map[l].gen
        BY <4>1 DEF IInv, PendingHasOwner
      <4> QED BY <1>0, <1>1, <1>6, <1>8, <4>1, <4>2, OthersStay
    <3> QED BY <3>1, <3>2
  <2>7. PendingHasOwner'
    BY <2>6 DEF PendingHasOwner
  <2>8. Fresh /\ \A l \in Keys : map[l].gen <= live
    BY DEF IInv, Fresh, GenerationsArePast
  <2>9. /\ \A l \in Keys : map'[l].gen <= live
        /\ \A l \in Keys : map'[l].status = "completed" => map'[l] = map[l]
        /\ \A t \in Tasks : taskGen'[t] <= live
    BY <1>1, <1>7, <2>2, <2>4, <2>8
  <2>10. Fresh'
    BY <1>0, <1>1, <1>6, <1>7, <1>10, <2>5, <2>8, <2>9, FreshKept
  <2> QED BY <2>5, <2>7, <2>10 DEF IInv, Fresh
<1> QED BY <1>9, <1>10

\* A compile that has read v.
Compiled(a, v) ==
    /\ th[a].pc = "compiling"
    /\ th' = Moved([th EXCEPT ![a].src = v], a, "publishing")
    /\ UNCHANGED <<live, map, parked, record, shader, books, watcher, world, bounds>>

\* Compiled preserves the invariant.
LEMMA CompiledStep ==
    ASSUME IInv, NEW a \in Threads, NEW v \in {source, Nothing}, Compiled(a, v)
    PROVE  IInv'
<1>0. a \in Threads /\ th[a].pc # "waiting"
  BY PlaceNames DEF Compiled
<1>1. /\ TypeOK /\ th \in [Threads -> ThreadType] /\ th[a] \in ThreadType
      /\ live \in Nat /\ th[a].gen \in 0 .. live /\ taskGen \in [Tasks -> 0 .. live]
      /\ source \in source .. MaxEdits /\ watcher.read \in 0 .. source
      /\ th[a].pc \in CompilePlaces \cup TaskPlaces => th[a].task \in Tasks
      /\ a = Main => th[a].next # "completing"
  BY <1>0, Known
<1>11. v \in Versions
  BY <1>1, Empties, BoundIsNatural DEF TypeOK, Versions, Nothing
<1>12. th[a].pc = "compiling"
  BY DEF Compiled
<1> DEFINE x == [th[a] EXCEPT !.src = v]
<1> DEFINE where == "publishing"
<1> DEFINE g == [th EXCEPT ![a] = x]
<1>2. x \in ThreadType /\ x.gen \in 0 .. live
  BY <1>0, <1>1, <1>11, PlaceNames, RestingIsLawful DEF CompilePlaces, TaskPlaces, ThreadType, TypeOK, EntryType, SomeTask
<1>3. /\ where \in Places
      /\ where \in CompilePlaces \cup TaskPlaces => x.task \in Tasks
      /\ a = Main => where \notin TaskPlaces /\ x.next # "completing"
  BY <1>0, <1>1, PlaceNames DEF Compiled, CompilePlaces, TaskPlaces, ThreadType, Resting, NoTask
<1>4. th' = Moved(g, a, where)
  BY <1>0, <1>1 DEF Compiled
<1> HIDE DEF where, x
<1>5. /\ g \in [Threads -> ThreadType] /\ g[a] = x
      /\ \A b \in Threads \ {a} : AloneOrWoken(g, b)
  BY <1>0, <1>1, <1>2, NotifiedAlone DEF AloneOrWoken
<1> HIDE DEF g
<1>6. /\ Steps(a) /\ th'[a].gen \in 0 .. live /\ th'[a].pc = where
      /\ where # "idle" => /\ th'[a].task = x.task /\ th'[a].gen = x.gen
                           /\ th'[a].src = x.src
  BY <1>0, <1>1, <1>2, <1>3, <1>4, <1>5, Advance
<1>7. /\ parked' \in [Keys -> EvictionType]
      /\ record' \in [Keys -> SomeTask] /\ shader' \in [Tasks -> Outcomes]
      /\ task' \in [Tasks -> {"none", "available", "inProgress", "processed"}]
      /\ watcher' \in WatcherType
      /\ watcher.pc' \in {"parking", "evicting", "releasing"} => watcher.key' \in Keys
      /\ live' = live /\ seen' = seen /\ seen \in 0 .. source /\ source' = source
      /\ taskGen' \in [Tasks -> 0 .. live] /\ watcher.read' = watcher.read
  BY <1>1, Empties DEF Compiled, TypeOK, books, world, bounds
<1>8. \A k \in Keys : Owns(a, k) => Owns(a, k)' /\ th'[a].gen = th[a].gen
  BY <1>6, <1>12 DEF Owns, Key, x, where
<1>9. map' = map /\ map \in [Keys -> EntryType] /\ seen \in Nat /\ source >= seen
  BY <1>1 DEF TypeOK, Compiled
<1>13. TypeOK' /\ PendingHasOwner'
  <2>1. TypeOK'
    BY <1>0, <1>1, <1>6, <1>7, <1>9, TypeFromSteps
  <2>2. PendingHasOwner'
    BY <1>0, <1>1, <1>6, <1>8, <1>9, PendingKept DEF IInv
  <2> QED BY <2>1, <2>2
<1>14. GenerationsArePast'
  <2>1. GenerationsArePast
    BY DEF IInv
  <2>2. ASSUME NEW b \in Threads PROVE th'[b].gen <= live
    <3>1. CASE b = a
      BY <1>1, <1>6, <3>1
    <3>2. CASE b # a
      BY <1>0, <1>1, <1>6, <2>1, <3>2, OthersStay DEF GenerationsArePast
    <3> QED BY <3>1, <3>2
  <2> QED BY <1>1, <1>7, <1>9, <2>1, <2>2 DEF GenerationsArePast
<1>15. CurrentWorkIsFresh'
  <2>1. CurrentWorkIsFresh
    BY DEF IInv
  <2>2. ASSUME NamedForType, NEW b \in Threads, th'[b].pc = "publishing",
               th'[b].gen = live', th'[b].src # Nothing
        PROVE  th'[b].src >= seen'
    <3>1. CASE b = a
      BY <1>6, <1>7, <1>9, <2>2, <3>1 DEF x, where
    <3>2. CASE b # a
      <4>1. /\ th[b].pc = "publishing" /\ th[b].gen = live
            /\ th'[b].src = th[b].src
        BY <1>0, <1>1, <1>6, <1>7, <2>2, <3>2, OthersStay
      <4> QED BY <1>7, <2>1, <2>2, <4>1 DEF CurrentWorkIsFresh
    <3> QED BY <3>1, <3>2
  <2> QED BY <2>2 DEF CurrentWorkIsFresh
<1>16. StaleCompilesAreDiscarded'
  BY <1>7, <1>9 DEF IInv, StaleCompilesAreDiscarded
<1> QED BY <1>13, <1>14, <1>15, <1>16 DEF IInv

\* CompileShader preserves the invariant.
LEMMA CompileShaderStep ==
    ASSUME IInv, NEW a \in Threads, CompileShader(a)
    PROVE  IInv'
BY CompiledStep DEF CompileShader, Compiled

\* Resolve preserves the invariant.
LEMMA ResolveStep ==
    ASSUME IInv, NEW w \in Workers, ResolvePendingFailure(w)
    PROVE  IInv'
<1>0. w \in Threads /\ th[w].pc # "waiting"
  BY PlaceNames DEF ResolvePendingFailure
<1>1. /\ TypeOK /\ th \in [Threads -> ThreadType] /\ th[w] \in ThreadType
      /\ live \in Nat /\ th[w].gen \in 0 .. live /\ taskGen \in [Tasks -> 0 .. live]
      /\ source \in source .. MaxEdits /\ watcher.read \in 0 .. source
      /\ th[w].pc \in CompilePlaces \cup TaskPlaces => th[w].task \in Tasks
      /\ w = Main => th[w].next # "completing"
  BY <1>0, Known
<1>11. Key(w) \in Keys
  BY <1>0, <1>1, TasksHaveKeys DEF ResolvePendingFailure, Key, TaskPlaces
<1> DEFINE f == IF map' # map THEN Notified(th) ELSE th
<1>12. /\ f \in [Threads -> ThreadType] /\ f[w] = th[w]
       /\ \A b \in Threads : AloneOrWoken(f, b)
  BY <1>0, <1>1, NotifiedAlone DEF AloneOrWoken
<1> HIDE DEF f
<1> DEFINE x == [th[w] EXCEPT !.next = "completing"]
<1> DEFINE where == "applying"
<1> DEFINE g == [f EXCEPT ![w] = x]
<1>2. x \in ThreadType /\ x.gen \in 0 .. live
  BY <1>0, <1>1, PlaceNames, RestingIsLawful DEF ResolvePendingFailure, CompilePlaces, TaskPlaces, ThreadType, TypeOK, EntryType, SomeTask
<1>3. /\ where \in Places \ {"publishing"}
      /\ where \in CompilePlaces \cup TaskPlaces => x.task \in Tasks
      /\ w = Main => where \notin TaskPlaces /\ x.next # "completing"
  BY <1>0, <1>1, PlaceNames DEF ResolvePendingFailure, CompilePlaces, TaskPlaces, ThreadType, Resting, NoTask
<1>4. th' = Moved(g, w, where)
  <2>1. th' = Moved([f EXCEPT ![w].next = "completing"], w, "applying")
    BY DEF ResolvePendingFailure, f
  <2>2. g = [f EXCEPT ![w].next = "completing"]
    BY <1>0, <1>12
  <2> QED BY <2>1, <2>2
<1> HIDE DEF where, x
<1>5. /\ g \in [Threads -> ThreadType] /\ g[w] = x
      /\ \A b \in Threads \ {w} : AloneOrWoken(g, b)
  BY <1>0, <1>2, <1>12 DEF AloneOrWoken
<1> HIDE DEF g
<1>6. /\ Steps(w) /\ th'[w].gen \in 0 .. live /\ th'[w].pc = where
      /\ where # "idle" => /\ th'[w].task = x.task /\ th'[w].gen = x.gen
                           /\ th'[w].src = x.src
  BY <1>0, <1>1, <1>2, <1>3, <1>4, <1>5, Advance
<1>7. /\ parked' \in [Keys -> EvictionType]
      /\ record' \in [Keys -> SomeTask] /\ shader' \in [Tasks -> Outcomes]
      /\ task' \in [Tasks -> {"none", "available", "inProgress", "processed"}]
      /\ watcher' \in WatcherType
      /\ watcher.pc' \in {"parking", "evicting", "releasing"} => watcher.key' \in Keys
      /\ live' = live /\ seen' = seen /\ seen \in 0 .. source /\ source' = source
      /\ taskGen' \in [Tasks -> 0 .. live] /\ watcher.read' = watcher.read
  BY <1>1, Empties DEF ResolvePendingFailure, TypeOK, books, world, bounds
<1>8. \A k \in Keys : \/ map'[k] = map[k]
                      \/ map'[k].status \in {"absent", "failed"} /\ map'[k].gen <= live
  BY <1>1, <1>11 DEF ResolvePendingFailure, TryPublish, Entry, NoEntry, TypeOK
<1>9. map' \in [Keys -> EntryType]
  <2>1. map \in [Keys -> EntryType] /\ Entry("failed", live, Nothing) \in EntryType
    BY <1>1, Empties DEF TypeOK, Entry, EntryType
  <2> QED BY <2>1, Empties DEF ResolvePendingFailure, TryPublish
<1>10. \A k \in Keys : ~(Owns(w, k) /\ map'[k].status = "pending" /\ th[w].gen = map[k].gen)
  BY <1>1, <1>11 DEF ResolvePendingFailure, TryPublish, Owns, IsPending, Entry, NoEntry, TypeOK
<1> QED BY <1>0, <1>1, <1>3, <1>6, <1>7, <1>8, <1>9, <1>10, QuietStep

\* Publish preserves the invariant.
LEMMA PublishStep ==
    ASSUME IInv, NEW a \in Threads, Publish(a)
    PROVE  IInv'
<1>0. a \in Threads /\ th[a].pc # "waiting"
  BY PlaceNames DEF Publish
<1>1. /\ TypeOK /\ th \in [Threads -> ThreadType] /\ th[a] \in ThreadType
      /\ live \in Nat /\ th[a].gen \in 0 .. live /\ taskGen \in [Tasks -> 0 .. live]
      /\ source \in source .. MaxEdits /\ watcher.read \in 0 .. source
      /\ th[a].pc \in CompilePlaces \cup TaskPlaces => th[a].task \in Tasks
      /\ a = Main => th[a].next # "completing"
  BY <1>0, Known
<1>11. Key(a) \in Keys
  BY <1>0, <1>1, TasksHaveKeys DEF Publish, Key, CompilePlaces
<1> DEFINE f == IF Wakes(a) THEN Notified(th) ELSE th
           after == IF th[a].gen = live /\ th[a].src # Nothing THEN "building" ELSE Finished(a)
<1>12. /\ f \in [Threads -> ThreadType] /\ f[a] = th[a]
       /\ \A b \in Threads : AloneOrWoken(f, b)
       /\ after \in {"building", "idle", "completing"}
       /\ a = Main => after # "completing"
  BY <1>0, <1>1, PlaceNames, NotifiedAlone DEF AloneOrWoken
<1>18. th' = Moved([f EXCEPT ![a].next = after], a,
                  IF th[a].gen = live THEN "recording" ELSE "applying")
  BY DEF Publish
<1> HIDE DEF f, after
<1> DEFINE x == [th[a] EXCEPT !.next = after]
<1> DEFINE where == IF th[a].gen = live THEN "recording" ELSE "applying"
<1> DEFINE g == [f EXCEPT ![a] = x]
<1>2. x \in ThreadType /\ x.gen \in 0 .. live
  BY <1>0, <1>1, <1>12, PlaceNames, RestingIsLawful DEF Publish, CompilePlaces, TaskPlaces, ThreadType, TypeOK, EntryType, SomeTask
<1>3. /\ where \in Places \ {"publishing"}
      /\ where \in CompilePlaces \cup TaskPlaces => x.task \in Tasks
      /\ a = Main => where \notin TaskPlaces /\ x.next # "completing"
  BY <1>0, <1>1, <1>12, PlaceNames DEF Publish, CompilePlaces, TaskPlaces, ThreadType, Resting, NoTask
<1>4. th' = Moved(g, a, where)
  <2>1. g = [f EXCEPT ![a].next = after]
    BY <1>0, <1>12
  <2> QED BY <2>1, <1>18
<1> HIDE DEF where, x
<1>5. /\ g \in [Threads -> ThreadType] /\ g[a] = x
      /\ \A b \in Threads \ {a} : AloneOrWoken(g, b)
  BY <1>0, <1>2, <1>12 DEF AloneOrWoken
<1> HIDE DEF g
<1>6. /\ Steps(a) /\ th'[a].gen \in 0 .. live /\ th'[a].pc = where
      /\ where # "idle" => /\ th'[a].task = x.task /\ th'[a].gen = x.gen
                           /\ th'[a].src = x.src
  BY <1>0, <1>1, <1>2, <1>3, <1>4, <1>5, Advance
<1>7. /\ parked' \in [Keys -> EvictionType]
      /\ record' \in [Keys -> SomeTask] /\ shader' \in [Tasks -> Outcomes]
      /\ task' \in [Tasks -> {"none", "available", "inProgress", "processed"}]
      /\ watcher' \in WatcherType
      /\ watcher.pc' \in {"parking", "evicting", "releasing"} => watcher.key' \in Keys
      /\ live' = live /\ seen' = seen /\ seen \in 0 .. source /\ source' = source
      /\ taskGen' \in [Tasks -> 0 .. live] /\ watcher.read' = watcher.read
  BY <1>1, Empties DEF Publish, TypeOK, books, world, bounds
<1> DEFINE entry == Entry(IF th[a].src = Nothing THEN "failed" ELSE "completed", live, th[a].src)
<1>8. map' = TryPublish(a, entry)
  BY DEF Publish
<1>9. /\ entry \in EntryType /\ entry.gen = live /\ entry.src = th[a].src
      /\ entry.status = IF th[a].src = Nothing THEN "failed" ELSE "completed"
  BY <1>1 DEF Entry, EntryType, ThreadType
<1> HIDE DEF entry
<1>10. PICK k \in Keys : k = Key(a)
  BY <1>11
<1>13. map \in [Keys -> EntryType]
  BY <1>1 DEF TypeOK
<1>14. /\ map' \in [Keys -> EntryType]
       /\ \A l \in Keys \ {k} : map'[l] = map[l]
       /\ th[a].gen = live => map'[k] = entry
       /\ th[a].gen # live => \/ map'[k] = map[k] /\ ~(IsPending(k) /\ map[k].gen = th[a].gen)
                              \/ map'[k] = NoEntry
  BY <1>8, <1>9, <1>10, <1>13, Empties DEF TryPublish
<1>15. \A l \in Keys : ~(Owns(a, l) /\ map'[l].status = "pending" /\ th[a].gen = map[l].gen)
  BY <1>9, <1>10, <1>14 DEF Owns, IsPending, NoEntry
<1>16. CASE th[a].gen # live \/ th[a].src = Nothing
  <2>1. \A l \in Keys : \/ map'[l] = map[l]
                        \/ map'[l].status \in {"absent", "failed"} /\ map'[l].gen <= live
    BY <1>1, <1>9, <1>14, <1>16 DEF NoEntry
  <2> QED BY <1>0, <1>1, <1>3, <1>6, <1>7, <1>14, <1>15, <2>1, QuietStep
<1>17. CASE th[a].gen = live /\ th[a].src # Nothing
  <2>1. TypeOK'
    BY <1>0, <1>1, <1>6, <1>7, <1>14, TypeFromSteps
  <2>2. \A l \in Keys : map'[l].status = "pending" => map'[l] = map[l]
    BY <1>9, <1>14, <1>17
  <2>3. PendingHasOwner'
    BY <1>0, <1>1, <1>6, <1>15, <2>2, PendingKept DEF IInv
  <2>4. Fresh
    BY DEF IInv, Fresh
  <2>5. GenerationsArePast'
    <3>1. \A b \in Threads : th'[b].gen <= live
      <4>1. ASSUME NEW b \in Threads PROVE th'[b].gen <= live
        <5>1. CASE b = a
          BY <1>1, <1>6, <5>1
        <5>2. CASE b # a
          BY <1>0, <1>1, <1>6, <2>4, <5>2, OthersStay DEF Fresh, GenerationsArePast
        <5> QED BY <5>1, <5>2
      <4> QED BY <4>1
    <3>2. \A l \in Keys : map'[l].gen <= live
      BY <1>1, <1>9, <1>14, <1>17, <2>4 DEF Fresh, GenerationsArePast
    <3> QED BY <1>1, <1>7, <3>1, <3>2 DEF GenerationsArePast
  <2>6. CurrentWorkIsFresh'
    <3>1. ASSUME NEW b \in Threads, th'[b].pc = "publishing" PROVE b # a
      BY <1>3, <1>6, <3>1
    <3> QED BY <1>0, <1>1, <1>6, <1>7, <2>4, <3>1, OthersStay DEF Fresh, CurrentWorkIsFresh
  <2>7. StaleCompilesAreDiscarded'
    <3>1. NamedForType => th[a].src >= seen
      BY <1>0, <1>17, <2>4 DEF Fresh, CurrentWorkIsFresh, Publish
    <3>2. \A l \in Keys \ {k} : NamedForType /\ map'[l].status = "completed" /\ map'[l].gen = live
                                  => map'[l].src >= seen
      BY <1>14, <2>4 DEF Fresh, StaleCompilesAreDiscarded
    <3> QED BY <1>7, <1>9, <1>14, <1>17, <3>1, <3>2 DEF StaleCompilesAreDiscarded
  <2> QED BY <2>1, <2>3, <2>5, <2>6, <2>7 DEF IInv
<1> QED BY <1>16, <1>17
-----------------------------------------------------------------------------
(* The steps that leave the threads where they are, or only wake them.     *)

\* Request preserves the invariant.
LEMMA RequestStep ==
    ASSUME IInv, NEW t \in Tasks, Request(t)
    PROVE  IInv'
<1>1. th' = th \/ th' = Notified(th)
  BY DEF Request
<1>2. /\ Main \in Threads /\ Steps(Main) /\ th'[Main].gen <= live
      /\ th'[Main].pc = "publishing" => th'[Main] = th[Main]
      /\ \A k \in Keys : Owns(Main, k) => Owns(Main, k)' /\ th'[Main].gen = th[Main].gen
  BY <1>1, ThreadsStay
<1>3. /\ TypeOK /\ live \in Nat /\ taskGen \in [Tasks -> 0 .. live]
      /\ source \in source .. MaxEdits /\ watcher.read \in 0 .. source
  BY <1>2, Known
<1>4. /\ source \in 0 .. MaxEdits /\ seen \in 0 .. source /\ watcher \in WatcherType
      /\ map \in [Keys -> EntryType] /\ parked \in [Keys -> EvictionType]
      /\ record \in [Keys -> SomeTask] /\ shader \in [Tasks -> Outcomes]
      /\ task \in [Tasks -> {"none", "available", "inProgress", "processed"}]
      /\ watcher.pc \in {"parking", "evicting", "releasing"} => watcher.key \in Keys
  BY <1>3 DEF TypeOK
<1>5. /\ map' \in [Keys -> EntryType] /\ parked' \in [Keys -> EvictionType]
      /\ record' \in [Keys -> SomeTask] /\ shader' \in [Tasks -> Outcomes]
      /\ task' \in [Tasks -> {"none", "available", "inProgress", "processed"}]
  BY <1>3, <1>4, Empties DEF Request, books, world, bounds
<1>6. /\ watcher' \in WatcherType
      /\ watcher.pc' \in {"parking", "evicting", "releasing"} => watcher.key' \in Keys
      /\ watcher.read' \in 0 .. source'
  BY <1>3, <1>4 DEF Request, books, world, bounds
<1>7. \A k \in Keys : map'[k] = map[k] \/ map'[k] = NoEntry
  BY <1>4 DEF Request
<1>8. /\ live' = live /\ source' \in source .. MaxEdits /\ seen' = seen
      /\ taskGen' \in [Tasks -> 0 .. live]
  BY <1>3, <1>4, BoundIsNatural DEF Request, books, world
<1>9. \A k \in Keys : map'[k] = map[k] \/ (map'[k].status = "absent" /\ map'[k].gen <= live)
  BY <1>3, <1>7 DEF NoEntry
<1> QED BY <1>2, <1>3, <1>5, <1>6, <1>8, <1>9, QuietStep

\* ClearType preserves the invariant.
LEMMA ClearTypeStep ==
    ASSUME IInv, MainClearsType
    PROVE  IInv'
<1>1. th' = th \/ th' = Notified(th)
  BY DEF MainClearsType, ClearType, EmptyMap, NoShaders, NoTasks
<1>2. /\ Main \in Threads /\ Steps(Main) /\ th'[Main].gen <= live
      /\ th'[Main].pc = "publishing" => th'[Main] = th[Main]
      /\ \A k \in Keys : Owns(Main, k) => Owns(Main, k)' /\ th'[Main].gen = th[Main].gen
  BY <1>1, ThreadsStay
<1>3. /\ TypeOK /\ live \in Nat /\ taskGen \in [Tasks -> 0 .. live]
      /\ source \in source .. MaxEdits /\ watcher.read \in 0 .. source
  BY <1>2, Known
<1>4. /\ source \in 0 .. MaxEdits /\ seen \in 0 .. source /\ watcher \in WatcherType
      /\ map \in [Keys -> EntryType] /\ parked \in [Keys -> EvictionType]
      /\ record \in [Keys -> SomeTask] /\ shader \in [Tasks -> Outcomes]
      /\ task \in [Tasks -> {"none", "available", "inProgress", "processed"}]
      /\ watcher.pc \in {"parking", "evicting", "releasing"} => watcher.key \in Keys
  BY <1>3 DEF TypeOK
<1>5. /\ map' \in [Keys -> EntryType] /\ parked' \in [Keys -> EvictionType]
      /\ record' \in [Keys -> SomeTask] /\ shader' \in [Tasks -> Outcomes]
      /\ task' \in [Tasks -> {"none", "available", "inProgress", "processed"}]
  BY <1>3, <1>4, Empties DEF MainClearsType, ClearType, EmptyMap, NoShaders, NoTasks, books, world, bounds
<1>6. /\ watcher' \in WatcherType
      /\ watcher.pc' \in {"parking", "evicting", "releasing"} => watcher.key' \in Keys
      /\ watcher.read' \in 0 .. source'
  BY <1>3, <1>4 DEF MainClearsType, ClearType, EmptyMap, NoShaders, NoTasks, books, world, bounds
<1>7. \A k \in Keys : map'[k] = map[k] \/ map'[k] = NoEntry
  BY <1>4 DEF MainClearsType, ClearType, EmptyMap, NoShaders, NoTasks
<1>8. /\ live' = live + 1 /\ source' = source /\ seen' \in 0 .. source
      /\ parked' = parked /\ taskGen' = taskGen
  BY <1>3, <1>4 DEF MainClearsType, ClearType, EmptyMap, NoShaders, NoTasks, books, world
<1> QED BY <1>2, <1>3, <1>5, <1>6, <1>7, <1>8, BumpStep

\* Edit preserves the invariant.
LEMMA EditStep ==
    ASSUME IInv, Edit
    PROVE  IInv'
<1>1. th' = th \/ th' = Notified(th)
  BY DEF Edit
<1>2. /\ Main \in Threads /\ Steps(Main) /\ th'[Main].gen <= live
      /\ th'[Main].pc = "publishing" => th'[Main] = th[Main]
      /\ \A k \in Keys : Owns(Main, k) => Owns(Main, k)' /\ th'[Main].gen = th[Main].gen
  BY <1>1, ThreadsStay
<1>3. /\ TypeOK /\ live \in Nat /\ taskGen \in [Tasks -> 0 .. live]
      /\ source \in source .. MaxEdits /\ watcher.read \in 0 .. source
  BY <1>2, Known
<1>4. /\ source \in 0 .. MaxEdits /\ seen \in 0 .. source /\ watcher \in WatcherType
      /\ map \in [Keys -> EntryType] /\ parked \in [Keys -> EvictionType]
      /\ record \in [Keys -> SomeTask] /\ shader \in [Tasks -> Outcomes]
      /\ task \in [Tasks -> {"none", "available", "inProgress", "processed"}]
      /\ watcher.pc \in {"parking", "evicting", "releasing"} => watcher.key \in Keys
  BY <1>3 DEF TypeOK
<1>5. /\ map' \in [Keys -> EntryType] /\ parked' \in [Keys -> EvictionType]
      /\ record' \in [Keys -> SomeTask] /\ shader' \in [Tasks -> Outcomes]
      /\ task' \in [Tasks -> {"none", "available", "inProgress", "processed"}]
  BY <1>3, <1>4, Empties DEF Edit, books, world, bounds
<1>6. /\ watcher' \in WatcherType
      /\ watcher.pc' \in {"parking", "evicting", "releasing"} => watcher.key' \in Keys
      /\ watcher.read' \in 0 .. source'
  BY <1>3, <1>4 DEF Edit, books, world, bounds
<1>7. \A k \in Keys : map'[k] = map[k] \/ map'[k] = NoEntry
  BY <1>4 DEF Edit
<1>8. /\ live' = live /\ source' \in source .. MaxEdits /\ seen' = seen
      /\ taskGen' \in [Tasks -> 0 .. live]
  BY <1>3, <1>4, BoundIsNatural DEF Edit, books, world
<1>9. \A k \in Keys : map'[k] = map[k] \/ (map'[k].status = "absent" /\ map'[k].gen <= live)
  BY <1>3, <1>7 DEF NoEntry
<1> QED BY <1>2, <1>3, <1>5, <1>6, <1>8, <1>9, QuietStep

\* ClearTypeInstead preserves the invariant.
LEMMA ClearTypeInsteadStep ==
    ASSUME IInv, ClearTypeInstead
    PROVE  IInv'
<1>1. th' = th \/ th' = Notified(th)
  BY DEF ClearTypeInstead, ClearType, EmptyMap, NoShaders, NoTasks
<1>2. /\ Main \in Threads /\ Steps(Main) /\ th'[Main].gen <= live
      /\ th'[Main].pc = "publishing" => th'[Main] = th[Main]
      /\ \A k \in Keys : Owns(Main, k) => Owns(Main, k)' /\ th'[Main].gen = th[Main].gen
  BY <1>1, ThreadsStay
<1>3. /\ TypeOK /\ live \in Nat /\ taskGen \in [Tasks -> 0 .. live]
      /\ source \in source .. MaxEdits /\ watcher.read \in 0 .. source
  BY <1>2, Known
<1>4. /\ source \in 0 .. MaxEdits /\ seen \in 0 .. source /\ watcher \in WatcherType
      /\ map \in [Keys -> EntryType] /\ parked \in [Keys -> EvictionType]
      /\ record \in [Keys -> SomeTask] /\ shader \in [Tasks -> Outcomes]
      /\ task \in [Tasks -> {"none", "available", "inProgress", "processed"}]
      /\ watcher.pc \in {"parking", "evicting", "releasing"} => watcher.key \in Keys
  BY <1>3 DEF TypeOK
<1>5. /\ map' \in [Keys -> EntryType] /\ parked' \in [Keys -> EvictionType]
      /\ record' \in [Keys -> SomeTask] /\ shader' \in [Tasks -> Outcomes]
      /\ task' \in [Tasks -> {"none", "available", "inProgress", "processed"}]
  BY <1>3, <1>4, Empties DEF ClearTypeInstead, ClearType, EmptyMap, NoShaders, NoTasks, books, world, bounds
<1>6. /\ watcher' \in WatcherType
      /\ watcher.pc' \in {"parking", "evicting", "releasing"} => watcher.key' \in Keys
      /\ watcher.read' \in 0 .. source'
  <2>1. Watching \in WatcherType /\ Watching.pc = "idle" /\ Watching.read = 0
    BY <1>4, BoundIsNatural DEF Watching, WatcherType, SomeTask
  <2> QED BY <1>3, <1>4, <2>1 DEF ClearTypeInstead
<1>7. \A k \in Keys : map'[k] = map[k] \/ map'[k] = NoEntry
  BY <1>4 DEF ClearTypeInstead, ClearType, EmptyMap, NoShaders, NoTasks
<1>8. /\ live' = live + 1 /\ source' = source /\ seen' \in 0 .. source
      /\ parked' = parked /\ taskGen' = taskGen
  BY <1>3, <1>4 DEF ClearTypeInstead, ClearType, EmptyMap, NoShaders, NoTasks, books, world
<1> QED BY <1>2, <1>3, <1>5, <1>6, <1>7, <1>8, BumpStep

\* TryDefer preserves the invariant.
LEMMA TryDeferStep ==
    ASSUME IInv, NEW l \in Keys, TryDefer(l)
    PROVE  IInv'
<1>1. th' = th \/ th' = Notified(th)
  BY DEF TryDefer
<1>2. /\ Main \in Threads /\ Steps(Main) /\ th'[Main].gen <= live
      /\ th'[Main].pc = "publishing" => th'[Main] = th[Main]
      /\ \A k \in Keys : Owns(Main, k) => Owns(Main, k)' /\ th'[Main].gen = th[Main].gen
  BY <1>1, ThreadsStay
<1>3. /\ TypeOK /\ live \in Nat /\ taskGen \in [Tasks -> 0 .. live]
      /\ source \in source .. MaxEdits /\ watcher.read \in 0 .. source
  BY <1>2, Known
<1>4. /\ source \in 0 .. MaxEdits /\ seen \in 0 .. source /\ watcher \in WatcherType
      /\ map \in [Keys -> EntryType] /\ parked \in [Keys -> EvictionType]
      /\ record \in [Keys -> SomeTask] /\ shader \in [Tasks -> Outcomes]
      /\ task \in [Tasks -> {"none", "available", "inProgress", "processed"}]
      /\ watcher.pc \in {"parking", "evicting", "releasing"} => watcher.key \in Keys
  BY <1>3 DEF TypeOK
<1>5. /\ map' \in [Keys -> EntryType] /\ parked' \in [Keys -> EvictionType]
      /\ record' \in [Keys -> SomeTask] /\ shader' \in [Tasks -> Outcomes]
      /\ task' \in [Tasks -> {"none", "available", "inProgress", "processed"}]
  BY <1>3, <1>4, Empties DEF TryDefer, books, world, bounds
<1>6. /\ watcher' \in WatcherType
      /\ watcher.pc' \in {"parking", "evicting", "releasing"} => watcher.key' \in Keys
      /\ watcher.read' \in 0 .. source'
  <2>1. [watcher EXCEPT !.pc = "parking", !.key = l,
                        !.wait = task[watcher.records[l]] = "inProgress"] \in WatcherType
    BY <1>4 DEF WatcherType
  <2> QED BY <1>3, <1>4, <2>1 DEF TryDefer, WatcherType, world
<1>7. \A k \in Keys : map'[k] = map[k] \/ map'[k] = NoEntry
  BY <1>4 DEF TryDefer
<1>8. /\ live' = live /\ source' \in source .. MaxEdits /\ seen' = seen
      /\ taskGen' \in [Tasks -> 0 .. live]
  BY <1>3, <1>4, BoundIsNatural DEF TryDefer, books, world
<1>9. \A k \in Keys : map'[k] = map[k] \/ (map'[k].status = "absent" /\ map'[k].gen <= live)
  BY <1>3, <1>7 DEF NoEntry
<1> QED BY <1>2, <1>3, <1>5, <1>6, <1>8, <1>9, QuietStep

\* Park preserves the invariant.
LEMMA ParkStep ==
    ASSUME IInv, Park
    PROVE  IInv'
<1>1. th' = th \/ th' = Notified(th)
  BY DEF Park
<1>2. /\ Main \in Threads /\ Steps(Main) /\ th'[Main].gen <= live
      /\ th'[Main].pc = "publishing" => th'[Main] = th[Main]
      /\ \A k \in Keys : Owns(Main, k) => Owns(Main, k)' /\ th'[Main].gen = th[Main].gen
  BY <1>1, ThreadsStay
<1>3. /\ TypeOK /\ live \in Nat /\ taskGen \in [Tasks -> 0 .. live]
      /\ source \in source .. MaxEdits /\ watcher.read \in 0 .. source
  BY <1>2, Known
<1>4. /\ source \in 0 .. MaxEdits /\ seen \in 0 .. source /\ watcher \in WatcherType
      /\ map \in [Keys -> EntryType] /\ parked \in [Keys -> EvictionType]
      /\ record \in [Keys -> SomeTask] /\ shader \in [Tasks -> Outcomes]
      /\ task \in [Tasks -> {"none", "available", "inProgress", "processed"}]
      /\ watcher.pc \in {"parking", "evicting", "releasing"} => watcher.key \in Keys
  BY <1>3 DEF TypeOK
<1>5. /\ map' \in [Keys -> EntryType] /\ parked' \in [Keys -> EvictionType]
      /\ record' \in [Keys -> SomeTask] /\ shader' \in [Tasks -> Outcomes]
      /\ task' \in [Tasks -> {"none", "available", "inProgress", "processed"}]
  BY <1>3, <1>4, Empties DEF Park, books, world, bounds, EvictionType, WatcherType
<1>6. /\ watcher' \in WatcherType
      /\ watcher.pc' \in {"parking", "evicting", "releasing"} => watcher.key' \in Keys
      /\ watcher.read' \in 0 .. source'
  <2>1. NextRecord \in WatcherType /\ NextRecord.pc = "scanning" /\ NextRecord.read = watcher.read
    BY <1>4 DEF NextRecord, WatcherType
  <2> QED BY <1>3, <1>4, <2>1 DEF Park, WatcherType, world
<1>7. \A k \in Keys : map'[k] = map[k] \/ map'[k] = NoEntry
  BY <1>4 DEF Park
<1>8. /\ live' = live /\ source' \in source .. MaxEdits /\ seen' = seen
      /\ taskGen' \in [Tasks -> 0 .. live]
  BY <1>3, <1>4, BoundIsNatural DEF Park, books, world
<1>9. \A k \in Keys : map'[k] = map[k] \/ (map'[k].status = "absent" /\ map'[k].gen <= live)
  BY <1>3, <1>7 DEF NoEntry
<1> QED BY <1>2, <1>3, <1>5, <1>6, <1>8, <1>9, QuietStep

\* WatcherEvicts preserves the invariant.
LEMMA WatcherEvictsStep ==
    ASSUME IInv, WatcherEvicts
    PROVE  IInv'
<1>1. th' = th \/ th' = Notified(th)
  BY DEF WatcherEvicts
<1>2. /\ Main \in Threads /\ Steps(Main) /\ th'[Main].gen <= live
      /\ th'[Main].pc = "publishing" => th'[Main] = th[Main]
      /\ \A k \in Keys : Owns(Main, k) => Owns(Main, k)' /\ th'[Main].gen = th[Main].gen
  BY <1>1, ThreadsStay
<1>3. /\ TypeOK /\ live \in Nat /\ taskGen \in [Tasks -> 0 .. live]
      /\ source \in source .. MaxEdits /\ watcher.read \in 0 .. source
  BY <1>2, Known
<1>4. /\ source \in 0 .. MaxEdits /\ seen \in 0 .. source /\ watcher \in WatcherType
      /\ map \in [Keys -> EntryType] /\ parked \in [Keys -> EvictionType]
      /\ record \in [Keys -> SomeTask] /\ shader \in [Tasks -> Outcomes]
      /\ task \in [Tasks -> {"none", "available", "inProgress", "processed"}]
      /\ watcher.pc \in {"parking", "evicting", "releasing"} => watcher.key \in Keys
  BY <1>3 DEF TypeOK
<1>5. /\ map' \in [Keys -> EntryType] /\ parked' \in [Keys -> EvictionType]
      /\ record' \in [Keys -> SomeTask] /\ shader' \in [Tasks -> Outcomes]
      /\ task' \in [Tasks -> {"none", "available", "inProgress", "processed"}]
  BY <1>3, <1>4, Empties DEF WatcherEvicts, books, world, bounds
<1>6. /\ watcher' \in WatcherType
      /\ watcher.pc' \in {"parking", "evicting", "releasing"} => watcher.key' \in Keys
      /\ watcher.read' \in 0 .. source'
  BY <1>3, <1>4 DEF WatcherEvicts, WatcherType, world
<1>7. \A k \in Keys : map'[k] = map[k] \/ map'[k] = NoEntry
  BY <1>4 DEF WatcherEvicts
<1>8. /\ live' = live /\ source' \in source .. MaxEdits /\ seen' = seen
      /\ taskGen' \in [Tasks -> 0 .. live]
  BY <1>3, <1>4, BoundIsNatural DEF WatcherEvicts, books, world
<1>9. \A k \in Keys : map'[k] = map[k] \/ (map'[k].status = "absent" /\ map'[k].gen <= live)
  BY <1>3, <1>7 DEF NoEntry
<1> QED BY <1>2, <1>3, <1>5, <1>6, <1>8, <1>9, QuietStep

\* WatcherReleases preserves the invariant.
LEMMA WatcherReleasesStep ==
    ASSUME IInv, WatcherReleases
    PROVE  IInv'
<1>1. th' = th \/ th' = Notified(th)
  BY DEF WatcherReleases
<1>2. /\ Main \in Threads /\ Steps(Main) /\ th'[Main].gen <= live
      /\ th'[Main].pc = "publishing" => th'[Main] = th[Main]
      /\ \A k \in Keys : Owns(Main, k) => Owns(Main, k)' /\ th'[Main].gen = th[Main].gen
  BY <1>1, ThreadsStay
<1>3. /\ TypeOK /\ live \in Nat /\ taskGen \in [Tasks -> 0 .. live]
      /\ source \in source .. MaxEdits /\ watcher.read \in 0 .. source
  BY <1>2, Known
<1>4. /\ source \in 0 .. MaxEdits /\ seen \in 0 .. source /\ watcher \in WatcherType
      /\ map \in [Keys -> EntryType] /\ parked \in [Keys -> EvictionType]
      /\ record \in [Keys -> SomeTask] /\ shader \in [Tasks -> Outcomes]
      /\ task \in [Tasks -> {"none", "available", "inProgress", "processed"}]
      /\ watcher.pc \in {"parking", "evicting", "releasing"} => watcher.key \in Keys
  BY <1>3 DEF TypeOK
<1>5. /\ map' \in [Keys -> EntryType] /\ parked' \in [Keys -> EvictionType]
      /\ record' \in [Keys -> SomeTask] /\ shader' \in [Tasks -> Outcomes]
      /\ task' \in [Tasks -> {"none", "available", "inProgress", "processed"}]
  BY <1>3, <1>4, Empties DEF WatcherReleases, books, world, bounds
<1>6. /\ watcher' \in WatcherType
      /\ watcher.pc' \in {"parking", "evicting", "releasing"} => watcher.key' \in Keys
      /\ watcher.read' \in 0 .. source'
  <2>1. NextRecord \in WatcherType /\ NextRecord.pc = "scanning" /\ NextRecord.read = watcher.read
    BY <1>4 DEF NextRecord, WatcherType
  <2> QED BY <1>3, <1>4, <2>1 DEF WatcherReleases, WatcherType, world
<1>7. \A k \in Keys : map'[k] = map[k] \/ map'[k] = NoEntry
  BY <1>4 DEF WatcherReleases
<1>8. /\ live' = live /\ source' \in source .. MaxEdits /\ seen' = seen
      /\ taskGen' \in [Tasks -> 0 .. live]
  BY <1>3, <1>4, BoundIsNatural DEF WatcherReleases, books, world
<1>9. \A k \in Keys : map'[k] = map[k] \/ (map'[k].status = "absent" /\ map'[k].gen <= live)
  BY <1>3, <1>7 DEF NoEntry
<1> QED BY <1>2, <1>3, <1>5, <1>6, <1>8, <1>9, QuietStep

\* WatcherClearsSet preserves the invariant.
LEMMA WatcherClearsSetStep ==
    ASSUME IInv, WatcherClearsSet
    PROVE  IInv'
<1>1. th' = th \/ th' = Notified(th)
  BY DEF WatcherClearsSet, NoTasks
<1>2. /\ Main \in Threads /\ Steps(Main) /\ th'[Main].gen <= live
      /\ th'[Main].pc = "publishing" => th'[Main] = th[Main]
      /\ \A k \in Keys : Owns(Main, k) => Owns(Main, k)' /\ th'[Main].gen = th[Main].gen
  BY <1>1, ThreadsStay
<1>3. /\ TypeOK /\ live \in Nat /\ taskGen \in [Tasks -> 0 .. live]
      /\ source \in source .. MaxEdits /\ watcher.read \in 0 .. source
  BY <1>2, Known
<1>4. /\ source \in 0 .. MaxEdits /\ seen \in 0 .. source /\ watcher \in WatcherType
      /\ map \in [Keys -> EntryType] /\ parked \in [Keys -> EvictionType]
      /\ record \in [Keys -> SomeTask] /\ shader \in [Tasks -> Outcomes]
      /\ task \in [Tasks -> {"none", "available", "inProgress", "processed"}]
      /\ watcher.pc \in {"parking", "evicting", "releasing"} => watcher.key \in Keys
  BY <1>3 DEF TypeOK
<1>5. /\ map' \in [Keys -> EntryType] /\ parked' \in [Keys -> EvictionType]
      /\ record' \in [Keys -> SomeTask] /\ shader' \in [Tasks -> Outcomes]
      /\ task' \in [Tasks -> {"none", "available", "inProgress", "processed"}]
  BY <1>3, <1>4, Empties DEF WatcherClearsSet, NoTasks, books, world, bounds
<1>6. /\ watcher' \in WatcherType
      /\ watcher.pc' \in {"parking", "evicting", "releasing"} => watcher.key' \in Keys
      /\ watcher.read' \in 0 .. source'
  <2>1. Watching \in WatcherType /\ Watching.pc = "idle" /\ Watching.read = 0
    BY <1>4, BoundIsNatural DEF Watching, WatcherType, SomeTask
  <2> QED BY <1>3, <1>4, <2>1 DEF WatcherClearsSet
<1>7. \A k \in Keys : map'[k] = map[k] \/ map'[k] = NoEntry
  BY <1>4 DEF WatcherClearsSet, NoTasks
<1>8. /\ live' = live + 1 /\ source' = source /\ seen' \in 0 .. source
      /\ parked' = parked /\ taskGen' = taskGen
  BY <1>3, <1>4 DEF WatcherClearsSet, NoTasks, books, world
<1> QED BY <1>2, <1>3, <1>5, <1>6, <1>7, <1>8, BumpStep

\* The edit of a file without a category's name may be over at once.
LEMMA TakeRecordsStep ==
    ASSUME IInv, TakeRecords
    PROVE  IInv'
<1>1. TypeOK
  BY DEF IInv
<1>2. /\ source \in 0 .. MaxEdits /\ seen \in 0 .. source /\ watcher \in WatcherType
      /\ record \in [Keys -> SomeTask]
  BY <1>1 DEF TypeOK
<1>3. record' \in [Keys -> SomeTask]
  BY DEF TakeRecords, SomeTask
<1>4. /\ watcher' \in WatcherType /\ watcher'.read \in 0 .. source
      /\ watcher'.pc \notin {"parking", "evicting", "releasing"}
  <2> DEFINE found == {k \in Keys : record[k] # NoTask}
             next == [Watching EXCEPT !.pc = IF found = {} THEN "fallback" ELSE "scanning",
                                      !.todo = found, !.records = record, !.read = source]
  <2>1. Watching \in WatcherType
    BY <1>2, BoundIsNatural DEF Watching, WatcherType, SomeTask
  <2>2. next \in WatcherType /\ next.read = source /\ next.pc \in {"fallback", "scanning"}
    BY <1>2, <2>1 DEF WatcherType
  <2>3. watcher.read \in 0 .. source
    BY <1>1 DEF TypeOK
  <2>4. CASE UNCHANGED watcher
    BY <1>2, <2>3, <2>4 DEF TakeRecords
  <2>5. CASE watcher' = next
    BY <1>2, <2>2, <2>5
  <2> HIDE DEF next
  <2> QED BY <2>4, <2>5 DEF TakeRecords, next
<1>5. seen' \in 0 .. source /\ (NamedForType => seen' = seen)
  BY <1>2 DEF TakeRecords
<1>6. UNCHANGED <<live, map, parked, shader, task, taskGen, th, source>>
  BY DEF TakeRecords, books
<1>7. TypeOK'
  BY <1>1, <1>3, <1>4, <1>5, <1>6 DEF TypeOK
<1> QED BY <1>5, <1>6, <1>7
       DEF IInv, PendingHasOwner, IsPending, Owns, Key, GenerationsArePast,
           CurrentWorkIsFresh, StaleCompilesAreDiscarded
-----------------------------------------------------------------------------
(* The invariant.                                                          *)

\* The invariant holds initially.
LEMMA InitialInvariant == Init => IInv
<1> SUFFICES ASSUME Init PROVE IInv
  OBVIOUS
<1>1. /\ th \in [Threads -> ThreadType] /\ \A a \in Threads : th[a].pc = "idle" /\ th[a].gen = 0
      /\ \A a \in Threads : th[a].next = "idle"
  <2>1. Resting.pc = "idle" /\ Resting.gen = 0 /\ Resting.next = "idle"
    BY DEF Resting
  <2> QED BY <2>1, RestingIsLawful DEF Init
<1>2. /\ map \in [Keys -> EntryType] /\ parked \in [Keys -> EvictionType]
      /\ shader \in [Tasks -> Outcomes]
      /\ \A k \in Keys : map[k].status = "absent" /\ map[k].gen = 0
  <2>1. NoEntry.status = "absent" /\ NoEntry.gen = 0
    BY DEF NoEntry
  <2> QED BY <2>1, Empties DEF Init
<1>3. watcher \in WatcherType /\ watcher.pc = "idle" /\ watcher.read = 0
  BY BoundIsNatural DEF Init, Watching, WatcherType, SomeTask
<1>4. /\ live = 0 /\ source = 0 /\ seen = 0 /\ record \in [Keys -> SomeTask]
      /\ task \in [Tasks -> {"none", "available", "inProgress", "processed"}]
      /\ taskGen \in [Tasks -> Nat] /\ \A t \in Tasks : taskGen[t] = 0
  BY DEF Init, SomeTask
<1>5. TypeOK
  BY <1>1, <1>2, <1>3, <1>4, BoundIsNatural DEF TypeOK, CompilePlaces, TaskPlaces
<1>6. PendingHasOwner /\ StaleCompilesAreDiscarded
  BY <1>2 DEF PendingHasOwner, IsPending, StaleCompilesAreDiscarded
<1>7. GenerationsArePast /\ CurrentWorkIsFresh
  BY <1>1, <1>2, <1>4 DEF GenerationsArePast, CurrentWorkIsFresh
<1> QED BY <1>5, <1>6, <1>7 DEF IInv

\* Every step preserves the invariant.
LEMMA InvariantIsKept == IInv /\ [Next]_vars => IInv'
<1> SUFFICES ASSUME IInv, [Next]_vars PROVE IInv'
  OBVIOUS
<1>1. ASSUME NEW t \in Tasks, Request(t) \/ Draw(t) \/ \E w \in Workers : Dispatch(w, t)
      PROVE  IInv'
  BY <1>1, RequestStep, DrawStep, DispatchStep
<1>2. ASSUME NEW a \in Threads, Compile(a) PROVE IInv'
  <2>1. CASE ClaimCompilation(a) \/ CompileShader(a) \/ Publish(a) \/ RecordSource(a) \/ Build(a)
    BY <2>1, ClaimStep, CompileShaderStep, PublishStep, RecordSourceStep, BuildStep
  <2>2. CASE \/ ApplyDeferredEviction(a) \/ EvictShader(a) \/ EvictShaderResources(a)
             \/ Forget(a) \/ Unpark(a)
    BY <2>2, ApplyStep, EvictShaderStep, EvictResourcesStep, ForgetStep, UnparkStep
  <2> QED BY <1>2, <2>1, <2>2 DEF Compile
<1>3. ASSUME NEW w \in Workers, Work(w) \/ CompileThrows(w) PROVE IInv'
  BY <1>3, BeginStep, ResolveStep, CompleteStep, CompileThrowsStep DEF Work
<1>4. CASE Clear \/ ClearGoesOn \/ MainClearsType
  BY <1>4, ClearStep, ClearShadersStep, ClearMapStep, ClearRecordsStep, ClearSetStep,
     ClearTypeStep DEF ClearGoesOn
<1>5. CASE Edit \/ Watch
  BY <1>5, EditStep, TakeRecordsStep, ClearTypeInsteadStep, TryDeferStep, ParkStep,
     WatcherEvictsStep, WatcherReleasesStep, WatcherClearsSetStep DEF Watch
<1>6. CASE UNCHANGED vars
  <2>1. UNCHANGED <<live, map, parked, record, shader, task, taskGen, th, watcher, source, seen>>
    BY <1>6 DEF vars, books, world
  <2> QED BY <2>1
         DEF IInv, TypeOK, PendingHasOwner, IsPending, Owns, Key, GenerationsArePast,
             CurrentWorkIsFresh, StaleCompilesAreDiscarded
<1> QED BY <1>1, <1>2, <1>3, <1>4, <1>5, <1>6 DEF Next

\* The invariant holds in every reachable state.
THEOREM InductiveInvariant == Spec => []IInv
<1> QED BY InitialInvariant, InvariantIsKept, PTL DEF Spec

\* Every variable keeps its type: no thread of the main path ends in a place
\* of the pool, no place of a compile is reached without a task.
THEOREM TypeCorrect == Spec => []TypeOK
<1>1. IInv => TypeOK
  BY DEF IInv
<1> QED BY <1>1, InductiveInvariant, PTL

\* ClaimCompilation, TryPublish and ResolvePendingFailure between them leave
\* no pending entry without a compile of its generation that is under way,
\* whatever clears, evictions and exceptions come in between.
THEOREM NoClaimIsOrphaned == Spec => []PendingHasOwner
<1>1. IInv => PendingHasOwner
  BY DEF IInv
<1> QED BY <1>1, InductiveInvariant, PTL

\* GenerationClaim: no bytecode of a source older than the last edit dealt
\* with is in the map under the live generation.
THEOREM NothingStaleIsPublished == Spec => []StaleCompilesAreDiscarded
<1>1. IInv => StaleCompilesAreDiscarded
  BY DEF IInv
<1> QED BY <1>1, InductiveInvariant, PTL
-----------------------------------------------------------------------------
(* A key is compiled once at a time in a generation: the argument rests on *)
(* what an eviction that is parked or under way keeps away from the map.   *)

\* Clear() has emptied the map and not yet begun its second generation.
Emptied == {"clearingRecords", "clearingSet"}

\* It has not, and Clear(path) decides nothing.
Calm == watcher.pc \in {"idle", "fallback"} /\ th[Main].pc \notin Emptied

LiveOwner(a, k) == Owns(a, k) /\ th[a].gen = live

EvictionPlaces == {"evicting", "releasing", "forgetting", "unparking"}
Evicts(a, k) == th[a].pc \in EvictionPlaces /\ Key(a) = k

\* The claim of a live compile is in the map.
ClaimsAreListed ==
    Calm => \A k \in Keys \ forgotten : \A a \in Threads :
        LiveOwner(a, k) => IsPending(k) /\ map[k].gen = live

\* While an eviction is parked nobody claims its key.
ParkedKeysAreQuiet ==
    Calm => \A k \in Keys : IsParked(k) => \A a \in Threads : ~LiveOwner(a, k)

\* An eviction that is carried out is still parked, and carried out once.
EvictionsAreParked ==
    \A k \in Keys \ forgotten : \A a \in Threads : Evicts(a, k) =>
        /\ parked[k].applying
        /\ \A b \in Threads : Evicts(b, k) => b = a

Ownership ==
    /\ ClaimsAreListed
    /\ OneLiveOwner
    /\ ParkedKeysAreQuiet
    /\ EvictionsAreParked
-----------------------------------------------------------------------------
(* What a step of thread a leaves of the others.                           *)

\* The others evict what they evicted, and are in Clear() if they were.
LEMMA OthersEvict ==
    ASSUME TypeOK, NEW a \in Threads, Steps(a), NEW b \in Threads \ {a}
    PROVE  /\ \A k \in Keys : Evicts(b, k)' <=> Evicts(b, k)
           /\ th'[b].pc \in ClearPlaces <=> th[b].pc \in ClearPlaces
<1>1. th[b] \in ThreadType
  BY DEF TypeOK
<1>2. CASE th'[b] = th[b]
  BY <1>2 DEF Evicts, Key
<1>3. CASE th[b].pc = "waiting" /\ th'[b] = [th[b] EXCEPT !.pc = "claiming"]
  <2>1. th'[b].pc = "claiming"
    BY <1>1, <1>3 DEF ThreadType
  <2> QED BY <1>3, <2>1 DEF Evicts, EvictionPlaces, ClearPlaces
<1> QED BY <1>2, <1>3 DEF Steps, AloneOrWoken

\* A thread that neither leaves Emptied nor moves the watcher calms nothing.
LEMMA CalmStays ==
    ASSUME TypeOK, NEW a \in Threads, Steps(a), watcher' = watcher,
           th[a].pc \in Emptied => th'[a].pc \in Emptied
    PROVE  Calm' => Calm
<1>1. Main \in Threads /\ th[Main] \in ThreadType
  BY PlaceNames DEF TypeOK
<1>2. CASE a = Main
  BY <1>2 DEF Calm
<1>3. CASE a # Main /\ th'[Main] = th[Main]
  BY <1>3 DEF Calm
<1>4. CASE th[Main].pc = "waiting"
  BY <1>4 DEF Calm, Emptied
<1> QED BY <1>1, <1>2, <1>3, <1>4 DEF Steps, AloneOrWoken

\* Within a generation the others own what they owned.
LEMMA OthersOwn ==
    ASSUME TypeOK, NEW a \in Threads, Steps(a), live' = live, NEW b \in Threads \ {a}, NEW k \in Keys
    PROVE  LiveOwner(b, k)' <=> LiveOwner(b, k)
BY OthersStay DEF LiveOwner

\* Nobody owns a claim of the generation that has just begun.
LEMMA NoneOwnsNew ==
    ASSUME IInv, live' = live + 1, NEW a \in Threads, Steps(a), th'[a].gen <= live,
           NEW b \in Threads
    PROVE  th'[b].gen < live' /\ \A k : ~LiveOwner(b, k)'
<1>1. TypeOK /\ live \in Nat /\ th[b].gen \in 0 .. live /\ th'[a] \in ThreadType
  BY Known DEF Steps, Lawful
<1>2. th'[b].gen <= live /\ th'[b].gen \in Nat
  BY <1>1, OthersStay DEF ThreadType
<1> QED BY <1>1, <1>2 DEF LiveOwner

\* A step that begins a generation.
LEMMA OwnershipBegins ==
    ASSUME IInv, Ownership, live' = live + 1, NEW a \in Threads, Steps(a), th'[a].gen <= live,
           parked' = parked, forgotten' = forgotten,
           \A k \in Keys : Evicts(a, k)' => Evicts(a, k)
    PROVE  Ownership'
<1>1. \A b \in Threads : th'[b].gen < live' /\ \A k : ~LiveOwner(b, k)'
  BY NoneOwnsNew
<1>2. TypeOK
  BY Known
<1>3. \A b \in Threads, k \in Keys : Evicts(b, k)' => Evicts(b, k)
  BY <1>2, OthersEvict
<1>4. ClaimsAreListed' /\ OneLiveOwner' /\ ParkedKeysAreQuiet'
  BY <1>1 DEF ClaimsAreListed, OneLiveOwner, ParkedKeysAreQuiet, LiveOwner
<1>5. EvictionsAreParked'
  BY <1>3 DEF Ownership, EvictionsAreParked
<1> QED BY <1>4, <1>5 DEF Ownership

\* A step within a generation that makes no claim and parks or lifts no
\* eviction, and that takes no entry of a live claim away.
LEMMA OwnershipStays ==
    ASSUME IInv, Ownership, live' = live, NEW a \in Threads, Steps(a),
           parked' = parked, forgotten' = forgotten,
           Calm' => Calm,
           \A k \in Keys : LiveOwner(a, k)' => LiveOwner(a, k),
           \A k \in Keys \ forgotten :
                Calm /\ map'[k] # map[k] => \A b \in Threads : ~LiveOwner(b, k)',
           \A k \in Keys : Evicts(a, k)' => Evicts(a, k)
    PROVE  Ownership'
<1>1. TypeOK
  BY DEF IInv
<1>2. \A b \in Threads, k \in Keys : LiveOwner(b, k)' => LiveOwner(b, k)
  BY <1>1, OthersOwn
<1>3. \A b \in Threads, k \in Keys : Evicts(b, k)' => Evicts(b, k)
  BY <1>1, OthersEvict
<1>4. ClaimsAreListed'
  BY <1>2 DEF Ownership, ClaimsAreListed, IsPending
<1>5. OneLiveOwner'
  BY <1>2 DEF Ownership, OneLiveOwner, LiveOwner, Calm, Emptied
<1>6. ParkedKeysAreQuiet'
  BY <1>2 DEF Ownership, ParkedKeysAreQuiet, IsParked
<1>7. EvictionsAreParked'
  BY <1>3 DEF Ownership, EvictionsAreParked
<1> QED BY <1>4, <1>5, <1>6, <1>7 DEF Ownership

OwnerPlaces == {"compiling", "publishing", "resolving"}

\* A thread that goes on to another place with its work, and changes at most
\* the entries of nobody's live claim.
LEMMA OwnershipMoves ==
    ASSUME IInv, Ownership, live' = live, NEW a \in Threads, NEW where \in Places,
           Steps(a), th'[a].pc = where, th'[a].gen \in 0 .. live,
           where # "idle" => th'[a].task = th[a].task /\ th'[a].gen = th[a].gen,
           where = "idle" => th'[a].gen = 0,
           parked' = parked, forgotten' = forgotten, watcher' = watcher,
           where \in OwnerPlaces => th[a].pc \in OwnerPlaces,
           where \in EvictionPlaces => th[a].pc \in EvictionPlaces,
           th[a].pc \in Emptied => where \in Emptied,
           \A k \in Keys \ forgotten :
                Calm /\ map'[k] # map[k] => \A b \in Threads : ~LiveOwner(b, k)'
    PROVE  Ownership'
<1>1. TypeOK
  BY Known
<1>2. \A k \in Keys : LiveOwner(a, k)' => LiveOwner(a, k)
  BY DEF LiveOwner, Owns, Key, OwnerPlaces
<1>3. \A k \in Keys : Evicts(a, k)' => Evicts(a, k)
  BY DEF Evicts, EvictionPlaces, Key
<1>4. Calm' => Calm
  BY <1>1, CalmStays
<1> QED BY <1>2, <1>3, <1>4, OwnershipStays

\* Where AdvanceOnly and AdvanceNotifying leave the thread.
LEMMA Arrives ==
    ASSUME IInv, NEW a \in Threads, NEW where \in Places,
           \/ th' = Moved(th, a, where)
           \/ th[a].pc # "waiting" /\ th' = Moved(Notified(th), a, where),
           where \in CompilePlaces \cup TaskPlaces => th[a].task \in Tasks,
           a = Main => where \notin TaskPlaces
    PROVE  /\ Steps(a) /\ th'[a].gen \in 0 .. live /\ th'[a].pc = where
           /\ where # "idle" => th'[a].task = th[a].task /\ th'[a].gen = th[a].gen
           /\ where = "idle" => th'[a].gen = 0
<1>1. /\ Steps(a) /\ th'[a].gen \in 0 .. live /\ th'[a].pc = where
      /\ where # "idle" => th'[a].task = th[a].task /\ th'[a].gen = th[a].gen
  BY AdvanceOnly, AdvanceNotifying
<1>2. th \in [Threads -> ThreadType] /\ Notified(th) \in [Threads -> ThreadType]
  BY Known, NotifiedAlone
<1>3. ASSUME where = "idle" PROVE th'[a] = Resting
  <2>1. CASE th' = Moved(th, a, where)
    BY <1>2, <1>3, <2>1 DEF Moved
  <2>2. CASE th' = Moved(Notified(th), a, where)
    BY <1>2, <1>3, <2>2 DEF Moved
  <2> QED BY <2>1, <2>2
<1> QED BY <1>1, <1>3 DEF Resting

\* The steps of a compile that touch neither the map nor the evictions.
LEMMA QuietMoves ==
    ASSUME IInv, Ownership, NEW a \in Threads,
           \/ (CompileThrows(a) /\ a \in Workers) \/ RecordSource(a) \/ Build(a)
           \/ EvictShaderResources(a) \/ Forget(a)
           \/ (Begin(a) /\ a \in Workers)
    PROVE  Ownership'
<1>1. /\ live' = live /\ map' = map /\ parked' = parked /\ forgotten' = forgotten
      /\ watcher' = watcher
  BY DEF CompileThrows, RecordSource, Build, EvictShaderResources, Forget, Begin, books, bounds
<1>2. PICK where \in Places :
        /\ th' = Moved(th, a, where)
        /\ where \in CompilePlaces \cup TaskPlaces => th[a].pc \in CompilePlaces \cup TaskPlaces
        /\ a = Main => where \notin TaskPlaces
        /\ where \in OwnerPlaces => th[a].pc \in OwnerPlaces
        /\ where \in EvictionPlaces => th[a].pc \in EvictionPlaces
        /\ th[a].pc \notin Emptied
  <2>1. CASE CompileThrows(a) /\ a \in Workers
    BY <2>1, PlaceNames
       DEF CompileThrows, CompilePlaces, TaskPlaces, Emptied, OwnerPlaces, EvictionPlaces
  <2>2. CASE RecordSource(a)
    BY <2>2, PlaceNames
       DEF RecordSource, CompilePlaces, TaskPlaces, Emptied, OwnerPlaces, EvictionPlaces
  <2>3. CASE Build(a)
    <3>1. Finished(a) \in Places /\ Finished(a) \in {"idle", "completing"}
          /\ (a = Main => Finished(a) = "idle") /\ th' = Moved(th, a, Finished(a))
          /\ th[a].pc = "building"
      BY <2>3, PlaceNames DEF Build
    <3> HIDE DEF Finished
    <3> QED BY <3>1 DEF CompilePlaces, TaskPlaces, Emptied, OwnerPlaces, EvictionPlaces
  <2>4. CASE EvictShaderResources(a)
    BY <2>4, PlaceNames
       DEF EvictShaderResources, CompilePlaces, TaskPlaces, Emptied, OwnerPlaces, EvictionPlaces
  <2>5. CASE Forget(a)
    BY <2>5, PlaceNames
       DEF Forget, CompilePlaces, TaskPlaces, Emptied, OwnerPlaces, EvictionPlaces
  <2>6. CASE Begin(a) /\ a \in Workers
    <3>1. CASE th[a].gen = live
      BY <2>6, <3>1, PlaceNames
         DEF Begin, CompilePlaces, TaskPlaces, Emptied, OwnerPlaces, EvictionPlaces
    <3>2. CASE th[a].gen # live
      BY <2>6, <3>2, PlaceNames
         DEF Begin, CompilePlaces, TaskPlaces, Emptied, OwnerPlaces, EvictionPlaces
    <3> QED BY <3>1, <3>2
  <2> QED BY <2>1, <2>2, <2>3, <2>4, <2>5, <2>6
<1>3. where \in CompilePlaces \cup TaskPlaces => th[a].task \in Tasks
  BY <1>2, Known
<1>4. /\ Steps(a) /\ th'[a].gen \in 0 .. live /\ th'[a].pc = where
      /\ where # "idle" => th'[a].task = th[a].task /\ th'[a].gen = th[a].gen
      /\ where = "idle" => th'[a].gen = 0
  BY <1>2, <1>3, Arrives
<1> QED BY <1>1, <1>2, <1>4, OwnershipMoves

\* Where a thread arrives whose fields a step has set to those of x.
LEMMA ArrivesAs ==
    ASSUME IInv, NEW a \in Threads, NEW x \in ThreadType, x.gen \in 0 .. live, NEW where \in Places,
           NEW f, f = th \/ (th[a].pc # "waiting" /\ f = Notified(th)),
           th' = Moved([f EXCEPT ![a] = x], a, where),
           where \in CompilePlaces \cup TaskPlaces => x.task \in Tasks,
           a = Main => where \notin TaskPlaces /\ x.next # "completing"
    PROVE  /\ Steps(a) /\ th'[a].gen \in 0 .. live /\ th'[a].pc = where
           /\ where # "idle" => th'[a].task = x.task /\ th'[a].gen = x.gen
           /\ where = "idle" => th'[a].gen = 0
<1>1. /\ f \in [Threads -> ThreadType] /\ live \in Nat
      /\ \A b \in Threads : AloneOrWoken(f, b)
  BY Known, NotifiedAlone DEF AloneOrWoken
<1> DEFINE g == [f EXCEPT ![a] = x]
<1>2. /\ g \in [Threads -> ThreadType] /\ g[a] = x
      /\ \A b \in Threads \ {a} : AloneOrWoken(g, b)
  BY <1>1 DEF AloneOrWoken
<1>3. th' = Moved(g, a, where)
  OBVIOUS
<1> HIDE DEF g
<1>6. /\ g[a].gen <= live
      /\ where \in CompilePlaces \cup TaskPlaces => g[a].task \in Tasks
      /\ a = Main => where \notin TaskPlaces /\ g[a].next # "completing"
  BY <1>1, <1>2
<1>4. /\ Steps(a) /\ th'[a].gen \in 0 .. live /\ th'[a].pc = where
      /\ where # "idle" => th'[a].task = g[a].task /\ th'[a].gen = g[a].gen
  BY <1>2, <1>3, <1>6, Advance
<1>5. ASSUME where = "idle" PROVE th'[a] = Resting
  BY <1>2, <1>3, <1>5 DEF Moved
<1> QED BY <1>2, <1>4, <1>5 DEF Resting

\* CompileShader and Complete leave the map and the evictions alone.
LEMMA WorkOwns ==
    ASSUME IInv, Ownership, NEW a \in Threads,
           CompileShader(a) \/ (a \in Workers /\ Complete(a))
    PROVE  Ownership'
<1>1. /\ live' = live /\ map' = map /\ parked' = parked /\ forgotten' = forgotten
      /\ watcher' = watcher
  BY DEF CompileShader, Complete, books, bounds
<1>2. /\ TypeOK /\ th \in [Threads -> ThreadType] /\ th[a] \in ThreadType /\ live \in Nat
      /\ th[a].gen \in 0 .. live /\ source \in source .. MaxEdits
      /\ th[a].pc \in CompilePlaces \cup TaskPlaces => th[a].task \in Tasks
      /\ a = Main => th[a].next # "completing"
  BY Known
<1>3. CASE CompileShader(a)
  <2>1. PICK v \in {source, Nothing} : th' = Moved([th EXCEPT ![a].src = v], a, "publishing")
    BY <1>3 DEF CompileShader
  <2>2. v \in Versions /\ th[a].pc = "compiling"
    BY <1>2, <1>3, BoundIsNatural DEF TypeOK, Versions, Nothing, CompileShader
  <2> DEFINE x == [th[a] EXCEPT !.src = v]
  <2>3. x \in ThreadType /\ x.gen = th[a].gen /\ x.task = th[a].task /\ x.next = th[a].next
    BY <1>2, <2>2 DEF ThreadType
  <2>4. th' = Moved([th EXCEPT ![a] = x], a, "publishing")
    BY <2>1
  <2> HIDE DEF x
  <2>5. /\ Steps(a) /\ th'[a].gen \in 0 .. live /\ th'[a].pc = "publishing"
        /\ th'[a].task = th[a].task /\ th'[a].gen = th[a].gen
    BY <1>2, <2>2, <2>3, <2>4, ArrivesAs, PlaceNames DEF CompilePlaces, TaskPlaces
  <2> QED BY <1>1, <2>2, <2>5, OwnershipMoves, PlaceNames
         DEF OwnerPlaces, EvictionPlaces, Emptied
<1>4. CASE a \in Workers /\ Complete(a)
  <2> DEFINE x == [th[a] EXCEPT !.next = "idle"]
  <2>1. th' = Moved([th EXCEPT ![a] = x], a, "retiring") /\ th[a].pc = "completing"
    BY <1>4 DEF Complete
  <2>2. x \in ThreadType /\ x.gen = th[a].gen /\ x.task = th[a].task /\ x.next = "idle"
    BY <1>2 DEF ThreadType
  <2> HIDE DEF x
  <2>3. /\ Steps(a) /\ th'[a].gen \in 0 .. live /\ th'[a].pc = "retiring"
        /\ th'[a].task = th[a].task /\ th'[a].gen = th[a].gen
    BY <1>2, <1>4, <2>1, <2>2, ArrivesAs, PlaceNames DEF CompilePlaces, TaskPlaces
  <2> QED BY <1>1, <2>1, <2>3, OwnershipMoves, PlaceNames
         DEF OwnerPlaces, EvictionPlaces, Emptied
<1> QED BY <1>3, <1>4

\* A thread that starts on task t in generation g.
StartsAs(t, g) == [Resting EXCEPT !.task = t, !.gen = g]

\* It has the type of a thread and is about no other task.
LEMMA StartIsLawful ==
    ASSUME NEW t \in Tasks, NEW g \in Nat
    PROVE  /\ StartsAs(t, g) \in ThreadType /\ StartsAs(t, g).gen = g
           /\ StartsAs(t, g).task = t /\ StartsAs(t, g).next = "idle"
BY RestingIsLawful DEF StartsAs, ThreadType, SomeTask, Resting

\* A thread takes up a task, or a draw compiles for itself: no claim yet.
LEMMA BeginningsOwn ==
    ASSUME IInv, Ownership, NEW a \in Threads, NEW t \in Tasks,
           (a \in Workers /\ Dispatch(a, t)) \/ (a = Main /\ Draw(t))
    PROVE  Ownership'
<1>1. /\ live' = live /\ map' = map /\ parked' = parked /\ forgotten' = forgotten
      /\ watcher' = watcher /\ taskGen' = taskGen
  BY DEF Dispatch, Draw, books, bounds
<1>2. /\ th[a] \in ThreadType /\ live \in Nat /\ taskGen \in [Tasks -> 0 .. live] /\ TypeOK
      /\ Main \in Threads
  BY Known, PlaceNames
<1>4. CASE a \in Workers /\ Dispatch(a, t)
  <2> DEFINE x == StartsAs(t, taskGen[t])
  <2>1. th' = Moved([th EXCEPT ![a] = x], a, "detached")
    BY <1>4 DEF Dispatch, Starting, StartsAs
  <2>4. /\ taskGen[t] \in Nat /\ x.gen \in 0 .. live
        /\ x \in ThreadType /\ x.gen = taskGen[t] /\ x.task = t /\ x.next = "idle"
    <3>1. taskGen[t] \in Nat /\ taskGen[t] \in 0 .. live
      BY <1>2
    <3> QED BY <3>1, StartIsLawful
  <2> HIDE DEF x
  <2>2. /\ Steps(a) /\ th'[a].pc = "detached" /\ th'[a].gen = taskGen[t]
    BY <1>2, <1>4, <2>1, <2>4, ArrivesAs, PlaceNames DEF CompilePlaces, TaskPlaces
  <2>3. th[a].pc = "idle" /\ a \in Threads
    BY <1>4 DEF Dispatch
  <2>5. Calm' => Calm
    BY <1>1, <1>2, <2>2, <2>3, CalmStays DEF Emptied
  <2> QED BY <1>1, <2>2, <2>3, <2>5, OwnershipStays
         DEF LiveOwner, Owns, Evicts, EvictionPlaces
<1>5. CASE a = Main /\ Draw(t)
  <2> DEFINE x == StartsAs(t, live)
  <2>1. th' = Moved([th EXCEPT ![a] = x], a, "claiming")
    BY <1>5 DEF Draw, Starting, StartsAs
  <2>2. x \in ThreadType /\ x.gen \in 0 .. live /\ x.task = t /\ x.next = "idle"
    BY <1>2, StartIsLawful
  <2> HIDE DEF x
  <2>3. Steps(a) /\ th'[a].pc = "claiming"
    BY <1>2, <1>5, <2>1, <2>2, ArrivesAs, PlaceNames DEF CompilePlaces, TaskPlaces
  <2>4. th[a].pc = "idle" /\ a \in Threads
    BY <1>5 DEF Draw
  <2>5. Calm' => Calm
    BY <1>1, <1>2, <2>3, <2>4, CalmStays DEF Emptied
  <2> QED BY <1>1, <2>3, <2>4, <2>5, OwnershipStays
         DEF LiveOwner, Owns, Evicts, EvictionPlaces
<1> QED BY <1>4, <1>5
-----------------------------------------------------------------------------
(* The steps that make a claim, give one up or change an eviction.         *)

\* ClaimCompilation claims a key only if it is neither pending nor parked.
LEMMA ClaimOwns ==
    ASSUME IInv, Ownership, NEW a \in Threads, ClaimCompilation(a)
    PROVE  Ownership'
<1>1. /\ live' = live /\ parked' = parked /\ forgotten' = forgotten
      /\ watcher' = watcher /\ th[a].pc = "claiming"
  BY DEF ClaimCompilation, Claim, books, bounds
<1>2. /\ TypeOK /\ th \in [Threads -> ThreadType] /\ th[a] \in ThreadType /\ live \in Nat
      /\ th[a].gen \in 0 .. live
      /\ th[a].pc \in CompilePlaces \cup TaskPlaces => th[a].task \in Tasks
      /\ a = Main => th[a].next # "completing"
  BY Known
<1>3. Key(a) \in Keys /\ map[Key(a)].src \in Versions
  BY <1>1, <1>2, TasksHaveKeys DEF Key, CompilePlaces, TypeOK, EntryType
<1> DEFINE x == [th[a] EXCEPT !.src = map[Key(a)].src]
           where == IF th[a].gen # live THEN Finished(a)
                    ELSE IF IsParked(Key(a)) \/ IsPending(Key(a)) THEN "waiting"
                    ELSE IF map[Key(a)].status = "completed" THEN "building"
                    ELSE IF map[Key(a)].status = "failed" THEN Finished(a)
                    ELSE "compiling"
<1>4. x \in ThreadType /\ x.gen = th[a].gen /\ x.task = th[a].task /\ x.next = th[a].next
  BY <1>2, <1>3 DEF ThreadType
<1>5. /\ where \in {"waiting", "building", "idle", "completing", "compiling"}
      /\ a = Main => where # "completing"
      /\ where = "compiling" => th[a].gen = live /\ ~IsParked(Key(a)) /\ ~IsPending(Key(a))
  BY PlaceNames
<1>6. /\ th' = Moved([th EXCEPT ![a] = x], a, where)
      /\ map' = IF where = "compiling"
                THEN [map EXCEPT ![Key(a)] = Entry("pending", live, Nothing)] ELSE map
  BY DEF ClaimCompilation, Claim
<1> HIDE DEF x, where
<1>7. /\ Steps(a) /\ th'[a].gen \in 0 .. live /\ th'[a].pc = where
      /\ where # "idle" => th'[a].task = th[a].task /\ th'[a].gen = th[a].gen
      /\ where = "idle" => th'[a].gen = 0
  <2>1. where \in Places /\ (a = Main => where \notin TaskPlaces)
    BY <1>5, PlaceNames DEF TaskPlaces
  <2>2. /\ where \in CompilePlaces \cup TaskPlaces => x.task \in Tasks
        /\ a = Main => x.next # "completing"
        /\ x.gen \in 0 .. live /\ th' = Moved([th EXCEPT ![a] = x], a, where)
    BY <1>1, <1>2, <1>4, <1>6 DEF CompilePlaces
  <2>3. /\ Steps(a) /\ th'[a].gen \in 0 .. live /\ th'[a].pc = where
        /\ where # "idle" => th'[a].task = x.task /\ th'[a].gen = x.gen
        /\ where = "idle" => th'[a].gen = 0
    BY <1>4, <2>1, <2>2, ArrivesAs
  <2> QED BY <1>4, <2>3
<1>8. CASE where # "compiling"
  BY <1>1, <1>5, <1>6, <1>7, <1>8, OwnershipMoves, PlaceNames
     DEF OwnerPlaces, EvictionPlaces, Emptied
<1>9. CASE where = "compiling"
  <2>1. PICK k \in Keys : k = Key(a)
    BY <1>3
  <2>2. /\ map'[k].status = "pending" /\ map'[k].gen = live
        /\ \A l \in Keys \ {k} : map'[l] = map[l]
    BY <1>2, <1>6, <1>9, <2>1 DEF TypeOK, Entry
  <2>3. \A l \in Keys : LiveOwner(a, l)' => l = k
    BY <1>7, <1>9, <2>1 DEF LiveOwner, Owns, Key
  <2>4. \A b \in Threads \ {a}, l \in Keys : LiveOwner(b, l)' => LiveOwner(b, l)
    BY <1>1, <1>2, <1>7, OthersOwn
  <2>5. Calm /\ k \notin forgotten => \A b \in Threads : ~LiveOwner(b, k)
    BY <1>5, <1>9, <2>1 DEF Ownership, ClaimsAreListed
  <2>6. Calm' => Calm
    BY <1>1, <1>2, <1>7, CalmStays DEF Emptied
  <2>7. ClaimsAreListed'
    BY <1>1, <2>2, <2>3, <2>4, <2>5, <2>6 DEF Ownership, ClaimsAreListed, IsPending
  <2>8. OneLiveOwner'
    <3> SUFFICES ASSUME Calm, NEW l \in Keys \ forgotten, NEW b \in Threads, NEW c \in Threads,
                        LiveOwner(b, l)', LiveOwner(c, l)'
                 PROVE  b = c
      BY <1>1, <2>6 DEF OneLiveOwner, LiveOwner, Calm, Emptied
    <3>1. CASE b = a \/ c = a
      BY <2>3, <2>4, <2>5, <3>1
    <3>2. CASE b # a /\ c # a
      BY <2>4, <3>2 DEF Ownership, OneLiveOwner, LiveOwner, Calm, Emptied
    <3> QED BY <3>1, <3>2
  <2>9. ParkedKeysAreQuiet'
    BY <1>1, <1>5, <1>9, <2>1, <2>3, <2>4, <2>6 DEF Ownership, ParkedKeysAreQuiet, IsParked
  <2>10. EvictionsAreParked'
    <3>1. \A b \in Threads, l \in Keys : Evicts(b, l)' => Evicts(b, l)
      BY <1>2, <1>7, <1>9, OthersEvict DEF Evicts, EvictionPlaces
    <3> QED BY <1>1, <3>1 DEF Ownership, EvictionsAreParked
  <2> QED BY <2>7, <2>8, <2>9, <2>10 DEF Ownership
<1> QED BY <1>8, <1>9

\* An entry may go whose key no other live compile owns, if the thread that
\* takes it away is no owner afterwards.
LEMMA GivesUp ==
    ASSUME IInv, Ownership, live' = live, NEW a \in Threads, Steps(a), NEW k \in Keys,
           \A l \in Keys \ {k} : map'[l] = map[l],
           th'[a].pc \notin OwnerPlaces,
           Calm /\ k \notin forgotten /\ map'[k] # map[k]
                => \A b \in Threads \ {a} : ~LiveOwner(b, k)
    PROVE  \A l \in Keys \ forgotten :
                Calm /\ map'[l] # map[l] => \A b \in Threads : ~LiveOwner(b, l)'
<1>1. TypeOK
  BY Known
<1>2. \A l \in Keys : ~LiveOwner(a, l)'
  BY DEF LiveOwner, Owns, OwnerPlaces
<1> QED BY <1>1, <1>2, OthersOwn

\* TryPublish replaces the entry its thread owns, or takes away a stale claim.
LEMMA PublishOwns ==
    ASSUME IInv, Ownership, NEW a \in Threads,
           Publish(a) \/ (a \in Workers /\ ResolvePendingFailure(a))
    PROVE  Ownership'
<1>1. /\ live' = live /\ parked' = parked /\ forgotten' = forgotten
      /\ watcher' = watcher /\ th[a].pc \in {"publishing", "resolving"}
  BY DEF Publish, ResolvePendingFailure, books, bounds
<1>2. /\ TypeOK /\ th \in [Threads -> ThreadType] /\ th[a] \in ThreadType /\ live \in Nat
      /\ th[a].gen \in 0 .. live /\ map \in [Keys -> EntryType]
      /\ th[a].pc \in CompilePlaces \cup TaskPlaces => th[a].task \in Tasks
      /\ a = Main => th[a].next # "completing"
  BY Known DEF TypeOK
<1>3. PICK k \in Keys : k = Key(a)
  BY <1>1, <1>2, TasksHaveKeys DEF Key, CompilePlaces, TaskPlaces
<1>4. /\ \A l \in Keys \ {k} : map'[l] = map[l]
      /\ th[a].gen # live /\ map'[k] # map[k] => IsPending(k) /\ map[k].gen = th[a].gen
  BY <1>2, <1>3 DEF Publish, ResolvePendingFailure, TryPublish
<1>5. Owns(a, k)
  BY <1>1, <1>3 DEF Owns
<1>6. ASSUME Calm, k \notin forgotten, map'[k] # map[k], NEW b \in Threads \ {a}
      PROVE  ~LiveOwner(b, k)
  <2>1. CASE th[a].gen = live
    BY <1>5, <1>6, <2>1 DEF Ownership, OneLiveOwner, LiveOwner, Calm, Emptied
  <2>2. CASE th[a].gen # live
    BY <1>4, <1>6, <2>2 DEF Ownership, ClaimsAreListed
  <2> QED BY <2>1, <2>2
<1>7. PICK f, next, where :
        /\ f = th \/ (th[a].pc # "waiting" /\ f = Notified(th))
        /\ next \in {"idle", "building", "completing"} /\ (a = Main => next # "completing")
        /\ where \in {"recording", "applying"}
        /\ th' = Moved([f EXCEPT ![a].next = next], a, where)
  <2>1. CASE Publish(a)
    <3> DEFINE after == IF th[a].gen = live /\ ~(th[a].src = Nothing)
                        THEN "building" ELSE Finished(a)
               f == IF Wakes(a) THEN Notified(th) ELSE th
               where == IF th[a].gen = live THEN "recording" ELSE "applying"
    <3>1. after \in {"idle", "building", "completing"} /\ (a = Main => after # "completing")
      BY PlaceNames
    <3>2. th' = Moved([f EXCEPT ![a].next = after], a, where)
      BY <2>1 DEF Publish
    <3>3. f = th \/ (th[a].pc # "waiting" /\ f = Notified(th))
      BY <1>1
    <3>4. where \in {"recording", "applying"}
      OBVIOUS
    <3> HIDE DEF after, f, where
    <3> QED BY <3>1, <3>2, <3>3, <3>4
  <2>2. CASE a \in Workers /\ ResolvePendingFailure(a)
    <3> DEFINE f == IF map' # map THEN Notified(th) ELSE th
    <3>1. th' = Moved([f EXCEPT ![a].next = "completing"], a, "applying")
      BY <2>2 DEF ResolvePendingFailure
    <3>2. f = th \/ (th[a].pc # "waiting" /\ f = Notified(th))
      BY <1>1
    <3> HIDE DEF f
    <3> QED BY <2>2, <3>1, <3>2, PlaceNames
  <2> QED BY <2>1, <2>2
<1> DEFINE x == [th[a] EXCEPT !.next = next]
<1>8. /\ x \in ThreadType /\ x.gen = th[a].gen /\ x.task = th[a].task /\ x.next = next
  BY <1>2, <1>7 DEF ThreadType
<1>9. f \in [Threads -> ThreadType] /\ f[a] = th[a]
  BY <1>2, <1>7, NotifiedAlone
<1>10. th' = Moved([f EXCEPT ![a] = x], a, where)
  BY <1>7, <1>9
<1> HIDE DEF x
<1>13. /\ where \in Places /\ where # "idle" /\ where \notin TaskPlaces /\ x.task \in Tasks
       /\ x.gen \in 0 .. live /\ (a = Main => x.next # "completing")
  BY <1>1, <1>2, <1>7, <1>8, PlaceNames DEF CompilePlaces, TaskPlaces
<1>11. /\ Steps(a) /\ th'[a].gen \in 0 .. live /\ th'[a].pc = where
       /\ th'[a].task = th[a].task /\ th'[a].gen = th[a].gen
  <2>1. CASE f = th
    <3>1. th' = Moved([th EXCEPT ![a] = x], a, where)
      BY <1>10, <2>1
    <3> QED BY <1>8, <1>13, <3>1, ArrivesAs
  <2>2. CASE th[a].pc # "waiting" /\ f = Notified(th)
    <3>1. th' = Moved([Notified(th) EXCEPT ![a] = x], a, where)
      BY <1>10, <2>2
    <3> QED BY <1>8, <1>13, <2>2, <3>1, ArrivesAs
  <2> QED BY <1>7, <2>1, <2>2
<1>12. \A l \in Keys \ forgotten :
            Calm /\ map'[l] # map[l] => \A b \in Threads : ~LiveOwner(b, l)'
  BY <1>1, <1>4, <1>6, <1>7, <1>11, GivesUp DEF OwnerPlaces
<1> QED BY <1>1, <1>7, <1>11, <1>12, OwnershipMoves, PlaceNames
       DEF OwnerPlaces, EvictionPlaces, Emptied

\* An eviction takes away an entry nobody owns: its key is parked.
LEMMA EvictOwns ==
    ASSUME IInv, Ownership, NEW a \in Threads, EvictShader(a)
    PROVE  Ownership'
<1>1. /\ live' = live /\ parked' = parked /\ forgotten' = forgotten
      /\ watcher' = watcher /\ th[a].pc = "evicting"
      /\ th' = Moved(th, a, "releasing")
  BY DEF EvictShader, books, bounds
<1>2. /\ TypeOK /\ th[a].task \in Tasks /\ map \in [Keys -> EntryType]
  BY <1>1, Known DEF TypeOK, CompilePlaces
<1>3. PICK k \in Keys : k = Key(a)
  BY <1>2, TasksHaveKeys DEF Key
<1>4. \A l \in Keys \ {k} : map'[l] = map[l]
  BY <1>2, <1>3 DEF EvictShader
<1>5. Steps(a) /\ th'[a].gen \in 0 .. live /\ th'[a].pc = "releasing"
      /\ th'[a].task = th[a].task /\ th'[a].gen = th[a].gen
  BY <1>1, <1>2, Arrives, PlaceNames DEF CompilePlaces, TaskPlaces
<1>6. k \notin forgotten => IsParked(k)
  BY <1>1, <1>3
     DEF Ownership, EvictionsAreParked, Evicts, EvictionPlaces, IsParked, NotParked
<1>7. Calm /\ k \notin forgotten => \A b \in Threads : ~LiveOwner(b, k)
  BY <1>6 DEF Ownership, ParkedKeysAreQuiet
<1>8. \A l \in Keys \ forgotten :
            Calm /\ map'[l] # map[l] => \A b \in Threads : ~LiveOwner(b, l)'
  BY <1>1, <1>4, <1>5, <1>7, GivesUp DEF OwnerPlaces
<1> QED BY <1>1, <1>5, <1>8, OwnershipMoves, PlaceNames
       DEF OwnerPlaces, EvictionPlaces, Emptied

\* An eviction that is carried out begins only if none is under way.
LEMMA ApplyOwns ==
    ASSUME IInv, Ownership, NEW a \in Threads, ApplyDeferredEviction(a)
    PROVE  Ownership'
<1>1. /\ live' = live /\ map' = map /\ forgotten' = forgotten
      /\ watcher' = watcher /\ th[a].pc \in {"applying", "retiring"}
  BY DEF ApplyDeferredEviction, Apply, books, bounds
<1>2. /\ TypeOK /\ th \in [Threads -> ThreadType] /\ th[a] \in ThreadType /\ live \in Nat
      /\ th[a].gen \in 0 .. live /\ parked \in [Keys -> EvictionType] /\ th[a].task \in Tasks
      /\ th[a].next \in {"idle", "building", "completing"}
      /\ a = Main => th[a].next # "completing"
  BY <1>1, Known DEF TypeOK, CompilePlaces, TaskPlaces, ThreadType
<1>3. PICK k \in Keys : k = Key(a)
  BY <1>2, TasksHaveKeys DEF Key
<1> DEFINE refused == ~IsParked(k) \/ parked[k].applying \/ (parked[k].wait /\ th[a].pc = "applying")
<1>4. CASE refused
  <2>1. th' = Moved(th, a, th[a].next) /\ parked' = parked
    BY <1>3, <1>4 DEF ApplyDeferredEviction, Apply
  <2>2. th[a].next \in Places /\ (a = Main => th[a].next \notin TaskPlaces)
    BY <1>2, PlaceNames DEF TaskPlaces
  <2>3. /\ Steps(a) /\ th'[a].gen \in 0 .. live /\ th'[a].pc = th[a].next
        /\ th[a].next # "idle" => th'[a].task = th[a].task /\ th'[a].gen = th[a].gen
        /\ th[a].next = "idle" => th'[a].gen = 0
    BY <1>2, <2>1, <2>2, Arrives
  <2>4. th[a].next \notin OwnerPlaces \cup EvictionPlaces /\ th[a].pc \notin Emptied
    BY <1>1, <1>2 DEF OwnerPlaces, EvictionPlaces, Emptied
  <2> QED BY <1>1, <2>1, <2>2, <2>3, <2>4, OwnershipMoves
<1>5. CASE ~refused
  <2> DEFINE next == IF th[a].next = "building" THEN Finished(a) ELSE th[a].next
             x == [th[a] EXCEPT !.evict = parked[k].task, !.next = next]
  <2>1. /\ parked' = [parked EXCEPT ![k].applying = TRUE]
        /\ th' = Moved([th EXCEPT ![a] = x], a, "evicting")
    BY <1>3, <1>5 DEF ApplyDeferredEviction, Apply
  <2>2. next \in {"idle", "building", "completing"} /\ (a = Main => next # "completing")
    BY <1>2, PlaceNames
  <2>3. parked[k].task \in SomeTask
    BY <1>2 DEF EvictionType
  <2> HIDE DEF next
  <2>4. /\ x \in ThreadType /\ x.gen \in 0 .. live /\ x.gen = th[a].gen /\ x.task = th[a].task
        /\ x.next = next
    BY <1>2, <2>2, <2>3 DEF ThreadType
  <2> HIDE DEF x
  <2>5. /\ Steps(a) /\ th'[a].pc = "evicting" /\ th'[a].task = th[a].task
        /\ th'[a].gen = th[a].gen
    BY <1>2, <2>1, <2>2, <2>4, ArrivesAs, PlaceNames DEF CompilePlaces, TaskPlaces
  <2>6. \A b \in Threads, l \in Keys : LiveOwner(b, l)' => LiveOwner(b, l)
    BY <1>1, <1>2, <2>5, OthersOwn DEF LiveOwner, Owns
  <2>7. \A l \in Keys : Evicts(a, l)' => l = k
    BY <1>3, <2>5 DEF Evicts, Key
  <2>8. /\ \A l \in Keys \ {k} : parked'[l] = parked[l]
        /\ parked'[k].applying /\ IsParked(k) /\ ~parked[k].applying
    BY <1>2, <1>5, <2>1 DEF EvictionType
  <2>12. Calm' => Calm
    BY <1>1, <1>2, <2>5, CalmStays DEF Emptied
  <2>9. ClaimsAreListed' /\ OneLiveOwner'
    <3>1. ClaimsAreListed'
      BY <1>1, <2>6, <2>12 DEF Ownership, ClaimsAreListed, IsPending
    <3>2. OneLiveOwner'
      BY <1>1, <2>6, <2>12 DEF Ownership, OneLiveOwner, LiveOwner, Calm, Emptied
    <3> QED BY <3>1, <3>2
  <2>10. ParkedKeysAreQuiet'
    BY <1>1, <2>6, <2>8, <2>12 DEF Ownership, ParkedKeysAreQuiet, IsParked
  <2>11. EvictionsAreParked'
    <3> SUFFICES ASSUME NEW l \in Keys \ forgotten, NEW b \in Threads, Evicts(b, l)'
                 PROVE  /\ parked'[l].applying
                        /\ \A c \in Threads : Evicts(c, l)' => c = b
      BY <1>1 DEF EvictionsAreParked
    <3>1. \A c \in Threads \ {a} : Evicts(c, l)' => Evicts(c, l) /\ parked[l].applying
      BY <1>2, <2>5, OthersEvict DEF Ownership, EvictionsAreParked
    <3>2. CASE l = k
      BY <2>8, <3>1, <3>2
    <3>3. CASE l # k
      BY <2>7, <2>8, <3>1, <3>3 DEF Ownership, EvictionsAreParked
    <3> QED BY <3>2, <3>3
  <2> QED BY <2>9, <2>10, <2>11 DEF Ownership
<1> QED BY <1>4, <1>5

\* Lifting an eviction frees the key for the next claim.
LEMMA UnparkOwns ==
    ASSUME IInv, Ownership, NEW a \in Threads, Unpark(a)
    PROVE  Ownership'
<1>1. /\ live' = live /\ map' = map /\ forgotten' = forgotten
      /\ watcher' = watcher /\ th[a].pc = "unparking"
      /\ th' = Moved(Notified(th), a, th[a].next)
  BY DEF Unpark, books, bounds
<1>2. /\ TypeOK /\ parked \in [Keys -> EvictionType] /\ th[a].task \in Tasks
      /\ th[a].next \in {"idle", "building", "completing"}
      /\ a = Main => th[a].next # "completing"
  BY <1>1, Known DEF TypeOK, CompilePlaces, ThreadType
<1>3. PICK k \in Keys : k = Key(a)
  BY <1>2, TasksHaveKeys DEF Key
<1>4. th[a].next \in Places /\ (a = Main => th[a].next \notin TaskPlaces)
  BY <1>2, PlaceNames DEF TaskPlaces
<1>5. /\ Steps(a) /\ th'[a].pc = th[a].next
      /\ th'[a].gen = th[a].gen \/ th'[a].gen = 0
  BY <1>1, <1>2, <1>4, Arrives
<1>6. th[a].next \notin OwnerPlaces \cup EvictionPlaces
  BY <1>2 DEF OwnerPlaces, EvictionPlaces
<1>7. \A b \in Threads, l \in Keys : LiveOwner(b, l)' => LiveOwner(b, l)
  BY <1>1, <1>2, <1>5, <1>6, OthersOwn DEF LiveOwner, Owns, OwnerPlaces
<1>8. \A b \in Threads, l \in Keys : Evicts(b, l)' => b # a /\ Evicts(b, l)
  BY <1>2, <1>5, <1>6, OthersEvict DEF Evicts
<1>9. \A l \in Keys : parked'[l] = parked[l] \/ (l = k /\ parked'[l] = NotParked)
  BY <1>2, <1>3 DEF Unpark
<1>13. Calm' => Calm
  BY <1>1, <1>2, <1>5, CalmStays DEF Emptied
<1>10. ClaimsAreListed' /\ OneLiveOwner'
  <2>1. ClaimsAreListed'
    BY <1>1, <1>7, <1>13 DEF Ownership, ClaimsAreListed, IsPending
  <2>2. OneLiveOwner'
    BY <1>1, <1>7, <1>13 DEF Ownership, OneLiveOwner, LiveOwner, Calm, Emptied
  <2> QED BY <2>1, <2>2
<1>11. ParkedKeysAreQuiet'
  BY <1>1, <1>7, <1>9, <1>13 DEF Ownership, ParkedKeysAreQuiet, IsParked
<1>12. EvictionsAreParked'
  <2>1. Evicts(a, k)
    BY <1>1, <1>3 DEF Evicts, EvictionPlaces
  <2>2. \A l \in Keys \ forgotten, b \in Threads : Evicts(b, l)' => l # k
    BY <1>8, <2>1 DEF Ownership, EvictionsAreParked
  <2> QED BY <1>1, <1>8, <1>9, <2>2 DEF Ownership, EvictionsAreParked
<1> QED BY <1>10, <1>11, <1>12 DEF Ownership
-----------------------------------------------------------------------------
(* The steps of the main thread and of the watcher.                        *)

\* The watcher, or a clear of one type, begins a generation.
LEMMA BumpsOwn ==
    ASSUME IInv, Ownership, ClearType \/ WatcherClearsSet
    PROVE  Ownership'
<1>1. /\ live' = live + 1 /\ parked' = parked /\ forgotten' = forgotten /\ taskGen' = taskGen
      /\ th' = th \/ th' = Notified(th)
  BY DEF ClearType, WatcherClearsSet, books, bounds
<1>2. Main \in Threads /\ Steps(Main) /\ th'[Main].gen <= live
  BY <1>1, ThreadsStay
<1>3. th'[Main] = th[Main] \/ th'[Main].pc = "claiming"
  <2>1. th[Main] \in ThreadType /\ TypeOK
    BY <1>2, Known
  <2>2. AloneOrWoken(th', Main)
    BY <1>1, <1>2, <2>1, NotifiedAlone DEF AloneOrWoken
  <2> QED BY <2>1, <2>2 DEF AloneOrWoken, ThreadType
<1>4. \A k \in Keys : Evicts(Main, k)' => Evicts(Main, k)
  BY <1>3 DEF Evicts, EvictionPlaces, Key
<1> QED BY <1>1, <1>2, <1>4, OwnershipBegins

\* Clear() begins a generation when it starts and another when it ends.
LEMMA ClearOwns ==
    ASSUME IInv, Ownership, Clear \/ ClearSet
    PROVE  Ownership'
<1>1. PICK where \in {"clearingShaders", "idle"} : th' = Moved(th, Main, where)
  BY DEF Clear, ClearSet
<1>2. /\ live' = live + 1 /\ parked' = parked /\ forgotten' = forgotten /\ taskGen' = taskGen
  BY DEF Clear, ClearSet, books, bounds
<1>3. Main \in Threads /\ where \in Places /\ where \notin CompilePlaces \cup TaskPlaces
  BY <1>1, PlaceNames DEF CompilePlaces, TaskPlaces
<1>4. Steps(Main) /\ th'[Main].gen \in 0 .. live /\ th'[Main].pc = where
  BY <1>1, <1>3, Arrives
<1>5. th'[Main].gen <= live /\ \A k \in Keys : ~Evicts(Main, k)'
  BY <1>1, <1>3, <1>4, Known DEF Evicts, EvictionPlaces
<1> QED BY <1>2, <1>3, <1>4, <1>5, OwnershipBegins

\* Clear() lets go of the shaders and of the source records.
LEMMA ClearMovesOwn ==
    ASSUME IInv, Ownership, ClearShaders \/ ClearRecords
    PROVE  Ownership'
<1>1. PICK where \in {"clearingMap", "clearingSet"} :
        /\ th' = Moved(th, Main, where)
        /\ th[Main].pc \in Emptied => where \in Emptied
  BY DEF ClearShaders, ClearRecords, Emptied
<1>2. /\ live' = live /\ map' = map /\ parked' = parked /\ forgotten' = forgotten
      /\ watcher' = watcher
  BY DEF ClearShaders, ClearRecords, books, bounds
<1>3. /\ Main \in Threads /\ where \in Places /\ where \notin CompilePlaces \cup TaskPlaces
      /\ where \notin OwnerPlaces \cup EvictionPlaces /\ where # "idle"
  BY <1>1, PlaceNames DEF CompilePlaces, TaskPlaces, OwnerPlaces, EvictionPlaces
<1>4. /\ Steps(Main) /\ th'[Main].gen \in 0 .. live /\ th'[Main].pc = where
      /\ th'[Main].task = th[Main].task /\ th'[Main].gen = th[Main].gen
  BY <1>1, <1>3, Arrives
<1> QED BY <1>1, <1>2, <1>3, <1>4, OwnershipMoves

\* Clear() empties the map, and nothing is said of claims until it has begun its
\* second generation; what it drops half-applied is forgotten.
LEMMA ClearMapOwns ==
    ASSUME IInv, Ownership, ClearMap
    PROVE  Ownership'
<1>1. /\ forgotten' = forgotten \cup {k \in Keys : parked[k].applying}
      /\ th' = Moved(Notified(th), Main, "clearingRecords") /\ th[Main].pc = "clearingMap"
  BY DEF ClearMap
<1>2. TypeOK /\ Main \in Threads
  BY Known, PlaceNames
<1>3. Steps(Main) /\ th'[Main].pc = "clearingRecords"
  BY <1>1, <1>2, Arrives, PlaceNames DEF CompilePlaces, TaskPlaces
<1>4. ~Calm'
  BY <1>3 DEF Calm, Emptied
<1>5. ClaimsAreListed' /\ OneLiveOwner' /\ ParkedKeysAreQuiet'
  BY <1>4 DEF ClaimsAreListed, OneLiveOwner, ParkedKeysAreQuiet, Calm, Emptied
<1>6. \A b \in Threads, k \in Keys : Evicts(b, k)' => Evicts(b, k)
  BY <1>2, <1>3, OthersEvict DEF Evicts, EvictionPlaces
<1>7. EvictionsAreParked'
  BY <1>1, <1>6 DEF Ownership, EvictionsAreParked
<1> QED BY <1>5, <1>7 DEF Ownership

\* A task is queued in the live generation.
LEMMA RequestOwns ==
    ASSUME IInv, Ownership, NEW t \in Tasks, Request(t)
    PROVE  Ownership'
<1>1. /\ live' = live /\ map' = map /\ parked' = parked /\ forgotten' = forgotten
      /\ watcher' = watcher /\ th' = th
  BY DEF Request, bounds
<1>2. Main \in Threads /\ Steps(Main)
  BY <1>1, ThreadsStay
<1> QED BY <1>1, <1>2, OwnershipStays DEF LiveOwner, Owns, Evicts, Key, Calm

\* An edit, and the watcher's steps on the records, on the shaders and on the
\* map while it walks through what it found.
LEMMA WatcherOwns ==
    ASSUME IInv, Ownership,
           \/ Edit \/ TakeRecords \/ (\E k \in Keys : TryDefer(k))
           \/ WatcherEvicts \/ WatcherReleases
    PROVE  Ownership'
<1>1. /\ live' = live /\ parked' = parked /\ forgotten' = forgotten /\ th' = th
  BY DEF Edit, TakeRecords, TryDefer, WatcherEvicts, WatcherReleases, books, bounds
<1>2. (Calm' => Calm) /\ (Calm => map' = map)
  <2>1. CASE Edit
    BY <2>1 DEF Edit, Calm
  <2>2. CASE TakeRecords
    BY <2>2 DEF TakeRecords, Calm
  <2>3. CASE \E k \in Keys : TryDefer(k)
    <3>1. TypeOK
      BY DEF IInv
    <3>2. watcher'.pc = "parking" /\ map' = map
      BY <2>3, <3>1 DEF TryDefer, TypeOK, WatcherType
    <3> QED BY <3>2 DEF Calm
  <2>4. CASE WatcherEvicts
    <3>1. TypeOK
      BY DEF IInv
    <3>2. watcher.pc = "evicting" /\ watcher'.pc = "releasing"
      BY <2>4, <3>1 DEF WatcherEvicts, TypeOK, WatcherType
    <3> QED BY <3>2 DEF Calm
  <2>5. CASE WatcherReleases
    <3>1. TypeOK
      BY DEF IInv
    <3>2. watcher'.pc = "scanning" /\ map' = map
      BY <2>5, <3>1 DEF WatcherReleases, NextRecord, TypeOK, WatcherType
    <3> QED BY <3>2 DEF Calm
  <2> QED BY <2>1, <2>2, <2>3, <2>4, <2>5
<1>3. Main \in Threads /\ Steps(Main)
  BY <1>1, ThreadsStay
<1>4. \A b \in Threads, k \in Keys :
        (LiveOwner(b, k)' <=> LiveOwner(b, k)) /\ (Evicts(b, k)' <=> Evicts(b, k))
  BY <1>1 DEF LiveOwner, Owns, Evicts, Key
<1> QED BY <1>1, <1>2, <1>3, <1>4, OwnershipStays

\* The watcher parks the eviction of a claimed key: until it has begun a
\* generation nothing is said of the claim.
LEMMA ParkOwns ==
    ASSUME IInv, Ownership, Park
    PROVE  Ownership'
<1>1. live' = live /\ map' = map /\ forgotten' = forgotten /\ th' = th
  BY DEF Park, bounds
<1>2. TypeOK /\ parked \in [Keys -> EvictionType]
  BY DEF IInv, TypeOK
<1>3. ~Calm'
  BY <1>2 DEF Park, NextRecord, Calm, TypeOK, WatcherType
<1>4. ClaimsAreListed' /\ OneLiveOwner' /\ ParkedKeysAreQuiet'
  BY <1>3 DEF ClaimsAreListed, OneLiveOwner, ParkedKeysAreQuiet, Calm, Emptied
<1>5. \A l \in Keys : parked[l].applying => parked'[l].applying
  BY <1>2 DEF Park, EvictionType
<1>6. EvictionsAreParked'
  BY <1>1, <1>5 DEF Ownership, EvictionsAreParked, Evicts, Key
<1> QED BY <1>4, <1>6 DEF Ownership
-----------------------------------------------------------------------------
(* The invariant.                                                          *)

\* At first nobody owns, evicts or clears anything.
LEMMA InitiallyOwned == Init => Ownership
<1> SUFFICES ASSUME Init PROVE Ownership
  OBVIOUS
<1>1. \A a \in Threads : th[a].pc = "idle"
  BY DEF Init, Resting
<1>2. Main \in Threads
  BY PlaceNames
<1> QED BY <1>1, <1>2
       DEF Ownership, ClaimsAreListed, OneLiveOwner, ParkedKeysAreQuiet, EvictionsAreParked,
           LiveOwner, Owns, Evicts, EvictionPlaces

\* Every step preserves it.
LEMMA OwnershipIsKept == IInv /\ Ownership /\ [Next]_vars => Ownership'
<1> SUFFICES ASSUME IInv, Ownership, [Next]_vars PROVE Ownership'
  OBVIOUS
<1>1. ASSUME NEW t \in Tasks, Request(t) \/ Draw(t) \/ \E w \in Workers : Dispatch(w, t)
      PROVE  Ownership'
  BY <1>1, RequestOwns, BeginningsOwn, PlaceNames
<1>2. ASSUME NEW a \in Threads, Compile(a) PROVE Ownership'
  <2>1. CASE ClaimCompilation(a) \/ CompileShader(a) \/ Publish(a)
    BY <2>1, ClaimOwns, WorkOwns, PublishOwns
  <2>2. CASE RecordSource(a) \/ Build(a) \/ EvictShaderResources(a) \/ Forget(a)
    BY <2>2, QuietMoves
  <2>3. CASE ApplyDeferredEviction(a) \/ EvictShader(a) \/ Unpark(a)
    BY <2>3, ApplyOwns, EvictOwns, UnparkOwns
  <2> QED BY <1>2, <2>1, <2>2, <2>3 DEF Compile
<1>3. ASSUME NEW w \in Workers, Work(w) \/ CompileThrows(w) PROVE Ownership'
  <2>1. w \in Threads
    BY PlaceNames
  <2>2. CASE Begin(w) \/ CompileThrows(w)
    BY <2>1, <2>2, QuietMoves
  <2>3. CASE ResolvePendingFailure(w)
    BY <2>1, <2>3, PublishOwns
  <2>4. CASE Complete(w)
    BY <2>1, <2>4, WorkOwns
  <2> QED BY <1>3, <2>2, <2>3, <2>4 DEF Work
<1>4. CASE Clear \/ ClearGoesOn \/ MainClearsType
  BY <1>4, ClearOwns, ClearMovesOwn, ClearMapOwns, BumpsOwn DEF ClearGoesOn, MainClearsType
<1>5. CASE Edit \/ Watch
  BY <1>5, WatcherOwns, ParkOwns, BumpsOwn DEF Watch, ClearTypeInstead
<1>6. CASE UNCHANGED vars
  BY <1>6
     DEF vars, books, bounds, Ownership, ClaimsAreListed, OneLiveOwner, ParkedKeysAreQuiet,
         EvictionsAreParked, LiveOwner, Owns, Evicts, Key, Calm, IsPending, IsParked
<1> QED BY <1>1, <1>2, <1>3, <1>4, <1>5, <1>6 DEF Next

\* ClaimCompilation and the parked evictions between them keep every key to
\* one compile at a time of the live generation, for any number of threads,
\* keys, clears and edits; except where Clear() has dropped an eviction that
\* was half-way, and while Clear() is between emptying the map and its second
\* generation: a key claimed in its first may then be claimed once more.
THEOREM OneOwnerPerKey == Spec => []OneLiveOwner
<1>1. Ownership => OneLiveOwner
  BY DEF Ownership
<1>2. Spec => []Ownership
  <2>1. Spec => []IInv
    BY InductiveInvariant
  <2> QED BY <2>1, InitiallyOwned, OwnershipIsKept, PTL DEF Spec
<1> QED BY <1>1, <1>2, PTL
-----------------------------------------------------------------------------
(* No shader is lost: a task that counts as finished is drawn with, for    *)
(* what is evicted under a key is kept apart from the work done since.     *)

\* No Clear() is under way, and the watcher decides no evictions.
Open == Calm /\ th[Main].pc \notin ClearPlaces

\* A task's shader is there, or is known to be impossible.
Drawn(t) == shader[t] # Nothing \/ map[KeyOf[t]].status = "failed"

\* Where a thread may be once it has its result, with work of the live generation.
Beyond == {"recording", "applying", "building", "completing", "retiring"} \cup EvictionPlaces
LiveBeyond(a, k) == th[a].pc \in Beyond /\ Key(a) = k /\ th[a].gen = live

\* A thread is at a place, or goes there once its result is recorded.
Heads(a, where) ==
    th[a].pc = where \/ (th[a].pc \in {"recording", "applying"} /\ th[a].next = where)

\* What a thread has in hand is not being evicted, and will be drawn with.
Carries(a, k) ==
    /\ ~IsParked(k)
    /\ Heads(a, "building") => th[a].src # Nothing
    /\ Heads(a, "completing") => Drawn(th[a].task)

\* A finished task's shader is not being evicted, and is there.
Finishes(t) == ~IsParked(KeyOf[t]) /\ Drawn(t)

ShadersAreKept ==
    Open => \A k \in Keys \ forgotten :
        /\ \A t \in Tasks : KeyOf[t] = k /\ task[t] = "processed" => Finishes(t)
        /\ \A a \in Threads : LiveBeyond(a, k) => Carries(a, k)

\* Completed entries hold a shader.
EntriesHoldShaders == \A k \in Keys : map[k].status = "completed" => map[k].src # Nothing

\* The source records name tasks of their keys, those the watcher took as well.
RecordsAreByKey ==
    /\ \A k \in Keys : record[k] # NoTask => KeyOf[record[k]] = k
    /\ \A k \in Keys : watcher.records[k] # NoTask => KeyOf[watcher.records[k]] = k
    /\ \A k \in watcher.todo : watcher.records[k] # NoTask
    /\ watcher.pc = "parking" => watcher.records[watcher.key] # NoTask

\* So do the evictions, parked or carried out; one after a finished task ends it.
EvictionsAreByKey ==
    /\ \A k \in Keys : IsParked(k) => parked[k].task \in Tasks /\ KeyOf[parked[k].task] = k
    /\ \A a \in Threads :
        /\ th[a].pc \in EvictionPlaces => th[a].evict \in Tasks /\ KeyOf[th[a].evict] = Key(a)
        /\ th[a].pc = "retiring" => th[a].next = "idle"

Keeping == ShadersAreKept /\ EntriesHoldShaders /\ RecordsAreByKey /\ EvictionsAreByKey

\* Where a thread arrives with the fields x, in full.
LEMMA Goes ==
    ASSUME IInv, NEW a \in Threads, NEW x \in ThreadType, x.gen \in 0 .. live, NEW where \in Places,
           NEW f, f = th \/ (th[a].pc # "waiting" /\ f = Notified(th)),
           th' = Moved([f EXCEPT ![a] = x], a, where),
           where \in CompilePlaces \cup TaskPlaces => x.task \in Tasks,
           a = Main => where \notin TaskPlaces /\ x.next # "completing"
    PROVE  /\ Steps(a) /\ th'[a].pc = where
           /\ where # "idle" => /\ th'[a].task = x.task /\ th'[a].gen = x.gen
                                /\ th'[a].src = x.src /\ th'[a].next = x.next
                                /\ th'[a].evict = x.evict
<1>1. /\ f \in [Threads -> ThreadType] /\ TypeOK
      /\ \A b \in Threads : AloneOrWoken(f, b)
  BY Known, NotifiedAlone DEF AloneOrWoken
<1> DEFINE g == [f EXCEPT ![a] = x]
<1>2. /\ g \in [Threads -> ThreadType] /\ g[a] = x
      /\ \A b \in Threads \ {a} : AloneOrWoken(g, b)
  BY <1>1 DEF AloneOrWoken
<1>3. th' = Moved(g, a, where)
  OBVIOUS
<1> HIDE DEF g
<1>4. /\ Steps(a)
      /\ where # "idle" => th'[a] = [x EXCEPT !.pc = where]
      /\ where = "idle" => th'[a] = Resting
  BY <1>1, <1>2, <1>3, MoveSteps
<1> QED BY <1>4 DEF ThreadType, Resting

\* The same with its fields as they are.
LEMMA GoesOn ==
    ASSUME IInv, NEW a \in Threads, NEW where \in Places,
           \/ th' = Moved(th, a, where)
           \/ th[a].pc # "waiting" /\ th' = Moved(Notified(th), a, where),
           where \in CompilePlaces \cup TaskPlaces => th[a].task \in Tasks,
           a = Main => where \notin TaskPlaces
    PROVE  /\ Steps(a) /\ th'[a].pc = where
           /\ where # "idle" => /\ th'[a].task = th[a].task /\ th'[a].gen = th[a].gen
                                /\ th'[a].src = th[a].src /\ th'[a].next = th[a].next
                                /\ th'[a].evict = th[a].evict
<1>1. /\ th \in [Threads -> ThreadType] /\ th[a] \in ThreadType /\ th[a].gen \in 0 .. live
      /\ a = Main => where \notin TaskPlaces /\ th[a].next # "completing"
  BY Known
<1>2. CASE th' = Moved(th, a, where)
  <2>1. th' = Moved([th EXCEPT ![a] = th[a]], a, where)
    BY <1>1, <1>2
  <2> QED BY <1>1, <2>1, Goes
<1>3. CASE th[a].pc # "waiting" /\ th' = Moved(Notified(th), a, where)
  <2> DEFINE f == Notified(th)
             x == th[a]
  <2>1. f \in [Threads -> ThreadType] /\ f[a] = x
    BY <1>3, Known, NotifiedAlone
  <2>2. /\ th' = Moved([f EXCEPT ![a] = x], a, where)
        /\ f = th \/ (th[a].pc # "waiting" /\ f = Notified(th))
    BY <1>3, <2>1
  <2>3. x = th[a]
    OBVIOUS
  <2> HIDE DEF f, x
  <2>4. /\ Steps(a) /\ th'[a].pc = where
        /\ where # "idle" => /\ th'[a].task = x.task /\ th'[a].gen = x.gen
                             /\ th'[a].src = x.src /\ th'[a].next = x.next
                             /\ th'[a].evict = x.evict
    BY <1>1, <2>2, <2>3, Goes
  <2> QED BY <2>3, <2>4
<1> QED BY <1>2, <1>3

\* The other threads carry on, or go back to their claim.
LEMMA OthersCarry ==
    ASSUME TypeOK, NEW a \in Threads, Steps(a), NEW b \in Threads \ {a}
    PROVE  /\ live' = live =>
                \A k \in Keys : LiveBeyond(b, k)' => LiveBeyond(b, k) /\ th'[b] = th[b]
           /\ th'[b].pc \in EvictionPlaces \cup {"retiring"} => th'[b] = th[b]
<1>1. th[b] \in ThreadType
  BY DEF TypeOK
<1>2. CASE th'[b] = th[b]
  BY <1>2 DEF LiveBeyond, Key
<1>3. CASE th[b].pc = "waiting" /\ th'[b] = [th[b] EXCEPT !.pc = "claiming"]
  <2>1. th'[b].pc = "claiming"
    BY <1>1, <1>3 DEF ThreadType
  <2> QED BY <2>1 DEF LiveBeyond, Beyond, EvictionPlaces
<1> QED BY <1>2, <1>3 DEF Steps, AloneOrWoken

\* A thread outside Clear() opens and closes nothing.
LEMMA OpenStays ==
    ASSUME TypeOK, NEW a \in Threads, Steps(a), watcher' = watcher,
           th[a].pc \notin ClearPlaces
    PROVE  Open' => Open
<1>1. Main \in Threads
  BY PlaceNames
<1>2. CASE a = Main
  BY <1>2 DEF Open, Calm, Emptied, ClearPlaces
<1>3. CASE a # Main
  BY <1>1, <1>3, OthersEvict DEF Open, Calm, Emptied, ClearPlaces
<1> QED BY <1>2, <1>3

\* A step within a generation: what it changes is not in the way of what is
\* finished or carried, and what its thread carries it carries soundly.
LEMMA KeepsOn ==
    ASSUME IInv, ShadersAreKept, live' = live, forgotten' = forgotten, Open' => Open,
           NEW a \in Threads, Steps(a),
           \A k \in Keys \ forgotten : Open' =>
                /\ IsParked(k)' => IsParked(k)
                /\ \A t \in Tasks : KeyOf[t] = k /\ task'[t] = "processed"
                                        => task[t] = "processed" \/ Finishes(t)'
                /\ \A t \in Tasks : KeyOf[t] = k /\ Finishes(t) => Drawn(t)'
                /\ LiveBeyond(a, k)' => Carries(a, k)'
    PROVE  ShadersAreKept'
<1> SUFFICES ASSUME Open', NEW k \in Keys \ forgotten
             PROVE  /\ \A t \in Tasks : KeyOf[t] = k /\ task'[t] = "processed" => Finishes(t)'
                    /\ \A b \in Threads : LiveBeyond(b, k)' => Carries(b, k)'
  BY DEF ShadersAreKept
<1>1. Open /\ TypeOK
  BY DEF IInv
<1>2. ASSUME NEW t \in Tasks, KeyOf[t] = k, task'[t] = "processed" PROVE Finishes(t)'
  <2>1. CASE task[t] = "processed"
    <3>1. Finishes(t)
      BY <1>1, <1>2, <2>1 DEF ShadersAreKept
    <3> QED BY <1>2, <3>1 DEF Finishes
  <2>2. CASE task[t] # "processed"
    BY <1>2, <2>2
  <2> QED BY <2>1, <2>2
<1>3. ASSUME NEW b \in Threads \ {a}, LiveBeyond(b, k)' PROVE Carries(b, k)'
  <2>1. LiveBeyond(b, k) /\ th'[b] = th[b]
    BY <1>1, <1>3, OthersCarry
  <2>2. Carries(b, k)
    BY <1>1, <2>1 DEF ShadersAreKept
  <2>3. th[b].task \in Tasks /\ KeyOf[th[b].task] = k
    BY <2>1, Known
       DEF LiveBeyond, Beyond, EvictionPlaces, Key, CompilePlaces, TaskPlaces
  <2>4. Drawn(th[b].task) => Drawn(th[b].task)'
    BY <2>1, <2>2, <2>3 DEF Finishes, Carries, Drawn
  <2> QED BY <2>1, <2>2, <2>4 DEF Carries, Heads
<1> QED BY <1>2, <1>3

\* A new generation begins: nothing is finished, and nothing of it carried.
LEMMA KeepsAnew ==
    ASSUME IInv, live' = live + 1, NEW a \in Threads, Steps(a), th'[a].gen <= live,
           Open' => task' = NoTasks
    PROVE  ShadersAreKept'
<1>1. \A b \in Threads : th'[b].gen < live'
  BY NoneOwnsNew
<1>2. \A b \in Threads : th'[b].gen \in Nat /\ live' \in Nat
  BY Known DEF Steps, Lawful, ThreadType
<1>3. \A b \in Threads, k \in Keys : ~LiveBeyond(b, k)'
  BY <1>1, <1>2 DEF LiveBeyond
<1>4. Open' => \A t \in Tasks : task'[t] # "processed"
  BY DEF NoTasks
<1> QED BY <1>3, <1>4 DEF ShadersAreKept

\* The entries that go were no failures: what was drawn stays so.
LEMMA DrawnStays ==
    ASSUME shader' = shader, NEW t \in Tasks, Drawn(t),
           map'[KeyOf[t]] = map[KeyOf[t]] \/ map[KeyOf[t]].status # "failed"
    PROVE  Drawn(t)'
BY DEF Drawn

\* A key that is evicted has no work of the live generation.
LEMMA EvictorsAreStale ==
    ASSUME Ownership, ShadersAreKept, Open, NEW k \in Keys \ forgotten, NEW a \in Threads,
           Evicts(a, k)
    PROVE  IsParked(k) /\ th[a].gen # live /\ \A t \in Tasks : KeyOf[t] = k => ~Finishes(t)
<1>1. IsParked(k)
  BY DEF Ownership, EvictionsAreParked, IsParked, NotParked
<1>2. th[a].gen # live
  BY <1>1 DEF ShadersAreKept, LiveBeyond, Evicts, Beyond, Carries
<1> QED BY <1>1, <1>2 DEF Finishes

\* A step that leaves the shaders and the evictions alone, finishes no task
\* and takes no failure off the map.
LEMMA KeepsQuietly ==
    ASSUME IInv, ShadersAreKept, live' = live, forgotten' = forgotten, watcher' = watcher,
           parked' = parked, shader' = shader, NEW a \in Threads, Steps(a),
           th[a].pc \notin ClearPlaces,
           \A t \in Tasks : task'[t] = "processed" => task[t] = "processed",
           \A k \in Keys \ forgotten : Open => map'[k] = map[k] \/ map[k].status # "failed",
           \A k \in Keys \ forgotten : Open /\ LiveBeyond(a, k)' => Carries(a, k)'
    PROVE  ShadersAreKept'
<1>1. Open' => Open
  BY OpenStays DEF IInv
<1>2. ASSUME NEW k \in Keys \ forgotten, Open, NEW t \in Tasks, KeyOf[t] = k, Finishes(t)
      PROVE  Drawn(t)'
  BY <1>2, DrawnStays DEF Finishes
<1>3. \A k \in Keys : IsParked(k)' => IsParked(k)
  BY DEF IsParked
<1> QED BY <1>1, <1>2, <1>3, KeepsOn

\* The evictions stay by key when a thread steps that takes up none itself.
LEMMA EvictionsStay ==
    ASSUME TypeOK, EvictionsAreByKey, NEW a \in Threads, Steps(a),
           \A k \in Keys : IsParked(k)' => IsParked(k) /\ parked'[k].task = parked[k].task,
           th'[a].pc \in EvictionPlaces
                => th'[a].evict \in Tasks /\ KeyOf[th'[a].evict] = Key(a)',
           th'[a].pc = "retiring" => th'[a].next = "idle"
    PROVE  EvictionsAreByKey'
<1>1. ASSUME NEW b \in Threads \ {a}
      PROVE  /\ th'[b].pc \in EvictionPlaces
                    => th'[b].evict \in Tasks /\ KeyOf[th'[b].evict] = Key(b)'
             /\ th'[b].pc = "retiring" => th'[b].next = "idle"
  <2>1. th'[b].pc \in EvictionPlaces \cup {"retiring"} => th'[b] = th[b]
    BY OthersCarry
  <2> QED BY <2>1 DEF EvictionsAreByKey, Key
<1>2. \A k \in Keys : IsParked(k)' => parked'[k].task \in Tasks /\ KeyOf[parked'[k].task] = k
  BY DEF EvictionsAreByKey
<1> QED BY <1>1, <1>2 DEF EvictionsAreByKey

\* The steps of a compile before it has a result, and those that record it.
LEMMA QuietKeeps ==
    ASSUME IInv, Keeping, NEW a \in Threads,
           \/ a \in Workers /\ (Begin(a) \/ CompileThrows(a))
           \/ CompileShader(a) \/ RecordSource(a)
           \/ \E t \in Tasks : (a \in Workers /\ Dispatch(a, t)) \/ (a = Main /\ Draw(t))
    PROVE  ShadersAreKept' /\ EvictionsAreByKey'
<1>1. /\ live' = live /\ map' = map /\ parked' = parked /\ forgotten' = forgotten
      /\ watcher' = watcher /\ shader' = shader
      /\ th[a].pc \in {"detached", "compiling", "recording", "idle"}
  BY DEF Begin, CompileThrows, CompileShader, RecordSource, Dispatch, Draw, books, bounds
<1>2. \A t \in Tasks : task'[t] = "processed" => task[t] = "processed"
  <2>1. CASE \E t \in Tasks : a \in Workers /\ Dispatch(a, t)
    BY <2>1, Known DEF Dispatch, TypeOK
  <2>2. CASE task' = task
    BY <2>2
  <2> QED BY <2>1, <2>2 DEF Begin, CompileThrows, CompileShader, RecordSource, Draw, books
<1>3. /\ TypeOK /\ th \in [Threads -> ThreadType] /\ th[a] \in ThreadType /\ live \in Nat
      /\ th[a].gen \in 0 .. live /\ source \in source .. MaxEdits
      /\ taskGen \in [Tasks -> 0 .. live]
      /\ th[a].pc \in CompilePlaces \cup TaskPlaces => th[a].task \in Tasks
      /\ a = Main => th[a].next # "completing"
  BY Known
<1>4. /\ Steps(a)
      /\ \/ th'[a].pc \notin Beyond
         \/ /\ th[a].pc = "recording" /\ th'[a].pc = "applying" /\ th'[a].task = th[a].task
            /\ th'[a].gen = th[a].gen /\ th'[a].src = th[a].src /\ th'[a].next = th[a].next
  <2>1. CASE a \in Workers /\ Begin(a)
    <3>1. PICK where \in {"claiming", "idle"} : th' = Moved(th, a, where)
      BY <2>1 DEF Begin
    <3>2. Steps(a) /\ th'[a].pc = where
      BY <1>3, <2>1, <3>1, GoesOn, PlaceNames DEF Begin, CompilePlaces, TaskPlaces
    <3> QED BY <3>1, <3>2 DEF Beyond, EvictionPlaces
  <2>2. CASE a \in Workers /\ CompileThrows(a)
    <3>1. Steps(a) /\ th'[a].pc = "resolving"
      BY <1>3, <2>2, GoesOn, PlaceNames DEF CompileThrows, CompilePlaces, TaskPlaces
    <3> QED BY <3>1 DEF Beyond, EvictionPlaces
  <2>3. CASE CompileShader(a)
    <3>1. PICK v \in {source, Nothing} : th' = Moved([th EXCEPT ![a].src = v], a, "publishing")
      BY <2>3 DEF CompileShader
    <3>2. v \in Versions /\ th[a].pc = "compiling"
      BY <1>3, <2>3, BoundIsNatural DEF TypeOK, Versions, Nothing, CompileShader
    <3> DEFINE x == [th[a] EXCEPT !.src = v]
    <3>3. x \in ThreadType /\ x.gen = th[a].gen /\ x.task = th[a].task /\ x.next = th[a].next
      BY <1>3, <3>2 DEF ThreadType
    <3>4. th' = Moved([th EXCEPT ![a] = x], a, "publishing")
      BY <3>1
    <3> HIDE DEF x
    <3>5. Steps(a) /\ th'[a].pc = "publishing"
      BY <1>3, <3>2, <3>3, <3>4, Goes, PlaceNames DEF CompilePlaces, TaskPlaces
    <3> QED BY <3>5 DEF Beyond, EvictionPlaces
  <2>4. CASE RecordSource(a)
    BY <1>3, <2>4, GoesOn, PlaceNames DEF RecordSource, CompilePlaces, TaskPlaces
  <2>5. ASSUME NEW t \in Tasks, (a \in Workers /\ Dispatch(a, t)) \/ (a = Main /\ Draw(t))
        PROVE  Steps(a) /\ th'[a].pc \notin Beyond
    <3>1. PICK g \in 0 .. live, where \in {"detached", "claiming"} :
            /\ th' = Moved([th EXCEPT ![a] = StartsAs(t, g)], a, where)
            /\ a = Main => where = "claiming"
      <4>1. CASE a \in Workers /\ Dispatch(a, t)
        <5>1. th' = Moved([th EXCEPT ![a] = StartsAs(t, taskGen[t])], a, "detached")
          BY <4>1 DEF Dispatch, Starting, StartsAs
        <5>2. taskGen[t] \in 0 .. live /\ a # Main
          BY <1>3, <4>1, PlaceNames
        <5> QED BY <5>1, <5>2
      <4>2. CASE a = Main /\ Draw(t)
        <5>1. th' = Moved([th EXCEPT ![a] = StartsAs(t, live)], a, "claiming")
          BY <4>2 DEF Draw, Starting, StartsAs
        <5>2. live \in 0 .. live
          BY <1>3
        <5> QED BY <5>1, <5>2
      <4> QED BY <2>5, <4>1, <4>2
    <3> DEFINE x == StartsAs(t, g)
    <3>2. x \in ThreadType /\ x.gen = g /\ x.task = t /\ x.next = "idle"
      <4>1. g \in Nat
        BY <1>3
      <4> QED BY <4>1, StartIsLawful
    <3>3. th' = Moved([th EXCEPT ![a] = x], a, where)
      BY <3>1
    <3> HIDE DEF x
    <3>4. /\ where \in Places /\ (a = Main => where \notin TaskPlaces /\ x.next # "completing")
          /\ x.gen \in 0 .. live /\ x.task \in Tasks
      BY <3>1, <3>2, PlaceNames DEF TaskPlaces
    <3>5. Steps(a) /\ th'[a].pc = where
      BY <3>2, <3>3, <3>4, Goes
    <3> QED BY <3>1, <3>5 DEF Beyond, EvictionPlaces
  <2> QED BY <2>1, <2>2, <2>3, <2>4, <2>5
<1>5. ASSUME NEW k \in Keys \ forgotten, Open, LiveBeyond(a, k)' PROVE Carries(a, k)'
  <2>1. /\ th[a].pc = "recording" /\ th'[a].pc = "applying" /\ th'[a].task = th[a].task
        /\ th'[a].gen = th[a].gen /\ th'[a].src = th[a].src /\ th'[a].next = th[a].next
    BY <1>4, <1>5 DEF LiveBeyond
  <2>2. Carries(a, k)
    BY <1>1, <1>5, <2>1 DEF Keeping, ShadersAreKept, LiveBeyond, Key, Beyond
  <2> QED BY <1>1, <2>1, <2>2 DEF Carries, Heads, Drawn, IsParked
<1>6. ShadersAreKept'
  <2>1. th[a].pc \notin ClearPlaces
    BY <1>1 DEF ClearPlaces
  <2> QED BY <1>1, <1>2, <1>4, <1>5, <2>1, KeepsQuietly DEF Keeping
<1>7. EvictionsAreByKey'
  <2>1. th'[a].pc \notin EvictionPlaces \cup {"retiring"}
    BY <1>4 DEF Beyond, EvictionPlaces
  <2> QED BY <1>1, <1>3, <1>4, <2>1, EvictionsStay DEF Keeping, IsParked
<1> QED BY <1>6, <1>7

\* A claim that finds a result goes on with it: the key is not parked.
LEMMA ClaimKeeps ==
    ASSUME IInv, Keeping, NEW a \in Threads, ClaimCompilation(a)
    PROVE  ShadersAreKept' /\ EvictionsAreByKey'
<1>1. /\ live' = live /\ parked' = parked /\ forgotten' = forgotten /\ task' = task
      /\ watcher' = watcher /\ shader' = shader /\ th[a].pc = "claiming"
  BY DEF ClaimCompilation, Claim, books, bounds
<1>2. /\ TypeOK /\ th \in [Threads -> ThreadType] /\ th[a] \in ThreadType
      /\ th[a].gen \in 0 .. live /\ th[a].task \in Tasks
      /\ a = Main => th[a].next # "completing"
  BY <1>1, Known DEF CompilePlaces
<1>3. PICK k \in Keys : k = Key(a)
  BY <1>2, TasksHaveKeys DEF Key
<1>4. map \in [Keys -> EntryType] /\ map[k] \in EntryType /\ map[k].src \in Versions
  BY <1>2 DEF TypeOK, EntryType
<1> DEFINE x == [th[a] EXCEPT !.src = map[k].src]
           where == IF th[a].gen # live THEN Finished(a)
                    ELSE IF IsParked(k) \/ IsPending(k) THEN "waiting"
                    ELSE IF map[k].status = "completed" THEN "building"
                    ELSE IF map[k].status = "failed" THEN Finished(a)
                    ELSE "compiling"
<1>5. /\ x \in ThreadType /\ x.gen = th[a].gen /\ x.task = th[a].task /\ x.next = th[a].next
      /\ x.src = map[k].src
  BY <1>2, <1>4 DEF ThreadType
<1>6. /\ where \in {"waiting", "building", "idle", "completing", "compiling"}
      /\ a = Main => where # "completing"
      /\ where = "compiling" => map[k].status \notin {"completed", "failed"}
      /\ where = "building" => ~IsParked(k) /\ map[k].status = "completed"
      /\ where = "completing" /\ th[a].gen = live => ~IsParked(k) /\ map[k].status = "failed"
  BY PlaceNames
<1>7. /\ th' = Moved([th EXCEPT ![a] = x], a, where)
      /\ map' = IF where = "compiling"
                THEN [map EXCEPT ![k] = Entry("pending", live, Nothing)] ELSE map
  BY <1>3 DEF ClaimCompilation, Claim
<1> HIDE DEF x, where
<1>8. /\ where \in Places /\ (a = Main => where \notin TaskPlaces /\ x.next # "completing")
      /\ x.gen \in 0 .. live /\ x.task \in Tasks
  BY <1>2, <1>5, <1>6, PlaceNames DEF TaskPlaces
<1>9. /\ Steps(a) /\ th'[a].pc = where
      /\ where # "idle" => /\ th'[a].task = x.task /\ th'[a].gen = x.gen
                           /\ th'[a].src = x.src /\ th'[a].next = x.next
  BY <1>5, <1>7, <1>8, Goes
<1>10. \A l \in Keys : map'[l] = map[l] \/ map[l].status # "failed"
  BY <1>4, <1>6, <1>7
<1>11. ASSUME NEW l \in Keys \ forgotten, Open, LiveBeyond(a, l)' PROVE Carries(a, l)'
  <2>1. where \in {"building", "completing"} /\ th[a].gen = live /\ l = k
    BY <1>1, <1>3, <1>5, <1>6, <1>9, <1>11 DEF LiveBeyond, Beyond, EvictionPlaces, Key
  <2>2. ~IsParked(l)'
    BY <1>1, <1>6, <2>1 DEF IsParked
  <2>3. where = "building" => th'[a].src # Nothing
    BY <1>3, <1>5, <1>6, <1>9, <2>1 DEF Keeping, EntriesHoldShaders
  <2>4. th'[a].task = th[a].task /\ KeyOf[th[a].task] = k
    BY <1>3, <1>5, <1>9, <2>1 DEF Key
  <2>5. where = "completing" => map'[k].status = "failed"
    BY <1>6, <1>7, <2>1
  <2> QED BY <1>9, <2>1, <2>2, <2>3, <2>4, <2>5 DEF Carries, Heads, Drawn
<1>12. ShadersAreKept'
  <2>1. th[a].pc \notin ClearPlaces
    BY <1>1 DEF ClearPlaces
  <2> QED BY <1>1, <1>9, <1>10, <1>11, <2>1, KeepsQuietly DEF Keeping
<1>13. EvictionsAreByKey'
  <2>1. th'[a].pc \notin EvictionPlaces \cup {"retiring"}
    BY <1>6, <1>9 DEF EvictionPlaces
  <2> QED BY <1>1, <1>2, <1>9, <2>1, EvictionsStay DEF Keeping, IsParked
<1> QED BY <1>12, <1>13

\* What a live compile publishes is not being evicted, and the entry it takes
\* the place of was its claim.
LEMMA PublishKeeps ==
    ASSUME IInv, Ownership, Keeping, NEW a \in Threads,
           Publish(a) \/ (a \in Workers /\ ResolvePendingFailure(a))
    PROVE  ShadersAreKept' /\ EvictionsAreByKey'
<1>1. /\ live' = live /\ parked' = parked /\ forgotten' = forgotten /\ task' = task
      /\ watcher' = watcher /\ shader' = shader /\ th[a].pc \in {"publishing", "resolving"}
  BY DEF Publish, ResolvePendingFailure, books, bounds
<1>2. /\ TypeOK /\ th \in [Threads -> ThreadType] /\ th[a] \in ThreadType
      /\ th[a].gen \in 0 .. live /\ map \in [Keys -> EntryType] /\ th[a].task \in Tasks
      /\ a = Main => th[a].next # "completing"
  BY <1>1, Known DEF TypeOK, CompilePlaces, TaskPlaces
<1>3. PICK k \in Keys : k = Key(a)
  BY <1>2, TasksHaveKeys DEF Key
<1>4. th[a].gen = live /\ Open /\ k \notin forgotten => IsPending(k) /\ ~IsParked(k)
  BY <1>1, <1>3
     DEF Ownership, ClaimsAreListed, ParkedKeysAreQuiet, LiveOwner, Owns, Open
<1>5. PICK f, next, where :
        /\ f = th \/ (th[a].pc # "waiting" /\ f = Notified(th))
        /\ next \in {"idle", "building", "completing"} /\ (a = Main => next # "completing")
        /\ where \in {"recording", "applying"}
        /\ th' = Moved([f EXCEPT ![a].next = next], a, where)
        /\ next = "building" => th[a].src # Nothing
        /\ th[a].gen = live /\ next = "completing" /\ IsPending(k) => map'[k].status = "failed"
  <2>1. CASE Publish(a)
    <3> DEFINE failed == th[a].src = Nothing
               entry == Entry(IF failed THEN "failed" ELSE "completed", live, th[a].src)
               after == IF th[a].gen = live /\ ~failed THEN "building" ELSE Finished(a)
               f == IF Wakes(a) THEN Notified(th) ELSE th
               where == IF th[a].gen = live THEN "recording" ELSE "applying"
    <3>1. /\ after \in {"idle", "building", "completing"} /\ (a = Main => after # "completing")
          /\ after = "building" => th[a].src # Nothing
          /\ th[a].gen = live /\ after = "completing" => failed
      BY PlaceNames
    <3>2. th' = Moved([f EXCEPT ![a].next = after], a, where) /\ map' = TryPublish(a, entry)
      BY <2>1 DEF Publish
    <3>3. f = th \/ (th[a].pc # "waiting" /\ f = Notified(th))
      BY <1>1
    <3>4. where \in {"recording", "applying"}
      OBVIOUS
    <3>5. th[a].gen = live /\ failed => map'[k].status = "failed"
      BY <1>2, <1>3, <3>2 DEF TryPublish, Entry
    <3> HIDE DEF after, f, where, failed, entry
    <3> QED BY <3>1, <3>2, <3>3, <3>4, <3>5
  <2>2. CASE a \in Workers /\ ResolvePendingFailure(a)
    <3> DEFINE f == IF map' # map THEN Notified(th) ELSE th
    <3>1. th' = Moved([f EXCEPT ![a].next = "completing"], a, "applying")
      BY <2>2 DEF ResolvePendingFailure
    <3>2. f = th \/ (th[a].pc # "waiting" /\ f = Notified(th))
      BY <1>1
    <3>3. th[a].gen = live /\ IsPending(k) => map'[k].status = "failed"
      BY <1>2, <1>3, <2>2 DEF ResolvePendingFailure, TryPublish, Entry
    <3> HIDE DEF f
    <3> QED BY <2>2, <3>1, <3>2, <3>3, PlaceNames
  <2> QED BY <2>1, <2>2
<1> DEFINE x == [th[a] EXCEPT !.next = next]
<1>6. /\ x \in ThreadType /\ x.gen = th[a].gen /\ x.task = th[a].task /\ x.next = next
      /\ x.src = th[a].src
  BY <1>2, <1>5 DEF ThreadType
<1>7. f \in [Threads -> ThreadType] /\ f[a] = th[a]
  BY <1>2, <1>5, NotifiedAlone
<1>8. th' = Moved([f EXCEPT ![a] = x], a, where)
  BY <1>5, <1>7
<1> HIDE DEF x
<1>9. /\ where \in Places /\ where # "idle" /\ where \notin TaskPlaces /\ x.task \in Tasks
      /\ x.gen \in 0 .. live /\ (a = Main => x.next # "completing")
  BY <1>2, <1>5, <1>6, PlaceNames DEF TaskPlaces
<1>10. /\ Steps(a) /\ th'[a].pc = where /\ th'[a].task = th[a].task /\ th'[a].gen = th[a].gen
       /\ th'[a].src = th[a].src /\ th'[a].next = next
  <2>1. CASE f = th
    <3>1. th' = Moved([th EXCEPT ![a] = x], a, where)
      BY <1>8, <2>1
    <3> QED BY <1>6, <1>9, <3>1, Goes
  <2>2. CASE th[a].pc # "waiting" /\ f = Notified(th)
    <3>1. th' = Moved([Notified(th) EXCEPT ![a] = x], a, where)
      BY <1>8, <2>2
    <3> QED BY <1>6, <1>9, <2>2, <3>1, Goes
  <2> QED BY <1>5, <2>1, <2>2
<1>11. \A l \in Keys \ forgotten : Open => map'[l] = map[l] \/ map[l].status # "failed"
  <2>1. \A l \in Keys \ {k} : map'[l] = map[l]
    BY <1>2, <1>3 DEF Publish, ResolvePendingFailure, TryPublish
  <2>2. th[a].gen # live /\ map'[k] # map[k] => IsPending(k)
    BY <1>2, <1>3 DEF Publish, ResolvePendingFailure, TryPublish
  <2> QED BY <1>4, <2>1, <2>2 DEF IsPending
<1>12. ASSUME NEW l \in Keys \ forgotten, Open, LiveBeyond(a, l)' PROVE Carries(a, l)'
  <2>1. th[a].gen = live /\ l = k
    BY <1>1, <1>3, <1>10, <1>12 DEF LiveBeyond, Key
  <2>2. IsPending(k) /\ ~IsParked(l)'
    BY <1>1, <1>4, <1>12, <2>1 DEF IsParked
  <2>3. \A place \in {"building", "completing"} : Heads(a, place)' => next = place
    BY <1>5, <1>10 DEF Heads
  <2>4. Heads(a, "building")' => th'[a].src # Nothing
    BY <1>5, <1>10, <2>3
  <2>5. Heads(a, "completing")' => map'[k].status = "failed"
    BY <1>5, <2>1, <2>2, <2>3
  <2>6. th'[a].task = th[a].task /\ KeyOf[th[a].task] = k
    BY <1>3, <1>10 DEF Key
  <2> QED BY <2>2, <2>4, <2>5, <2>6 DEF Carries, Drawn
<1>13. ShadersAreKept'
  <2>1. th[a].pc \notin ClearPlaces
    BY <1>1 DEF ClearPlaces
  <2> QED BY <1>1, <1>10, <1>11, <1>12, <2>1, KeepsQuietly DEF Keeping
<1>14. EvictionsAreByKey'
  <2>1. th'[a].pc \notin EvictionPlaces \cup {"retiring"}
    BY <1>5, <1>10 DEF EvictionPlaces
  <2> QED BY <1>1, <1>2, <1>10, <2>1, EvictionsStay DEF Keeping, IsParked
<1> QED BY <1>13, <1>14

\* A live result becomes the shader of its task, or the device refuses it.
LEMMA BuildKeeps ==
    ASSUME IInv, Keeping, NEW a \in Threads, Build(a)
    PROVE  ShadersAreKept' /\ EvictionsAreByKey'
<1>1. /\ live' = live /\ map' = map /\ parked' = parked /\ forgotten' = forgotten
      /\ task' = task /\ watcher' = watcher /\ th[a].pc = "building"
      /\ th' = Moved(th, a, Finished(a))
  BY DEF Build, books, bounds
<1>2. /\ TypeOK /\ th[a].task \in Tasks /\ shader \in [Tasks -> Outcomes]
  BY <1>1, Known DEF CompilePlaces, TypeOK
<1>3. PICK k \in Keys : k = Key(a)
  BY <1>2, TasksHaveKeys DEF Key
<1>4. PICK t \in Tasks : t = th[a].task
  BY <1>2
<1>5. /\ Steps(a) /\ th'[a].pc = Finished(a)
      /\ Finished(a) # "idle" => th'[a].task = t /\ th'[a].gen = th[a].gen
      /\ Finished(a) \in {"idle", "completing"}
  <2>1. /\ Finished(a) \in Places /\ Finished(a) \in {"idle", "completing"}
        /\ a = Main => Finished(a) \notin TaskPlaces
    BY PlaceNames DEF TaskPlaces
  <2> HIDE DEF Finished
  <2> QED BY <1>1, <1>2, <1>4, <2>1, GoesOn
<1>6. /\ \A u \in Tasks \ {t} : shader'[u] = shader[u]
      /\ shader[t] # Nothing => shader'[t] # Nothing \/ th[a].src = Nothing
      /\ shader[t] = Nothing /\ th[a].gen = live => shader'[t] \in {th[a].src, Refused}
      /\ th[a].gen # live => shader' = shader
  BY <1>2, <1>4 DEF Build, NoShader, Nothing, Refused
<1> HIDE DEF Finished
<1>11. Open /\ k \notin forgotten /\ th[a].gen = live => th[a].src # Nothing
  BY <1>1, <1>3 DEF Keeping, ShadersAreKept, LiveBeyond, Beyond, Carries, Heads
<1>7. ASSUME NEW l \in Keys \ forgotten, Open, NEW u \in Tasks, KeyOf[u] = l, Drawn(u)
      PROVE  Drawn(u)'
  <2>1. u = t => l = k
    BY <1>3, <1>4, <1>7 DEF Key
  <2>2. shader[u] # Nothing => shader'[u] # Nothing
    BY <1>6, <1>7, <1>11, <2>1
  <2> QED BY <1>1, <1>7, <2>2 DEF Drawn
<1>8. ASSUME NEW l \in Keys \ forgotten, Open, LiveBeyond(a, l)' PROVE Carries(a, l)'
  <2>1. th'[a].pc = "completing" /\ th[a].gen = live /\ l = k
    BY <1>1, <1>3, <1>4, <1>5, <1>8 DEF LiveBeyond, Key, Beyond, EvictionPlaces
  <2>2. Carries(a, l)
    BY <1>1, <1>3, <1>8, <2>1 DEF Keeping, ShadersAreKept, LiveBeyond, Beyond
  <2>3. th[a].src # Nothing /\ ~IsParked(l)'
    BY <1>1, <2>2 DEF Carries, Heads, IsParked
  <2>4. Drawn(t)'
    BY <1>6, <2>1, <2>3 DEF Drawn, Nothing, Refused
  <2>5. th'[a].task = t
    BY <1>5, <2>1
  <2> QED BY <2>1, <2>3, <2>4, <2>5 DEF Carries, Heads, Drawn
<1>9. ShadersAreKept'
  <2>1. Open' => Open
    BY <1>1, <1>2, <1>5, OpenStays DEF ClearPlaces
  <2>2. \A l \in Keys : IsParked(l)' <=> IsParked(l)
    BY <1>1 DEF IsParked
  <2> QED BY <1>1, <1>5, <1>7, <1>8, <2>1, <2>2, KeepsOn DEF Keeping, Finishes
<1>10. EvictionsAreByKey'
  <2>1. th'[a].pc \notin EvictionPlaces \cup {"retiring"}
    BY <1>5 DEF EvictionPlaces
  <2> QED BY <1>1, <1>2, <1>5, <2>1, EvictionsStay DEF Keeping, IsParked
<1> QED BY <1>9, <1>10

\* A live task counts as finished once it is drawn with.
LEMMA CompleteKeeps ==
    ASSUME IInv, Keeping, NEW a \in Workers, Complete(a)
    PROVE  ShadersAreKept' /\ EvictionsAreByKey'
<1>1. /\ live' = live /\ map' = map /\ parked' = parked /\ forgotten' = forgotten
      /\ shader' = shader /\ watcher' = watcher /\ th[a].pc = "completing"
      /\ a \in Threads
  BY PlaceNames DEF Complete, books, bounds
<1>2. /\ TypeOK /\ th \in [Threads -> ThreadType] /\ th[a] \in ThreadType
      /\ th[a].gen \in 0 .. live /\ th[a].task \in Tasks
      /\ task \in [Tasks -> {"none", "available", "inProgress", "processed"}]
  BY <1>1, Known DEF TaskPlaces, TypeOK
<1>3. PICK k \in Keys : k = Key(a)
  BY <1>2, TasksHaveKeys DEF Key
<1> DEFINE x == [th[a] EXCEPT !.next = "idle"]
<1>4. th' = Moved([th EXCEPT ![a] = x], a, "retiring")
  BY DEF Complete
<1>5. x \in ThreadType /\ x.gen = th[a].gen /\ x.task = th[a].task /\ x.next = "idle"
  BY <1>2 DEF ThreadType
<1> HIDE DEF x
<1>6. /\ Steps(a) /\ th'[a].pc = "retiring" /\ th'[a].task = th[a].task
      /\ th'[a].gen = th[a].gen /\ th'[a].next = "idle"
  BY <1>1, <1>2, <1>4, <1>5, Goes, PlaceNames
<1>7. Open /\ k \notin forgotten /\ th[a].gen = live => Carries(a, k)
  BY <1>1, <1>3 DEF Keeping, ShadersAreKept, LiveBeyond, Beyond
<1>8. /\ \A u \in Tasks \ {th[a].task} : task'[u] = task[u]
      /\ th[a].gen # live => task' = task
  BY <1>2 DEF Complete
<1>9. \A u \in Tasks : (Drawn(u)' <=> Drawn(u)) /\ (Finishes(u)' <=> Finishes(u))
  BY <1>1 DEF Drawn, Finishes, IsParked
<1>10. ASSUME NEW l \in Keys \ forgotten, Open, NEW t \in Tasks, KeyOf[t] = l,
              task'[t] = "processed", task[t] # "processed"
       PROVE  Finishes(t)'
  <2>1. t = th[a].task /\ th[a].gen = live
    BY <1>8, <1>10
  <2>2. Carries(a, l) /\ k = l
    BY <1>3, <1>7, <1>10, <2>1 DEF Key
  <2>3. Finishes(t)
    BY <1>1, <1>10, <2>1, <2>2 DEF Carries, Heads, Finishes
  <2> QED BY <1>9, <2>3
<1>11. ASSUME NEW l \in Keys \ forgotten, Open, LiveBeyond(a, l)' PROVE Carries(a, l)'
  <2>1. th[a].gen = live /\ l = k
    BY <1>1, <1>3, <1>6, <1>11 DEF LiveBeyond, Key
  <2>2. ~IsParked(l)'
    BY <1>1, <1>7, <1>11, <2>1 DEF Carries, IsParked
  <2> QED BY <1>6, <2>2 DEF Carries, Heads
<1>12. ShadersAreKept'
  <2>1. Open' => Open
    BY <1>1, <1>2, <1>6, OpenStays DEF ClearPlaces
  <2>2. \A l \in Keys : IsParked(l)' <=> IsParked(l)
    BY <1>1 DEF IsParked
  <2>3. \A t \in Tasks : KeyOf[t] \in Keys
    BY TasksHaveKeys
  <2> QED BY <1>1, <1>6, <1>9, <1>10, <1>11, <2>1, <2>2, KeepsOn DEF Keeping, Finishes
<1>13. EvictionsAreByKey'
  <2>1. th'[a].pc \notin EvictionPlaces
    BY <1>6 DEF EvictionPlaces
  <2> QED BY <1>1, <1>2, <1>6, <2>1, EvictionsStay DEF Keeping, IsParked
<1> QED BY <1>12, <1>13

\* Only a thread of an earlier generation finds an eviction to carry out.
LEMMA ApplyKeeps ==
    ASSUME IInv, Keeping, NEW a \in Threads, ApplyDeferredEviction(a)
    PROVE  ShadersAreKept' /\ EvictionsAreByKey'
<1>1. /\ live' = live /\ map' = map /\ forgotten' = forgotten /\ task' = task
      /\ shader' = shader /\ watcher' = watcher /\ th[a].pc \in {"applying", "retiring"}
  BY DEF ApplyDeferredEviction, Apply, books, bounds
<1>2. /\ TypeOK /\ th \in [Threads -> ThreadType] /\ th[a] \in ThreadType
      /\ th[a].gen \in 0 .. live /\ parked \in [Keys -> EvictionType] /\ th[a].task \in Tasks
      /\ th[a].next \in {"idle", "building", "completing"}
      /\ a = Main => th[a].next # "completing"
  BY <1>1, Known DEF TypeOK, CompilePlaces, TaskPlaces, ThreadType
<1>3. PICK k \in Keys : k = Key(a)
  BY <1>2, TasksHaveKeys DEF Key
<1>4. Open /\ k \notin forgotten /\ th[a].gen = live => Carries(a, k)
  BY <1>1, <1>3 DEF Keeping, ShadersAreKept, LiveBeyond, Beyond
<1>5. \A u \in Tasks : Drawn(u)' <=> Drawn(u)
  BY <1>1 DEF Drawn
<1> DEFINE refused == ~IsParked(k) \/ parked[k].applying \/ (parked[k].wait /\ th[a].pc = "applying")
<1>6. CASE refused
  <2>1. th' = Moved(th, a, th[a].next) /\ parked' = parked
    BY <1>3, <1>6 DEF ApplyDeferredEviction, Apply
  <2>2. th[a].next \in Places /\ (a = Main => th[a].next \notin TaskPlaces)
    BY <1>2, PlaceNames DEF TaskPlaces
  <2>3. /\ Steps(a) /\ th'[a].pc = th[a].next
        /\ th[a].next # "idle" => /\ th'[a].task = th[a].task /\ th'[a].gen = th[a].gen
                                  /\ th'[a].src = th[a].src
    BY <1>2, <2>1, <2>2, GoesOn
  <2>4. ASSUME NEW l \in Keys \ forgotten, Open, LiveBeyond(a, l)' PROVE Carries(a, l)'
    <3>1. th[a].next \in {"building", "completing"} /\ th[a].gen = live /\ l = k
      BY <1>1, <1>2, <1>3, <2>3, <2>4 DEF LiveBeyond, Key, Beyond, EvictionPlaces
    <3>2. th[a].pc = "applying"
      BY <1>1, <3>1 DEF Keeping, EvictionsAreByKey
    <3>3. /\ ~IsParked(l)' /\ th'[a].task = th[a].task
          /\ th[a].next = "building" => th'[a].src # Nothing
          /\ th[a].next = "completing" => Drawn(th[a].task)
      BY <1>4, <2>1, <2>3, <2>4, <3>1, <3>2 DEF Carries, Heads, IsParked
    <3> QED BY <1>1, <2>3, <3>1, <3>3 DEF Carries, Heads, Drawn
  <2>5. ShadersAreKept'
    <3>1. th[a].pc \notin ClearPlaces
      BY <1>1 DEF ClearPlaces
    <3> QED BY <1>1, <2>1, <2>3, <2>4, <3>1, KeepsQuietly DEF Keeping
  <2>6. EvictionsAreByKey'
    <3>1. th'[a].pc \notin EvictionPlaces \cup {"retiring"}
      BY <1>2, <2>3 DEF EvictionPlaces
    <3> QED BY <1>2, <2>1, <2>3, <3>1, EvictionsStay DEF Keeping, IsParked
  <2> QED BY <2>5, <2>6
<1>7. CASE ~refused
  <2> DEFINE next == IF th[a].next = "building" THEN Finished(a) ELSE th[a].next
             x == [th[a] EXCEPT !.evict = parked[k].task, !.next = next]
  <2>1. /\ parked' = [parked EXCEPT ![k].applying = TRUE]
        /\ th' = Moved([th EXCEPT ![a] = x], a, "evicting")
    BY <1>3, <1>7 DEF ApplyDeferredEviction, Apply
  <2>2. next \in {"idle", "building", "completing"} /\ (a = Main => next # "completing")
    BY <1>2, PlaceNames
  <2>3. parked[k].task \in Tasks /\ KeyOf[parked[k].task] = k /\ parked[k].task \in SomeTask
    BY <1>2, <1>7 DEF Keeping, EvictionsAreByKey, SomeTask
  <2> HIDE DEF next
  <2>4. /\ x \in ThreadType /\ x.gen = th[a].gen /\ x.task = th[a].task
        /\ x.next = next /\ x.evict = parked[k].task
    BY <1>2, <2>2, <2>3 DEF ThreadType
  <2> HIDE DEF x
  <2>5. /\ Steps(a) /\ th'[a].pc = "evicting" /\ th'[a].task = th[a].task
        /\ th'[a].gen = th[a].gen /\ th'[a].evict = parked[k].task
    <3>1. /\ th' = Moved([th EXCEPT ![a] = x], a, "evicting") /\ x \in ThreadType
          /\ x.gen \in 0 .. live /\ x.task \in Tasks /\ "evicting" \in Places
          /\ a = Main => "evicting" \notin TaskPlaces /\ x.next # "completing"
      BY <1>2, <2>1, <2>2, <2>4, PlaceNames DEF TaskPlaces
    <3>2. /\ Steps(a) /\ th'[a].pc = "evicting" /\ th'[a].task = x.task
          /\ th'[a].gen = x.gen /\ th'[a].evict = x.evict
      BY <3>1, Goes
    <3> QED BY <2>4, <3>2
  <2>6. \A l \in Keys : /\ parked'[l].task = parked[l].task
                        /\ IsParked(l)' => IsParked(l)
    <3>1. /\ \A l \in Keys \ {k} : parked'[l] = parked[l]
          /\ parked'[k].task = parked[k].task /\ IsParked(k)
      BY <1>2, <1>7, <2>1 DEF EvictionType
    <3> QED BY <3>1 DEF IsParked
  <2>7. \A l \in Keys \ forgotten : Open => ~LiveBeyond(a, l)'
    <3>1. Open /\ k \notin forgotten => th[a].gen # live
      BY <1>4, <1>7 DEF Carries
    <3> QED BY <1>1, <1>3, <2>5, <3>1 DEF LiveBeyond, Key
  <2>8. ShadersAreKept'
    <3>1. Open' => Open
      BY <1>1, <1>2, <2>5, OpenStays DEF ClearPlaces
    <3> QED BY <1>1, <1>5, <2>5, <2>6, <2>7, <3>1, KeepsOn DEF Keeping, Finishes
  <2>9. EvictionsAreByKey'
    <3>1. KeyOf[th'[a].evict] = Key(a)' /\ th'[a].evict \in Tasks
      BY <1>3, <2>3, <2>5 DEF Key
    <3> QED BY <1>2, <2>5, <2>6, <3>1, EvictionsStay DEF Keeping
  <2> QED BY <2>8, <2>9
<1> QED BY <1>6, <1>7

\* What an eviction takes away is of a parked key, where nothing is finished.
LEMMA EvictionKeeps ==
    ASSUME IInv, Ownership, Keeping, NEW a \in Threads,
           EvictShader(a) \/ EvictShaderResources(a) \/ Forget(a) \/ Unpark(a)
    PROVE  ShadersAreKept' /\ EvictionsAreByKey'
<1>1. /\ live' = live /\ forgotten' = forgotten /\ watcher' = watcher
      /\ th[a].pc \in EvictionPlaces
  BY DEF EvictShader, EvictShaderResources, Forget, Unpark, books, bounds, EvictionPlaces
<1>2. /\ TypeOK /\ th[a].task \in Tasks /\ th[a].next \in {"idle", "building", "completing"}
      /\ a = Main => th[a].next # "completing"
  BY <1>1, Known DEF CompilePlaces, EvictionPlaces, ThreadType
<1>3. PICK k \in Keys : k = Key(a)
  BY <1>2, TasksHaveKeys DEF Key
<1>4. th[a].evict \in Tasks /\ KeyOf[th[a].evict] = k
  BY <1>1, <1>3 DEF Keeping, EvictionsAreByKey
<1>5. Open /\ k \notin forgotten
        => IsParked(k) /\ th[a].gen # live /\ \A t \in Tasks : KeyOf[t] = k => ~Finishes(t)
  BY <1>1, <1>3, EvictorsAreStale DEF Keeping, Evicts
<1>6. PICK where \in {"releasing", "forgetting", "unparking", "idle", "building", "completing"} :
        /\ th' = Moved(th, a, where) \/ th' = Moved(Notified(th), a, where)
        /\ a = Main => where # "completing"
  BY <1>2 DEF EvictShader, EvictShaderResources, Forget, Unpark
<1>7. /\ Steps(a) /\ th'[a].pc = where
      /\ where # "idle" => /\ th'[a].task = th[a].task /\ th'[a].gen = th[a].gen
                           /\ th'[a].evict = th[a].evict
  <2>1. where \in Places /\ (a = Main => where \notin TaskPlaces) /\ th[a].pc # "waiting"
    BY <1>1, <1>6, PlaceNames DEF TaskPlaces, EvictionPlaces
  <2> QED BY <1>2, <1>6, <2>1, GoesOn
<1>8. \A l \in Keys \ {k} :
        /\ map'[l] = map[l] /\ parked'[l] = parked[l]
        /\ \A t \in Tasks : KeyOf[t] = l => shader'[t] = shader[t]
  BY <1>2, <1>3, <1>4 DEF EvictShader, EvictShaderResources, Forget, Unpark, TypeOK
<1>9. \A l \in Keys : IsParked(l)' => IsParked(l) /\ parked'[l].task = parked[l].task
  <2>1. \A l \in Keys : parked'[l] = parked[l] \/ parked'[l] = NotParked
    BY <1>2 DEF EvictShader, EvictShaderResources, Forget, Unpark, TypeOK
  <2> QED BY <2>1 DEF IsParked
<1>10. \A t \in Tasks : task'[t] = "processed" => task[t] = "processed"
  BY <1>2 DEF EvictShader, EvictShaderResources, Forget, Unpark, TypeOK, books
<1>11. \A l \in Keys \ forgotten : Open => ~LiveBeyond(a, l)'
  BY <1>1, <1>3, <1>5, <1>7 DEF LiveBeyond, Key, Beyond, EvictionPlaces
<1>12. ASSUME NEW l \in Keys \ forgotten, Open, NEW t \in Tasks, KeyOf[t] = l, Finishes(t)
       PROVE  Drawn(t)'
  <2>1. l # k
    BY <1>5, <1>12
  <2> QED BY <1>8, <1>12, <2>1 DEF Finishes, Drawn
<1>13. ShadersAreKept'
  <2>1. Open' => Open
    BY <1>1, <1>2, <1>7, OpenStays DEF ClearPlaces, EvictionPlaces
  <2> QED BY <1>1, <1>7, <1>9, <1>10, <1>11, <1>12, <2>1, KeepsOn DEF Keeping
<1>14. EvictionsAreByKey'
  <2>1. th'[a].pc \in EvictionPlaces
            => th'[a].evict \in Tasks /\ KeyOf[th'[a].evict] = Key(a)'
    BY <1>3, <1>4, <1>6, <1>7 DEF EvictionPlaces, Key
  <2>2. th'[a].pc # "retiring"
    BY <1>6, <1>7
  <2> QED BY <1>2, <1>7, <1>9, <2>1, <2>2, EvictionsStay DEF Keeping
<1> QED BY <1>13, <1>14

\* Nothing the shaders in use depend on has changed.
LEMMA KeepsStill ==
    ASSUME ShadersAreKept, Open' => Open, live' = live, forgotten' = forgotten, th' = th,
           map' = map, parked' = parked, shader' = shader,
           \A t \in Tasks : task'[t] = "processed" => task[t] = "processed"
    PROVE  ShadersAreKept'
<1>1. /\ \A t \in Tasks : Finishes(t)' <=> Finishes(t)
      /\ \A a \in Threads, k \in Keys :
            (LiveBeyond(a, k)' <=> LiveBeyond(a, k)) /\ (Carries(a, k)' <=> Carries(a, k))
  BY DEF Finishes, Drawn, LiveBeyond, Carries, Heads, Key, IsParked
<1> QED BY <1>1 DEF ShadersAreKept

\* A request, an edit, and the watcher as it takes the records and decides on them.
LEMMA StillKeeps ==
    ASSUME IInv, Keeping,
           (\E t \in Tasks : Request(t)) \/ Edit \/ TakeRecords \/ (\E k \in Keys : TryDefer(k))
    PROVE  ShadersAreKept' /\ EvictionsAreByKey'
<1>1. /\ live' = live /\ forgotten' = forgotten /\ th' = th
      /\ map' = map /\ parked' = parked /\ shader' = shader
  BY DEF Request, Edit, TakeRecords, TryDefer, books, bounds
<1>2. TypeOK
  BY DEF IInv
<1>3. \A t \in Tasks : task'[t] = "processed" => task[t] = "processed"
  <2>1. CASE \E t \in Tasks : Request(t)
    BY <1>2, <2>1 DEF Request, TypeOK
  <2>2. CASE task' = task
    BY <2>2
  <2> QED BY <2>1, <2>2 DEF Edit, TakeRecords, TryDefer, books
<1>4. Open' => Open
  <2>1. Calm' => Calm
    <3>1. CASE watcher' = watcher
      BY <1>1, <3>1 DEF Calm
    <3>2. CASE TakeRecords
      BY <1>1, <3>2 DEF TakeRecords, Calm
    <3>3. CASE \E k \in Keys : TryDefer(k)
      <4>1. watcher'.pc = "parking"
        BY <1>2, <3>3 DEF TryDefer, TypeOK, WatcherType
      <4> QED BY <4>1 DEF Calm
    <3> QED BY <3>1, <3>2, <3>3 DEF Request, Edit
  <2> QED BY <1>1, <2>1 DEF Open
<1>5. ShadersAreKept'
  BY <1>1, <1>3, <1>4, KeepsStill DEF Keeping
<1>6. EvictionsAreByKey'
  BY <1>1 DEF Keeping, EvictionsAreByKey, IsParked, Key
<1> QED BY <1>5, <1>6

\* The watcher parks and takes away while nothing is said of the shaders.
LEMMA ScanKeeps ==
    ASSUME IInv, Keeping, Park \/ WatcherEvicts \/ WatcherReleases
    PROVE  ShadersAreKept' /\ EvictionsAreByKey'
<1>1. TypeOK /\ watcher \in WatcherType /\ parked \in [Keys -> EvictionType] /\ th' = th
  BY DEF IInv, TypeOK, Park, WatcherEvicts, WatcherReleases
<1>2. watcher'.pc \in {"scanning", "evicting", "releasing"}
  BY <1>1 DEF Park, WatcherEvicts, WatcherReleases, NextRecord, WatcherType
<1>3. ShadersAreKept'
  BY <1>2 DEF ShadersAreKept, Open, Calm
<1>4. ASSUME NEW k \in Keys, IsParked(k)'
      PROVE  parked'[k].task \in Tasks /\ KeyOf[parked'[k].task] = k
  <2>1. CASE parked'[k] = parked[k]
    BY <1>4, <2>1 DEF Keeping, EvictionsAreByKey, IsParked
  <2>2. CASE parked'[k] # parked[k]
    <3>1. /\ watcher.pc = "parking" /\ k = watcher.key
          /\ parked'[k].task = watcher.records[k]
      BY <1>1, <2>2 DEF Park, WatcherEvicts, WatcherReleases, EvictionType
    <3>2. watcher.records[k] # NoTask /\ KeyOf[watcher.records[k]] = k
      BY <3>1 DEF Keeping, RecordsAreByKey
    <3>3. watcher.records[k] \in Tasks
      BY <1>1, <3>2 DEF WatcherType, SomeTask
    <3> QED BY <3>1, <3>2, <3>3
  <2> QED BY <2>1, <2>2
<1>5. EvictionsAreByKey'
  BY <1>1, <1>4 DEF Keeping, EvictionsAreByKey, Key
<1> QED BY <1>3, <1>5

\* A clear empties the set of tasks by the time it has begun its last generation.
LEMMA ClearsKeep ==
    ASSUME IInv, Keeping,
           \/ Clear \/ ClearShaders \/ ClearMap \/ ClearRecords \/ ClearSet
           \/ ClearType \/ WatcherClearsSet
    PROVE  ShadersAreKept' /\ EvictionsAreByKey'
<1>1. Main \in Threads /\ TypeOK /\ "clearingShaders" \in Places /\ "clearingMap" \in Places
      /\ "clearingRecords" \in Places /\ "clearingSet" \in Places /\ "idle" \in Places
  BY Known, PlaceNames
<1>2. \A k \in Keys : IsParked(k)' => IsParked(k) /\ parked'[k].task = parked[k].task
  BY DEF Clear, ClearShaders, ClearMap, ClearRecords, ClearSet, ClearType, WatcherClearsSet,
         IsParked
<1>3. CASE Clear \/ ClearShaders \/ ClearMap \/ ClearRecords \/ ClearSet
  <2>1. PICK where \in ClearPlaces \cup {"idle"} :
          /\ th' = Moved(th, Main, where) \/ th' = Moved(Notified(th), Main, where)
          /\ where = "idle" <=> ClearSet
          /\ th[Main].pc # "waiting"
    <3>1. CASE ClearSet
      BY <3>1 DEF ClearSet
    <3>2. ASSUME NEW place \in ClearPlaces,
                 th' = Moved(th, Main, place) \/ th' = Moved(Notified(th), Main, place),
                 ~ClearSet, th[Main].pc # "waiting"
          PROVE  \E where \in ClearPlaces \cup {"idle"} :
                    /\ th' = Moved(th, Main, where) \/ th' = Moved(Notified(th), Main, where)
                    /\ where = "idle" <=> ClearSet
                    /\ th[Main].pc # "waiting"
      BY <3>2 DEF ClearPlaces
    <3>3. CASE Clear
      <4>1. ~ClearSet
        BY <3>3 DEF Clear, ClearSet
      <4> QED BY <3>2, <3>3, <4>1 DEF Clear, ClearPlaces
    <3>4. CASE ClearShaders \/ ClearMap \/ ClearRecords
      <4>1. ~ClearSet
        BY <3>4 DEF ClearShaders, ClearMap, ClearRecords, ClearSet
      <4> QED BY <3>2, <3>4, <4>1 DEF ClearShaders, ClearMap, ClearRecords, ClearPlaces
    <3> QED BY <1>3, <3>1, <3>3, <3>4
  <2>2. /\ where \in Places /\ where \notin CompilePlaces \cup TaskPlaces
        /\ where \notin EvictionPlaces \cup {"retiring"}
    BY <1>1, <2>1 DEF ClearPlaces, CompilePlaces, TaskPlaces, EvictionPlaces
  <2>3. Steps(Main) /\ th'[Main].pc = where /\ th'[Main].gen \in 0 .. live
    BY <1>1, <2>1, <2>2, Arrives
  <2>4. ShadersAreKept'
    <3>1. CASE ClearSet
      <4>1. live' = live + 1 /\ task' = NoTasks /\ th'[Main].gen <= live
        BY <1>1, <2>3, <3>1, Known DEF ClearSet
      <4> QED BY <1>1, <2>3, <4>1, KeepsAnew
    <3>2. CASE ~ClearSet
      <4>1. th'[Main].pc \in ClearPlaces
        BY <2>1, <2>3, <3>2
      <4> QED BY <4>1 DEF ShadersAreKept, Open
    <3> QED BY <3>1, <3>2
  <2>5. EvictionsAreByKey'
    BY <1>1, <1>2, <2>2, <2>3, EvictionsStay DEF Keeping
  <2> QED BY <2>4, <2>5
<1>4. CASE ClearType \/ WatcherClearsSet
  <2>1. live' = live + 1 /\ task' = NoTasks /\ (th' = th \/ th' = Notified(th))
    BY <1>4 DEF ClearType, WatcherClearsSet, books
  <2>2. Steps(Main) /\ th'[Main].gen <= live
    BY <2>1, ThreadsStay
  <2>3. ShadersAreKept'
    BY <1>1, <2>1, <2>2, KeepsAnew
  <2>4. th'[Main] = th[Main] \/ th'[Main].pc = "claiming"
    <3>1. th[Main] \in ThreadType
      BY <1>1, Known
    <3>2. AloneOrWoken(th', Main)
      BY <1>1, <2>1, NotifiedAlone DEF AloneOrWoken
    <3> QED BY <3>1, <3>2 DEF AloneOrWoken, ThreadType
  <2>5. EvictionsAreByKey'
    <3>1. /\ th'[Main].pc \in EvictionPlaces
                => th'[Main].evict \in Tasks /\ KeyOf[th'[Main].evict] = Key(Main)'
          /\ th'[Main].pc = "retiring" => th'[Main].next = "idle"
      BY <1>1, <2>4 DEF Keeping, EvictionsAreByKey, EvictionPlaces, Key
    <3> QED BY <1>1, <1>2, <2>2, <3>1, EvictionsStay DEF Keeping
  <2> QED BY <2>3, <2>5
<1> QED BY <1>3, <1>4

\* A completed entry is published with what was compiled.
LEMMA EntriesStay ==
    ASSUME IInv, EntriesHoldShaders, Next
    PROVE  EntriesHoldShaders'
<1>1. map \in [Keys -> EntryType] /\ TypeOK
  BY DEF IInv, TypeOK
<1> SUFFICES ASSUME NEW k \in Keys, map'[k].status = "completed", map'[k] # map[k]
             PROVE  map'[k].src # Nothing
  BY DEF EntriesHoldShaders
<1>2. ASSUME NEW a \in Threads, Compile(a) PROVE map'[k].src # Nothing
  <2>1. CASE ClaimCompilation(a)
    BY <1>1, <2>1 DEF ClaimCompilation, Claim, Entry
  <2>2. CASE Publish(a)
    BY <1>1, <2>2 DEF Publish, TryPublish, Entry, NoEntry
  <2>3. CASE EvictShader(a)
    BY <1>1, <2>3 DEF EvictShader, NoEntry
  <2>4. CASE map' = map
    BY <2>4
  <2> QED BY <1>2, <2>1, <2>2, <2>3, <2>4
         DEF Compile, CompileShader, RecordSource, Build, ApplyDeferredEviction, Apply,
             EvictShaderResources, Forget, Unpark
<1>3. ASSUME NEW w \in Workers, ResolvePendingFailure(w) PROVE map'[k].src # Nothing
  BY <1>1, <1>3 DEF ResolvePendingFailure, TryPublish, Entry, NoEntry
<1>4. CASE ClearMap \/ ClearType
  BY <1>1, <1>4 DEF ClearMap, ClearType, EmptyMap, NoEntry
<1>5. CASE WatcherEvicts
  BY <1>1, <1>5 DEF WatcherEvicts, NoEntry
<1>6. CASE map' = map
  BY <1>6
<1> QED BY <1>2, <1>3, <1>4, <1>5, <1>6
       DEF Next, Request, Draw, Dispatch, Work, Begin, Complete, CompileThrows, Clear,
           ClearGoesOn, ClearShaders, ClearRecords, ClearSet, MainClearsType, Edit, Watch,
           TakeRecords, ClearTypeInstead, TryDefer, Park, WatcherReleases, WatcherClearsSet

\* A record is of the key it is under, when it is made and where it is taken.
LEMMA RecordsStay ==
    ASSUME IInv, RecordsAreByKey, Next
    PROVE  RecordsAreByKey'
<1>1. /\ TypeOK /\ record \in [Keys -> SomeTask] /\ watcher \in WatcherType
      /\ watcher.records \in [Keys -> SomeTask]
  BY DEF IInv, TypeOK, WatcherType
<1>2. CASE record' = record /\ watcher' = watcher
  BY <1>2 DEF RecordsAreByKey
<1>3. ASSUME NEW a \in Threads, RecordSource(a) PROVE RecordsAreByKey'
  <2>1. th[a].task \in Tasks /\ watcher' = watcher
    BY <1>3, Known DEF RecordSource, CompilePlaces
  <2>2. \A k \in Keys : record'[k] = record[k] \/ KeyOf[record'[k]] = k
    BY <1>1, <1>3, <2>1, TasksHaveKeys DEF RecordSource, Key
  <2> QED BY <2>1, <2>2 DEF RecordsAreByKey
<1>4. CASE ClearRecords
  BY <1>4 DEF ClearRecords, RecordsAreByKey
<1>5. CASE TakeRecords
  <2>1. /\ \A k \in Keys : record'[k] = NoTask
        /\ \/ watcher' = watcher
           \/ /\ watcher'.pc \in {"fallback", "scanning"} /\ watcher'.records = record
              /\ watcher'.todo = {k \in Keys : record[k] # NoTask}
    BY <1>5 DEF TakeRecords, Watching
  <2> QED BY <2>1 DEF RecordsAreByKey
<1>6. CASE ClearTypeInstead \/ WatcherClearsSet
  <2>1. watcher' = Watching /\ record' = record
    BY <1>6 DEF ClearTypeInstead, ClearType, WatcherClearsSet
  <2> QED BY <2>1 DEF RecordsAreByKey, Watching
<1>7. ASSUME NEW k \in Keys, TryDefer(k) PROVE RecordsAreByKey'
  <2>1. /\ record' = record /\ watcher'.records = watcher.records /\ watcher'.todo = watcher.todo
        /\ watcher'.key = k /\ k \in watcher.todo
    BY <1>1, <1>7 DEF TryDefer, WatcherType
  <2> QED BY <2>1 DEF RecordsAreByKey
<1>8. CASE Park \/ WatcherEvicts \/ WatcherReleases
  <2>1. /\ record' = record /\ watcher'.records = watcher.records
        /\ watcher'.todo \subseteq watcher.todo /\ watcher'.pc # "parking"
    BY <1>1, <1>8 DEF Park, WatcherEvicts, WatcherReleases, NextRecord, WatcherType
  <2> QED BY <2>1 DEF RecordsAreByKey
<1>9. ASSUME NEW a \in Threads, Compile(a) PROVE RecordsAreByKey'
  BY <1>2, <1>3, <1>9
     DEF Compile, ClaimCompilation, Claim, CompileShader, Publish, Build, ApplyDeferredEviction,
         Apply, EvictShader, EvictShaderResources, Forget, Unpark
<1>10. CASE Watch
  BY <1>5, <1>6, <1>7, <1>8, <1>10 DEF Watch
<1> QED BY <1>2, <1>4, <1>9, <1>10
       DEF Next, Request, Draw, Dispatch, Work, Begin, ResolvePendingFailure, Complete,
           CompileThrows, Clear, ClearGoesOn, ClearShaders, ClearMap, ClearSet,
           MainClearsType, ClearType, Edit

\* At first nothing is published, recorded or evicted.
LEMMA InitiallyKept == Init => Keeping
<1> SUFFICES ASSUME Init PROVE Keeping
  OBVIOUS
<1>1. /\ \A k \in Keys : map[k].status = "absent" /\ ~IsParked(k)
      /\ \A k \in Keys : record[k] = NoTask /\ watcher.records[k] = NoTask
      /\ watcher.todo = {} /\ watcher.pc = "idle"
      /\ \A t \in Tasks : task[t] = "none"
      /\ \A a \in Threads : th[a].pc = "idle"
  BY DEF Init, NoEntry, IsParked, Watching, Resting
<1> QED BY <1>1
       DEF Keeping, ShadersAreKept, LiveBeyond, Beyond, EvictionPlaces, EntriesHoldShaders,
           RecordsAreByKey, EvictionsAreByKey

\* Every step preserves it.
LEMMA KeepingIsKept == IInv /\ Ownership /\ Keeping /\ [Next]_vars => Keeping'
<1> SUFFICES ASSUME IInv, Ownership, Keeping, [Next]_vars PROVE Keeping'
  OBVIOUS
<1>1. CASE Next
  <2>1. EntriesHoldShaders' /\ RecordsAreByKey'
    BY <1>1, EntriesStay, RecordsStay DEF Keeping
  <2>2. ASSUME NEW t \in Tasks, Request(t) \/ Draw(t) \/ \E w \in Workers : Dispatch(w, t)
        PROVE  ShadersAreKept' /\ EvictionsAreByKey'
    BY <2>2, StillKeeps, QuietKeeps, PlaceNames
  <2>3. ASSUME NEW a \in Threads, Compile(a) PROVE ShadersAreKept' /\ EvictionsAreByKey'
    <3>1. CASE ClaimCompilation(a) \/ Publish(a) \/ Build(a) \/ ApplyDeferredEviction(a)
      BY <3>1, ClaimKeeps, PublishKeeps, BuildKeeps, ApplyKeeps
    <3>2. CASE CompileShader(a) \/ RecordSource(a)
      BY <3>2, QuietKeeps
    <3>3. CASE EvictShader(a) \/ EvictShaderResources(a) \/ Forget(a) \/ Unpark(a)
      BY <3>3, EvictionKeeps
    <3> QED BY <2>3, <3>1, <3>2, <3>3 DEF Compile
  <2>4. ASSUME NEW w \in Workers, Work(w) \/ CompileThrows(w)
        PROVE  ShadersAreKept' /\ EvictionsAreByKey'
    <3>1. w \in Threads
      BY PlaceNames
    <3> QED BY <2>4, <3>1, QuietKeeps, PublishKeeps, CompleteKeeps DEF Work
  <2>5. ASSUME Clear \/ ClearGoesOn \/ MainClearsType
        PROVE  ShadersAreKept' /\ EvictionsAreByKey'
    BY <2>5, ClearsKeep DEF ClearGoesOn, MainClearsType
  <2>6. ASSUME Edit \/ Watch PROVE ShadersAreKept' /\ EvictionsAreByKey'
    BY <2>6, StillKeeps, ScanKeeps, ClearsKeep DEF Watch, ClearTypeInstead
  <2>7. ShadersAreKept' /\ EvictionsAreByKey'
    BY <1>1, <2>2, <2>3, <2>4, <2>5, <2>6 DEF Next
  <2> QED BY <2>1, <2>7 DEF Keeping
<1>2. CASE UNCHANGED vars
  <2>1. /\ live' = live /\ forgotten' = forgotten /\ th' = th /\ map' = map /\ parked' = parked
        /\ shader' = shader /\ task' = task /\ record' = record /\ watcher' = watcher
    BY <1>2 DEF vars, books, bounds
  <2>2. ShadersAreKept'
    BY <2>1, KeepsStill DEF Keeping, Open, Calm
  <2> QED BY <2>1, <2>2
         DEF Keeping, EntriesHoldShaders, RecordsAreByKey, EvictionsAreByKey, IsParked, Key
<1> QED BY <1>1, <1>2

\* A descriptor that Add would skip as finished has its shader, or a failure on
\* record, whenever nobody is inside an operation: the parked evictions are
\* carried out by work of earlier generations only and end with the task
\* forgotten, and a live result is never built under a parked key.  Not so where
\* the device refused to create the shader: of that there is no record.
THEOREM NoShaderGoesMissing == Spec => []NoShaderIsLost
<1>1. IInv /\ Keeping => NoShaderIsLost
  <2> SUFFICES ASSUME IInv, Keeping, watcher.pc = "idle", \A a \in Threads : th[a].pc = "idle",
                      NEW t \in Tasks, task[t] = "processed", shader[t] = Nothing,
                      KeyOf[t] \notin forgotten
               PROVE  map[KeyOf[t]].status = "failed"
    BY DEF NoShaderIsLost
  <2>1. Open
    BY PlaceNames DEF Open, Calm, ClearPlaces, Emptied
  <2>2. Finishes(t)
    BY <2>1, TasksHaveKeys DEF Keeping, ShadersAreKept
  <2> QED BY <2>2 DEF Finishes, Drawn
<1>2. Spec => []IInv
  BY InductiveInvariant
<1>3. Spec => []Ownership
  BY <1>2, InitiallyOwned, OwnershipIsKept, PTL DEF Spec
<1>4. Spec => []Keeping
  BY <1>2, <1>3, InitiallyKept, KeepingIsKept, PTL DEF Spec
<1> QED BY <1>1, <1>2, <1>4, PTL
=============================================================================
