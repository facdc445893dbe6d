------------------------ MODULE CompileDedupeProofs -------------------------
(***************************************************************************)
(* No waiter is stranded and no failed entry is met again, for any number  *)
(* of threads, keys and entries and any blob sizes; and retainedBytes is   *)
(* the size of what the map keeps alive, byte for byte.                    *)
(***************************************************************************)
EXTENDS CompileDedupe, FiniteSetTheorems, TLAPS

\* An entry is in the hands of at most one thread that compiles for it.
OneOwnerPerEntry ==
    \A v, w \in Workers, e \in Entries : Holds(v, e) /\ Holds(w, e) => v = w

\* A thread that holds an entry is the reason why that entry is pending.
HeldEntriesArePending ==
    \A w \in Workers, e \in Entries : Holds(w, e) => state[e] = "Pending"

\* Once its failure has been announced to the map, an entry is not in it.
FailingEntriesAreUnlisted ==
    \A w \in Workers, k \in Keys :
        worker[w].pc = "failing" => map[k] # worker[w].entry

\* An entry is listed under the key it was made for only.
OwnersListTheirKey ==
    \A w \in Workers, k \in Keys, e \in Entries :
        Holds(w, e) /\ map[k] = e => worker[w].key = k

PlacesAreConsistent ==
    \A w \in Workers :
        /\ worker[w].pc \in {"acquiring", "waiting", "owner", "publishing", "failing"}
              => worker[w].key \in Keys
        /\ worker[w].pc \in {"waiting", "owner", "publishing", "failing"}
              => worker[w].entry \in Entries

IInv ==
    /\ TypeOK
    /\ PlacesAreConsistent
    /\ OneOwnerPerEntry
    /\ HeldEntriesArePending
    /\ PendingEntriesHaveAnOwner
    /\ OwnersListTheirKey
    /\ FailingEntriesAreUnlisted
    /\ FailedEntriesAreUnlisted
    /\ retainedBytes <= MaxRetainedBytes

-----------------------------------------------------------------------------
\* A thread whose place lies inside the registry knows its key and entry.
LEMMA WorkerShape ==
    ASSUME TypeOK, NEW w \in Workers
    PROVE  worker[w] \in [pc : Places, key : Keys \cup {NoKey}, entry : Entries \cup {NoEntry}]
BY DEF TypeOK

\* What a thread is, after another's step and after its own.
LEMMA MoveShape ==
    ASSUME TypeOK, NEW w \in Workers, NEW pc \in Places, MoveTo(w, pc)
    PROVE  /\ worker' \in [Workers -> [pc : Places, key : Keys \cup {NoKey},
                                       entry : Entries \cup {NoEntry}]]
           /\ worker'[w] = At(pc, worker[w].key, worker[w].entry)
           /\ \A v \in Workers \ {w} : worker'[v] = worker[v]
BY WorkerShape DEF MoveTo, At, TypeOK

\* A thread moved to a place is there, and the others are where they were.
LEMMA PlaceShape ==
    ASSUME TypeOK, NEW w \in Workers, NEW pc \in Places, NEW k \in Keys \cup {NoKey},
           NEW e \in Entries \cup {NoEntry},
           worker' = [worker EXCEPT ![w] = At(pc, k, e)]
    PROVE  /\ worker' \in [Workers -> [pc : Places, key : Keys \cup {NoKey},
                                       entry : Entries \cup {NoEntry}]]
           /\ worker'[w] = At(pc, k, e)
           /\ \A v \in Workers \ {w} : worker'[v] = worker[v]
BY DEF At, TypeOK

\* The invariant holds initially.
LEMMA InitEstablishes == Init => IInv
<1> SUFFICES ASSUME Init PROVE IInv
  OBVIOUS
<1>1. \A w \in Workers : worker[w].pc = "idle" /\ worker[w].entry = NoEntry
  BY DEF Init, Idle, At
<1>2. TypeOK
  BY DEF Init, TypeOK, Idle, At, Places
<1>3. \A e \in Entries : Unreferenced(e)
  BY <1>1, NullIsNoEntry DEF Init, Unreferenced
<1>4. \A w \in Workers, e \in Entries : ~Holds(w, e)
  BY <1>1 DEF Holds
<1>5. PlacesAreConsistent /\ FailingEntriesAreUnlisted
  BY <1>1 DEF PlacesAreConsistent, FailingEntriesAreUnlisted
<1>6. OneOwnerPerEntry /\ HeldEntriesArePending /\ OwnersListTheirKey
  BY <1>4 DEF OneOwnerPerEntry, HeldEntriesArePending, OwnersListTheirKey
<1>7. PendingEntriesHaveAnOwner /\ FailedEntriesAreUnlisted
  BY <1>3 DEF Init, PendingEntriesHaveAnOwner, FailedEntriesAreUnlisted, Registered
<1>8. retainedBytes <= MaxRetainedBytes
  BY SizesAreNatural DEF Init
<1> QED
  BY <1>2, <1>5, <1>6, <1>7, <1>8 DEF IInv

\* BeginAcquire preserves the invariant.
LEMMA BeginAcquirePreserves ==
    ASSUME IInv, NEW w \in Workers, NEW k \in Keys, BeginAcquire(w, k)
    PROVE  IInv'
<1>1. /\ worker'[w] = At("acquiring", k, NoEntry)
      /\ \A v \in Workers \ {w} : worker'[v] = worker[v]
      /\ worker[w].pc = "idle" /\ worker[w].entry = NoEntry
      /\ UNCHANGED <<map, state, retainedBytes>>
      /\ TypeOK'
  <2>1. /\ worker' = [worker EXCEPT ![w] = At("acquiring", k, NoEntry)]
        /\ worker[w] = At("idle", NoKey, NoEntry)
        /\ UNCHANGED <<map, state, retainedBytes>>
    BY DEF BeginAcquire, Idle
  <2>2. /\ worker' \in [Workers -> [pc : Places, key : Keys \cup {NoKey}, entry : Entries \cup {NoEntry}]]
        /\ worker'[w] = At("acquiring", k, NoEntry)
        /\ \A v \in Workers \ {w} : worker'[v] = worker[v]
    BY <2>1, PlaceShape DEF IInv, Places
  <2> QED
    BY <2>1, <2>2 DEF IInv, TypeOK, At
<1>2. /\ \A v \in Workers, e \in Entries : Holds(v, e)' <=> Holds(v, e)
      /\ \A e \in Entries : Unreferenced(e)' <=> Unreferenced(e)
  BY <1>1, NullIsNoEntry DEF Holds, Unreferenced, At
<1>3. PlacesAreConsistent'
  BY <1>1 DEF IInv, PlacesAreConsistent, At
<1>4. OneOwnerPerEntry' /\ HeldEntriesArePending' /\ PendingEntriesHaveAnOwner'
  BY <1>1, <1>2 DEF IInv, OneOwnerPerEntry, HeldEntriesArePending, PendingEntriesHaveAnOwner
<1>5. OwnersListTheirKey' /\ FailingEntriesAreUnlisted' /\ FailedEntriesAreUnlisted'
  <2>1. \A v \in Workers, e \in Entries : Holds(v, e)' => v # w
    BY <1>1 DEF Holds, At
  <2> QED
    BY <1>1, <1>2, <2>1
       DEF IInv, OwnersListTheirKey, FailingEntriesAreUnlisted, FailedEntriesAreUnlisted, Registered, At
<1> QED
  BY <1>1, <1>3, <1>4, <1>5 DEF IInv

\* TakeTicket preserves the invariant.
LEMMA TakeTicketPreserves ==
    ASSUME IInv, NEW w \in Workers, TakeTicket(w)
    PROVE  IInv'
<1> DEFINE k == worker[w].key
<1>1. k \in Keys /\ worker[w].pc = "acquiring" /\ map[k] = NoEntry
  BY DEF IInv, PlacesAreConsistent, TakeTicket
<1>2. PICK e \in Entries : /\ Unreferenced(e)
                           /\ map' = [map EXCEPT ![k] = e]
                           /\ state' = [state EXCEPT ![e] = "Pending"]
                           /\ worker' = [worker EXCEPT ![w] = At("owner", k, e)]
  BY DEF TakeTicket
<1>3. /\ worker'[w] = At("owner", k, e)
      /\ \A v \in Workers \ {w} : worker'[v] = worker[v] /\ worker[v].entry # e
      /\ map'[k] = e /\ \A j \in Keys \ {k} : map'[j] = map[j] /\ map[j] # e
      /\ state'[e] = "Pending" /\ \A f \in Entries \ {e} : state'[f] = state[f]
      /\ retainedBytes' = retainedBytes
      /\ TypeOK'
  <2>1. worker' \in [Workers -> [pc : Places, key : Keys \cup {NoKey}, entry : Entries \cup {NoEntry}]]
        /\ worker'[w] = At("owner", k, e)
        /\ \A v \in Workers \ {w} : worker'[v] = worker[v]
    BY <1>1, <1>2, PlaceShape DEF IInv, Places
  <2> QED
    BY <1>1, <1>2, <2>1 DEF TakeTicket, IInv, TypeOK, Unreferenced
<1> HIDE DEF k
<1>4. \A v \in Workers, f \in Entries :
         Holds(v, f)' <=> (IF v = w THEN f = e ELSE Holds(v, f))
  BY <1>3 DEF Holds, At
<1>5. \A v \in Workers, f \in Entries : Holds(v, f) => v # w /\ f # e
  BY <1>1, <1>3 DEF Holds
<1>6. PlacesAreConsistent'
  BY <1>1, <1>3 DEF IInv, PlacesAreConsistent, At
<1>7. OneOwnerPerEntry' /\ HeldEntriesArePending'
  BY <1>3, <1>4, <1>5 DEF IInv, OneOwnerPerEntry, HeldEntriesArePending
<1>8. PendingEntriesHaveAnOwner'
  <2> SUFFICES ASSUME NEW f \in Entries, state'[f] = "Pending", ~Unreferenced(f)'
               PROVE  \E v \in Workers : Holds(v, f)'
    BY DEF PendingEntriesHaveAnOwner
  <2>1. CASE f = e
    BY <1>4, <2>1
  <2>2. CASE f # e
    <3>1. ~Unreferenced(f) /\ state[f] = "Pending"
      BY <1>3, <2>2 DEF Unreferenced, At
    <3>2. PICK v \in Workers : Holds(v, f)
      BY <3>1 DEF IInv, PendingEntriesHaveAnOwner
    <3> QED
      BY <1>4, <1>5, <3>2
  <2> QED
    BY <2>1, <2>2
<1>9. OwnersListTheirKey'
  <2> SUFFICES ASSUME NEW v \in Workers, NEW j \in Keys, NEW f \in Entries,
                      Holds(v, f)', map'[j] = f
               PROVE  worker'[v].key = j
    BY DEF OwnersListTheirKey
  <2>1. CASE v = w
    BY <1>1, <1>3, <1>4, <2>1 DEF At
  <2>2. CASE v # w
    BY <1>3, <1>4, <1>5, <2>2 DEF IInv, OwnersListTheirKey
  <2> QED
    BY <2>1, <2>2
<1>10. FailingEntriesAreUnlisted'
  BY <1>3 DEF IInv, FailingEntriesAreUnlisted, At
<1>11. FailedEntriesAreUnlisted'
  BY <1>3 DEF IInv, FailedEntriesAreUnlisted, Registered
<1> QED
  BY <1>3, <1>6, <1>7, <1>8, <1>9, <1>10, <1>11 DEF IInv

\* FindEntry preserves the invariant.
LEMMA FindEntryPreserves ==
    ASSUME IInv, NEW w \in Workers, FindEntry(w)
    PROVE  IInv'
<1> DEFINE k == worker[w].key
<1>1. k \in Keys /\ worker[w].pc = "acquiring" /\ map[k] \in Entries
  BY DEF IInv, PlacesAreConsistent, FindEntry, TypeOK
<1>2. /\ worker'[w] = At("waiting", k, map[k])
      /\ \A v \in Workers \ {w} : worker'[v] = worker[v]
      /\ UNCHANGED <<map, state, retainedBytes>>
      /\ TypeOK'
  <2>1. worker' = [worker EXCEPT ![w] = At("waiting", k, map[k])]
        /\ UNCHANGED <<map, state, retainedBytes>>
    BY DEF FindEntry
  <2>2. /\ worker' \in [Workers -> [pc : Places, key : Keys \cup {NoKey}, entry : Entries \cup {NoEntry}]]
        /\ worker'[w] = At("waiting", k, map[k])
        /\ \A v \in Workers \ {w} : worker'[v] = worker[v]
    BY <1>1, <2>1, PlaceShape DEF IInv, Places
  <2> QED
    BY <2>1, <2>2 DEF IInv, TypeOK
<1> HIDE DEF k
<1>3. \A v \in Workers, f \in Entries : Holds(v, f)' <=> Holds(v, f)
  BY <1>1, <1>2 DEF Holds, At
<1>4. \A f \in Entries : ~Unreferenced(f)' => ~Unreferenced(f)
  BY <1>1, <1>2 DEF Unreferenced, At
<1>5. PlacesAreConsistent'
  BY <1>1, <1>2 DEF IInv, PlacesAreConsistent, At
<1>6. OneOwnerPerEntry' /\ HeldEntriesArePending' /\ PendingEntriesHaveAnOwner'
  BY <1>2, <1>3, <1>4 DEF IInv, OneOwnerPerEntry, HeldEntriesArePending, PendingEntriesHaveAnOwner
<1>7. OwnersListTheirKey' /\ FailingEntriesAreUnlisted' /\ FailedEntriesAreUnlisted'
  <2>1. \A v \in Workers, e \in Entries : Holds(v, e)' => v # w
    BY <1>2 DEF Holds, At
  <2> QED
    BY <1>2, <1>3, <2>1
       DEF IInv, OwnersListTheirKey, FailingEntriesAreUnlisted, FailedEntriesAreUnlisted, Registered, At
<1> QED
  BY <1>2, <1>5, <1>6, <1>7 DEF IInv

\* WaitEnds preserves the invariant.
LEMMA WaitEndsPreserves ==
    ASSUME IInv, NEW w \in Workers, WaitEnds(w)
    PROVE  IInv'
<1>1. worker[w].pc = "waiting" /\ worker[w].key \in Keys
  BY DEF IInv, PlacesAreConsistent, WaitEnds
<1>2. /\ worker'[w].entry = NoEntry /\ worker'[w].pc \in {"idle", "acquiring"}
      /\ worker'[w].pc = "acquiring" => worker'[w].key \in Keys
      /\ \A v \in Workers \ {w} : worker'[v] = worker[v]
      /\ UNCHANGED <<map, state, retainedBytes>>
      /\ TypeOK'
  <2>1. CASE state[worker[w].entry] = "Done"
    <3>1. worker' = [worker EXCEPT ![w] = At("idle", NoKey, NoEntry)]
          /\ UNCHANGED <<map, state, retainedBytes>>
      BY <2>1 DEF WaitEnds, Idle
    <3>2. /\ worker' \in [Workers -> [pc : Places, key : Keys \cup {NoKey}, entry : Entries \cup {NoEntry}]]
          /\ worker'[w] = At("idle", NoKey, NoEntry)
          /\ \A v \in Workers \ {w} : worker'[v] = worker[v]
      BY <3>1, PlaceShape DEF IInv, Places
    <3> QED
      BY <3>1, <3>2 DEF IInv, TypeOK, At
  <2>2. CASE state[worker[w].entry] # "Done"
    <3>1. worker' = [worker EXCEPT ![w] = At("acquiring", worker[w].key, NoEntry)]
          /\ UNCHANGED <<map, state, retainedBytes>>
      BY <2>2 DEF WaitEnds
    <3>2. /\ worker' \in [Workers -> [pc : Places, key : Keys \cup {NoKey}, entry : Entries \cup {NoEntry}]]
          /\ worker'[w] = At("acquiring", worker[w].key, NoEntry)
          /\ \A v \in Workers \ {w} : worker'[v] = worker[v]
      BY <1>1, <3>1, PlaceShape DEF IInv, Places
    <3> QED
      BY <1>1, <3>1, <3>2 DEF IInv, TypeOK, At
  <2> QED
    BY <2>1, <2>2
<1>3. \A v \in Workers, f \in Entries : Holds(v, f)' <=> Holds(v, f)
  BY <1>1, <1>2 DEF Holds
<1>4. \A f \in Entries : ~Unreferenced(f)' => ~Unreferenced(f)
  BY <1>2, NullIsNoEntry DEF Unreferenced
<1>5. PlacesAreConsistent'
  BY <1>2 DEF IInv, PlacesAreConsistent
<1>6. OneOwnerPerEntry' /\ HeldEntriesArePending' /\ PendingEntriesHaveAnOwner'
  BY <1>2, <1>3, <1>4 DEF IInv, OneOwnerPerEntry, HeldEntriesArePending, PendingEntriesHaveAnOwner
<1>7. OwnersListTheirKey' /\ FailingEntriesAreUnlisted' /\ FailedEntriesAreUnlisted'
  <2>1. \A v \in Workers, e \in Entries : Holds(v, e)' => v # w
    BY <1>2 DEF Holds
  <2> QED
    BY <1>2, <1>3, <2>1
       DEF IInv, OwnersListTheirKey, FailingEntriesAreUnlisted, FailedEntriesAreUnlisted, Registered
<1> QED
  BY <1>2, <1>5, <1>6, <1>7 DEF IInv

\* A thread that keeps its entry and key while it moves on past the map.
LEMMA RetainPreserves ==
    ASSUME IInv, NEW w \in Workers, Retain(w)
    PROVE  IInv'
<1> DEFINE k == worker[w].key
           e == worker[w].entry
<1>1. worker[w].pc = "owner" /\ k \in Keys /\ e \in Entries
  BY DEF IInv, PlacesAreConsistent, Retain
<1>2. /\ worker'[w] = At("publishing", k, e)
      /\ \A v \in Workers \ {w} : worker'[v] = worker[v]
      /\ worker' \in [Workers -> [pc : Places, key : Keys \cup {NoKey}, entry : Entries \cup {NoEntry}]]
  BY MoveShape DEF Retain, IInv, Places
<1>3. /\ \A j \in Keys : map'[j] = map[j] \/ map'[j] = NoEntry
      /\ map' \in [Keys -> Entries \cup {NoEntry}]
  BY <1>1 DEF Retain, IInv, TypeOK
<1>4. state' = state
  BY DEF Retain
<1>5. retainedBytes' \in Nat /\ retainedBytes' <= MaxRetainedBytes
  <2>1. SizeOf[k] \in Nat /\ MaxRetainedBytes \in Nat /\ retainedBytes \in Nat
    BY <1>1, SizesAreNatural DEF IInv, TypeOK
  <2>2. \/ retainedBytes' = retainedBytes
        \/ /\ SizeOf[k] <= MaxRetainedBytes - retainedBytes
           /\ retainedBytes' = retainedBytes + SizeOf[k]
    BY DEF Retain
  <2> QED
    BY <2>1, <2>2 DEF IInv
<1> HIDE DEF k, e
<1>6. \A v \in Workers, f \in Entries : Holds(v, f)' <=> Holds(v, f)
  <2>1. worker[w].entry = e
    BY DEF e
  <2> QED
    BY <1>1, <1>2, <2>1 DEF Holds, At
<1>7. \A f \in Entries : ~Unreferenced(f)' => ~Unreferenced(f)
  <2>1. \A v \in Workers : worker'[v].entry = worker[v].entry
    BY <1>2 DEF At, e
  <2> QED
    BY <1>3, <2>1, NullIsNoEntry DEF Unreferenced
<1>8. \A v \in Workers : worker'[v].key = worker[v].key
  BY <1>2 DEF At, k
<1>9. TypeOK' /\ PlacesAreConsistent'
  BY <1>1, <1>2, <1>3, <1>4, <1>5 DEF IInv, TypeOK, PlacesAreConsistent, At
<1>10. OneOwnerPerEntry' /\ HeldEntriesArePending' /\ PendingEntriesHaveAnOwner'
  BY <1>4, <1>6, <1>7 DEF IInv, OneOwnerPerEntry, HeldEntriesArePending, PendingEntriesHaveAnOwner
<1>11. OwnersListTheirKey'
  BY <1>3, <1>6, <1>8, NullIsNoEntry DEF IInv, OwnersListTheirKey
<1>12. FailingEntriesAreUnlisted'
  <2> SUFFICES ASSUME NEW v \in Workers, NEW j \in Keys, worker'[v].pc = "failing"
               PROVE  map'[j] # worker'[v].entry
    BY DEF FailingEntriesAreUnlisted
  <2>1. v # w /\ worker'[v] = worker[v]
    BY <1>2 DEF At
  <2>2. worker[v].entry \in Entries
    BY <2>1 DEF IInv, PlacesAreConsistent
  <2> QED
    BY <1>3, <2>1, <2>2, NullIsNoEntry DEF IInv, FailingEntriesAreUnlisted
<1>13. FailedEntriesAreUnlisted'
  BY <1>3, <1>4 DEF IInv, FailedEntriesAreUnlisted, Registered
<1> QED
  BY <1>5, <1>9, <1>10, <1>11, <1>12, <1>13 DEF IInv

\* Settling an entry: its only owner lets go of it and its state is final.
LEMMA SettlePreserves ==
    ASSUME IInv, NEW w \in Workers, NEW e \in Entries, NEW final \in {"Done", "Failed"},
           Holds(w, e),
           final = "Failed" => worker[w].pc = "failing",
           state' = [state EXCEPT ![e] = final],
           worker' = [worker EXCEPT ![w] = Idle],
           UNCHANGED <<map, retainedBytes>>
    PROVE  IInv'
<1>1. /\ worker'[w] = At("idle", NoKey, NoEntry)
      /\ \A v \in Workers \ {w} : worker'[v] = worker[v]
      /\ worker' \in [Workers -> [pc : Places, key : Keys \cup {NoKey}, entry : Entries \cup {NoEntry}]]
  BY PlaceShape DEF Idle, IInv, Places
<1>2. state'[e] = final /\ \A f \in Entries \ {e} : state'[f] = state[f]
  BY DEF IInv, TypeOK
<1>3. \A v \in Workers, f \in Entries : Holds(v, f)' <=> (v # w /\ Holds(v, f))
  BY <1>1 DEF Holds, At
<1>4. \A v \in Workers, f \in Entries : v # w /\ Holds(v, f) => f # e
  BY DEF IInv, OneOwnerPerEntry
<1>5. \A f \in Entries : ~Unreferenced(f)' => ~Unreferenced(f)
  BY <1>1, NullIsNoEntry DEF Unreferenced, At
<1>6. TypeOK' /\ PlacesAreConsistent'
  BY <1>1 DEF IInv, TypeOK, PlacesAreConsistent, At
<1>7. OneOwnerPerEntry' /\ HeldEntriesArePending'
  BY <1>2, <1>3, <1>4 DEF IInv, OneOwnerPerEntry, HeldEntriesArePending
<1>8. PendingEntriesHaveAnOwner'
  <2> SUFFICES ASSUME NEW f \in Entries, state'[f] = "Pending", ~Unreferenced(f)'
               PROVE  \E v \in Workers : Holds(v, f)'
    BY DEF PendingEntriesHaveAnOwner
  <2>1. f # e /\ state[f] = "Pending"
    BY <1>2
  <2>2. PICK v \in Workers : Holds(v, f)
    BY <1>5, <2>1 DEF IInv, PendingEntriesHaveAnOwner
  <2>3. v # w
    BY <2>1, <2>2 DEF Holds
  <2> QED
    BY <1>3, <2>2, <2>3
<1>9. OwnersListTheirKey'
  BY <1>1, <1>3 DEF IInv, OwnersListTheirKey
<1>10. FailingEntriesAreUnlisted'
  BY <1>1 DEF IInv, FailingEntriesAreUnlisted, At
<1>11. FailedEntriesAreUnlisted'
  <2> SUFFICES ASSUME NEW j \in Keys, NEW f \in Entries, map[j] = f, state'[f] = "Failed"
               PROVE  FALSE
    BY DEF FailedEntriesAreUnlisted, Registered
  <2>1. CASE f = e
    BY <1>2, <2>1 DEF IInv, FailingEntriesAreUnlisted, Holds
  <2>2. CASE f # e
    BY <1>2, <2>2, NullIsNoEntry DEF IInv, FailedEntriesAreUnlisted, Registered
  <2> QED
    BY <2>1, <2>2
<1> QED
  BY <1>6, <1>7, <1>8, <1>9, <1>10, <1>11 DEF IInv

\* PublishBlob preserves the invariant.
LEMMA PublishBlobPreserves ==
    ASSUME IInv, NEW w \in Workers, PublishBlob(w)
    PROVE  IInv'
<1>1. worker[w].entry \in Entries /\ Holds(w, worker[w].entry)
  BY DEF PublishBlob, IInv, PlacesAreConsistent, Holds
<1> QED
  BY <1>1, SettlePreserves DEF PublishBlob

\* FailEntry preserves the invariant.
LEMMA FailEntryPreserves ==
    ASSUME IInv, NEW w \in Workers, FailEntry(w)
    PROVE  IInv'
<1>1. worker[w].entry \in Entries /\ Holds(w, worker[w].entry)
  BY DEF FailEntry, IInv, PlacesAreConsistent, Holds
<1> QED
  BY <1>1, SettlePreserves DEF FailEntry

\* Forget preserves the invariant.
LEMMA ForgetPreserves ==
    ASSUME IInv, NEW w \in Workers, Forget(w)
    PROVE  IInv'
<1> DEFINE k == worker[w].key
           e == worker[w].entry
<1>1. worker[w].pc = "owner" /\ k \in Keys /\ e \in Entries
  BY DEF IInv, PlacesAreConsistent, Forget
<1>2. /\ worker'[w] = At("failing", k, e)
      /\ \A v \in Workers \ {w} : worker'[v] = worker[v]
      /\ worker' \in [Workers -> [pc : Places, key : Keys \cup {NoKey}, entry : Entries \cup {NoEntry}]]
  BY MoveShape DEF Forget, IInv, Places
<1>3. /\ \A j \in Keys : map'[j] = map[j] \/ map'[j] = NoEntry
      /\ map' \in [Keys -> Entries \cup {NoEntry}]
      /\ map'[k] # e
  BY <1>1, NullIsNoEntry DEF Forget, IInv, TypeOK
<1>4. state' = state /\ retainedBytes' = retainedBytes
  BY DEF Forget
<1>5. \A j \in Keys : map'[j] # e
  <2> SUFFICES ASSUME NEW j \in Keys, map'[j] = e PROVE FALSE
    OBVIOUS
  <2>1. map[j] = e
    BY <1>1, <1>3, NullIsNoEntry
  <2>2. Holds(w, e)
    BY <1>1 DEF Holds
  <2>3. j = k
    BY <1>1, <2>1, <2>2 DEF IInv, OwnersListTheirKey
  <2> QED
    BY <1>3, <2>3
<1> HIDE DEF k, e
<1>6. \A v \in Workers, f \in Entries : Holds(v, f)' <=> Holds(v, f)
  <2>1. worker[w].entry = e
    BY DEF e
  <2> QED
    BY <1>1, <1>2, <2>1 DEF Holds, At
<1>7. \A f \in Entries : ~Unreferenced(f)' => ~Unreferenced(f)
  <2>1. \A v \in Workers : worker'[v].entry = worker[v].entry
    BY <1>2 DEF At, e
  <2> QED
    BY <1>3, <2>1, NullIsNoEntry DEF Unreferenced
<1>8. \A v \in Workers : worker'[v].key = worker[v].key
  BY <1>2 DEF At, k
<1>9. TypeOK' /\ PlacesAreConsistent'
  BY <1>1, <1>2, <1>3, <1>4 DEF IInv, TypeOK, PlacesAreConsistent, At
<1>10. OneOwnerPerEntry' /\ HeldEntriesArePending' /\ PendingEntriesHaveAnOwner'
  BY <1>4, <1>6, <1>7 DEF IInv, OneOwnerPerEntry, HeldEntriesArePending, PendingEntriesHaveAnOwner
<1>11. OwnersListTheirKey'
  BY <1>3, <1>6, <1>8, NullIsNoEntry DEF IInv, OwnersListTheirKey
<1>12. FailingEntriesAreUnlisted'
  <2> SUFFICES ASSUME NEW v \in Workers, NEW j \in Keys, worker'[v].pc = "failing"
               PROVE  map'[j] # worker'[v].entry
    BY DEF FailingEntriesAreUnlisted
  <2>1. CASE v = w
    BY <1>2, <1>5, <2>1 DEF At
  <2>2. CASE v # w
    <3>1. worker[v].entry \in Entries /\ worker'[v] = worker[v]
      BY <1>2, <2>2 DEF IInv, PlacesAreConsistent
    <3> QED
      BY <1>3, <3>1, NullIsNoEntry DEF IInv, FailingEntriesAreUnlisted
  <2> QED
    BY <2>1, <2>2
<1>13. FailedEntriesAreUnlisted'
  BY <1>3, <1>4 DEF IInv, FailedEntriesAreUnlisted, Registered
<1> QED
  BY <1>4, <1>9, <1>10, <1>11, <1>12, <1>13 DEF IInv

\* Clear preserves the invariant.
LEMMA ClearPreserves ==
    ASSUME IInv, Clear
    PROVE  IInv'
<1>1. /\ \A k \in Keys : map'[k] = NoEntry
      /\ map' \in [Keys -> Entries \cup {NoEntry}]
      /\ state' = state /\ worker' = worker /\ retainedBytes' = 0
  BY DEF Clear
<1>2. \A v \in Workers, f \in Entries : Holds(v, f)' <=> Holds(v, f)
  BY <1>1 DEF Holds
<1>3. \A f \in Entries : ~Unreferenced(f)' => ~Unreferenced(f)
  BY <1>1, NullIsNoEntry DEF Unreferenced
<1>4. TypeOK' /\ PlacesAreConsistent'
  BY <1>1 DEF IInv, TypeOK, PlacesAreConsistent
<1>5. OneOwnerPerEntry' /\ HeldEntriesArePending' /\ PendingEntriesHaveAnOwner'
  BY <1>1, <1>2, <1>3 DEF IInv, OneOwnerPerEntry, HeldEntriesArePending, PendingEntriesHaveAnOwner
<1>6. OwnersListTheirKey' /\ FailedEntriesAreUnlisted'
  BY <1>1, NullIsNoEntry DEF OwnersListTheirKey, FailedEntriesAreUnlisted, Registered
<1>7. FailingEntriesAreUnlisted'
  BY <1>1, NullIsNoEntry DEF IInv, FailingEntriesAreUnlisted, PlacesAreConsistent
<1>8. retainedBytes' <= MaxRetainedBytes
  BY <1>1, SizesAreNatural
<1> QED
  BY <1>4, <1>5, <1>6, <1>7, <1>8 DEF IInv

\* Every step preserves the invariant.
LEMMA StepPreserves == IInv /\ [Next]_vars => IInv'
<1> SUFFICES ASSUME IInv, [Next]_vars PROVE IInv'
  OBVIOUS
<1>1. CASE Clear
  BY <1>1, ClearPreserves
<1>2. CASE \E w \in Workers : Step(w)
  <2>1. PICK w \in Workers : Step(w)
    BY <1>2
  <2> QED
    BY <2>1, TakeTicketPreserves, FindEntryPreserves, WaitEndsPreserves, RetainPreserves,
       PublishBlobPreserves, ForgetPreserves, FailEntryPreserves DEF Step
<1>3. CASE \E w \in Workers, k \in Keys : BeginAcquire(w, k)
  BY <1>3, BeginAcquirePreserves
<1>4. CASE UNCHANGED vars
  BY <1>4 DEF vars, IInv, TypeOK, PlacesAreConsistent, OneOwnerPerEntry, HeldEntriesArePending,
       PendingEntriesHaveAnOwner, OwnersListTheirKey, FailingEntriesAreUnlisted,
       FailedEntriesAreUnlisted, Registered, Holds, Unreferenced
<1> QED
  BY <1>1, <1>2, <1>3, <1>4 DEF Next

\* The invariant holds in every reachable state.
THEOREM InductiveInvariant == Spec => []IInv
BY InitEstablishes, StepPreserves, PTL DEF Spec

\* The registry's variables keep their types; the bytes it counts never go
\* negative (uint64_t retainedBytes is only added to and reset).
THEOREM TypeCorrect == Spec => []TypeOK
<1>1. IInv => TypeOK
  BY DEF IInv
<1> QED
  BY <1>1, InductiveInvariant, PTL

\* Whatever is cleared, fails or does not fit: an entry that somebody can
\* still wait for is in the hands of a thread that will settle it.
THEOREM NoWaiterIsStranded == Spec => []PendingEntriesHaveAnOwner
<1>1. IInv => PendingEntriesHaveAnOwner
  BY DEF IInv
<1> QED
  BY <1>1, InductiveInvariant, PTL

\* Ticket::Fail: "Retry admission must be ready before existing waiters can
\* wake."  No key lists a failed entry.
THEOREM RetryAdmissionIsReady == Spec => []FailedEntriesAreUnlisted
<1>1. IInv => FailedEntriesAreUnlisted
  BY DEF IInv
<1> QED
  BY <1>1, InductiveInvariant, PTL

\* The subtraction of Retain, in unsigned arithmetic, never wraps.
THEOREM RetentionStaysUnderTheCap == Spec => [](retainedBytes <= MaxRetainedBytes)
<1>1. IInv => retainedBytes <= MaxRetainedBytes
  BY DEF IInv
<1> QED
  BY <1>1, InductiveInvariant, PTL
-----------------------------------------------------------------------------
(* Which blobs are charged.                                                *)

\* A listed entry whose owner still compiles is not charged yet, whatever
\* other threads hold.
LEMMA OwnedIsUncharged ==
    ASSUME IInv, NEW w \in Workers, worker[w].pc = "owner", NEW k \in Keys,
           map[k] = worker[w].entry
    PROVE  ~Charged(k)
<1>1. worker[w].entry \in Entries /\ Holds(w, worker[w].entry)
  BY DEF IInv, PlacesAreConsistent, Holds
<1>2. state[worker[w].entry] = "Pending"
  BY <1>1 DEF IInv, HeldEntriesArePending
<1>3. \A v \in Workers : worker[v].entry = map[k] /\ worker[v].pc = "publishing" => v = w
  BY <1>1 DEF IInv, OneOwnerPerEntry, Holds
<1> QED
  BY <1>2, <1>3 DEF Charged

\* Threads that look for an entry or wait for one charge nothing.
LEMMA SeekersChargeNothing ==
    ASSUME IInv, NEW w \in Workers,
           \/ FindEntry(w) \/ WaitEnds(w) \/ \E k \in Keys : BeginAcquire(w, k)
    PROVE  UNCHANGED retainedBytes /\ \A j \in Keys : Charged(j)' <=> Charged(j)
<1>1. worker[w].pc # "publishing"
  BY DEF FindEntry, WaitEnds, BeginAcquire, Idle, At
<1>2. PICK x : /\ worker' = [worker EXCEPT ![w] = x] /\ x.pc # "publishing"
  BY DEF FindEntry, WaitEnds, BeginAcquire, Idle, At
<1>3. worker'[w].pc # "publishing" /\ \A v \in Workers \ {w} : worker'[v] = worker[v]
  BY <1>2 DEF IInv, TypeOK
<1>4. UNCHANGED <<map, state, retainedBytes>>
  BY DEF FindEntry, WaitEnds, BeginAcquire
<1> QED
  BY <1>1, <1>3, <1>4 DEF Charged

\* A new entry is not charged.
LEMMA TicketChargesNothing ==
    ASSUME IInv, NEW w \in Workers, TakeTicket(w)
    PROVE  UNCHANGED retainedBytes /\ \A j \in Keys : Charged(j)' <=> Charged(j)
<1>1. PICK k \in Keys : k = worker[w].key /\ worker[w].pc = "acquiring" /\ map[k] = NoEntry
  BY DEF IInv, PlacesAreConsistent, TakeTicket
<1>2. PICK e \in Entries : /\ Unreferenced(e)
                           /\ map' = [map EXCEPT ![k] = e]
                           /\ state' = [state EXCEPT ![e] = "Pending"]
                           /\ worker' = [worker EXCEPT ![w] = At("owner", k, e)]
  BY <1>1 DEF TakeTicket
<1>3. /\ worker'[w].pc = "owner"
      /\ \A v \in Workers \ {w} : worker'[v] = worker[v] /\ worker[v].entry # e
      /\ map'[k] = e /\ \A j \in Keys \ {k} : map'[j] = map[j] /\ map[j] # e
      /\ state'[e] = "Pending" /\ \A f \in Entries \ {e} : state'[f] = state[f]
      /\ \A j \in Keys : map[j] \in Entries \cup {NoEntry}
  BY <1>1, <1>2 DEF IInv, TypeOK, Unreferenced, At
<1>4. ~Charged(k) /\ ~Charged(k)'
  BY <1>1, <1>3 DEF Charged
<1>5. \A j \in Keys \ {k} : Charged(j)' <=> Charged(j)
  BY <1>1, <1>3 DEF Charged
<1> QED
  BY <1>4, <1>5 DEF TakeTicket

\* Failing, before and after the map forgets the entry, charges nothing.
LEMMA FailureChargesNothing ==
    ASSUME IInv, NEW w \in Workers, Forget(w) \/ FailEntry(w)
    PROVE  UNCHANGED retainedBytes /\ \A j \in Keys : Charged(j)' <=> Charged(j)
<1>1. PICK k \in Keys, e \in Entries :
          /\ k = worker[w].key /\ e = worker[w].entry
          /\ worker[w].pc \in {"owner", "failing"} /\ Holds(w, e)
  BY DEF IInv, PlacesAreConsistent, Forget, FailEntry, Holds
<1>2. CASE Forget(w)
  <2>1. worker[w].pc = "owner"
    BY <1>2 DEF Forget
  <2>2. /\ worker'[w].pc = "failing" /\ \A v \in Workers \ {w} : worker'[v] = worker[v]
        /\ UNCHANGED <<state, retainedBytes>>
    <3>1. /\ TypeOK /\ "failing" \in Places /\ MoveTo(w, "failing")
          /\ UNCHANGED <<state, retainedBytes>>
      BY <1>2 DEF Forget, IInv, Places
    <3>2. /\ worker'[w] = At("failing", worker[w].key, worker[w].entry)
          /\ \A v \in Workers \ {w} : worker'[v] = worker[v]
      BY <3>1, MoveShape
    <3> QED
      BY <3>1, <3>2 DEF At
  <2>3. CASE map[k] = e
    <3>1. /\ map'[k] = NoEntry /\ \A j \in Keys \ {k} : map'[j] = map[j]
      BY <1>1, <1>2, <2>3 DEF Forget, IInv, TypeOK
    <3>2. ~Charged(k) /\ ~Charged(k)'
      BY <1>1, <2>1, <2>3, <3>1, OwnedIsUncharged DEF Charged
    <3>3. \A j \in Keys \ {k} : Charged(j)' <=> Charged(j)
      BY <2>1, <2>2, <3>1 DEF Charged
    <3> QED
      BY <2>2, <3>2, <3>3
  <2>4. CASE map[k] # e
    <3>1. map' = map
      BY <1>1, <1>2, <2>4 DEF Forget
    <3> QED
      BY <2>1, <2>2, <3>1 DEF Charged
  <2> QED
    BY <2>3, <2>4
<1>3. CASE FailEntry(w)
  <2>1. /\ worker[w].pc = "failing" /\ UNCHANGED <<map, retainedBytes>>
        /\ state' = [state EXCEPT ![e] = "Failed"] /\ worker' = [worker EXCEPT ![w] = Idle]
    BY <1>1, <1>3 DEF FailEntry
  <2>2. /\ worker'[w].pc = "idle" /\ \A v \in Workers \ {w} : worker'[v] = worker[v]
        /\ \A f \in Entries \ {e} : state'[f] = state[f]
    BY <1>1, <2>1 DEF IInv, TypeOK, Idle, At
  <2>3. \A j \in Keys : map[j] # e /\ map[j] \in Entries \cup {NoEntry}
    BY <1>1, <2>1 DEF IInv, FailingEntriesAreUnlisted, TypeOK
  <2> QED
    BY <2>1, <2>2, <2>3 DEF Charged
<1> QED
  BY <1>2, <1>3

\* What its owner charged stays charged once it is done.
LEMMA PublicationChargesNothing ==
    ASSUME IInv, NEW w \in Workers, PublishBlob(w)
    PROVE  UNCHANGED retainedBytes /\ \A j \in Keys : Charged(j)' <=> Charged(j)
<1>1. PICK e \in Entries : e = worker[w].entry
  BY DEF PublishBlob, IInv, PlacesAreConsistent
<1>2. /\ worker[w].pc = "publishing" /\ UNCHANGED <<map, retainedBytes>>
      /\ state' = [state EXCEPT ![e] = "Done"] /\ worker' = [worker EXCEPT ![w] = Idle]
  BY <1>1 DEF PublishBlob
<1>3. /\ worker'[w].pc = "idle" /\ \A v \in Workers \ {w} : worker'[v] = worker[v]
      /\ state'[e] = "Done" /\ \A f \in Entries \ {e} : state'[f] = state[f]
  BY <1>1, <1>2 DEF IInv, TypeOK, Idle, At
<1>4. \A j \in Keys : map[j] \in Entries \cup {NoEntry}
  BY DEF IInv, TypeOK
<1> QED
  BY <1>1, <1>2, <1>3, <1>4, NullIsNoEntry DEF Charged

\* Retain charges its own blob, in full, or nothing.
LEMMA RetainChargesOne ==
    ASSUME IInv, NEW w \in Workers, Retain(w)
    PROVE  \/ UNCHANGED retainedBytes /\ \A j \in Keys : Charged(j)' <=> Charged(j)
           \/ \E k \in Keys : /\ ~Charged(k) /\ retainedBytes' = retainedBytes + SizeOf[k]
                              /\ \A j \in Keys : Charged(j)' <=> j = k \/ Charged(j)
<1>1. PICK k \in Keys, e \in Entries :
          /\ k = worker[w].key /\ e = worker[w].entry
          /\ worker[w].pc = "owner" /\ Holds(w, e)
  BY DEF IInv, PlacesAreConsistent, Retain, Holds
<1>2. /\ worker'[w].pc = "publishing" /\ worker'[w].entry = e
      /\ \A v \in Workers \ {w} : worker'[v] = worker[v]
      /\ state' = state
  <2>1. TypeOK /\ "publishing" \in Places /\ MoveTo(w, "publishing") /\ state' = state
    BY DEF Retain, IInv, Places
  <2>2. /\ worker'[w] = At("publishing", worker[w].key, worker[w].entry)
        /\ \A v \in Workers \ {w} : worker'[v] = worker[v]
    BY <2>1, MoveShape
  <2> QED
    BY <1>1, <2>1, <2>2 DEF At
<1>3. \A j \in Keys : map[j] = e => j = k
  BY <1>1 DEF IInv, OwnersListTheirKey
<1>4. map[k] = e => ~Charged(k)
  BY <1>1, OwnedIsUncharged
<1>5. CASE map[k] = e /\ SizeOf[k] <= MaxRetainedBytes - retainedBytes
  <2>1. map' = map /\ retainedBytes' = retainedBytes + SizeOf[k]
    BY <1>1, <1>5 DEF Retain
  <2>2. Charged(k)'
    BY <1>1, <1>2, <1>5, <2>1, NullIsNoEntry DEF Charged
  <2>3. \A j \in Keys \ {k} : Charged(j)' <=> Charged(j)
    BY <1>1, <1>2, <1>3, <2>1 DEF Charged
  <2> QED
    BY <1>1, <1>4, <1>5, <2>1, <2>2, <2>3
<1>6. CASE map[k] = e /\ ~(SizeOf[k] <= MaxRetainedBytes - retainedBytes)
  <2>1. /\ map'[k] = NoEntry /\ \A j \in Keys \ {k} : map'[j] = map[j]
        /\ retainedBytes' = retainedBytes
    BY <1>1, <1>6 DEF Retain, IInv, TypeOK
  <2>2. ~Charged(k)'
    BY <2>1 DEF Charged
  <2>3. \A j \in Keys \ {k} : Charged(j)' <=> Charged(j)
    BY <1>1, <1>2, <1>3, <2>1 DEF Charged
  <2> QED
    BY <1>4, <1>6, <2>1, <2>2, <2>3
<1>7. CASE map[k] # e
  <2>1. map' = map /\ retainedBytes' = retainedBytes
    BY <1>1, <1>7 DEF Retain
  <2> QED
    BY <1>1, <1>2, <1>3, <1>7, <2>1 DEF Charged
<1> QED
  BY <1>5, <1>6, <1>7
-----------------------------------------------------------------------------
(* What that makes of the bytes kept.                                      *)

\* The bytes kept are as many as the counter says.
BytesAreCounted == IsFiniteSet(BytesKept) /\ retainedBytes = Cardinality(BytesKept)

\* A step that charges no blob and releases none leaves the bytes as they are.
LEMMA SameBytes ==
    ASSUME BytesAreCounted, UNCHANGED retainedBytes, \A j \in Keys : Charged(j)' <=> Charged(j)
    PROVE  BytesAreCounted'
<1>1. BytesKept' = BytesKept
  BY DEF BytesKept
<1> QED
  BY <1>1 DEF BytesAreCounted

\* A step that charges one blob more adds that blob's bytes to the others.
LEMMA MoreBytes ==
    ASSUME BytesAreCounted, retainedBytes \in Nat, NEW k \in Keys, ~Charged(k),
           retainedBytes' = retainedBytes + SizeOf[k],
           \A j \in Keys : Charged(j)' <=> j = k \/ Charged(j)
    PROVE  BytesAreCounted'
<1> DEFINE blob == {k} \X (1 .. SizeOf[k])
<1>1. SizeOf[k] \in Nat
  BY SizesAreNatural
<1>2. BytesKept' = BytesKept \cup blob
  BY DEF BytesKept
<1>3. BytesKept \cap blob = {}
  BY DEF BytesKept
<1>4. IsFiniteSet({k}) /\ Cardinality({k}) = 1
  BY FS_Singleton
<1>5. IsFiniteSet(1 .. SizeOf[k]) /\ Cardinality(1 .. SizeOf[k]) = SizeOf[k]
  <2>1. 1 \in Int /\ SizeOf[k] \in Int
    BY <1>1
  <2>2. /\ IsFiniteSet(1 .. SizeOf[k])
        /\ Cardinality(1 .. SizeOf[k]) = IF 1 > SizeOf[k] THEN 0 ELSE SizeOf[k] - 1 + 1
    BY <2>1, FS_Interval
  <2> QED
    BY <1>1, <2>2
<1>6. IsFiniteSet(blob) /\ Cardinality(blob) = 1 * SizeOf[k]
  BY <1>4, <1>5, FS_Product
<1>7. Cardinality(blob) = SizeOf[k]
  BY <1>1, <1>6
<1> HIDE DEF blob
<1>8. /\ IsFiniteSet(BytesKept \cup blob)
      /\ Cardinality(BytesKept \cup blob)
             = Cardinality(BytesKept) + Cardinality(blob) - Cardinality(BytesKept \cap blob)
  BY <1>6, FS_Union DEF BytesAreCounted
<1>9. Cardinality(BytesKept \cap blob) = 0
  BY <1>3, FS_EmptySet
<1> QED
  BY <1>1, <1>2, <1>7, <1>8, <1>9 DEF BytesAreCounted

\* Nothing is kept at the start and after a clear.
LEMMA NoBytes ==
    ASSUME retainedBytes = 0, \A k \in Keys : map[k] = NoEntry
    PROVE  BytesAreCounted
<1>1. BytesKept = {}
  BY DEF BytesKept, Charged
<1> QED
  BY <1>1, FS_EmptySet DEF BytesAreCounted

\* Every step preserves the count.
LEMMA StepCounts == IInv /\ BytesAreCounted /\ [Next]_vars => BytesAreCounted'
<1> SUFFICES ASSUME IInv, BytesAreCounted, [Next]_vars PROVE BytesAreCounted'
  OBVIOUS
<1>1. CASE Clear
  <2>1. retainedBytes' = 0 /\ \A k \in Keys : map'[k] = NoEntry
    BY <1>1 DEF Clear
  <2>2. BytesKept' = {}
    BY <2>1 DEF BytesKept, Charged
  <2> QED
    BY <2>1, <2>2, FS_EmptySet DEF BytesAreCounted
<1>2. ASSUME NEW w \in Workers, Retain(w)
      PROVE  BytesAreCounted'
  BY <1>2, RetainChargesOne, SameBytes, MoreBytes DEF IInv, TypeOK
<1>3. CASE \E w \in Workers : Step(w) \/ \E k \in Keys : BeginAcquire(w, k)
  <2>1. PICK w \in Workers : Step(w) \/ \E k \in Keys : BeginAcquire(w, k)
    BY <1>3
  <2>2. CASE Retain(w)
    BY <1>2, <2>2
  <2>3. CASE ~Retain(w)
    BY <2>1, <2>3, SeekersChargeNothing, TicketChargesNothing, FailureChargesNothing,
       PublicationChargesNothing, SameBytes DEF Step
  <2> QED
    BY <2>2, <2>3
<1>4. CASE UNCHANGED vars
  <2>1. UNCHANGED retainedBytes /\ \A j \in Keys : Charged(j)' <=> Charged(j)
    BY <1>4 DEF vars, Charged
  <2> QED
    BY <2>1, SameBytes
<1> QED
  BY <1>1, <1>3, <1>4 DEF Next

\* retainedBytes is the size of the blobs the map keeps alive, to the byte, and
\* below the cap: no late publication after a clear is charged, no failure or
\* eviction leaves a charge behind.
THEOREM RetentionIsCounted == Spec => []RetentionIsExact
<1>1. Init => BytesAreCounted
  BY NoBytes DEF Init
<1>2. IInv /\ BytesAreCounted => RetentionIsExact
  BY DEF IInv, BytesAreCounted, RetentionIsExact
<1> QED
  BY <1>1, <1>2, StepCounts, InductiveInvariant, PTL DEF Spec
=============================================================================
