------------------------- MODULE AcceptedDrawsProofs -------------------------
(***************************************************************************)
(* Types, and that no callback outlives its subscription, for any number   *)
(* of threads and slots.                                                   *)
(***************************************************************************)
EXTENDS AcceptedDraws, TLAPS, FiniteSetTheorems

\* The renderers inside the observer of slot s.
InsideOf(s) == {r \in Renderers : Inside(r) /\ renderer[r].slot = s}

SlotTypes == slots \in [Slots -> [active : BOOLEAN, inFlight : Nat, id : Nat]]

ThreadTypes ==
    /\ subscribers \in 0 .. (Width - 1)
    /\ nextSubscription \in Nat \ {0}
    /\ lifecycle \in Clients \cup {NoThread}
    /\ client \in [Clients -> [pc : {"idle", "count", "uncount", "wait", "asleep"}, slot : Slots]]
    /\ renderThread \in Renderers \cup {NoThread}

RendererTypes ==
    renderer \in [Renderers -> [pc : {"idle", "claim", "dispatch", "scan", "observer",
                                      "uncount", "leave"},
                                slot : Slots, id : Nat, replays : 0 .. 1]]

InFlightIsExact == \A s \in Slots : slots[s].inFlight = Cardinality(InsideOf(s))

\* A slot nobody has registered is not active: no callback can begin in it.
FreeSlotsAreClosed == \A s \in Slots : ~Subscribed(s) => ~slots[s].active

\* A callback in flight keeps its slot: the inductive invariant.
IInv ==
    /\ SlotTypes /\ ThreadTypes /\ RendererTypes
    /\ InFlightIsExact /\ FreeSlotsAreClosed /\ CallbacksAreQuiescent

LEMMA InsideIsFinite ==
    ASSUME NEW s
    PROVE  /\ IsFiniteSet(InsideOf(s)) /\ Cardinality(InsideOf(s)) \in Nat
           /\ Cardinality(InsideOf(s)) <= Cardinality(Renderers)
<1>1. InsideOf(s) \subseteq Renderers
  BY DEF InsideOf
<1> QED
  BY <1>1, RenderersAreFinite, FS_Subset, FS_CardinalityType

LEMMA TypesFollow == IInv => TypeOK
<1> SUFFICES ASSUME IInv PROVE TypeOK
  OBVIOUS
<1>1. \A s \in Slots : slots[s].inFlight \in 0 .. Cardinality(Renderers)
  BY InsideIsFinite, RenderersAreFinite, FS_CardinalityType DEF IInv, InFlightIsExact
<1>2. slots \in [Slots -> [active : BOOLEAN, inFlight : 0 .. Cardinality(Renderers), id : Nat]]
  BY <1>1 DEF IInv, SlotTypes
<1> QED
  BY <1>2 DEF IInv, TypeOK, ThreadTypes, RendererTypes

LEMMA InitIInv == Init => IInv
<1> SUFFICES ASSUME Init PROVE IInv
  OBVIOUS
<1>1. 1 \in Slots /\ 0 \in 0 .. (Width - 1)
  BY SlotsExist, CountsFit DEF Slots
<1>2. \A r \in Renderers : ~Inside(r)
  BY DEF Init, Drawing, Inside
<1>3. \A s \in Slots : InsideOf(s) = {}
  BY <1>2 DEF InsideOf
<1>4. InFlightIsExact
  BY <1>3, FS_EmptySet DEF Init, Free, InFlightIsExact
<1>5. SlotTypes /\ FreeSlotsAreClosed
  BY DEF Init, Free, SlotTypes, FreeSlotsAreClosed
<1>6. RendererTypes
  BY <1>1 DEF Init, Drawing, RendererTypes
<1>7. ThreadTypes
  BY <1>1 DEF Init, Calls, ThreadTypes
<1> QED
  BY <1>2, <1>4, <1>5, <1>6, <1>7 DEF IInv, CallbacksAreQuiescent

LEMMA CountsStay ==
    ASSUME subscribers' \in {subscribers, (subscribers + 1) % Width, (subscribers - 1) % Width},
           subscribers \in 0 .. (Width - 1)
    PROVE  subscribers' \in 0 .. (Width - 1)
<1>1. \A x \in Int : x % Width \in 0 .. (Width - 1)
  BY CountsFit, SlotsExist
<1> QED
  BY <1>1, CountsFit, SlotsExist

\* A step that leaves the callbacks in flight where they are.
LEMMA CallbacksStay ==
    ASSUME IInv, SlotTypes', ThreadTypes', RendererTypes', FreeSlotsAreClosed',
           \A r \in Renderers : Inside(r)' = Inside(r),
           \A r \in Renderers : Inside(r) =>
               renderer'[r].slot = renderer[r].slot /\ renderer'[r].id = renderer[r].id,
           \A s \in Slots : slots'[s].inFlight = slots[s].inFlight,
           \A s \in Slots : slots'[s].id = slots[s].id \/ InsideOf(s) = {}
    PROVE  IInv'
<1>1. \A s : InsideOf(s)' = InsideOf(s)
  BY DEF InsideOf
<1>2. InFlightIsExact'
  BY <1>1 DEF IInv, InFlightIsExact
<1>3. CallbacksAreQuiescent'
  <2> SUFFICES ASSUME NEW r \in Renderers, Inside(r)'
               PROVE  /\ slots'[renderer'[r].slot].id # 0
                      /\ slots'[renderer'[r].slot].id = renderer'[r].id
    BY DEF CallbacksAreQuiescent, Subscribed
  <2> DEFINE s == renderer[r].slot
  <2>1. Inside(r) /\ renderer'[r].slot = s /\ renderer'[r].id = renderer[r].id
    OBVIOUS
  <2>2. s \in Slots /\ r \in InsideOf(s)
    BY <2>1 DEF IInv, RendererTypes, InsideOf
  <2>3. slots'[s].id = slots[s].id
    BY <2>2
  <2> QED
    BY <2>1, <2>3 DEF IInv, CallbacksAreQuiescent, Subscribed
<1> QED
  BY <1>2, <1>3 DEF IInv

\* Nobody is inside a slot that is not in use, or not subscribed.
LEMMA IdleSlots ==
    ASSUME IInv, NEW s \in Slots, ~InUse(s) \/ ~Subscribed(s)
    PROVE  InsideOf(s) = {}
<1>1. CASE ~InUse(s)
  <2>1. Cardinality(InsideOf(s)) = 0
    BY <1>1 DEF IInv, InFlightIsExact, InUse
  <2> QED
    BY <2>1, InsideIsFinite, FS_EmptySet
<1>2. CASE ~Subscribed(s)
  BY <1>2 DEF IInv, CallbacksAreQuiescent, InsideOf
<1> QED
  BY <1>1, <1>2

LEMMA ClientsKeepIInv ==
    ASSUME IInv, NEW c \in Clients,
           \/ Register(c) \/ WakeUp(c) \/ FinishCall(c)
           \/ \E s \in Slots : Unregister(c, s)
    PROVE  IInv'
<1>1. SlotTypes /\ ThreadTypes /\ RendererTypes /\ FreeSlotsAreClosed
  BY DEF IInv
<1>2. UNCHANGED <<renderer, renderThread>>
  BY DEF Register, WakeUp, FinishCall, Unregister, CountSubscriber, UncountSubscriber,
         FallAsleep, Release
<1>3. /\ RendererTypes'
      /\ \A r \in Renderers : Inside(r)' = Inside(r)
      /\ \A r \in Renderers : renderer'[r].slot = renderer[r].slot /\ renderer'[r].id = renderer[r].id
  BY <1>1, <1>2 DEF RendererTypes, Inside
<1>4. client[c].slot \in Slots
  BY <1>1 DEF ThreadTypes
<1>5. CASE Register(c)
  <2>1. PICK s \in Slots :
            /\ ~Subscribed(s)
            /\ slots' = [slots EXCEPT ![s] =
                            [active |-> TRUE, inFlight |-> 0, id |-> nextSubscription]]
            /\ client' = [client EXCEPT ![c] = [pc |-> "count", slot |-> s]]
    BY <1>5 DEF Register
  <2>2. InsideOf(s) = {} /\ slots[s].inFlight = 0
    BY <2>1, IdleSlots, FS_EmptySet DEF IInv, InFlightIsExact
  <2>3. nextSubscription \in Nat /\ nextSubscription # 0
    BY <1>1 DEF ThreadTypes
  <2>4. SlotTypes'
    BY <1>1, <2>1, <2>3 DEF SlotTypes
  <2>5. FreeSlotsAreClosed'
    BY <1>1, <2>1, <2>3 DEF FreeSlotsAreClosed, Subscribed, SlotTypes
  <2>6. ThreadTypes'
    BY <1>1, <1>2, <1>5, <2>1, <2>3 DEF Register, ThreadTypes
  <2>7. /\ \A q \in Slots : slots'[q].inFlight = slots[q].inFlight
        /\ \A q \in Slots : slots'[q].id = slots[q].id \/ InsideOf(q) = {}
    BY <1>1, <2>1, <2>2 DEF SlotTypes
  <2> QED
    BY <1>3, <2>4, <2>5, <2>6, <2>7, CallbacksStay
<1>6. CASE WakeUp(c) \/ CountSubscriber(c) \/ UncountSubscriber(c) \/ FallAsleep(c)
  <2>1. UNCHANGED slots
    BY <1>6 DEF WakeUp, CountSubscriber, UncountSubscriber, FallAsleep
  <2>2. ThreadTypes'
    <3>1. subscribers' \in 0 .. (Width - 1)
      BY <1>1, <1>6, CountsStay
      DEF WakeUp, CountSubscriber, UncountSubscriber, FallAsleep, Increment, Decrement, ThreadTypes
    <3>2. client' \in [Clients -> [pc : {"idle", "count", "uncount", "wait", "asleep"}, slot : Slots]]
      BY <1>1, <1>6
      DEF WakeUp, CountSubscriber, UncountSubscriber, FallAsleep, ClientGoes, ThreadTypes
    <3> QED
      BY <1>1, <1>2, <1>6, <3>1, <3>2
      DEF WakeUp, CountSubscriber, UncountSubscriber, FallAsleep, ThreadTypes
  <2>3. SlotTypes' /\ FreeSlotsAreClosed'
    BY <1>1, <2>1 DEF SlotTypes, FreeSlotsAreClosed, Subscribed
  <2> QED
    BY <1>3, <2>1, <2>2, <2>3, CallbacksStay
<1>7. ASSUME NEW s \in Slots, Unregister(c, s) PROVE IInv'
  <2>1. slots' = [slots EXCEPT ![s].active = FALSE]
    BY <1>7 DEF Unregister
  <2>2. SlotTypes' /\ FreeSlotsAreClosed'
    BY <1>1, <2>1 DEF SlotTypes, FreeSlotsAreClosed, Subscribed
  <2>3. \A q \in Slots : slots'[q].inFlight = slots[q].inFlight /\ slots'[q].id = slots[q].id
    BY <1>1, <2>1 DEF SlotTypes
  <2>4. ThreadTypes'
    BY <1>1, <1>2, <1>7 DEF Unregister, ThreadTypes
  <2> QED
    BY <1>3, <2>2, <2>3, <2>4, CallbacksStay
<1>8. CASE Release(c)
  <2> DEFINE s == client[c].slot
  <2>1. slots' = [slots EXCEPT ![s].id = 0] /\ ~InUse(s)
    BY <1>8 DEF Release
  <2>2. SlotTypes' /\ FreeSlotsAreClosed'
    BY <1>1, <1>4, <2>1 DEF SlotTypes, FreeSlotsAreClosed, Subscribed, InUse
  <2>3. InsideOf(s) = {}
    BY <1>4, <2>1, IdleSlots
  <2>4. /\ \A q \in Slots : slots'[q].inFlight = slots[q].inFlight
        /\ \A q \in Slots : slots'[q].id = slots[q].id \/ InsideOf(q) = {}
    BY <1>1, <2>1, <2>3 DEF SlotTypes
  <2>5. ThreadTypes'
    BY <1>1, <1>2, <1>8 DEF Release, ClientGoes, ThreadTypes
  <2> QED
    BY <1>3, <2>2, <2>4, <2>5, CallbacksStay
<1> QED
  BY <1>5, <1>6, <1>7, <1>8 DEF FinishCall

LEMMA NextSlotIsTyped ==
    ASSUME RendererTypes, NEW r \in Renderers, NextSlot(r)
    PROVE  RendererTypes' /\ ~Inside(r)' /\ \A q \in Renderers : q # r => renderer'[q] = renderer[q]
<1> DEFINE next == IF renderer[r].slot = SlotCount THEN Drawing
                   ELSE [Drawing EXCEPT !.pc = "scan", !.slot = renderer[r].slot + 1]
<1>1. renderer' = [renderer EXCEPT ![r] = next]
  BY DEF NextSlot
<1>2. renderer[r].slot \in 1 .. SlotCount /\ 1 \in Slots
  BY SlotsExist DEF RendererTypes, Slots
<1>3. CASE renderer[r].slot = SlotCount
  <2>1. next = [pc |-> "idle", slot |-> 1, id |-> 0, replays |-> 0]
    BY <1>3 DEF Drawing
  <2> HIDE DEF next
  <2> QED
    BY <1>1, <1>2, <2>1 DEF RendererTypes, Inside
<1>4. CASE renderer[r].slot # SlotCount
  <2>1. next = [pc |-> "scan", slot |-> renderer[r].slot + 1, id |-> 0, replays |-> 0]
    BY <1>4 DEF Drawing
  <2>2. renderer[r].slot + 1 \in Slots
    BY <1>2, <1>4, SlotsExist DEF Slots
  <2> HIDE DEF next
  <2> QED
    BY <1>1, <2>1, <2>2 DEF RendererTypes, Inside
<1> QED
  BY <1>3, <1>4

\* A renderer that stays outside, or inside the same callback.
LEMMA QuietRenderersKeepIInv ==
    ASSUME IInv, NEW r \in Renderers,
           \/ PublishAcceptedDraw(r) \/ ClaimScene(r) \/ Dispatch(r) \/ Skip(r)
           \/ Replay(r) \/ ObserverReturns(r) \/ ObserverThrows(r) \/ UncountFaulty(r)
    PROVE  IInv'
<1> DEFINE s == renderer[r].slot
<1>1. SlotTypes /\ ThreadTypes /\ RendererTypes /\ FreeSlotsAreClosed
  BY DEF IInv
<1>2. s \in Slots /\ 1 \in Slots
  BY <1>1, SlotsExist DEF RendererTypes, Slots
<1>3. UNCHANGED <<nextSubscription, lifecycle, client>>
  BY DEF PublishAcceptedDraw, ClaimScene, Dispatch, Skip, Replay, ObserverReturns,
         ObserverThrows, UncountFaulty
<1>4. slots' = slots \/ slots' = [slots EXCEPT ![s].active = FALSE]
  BY DEF PublishAcceptedDraw, ClaimScene, Dispatch, Skip, Replay, ObserverReturns,
         ObserverThrows, UncountFaulty
<1>5. SlotTypes' /\ FreeSlotsAreClosed'
  BY <1>1, <1>2, <1>4 DEF SlotTypes, FreeSlotsAreClosed, Subscribed
<1>6. \A q \in Slots : slots'[q].inFlight = slots[q].inFlight /\ slots'[q].id = slots[q].id
  BY <1>1, <1>2, <1>4 DEF SlotTypes
<1>7. ThreadTypes'
  <2>1. subscribers' \in 0 .. (Width - 1)
    BY <1>1, CountsStay
    DEF PublishAcceptedDraw, ClaimScene, Dispatch, Skip, Replay, ObserverReturns,
        ObserverThrows, UncountFaulty, Decrement, ThreadTypes
  <2>2. renderThread' \in Renderers \cup {NoThread}
    BY <1>1
    DEF PublishAcceptedDraw, ClaimScene, Dispatch, Skip, Replay, ObserverReturns,
        ObserverThrows, UncountFaulty, ThreadTypes
  <2> QED
    BY <1>1, <1>3, <2>1, <2>2 DEF ThreadTypes
<1>8. /\ RendererTypes' /\ Inside(r)' = Inside(r)
      /\ Inside(r) => renderer'[r].slot = renderer[r].slot /\ renderer'[r].id = renderer[r].id
      /\ \A q \in Renderers : q # r => renderer'[q] = renderer[q]
  <2>1. CASE Skip(r)
    BY <1>1, <2>1, NextSlotIsTyped DEF Skip, Inside, RendererAt
  <2>2. CASE Dispatch(r)
    <3> DEFINE pc == IF subscribers # 0 THEN "scan" ELSE "idle"
    <3>1. renderer' = [renderer EXCEPT ![r] = [pc |-> pc, slot |-> 1, id |-> 0, replays |-> 0]]
      <4>1. [Drawing EXCEPT !.pc = pc] = [pc |-> pc, slot |-> 1, id |-> 0, replays |-> 0]
        BY DEF Drawing
      <4>2. renderer' = [renderer EXCEPT ![r] = [Drawing EXCEPT !.pc = pc]]
        BY <2>2 DEF Dispatch
      <4> QED
        BY <4>1, <4>2
    <3>2. pc \in {"idle", "scan"}
      OBVIOUS
    <3>3. ~Inside(r)
      BY <2>2 DEF Dispatch, RendererAt, Inside
    <3> HIDE DEF pc
    <3>4. RendererTypes' /\ ~Inside(r)' /\ \A q \in Renderers : q # r => renderer'[q] = renderer[q]
      BY <1>1, <1>2, <3>1, <3>2 DEF RendererTypes, Inside
    <3> QED
      BY <3>3, <3>4 DEF Inside
  <2>3. CASE Replay(r)
    BY <1>1, <2>3 DEF Replay, RendererAt, Inside, RendererTypes
  <2>4. CASE PublishAcceptedDraw(r) \/ ClaimScene(r)
    <3>1. PICK pc \in {"idle", "claim", "dispatch"} :
              renderer' = [renderer EXCEPT ![r].pc = pc]
      BY <2>4 DEF PublishAcceptedDraw, ClaimScene, RendererGoes
    <3>2. ~Inside(r)
      BY <2>4 DEF PublishAcceptedDraw, ClaimScene, RendererAt, Inside
    <3> QED
      BY <1>1, <3>1, <3>2 DEF RendererTypes, Inside
  <2>5. CASE ObserverReturns(r) \/ ObserverThrows(r) \/ UncountFaulty(r)
    <3>1. PICK pc \in {"uncount", "leave"} : renderer' = [renderer EXCEPT ![r].pc = pc]
      BY <2>5 DEF ObserverReturns, ObserverThrows, UncountFaulty, RendererGoes
    <3>2. Inside(r)
      BY <2>5 DEF ObserverReturns, ObserverThrows, UncountFaulty, RendererAt, Inside
    <3> QED
      BY <1>1, <3>1, <3>2 DEF RendererTypes, Inside
  <2> QED
    BY <2>1, <2>2, <2>3, <2>4, <2>5
<1>9. /\ \A q \in Renderers : Inside(q)' = Inside(q)
      /\ \A q \in Renderers : Inside(q) =>
             renderer'[q].slot = renderer[q].slot /\ renderer'[q].id = renderer[q].id
  BY <1>8 DEF Inside
<1> QED
  BY <1>5, <1>6, <1>7, <1>8, <1>9, CallbacksStay

LEMMA DeliverKeepsIInv ==
    ASSUME IInv, NEW r \in Renderers, Deliver(r), NEW s, s = renderer[r].slot
    PROVE  IInv'
<1>1. SlotTypes /\ ThreadTypes /\ RendererTypes /\ FreeSlotsAreClosed
  BY DEF IInv
<1>2. s \in Slots /\ slots[s].id \in Nat /\ slots[s].id # 0 /\ ~Inside(r)
  BY <1>1
  DEF Deliver, RendererAt, Inside, RendererTypes, SlotTypes, FreeSlotsAreClosed, Subscribed
<1>3. /\ slots' = [slots EXCEPT ![s].inFlight = @ + 1]
      /\ renderer' = [renderer EXCEPT ![r] =
                         [pc |-> "observer", slot |-> s, id |-> slots[s].id, replays |-> 0]]
  BY DEF Deliver
<1>4. SlotTypes' /\ ThreadTypes' /\ RendererTypes' /\ FreeSlotsAreClosed'
  <2>1. SlotTypes' /\ FreeSlotsAreClosed'
    BY <1>1, <1>2, <1>3 DEF SlotTypes, FreeSlotsAreClosed, Subscribed
  <2>2. RendererTypes'
    BY <1>1, <1>2, <1>3 DEF RendererTypes
  <2>3. ThreadTypes'
    BY <1>1 DEF Deliver, ThreadTypes
  <2> QED
    BY <2>1, <2>2, <2>3
<1>5. \A q \in Renderers : Inside(q)' = (q = r \/ Inside(q))
  BY <1>1, <1>3 DEF Inside, RendererTypes
<1>6. InsideOf(s)' = InsideOf(s) \cup {r} /\ r \notin InsideOf(s)
  BY <1>1, <1>2, <1>3, <1>5 DEF InsideOf, RendererTypes
<1>7. \A q \in Slots : q # s => InsideOf(q)' = InsideOf(q)
  BY <1>1, <1>2, <1>3, <1>5 DEF InsideOf, RendererTypes
<1>8. Cardinality(InsideOf(s)') = Cardinality(InsideOf(s)) + 1
  BY <1>6, InsideIsFinite, FS_AddElement
<1>9. InFlightIsExact'
  <2> SUFFICES ASSUME NEW q \in Slots PROVE slots'[q].inFlight = Cardinality(InsideOf(q)')
    BY DEF InFlightIsExact
  <2>1. slots[q].inFlight = Cardinality(InsideOf(q))
    BY DEF IInv, InFlightIsExact
  <2>2. slots'[q].inFlight = IF q = s THEN slots[q].inFlight + 1 ELSE slots[q].inFlight
    BY <1>1, <1>2, <1>3 DEF SlotTypes
  <2> QED
    BY <1>7, <1>8, <2>1, <2>2
<1>10. CallbacksAreQuiescent'
  <2> SUFFICES ASSUME NEW q \in Renderers, Inside(q)'
               PROVE  /\ slots'[renderer'[q].slot].id # 0
                      /\ slots'[renderer'[q].slot].id = renderer'[q].id
    BY DEF CallbacksAreQuiescent, Subscribed
  <2>1. \A p \in Slots : slots'[p].id = slots[p].id
    BY <1>1, <1>2, <1>3 DEF SlotTypes
  <2>2. CASE q = r
    BY <1>1, <1>2, <1>3, <2>1, <2>2 DEF RendererTypes
  <2>3. CASE q # r
    <3>1. Inside(q) /\ renderer'[q] = renderer[q] /\ renderer[q].slot \in Slots
      BY <1>1, <1>3, <1>5, <2>3 DEF RendererTypes
    <3> QED
      BY <2>1, <3>1 DEF IInv, CallbacksAreQuiescent, Subscribed
  <2> QED
    BY <2>2, <2>3
<1> QED
  BY <1>4, <1>9, <1>10 DEF IInv

LEMMA LeaveKeepsIInv ==
    ASSUME IInv, NEW r \in Renderers, Leave(r), NEW s, s = renderer[r].slot
    PROVE  IInv'
<1>1. SlotTypes /\ ThreadTypes /\ RendererTypes /\ FreeSlotsAreClosed
  BY DEF IInv
<1>2. s \in Slots /\ Inside(r)
  BY <1>1 DEF Leave, RendererAt, Inside, RendererTypes
<1>3. slots' = [slots EXCEPT ![s].inFlight = @ - 1] /\ NextSlot(r)
  BY DEF Leave
<1>4. /\ RendererTypes' /\ ~Inside(r)'
      /\ \A q \in Renderers : q # r => renderer'[q] = renderer[q]
  BY <1>1, <1>3, NextSlotIsTyped
<1>5. \A q \in Renderers : Inside(q)' = (q # r /\ Inside(q))
  BY <1>4 DEF Inside
<1>6. InsideOf(s)' = InsideOf(s) \ {r} /\ r \in InsideOf(s)
  BY <1>2, <1>4, <1>5 DEF InsideOf
<1>7. \A q \in Slots : q # s => InsideOf(q)' = InsideOf(q)
  BY <1>2, <1>4, <1>5 DEF InsideOf
<1>8. Cardinality(InsideOf(s)') = Cardinality(InsideOf(s)) - 1
  BY <1>6, InsideIsFinite, FS_RemoveElement
<1>9. slots[s].inFlight = Cardinality(InsideOf(s)) /\ Cardinality(InsideOf(s)') \in Nat
  <2>1. InsideOf(s)' \subseteq InsideOf(s)
    BY <1>6
  <2>2. IsFiniteSet(InsideOf(s)')
    BY <2>1, InsideIsFinite, FS_Subset
  <2> QED
    BY <1>2, <2>2, FS_CardinalityType DEF IInv, InFlightIsExact
<1>10. \A q \in Slots : slots'[q].inFlight = Cardinality(InsideOf(q)')
  <2> TAKE q \in Slots
  <2>1. slots[q].inFlight = Cardinality(InsideOf(q))
    BY DEF IInv, InFlightIsExact
  <2>2. slots'[q].inFlight = IF q = s THEN slots[q].inFlight - 1 ELSE slots[q].inFlight
    BY <1>1, <1>2, <1>3 DEF SlotTypes
  <2> QED
    BY <1>7, <1>8, <2>1, <2>2
<1>11. SlotTypes' /\ FreeSlotsAreClosed'
  <2>1. slots'[s].inFlight \in Nat
    BY <1>2, <1>9, <1>10
  <2>2. slots[s].inFlight - 1 \in Nat
    BY <1>1, <1>2, <1>3, <2>1 DEF SlotTypes
  <2> QED
    BY <1>1, <1>2, <1>3, <2>2 DEF SlotTypes, FreeSlotsAreClosed, Subscribed
<1>12. ThreadTypes'
  <2>1. client' = Woken(s) \/ client' = client
    BY DEF Leave
  <2>2. Woken(s) \in [Clients -> [pc : {"idle", "count", "uncount", "wait", "asleep"}, slot : Slots]]
    BY <1>1 DEF Woken, ThreadTypes
  <2> QED
    BY <1>1, <2>1, <2>2 DEF Leave, ThreadTypes
<1>13. CallbacksAreQuiescent'
  <2> SUFFICES ASSUME NEW q \in Renderers, Inside(q)'
               PROVE  /\ slots'[renderer'[q].slot].id # 0
                      /\ slots'[renderer'[q].slot].id = renderer'[q].id
    BY DEF CallbacksAreQuiescent, Subscribed
  <2>1. \A p \in Slots : slots'[p].id = slots[p].id
    BY <1>1, <1>2, <1>3 DEF SlotTypes
  <2>2. Inside(q) /\ renderer'[q] = renderer[q] /\ renderer[q].slot \in Slots
    BY <1>1, <1>4, <1>5 DEF RendererTypes
  <2> QED
    BY <2>1, <2>2 DEF IInv, CallbacksAreQuiescent, Subscribed
<1> QED
  BY <1>4, <1>10, <1>11, <1>12, <1>13 DEF IInv, InFlightIsExact

LEMMA StepsKeepIInv == IInv /\ [Next]_vars => IInv'
<1> SUFFICES ASSUME IInv, [Next]_vars PROVE IInv'
  OBVIOUS
<1>1. CASE AdvanceAcceptedDrawFrame
  <2>1. UNCHANGED <<slots, renderer>>
    BY <1>1 DEF AdvanceAcceptedDrawFrame
  <2>2. ThreadTypes'
    BY <1>1 DEF AdvanceAcceptedDrawFrame, IInv, ThreadTypes
  <2> QED
    BY <2>1, <2>2
    DEF IInv, SlotTypes, RendererTypes, InFlightIsExact, FreeSlotsAreClosed,
        CallbacksAreQuiescent, InsideOf, Inside, Subscribed
<1>2. CASE UNCHANGED vars
  BY <1>2
  DEF vars, IInv, SlotTypes, RendererTypes, ThreadTypes, InFlightIsExact, FreeSlotsAreClosed,
      CallbacksAreQuiescent, InsideOf, Inside, Subscribed
<1> QED
  BY <1>1, <1>2, ClientsKeepIInv, QuietRenderersKeepIInv, DeliverKeepsIInv, LeaveKeepsIInv
  DEF Next, FinishDraw

\* Types, the bound on the callbacks in flight, and one replay per delivery.
THEOREM TypeCorrect == Spec => []TypeOK
BY InitIInv, StepsKeepIInv, TypesFollow, PTL DEF Spec

\* A callback that runs has a subscription: Unregister, which frees its slot only
\* when nothing is in flight in it, has not returned.
THEOREM QuiescentUnregister == Spec => []CallbacksAreQuiescent
<1>1. IInv => CallbacksAreQuiescent
  BY DEF IInv
<1> QED
  BY <1>1, InitIInv, StepsKeepIInv, PTL DEF Spec
-----------------------------------------------------------------------------
(* The number of subscribers.                                              *)

LEMMA Division ==
    ASSUME NEW X \in Int
    PROVE  /\ X = Width * (X \div Width) + (X % Width)
           /\ X \div Width \in Int /\ X % Width \in 0 .. (Width - 1)
BY CountsFit, SlotsExist

LEMMA Remainder ==
    ASSUME NEW X \in Int, NEW q \in Int, NEW r \in 0 .. (Width - 1), X = Width * q + r
    PROVE  X % Width = r
BY CountsFit, SlotsExist, SMTT(60)

\* One more, or one less, can be counted after the remainder is taken.
LEMMA CountingWraps ==
    ASSUME NEW X \in Int
    PROVE  /\ ((X % Width) + 1) % Width = (X + 1) % Width
           /\ ((X % Width) - 1) % Width = (X - 1) % Width
<1> DEFINE q == X \div Width
           r == X % Width
<1>1. X = Width * q + r /\ q \in Int /\ r \in 0 .. (Width - 1) /\ Width \in Nat /\ Width > 1
  BY Division, CountsFit, SlotsExist
<1> HIDE DEF q, r
<1>2. (r + 1) % Width = (X + 1) % Width
  <2>1. CASE r + 1 < Width
    <3>1. X + 1 = Width * q + (r + 1) /\ r + 1 = Width * 0 + (r + 1) /\ r + 1 \in 0 .. (Width - 1)
      BY <1>1, <2>1
    <3>2. (X + 1) % Width = r + 1
      BY <1>1, <3>1, Remainder
    <3>3. (r + 1) % Width = r + 1
      BY <1>1, <3>1, Remainder
    <3> QED
      BY <3>2, <3>3
  <2>2. CASE r + 1 = Width
    <3>1. X + 1 = Width * (q + 1) + 0 /\ r + 1 = Width * 1 + 0 /\ 0 \in 0 .. (Width - 1)
      BY <1>1, <2>2
    <3>2. (X + 1) % Width = 0
      BY <1>1, <3>1, Remainder
    <3>3. (r + 1) % Width = 0
      BY <1>1, <3>1, Remainder
    <3> QED
      BY <3>2, <3>3
  <2> QED
    BY <1>1, <2>1, <2>2
<1>3. (r - 1) % Width = (X - 1) % Width
  <2>1. CASE r > 0
    <3>1. X - 1 = Width * q + (r - 1) /\ r - 1 = Width * 0 + (r - 1) /\ r - 1 \in 0 .. (Width - 1)
      BY <1>1, <2>1
    <3>2. (X - 1) % Width = r - 1
      BY <1>1, <3>1, Remainder
    <3>3. (r - 1) % Width = r - 1
      BY <1>1, <3>1, Remainder
    <3> QED
      BY <3>2, <3>3
  <2>2. CASE r = 0
    <3>1. /\ X - 1 = Width * (q - 1) + (Width - 1)
          /\ r - 1 = Width * (0 - 1) + (Width - 1) /\ Width - 1 \in 0 .. (Width - 1)
      BY <1>1, <2>2
    <3>2. (X - 1) % Width = Width - 1
      BY <1>1, <3>1, Remainder
    <3>3. (r - 1) % Width = Width - 1
      BY <1>1, <3>1, Remainder
    <3> QED
      BY <3>2, <3>3
  <2> QED
    BY <1>1, <2>1, <2>2
<1> QED
  BY <1>2, <1>3 DEF r

\* Two finite sets that differ in x at most.
LEMMA OneChanges ==
    ASSUME NEW S, NEW T, NEW x, IsFiniteSet(S), IsFiniteSet(T),
           \A y : y # x => (y \in S <=> y \in T)
    PROVE  /\ Cardinality(S) \in Nat /\ Cardinality(T) \in Nat
           /\ Cardinality(T) = Cardinality(S) + (IF x \in T THEN 1 ELSE 0)
                                             - (IF x \in S THEN 1 ELSE 0)
<1>1. Cardinality(S) \in Nat /\ Cardinality(T) \in Nat
  BY FS_CardinalityType
<1>2. CASE (x \in S) = (x \in T)
  <2>1. S = T
    BY <1>2
  <2> QED
    BY <1>1, <2>1
<1>3. CASE x \in T /\ x \notin S
  <2>1. T = S \cup {x}
    BY <1>3
  <2> QED
    BY <1>1, <1>3, <2>1, FS_AddElement
<1>4. CASE x \in S /\ x \notin T
  <2>1. T = S \ {x}
    BY <1>4
  <2> QED
    BY <1>1, <1>4, <2>1, FS_RemoveElement
<1> QED
  BY <1>2, <1>3, <1>4

Open(s) == IF slots[s].active THEN 1 ELSE 0
ClientIs(c, pc) == IF client[c].pc = pc THEN 1 ELSE 0
RendererIs(r, pc) == IF renderer[r].pc = pc THEN 1 ELSE 0

LEMMA CardinalitiesAreNumbers ==
    /\ Cardinality(ActiveSlots) \in Nat
    /\ \A pc : Cardinality(ClientsAt(pc)) \in Nat /\ Cardinality(RenderersAt(pc)) \in Nat
<1>1. IsFiniteSet(Slots)
  BY FS_Interval, SlotsExist DEF Slots
<1>2. ActiveSlots \subseteq Slots /\ \A at : ClientsAt(at) \subseteq Clients
        /\ \A where : RenderersAt(where) \subseteq Renderers
  BY DEF ActiveSlots, ClientsAt, RenderersAt
<1>3. IsFiniteSet(ActiveSlots) /\ \A at : IsFiniteSet(ClientsAt(at))
        /\ \A where : IsFiniteSet(RenderersAt(where))
  BY <1>1, <1>2, FS_Subset, RenderersAreFinite, ClientsAreFinite
<1> QED
  BY <1>3, FS_CardinalityType

LEMMA OneSlotChanges ==
    ASSUME NEW s \in Slots, \A q \in Slots : q # s => slots'[q].active = slots[q].active
    PROVE  Cardinality(ActiveSlots') = Cardinality(ActiveSlots) + Open(s)' - Open(s)
<1>1. IsFiniteSet(Slots)
  BY FS_Interval, SlotsExist DEF Slots
<1>2. ActiveSlots \subseteq Slots /\ ActiveSlots' \subseteq Slots
  BY DEF ActiveSlots
<1>3. IsFiniteSet(ActiveSlots) /\ IsFiniteSet(ActiveSlots')
  BY <1>1, <1>2, FS_Subset
<1>4. \A q : q # s => (q \in ActiveSlots <=> q \in ActiveSlots')
  BY DEF ActiveSlots
<1>5. Cardinality(ActiveSlots') = Cardinality(ActiveSlots)
          + (IF s \in ActiveSlots' THEN 1 ELSE 0) - (IF s \in ActiveSlots THEN 1 ELSE 0)
  BY <1>3, <1>4, OneChanges
<1> QED
  BY <1>5 DEF ActiveSlots, Open

LEMMA OneClientMoves ==
    ASSUME NEW c \in Clients, \A d \in Clients : d # c => client'[d].pc = client[d].pc, NEW pc
    PROVE  Cardinality(ClientsAt(pc)') = Cardinality(ClientsAt(pc)) + ClientIs(c, pc)' - ClientIs(c, pc)
<1>1. ClientsAt(pc) \subseteq Clients /\ ClientsAt(pc)' \subseteq Clients
  BY DEF ClientsAt
<1>2. IsFiniteSet(ClientsAt(pc)) /\ IsFiniteSet(ClientsAt(pc)')
  BY <1>1, ClientsAreFinite, FS_Subset
<1>3. \A d : d # c => (d \in ClientsAt(pc) <=> d \in ClientsAt(pc)')
  BY DEF ClientsAt, ClientAt
<1>4. Cardinality(ClientsAt(pc)') = Cardinality(ClientsAt(pc))
          + (IF c \in ClientsAt(pc)' THEN 1 ELSE 0) - (IF c \in ClientsAt(pc) THEN 1 ELSE 0)
  BY <1>2, <1>3, OneChanges
<1> QED
  BY <1>4 DEF ClientsAt, ClientAt, ClientIs

LEMMA OneRendererMoves ==
    ASSUME NEW r \in Renderers, \A q \in Renderers : q # r => renderer'[q].pc = renderer[q].pc, NEW pc
    PROVE  Cardinality(RenderersAt(pc)') =
               Cardinality(RenderersAt(pc)) + RendererIs(r, pc)' - RendererIs(r, pc)
<1>1. RenderersAt(pc) \subseteq Renderers /\ RenderersAt(pc)' \subseteq Renderers
  BY DEF RenderersAt
<1>2. IsFiniteSet(RenderersAt(pc)) /\ IsFiniteSet(RenderersAt(pc)')
  BY <1>1, RenderersAreFinite, FS_Subset
<1>3. \A q : q # r => (q \in RenderersAt(pc) <=> q \in RenderersAt(pc)')
  BY DEF RenderersAt, RendererAt
<1>4. Cardinality(RenderersAt(pc)') = Cardinality(RenderersAt(pc))
          + (IF r \in RenderersAt(pc)' THEN 1 ELSE 0) - (IF r \in RenderersAt(pc) THEN 1 ELSE 0)
  BY <1>2, <1>3, OneChanges
<1> QED
  BY <1>4 DEF RenderersAt, RendererAt, RendererIs

Total ==
    Cardinality(ActiveSlots) - Cardinality(ClientsAt("count"))
        + Cardinality(ClientsAt("uncount")) + Cardinality(RenderersAt("uncount"))

\* The count and what it counts move together.
LEMMA TotalsFollow ==
    ASSUME SubscribersAreCounted,
           \/ subscribers' = subscribers /\ Total' = Total
           \/ Increment /\ Total' = Total + 1
           \/ Decrement /\ Total' = Total - 1
    PROVE  SubscribersAreCounted'
<1>1. Total \in Int
  BY CardinalitiesAreNumbers DEF Total
<1>2. subscribers = Total % Width
  BY DEF SubscribersAreCounted, Total
<1>3. subscribers' = Total' % Width
  BY <1>1, <1>2, CountingWraps DEF Increment, Decrement
<1> QED
  BY <1>3 DEF SubscribersAreCounted, Total

LEMMA ClientsAreCounted ==
    ASSUME IInv, SubscribersAreCounted, NEW c \in Clients,
           \/ Register(c) \/ WakeUp(c) \/ FinishCall(c)
           \/ \E s \in Slots : Unregister(c, s)
    PROVE  SubscribersAreCounted'
<1>1. /\ slots \in [Slots -> [active : BOOLEAN, inFlight : Nat, id : Nat]]
      /\ client \in [Clients -> [pc : {"idle", "count", "uncount", "wait", "asleep"}, slot : Slots]]
      /\ FreeSlotsAreClosed
  BY DEF IInv, SlotTypes, ThreadTypes
<1>2. UNCHANGED renderer
  BY DEF Register, WakeUp, FinishCall, Unregister, CountSubscriber, UncountSubscriber,
         FallAsleep, Release
<1>3. Cardinality(RenderersAt("uncount")') = Cardinality(RenderersAt("uncount"))
  BY <1>2 DEF RenderersAt, RendererAt
<1>4. \A d \in Clients : d # c => client'[d].pc = client[d].pc
  BY <1>1 DEF Register, WakeUp, FinishCall, Unregister, CountSubscriber, UncountSubscriber,
              FallAsleep, Release, ClientGoes
<1>5. \A pc : Cardinality(ClientsAt(pc)') = Cardinality(ClientsAt(pc)) + ClientIs(c, pc)' - ClientIs(c, pc)
  BY <1>4, OneClientMoves
<1>6. ASSUME UNCHANGED slots PROVE Cardinality(ActiveSlots') = Cardinality(ActiveSlots)
  BY <1>6 DEF ActiveSlots
<1>7. CASE Register(c)
  <2>1. PICK s \in Slots :
            /\ ~Subscribed(s)
            /\ slots' = [slots EXCEPT ![s] =
                            [active |-> TRUE, inFlight |-> 0, id |-> nextSubscription]]
            /\ client' = [client EXCEPT ![c] = [pc |-> "count", slot |-> s]]
    BY <1>7 DEF Register
  <2>2. Open(s) = 0 /\ Open(s)' = 1 /\ \A q \in Slots : q # s => slots'[q].active = slots[q].active
    BY <1>1, <2>1 DEF Open, FreeSlotsAreClosed
  <2>3. client[c].pc = "idle" /\ client'[c].pc = "count"
    BY <1>1, <1>7, <2>1 DEF Register, ClientAt
  <2>4. /\ ClientIs(c, "count") = 0 /\ ClientIs(c, "count")' = 1
        /\ ClientIs(c, "uncount") = 0 /\ ClientIs(c, "uncount")' = 0
    BY <2>3 DEF ClientIs
  <2>5. Cardinality(ActiveSlots') = Cardinality(ActiveSlots) + 1
    BY <2>2, OneSlotChanges, CardinalitiesAreNumbers
  <2>6. Total' = Total
    BY <1>3, <1>5, <2>4, <2>5, CardinalitiesAreNumbers DEF Total
  <2> QED
    BY <1>7, <2>6, TotalsFollow DEF Register
<1>8. CASE CountSubscriber(c)
  <2>1. client[c].pc = "count" /\ client'[c].pc = "idle"
    BY <1>1, <1>8 DEF CountSubscriber, ClientAt, ClientGoes
  <2>2. /\ ClientIs(c, "count") = 1 /\ ClientIs(c, "count")' = 0
        /\ ClientIs(c, "uncount") = 0 /\ ClientIs(c, "uncount")' = 0
    BY <2>1 DEF ClientIs
  <2>3. Total' = Total + 1
    BY <1>3, <1>5, <1>6, <1>8, <2>2, CardinalitiesAreNumbers DEF CountSubscriber, Total
  <2> QED
    BY <1>8, <2>3, TotalsFollow DEF CountSubscriber
<1>9. CASE UncountSubscriber(c)
  <2>1. client[c].pc = "uncount" /\ client'[c].pc = "wait"
    BY <1>1, <1>9 DEF UncountSubscriber, ClientAt, ClientGoes
  <2>2. /\ ClientIs(c, "count") = 0 /\ ClientIs(c, "count")' = 0
        /\ ClientIs(c, "uncount") = 1 /\ ClientIs(c, "uncount")' = 0
    BY <2>1 DEF ClientIs
  <2>3. Total' = Total - 1
    BY <1>3, <1>5, <1>6, <1>9, <2>2, CardinalitiesAreNumbers DEF UncountSubscriber, Total
  <2> QED
    BY <1>9, <2>3, TotalsFollow DEF UncountSubscriber
<1>10. ASSUME NEW s \in Slots, Unregister(c, s) PROVE SubscribersAreCounted'
  <2>1. /\ slots' = [slots EXCEPT ![s].active = FALSE]
        /\ client' = [client EXCEPT ![c] =
                         [pc |-> IF slots[s].active THEN "uncount" ELSE "wait", slot |-> s]]
        /\ client[c].pc = "idle"
    BY <1>10 DEF Unregister, ClientAt
  <2>2. Open(s)' = 0 /\ \A q \in Slots : q # s => slots'[q].active = slots[q].active
    BY <1>1, <2>1 DEF Open
  <2>3. /\ ClientIs(c, "count") = 0 /\ ClientIs(c, "count")' = 0
        /\ ClientIs(c, "uncount") = 0 /\ ClientIs(c, "uncount")' = Open(s)
    BY <1>1, <2>1 DEF ClientIs, Open
  <2>4. Cardinality(ActiveSlots') = Cardinality(ActiveSlots) - Open(s) /\ Open(s) \in Nat
    BY <2>2, OneSlotChanges, CardinalitiesAreNumbers DEF Open
  <2>5. Total' = Total
    BY <1>3, <1>5, <2>3, <2>4, CardinalitiesAreNumbers DEF Total
  <2> QED
    BY <1>10, <2>5, TotalsFollow DEF Unregister
<1>11. CASE WakeUp(c) \/ FallAsleep(c) \/ Release(c)
  <2>1. Cardinality(ActiveSlots') = Cardinality(ActiveSlots)
    <3>1. slots' = slots \/ slots' = [slots EXCEPT ![client[c].slot].id = 0]
      BY <1>11 DEF WakeUp, FallAsleep, Release
    <3>2. client[c].slot \in Slots
      BY <1>1
    <3>3. \A s \in Slots : slots'[s].active = slots[s].active
      BY <1>1, <3>1, <3>2
    <3> QED
      BY <3>3 DEF ActiveSlots
  <2>2. client[c].pc \in {"asleep", "wait"} /\ client'[c].pc \in {"asleep", "wait", "idle"}
    BY <1>1, <1>11 DEF WakeUp, FallAsleep, Release, ClientAt, ClientGoes
  <2>3. /\ ClientIs(c, "count") = 0 /\ ClientIs(c, "count")' = 0
        /\ ClientIs(c, "uncount") = 0 /\ ClientIs(c, "uncount")' = 0
    BY <2>2 DEF ClientIs
  <2>4. Total' = Total
    BY <1>3, <1>5, <2>1, <2>3, CardinalitiesAreNumbers DEF Total
  <2> QED
    BY <1>11, <2>4, TotalsFollow DEF WakeUp, FallAsleep, Release
<1> QED
  BY <1>7, <1>8, <1>9, <1>10, <1>11 DEF FinishCall

LEMMA RenderersAreCounted ==
    ASSUME IInv, SubscribersAreCounted, NEW r \in Renderers,
           PublishAcceptedDraw(r) \/ Replay(r) \/ FinishDraw(r)
    PROVE  SubscribersAreCounted'
<1>1. /\ slots \in [Slots -> [active : BOOLEAN, inFlight : Nat, id : Nat]]
      /\ client \in [Clients -> [pc : {"idle", "count", "uncount", "wait", "asleep"}, slot : Slots]]
      /\ renderer \in [Renderers -> [pc : {"idle", "claim", "dispatch", "scan", "observer",
                                          "uncount", "leave"},
                                     slot : Slots, id : Nat, replays : 0 .. 1]]
      /\ renderer[r].slot \in Slots
  BY DEF IInv, SlotTypes, ThreadTypes, RendererTypes
<1>2. \A q \in Renderers : q # r => renderer'[q].pc = renderer[q].pc
  BY <1>1 DEF PublishAcceptedDraw, ClaimScene, Replay, FinishDraw, Dispatch, Skip, Deliver,
              ObserverReturns, ObserverThrows, UncountFaulty, Leave, NextSlot, RendererGoes
<1>3. Cardinality(RenderersAt("uncount")') =
          Cardinality(RenderersAt("uncount")) + RendererIs(r, "uncount")' - RendererIs(r, "uncount")
  BY <1>2, OneRendererMoves
<1>4. \A pc : Cardinality(ClientsAt(pc)') = Cardinality(ClientsAt(pc))
           \/ pc \notin {"count", "uncount"}
  <2>1. \A c \in Clients : client'[c].pc = client[c].pc
            \/ (client[c].pc = "asleep" /\ client'[c].pc = "wait")
    BY <1>1 DEF PublishAcceptedDraw, ClaimScene, Replay, FinishDraw, Dispatch, Skip, Deliver,
                ObserverReturns, ObserverThrows, UncountFaulty, Leave, Woken, ClientAt
  <2>2. ClientsAt("count")' = ClientsAt("count") /\ ClientsAt("uncount")' = ClientsAt("uncount")
    BY <2>1 DEF ClientsAt, ClientAt
  <2> QED
    BY <2>2
<1>5. ASSUME \A s \in Slots : slots'[s].active = slots[s].active,
             renderer[r].pc # "uncount", renderer'[r].pc # "uncount"
      PROVE  Total' = Total
  <2>1. ActiveSlots' = ActiveSlots
    BY <1>5 DEF ActiveSlots
  <2>2. RendererIs(r, "uncount") = 0 /\ RendererIs(r, "uncount")' = 0
    BY <1>5 DEF RendererIs
  <2> QED
    BY <1>3, <1>4, <2>1, <2>2, CardinalitiesAreNumbers DEF Total
<1>6. CASE PublishAcceptedDraw(r) \/ ClaimScene(r) \/ Replay(r) \/ ObserverReturns(r)
  <2>1. PICK pc \in {"idle", "claim", "dispatch", "leave", "observer"} : renderer'[r].pc = pc
    BY <1>1, <1>6
    DEF PublishAcceptedDraw, ClaimScene, Replay, ObserverReturns, RendererGoes, RendererAt
  <2>2. renderer[r].pc # "uncount" /\ UNCHANGED <<slots, subscribers>>
    BY <1>6 DEF PublishAcceptedDraw, ClaimScene, Replay, ObserverReturns, RendererAt
  <2> QED
    BY <1>5, <2>1, <2>2, TotalsFollow
<1>7. CASE Dispatch(r)
  <2>1. renderer'[r].pc \in {"scan", "idle"}
    <3>1. renderer' = [renderer EXCEPT ![r] =
                          [Drawing EXCEPT !.pc = IF subscribers # 0 THEN "scan" ELSE "idle"]]
      BY <1>7 DEF Dispatch
    <3> QED
      BY <1>1, <3>1 DEF Drawing
  <2>2. renderer[r].pc # "uncount" /\ UNCHANGED <<slots, subscribers>>
    BY <1>7 DEF Dispatch, RendererAt
  <2> QED
    BY <1>5, <2>1, <2>2, TotalsFollow
<1>8. CASE Skip(r) \/ Leave(r)
  <2>1. renderer'[r].pc # "uncount"
    <3>1. RendererTypes /\ NextSlot(r)
      BY <1>8 DEF IInv, Skip, Leave
    <3> QED
      BY <3>1, NextSlotIsTyped DEF Inside
  <2>2. renderer[r].pc # "uncount" /\ UNCHANGED subscribers
    BY <1>8 DEF Skip, Leave, RendererAt
  <2>3. slots' = slots \/ slots' = [slots EXCEPT ![renderer[r].slot].inFlight = @ - 1]
    BY <1>8 DEF Skip, Leave
  <2>4. \A s \in Slots : slots'[s].active = slots[s].active
    BY <1>1, <2>3
  <2> QED
    BY <1>5, <2>1, <2>2, <2>4, TotalsFollow
<1>9. CASE Deliver(r)
  <2>1. renderer[r].pc # "uncount" /\ renderer'[r].pc # "uncount" /\ UNCHANGED subscribers
    BY <1>1, <1>9 DEF Deliver, RendererAt
  <2>2. slots' = [slots EXCEPT ![renderer[r].slot].inFlight = @ + 1]
    BY <1>9 DEF Deliver
  <2>3. \A s \in Slots : slots'[s].active = slots[s].active
    BY <1>1, <2>2
  <2> QED
    BY <1>5, <2>1, <2>3, TotalsFollow
<1>10. CASE ObserverThrows(r)
  <2>1. PICK s \in Slots : s = renderer[r].slot
    BY <1>1
  <2>2. /\ slots' = [slots EXCEPT ![s].active = FALSE]
        /\ renderer' = [renderer EXCEPT ![r].pc = IF slots[s].active THEN "uncount" ELSE "leave"]
        /\ renderer[r].pc = "observer" /\ UNCHANGED subscribers
    BY <1>10, <2>1 DEF ObserverThrows, RendererGoes, RendererAt
  <2>3. Open(s)' = 0 /\ \A q \in Slots : q # s => slots'[q].active = slots[q].active
    BY <1>1, <2>2 DEF Open
  <2>4. Cardinality(ActiveSlots') = Cardinality(ActiveSlots) - Open(s) /\ Open(s) \in Nat
    BY <2>3, OneSlotChanges, CardinalitiesAreNumbers DEF Open
  <2>5. RendererIs(r, "uncount") = 0 /\ RendererIs(r, "uncount")' = Open(s)
    BY <1>1, <2>2 DEF RendererIs, Open
  <2>6. Total' = Total
    BY <1>3, <1>4, <2>4, <2>5, CardinalitiesAreNumbers DEF Total
  <2> QED
    BY <2>2, <2>6, TotalsFollow
<1>11. CASE UncountFaulty(r)
  <2>1. renderer[r].pc = "uncount" /\ renderer'[r].pc = "leave"
    BY <1>1, <1>11 DEF UncountFaulty, RendererAt, RendererGoes
  <2>2. RendererIs(r, "uncount") = 1 /\ RendererIs(r, "uncount")' = 0
    BY <2>1 DEF RendererIs
  <2>3. ActiveSlots' = ActiveSlots
    BY <1>11 DEF UncountFaulty, ActiveSlots
  <2>4. Total' = Total - 1
    BY <1>3, <1>4, <2>2, <2>3, CardinalitiesAreNumbers DEF Total
  <2> QED
    BY <1>11, <2>4, TotalsFollow DEF UncountFaulty
<1> QED
  BY <1>6, <1>7, <1>8, <1>9, <1>10, <1>11 DEF FinishDraw

\* The count is exact but for the threads between two accesses: in particular
\* when nobody is, no draw is skipped while a slot is active.
THEOREM Counting == Spec => []SubscribersAreCounted
<1>1. Init => SubscribersAreCounted
  <2> SUFFICES ASSUME Init PROVE SubscribersAreCounted
    OBVIOUS
  <2>1. /\ ActiveSlots = {} /\ ClientsAt("count") = {} /\ ClientsAt("uncount") = {}
        /\ RenderersAt("uncount") = {}
    BY DEF Init, ActiveSlots, ClientsAt, RenderersAt, ClientAt, RendererAt, Free, Calls, Drawing
  <2>2. 0 % Width = 0
    BY CountsFit, SlotsExist
  <2>3. Cardinality({}) = 0
    BY FS_EmptySet
  <2>4. (Cardinality(ActiveSlots) - Cardinality(ClientsAt("count"))
          + Cardinality(ClientsAt("uncount")) + Cardinality(RenderersAt("uncount"))) = 0
    BY <2>1, <2>3
  <2>5. subscribers = 0
    BY DEF Init
  <2> QED
    BY <2>2, <2>4, <2>5 DEF SubscribersAreCounted
<1>2. IInv /\ SubscribersAreCounted /\ [Next]_vars => SubscribersAreCounted'
  <2> SUFFICES ASSUME IInv, SubscribersAreCounted, [Next]_vars PROVE SubscribersAreCounted'
    OBVIOUS
  <2>1. CASE UNCHANGED <<slots, subscribers, client, renderer>>
    <3>1. ActiveSlots' = ActiveSlots
      BY <2>1 DEF ActiveSlots
    <3>2. ClientsAt("count")' = ClientsAt("count") /\ ClientsAt("uncount")' = ClientsAt("uncount")
      BY <2>1 DEF ClientsAt, ClientAt
    <3>3. RenderersAt("uncount")' = RenderersAt("uncount")
      BY <2>1 DEF RenderersAt, RendererAt
    <3> QED
      BY <2>1, <3>1, <3>2, <3>3 DEF SubscribersAreCounted
  <2>2. CASE AdvanceAcceptedDrawFrame \/ UNCHANGED vars
    BY <2>1, <2>2 DEF AdvanceAcceptedDrawFrame, vars
  <2> QED
    BY <2>2, ClientsAreCounted, RenderersAreCounted DEF Next
<1> QED
  BY <1>1, <1>2, InitIInv, StepsKeepIInv, PTL DEF Spec
=============================================================================
