---------------------------- MODULE AcceptedDraws ----------------------------
(***************************************************************************)
(* Observers of accepted draws: other plugins register a callback that the *)
(* render thread calls after each draw of the main scene                   *)
(* (Api/AcceptedDrawRegistry.cpp), behind a gate that lets one thread per  *)
(* frame publish draws (Api/AcceptedDrawService.cpp).                      *)
(*                                                                         *)
(* Registering and unregistering hold one mutex; dispatching takes no lock *)
(* and meets them only in the atomic word of a slot, an active bit and the *)
(* number of callbacks in flight, and in the number of subscribers.  One   *)
(* action is one access to one of these.  A compare-and-swap loop is the   *)
(* access that ends it.                                                    *)
(*                                                                         *)
(* What an observer calls back into the registry, other than Replay, is    *)
(* refused on its own thread and changes nothing: no action stands for it. *)
(***************************************************************************)
EXTENDS Integers, FiniteSets

CONSTANTS
    Renderers,         \* threads that submit draws
    Clients,           \* threads that register and unregister
    SlotCount,         \* 8 in the code
    Width,             \* 2^32: the number of subscribers is unsigned
    NoThread,          \* renderThread is 0, or the mutex is free
    MaxSubscriptions   \* bound: calls of Register that succeed

ASSUME RenderersAreFinite == IsFiniteSet(Renderers)
ASSUME ClientsAreFinite == IsFiniteSet(Clients)
ASSUME SlotsExist == SlotCount \in Nat \ {0}
ASSUME CountsFit == Width \in Nat /\ Width > SlotCount
ASSUME NobodyIsNoThread == NoThread \notin Renderers \cup Clients

VARIABLES
    slots,             \* id 0: the slot is free
    subscribers,
    nextSubscription,
    lifecycle,         \* who holds the mutex
    client,            \* where a client is, and in which slot
    renderThread,
    renderer           \* where a renderer is; its delivery: slot, id, replays

vars == <<slots, subscribers, nextSubscription, lifecycle, client, renderThread, renderer>>

Slots == 1 .. SlotCount

Free == [active |-> FALSE, inFlight |-> 0, id |-> 0]

\* The observer and its user state are there while the slot has an id.
Subscribed(s) == slots[s].id # 0

Calls == [pc |-> "idle", slot |-> 1]
Drawing == [pc |-> "idle", slot |-> 1, id |-> 0, replays |-> 0]

Init ==
    /\ slots = [s \in Slots |-> Free]
    /\ subscribers = 0
    /\ nextSubscription = 1
    /\ lifecycle = NoThread
    /\ client = [c \in Clients |-> Calls]
    /\ renderThread = NoThread
    /\ renderer = [r \in Renderers |-> Drawing]

ClientAt(c, pc) == client[c].pc = pc
ClientGoes(c, pc) == client' = [client EXCEPT ![c].pc = pc]
RendererAt(r, pc) == renderer[r].pc = pc
RendererGoes(r, pc) == renderer' = [renderer EXCEPT ![r].pc = pc]

Increment == subscribers' = (subscribers + 1) % Width
Decrement == subscribers' = (subscribers - 1) % Width
-----------------------------------------------------------------------------
(* Register and Unregister.                                                *)

\* The first free slot, up to the store that publishes it as active.
Register(c) ==
    /\ ClientAt(c, "idle") /\ lifecycle = NoThread
    /\ nextSubscription <= MaxSubscriptions
    /\ \E s \in Slots :
          /\ ~Subscribed(s) /\ \A earlier \in 1 .. (s - 1) : Subscribed(earlier)
          /\ slots' = [slots EXCEPT ![s] =
                          [active |-> TRUE, inFlight |-> 0, id |-> nextSubscription]]
          /\ client' = [client EXCEPT ![c] = [pc |-> "count", slot |-> s]]
    /\ nextSubscription' = nextSubscription + 1
    /\ lifecycle' = c
    /\ UNCHANGED <<subscribers, renderThread, renderer>>

CountSubscriber(c) ==
    /\ ClientAt(c, "count")
    /\ Increment
    /\ ClientGoes(c, "idle")
    /\ lifecycle' = NoThread
    /\ UNCHANGED <<slots, nextSubscription, renderThread, renderer>>

\* Defect: it does not look whether a fault has deactivated the slot before.
MutUnregister(c, s) ==
    /\ ClientAt(c, "idle") /\ lifecycle = NoThread
    /\ Subscribed(s)
    /\ slots' = [slots EXCEPT ![s].active = FALSE]
    /\ client' = [client EXCEPT ![c] = [pc |-> "uncount", slot |-> s]]
    /\ lifecycle' = c
    /\ UNCHANGED <<subscribers, nextSubscription, renderThread, renderer>>

\* An id that is not in any slot is refused.
Unregister(c, s) ==
    /\ ClientAt(c, "idle") /\ lifecycle = NoThread
    /\ Subscribed(s)
    /\ slots' = [slots EXCEPT ![s].active = FALSE]
    /\ client' = [client EXCEPT ![c] =
                     [pc |-> IF slots[s].active THEN "uncount" ELSE "wait", slot |-> s]]
    /\ lifecycle' = c
    /\ UNCHANGED <<subscribers, nextSubscription, renderThread, renderer>>

UncountSubscriber(c) ==
    /\ ClientAt(c, "uncount")
    /\ Decrement
    /\ ClientGoes(c, "wait")
    /\ UNCHANGED <<slots, nextSubscription, lifecycle, renderThread, renderer>>

InUse(s) == slots[s].active \/ slots[s].inFlight # 0

\* state.wait compares and goes to sleep in one step.
FallAsleep(c) ==
    /\ ClientAt(c, "wait") /\ InUse(client[c].slot)
    /\ ClientGoes(c, "asleep")
    /\ UNCHANGED <<slots, subscribers, nextSubscription, lifecycle, renderThread, renderer>>

\* Spuriously.
WakeUp(c) ==
    /\ ClientAt(c, "asleep")
    /\ ClientGoes(c, "wait")
    /\ UNCHANGED <<slots, subscribers, nextSubscription, lifecycle, renderThread, renderer>>

\* Defect: it does not wait for the callbacks in flight.
MutRelease(c) ==
    /\ ClientAt(c, "wait") /\ ~slots[client[c].slot].active
    /\ slots' = [slots EXCEPT ![client[c].slot].id = 0]
    /\ ClientGoes(c, "idle")
    /\ lifecycle' = NoThread
    /\ UNCHANGED <<subscribers, nextSubscription, renderThread, renderer>>

\* The borrowed user state goes back to the caller.
Release(c) ==
    /\ ClientAt(c, "wait") /\ ~InUse(client[c].slot)
    /\ slots' = [slots EXCEPT ![client[c].slot].id = 0]
    /\ ClientGoes(c, "idle")
    /\ lifecycle' = NoThread
    /\ UNCHANGED <<subscribers, nextSubscription, renderThread, renderer>>
-----------------------------------------------------------------------------
(* PublishAcceptedDraw and Dispatch.                                       *)

\* One thread owns the scene until the frame ends.
PublishAcceptedDraw(r) ==
    /\ RendererAt(r, "idle")
    /\ subscribers # 0
    /\ renderThread \in {NoThread, r}
    /\ RendererGoes(r, IF renderThread = r THEN "dispatch" ELSE "claim")
    /\ UNCHANGED <<slots, subscribers, nextSubscription, lifecycle, client, renderThread>>

\* Another thread may have been faster.
ClaimScene(r) ==
    /\ RendererAt(r, "claim")
    /\ renderThread' = IF renderThread = NoThread THEN r ELSE renderThread
    /\ RendererGoes(r, IF renderThread = NoThread THEN "dispatch" ELSE "idle")
    /\ UNCHANGED <<slots, subscribers, nextSubscription, lifecycle, client>>

\* The next frame's draws may come from another thread.
AdvanceAcceptedDrawFrame ==
    /\ \E r \in Renderers : RendererAt(r, "idle")
    /\ renderThread # NoThread
    /\ renderThread' = NoThread
    /\ UNCHANGED <<slots, subscribers, nextSubscription, lifecycle, client, renderer>>

Dispatch(r) ==
    /\ RendererAt(r, "dispatch")
    /\ renderer' = [renderer EXCEPT ![r] =
                       [Drawing EXCEPT !.pc = IF subscribers # 0 THEN "scan" ELSE "idle"]]
    /\ UNCHANGED <<slots, subscribers, nextSubscription, lifecycle, client, renderThread>>

\* After the last slot the draw is over.
NextSlot(r) ==
    renderer' = [renderer EXCEPT ![r] =
                    IF @.slot = SlotCount THEN Drawing
                    ELSE [Drawing EXCEPT !.pc = "scan", !.slot = renderer[r].slot + 1]]

Skip(r) ==
    /\ RendererAt(r, "scan") /\ ~slots[renderer[r].slot].active
    /\ NextSlot(r)
    /\ UNCHANGED <<slots, subscribers, nextSubscription, lifecycle, client, renderThread>>

\* The compare-and-swap succeeds, and the observer is called.
Deliver(r) ==
    LET s == renderer[r].slot IN
    /\ RendererAt(r, "scan") /\ slots[s].active
    /\ slots' = [slots EXCEPT ![s].inFlight = @ + 1]
    /\ renderer' = [renderer EXCEPT ![r] =
                       [pc |-> "observer", slot |-> s, id |-> slots[s].id, replays |-> 0]]
    /\ UNCHANGED <<subscribers, nextSubscription, lifecycle, client, renderThread>>

\* With the token of this delivery; any other token is refused.
Replay(r) ==
    /\ RendererAt(r, "observer") /\ renderer[r].replays = 0
    /\ renderer' = [renderer EXCEPT ![r].replays = 1]
    /\ UNCHANGED <<slots, subscribers, nextSubscription, lifecycle, client, renderThread>>

ObserverReturns(r) ==
    /\ RendererAt(r, "observer")
    /\ RendererGoes(r, "leave")
    /\ UNCHANGED <<slots, subscribers, nextSubscription, lifecycle, client, renderThread>>

\* Its subscription is deactivated, by one of the threads it throws on.
ObserverThrows(r) ==
    LET s == renderer[r].slot IN
    /\ RendererAt(r, "observer")
    /\ slots' = [slots EXCEPT ![s].active = FALSE]
    /\ RendererGoes(r, IF slots[s].active THEN "uncount" ELSE "leave")
    /\ UNCHANGED <<subscribers, nextSubscription, lifecycle, client, renderThread>>

UncountFaulty(r) ==
    /\ RendererAt(r, "uncount")
    /\ Decrement
    /\ RendererGoes(r, "leave")
    /\ UNCHANGED <<slots, nextSubscription, lifecycle, client, renderThread>>

Woken(s) ==
    [c \in Clients |-> IF ClientAt(c, "asleep") /\ client[c].slot = s
                       THEN [client[c] EXCEPT !.pc = "wait"] ELSE client[c]]

\* Defect: the last callback of an open subscription wakes, not of a closing one.
MutLeave(r) ==
    LET s == renderer[r].slot IN
    /\ RendererAt(r, "leave")
    /\ slots' = [slots EXCEPT ![s].inFlight = @ - 1]
    /\ client' = IF slots[s].active /\ slots[s].inFlight = 1 THEN Woken(s) ELSE client
    /\ NextSlot(r)
    /\ UNCHANGED <<subscribers, nextSubscription, lifecycle, renderThread>>

\* The last callback of a closing subscription wakes the one who waits for it.
Leave(r) ==
    LET s == renderer[r].slot IN
    /\ RendererAt(r, "leave")
    /\ slots' = [slots EXCEPT ![s].inFlight = @ - 1]
    /\ client' = IF ~slots[s].active /\ slots[s].inFlight = 1 THEN Woken(s) ELSE client
    /\ NextSlot(r)
    /\ UNCHANGED <<subscribers, nextSubscription, lifecycle, renderThread>>

FinishDraw(r) ==
    \/ ClaimScene(r) \/ Dispatch(r) \/ Skip(r) \/ Deliver(r) \/ ObserverReturns(r)
    \/ ObserverThrows(r) \/ UncountFaulty(r) \/ Leave(r)

FinishCall(c) == CountSubscriber(c) \/ UncountSubscriber(c) \/ FallAsleep(c) \/ Release(c)

Next ==
    \/ \E c \in Clients :
          \/ Register(c) \/ WakeUp(c) \/ FinishCall(c)
          \/ \E s \in Slots : Unregister(c, s)
    \/ \E r \in Renderers : PublishAcceptedDraw(r) \/ Replay(r) \/ FinishDraw(r)
    \/ AdvanceAcceptedDrawFrame

\* Threads run, and observers return or throw.
Fairness ==
    /\ \A r \in Renderers : WF_vars(FinishDraw(r))
    /\ \A c \in Clients : WF_vars(FinishCall(c))

Spec == Init /\ [][Next]_vars /\ Fairness
-----------------------------------------------------------------------------
(* Properties.                                                             *)

Inside(r) == renderer[r].pc \in {"observer", "uncount", "leave"}

\* No more callbacks are in flight than renderers exist, and a delivery is
\* replayed at most once.
TypeOK ==
    /\ slots \in [Slots -> [active : BOOLEAN, inFlight : 0 .. Cardinality(Renderers), id : Nat]]
    /\ subscribers \in 0 .. (Width - 1)
    /\ nextSubscription \in Nat
    /\ lifecycle \in Clients \cup {NoThread}
    /\ client \in [Clients -> [pc : {"idle", "count", "uncount", "wait", "asleep"}, slot : Slots]]
    /\ renderThread \in Renderers \cup {NoThread}
    /\ renderer \in [Renderers -> [pc : {"idle", "claim", "dispatch", "scan", "observer",
                                          "uncount", "leave"},
                                   slot : Slots, id : Nat, replays : 0 .. 1]]

ActiveSlots == {s \in Slots : slots[s].active}
ClientsAt(pc) == {c \in Clients : ClientAt(c, pc)}
RenderersAt(pc) == {r \in Renderers : RendererAt(r, pc)}

\* The number of subscribers is off from that of the active slots by the threads
\* between the two accesses and by nothing else: a subscription closed by its own
\* fault and by Unregister is counted down once, and the error ends when they have
\* counted.  While it lasts draws may be skipped that observers wait for: a
\* subscription that is published, throws and is counted down before it was
\* counted cancels another one.
SubscribersAreCounted ==
    subscribers = (Cardinality(ActiveSlots) - Cardinality(ClientsAt("count"))
                     + Cardinality(ClientsAt("uncount"))
                     + Cardinality(RenderersAt("uncount"))) % Width

\* QuiescentUnregister: while a callback runs, its subscription is still in its
\* slot; so none runs, or begins, once its Unregister has returned.
CallbacksAreQuiescent ==
    \A r \in Renderers : Inside(r) =>
        /\ Subscribed(renderer[r].slot)
        /\ slots[renderer[r].slot].id = renderer[r].id

\* Whoever has entered Register or Unregister comes back.
CallsReturn == \A c \in Clients : client[c].pc # "idle" ~> client[c].pc = "idle"
=============================================================================
