---------------------------- MODULE CompileDedupe ---------------------------
(***************************************************************************)
(* The registry that lets tasks with identical preprocessed source share   *)
(* one compile (Utils/CompileDedupe.h): the first to ask for a key gets a  *)
(* ticket and compiles, the others wait for its blob.  NotifyIfComplete,   *)
(* BumpGeneration and Clear of the scheduler empty it at any time, while   *)
(* tickets are out and tasks wait on entries it no longer lists.           *)
(*                                                                         *)
(* One action is one critical section of mapMutex or of an entry's mutex.  *)
(* An entry lives as long as something points at it; an identity nothing   *)
(* points at stands for memory that can be allocated again.  droppedBlobs  *)
(* is only logged and is left out.                                         *)
(***************************************************************************)
EXTENDS Integers, FiniteSets

CONSTANTS
    Workers,            \* threads inside CompileShader
    Keys,               \* content hashes
    Entries,            \* identities of shared Entry objects
    NoEntry,            \* a null shared_ptr, and a key that is not in the map
    NoKey,
    SizeOf,             \* bytes of the blob each key compiles to
    MaxRetainedBytes    \* the retention cap

ASSUME SizesAreNatural == SizeOf \in [Keys -> Nat] /\ MaxRetainedBytes \in Nat
ASSUME NullIsNoEntry == NoEntry \notin Entries /\ NoKey \notin Keys

VARIABLES
    map,            \* Registry::map
    state,          \* Entry::state
    retainedBytes,
    worker          \* where each thread is, for which key, with which entry

vars == <<map, state, retainedBytes, worker>>

Places == {"idle", "acquiring", "waiting", "owner", "publishing", "failing"}
At(pc, k, e) == [pc |-> pc, key |-> k, entry |-> e]
Idle == At("idle", NoKey, NoEntry)

Registered(k, e) == map[k] = e /\ e # NoEntry

Unreferenced(e) ==
    /\ \A k \in Keys : map[k] # e
    /\ \A w \in Workers : worker[w].entry # e

Init ==
    /\ map = [k \in Keys |-> NoEntry]
    /\ state = [e \in Entries |-> "Pending"]
    /\ retainedBytes = 0
    /\ worker = [w \in Workers |-> Idle]
-----------------------------------------------------------------------------
(* Acquire.                                                                *)

BeginAcquire(w, k) ==
    /\ worker[w] = Idle
    /\ worker' = [worker EXCEPT ![w] = At("acquiring", k, NoEntry)]
    /\ UNCHANGED <<map, state, retainedBytes>>

\* The key is free: an entry is registered and its ticket handed out.
TakeTicket(w) ==
    LET k == worker[w].key IN
    /\ worker[w].pc = "acquiring" /\ map[k] = NoEntry
    /\ \E e \in Entries :
          /\ Unreferenced(e)
          /\ map' = [map EXCEPT ![k] = e]
          /\ state' = [state EXCEPT ![e] = "Pending"]
          /\ worker' = [worker EXCEPT ![w] = At("owner", k, e)]
    /\ UNCHANGED retainedBytes

FindEntry(w) ==
    LET k == worker[w].key IN
    /\ worker[w].pc = "acquiring" /\ map[k] # NoEntry
    /\ worker' = [worker EXCEPT ![w] = At("waiting", k, map[k])]
    /\ UNCHANGED <<map, state, retainedBytes>>

\* Defect: only a blob ends the wait.
MutWaitEnds(w) ==
    /\ worker[w].pc = "waiting" /\ state[worker[w].entry] = "Done"
    /\ worker' = [worker EXCEPT ![w] = Idle]
    /\ UNCHANGED <<map, state, retainedBytes>>

\* A done entry answers the task; a failed one sends it back for the ticket.
WaitEnds(w) ==
    /\ worker[w].pc = "waiting" /\ state[worker[w].entry] # "Pending"
    /\ worker' = [worker EXCEPT ![w] =
                     IF state[worker[w].entry] = "Done" THEN Idle
                     ELSE At("acquiring", worker[w].key, NoEntry)]
    /\ UNCHANGED <<map, state, retainedBytes>>
-----------------------------------------------------------------------------
(* Ticket.                                                                 *)

MoveTo(w, pc) == worker' = [worker EXCEPT ![w].pc = pc]

\* Defect: whatever entry the key has now is charged for this blob.
MutRetain(w) ==
    LET k == worker[w].key IN
    /\ worker[w].pc = "owner"
    /\ IF map[k] = NoEntry THEN UNCHANGED <<map, retainedBytes>>
       ELSE IF SizeOf[k] > MaxRetainedBytes - retainedBytes
            THEN /\ map' = [map EXCEPT ![k] = NoEntry]
                 /\ UNCHANGED retainedBytes
            ELSE /\ retainedBytes' = retainedBytes + SizeOf[k]
                 /\ UNCHANGED map
    /\ MoveTo(w, "publishing")
    /\ UNCHANGED state

\* Publish, first half: charge the blob if the entry is still listed, or
\* unlist it when it does not fit.
Retain(w) ==
    LET k == worker[w].key
        listed == map[k] = worker[w].entry
        fits == SizeOf[k] <= MaxRetainedBytes - retainedBytes
    IN /\ worker[w].pc = "owner"
       /\ map' = IF listed /\ ~fits THEN [map EXCEPT ![k] = NoEntry] ELSE map
       /\ retainedBytes' = IF listed /\ fits THEN retainedBytes + SizeOf[k]
                           ELSE retainedBytes
       /\ MoveTo(w, "publishing")
       /\ UNCHANGED state

\* Publish, second half: the waiters' predicate turns true.
PublishBlob(w) ==
    /\ worker[w].pc = "publishing"
    /\ state' = [state EXCEPT ![worker[w].entry] = "Done"]
    /\ worker' = [worker EXCEPT ![w] = Idle]
    /\ UNCHANGED <<map, retainedBytes>>

\* Defect: the claim is released without unlisting its entry.
MutForget(w) ==
    /\ worker[w].pc = "owner"
    /\ MoveTo(w, "failing")
    /\ UNCHANGED <<map, state, retainedBytes>>

\* Fail, first half, also when the ticket is destroyed unpublished: the
\* compile failed or threw, the blob could not be copied or stripped.
Forget(w) ==
    LET k == worker[w].key IN
    /\ worker[w].pc = "owner"
    /\ map' = IF map[k] = worker[w].entry THEN [map EXCEPT ![k] = NoEntry] ELSE map
    /\ MoveTo(w, "failing")
    /\ UNCHANGED <<state, retainedBytes>>

\* Defect: the waiters are never told.
MutFailEntry(w) ==
    /\ worker[w].pc = "failing"
    /\ worker' = [worker EXCEPT ![w] = Idle]
    /\ UNCHANGED <<map, state, retainedBytes>>

FailEntry(w) ==
    /\ worker[w].pc = "failing"
    /\ state' = [state EXCEPT ![worker[w].entry] = "Failed"]
    /\ worker' = [worker EXCEPT ![w] = Idle]
    /\ UNCHANGED <<map, retainedBytes>>
-----------------------------------------------------------------------------
Clear ==
    /\ map' = [k \in Keys |-> NoEntry]
    /\ retainedBytes' = 0
    /\ UNCHANGED <<state, worker>>

Step(w) ==
    \/ TakeTicket(w) \/ FindEntry(w) \/ WaitEnds(w)
    \/ Retain(w) \/ PublishBlob(w) \/ Forget(w) \/ FailEntry(w)

Next ==
    \/ Clear
    \/ \E w \in Workers : Step(w) \/ \E k \in Keys : BeginAcquire(w, k)

Spec == Init /\ [][Next]_vars

\* A thread inside the registry, or compiling with a ticket, gets to go on.
FairSpec == Spec /\ \A w \in Workers : WF_vars(Step(w))
-----------------------------------------------------------------------------
(* Properties.                                                             *)

TypeOK ==
    /\ map \in [Keys -> Entries \cup {NoEntry}]
    /\ state \in [Entries -> {"Pending", "Done", "Failed"}]
    /\ retainedBytes \in Nat
    /\ worker \in [Workers -> [pc : Places, key : Keys \cup {NoKey},
                               entry : Entries \cup {NoEntry}]]

Holds(w, e) ==
    worker[w].entry = e /\ worker[w].pc \in {"owner", "publishing", "failing"}

\* An entry that somebody can still wait for has a thread that will settle
\* it: no Clear, failure or eviction over the cap strands a waiter.
PendingEntriesHaveAnOwner ==
    \A e \in Entries :
        (/\ state[e] = "Pending"
         /\ ~Unreferenced(e)) => \E w \in Workers : Holds(w, e)

\* A task that asks for a key again after its owner failed never meets the
\* failed entry: the claim is free before the first waiter can wake.
FailedEntriesAreUnlisted ==
    \A k \in Keys, e \in Entries : Registered(k, e) => state[e] # "Failed"

\* The blob a key lists is that key's blob, charged in full until Clear.
Charged(k) ==
    /\ map[k] # NoEntry
    /\ \/ state[map[k]] = "Done"
       \/ \E w \in Workers : worker[w].entry = map[k] /\ worker[w].pc = "publishing"

\* The bytes the map keeps alive, each known by its blob's key and its place.
BytesKept == UNION {{k} \X (1 .. SizeOf[k]) : k \in {j \in Keys : Charged(j)}}

\* retainedBytes is exactly the size of the blobs the map keeps alive, and
\* never above the cap: the unsigned maxRetainedBytes - retainedBytes of the
\* next charge cannot wrap, whatever is published late after a Clear.
RetentionIsExact ==
    /\ retainedBytes <= MaxRetainedBytes
    /\ retainedBytes = Cardinality(BytesKept)

\* A task that waits for an entry stops waiting, with the blob or to try for
\* the ticket itself.
EveryWaitEnds ==
    \A w \in Workers : worker[w].pc = "waiting" ~> worker[w].pc # "waiting"
=============================================================================
