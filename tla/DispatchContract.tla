-------------------------- MODULE DispatchContract --------------------------
(***************************************************************************)
(* What a caller of the main-thread dispatcher may rely on, whatever the   *)
(* race between the deadline, a failing submission and the game-task       *)
(* queue: a call is decided once, either admitted or refused; an admitted  *)
(* handler runs exactly once and its own result is the reply; a refused    *)
(* handler never runs, before or after the refusal is reported.            *)
(***************************************************************************)
EXTENDS Naturals

CONSTANTS Calls,     \* the calls made to the dispatcher
          Results,   \* what a handler ends with (a value or an exception)
          None

VARIABLES verdict,     \* verdict[c]: is the call open, admitted or refused
          executions,  \* executions[c]: how often its handler started
          produced,    \* produced[c]: what the handler ended with
          reply        \* reply[c]: what the caller was told

avars == <<verdict, executions, produced, reply>>

AInit ==
    /\ verdict = [c \in Calls |-> "open"]
    /\ executions = [c \in Calls |-> 0]
    /\ produced = [c \in Calls |-> None]
    /\ reply = [c \in Calls |-> None]

AAdmit(c) ==
    /\ verdict[c] = "open"
    /\ verdict' = [verdict EXCEPT ![c] = "admitted"]
    /\ UNCHANGED <<executions, produced, reply>>

AStart(c) ==
    /\ verdict[c] = "admitted" /\ executions[c] = 0
    /\ executions' = [executions EXCEPT ![c] = 1]
    /\ UNCHANGED <<verdict, produced, reply>>

\* A handler that ran in place has its reply at once.
AFinish(c, r) ==
    /\ executions[c] = 1 /\ produced[c] = None
    /\ produced' = [produced EXCEPT ![c] = r]
    /\ reply' \in {reply, [reply EXCEPT ![c] = r]}
    /\ UNCHANGED <<verdict, executions>>

ARefuse(c) ==
    /\ verdict[c] = "open"
    /\ verdict' = [verdict EXCEPT ![c] = "refused"]
    /\ reply' = [reply EXCEPT ![c] = "refused"]
    /\ UNCHANGED <<executions, produced>>

AReply(c) ==
    /\ produced[c] # None /\ reply[c] = None
    /\ reply' = [reply EXCEPT ![c] = produced[c]]
    /\ UNCHANGED <<verdict, executions, produced>>

ANext == \E c \in Calls :
    \/ AAdmit(c)
    \/ AStart(c)
    \/ \E r \in Results : AFinish(c, r)
    \/ ARefuse(c)
    \/ AReply(c)

ASpec == AInit /\ [][ANext]_avars
=============================================================================
