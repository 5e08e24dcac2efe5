-------------------------------- MODULE Util --------------------------------
(***************************************************************************)
(* The units of core/src/util that threads share, one at a time: a pool of *)
(* threads or a bounded queue.                                             *)
(***************************************************************************)
EXTENDS ThreadPool, BoundedQueue

VARIABLE unit    \* pool or queue

utilVars == <<unit, vars, queueVars>>

UtilInit == unit \in {"pool", "queue"} /\ Init /\ QueueInit

InPool(A) == unit = "pool" /\ A /\ UNCHANGED <<unit, queueVars>>
InQueue(A) == unit = "queue" /\ A /\ UNCHANGED <<unit, vars>>

UtilNext ==
    \/ unit = "pool" /\ Next /\ UNCHANGED <<unit, queueVars>>
    \/ unit = "queue" /\ QueueNext /\ UNCHANGED <<unit, vars>>
    \/ unit = "queue" /\ closing = "over" /\ UNCHANGED utilVars

(* The fairness of ThreadPool, and that of the queue's threads: each goes  *)
(* on inside its call, and close sends its notifications.                  *)
UtilSpec ==
    /\ UtilInit /\ [][UtilNext]_utilVars
    /\ \A w \in Workers : WF_utilVars(InPool(Loop(w)))
    /\ \A c \in Clients : WF_utilVars(InPool(Notify(c)))
    /\ WF_utilVars(InPool(NotifyStop)) /\ WF_utilVars(InPool(Join))
    /\ \A t \in Threads : WF_utilVars(InQueue(GoesOn(t)))
    /\ WF_utilVars(InQueue(CloseNotifies))

(* The destructor of a pool returns (ThreadPool), and so does every call   *)
(* on a closed queue (BoundedQueue).                                       *)
UtilCallsReturn == DestroyReturns /\ QueueCallsReturn
=============================================================================
