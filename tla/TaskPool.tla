------------------------------ MODULE TaskPool ------------------------------
(***************************************************************************)
(* What users of a thread pool count on, without mutexes and wakeups: an   *)
(* accepted task is begun by some idle thread, in the order of acceptance, *)
(* and ends once; after the pool closes no task is accepted, but all that  *)
(* were end. Pipeline.tla takes its two pools to be like this one, and     *)
(* ThreadPool.tla implements it.                                           *)
(***************************************************************************)
EXTENDS Queues

CONSTANTS
    Tasks,     \* the tasks that may be submitted, each at most once
    Threads,   \* the threads of the pool
    NoTask     \* what an idle thread runs

VARIABLES
    queue,     \* accepted tasks that have not begun
    running,   \* running[w]: the task on thread w
    ended,     \* tasks that have ended
    open       \* the pool accepts tasks

vars == <<queue, running, ended, open>>

Init ==
    /\ queue = <<>>
    /\ running = [w \in Threads |-> NoTask]
    /\ ended = {}
    /\ open = TRUE

Accept(t) ==
    /\ open
    /\ t \notin ended
    /\ ~Queued(t, queue)
    /\ \A w \in Threads : running[w] # t
    /\ queue' = Append(queue, t)
    /\ UNCHANGED <<running, ended, open>>

Begin(w) ==
    /\ running[w] = NoTask
    /\ queue # <<>>
    /\ running' = [running EXCEPT ![w] = Head(queue)]
    /\ queue' = Tail(queue)
    /\ UNCHANGED <<ended, open>>

End(w) ==
    /\ running[w] # NoTask
    /\ ended' = ended \cup {running[w]}
    /\ running' = [running EXCEPT ![w] = NoTask]
    /\ UNCHANGED <<queue, open>>

Close ==
    /\ open
    /\ open' = FALSE
    /\ UNCHANGED <<queue, running, ended>>

Next ==
    \/ \E t \in Tasks : Accept(t)
    \/ \E w \in Threads : Begin(w) \/ End(w)
    \/ Close

(* Every thread goes on as long as there is something for it to do. *)
Spec == Init /\ [][Next]_vars /\ \A w \in Threads : WF_vars(Begin(w) \/ End(w))
=============================================================================
