----------------------------- MODULE ThreadPool -----------------------------
(***************************************************************************)
(* ThreadPool (core/src/util/thread_pool.hpp and .cpp): client threads     *)
(* that submit, workers that wait on the condition variable, and the owner *)
(* that stops and destroys the pool.                                       *)
(*                                                                         *)
(* A critical section of mutex_ is one step; what a thread does after it   *)
(* has unlocked (a notification, the task itself) is a step of its own. A  *)
(* worker is about to lock ("lock"), in the wait set of cv_ ("asleep"),    *)
(* back from worker_loop ("exited"), or running a task.                    *)
(***************************************************************************)
EXTENDS Queues, FiniteSets

CONSTANTS
    Workers,   \* workers_
    Clients,   \* threads that call submit
    Tasks      \* the tasks they submit, each once

WorkerStates == {"lock", "asleep", "exited"}

ASSUME WorkersAssumption == IsFiniteSet(Workers) /\ Workers # {}
ASSUME ClientsAssumption == IsFiniteSet(Clients)
ASSUME TasksAssumption == Tasks \cap WorkerStates = {} /\ "none" \notin Tasks

VARIABLES
    tasks,     \* tasks_
    stopped,   \* stopped_
    worker,    \* where each worker is
    client,    \* where each client is: outside submit, or about to notify
    future,    \* the future of each task, "refused" when submit threw
    owner      \* the owner: up, inside stop, past it, in the destructor, past it

vars == <<tasks, stopped, worker, client, future, owner>>

TypeOK ==
    /\ tasks \in Seq(Tasks)
    /\ stopped \in BOOLEAN
    /\ worker \in [Workers -> WorkerStates \cup Tasks]
    /\ client \in [Clients -> {"idle", "notify"}]
    /\ future \in [Tasks -> {"none", "pending", "ready", "refused"}]
    /\ owner \in {"up", "stopping", "down", "destroying", "joining", "gone"}

Init ==
    /\ tasks = <<>>
    /\ stopped = FALSE
    /\ worker = [w \in Workers |-> "lock"]
    /\ client = [c \in Clients |-> "idle"]
    /\ future = [t \in Tasks |-> "none"]
    /\ owner = "up"

At(w, state) == worker[w] = state
Asleep == {w \in Workers : At(w, "asleep")}
Go(w, state) == worker' = [worker EXCEPT ![w] = state]

-----------------------------------------------------------------------------
(* submit, by client c. Nobody may call it once the destructor has begun.  *)

Calls(c, t) ==
    /\ client[c] = "idle"
    /\ future[t] = "none"
    /\ owner \in {"up", "stopping", "down"}

(* Mutant of Push: a notification only for the first task of an empty queue. *)
PushNotifiesIfEmpty(c, t) ==
    /\ Calls(c, t)
    /\ ~stopped
    /\ tasks' = Append(tasks, t)
    /\ future' = [future EXCEPT ![t] = "pending"]
    /\ client' = [client EXCEPT ![c] = IF tasks = <<>> THEN "notify" ELSE "idle"]
    /\ UNCHANGED <<stopped, worker, owner>>

Push(c, t) ==
    /\ Calls(c, t)
    /\ ~stopped
    /\ tasks' = Append(tasks, t)
    /\ future' = [future EXCEPT ![t] = "pending"]
    /\ client' = [client EXCEPT ![c] = "notify"]
    /\ UNCHANGED <<stopped, worker, owner>>

(* submit throws. *)
Refuse(c, t) ==
    /\ Calls(c, t)
    /\ stopped
    /\ future' = [future EXCEPT ![t] = "refused"]
    /\ UNCHANGED <<tasks, stopped, worker, client, owner>>

(* notify_one: any one of the sleeping workers, if there is one. *)
NotifyOne ==
    \/ \E w \in Asleep : Go(w, "lock")
    \/ Asleep = {} /\ UNCHANGED worker

NotifyAll == worker' = [w \in Workers |-> IF At(w, "asleep") THEN "lock" ELSE worker[w]]

Notify(c) ==
    /\ client[c] = "notify"
    /\ NotifyOne
    /\ client' = [client EXCEPT ![c] = "idle"]
    /\ UNCHANGED <<tasks, stopped, future, owner>>

-----------------------------------------------------------------------------
(* worker_loop, on worker w.                                               *)

(* Mutant of Take: the newest task first. *)
TakeNewest(w) ==
    /\ At(w, "lock")
    /\ tasks # <<>>
    /\ Go(w, tasks[Len(tasks)])
    /\ tasks' = SubSeq(tasks, 1, Len(tasks) - 1)
    /\ UNCHANGED <<stopped, client, future, owner>>

Take(w) ==
    /\ At(w, "lock")
    /\ tasks # <<>>
    /\ Go(w, Head(tasks))
    /\ tasks' = Tail(tasks)
    /\ UNCHANGED <<stopped, client, future, owner>>

(* Mutant of Exit: a stopped pool drops what is queued. *)
ExitUndrained(w) ==
    /\ At(w, "lock")
    /\ stopped
    /\ Go(w, "exited")
    /\ UNCHANGED <<tasks, stopped, client, future, owner>>

Exit(w) ==
    /\ At(w, "lock")
    /\ stopped
    /\ tasks = <<>>
    /\ Go(w, "exited")
    /\ UNCHANGED <<tasks, stopped, client, future, owner>>

(* Mutant of Sleep: the predicate does not look at stopped_. *)
SleepThoughStopped(w) ==
    /\ At(w, "lock")
    /\ tasks = <<>>
    /\ Go(w, "asleep")
    /\ UNCHANGED <<tasks, stopped, client, future, owner>>

(* cv_.wait gives the mutex up and joins the wait set in one step. *)
Sleep(w) ==
    /\ At(w, "lock")
    /\ tasks = <<>>
    /\ ~stopped
    /\ Go(w, "asleep")
    /\ UNCHANGED <<tasks, stopped, client, future, owner>>

(* A condition variable may wake for no reason. *)
WakeSpuriously(w) ==
    /\ At(w, "asleep")
    /\ Go(w, "lock")
    /\ UNCHANGED <<tasks, stopped, client, future, owner>>

(* Mutant of Finish: an exception of the task ends the thread. *)
FinishUncaught(w) ==
    /\ worker[w] \in Tasks
    /\ future' = [future EXCEPT ![worker[w]] = "ready"]
    /\ worker' = [worker EXCEPT ![w] = "terminated"]
    /\ UNCHANGED <<tasks, stopped, client, owner>>

(* The packaged task is over and its future has the result or exception.   *)
Finish(w) ==
    /\ worker[w] \in Tasks
    /\ future' = [future EXCEPT ![worker[w]] = "ready"]
    /\ Go(w, "lock")
    /\ UNCHANGED <<tasks, stopped, client, owner>>

Loop(w) == Take(w) \/ Exit(w) \/ Sleep(w) \/ Finish(w)

-----------------------------------------------------------------------------
(* stop and the destructor. *)

Stop ==
    /\ owner = "up"
    /\ stopped' = TRUE
    /\ owner' = "stopping"
    /\ UNCHANGED <<tasks, worker, client, future>>

(* The destructor calls stop, whether or not it was called before. *)
Destroy ==
    /\ owner \in {"up", "down"}
    /\ \A c \in Clients : client[c] = "idle"
    /\ stopped' = TRUE
    /\ owner' = "destroying"
    /\ UNCHANGED <<tasks, worker, client, future>>

Notifying == owner \in {"stopping", "destroying"}

NotifyStop ==
    /\ Notifying
    /\ NotifyAll
    /\ owner' = IF owner = "stopping" THEN "down" ELSE "joining"
    /\ UNCHANGED <<tasks, stopped, client, future>>

(* Every worker has been joined. *)
Join ==
    /\ owner = "joining"
    /\ \A w \in Workers : At(w, "exited")
    /\ owner' = "gone"
    /\ UNCHANGED <<tasks, stopped, worker, client, future>>

Done == owner = "gone" /\ UNCHANGED vars

Next ==
    \/ \E c \in Clients : Notify(c) \/ \E t \in Tasks : Push(c, t) \/ Refuse(c, t)
    \/ \E w \in Workers : Loop(w) \/ WakeSpuriously(w)
    \/ Stop \/ Destroy \/ NotifyStop \/ Join
    \/ Done

(* Threads are scheduled, and the mutex is handed to all who wait for it.  *)
(* Nobody has to submit, stop or destroy, and no wakeup is owed.           *)
Fairness ==
    /\ \A w \in Workers : WF_vars(Loop(w))
    /\ \A c \in Clients : WF_vars(Notify(c))
    /\ WF_vars(NotifyStop) /\ WF_vars(Join)

Spec == Init /\ [][Next]_vars /\ Fairness

-----------------------------------------------------------------------------
(* Properties.                                                             *)

(* No wakeup is lost: as long as a worker sleeps, every queued task has a  *)
(* worker on its way to the queue or a notification yet to be sent. Tasks  *)
(* therefore wait only when every thread is busy.                          *)
OnTheirWay == {w \in Workers : At(w, "lock")}
Unsent == {c \in Clients : client[c] = "notify"}
NoLostWakeup == Asleep # {} => Len(tasks) <= Cardinality(OnTheirWay) + Cardinality(Unsent)

(* Once stop has notified, no worker sleeps again: each sees stopped_.     *)
NoneLeftAsleep == stopped /\ ~Notifying => Asleep = {}

(* The destructor drains: when it is over, every accepted task has run and *)
(* no future is left pending (thread_pool.cpp:34 "stopped and drained").   *)
DrainedWhenGone == owner = "gone" => tasks = <<>> /\ \A t \in Tasks : future[t] # "pending"

(* The destructor returns. *)
DestroyReturns == owner = "destroying" ~> owner = "gone"

(* The pool its users count on: first in, first out, each task once, none  *)
(* after stop, and every accepted task ends.                               *)
Idle == "none"
TP == INSTANCE TaskPool WITH
          Threads <- Workers,
          NoTask  <- Idle,
          queue   <- tasks,
          running <- [w \in Workers |-> IF worker[w] \in Tasks THEN worker[w] ELSE Idle],
          ended   <- {t \in Tasks : future[t] = "ready"},
          open    <- ~stopped
ImplementsTaskPool == TP!Spec
TakesTaskPoolSteps == TP!Init /\ [][TP!Next]_TP!vars
=============================================================================
