---------------------------- MODULE BoundedQueue ----------------------------
(***************************************************************************)
(* BoundedQueue (core/src/util/bounded_queue.hpp): producers that push,    *)
(* consumers that pop or try to, two condition variables, and an owner     *)
(* that closes the queue at any moment.                                    *)
(*                                                                         *)
(* As in ThreadPool, a critical section of mutex_ is one step and the      *)
(* notification after it another. A thread is outside ("out"), about to    *)
(* lock ("lock"), in a wait set ("asleep"), or about to notify ("notify"). *)
(***************************************************************************)
EXTENDS Naturals, Sequences, FiniteSets

CONSTANTS
    Producers, Consumers,
    Capacity,    \* capacity_; with 0 every push would wait for close
    MaxCalls     \* bound on the calls of each thread

ASSUME QueueAssumption ==
    /\ IsFiniteSet(Producers) /\ IsFiniteSet(Consumers) /\ Producers \cap Consumers = {}
    /\ Capacity \in Nat \ {0} /\ MaxCalls \in Nat

VARIABLES
    items,      \* items_
    closed,     \* closed_
    closing,    \* close: not called, not_empty_ to be notified, not_full_, over
    thread,     \* where each producer and consumer is
    calls,      \* how often each has called
    accepted, taken   \* what was pushed and popped, in order

queueVars == <<items, closed, closing, thread, calls, accepted, taken>>

Threads == Producers \cup Consumers

QueueInit ==
    /\ items = <<>> /\ closed = FALSE /\ closing = "no"
    /\ thread = [t \in Threads |-> "out"]
    /\ calls = [t \in Threads |-> 0]
    /\ accepted = <<>> /\ taken = <<>>

Moves(t, state) == thread' = [thread EXCEPT ![t] = state]
Sleepers(S) == {t \in S : thread[t] = "asleep"}

EnterCall(t) ==
    /\ thread[t] = "out" /\ calls[t] < MaxCalls
    /\ calls' = [calls EXCEPT ![t] = @ + 1]
    /\ Moves(t, "lock")
    /\ UNCHANGED <<items, closed, closing, accepted, taken>>

(* A predicate of a wait that does not hold. *)
WaitNotFull(p) == thread[p] = "lock" /\ ~closed /\ Len(items) >= Capacity
WaitNotEmpty(c) == thread[c] = "lock" /\ ~closed /\ items = <<>>
FallAsleep(t) == Moves(t, "asleep") /\ UNCHANGED <<items, closed, closing, calls, accepted, taken>>

(* A wait that is over: push on a closed queue, pop on one that is drained. *)
Refused(t) ==
    /\ thread[t] = "lock" /\ closed
    /\ t \in Producers \/ items = <<>>
    /\ Moves(t, "out")
    /\ UNCHANGED <<items, closed, closing, calls, accepted, taken>>

(* Mutant of PushItem: consumers are told of the first item alone. *)
PushItemNotifiesIfEmpty(p) ==
    /\ thread[p] = "lock" /\ ~closed
    /\ Len(items) < Capacity
    /\ items' = Append(items, <<p, calls[p]>>)
    /\ accepted' = Append(accepted, <<p, calls[p]>>)
    /\ Moves(p, IF items = <<>> THEN "notify" ELSE "out")
    /\ UNCHANGED <<closed, closing, calls, taken>>

PushItem(p) ==
    /\ thread[p] = "lock" /\ ~closed
    /\ Len(items) < Capacity
    /\ items' = Append(items, <<p, calls[p]>>)
    /\ accepted' = Append(accepted, <<p, calls[p]>>)
    /\ Moves(p, "notify")
    /\ UNCHANGED <<closed, closing, calls, taken>>

TakeItem(c) ==
    /\ items # <<>>
    /\ items' = Tail(items)
    /\ taken' = Append(taken, Head(items))
    /\ Moves(c, "notify")
    /\ UNCHANGED <<closed, closing, accepted>>

PopItem(c) == thread[c] = "lock" /\ TakeItem(c) /\ UNCHANGED calls

(* try_pop; without an item it changes nothing. *)
TryPop(c) ==
    /\ thread[c] = "out" /\ calls[c] < MaxCalls
    /\ calls' = [calls EXCEPT ![c] = @ + 1]
    /\ TakeItem(c)

(* notify_one on the condition the other side waits for. *)
NotifyOther(t) ==
    LET waiting == Sleepers(IF t \in Producers THEN Consumers ELSE Producers) IN
    /\ thread[t] = "notify"
    /\ \/ \E s \in waiting : thread' = [thread EXCEPT ![t] = "out", ![s] = "lock"]
       \/ waiting = {} /\ Moves(t, "out")
    /\ UNCHANGED <<items, closed, closing, calls, accepted, taken>>

QueueSpurious(t) ==
    /\ thread[t] = "asleep"
    /\ Moves(t, "lock")
    /\ UNCHANGED <<items, closed, closing, calls, accepted, taken>>

CloseQueue ==
    /\ closing = "no"
    /\ closed' = TRUE
    /\ closing' = "not_empty"
    /\ UNCHANGED <<items, thread, calls, accepted, taken>>

(* notify_all, on the one condition and then on the other. *)
CloseNotifies ==
    /\ closing \in {"not_empty", "not_full"}
    /\ LET side == IF closing = "not_empty" THEN Consumers ELSE Producers
       IN  thread' = [t \in Threads |-> IF t \in Sleepers(side) THEN "lock" ELSE thread[t]]
    /\ closing' = IF closing = "not_empty" THEN "not_full" ELSE "over"
    /\ UNCHANGED <<items, closed, calls, accepted, taken>>

GoesOn(t) ==
    \/ t \in Producers /\ ((WaitNotFull(t) /\ FallAsleep(t)) \/ PushItem(t))
    \/ t \in Consumers /\ ((WaitNotEmpty(t) /\ FallAsleep(t)) \/ PopItem(t))
    \/ Refused(t)
    \/ NotifyOther(t)

QueueNext ==
    \/ \E t \in Threads : EnterCall(t) \/ GoesOn(t) \/ QueueSpurious(t)
    \/ \E c \in Consumers : TryPop(c)
    \/ CloseQueue \/ CloseNotifies

-----------------------------------------------------------------------------
(* Properties.                                                             *)

OnTheWay(S) == Cardinality({t \in S : thread[t] = "lock"})
ToSend(S) == Cardinality({t \in S : thread[t] = "notify"})

(* Never more than the capacity, first in first out and nothing lost, and  *)
(* no wakeup lost in either direction (bounded_queue.hpp:15 "Producers     *)
(* block on push() when the queue is full; consumers block on pop() when   *)
(* it's empty"): while a consumer sleeps every item, and while a producer  *)
(* sleeps every free place, has a thread on its way or a notification yet  *)
(* to be sent. Those of close reach everybody.                             *)
QueueSound ==
    /\ Len(items) <= Capacity
    /\ accepted = taken \o items
    /\ ~closed /\ Sleepers(Consumers) # {} => Len(items) <= OnTheWay(Consumers) + ToSend(Producers)
    /\ ~closed /\ Sleepers(Producers) # {} =>
          Capacity - Len(items) <= OnTheWay(Producers) + ToSend(Consumers)
    /\ closing = "over" => Sleepers(Threads) = {}

(* After close every call returns, those that slept in it and those that   *)
(* come later, and what was accepted can still be taken.                   *)
QueueCallsReturn == \A t \in Threads : closed /\ thread[t] # "out" ~> thread[t] = "out"
=============================================================================
