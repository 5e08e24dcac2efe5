----------------------------- MODULE UtilProofs -----------------------------
(***************************************************************************)
(* Theorems about the units of core/src/util: ThreadPool.tla, for every    *)
(* number of workers, clients and tasks, and BoundedQueue.tla, for every   *)
(* number of producers, consumers and calls and every capacity.            *)
(***************************************************************************)
EXTENDS Util, DataLemmas, FiniteSetTheorems

(* stopped_ is set as soon as the owner stops or destroys the pool, and    *)
(* workers leave only a stopped and empty pool.                            *)
Leaving ==
    /\ stopped <=> owner # "up"
    /\ \A w \in Workers : At(w, "exited") => stopped /\ tasks = <<>>
    /\ owner = "gone" => \A w \in Workers : At(w, "exited")

(* A pending task is queued or on one worker, in one place only.           *)
Owned ==
    /\ Distinct(tasks)
    /\ \A v, w \in Workers : worker[v] = worker[w] /\ worker[v] \in Tasks => v = w
    /\ \A w \in Workers : ~Queued(worker[w], tasks)
    /\ \A t \in Tasks :
          future[t] = "pending" <=> Queued(t, tasks) \/ \E w \in Workers : worker[w] = t

Inv == TypeOK /\ NoneLeftAsleep /\ Leaving /\ Owned

-----------------------------------------------------------------------------
(* What a step of the loop of w leaves alone. *)
LEMMA StateNames ==
    /\ \A t \in Tasks : t \notin {"lock", "asleep", "exited", "none"}
    /\ Workers # {}
BY TasksAssumption, WorkersAssumption DEF WorkerStates

LEMMA InitInv == Init => Inv
<1> SUFFICES ASSUME Init PROVE Inv
  OBVIOUS
<1> USE DEF Init
<1>1. TypeOK
  BY EmptySeq DEF TypeOK, WorkerStates
<1>2. NoneLeftAsleep /\ Leaving
  BY DEF NoneLeftAsleep, Leaving, At
<1>3. Owned
  BY StateNames, EmptySeq DEF Owned, Distinct, Queued
<1> QED
  BY <1>1, <1>2, <1>3 DEF Inv

LEMMA StepInv == Inv /\ [Next]_vars => Inv'
<1> SUFFICES ASSUME Inv, [Next]_vars PROVE Inv'
  OBVIOUS
<1> USE StateNames DEF Inv, TypeOK, WorkerStates
<1>1. ASSUME NEW c \in Clients, NEW t \in Tasks, Push(c, t) PROVE Inv'
  <2>1. TypeOK'
    BY <1>1, AppendProperties DEF Push
  <2>2. NoneLeftAsleep' /\ Leaving'
    BY <1>1 DEF Push, Calls, NoneLeftAsleep, Notifying, Asleep, At, Leaving
  <2>3. Owned'
    <3>1. ~Queued(t, tasks) /\ \A w \in Workers : worker[w] # t
      BY <1>1 DEF Push, Calls, Owned
    <3>2. /\ \A x : Queued(x, tasks') <=> Queued(x, tasks) \/ x = t
          /\ Distinct(tasks')
      BY <1>1, <3>1, QueuedAppend DEF Push, Owned
    <3> QED
      BY <1>1, <3>1, <3>2 DEF Push, Owned
  <2> QED
    BY <2>1, <2>2, <2>3
<1>2. ASSUME NEW c \in Clients, NEW t \in Tasks, Refuse(c, t) PROVE Inv'
  <2>1. TypeOK' /\ NoneLeftAsleep' /\ Leaving'
    BY <1>2 DEF Refuse, NoneLeftAsleep, Notifying, Asleep, At, Leaving
  <2>2. Owned'
    BY <1>2 DEF Refuse, Calls, Owned
  <2> QED
    BY <2>1, <2>2
<1>3. ASSUME NEW w \in Workers, NEW s \in {"lock", "asleep"}, Go(w, s),
             worker[w] \in {"lock", "asleep"}, s = "asleep" => ~stopped,
             UNCHANGED <<tasks, stopped, future, owner>>, client' \in [Clients -> {"idle", "notify"}]
      PROVE  Inv'
  <2>1. TypeOK' /\ NoneLeftAsleep' /\ Leaving'
    BY <1>3 DEF Go, NoneLeftAsleep, Notifying, Asleep, At, Leaving
  <2>2. \A x \in {"lock", "asleep"} : ~Queued(x, tasks)
    BY DEF Queued
  <2>3. Owned'
    BY <1>3, <2>2 DEF Go, Owned
  <2> QED
    BY <2>1, <2>3
<1>4. ASSUME NEW c \in Clients, Notify(c) PROVE Inv'
  <2>1. client' \in [Clients -> {"idle", "notify"}]
    BY <1>4 DEF Notify
  <2>2. CASE \E w \in Asleep : Go(w, "lock")
    BY <1>3, <1>4, <2>1, <2>2 DEF Notify, Asleep, At
  <2>3. CASE UNCHANGED worker
    BY <1>4, <2>1, <2>3 DEF Notify, NoneLeftAsleep, Notifying, Asleep, At, Leaving, Owned
  <2> QED
    BY <1>4, <2>2, <2>3 DEF Notify, NotifyOne
<1>5. ASSUME NEW w \in Workers, Take(w) PROVE Inv'
  <2>0. /\ Head(tasks) \in Tasks /\ Tail(tasks) \in Seq(Tasks)
        /\ Queued(Head(tasks), tasks) /\ Distinct(tasks)
        /\ \A x : Queued(x, tasks) <=> x = Head(tasks) \/ Queued(x, Tail(tasks))
        /\ Distinct(Tail(tasks)) /\ ~Queued(Head(tasks), Tail(tasks))
    BY <1>5, QueuedTail, HeadTailProperties DEF Take, Owned
  <2>1. TypeOK'
    BY <1>5, <2>0 DEF Take, Go
  <2>2. NoneLeftAsleep'
    BY <1>5, <2>0 DEF Take, Go, NoneLeftAsleep, Notifying, Asleep, At
  <2>3. Leaving'
    BY <1>5, <2>0 DEF Take, Go, At, Leaving
  <2>4. Owned'
    BY <1>5, <2>0 DEF Take, Go, At, Owned
  <2> QED
    BY <2>1, <2>2, <2>3, <2>4
<1>6. ASSUME NEW w \in Workers, Exit(w) PROVE Inv'
  <2>1. TypeOK' /\ NoneLeftAsleep' /\ Leaving'
    BY <1>6 DEF Exit, Go, NoneLeftAsleep, Notifying, Asleep, At, Leaving
  <2>2. ~Queued("exited", tasks)
    BY DEF Queued
  <2>3. Owned'
    BY <1>6, <2>2 DEF Exit, Go, At, Owned
  <2> QED
    BY <2>1, <2>3
<1>7. ASSUME NEW w \in Workers, Sleep(w) PROVE Inv'
  BY <1>3, <1>7 DEF Sleep, At
<1>8. ASSUME NEW w \in Workers, WakeSpuriously(w) PROVE Inv'
  BY <1>3, <1>8 DEF WakeSpuriously, At
<1>9. ASSUME NEW w \in Workers, Finish(w) PROVE Inv'
  <2>1. TypeOK' /\ NoneLeftAsleep' /\ Leaving'
    BY <1>9 DEF Finish, Go, NoneLeftAsleep, Notifying, Asleep, At, Leaving
  <2>2. ~Queued("lock", tasks)
    BY DEF Queued
  <2>3. Owned'
    BY <1>9, <2>2 DEF Finish, Go, Owned
  <2> QED
    BY <2>1, <2>3
<1>10. CASE Stop \/ Destroy
  <2>1. /\ UNCHANGED <<tasks, worker, client, future>> /\ stopped' = TRUE
        /\ owner # "gone" /\ owner' \in {"stopping", "destroying"}
    BY <1>10 DEF Stop, Destroy
  <2>2. TypeOK' /\ NoneLeftAsleep'
    BY <2>1 DEF NoneLeftAsleep, Notifying
  <2>3. Leaving'
    BY <2>1 DEF At, Leaving
  <2>4. Owned'
    BY <2>1 DEF Owned
  <2> QED
    BY <2>2, <2>3, <2>4
<1>11. CASE NotifyStop
  <2>1. TypeOK' /\ NoneLeftAsleep' /\ Leaving'
    BY <1>11 DEF NotifyStop, NotifyAll, Notifying, NoneLeftAsleep, Asleep, At, Leaving
  <2>2. ~Queued("lock", tasks)
    BY DEF Queued
  <2>3. Owned'
    BY <1>11, <2>2 DEF NotifyStop, NotifyAll, At, Owned
  <2> QED
    BY <2>1, <2>3
<1>12. CASE Join
  BY <1>12 DEF Join, NoneLeftAsleep, Notifying, Asleep, At, Leaving, Owned
<1>13. CASE UNCHANGED vars
  BY <1>13 DEF vars, NoneLeftAsleep, Notifying, Asleep, At, Leaving, Owned
<1> QED
  BY <1>1, <1>2, <1>4, <1>5, <1>6, <1>7, <1>8, <1>9, <1>10, <1>11, <1>12, <1>13 DEF Next, Loop, Done

-----------------------------------------------------------------------------
(* Lost wakeups.                                                           *)

LEMMA Finite ==
    /\ IsFiniteSet(OnTheirWay) /\ IsFiniteSet(Unsent)
    /\ Cardinality(OnTheirWay) \in Nat /\ Cardinality(Unsent) \in Nat
<1>1. IsFiniteSet(OnTheirWay) /\ IsFiniteSet(Unsent)
  BY FS_Subset, WorkersAssumption, ClientsAssumption DEF OnTheirWay, Unsent
<1> QED
  BY <1>1, FS_CardinalityType

LEMMA InitWakeup == Init => NoLostWakeup
BY StateNames DEF Init, NoLostWakeup, Asleep, At

(* Worker w comes to the queue. *)
LEMMA OneMore ==
    ASSUME Inv, NEW w \in Workers, ~At(w, "lock"), Go(w, "lock")
    PROVE  Cardinality(OnTheirWay') = Cardinality(OnTheirWay) + 1
<1>1. OnTheirWay' = OnTheirWay \cup {w} /\ w \notin OnTheirWay
  BY DEF OnTheirWay, Go, At, Inv, TypeOK
<1> QED
  BY <1>1, Finite, FS_AddElement

(* Worker w leaves the queue. *)
LEMMA OneLess ==
    ASSUME Inv, NEW w \in Workers, At(w, "lock"), NEW s, s # "lock", Go(w, s)
    PROVE  Cardinality(OnTheirWay') = Cardinality(OnTheirWay) - 1
<1>1. OnTheirWay' = OnTheirWay \ {w} /\ w \in OnTheirWay
  BY DEF OnTheirWay, Go, At, Inv, TypeOK
<1> QED
  BY <1>1, Finite, FS_RemoveElement

LEMMA StepWakeup == Inv /\ NoLostWakeup /\ [Next]_vars => NoLostWakeup'
<1> SUFFICES ASSUME Inv, NoLostWakeup, [Next]_vars PROVE NoLostWakeup'
  OBVIOUS
<1>0. /\ tasks \in Seq(Tasks) /\ Len(tasks) \in Nat
      /\ worker \in [Workers -> WorkerStates \cup Tasks]
      /\ client \in [Clients -> {"idle", "notify"}]
  BY LenProperties DEF Inv, TypeOK
<1>1. ASSUME NEW c \in Clients, NEW t \in Tasks, Push(c, t) PROVE NoLostWakeup'
  <2>1. Unsent' = Unsent \cup {c} /\ c \notin Unsent
    BY <1>0, <1>1 DEF Push, Calls, Unsent
  <2>2. Cardinality(Unsent') = Cardinality(Unsent) + 1
    BY <2>1, Finite, FS_AddElement
  <2>3. Len(tasks') = Len(tasks) + 1
    BY <1>0, <1>1, AppendProperties DEF Push
  <2>4. OnTheirWay' = OnTheirWay /\ Asleep' = Asleep
    BY <1>1 DEF Push, OnTheirWay, Asleep, At
  <2> QED
    BY <1>0, <2>2, <2>3, <2>4, Finite DEF NoLostWakeup
<1>2. ASSUME UNCHANGED <<tasks, worker, client>> PROVE NoLostWakeup'
  BY <1>2 DEF NoLostWakeup, OnTheirWay, Unsent, Asleep, At
<1>3. ASSUME NEW c \in Clients, Notify(c) PROVE NoLostWakeup'
  <2>1. Unsent' = Unsent \ {c} /\ c \in Unsent
    BY <1>0, <1>3 DEF Notify, Unsent
  <2>2. Cardinality(Unsent') = Cardinality(Unsent) - 1
    BY <2>1, Finite, FS_RemoveElement
  <2>3. CASE Asleep = {} /\ UNCHANGED worker
    BY <2>3 DEF NoLostWakeup, Asleep, At
  <2>4. ASSUME NEW w \in Asleep, Go(w, "lock") PROVE NoLostWakeup'
    <3>1. Cardinality(OnTheirWay') = Cardinality(OnTheirWay) + 1
      BY <2>4, OneMore DEF Asleep, At
    <3> QED
      BY <1>0, <1>3, <2>2, <2>4, <3>1, Finite DEF Notify, NoLostWakeup
  <2> QED
    BY <1>3, <2>3, <2>4 DEF Notify, NotifyOne
<1>4. ASSUME NEW w \in Workers, Take(w) PROVE NoLostWakeup'
  <2>1. /\ Head(tasks) \in Tasks /\ Len(tasks') = Len(tasks) - 1
        /\ Unsent' = Unsent
    BY <1>0, <1>4, HeadTailProperties DEF Take, Unsent
  <2>2. Cardinality(OnTheirWay') = Cardinality(OnTheirWay) - 1
    BY <1>4, <2>1, OneLess, StateNames DEF Take
  <2>3. Asleep' = Asleep
    BY <1>0, <1>4, <2>1, StateNames DEF Take, Go, Asleep, At
  <2> QED
    BY <1>0, <2>1, <2>2, <2>3, Finite DEF NoLostWakeup
<1>5. ASSUME NEW w \in Workers, Exit(w) \/ Sleep(w) PROVE NoLostWakeup'
  <2>1. tasks' = <<>> /\ Len(tasks') = 0
    BY <1>5, EmptySeq DEF Exit, Sleep
  <2>2. IsFiniteSet(OnTheirWay') /\ IsFiniteSet(Unsent')
    BY FS_Subset, WorkersAssumption, ClientsAssumption DEF OnTheirWay, Unsent
  <2> QED
    BY <2>1, <2>2, FS_CardinalityType DEF NoLostWakeup
<1>6. ASSUME NEW w \in Workers, WakeSpuriously(w) \/ Finish(w) PROVE NoLostWakeup'
  <2>1. Cardinality(OnTheirWay') = Cardinality(OnTheirWay) + 1
    BY <1>6, OneMore, StateNames DEF WakeSpuriously, Finish, At
  <2>2. Asleep' \subseteq Asleep /\ Unsent' = Unsent /\ tasks' = tasks
    BY <1>0, <1>6 DEF WakeSpuriously, Finish, Go, Asleep, Unsent, At
  <2> QED
    BY <1>0, <2>1, <2>2, Finite DEF NoLostWakeup
<1>7. CASE NotifyStop
  <2>1. Asleep' = {}
    BY <1>7 DEF NotifyStop, NotifyAll, Asleep, At
  <2> QED
    BY <2>1 DEF NoLostWakeup
<1> QED
  BY <1>1, <1>2, <1>3, <1>4, <1>5, <1>6, <1>7
     DEF Next, Loop, Refuse, Stop, Destroy, Join, Done, vars

-----------------------------------------------------------------------------
(* Refinement.                                                             *)

LEMMA InitRefines == Init => TP!Init
BY StateNames DEF Init, TP!Init, Idle

LEMMA StepRefines == Inv /\ [Next]_vars => [TP!Next]_TP!vars
<1> SUFFICES ASSUME Inv, [Next]_vars PROVE [TP!Next]_TP!vars
  OBVIOUS
<1> DEFINE running == [w \in Workers |-> IF worker[w] \in Tasks THEN worker[w] ELSE Idle]
           ended == {t \in Tasks : future[t] = "ready"}
<1>0. /\ tasks \in Seq(Tasks) /\ worker \in [Workers -> WorkerStates \cup Tasks]
      /\ future \in [Tasks -> {"none", "pending", "ready", "refused"}] /\ Owned
  BY DEF Inv, TypeOK
<1>1. ASSUME UNCHANGED <<tasks, stopped>>, running' = running, ended' = ended PROVE [TP!Next]_TP!vars
  BY <1>1 DEF TP!vars
<1>2. ASSUME NEW c \in Clients, NEW t \in Tasks, Push(c, t) PROVE TP!Next
  <2>1. ~Queued(t, tasks) /\ \A w \in Workers : worker[w] # t
    BY <1>0, <1>2 DEF Push, Calls, Owned
  <2>2. t # Idle /\ t \notin ended /\ ended' = ended
    BY <1>0, <1>2, StateNames DEF Push, Calls, Idle
  <2>3. ~stopped /\ tasks' = Append(tasks, t) /\ UNCHANGED <<running, stopped>>
    BY <1>2 DEF Push
  <2>4. ~TP!Queued(t, tasks)
    BY <2>1 DEF Queued, TP!Queued
  <2>5. \A w \in Workers : running[w] # t
    BY <2>1, <2>2
  <2>6. TP!Accept(t)
    BY <2>2, <2>3, <2>4, <2>5 DEF TP!Accept
  <2> QED
    BY <2>6 DEF TP!Next
<1>3. ASSUME NEW c \in Clients, NEW t \in Tasks, Refuse(c, t) PROVE [TP!Next]_TP!vars
  <2>1. ended' = ended
    BY <1>0, <1>3 DEF Refuse, Calls
  <2> QED
    BY <1>1, <1>3, <2>1 DEF Refuse
<1>4. ASSUME NEW w \in Workers, NEW s \in WorkerStates, worker[w] \in WorkerStates, Go(w, s),
             UNCHANGED <<tasks, stopped, future>>
      PROVE  [TP!Next]_TP!vars
  <2>1. running' = running
    BY <1>0, <1>4, StateNames DEF Go, WorkerStates
  <2> QED
    BY <1>1, <1>4, <2>1
<1>5. ASSUME NEW c \in Clients, Notify(c) PROVE [TP!Next]_TP!vars
  BY <1>1, <1>4, <1>5 DEF Notify, NotifyOne, Asleep, At, WorkerStates
<1>6. ASSUME NEW w \in Workers, Take(w) PROVE TP!Next
  <2>1. Head(tasks) \in Tasks
    BY <1>0, <1>6, HeadTailProperties DEF Take
  <2>2. running[w] = Idle /\ running' = [running EXCEPT ![w] = Head(tasks)]
    BY <1>0, <1>6, <2>1, StateNames DEF Take, Go, At
  <2>3. TP!Begin(w)
    BY <1>6, <2>2 DEF Take, TP!Begin
  <2> QED
    BY <2>3 DEF TP!Next
<1>7. ASSUME NEW w \in Workers, Exit(w) \/ Sleep(w) \/ WakeSpuriously(w) PROVE [TP!Next]_TP!vars
  BY <1>4, <1>7 DEF Exit, Sleep, WakeSpuriously, At, WorkerStates
<1>8. ASSUME NEW w \in Workers, Finish(w) PROVE TP!Next
  <2>1. worker[w] \in Tasks /\ running[w] = worker[w] /\ running[w] # Idle
    BY <1>8, StateNames DEF Finish, Idle
  <2>2. running' = [running EXCEPT ![w] = Idle]
    BY <1>0, <1>8, StateNames DEF Finish, Go
  <2>3. ended' = ended \cup {worker[w]}
    BY <1>0, <1>8 DEF Finish
  <2>4. TP!End(w)
    BY <1>8, <2>1, <2>2, <2>3 DEF Finish, TP!End
  <2> QED
    BY <2>4 DEF TP!Next
<1>9. CASE Stop \/ Destroy
  BY <1>1, <1>9 DEF Stop, Destroy, TP!Next, TP!Close
<1>10. CASE NotifyStop
  <2>1. running' = running
    BY <1>0, <1>10, StateNames DEF NotifyStop, NotifyAll, At
  <2> QED
    BY <1>1, <1>10, <2>1 DEF NotifyStop
<1>11. CASE Join \/ UNCHANGED vars
  BY <1>1, <1>11 DEF Join, vars
<1> QED
  BY <1>2, <1>3, <1>5, <1>6, <1>7, <1>8, <1>9, <1>10, <1>11 DEF Next, Loop, Done

-----------------------------------------------------------------------------
LEMMA DrainedAtEnd == Inv => DrainedWhenGone
<1> SUFFICES ASSUME Inv, owner = "gone" PROVE tasks = <<>> /\ \A t \in Tasks : future[t] # "pending"
  BY DEF DrainedWhenGone
<1>1. tasks = <<>> /\ \A w \in Workers : worker[w] = "exited"
  BY StateNames DEF Inv, Leaving, At
<1>2. \A t \in Tasks : ~Queued(t, tasks) /\ \A w \in Workers : worker[w] # t
  BY <1>1, StateNames, EmptySeq DEF Queued
<1> QED
  BY <1>1, <1>2 DEF Inv, Owned

THEOREM Invariance == Spec => [](Inv /\ NoLostWakeup)
BY InitInv, StepInv, InitWakeup, StepWakeup, PTL DEF Spec

(* Every variable keeps its type; no exception of a task ends a worker.    *)
THEOREM TypeCorrect == Spec => []TypeOK
<1>1. Inv => TypeOK
  BY DEF Inv
<1> QED
  BY <1>1, Invariance, PTL

(* However many clients and workers there are, a queued task never waits   *)
(* for a worker that nobody is going to wake.                              *)
THEOREM WakeupsKept == Spec => []NoLostWakeup
BY Invariance, PTL

(* stop reaches every sleeping worker. *)
THEOREM StopWakesAll == Spec => []NoneLeftAsleep
<1>1. Inv => NoneLeftAsleep
  BY DEF Inv
<1> QED
  BY <1>1, Invariance, PTL

(* When the destructor is over, every accepted task has run. *)
THEOREM DestructorDrains == Spec => []DrainedWhenGone
BY DrainedAtEnd, Invariance, PTL

(* Whatever the wait set and the notifications do, users see the steps of  *)
(* a task pool: first in, first out, each task begun and ended once, none  *)
(* accepted after stop.                                                    *)
THEOREM TakesOnlyTaskPoolSteps == Spec => TakesTaskPoolSteps
BY Invariance, InitRefines, StepRefines, PTL DEF Spec, TakesTaskPoolSteps

-----------------------------------------------------------------------------
(* The bounded queue.                                                      *)

ThreadStates == {"out", "lock", "asleep", "notify"}
Items == Producers \X Nat

QueueTypeOK ==
    /\ items \in Seq(Items)
    /\ closed \in BOOLEAN
    /\ closing \in {"no", "not_empty", "not_full", "over"}
    /\ thread \in [Threads -> ThreadStates]
    /\ calls \in [Threads -> Nat]
    /\ accepted \in Seq(Items) /\ taken \in Seq(Items)

(* A closed queue is one that close has come to, nobody falls asleep in it, *)
(* and close wakes the consumers first.                                    *)
ClosingWakes ==
    /\ closed <=> closing # "no"
    /\ closing \in {"not_full", "over"} => Sleepers(Consumers) = {}
    /\ closing = "over" => Sleepers(Producers) = {}

QueueInv == QueueTypeOK /\ ClosingWakes /\ QueueSound

(* The threads of S that are in state s. *)
In(S, s) == {u \in S : thread[u] = s}

LEMMA FifoPop ==
    ASSUME NEW S, NEW a \in Seq(S), NEW b \in Seq(S), b # <<>>
    PROVE  a \o b = Append(a, Head(b)) \o Tail(b)
<1>1. /\ Head(b) \in S /\ Tail(b) \in Seq(S) /\ Head(b) = b[1]
      /\ Len(Tail(b)) = Len(b) - 1
      /\ \A i \in 1 .. Len(Tail(b)) : Tail(b)[i] = b[i + 1]
      /\ Len(b) \in Nat \ {0} /\ Len(a) \in Nat
  BY HeadTailProperties, EmptySeq, LenProperties
<1>2. /\ Append(a, Head(b)) \in Seq(S) /\ Len(Append(a, Head(b))) = Len(a) + 1
      /\ \A i \in 1 .. Len(a) : Append(a, Head(b))[i] = a[i]
      /\ Append(a, Head(b))[Len(a) + 1] = b[1]
  BY <1>1, AppendProperties
<1>3. /\ a \o b \in Seq(S) /\ Append(a, Head(b)) \o Tail(b) \in Seq(S)
      /\ Len(a \o b) = Len(a) + Len(b)
      /\ Len(Append(a, Head(b)) \o Tail(b)) = Len(a) + Len(b)
  BY <1>1, <1>2, ConcatProperties
<1>4. ASSUME NEW i \in 1 .. Len(a) + Len(b) PROVE (a \o b)[i] = (Append(a, Head(b)) \o Tail(b))[i]
  <2>1. (a \o b)[i] = IF i <= Len(a) THEN a[i] ELSE b[i - Len(a)]
    BY ConcatProperties
  <2>2. (Append(a, Head(b)) \o Tail(b))[i] =
            IF i <= Len(a) + 1 THEN Append(a, Head(b))[i] ELSE Tail(b)[i - (Len(a) + 1)]
    BY <1>1, <1>2, ConcatProperties
  <2>3. CASE i <= Len(a)
    BY <1>1, <1>2, <2>1, <2>2, <2>3
  <2>4. CASE i = Len(a) + 1
    BY <1>1, <1>2, <2>1, <2>2, <2>4
  <2>5. CASE i > Len(a) + 1
    <3>1. i - (Len(a) + 1) \in 1 .. Len(Tail(b)) /\ (i - (Len(a) + 1)) + 1 = i - Len(a)
      BY <1>1, <2>5
    <3> QED
      BY <1>1, <2>1, <2>2, <2>5, <3>1
  <2> QED
    BY <1>1, <2>3, <2>4, <2>5
<1> QED
  BY <1>3, <1>4, SeqEqual

LEMMA InitQueueInv == QueueInit => QueueInv
<1> SUFFICES ASSUME QueueInit PROVE QueueInv
  OBVIOUS
<1>1. QueueTypeOK /\ ClosingWakes
  BY EmptySeq DEF QueueInit, QueueTypeOK, ClosingWakes, ThreadStates, Sleepers
<1>2. \A S \in SUBSET Threads : Sleepers(S) = {}
  BY DEF QueueInit, Sleepers
<1>3. accepted = taken \o items /\ Len(items) = 0
  BY EmptySeq, ConcatEmptySeq DEF QueueInit
<1>4. QueueSound
  BY <1>2, <1>3, QueueAssumption DEF QueueInit, QueueSound, Threads
<1> QED
  BY <1>1, <1>4 DEF QueueInv

(* A step that moves one thread at most of those of S, from state r to s:  *)
(* it leaves the count of the one state and comes to that of the other.    *)
LEMMA OneMoves ==
    ASSUME NEW S \in {Producers, Consumers}, NEW t \in S, \A u \in S \ {t} : thread'[u] = thread[u]
    PROVE  \A s : /\ Cardinality(In(S, s)) \in Nat /\ Cardinality(In(S, s)') \in Nat
                  /\ (thread[t] = s <=> thread'[t] = s) => Cardinality(In(S, s)') = Cardinality(In(S, s))
                  /\ thread[t] # s /\ thread'[t] = s => Cardinality(In(S, s)') = Cardinality(In(S, s)) + 1
                  /\ thread[t] = s /\ thread'[t] # s => Cardinality(In(S, s)') = Cardinality(In(S, s)) - 1
<1> TAKE s
<1>1. IsFiniteSet(In(S, s)) /\ IsFiniteSet(In(S, s)')
  BY QueueAssumption, FS_Subset DEF In
<1>2. Cardinality(In(S, s)) \in Nat /\ Cardinality(In(S, s)') \in Nat
  BY <1>1, FS_CardinalityType
<1>3. ASSUME thread[t] = s <=> thread'[t] = s PROVE In(S, s)' = In(S, s)
  BY <1>3 DEF In
<1>4. ASSUME thread[t] # s, thread'[t] = s PROVE Cardinality(In(S, s)') = Cardinality(In(S, s)) + 1
  <2>1. In(S, s)' = In(S, s) \cup {t} /\ t \notin In(S, s)
    BY <1>4 DEF In
  <2> QED
    BY <1>1, <2>1, FS_AddElement
<1>5. ASSUME thread[t] = s, thread'[t] # s PROVE Cardinality(In(S, s)') = Cardinality(In(S, s)) - 1
  <2>1. In(S, s)' = In(S, s) \ {t} /\ t \in In(S, s)
    BY <1>5 DEF In
  <2> QED
    BY <1>1, <2>1, FS_RemoveElement
<1> QED
  BY <1>2, <1>3, <1>4, <1>5

LEMMA NoneMoves ==
    ASSUME NEW S \in {Producers, Consumers}, \A u \in S : thread'[u] = thread[u]
    PROVE  \A s : In(S, s)' = In(S, s) /\ Cardinality(In(S, s)) \in Nat
<1> TAKE s
<1>1. In(S, s)' = In(S, s)
  BY DEF In
<1>2. IsFiniteSet(In(S, s))
  BY QueueAssumption, FS_Subset DEF In
<1> QED
  BY <1>1, <1>2, FS_CardinalityType

(* What the queue holds after a push and after a pop, and that both keep   *)
(* the order.                                                              *)
LEMMA ItemsKept ==
    ASSUME QueueInv
    PROVE  /\ Len(items) \in Nat /\ (items = <<>> <=> Len(items) = 0)
           /\ \A x \in Items :
                 /\ Append(items, x) \in Seq(Items) /\ Append(accepted, x) \in Seq(Items)
                 /\ Len(Append(items, x)) = Len(items) + 1
           /\ items # <<>> =>
                 /\ Tail(items) \in Seq(Items) /\ Append(taken, Head(items)) \in Seq(Items)
                 /\ Len(Tail(items)) = Len(items) - 1
<1>1. items \in Seq(Items) /\ accepted \in Seq(Items) /\ taken \in Seq(Items)
  BY DEF QueueInv, QueueTypeOK
<1>2. Len(items) \in Nat /\ (items = <<>> <=> Len(items) = 0)
  BY <1>1, EmptySeq, LenProperties
<1> QED
  BY <1>1, <1>2, HeadTailProperties, AppendProperties

LEMMA OrderKept ==
    ASSUME QueueInv
    PROVE  /\ \A x \in Items : Append(accepted, x) = taken \o Append(items, x)
           /\ items # <<>> => accepted = Append(taken, Head(items)) \o Tail(items)
<1>1. items \in Seq(Items) /\ accepted \in Seq(Items) /\ taken \in Seq(Items)
  BY DEF QueueInv, QueueTypeOK
<1>2. accepted = taken \o items
  BY DEF QueueInv, QueueSound
<1>3. ASSUME NEW x \in Items PROVE Append(accepted, x) = taken \o Append(items, x)
  <2>1. <<x>> \in Seq(Items)
    OBVIOUS
  <2>2. (taken \o items) \o <<x>> = taken \o (items \o <<x>>)
    BY <1>1, <2>1, ConcatAssociative
  <2>3. Append(accepted, x) = accepted \o <<x>> /\ Append(items, x) = items \o <<x>>
    BY <1>1, AppendIsConcat
  <2> QED
    BY <1>2, <2>2, <2>3
<1> QED
  BY <1>1, <1>2, <1>3, FifoPop

(* The two promises about wakeups, by side: S sleeps only if every piece   *)
(* of its work has a thread of S on its way or a notification of T coming. *)
Attended(S, T, work) ==
    ~closed /\ In(S, "asleep") # {} => work <= Cardinality(In(S, "lock")) + Cardinality(In(T, "notify"))

QueueParts ==
    /\ Len(items) <= Capacity
    /\ accepted = taken \o items
    /\ Attended(Consumers, Producers, Len(items))
    /\ Attended(Producers, Consumers, Capacity - Len(items))
    /\ closing = "over" => In(Threads, "asleep") = {}

LEMMA QueueSoundParts == (QueueSound <=> QueueParts) /\ (QueueSound' <=> QueueParts')
BY DEF QueueSound, QueueParts, Attended, In, OnTheWay, ToSend, Sleepers

LEMMA StepQueueType == QueueInv /\ [QueueNext]_queueVars => (QueueTypeOK /\ ClosingWakes)'
<1> SUFFICES ASSUME QueueInv, [QueueNext]_queueVars PROVE (QueueTypeOK /\ ClosingWakes)'
  OBVIOUS
<1> USE DEF QueueTypeOK, ClosingWakes, ThreadStates, Moves, Sleepers
<1>0. QueueTypeOK /\ ClosingWakes /\ Producers \subseteq Threads /\ Consumers \subseteq Threads
  BY DEF QueueInv, Threads
<1>1. ASSUME NEW t \in Threads, EnterCall(t) PROVE (QueueTypeOK /\ ClosingWakes)'
  BY <1>0, <1>1 DEF EnterCall
<1>2. ASSUME NEW t \in Threads, WaitNotFull(t) \/ WaitNotEmpty(t), FallAsleep(t) PROVE (QueueTypeOK /\ ClosingWakes)'
  BY <1>0, <1>2 DEF WaitNotFull, WaitNotEmpty, FallAsleep
<1>3. ASSUME NEW t \in Threads, Refused(t) PROVE (QueueTypeOK /\ ClosingWakes)'
  BY <1>0, <1>3 DEF Refused
<1>4. ASSUME NEW t \in Producers, PushItem(t) PROVE (QueueTypeOK /\ ClosingWakes)'
  <2>1. <<t, calls[t]>> \in Items
    BY <1>0 DEF Items
  <2>2. items' \in Seq(Items) /\ accepted' \in Seq(Items)
    BY <1>4, <2>1, ItemsKept DEF PushItem
  <2> QED
    BY <1>0, <1>4, <2>2 DEF PushItem
<1>5. ASSUME NEW t \in Consumers, PopItem(t) \/ TryPop(t) PROVE (QueueTypeOK /\ ClosingWakes)'
  <2>0. items # <<>> /\ items' = Tail(items) /\ taken' = Append(taken, Head(items))
    BY <1>5 DEF PopItem, TryPop, TakeItem
  <2>1. items' \in Seq(Items) /\ taken' \in Seq(Items)
    BY <2>0, ItemsKept
  <2>2. /\ UNCHANGED <<closed, closing, accepted>> /\ thread' = [thread EXCEPT ![t] = "notify"]
        /\ calls' = calls \/ calls' = [calls EXCEPT ![t] = @ + 1]
    BY <1>5 DEF PopItem, TryPop, TakeItem
  <2>3. t \in Threads /\ calls[t] + 1 \in Nat
    BY <1>0
  <2>4. thread' \in [Threads -> ThreadStates] /\ calls' \in [Threads -> Nat]
    BY <1>0, <2>2, <2>3
  <2>5. ClosingWakes'
    BY <1>0, <2>2
  <2> QED
    BY <1>0, <2>1, <2>2, <2>4, <2>5
<1>6. ASSUME NEW t \in Threads, NotifyOther(t) PROVE (QueueTypeOK /\ ClosingWakes)'
  BY <1>0, <1>6 DEF NotifyOther
<1>7. ASSUME NEW t \in Threads, QueueSpurious(t) PROVE (QueueTypeOK /\ ClosingWakes)'
  BY <1>0, <1>7 DEF QueueSpurious
<1>8. CASE CloseQueue
  BY <1>0, <1>8 DEF CloseQueue
<1>9. CASE CloseNotifies
  BY <1>0, <1>9 DEF CloseNotifies
<1>10. CASE UNCHANGED queueVars
  BY <1>0, <1>10 DEF queueVars
<1> QED
  BY <1>1, <1>2, <1>3, <1>4, <1>5, <1>6, <1>7, <1>8, <1>9, <1>10 DEF QueueNext, GoesOn, Threads

LEMMA StepQueueSound == QueueInv /\ QueueTypeOK' /\ ClosingWakes' /\ [QueueNext]_queueVars => QueueSound'
<1> SUFFICES ASSUME QueueInv, QueueTypeOK', ClosingWakes', [QueueNext]_queueVars PROVE QueueSound'
  OBVIOUS
<1>0. /\ thread \in [Threads -> ThreadStates]
      /\ Len(items) \in Nat /\ Len(items) <= Capacity /\ accepted = taken \o items
      /\ Producers \subseteq Threads /\ Consumers \subseteq Threads /\ Producers \cap Consumers = {}
      /\ Capacity \in Nat \ {0}
      /\ Attended(Consumers, Producers, Len(items))
      /\ Attended(Producers, Consumers, Capacity - Len(items))
  BY QueueAssumption, ItemsKept, QueueSoundParts DEF QueueInv, QueueTypeOK, QueueParts, Threads
<1>a. (closing = "over" => In(Threads, "asleep") = {})'
  <2>1. ASSUME closing' = "over", NEW t \in Threads PROVE thread'[t] # "asleep"
    BY <2>1 DEF ClosingWakes, Sleepers, Threads
  <2> QED
    BY <2>1 DEF In
<1>b. ASSUME closed', (Len(items) <= Capacity /\ accepted = taken \o items)' PROVE QueueSound'
  BY <1>a, <1>b, QueueSoundParts DEF QueueParts, Attended
<1>c. ASSUME Len(items') <= Capacity, accepted' = taken' \o items',
             Attended(Consumers, Producers, Len(items))', Attended(Producers, Consumers, Capacity - Len(items))'
      PROVE  QueueSound'
  BY <1>a, <1>c, QueueSoundParts DEF QueueParts
(* A thread comes to the queue or falls asleep over no work. *)
<1>1. ASSUME NEW S, NEW T, (S = Producers /\ T = Consumers) \/ (S = Consumers /\ T = Producers),
             NEW t \in S, NEW state \in {"lock", "asleep"}, Moves(t, state),
             thread[t] \notin {"notify", state}, UNCHANGED <<items, closed, accepted, taken>>,
             state = "asleep" => Len(items) = IF S = Consumers THEN 0 ELSE Capacity
      PROVE  QueueSound'
  <2>1. /\ \A u \in S \ {t} : thread'[u] = thread[u]
        /\ \A u \in T : thread'[u] = thread[u]
        /\ thread'[t] = state
    BY <1>0, <1>1 DEF Moves
  <2>2. /\ Cardinality(In(S, "lock")) \in Nat /\ Cardinality(In(S, "lock")') \in Nat
        /\ state = "lock" => Cardinality(In(S, "lock")') = Cardinality(In(S, "lock")) + 1
        /\ Cardinality(In(S, "notify")') = Cardinality(In(S, "notify"))
        /\ \A s : In(T, s)' = In(T, s) /\ Cardinality(In(T, s)) \in Nat
    BY <1>1, <2>1, OneMoves, NoneMoves
  <2>3. state = "lock" => In(S, "asleep")' \subseteq In(S, "asleep")
    BY <2>1 DEF In
  <2>4. Attended(Consumers, Producers, Len(items))'
    BY <1>0, <1>1, <2>2, <2>3 DEF Attended
  <2>5. Attended(Producers, Consumers, Capacity - Len(items))'
    BY <1>0, <1>1, <2>2, <2>3 DEF Attended
  <2> QED
    BY <1>0, <1>1, <1>c, <2>4, <2>5
(* An item comes in, and a producer leaves the queue to tell of it. *)
<1>2. ASSUME NEW p \in Producers, PushItem(p) PROVE QueueSound'
  <2>1. /\ \A u \in Producers \ {p} : thread'[u] = thread[u]
        /\ \A u \in Consumers : thread'[u] = thread[u]
        /\ thread[p] = "lock" /\ thread'[p] = "notify"
    BY <1>0, <1>2 DEF PushItem, Moves
  <2>2. /\ Cardinality(In(Producers, "lock")) \in Nat /\ Cardinality(In(Producers, "notify")) \in Nat
        /\ Cardinality(In(Producers, "lock")') = Cardinality(In(Producers, "lock")) - 1
        /\ Cardinality(In(Producers, "notify")') = Cardinality(In(Producers, "notify")) + 1
        /\ \A s : In(Consumers, s)' = In(Consumers, s) /\ Cardinality(In(Consumers, s)) \in Nat
    BY <2>1, OneMoves, NoneMoves
  <2>3. In(Producers, "asleep")' = In(Producers, "asleep")
    BY <2>1 DEF In
  <2>4. <<p, calls[p]>> \in Items
    BY <1>0 DEF QueueInv, QueueTypeOK, Items
  <2>5. Len(items') = Len(items) + 1 /\ Len(items) < Capacity /\ closed' = closed
    BY <1>2, <2>4, ItemsKept DEF PushItem
  <2>6. accepted' = taken' \o items'
    BY <1>2, <2>4, OrderKept DEF PushItem
  <2>7. Attended(Consumers, Producers, Len(items))'
    BY <1>0, <2>2, <2>5 DEF Attended
  <2>8. Attended(Producers, Consumers, Capacity - Len(items))'
    BY <1>0, <2>2, <2>3, <2>5 DEF Attended
  <2> QED
    BY <1>0, <1>c, <2>5, <2>6, <2>7, <2>8
(* An item goes out, and a consumer tells of the place. *)
<1>3. ASSUME NEW c \in Consumers, thread[c] \in {"out", "lock"}, TakeItem(c) PROVE QueueSound'
  <2>1. /\ \A u \in Consumers \ {c} : thread'[u] = thread[u]
        /\ \A u \in Producers : thread'[u] = thread[u]
        /\ thread'[c] = "notify"
    BY <1>0, <1>3 DEF TakeItem, Moves
  <2>2. /\ Cardinality(In(Consumers, "lock")) \in Nat /\ Cardinality(In(Consumers, "notify")) \in Nat
        /\ \/ Cardinality(In(Consumers, "lock")') = Cardinality(In(Consumers, "lock")) - 1
           \/ Cardinality(In(Consumers, "lock")') = Cardinality(In(Consumers, "lock"))
        /\ Cardinality(In(Consumers, "notify")') = Cardinality(In(Consumers, "notify")) + 1
        /\ \A s : In(Producers, s)' = In(Producers, s) /\ Cardinality(In(Producers, s)) \in Nat
    BY <1>3, <2>1, OneMoves, NoneMoves
  <2>3. In(Consumers, "asleep")' = In(Consumers, "asleep")
    BY <1>3, <2>1 DEF In
  <2>4. items # <<>> /\ Len(items') = Len(items) - 1 /\ closed' = closed
    BY <1>3, ItemsKept DEF TakeItem
  <2>5. accepted' = taken' \o items'
    BY <1>3, <2>4, OrderKept DEF TakeItem
  <2>6. Attended(Consumers, Producers, Len(items))'
    BY <1>0, <2>2, <2>3, <2>4 DEF Attended
  <2>7. Attended(Producers, Consumers, Capacity - Len(items))'
    BY <1>0, <2>2, <2>4 DEF Attended
  <2> QED
    BY <1>0, <1>c, <2>4, <2>5, <2>6, <2>7
(* A notification reaches a thread of the other side, or nobody sleeps.    *)
<1>4. ASSUME NEW S, NEW T, (S = Producers /\ T = Consumers) \/ (S = Consumers /\ T = Producers),
             NEW t \in S, NotifyOther(t)
      PROVE  QueueSound'
  <2>1. /\ thread[t] = "notify" /\ UNCHANGED <<items, closed, accepted, taken>>
        /\ \A u \in S \ {t} : thread'[u] = thread[u]
        /\ thread'[t] = "out"
        /\ \/ \E s \in T : /\ thread[s] = "asleep" /\ thread'[s] = "lock"
                           /\ \A u \in T \ {s} : thread'[u] = thread[u]
           \/ In(T, "asleep") = {} /\ \A u \in T : thread'[u] = thread[u]
    BY <1>0, <1>4 DEF NotifyOther, Moves, Sleepers, In
  <2>2. /\ Cardinality(In(S, "lock")) \in Nat /\ Cardinality(In(S, "notify")) \in Nat
        /\ Cardinality(In(S, "lock")') = Cardinality(In(S, "lock"))
        /\ Cardinality(In(S, "notify")') = Cardinality(In(S, "notify")) - 1
    BY <1>4, <2>1, OneMoves
  <2>3. In(S, "asleep")' = In(S, "asleep")
    BY <2>1 DEF In
  <2>4. ASSUME NEW s \in T, thread[s] = "asleep", thread'[s] = "lock",
               \A u \in T \ {s} : thread'[u] = thread[u]
        PROVE  QueueSound'
    <3>1. /\ Cardinality(In(T, "lock")) \in Nat /\ Cardinality(In(T, "notify")) \in Nat
          /\ Cardinality(In(T, "lock")') = Cardinality(In(T, "lock")) + 1
          /\ Cardinality(In(T, "notify")') = Cardinality(In(T, "notify"))
      BY <1>4, <2>4, OneMoves
    <3>2. In(T, "asleep") # {}
      BY <2>4 DEF In
    <3>3. Attended(Consumers, Producers, Len(items))'
      BY <1>0, <1>4, <2>1, <2>2, <2>3, <3>1, <3>2 DEF Attended
    <3>4. Attended(Producers, Consumers, Capacity - Len(items))'
      BY <1>0, <1>4, <2>1, <2>2, <2>3, <3>1, <3>2 DEF Attended
    <3> QED
      BY <1>0, <1>c, <2>1, <3>3, <3>4
  <2>5. ASSUME In(T, "asleep") = {}, \A u \in T : thread'[u] = thread[u] PROVE QueueSound'
    <3>1. \A s : In(T, s)' = In(T, s)
      BY <1>4, <2>5, NoneMoves
    <3>2. Attended(Consumers, Producers, Len(items))'
      BY <1>0, <1>4, <2>1, <2>2, <2>3, <2>5, <3>1 DEF Attended
    <3>3. Attended(Producers, Consumers, Capacity - Len(items))'
      BY <1>0, <1>4, <2>1, <2>2, <2>3, <2>5, <3>1 DEF Attended
    <3> QED
      BY <1>0, <1>c, <2>1, <3>2, <3>3
  <2> QED
    BY <2>1, <2>4, <2>5
<1>5. ASSUME NEW t \in Threads, EnterCall(t) \/ QueueSpurious(t) PROVE QueueSound'
  BY <1>1, <1>5 DEF EnterCall, QueueSpurious, Threads
<1>6. ASSUME NEW p \in Producers, WaitNotFull(p), FallAsleep(p) PROVE QueueSound'
  <2>1. Len(items) = Capacity
    BY <1>0, <1>6 DEF WaitNotFull
  <2>2. Producers # Consumers
    BY <1>0
  <2> QED
    BY <1>1, <1>6, <2>1, <2>2 DEF WaitNotFull, FallAsleep
<1>7. ASSUME NEW c \in Consumers, WaitNotEmpty(c), FallAsleep(c) PROVE QueueSound'
  BY <1>1, <1>7, ItemsKept DEF WaitNotEmpty, FallAsleep
<1>8. ASSUME NEW t \in Threads, Refused(t) PROVE QueueSound'
  BY <1>0, <1>b, <1>8 DEF Refused
<1>9. ASSUME NEW c \in Consumers, PopItem(c) \/ TryPop(c) PROVE QueueSound'
  BY <1>3, <1>9 DEF PopItem, TryPop
<1>10. CASE CloseQueue \/ CloseNotifies
  BY <1>0, <1>b, <1>10 DEF CloseQueue, CloseNotifies, QueueInv, ClosingWakes
<1>11. CASE UNCHANGED queueVars
  <2>1. Attended(Consumers, Producers, Len(items))' /\ Attended(Producers, Consumers, Capacity - Len(items))'
    BY <1>0, <1>11 DEF queueVars, Attended, In
  <2> QED
    BY <1>0, <1>11, <1>c, <2>1 DEF queueVars
<1>12. ASSUME NEW t \in Threads, NotifyOther(t) PROVE QueueSound'
  BY <1>4, <1>12 DEF Threads
<1> QED
  BY <1>2, <1>5, <1>6, <1>7, <1>8, <1>9, <1>10, <1>11, <1>12 DEF QueueNext, GoesOn

LEMMA StepQueueInv == QueueInv /\ [QueueNext]_queueVars => QueueInv'
BY StepQueueType, StepQueueSound DEF QueueInv

(* A queue of any capacity, with any number of producers and consumers,    *)
(* never holds more, hands the items out in the order they came, and       *)
(* leaves no thread asleep over work that nobody is going to tell it of;   *)
(* once close has notified both conditions, nobody sleeps                  *)
(* (bounded_queue.hpp: push, pop, try_pop, close).                         *)
THEOREM QueueStaysSound == QueueInit /\ [][QueueNext]_queueVars => []QueueSound
<1>1. QueueInv => QueueSound
  BY DEF QueueInv
<1> QED
  BY <1>1, InitQueueInv, StepQueueInv, PTL

(* The specification of the run, which has one unit at a time: the pool    *)
(* and the queue keep in it what they keep by themselves.                  *)
THEOREM UtilStaysSound == UtilSpec => [](TypeOK /\ NoLostWakeup /\ DrainedWhenGone /\ QueueSound)
<1>1. UtilInit => Inv /\ NoLostWakeup /\ QueueInv
  BY InitInv, InitWakeup, InitQueueInv DEF UtilInit
<1>2. UtilNext => [Next]_vars /\ [QueueNext]_queueVars
  BY DEF UtilNext, utilVars
<1>3. Inv /\ NoLostWakeup /\ QueueInv /\ [UtilNext]_utilVars => (Inv /\ NoLostWakeup /\ QueueInv)'
  BY <1>2, StepInv, StepWakeup, StepQueueInv DEF utilVars
<1>4. Inv => TypeOK /\ DrainedWhenGone
  BY DrainedAtEnd DEF Inv
<1>5. QueueInv => QueueSound
  BY DEF QueueInv
<1> QED
  BY <1>1, <1>3, <1>4, <1>5, PTL DEF UtilSpec

=============================================================================
