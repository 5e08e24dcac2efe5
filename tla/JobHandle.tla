----------------------------- MODULE JobHandle ------------------------------
(***************************************************************************)
(* JobHandle and JobHandleImpl (core/src/job_handle.cpp), and the          *)
(* std::async thread Engine::submit starts for the job (engine.cpp).       *)
(*                                                                         *)
(* Clients are threads that share the handle submit returned. Each         *)
(* critical section of result_mutex_ and progress_mutex_ is one step;      *)
(* wait() has two, with the blocking get() between them.                   *)
(*                                                                         *)
(* JobHandleImpl is kept alive by the handle and by the progress callback  *)
(* the job's thread owns until Pipeline::run returns. Whoever lets go last *)
(* destroys it, and destroying a std::async future that nobody waited for  *)
(* joins the job's thread.                                                 *)
(***************************************************************************)
EXTENDS Naturals

CONSTANTS
    Clients,     \* threads that use the handle
    Waiters,     \* those that call wait, error or stats
    JobErrors,   \* errors Pipeline::run may report, cancellation aside
    Throws,      \* whether an exception may leave Pipeline::run
    MaxEvents    \* bound on the progress events of the job

ASSUME ClientAssumption == Clients # {} /\ Waiters \subseteq Clients
ASSUME BoundAssumption == MaxEvents \in Nat /\ Throws \in BOOLEAN
ASSUME OutcomeAssumption == JobErrors \cap {"none", "Ok", "Cancelled", "thrown", "Internal"} = {}

VARIABLES
    stop,       \* stop_ has been requested
    job,        \* the async thread: in run, back from it, over, or joining itself
    outcome,    \* what run returned or threw
    events,     \* progress events sent by run
    progress,   \* progress_
    future,     \* future_: here, moved to a waiter's local, or used up
    resolved,   \* resolved_
    error,      \* error_
    stats,      \* stats_: still zero or the job's
    handle,     \* the JobHandle exists
    pc,         \* where each client is
    op,         \* the call each client is in
    answer,     \* what each client's last call returned
    shown       \* what each client last saw of the progress

jobVars == <<job, outcome, events, progress>>
resultVars == <<future, resolved, error, stats>>
clientVars == <<pc, op, answer, shown>>
vars == <<stop, handle, jobVars, resultVars, clientVars>>

Calls == {"wait", "error", "stats"}
Outcomes == {"Ok", "Cancelled"} \cup JobErrors \cup (IF Throws THEN {"thrown"} ELSE {})
Errors == Outcomes \cup {"Internal"}

TypeOK ==
    /\ stop \in BOOLEAN
    /\ handle \in BOOLEAN
    /\ job \in {"running", "returned", "over", "selfjoin"}
    /\ outcome \in {"none"} \cup Outcomes
    /\ events \in 0 .. MaxEvents
    /\ progress \in 0 .. MaxEvents
    /\ future \in {"member", "taken", "spent"}
    /\ resolved \in BOOLEAN
    /\ error \in Errors
    /\ stats \in {"zero", "final"}
    /\ pc \in [Clients -> {"idle", "blocked", "reread", "joining"}]
    /\ op \in [Clients -> Calls \cup {"none"}]
    /\ answer \in [Clients -> [to : Calls \cup {"none", "done"},
                               is : Errors \cup {"zero", "final", "yes", "no", "none"}]]
    /\ shown \in [Clients -> 0 .. MaxEvents]

Answer(to, is) == [to |-> to, is |-> is]

(* Engine::submit has started the thread, set the future and returned.     *)
Init ==
    /\ stop = FALSE
    /\ handle = TRUE
    /\ job = "running"
    /\ outcome = "none"
    /\ events = 0
    /\ progress = 0
    /\ future = "member"
    /\ resolved = FALSE
    /\ error = "Ok"
    /\ stats = "zero"
    /\ pc = [c \in Clients |-> "idle"]
    /\ op = [c \in Clients |-> "none"]
    /\ answer = [c \in Clients |-> Answer("none", "none")]
    /\ shown = [c \in Clients |-> 0]

-----------------------------------------------------------------------------
(* The job's thread.                                                       *)

(* The progress callback: publish_progress. *)
Emit ==
    /\ job = "running"
    /\ events < MaxEvents
    /\ events' = events + 1
    /\ progress' = events + 1
    /\ UNCHANGED <<stop, handle, job, outcome, resultVars, clientVars>>

(* JobHandleImpl dies on the job's own thread, and with it the future that *)
(* joins this very thread.                                                 *)
LastReference == ~handle /\ future = "member"

(* Mutant of Return: the snapshot is cleared when the job ends. *)
ReturnClears ==
    /\ job = "running"
    /\ outcome' \in Outcomes \ (IF stop THEN {} ELSE {"Cancelled"})
    /\ job' = IF LastReference THEN "selfjoin" ELSE "returned"
    /\ progress' = 0
    /\ UNCHANGED <<stop, handle, events, resultVars, clientVars>>

(* run returns and its copy of the callback is destroyed. *)
Return ==
    /\ job = "running"
    /\ outcome' \in Outcomes \ (IF stop THEN {} ELSE {"Cancelled"})
    /\ job' = IF LastReference THEN "selfjoin" ELSE "returned"
    /\ UNCHANGED <<stop, handle, events, progress, resultVars, clientVars>>

(* Mutant of Ready: a cancelled job's future is never made ready. *)
ReadyUnlessStopped ==
    /\ job = "returned"
    /\ ~stop
    /\ job' = "over"
    /\ UNCHANGED <<stop, handle, outcome, events, progress, resultVars, clientVars>>

(* The shared state is made ready and the thread ends. *)
Ready ==
    /\ job = "returned"
    /\ job' = "over"
    /\ UNCHANGED <<stop, handle, outcome, events, progress, resultVars, clientVars>>

-----------------------------------------------------------------------------
(* Calls of client c.                                                      *)

Free(c) == handle /\ pc[c] = "idle"
Reply(c, to, is) == answer' = [answer EXCEPT ![c] = Answer(to, is)]

(* What the call of c returns once the result is there. *)
Result(call) ==
    CASE call = "wait"  -> "none"
      [] call = "error" -> error
      [] call = "stats" -> stats

(* The result is cached already. *)
CallResolved(c, call) ==
    /\ Free(c)
    /\ resolved
    /\ Reply(c, call, Result(call))
    /\ UNCHANGED <<stop, handle, jobVars, resultVars, pc, op, shown>>

(* wait() finds no result and no future: another waiter holds it. *)
CallNoFuture(c, call) ==
    /\ Free(c)
    /\ ~resolved
    /\ future # "member"
    /\ error' = "Internal"
    /\ resolved' = TRUE
    /\ IF call = "wait" THEN Reply(c, call, "none") /\ UNCHANGED <<pc, op>>
                        ELSE /\ pc' = [pc EXCEPT ![c] = "reread"]
                             /\ op' = [op EXCEPT ![c] = call]
                             /\ UNCHANGED answer
    /\ UNCHANGED <<stop, handle, jobVars, future, stats, shown>>

(* wait() moves the future out and blocks on it without the lock. *)
CallTake(c, call) ==
    /\ Free(c)
    /\ ~resolved
    /\ future = "member"
    /\ future' = "taken"
    /\ pc' = [pc EXCEPT ![c] = "blocked"]
    /\ op' = [op EXCEPT ![c] = call]
    /\ UNCHANGED <<stop, handle, jobVars, resolved, error, stats, answer, shown>>

(* wait() is over: the call returns, or reads the result under the lock. *)
Leave(c) ==
    IF op[c] = "wait" THEN /\ pc' = [pc EXCEPT ![c] = "idle"]
                           /\ op' = [op EXCEPT ![c] = "none"]
                           /\ Reply(c, "wait", "none")
                      ELSE /\ pc' = [pc EXCEPT ![c] = "reread"]
                           /\ UNCHANGED <<op, answer>>

(* Mutant of Unblock: wait gives up before the job is over, as wait_for would. *)
UnblockTimesOut(c) ==
    /\ pc[c] = "blocked"
    /\ future' = "spent"
    /\ resolved' = TRUE
    /\ Leave(c)
    /\ UNCHANGED <<stop, handle, jobVars, error, stats, shown>>

(* Mutant of Unblock: value() is taken of a result that holds an error. *)
UnblockUnchecked(c) ==
    /\ pc[c] = "blocked"
    /\ job = "over"
    /\ outcome # "thrown"
    /\ future' = "spent"
    /\ resolved' = TRUE
    /\ stats' = IF outcome = "Ok" THEN "final" ELSE "undefined"
    /\ error' = IF outcome = "Ok" THEN error ELSE outcome
    /\ Leave(c)
    /\ UNCHANGED <<stop, handle, jobVars, shown>>

(* get() returns, and the result is cached: an error leaves stats_ alone,  *)
(* and success leaves error_ alone.                                        *)
Unblock(c) ==
    /\ pc[c] = "blocked"
    /\ job = "over"
    /\ outcome # "thrown"
    /\ future' = "spent"
    /\ resolved' = TRUE
    /\ stats' = IF outcome = "Ok" THEN "final" ELSE stats
    /\ error' = IF outcome = "Ok" THEN error ELSE outcome
    /\ Leave(c)
    /\ UNCHANGED <<stop, handle, jobVars, shown>>

(* get() throws what run threw, out of the call. *)
UnblockThrown(c) ==
    /\ pc[c] = "blocked"
    /\ job = "over"
    /\ outcome = "thrown"
    /\ future' = "spent"
    /\ pc' = [pc EXCEPT ![c] = "idle"]
    /\ op' = [op EXCEPT ![c] = "none"]
    /\ Reply(c, op[c], "thrown")
    /\ UNCHANGED <<stop, handle, jobVars, resolved, error, stats, shown>>

(* error() and stats() lock again and return the cached value. *)
Reread(c) ==
    /\ pc[c] = "reread"
    /\ Reply(c, op[c], Result(op[c]))
    /\ pc' = [pc EXCEPT ![c] = "idle"]
    /\ op' = [op EXCEPT ![c] = "none"]
    /\ UNCHANGED <<stop, handle, jobVars, resultVars, shown>>

IsDone == resolved \/ (future = "member" /\ job = "over")

PollDone(c) ==
    /\ Free(c)
    /\ Reply(c, "done", IF IsDone THEN "yes" ELSE "no")
    /\ UNCHANGED <<stop, handle, jobVars, resultVars, pc, op, shown>>

PollProgress(c) ==
    /\ Free(c)
    /\ shown' = [shown EXCEPT ![c] = progress]
    /\ UNCHANGED <<stop, handle, jobVars, resultVars, pc, op, answer>>

Cancel(c) ==
    /\ Free(c)
    /\ stop' = TRUE
    /\ UNCHANGED <<handle, jobVars, resultVars, clientVars>>

(* ~JobHandle, when no call is in progress: request_stop, then the last    *)
(* reference but the callback's goes. If the callback's is gone too, the   *)
(* future dies here and c waits for the job's thread to end.               *)
Drop(c) ==
    /\ Free(c)
    /\ \A d \in Clients : pc[d] = "idle"
    /\ stop' = TRUE
    /\ handle' = FALSE
    /\ pc' = [pc EXCEPT ![c] = IF job = "returned" /\ future = "member" THEN "joining" ELSE "idle"]
    /\ UNCHANGED <<jobVars, resultVars, op, answer, shown>>

Joined(c) ==
    /\ pc[c] = "joining"
    /\ job = "over"
    /\ pc' = [pc EXCEPT ![c] = "idle"]
    /\ UNCHANGED <<stop, handle, jobVars, resultVars, op, answer, shown>>

Call(c) ==
    \E call \in Calls : CallResolved(c, call) \/ CallNoFuture(c, call) \/ CallTake(c, call)

Continue(c) == Unblock(c) \/ UnblockThrown(c) \/ Reread(c) \/ Joined(c)

Next ==
    \/ Emit \/ Return \/ Ready
    \/ \E c \in Waiters : Call(c)
    \/ \E c \in Clients :
          Continue(c) \/ PollDone(c) \/ PollProgress(c) \/ Cancel(c) \/ Drop(c)

(* run returns (Pipeline's refinement), and a thread inside a call goes on *)
(* when it can; nobody has to call anything.                               *)
Spec ==
    /\ Init /\ [][Next]_vars
    /\ WF_vars(Return) /\ WF_vars(Ready)
    /\ \A c \in Clients : WF_vars(Continue(c))

-----------------------------------------------------------------------------
(* Properties.                                                             *)

(* A call that waits answers only when the job is over (job.hpp:44 "Block  *)
(* until the job finishes, fails, or is cancelled"), and then error() and  *)
(* stats() report its outcome: the error it ended with, Ok if none, and    *)
(* the statistics if and only if it succeeded. When the exception of a     *)
(* throwing job went to an earlier call, it is Internal. done() may be     *)
(* late, and never says yes of a job that is not over. It does not hold of *)
(* two threads that wait at the same time: see Bridge.                     *)
AnswersTruthful ==
    \A c \in Clients :
        /\ answer[c].to \in Calls => job = "over"
        /\ answer[c] = Answer("done", "yes") => job = "over"
        /\ answer[c].to = "error" =>
              \/ answer[c].is = outcome
              \/ answer[c].is = "Internal" /\ outcome = "thrown"
        /\ answer[c].to = "stats" => (answer[c].is = "final" <=> outcome = "Ok")

(* No client sees progress go backwards, also when it polls after the end. *)
ProgressMonotone == [][\A c \in Clients : shown'[c] >= shown[c]]_vars

(* A call that waits returns: the thread it waits for ends, cancelled or   *)
(* not, and the future it holds is its own.                                *)
CallsReturn == \A c \in Clients : pc[c] # "idle" ~> pc[c] = "idle"

(* engine.hpp:25 "The returned handle keeps the job alive until destroyed; *)
(* dropping it implicitly cancels": the job of a dropped handle ends. It   *)
(* does not hold: when the callback's reference is the last, the job's     *)
(* thread is left to join itself.                                          *)
DroppedJobEnds == ~handle ~> job = "over"

(* The handle and its job, whatever its clients do, are as JobResult says. *)
JR == INSTANCE JobResult WITH
    ended <- IF job = "over" THEN outcome ELSE "none", moved <- future # "member"
TakesJobResultSteps == JR!Spec
=============================================================================
