-------------------------- MODULE JobHandleProofs ---------------------------
(***************************************************************************)
(* Theorems about JobHandle.tla, for every number of clients, every set of *)
(* errors and every number of progress events.                             *)
(***************************************************************************)
EXTENDS JobHandle, TLAPS

(* The job has an outcome when run has returned, and a client that is      *)
(* inside a call is one of those that wait, in a call that waits.          *)
CallsTyped ==
    /\ job = "running" <=> outcome = "none"
    /\ \A c \in Clients : pc[c] \in {"blocked", "reread"} => op[c] \in Calls /\ c \in Waiters

(* The snapshot is the last event that was sent, and what a client has     *)
(* seen is an earlier one.                                                 *)
ShownBehind == progress = events /\ \A c \in Clients : shown[c] <= progress

JobTypeInv == TypeOK /\ CallsTyped

(* One thread at most calls wait, error or stats.                          *)
OneWaiter == \A v, w \in Waiters : v = w

(* The future is moved out by the one that blocks on it; it is used up     *)
(* when there is a result, or when the exception has left the call.        *)
FutureHeld ==
    /\ future = "member" => ~resolved
    /\ future = "taken" => \E c \in Clients : pc[c] = "blocked"
    /\ future = "spent" /\ ~resolved => job = "over" /\ outcome = "thrown"
    /\ \A c \in Clients : /\ pc[c] = "blocked" => future = "taken" /\ ~resolved
                          /\ pc[c] = "reread" => resolved

(* The cached result is the outcome; until there is one it is untouched.   *)
ResultTrue ==
    IF resolved THEN /\ job = "over"
                     /\ error = outcome \/ (error = "Internal" /\ outcome = "thrown")
                     /\ stats = "final" <=> outcome = "Ok"
                ELSE error = "Ok" /\ stats = "zero"

AnswerInv == JobTypeInv /\ FutureHeld /\ ResultTrue /\ AnswersTruthful
-----------------------------------------------------------------------------
(* The outcomes that are told apart. *)
LEMMA OutcomeNames ==
    /\ "none" \notin Outcomes /\ "Internal" \notin Outcomes
    /\ "Ok" \in Outcomes /\ "Cancelled" \in Outcomes
    /\ "Ok" \in Errors /\ "Internal" \in Errors /\ Outcomes \subseteq Errors
BY OutcomeAssumption DEF Outcomes, Errors

LEMMA InitTyped == Init => JobTypeInv
<1> SUFFICES ASSUME Init PROVE JobTypeInv
  OBVIOUS
<1>1. answer \in [Clients -> [to : Calls \cup {"none", "done"},
                             is : Errors \cup {"zero", "final", "yes", "no", "none"}]]
  BY DEF Init, Answer
<1>2. /\ pc \in [Clients -> {"idle", "blocked", "reread", "joining"}]
      /\ op \in [Clients -> Calls \cup {"none"}] /\ shown \in [Clients -> 0 .. MaxEvents]
  BY BoundAssumption DEF Init
<1>3. events \in 0 .. MaxEvents /\ progress \in 0 .. MaxEvents
  BY BoundAssumption DEF Init
<1>4. stop \in BOOLEAN /\ handle \in BOOLEAN /\ resolved \in BOOLEAN /\ error \in Errors
  BY OutcomeNames DEF Init
<1>5. TypeOK
  BY <1>1, <1>2, <1>3, <1>4 DEF Init, TypeOK
<1> QED
  BY <1>5 DEF Init, JobTypeInv, CallsTyped

LEMMA StepTyped == JobTypeInv /\ [Next]_vars => JobTypeInv'
<1> SUFFICES ASSUME JobTypeInv, [Next]_vars PROVE JobTypeInv'
  OBVIOUS
<1> USE OutcomeNames, BoundAssumption, ClientAssumption
    DEF JobTypeInv, TypeOK, CallsTyped, Answer, Calls, Reply, Free, jobVars, resultVars, clientVars
<1>0. \A call \in Calls : Result(call) \in Errors \cup {"zero", "final", "yes", "no", "none"}
  BY DEF Result
<1>1. ASSUME Emit PROVE JobTypeInv'
  BY <1>0, <1>1 DEF Emit
<1>2. ASSUME Return PROVE JobTypeInv'
  BY <1>0, <1>2 DEF Return
<1>3. ASSUME Ready PROVE JobTypeInv'
  BY <1>0, <1>3 DEF Ready
<1>4. ASSUME NEW c \in Waiters, NEW call \in Calls, CallResolved(c, call) PROVE JobTypeInv'
  BY <1>0, <1>4 DEF CallResolved
<1>5. ASSUME NEW c \in Waiters, NEW call \in Calls, CallNoFuture(c, call) PROVE JobTypeInv'
  BY <1>0, <1>5 DEF CallNoFuture
<1>6. ASSUME NEW c \in Waiters, NEW call \in Calls, CallTake(c, call) PROVE JobTypeInv'
  BY <1>0, <1>6 DEF CallTake
<1>7. ASSUME NEW c \in Clients, Unblock(c) PROVE JobTypeInv'
  BY <1>0, <1>7 DEF Unblock, Leave
<1>8. ASSUME NEW c \in Clients, UnblockThrown(c) PROVE JobTypeInv'
  BY <1>0, <1>8 DEF UnblockThrown
<1>9. ASSUME NEW c \in Clients, Reread(c) PROVE JobTypeInv'
  BY <1>0, <1>9 DEF Reread
<1>10. ASSUME NEW c \in Clients, Joined(c) PROVE JobTypeInv'
  BY <1>0, <1>10 DEF Joined
<1>11. ASSUME NEW c \in Clients, PollDone(c) PROVE JobTypeInv'
  BY <1>0, <1>11 DEF PollDone
<1>12. ASSUME NEW c \in Clients, PollProgress(c) PROVE JobTypeInv'
  BY <1>0, <1>12 DEF PollProgress
<1>13. ASSUME NEW c \in Clients, Cancel(c) PROVE JobTypeInv'
  BY <1>0, <1>13 DEF Cancel
<1>14. ASSUME NEW c \in Clients, Drop(c) PROVE JobTypeInv'
  BY <1>0, <1>14 DEF Drop
<1>15. ASSUME UNCHANGED vars PROVE JobTypeInv'
  BY <1>0, <1>15 DEF vars
<1> QED
  BY <1>1, <1>2, <1>3, <1>4, <1>5, <1>6, <1>7, <1>8, <1>9, <1>10, <1>11, <1>12, <1>13, <1>14, <1>15 DEF Next, Call, Continue

LEMMA StepAnswers == OneWaiter /\ AnswerInv /\ [Next]_vars => AnswerInv'
<1> SUFFICES ASSUME OneWaiter, AnswerInv, [Next]_vars PROVE AnswerInv'
  OBVIOUS
<1>0. JobTypeInv /\ JobTypeInv'
  BY StepTyped DEF AnswerInv
<1> USE <1>0, OutcomeNames, ClientAssumption DEF OneWaiter, AnswerInv, FutureHeld, ResultTrue, AnswersTruthful,
    JobTypeInv, TypeOK, CallsTyped, Answer, Calls, Reply, Free, jobVars, resultVars, clientVars
<1>1. ASSUME Emit PROVE AnswerInv'
  BY <1>1 DEF Emit
<1>2. ASSUME Return PROVE AnswerInv'
  BY <1>2 DEF Return
<1>3. ASSUME Ready PROVE AnswerInv'
  BY <1>3 DEF Ready
<1>4. ASSUME NEW c \in Waiters, NEW call \in Calls, CallResolved(c, call) PROVE AnswerInv'
  BY <1>4 DEF CallResolved, Result
<1>5. ASSUME NEW c \in Waiters, NEW call \in Calls, CallNoFuture(c, call) PROVE AnswerInv'
  BY <1>5 DEF CallNoFuture
<1>6. ASSUME NEW c \in Waiters, NEW call \in Calls, CallTake(c, call) PROVE AnswerInv'
  BY <1>6 DEF CallTake
<1>7. ASSUME NEW c \in Clients, Unblock(c) PROVE AnswerInv'
  BY <1>7 DEF Unblock, Leave
<1>8. ASSUME NEW c \in Clients, UnblockThrown(c) PROVE AnswerInv'
  BY <1>8 DEF UnblockThrown
<1>9. ASSUME NEW c \in Clients, Reread(c) PROVE AnswerInv'
  BY <1>9 DEF Reread, Result
<1>10. ASSUME NEW c \in Clients, Joined(c) PROVE AnswerInv'
  BY <1>10 DEF Joined
<1>11. ASSUME NEW c \in Clients, PollDone(c) PROVE AnswerInv'
  BY <1>11 DEF PollDone, IsDone
<1>12. ASSUME NEW c \in Clients, PollProgress(c) PROVE AnswerInv'
  BY <1>12 DEF PollProgress
<1>13. ASSUME NEW c \in Clients, Cancel(c) PROVE AnswerInv'
  BY <1>13 DEF Cancel
<1>14. ASSUME NEW c \in Clients, Drop(c) PROVE AnswerInv'
  BY <1>14 DEF Drop
<1>15. ASSUME UNCHANGED vars PROVE AnswerInv'
  BY <1>15 DEF vars
<1> QED
  BY <1>1, <1>2, <1>3, <1>4, <1>5, <1>6, <1>7, <1>8, <1>9, <1>10, <1>11, <1>12, <1>13, <1>14, <1>15 DEF Next, Call, Continue

LEMMA InitAnswers == Init => AnswerInv
BY InitTyped DEF Init, AnswerInv, FutureHeld, ResultTrue, AnswersTruthful, Answer, Calls

(* A poll shows the last event, and the job's thread only sends later ones. *)
ShownLater == \A c \in Clients : shown'[c] >= shown[c]

LEMMA StepShown == JobTypeInv /\ ShownBehind /\ [Next]_vars => ShownBehind' /\ ShownLater
<1> SUFFICES ASSUME JobTypeInv, ShownBehind, [Next]_vars PROVE ShownBehind' /\ ShownLater
  OBVIOUS
<1>0. /\ shown \in [Clients -> 0 .. MaxEvents] /\ MaxEvents \in Nat
      /\ events \in 0 .. MaxEvents /\ progress = events /\ \A c \in Clients : shown[c] <= progress
  BY BoundAssumption DEF JobTypeInv, TypeOK, ShownBehind
<1>1. ASSUME Emit PROVE ShownBehind' /\ ShownLater
  BY <1>0, <1>1 DEF Emit, clientVars, ShownBehind, ShownLater
<1>2. ASSUME NEW c \in Clients, PollProgress(c) PROVE ShownBehind' /\ ShownLater
  BY <1>0, <1>2 DEF PollProgress, jobVars, ShownBehind, ShownLater
<1>3. ASSUME UNCHANGED <<events, progress, shown>> PROVE ShownBehind' /\ ShownLater
  BY <1>0, <1>3 DEF ShownBehind, ShownLater
<1>4. Return \/ Ready \/ UNCHANGED vars => UNCHANGED <<events, progress, shown>>
  BY DEF Return, Ready, vars, jobVars, clientVars
<1>5. ASSUME NEW c \in Waiters, Call(c) PROVE UNCHANGED <<events, progress, shown>>
  BY <1>5 DEF Call, CallResolved, CallNoFuture, CallTake, jobVars
<1>6. ASSUME NEW c \in Clients, Continue(c) \/ PollDone(c) \/ Cancel(c) \/ Drop(c)
      PROVE  UNCHANGED <<events, progress, shown>>
  BY <1>6 DEF Continue, Unblock, UnblockThrown, Reread, Joined, PollDone, Cancel, Drop, jobVars, clientVars
<1> QED
  BY <1>1, <1>2, <1>3, <1>4, <1>5, <1>6 DEF Next

-----------------------------------------------------------------------------
(* Whatever calls any number of threads make on the handle, every variable *)
(* keeps its type (job_handle.cpp); in particular no client is inside a    *)
(* call that it did not make.                                              *)
THEOREM HandleTypeCorrect == Spec => []TypeOK
<1>1. JobTypeInv => TypeOK
  BY DEF JobTypeInv
<1> QED
  BY <1>1, InitTyped, StepTyped, PTL DEF Spec

(* If one thread waits, however many others poll, cancel and drop the      *)
(* handle, what wait, error, stats and done tell is true of the job, also  *)
(* after the call that an exception left (JobHandleImpl::wait, error,      *)
(* stats, done). With two that wait it is not so: the one that comes while *)
(* the other has the future stores Internal for both.                      *)
THEOREM OneWaiterToldTrue ==
    ASSUME OneWaiter
    PROVE  Spec => []AnswersTruthful
<1>1. AnswerInv /\ [Next]_vars => AnswerInv'
  BY OneWaiter, StepAnswers
<1>2. AnswerInv => AnswersTruthful
  BY DEF AnswerInv
<1> QED
  BY <1>1, <1>2, InitAnswers, PTL DEF Spec

(* No client ever sees progress go backwards, and none is shown an event   *)
(* that was not sent (JobHandleImpl::publish_progress and progress).       *)
THEOREM ProgressNeverBack == Spec => []ShownBehind /\ ProgressMonotone
<1>1. Init => ShownBehind
  BY DEF Init, ShownBehind
<1>2. JobTypeInv /\ ShownBehind /\ [Next]_vars => [ShownLater]_vars
  BY StepShown
<1> QED
  BY <1>1, <1>2, InitTyped, StepTyped, StepShown, PTL DEF Spec, ProgressMonotone, ShownLater

-----------------------------------------------------------------------------
(* The handle as its clients see it, any number of whom may wait.          *)

(* A client that blocks has the future, one that reads again has a result, *)
(* and a result without an error is that of a job that succeeded.          *)
ResultHonest ==
    /\ \A c \in Clients : /\ pc[c] = "blocked" => future # "member"
                          /\ pc[c] = "reread" => resolved
    /\ resolved /\ error = "Ok" => job = "over" /\ outcome = "Ok"
    /\ stats = "final" => job = "over" /\ outcome = "Ok"
    /\ outcome = "Cancelled" => stop

(* Who is told of success, by error or by stats, is told of a job that     *)
(* succeeded.                                                              *)
OkIsTrue ==
    \A c \in Clients :
        answer[c] \in {Answer("error", "Ok"), Answer("stats", "final")} => job = "over" /\ outcome = "Ok"

HonestInv == JobTypeInv /\ ResultHonest /\ OkIsTrue

LEMMA StepHonest == HonestInv /\ [Next]_vars => HonestInv'
<1> SUFFICES ASSUME HonestInv, [Next]_vars PROVE HonestInv'
  OBVIOUS
<1>0. JobTypeInv /\ JobTypeInv'
  BY StepTyped DEF HonestInv
<1> USE <1>0, OutcomeNames, ClientAssumption DEF HonestInv, ResultHonest, OkIsTrue,
    JobTypeInv, TypeOK, CallsTyped, Answer, Calls, Reply, Free, jobVars, resultVars, clientVars
<1>1. ASSUME Emit PROVE HonestInv'
  BY <1>1 DEF Emit
<1>2. ASSUME Return PROVE HonestInv'
  BY <1>2 DEF Return
<1>3. ASSUME Ready PROVE HonestInv'
  BY <1>3 DEF Ready
<1>4. ASSUME NEW c \in Waiters, NEW call \in Calls, CallResolved(c, call) PROVE HonestInv'
  BY <1>4 DEF CallResolved, Result
<1>5. ASSUME NEW c \in Waiters, NEW call \in Calls, CallNoFuture(c, call) PROVE HonestInv'
  BY <1>5 DEF CallNoFuture
<1>6. ASSUME NEW c \in Waiters, NEW call \in Calls, CallTake(c, call) PROVE HonestInv'
  BY <1>6 DEF CallTake
<1>7. ASSUME NEW c \in Clients, Unblock(c) PROVE HonestInv'
  BY <1>7 DEF Unblock, Leave
<1>8. ASSUME NEW c \in Clients, UnblockThrown(c) PROVE HonestInv'
  BY <1>8 DEF UnblockThrown
<1>9. ASSUME NEW c \in Clients, Reread(c) PROVE HonestInv'
  BY <1>9 DEF Reread, Result
<1>10. ASSUME NEW c \in Clients, Joined(c) PROVE HonestInv'
  BY <1>10 DEF Joined
<1>11. ASSUME NEW c \in Clients, PollDone(c) PROVE HonestInv'
  BY <1>11 DEF PollDone
<1>12. ASSUME NEW c \in Clients, PollProgress(c) PROVE HonestInv'
  BY <1>12 DEF PollProgress
<1>13. ASSUME NEW c \in Clients, Cancel(c) PROVE HonestInv'
  BY <1>13 DEF Cancel
<1>14. ASSUME NEW c \in Clients, Drop(c) PROVE HonestInv'
  BY <1>14 DEF Drop
<1>15. ASSUME UNCHANGED vars PROVE HonestInv'
  BY <1>15 DEF vars
<1> QED
  BY <1>1, <1>2, <1>3, <1>4, <1>5, <1>6, <1>7, <1>8, <1>9, <1>10, <1>11, <1>12, <1>13, <1>14, <1>15 DEF Next, Call, Continue

LEMMA InitHonest == Init => HonestInv
BY InitTyped, OutcomeNames DEF Init, HonestInv, ResultHonest, OkIsTrue, Answer

LEMMA InitResult == Init => JR!Init
BY DEF Init, JR!Init

(* A call of the handle is one step of its result, or none. *)
LEMMA StepResult == HonestInv /\ [Next]_vars => [JR!Next]_JR!vars
<1> SUFFICES ASSUME HonestInv, [Next]_vars PROVE [JR!Next]_JR!vars
  OBVIOUS
<1> USE OutcomeNames, ClientAssumption DEF HonestInv, ResultHonest, JobTypeInv, TypeOK, CallsTyped, Free, jobVars, resultVars,
    JR!vars, JR!Next
<1>1. Emit \/ Return => UNCHANGED JR!vars
  BY DEF Emit, Return, LastReference
<1>2. Ready => JR!End
  BY DEF Ready, JR!End
<1>3. ASSUME NEW c \in Waiters, Call(c) PROVE [JR!Next]_JR!vars
  <2>1. ASSUME NEW call \in Calls, CallResolved(c, call) PROVE UNCHANGED JR!vars
    BY <2>1 DEF CallResolved
  <2>2. ASSUME NEW call \in Calls, CallNoFuture(c, call) PROVE JR!TurnAway
    BY <2>2 DEF CallNoFuture, JR!TurnAway
  <2>3. ASSUME NEW call \in Calls, CallTake(c, call) PROVE JR!Take
    BY <2>3 DEF CallTake, JR!Take
  <2> QED
    BY <1>3, <2>1, <2>2, <2>3 DEF Call
<1>4. ASSUME NEW c \in Clients, Unblock(c) PROVE JR!Get
  BY <1>4 DEF Unblock, JR!Get
<1>5. ASSUME NEW c \in Clients, UnblockThrown(c) \/ Reread(c) \/ Joined(c) \/ PollDone(c) \/ PollProgress(c)
      PROVE  UNCHANGED JR!vars
  BY <1>5 DEF UnblockThrown, Reread, Joined, PollDone, PollProgress
<1>6. ASSUME NEW c \in Clients, Cancel(c) \/ Drop(c) PROVE JR!RequestStop
  BY <1>6 DEF Cancel, Drop, JR!RequestStop
<1>7. UNCHANGED vars => UNCHANGED JR!vars
  BY DEF vars
<1> QED
  BY <1>1, <1>2, <1>3, <1>4, <1>5, <1>6, <1>7 DEF Next, Continue

(* Whoever is told that the job succeeded is told the truth, also when     *)
(* several threads wait at once and some are turned away with Internal:    *)
(* the false answers OneWaiterToldTrue excludes are all of that one kind   *)
(* (JobHandleImpl::wait, error, stats).                                    *)
THEOREM OkNeverFalse == Spec => []OkIsTrue
<1>1. HonestInv => OkIsTrue
  BY DEF HonestInv
<1> QED
  BY <1>1, InitHonest, StepHonest, PTL DEF Spec

(* The handle implements JobResult: any number of clients, whatever they   *)
(* call, move the future once, and store a result only when the job is     *)
(* over or the future is away.                                             *)
THEOREM TakesOnlyResultSteps == Spec => TakesJobResultSteps
BY InitHonest, StepHonest, InitResult, StepResult, PTL DEF Spec, TakesJobResultSteps, JR!Spec
=============================================================================
