------------------------------- MODULE Bridge -------------------------------
(***************************************************************************)
(* The C bridge (bridge/src/c_bridge.cpp): pack, cancel and destroy, called *)
(* on one engine by threads of the host program.                           *)
(*                                                                         *)
(* A pack call is also the name of its job. The handle of the job is as in *)
(* JobHandle: whoever waits first takes the future and blocks, and whoever *)
(* comes between that and the result is turned away. job_mutex is held for *)
(* one step by pack and cancel, and by destroy while it waits for the job. *)
(***************************************************************************)
EXTENDS Naturals

CONSTANTS
    Packs,      \* calls of collapsar_engine_pack
    Cancels,    \* calls of collapsar_engine_cancel
    Destroys,   \* whether collapsar_engine_destroy is called, at any moment
    NoPack      \* no job

ASSUME BridgeAssumption ==
    /\ NoPack \notin Packs
    /\ Destroys \in BOOLEAN

VARIABLES
    current,    \* engine->job
    pack,       \* where each pack call is
    report,     \* the status in out_result of each pack call
    cancel,     \* where each cancel call is
    found,      \* the job each cancel call found
    destroy,    \* where destroy is; past "unlocked" the engine is freed
    job,        \* each job: not submitted, running, over
    outcome,    \* what each job ended with
    stop,       \* jobs whose stop was requested
    taken,      \* jobs whose future a waiter has moved out
    resolved,   \* jobs whose handle holds a result
    error       \* the error each handle holds

handleVars == <<taken, resolved, error>>
jobVars == <<job, outcome>>
cancelVars == <<cancel, found>>
vars == <<current, pack, report, cancelVars, destroy, jobVars, stop, handleVars>>

(* "left": an exception has left the call. *)
PackStates == {"out", "entered", "submitted", "published", "blocked", "waited",
               "reported", "returned", "left", "undefined"}
DestroyStates == {"out", "cancelled", "blocked", "waited", "unlocked", "gone", "left"}
Statuses == {"Ok", "Failed", "Cancelled", "Internal"}

(* A job ends with a status of its own or with an exception of run(). *)
Outcomes == (Statuses \ {"Internal"}) \cup {"thrown"}

TypeOK ==
    /\ current \in Packs \cup {NoPack}
    /\ pack \in [Packs -> PackStates]
    /\ report \in [Packs -> Statuses \cup {"none"}]
    /\ cancel \in [Cancels -> {"out", "found", "returned"}]
    /\ found \in [Cancels -> Packs \cup {NoPack}]
    /\ destroy \in DestroyStates
    /\ job \in [Packs -> {"none", "running", "over"}]
    /\ outcome \in [Packs -> Outcomes \cup {"none"}]
    /\ stop \subseteq Packs
    /\ taken \subseteq Packs
    /\ resolved \subseteq Packs
    /\ error \in [Packs -> Statuses]

Init ==
    /\ current = NoPack
    /\ pack = [p \in Packs |-> "out"]
    /\ report = [p \in Packs |-> "none"]
    /\ cancel = [c \in Cancels |-> "out"]
    /\ found = [c \in Cancels |-> NoPack]
    /\ destroy = "out"
    /\ job = [p \in Packs |-> "none"]
    /\ outcome = [p \in Packs |-> "none"]
    /\ stop = {}
    /\ taken = {}
    /\ resolved = {}
    /\ error = [p \in Packs |-> "Ok"]

(* Mutant of Holding: destroy gives job_mutex up before it waits. *)
HoldingBriefly == destroy = "cancelled"

(* destroy has job_mutex. *)
Holding == destroy \in {"cancelled", "blocked", "waited"}

Gone == destroy = "gone"
Go(p, state) == pack' = [pack EXCEPT ![p] = state]

-----------------------------------------------------------------------------
(* The handle of p's job: JobHandleImpl::wait.                             *)

Resolved(p) ==
    /\ p \in resolved
    /\ UNCHANGED handleVars

TurnAway(p) ==
    /\ p \in taken \ resolved
    /\ resolved' = resolved \cup {p}
    /\ error' = [error EXCEPT ![p] = "Internal"]
    /\ UNCHANGED taken

Take(p) ==
    /\ p \notin taken \cup resolved
    /\ taken' = taken \cup {p}
    /\ UNCHANGED <<resolved, error>>

(* get() returns: an error is kept, success leaves the error as it is. *)
Get(p) ==
    /\ job[p] = "over"
    /\ outcome[p] # "thrown"
    /\ resolved' = resolved \cup {p}
    /\ error' = [error EXCEPT ![p] = IF outcome[p] = "Ok" THEN @ ELSE outcome[p]]
    /\ UNCHANGED taken

(* get() throws: the future is gone and nothing is stored. *)
GetThrows(p) ==
    /\ job[p] = "over"
    /\ outcome[p] = "thrown"
    /\ UNCHANGED handleVars

-----------------------------------------------------------------------------
(* collapsar_engine_pack, call p. Nobody calls once destroy has begun.     *)

Enter(p) ==
    /\ pack[p] = "out"
    /\ destroy = "out"
    /\ Go(p, "entered")
    /\ UNCHANGED <<current, report, cancelVars, destroy, jobVars, stop, handleVars>>

Submit(p) ==
    /\ pack[p] = "entered"
    /\ ~Gone
    /\ Go(p, "submitted")
    /\ job' = [job EXCEPT ![p] = "running"]
    /\ UNCHANGED <<current, report, cancelVars, destroy, outcome, stop, handleVars>>

(* Mutant of SubmitFails: the result is not looked at. *)
SubmitFailsUnseen(p) ==
    /\ pack[p] = "entered"
    /\ ~Gone
    /\ Go(p, "submitted")
    /\ job' = [job EXCEPT ![p] = "garbage"]
    /\ UNCHANGED <<current, report, cancelVars, destroy, outcome, stop, handleVars>>

(* A null engine or output, or a request that submit refuses: no job. *)
SubmitFails(p) ==
    /\ pack[p] = "entered"
    /\ ~Gone
    /\ Go(p, "returned")
    /\ report' = [report EXCEPT ![p] = "Failed"]
    /\ UNCHANGED <<current, cancelVars, destroy, jobVars, stop, handleVars>>

(* Mutant of Publish: the job is not stored. *)
PublishNot(p) ==
    /\ pack[p] = "submitted"
    /\ ~Holding /\ ~Gone
    /\ Go(p, "published")
    /\ UNCHANGED <<current, report, cancelVars, destroy, jobVars, stop, handleVars>>

Publish(p) ==
    /\ pack[p] = "submitted"
    /\ ~Holding /\ ~Gone
    /\ current' = p
    /\ Go(p, "published")
    /\ UNCHANGED <<report, cancelVars, destroy, jobVars, stop, handleVars>>

Wait(p) ==
    /\ pack[p] = "published"
    /\ \/ Take(p) /\ Go(p, "blocked")
       \/ (Resolved(p) \/ TurnAway(p)) /\ Go(p, "waited")
    /\ UNCHANGED <<current, report, cancelVars, destroy, jobVars, stop>>

Unblock(p) ==
    /\ pack[p] = "blocked"
    /\ Get(p)
    /\ Go(p, "waited")
    /\ UNCHANGED <<current, report, cancelVars, destroy, jobVars, stop>>

(* Nothing in pack catches the exception: what comes behind the wait is not *)
(* done, the engine keeps the job, and out_result stays empty.             *)
UnblockThrown(p) ==
    /\ pack[p] = "blocked"
    /\ GetThrows(p)
    /\ Go(p, "left")
    /\ UNCHANGED <<current, report, cancelVars, destroy, jobVars, stop>>

(* Mutant of Report: the error of whichever job the engine has. *)
ReportCurrent(p) ==
    /\ pack[p] = "waited"
    /\ report' = [report EXCEPT ![p] = error[IF current = NoPack THEN p ELSE current]]
    /\ Go(p, "reported")
    /\ UNCHANGED <<current, cancelVars, destroy, jobVars, stop, handleVars>>

Report(p) ==
    /\ pack[p] = "waited"
    /\ report' = [report EXCEPT ![p] = error[p]]
    /\ Go(p, "reported")
    /\ UNCHANGED <<current, cancelVars, destroy, jobVars, stop, handleVars>>

(* Mutant of Clear: the job stays. *)
ClearNot(p) ==
    /\ pack[p] = "reported"
    /\ ~Holding /\ ~Gone
    /\ Go(p, "returned")
    /\ UNCHANGED <<current, report, cancelVars, destroy, jobVars, stop, handleVars>>

(* Mutant of Clear: it waits for its turn. *)
ClearInTurn(p) ==
    /\ pack[p] = "reported"
    /\ current = p
    /\ ~Holding /\ ~Gone
    /\ current' = NoPack
    /\ Go(p, "returned")
    /\ UNCHANGED <<report, cancelVars, destroy, jobVars, stop, handleVars>>

(* engine->job.reset(), whosever job it is by now. The last reference to   *)
(* the handle of p goes too, and with it the stop is requested of a job    *)
(* that is over.                                                           *)
Clear(p) ==
    /\ pack[p] = "reported"
    /\ ~Holding /\ ~Gone
    /\ current' = NoPack
    /\ Go(p, "returned")
    /\ UNCHANGED <<report, cancelVars, destroy, jobVars, stop, handleVars>>

(* The engine is touched after destroy has freed it. *)
Dangle(p) ==
    /\ pack[p] \in {"entered", "submitted", "reported"}
    /\ Gone
    /\ Go(p, "undefined")
    /\ UNCHANGED <<current, report, cancelVars, destroy, jobVars, stop, handleVars>>

Call(p) ==
    \/ Submit(p) \/ SubmitFails(p) \/ Publish(p)
    \/ Wait(p) \/ Unblock(p) \/ UnblockThrown(p) \/ Report(p) \/ Clear(p)
    \/ Dangle(p)

(* The job of p. *)
JobEnds(p) ==
    /\ job[p] = "running"
    /\ job' = [job EXCEPT ![p] = "over"]
    /\ \E o \in Outcomes :
          /\ o = "Cancelled" => p \in stop
          /\ outcome' = [outcome EXCEPT ![p] = o]
    /\ UNCHANGED <<current, pack, report, cancelVars, destroy, stop, handleVars>>

-----------------------------------------------------------------------------
(* collapsar_engine_cancel, call c: the job is copied under the lock and   *)
(* stopped without it.                                                     *)

Find(c) ==
    /\ cancel[c] = "out"
    /\ destroy = "out"
    /\ found' = [found EXCEPT ![c] = current]
    /\ cancel' = [cancel EXCEPT ![c] = IF current = NoPack THEN "returned" ELSE "found"]
    /\ UNCHANGED <<current, pack, report, destroy, jobVars, stop, handleVars>>

Stop(c) ==
    /\ cancel[c] = "found"
    /\ stop' = stop \cup {found[c]}
    /\ cancel' = [cancel EXCEPT ![c] = "returned"]
    /\ UNCHANGED <<current, pack, report, found, destroy, jobVars, handleVars>>

-----------------------------------------------------------------------------
(* collapsar_engine_destroy.                                               *)

DestroyLock ==
    /\ Destroys
    /\ destroy = "out"
    /\ destroy' = IF current = NoPack THEN "unlocked" ELSE "cancelled"
    /\ stop' = stop \cup ({current} \ {NoPack})
    /\ UNCHANGED <<current, pack, report, cancelVars, jobVars, handleVars>>

DestroyWait ==
    /\ destroy = "cancelled"
    /\ \/ Take(current) /\ destroy' = "blocked"
       \/ (Resolved(current) \/ TurnAway(current)) /\ destroy' = "waited"
    /\ UNCHANGED <<current, pack, report, cancelVars, jobVars, stop>>

DestroyUnblock ==
    /\ destroy = "blocked"
    /\ Get(current)
    /\ destroy' = "waited"
    /\ UNCHANGED <<current, pack, report, cancelVars, jobVars, stop>>

(* The exception gives job_mutex up and leaves the engine as it is. *)
DestroyUnblockThrown ==
    /\ destroy = "blocked"
    /\ GetThrows(current)
    /\ destroy' = "left"
    /\ UNCHANGED <<current, pack, report, cancelVars, jobVars, stop>>

DestroyReset ==
    /\ destroy = "waited"
    /\ current' = NoPack
    /\ destroy' = "unlocked"
    /\ UNCHANGED <<pack, report, cancelVars, jobVars, stop, handleVars>>

Delete ==
    /\ destroy = "unlocked"
    /\ destroy' = "gone"
    /\ UNCHANGED <<current, pack, report, cancelVars, jobVars, stop, handleVars>>

Destroy == DestroyWait \/ DestroyUnblock \/ DestroyUnblockThrown \/ DestroyReset \/ Delete

Next ==
    \/ \E p \in Packs : Enter(p) \/ Call(p) \/ JobEnds(p)
    \/ \E c \in Cancels : Find(c) \/ Stop(c)
    \/ DestroyLock \/ Destroy

(* Calls go on and jobs end; nobody has to call.                           *)
Spec ==
    /\ Init /\ [][Next]_vars
    /\ \A p \in Packs : WF_vars(Call(p)) /\ WF_vars(JobEnds(p))
    /\ \A c \in Cancels : WF_vars(Stop(c))
    /\ WF_vars(Destroy)

-----------------------------------------------------------------------------
(* Properties.                                                             *)

(* c_bridge.h:156 "Blocks until the job completes": a pack that has        *)
(* returned, or that an exception has left, leaves no job running, also    *)
(* when destroy took its future.                                           *)
PackBlocks == \A p \in Packs : pack[p] \in {"returned", "left"} => job[p] # "running"

(* A pack reports the outcome of its own job, whatever other packs do; only *)
(* destroy, which waits for the same job, can make it Internal. An         *)
(* exception is never reported, and leaves the pack whose job it ended.    *)
ReportsOwn ==
    \A p \in Packs :
        /\ pack[p] \in {"reported", "returned"} /\ job[p] # "none" =>
              \/ report[p] = outcome[p] /\ outcome[p] # "thrown"
              \/ report[p] = "Internal" /\ destroy # "out"
        /\ pack[p] = "left" => outcome[p] = "thrown"

(* The engine never shows a job whose pack has returned, so a late cancel  *)
(* or a later destroy finds nothing; the one job that it may show after    *)
(* its pack is one that ended with an exception, which goes past the       *)
(* reset (c_bridge.cpp:223-231). And a stop is only ever requested of the  *)
(* job a cancel found, or by destroy: a cancel that is overtaken by the    *)
(* end of its job and the start of the next does not stop the next.        *)
CancelsMeant ==
    /\ current # NoPack /\ ~Gone =>
          \/ pack[current] \in {"published", "blocked", "waited", "reported"}
          \/ pack[current] = "left" /\ job[current] = "over" /\ outcome[current] = "thrown"
    /\ \A p \in stop : destroy # "out" \/ \E c \in Cancels : found[c] = p

(* Calls come to an end: a pack, which waits for job_mutex and for its     *)
(* job, and destroy, which waits for the job with job_mutex held; each by  *)
(* returning, or by the exception of the job it waited for.                *)
CallsReturn ==
    /\ \A p \in Packs : pack[p] = "entered" ~>
          pack[p] \in {"returned", "undefined"} \/ (pack[p] = "left" /\ outcome[p] = "thrown")
    /\ destroy = "cancelled" ~> Gone \/ destroy = "left"

Missed(c) == cancel[c] = "out" /\ cancel'[c] = "returned"

(* A cancel finds the job of a pack that waits for it, unless another pack *)
(* has returned: of two packs the second hides the job of the first, so    *)
(* that a cancel finds the second's, and the first to end takes the other's *)
(* away. An exception that leaves a pack takes nothing away. (Before       *)
(* Publish the job, though it runs already, is not found: c_bridge.h:171   *)
(* "the currently running pack call" is the one that has come that far.)   *)
CancelReachesWaiting ==
    [][\A c \in Cancels, p \in Packs :
          Missed(c) /\ pack[p] \in {"published", "blocked"}
             => \E q \in Packs \ {p} : pack[q] = "returned"]_vars

(* job.hpp:44 "Block until the job finishes, fails, or is cancelled": when *)
(* destroy has waited, the job no longer runs on the engine it will free.  *)
(* It does not hold: pack waits for the same job, so destroy is turned     *)
(* away at once.                                                           *)
DestroyWaits == destroy = "waited" => job[current] = "over"

(* The handle of each pack's job is as JobResult says, whichever of pack   *)
(* and destroy waits for it first.                                         *)
JR(p) == INSTANCE JobResult WITH
    stop <- p \in stop, ended <- outcome[p], moved <- p \in taken,
    resolved <- p \in resolved, error <- error[p]
TakesJobResultSteps ==
    /\ \A p \in Packs : JR(p)!Init
    /\ [][\A p \in Packs : [JR(p)!Next]_(JR(p)!vars)]_vars
=============================================================================
