----------------------------- MODULE JobResult ------------------------------
(***************************************************************************)
(* What the threads that share a job's handle count on, whoever they are   *)
(* and wherever they stand: the job ends once; one of them moves its       *)
(* future away and reads it when the job is over; one that comes while it  *)
(* is away stores Internal instead. JobHandle.tla implements this, and so  *)
(* does each job of Bridge.tla.                                            *)
(***************************************************************************)
CONSTANT Outcomes   \* what a job may end with

VARIABLES
    stop,       \* a stop was requested
    ended,      \* "none" while the job runs, then what it ended with
    moved,      \* the future has been moved out of the handle
    resolved,   \* the handle holds a result
    error       \* the error it holds, Ok if none

vars == <<stop, ended, moved, resolved, error>>

Init ==
    /\ stop = FALSE
    /\ ended = "none"
    /\ moved = FALSE
    /\ resolved = FALSE
    /\ error = "Ok"

RequestStop ==
    /\ stop' = TRUE
    /\ UNCHANGED <<ended, moved, resolved, error>>

End ==
    /\ ended = "none"
    /\ ended' \in Outcomes
    /\ ended' = "Cancelled" => stop
    /\ UNCHANGED <<stop, moved, resolved, error>>

Take ==
    /\ ~moved /\ ~resolved
    /\ moved' = TRUE
    /\ UNCHANGED <<stop, ended, resolved, error>>

TurnAway ==
    /\ moved /\ ~resolved
    /\ resolved' = TRUE
    /\ error' = "Internal"
    /\ UNCHANGED <<stop, ended, moved>>

(* An exception leaves with the thread that gets it, and nothing is stored. *)
Get ==
    /\ moved
    /\ ended \notin {"none", "thrown"}
    /\ resolved' = TRUE
    /\ error' = IF ended = "Ok" THEN error ELSE ended
    /\ UNCHANGED <<stop, ended, moved>>

Next == RequestStop \/ End \/ Take \/ TurnAway \/ Get

Spec == Init /\ [][Next]_vars
=============================================================================
