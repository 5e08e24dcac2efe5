------------------------------ MODULE PackJob ------------------------------
(***************************************************************************)
(* What one pack job promises its caller, without threads, queues or       *)
(* futures: the entries of the request reach the archive one by one in     *)
(* input order, the archive is sealed (central directory or gzip trailer   *)
(* flushed) only when every one of them is in it, "Ok" is reported exactly *)
(* then, and "Cancelled" only to a caller who asked for it.                *)
(*                                                                         *)
(* Pipeline.tla implements this specification.                             *)
(***************************************************************************)
EXTENDS Sequences, Naturals

CONSTANTS
    Entries,   \* the sequence of finished entries the request calls for
    Errors     \* the failures a job may report, "Cancelled" not among them

VARIABLES
    stop,      \* the caller has requested cancellation
    archive,   \* the entries written so far
    sealed,    \* the archive has been finished
    result     \* "none" while the job runs, then its outcome

vars == <<stop, archive, sealed, result>>

Running == result = "none"

Init ==
    /\ stop = FALSE
    /\ archive = <<>>
    /\ sealed = FALSE
    /\ result = "none"

(* JobHandle::cancel, at any time, also when the job is over. *)
RequestStop ==
    /\ ~stop
    /\ stop' = TRUE
    /\ UNCHANGED <<archive, sealed, result>>

(* The next entry of the request, and no other, is added. *)
Write ==
    /\ Running
    /\ Len(archive) < Len(Entries)
    /\ archive' = Append(archive, Entries[Len(archive) + 1])
    /\ UNCHANGED <<stop, sealed, result>>

(* A request that came in while nothing was left to write may be ignored. *)
Complete ==
    /\ Running
    /\ archive = Entries
    /\ sealed' = TRUE
    /\ result' = "Ok"
    /\ UNCHANGED <<stop, archive>>

Fail ==
    /\ Running
    /\ \/ stop /\ result' = "Cancelled"
       \/ result' \in Errors
    /\ UNCHANGED <<stop, archive, sealed>>

Next == RequestStop \/ Write \/ Complete \/ Fail

(* A running job always reaches an outcome. *)
Spec == Init /\ [][Next]_vars /\ WF_vars(Write \/ Complete \/ Fail)
=============================================================================
