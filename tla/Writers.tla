------------------------------ MODULE Writers -------------------------------
(***************************************************************************)
(* The writer of a job: make_writer (core/src/format/writer_factory.cpp)   *)
(* and then the calls of run() on the writer it made, ZipWriter or         *)
(* GzipWriter. A format no writer exists for ends the job.                 *)
(***************************************************************************)
EXTENDS ZipWriter, GzipWriter

vars == <<writerVars, zipVars, gzipVars, payloadVars>>

TypeOK ==
    /\ format \in Formats
    /\ pc \in {"new", "open", "failed", "finished"}
    /\ format = "zip" => ZipTypeOK
    /\ format = "gzip" => GzipTypeOK /\ PayloadTypeOK

(* The split of a file is followed under the gzip writer. *)
Init ==
    /\ WriterInit /\ ZipInit /\ GzipInit
    /\ IF format = "gzip" THEN PayloadInit
       ELSE /\ total = 0 /\ block_bytes = DefaultBlock /\ payload = <<>>
            /\ crc = 0 /\ uncompressed = 0 /\ compressed = 0

NoWriter ==
    /\ format \notin {"zip", "gzip"}
    /\ OpenFails
    /\ UNCHANGED <<zipVars, gzipVars, payloadVars>>

Next ==
    \/ NoWriter
    \/ format = "zip" /\ ZipNext /\ UNCHANGED <<gzipVars, payloadVars>>
    \/ format = "gzip" /\ GzipNext /\ UNCHANGED zipVars
    \/ pc \in {"failed", "finished"} /\ UNCHANGED vars

Spec == Init /\ [][Next]_vars
=============================================================================
