------------------------------ MODULE IWriter -------------------------------
(***************************************************************************)
(* What every writer of an archive keeps (core/src/format/i_writer.hpp):   *)
(* the format it was made for, how far the calls begin, write_file and     *)
(* finish have come, and what is in the output, a sequence of records.     *)
(***************************************************************************)
EXTENDS Naturals, Sequences, SequencesExt

CONSTANT Formats    \* formats a job may ask for, among "zip", "gzip", "zstd" and others

VARIABLES
    format,   \* req.options.format
    pc,       \* new, open, failed: a call returned an error, finished
    stream    \* the records in the file

writerVars == <<format, pc, stream>>

WriterInit == format \in Formats /\ pc = "new" /\ stream = <<>>

(* begin opens the output and empties it, or cannot: it exists and may not *)
(* be replaced, or it cannot be opened.                                    *)
Opens == pc = "new" /\ pc' = "open" /\ UNCHANGED <<format, stream>>
Fails == pc' = "failed" /\ UNCHANGED format
OpenFails == pc = "new" /\ Fails /\ UNCHANGED stream
=============================================================================
