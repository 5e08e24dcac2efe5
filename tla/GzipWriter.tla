----------------------------- MODULE GzipWriter -----------------------------
(***************************************************************************)
(* A gzip job on one file: run() opens the output, the file's payload is   *)
(* made (FilePayload), and GzipWriter (core/src/format/gzip_writer.cpp)    *)
(* writes it. A second file may follow, and any write may fall short. A    *)
(* reader (RFC 1952) gets the output.                                      *)
(*                                                                         *)
(* The output is a sequence of pieces: the header of a member, deflate     *)
(* streams, and the trailer with the checksum and the size of the file.    *)
(***************************************************************************)
EXTENDS IWriter, FilePayload

VARIABLES
    wrote_one,   \* wrote_one_
    given        \* how many files write_file was given

gzipVars == <<wrote_one, given>>

GzipTypeOK ==
    /\ \A p \in ToSet(stream) :
          /\ p.kind \in {"header", "deflated", "trailer"}
          /\ p.kind = "trailer" => p.crc \in 0 .. CrcMod - 1 /\ p.isize \in 0 .. W32 - 1
    /\ wrote_one \in BOOLEAN
    /\ given \in 0 .. 2

GzipInit ==
    /\ wrote_one = FALSE
    /\ given = 0

-----------------------------------------------------------------------------
GzipBegin == Opens /\ UNCHANGED <<gzipVars, payloadVars>>
GzipBeginFails == OpenFails /\ UNCHANGED <<gzipVars, payloadVars>>

(* The file is read and compressed before write_file is called with it.    *)
Prepare ==
    /\ pc = "open"
    /\ AddBlock
    /\ UNCHANGED <<writerVars, gzipVars>>

PrepareFails ==
    /\ pc = "open"
    /\ Stuck
    /\ Fails
    /\ UNCHANGED <<stream, wrote_one, given, payloadVars>>

-----------------------------------------------------------------------------
(* write_file.                                                             *)

Header == <<[kind |-> "header"]>>
Blocks == [i \in DOMAIN payload |-> [kind |-> "deflated", data |-> payload[i]]]
Trailer(sum, size) == <<[kind |-> "trailer", crc |-> sum, isize |-> size]>>

(* Mutant of Member: the trailer is in front of the data. *)
MemberTrailerFirst == Header \o Trailer(crc, uncompressed % W32) \o Blocks

Member == Header \o Blocks \o Trailer(crc, uncompressed % W32)

Given ==
    /\ pc = "open"
    /\ Assembled
    /\ given < 2
    /\ given' = given + 1

GzipWriteFile ==
    /\ Given
    /\ ~wrote_one
    /\ wrote_one' = TRUE
    /\ stream' = stream \o Member
    /\ UNCHANGED <<format, pc, payloadVars>>

(* A second file. *)
Refuse ==
    /\ Given
    /\ wrote_one
    /\ Fails
    /\ UNCHANGED <<stream, wrote_one, payloadVars>>

(* Mutant of GzipWriteFails: the error of a write is not returned. *)
GzipWriteShortSilent ==
    /\ Given
    /\ ~wrote_one
    /\ wrote_one' = TRUE
    /\ \E n \in 0 .. Len(Member) - 1 : stream' = SubSeq(Member, 1, n)
    /\ UNCHANGED <<format, pc, payloadVars>>

GzipWriteFails ==
    /\ Given
    /\ ~wrote_one
    /\ wrote_one' = TRUE
    /\ \E n \in 0 .. Len(Member) - 1 : stream' = SubSeq(Member, 1, n)
    /\ Fails
    /\ UNCHANGED payloadVars

(* run calls finish when all files of the job, at least one, are written;  *)
(* the flush may fail.                                                     *)
GzipFinish ==
    /\ pc = "open"
    /\ given > 0
    /\ pc' \in {"finished", "failed"}
    /\ UNCHANGED <<format, stream, wrote_one, given, payloadVars>>

GzipNext ==
    \/ GzipBegin \/ GzipBeginFails
    \/ Prepare \/ PrepareFails
    \/ GzipWriteFile \/ Refuse \/ GzipWriteFails
    \/ GzipFinish

-----------------------------------------------------------------------------
(* The reader: it inflates up to the first final block, and takes what     *)
(* follows for the trailer.                                                *)

Deflates == {i \in DOMAIN stream : stream[i].kind = "deflated"}
StreamEnd ==
    LET ends == {i \in Deflates : stream[i].data.final}
    IN  CHOOSE i \in ends : \A j \in ends : i <= j
Inflated == UNION {stream[i].data.from .. stream[i].data.upto - 1 : i \in 2 .. StreamEnd}

GunzipsToFile ==
    /\ stream[1].kind = "header"
    /\ 2 .. StreamEnd \subseteq Deflates
    /\ Inflated = 0 .. total - 1
    /\ StreamEnd < Len(stream)
    /\ LET trailer == stream[StreamEnd + 1]
       IN  /\ trailer.kind = "trailer"
           /\ trailer.crc = Checksum(0, total)
           /\ trailer.isize = total % W32

-----------------------------------------------------------------------------
(* Properties.                                                             *)

GzipWritten == format = "gzip" /\ pc = "finished"

(* A finished output is one whole member, that of the job's only file: no  *)
(* write that fell short and no second file is passed over. A second file  *)
(* fails the job and leaves the member of the first as it was              *)
(* (architecture.md:147 "the partial output file is left on disk").        *)
OneMember ==
    format = "gzip" =>
        /\ pc = "finished" => given = 1 /\ stream = Member
        /\ pc = "failed" /\ given = 2 => stream = Member

(* A file of one block comes back out of a finished gzip file, and the     *)
(* trailer agrees with it.                                                 *)
OneBlockReadBack == GzipWritten /\ Fits /\ Len(payload) = 1 => GunzipsToFile

(* zlib_deflate_codec.cpp:26 "produces a raw deflate stream ... exactly    *)
(* what the ZIP local file header expects to follow": every file comes     *)
(* back. It does not hold of a file of two blocks: each block is a deflate *)
(* stream with a final block of its own, and the reader stops at the first.*)
ReadBack == GzipWritten /\ Fits => GunzipsToFile
=============================================================================
