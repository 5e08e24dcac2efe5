----------------------------- MODULE ZipWriter ------------------------------
(***************************************************************************)
(* ZipWriter (core/src/format/zip_writer.cpp) on a file that may refuse to *)
(* open and on which any write may fall short, and a reader of the archive *)
(* that follows the ZIP format (APPNOTE 4.3, 4.4 and 4.5.3).               *)
(*                                                                         *)
(* The output is a sequence of records at byte offsets. A record has the   *)
(* fields a reader uses; U32_MAX and U16_MAX stand for the largest values  *)
(* of 32- and 16-bit fields, and sizes and offsets are 64 bits wide.       *)
(***************************************************************************)
EXTENDS IWriter

CONSTANTS
    Files,      \* prepared files: [name, len, csize, usize], len that of the name
    MaxFiles,   \* bound on the files of an archive
    U32_MAX, U16_MAX

ASSUME LimitAssumption == U32_MAX \in Nat /\ U16_MAX \in Nat /\ MaxFiles \in Nat
ASSUME FilesAssumption == \A f \in Files : f.len \in Nat /\ f.csize \in Nat /\ f.usize \in Nat

VARIABLES
    bytes_written,   \* bytes_written_
    central,         \* central_
    needs_zip64,     \* needs_zip64_
    files            \* what write_file was given and took

zipVars == <<bytes_written, central, needs_zip64, files>>

ZipTypeOK ==
    /\ \A i \in DOMAIN stream : stream[i].at \in Nat /\ stream[i].size \in Nat
    /\ bytes_written \in Nat
    /\ \A e \in ToSet(central) : e.file \in Files /\ e.lfh_offset \in Nat
    /\ needs_zip64 \in BOOLEAN
    /\ files \in Seq(Files)

ZipInit ==
    /\ bytes_written = 0
    /\ central = <<>>
    /\ needs_zip64 = FALSE
    /\ files = <<>>

-----------------------------------------------------------------------------
(* Records.                                                                *)

(* A value in a 32-bit field, cast or masked. *)
Field32(masked, v) == IF masked THEN U32_MAX ELSE v % (U32_MAX + 1)
Field16(masked, v) == IF masked THEN U16_MAX ELSE v % (U16_MAX + 1)

NeedsZip64(e) ==
    e.file.csize >= U32_MAX \/ e.file.usize >= U32_MAX \/ e.lfh_offset >= U32_MAX

(* The local header, its name and its extra field of both sizes.           *)
LocalHeader(e, at) ==
    LET zip64 == NeedsZip64(e) IN
    [ kind  |-> "local", at |-> at,
      size  |-> 30 + e.file.len + IF zip64 THEN 20 ELSE 0,
      name  |-> e.file.name,
      csize |-> Field32(zip64, e.file.csize),
      usize |-> Field32(zip64, e.file.usize),
      extra |-> IF zip64 THEN <<e.file.usize, e.file.csize>> ELSE <<>> ]

Payload(e, at) == [kind |-> "payload", at |-> at, size |-> e.file.csize, name |-> e.file.name]

(* A central entry: all three values are masked if one of them overflows,  *)
(* and the extra field holds those that do.                                *)
Overflow(v) == IF v >= U32_MAX THEN <<v>> ELSE <<>>

CentralHeader(e, at) ==
    LET zip64 == NeedsZip64(e)
        extra == Overflow(e.file.usize) \o Overflow(e.file.csize) \o Overflow(e.lfh_offset)
    IN
    [ kind   |-> "central", at |-> at,
      size   |-> 46 + e.file.len + IF zip64 THEN 4 + 8 * Len(extra) ELSE 0,
      name   |-> e.file.name,
      csize  |-> Field32(zip64, e.file.csize),
      usize  |-> Field32(zip64, e.file.usize),
      offset |-> Field32(zip64, e.lfh_offset),
      extra  |-> extra ]

Eocd64(count, cdSize, cdOffset, at) ==
    [kind |-> "eocd64", at |-> at, size |-> 56, count |-> count, cdSize |-> cdSize, cdOffset |-> cdOffset]
Locator(offset, at) == [kind |-> "locator", at |-> at, size |-> 20, offset |-> offset]
Eocd(zip64, count, cdSize, cdOffset, at) ==
    [ kind |-> "eocd", at |-> at, size |-> 22,
      count    |-> Field16(zip64, count),
      cdSize   |-> Field32(zip64, cdSize),
      cdOffset |-> Field32(zip64, cdOffset) ]

(* The end of a sequence of records that starts at offset from. *)
End(records, from) == IF records = <<>> THEN from ELSE Last(records).at + Last(records).size

-----------------------------------------------------------------------------
(* begin.                                                                  *)

(* Mutant of ZipBeginFails: the writer is left half open. *)
ZipBeginFailsHalf == pc = "new" /\ pc' = "half-open" /\ UNCHANGED <<format, stream, zipVars>>

ZipBegin == Opens /\ UNCHANGED zipVars
ZipBeginFails == OpenFails /\ UNCHANGED zipVars

(* A call that writes these records: write_bytes advances bytes_written_.  *)
Write(records) ==
    /\ stream' = stream \o records
    /\ bytes_written' = End(records, bytes_written)

(* A write falls short: some of the records are in the file, a call has    *)
(* returned an error, and the job uses the writer no more.                 *)
WriteShort(records) ==
    /\ \E n \in 0 .. Len(records) - 1 : Write(SubSeq(records, 1, n))
    /\ Fails
    /\ UNCHANGED <<central, needs_zip64, files>>

-----------------------------------------------------------------------------
(* write_file.                                                             *)

(* Mutant of EntryOf: the offset is taken past the header. *)
EntryOfPayload(f) == [file |-> f, lfh_offset |-> bytes_written + 30 + f.len]

EntryOf(f) == [file |-> f, lfh_offset |-> bytes_written]

FileRecords(e) ==
    LET header == LocalHeader(e, bytes_written)
    IN  <<header, Payload(e, bytes_written + header.size)>>

(* Mutant of ZipWriteFile: the entry is kept before the writes that may fail. *)
ZipWriteFileEarly(f) ==
    /\ pc = "open"
    /\ Len(central) < MaxFiles
    /\ central' = Append(central, EntryOf(f))
    /\ needs_zip64' = (needs_zip64 \/ NeedsZip64(EntryOf(f)))
    /\ \E n \in 0 .. 2 : Write(SubSeq(FileRecords(EntryOf(f)), 1, n))
    /\ files' = Append(files, f)
    /\ UNCHANGED <<format, pc>>

ZipWriteFile(f) ==
    /\ pc = "open"
    /\ Len(central) < MaxFiles
    /\ Write(FileRecords(EntryOf(f)))
    /\ needs_zip64' = (needs_zip64 \/ NeedsZip64(EntryOf(f)))
    /\ central' = Append(central, EntryOf(f))
    /\ files' = Append(files, f)
    /\ UNCHANGED <<format, pc>>

ZipWriteFails(f) ==
    /\ pc = "open"
    /\ Len(central) < MaxFiles
    /\ WriteShort(FileRecords(EntryOf(f)))

-----------------------------------------------------------------------------
(* finish: write_eocd, flush and close.                                    *)

(* Where the entries of the directory end, one behind the other. *)
DirectoryEnds ==
    LET end[k \in 0 .. Len(central)] ==
            IF k = 0 THEN bytes_written ELSE end[k - 1] + CentralHeader(central[k], end[k - 1]).size
    IN  end

Directory == [k \in 1 .. Len(central) |-> CentralHeader(central[k], DirectoryEnds[k - 1])]

(* Mutant of EndRecords: the end record is masked only for what overflows itself. *)
EndRecordsByOwnSize(cdOffset, cdSize) ==
    LET zip64 == cdSize >= U32_MAX \/ cdOffset >= U32_MAX
        at == cdOffset + cdSize
    IN  IF zip64 THEN << Eocd64(Len(central), cdSize, cdOffset, at), Locator(at, at + 56),
                         Eocd(TRUE, Len(central), cdSize, cdOffset, at + 76) >>
                 ELSE << Eocd(FALSE, Len(central), cdSize, cdOffset, at) >>

EndRecords(cdOffset, cdSize) ==
    LET zip64 == \/ needs_zip64
                 \/ Len(central) >= U16_MAX
                 \/ cdSize >= U32_MAX
                 \/ cdOffset >= U32_MAX
        at == cdOffset + cdSize
    IN  IF zip64 THEN << Eocd64(Len(central), cdSize, cdOffset, at), Locator(at, at + 56),
                         Eocd(TRUE, Len(central), cdSize, cdOffset, at + 76) >>
                 ELSE << Eocd(FALSE, Len(central), cdSize, cdOffset, at) >>

ClosingRecords ==
    LET cdSize == DirectoryEnds[Len(central)] - bytes_written
    IN  Directory \o EndRecords(bytes_written, cdSize)

ZipFinish ==
    /\ pc = "open"
    /\ Write(ClosingRecords)
    /\ pc' = "finished"
    /\ UNCHANGED <<format, central, needs_zip64, files>>

ZipFinishFails ==
    /\ pc = "open"
    /\ WriteShort(ClosingRecords)

(* Everything was written but the flush fails. *)
ZipFlushFails ==
    /\ pc = "open"
    /\ Write(ClosingRecords)
    /\ Fails
    /\ UNCHANGED <<central, needs_zip64, files>>

ZipNext ==
    \/ ZipBegin \/ ZipBeginFails
    \/ \E f \in Files : ZipWriteFile(f) \/ ZipWriteFails(f)
    \/ ZipFinish \/ ZipFinishFails \/ ZipFlushFails

-----------------------------------------------------------------------------
(* The reader.                                                             *)

At(offset, kind) == {i \in DOMAIN stream : stream[i].at = offset /\ stream[i].kind = kind}
IsAt(offset, kind) == At(offset, kind) # {}
RecordAt(offset, kind) == stream[CHOOSE i \in At(offset, kind) : TRUE]

(* The directory, from the end record or, if that is masked, by way of the *)
(* locator in front of it.                                                 *)
EndRecord == Last(stream)
Masked == EndRecord.count = U16_MAX \/ EndRecord.cdSize = U32_MAX \/ EndRecord.cdOffset = U32_MAX
TheLocator == RecordAt(EndRecord.at - 20, "locator")
FoundDirectory ==
    LET r == IF Masked THEN RecordAt(TheLocator.offset, "eocd64") ELSE EndRecord
    IN  [count |-> r.count, size |-> r.cdSize, offset |-> r.cdOffset]

(* The values of a header's fields: one that is masked is the next value   *)
(* of the extra field, and missing if there is none left.                  *)
Values(fields, extra) ==
    LET MaskedUpTo(j) == Cardinality({i \in 1 .. j : fields[i] = U32_MAX})
    IN  [j \in DOMAIN fields |->
            IF fields[j] # U32_MAX THEN {fields[j]}
            ELSE {extra[i] : i \in {MaskedUpTo(j)} \cap DOMAIN extra}]

LocalValues(r) == Values(<<r.usize, r.csize>>, r.extra)
CentralValues(r) == Values(<<r.usize, r.csize, r.offset>>, r.extra)

(* Entries are read one after the other from the directory's offset. *)
EntryOffset ==
    LET offset[k \in 1 .. FoundDirectory.count] ==
            IF k = 1 THEN FoundDirectory.offset
            ELSE offset[k - 1] + RecordAt(offset[k - 1], "central").size
    IN  offset

-----------------------------------------------------------------------------
(* Properties.                                                             *)

Written == format = "zip" /\ pc = "finished"

(* The reader finds the directory, and in it as many entries as files were *)
(* written, one after the other up to the end records, on both sides of    *)
(* every limit.                                                            *)
DirectoryFound ==
    Written =>
        /\ Masked => IsAt(EndRecord.at - 20, "locator") /\ IsAt(TheLocator.offset, "eocd64")
        /\ FoundDirectory.count = Len(files)
        /\ FoundDirectory.offset + FoundDirectory.size =
              (IF Masked THEN TheLocator.offset ELSE EndRecord.at)
        /\ \A k \in 1 .. Len(files) :
              IsAt(EntryOffset[k], "central") /\ RecordAt(EntryOffset[k], "central").name = files[k].name

(* Entry k of the directory leads to its local header, both have the sizes *)
(* of the file, and the payload follows.                                   *)
Recovered(k) ==
    LET entry == RecordAt(EntryOffset[k], "central")
        values == CentralValues(entry)
        f == files[k]
        offset == central[k].lfh_offset
    IN  /\ values = <<{f.usize}, {f.csize}, {offset}>>
        /\ IsAt(offset, "local")
        /\ LET header == RecordAt(offset, "local")
           IN  /\ header.name = f.name
               /\ LocalValues(header) = <<{f.usize}, {f.csize}>>
               /\ IsAt(offset + header.size, "payload")

Large(k) == {v \in {files[k].usize, files[k].csize, central[k].lfh_offset} : v >= U32_MAX}
Small(k) == {v \in {files[k].usize, files[k].csize, central[k].lfh_offset} : v < U32_MAX}

(* An entry whose three values all fit 32 bits, or all do not, is read     *)
(* back as it was written.                                                 *)
UniformRecovered ==
    Written => \A k \in 1 .. Len(files) : Large(k) = {} \/ Small(k) = {} => Recovered(k)

(* zip_writer.hpp:15 "Promotes to Zip64 transparently when needed (any     *)
(* single file over 4 GiB, ...)": every entry is read back. It does not    *)
(* hold of an entry of which one value overflows and another does not: all *)
(* are masked, and only those that overflow are in the extra field.        *)
AllRecovered == Written => \A k \in 1 .. Len(files) : Recovered(k)

(* The directory to be written lists only files whose records are complete *)
(* (a file that failed leaves no entry), and a reader that goes from local *)
(* header to local header gets the name and both sizes of each, on both    *)
(* sides of the limit.                                                     *)
EntriesComplete ==
    \A k \in DOMAIN central :
        LET f == central[k].file
            header == RecordAt(central[k].lfh_offset, "local")
            payload == central[k].lfh_offset + header.size
        IN  /\ IsAt(central[k].lfh_offset, "local")
            /\ header.name = f.name
            /\ LocalValues(header) = <<{f.usize}, {f.csize}>>
            /\ IsAt(payload, "payload") /\ RecordAt(payload, "payload").size = f.csize
=============================================================================
