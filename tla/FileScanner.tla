---------------------------- MODULE FileScanner -----------------------------
(***************************************************************************)
(* scan (core/src/io/file_scanner.cpp): from the input paths of a job to   *)
(* its list of files, on a file system of which any query may fail.        *)
(*                                                                         *)
(* A path is the sequence of its elements, naturals for their order. Each  *)
(* query of the file system sets the one error code ec, or clears it; a    *)
(* directory that may not be opened is skipped, and ec is clear.           *)
(***************************************************************************)
EXTENDS Naturals, Sequences, SequencesExt

CONSTANTS
    Tree,        \* [input -> [path, kind, size, base, under]], under a set of TreeEntries
    Up,          \* the element ..
    BadSize,     \* what a size query returns when it fails: 2^64 - 1
    MaxFaults    \* bound on the queries that fail in a run

(* What an iterator finds: real is the path without symbolic links.        *)
TreeEntries == [path : Seq(Nat), real : Seq(Nat), deep : BOOLEAN, regular : BOOLEAN, size : Nat]

Inside(path, dir) == Len(dir) < Len(path) /\ \A k \in DOMAIN dir : path[k] = dir[k]

(* What is under a directory has a path of its own that goes through it.   *)
Hierarchy(root, under) ==
    /\ root \in Seq(Nat)
    /\ under \subseteq TreeEntries
    /\ \A e \in under : Inside(e.path, root)
    /\ \A e, f \in under : e.path = f.path => e = f

ASSUME FileScannerAssumption ==
    /\ \A w \in DOMAIN Tree : Hierarchy(Tree[w].path, Tree[w].under)
    /\ MaxFaults \in Nat

VARIABLES
    inputs,      \* req.inputs
    recurse,     \* req.options.recurse
    input,       \* the input the loop is at
    walk,        \* none, step: an entry is handled next, increment
    left,        \* what the directory iterator has not reached
    reached,     \* the path of the entry it is at
    before,      \* the entries in front of the directory
    entries,
    ec,          \* whether the error code is set
    scanned,     \* the status scan returns, or threw
    faults,      \* queries that failed
    dropped,     \* files not taken for regular: <<input, path>>
    skipped,     \* directories that could not be opened: <<input, path>>
    misread      \* files whose size was not read: <<input, path>>

ghostVars == <<dropped, skipped, misread>>
walkVars == <<inputs, recurse, input, walk, left, reached, before, entries, ec, scanned, ghostVars>>
scanVars == <<walkVars, faults>>

ScanTypeOK ==
    /\ inputs \in Seq(DOMAIN Tree)
    /\ recurse \in BOOLEAN
    /\ input \in 1 .. Len(inputs) + 1
    /\ walk \in {"none", "step", "increment"}
    /\ walk # "none" => left \subseteq Tree[inputs[input]].under
    /\ reached \in Seq(Nat)
    /\ before \in 0 .. Len(entries)
    /\ ec \in BOOLEAN
    /\ scanned \in {"none", "Ok", "NotFound", "Io", "InvalidArgument", "threw"}
    /\ faults \in 0 .. MaxFaults

ScanInit ==
    /\ inputs = <<>> /\ recurse = TRUE
    /\ input = 1 /\ walk = "none" /\ left = {} /\ reached = <<>> /\ before = 0
    /\ entries = <<>> /\ ec = FALSE /\ scanned = "none"
    /\ faults = 0 /\ dropped = {} /\ skipped = {} /\ misread = {}

-----------------------------------------------------------------------------
(* Names in the archive.                                                   *)

(* A path as operator< has it: element by element, a prefix first.         *)
Precedes(a, b) ==
    \E n \in DOMAIN b :
        /\ n <= Len(a) + 1
        /\ SubSeq(a, 1, n - 1) = SubSeq(b, 1, n - 1)
        /\ n <= Len(a) => a[n] < b[n]

(* fs::relative: both paths are canonical, and what leads from base to     *)
(* file goes up out of what they do not share.                             *)
ArchivePath(base, file) ==
    LET shared == Len(LongestCommonPrefix({base, file}))
    IN  [k \in 1 .. Len(base) - shared |-> Up] \o SubSeq(file, shared + 1, Len(file))

FileEntry(path, name, size) == [source |-> path, archive_path |-> name, size_bytes |-> size]

-----------------------------------------------------------------------------
(* The loop over the inputs.                                               *)

Here == Tree[inputs[input]]
AtInput == scanned = "none" /\ walk = "none" /\ input <= Len(inputs)

(* n queries of a step fail. *)
Fail(n) == faults + n <= MaxFaults /\ faults' = faults + n
Count(failed) == IF failed THEN 1 ELSE 0

NotFound ==
    /\ AtInput
    /\ Fail(Count(Here.kind # "missing"))
    /\ scanned' = "NotFound"
    /\ UNCHANGED <<inputs, recurse, input, walk, left, reached, before, entries, ec, ghostVars>>

(* A file: the size and then the time are asked for, and only the error    *)
(* code of the time is looked at.                                          *)
ScanFile ==
    /\ AtInput
    /\ Here.kind = "file"
    /\ \E noSize, noTime \in BOOLEAN :
          /\ Fail(Count(noSize) + Count(noTime))
          /\ ec' = noTime
          /\ IF noTime THEN scanned' = "Io" /\ UNCHANGED <<input, entries, misread>>
             ELSE /\ entries' = Append(entries, FileEntry(Here.path, <<Last(Here.path)>>,
                                                          IF noSize THEN BadSize ELSE Here.size))
                  /\ misread' = IF noSize THEN misread \cup {<<input, Here.path>>} ELSE misread
                  /\ input' = input + 1
                  /\ UNCHANGED scanned
    /\ UNCHANGED <<inputs, recurse, walk, left, reached, before, dropped, skipped>>

(* Neither a file nor a directory, or a query says so by failing.          *)
NotSupported ==
    /\ AtInput
    /\ Here.kind # "missing"
    /\ Fail(Count(Here.kind # "other"))
    /\ scanned' = "InvalidArgument"
    /\ UNCHANGED <<inputs, recurse, input, walk, left, reached, before, entries, ec, ghostVars>>

-----------------------------------------------------------------------------
(* scan_directory.                                                         *)

InWalk == {e \in Here.under : recurse \/ ~e.deep}

WalkStarts ==
    /\ AtInput
    /\ Here.kind = "dir"
    /\ \E failed \in BOOLEAN : Fail(Count(failed)) /\ ec' = failed
    /\ walk' = "step"
    /\ left' = InWalk
    /\ before' = Len(entries)
    /\ UNCHANGED <<inputs, recurse, input, reached, entries, scanned, ghostVars>>

(* The input may not be opened (skip_permission_denied): an empty walk.    *)
WalkDenied ==
    /\ AtInput
    /\ Here.kind = "dir"
    /\ Fail(1)
    /\ ec' = FALSE
    /\ walk' = "step"
    /\ left' = {}
    /\ before' = Len(entries)
    /\ skipped' = skipped \cup {<<input, Here.path>>}
    /\ UNCHANGED <<inputs, recurse, input, reached, entries, scanned, dropped, misread>>

(* The iterator is at e: what is inside a directory comes after it.        *)
At(e) ==
    /\ walk = "step" /\ ~ec /\ scanned = "none"
    /\ e \in left
    /\ \A d \in left : ~Inside(e.path, d.path)

(* What was at e is done. *)
Passed(e) ==
    /\ left' = left \ {e}
    /\ reached' = e.path
    /\ walk' = "increment"

(* Mutant of HandleEntry: the entry of a file that could not be read is left out. *)
HandleEntryChecked(e) ==
    /\ At(e)
    /\ e.regular
    /\ \E noSize, noTime \in BOOLEAN :
          /\ Fail(Count(noSize) + Count(noTime))
          /\ ec' = noTime
          /\ entries' = IF noTime THEN entries
                        ELSE Append(entries, FileEntry(e.path, ArchivePath(Here.base, e.real),
                                                       IF noSize THEN BadSize ELSE e.size))
          /\ misread' = IF noSize THEN misread \cup {<<input, e.path>>} ELSE misread
    /\ Passed(e)
    /\ UNCHANGED <<inputs, recurse, input, before, scanned, dropped, skipped>>

(* The iterator is at e, a regular file: size and time are asked for, and  *)
(* the entry is kept whether they were told or not.                        *)
HandleEntry(e) ==
    /\ At(e)
    /\ e.regular
    /\ \E noSize, noTime \in BOOLEAN :
          /\ Fail(Count(noSize) + Count(noTime))
          /\ ec' = noTime
          /\ misread' = IF noSize THEN misread \cup {<<input, e.path>>} ELSE misread
          /\ entries' = Append(entries, FileEntry(e.path, ArchivePath(Here.base, e.real),
                                                  IF noSize THEN BadSize ELSE e.size))
    /\ Passed(e)
    /\ UNCHANGED <<inputs, recurse, input, before, scanned, dropped, skipped>>

(* e is no regular file, or the query of its type fails. *)
PassOver(e) ==
    /\ At(e)
    /\ Fail(Count(e.regular))
    /\ ec' = e.regular
    /\ dropped' = IF e.regular THEN dropped \cup {<<input, e.path>>} ELSE dropped
    /\ Passed(e)
    /\ UNCHANGED <<inputs, recurse, input, before, entries, scanned, skipped, misread>>

(* The overload of fs::relative that the name is made with throws. *)
RelativeThrows(e) ==
    /\ At(e)
    /\ e.regular
    /\ Fail(1)
    /\ scanned' = "threw"
    /\ UNCHANGED <<inputs, recurse, input, walk, left, reached, before, entries, ec, ghostVars>>

(* The iterator goes on, and what a query of the entry failed with is gone. *)
Increment ==
    /\ walk = "increment"
    /\ \E failed \in BOOLEAN : Fail(Count(failed)) /\ ec' = failed
    /\ walk' = "step"
    /\ UNCHANGED <<inputs, recurse, input, left, reached, before, entries, scanned, ghostVars>>

(* The directory the iterator is at may not be opened: what is inside is   *)
(* not visited.                                                            *)
SkipDirectory ==
    /\ walk = "increment"
    /\ recurse
    /\ \E d \in Here.under : d.path = reached /\ ~d.regular
    /\ Fail(1)
    /\ ec' = FALSE
    /\ walk' = "step"
    /\ left' = {e \in left : ~Inside(e.path, reached)}
    /\ skipped' = skipped \cup {<<input, reached>>}
    /\ UNCHANGED <<inputs, recurse, input, reached, before, entries, scanned, dropped, misread>>

WalkFails ==
    /\ walk = "step" /\ scanned = "none"
    /\ ec
    /\ scanned' = "Io"
    /\ UNCHANGED <<inputs, recurse, input, walk, left, reached, before, entries, ec, ghostVars, faults>>

(* std::sort: files whose names are equal come in any order.               *)
ByArchivePath(list) ==
    {sorted \in {[n \in DOMAIN list |-> list[order[n]]] : order \in Bijection(DOMAIN list, DOMAIN list)} :
        \A j, k \in DOMAIN list : j < k => ~Precedes(sorted[k].archive_path, sorted[j].archive_path)}

WalkEnds ==
    /\ walk = "step" /\ ~ec /\ scanned = "none"
    /\ left = {}
    /\ \E sorted \in ByArchivePath(SubSeq(entries, before + 1, Len(entries))) :
          entries' = SubSeq(entries, 1, before) \o sorted
    /\ walk' = "none"
    /\ input' = input + 1
    /\ UNCHANGED <<inputs, recurse, left, reached, before, ec, scanned, ghostVars, faults>>

ScanEnds ==
    /\ scanned = "none" /\ input > Len(inputs)
    /\ scanned' = "Ok"
    /\ UNCHANGED <<inputs, recurse, input, walk, left, reached, before, entries, ec, ghostVars, faults>>

ScanNext ==
    \/ NotFound \/ ScanFile \/ NotSupported
    \/ WalkStarts \/ WalkDenied \/ Increment \/ SkipDirectory \/ WalkFails \/ WalkEnds
    \/ \E e \in left : HandleEntry(e) \/ PassOver(e) \/ RelativeThrows(e)
    \/ ScanEnds

-----------------------------------------------------------------------------
(* What scan lists.                                                        *)

SizeOf(k, path, size) == IF <<k, path>> \in misread THEN BadSize ELSE size

(* A directory on the way to a path could not be opened. *)
Closed(k, path) == \E s \in skipped : s[1] = k /\ Inside(path, s[2])

(* What is under input k once its queries have told what they told.        *)
Found(k) ==
    {e \in Tree[inputs[k]].under :
        (recurse \/ ~e.deep) /\ e.regular /\ <<k, e.path>> \notin dropped /\ ~Closed(k, e.path)}

EntryOf(k, e) ==
    FileEntry(e.path, ArchivePath(Tree[inputs[k]].base, e.real), SizeOf(k, e.path, e.size))

(* The files of input k. *)
Listing(k) ==
    LET root == Tree[inputs[k]]
    IN  IF root.kind = "file"
        THEN {FileEntry(root.path, <<Last(root.path)>>, SizeOf(k, root.path, root.size))}
        ELSE {EntryOf(k, e) : e \in Found(k)}

(* The entries behind the n-th, up to the m-th, are these files by name. *)
ListsByName(n, m, files) ==
    /\ {entries[k] : k \in n + 1 .. m} = files
    /\ \A j, k \in n + 1 .. m : j < k =>
          /\ entries[j].source # entries[k].source
          /\ ~Precedes(entries[k].archive_path, entries[j].archive_path)

(* The entries up to the n-th are the files of the first k inputs. *)
ListsInputs(k, n) ==
    \E cut \in [0 .. k -> 0 .. n] :
        /\ cut[0] = 0 /\ cut[k] = n
        /\ \A j \in 1 .. k : cut[j - 1] <= cut[j] /\ ListsByName(cut[j - 1], cut[j], Listing(j))

(* A scan that succeeds lists every regular file of every input, once, the *)
(* inputs in their order and the files of a directory by name, whatever    *)
(* order the iterator has and however deep they are. A file is missing     *)
(* only if its type could not be read or a directory on its way could not  *)
(* be opened, with all that is in it, which the scan does not tell; its    *)
(* size is wrong only if it could not be read; and none of this comes of   *)
(* another file's failure: the error code that later queries overwrite     *)
(* (file_scanner.cpp:22-28) decides nothing but whether the walk goes on.  *)
(* (Names may be equal: a link to a file has that file's, line 16.)        *)
ListingExact == scanned = "Ok" => ListsInputs(Len(inputs), Len(entries))
=============================================================================
