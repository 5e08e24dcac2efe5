--------------------------- MODULE PipelineProofs ---------------------------
(***************************************************************************)
(* Theorems about Pipeline.tla, for every number of files, blocks and      *)
(* threads.                                                                *)
(***************************************************************************)
EXTENDS Pipeline, DataLemmas

(* Where run()'s loops are, and how much of the archive that implies. *)
Position ==
    /\ pc \in {"setup", "submit", "read", "get"} => next <= NumFiles
    /\ pc \in {"setup", "submit", "read"} => Len(archive) = 0
    /\ pc = "setup" => next = 1
    /\ pc \in {"drain", "get"} => Len(archive) = next - 1
    /\ pc = "finish" => Len(archive) = NumFiles

(* The first n blocks of f, in order. *)
BlocksUpTo(s, f, n) == Len(s) = n /\ \A b \in 1 .. n : s[b] = <<f, b>>

(* What a CPU thread has collected of its file. *)
WellFormed(t) ==
    \/ t = NoTask
    \/ /\ t.stage \in {"check", "get", "compress"}
       /\ t.file \in Files
       /\ t.block \in 1 .. BlockCount[t.file]
       /\ BlocksUpTo(t.out, t.file, t.block - 1)
    \/ /\ t.stage \in {"lock", "batch"}
       /\ t.file \in Files
       /\ BlocksUpTo(t.out, t.file, BlockCount[t.file])

TaskShape == \A w \in CpuWorkers : WellFormed(task[w])

(* A per-file future with a value holds the whole file. *)
FutureShape ==
    \A f \in Files : fileFut[f].status = "value" =>
                         BlocksUpTo(fileFut[f].blocks, f, BlockCount[f])

(* The files run() has queued a task for have a future. *)
Submitted ==
    /\ pc \in {"setup", "submit", "read"} => \A f \in 1 .. next - 1 : fileFut[f].status # "none"
    /\ pc \in {"drain", "get", "finish"} => \A f \in Files : fileFut[f].status # "none"

OrderInv ==
    TypeOK /\ Position /\ Submitted /\ TaskShape /\ FutureShape /\ ArchiveInOrder

(* Reads and tasks that have not been queued have no future yet, and a     *)
(* file's task is queued after all of its reads.                           *)
Fresh ==
    /\ pc \in {"setup", "submit"} => sub = 0
    /\ pc \in {"setup", "submit", "read"} =>
          /\ \A f \in next .. NumFiles : fileFut[f].status = "none"
          /\ \A id \in BlockIds :
                blockFut[id] = "none" <=> id[1] > next \/ (id[1] = next /\ id[2] > sub)
    /\ \A f \in Files : fileFut[f].status # "none" =>
          \A b \in 1 .. BlockCount[f] : blockFut[<<f, b>>] # "none"

OwnInv == ReadsOwned /\ TasksOwned /\ Fresh

-----------------------------------------------------------------------------
(* Block identities and complete files.                                    *)

LEMMA BlockIdIntro ==
    ASSUME NEW f \in Files, NEW b \in 1 .. BlockCount[f]
    PROVE  <<f, b>> \in BlockIds
<1>1. BlockCount[f] \in 1 .. MaxBlocks
  BY SizeAssumption
<1>2. b \in 1 .. MaxBlocks
  BY <1>1, SizeAssumption
<1> QED
  BY <1>2 DEF BlockIds

LEMMA WholeFile ==
    ASSUME NEW f \in Files, NEW s \in Seq(BlockIds), BlocksUpTo(s, f, BlockCount[f])
    PROVE  s = FileEntry(f).blocks
<1>1. s \in [1 .. Len(s) -> BlockIds]
  BY LenProperties
<1>2. s = [b \in 1 .. BlockCount[f] |-> <<f, b>>]
  BY <1>1 DEF BlocksUpTo
<1> QED
  BY <1>2 DEF FileEntry

LEMMA InitOrder == Init => OrderInv
<1> SUFFICES ASSUME Init PROVE OrderInv
  OBVIOUS
<1>0. NumFiles \in Nat /\ 1 \in 1 .. NumFiles /\ 1 \in 1 .. NumFiles + 1 /\ MaxBlocks \in Nat
  BY SizeAssumption
<1>1. JobTypeOK
  <2>1. archive \in Seq(Entries)
    BY DEF Init
  <2>2. stats \in [files : Nat, cpu : Nat, gpu : Nat]
    BY DEF Init
  <2>3. next \in 1 .. NumFiles + 1 /\ sub \in 0 .. MaxBlocks /\ published \in Nat
    BY <1>0 DEF Init
  <2>4. sealed \in BOOLEAN
    BY DEF Init
  <2>5. result \in {"none", "Ok"} \cup AllErrors
    BY DEF Init
  <2>6. pc \in {"setup", "submit", "read", "drain", "get", "finish", "returned"}
    BY DEF Init
  <2> QED
    BY <2>1, <2>2, <2>3, <2>4, <2>5, <2>6 DEF JobTypeOK
<1>2. IoTypeOK
  BY DEF Init, IoTypeOK, NoBlock
<1>3. CpuTypeOK
  <2>1. NoTask \in TaskRecords
    BY <1>0 DEF NoTask, TaskRecords, Stages
  <2>2. Future("none", <<>>) \in FileFutures
    BY DEF Future, FileFutures
  <2> QED
    BY <2>1, <2>2 DEF Init, CpuTypeOK
<1>4. Position
  BY <1>0 DEF Init, Position
<1>5. TaskShape
  BY DEF Init, TaskShape, WellFormed
<1>6. FutureShape
  BY DEF Init, FutureShape, Future
<1>7. ArchiveInOrder
  BY <1>0 DEF Init, ArchiveInOrder
<1>8. Submitted
  BY <1>0 DEF Init, Submitted
<1> QED
  BY <1>1, <1>2, <1>3, <1>4, <1>5, <1>6, <1>7, <1>8 DEF OrderInv, TypeOK, Init

-----------------------------------------------------------------------------
(* Steps that leave a part of the state alone keep what is said of it.     *)

LEMMA Frames ==
    ASSUME OrderInv
    PROVE  /\ UNCHANGED cpuVars => CpuTypeOK' /\ TaskShape' /\ FutureShape'
           /\ UNCHANGED ioVars => IoTypeOK'
           /\ UNCHANGED archive => ArchiveInOrder'
           /\ UNCHANGED jobVars => JobTypeOK' /\ Position'
<1>1. UNCHANGED cpuVars => CpuTypeOK' /\ TaskShape' /\ FutureShape'
  <2> SUFFICES ASSUME UNCHANGED cpuVars PROVE CpuTypeOK' /\ TaskShape' /\ FutureShape'
    OBVIOUS
  <2>1. CpuTypeOK'
    BY DEF OrderInv, TypeOK, CpuTypeOK, cpuVars
  <2>2. TaskShape'
    BY DEF OrderInv, TaskShape, cpuVars
  <2>3. FutureShape'
    BY DEF OrderInv, FutureShape, cpuVars
  <2> QED
    BY <2>1, <2>2, <2>3
<1>2. UNCHANGED ioVars => IoTypeOK'
  BY DEF OrderInv, TypeOK, IoTypeOK, ioVars
<1>3. UNCHANGED archive => ArchiveInOrder'
  BY DEF OrderInv, ArchiveInOrder
<1>4. UNCHANGED jobVars => JobTypeOK' /\ Position'
  BY DEF OrderInv, TypeOK, JobTypeOK, Position, jobVars
<1> QED
  BY <1>1, <1>2, <1>3, <1>4

(* A return with an error of AllErrors, anywhere in run(). *)
LEMMA ReturnKeepsOrder ==
    ASSUME OrderInv, NEW e \in AllErrors, Return(e),
           UNCHANGED <<stop, next, sub, archive, sealed, stats, published, ioVars, cpuVars>>
    PROVE  OrderInv'
<1>1. JobTypeOK'
  BY DEF OrderInv, TypeOK, JobTypeOK, Return
<1>2. Position'
  BY DEF Position, Return
<1>3. Submitted'
  BY DEF Submitted, Return
<1> QED
  BY <1>1, <1>2, <1>3, Frames DEF OrderInv, TypeOK

LEMMA RunKeepsOrder == OrderInv /\ Run => OrderInv'
<1> SUFFICES ASSUME OrderInv, Run PROVE OrderInv'
  OBVIOUS
<1> USE DEF OrderInv, TypeOK
<1>0. NumFiles \in Nat /\ NumFiles >= 1 /\ next \in Nat /\ Len(archive) \in Nat
  BY SizeAssumption, LenProperties DEF JobTypeOK
<1>1. CASE Setup
  <2>1. JobTypeOK' /\ Position' /\ Submitted'
    BY <1>1 DEF Setup, JobTypeOK, Position, Submitted, cpuVars
  <2> QED
    BY <1>1, <2>1, Frames DEF Setup
<1>2. CASE SetupFails
  <2>1. PICK e \in SetupErrors : Return(e)
    BY <1>2 DEF SetupFails
  <2> QED
    BY <1>2, <2>1, ReturnKeepsOrder DEF SetupFails, AllErrors
<1>3. CASE SubmitCheck
  <2>1. CASE stop
    BY <1>3, <2>1, ReturnKeepsOrder DEF SubmitCheck, AllErrors, TaskErrors
  <2>2. CASE ~stop
    <3>1. JobTypeOK' /\ Position' /\ Submitted'
      BY <1>3, <2>2 DEF SubmitCheck, JobTypeOK, Position, Submitted, cpuVars
    <3> QED
      BY <1>3, <3>1, Frames DEF SubmitCheck
  <2> QED
    BY <2>1, <2>2
<1>4. CASE QueueRead
  <2>1. next \in Files /\ BlockCount[next] \in 1 .. MaxBlocks /\ sub \in Nat /\ MaxBlocks \in Nat
    BY <1>0, <1>4, SizeAssumption DEF QueueRead, Position, Files, JobTypeOK
  <2>2. sub + 1 \in 1 .. BlockCount[next] /\ sub + 1 \in 0 .. MaxBlocks
    BY <1>4, <2>1 DEF QueueRead
  <2>3. <<next, sub + 1>> \in BlockIds
    BY <2>1, <2>2, BlockIdIntro
  <2>4. JobTypeOK' /\ Position' /\ Submitted'
    BY <1>4, <2>2 DEF QueueRead, JobTypeOK, Position, Submitted, cpuVars
  <2>5. IoTypeOK'
    <3>1. ioQ' \in Seq(BlockIds)
      BY <1>4, <2>3 DEF QueueRead, IoTypeOK
    <3> QED
      BY <1>4, <3>1 DEF QueueRead, IoTypeOK
  <2> QED
    BY <1>4, <2>4, <2>5, Frames DEF QueueRead
<1>5. CASE QueueTask
  <2>1. next \in Files
    <3>1. pc = "read"
      BY <1>5 DEF QueueTask
    <3> QED
      BY <1>0, <3>1 DEF JobTypeOK, Position, Files
  <2>2. JobTypeOK'
    <3>1. next' \in 1 .. NumFiles + 1 /\ sub' \in 0 .. MaxBlocks
      BY <1>0, <1>5, <2>1, SizeAssumption DEF QueueTask, JobTypeOK, Files
    <3> QED
      BY <1>5, <3>1 DEF QueueTask, JobTypeOK
  <2>3. Position'
    BY <1>0, <1>5, <2>1 DEF QueueTask, Position, Files
  <2>4. CpuTypeOK'
    <3>1. cpuQ' \in Seq(Files)
      BY <1>5, <2>1 DEF QueueTask, CpuTypeOK
    <3>2. Future("pending", <<>>) \in FileFutures
      BY DEF Future, FileFutures
    <3> QED
      BY <1>5, <3>1, <3>2 DEF QueueTask, CpuTypeOK
  <2>5. TaskShape'
    BY <1>5 DEF QueueTask, TaskShape
  <2>6. FutureShape'
    BY <1>5 DEF QueueTask, FutureShape, Future, CpuTypeOK
  <2>7. Submitted'
    <3>1. \A f \in 1 .. next : fileFut'[f].status # "none"
      BY <1>0, <1>5, <2>1 DEF QueueTask, Submitted, Future, Files, CpuTypeOK
    <3>2. CASE next = NumFiles
      BY <1>5, <3>1, <3>2 DEF QueueTask, Submitted, Files
    <3>3. CASE next # NumFiles
      BY <1>0, <1>5, <3>1, <3>3 DEF QueueTask, Submitted
    <3> QED
      BY <3>2, <3>3
  <2> QED
    BY <1>5, <2>2, <2>3, <2>4, <2>5, <2>6, <2>7, Frames DEF QueueTask
<1>6. CASE DrainCheck
  <2>1. CASE stop
    BY <1>6, <2>1, ReturnKeepsOrder DEF DrainCheck, AllErrors, TaskErrors
  <2>2. CASE ~stop
    <3>1. JobTypeOK' /\ Position' /\ Submitted'
      BY <1>6, <2>2 DEF DrainCheck, JobTypeOK, Position, Submitted, cpuVars
    <3> QED
      BY <1>6, <3>1, Frames DEF DrainCheck
  <2> QED
    BY <2>1, <2>2
<1>7. CASE DrainEnd
  <2>1. next = NumFiles + 1
    BY <1>0, <1>7 DEF DrainEnd, JobTypeOK
  <2>2. JobTypeOK' /\ Position' /\ Submitted'
    BY <1>0, <1>7, <2>1 DEF DrainEnd, JobTypeOK, Position, Submitted, cpuVars
  <2> QED
    BY <1>7, <2>2, Frames DEF DrainEnd
<1>8. CASE FileFails
  <2>1. pc = "get" /\ next \in Files
    BY <1>0, <1>8 DEF FileFails, Got, JobTypeOK, Position, Files
  <2>2. fileFut[next].status \in TaskErrors
    BY <1>8, <2>1 DEF FileFails, Got, CpuTypeOK, FileFutures, Submitted
  <2> QED
    BY <1>8, <2>2, ReturnKeepsOrder DEF FileFails, AllErrors
<1>9. CASE WriteFile
  <2>1. pc = "get" /\ next \in Files /\ Len(archive) = next - 1 /\ fileFut[next].status = "value"
    BY <1>0, <1>9 DEF WriteFile, Got, JobTypeOK, Position, Files
  <2>2. fileFut[next].blocks \in Seq(BlockIds) /\ BlocksUpTo(fileFut[next].blocks, next, BlockCount[next])
    BY <2>1 DEF CpuTypeOK, FileFutures, FutureShape
  <2> DEFINE entry == [file |-> next, blocks |-> fileFut[next].blocks]
  <2>3. entry = FileEntry(next) /\ entry \in Entries
    BY <2>1, <2>2, WholeFile DEF FileEntry, Entries
  <2>4. /\ archive' \in Seq(Entries)
        /\ Len(archive') = next
        /\ \A i \in 1 .. next - 1 : archive'[i] = archive[i]
        /\ archive'[next] = FileEntry(next)
    <3>1. archive' = Append(archive, entry) /\ archive \in Seq(Entries)
      BY <1>9 DEF WriteFile, JobTypeOK
    <3>2. Len(archive) \in Nat /\ Len(archive) + 1 = next
      BY <1>0, <2>1
    <3>3. entry \in Entries /\ entry = FileEntry(next)
      BY <2>3
    <3> HIDE DEF entry
    <3>4. /\ archive' \in Seq(Entries)
          /\ Len(archive') = Len(archive) + 1
          /\ \A i \in 1 .. Len(archive) : archive'[i] = archive[i]
          /\ archive'[Len(archive) + 1] = entry
      BY <3>1, <3>3, AppendProperties
    <3> QED
      BY <3>2, <3>3, <3>4, <2>1
  <2>5. JobTypeOK'
    <3>1. next' \in 1 .. NumFiles + 1
      BY <1>0, <1>9, <2>1 DEF WriteFile, Files
    <3>2. Len(fileFut[next].blocks) \in Nat
      BY <2>2, LenProperties
    <3>3. stats' \in [files : Nat, cpu : Nat, gpu : Nat]
      <4>1. stats.files \in Nat /\ stats.cpu \in Nat /\ stats.gpu \in Nat
        BY DEF JobTypeOK
      <4>2. Tally(Len(fileFut[next].blocks)) \in [files : Nat, cpu : Nat, gpu : Nat]
        <5> DEFINE n == Len(fileFut[next].blocks)
        <5>1. n \in Nat
          BY <3>2
        <5> HIDE DEF n
        <5>2. CASE next \in GpuFiles
          <6>1. Tally(n) = [files |-> stats.files + 1, cpu |-> stats.cpu, gpu |-> stats.gpu + n]
            BY <5>2 DEF Tally
          <6>2. stats.files + 1 \in Nat /\ stats.gpu + n \in Nat
            BY <4>1, <5>1
          <6>3. Tally(n) \in [files : Nat, cpu : Nat, gpu : Nat]
            BY <4>1, <6>1, <6>2
          <6> QED
            BY <6>3 DEF n
        <5>3. CASE next \notin GpuFiles
          <6>1. Tally(n) = [files |-> stats.files + 1, cpu |-> stats.cpu + n, gpu |-> stats.gpu]
            BY <5>3 DEF Tally
          <6>2. stats.files + 1 \in Nat /\ stats.cpu + n \in Nat
            BY <4>1, <5>1
          <6>3. Tally(n) \in [files : Nat, cpu : Nat, gpu : Nat]
            BY <4>1, <6>1, <6>2
          <6> QED
            BY <6>3 DEF n
        <5> QED
          BY <5>2, <5>3
      <4> QED
        BY <1>9, <4>2 DEF WriteFile
    <3>4. published' \in Nat
      BY <1>9 DEF WriteFile, JobTypeOK
    <3> QED
      BY <1>9, <2>4, <3>1, <3>3, <3>4 DEF WriteFile, JobTypeOK
  <2>6. Position' /\ Submitted'
    BY <1>0, <1>9, <2>1, <2>4 DEF WriteFile, Position, Submitted, Files, cpuVars
  <2>7. ArchiveInOrder'
    BY <1>0, <2>1, <2>4 DEF ArchiveInOrder, Files
  <2> QED
    BY <1>9, <2>5, <2>6, <2>7, Frames DEF WriteFile
<1>10. CASE WriteFails
  <2>1. PICK e \in WriteErrors : Return(e)
    BY <1>10 DEF WriteFails
  <2> QED
    BY <1>10, <2>1, ReturnKeepsOrder DEF WriteFails, AllErrors
<1>11. CASE Finish
  <2>1. JobTypeOK' /\ Position' /\ Submitted'
    BY <1>11 DEF Finish, Return, JobTypeOK, Position, Submitted
  <2> QED
    BY <1>11, <2>1, Frames DEF Finish
<1>12. CASE FinishFails
  <2>1. PICK e \in WriteErrors : Return(e)
    BY <1>12 DEF FinishFails
  <2> QED
    BY <1>12, <2>1, ReturnKeepsOrder DEF FinishFails, AllErrors
<1> QED
  BY <1>1, <1>2, <1>3, <1>4, <1>5, <1>6, <1>7, <1>8, <1>9, <1>10, <1>11, <1>12 DEF Run

LEMMA IoKeepsOrder ==
    ASSUME OrderInv, NEW w \in IoWorkers, IoWorker(w)
    PROVE  OrderInv'
<1> USE DEF OrderInv, TypeOK
<1>0. reader[w] \in BlockIds \cup {NoBlock} /\ ioQ \in Seq(BlockIds)
  BY DEF IoTypeOK
<1>1. CASE ReadSkip(w)
  <2>1. Head(ioQ) \in BlockIds /\ Tail(ioQ) \in Seq(BlockIds)
    BY <1>0, <1>1, HeadTailProperties DEF ReadSkip
  <2>2. IoTypeOK'
    BY <1>1, <2>1 DEF ReadSkip, IoTypeOK
  <2> QED
    BY <1>1, <2>2, Frames DEF ReadSkip, jobVars, cpuVars, Submitted
<1>2. CASE ReadStart(w)
  <2>1. Head(ioQ) \in BlockIds /\ Tail(ioQ) \in Seq(BlockIds)
    BY <1>0, <1>2, HeadTailProperties DEF ReadStart
  <2>2. IoTypeOK'
    BY <1>2, <2>1 DEF ReadStart, IoTypeOK
  <2> QED
    BY <1>2, <2>2, Frames DEF ReadStart, jobVars, cpuVars, Submitted
<1>3. CASE ReadEnd(w)
  <2>1. IoTypeOK'
    BY <1>0, <1>3 DEF ReadEnd, IoTypeOK
  <2> QED
    BY <1>3, <2>1, Frames DEF ReadEnd, jobVars, cpuVars, Submitted
<1> QED
  BY <1>1, <1>2, <1>3 DEF IoWorker

(* A task resolves its future with an error, or with the whole file. *)
LEMMA ResolveKeepsOrder ==
    ASSUME OrderInv, NEW w \in CpuWorkers, task[w].file \in Files,
           NEW status \in {"value"} \cup TaskErrors, NEW blocks \in Seq(BlockIds),
           status = "value" => BlocksUpTo(blocks, task[w].file, BlockCount[task[w].file]),
           Resolve(w, status, blocks), UNCHANGED <<stop, jobVars, ioVars, cpuQ>>
    PROVE  OrderInv'
<1> USE DEF OrderInv, TypeOK
<1>1. status # "none"
  BY ErrorAssumption DEF AllErrors, NonErrors
<1>2. CpuTypeOK'
  <2>1. Future(status, blocks) \in FileFutures
    BY DEF Future, FileFutures
  <2>2. NoTask \in TaskRecords
    BY SizeAssumption DEF NoTask, TaskRecords, Stages
  <2> QED
    BY <2>1, <2>2 DEF Resolve, CpuTypeOK
<1>3. TaskShape'
  BY DEF TaskShape, WellFormed, Resolve, CpuTypeOK
<1>4. FutureShape'
  <2> SUFFICES ASSUME NEW f \in Files, fileFut'[f].status = "value"
               PROVE  BlocksUpTo(fileFut'[f].blocks, f, BlockCount[f])
    BY DEF FutureShape
  <2>1. CASE f = task[w].file
    BY <2>1 DEF Resolve, Future, CpuTypeOK
  <2>2. CASE f # task[w].file
    BY <2>2 DEF Resolve, FutureShape, CpuTypeOK
  <2> QED
    BY <2>1, <2>2
<1>5. Submitted'
  <2>1. \A f \in Files : fileFut[f].status # "none" => fileFut'[f].status # "none"
    BY <1>1 DEF Resolve, Future, CpuTypeOK
  <2>2. next - 1 \in 0 .. NumFiles
    BY SizeAssumption DEF JobTypeOK
  <2> QED
    BY <2>1, <2>2, SizeAssumption DEF Submitted, jobVars, Files
<1> QED
  BY <1>2, <1>3, <1>4, <1>5, Frames DEF jobVars

(* A task moves on without resolving its future. *)
LEMMA AdvanceKeepsOrder ==
    ASSUME OrderInv, NEW w \in CpuWorkers, NEW t \in TaskRecords, WellFormed(t),
           task' = [task EXCEPT ![w] = t], cpuQ' \in Seq(Files),
           UNCHANGED <<stop, jobVars, ioVars, fileFut>>
    PROVE  OrderInv'
<1> USE DEF OrderInv, TypeOK
<1>1. CpuTypeOK'
  BY DEF CpuTypeOK
<1>2. TaskShape'
  BY DEF TaskShape, CpuTypeOK
<1>3. FutureShape' /\ Submitted'
  BY DEF FutureShape, Submitted, jobVars
<1> QED
  BY <1>1, <1>2, <1>3, Frames DEF jobVars

(* The block being dealt with completes the prefix collected so far. *)
LEMMA AppendBlock ==
    ASSUME NEW f \in Files, NEW b \in 1 .. BlockCount[f],
           NEW s \in Seq(BlockIds), BlocksUpTo(s, f, b - 1)
    PROVE  Append(s, <<f, b>>) \in Seq(BlockIds) /\ BlocksUpTo(Append(s, <<f, b>>), f, b)
<1>1. BlockCount[f] \in Nat /\ b \in Nat /\ Len(s) = b - 1
  BY SizeAssumption DEF BlocksUpTo
<1>2. <<f, b>> \in BlockIds
  BY BlockIdIntro
<1>3. /\ Append(s, <<f, b>>) \in Seq(BlockIds)
      /\ Len(Append(s, <<f, b>>)) = Len(s) + 1
      /\ \A i \in 1 .. Len(s) : Append(s, <<f, b>>)[i] = s[i]
      /\ Append(s, <<f, b>>)[Len(s) + 1] = <<f, b>>
  BY <1>2, AppendProperties
<1> QED
  BY <1>1, <1>3 DEF BlocksUpTo

LEMMA AdvancedShape ==
    ASSUME NEW w \in CpuWorkers, task[w] \in TaskRecords, NEW last \in Stages,
           task[w].file \in Files, task[w].block \in 1 .. BlockCount[task[w].file],
           BlocksUpTo(task[w].out, task[w].file, task[w].block - 1),
           last = "lock" \/ ~LastBlock(w)
    PROVE  Advanced(w, last) \in TaskRecords /\ WellFormed(Advanced(w, last))
<1> DEFINE f == task[w].file
           b == task[w].block
           s == Append(task[w].out, <<f, b>>)
<1>1. f \in Files /\ BlockCount[f] \in 1 .. MaxBlocks /\ MaxBlocks \in Nat /\ b \in 1 .. BlockCount[f]
  BY SizeAssumption
<1>2. s \in Seq(BlockIds) /\ BlocksUpTo(s, f, b)
  BY <1>1, AppendBlock DEF TaskRecords
<1>3. b + 1 \in 0 .. MaxBlocks + 1
  BY <1>1
<1>4. CASE LastBlock(w)
  <2>1. Advanced(w, last) = [file |-> f, stage |-> "lock", block |-> b + 1, out |-> s]
    BY <1>4 DEF Advanced, Current
  <2>2. b = BlockCount[f]
    BY <1>4 DEF LastBlock
  <2> HIDE DEF s, f, b
  <2> QED
    BY <1>1, <1>2, <1>3, <2>1, <2>2 DEF TaskRecords, Stages, WellFormed
<1>5. CASE ~LastBlock(w)
  <2>1. Advanced(w, last) = [file |-> f, stage |-> "check", block |-> b + 1, out |-> s]
    BY <1>5 DEF Advanced, Current
  <2>2. b + 1 \in 1 .. BlockCount[f] /\ (b + 1) - 1 = b
    BY <1>1, <1>5 DEF LastBlock
  <2> HIDE DEF s, f, b
  <2> QED
    BY <1>1, <1>2, <1>3, <2>1, <2>2 DEF TaskRecords, Stages, WellFormed
<1> QED
  BY <1>4, <1>5

LEMMA CpuKeepsOrder ==
    ASSUME OrderInv, OwnInv, NEW w \in CpuWorkers, CpuWorker(w)
    PROVE  OrderInv'
<1> USE DEF OrderInv, TypeOK
<1>0. /\ task[w] \in TaskRecords /\ WellFormed(task[w])
      /\ cpuQ \in Seq(Files)
      /\ MaxBlocks \in Nat \ {0}
  BY SizeAssumption DEF CpuTypeOK, TaskShape
<1>1. CASE TaskStart(w)
  <2> DEFINE t == [file |-> Head(cpuQ), stage |-> "check", block |-> 1, out |-> <<>>]
  <2>1. Head(cpuQ) \in Files /\ Tail(cpuQ) \in Seq(Files)
    BY <1>0, <1>1, HeadTailProperties DEF TaskStart
  <2>2. BlockCount[Head(cpuQ)] \in 1 .. MaxBlocks
    BY <2>1, SizeAssumption
  <2>3. t \in TaskRecords
    BY <1>0, <2>1 DEF TaskRecords, Stages
  <2>4. WellFormed(t)
    BY <1>0, <2>1, <2>2 DEF WellFormed, BlocksUpTo
  <2>5. task' = [task EXCEPT ![w] = t] /\ cpuQ' \in Seq(Files)
    BY <1>1, <2>1 DEF TaskStart
  <2> HIDE DEF t
  <2> QED
    BY <1>1, <2>3, <2>4, <2>5, AdvanceKeepsOrder DEF TaskStart
<1>2. CASE TaskCheck(w)
  <2>1. task[w].file \in Files /\ task[w].stage = "check"
    BY <1>0, <1>2 DEF TaskCheck, At, WellFormed, NoTask
  <2>2. CASE stop
    <3>1. Resolve(w, "Cancelled", <<>>) /\ <<>> \in Seq(BlockIds) /\ "Cancelled" \in TaskErrors
      BY <1>2, <2>2 DEF TaskCheck, TaskErrors
    <3>2. "Cancelled" # "value"
      OBVIOUS
    <3> QED
      BY <1>2, <2>1, <3>1, <3>2, ResolveKeepsOrder DEF TaskCheck
  <2>3. CASE ~stop
    <3> DEFINE t == [task[w] EXCEPT !.stage = "get"]
    <3>1. t \in TaskRecords
      BY <1>0 DEF TaskRecords, Stages
    <3>2. WellFormed(t)
      BY <1>0, <2>1 DEF WellFormed, TaskRecords, NoTask
    <3>3. task' = [task EXCEPT ![w] = t] /\ cpuQ' \in Seq(Files)
      BY <1>0, <1>2, <2>3 DEF TaskCheck
    <3> HIDE DEF t
    <3> QED
      BY <1>2, <2>3, <3>1, <3>2, <3>3, AdvanceKeepsOrder DEF TaskCheck
  <2> QED
    BY <2>2, <2>3
<1>3. CASE BlockFails(w)
  <2>1. task[w].file \in Files /\ task[w].block \in 1 .. BlockCount[task[w].file]
    BY <1>0, <1>3 DEF BlockFails, At, WellFormed, NoTask
  <2>2. Current(w) \in BlockIds
    BY <2>1, BlockIdIntro DEF Current
  <2> DEFINE s == blockFut[Current(w)]
  <2>3. s \in TaskErrors /\ s # "value"
    <3>1. fileFut[task[w].file].status # "none"
      BY <2>1 DEF OwnInv, TasksOwned
    <3>2. s # "none"
      BY <2>1, <3>1 DEF OwnInv, Fresh, Current
    <3> QED
      BY <1>3, <2>2, <3>2 DEF BlockFails, IoTypeOK, TaskErrors
  <2>4. Resolve(w, s, <<>>) /\ <<>> \in Seq(BlockIds)
    BY <1>3 DEF BlockFails
  <2> HIDE DEF s
  <2> QED
    BY <1>3, <2>1, <2>3, <2>4, ResolveKeepsOrder DEF BlockFails
<1>4. CASE BlockRead(w)
  <2>1. /\ task[w].stage = "get"
        /\ task[w].file \in Files
        /\ task[w].block \in 1 .. BlockCount[task[w].file]
        /\ BlocksUpTo(task[w].out, task[w].file, task[w].block - 1)
    BY <1>0, <1>4 DEF BlockRead, At, WellFormed, NoTask
  <2>2. CASE OnGpu(w)
    <3> DEFINE t == Advanced(w, "lock")
    <3>1. t \in TaskRecords /\ WellFormed(t)
      BY <1>0, <2>1, AdvancedShape DEF Stages
    <3>2. task' = [task EXCEPT ![w] = t] /\ cpuQ' \in Seq(Files)
      BY <1>0, <1>4, <2>2 DEF BlockRead
    <3> HIDE DEF t
    <3> QED
      BY <1>4, <3>1, <3>2, AdvanceKeepsOrder DEF BlockRead
  <2>3. CASE ~OnGpu(w)
    <3> DEFINE t == [task[w] EXCEPT !.stage = "compress"]
    <3>1. t \in TaskRecords
      BY <1>0 DEF TaskRecords, Stages
    <3>2. WellFormed(t)
      BY <1>0, <2>1 DEF WellFormed, TaskRecords
    <3>3. task' = [task EXCEPT ![w] = t] /\ cpuQ' \in Seq(Files)
      BY <1>0, <1>4, <2>3 DEF BlockRead, CpuTypeOK
    <3> HIDE DEF t
    <3> QED
      BY <1>4, <3>1, <3>2, <3>3, AdvanceKeepsOrder DEF BlockRead
  <2> QED
    BY <2>2, <2>3
<1>5. CASE Compress(w)
  <2>1. /\ task[w].stage = "compress"
        /\ task[w].file \in Files
        /\ task[w].block \in 1 .. BlockCount[task[w].file]
        /\ BlocksUpTo(task[w].out, task[w].file, task[w].block - 1)
        /\ task[w].out \in Seq(BlockIds)
    BY <1>0, <1>5 DEF Compress, At, WellFormed, NoTask, TaskRecords
  <2>2. CASE LastBlock(w)
    <3> DEFINE s == Append(task[w].out, Current(w))
    <3>1. s \in Seq(BlockIds) /\ BlocksUpTo(s, task[w].file, BlockCount[task[w].file])
      BY <2>1, <2>2, AppendBlock DEF LastBlock, Current
    <3>2. Resolve(w, "value", s)
      BY <1>5, <2>2 DEF Compress
    <3> HIDE DEF s
    <3> QED
      BY <1>5, <2>1, <3>1, <3>2, ResolveKeepsOrder DEF Compress
  <2>3. CASE ~LastBlock(w)
    <3> DEFINE t == Advanced(w, "idle")
    <3>1. t \in TaskRecords /\ WellFormed(t)
      BY <1>0, <2>1, <2>3, AdvancedShape DEF Stages
    <3>2. task' = [task EXCEPT ![w] = t] /\ cpuQ' \in Seq(Files)
      BY <1>0, <1>5, <2>3 DEF Compress
    <3> HIDE DEF t
    <3> QED
      BY <1>5, <2>3, <3>1, <3>2, AdvanceKeepsOrder DEF Compress
  <2> QED
    BY <2>2, <2>3
<1>6. CASE Lock(w)
  <2>1. task[w].stage = "lock"
    BY <1>6 DEF Lock, At
  <2> DEFINE t == [task[w] EXCEPT !.stage = "batch"]
  <2>2. t \in TaskRecords
    BY <1>0 DEF TaskRecords, Stages
  <2>3. WellFormed(t)
    BY <1>0, <2>1 DEF WellFormed, TaskRecords, NoTask
  <2>4. task' = [task EXCEPT ![w] = t] /\ cpuQ' \in Seq(Files)
    BY <1>0, <1>6 DEF Lock
  <2> HIDE DEF t
  <2> QED
    BY <1>6, <2>2, <2>3, <2>4, AdvanceKeepsOrder DEF Lock
<1>7. CASE Batch(w)
  <2>1. task[w].file \in Files /\ BlocksUpTo(task[w].out, task[w].file, BlockCount[task[w].file])
    BY <1>0, <1>7 DEF Batch, At, WellFormed, NoTask
  <2>2. task[w].out \in Seq(BlockIds)
    BY <1>0 DEF TaskRecords
  <2> QED
    BY <1>7, <2>1, <2>2, ResolveKeepsOrder DEF Batch
<1>8. CASE CompressFails(w)
  <2>1. task[w].file \in Files
    BY <1>0, <1>8 DEF CompressFails, At, WellFormed, NoTask
  <2>2. PICK e \in CompressErrors : Resolve(w, e, <<>>)
    BY <1>8 DEF CompressFails
  <2>3. e \in TaskErrors /\ e # "value" /\ <<>> \in Seq(BlockIds)
    BY ErrorAssumption DEF TaskErrors, AllErrors, NonErrors
  <2> QED
    BY <1>8, <2>1, <2>2, <2>3, ResolveKeepsOrder DEF CompressFails
<1> QED
  BY <1>1, <1>2, <1>3, <1>4, <1>5, <1>6, <1>7, <1>8 DEF CpuWorker

-----------------------------------------------------------------------------
(* Every pending future has one owner.                                     *)

LEMMA InitOwn == Init => OwnInv
<1> SUFFICES ASSUME Init PROVE OwnInv
  OBVIOUS
<1>0. NumFiles \in Nat /\ MaxBlocks \in Nat /\ BlockCount \in [Files -> 1 .. MaxBlocks]
  BY SizeAssumption
<1>1. NoBlock \notin BlockIds
  BY DEF NoBlock, BlockIds, Files
<1>2. \A x : ~Queued(x, <<>>)
  BY DEF Queued
<1>3. Distinct(<<>>)
  BY DEF Distinct
<1>4. ReadsOwned
  BY <1>1, <1>2, <1>3 DEF Init, ReadsOwned
<1>5. TasksOwned
  BY <1>2, <1>3 DEF Init, TasksOwned, NoTask, At, Future, Files
<1>6. Fresh
  <2>1. \A f \in 1 .. NumFiles : fileFut[f].status = "none"
    BY DEF Init, Future, Files
  <2>2. \A id \in BlockIds : id[1] \in Files /\ id[2] \in 1 .. MaxBlocks /\ blockFut[id] = "none"
    BY DEF Init, BlockIds
  <2>3. \A id \in BlockIds : id[1] > 1 \/ (id[1] = 1 /\ id[2] > 0)
    BY <1>0, <2>2 DEF Files
  <2> QED
    BY <2>1, <2>2, <2>3 DEF Init, Fresh, Files
<1> QED
  BY <1>4, <1>5, <1>6 DEF OwnInv

LEMMA ReadsKept ==
    ASSUME OwnInv, UNCHANGED ioVars PROVE ReadsOwned'
BY DEF OwnInv, ReadsOwned, ioVars

LEMMA TasksKept ==
    ASSUME OwnInv, UNCHANGED cpuVars PROVE TasksOwned'
BY DEF OwnInv, TasksOwned, cpuVars, At

(* The futures that exist stay, so a step of run() that queues nothing     *)
(* keeps Fresh when it does not go back to submitting.                     *)
LEMMA RunKeepsOwn == OrderInv /\ OwnInv /\ Run => OwnInv'
<1> SUFFICES ASSUME OrderInv, OwnInv, Run PROVE OwnInv'
  OBVIOUS
<1> USE DEF OrderInv, TypeOK
<1>0. NumFiles \in Nat /\ NumFiles >= 1 /\ next \in Nat /\ sub \in Nat
  BY SizeAssumption DEF JobTypeOK
<1>1. CASE QueueRead
  <2> DEFINE x == <<next, sub + 1>>
  <2>1. /\ next \in Files /\ BlockCount[next] \in 1 .. MaxBlocks
        /\ sub + 1 \in 1 .. BlockCount[next]
    BY <1>0, <1>1, SizeAssumption DEF QueueRead, Position, Files, JobTypeOK
  <2>2. x \in BlockIds /\ x # NoBlock
    BY <2>1, BlockIdIntro DEF NoBlock, Files
  <2>3. blockFut[x] = "none"
    BY <1>0, <1>1, <2>2 DEF QueueRead, OwnInv, Fresh
  <2>4. ~Queued(x, ioQ) /\ \A w \in IoWorkers : reader[w] # x
    BY <2>2, <2>3 DEF OwnInv, ReadsOwned
  <2>5. ioQ \in Seq(BlockIds) /\ ioQ' = Append(ioQ, x) /\ reader' = reader
    BY <1>1 DEF QueueRead, IoTypeOK
  <2>6. /\ Distinct(ioQ')
        /\ \A y : Queued(y, ioQ') <=> Queued(y, ioQ) \/ y = x
    BY <2>2, <2>4, <2>5, QueuedAppend DEF OwnInv, ReadsOwned
  <2>7. blockFut' = [blockFut EXCEPT ![x] = "pending"] /\ blockFut \in [BlockIds -> {"none", "pending", "value", "Cancelled"} \cup ReadErrors]
    BY <1>1 DEF QueueRead, IoTypeOK
  <2>8. ReadsOwned'
    <3> HIDE DEF x
    <3> QED
      BY <2>2, <2>4, <2>5, <2>6, <2>7 DEF OwnInv, ReadsOwned
  <2>9. Fresh'
    <3>1. \A id \in BlockIds : id[1] \in Nat /\ id[2] \in Nat /\ id = <<id[1], id[2]>>
      BY DEF BlockIds, Files
    <3>2. \A id \in BlockIds :
             blockFut'[id] = "none" <=> id[1] > next \/ (id[1] = next /\ id[2] > sub + 1)
      <4> SUFFICES ASSUME NEW id \in BlockIds
                   PROVE  blockFut'[id] = "none" <=> id[1] > next \/ (id[1] = next /\ id[2] > sub + 1)
        OBVIOUS
      <4>1. CASE id = x
        BY <1>0, <2>2, <2>7, <4>1
      <4>2. CASE id # x
        <5>1. blockFut'[id] = blockFut[id]
          BY <2>7, <4>2
        <5>2. ~(id[1] = next /\ id[2] = sub + 1)
          BY <3>1, <4>2
        <5>3. blockFut[id] = "none" <=> id[1] > next \/ (id[1] = next /\ id[2] > sub)
          BY <1>1 DEF QueueRead, OwnInv, Fresh
        <5> QED
          BY <1>0, <3>1, <5>1, <5>2, <5>3
      <4> QED
        BY <4>1, <4>2
    <3>3. \A f \in Files : \A b \in 1 .. BlockCount[f] :
             blockFut[<<f, b>>] # "none" => blockFut'[<<f, b>>] # "none"
      BY <2>7, BlockIdIntro
    <3> QED
      BY <1>1, <3>2, <3>3 DEF QueueRead, OwnInv, Fresh, cpuVars
  <2> QED
    BY <1>1, <2>8, <2>9, TasksKept DEF QueueRead, OwnInv
<1>2. CASE QueueTask
  <2>1. next \in Files /\ pc = "read"
    <3>1. pc = "read"
      BY <1>2 DEF QueueTask
    <3> QED
      BY <1>0, <3>1 DEF JobTypeOK, Position, Files
  <2>2. fileFut[next].status = "none"
    BY <1>0, <2>1 DEF OwnInv, Fresh, Files
  <2>3. ~Queued(next, cpuQ) /\ \A w \in CpuWorkers : task[w].file # next
    BY <2>1, <2>2 DEF OwnInv, TasksOwned
  <2>4. cpuQ \in Seq(Files) /\ cpuQ' = Append(cpuQ, next) /\ task' = task
    BY <1>2 DEF QueueTask, CpuTypeOK
  <2>5. /\ Distinct(cpuQ')
        /\ \A y : Queued(y, cpuQ') <=> Queued(y, cpuQ) \/ y = next
    BY <2>1, <2>3, <2>4, QueuedAppend DEF OwnInv, TasksOwned
  <2>6. /\ fileFut'[next].status = "pending"
        /\ \A f \in Files : f # next => fileFut'[f] = fileFut[f]
    BY <1>2, <2>1 DEF QueueTask, CpuTypeOK, Future
  <2>7. TasksOwned'
    BY <2>1, <2>3, <2>4, <2>5, <2>6 DEF OwnInv, TasksOwned, At
  <2>8. Fresh'
    <3>1. sub = BlockCount[next] /\ sub' = 0 /\ blockFut' = blockFut
      BY <1>2 DEF QueueTask, ioVars
    <3>2. \A b \in 1 .. BlockCount[next] : blockFut[<<next, b>>] # "none"
      <4> SUFFICES ASSUME NEW b \in 1 .. BlockCount[next] PROVE blockFut[<<next, b>>] # "none"
        OBVIOUS
      <4>1. <<next, b>> \in BlockIds
        BY <2>1, BlockIdIntro
      <4> QED
        BY <1>0, <2>1, <3>1, <4>1, SizeAssumption DEF OwnInv, Fresh
    <3>3. \A f \in Files : fileFut'[f].status # "none" =>
             \A b \in 1 .. BlockCount[f] : blockFut'[<<f, b>>] # "none"
      BY <2>6, <3>1, <3>2 DEF OwnInv, Fresh
    <3>4. CASE next = NumFiles
      BY <1>2, <3>3, <3>4 DEF QueueTask, Fresh
    <3>5. CASE next # NumFiles
      <4>1. pc' = "submit" /\ next' = next + 1
        BY <1>2, <3>5 DEF QueueTask
      <4>2. \A f \in next' .. NumFiles : fileFut'[f].status = "none"
        BY <1>0, <2>1, <2>6, <4>1 DEF OwnInv, Fresh, Files
      <4>3. \A id \in BlockIds :
               blockFut'[id] = "none" <=> id[1] > next' \/ (id[1] = next' /\ id[2] > sub')
        <5> SUFFICES ASSUME NEW id \in BlockIds
                     PROVE  blockFut'[id] = "none" <=> id[1] > next' \/ (id[1] = next' /\ id[2] > sub')
          OBVIOUS
        <5>1. id[1] \in Nat /\ id[2] \in Nat /\ id[2] >= 1 /\ id[2] <= BlockCount[id[1]]
          BY SizeAssumption DEF BlockIds, Files
        <5>2. blockFut[id] = "none" <=> id[1] > next \/ (id[1] = next /\ id[2] > sub)
          BY <2>1 DEF OwnInv, Fresh
        <5>3. BlockCount[next] \in Nat
          BY <2>1, SizeAssumption
        <5> QED
          BY <1>0, <3>1, <4>1, <5>1, <5>2, <5>3
      <4> QED
        BY <3>1, <3>3, <4>1, <4>2, <4>3 DEF Fresh
    <3> QED
      BY <3>4, <3>5
  <2> QED
    BY <1>2, <2>7, <2>8, ReadsKept DEF QueueTask, OwnInv
<1>3. CASE Setup
  BY <1>3, ReadsKept, TasksKept DEF Setup, OwnInv, Fresh, ioVars, cpuVars
<1>4. CASE SubmitCheck
  BY <1>4, ReadsKept, TasksKept DEF SubmitCheck, Return, OwnInv, Fresh, ioVars, cpuVars
<1>5. CASE /\ UNCHANGED <<ioVars, cpuVars>>
           /\ pc' \notin {"setup", "submit", "read"}
  BY <1>5, ReadsKept, TasksKept DEF OwnInv, Fresh, ioVars, cpuVars
<1> QED
  BY <1>1, <1>2, <1>3, <1>4, <1>5 DEF Run, SetupFails, DrainCheck, DrainEnd, FileFails,
     WriteFile, WriteFails, Finish, FinishFails, Return

(* A read that leaves the queue, or a thread, and what becomes of it. *)
LEMMA IoKeepsOwn ==
    ASSUME OrderInv, OwnInv, NEW w \in IoWorkers, IoWorker(w)
    PROVE  OwnInv'
<1> USE DEF OrderInv, TypeOK
<1>0. /\ reader \in [IoWorkers -> BlockIds \cup {NoBlock}] /\ ioQ \in Seq(BlockIds)
      /\ blockFut \in [BlockIds -> {"none", "pending", "value", "Cancelled"} \cup ReadErrors]
  BY DEF IoTypeOK
<1>1. NoBlock \notin BlockIds
  BY DEF NoBlock, BlockIds, Files
<1>2. TasksOwned'
  BY TasksKept DEF IoWorker, ReadSkip, ReadStart, ReadEnd
<1>3. ASSUME NEW id \in BlockIds, NEW s, s # "none", blockFut[id] = "pending",
             blockFut' = [blockFut EXCEPT ![id] = s] \/ blockFut' = blockFut
      PROVE  Fresh'
  <2>1. UNCHANGED <<jobVars, cpuVars>>
    BY DEF IoWorker, ReadSkip, ReadStart, ReadEnd
  <2>2. \A x \in BlockIds : blockFut'[x] = "none" <=> blockFut[x] = "none"
    BY <1>0, <1>3
  <2>3. \A f \in Files : \A b \in 1 .. BlockCount[f] : <<f, b>> \in BlockIds
    BY BlockIdIntro
  <2> QED
    BY <2>1, <2>2, <2>3 DEF OwnInv, Fresh, jobVars, cpuVars
<1>4. CASE ReadSkip(w)
  <2> DEFINE x == Head(ioQ)
  <2>1. /\ x \in BlockIds
        /\ \A y : Queued(y, ioQ) <=> y = x \/ Queued(y, ioQ')
        /\ Distinct(ioQ') /\ ~Queued(x, ioQ')
    BY <1>0, <1>4, HeadTailProperties, QueuedTail DEF ReadSkip, OwnInv, ReadsOwned
  <2>2. blockFut' = [blockFut EXCEPT ![x] = "Cancelled"] /\ reader' = reader
    BY <1>4 DEF ReadSkip
  <2> HIDE DEF x
  <2>3. blockFut[x] = "pending" /\ \A v \in IoWorkers : reader[v] # x
    BY <2>1 DEF OwnInv, ReadsOwned
  <2>4. ReadsOwned'
    BY <1>0, <2>1, <2>2, <2>3 DEF OwnInv, ReadsOwned
  <2>5. Fresh'
    BY <1>3, <2>1, <2>2, <2>3
  <2> QED
    BY <1>2, <2>4, <2>5 DEF OwnInv
<1>5. CASE ReadStart(w)
  <2> DEFINE x == Head(ioQ)
  <2>1. /\ x \in BlockIds
        /\ \A y : Queued(y, ioQ) <=> y = x \/ Queued(y, ioQ')
        /\ Distinct(ioQ') /\ ~Queued(x, ioQ')
    BY <1>0, <1>5, HeadTailProperties, QueuedTail DEF ReadStart, OwnInv, ReadsOwned
  <2>2. reader[w] = NoBlock /\ reader' = [reader EXCEPT ![w] = x] /\ blockFut' = blockFut
    BY <1>5 DEF ReadStart
  <2> HIDE DEF x
  <2>3. blockFut[x] = "pending" /\ \A v \in IoWorkers : reader[v] # x
    BY <2>1 DEF OwnInv, ReadsOwned
  <2>4. ReadsOwned'
    BY <1>0, <1>1, <2>1, <2>2, <2>3 DEF OwnInv, ReadsOwned
  <2>5. Fresh'
    BY <1>3, <2>1, <2>2, <2>3
  <2> QED
    BY <1>2, <2>4, <2>5 DEF OwnInv
<1>6. CASE ReadEnd(w)
  <2> DEFINE x == reader[w]
  <2>1. x \in BlockIds /\ x # NoBlock
    BY <1>0, <1>6 DEF ReadEnd
  <2>2. PICK s \in {"value"} \cup ReadErrors : blockFut' = [blockFut EXCEPT ![x] = s]
    BY <1>6 DEF ReadEnd
  <2>3. reader' = [reader EXCEPT ![w] = NoBlock] /\ ioQ' = ioQ
    BY <1>6 DEF ReadEnd
  <2>4. s # "none" /\ s # "pending"
    BY ErrorAssumption DEF AllErrors, TaskErrors, NonErrors
  <2>5. blockFut[x] = "pending" /\ ~Queued(x, ioQ) /\ \A v \in IoWorkers : v # w => reader[v] # x
    BY <2>1 DEF OwnInv, ReadsOwned
  <2>6. ~Queued(NoBlock, ioQ)
    BY <1>0, <1>1, ElementOfSeq DEF Queued
  <2>7. ReadsOwned'
    <3>1. \A v \in IoWorkers : reader'[v] = IF v = w THEN NoBlock ELSE reader[v]
      BY <1>0, <2>3
    <3>2. \A id \in BlockIds : blockFut'[id] = IF id = x THEN s ELSE blockFut[id]
      BY <1>0, <2>2
    <3> HIDE DEF x
    <3>3. Distinct(ioQ') /\ \A v \in IoWorkers : ~Queued(reader'[v], ioQ')
      BY <2>3, <2>6, <3>1 DEF OwnInv, ReadsOwned
    <3>4. \A u, v \in IoWorkers : reader'[u] = reader'[v] /\ reader'[u] # NoBlock => u = v
      BY <3>1 DEF OwnInv, ReadsOwned
    <3>5. ASSUME NEW id \in BlockIds
          PROVE  blockFut'[id] = "pending" <=> Queued(id, ioQ') \/ \E v \in IoWorkers : reader'[v] = id
      <4>1. CASE id = x
        BY <1>1, <2>1, <2>3, <2>4, <2>5, <3>1, <3>2, <4>1
      <4>2. CASE id # x
        <5>1. \A v \in IoWorkers : reader'[v] = id <=> reader[v] = id
          BY <1>1, <3>1, <4>2 DEF x
        <5> QED
          BY <2>3, <3>2, <4>2, <5>1 DEF OwnInv, ReadsOwned
      <4> QED
        BY <4>1, <4>2
    <3> QED
      BY <3>3, <3>4, <3>5 DEF ReadsOwned
  <2>8. Fresh'
    BY <1>3, <2>1, <2>2, <2>4, <2>5
  <2> QED
    BY <1>2, <2>7, <2>8 DEF OwnInv
<1> QED
  BY <1>4, <1>5, <1>6 DEF IoWorker

LEMMA CpuKeepsFresh ==
    ASSUME OrderInv, OwnInv, UNCHANGED <<jobVars, ioVars>>,
           \A f \in Files : fileFut'[f].status # "none" <=> fileFut[f].status # "none"
    PROVE  Fresh'
<1>1. next \in Nat /\ next >= 1 /\ NumFiles \in Nat
  BY SizeAssumption DEF OrderInv, TypeOK, JobTypeOK
<1>2. \A f \in next .. NumFiles : f \in Files
  BY <1>1 DEF Files
<1> QED
  BY <1>2 DEF OwnInv, Fresh, jobVars, ioVars

(* The thread goes back to the queue and its file is nobody's any more. *)
LEMMA ResolveKeepsOwn ==
    ASSUME OrderInv, OwnInv, NEW w \in CpuWorkers, task[w].file \in Files,
           NEW status, NEW blocks, status \notin {"none", "pending"},
           Resolve(w, status, blocks), UNCHANGED <<stop, jobVars, ioVars, cpuQ>>
    PROVE  OwnInv'
<1> USE DEF OrderInv, TypeOK
<1> DEFINE f == task[w].file
<1>0. task \in [CpuWorkers -> TaskRecords] /\ fileFut \in [Files -> FileFutures] /\ cpuQ \in Seq(Files)
  BY DEF CpuTypeOK
<1>1. /\ \A v \in CpuWorkers : task'[v] = IF v = w THEN NoTask ELSE task[v]
      /\ \A g \in Files : fileFut'[g] = IF g = f THEN Future(status, blocks) ELSE fileFut[g]
  BY <1>0 DEF Resolve
<1>2. ~At(w, "idle") /\ fileFut[f].status = "pending"
  <2>1. task[w] # NoTask
    BY DEF NoTask, Files
  <2>2. ~At(w, "idle")
    BY <2>1 DEF TaskShape, WellFormed, At
  <2> QED
    BY <2>2 DEF OwnInv, TasksOwned
<1>3. ~Queued(f, cpuQ) /\ \A v \in CpuWorkers : v # w => task[v].file # f
  BY <1>2 DEF OwnInv, TasksOwned
<1>4. Future(status, blocks).status = status /\ NoTask.file = 0 /\ NoTask.stage = "idle" /\ 0 \notin Files
  BY DEF Future, NoTask, Files
<1>5. ~Queued(0, cpuQ)
  BY <1>0, <1>4, ElementOfSeq DEF Queued
<1>6. TasksOwned'
  <2>1. Distinct(cpuQ') /\ \A v \in CpuWorkers : ~Queued(task'[v].file, cpuQ')
    BY <1>1, <1>4, <1>5 DEF OwnInv, TasksOwned
  <2>2. \A u, v \in CpuWorkers : task'[u].file = task'[v].file /\ task'[u].stage # "idle" => u = v
    <3> SUFFICES ASSUME NEW u \in CpuWorkers, NEW v \in CpuWorkers,
                        task'[u].file = task'[v].file, task'[u].stage # "idle"
                 PROVE  u = v
      OBVIOUS
    <3>1. u # w
      BY <1>1, <1>4
    <3>2. task[u].file \in Files
      BY <1>1, <3>1 DEF TaskShape, WellFormed, NoTask
    <3>3. v # w
      BY <1>1, <1>4, <3>1, <3>2
    <3> QED
      BY <1>1, <3>1, <3>3 DEF OwnInv, TasksOwned, At
  <2>3. ASSUME NEW g \in Files
        PROVE  fileFut'[g].status = "pending" <=> Queued(g, cpuQ') \/ \E v \in CpuWorkers : task'[v].file = g
    <3>1. CASE g = f
      BY <1>1, <1>3, <1>4, <3>1
    <3>2. CASE g # f
      <4>1. \A v \in CpuWorkers : task'[v].file = g <=> task[v].file = g
        BY <1>1, <1>4, <3>2
      <4> QED
        BY <1>1, <3>2, <4>1 DEF OwnInv, TasksOwned
    <3> QED
      BY <3>1, <3>2
  <2> QED
    BY <2>1, <2>2, <2>3 DEF TasksOwned, At
<1>7. \A g \in Files : fileFut'[g].status # "none" <=> fileFut[g].status # "none"
  BY <1>1, <1>2, <1>4
<1> QED
  BY <1>6, <1>7, ReadsKept, CpuKeepsFresh DEF OwnInv

LEMMA AdvanceKeepsOwn ==
    ASSUME OrderInv, OwnInv, NEW w \in CpuWorkers, NEW t, t.file = task[w].file,
           ~At(w, "idle"), task' = [task EXCEPT ![w] = t],
           UNCHANGED <<stop, jobVars, ioVars, cpuQ, fileFut>>
    PROVE  OwnInv'
<1>1. task \in [CpuWorkers -> TaskRecords]
  BY DEF OrderInv, TypeOK, CpuTypeOK
<1>2. \A v \in CpuWorkers : task'[v].file = task[v].file /\ (v # w => task'[v] = task[v])
  BY <1>1
<1>3. \A u, v \in CpuWorkers : task'[u].file = task'[v].file /\ task'[u].stage # "idle" => u = v
  <2> SUFFICES ASSUME NEW u \in CpuWorkers, NEW v \in CpuWorkers,
                      task'[u].file = task'[v].file, task'[u].stage # "idle"
               PROVE  u = v
    OBVIOUS
  <2>1. ~At(u, "idle")
    BY <1>2 DEF At
  <2> QED
    BY <1>2, <2>1 DEF OwnInv, TasksOwned
<1>4. TasksOwned'
  BY <1>2, <1>3 DEF OwnInv, TasksOwned, At
<1> QED
  BY <1>4, ReadsKept, CpuKeepsFresh DEF OwnInv

LEMMA CpuKeepsOwn ==
    ASSUME OrderInv, OwnInv, NEW w \in CpuWorkers, CpuWorker(w)
    PROVE  OwnInv'
<1> USE DEF OrderInv, TypeOK
<1>0. task \in [CpuWorkers -> TaskRecords] /\ cpuQ \in Seq(Files) /\ WellFormed(task[w])
  BY DEF CpuTypeOK, TaskShape
<1>1. CASE TaskStart(w)
  <2> DEFINE f == Head(cpuQ)
             t == [file |-> f, stage |-> "check", block |-> 1, out |-> <<>>]
  <2>1. /\ f \in Files
        /\ \A y : Queued(y, cpuQ) <=> y = f \/ Queued(y, cpuQ')
        /\ Distinct(cpuQ') /\ ~Queued(f, cpuQ')
    BY <1>0, <1>1, HeadTailProperties, QueuedTail DEF TaskStart, OwnInv, TasksOwned
  <2>2. At(w, "idle") /\ task' = [task EXCEPT ![w] = t] /\ fileFut' = fileFut
    BY <1>1 DEF TaskStart
  <2>3. task[w] = NoTask
    BY <1>0, <2>2 DEF At, WellFormed
  <2>4. t.file = f /\ t.stage = "check" /\ NoTask.file = 0 /\ 0 \notin Files
    BY DEF NoTask, Files
  <2> HIDE DEF t, f
  <2>5. fileFut[f].status = "pending" /\ \A v \in CpuWorkers : task[v].file # f
    BY <2>1 DEF OwnInv, TasksOwned
  <2>6. \A v \in CpuWorkers : task'[v] = IF v = w THEN t ELSE task[v]
    BY <1>0, <2>2
  <2>7. TasksOwned'
    <3>1. \A v \in CpuWorkers : ~Queued(task'[v].file, cpuQ')
      BY <2>1, <2>4, <2>6 DEF OwnInv, TasksOwned
    <3>2. \A u, v \in CpuWorkers : task'[u].file = task'[v].file /\ task'[u].stage # "idle" => u = v
      BY <2>4, <2>5, <2>6 DEF OwnInv, TasksOwned, At
    <3>3. ASSUME NEW g \in Files
          PROVE  fileFut'[g].status = "pending" <=> Queued(g, cpuQ') \/ \E v \in CpuWorkers : task'[v].file = g
      <4>1. CASE g = f
        BY <2>2, <2>4, <2>5, <2>6, <4>1
      <4>2. CASE g # f
        <5>1. \A v \in CpuWorkers : task'[v].file = g <=> task[v].file = g
          BY <2>3, <2>4, <2>6, <4>2
        <5> QED
          BY <2>1, <2>2, <4>2, <5>1 DEF OwnInv, TasksOwned
      <4> QED
        BY <4>1, <4>2
    <3> QED
      BY <2>1, <3>1, <3>2, <3>3 DEF TasksOwned, At
  <2> QED
    BY <1>1, <2>2, <2>7, ReadsKept, CpuKeepsFresh DEF TaskStart, OwnInv
<1>2. ASSUME ~At(w, "idle") PROVE task[w].file \in Files
  BY <1>0, <1>2 DEF At, WellFormed, NoTask
<1>3. \A e \in TaskErrors \cup {"value"} : e \notin {"none", "pending"}
  BY ErrorAssumption DEF AllErrors, NonErrors
<1>4. CASE TaskCheck(w)
  <2>1. task[w].file \in Files /\ ~At(w, "idle")
    BY <1>2, <1>4 DEF TaskCheck, At
  <2>2. CASE stop
    BY <1>4, <2>1, <2>2, ResolveKeepsOwn DEF TaskCheck
  <2>3. CASE ~stop
    <3> DEFINE t == [task[w] EXCEPT !.stage = "get"]
    <3>1. t.file = task[w].file
      BY <1>0 DEF TaskRecords
    <3>2. task' = [task EXCEPT ![w] = t]
      BY <1>0, <1>4, <2>3 DEF TaskCheck
    <3> HIDE DEF t
    <3> QED
      BY <1>4, <2>1, <2>3, <3>1, <3>2, AdvanceKeepsOwn DEF TaskCheck
  <2> QED
    BY <2>2, <2>3
<1>5. CASE BlockFails(w)
  <2>1. /\ task[w].file \in Files
        /\ task[w].block \in 1 .. BlockCount[task[w].file]
    BY <1>0, <1>5 DEF BlockFails, At, WellFormed, NoTask
  <2>2. fileFut[task[w].file].status # "none"
    BY <2>1 DEF OwnInv, TasksOwned
  <2>3. blockFut[Current(w)] \notin {"none", "pending"}
    BY <1>5, <2>1, <2>2 DEF BlockFails, OwnInv, Fresh, Current
  <2> QED
    BY <1>5, <2>1, <2>3, ResolveKeepsOwn DEF BlockFails
<1>6. CASE BlockRead(w)
  <2>1. task[w].file \in Files /\ ~At(w, "idle")
    BY <1>2, <1>6 DEF BlockRead, At
  <2> DEFINE t == IF OnGpu(w) THEN Advanced(w, "lock") ELSE [task[w] EXCEPT !.stage = "compress"]
  <2>2. t.file = task[w].file
    BY <1>0 DEF Advanced, TaskRecords
  <2>3. task' = [task EXCEPT ![w] = t]
    BY <1>0, <1>6 DEF BlockRead
  <2> HIDE DEF t
  <2> QED
    BY <1>6, <2>1, <2>2, <2>3, AdvanceKeepsOwn DEF BlockRead
<1>7. CASE Compress(w)
  <2>1. task[w].file \in Files /\ ~At(w, "idle")
    BY <1>2, <1>7 DEF Compress, At
  <2>2. CASE LastBlock(w)
    BY <1>7, <2>1, <2>2, ResolveKeepsOwn DEF Compress
  <2>3. CASE ~LastBlock(w)
    <3>1. Advanced(w, "idle").file = task[w].file
      BY DEF Advanced
    <3> QED
      BY <1>7, <2>1, <2>3, <3>1, AdvanceKeepsOwn DEF Compress
  <2> QED
    BY <2>2, <2>3
<1>8. CASE Lock(w)
  <2>1. ~At(w, "idle")
    BY <1>8 DEF Lock, At
  <2> DEFINE t == [task[w] EXCEPT !.stage = "batch"]
  <2>2. t.file = task[w].file
    BY <1>0 DEF TaskRecords
  <2>3. task' = [task EXCEPT ![w] = t]
    BY <1>0, <1>8 DEF Lock
  <2> HIDE DEF t
  <2> QED
    BY <1>8, <2>1, <2>2, <2>3, AdvanceKeepsOwn DEF Lock
<1>9. CASE Batch(w)
  <2>1. task[w].file \in Files
    BY <1>2, <1>9 DEF Batch, At
  <2> QED
    BY <1>9, <2>1, ResolveKeepsOwn DEF Batch
<1>10. CASE CompressFails(w)
  <2>1. task[w].file \in Files
    BY <1>2, <1>10 DEF CompressFails, At
  <2>2. PICK e \in CompressErrors : Resolve(w, e, <<>>)
    BY <1>10 DEF CompressFails
  <2>3. e \notin {"none", "pending"}
    BY <1>3 DEF TaskErrors
  <2> QED
    BY <1>10, <2>1, <2>2, <2>3, ResolveKeepsOwn DEF CompressFails
<1> QED
  BY <1>1, <1>4, <1>5, <1>6, <1>7, <1>8, <1>9, <1>10 DEF CpuWorker

-----------------------------------------------------------------------------
(* The two parts together are inductive.                                   *)

Inv == OrderInv /\ OwnInv

LEMMA InitInv == Init => Inv
BY InitOrder, InitOwn DEF Inv

LEMMA StepInv == Inv /\ [Next]_vars => Inv'
<1> SUFFICES ASSUME Inv, [Next]_vars PROVE Inv'
  OBVIOUS
<1>1. ASSUME UNCHANGED <<jobVars, ioVars, cpuVars>>, stop' \in BOOLEAN PROVE Inv'
  <2>1. OrderInv'
    BY <1>1, Frames DEF Inv, OrderInv, TypeOK, Submitted, jobVars, cpuVars
  <2>2. OwnInv'
    BY <1>1, ReadsKept, TasksKept DEF Inv, OwnInv, Fresh, jobVars, ioVars, cpuVars
  <2> QED
    BY <2>1, <2>2 DEF Inv
<1>2. CASE RequestStop
  BY <1>1, <1>2 DEF RequestStop
<1>3. CASE Run
  BY <1>3, RunKeepsOrder, RunKeepsOwn DEF Inv
<1>4. ASSUME NEW w \in IoWorkers, IoWorker(w) PROVE Inv'
  BY <1>4, IoKeepsOrder, IoKeepsOwn DEF Inv
<1>5. ASSUME NEW w \in CpuWorkers, CpuWorker(w) PROVE Inv'
  BY <1>5, CpuKeepsOrder, CpuKeepsOwn DEF Inv
<1>6. CASE Done \/ UNCHANGED vars
  BY <1>1, <1>6 DEF Done, vars, Inv, OrderInv, TypeOK
<1> QED
  BY <1>2, <1>3, <1>4, <1>5, <1>6 DEF Next

THEOREM Invariance == Spec => []Inv
BY InitInv, StepInv, PTL DEF Spec

(* Every variable keeps its type: run() never leaves the files it was      *)
(* given, reads no block a file does not have and returns only outcomes    *)
(* its callees report.                                                     *)
THEOREM TypeCorrect == Spec => []TypeOK
<1>1. Inv => TypeOK
  BY DEF Inv, OrderInv
<1> QED
  BY <1>1, Invariance, PTL

(* The archive is written in input order and every entry in it is whole,   *)
(* for any number of files, blocks and threads of the two pools.           *)
THEOREM ArchiveOrdered == Spec => []ArchiveInOrder
<1>1. Inv => ArchiveInOrder
  BY DEF Inv, OrderInv
<1> QED
  BY <1>1, Invariance, PTL

(* No future is orphaned and no promise is set twice: whatever is pending  *)
(* is in its pool's queue or on one thread of it, and nowhere else.        *)
THEOREM FuturesOwned == Spec => []PendingIsOwned
<1>1. Inv => PendingIsOwned
  BY DEF Inv, OwnInv, PendingIsOwned
<1> QED
  BY <1>1, Invariance, PTL

-----------------------------------------------------------------------------
(* What the outcome of a job means: result, archive and stop, on top of    *)
(* the invariant.                                                          *)

(* run() has a result exactly when it is over, and the archive is sealed   *)
(* exactly when that result is Ok.                                         *)
Ended ==
    /\ pc = "returned" <=> result # "none"
    /\ sealed <=> result = "Ok"

Counts == stats.files = Len(archive) /\ published <= Len(archive)

(* What the drain loop has passed has a value. *)
Drained ==
    /\ pc \in {"drain", "get"} => \A f \in 1 .. next - 1 : fileFut[f].status = "value"
    /\ pc = "finish" => \A f \in Files : fileFut[f].status = "value"

(* What a task has collected, and what a finished file is made of, was     *)
(* read.                                                                   *)
ReadFirst ==
    /\ \A w \in CpuWorkers : task[w] # NoTask =>
          /\ \A b \in 1 .. Len(task[w].out) : blockFut[<<task[w].file, b>>] = "value"
          /\ At(w, "compress") => blockFut[Current(w)] = "value"
    /\ \A f \in Files : fileFut[f].status = "value" =>
          \A b \in 1 .. BlockCount[f] : blockFut[<<f, b>>] = "value"

-----------------------------------------------------------------------------
LEMMA ErrorNames ==
    /\ \A e \in AllErrors : e \notin {"none", "pending", "value", "Ok"}
    /\ \A e \in ReadErrors \cup CompressErrors \cup SetupErrors \cup WriteErrors :
          e # "Cancelled" /\ e \in AllErrors
BY ErrorAssumption DEF AllErrors, TaskErrors, NonErrors

(* A pool with nothing pending is idle. *)
LEMMA AllValuesIdle ==
    ASSUME Inv, \A f \in Files : fileFut[f].status = "value",
           \A f \in Files : \A b \in 1 .. BlockCount[f] : blockFut[<<f, b>>] = "value"
    PROVE  Idle
<1> USE DEF Inv, OrderInv, OwnInv, TypeOK
<1>1. \A id \in BlockIds : blockFut[id] = "value"
  BY SizeAssumption DEF BlockIds, Files
<1>2. ioQ = <<>>
  <2>1. ioQ \in Seq(BlockIds)
    BY DEF IoTypeOK
  <2> SUFFICES ASSUME ioQ # <<>> PROVE FALSE
    OBVIOUS
  <2>2. Head(ioQ) \in BlockIds /\ Queued(Head(ioQ), ioQ)
    BY <2>1, HeadTailProperties, QueuedTail
  <2> QED
    BY <1>1, <2>2 DEF ReadsOwned
<1>3. cpuQ = <<>>
  <2>1. cpuQ \in Seq(Files)
    BY DEF CpuTypeOK
  <2> SUFFICES ASSUME cpuQ # <<>> PROVE FALSE
    OBVIOUS
  <2>2. Head(cpuQ) \in Files /\ Queued(Head(cpuQ), cpuQ)
    BY <2>1, HeadTailProperties, QueuedTail
  <2> QED
    BY <2>2 DEF TasksOwned
<1>4. \A w \in IoWorkers : reader[w] = NoBlock
  BY <1>1 DEF IoTypeOK, ReadsOwned
<1>5. \A w \in CpuWorkers : At(w, "idle")
  BY DEF TaskShape, WellFormed, TasksOwned, At, NoTask
<1> QED
  BY <1>2, <1>3, <1>4, <1>5 DEF Idle

LEMMA FullArchive == Inv /\ Len(archive) = NumFiles => archive = Expected
<1> SUFFICES ASSUME Inv, Len(archive) = NumFiles PROVE archive = Expected
  OBVIOUS
<1>1. archive \in Seq(Entries)
  BY DEF Inv, OrderInv, TypeOK, JobTypeOK
<1>2. archive \in [Files -> Entries]
  BY <1>1, LenProperties DEF Files
<1>3. \A f \in Files : archive[f] = FileEntry(f)
  BY DEF Inv, OrderInv, ArchiveInOrder, Files
<1> QED
  BY <1>2, <1>3 DEF Expected

OutcomeInv ==
    Ended /\ Counts /\ Drained /\ ReadFirst /\ OkIsComplete /\ FailureIsFirst /\ CancelHasCause

LEMMA InitOutcome == Init => OutcomeInv
<1> SUFFICES ASSUME Init PROVE OutcomeInv
  OBVIOUS
<1>1. Ended /\ Counts /\ OkIsComplete /\ FailureIsFirst
  BY DEF Init, Ended, Counts, OkIsComplete, FailureIsFirst
<1>2. Drained
  BY DEF Init, Drained
<1>3. ReadFirst
  BY DEF Init, ReadFirst, Future
<1>4. CancelHasCause
  BY DEF Init, CancelHasCause, Future
<1> QED
  BY <1>1, <1>2, <1>3, <1>4 DEF OutcomeInv

-----------------------------------------------------------------------------
(* The I/O pool.                                                           *)

LEMMA IoKeepsOutcome ==
    ASSUME Inv, OutcomeInv, NEW w \in IoWorkers, IoWorker(w)
    PROVE  OutcomeInv'
<1> USE DEF Inv, OrderInv, OwnInv, TypeOK
<1>0. /\ UNCHANGED <<stop, jobVars, cpuVars>>
      /\ blockFut \in [BlockIds -> {"none", "pending", "value", "Cancelled"} \cup ReadErrors]
  BY DEF IoWorker, ReadSkip, ReadStart, ReadEnd, IoTypeOK
<1>1. ~Idle
  BY DEF Idle, IoWorker, ReadSkip, ReadStart, ReadEnd
<1>2. \A id \in BlockIds :
         /\ blockFut[id] = "value" => blockFut'[id] = "value"
         /\ blockFut'[id] = "Cancelled" => stop \/ blockFut[id] = "Cancelled"
  <2>1. CASE ReadSkip(w)
    <3>1. Head(ioQ) \in BlockIds /\ Queued(Head(ioQ), ioQ)
      BY <2>1, HeadTailProperties, QueuedTail DEF ReadSkip, IoTypeOK
    <3>2. blockFut[Head(ioQ)] = "pending"
      BY <3>1 DEF ReadsOwned
    <3> QED
      BY <1>0, <2>1, <3>2 DEF ReadSkip
  <2>2. CASE ReadStart(w)
    BY <2>2 DEF ReadStart
  <2>3. CASE ReadEnd(w)
    <3>1. reader[w] \in BlockIds /\ blockFut[reader[w]] = "pending"
      BY <2>3 DEF ReadEnd, IoTypeOK, ReadsOwned
    <3>2. PICK s \in {"value"} \cup ReadErrors : blockFut' = [blockFut EXCEPT ![reader[w]] = s]
      BY <2>3 DEF ReadEnd
    <3>3. s # "Cancelled"
      BY ErrorNames
    <3> QED
      BY <1>0, <3>1, <3>2, <3>3
  <2> QED
    BY <2>1, <2>2, <2>3 DEF IoWorker
<1>3. Ended' /\ Counts' /\ Drained' /\ FailureIsFirst'
  BY <1>0 DEF OutcomeInv, Ended, Counts, Drained, FailureIsFirst, jobVars, cpuVars
<1>4. ReadFirst'
  <2>1. \A f \in Files : \A b \in 1 .. BlockCount[f] : <<f, b>> \in BlockIds
    BY BlockIdIntro
  <2>2. \A f \in Files : fileFut'[f].status = "value" =>
           \A b \in 1 .. BlockCount[f] : blockFut'[<<f, b>>] = "value"
    BY <1>0, <1>2, <2>1 DEF OutcomeInv, ReadFirst, cpuVars
  <2>3. ASSUME NEW v \in CpuWorkers, task[v] # NoTask
        PROVE  /\ \A b \in 1 .. Len(task[v].out) : blockFut'[<<task[v].file, b>>] = "value"
               /\ At(v, "compress") => blockFut'[Current(v)] = "value"
    <3>1. task[v].file \in Files /\ BlockCount[task[v].file] \in Nat
      BY <2>3, SizeAssumption DEF TaskShape, WellFormed
    <3>2. \A b \in 1 .. Len(task[v].out) : b \in 1 .. BlockCount[task[v].file]
      BY <2>3, <3>1 DEF TaskShape, WellFormed, BlocksUpTo
    <3>3. At(v, "compress") => Current(v) \in BlockIds
      BY <2>1, <2>3 DEF TaskShape, WellFormed, At, Current
    <3> QED
      BY <1>2, <2>1, <2>3, <3>1, <3>2, <3>3 DEF OutcomeInv, ReadFirst
  <2> QED
    BY <1>0, <2>2, <2>3 DEF ReadFirst, At, Current, cpuVars
<1>5. OkIsComplete'
  BY <1>0, <1>1 DEF OutcomeInv, OkIsComplete, jobVars
<1>6. CancelHasCause'
  BY <1>0, <1>2 DEF OutcomeInv, CancelHasCause, jobVars, cpuVars
<1> QED
  BY <1>3, <1>4, <1>5, <1>6 DEF OutcomeInv

-----------------------------------------------------------------------------
(* The CPU pool.                                                           *)

(* The blocks task[w] has collected, or holds, were read. *)
BlocksRead(t) ==
    /\ \A b \in 1 .. Len(t.out) : blockFut[<<t.file, b>>] = "value"
    /\ t.stage = "compress" => blockFut[<<t.file, t.block>>] = "value"

LEMMA CpuKeepsJob ==
    ASSUME OutcomeInv, ~Idle, UNCHANGED <<stop, jobVars, ioVars>>
    PROVE  Ended' /\ Counts' /\ OkIsComplete'
BY DEF OutcomeInv, Ended, Counts, OkIsComplete, jobVars

LEMMA ResolveKeepsOutcome ==
    ASSUME Inv, OutcomeInv, NEW w \in CpuWorkers, task[w].file \in Files, ~At(w, "idle"),
           NEW status \in {"value"} \cup TaskErrors, NEW blocks,
           status = "value" =>
               \A b \in 1 .. BlockCount[task[w].file] : blockFut[<<task[w].file, b>>] = "value",
           status = "Cancelled" => stop,
           Resolve(w, status, blocks), UNCHANGED <<stop, jobVars, ioVars, cpuQ>>
    PROVE  OutcomeInv'
<1> USE DEF Inv, OrderInv, OwnInv, TypeOK
<1> DEFINE f == task[w].file
<1>0. task \in [CpuWorkers -> TaskRecords] /\ fileFut \in [Files -> FileFutures]
  BY DEF CpuTypeOK
<1>1. /\ \A v \in CpuWorkers : task'[v] = IF v = w THEN NoTask ELSE task[v]
      /\ \A g \in Files : fileFut'[g].status = IF g = f THEN status ELSE fileFut[g].status
  BY <1>0 DEF Resolve, Future
<1>2. fileFut[f].status = "pending"
  BY DEF TasksOwned
<1>3. Ended' /\ Counts' /\ OkIsComplete'
  BY CpuKeepsJob DEF Idle
<1>4. Drained'
  <2>1. \A g \in Files : fileFut[g].status = "value" => fileFut'[g].status = "value"
    BY <1>1, <1>2
  <2>2. \A g \in 1 .. next - 1 : g \in Files
    BY SizeAssumption DEF JobTypeOK, Files
  <2> QED
    BY <2>1, <2>2 DEF OutcomeInv, Drained, jobVars
<1>5. ReadFirst'
  BY <1>1 DEF OutcomeInv, ReadFirst, ioVars, At, Current
<1>6. FailureIsFirst'
  <2> SUFFICES ASSUME result \notin {"none", "Ok", "Cancelled"} \cup SetupErrors \cup WriteErrors
               PROVE  Len(archive) < NumFiles /\ fileFut'[Len(archive) + 1].status = result
    BY DEF FailureIsFirst, jobVars
  <2>1. Len(archive) < NumFiles /\ fileFut[Len(archive) + 1].status = result
    BY DEF OutcomeInv, FailureIsFirst
  <2>2. Len(archive) \in Nat
    BY LenProperties DEF JobTypeOK
  <2>3. Len(archive) + 1 \in Files
    BY <2>1, <2>2, SizeAssumption DEF Files
  <2>4. result # "pending"
    BY ErrorNames DEF JobTypeOK
  <2> QED
    BY <1>1, <1>2, <2>1, <2>3, <2>4
<1>7. CancelHasCause'
  BY <1>1 DEF OutcomeInv, CancelHasCause, jobVars, ioVars
<1> QED
  BY <1>3, <1>4, <1>5, <1>6, <1>7 DEF OutcomeInv

LEMMA AdvanceKeepsOutcome ==
    ASSUME Inv, OutcomeInv, NEW w \in CpuWorkers, NEW t, BlocksRead(t), ~Idle,
           task' = [task EXCEPT ![w] = t], UNCHANGED <<stop, jobVars, ioVars, fileFut>>
    PROVE  OutcomeInv'
<1>0. \A v \in CpuWorkers : task'[v] = IF v = w THEN t ELSE task[v]
  BY DEF Inv, OrderInv, TypeOK, CpuTypeOK
<1>1. Ended' /\ Counts' /\ OkIsComplete'
  BY CpuKeepsJob
<1>2. Drained' /\ FailureIsFirst' /\ CancelHasCause'
  BY DEF OutcomeInv, Drained, FailureIsFirst, CancelHasCause, jobVars, ioVars
<1>3. ReadFirst'
  BY <1>0 DEF OutcomeInv, ReadFirst, BlocksRead, ioVars, At, Current
<1> QED
  BY <1>1, <1>2, <1>3 DEF OutcomeInv

LEMMA CpuKeepsOutcome ==
    ASSUME Inv, OutcomeInv, NEW w \in CpuWorkers, CpuWorker(w)
    PROVE  OutcomeInv'
<1> USE DEF Inv, OrderInv, OwnInv, TypeOK
<1> DEFINE f == task[w].file
           b == task[w].block
<1>0. /\ task[w] \in TaskRecords /\ WellFormed(task[w])
      /\ task[w] # NoTask => BlocksRead(task[w])
  BY DEF CpuTypeOK, TaskShape, OutcomeInv, ReadFirst, BlocksRead, At, Current
<1>1. CASE TaskStart(w)
  <2> DEFINE t == [file |-> Head(cpuQ), stage |-> "check", block |-> 1, out |-> <<>>]
  <2>1. BlocksRead(t)
    BY DEF BlocksRead
  <2>2. task' = [task EXCEPT ![w] = t]
    BY <1>1 DEF TaskStart
  <2>3. ~Idle
    BY <1>1 DEF TaskStart, Idle
  <2> HIDE DEF t
  <2> QED
    BY <1>1, <2>1, <2>2, <2>3, AdvanceKeepsOutcome DEF TaskStart
<1>2. ASSUME ~At(w, "idle")
      PROVE  f \in Files /\ ~Idle /\ BlocksRead(task[w])
  BY <1>0, <1>2 DEF At, WellFormed, NoTask, Idle
<1>3. ASSUME task[w].stage \in {"check", "get", "compress"}
      PROVE  /\ b \in 1 .. BlockCount[f] /\ BlockCount[f] \in Nat
             /\ BlocksUpTo(task[w].out, f, b - 1)
             /\ task[w].out \in Seq(BlockIds)
  BY <1>0, <1>3, SizeAssumption DEF WellFormed, NoTask, TaskRecords
<1>4. CASE TaskCheck(w)
  <2>1. ~At(w, "idle") /\ task[w].stage = "check"
    BY <1>4 DEF TaskCheck, At
  <2>2. CASE stop
    <3>1. Resolve(w, "Cancelled", <<>>) /\ "Cancelled" \in TaskErrors
      BY <1>4, <2>2 DEF TaskCheck, TaskErrors
    <3> QED
      BY <1>2, <1>4, <2>1, <2>2, <3>1, ResolveKeepsOutcome DEF TaskCheck
  <2>3. CASE ~stop
    <3> DEFINE t == [task[w] EXCEPT !.stage = "get"]
    <3>1. BlocksRead(t)
      BY <1>0, <1>2, <2>1 DEF BlocksRead, TaskRecords
    <3>2. task' = [task EXCEPT ![w] = t]
      BY <1>4, <2>3 DEF TaskCheck, CpuTypeOK
    <3> HIDE DEF t
    <3> QED
      BY <1>2, <1>4, <2>1, <2>3, <3>1, <3>2, AdvanceKeepsOutcome DEF TaskCheck
  <2> QED
    BY <2>2, <2>3
<1>5. CASE BlockFails(w)
  <2>1. ~At(w, "idle") /\ task[w].stage = "get"
    BY <1>5 DEF BlockFails, At
  <2>2. Current(w) \in BlockIds
    BY <1>2, <1>3, <2>1, BlockIdIntro DEF Current
  <2>3. fileFut[f].status # "none"
    BY <1>2, <2>1 DEF TasksOwned
  <2>4. blockFut[Current(w)] \in TaskErrors
    <3>1. blockFut[Current(w)] # "none"
      BY <1>2, <1>3, <2>1, <2>3 DEF Fresh, Current
    <3> QED
      BY <1>5, <2>2, <3>1 DEF BlockFails, IoTypeOK, TaskErrors
  <2>5. blockFut[Current(w)] = "Cancelled" => stop
    BY <2>2 DEF OutcomeInv, CancelHasCause
  <2>6. blockFut[Current(w)] # "value"
    BY <1>5 DEF BlockFails
  <2> QED
    BY <1>2, <1>5, <2>1, <2>4, <2>5, <2>6, ResolveKeepsOutcome DEF BlockFails
<1>6. ASSUME task[w].stage \in {"get", "compress"}, blockFut[Current(w)] = "value",
             NEW last, last # "compress"
      PROVE  BlocksRead(Advanced(w, last))
  <2>1. ~At(w, "idle")
    BY <1>6 DEF At
  <2>2. Len(Append(task[w].out, Current(w))) = b
    BY <1>2, <1>3, <1>6, <2>1, AppendBlock DEF BlocksUpTo, Current
  <2>3. \A i \in 1 .. b : blockFut[<<f, i>>] = "value"
    BY <1>2, <1>3, <1>6, <2>1 DEF BlocksRead, BlocksUpTo, Current
  <2> QED
    BY <1>6, <2>2, <2>3 DEF BlocksRead, Advanced
<1>7. CASE BlockRead(w)
  <2>1. ~At(w, "idle") /\ task[w].stage = "get" /\ blockFut[Current(w)] = "value"
    BY <1>7 DEF BlockRead, At
  <2>2. CASE OnGpu(w)
    <3>1. BlocksRead(Advanced(w, "lock"))
      BY <1>6, <2>1
    <3>2. task' = [task EXCEPT ![w] = Advanced(w, "lock")]
      BY <1>7, <2>2 DEF BlockRead
    <3> QED
      BY <1>2, <1>7, <2>1, <3>1, <3>2, AdvanceKeepsOutcome DEF BlockRead
  <2>3. CASE ~OnGpu(w)
    <3> DEFINE t == [task[w] EXCEPT !.stage = "compress"]
    <3>1. BlocksRead(t)
      BY <1>0, <1>2, <2>1 DEF BlocksRead, TaskRecords, Current
    <3>2. task' = [task EXCEPT ![w] = t]
      BY <1>7, <2>3 DEF BlockRead, CpuTypeOK
    <3> HIDE DEF t
    <3> QED
      BY <1>2, <1>7, <2>1, <3>1, <3>2, AdvanceKeepsOutcome DEF BlockRead
  <2> QED
    BY <2>2, <2>3
<1>8. CASE Compress(w)
  <2>1. ~At(w, "idle") /\ task[w].stage = "compress"
    BY <1>8 DEF Compress, At
  <2>2. blockFut[Current(w)] = "value"
    BY <1>2, <2>1 DEF BlocksRead, Current
  <2>3. CASE LastBlock(w)
    <3>1. \A i \in 1 .. BlockCount[f] : blockFut[<<f, i>>] = "value"
      BY <1>2, <1>3, <2>1, <2>2, <2>3 DEF BlocksRead, BlocksUpTo, Current, LastBlock
    <3>2. Resolve(w, "value", Append(task[w].out, Current(w)))
      BY <1>8, <2>3 DEF Compress
    <3> QED
      BY <1>2, <1>8, <2>1, <3>1, <3>2, ResolveKeepsOutcome DEF Compress
  <2>4. CASE ~LastBlock(w)
    <3>1. BlocksRead(Advanced(w, "idle"))
      BY <1>6, <2>1, <2>2
    <3>2. task' = [task EXCEPT ![w] = Advanced(w, "idle")] /\ fileFut' = fileFut
      BY <1>8, <2>4 DEF Compress
    <3> QED
      BY <1>2, <1>8, <2>1, <3>1, <3>2, AdvanceKeepsOutcome DEF Compress
  <2> QED
    BY <2>3, <2>4
<1>9. CASE Lock(w)
  <2>1. ~At(w, "idle") /\ task[w].stage = "lock"
    BY <1>9 DEF Lock, At
  <2> DEFINE t == [task[w] EXCEPT !.stage = "batch"]
  <2>2. BlocksRead(t)
    BY <1>0, <1>2, <2>1 DEF BlocksRead, TaskRecords
  <2>3. task' = [task EXCEPT ![w] = t]
    BY <1>9 DEF Lock, CpuTypeOK
  <2> HIDE DEF t
  <2> QED
    BY <1>2, <1>9, <2>1, <2>2, <2>3, AdvanceKeepsOutcome DEF Lock
<1>10. CASE Batch(w)
  <2>1. ~At(w, "idle") /\ task[w].stage = "batch"
    BY <1>10 DEF Batch, At
  <2>2. Len(task[w].out) = BlockCount[f]
    BY <1>0, <2>1 DEF WellFormed, BlocksUpTo, NoTask
  <2>3. \A i \in 1 .. BlockCount[f] : blockFut[<<f, i>>] = "value"
    BY <1>2, <2>1, <2>2 DEF BlocksRead
  <2> QED
    BY <1>2, <1>10, <2>1, <2>3, ResolveKeepsOutcome DEF Batch
<1>11. CASE CompressFails(w)
  <2>1. ~At(w, "idle")
    BY <1>11 DEF CompressFails, At
  <2>2. PICK e \in CompressErrors : Resolve(w, e, <<>>)
    BY <1>11 DEF CompressFails
  <2>3. e \in TaskErrors /\ e # "value" /\ e # "Cancelled"
    BY ErrorNames DEF TaskErrors
  <2> QED
    BY <1>2, <1>11, <2>1, <2>2, <2>3, ResolveKeepsOutcome DEF CompressFails
<1> QED
  BY <1>1, <1>4, <1>5, <1>7, <1>8, <1>9, <1>10, <1>11 DEF CpuWorker

-----------------------------------------------------------------------------
(* run() itself.                                                           *)

LEMMA ReturnKeepsOutcome ==
    ASSUME Inv, OutcomeInv, NEW e \in AllErrors, pc # "returned", Return(e),
           e = "Cancelled" => stop,
           \/ e \in {"Cancelled"} \cup SetupErrors \cup WriteErrors
           \/ Len(archive) < NumFiles /\ fileFut[Len(archive) + 1].status = e,
           UNCHANGED <<stop, next, sub, archive, sealed, stats, published, ioVars, cpuVars>>
    PROVE  OutcomeInv'
<1>1. e \notin {"none", "Ok"}
  BY ErrorNames
<1>2. Ended'
  BY <1>1 DEF OutcomeInv, Ended, Return
<1>3. Counts' /\ Drained' /\ OkIsComplete'
  BY <1>1 DEF OutcomeInv, Counts, Drained, OkIsComplete, Return
<1>4. ReadFirst'
  BY DEF OutcomeInv, ReadFirst, At, Current, ioVars, cpuVars
<1>5. FailureIsFirst'
  BY DEF FailureIsFirst, Return, cpuVars
<1>6. CancelHasCause'
  BY DEF OutcomeInv, CancelHasCause, Return, ioVars, cpuVars
<1> QED
  BY <1>2, <1>3, <1>4, <1>5, <1>6 DEF OutcomeInv

LEMMA RunKeepsOutcome == Inv /\ OutcomeInv /\ Run => OutcomeInv'
<1> SUFFICES ASSUME Inv, OutcomeInv, Run PROVE OutcomeInv'
  OBVIOUS
<1> USE DEF Inv, OrderInv, OwnInv, TypeOK
<1>0. /\ NumFiles \in Nat /\ NumFiles >= 1 /\ next \in Nat /\ next >= 1
      /\ Len(archive) \in Nat /\ archive \in Seq(Entries)
  BY SizeAssumption, LenProperties DEF JobTypeOK
<1>1. pc # "returned" /\ result = "none" /\ ~sealed
  BY DEF OutcomeInv, Ended, Run, Setup, SetupFails, SubmitCheck, QueueRead, QueueTask, DrainCheck,
     DrainEnd, FileFails, WriteFile, WriteFails, Finish, FinishFails, Got
<1>2. ASSUME UNCHANGED <<stop, archive, sealed, result, stats, published>>, pc' # "returned"
      PROVE  Ended' /\ Counts' /\ OkIsComplete' /\ FailureIsFirst'
  BY <1>1, <1>2 DEF OutcomeInv, Ended, Counts, OkIsComplete, FailureIsFirst
<1>3. ASSUME UNCHANGED <<ioVars, cpuVars>> PROVE ReadFirst'
  BY <1>3 DEF OutcomeInv, ReadFirst, At, Current, ioVars, cpuVars
<1>4. ASSUME UNCHANGED <<stop, result, ioVars, cpuVars>> PROVE CancelHasCause'
  BY <1>4 DEF OutcomeInv, CancelHasCause, ioVars, cpuVars
<1>5. CASE Setup
  BY <1>2, <1>3, <1>4, <1>5 DEF Setup, OutcomeInv, Drained
<1>6. CASE SetupFails
  <2>1. PICK e \in SetupErrors : Return(e)
    BY <1>6 DEF SetupFails
  <2> QED
    BY <1>1, <1>6, <2>1, ErrorNames, ReturnKeepsOutcome DEF SetupFails
<1>7. CASE SubmitCheck
  <2>1. CASE stop
    BY <1>1, <1>7, <2>1, ReturnKeepsOutcome DEF SubmitCheck, AllErrors, TaskErrors
  <2>2. CASE ~stop
    BY <1>2, <1>3, <1>4, <1>7, <2>2 DEF SubmitCheck, OutcomeInv, Drained
  <2> QED
    BY <2>1, <2>2
<1>8. CASE QueueRead
  <2> DEFINE x == <<next, sub + 1>>
  <2>1. \A id \in BlockIds : id # x => blockFut'[id] = blockFut[id]
    BY <1>8 DEF QueueRead, IoTypeOK
  <2>2. blockFut'[x] = "pending" \/ x \notin BlockIds
    BY <1>8 DEF QueueRead, IoTypeOK
  <2>3. x \in BlockIds => blockFut[x] = "none"
    BY <1>0, <1>8 DEF QueueRead, Fresh, JobTypeOK
  <2>4. \A id \in BlockIds :
           /\ blockFut[id] = "value" => blockFut'[id] = "value"
           /\ blockFut'[id] = "Cancelled" => blockFut[id] = "Cancelled"
    BY <2>1, <2>2, <2>3
  <2> HIDE DEF x
  <2>5. ReadFirst'
    <3>1. \A f \in Files : \A b \in 1 .. BlockCount[f] : <<f, b>> \in BlockIds
      BY BlockIdIntro
    <3>2. ASSUME NEW v \in CpuWorkers, task[v] # NoTask
          PROVE  /\ \A b \in 1 .. Len(task[v].out) : blockFut'[<<task[v].file, b>>] = "value"
                 /\ At(v, "compress") => blockFut'[Current(v)] = "value"
      <4>1. task[v].file \in Files /\ BlockCount[task[v].file] \in Nat
        BY <3>2, SizeAssumption DEF TaskShape, WellFormed
      <4>2. \A b \in 1 .. Len(task[v].out) : b \in 1 .. BlockCount[task[v].file]
        BY <3>2, <4>1 DEF TaskShape, WellFormed, BlocksUpTo
      <4>3. At(v, "compress") => Current(v) \in BlockIds
        BY <3>1, <3>2 DEF TaskShape, WellFormed, At, Current
      <4> QED
        BY <2>4, <3>1, <3>2, <4>1, <4>2, <4>3 DEF OutcomeInv, ReadFirst
    <3>3. \A f \in Files : fileFut'[f].status = "value" =>
             \A b \in 1 .. BlockCount[f] : blockFut'[<<f, b>>] = "value"
      BY <1>8, <2>4, <3>1 DEF QueueRead, OutcomeInv, ReadFirst, cpuVars
    <3> QED
      BY <1>8, <3>2, <3>3 DEF QueueRead, ReadFirst, At, Current, cpuVars
  <2>6. CancelHasCause'
    BY <1>8, <2>4 DEF QueueRead, OutcomeInv, CancelHasCause, cpuVars
  <2>7. Drained'
    BY <1>8 DEF QueueRead, Drained
  <2> QED
    BY <1>2, <1>8, <2>5, <2>6, <2>7 DEF QueueRead, OutcomeInv
<1>9. CASE QueueTask
  <2>1. next \in Files
    BY <1>0, <1>9 DEF QueueTask, Position, Files
  <2>2. \A f \in Files : /\ fileFut'[f].status = "value" => fileFut[f].status = "value"
                         /\ fileFut'[f].status = "Cancelled" => fileFut[f].status = "Cancelled"
    BY <1>9, <2>1 DEF QueueTask, CpuTypeOK, Future
  <2>3. ReadFirst'
    BY <1>9, <2>2 DEF QueueTask, OutcomeInv, ReadFirst, At, Current, ioVars
  <2>4. CancelHasCause'
    BY <1>9, <2>2 DEF QueueTask, OutcomeInv, CancelHasCause, ioVars
  <2>5. Drained' /\ pc' # "returned"
    BY <1>9 DEF QueueTask, Drained
  <2> QED
    BY <1>2, <1>9, <2>3, <2>4, <2>5 DEF QueueTask, OutcomeInv
<1>10. CASE DrainCheck
  <2>1. CASE stop
    BY <1>1, <1>10, <2>1, ReturnKeepsOutcome DEF DrainCheck, AllErrors, TaskErrors
  <2>2. CASE ~stop
    BY <1>2, <1>3, <1>4, <1>10, <2>2 DEF DrainCheck, OutcomeInv, Drained, cpuVars
  <2> QED
    BY <2>1, <2>2
<1>11. CASE DrainEnd
  <2>1. next - 1 = NumFiles
    BY <1>0, <1>11 DEF DrainEnd, JobTypeOK
  <2>2. Drained'
    BY <1>11, <2>1 DEF DrainEnd, OutcomeInv, Drained, Files, cpuVars
  <2> QED
    BY <1>2, <1>3, <1>4, <1>11, <2>2 DEF DrainEnd, OutcomeInv
<1>12. CASE FileFails
  <2>1. pc = "get" /\ next \in Files /\ Len(archive) + 1 = next
    BY <1>0, <1>12 DEF FileFails, Got, Position, Files
  <2>2. fileFut[next].status \in TaskErrors
    BY <1>12, <2>1 DEF FileFails, Got, CpuTypeOK, FileFutures, Submitted
  <2>3. fileFut[next].status = "Cancelled" => stop
    BY <2>1 DEF OutcomeInv, CancelHasCause
  <2>4. Len(archive) < NumFiles /\ fileFut[Len(archive) + 1].status = fileFut[next].status
    BY <1>0, <2>1 DEF Files
  <2> QED
    BY <1>1, <1>12, <2>2, <2>3, <2>4, ReturnKeepsOutcome DEF FileFails, AllErrors
<1>13. CASE WriteFile
  <2>1. pc = "get" /\ next \in Files /\ fileFut[next].status = "value"
    BY <1>0, <1>13 DEF WriteFile, Got, Position, Files
  <2>2. Len(archive') = Len(archive) + 1
    <3>1. [file |-> next, blocks |-> fileFut[next].blocks] \in Entries
      BY <2>1 DEF CpuTypeOK, FileFutures, Entries
    <3> QED
      BY <1>0, <1>13, <3>1, AppendProperties DEF WriteFile
  <2>3. Counts'
    <3>1. stats'.files = stats.files + 1
      BY <1>13 DEF WriteFile, Tally
    <3>2. published' \in {published, stats.files + 1} /\ published \in Nat
      BY <1>13 DEF WriteFile, JobTypeOK
    <3> QED
      BY <1>0, <2>2, <3>1, <3>2 DEF OutcomeInv, Counts
  <2>4. Drained'
    BY <1>0, <1>13, <2>1 DEF WriteFile, OutcomeInv, Drained, cpuVars
  <2>5. Ended' /\ OkIsComplete' /\ FailureIsFirst'
    BY <1>1, <1>13 DEF WriteFile, Ended, OkIsComplete, FailureIsFirst
  <2> QED
    BY <1>3, <1>4, <1>13, <2>3, <2>4, <2>5 DEF WriteFile, OutcomeInv
<1>14. CASE WriteFails
  <2>1. PICK e \in WriteErrors : Return(e)
    BY <1>14 DEF WriteFails
  <2> QED
    BY <1>1, <1>14, <2>1, ErrorNames, ReturnKeepsOutcome DEF WriteFails
<1>15. CASE Finish
  <2>1. pc = "finish" /\ pc' = "returned" /\ result' = "Ok" /\ sealed' = TRUE /\ published' = stats.files
    BY <1>15 DEF Finish, Return
  <2>2. \A f \in Files : fileFut[f].status = "value"
    BY <2>1 DEF OutcomeInv, Drained
  <2>3. Idle
    BY <2>2, AllValuesIdle DEF OutcomeInv, ReadFirst
  <2>4. archive = Expected /\ Len(archive) = NumFiles /\ stats.files = NumFiles
    BY <2>1, FullArchive DEF Position, OutcomeInv, Counts
  <2>5. OkIsComplete'
    BY <1>15, <2>1, <2>3, <2>4 DEF Finish, OkIsComplete, Idle, At, ioVars, cpuVars
  <2>6. Ended' /\ Counts' /\ Drained' /\ FailureIsFirst'
    BY <1>0, <1>15, <2>1, <2>4 DEF Finish, Ended, Counts, Drained, FailureIsFirst
  <2>7. CancelHasCause'
    BY <1>15, <2>1 DEF Finish, OutcomeInv, CancelHasCause, ioVars, cpuVars
  <2> QED
    BY <1>3, <1>15, <2>5, <2>6, <2>7 DEF Finish, OutcomeInv
<1>16. CASE FinishFails
  <2>1. PICK e \in WriteErrors : Return(e)
    BY <1>16 DEF FinishFails
  <2> QED
    BY <1>1, <1>16, <2>1, ErrorNames, ReturnKeepsOutcome DEF FinishFails
<1> QED
  BY <1>5, <1>6, <1>7, <1>8, <1>9, <1>10, <1>11, <1>12, <1>13, <1>14, <1>15, <1>16 DEF Run

-----------------------------------------------------------------------------
LEMMA StepOutcome == Inv /\ OutcomeInv /\ [Next]_vars => OutcomeInv'
<1> SUFFICES ASSUME Inv, OutcomeInv, [Next]_vars PROVE OutcomeInv'
  OBVIOUS
<1>1. CASE UNCHANGED <<jobVars, ioVars, cpuVars>> /\ (stop => stop')
  <2>1. Ended' /\ Counts' /\ Drained' /\ FailureIsFirst'
    BY <1>1 DEF OutcomeInv, Ended, Counts, Drained, FailureIsFirst, jobVars, cpuVars
  <2>2. ReadFirst'
    BY <1>1 DEF OutcomeInv, ReadFirst, At, Current, ioVars, cpuVars
  <2>3. OkIsComplete'
    BY <1>1 DEF OutcomeInv, OkIsComplete, Idle, At, jobVars, ioVars, cpuVars
  <2>4. CancelHasCause'
    BY <1>1 DEF OutcomeInv, CancelHasCause, jobVars, ioVars, cpuVars
  <2> QED
    BY <2>1, <2>2, <2>3, <2>4 DEF OutcomeInv
<1>2. CASE Run
  BY <1>2, RunKeepsOutcome
<1>3. CASE \E w \in IoWorkers : IoWorker(w)
  BY <1>3, IoKeepsOutcome
<1>4. CASE \E w \in CpuWorkers : CpuWorker(w)
  BY <1>4, CpuKeepsOutcome
<1>5. CASE RequestStop \/ Done \/ UNCHANGED vars
  BY <1>1, <1>5 DEF RequestStop, Done, vars
<1> QED
  BY <1>2, <1>3, <1>4, <1>5 DEF Next

THEOREM OutcomeInvariance == Spec => []OutcomeInv
BY InitInv, InitOutcome, StepInv, StepOutcome, PTL DEF Spec

(* Ok is reported only for a complete, sealed archive with all progress    *)
(* shown and with no thread of either pool still at work for the job.      *)
THEOREM OkMeansComplete == Spec => []OkIsComplete
<1>1. OutcomeInv => OkIsComplete
  BY DEF OutcomeInv
<1> QED
  BY <1>1, OutcomeInvariance, PTL

(* The error reported is that of the first file that could not be written, *)
(* however the threads of the pools were scheduled.                        *)
THEOREM FailureReported == Spec => []FailureIsFirst
<1>1. OutcomeInv => FailureIsFirst
  BY DEF OutcomeInv
<1> QED
  BY <1>1, OutcomeInvariance, PTL

(* Nothing is reported as cancelled that nobody cancelled. *)
THEOREM CancelCaused == Spec => []CancelHasCause
<1>1. OutcomeInv => CancelHasCause
  BY DEF OutcomeInv
<1> QED
  BY <1>1, OutcomeInvariance, PTL

-----------------------------------------------------------------------------
(* Every step of Pipeline.tla is a step of PackJob.tla or leaves the pack  *)
(* job's state alone, and progress never runs ahead of the archive.        *)

LEMMA ExpectedLen == Expected \in Seq(Entries) /\ Len(Expected) = NumFiles
<1>1. \A f \in Files : FileEntry(f) \in Entries
  <2> SUFFICES ASSUME NEW f \in Files PROVE FileEntry(f) \in Entries
    OBVIOUS
  <2> DEFINE n == BlockCount[f]
             s == [b \in 1 .. n |-> <<f, b>>]
  <2>1. n \in Nat
    BY SizeAssumption
  <2>2. s \in [1 .. n -> BlockIds]
    BY BlockIdIntro
  <2>3. s \in Seq(BlockIds)
    BY <2>1, <2>2, SeqDef
  <2> QED
    BY <2>3 DEF FileEntry, Entries
<1>2. NumFiles \in Nat
  BY SizeAssumption
<1>3. Expected \in [1 .. NumFiles -> Entries]
  BY <1>1 DEF Expected, Files
<1>4. Expected \in Seq(Entries)
  BY <1>2, <1>3, SeqDef
<1>5. DOMAIN Expected = 1 .. NumFiles /\ DOMAIN Expected = 1 .. Len(Expected) /\ Len(Expected) \in Nat
  BY <1>3, <1>4, LenProperties
<1>6. Len(Expected) = NumFiles
  BY <1>2, <1>5
<1> QED
  BY <1>4, <1>6

LEMMA InitRefines == Init => PJ!Init
BY DEF Init, PJ!Init

LEMMA StepRefines == Inv /\ OutcomeInv /\ [Next]_vars => [PJ!Next]_PJ!vars
<1> SUFFICES ASSUME Inv, OutcomeInv, [Next]_vars PROVE [PJ!Next]_PJ!vars
  OBVIOUS
<1>0. pc # "returned" => result = "none"
  BY DEF OutcomeInv, Ended
<1>1. ASSUME UNCHANGED <<stop, archive, sealed, result>> PROVE [PJ!Next]_PJ!vars
  BY <1>1 DEF PJ!vars
<1>2. CASE RequestStop
  BY <1>2 DEF RequestStop, jobVars, PJ!Next, PJ!RequestStop
<1>3. ASSUME NEW e \in AllErrors, Return(e), pc # "returned", e = "Cancelled" => stop,
             UNCHANGED <<stop, archive, sealed>>
      PROVE  PJ!Next
  BY <1>0, <1>3 DEF Return, PJ!Next, PJ!Fail, PJ!Running
<1>4. CASE Run
  <2>1. CASE Setup \/ QueueRead \/ QueueTask \/ DrainEnd
    BY <1>1, <2>1 DEF Setup, QueueRead, QueueTask, DrainEnd
  <2>2. CASE SetupFails
    <3>1. PICK e \in SetupErrors : Return(e)
      BY <2>2 DEF SetupFails
    <3> QED
      BY <1>3, <2>2, <3>1, ErrorNames DEF SetupFails
  <2>3. CASE SubmitCheck \/ DrainCheck
    <3>1. CASE stop
      BY <1>3, <2>3, <3>1 DEF SubmitCheck, DrainCheck, AllErrors, TaskErrors
    <3>2. CASE ~stop
      BY <1>1, <2>3, <3>2 DEF SubmitCheck, DrainCheck
    <3> QED
      BY <3>1, <3>2
  <2>4. CASE FileFails
    <3>1. pc = "get" /\ next \in Files
      BY <2>4, SizeAssumption DEF FileFails, Got, Inv, OrderInv, TypeOK, JobTypeOK, Position, Files
    <3>2. fileFut[next].status \in TaskErrors
      BY <2>4, <3>1 DEF FileFails, Got, Inv, OrderInv, TypeOK, CpuTypeOK, FileFutures, Submitted
    <3>3. fileFut[next].status = "Cancelled" => stop
      BY <3>1 DEF OutcomeInv, CancelHasCause
    <3> QED
      BY <1>3, <2>4, <3>1, <3>2, <3>3 DEF FileFails, AllErrors
  <2>5. CASE WriteFile
    <3>1. pc = "get" /\ next \in Files /\ Len(archive) = next - 1 /\ next \in Nat /\ result = "none"
      BY <1>0, <2>5, SizeAssumption DEF WriteFile, Got, Inv, OrderInv, TypeOK, JobTypeOK, Position, Files
    <3>2. /\ fileFut[next].blocks \in Seq(BlockIds)
          /\ BlocksUpTo(fileFut[next].blocks, next, BlockCount[next])
      BY <2>5, <3>1 DEF WriteFile, Inv, OrderInv, TypeOK, CpuTypeOK, FileFutures, FutureShape
    <3>3. [file |-> next, blocks |-> fileFut[next].blocks] = FileEntry(next)
      BY <3>1, <3>2, WholeFile DEF FileEntry
    <3>4. Expected[Len(archive) + 1] = FileEntry(next)
      BY <3>1 DEF Expected
    <3>5. Len(archive) < Len(Expected)
      BY <3>1, ExpectedLen, SizeAssumption DEF Files
    <3>6. PJ!Write
      BY <2>5, <3>1, <3>3, <3>4, <3>5 DEF WriteFile, PJ!Write, PJ!Running
    <3> QED
      BY <3>6 DEF PJ!Next
  <2>6. CASE WriteFails
    <3>1. PICK e \in WriteErrors : Return(e)
      BY <2>6 DEF WriteFails
    <3> QED
      BY <1>3, <2>6, <3>1, ErrorNames DEF WriteFails, Got
  <2>7. CASE Finish
    <3>1. result = "none" /\ archive = Expected
      BY <1>0, <2>7, FullArchive DEF Finish, Inv, OrderInv, Position
    <3>2. PJ!Complete
      BY <2>7, <3>1 DEF Finish, Return, PJ!Complete, PJ!Running
    <3> QED
      BY <3>2 DEF PJ!Next
  <2>8. CASE FinishFails
    <3>1. PICK e \in WriteErrors : Return(e)
      BY <2>8 DEF FinishFails
    <3> QED
      BY <1>3, <2>8, <3>1, ErrorNames DEF FinishFails
  <2> QED
    BY <1>4, <2>1, <2>2, <2>3, <2>4, <2>5, <2>6, <2>7, <2>8 DEF Run
<1>5. CASE \E w \in IoWorkers : IoWorker(w)
  BY <1>1, <1>5 DEF IoWorker, ReadSkip, ReadStart, ReadEnd, jobVars
<1>6. CASE \E w \in CpuWorkers : CpuWorker(w)
  BY <1>1, <1>6 DEF CpuWorker, TaskStart, TaskCheck, BlockFails, BlockRead, Compress, Lock, Batch,
     CompressFails, jobVars
<1>7. CASE Done \/ UNCHANGED vars
  BY <1>1, <1>7 DEF Done, vars, jobVars
<1> QED
  BY <1>2, <1>4, <1>5, <1>6, <1>7 DEF Next

(* Whatever the pools do, a caller sees the steps of a pack job: entries   *)
(* appended in order, then exactly one outcome, sealed if it is Ok.        *)
THEOREM TakesOnlyPackJobSteps == Spec => TakesPackJobSteps
BY InitInv, InitOutcome, InitRefines, StepInv, StepOutcome, StepRefines, PTL
   DEF Spec, TakesPackJobSteps

LEMMA StepProgress ==
    Inv /\ OutcomeInv /\ OutcomeInv' /\ [Next]_vars =>
        [published' >= published /\ published' <= Len(archive')]_vars
<1> SUFFICES ASSUME Inv, OutcomeInv, OutcomeInv', [Next]_vars
             PROVE  published' >= published /\ published' <= Len(archive')
  OBVIOUS
<1>1. published \in Nat /\ Len(archive) \in Nat /\ stats.files = Len(archive) /\ published <= Len(archive)
  BY LenProperties DEF Inv, OrderInv, TypeOK, JobTypeOK, OutcomeInv, Counts
<1>2. published' <= Len(archive')
  BY DEF OutcomeInv, Counts
<1>3. published' \in {published, stats.files, stats.files + 1}
  BY DEF Next, RequestStop, Run, Setup, SetupFails, SubmitCheck, QueueRead, QueueTask, DrainCheck,
     DrainEnd, FileFails, WriteFile, WriteFails, Finish, FinishFails, IoWorker, ReadSkip,
     ReadStart, ReadEnd, CpuWorker, TaskStart, TaskCheck, BlockFails, BlockRead, Compress, Lock,
     Batch, CompressFails, Done, vars, jobVars
<1> QED
  BY <1>1, <1>2, <1>3

(* The number of files shown as done never falls, and never exceeds the    *)
(* number of files in the archive.                                         *)
THEOREM ProgressIsHonest == Spec => ProgressHonest
BY InitInv, InitOutcome, StepInv, StepOutcome, StepProgress, PTL DEF Spec, ProgressHonest

-----------------------------------------------------------------------------
(* The tally.                                                              *)

(* How many blocks the first n files of S hold.                            *)
LEMMA BlocksCounted ==
    ASSUME NEW S
    PROVE  /\ BlocksOf(S)[0] = 0
           /\ \A n \in Files : BlocksOf(S)[n] = BlocksOf(S)[n - 1] + IF n \in S THEN BlockCount[n] ELSE 0
           /\ \A n \in 0 .. NumFiles : BlocksOf(S)[n] \in Nat
<1> DEFINE V == Nat
           step == [p \in (1 .. NumFiles) \X V |-> p[2] + IF p[1] \in S THEN BlockCount[p[1]] ELSE 0]
           Solves(f) == f = [n \in 0 .. NumFiles |->
                                IF n = 0 THEN 0 ELSE f[n - 1] + IF n \in S THEN BlockCount[n] ELSE 0]
<1>1. NumFiles \in Nat /\ \A n \in 1 .. NumFiles : BlockCount[n] \in Nat
  BY SizeAssumption DEF Files
<1>2. ASSUME NEW x \in V, NEW n \in 1 .. NumFiles
      PROVE  x + (IF n \in S THEN BlockCount[n] ELSE 0) \in V
  BY <1>1
<1> HIDE DEF V
<1>3. step \in Steps(NumFiles, V)
  BY <1>2 DEF Steps
<1>4. PICK f \in [0 .. NumFiles -> V] :
        f[0] = 0 /\ \A n \in 1 .. NumFiles : f[n] = step[<<n, f[n - 1]>>]
  <2>1. 0 \in V
    BY DEF V
  <2> HIDE DEF step
  <2> QED
    BY <1>1, <1>3, <2>1, Recursion
<1>5. Solves(f)
  <2>1. ASSUME NEW n \in 1 .. NumFiles
        PROVE  step[<<n, f[n - 1]>>] = f[n - 1] + IF n \in S THEN BlockCount[n] ELSE 0
    <3>1. n - 1 \in 0 .. NumFiles
      BY <1>1
    <3>2. f[n - 1] \in V
      BY <3>1
    <3> QED
      BY <3>2
  <2>2. ASSUME NEW n \in 0 .. NumFiles
        PROVE  f[n] = IF n = 0 THEN 0 ELSE f[n - 1] + IF n \in S THEN BlockCount[n] ELSE 0
    <3>1. CASE n = 0
      BY <1>4, <3>1
    <3>2. CASE n # 0
      <4>1. n \in 1 .. NumFiles
        BY <1>1, <3>2
      <4>2. f[n] = step[<<n, f[n - 1]>>]
        BY <1>4, <4>1, Zenon
      <4>3. f[n] = f[n - 1] + IF n \in S THEN BlockCount[n] ELSE 0
        BY <2>1, <4>1, <4>2, Zenon
      <4> QED
        BY <3>2, <4>3, Zenon
    <3> QED
      BY <3>1, <3>2
  <2> QED
    BY <2>2
<1>6. Solves(BlocksOf(S))
  BY <1>5 DEF BlocksOf
<1> DEFINE g == BlocksOf(S)
<1> HIDE DEF g
<1>7. g[0] = 0 /\ \A n \in 1 .. NumFiles : g[n] = g[n - 1] + IF n \in S THEN BlockCount[n] ELSE 0
  BY <1>1, <1>6 DEF g
<1> DEFINE T == {n \in 0 .. NumFiles : g[n] \in V}
<1>8. 0 \in T
  BY <1>1, <1>7 DEF V
<1>9. ASSUME NEW n \in 1 .. NumFiles, n - 1 \in T PROVE n \in T
  <2>1. g[n - 1] \in V
    BY <1>9
  <2>2. g[n] = g[n - 1] + IF n \in S THEN BlockCount[n] ELSE 0
    BY <1>7
  <2>3. n \in 0 .. NumFiles
    BY <1>1
  <2>4. g[n] \in V
    BY <1>2, <2>1, <2>2, Zenon
  <2> QED
    BY <2>3, <2>4
<1>10. \A n \in 0 .. NumFiles : n \in T
  <2> HIDE DEF T
  <2> QED
    BY <1>1, <1>8, <1>9, IntervalInduction
<1> QED
  BY <1>7, <1>10 DEF g, V, Files

LEMMA InitTally == Init => TallyExact
BY BlocksCounted DEF Init, TallyExact

LEMMA StepTally == Inv /\ TallyExact /\ [Next]_vars => TallyExact'
<1> SUFFICES ASSUME Inv, TallyExact, [Next]_vars PROVE TallyExact'
  OBVIOUS
<1>1. ASSUME UNCHANGED <<archive, stats>> PROVE TallyExact'
  BY <1>1 DEF TallyExact
<1>2. CASE WriteFile
  <2>1. pc = "get" /\ next \in Files /\ Len(archive) = next - 1
    BY <1>2, SizeAssumption DEF WriteFile, Got, Inv, OrderInv, TypeOK, JobTypeOK, Position, Files
  <2>2. Len(fileFut[next].blocks) = BlockCount[next]
    BY <1>2, <2>1 DEF WriteFile, Inv, OrderInv, FutureShape, BlocksUpTo
  <2>3. Len(archive') = next
    <3>1. [file |-> next, blocks |-> fileFut[next].blocks] \in Entries
      BY <2>1 DEF Inv, OrderInv, TypeOK, CpuTypeOK, FileFutures, Entries
    <3>2. archive \in Seq(Entries)
      BY DEF Inv, OrderInv, TypeOK, JobTypeOK
    <3>3. Len(archive') = Len(archive) + 1
      BY <1>2, <3>1, <3>2, AppendProperties DEF WriteFile
    <3> QED
      BY <2>1, <3>3, SizeAssumption DEF Files
  <2> DEFINE cpu == BlocksOf(Files \ GpuFiles)
             gpu == BlocksOf(GpuFiles)
             n == BlockCount[next]
  <2>4. /\ cpu[next] = cpu[next - 1] + IF next \in Files \ GpuFiles THEN n ELSE 0
        /\ gpu[next] = gpu[next - 1] + IF next \in GpuFiles THEN n ELSE 0
    BY <2>1, BlocksCounted
  <2>5. cpu[next - 1] \in Nat /\ gpu[next - 1] \in Nat /\ n \in Nat /\ next \in Nat
    <3>1. next - 1 \in 0 .. NumFiles
      BY <2>1, SizeAssumption DEF Files
    <3> QED
      BY <2>1, <3>1, BlocksCounted, SizeAssumption DEF Files
  <2>6. stats.files = next - 1 /\ stats.cpu = cpu[next - 1] /\ stats.gpu = gpu[next - 1]
    BY <2>1 DEF TallyExact
  <2>7. stats' = Tally(n)
    BY <1>2, <2>2 DEF WriteFile
  <2> HIDE DEF cpu, gpu, n
  <2>8. stats' = [files |-> next, cpu |-> cpu[next], gpu |-> gpu[next]]
    <3>1. CASE next \in GpuFiles
      BY <2>4, <2>5, <2>6, <2>7, <3>1 DEF Tally
    <3>2. CASE next \notin GpuFiles
      BY <2>1, <2>4, <2>5, <2>6, <2>7, <3>2 DEF Tally
    <3> QED
      BY <3>1, <3>2
  <2> QED
    BY <2>3, <2>8 DEF TallyExact, cpu, gpu
<1> QED
  BY <1>1, <1>2 DEF Next, RequestStop, Run, Setup, SetupFails, SubmitCheck, QueueRead, QueueTask,
     DrainCheck, DrainEnd, FileFails, WriteFails, Finish, FinishFails, IoWorker, ReadSkip,
     ReadStart, ReadEnd, CpuWorker, TaskStart, TaskCheck, BlockFails, BlockRead, Compress, Lock,
     Batch, CompressFails, Done, vars, jobVars

(* The statistics count each file written and each of its blocks once, and *)
(* to the codec that compressed it.                                        *)
THEOREM TallyAlwaysExact == Spec => []TallyExact
BY InitInv, InitTally, StepInv, StepTally, PTL DEF Spec

-----------------------------------------------------------------------------
(* The request to stop.                                                    *)

(* A request that is in time, and what has come of it. *)
Bound == stop /\ (BeforeLastCheck \/ (pc = "returned" /\ result # "Ok"))

LEMMA BoundStays == TypeOK /\ Bound /\ [Next]_vars => Bound'
<1> SUFFICES ASSUME TypeOK, Bound, [Next]_vars PROVE Bound'
  OBVIOUS
<1> USE DEF Bound, BeforeLastCheck
<1>1. NumFiles \in Nat /\ 1 <= NumFiles /\ next \in Nat
  BY SizeAssumption DEF TypeOK, JobTypeOK
<1>2. CASE Setup \/ SetupFails \/ SubmitCheck \/ QueueRead
  BY <1>2, ErrorNames DEF Setup, SetupFails, SubmitCheck, QueueRead, Return
<1>3. CASE QueueTask
  BY <1>1, <1>3 DEF QueueTask
<1>4. CASE DrainCheck
  <2>1. pc' = "returned" /\ result' = "Cancelled" /\ stop' = stop
    BY <1>4 DEF DrainCheck, Return
  <2> QED
    BY <2>1
<1>9. CASE DrainEnd
  BY <1>1, <1>9 DEF DrainEnd
<1>5. CASE FileFails \/ WriteFile \/ WriteFails \/ Finish \/ FinishFails
  BY <1>5 DEF FileFails, WriteFile, WriteFails, Finish, FinishFails, Got
<1>6. CASE RequestStop \/ Done \/ UNCHANGED vars
  BY <1>6 DEF RequestStop, Done, vars, jobVars
<1>7. CASE \E w \in IoWorkers : IoWorker(w)
  BY <1>7 DEF IoWorker, ReadSkip, ReadStart, ReadEnd, jobVars
<1>8. CASE \E w \in CpuWorkers : CpuWorker(w)
  BY <1>8 DEF CpuWorker, TaskStart, TaskCheck, BlockFails, BlockRead, Compress, Lock, Batch,
     CompressFails, jobVars
<1> QED
  BY <1>2, <1>3, <1>4, <1>5, <1>6, <1>7, <1>8, <1>9 DEF Next, Run

(* A request to stop that comes before the last check of the drain loop is *)
(* never answered with Ok: no later file, and no error, makes the job      *)
(* forget it.                                                              *)
THEOREM CancelNeverLost == Spec => CancelSticks
<1>1. stop /\ BeforeLastCheck => Bound
  BY DEF Bound
<1>2. OutcomeInv /\ Bound => result # "Ok"
  BY DEF Bound, BeforeLastCheck, OutcomeInv, Ended
<1> QED
  BY <1>1, <1>2, BoundStays, TypeCorrect, OutcomeInvariance, PTL DEF Spec, CancelSticks
=============================================================================
