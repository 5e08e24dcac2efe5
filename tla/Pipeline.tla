----------------------------- MODULE Pipeline ------------------------------
(***************************************************************************)
(* One pack job: Pipeline::run (core/src/pipeline/pipeline.cpp) on the     *)
(* job's own thread, the block reads AsyncReader::submit queues on the I/O *)
(* pool, the per-file tasks run() queues on the CPU pool, the stop token   *)
(* all of them poll, and the futures that connect them.                    *)
(*                                                                         *)
(* A block of plain data is its identity <<file, index>>; compressing it   *)
(* keeps the identity. A future is "none" before it exists, "pending",     *)
(* "value", or the error it holds. An exception a task throws is stored in *)
(* its future and thrown again by get(), which ends the reader of the      *)
(* future just as a returned error does, so it is one more error.          *)
(***************************************************************************)
EXTENDS Integers, Sequences, Queues

CONSTANTS
    NumFiles,        \* files the scanner found, numbered in input order
    BlockCount,      \* BlockCount[f]: blocks AsyncReader::submit makes of f
    MaxBlocks,       \* no file has more blocks (block_count is 32 bits wide)
    GpuFiles,        \* files SizeRouter sends to the GPU codec
    CpuWorkers,      \* threads of cpu_pool_
    IoWorkers,       \* threads of io_pool_
    SetupErrors,     \* what scan, make_codecs, make_writer and begin report
    ReadErrors,      \* what a block read reports, cancellation aside
    CompressErrors,  \* what compress and compress_batch report
    WriteErrors      \* what write_file and finish report

Files == 1 .. NumFiles

NonErrors == {"none", "pending", "value", "Ok"}
TaskErrors == {"Cancelled"} \cup ReadErrors \cup CompressErrors
AllErrors == TaskErrors \cup SetupErrors \cup WriteErrors

ASSUME SizeAssumption ==
    /\ NumFiles \in Nat \ {0}
    /\ MaxBlocks \in Nat \ {0}
    /\ BlockCount \in [Files -> 1 .. MaxBlocks]
    /\ GpuFiles \subseteq Files

ASSUME WorkerAssumption == CpuWorkers # {} /\ IoWorkers # {}

ASSUME ErrorAssumption ==
    /\ AllErrors \cap NonErrors = {}
    /\ "Cancelled" \notin SetupErrors \cup ReadErrors \cup CompressErrors \cup WriteErrors

BlockIds == {id \in Files \X (1 .. MaxBlocks) : id[2] <= BlockCount[id[1]]}
NoBlock == <<0, 0>>

(* What the archive holds of f when all of it was read and compressed. *)
FileEntry(f) == [file |-> f, blocks |-> [b \in 1 .. BlockCount[f] |-> <<f, b>>]]
Expected == [f \in Files |-> FileEntry(f)]

VARIABLES
    stop,       \* stop_ of the JobHandleImpl: requested and never withdrawn
    pc,         \* where run() is
    next,       \* the file run()'s loops are at
    sub,        \* blocks of that file reader.submit has queued
    ioQ,        \* tasks_ of io_pool_: the reads not yet taken
    reader,     \* reader[w]: the block I/O thread w is reading
    blockFut,   \* the future of every block read
    cpuQ,       \* tasks_ of cpu_pool_: the files not yet taken
    task,       \* task[w]: the per-file task CPU thread w is running
    fileFut,    \* the future of every per-file task
    archive,    \* entries whose write_file has succeeded
    sealed,     \* finish has succeeded
    result,     \* what run() returned, "none" before
    stats,      \* JobStats: files done, and blocks by route
    published   \* processed_files of the last progress event sent

jobVars == <<pc, next, sub, archive, sealed, result, stats, published>>
ioVars == <<ioQ, reader, blockFut>>
cpuVars == <<cpuQ, task, fileFut>>
vars == <<stop, jobVars, ioVars, cpuVars>>

NoTask == [file |-> 0, stage |-> "idle", block |-> 0, out |-> <<>>]
Stages == {"idle", "check", "get", "compress", "lock", "batch"}
Future(status, blocks) == [status |-> status, blocks |-> blocks]

TaskRecords ==
    [file : Files \cup {0}, stage : Stages, block : 0 .. MaxBlocks + 1, out : Seq(BlockIds)]
FileFutures ==
    [status : {"none", "pending", "value"} \cup TaskErrors, blocks : Seq(BlockIds)]
Entries == [file : Files, blocks : Seq(BlockIds)]

JobTypeOK ==
    /\ pc \in {"setup", "submit", "read", "drain", "get", "finish", "returned"}
    /\ next \in 1 .. NumFiles + 1
    /\ sub \in 0 .. MaxBlocks
    /\ archive \in Seq(Entries)
    /\ sealed \in BOOLEAN
    /\ result \in {"none", "Ok"} \cup AllErrors
    /\ stats \in [files : Nat, cpu : Nat, gpu : Nat]
    /\ published \in Nat

IoTypeOK ==
    /\ ioQ \in Seq(BlockIds)
    /\ reader \in [IoWorkers -> BlockIds \cup {NoBlock}]
    /\ blockFut \in [BlockIds -> {"none", "pending", "value", "Cancelled"} \cup ReadErrors]

CpuTypeOK ==
    /\ cpuQ \in Seq(Files)
    /\ task \in [CpuWorkers -> TaskRecords]
    /\ fileFut \in [Files -> FileFutures]

TypeOK == stop \in BOOLEAN /\ JobTypeOK /\ IoTypeOK /\ CpuTypeOK

Init ==
    /\ stop = FALSE
    /\ pc = "setup"
    /\ next = 1
    /\ sub = 0
    /\ ioQ = <<>>
    /\ reader = [w \in IoWorkers |-> NoBlock]
    /\ blockFut = [id \in BlockIds |-> "none"]
    /\ cpuQ = <<>>
    /\ task = [w \in CpuWorkers |-> NoTask]
    /\ fileFut = [f \in Files |-> Future("none", <<>>)]
    /\ archive = <<>>
    /\ sealed = FALSE
    /\ result = "none"
    /\ stats = [files |-> 0, cpu |-> 0, gpu |-> 0]
    /\ published = 0

-----------------------------------------------------------------------------
(* The job's own thread: Pipeline::run.                                    *)

(* Every return destroys run()'s frame: the codecs, gpu_mutex, the writer  *)
(* and the file futures, none of which waits for a queued or running task. *)
Return(outcome) ==
    /\ pc' = "returned"
    /\ result' = outcome

(* scan finds a file, and codecs, writer and reader are made. *)
Setup ==
    /\ pc = "setup"
    /\ pc' = "submit"
    /\ UNCHANGED <<stop, next, sub, archive, sealed, result, stats, published, ioVars, cpuVars>>

SetupFails ==
    /\ pc = "setup"
    /\ \E e \in SetupErrors : Return(e)
    /\ UNCHANGED <<stop, next, sub, archive, sealed, stats, published, ioVars, cpuVars>>

(* The head of the submit loop. *)
SubmitCheck ==
    /\ pc = "submit"
    /\ IF stop THEN Return("Cancelled")
               ELSE pc' = "read" /\ UNCHANGED result
    /\ UNCHANGED <<stop, next, sub, archive, sealed, stats, published, ioVars, cpuVars>>

(* Mutant of QueueRead: one block too many. *)
QueueReadOffByOne ==
    /\ pc = "read"
    /\ sub <= BlockCount[next]
    /\ sub' = sub + 1
    /\ ioQ' = Append(ioQ, <<next, sub + 1>>)
    /\ blockFut' = [blockFut EXCEPT ![<<next, sub + 1>>] = "pending"]
    /\ UNCHANGED <<stop, pc, next, archive, sealed, result, stats, published, reader, cpuVars>>

(* AsyncReader::submit queues the next block read of the file. *)
QueueRead ==
    /\ pc = "read"
    /\ sub < BlockCount[next]
    /\ sub' = sub + 1
    /\ ioQ' = Append(ioQ, <<next, sub + 1>>)
    /\ blockFut' = [blockFut EXCEPT ![<<next, sub + 1>>] = "pending"]
    /\ UNCHANGED <<stop, pc, next, archive, sealed, result, stats, published, reader, cpuVars>>

(* With all of its reads queued, so is the task of the file. *)
QueueTask ==
    /\ pc = "read"
    /\ sub = BlockCount[next]
    /\ cpuQ' = Append(cpuQ, next)
    /\ fileFut' = [fileFut EXCEPT ![next] = Future("pending", <<>>)]
    /\ sub' = 0
    /\ IF next = NumFiles THEN pc' = "drain" /\ next' = 1
                          ELSE pc' = "submit" /\ next' = next + 1
    /\ UNCHANGED <<stop, archive, sealed, result, stats, published, ioVars, task>>

(* Mutant of DrainCheck: the loop no longer polls the stop token. *)
DrainUnchecked ==
    /\ pc = "drain"
    /\ next <= NumFiles
    /\ pc' = "get"
    /\ UNCHANGED <<stop, next, sub, archive, sealed, result, stats, published, ioVars, cpuVars>>

(* The head of the drain loop; past the last file, finish comes next. *)
DrainCheck ==
    /\ pc = "drain"
    /\ next <= NumFiles
    /\ IF stop THEN Return("Cancelled")
               ELSE pc' = "get" /\ UNCHANGED result
    /\ UNCHANGED <<stop, next, sub, archive, sealed, stats, published, ioVars, cpuVars>>

DrainEnd ==
    /\ pc = "drain"
    /\ next > NumFiles
    /\ pc' = "finish"
    /\ UNCHANGED <<stop, next, sub, archive, sealed, result, stats, published, ioVars, cpuVars>>

(* fut.get() returns once the future of the file is resolved. *)
Got == pc = "get" /\ fileFut[next].status # "pending"

(* Mutant of FileFails: the first failure to be noticed is reported. *)
AnyFileFails ==
    /\ Got
    /\ \E f \in Files : fileFut[f].status \in TaskErrors /\ Return(fileFut[f].status)
    /\ UNCHANGED <<stop, next, sub, archive, sealed, stats, published, ioVars, cpuVars>>

FileFails ==
    /\ Got
    /\ fileFut[next].status # "value"
    /\ Return(fileFut[next].status)
    /\ UNCHANGED <<stop, next, sub, archive, sealed, stats, published, ioVars, cpuVars>>

(* Mutant of Tally: the route is ignored. *)
TallyToCpu(n) == [files |-> stats.files + 1, cpu |-> stats.cpu + n, gpu |-> stats.gpu]

(* The tally asks the router again and counts the blocks to its answer. *)
Tally(n) ==
    [files |-> stats.files + 1,
     cpu   |-> IF next \in GpuFiles THEN stats.cpu ELSE stats.cpu + n,
     gpu   |-> IF next \in GpuFiles THEN stats.gpu + n ELSE stats.gpu]

(* write_file succeeds. The coalescer sends the new snapshot, or does not, *)
(* depending on how long ago it last sent one.                             *)
WriteFile ==
    /\ Got
    /\ fileFut[next].status = "value"
    /\ archive' = Append(archive, [file |-> next, blocks |-> fileFut[next].blocks])
    /\ stats' = Tally(Len(fileFut[next].blocks))
    /\ published' \in {published, stats.files + 1}
    /\ next' = next + 1
    /\ pc' = "drain"
    /\ UNCHANGED <<stop, sub, sealed, result, ioVars, cpuVars>>

(* Mutant of WriteFails: progress is reported before the write. *)
WriteFailsReported ==
    /\ Got
    /\ fileFut[next].status = "value"
    /\ published' = stats.files + 1
    /\ \E e \in WriteErrors : Return(e)
    /\ UNCHANGED <<stop, next, sub, archive, sealed, stats, ioVars, cpuVars>>

WriteFails ==
    /\ Got
    /\ fileFut[next].status = "value"
    /\ \E e \in WriteErrors : Return(e)
    /\ UNCHANGED <<stop, next, sub, archive, sealed, stats, published, ioVars, cpuVars>>

(* Mutant of Finish: the progress event the coalescer held back is lost. *)
FinishUnflushed ==
    /\ pc = "finish"
    /\ sealed' = TRUE
    /\ Return("Ok")
    /\ UNCHANGED <<stop, next, sub, archive, stats, published, ioVars, cpuVars>>

(* finish, the unconditional last progress event, and the return. *)
Finish ==
    /\ pc = "finish"
    /\ sealed' = TRUE
    /\ published' = stats.files
    /\ Return("Ok")
    /\ UNCHANGED <<stop, next, sub, archive, stats, ioVars, cpuVars>>

FinishFails ==
    /\ pc = "finish"
    /\ \E e \in WriteErrors : Return(e)
    /\ UNCHANGED <<stop, next, sub, archive, sealed, stats, published, ioVars, cpuVars>>

Run ==
    \/ Setup \/ SetupFails
    \/ SubmitCheck \/ QueueRead \/ QueueTask
    \/ DrainCheck \/ DrainEnd \/ FileFails \/ WriteFile \/ WriteFails
    \/ Finish \/ FinishFails

-----------------------------------------------------------------------------
(* The I/O pool: the lambda AsyncReader::submit queues, run by thread w.   *)

(* Mutant of ReadSkip: the promise is dropped unset. *)
ReadSkipSilent(w) ==
    /\ reader[w] = NoBlock
    /\ ioQ # <<>>
    /\ stop
    /\ ioQ' = Tail(ioQ)
    /\ UNCHANGED <<stop, jobVars, reader, blockFut, cpuVars>>

(* Taken from the queue; a read the stop token forestalls is over at once. *)
ReadSkip(w) ==
    /\ reader[w] = NoBlock
    /\ ioQ # <<>>
    /\ stop
    /\ blockFut' = [blockFut EXCEPT ![Head(ioQ)] = "Cancelled"]
    /\ ioQ' = Tail(ioQ)
    /\ UNCHANGED <<stop, jobVars, reader, cpuVars>>

ReadStart(w) ==
    /\ reader[w] = NoBlock
    /\ ioQ # <<>>
    /\ ~stop
    /\ reader' = [reader EXCEPT ![w] = Head(ioQ)]
    /\ ioQ' = Tail(ioQ)
    /\ UNCHANGED <<stop, jobVars, blockFut, cpuVars>>

(* The buffer is allocated and filled, or one of the two fails. *)
ReadEnd(w) ==
    /\ reader[w] # NoBlock
    /\ \E s \in {"value"} \cup ReadErrors :
          blockFut' = [blockFut EXCEPT ![reader[w]] = s]
    /\ reader' = [reader EXCEPT ![w] = NoBlock]
    /\ UNCHANGED <<stop, jobVars, ioQ, cpuVars>>

IoWorker(w) == ReadSkip(w) \/ ReadStart(w) \/ ReadEnd(w)

-----------------------------------------------------------------------------
(* The CPU pool: the lambda run() queues for each file, run by thread w.   *)

(* The task's future is resolved and the thread goes back to the queue. *)
Resolve(w, status, blocks) ==
    /\ fileFut' = [fileFut EXCEPT ![task[w].file] = Future(status, blocks)]
    /\ task' = [task EXCEPT ![w] = NoTask]

At(w, stage) == task[w].stage = stage
OnGpu(w) == task[w].file \in GpuFiles
Current(w) == <<task[w].file, task[w].block>>
LastBlock(w) == task[w].block = BlockCount[task[w].file]

TaskStart(w) ==
    /\ At(w, "idle")
    /\ cpuQ # <<>>
    /\ task' = [task EXCEPT ![w] = [file |-> Head(cpuQ), stage |-> "check",
                                    block |-> 1, out |-> <<>>]]
    /\ cpuQ' = Tail(cpuQ)
    /\ UNCHANGED <<stop, jobVars, ioVars, fileFut>>

(* Mutant of TaskCheck: a cancelled task leaves its future pending. *)
TaskCheckSilent(w) ==
    /\ At(w, "check")
    /\ task' = [task EXCEPT ![w] = IF stop THEN NoTask ELSE [@ EXCEPT !.stage = "get"]]
    /\ UNCHANGED <<stop, jobVars, ioVars, cpuQ, fileFut>>

(* Both paths poll the stop token before they wait for a block. *)
TaskCheck(w) ==
    /\ At(w, "check")
    /\ IF stop THEN Resolve(w, "Cancelled", <<>>)
               ELSE /\ task' = [task EXCEPT ![w].stage = "get"]
                    /\ UNCHANGED fileFut
    /\ UNCHANGED <<stop, jobVars, ioVars, cpuQ>>

(* fut.get() of the current block, an error. *)
BlockFails(w) ==
    /\ At(w, "get")
    /\ blockFut[Current(w)] \notin {"pending", "value"}
    /\ Resolve(w, blockFut[Current(w)], <<>>)
    /\ UNCHANGED <<stop, jobVars, ioVars, cpuQ>>

(* Mutant of Advanced: the newest block is put first. *)
AdvancedInFront(w, lastStage) ==
    [file  |-> task[w].file,
     stage |-> IF LastBlock(w) THEN lastStage ELSE "check",
     block |-> task[w].block + 1,
     out   |-> <<Current(w)>> \o task[w].out]

(* What the task turns to when its block has been dealt with. *)
Advanced(w, lastStage) ==
    [file  |-> task[w].file,
     stage |-> IF LastBlock(w) THEN lastStage ELSE "check",
     block |-> task[w].block + 1,
     out   |-> Append(task[w].out, Current(w))]

(* fut.get(), a block: the CPU path compresses it, the GPU path collects   *)
(* it and asks for the lock when it was the last.                          *)
BlockRead(w) ==
    /\ At(w, "get")
    /\ blockFut[Current(w)] = "value"
    /\ task' = [task EXCEPT ![w] = IF OnGpu(w) THEN Advanced(w, "lock")
                                               ELSE [@ EXCEPT !.stage = "compress"]]
    /\ UNCHANGED <<stop, jobVars, ioVars, cpuQ, fileFut>>

(* cpu->compress of one block; after the last, assemble. *)
Compress(w) ==
    /\ At(w, "compress")
    /\ IF LastBlock(w) THEN Resolve(w, "value", Append(task[w].out, Current(w)))
                       ELSE /\ task' = [task EXCEPT ![w] = Advanced(w, "idle")]
                            /\ UNCHANGED fileFut
    /\ UNCHANGED <<stop, jobVars, ioVars, cpuQ>>

(* gpu_mutex is held by the thread inside compress_batch. *)
MutexFree == \A v \in CpuWorkers : ~At(v, "batch")

Lock(w) ==
    /\ At(w, "lock")
    /\ MutexFree
    /\ task' = [task EXCEPT ![w].stage = "batch"]
    /\ UNCHANGED <<stop, jobVars, ioVars, cpuQ, fileFut>>

(* gpu->compress_batch of all blocks, unlock, assemble. *)
Batch(w) ==
    /\ At(w, "batch")
    /\ Resolve(w, "value", task[w].out)
    /\ UNCHANGED <<stop, jobVars, ioVars, cpuQ>>

CompressFails(w) ==
    /\ At(w, "compress") \/ At(w, "batch")
    /\ \E e \in CompressErrors : Resolve(w, e, <<>>)
    /\ UNCHANGED <<stop, jobVars, ioVars, cpuQ>>

CpuWorker(w) ==
    \/ TaskStart(w) \/ TaskCheck(w) \/ BlockFails(w) \/ BlockRead(w)
    \/ Compress(w) \/ Lock(w) \/ Batch(w) \/ CompressFails(w)

-----------------------------------------------------------------------------
(* JobHandle::cancel or ~JobHandle, on any other thread. *)
RequestStop ==
    /\ ~stop
    /\ stop' = TRUE
    /\ UNCHANGED <<jobVars, ioVars, cpuVars>>

(* The job is over and so is everything it queued. *)
Idle ==
    /\ ioQ = <<>> /\ cpuQ = <<>>
    /\ \A w \in IoWorkers : reader[w] = NoBlock
    /\ \A w \in CpuWorkers : At(w, "idle")

Done == pc = "returned" /\ Idle /\ UNCHANGED vars

Next ==
    \/ RequestStop
    \/ Run
    \/ \E w \in IoWorkers : IoWorker(w)
    \/ \E w \in CpuWorkers : CpuWorker(w)
    \/ Done

(* Threads are scheduled; nobody has to cancel. A task that uses what      *)
(* run()'s frame owned after run() returned may do anything, so no         *)
(* progress is assumed of CPU threads from then on.                        *)
FrameAlive == pc # "returned"

Fairness ==
    /\ WF_vars(Run)
    /\ \A w \in IoWorkers : WF_vars(IoWorker(w))
    /\ \A w \in CpuWorkers : WF_vars(FrameAlive /\ CpuWorker(w))

Spec == Init /\ [][Next]_vars /\ Fairness

-----------------------------------------------------------------------------
(* Properties.                                                             *)

(* The archive is, at every moment, the first files of the request in      *)
(* input order, each with all of its blocks in source order, whatever the  *)
(* order in which threads read and compressed them (pipeline.cpp:181-186:  *)
(* "so the archive is deterministic").                                     *)
ArchiveInOrder ==
    /\ Len(archive) <= NumFiles
    /\ \A i \in 1 .. Len(archive) : archive[i] = FileEntry(i)

(* run() returns Ok only with every file written, the archive finished,    *)
(* the last progress event counting all of it, and no thread left that     *)
(* could still touch what the frame owned.                                 *)
OkIsComplete ==
    result = "Ok" =>
        /\ archive = Expected
        /\ sealed
        /\ stats.files = NumFiles
        /\ published = NumFiles
        /\ Idle

(* JobStats counts each file in the archive once, and each of its blocks   *)
(* to the codec that compressed it, though run() asks the router a second  *)
(* time instead of the task (pipeline.cpp:289-295).                        *)
BlocksOf(S) ==
    LET sum[n \in 0 .. NumFiles] ==
            IF n = 0 THEN 0 ELSE sum[n - 1] + IF n \in S THEN BlockCount[n] ELSE 0
    IN  sum

TallyExact ==
    stats = [files |-> Len(archive),
             cpu   |-> BlocksOf(Files \ GpuFiles)[Len(archive)],
             gpu   |-> BlocksOf(GpuFiles)[Len(archive)]]

(* A failed job's result is the outcome of the first file, in input order, *)
(* that was not written, never that of a later file that failed earlier in *)
(* time; the exceptions are failures of run()'s own calls.                 *)
FailureIsFirst ==
    result \notin {"none", "Ok", "Cancelled"} \cup SetupErrors \cup WriteErrors =>
        Len(archive) < NumFiles /\ fileFut[Len(archive) + 1].status = result

(* Nothing is reported as cancelled, by a read, a task or the job, unless  *)
(* somebody requested it.                                                  *)
CancelHasCause ==
    \/ stop
    \/ /\ result # "Cancelled"
       /\ \A id \in BlockIds : blockFut[id] # "Cancelled"
       /\ \A f \in Files : fileFut[f].status # "Cancelled"

(* Every pending read or task is in its queue or on one thread, and in one *)
(* place only: no future is orphaned (a get() on it would block for ever)  *)
(* and no promise is set twice.                                            *)
ReadsOwned ==
    /\ Distinct(ioQ)
    /\ \A v, w \in IoWorkers : reader[v] = reader[w] /\ reader[v] # NoBlock => v = w
    /\ \A w \in IoWorkers : ~Queued(reader[w], ioQ)
    /\ \A id \in BlockIds :
          blockFut[id] = "pending" <=> Queued(id, ioQ) \/ \E w \in IoWorkers : reader[w] = id

TasksOwned ==
    /\ Distinct(cpuQ)
    /\ \A v, w \in CpuWorkers : task[v].file = task[w].file /\ ~At(v, "idle") => v = w
    /\ \A w \in CpuWorkers : ~Queued(task[w].file, cpuQ)
    /\ \A f \in Files :
          fileFut[f].status = "pending" <=>
              Queued(f, cpuQ) \/ \E w \in CpuWorkers : task[w].file = f

PendingIsOwned == ReadsOwned /\ TasksOwned

(* Only progress the writer has made is ever shown, and it never goes      *)
(* backwards (ProgressCoalescer and JobHandle::progress).                  *)
ProgressHonest == [][published' >= published /\ published' <= Len(archive')]_vars

(* A request that comes before the last check of the drain loop is never   *)
(* answered with Ok.                                                       *)
BeforeLastCheck == pc \in {"setup", "submit", "read"} \/ (pc = "drain" /\ next <= NumFiles)
CancelSticks == [](stop /\ BeforeLastCheck => [](result # "Ok"))

(* Every queued read ends, also the reads of a job that is already over:   *)
(* I/O threads are shared with the next job.                               *)
ReadsEnd == <>[](\A id \in BlockIds : blockFut[id] # "pending")

(* run() implements the pack job its callers are promised, and with its    *)
(* fairness: no thread of the two pools leaves it waiting for a future for *)
(* ever, and it returns (pipeline.hpp:16 "blocks until the job finishes"). *)
PJ == INSTANCE PackJob WITH Entries <- Expected, Errors <- AllErrors \ {"Cancelled"}
ImplementsPackJob == PJ!Spec
TakesPackJobSteps == PJ!Init /\ [][PJ!Next]_PJ!vars

(* pipeline.hpp:16 "run() blocks until the job finishes": no CPU thread is *)
(* using, or about to use, a codec or the mutex of a frame that is gone.   *)
(* It does not hold: an early return leaves the tasks of other files       *)
(* running.                                                                *)
NoDanglingFrame ==
    pc = "returned" =>
        \A w \in CpuWorkers : task[w].stage \notin {"compress", "lock", "batch"}
=============================================================================
