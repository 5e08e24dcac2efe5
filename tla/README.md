# A TLA+ model of Collapsar

Collapsar packs files into a ZIP or gzip archive: a C++ engine reads blocks of
the input on one thread pool, compresses them on another (with zlib, or with
nvCOMP on a GPU) and writes the archive in input order. This directory models
its control: who runs when, what each thread waits for, what happens on
failure and cancellation, and what the caller is told.

Paths below are relative to the repository. `core/` stands for `core/src/`
unless it says `include`.

## 1. Inventory

| Component | State | Operations | Talks to |
|---|---|---|---|
| **Pipeline** `core/pipeline/pipeline.cpp` | locals of `run()`: entries, codecs, writer, per-file futures, `gpu_mutex`, stats, coalescer | `run`; the per-file task it queues; `drain_and_compress`, `assemble` | queues on both pools, waits on futures, calls codecs and writer, polls the stop token, calls the progress callback |
| **AsyncReader** `core/io/async_reader.cpp` | none | `submit`: one queued read per block | I/O pool; its futures are consumed by per-file tasks |
| **ThreadPool** `core/util/thread_pool.*` | task queue, `stopped_`, wait set | `submit`, `stop`, `worker_loop`, destructor | an engine has two: CPU and I/O |
| **JobHandle, Engine** `core/job_handle*`, `core/engine.cpp` | stop source, future, cached result, progress snapshot | `submit`, `run`, `wait`, `done`, `error`, `stats`, `progress`, `cancel`, destructor | a `std::async` thread per job runs `Pipeline::run` and publishes progress |
| **SizeRouter** `core/pipeline/size_router.hpp` | three constants of the job | `route` | asked by `run` twice per file |
| **ProgressCoalescer** `pipeline.cpp:93-138` | snapshot, time of last event | `on_file_started`, `on_file_completed`, `flush` | the progress callback |
| **File scanner** `core/io/file_scanner.cpp` | a global id counter | `scan` | file system |
| **ZIP writer** `core/format/zip_writer.cpp` | stream, bytes written, central directory, Zip64 flag | `begin`, `write_file`, `finish` | called by `run` only |
| **Gzip writer, writer factory** `core/format/` | stream, `wrote_one_` | as above; `make_writer` | |
| **CPU codec, CRC-32** `core/codec/zlib*`, `crc32.*` | none | `compress`; `compute`, `combine` | zlib |
| **GPU codec** `core/codec/nvcomp_deflate_codec.cu` | slots: stream, event, device buffers and capacities; next slot | `create`, `compress_batch` | CUDA, nvCOMP; one caller at a time under `gpu_mutex` |
| **Codec factory, capabilities** | none | `make_codecs`, `probe_capabilities` | |
| **BoundedQueue** `core/util/bounded_queue.hpp` | items, `closed_`, two wait sets | `push`, `pop`, `try_pop`, `close` | used by nothing; README.md:30 counts on it |
| **PinnedBuffer, ScopedThread, log** | an allocation; a thread; a mutex | | |
| **C bridge** `bridge/src/c_bridge.cpp` | engine, `job_mutex`, current job | `create`, `destroy`, `pack`, `cancel` | JobHandle; called from several GUI threads |
| **CLI** `cli/main.cpp` | none | `pack`, `info` | `Engine::run`, one thread |
| **GUI** `gui/` | engine, view state | `PackAsync`, `Cancel`, `Dispose` | the bridge, from a UI thread and a pool thread |

What makes each correct:

* Pipeline: the archive has the input's order and nothing else; Ok means all of
  it and the end record are written; a failure is that of the first unwritten
  file; run() ends; nothing it queued is left waiting; nothing it destroyed is
  used.
* AsyncReader, ThreadPool: every queued task runs once and resolves its future,
  whatever the stop token and the pool's shutdown do.
* JobHandle: every call returns, when and only when it should, with the job's
  own outcome; dropping the handle cancels and does not hang.
* Writers: offsets, sizes and counts of all records agree, on both sides of
  each 32- and 16-bit limit; partial writes are reported.
* Codecs: what a reader decodes from the entry is the file.
* Bridge and GUI: a cancellation reaches the job that runs; destroy outlives
  pack; results are those of the caller's own pack, and the status line ends
  with them.
* Scanner: a list is complete but for what could not be opened or asked, in
  order, and a failure hides no other file.
* Command line, codec factory, router: the job that runs is the one that was
  asked for, on the processor it was asked for, and replaces nothing unasked.
* BoundedQueue: as ThreadPool's queue, in both directions.

Which behaviour is hard: completion in any order on two pools joined by futures
(a CPU task blocks on reads, `run()` blocks on CPU tasks); a stop token polled
at different moments by three kinds of thread; early returns of `run()` that
leave its tasks behind; a future that is moved out of the shared state by
whoever waits first; lifetimes shared between a handle and the job's thread;
integer limits in the archive formats. PROJECT.json's `hazards` list each at
its line.

## 2. Modules

| Module | Models |
|---|---|
| `PackJob` | what one job promises its caller, with no threads: entries appended in order, sealed when complete, one outcome |
| `Queues` | what it means to be queued, for the modules below |
| `Pipeline` | `run()`, both pools, their queues and futures, the stop token, the GPU mutex |
| `MCPipeline` | instances of `Pipeline` for TLC |
| `DataLemmas` | lemmas the proofs share: least numbers, recursion on an interval, sequences, queues |
| `PipelineProofs` | theorems about `Pipeline` |
| `TaskPool` | what the users of a thread pool count on, with no mutex and no wakeups |
| `ThreadPool` | the pool: `submit`, the workers and their wait set, `stop`, the destructor |
| `BoundedQueue` | `push`, `pop`, `try_pop` and `close`, with both wait sets |
| `Util`, `MCUtil` | a pool or a queue, for TLC |
| `UtilProofs` | theorems about the pool and the queue |
| `JobResult` | what threads that share a job's handle count on: one outcome, one future, one stored result |
| `JobHandle`, `MCJobHandle`, `JobHandleProofs` | the handle, its clients, and the `std::async` thread of the job |
| `Bridge`, `MCBridge` | `pack`, `cancel` and `destroy` of the C bridge on one engine |
| `Gui`, `MCGui` | the view model as a host of `Bridge`: the UI thread, its dispatcher, the pool thread |
| `GuiProofs` | theorems about `Bridge` under any host, and about `Gui` |
| `IWriter` | what every writer keeps: format, how far it is, the output |
| `ZipWriter` | the ZIP writer's records, and a reader of the format |
| `FilePayload` | from a file's size to the payload, sizes and CRC of its entry |
| `GzipWriter` | a gzip job on one file, over `FilePayload`, and a reader of the format |
| `Writers`, `MCWriters` | `make_writer` and the writer it makes |
| `WritersProofs` | theorems about the records, the payload and both writers |
| `CommandLine` | `main`, `parse_pack` and the options `cmd_pack` makes |
| `FileScanner` | `scan`, query by query |
| `Routing` | `make_codecs`, `SizeRouter` and `probe_capabilities` as operators |
| `FrontEnd`, `MCFrontEnd`, `FrontEndProofs` | a pack from the command line to the exit code, over the three above |
| `GpuCodec`, `GpuCodecProofs` | the slots of the nvCOMP codec, their device buffers and capacities, and theorems about them |

How they compose. `Pipeline` takes its two pools to behave like `TaskPool`, with
the tasks spelled out; `ThreadPool` implements `TaskPool`. `Pipeline` implements
`PackJob`, which is what `JobHandle`'s job thread runs: there it is one step that
ends in an outcome, and is fair because `Pipeline` shows that it ends. `Bridge`
has one handle per pack call, cut down to the future that the first waiter
takes away; `JobHandle` and each handle of `Bridge` implement `JobResult`. `Pipeline` shows that a file's blocks come in source order;
`FilePayload` starts there, and `GzipWriter` extends it with what is written.
`ZipWriter` takes the compressed and uncompressed size of each file as given.
`Gui` extends `Bridge`: every action of it is a step of one of the calls of
`Bridge`, a step of the view model alone, or both at once. `FrontEnd` is what
comes before `Pipeline`'s first queued read and after its last write; between
them it has one step, because `Pipeline` shows what happens there.

`Util` and `Writers` are sums: the first variable of each tells which unit a
behaviour is about, and the other units stand still. They share a run, not a
state.

### Pipeline

State and code:

| Variable | Code |
|---|---|
| `pc`, `next`, `sub` | where `run()` is: set up, at the head of the submit loop, inside `AsyncReader::submit` with `sub` reads queued, at the head of the drain loop, in `fut.get()`, at `finish`, returned |
| `ioQ`, `cpuQ` | `tasks_` of the two pools |
| `reader[w]`, `task[w]` | what a worker of each pool is running, with the blocks a task has collected |
| `blockFut`, `fileFut` | the shared states of the futures of reads and per-file tasks |
| `archive`, `sealed` | what `write_file` and `finish` have done |
| `result`, `stats`, `published` | what `run()` returned, `JobStats`, the last progress event |
| `stop` | the stop source |

An action is a stretch of code between two points where another thread can be
noticed: a poll of the stop token, a `get()`, a lock, a push to a queue, a
compression. So `TaskCheck`, `BlockRead`, `Compress`, `Lock` and `Batch` are the
steps of a per-file task, on the CPU path check-get-compress for every block, on
the GPU path check-get for every block and then lock-batch. `RequestStop` may
happen at any time. Every error path of `run()` is an action of its own
(`SetupFails`, `FileFails`, `WriteFails`, `FinishFails`).

Abstracted: a block is its identity `<<file, index>>`, so the model tells apart
which blocks, in which order, and not their bytes. The scan and `begin` are one
step: nothing else of the job exists yet. Whether the coalescer sends an event
after a file is left open, because it depends on the clock. An exception a task
throws is stored in its future and rethrown by `get()`; in `run()` it leaves by
the same exits as an error, and is one of the errors of its kind. What it does
to the caller is JobHandle's subject.

After an early return, tasks use a codec and a mutex that are gone. That is
undefined in C++; the model lets such a task go on, succeed or fail. It can touch
nothing of the returned job but its own future, and properties of the
job after its return do not rest on it, with one exception: a leftover task may
in reality crash or block instead, so no property claims that leftover *tasks*
end. `ReadsEnd` is about reads, which capture nothing of the frame.

### JobHandle

Clients share one handle. `wait()` has two critical sections with the blocking
`get()` between them: `CallTake` moves the future out, `Unblock` caches the
result. `error()` and `stats()` are `wait()` and then `Reread`. `CallResolved`
and `CallNoFuture` are the two early returns. `outcome` may be `"thrown"`: an
exception of `run()` stored in the async future. The job's thread is `Emit`
(the callback), `Return` (run returns and the callback's reference goes) and
`Ready`. `Drop` is the destructor; the model allows it only when no call is in
progress, as C++ requires.

### ThreadPool

A critical section of `mutex_` is one step, and what follows the unlock (the
notification, the task) another. So `Push` queues a task and leaves its client
about to `Notify`, and a worker that looks in between takes the task without it.
`cv_.wait` with a predicate is the choice between `Take`, `Exit` and `Sleep`,
decided whenever a worker holds the mutex; it gives the mutex up and enters the
wait set in one step, as the standard requires. `NotifyOne` picks any sleeper,
and sleepers also wake for no reason. The destructor is `Destroy` (its call of
`stop`), `NotifyStop` and `Join`. `Finish` is the end of a task with a value or an
exception: `std::packaged_task` keeps either.

### BoundedQueue

Cut like `ThreadPool`: `WaitNotFull` and `WaitNotEmpty` are the predicates of the
two waits, `NotifyOther` the notification that `push` sends to a consumer and
`pop` or `try_pop` to a producer, after the unlock. `close` is `CloseQueue` and
then two `CloseNotifies`, one for each condition. A capacity of 0 is left out by
assumption: every `push` would wait for `close`.

### Bridge

A pack call names its job. The steps of `pack` are cut where another thread can
come in between: `Submit` starts the job, `Publish` stores it under `job_mutex`,
`Wait`/`Unblock` are `job->wait()`, `Report` reads the outcome, `Clear` takes the
mutex again. `cancel` copies the job (`Find`) and stops it without the lock
(`Stop`). `destroy` keeps `job_mutex` from `DestroyLock` to `DestroyReset`, so
`Publish`, `Clear` and `Find` have the guard `~Holding`; `Find` needs no such guard
of its own because no cancel begins once destroy has. The host may call destroy at
any moment but makes no new call after it. A pack that touches the engine after
`Delete` is `Dangle`d: undefined, and no property is claimed of it. A null
pointer and a request that `submit` refuses are `SubmitFails`.

A job may end with an exception of `run()` (`outcome` is `"thrown"`), as in
`JobHandle`. `get()` throws it to the call that holds the future: out of `pack`
(`UnblockThrown`, line 223), which then neither fills `out_result` nor takes the job
off the engine, or out of `destroy` (`DestroyUnblockThrown`), which gives the mutex
up and frees nothing. Both are then `"left"`, and the properties say what is true of
that: the engine goes on showing the job, which is over (`CancelsMeant`).

### Gui

| Variable | Code |
|---|---|
| `host` | who uses the bridge: the view model, or any host, as `Bridge` has it |
| `UseGpu`, `_engine`, `StatusLine` | the fields of `MainViewModel`; of the engine, with which setting it was made |
| `algorithm[p]`, `asked[p]` | `options.Algorithm` of a pack, and the toggle when it was clicked |
| `command`, `latest` | how far `PackAsync` has come, and for which pack |
| `queue` | the dispatcher's queue |

`ClickPack` is `PackAsync` up to its await; `AsyncRelayCommand` lets no second one
begin. `StartTask` is the pool thread entering `pack`, whose steps are `Bridge`'s.
`Post` is the end of the task: the rest of `PackAsync` is posted to the UI thread
(`Resume`), which queues the result in turn, so it is shown (`Show`) behind every
progress event that was queued before. A job's last event is sent before its
pack returns. If an exception has left the pack, the await throws it out of the
command instead (`ResumeFaults`): nothing in `gui/` catches it, no result is queued,
and the model ends the UI thread there. The UI thread is taken while it is in `cancel` (`UiFree`). The view
model never calls destroy.

### The writers

`IWriter` has what all writers have. `Writers` picks by `format` which of the two
runs, and `NoWriter` is the refusal of `make_writer`.

`ZipWriter`: the file is a sequence of records with byte offsets and sizes; of a record the
model keeps what a reader uses. `Field32`/`Field16` are the casts and masks, 64-bit
values are not bounded. Each call that writes is an action, and has a failing
twin in which the writes stop after any of its records (`WriteShort`), after
which `run()` calls the writer no more. The reader of APPNOTE is external: it
finds the directory by the end record, or by the locator if a field is masked,
and takes the value of each masked field from the extra field in order.

`FilePayload` and `GzipWriter`: a file's bytes are the naturals below its size. `BlockCount`, `Offset` and `Bytes`
are `AsyncReader::submit`'s arithmetic with its casts, at widths `W32` and `W64`.
A compressed block is the stretch of the file that zlib was given (32 bits of its
size), as a stream that ends in a final block, because `compress` calls `deflate`
with `Z_FINISH`. The CRC is a checksum that is linear in the data, the property of
CRC-32 that `crc32_combine` rests on; `assemble` is `AddBlock`.

`GzipWriter` adds `begin`, `write_file` and `finish`. Its reader inflates to the
first final block and takes what follows for the trailer. Inputs cover both sides
of each width: `Fits` says which sizes do not wrap, and the properties of the
payload are claimed of those. Of the others they are false, and nothing in the
code reports it: with 2^32 blocks the count becomes 0, and of a block of 4 GiB or
more zlib gets the low 32 bits of its size.

### FrontEnd

An action of `CommandLine` is one turn of `parse_pack`'s loop. `Reject` is every
early return of the loop, `Dispatch` what `main` does before it. Words are
enumerated; a size word carries the number and multiplier that `from_chars` and
the suffix give, and `ParseSize` wraps their product.

An action of `FileScanner` is one query of the file system, or the queries of one
entry. `ec` is the error code `scan` declares: set or cleared by every query that
takes it, and looked at where the code does. `left` is what the iterator has not
reached: it comes to a directory before what is inside, and to the rest in any
order; with recursion off it holds only the direct entries. The iterators have
`skip_permission_denied`: an input that may not be opened is an empty walk
(`WalkDenied`), and a directory below it is passed over when the iterator would
enter it (`SkipDirectory`), both with `ec` clear, so that the scan is Ok without the
files inside. `dropped`, `misread` and `skipped` note what failed and what was passed
over, for `ListingExact` to say that nothing else changes the list: it has one entry
for each file found, inputs in order, and those of one input by name. `Hierarchy` is
what a file system gives: the paths in a tree go through its root, and no two are
alike. Names are another matter. `fs::relative` makes both paths canonical first,
so a tree entry has a `real` path beside its own, and a name may leave the input
(`Up`) or be that of another entry; two links to one file have the same. `ListingExact`
therefore counts files by path and orders them by name, and `ByArchivePath` is the
set of all results `std::sort` may have when names are equal. Names are compared
element by element, as `path`'s `operator<` does.

`FrontEnd` adds the engine and its pools (`StartEngine`, `StartFails`), the exits of
`run()` before its first read (`ScanFailed`, `ScanThrew`, `Scanned`, `MakeCodecs`,
`OpenOutput`, `OpenFails`), and the rest of the job as `Pack`. An exception that
leaves `main` ends the process with `Aborted`. `begin` asks `fs::exists` with an
error code it does not look at: a query that fails (`unseen`) counts as "absent", and
the output is then replaced unasked.

In a build with CUDA `PinnedBuffer::allocate` asks the CUDA runtime for the memory of
every block that has bytes, whichever codec the block is for (`PinsMemory`). So `Pack`
may fail of CUDA also where no file goes to the GPU, and without a device it does
not succeed: on such a machine a job with `--no-gpu` fails at its first read.
`GpuAsAsked` says what `--no-gpu` does promise: no GPU codec, no file on the GPU, and
a failure of CUDA only through that memory.

### GpuCodec

A slot has the bytes allocated to each buffer (0 is a null pointer), the
capacities the code keeps for them, and whether work is queued on its stream.
`Ensure` is one `ensure_capacity` or `ensure_typed` after the other, in the code's
order; `Allocated` has the one asymmetry of lines 159-170, that `d_in_ptrs` is given
`d_meta_capacity` itself and the arrays after it a copy. Of a batch the model keeps
what the code computes of it: the count, the total and the largest block. Any
call of CUDA or nvCOMP may fail at any step (`CallFails`, `EnsureFails`,
`NoDevice`). `compress_batch` has one caller at a time, as `Pipeline` has it.

### Mutants

A definition whose comment starts with "Mutant of" is a wrong version of the one
that follows it. None is used by a specification; PROJECT.json pairs each with
the property that must fail when it takes the original's place, so that every
property is known to be able to fail.

## 3. Runs

| Run | Instance | Shows |
|---|---|---|
| `pipeline` | 3 files of 1, 2, 1 blocks, the last two on the GPU; 2 CPU and 2 I/O threads; an error of each kind | types; archive order; what Ok and a failure mean; exact tally; every pending future owned once; progress is honest; a cancellation sticks; all reads end; refinement of `PackJob` with its fairness, so `run()` ends |
| `pipeline_frame` | 2 files of 2 and 1 blocks, one per path | **violated**: a task about to use the destroyed frame |
| `thread_pool` | 2 workers, 2 clients, 3 tasks, an owner; or a queue of 2 places, 2 producers, 2 consumers, 2 calls each, a close | no lost wakeup in either; the destructor drains; calls return; the queue keeps its order and capacity; refinement of `TaskPool` with its fairness |
| `job_handle` | a waiter and a poller; every outcome, exceptions included | answers come when the job is over and are its own, `done` included; progress does not go back; calls return |
| `job_handle_drop` | the handle dropped while the job runs | **violated**: the job's thread joins itself |
| `bridge` | any host: 2 packs, also at once, 1 cancel, destroy at any moment; or the view model: 2 packs, 1 cancel, the toggle, up to 2 progress events queued | pack blocks until its job is over and reports it; the engine shows only jobs in use, and those whose exception has left their pack; a cancel stops the job it found, and finds that of a pack that waits; the toggle is obeyed; the result stands in the status line; calls return, or are left by their job's exception |
| `bridge_destroy` | 1 pack, 1 cancel, destroy | **violated**: destroy's wait returns while the job runs |
| `front_end` | 333 command lines, 3 machines, a tree of 2 directories (with a subdirectory, a link out of it and a link to a neighbour) and a file, up to 2 queries that fail or directories that may not be opened, an output that exists or not | the list is exact; sizes, threads and routes are as asked; `--no-gpu` keeps codec and files off the GPU, and such a job fails of CUDA only through pinned memory; the output is replaced only on request, or if the query for it fails |
| `writers` | zip: up to 3 files, sizes around a 32-bit limit of 200 and a 16-bit limit of 3; gzip: sizes to 33 and block sizes to 250 with `W32` = 16, `W64` = 256, a second file; zstd; failing writes | the directory is found and lists the files, complete; entries with all or none of their values past the limit are read back; the payload is the file, sums included; a finished gzip output is one whole member; a file of one block is read back |
| `zip_writer_mixed` | the same, zip only | **violated**: an entry with some values past the limit is not |
| `gzip_writer_blocks` | the same, gzip only | **violated**: a file of two blocks is not |
| `gpu_codec_metadata` | 2 streams, 3 batches of up to 2 blocks, calls that fail | **violated**: metadata arrays that are still null when the copies start |

Bounds. Two threads per pool are enough for two tasks to race and for one to
overtake another, and the code treats threads alike. Three files give a written
file, one being waited for and one that finishes or fails ahead of its turn; two
on the GPU path contend for the mutex while the third is on the other path. Two
blocks distinguish a file's first block from its last and give a read in flight
next to one that is queued. One error of each kind suffices: the code compares
errors with nothing. In `ThreadPool` three tasks are one more than the workers, so
that one queues behind both, and two clients can notify in either order. The
proofs of section 5 do not depend on these bounds. In `JobHandle` `MaxEvents` = 2
bounds the progress events; the third would be like the second. In `Bridge` a
third pack would be to the second what the second is to the first, and cancels
touch nothing but the job they find. In `Gui` a second pack shows what the first
leaves behind (the engine, the queue, the status line), and two queued events put
one in front of the result and one behind another. In `BoundedQueue` both
conditions can have two sleepers and the queue can be full, half full and empty.
In `FrontEnd` command lines have up to two options besides the output, in either
order, so that one can follow, repeat or contradict another; two failing queries
can fall on the size and the time of one file, or on an entry and the increment
after it. The three machines are a build without CUDA and one with it, without and
with a device. `W64` = 256 there, and the suffixes are 4 and 64, so that a product fits,
wraps to a small size or wraps to zero; and the size 255 of a file that could not be
asked, rounded up to blocks, wraps to none, so that the file has bytes and nothing is
read of it. The limits of `ZipWriter` are small enough for
three files to cross each of them, one at a time and together: an offset past
`U32_MAX` after one file, a count of `U16_MAX`, a directory of `U32_MAX` bytes. The
widths of `FilePayload` are the smallest at which a block can be compressed on one
side and wraps on the other (the model's streams have five bytes of room).

Deadlock is checked where the system may not stop early: `Done` stutters once a
job is over and its threads are idle. The runs of `JobHandle` and `Bridge` switch it
off: when the handle is dropped and the job has ended, or all calls have
returned, nothing happens any more.

What the violations show, in the code:

1. **`run()` does not wait for its tasks** (`pipeline.cpp:215`). A cancelled or
   failed job returns while queued or running tasks hold raw pointers to its
   codecs and mutex.
2. **A handle dropped without `wait()` hangs the job's thread** (`engine.cpp:56`):
   the callback's `shared_ptr` is the last one, and the future is destroyed on
   the thread it waits for.
3. **destroy does not wait for a job that pack waits for** (`c_bridge.cpp:142`): the
   second waiter on a handle finds no future (`job_handle.cpp:48`), gets an Internal
   error and returns, and the engine is freed under the job. The same holds of any
   two threads that call `wait`, `error` or `stats`.
4. **Zip64 entries of mixed sizes** (`zip_writer.cpp:179`): all three fields of a
   central entry are masked when one overflows, but the extra field holds only
   those that do.
5. **A file of several blocks is several deflate streams** (`zlib_deflate_codec.cpp:40`):
   an inflater stops at the end of the first block.
6. **The GPU path has no metadata arrays** (`nvcomp_deflate_codec.cu:163`): all five
   share one capacity, which the first raises to what the batch needs, so the
   other four are never allocated and every batch uses null pointers.

Things the models assume away or state around, worth knowing: the queues of
`ThreadPool` are unbounded, so README.md:30's bounded queues with backpressure are
not what runs (`BoundedQueue` is unused, and checked as the unit it is); an exception of `run()` leaves `wait`
(outcome `"thrown"` of `JobHandle` and `Bridge`), and with it `pack` of the C bridge at
c_bridge.cpp:223, against docs/architecture.md:143 and 155-162: the engine goes on
showing a job that is over, `out_result` stays empty, and in the GUI the command
faults with no result; a cancel between
`Submit` and `Publish` of a pack is lost (`CancelReachesWaiting` leaves that window
out); sizes beyond `Fits` wrap. main.cpp:35 says of `--gpu` and `--no-gpu` "default: on if
available", but the default asks for the GPU: in a CUDA build on a machine with no
device, `make_codecs` fails and with it the job (`MakeCodecs`). A file whose size
cannot be read, in a directory, is listed with the size 2^64-1 that the failed
query returned, and no error (`ListingExact`'s `misread`); the split of such a file
wraps. A directory that may not be opened is skipped without a word, and the archive
is Ok without its files (`skipped`); a directory whose *listing* fails half-way is an
error of the increment, as any other. Two entries of one archive may have the same
name. A job with `--no-gpu` needs a CUDA device in a build with CUDA, for its pinned
memory. A multiplied size that wraps is accepted (`AsksFor`). In the GUI, a pack
with the toggle off still has a GPU codec made for it if the engine was created
with it on, and fails if that fails; its blocks stay on the CPU (`ToggleObeyed`).
A pack with the toggle on, after an engine without GPU, stays on the CPU.

## 4. Fairness

* `run()`: weak fairness. It is one thread that never sleeps but in `get()`,
  where it is enabled once the future is resolved and stays so.
* I/O workers: weak fairness of each, always. CPU workers: weak fairness of each
  while `run()`'s frame is alive, none after it. Each file locks `gpu_mutex` once,
  so a task that waits for it can be overtaken only finitely often, and weak
  fairness of the *worker* is enough.
* `RequestStop`, clients' calls, failures: no fairness. Nobody has to cancel or
  to call.
* ThreadPool: weak fairness of each worker's loop, of a client's pending
  notification, of `stop`'s, and of `join`. The mutex is handed to every thread
  that waits for it; no wakeup is assumed, spurious or not.
* Bridge: weak fairness of a pack call that has begun, of its job, of a cancel that
  has found one, and of destroy.
* Gui: Bridge's, under either host; also the pool thread starts the task and posts its
  end, and the UI thread takes what is queued. No click is fair.
* BoundedQueue: weak fairness of each thread inside a call, and of `close`'s two
  notifications. Nobody has to call, and nobody has to close: the liveness is that of
  calls on a closed queue.
* JobHandle: `Return` is fair because `Pipeline` shows that `run()` ends;
  `Ready` and what a client does inside a call are steps of running threads.

Reads and compressions end: they are calls of the file system, zlib and CUDA, and
one that never returns would block the real program too.

## 5. Proofs

Every invariant the passing runs check, and four of their action properties, is a
theorem: it holds for all values of the constants that satisfy the assumptions.

### Assumptions

| Module | Assumption |
|---|---|
| `Pipeline` | `SizeAssumption`, `WorkerAssumption`, `ErrorAssumption`: at least one file, at least one block per file, finitely many blocks, pools that are not empty, errors that are not named like the states of a future |
| `ThreadPool` | `WorkersAssumption`, `ClientsAssumption`, `TasksAssumption`: finitely many workers, at least one, and finitely many clients; tasks are not named like the states of a worker |
| `BoundedQueue` | `QueueAssumption`: a capacity of at least 1, finitely many threads, none of them producer and consumer |
| `JobHandle` | `ClientAssumption`, `BoundAssumption`, `OutcomeAssumption`: somebody uses the handle; the errors of a job are not called Ok, Cancelled, Internal |
| `Bridge`, `Gui` | `BridgeAssumption`, `GuiAssumption`: names that are not used twice, types |
| `CommandLine`, `FileScanner`, `FrontEnd` | `CommandLineAssumption`, `FileScannerAssumption`, `FrontEndAssumption`: what the words of a command line are, the tree is one of a file system (`Hierarchy`), types of the machine |
| `FilePayload` | `WidthAssumption`, `ChecksumAssumption`, `InputAssumption`: positive widths, a default block size that is one of the job's (not 0, below `W64`), a checksum with a base and a modulus, inputs that fit the widths |
| `ZipWriter` | `LimitAssumption`, `FilesAssumption`: limits and sizes are naturals |
| `GpuCodec` | none; its theorems have the hypothesis `Sizes`: at least one stream, natural sizes |

TLC evaluates each of them on the instances of section 3, except `Sizes`, which
those of `MCGpuCodec*.cfg` satisfy.

### Theorems

Where the last column has no name, no run checks the property.

| Module | Theorem | Run's property |
|---|---|---|
| `PipelineProofs` | `TypeCorrect` | `TypeOK` |
| | `ArchiveOrdered` | `ArchiveInOrder` |
| | `FuturesOwned` | `PendingIsOwned` |
| | `OkMeansComplete` | `OkIsComplete` |
| | `FailureReported` | `FailureIsFirst` |
| | `CancelCaused`: Cancelled only if it was requested | |
| | `TallyAlwaysExact` | `TallyExact` |
| | `CancelNeverLost` | `CancelSticks` |
| | `ProgressIsHonest` | `ProgressHonest` |
| | `TakesOnlyPackJobSteps` | the safety part of `ImplementsPackJob` |
| `UtilProofs` | `TypeCorrect` | `TypeOK` |
| | `WakeupsKept` | `NoLostWakeup` |
| | `StopWakesAll`: once `stop` has notified, nobody sleeps | |
| | `DestructorDrains` | `DrainedWhenGone` |
| | `TakesOnlyTaskPoolSteps` | the safety part of `ImplementsTaskPool` |
| | `QueueStaysSound` | `QueueSound` |
| | `UtilStaysSound`: the pool and the queue as a run has them | all four |
| `JobHandleProofs` | `HandleTypeCorrect` | `TypeOK` |
| | `OneWaiterToldTrue`, if one thread waits | `AnswersTruthful` |
| | `ProgressNeverBack` | `ProgressMonotone` |
| | `OkNeverFalse`: who is told of success is told the truth, however many wait | |
| | `TakesOnlyResultSteps`: refinement of `JobResult` | |
| `GuiProofs` | `BridgeSafe`, `BridgeCancelReaches`: `Bridge` under any host | those below |
| | `PackAlwaysBlocks`, `ReportsAlwaysOwn`, `CancelsAlwaysMeant`, `GuiCancelReaches` | `PackBlocks`, `ReportsOwn`, `CancelsMeant`, `CancelReachesWaiting` |
| | `BridgeHandlesSound`, `GuiHandlesSound`: refinement of `JobResult` by each job's handle | |
| | `GuiTypeCorrect` | `GuiTypeOK` |
| | `ToggleAlwaysObeyed` | `ToggleObeyed` |
| | `ResultAlwaysStands` | `ResultStands` |
| `FrontEndProofs` | `FrontEndTypeCorrect` | `TypeOK` |
| | `JobAlwaysAsAsked` | `JobAsAsked` |
| | `GpuAlwaysAsAsked` | `GpuAsAsked` |
| | `OutputAlwaysKept` | `OutputKept` |
| | `ListingAlwaysExact` | `ListingExact` |
| `WritersProofs` | `WritersTypeCorrect` | `TypeOK` |
| | `DirectoryAlwaysFound` | `DirectoryFound` |
| | `UniformAlwaysRecovered` | `UniformRecovered` |
| | `EntriesAlwaysComplete` | `EntriesComplete` |
| | `PayloadAlwaysFile` | `PayloadIsFile` |
| | `AlwaysOneMember` | `OneMember` |
| | `OneBlockComesBack` | `OneBlockReadBack` |
| `GpuCodecProofs` | `CapacitiesTrue`: staging capacities are what is allocated | |
| | `ChunksHaveRoom`: the staging buffers hold the batch when its copies start | |

`OneWaiter` is the hypothesis `AnswersTruthful` needs: a second thread that waits is
told of an internal error (section 3, the third violation). `MCJobHandle` has one
waiter, and any number of pollers is allowed.

### The arguments

**Pipeline.** `ArchiveInOrder` is not inductive: the archive is right because the
future of each file is, and that is right because the task that resolved it had
collected exactly the blocks before its current one. `OrderInv` says so: where
the loops are (`Position`), what a task has collected at each stage
(`TaskShape`), what a resolved future holds (`FutureShape`), which futures exist
(`Submitted`). `OwnInv` adds that every pending future is in one queue or on one
thread, which needs `Fresh`: nothing beyond the loop's position has a future yet.
Without it a file could be queued twice.

`OutcomeInv` is relative to both: a result exists exactly when `run()` has
returned (`Ended`), counts match the archive (`Counts`), the drain loop has only
passed futures with values (`Drained`), and a task collects only blocks that were
read (`ReadFirst`). `OkIsComplete` then follows: at `finish` every future has a
value, so every read has one, so nothing is pending, so by `OwnInv` the pools are
idle.

`TallyExact` compares the counters with the prefix sums of the block counts on each
path, and needs of `OrderInv` that the file written has all of its blocks.
`CancelSticks` holds because `Bound` stays: the stop is requested, and `run()` has
a check before it or has returned something other than Ok.

The refinement maps each action of `Pipeline` to one of `PackJob`'s or to a
stutter: `WriteFile` to `Write`, `Finish` to `Complete`, every other return to
`Fail`.

**The pool and the queue.** `NoLostWakeup` is a count: while a worker sleeps,
queued tasks are no more than the workers on their way to the queue and the
notifications yet to be sent. It is inductive given types: `Push` adds one to both
sides, a notification turns one term into the other when there is a sleeper, `Take`
takes one from each, and `Sleep` needs an empty queue. `DrainedWhenGone` needs that a
worker exits only from an empty queue that is closed (so that it stays empty), that
the owner joins all, and that a pending future is that of a queued or running task;
the last is also what the refinement needs to show that no task is accepted twice.
`QueueSound` has the same count twice, over items for consumers and over free
places for producers, and `ClosingWakes` for what a close has done so far.

**JobHandle.** `FutureHeld` follows the future: in the handle, with the one client
that blocks on it, or spent. `ResultTrue` says what the cached result is once
there is one. With two waiters the first is false, which is the finding.
What stays true then is `OkNeverFalse`, from `ResultHonest`: a stored result without
an error is that of a job that succeeded. The refinement of `JobResult` needs the
same invariant, so that the thread that comes back from `get()` still has a future;
in `Bridge` that is `Blocking`.

**Bridge and Gui.** `BridgeInv` relates a pack call to its job (`JobOfCall`), says
who has the future of a running job (`RunningWatched`: only the pack that blocks on
it, or destroy with `job_mutex` held), what a pack that has returned or been left
reports (`ResultsOwn`), and what the engine shows (`CurrentPublished`: a published job
whose pack has not cleared it, or one whose pack was left; and nothing although a pack
waits only if another pack has returned). Every step of `Gui` is one of `Bridge`'s or leaves it
alone, so the invariant carries over. `GuiInv` adds that packs of the view model
come one at a time (`OneAtATime`), that each was given the algorithm the toggle
asked for (`AlgorithmsAsked`), and that a result is queued behind its progress
(`ResumesOnce`, `LastLine`).

**FrontEnd.** `ParseInv` is the loop invariant of `parse_pack`: the loop is at an
option or an input and never at a value (`AtOption`), and each field has what the
last option before the loop's position says (`GpuRead`, `OverwriteRead`,
`SizeRead`). `JobInv` carries that through the engine, the request and the
codecs, and with it what the machine can do, which is all `GpuAsAsked` needs:
`Pack` changes neither entries nor options (`PinsSame`). `ListInv` is the scan's: the entries behind `before` are the files the
iterator has passed (`PassedBehind`), each of a path of its own, and the inputs before
the current one stay listed. A directory that is passed over takes away files the walk
would have come to later, so the invariant must say that none of them is listed yet:
`Ahead` has what is inside a directory still in `left` until the walk has been at the
directory, which `At` preserves because paths inside one another are comparable one
way only (`OneWay`). The sort leaves a permutation in which no name is
behind a smaller one (`SortedByName`), which is all that is claimed when names may be
equal.

**The writers.** Records are laid end to end (`Laid`), and each but a payload has a
size, so at an offset there is at most one record that a reader can mean. `Kept`
has the two records of each entry, `Closed` the directory and the end records
behind them; that the reader finds the directory and walks it follows from these, case
by case of what is masked. `PayloadCovers` says that what has been summed is the
start of the file; its step needs that the checksum of a stretch put behind another is
what `combine` makes of the two, proved from the recursion for the checksum and
the laws of `%`, and that the cuts of `Bytes` meet. `GzipSteps` adds what is in the
output at each point.

**The GPU codec.** `ChunksFit` needs that each capacity is true, also that of the
metadata for `d_in_ptrs`, and that every buffer ensured so far is large enough; later
allocations leave it alone because the buffers are distinct.

**Induction over data.** The library's induction theorems have an operator as a
parameter, which the provers cannot instantiate. The proofs that need induction (sums,
checksums, the directory walk) take a least counterexample instead:
`LeastNatural` of `DataLemmas` follows from the well-foundedness of `<`, and
`IntervalInduction` and `Recursion`, the existence of a function defined by
recursion, from it. That is why recursion is written with functions, and why the
sort of a scan is the set of permutations in order: what `SortSeq` and the folds
compute is not visible to the provers.

### What only TLC checks

* Liveness, which needs fairness and ENABLED: `ReadsEnd`, `CallsReturn`,
  `UtilCallsReturn`, `AllReturn`, and the fairness parts of `ImplementsPackJob` and
  `ImplementsTaskPool`.
* The properties of the six runs that end in a violation: they are false.

## 6. Plan

Modelled: the whole path of a pack, from the command line or the GUI to the
archive. Proved: the safety of each module that a passing run checks. Left:

1. A passing run of `GpuCodec`: what an error leaves queued on a stream that the next
   use of its slot does not wait for. As the code stands no batch comes that far
   (`MetadataFits`).
2. Proofs for it, beyond its two theorems on capacities.

## 7. Not modelled

`ScopedThread`, logging, the moves and the destructor of `PinnedBuffer`, what `info`, help and the progress line
print, XAML and marshalling: no state that outlives a call, or no logic. The
contents of zlib, nvCOMP, CUDA and the file system: external. Bytes, times,
throughput and messages: no property is about them. An `Engine` that is moved
from or destroyed while its job runs, but for the bridge's destroy: nothing in the
repository does it. The bridge's string conversions, and `CompressionEngine`'s
`Dispose` and finalizer, which the view model leaves to the end of the process. An
output that is among the scanned inputs, and a tree that changes under the walk.
What the program does after the GUI's command has faulted: that is the runtime's.
