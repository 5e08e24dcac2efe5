------------------------------ MODULE FrontEnd ------------------------------
(***************************************************************************)
(* A pack from the command line to the exit code: the options of           *)
(* CommandLine make an engine (core/src/engine.cpp) and a request, run()   *)
(* scans the inputs (FileScanner), makes the codecs and the writer and     *)
(* opens the output, and Routing tells where each file goes. What follows, *)
(* the reads, the compression and the writing, is Pipeline: one step here. *)
(***************************************************************************)
EXTENDS CommandLine, FileScanner, Routing, FiniteSetsExt

CONSTANTS
    Machines,       \* records [cuda, devices]
    ReaderBlock,    \* the block size that stands for 0 in AsyncReader
    W32             \* 2^32

(* An input leads to a node of the tree, which may be a missing one.       *)
ASSUME FrontEndAssumption ==
    /\ Paths \subseteq DOMAIN Tree
    /\ Machines \subseteq [cuda : BOOLEAN, devices : Nat]
    /\ ReaderBlock \in Nat \ {0} /\ W32 \in Nat \ {0}

VARIABLES
    machine,
    shown,      \* the capabilities of the engine
    pools,      \* the threads of its pools
    gpu,        \* none; failed, ready: what the creation of a GPU codec came to
    output,     \* absent, old; new, replaced: opened by this job
    unseen,     \* whether the query for the output failed
    status      \* what the job ends with

jobVars == <<shown, pools, gpu, output, unseen, status>>
vars == <<cliVars, at, exit, scanVars, machine, jobVars>>

(* How reading, compressing and writing fail, but for CUDA. *)
PackErrors == {"Io", "OutOfMemory", "CodecError", "FormatError"}

TypeOK ==
    /\ CliTypeOK /\ ScanTypeOK
    /\ at \in {"main", "parsing", "engine", "scanning", "codecs", "writer", "packing", "exited"}
    /\ machine \in Machines
    /\ pools.cpu \in Nat /\ pools.io \in Nat
    /\ gpu \in {"none", "failed", "ready"}
    /\ output \in {"absent", "old", "new", "replaced"}
    /\ unseen \in BOOLEAN
    /\ status \in {"none", "Ok", "NotFound", "InvalidArgument", "Unsupported", "Cuda"} \cup PackErrors

Init ==
    /\ CliInit /\ ScanInit
    /\ machine \in Machines
    /\ shown = Capabilities([cuda |-> FALSE, devices |-> 0])
    /\ pools = [cpu |-> 0, io |-> 0]
    /\ gpu = "none"
    /\ output \in {"absent", "old"}
    /\ unseen = FALSE
    /\ status = "none"

Parse == CliNext /\ UNCHANGED <<scanVars, machine, jobVars>>

PoolSize(threads) == Max({threads, 1})

(* The engine starts its pools; submit gets the request and runs it.       *)
StartEngine ==
    /\ at = "engine"
    /\ at' = "scanning"
    /\ shown' = Capabilities(machine)
    /\ pools' = [cpu |-> PoolSize(EngineOptions.cpu_codec_threads), io |-> PoolSize(EngineOptions.io_threads)]
    /\ inputs' = args.inputs /\ recurse' = JobOptions.recurse
    /\ UNCHANGED <<cliVars, exit, input, walk, left, reached, before, entries, ec, scanned, ghostVars, faults>>
    /\ UNCHANGED <<machine, gpu, output, unseen, status>>

(* A thread cannot be started, and nothing catches it. *)
StartFails ==
    /\ at = "engine"
    /\ Exit(Aborted)
    /\ UNCHANGED <<cliVars, scanVars, machine, jobVars>>

Scan ==
    /\ at = "scanning"
    /\ ScanNext
    /\ UNCHANGED <<cliVars, at, exit, machine, jobVars>>

JobFails(error) == status' = error /\ Exit(1)

ScanFailed ==
    /\ at = "scanning"
    /\ scanned \in {"NotFound", "Io", "InvalidArgument"}
    /\ JobFails(scanned)
    /\ UNCHANGED <<cliVars, scanVars, machine, shown, pools, gpu, output, unseen>>

(* The exception comes out of Engine::run, which waits for the job's thread. *)
ScanThrew ==
    /\ at = "scanning"
    /\ scanned = "threw"
    /\ Exit(Aborted)
    /\ UNCHANGED <<cliVars, scanVars, machine, jobVars>>

Scanned ==
    /\ at = "scanning"
    /\ scanned = "Ok"
    /\ IF entries = <<>> THEN JobFails("InvalidArgument")
       ELSE at' = "codecs" /\ UNCHANGED <<exit, status>>
    /\ UNCHANGED <<cliVars, scanVars, machine, shown, pools, gpu, output, unseen>>

(* make_codecs. The creation of a GPU codec needs a device, and may fail   *)
(* though there is one.                                                    *)
MakeCodecs ==
    /\ at = "codecs"
    /\ IF ~FormatHasCodec(JobOptions.format) THEN JobFails("Unsupported") /\ UNCHANGED gpu
       ELSE IF ~GpuWanted(machine, EngineOptions.enable_gpu)
       THEN at' = "writer" /\ UNCHANGED <<gpu, exit, status>>
       ELSE \/ gpu' = "failed" /\ JobFails("Cuda")
            \/ machine.devices > 0 /\ gpu' = "ready" /\ at' = "writer" /\ UNCHANGED <<exit, status>>
    /\ UNCHANGED <<cliVars, scanVars, machine, shown, pools, output, unseen>>

(* The writer's begin: fs::exists is told of an error and says no, and     *)
(* whether there was one is not looked at.                                 *)
AskOutput == unseen' \in BOOLEAN /\ Fail(Count(unseen'))
MayOpen == output = "absent" \/ unseen' \/ JobOptions.overwrite

(* Mutant of OpenOutput: what exists is replaced. *)
OpenOutputAlways ==
    /\ at = "writer"
    /\ AskOutput
    /\ output' = IF output = "old" THEN "replaced" ELSE "new"
    /\ at' = "packing"
    /\ UNCHANGED <<cliVars, exit, walkVars, machine, shown, pools, gpu, status>>

OpenOutput ==
    /\ at = "writer"
    /\ AskOutput
    /\ MayOpen
    /\ output' = IF output = "old" THEN "replaced" ELSE "new"
    /\ at' = "packing"
    /\ UNCHANGED <<cliVars, exit, walkVars, machine, shown, pools, gpu, status>>

OpenFails ==
    /\ at = "writer"
    /\ AskOutput
    /\ JobFails(IF MayOpen THEN "Io" ELSE "InvalidArgument")
    /\ UNCHANGED <<cliVars, walkVars, machine, shown, pools, gpu, output>>

(* The router's decision for file k. *)
Goes(k) == Route(JobOptions.algorithm, JobOptions.gpu_threshold_bytes, gpu = "ready", entries[k].size_bytes)

(* The blocks of file k (AsyncReader::submit), and whether they have any   *)
(* bytes: PinnedBuffer::allocate asks the CUDA runtime for the memory of   *)
(* each that has, if the build has CUDA, whichever codec it is for.        *)
BlockCount(k) ==
    LET block == IF JobOptions.block_bytes = 0 THEN ReaderBlock ELSE JobOptions.block_bytes
    IN  ((((entries[k].size_bytes + block - 1) % W64) \div block) % W32)
ReadsBytes(k) == entries[k].size_bytes > 0 /\ BlockCount(k) > 0
PinsMemory == machine.cuda /\ \E k \in DOMAIN entries : ReadsBytes(k)

(* The rest of the job. It fails of CUDA if a file goes to the GPU or its  *)
(* blocks need pinned memory, and without a device in the latter case it   *)
(* does not succeed; an exception of a task comes out of run() as any.     *)
Pack ==
    /\ at = "packing"
    /\ \/ (PinsMemory => machine.devices > 0) /\ status' = "Ok" /\ Exit(0)
       \/ \E error \in PackErrors : JobFails(error)
       \/ (PinsMemory \/ \E k \in DOMAIN entries : Goes(k) = "Gpu") /\ JobFails("Cuda")
       \/ Exit(Aborted) /\ UNCHANGED status
    /\ UNCHANGED <<cliVars, scanVars, machine, shown, pools, gpu, output, unseen>>

Done == at = "exited" /\ UNCHANGED vars

Next ==
    \/ Parse
    \/ StartEngine \/ StartFails
    \/ Scan \/ ScanFailed \/ ScanThrew \/ Scanned
    \/ MakeCodecs \/ OpenOutput \/ OpenFails \/ Pack
    \/ Done

Spec == Init /\ [][Next]_vars

-----------------------------------------------------------------------------
(* What a command line says, read without the parser: an option is a word  *)
(* that is not the value of the one before it, and of two that disagree    *)
(* the later stands.                                                       *)

IsOption ==
    LET option[k \in 2 .. Len(argv)] == k = 2 \/ ~(option[k - 1] /\ argv[k - 1] \in ValueOptions)
    IN  option
Places(options) == {k \in DOMAIN IsOption : IsOption[k] /\ argv[k] \in options}
LastOf(options) == argv[Max(Places(options))]
NoGpu == Places({"--gpu", "--no-gpu"}) # {} /\ LastOf({"--gpu", "--no-gpu"}) = "--no-gpu"

(* The size that is asked for, unless the product wraps. *)
AsksFor(option, default, size) ==
    IF Places({option}) = {} THEN size = default
    ELSE LET word == Sizes[argv[Max(Places({option})) + 1]]
         IN  word[1] * word[2] < W64 => size = word[1] * word[2]

-----------------------------------------------------------------------------
(* Properties.                                                             *)

(* main.cpp:35 "--gpu / --no-gpu Force GPU on/off": with --no-gpu last, or *)
(* in a build without CUDA, no GPU codec is made and all files go to the   *)
(* CPU, whatever the other options. That does not keep CUDA out of the job *)
(* in a build with it: the memory of every block that is read is the       *)
(* runtime's (pinned_buffer.cpp:47), so a job with --no-gpu may fail of    *)
(* CUDA, but only if it reads a byte; and one that reads a byte succeeds   *)
(* only where the engine's probe has found a device. A codec that is there *)
(* was made on such a device. (The line goes on "(default: on if           *)
(* available)": in a CUDA build without a device the default fails the job *)
(* in MakeCodecs already.)                                                 *)
GpuAsAsked ==
    /\ NoGpu \/ ~machine.cuda =>
          /\ gpu = "none"
          /\ at = "packing" => \A k \in DOMAIN entries : Goes(k) = "Cpu"
    /\ status = "Cuda" => machine.cuda /\ (~NoGpu \/ PinsMemory)
    /\ status = "Ok" => ~PinsMemory \/ shown.has_cuda
    /\ gpu = "ready" => shown.has_cuda

(* A job that comes to the reads is the one that was asked for and can     *)
(* run. options.hpp:29 "Files smaller than this stay on the CPU path", and *)
(* the sizes are the command line's, through parse_size, PackArgs and the  *)
(* request, unless the product of digits and suffix wraps (main.cpp:60).   *)
(* Each pool has a thread, whatever number was given, wrapped to zero or   *)
(* not known to the hardware, and there is a file; with none of either no  *)
(* future of the job would resolve.                                        *)
JobAsAsked ==
    at = "packing" =>
        /\ AsksFor("--block-bytes", DefaultBlock, JobOptions.block_bytes)
        /\ \A k \in DOMAIN entries :
              Goes(k) = "Gpu" =>
                  \E threshold \in 0 .. entries[k].size_bytes :
                      AsksFor("--gpu-threshold", DefaultThreshold, threshold)
        /\ pools.cpu > 0 /\ pools.io > 0
        /\ entries # <<>>

Opened == output \in {"new", "replaced"}

(* An output that exists stays as it is unless --overwrite is among the    *)
(* options or the query whether it exists fails (zip_writer.cpp:85 takes a *)
(* failure for a no), and in any case until the command line is accepted,  *)
(* the scan has listed the inputs and the codecs exist; and the exit code  *)
(* tells: 2 and the output is as it was, 0 and the job has made a new one. *)
OutputKept ==
    /\ Opened => scanned = "Ok" /\ FormatHasCodec(args.format) /\ gpu # "failed"
    /\ output = "replaced" => Places({"--overwrite"}) # {} \/ unseen
    /\ status = "InvalidArgument" \/ exit = 2 => ~Opened
    /\ status = "Ok" => Opened
    /\ (status = "Ok") = (at = "exited" /\ exit = 0 /\ argv[1] = "pack")
=============================================================================
