---------------------------- MODULE CommandLine -----------------------------
(***************************************************************************)
(* The command line (cli/main.cpp): main, the loop of parse_pack over argv *)
(* and the options that cmd_pack makes of what it found.                   *)
(*                                                                         *)
(* argv is a sequence of words after the program's name, so that its       *)
(* indices are those of the code. A word is an option, a size, or a path.  *)
(***************************************************************************)
EXTENDS Naturals, Sequences, SequencesExt

CONSTANTS
    CommandLines,   \* the argv's
    Sizes,          \* words of digits and a suffix: [word -> <<value, multiplier>>]
    Paths,          \* words that can be inputs
    DefaultThreshold, DefaultBlock,
    Hardware,       \* hardware_concurrency(), which may be 0
    W64             \* 2^64

(* The options without and those with a value. *)
Switches == {"--gpu", "--no-gpu", "--overwrite", "--no-recurse", "--quiet"}
SizeOptions == {"--gpu-threshold", "--block-bytes", "--threads", "--io-threads"}
ValueOptions == {"--output", "--format", "--level"} \cup SizeOptions

(* No word is an option and an input: what is like an option is refused.   *)
ASSUME CommandLineAssumption ==
    /\ CommandLines \subseteq Seq(STRING)
    /\ Paths \cap (Switches \cup ValueOptions) = {}
    /\ W64 \in Nat /\ W64 > 4 /\ Hardware \in Nat
    /\ DefaultThreshold \in 0 .. W64 - 1 /\ DefaultBlock \in 1 .. W64 - 1
    /\ \A w \in DOMAIN Sizes : Sizes[w][1] \in 0 .. W64 - 1 /\ Sizes[w][2] \in Nat \ {0}

VARIABLES
    argv,
    at,      \* main, parsing, and after it where the job is; exited
    i,       \* the word parse_pack is at
    args,    \* PackArgs
    exit     \* what main returns, or Aborted

cliVars == <<argv, i, args>>

Aborted == 134    \* an exception left main
Unset == ""       \* no output path
Formats == {"zip", "gzip", "zstd"}

CliTypeOK ==
    /\ argv \in CommandLines
    /\ i \in 2 .. Len(argv) + 2
    /\ args.output \in {Unset} \cup ToSet(argv) /\ args.inputs \in Seq(Paths)
    /\ args.format \in Formats
    /\ \A f \in {"use_gpu", "gpu_set", "overwrite", "recurse", "quiet"} : args[f] \in BOOLEAN
    /\ \A f \in {"gpu_threshold", "block_bytes", "threads", "io_threads"} : args[f] \in 0 .. W64 - 1
    /\ exit \in {0, 1, 2, Aborted}

CliInit ==
    /\ argv \in CommandLines
    /\ at = "main"
    /\ i = 2
    /\ args = [ inputs |-> <<>>, output |-> Unset, format |-> "zip",
                use_gpu |-> TRUE, gpu_set |-> FALSE,
                gpu_threshold |-> DefaultThreshold, block_bytes |-> DefaultBlock,
                threads |-> 0, io_threads |-> 4, level |-> "balanced",
                overwrite |-> FALSE, recurse |-> TRUE, quiet |-> FALSE ]
    /\ exit = 0

Exit(code) == at' = "exited" /\ exit' = code

-----------------------------------------------------------------------------
(* Words.                                                                  *)

(* Mutant of ParseSize: the product does not fit. *)
ParseSizeWide(w) == Sizes[w][1] * Sizes[w][2]

(* Mutant of ParseSize: the suffix is dropped. *)
ParseSizeBare(w) == Sizes[w][1]

(* The product wraps at the width of size_t.                               *)
ParseSize(w) == (Sizes[w][1] * Sizes[w][2]) % W64

(* What an option without a value sets. *)
Switched(option) ==
    CASE option = "--gpu" -> [args EXCEPT !.use_gpu = TRUE, !.gpu_set = TRUE]
      [] option = "--no-gpu" -> [args EXCEPT !.use_gpu = FALSE, !.gpu_set = TRUE]
      [] option = "--overwrite" -> [args EXCEPT !.overwrite = TRUE]
      [] option = "--no-recurse" -> [args EXCEPT !.recurse = FALSE]
      [] option = "--quiet" -> [args EXCEPT !.quiet = TRUE]

(* What an option with a value sets. *)
Field(option) ==
    CASE option = "--output" -> "output"
      [] option = "--format" -> "format"
      [] option = "--level" -> "level"
      [] option = "--gpu-threshold" -> "gpu_threshold"
      [] option = "--block-bytes" -> "block_bytes"
      [] option = "--threads" -> "threads"
      [] option = "--io-threads" -> "io_threads"

Valid(option, w) ==
    /\ option = "--format" => w \in Formats
    /\ option = "--level" => w \in {"fast", "balanced", "best"}
    /\ option \in SizeOptions => w \in DOMAIN Sizes

-----------------------------------------------------------------------------
Dispatch ==
    /\ at = "main"
    /\ IF argv # <<>> /\ argv[1] = "pack"
       THEN at' = "parsing" /\ UNCHANGED exit
       ELSE Exit(IF argv # <<>> /\ argv[1] \in {"--help", "-h", "info"} THEN 0 ELSE 2)
    /\ UNCHANGED cliVars

Parsing == at = "parsing" /\ i <= Len(argv)
HasValue == argv[i] \in ValueOptions /\ i < Len(argv) /\ Valid(argv[i], argv[i + 1])

(* Mutant of TakeSwitch: the first of two options that disagree stands. *)
TakeSwitchFirst ==
    /\ Parsing
    /\ argv[i] \in Switches
    /\ args' = IF args.gpu_set THEN args ELSE Switched(argv[i])
    /\ i' = i + 1
    /\ UNCHANGED <<argv, at, exit>>

TakeSwitch ==
    /\ Parsing
    /\ argv[i] \in Switches
    /\ args' = Switched(argv[i])
    /\ i' = i + 1
    /\ UNCHANGED <<argv, at, exit>>

TakeValue ==
    /\ Parsing
    /\ HasValue
    /\ LET w == argv[i + 1]
       IN  args' = [args EXCEPT ![Field(argv[i])] =
                       IF argv[i] \in SizeOptions THEN ParseSize(w) ELSE w]
    /\ i' = i + 2
    /\ UNCHANGED <<argv, at, exit>>

TakeInput ==
    /\ Parsing
    /\ argv[i] \in Paths
    /\ args' = [args EXCEPT !.inputs = Append(@, argv[i])]
    /\ i' = i + 1
    /\ UNCHANGED <<argv, at, exit>>

(* A missing or wrong value, an unknown option, or a request for help.     *)
Reject ==
    /\ Parsing
    /\ argv[i] \notin Switches \cup Paths
    /\ ~HasValue
    /\ Exit(2)
    /\ UNCHANGED cliVars

ParseEnds ==
    /\ at = "parsing"
    /\ i > Len(argv)
    /\ IF args.output = Unset \/ args.inputs = <<>> THEN Exit(2)
       ELSE at' = "engine" /\ UNCHANGED exit
    /\ UNCHANGED cliVars

CliNext == Dispatch \/ TakeSwitch \/ TakeValue \/ TakeInput \/ Reject \/ ParseEnds

-----------------------------------------------------------------------------
(* cmd_pack's engine and request.                                          *)

EngineOptions ==
    [ io_threads        |-> args.io_threads,
      cpu_codec_threads |-> IF args.threads > 0 THEN args.threads ELSE Hardware,
      enable_gpu        |-> args.use_gpu ]

JobOptions ==
    [ format    |-> args.format,
      algorithm |-> IF args.gpu_set /\ ~args.use_gpu THEN "CpuDeflate" ELSE "Auto",
      gpu_threshold_bytes |-> args.gpu_threshold,
      block_bytes         |-> args.block_bytes,
      overwrite |-> args.overwrite,
      recurse   |-> args.recurse ]
=============================================================================
