--------------------------- MODULE FrontEndProofs ---------------------------
(***************************************************************************)
(* Theorems about FrontEnd.tla, for every command line, machine and tree:  *)
(* what the loop of parse_pack has read is what the command line says,     *)
(* and what run() does with it before the first byte is written.           *)
(***************************************************************************)
EXTENDS FrontEnd, DataLemmas

LEMMA MaxOf ==
    ASSUME NEW n \in Nat, NEW S \in SUBSET (1 .. n), S # {}
    PROVE  Max(S) \in S /\ \A k \in S : k <= Max(S)
<1> DEFINE Above == {m \in Nat : \A k \in S : k <= m}
<1>1. PICK m \in Above : \A y \in Above : m <= y
  <2>1. n \in Above
    OBVIOUS
  <2> HIDE DEF Above
  <2> QED
    BY <2>1, LeastNatural DEF Above
<1>2. m \in S
  <2> SUFFICES ASSUME m \notin S PROVE FALSE
    OBVIOUS
  <2>1. PICK k \in S : TRUE
    OBVIOUS
  <2>2. m - 1 \in Nat /\ \A j \in S : j <= m - 1
    <3>1. k \in 1 .. n /\ k <= m /\ m \in Nat
      BY <1>1, <2>1
    <3>2. \A j \in S : j \in Nat /\ j <= m /\ j # m
      BY <1>1
    <3> QED
      BY <3>1, <3>2
  <2>3. m - 1 \in Above
    BY <2>2
  <2> QED
    BY <1>1, <2>2, <2>3
<1>3. \E x \in S : \A k \in S : x >= k
  BY <1>1, <1>2
<1> QED
  BY <1>3 DEF Max

-----------------------------------------------------------------------------
(* The words of a command line that are options.                           *)

(* The recursion of IsOption defines a function.                           *)
LEMMA OptionExists ==
    ASSUME NEW n \in Nat
    PROVE  \E f \in [2 .. n -> BOOLEAN] :
              \A k \in 2 .. n : f[k] <=> k = 2 \/ ~(f[k - 1] /\ argv[k - 1] \in ValueOptions)
<1> DEFINE Having == {m \in Nat : \E f \in [2 .. m -> BOOLEAN] :
              \A k \in 2 .. m : f[k] <=> k = 2 \/ ~(f[k - 1] /\ argv[k - 1] \in ValueOptions)}
           Lacking == Nat \ Having
<1> SUFFICES ASSUME Lacking # {} PROVE FALSE
  OBVIOUS
<1>1. PICK m \in Lacking : \A y \in Lacking : m <= y
  <2> HIDE DEF Lacking
  <2> QED
    BY LeastNatural DEF Lacking
<1>2. m >= 2
  <2> SUFFICES ASSUME m < 2 PROVE FALSE
    BY <1>1
  <2>1. 2 .. m = {}
    BY <1>1
  <2>2. [k \in 2 .. m |-> TRUE] \in [2 .. m -> BOOLEAN]
    OBVIOUS
  <2>3. m \in Having
    <3> SUFFICES \E f \in [2 .. m -> BOOLEAN] :
              \A k \in 2 .. m : f[k] <=> k = 2 \/ ~(f[k - 1] /\ argv[k - 1] \in ValueOptions)
      BY <1>1
    <3> WITNESS [k \in 2 .. m |-> TRUE] \in [2 .. m -> BOOLEAN]
    <3> QED
      BY <2>1
  <2> QED
    BY <1>1, <2>3
<1>3. PICK f \in [2 .. m - 1 -> BOOLEAN] :
         \A k \in 2 .. m - 1 : f[k] <=> k = 2 \/ ~(f[k - 1] /\ argv[k - 1] \in ValueOptions)
  <2>1. m - 1 \in Nat /\ m - 1 \notin Lacking
    <3> HIDE DEF Having
    <3> QED
      BY <1>1, <1>2
  <2>2. m - 1 \in Having
    BY <2>1
  <2> QED
    BY <2>2
<1> DEFINE last == m = 2 \/ ~(f[m - 1] /\ argv[m - 1] \in ValueOptions)
           g == [k \in 2 .. m |-> IF k = m THEN last ELSE f[k]]
<1>4. g \in [2 .. m -> BOOLEAN]
  <2>1. \A k \in 2 .. m : k # m => f[k] \in BOOLEAN
    <3>1. \A k \in 2 .. m : k # m => k \in 2 .. m - 1
      BY <1>1
    <3> QED
      BY <1>3, <3>1
  <2>2. last \in BOOLEAN
    OBVIOUS
  <2> HIDE DEF last
  <2> QED
    BY <2>1, <2>2
<1>5. ASSUME NEW k \in 2 .. m
      PROVE  g[k] <=> k = 2 \/ ~(g[k - 1] /\ argv[k - 1] \in ValueOptions)
  <2>1. CASE k = m /\ m > 2
    <3>1. g[m - 1] = f[m - 1]
      BY <1>1, <2>1
    <3> QED
      BY <1>1, <2>1, <3>1
  <2>2. CASE k = m /\ m = 2
    BY <2>2
  <2>3. CASE k # m
    <3>1. k \in 2 .. m - 1 /\ g[k] = f[k]
      BY <1>1, <2>3
    <3>2. k > 2 => k - 1 \in 2 .. m /\ k - 1 # m
      BY <1>1, <3>1
    <3>3. k > 2 => g[k - 1] = f[k - 1]
      BY <3>2
    <3>4. f[k] <=> k = 2 \/ ~(f[k - 1] /\ argv[k - 1] \in ValueOptions)
      BY <1>3, <3>1
    <3> HIDE DEF g, last
    <3> QED
      BY <3>1, <3>3, <3>4
  <2> QED
    BY <1>1, <1>2, <2>1, <2>2, <2>3
<1>6. m \in Having
  <2> HIDE DEF g
  <2> QED
    BY <1>1, <1>4, <1>5
<1> QED
  BY <1>1, <1>6

LEMMA OptionIs ==
    ASSUME Len(argv) \in Nat
    PROVE  /\ DOMAIN IsOption = 2 .. Len(argv)
           /\ \A k \in 2 .. Len(argv) :
                 IsOption[k] <=> k = 2 \/ ~(IsOption[k - 1] /\ argv[k - 1] \in ValueOptions)
<1> DEFINE n == Len(argv)
           Is(f) == f = [k \in 2 .. n |-> k = 2 \/ ~(f[k - 1] /\ argv[k - 1] \in ValueOptions)]
<1>1. PICK f \in [2 .. n -> BOOLEAN] :
         \A k \in 2 .. n : f[k] <=> k = 2 \/ ~(f[k - 1] /\ argv[k - 1] \in ValueOptions)
  BY OptionExists
<1>2. Is(f)
  BY <1>1
<1>3. IsOption = CHOOSE g : Is(g)
  BY DEF IsOption
<1>4. Is(IsOption)
  <2> HIDE DEF Is
  <2> QED
    BY <1>2, <1>3
<1> QED
  BY <1>4

LEMMA OptionNext ==
    ASSUME argv \in Seq(STRING), NEW k \in 2 .. Len(argv), IsOption[k]
    PROVE  /\ k + 1 <= Len(argv) => (IsOption[k + 1] <=> argv[k] \notin ValueOptions)
           /\ k + 2 <= Len(argv) /\ argv[k] \in ValueOptions => IsOption[k + 2]
<1>1. Len(argv) \in Nat
  BY LenProperties
<1>2. ASSUME NEW j \in 2 .. Len(argv)
      PROVE  IsOption[j] <=> j = 2 \/ ~(IsOption[j - 1] /\ argv[j - 1] \in ValueOptions)
  BY <1>1, OptionIs
<1>3. ASSUME k + 1 <= Len(argv)
      PROVE  IsOption[k + 1] <=> argv[k] \notin ValueOptions
  <2>1. k + 1 \in 2 .. Len(argv) /\ k + 1 # 2 /\ (k + 1) - 1 = k
    BY <1>1, <1>3
  <2> QED
    BY <1>2, <2>1
<1>4. ASSUME k + 2 <= Len(argv), argv[k] \in ValueOptions
      PROVE  IsOption[k + 2]
  <2>1. k + 2 \in 2 .. Len(argv) /\ k + 2 # 2 /\ (k + 2) - 1 = k + 1 /\ k + 1 <= Len(argv)
    BY <1>1, <1>4
  <2>2. ~IsOption[k + 1]
    BY <1>3, <1>4, <2>1
  <2> QED
    BY <1>2, <2>1, <2>2
<1> QED
  BY <1>3, <1>4

-----------------------------------------------------------------------------
(* What parse_pack has read of the command line.                           *)

PackArgs ==
    [ inputs : Seq(Paths), output : {Unset} \cup ToSet(argv), format : Formats,
      use_gpu : BOOLEAN, gpu_set : BOOLEAN,
      gpu_threshold : 0 .. W64 - 1, block_bytes : 0 .. W64 - 1,
      threads : 0 .. W64 - 1, io_threads : 0 .. W64 - 1, level : {"fast", "balanced", "best"},
      overwrite : BOOLEAN, recurse : BOOLEAN, quiet : BOOLEAN ]

Stages == {"main", "parsing", "engine", "scanning", "codecs", "writer", "packing", "exited"}

ArgsTyped ==
    /\ argv \in CommandLines
    /\ i \in 2 .. Len(argv) + 2
    /\ args \in PackArgs
    /\ at \in Stages
    /\ exit \in {0, 1, 2, Aborted}

(* The loop is at an option or an input, never at a value.                 *)
AtOption ==
    /\ at = "main" => i = 2
    /\ at \in {"main", "parsing"} /\ i <= Len(argv) => IsOption[i]

(* Of the options in front of n, k is the last. *)
LastBefore(options, k, n) == k < n /\ \A j \in Places(options) : j < n => j <= k
LastRead(options, k) == LastBefore(options, k, i)

GpuRead ==
    /\ args.gpu_set <=> \E k \in Places({"--gpu", "--no-gpu"}) : k < i
    /\ \A k \in Places({"--gpu", "--no-gpu"}) :
          LastRead({"--gpu", "--no-gpu"}, k) => (args.use_gpu <=> argv[k] = "--gpu")

OverwriteRead == args.overwrite => \E k \in Places({"--overwrite"}) : k < i

(* What the options in front of n say of a size. *)
SizeBefore(option, default, size, n) ==
    /\ (\A k \in Places({option}) : k >= n) => size = default
    /\ \A k \in Places({option}) :
          LastBefore({option}, k, n) =>
              k < Len(argv) /\ argv[k + 1] \in DOMAIN Sizes /\ size = ParseSize(argv[k + 1])

SizeRead(option, default, size) == SizeBefore(option, default, size, i)

ParseInv ==
    /\ ArgsTyped /\ AtOption
    /\ GpuRead /\ OverwriteRead
    /\ SizeRead("--block-bytes", DefaultBlock, args.block_bytes)
    /\ SizeRead("--gpu-threshold", DefaultThreshold, args.gpu_threshold)

(* The words that the loop has been past once it has taken the option at i. *)
LEMMA PlacesRead ==
    ASSUME ArgsTyped, i <= Len(argv), IsOption[i], NEW options,
           NEW n \in Nat, n = i + 1 \/ (n = i + 2 /\ argv[i] \in ValueOptions)
    PROVE  /\ argv[i] \in options => i \in Places(options)
           /\ \A k \in Places(options) :
                 /\ k \in 2 .. Len(argv) /\ argv[k] \in options
                 /\ k < n <=> k < i \/ k = i
<1>1. argv \in Seq(STRING) /\ Len(argv) \in Nat
  BY CommandLineAssumption, LenProperties DEF ArgsTyped
<1>2. DOMAIN IsOption = 2 .. Len(argv)
  BY <1>1, OptionIs
<1>3. i \in 2 .. Len(argv)
  BY <1>1 DEF ArgsTyped
<1>4. i + 1 <= Len(argv) /\ argv[i] \in ValueOptions => ~IsOption[i + 1]
  BY <1>1, <1>3, OptionNext
<1>7. argv[i] \in options => i \in Places(options)
  BY <1>2, <1>3 DEF Places
<1> SUFFICES ASSUME NEW k \in Places(options)
             PROVE  k \in 2 .. Len(argv) /\ argv[k] \in options /\ (k < n <=> k < i \/ k = i)
  BY <1>7
<1>5. k \in 2 .. Len(argv) /\ IsOption[k] /\ argv[k] \in options
  BY <1>2 DEF Places
<1>6. n = i + 2 => k # i + 1
  <2> SUFFICES ASSUME n = i + 2, k = i + 1 PROVE FALSE
    OBVIOUS
  <2>1. argv[i] \in ValueOptions
    BY <1>3
  <2> QED
    BY <1>1, <1>3, <1>4, <1>5, <2>1
<1> QED
  BY <1>1, <1>3, <1>5, <1>6

LEMMA LastReadNext ==
    ASSUME ArgsTyped, i <= Len(argv), IsOption[i], NEW options,
           NEW n \in Nat, n = i + 1 \/ (n = i + 2 /\ argv[i] \in ValueOptions)
    PROVE  /\ argv[i] \in options =>
                  /\ i \in Places(options) /\ i < n
                  /\ \A k \in Places(options) : LastBefore(options, k, n) => k = i
           /\ argv[i] \notin options =>
                  \A k \in Places(options) :
                     (k < n <=> k < i) /\ (LastBefore(options, k, n) => LastRead(options, k))
<1> DEFINE P == Places(options)
<1>1. /\ argv[i] \in options => i \in P
      /\ \A k \in P : k \in 2 .. Len(argv) /\ argv[k] \in options /\ (k < n <=> k < i \/ k = i)
  BY PlacesRead
<1>2. i \in Nat /\ i < n
  BY DEF ArgsTyped
<1> HIDE DEF P
<1>3. ASSUME argv[i] \in options, NEW k \in P, k < n, \A j \in P : j < n => j <= k
      PROVE  k = i
  <2>1. i <= k /\ (k < i \/ k = i) /\ k \in Nat
    BY <1>1, <1>2, <1>3
  <2> QED
    BY <1>2, <2>1
<1>4. ASSUME argv[i] \notin options, NEW k \in P
      PROVE  k < n <=> k < i
  BY <1>1, <1>4
<1> QED
  BY <1>1, <1>2, <1>3, <1>4 DEF LastBefore, LastRead, P

LEMMA SizeNext ==
    ASSUME ArgsTyped, i <= Len(argv), IsOption[i], NEW option, NEW default, NEW size,
           NEW n \in Nat, n = i + 1 \/ (n = i + 2 /\ argv[i] \in ValueOptions)
    PROVE  /\ argv[i] # option /\ SizeRead(option, default, size) => SizeBefore(option, default, size, n)
           /\ argv[i] = option /\ i < Len(argv) /\ argv[i + 1] \in DOMAIN Sizes =>
                  SizeBefore(option, default, ParseSize(argv[i + 1]), n)
<1>1. \A k \in Places({option}) : k \in Nat
  BY PlacesRead
<1>2. i \in Nat
  BY DEF ArgsTyped
<1>3. ASSUME argv[i] # option, SizeRead(option, default, size)
      PROVE  SizeBefore(option, default, size, n)
  <2>1. \A k \in Places({option}) : LastBefore({option}, k, n) => LastBefore({option}, k, i)
    BY <1>3, LastReadNext DEF LastRead
  <2>2. \A k \in Places({option}) : k >= n => k >= i
    <3>1. \A k \in Places({option}) : k < n <=> k < i
      BY <1>3, LastReadNext
    <3> QED
      BY <1>1, <1>2, <3>1
  <2> QED
    BY <1>3, <2>1, <2>2 DEF SizeRead, SizeBefore
<1>4. ASSUME argv[i] = option, i < Len(argv), argv[i + 1] \in DOMAIN Sizes
      PROVE  SizeBefore(option, default, ParseSize(argv[i + 1]), n)
  <2>1. /\ i \in Places({option}) /\ i < n
        /\ \A k \in Places({option}) : LastBefore({option}, k, n) => k = i
    BY <1>4, LastReadNext
  <2>2. ~(i >= n)
    BY <1>2
  <2> QED
    BY <1>4, <2>1, <2>2 DEF SizeBefore
<1> QED
  BY <1>3, <1>4

LEMMA PlacesSame ==
    ASSUME argv' = argv
    PROVE  IsOption' = IsOption /\ \A options : Places(options)' = Places(options)
<1>1. IsOption' = IsOption
  BY DEF IsOption
<1> QED
  BY <1>1 DEF Places

LEMMA ParseStays ==
    ASSUME ParseInv, UNCHANGED cliVars, exit' \in {0, 1, 2, Aborted}, at' \in Stages,
           at' = "main" => at = "main", at' = "parsing" => at \in {"main", "parsing"}
    PROVE  ParseInv'
<1>1. IsOption' = IsOption /\ \A options : Places(options)' = Places(options)
  BY PlacesSame DEF cliVars
<1>2. ArgsTyped'
  <2>1. PackArgs' = PackArgs
    BY DEF PackArgs, ToSet, cliVars
  <2> QED
    BY <2>1 DEF ParseInv, ArgsTyped, cliVars
<1>3. AtOption'
  BY <1>1 DEF ParseInv, AtOption, cliVars
<1>4. GpuRead' /\ OverwriteRead'
  BY <1>1 DEF ParseInv, GpuRead, OverwriteRead, LastRead, LastBefore, cliVars
<1>5. SizeRead("--block-bytes", DefaultBlock, args.block_bytes)'
  BY <1>1 DEF ParseInv, SizeRead, SizeBefore, LastBefore, cliVars
<1>6. SizeRead("--gpu-threshold", DefaultThreshold, args.gpu_threshold)'
  BY <1>1 DEF ParseInv, SizeRead, SizeBefore, LastBefore, cliVars
<1> QED
  BY <1>2, <1>3, <1>4, <1>5, <1>6 DEF ParseInv

LEMMA AtWord == ParseInv /\ Parsing => IsOption[i] /\ i \in 2 .. Len(argv) /\ argv \in Seq(STRING)
<1> SUFFICES ASSUME ParseInv, Parsing PROVE IsOption[i] /\ i \in 2 .. Len(argv) /\ argv \in Seq(STRING)
  OBVIOUS
<1>1. argv \in Seq(STRING) /\ Len(argv) \in Nat
  BY CommandLineAssumption, LenProperties DEF ParseInv, ArgsTyped
<1> QED
  BY <1>1 DEF ParseInv, ArgsTyped, AtOption, Parsing

(* The loop goes on behind the value of an option with one.                *)
LEMMA StepsToOption ==
    ASSUME ParseInv, Parsing, argv' = argv, at' = at,
           \/ i' = i + 1 /\ argv[i] \notin ValueOptions
           \/ i' = i + 2 /\ i < Len(argv) /\ argv[i] \in ValueOptions
    PROVE  AtOption' /\ i' \in 2 .. Len(argv) + 2 /\ i' \in Nat
<1>1. IsOption[i] /\ i \in 2 .. Len(argv) /\ argv \in Seq(STRING) /\ Len(argv) \in Nat
  BY AtWord, LenProperties
<1>2. /\ i + 1 <= Len(argv) => (IsOption[i + 1] <=> argv[i] \notin ValueOptions)
      /\ i + 2 <= Len(argv) /\ argv[i] \in ValueOptions => IsOption[i + 2]
  BY <1>1, OptionNext
<1>3. IsOption' = IsOption
  BY PlacesSame
<1>4. at = "parsing"
  BY DEF Parsing
<1> QED
  BY <1>1, <1>2, <1>3, <1>4 DEF AtOption

(* The fields an option without a value leaves, and those it sets.         *)
LEMMA SwitchedFields ==
    ASSUME args \in PackArgs, NEW option \in Switches
    PROVE  /\ Switched(option) \in PackArgs
           /\ Switched(option).block_bytes = args.block_bytes
           /\ Switched(option).gpu_threshold = args.gpu_threshold
           /\ Switched(option).gpu_set <=> args.gpu_set \/ option \in {"--gpu", "--no-gpu"}
           /\ Switched(option).overwrite <=> args.overwrite \/ option = "--overwrite"
           /\ option \in {"--gpu", "--no-gpu"} => (Switched(option).use_gpu <=> option = "--gpu")
           /\ option \notin {"--gpu", "--no-gpu"} => Switched(option).use_gpu = args.use_gpu
<1>1. CASE option = "--gpu"
  BY <1>1 DEF PackArgs, Switched
<1>2. CASE option = "--no-gpu"
  BY <1>2 DEF PackArgs, Switched
<1>3. CASE option = "--overwrite"
  BY <1>3 DEF PackArgs, Switched
<1>4. CASE option = "--no-recurse"
  BY <1>4 DEF PackArgs, Switched
<1>5. CASE option = "--quiet"
  BY <1>5 DEF PackArgs, Switched
<1> QED
  BY <1>1, <1>2, <1>3, <1>4, <1>5 DEF Switches

LEMMA StepSwitch == ParseInv /\ TakeSwitch => ParseInv'
<1> SUFFICES ASSUME ParseInv, TakeSwitch PROVE ParseInv'
  OBVIOUS
<1> USE DEF TakeSwitch
<1>1. /\ IsOption[i] /\ i \in 2 .. Len(argv) /\ argv \in Seq(STRING)
      /\ i' = i + 1 /\ argv' = argv /\ at' = at /\ exit' = exit
      /\ argv[i] \in Switches /\ argv[i] \notin ValueOptions
  BY AtWord DEF Switches, ValueOptions, SizeOptions
<1>2. AtOption' /\ i' \in 2 .. Len(argv) + 2
  BY <1>1, StepsToOption
<1>3. ArgsTyped
  BY DEF ParseInv
<1>4. args' \in PackArgs /\ PackArgs' = PackArgs
  <2>1. PackArgs' = PackArgs
    BY <1>1 DEF PackArgs, ToSet
  <2> QED
    BY <2>1, <1>3, SwitchedFields DEF ArgsTyped
<1>5. \A options : Places(options)' = Places(options)
  BY <1>1, PlacesSame
<1>6. ASSUME NEW options
      PROVE  /\ argv[i] \in options =>
                  /\ i \in Places(options) /\ i < i'
                  /\ \A k \in Places(options) : LastBefore(options, k, i') => k = i
             /\ argv[i] \notin options =>
                  \A k \in Places(options) :
                     (k < i' <=> k < i) /\ (LastBefore(options, k, i') => LastRead(options, k))
  BY <1>1, <1>3, LastReadNext DEF ArgsTyped
<1>7. \A options, k : LastRead(options, k)' <=> LastBefore(options, k, i')
  BY <1>5 DEF LastRead, LastBefore
<1>13. /\ args'.block_bytes = args.block_bytes /\ args'.gpu_threshold = args.gpu_threshold
       /\ args'.gpu_set <=> args.gpu_set \/ argv[i] \in {"--gpu", "--no-gpu"}
       /\ args'.overwrite <=> args.overwrite \/ argv[i] = "--overwrite"
       /\ argv[i] \in {"--gpu", "--no-gpu"} => (args'.use_gpu <=> argv[i] = "--gpu")
       /\ argv[i] \notin {"--gpu", "--no-gpu"} => args'.use_gpu = args.use_gpu
  BY <1>3, SwitchedFields DEF ArgsTyped
<1>8. GpuRead'
  <2> DEFINE Gpu == {"--gpu", "--no-gpu"}
             P == Places(Gpu)
  <2>1. Places(Gpu)' = P
    BY <1>5
  <2>2. CASE argv[i] \in Gpu
    BY <1>1, <1>6, <1>7, <1>13, <2>1, <2>2 DEF GpuRead
  <2>3. CASE argv[i] \notin Gpu
    BY <1>1, <1>6, <1>7, <1>13, <2>1, <2>3 DEF ParseInv, GpuRead
  <2> QED
    BY <2>2, <2>3
<1>9. OverwriteRead'
  BY <1>1, <1>5, <1>6, <1>13 DEF ParseInv, OverwriteRead
<1>10. SizeRead("--block-bytes", DefaultBlock, args.block_bytes)'
  <2>1. SizeBefore("--block-bytes", DefaultBlock, args.block_bytes, i')
    BY <1>1, <1>3, SizeNext DEF ParseInv, ArgsTyped, Switches
  <2> QED
    BY <1>1, <1>5, <1>13, <2>1 DEF SizeRead, SizeBefore, LastBefore
<1>11. SizeRead("--gpu-threshold", DefaultThreshold, args.gpu_threshold)'
  <2>1. SizeBefore("--gpu-threshold", DefaultThreshold, args.gpu_threshold, i')
    BY <1>1, <1>3, SizeNext DEF ParseInv, ArgsTyped, Switches
  <2> QED
    BY <1>1, <1>5, <1>13, <2>1 DEF SizeRead, SizeBefore, LastBefore
<1>12. ArgsTyped'
  BY <1>1, <1>2, <1>3, <1>4 DEF ArgsTyped
<1> QED
  BY <1>2, <1>8, <1>9, <1>10, <1>11, <1>12 DEF ParseInv

(* What an option with a value or an input leaves as it is.                *)
LEMMA OthersKept ==
    ASSUME ParseInv, Parsing, argv' = argv, args'.use_gpu = args.use_gpu, args'.gpu_set = args.gpu_set,
           args'.overwrite = args.overwrite, argv[i] \notin Switches,
           i' = i + 1 \/ (i' = i + 2 /\ argv[i] \in ValueOptions), i' \in Nat
    PROVE  GpuRead' /\ OverwriteRead'
<1>1. IsOption[i] /\ i <= Len(argv) /\ ArgsTyped
  BY AtWord DEF ParseInv, Parsing
<1>2. \A options : Places(options)' = Places(options)
  BY PlacesSame
<1>3. ASSUME NEW options, argv[i] \notin options
      PROVE  \A k \in Places(options) :
                (k < i' <=> k < i) /\ (LastBefore(options, k, i') => LastRead(options, k))
  BY <1>1, <1>3, LastReadNext
<1>4. argv[i] \notin {"--gpu", "--no-gpu"} /\ argv[i] \notin {"--overwrite"}
  BY DEF Switches
<1>5. GpuRead'
  <2> DEFINE Gpu == {"--gpu", "--no-gpu"}
  <2>1. \A k \in Places(Gpu) :
           (k < i' <=> k < i) /\ (LastRead(Gpu, k)' => LastRead(Gpu, k))
    BY <1>2, <1>3, <1>4 DEF LastRead, LastBefore
  <2> QED
    BY <1>2, <2>1 DEF ParseInv, GpuRead
<1>6. OverwriteRead'
  BY <1>2, <1>3, <1>4 DEF ParseInv, OverwriteRead
<1> QED
  BY <1>5, <1>6

LEMMA StepInput == ParseInv /\ TakeInput => ParseInv'
<1> SUFFICES ASSUME ParseInv, TakeInput PROVE ParseInv'
  OBVIOUS
<1> USE DEF TakeInput
<1>1. /\ IsOption[i] /\ i \in 2 .. Len(argv) /\ argv \in Seq(STRING) /\ ArgsTyped
      /\ i' = i + 1 /\ argv' = argv /\ at' = at /\ exit' = exit
      /\ argv[i] \in Paths /\ argv[i] \notin Switches /\ argv[i] \notin ValueOptions
  BY AtWord, CommandLineAssumption DEF ParseInv
<1>2. AtOption' /\ i' \in 2 .. Len(argv) + 2 /\ i' \in Nat
  BY <1>1, StepsToOption
<1>3. args \in PackArgs /\ args.inputs \in Seq(Paths) /\ Append(args.inputs, argv[i]) \in Seq(Paths)
  BY <1>1, AppendProperties DEF ArgsTyped, PackArgs
<1>4. /\ args'.use_gpu = args.use_gpu /\ args'.gpu_set = args.gpu_set /\ args'.overwrite = args.overwrite
      /\ args'.block_bytes = args.block_bytes /\ args'.gpu_threshold = args.gpu_threshold
  BY <1>3 DEF PackArgs
<1>5. GpuRead' /\ OverwriteRead'
  BY <1>1, <1>2, <1>4, OthersKept
<1>6. \A options : Places(options)' = Places(options)
  BY <1>1, PlacesSame
<1>7. SizeRead("--block-bytes", DefaultBlock, args.block_bytes)'
  <2>1. SizeBefore("--block-bytes", DefaultBlock, args.block_bytes, i')
    BY <1>1, <1>2, SizeNext DEF ParseInv, ValueOptions, SizeOptions
  <2> QED
    BY <1>1, <1>4, <1>6, <2>1 DEF SizeRead, SizeBefore, LastBefore
<1>8. SizeRead("--gpu-threshold", DefaultThreshold, args.gpu_threshold)'
  <2>1. SizeBefore("--gpu-threshold", DefaultThreshold, args.gpu_threshold, i')
    BY <1>1, <1>2, SizeNext DEF ParseInv, ValueOptions, SizeOptions
  <2> QED
    BY <1>1, <1>4, <1>6, <2>1 DEF SizeRead, SizeBefore, LastBefore
<1>9. ArgsTyped'
  <2>1. PackArgs' = PackArgs
    BY <1>1 DEF PackArgs, ToSet
  <2>2. args' \in PackArgs
    BY <1>3 DEF PackArgs
  <2> QED
    BY <1>1, <1>2, <2>1, <2>2 DEF ArgsTyped
<1> QED
  BY <1>2, <1>5, <1>7, <1>8, <1>9 DEF ParseInv

(* A size fits in size_t, and is the product unless that wraps.            *)
LEMMA SizeFits ==
    ASSUME NEW w \in DOMAIN Sizes
    PROVE  /\ ParseSize(w) \in 0 .. W64 - 1
           /\ Sizes[w][1] * Sizes[w][2] < W64 => ParseSize(w) = Sizes[w][1] * Sizes[w][2]
<1> DEFINE product == Sizes[w][1] * Sizes[w][2]
<1>1. product \in Nat /\ W64 \in Nat \ {0}
  BY CommandLineAssumption
<1> HIDE DEF product
<1>2. product % W64 \in 0 .. W64 - 1 /\ (product < W64 => product % W64 = product)
  BY <1>1
<1> QED
  BY <1>2 DEF ParseSize, product

(* The value that an option sets, and what it leaves.                      *)
LEMMA ValueFields ==
    ASSUME ParseInv, TakeValue
    PROVE  /\ args' \in PackArgs
           /\ args'.use_gpu = args.use_gpu /\ args'.gpu_set = args.gpu_set /\ args'.overwrite = args.overwrite
           /\ argv[i] # "--block-bytes" => args'.block_bytes = args.block_bytes
           /\ argv[i] # "--gpu-threshold" => args'.gpu_threshold = args.gpu_threshold
           /\ argv[i] = "--block-bytes" => args'.block_bytes = ParseSize(argv[i + 1])
           /\ argv[i] = "--gpu-threshold" => args'.gpu_threshold = ParseSize(argv[i + 1])
<1> DEFINE v == IF argv[i] \in SizeOptions THEN ParseSize(argv[i + 1]) ELSE argv[i + 1]
<1>0. Parsing /\ HasValue /\ args' = [args EXCEPT ![Field(argv[i])] = v]
  BY DEF TakeValue
<1>1. argv \in Seq(STRING) /\ i + 1 \in 1 .. Len(argv) /\ args \in PackArgs
  BY <1>0, AtWord, LenProperties DEF ParseInv, ArgsTyped, HasValue
<1>2. argv[i + 1] \in ToSet(argv)
  BY <1>1 DEF ToSet
<1>3. argv[i] \in SizeOptions => v = ParseSize(argv[i + 1]) /\ v \in 0 .. W64 - 1
  BY <1>0, SizeFits DEF HasValue, Valid
<1>4. argv[i] \notin SizeOptions => v = argv[i + 1]
  OBVIOUS
<1> HIDE DEF v
<1>5. CASE argv[i] = "--output"
  BY <1>0, <1>1, <1>2, <1>4, <1>5 DEF PackArgs, Field, SizeOptions
<1>6. CASE argv[i] = "--format"
  BY <1>0, <1>1, <1>4, <1>6 DEF PackArgs, Field, SizeOptions, HasValue, Valid
<1>7. CASE argv[i] = "--level"
  BY <1>0, <1>1, <1>4, <1>7 DEF PackArgs, Field, SizeOptions, HasValue, Valid
<1>8. CASE argv[i] = "--gpu-threshold"
  BY <1>0, <1>1, <1>3, <1>8 DEF PackArgs, Field, SizeOptions
<1>9. CASE argv[i] = "--block-bytes"
  BY <1>0, <1>1, <1>3, <1>9 DEF PackArgs, Field, SizeOptions
<1>10. CASE argv[i] = "--threads"
  BY <1>0, <1>1, <1>3, <1>10 DEF PackArgs, Field, SizeOptions
<1>11. CASE argv[i] = "--io-threads"
  BY <1>0, <1>1, <1>3, <1>11 DEF PackArgs, Field, SizeOptions
<1> QED
  BY <1>0, <1>5, <1>6, <1>7, <1>8, <1>9, <1>10, <1>11 DEF HasValue, ValueOptions, SizeOptions

LEMMA StepValue == ParseInv /\ TakeValue => ParseInv'
<1> SUFFICES ASSUME ParseInv, TakeValue PROVE ParseInv'
  OBVIOUS
<1> USE DEF TakeValue
<1>1. /\ IsOption[i] /\ i \in 2 .. Len(argv) /\ i < Len(argv) /\ argv \in Seq(STRING) /\ ArgsTyped
      /\ i' = i + 2 /\ argv' = argv /\ at' = at /\ exit' = exit
      /\ argv[i] \in ValueOptions /\ Valid(argv[i], argv[i + 1])
  BY AtWord DEF ParseInv, HasValue
<1>2. AtOption' /\ i' \in 2 .. Len(argv) + 2 /\ i' \in Nat
  BY <1>1, StepsToOption
<1>3. /\ args' \in PackArgs
      /\ args'.use_gpu = args.use_gpu /\ args'.gpu_set = args.gpu_set /\ args'.overwrite = args.overwrite
      /\ argv[i] # "--block-bytes" => args'.block_bytes = args.block_bytes
      /\ argv[i] # "--gpu-threshold" => args'.gpu_threshold = args.gpu_threshold
      /\ argv[i] = "--block-bytes" => args'.block_bytes = ParseSize(argv[i + 1])
      /\ argv[i] = "--gpu-threshold" => args'.gpu_threshold = ParseSize(argv[i + 1])
  BY ValueFields
<1>4. argv[i] \notin Switches
  BY <1>1 DEF Switches, ValueOptions, SizeOptions
<1>5. GpuRead' /\ OverwriteRead'
  BY <1>1, <1>2, <1>3, <1>4, OthersKept
<1>6. \A options : Places(options)' = Places(options)
  BY <1>1, PlacesSame
<1>7. SizeRead("--block-bytes", DefaultBlock, args.block_bytes)'
  <2>1. SizeBefore("--block-bytes", DefaultBlock, args'.block_bytes, i')
    BY <1>1, <1>2, <1>3, SizeNext DEF ParseInv, Valid, SizeOptions
  <2> QED
    BY <1>1, <1>6, <2>1 DEF SizeRead, SizeBefore, LastBefore
<1>8. SizeRead("--gpu-threshold", DefaultThreshold, args.gpu_threshold)'
  <2>1. SizeBefore("--gpu-threshold", DefaultThreshold, args'.gpu_threshold, i')
    BY <1>1, <1>2, <1>3, SizeNext DEF ParseInv, Valid, SizeOptions
  <2> QED
    BY <1>1, <1>6, <2>1 DEF SizeRead, SizeBefore, LastBefore
<1>9. ArgsTyped'
  <2>1. PackArgs' = PackArgs
    BY <1>1 DEF PackArgs, ToSet
  <2> QED
    BY <1>1, <1>2, <1>3, <2>1 DEF ArgsTyped
<1> QED
  BY <1>2, <1>5, <1>7, <1>8, <1>9 DEF ParseInv

LEMMA ParseStarts == Init => ParseInv
<1> SUFFICES ASSUME Init PROVE ParseInv
  OBVIOUS
<1> USE DEF Init, CliInit
<1>1. argv \in Seq(STRING) /\ Len(argv) \in Nat /\ i = 2 /\ at = "main" /\ exit = 0
  BY CommandLineAssumption, LenProperties
<1>2. args \in PackArgs
  <2>1. <<>> \in Seq(Paths) /\ Unset \in {Unset} \cup ToSet(argv)
    OBVIOUS
  <2>2. {DefaultThreshold, DefaultBlock, 0} \subseteq 0 .. W64 - 1
    BY CommandLineAssumption
  <2>3. 4 \in 0 .. W64 - 1
    BY CommandLineAssumption
  <2> QED
    BY <2>1, <2>2, <2>3 DEF PackArgs, Formats
<1>3. ArgsTyped
  BY <1>1, <1>2 DEF ArgsTyped, Stages
<1>4. \A options : \A k \in Places(options) : k \in 2 .. Len(argv)
  BY <1>1, OptionIs DEF Places
<1>5. \A options : \A k \in Places(options) : k >= i /\ ~(k < i)
  BY <1>1, <1>4
<1>6. AtOption
  BY <1>1, OptionIs DEF AtOption
<1>7. GpuRead /\ OverwriteRead
  BY <1>5 DEF GpuRead, OverwriteRead, LastRead, LastBefore
<1>8. args.block_bytes = DefaultBlock /\ args.gpu_threshold = DefaultThreshold
  OBVIOUS
<1>9. /\ SizeRead("--block-bytes", DefaultBlock, args.block_bytes)
      /\ SizeRead("--gpu-threshold", DefaultThreshold, args.gpu_threshold)
  BY <1>5, <1>8 DEF SizeRead, SizeBefore, LastBefore
<1> QED
  BY <1>3, <1>6, <1>7, <1>9 DEF ParseInv

LEMMA StepParse == ParseInv /\ [Next]_vars => ParseInv'
<1> SUFFICES ASSUME ParseInv, [Next]_vars PROVE ParseInv'
  OBVIOUS
<1> USE DEF Stages
<1>0. ArgsTyped
  BY DEF ParseInv
<1>1. CASE TakeSwitch \/ TakeValue \/ TakeInput
  BY <1>1, StepSwitch, StepValue, StepInput
<1>2. CASE Dispatch \/ Reject \/ ParseEnds
  BY <1>0, <1>2, ParseStays DEF Dispatch, Reject, ParseEnds, Parsing, Exit, ArgsTyped
<1>3. CASE StartEngine \/ StartFails \/ Scan \/ ScanFailed \/ ScanThrew \/ Scanned
  BY <1>0, <1>3, ParseStays
     DEF StartEngine, StartFails, Scan, ScanFailed, ScanThrew, Scanned, JobFails, Exit, ArgsTyped
<1>4. CASE MakeCodecs \/ OpenOutput \/ OpenFails \/ Pack
  BY <1>0, <1>4, ParseStays DEF MakeCodecs, OpenOutput, OpenFails, Pack, JobFails, Exit, Aborted, ArgsTyped
<1>5. CASE Done \/ UNCHANGED vars
  BY <1>0, <1>5, ParseStays DEF Done, vars, cliVars, ArgsTyped
<1> QED
  BY <1>1, <1>2, <1>3, <1>4, <1>5 DEF Next, Parse, CliNext

-----------------------------------------------------------------------------
(* What a job has come to.                                                 *)

(* In front of each stage nothing of it has happened.                      *)
NotYet ==
    /\ at # "exited" => status = "none" /\ exit = 0
    /\ at \in {"main", "parsing", "engine", "scanning", "codecs"} => gpu = "none"
    /\ at \notin {"packing", "exited"} => ~Opened
    /\ at \notin {"main", "exited"} => argv # <<>> /\ argv[1] = "pack"

(* Behind each stage what it has settled stands.                           *)
Settled ==
    /\ at \notin {"main", "parsing", "exited"} => i > Len(argv)
    /\ at \in {"scanning", "codecs", "writer", "packing"} =>
          shown = Capabilities(machine) /\ pools.cpu > 0 /\ pools.io > 0
    /\ at \in {"codecs", "writer", "packing"} => scanned = "Ok" /\ entries # <<>>
    /\ at \in {"writer", "packing"} => FormatHasCodec(args.format) /\ gpu # "failed"
    /\ at = "packing" => Opened

(* What was decided or done was asked for.                                 *)
Asked ==
    /\ gpu # "none" \/ status # "none" \/ Opened => i > Len(argv)
    /\ gpu # "none" => args.use_gpu /\ machine.cuda
    /\ gpu = "ready" => shown.has_cuda
    /\ status = "Cuda" => machine.cuda /\ (args.use_gpu \/ PinsMemory)
    /\ status = "Ok" => ~PinsMemory \/ shown.has_cuda
    /\ Opened => scanned = "Ok" /\ FormatHasCodec(args.format) /\ gpu # "failed"
    /\ output = "replaced" => args.overwrite \/ unseen
    /\ status = "InvalidArgument" \/ exit = 2 => ~Opened
    /\ status = "Ok" => Opened
    /\ (status = "Ok") = (at = "exited" /\ exit = 0 /\ argv[1] = "pack")

Typed ==
    /\ machine \in Machines
    /\ gpu \in {"none", "failed", "ready"}
    /\ output \in {"absent", "old", "new", "replaced"}
    /\ unseen \in BOOLEAN
    /\ status \in {"none", "Ok", "NotFound", "InvalidArgument", "Unsupported", "Cuda"} \cup PackErrors
    /\ pools \in [cpu : Nat, io : Nat]

JobInv == ParseInv /\ Typed /\ NotYet /\ Settled /\ Asked

LEMMA PoolSizes == \A threads \in Nat : PoolSize(threads) \in Nat \ {0}
<1> SUFFICES ASSUME NEW threads \in Nat PROVE PoolSize(threads) \in Nat \ {0}
  OBVIOUS
<1>1. \E x \in {threads, 1} : \A y \in {threads, 1} : x >= y
  BY (threads >= 1) \/ threads = 0
<1> DEFINE m == CHOOSE x \in {threads, 1} : \A y \in {threads, 1} : x >= y
<1>2. m \in {threads, 1} /\ \A y \in {threads, 1} : m >= y
  BY <1>1
<1> HIDE DEF m
<1>3. m \in Nat \ {0}
  BY <1>2
<1> QED
  BY <1>3 DEF m, PoolSize, Max

LEMMA JobStarts == Init => JobInv
<1> SUFFICES ASSUME Init PROVE JobInv
  OBVIOUS
<1>1. ParseInv
  BY ParseStarts
<1> QED
  BY <1>1 DEF Init, CliInit, ScanInit, JobInv, Typed, NotYet, Settled, Asked, Opened

(* Whether the job needs pinned memory is settled once the scan is over.   *)
LEMMA PinsSame ==
    ASSUME UNCHANGED <<args, entries, machine>>
    PROVE  PinsMemory' = PinsMemory
<1>1. JobOptions' = JobOptions
  BY DEF JobOptions
<1>2. \A k : BlockCount(k)' = BlockCount(k)
  BY <1>1 DEF BlockCount
<1>3. \A k : ReadsBytes(k)' <=> ReadsBytes(k)
  BY <1>2 DEF ReadsBytes
<1> QED
  BY <1>3 DEF PinsMemory

LEMMA StepPack == JobInv /\ Pack => JobInv'
<1> SUFFICES ASSUME JobInv, Pack PROVE JobInv'
  OBVIOUS
<1>0. ParseInv /\ ParseInv'
  BY StepParse DEF JobInv, Next
<1>1. /\ at = "packing" /\ at' = "exited"
      /\ UNCHANGED <<argv, i, args, scanned, entries, machine, shown, pools, gpu, output, unseen>>
  BY DEF Pack, JobFails, Exit, cliVars, scanVars, walkVars
<1>2. PinsMemory' = PinsMemory
  BY <1>1, PinsSame
<1>3. /\ status' = "Ok" => exit' = 0 /\ (PinsMemory => machine.devices > 0)
      /\ status' = "Cuda" => PinsMemory \/ \E k \in DOMAIN entries : Goes(k) = "Gpu"
      /\ status' # "Ok" => exit' \notin {0, 2}
      /\ status' \in {"none", "Ok", "Cuda"} \cup PackErrors
  BY <1>1 DEF Pack, JobFails, Exit, Aborted, PackErrors, JobInv, NotYet
<1>4. \A k \in DOMAIN entries : Goes(k) = "Gpu" => gpu = "ready"
  BY DEF Goes, Route
<1>5. PinsMemory => machine.cuda
  BY DEF PinsMemory
<1>6. PinsMemory /\ machine.devices > 0 => shown.has_cuda
  <2>1. shown = Capabilities(machine)
    BY <1>1 DEF JobInv, Settled
  <2>2. Capabilities(machine).has_cuda = (machine.cuda /\ machine.devices > 0)
    BY DEF Capabilities
  <2> QED
    BY <1>5, <2>1, <2>2, Zenon
<1>7. Asked'
  BY <1>1, <1>2, <1>3, <1>4, <1>5, <1>6 DEF JobInv, Asked, NotYet, Settled, Opened, PackErrors
<1>8. Typed' /\ NotYet' /\ Settled'
  BY <1>1, <1>3 DEF JobInv, Typed, NotYet, Settled, Opened
<1> QED
  BY <1>0, <1>7, <1>8 DEF JobInv

LEMMA StepJob == JobInv /\ [Next]_vars => JobInv'
<1> SUFFICES ASSUME JobInv, [Next]_vars PROVE JobInv'
  OBVIOUS
<1>0. ParseInv /\ ParseInv'
  BY StepParse DEF JobInv
<1> USE <1>0 DEF JobInv, Typed, NotYet, Settled, Asked, Opened, scanVars, walkVars, jobVars, cliVars, PackErrors
<1>1. ASSUME Parse PROVE JobInv'
  BY <1>1 DEF Parse, CliNext, Dispatch, TakeSwitch, TakeValue, TakeInput, Reject, ParseEnds, Parsing, Exit
<1>2. ASSUME StartEngine PROVE JobInv'
  <2>1. EngineOptions.io_threads \in Nat /\ EngineOptions.cpu_codec_threads \in Nat
    BY CommandLineAssumption DEF EngineOptions, ParseInv, ArgsTyped, PackArgs
  <2>2. /\ PoolSize(EngineOptions.io_threads) \in Nat \ {0}
        /\ PoolSize(EngineOptions.cpu_codec_threads) \in Nat \ {0}
    BY <2>1, PoolSizes
  <2>3. pools' \in [cpu : Nat, io : Nat] /\ pools'.cpu > 0 /\ pools'.io > 0
    BY <1>2, <2>2 DEF StartEngine
  <2> QED
    BY <1>2, <2>3 DEF StartEngine
<1>3. ASSUME StartFails \/ ScanThrew PROVE JobInv'
  BY <1>3 DEF StartFails, ScanThrew, Exit, Aborted
<1>4. ASSUME Scan PROVE JobInv'
  BY <1>4 DEF Scan
<1>5. ASSUME ScanFailed \/ Scanned PROVE JobInv'
  BY <1>5 DEF ScanFailed, Scanned, JobFails, Exit
<1>6. ASSUME MakeCodecs PROVE JobInv'
  BY <1>6, FrontEndAssumption DEF MakeCodecs, JobFails, Exit, GpuWanted, EngineOptions, JobOptions, Capabilities
<1>7. ASSUME OpenOutput PROVE JobInv'
  BY <1>7 DEF OpenOutput, AskOutput, MayOpen, JobOptions
<1>8. ASSUME OpenFails PROVE JobInv'
  BY <1>8 DEF OpenFails, AskOutput, JobFails, Exit
<1>9. ASSUME Done \/ UNCHANGED vars PROVE JobInv'
  <2>1. PinsMemory' = PinsMemory
    BY <1>9, PinsSame DEF Done, vars
  <2> QED
    BY <1>9, <2>1 DEF Done, vars
<1> QED
  BY <1>1, <1>2, <1>3, <1>4, <1>5, <1>6, <1>7, <1>8, <1>9, StepPack DEF Next

THEOREM JobInvariance == Spec => []JobInv
BY JobStarts, StepJob, PTL DEF Spec

-----------------------------------------------------------------------------
(* The variables of the scan keep their types.                             *)

IsSeq(s) == \E S : s \in Seq(S)

LEMMA SeqAppended ==
    ASSUME NEW s, IsSeq(s), NEW e
    PROVE  IsSeq(Append(s, e)) /\ Len(Append(s, e)) = Len(s) + 1 /\ Len(s) \in Nat
<1>1. PICK S : s \in Seq(S)
  BY DEF IsSeq
<1>2. s \in Seq(S \cup {e})
  BY <1>1, SeqMonotonic
<1>3. Append(s, e) \in Seq(S \cup {e}) /\ Len(Append(s, e)) = Len(s) + 1 /\ Len(s) \in Nat
  BY <1>2, AppendProperties, LenProperties
<1> QED
  BY <1>3 DEF IsSeq

Elements(f, A) == {f[x] : x \in A}
Among(f, A, g, B) == \A x \in A : \E y \in B : f[x] = g[y]

LEMMA SameElements ==
    ASSUME NEW f, NEW g, NEW A, NEW B, Among(f, A, g, B), Among(g, B, f, A)
    PROVE  Elements(f, A) = Elements(g, B)
BY DEF Elements, Among

SourcesDiffer(list) == \A j, k \in 1 .. Len(list) : list[j].source = list[k].source => j = k

(* Sorting keeps the entries, and puts no name in front of a smaller one.  *)
LEMMA SortedByName ==
    ASSUME NEW list, IsSeq(list), NEW t \in ByArchivePath(list)
    PROVE  /\ IsSeq(t) /\ Len(t) = Len(list)
           /\ {t[k] : k \in 1 .. Len(list)} = {list[k] : k \in 1 .. Len(list)}
           /\ \A j, k \in 1 .. Len(list) : j < k => ~Precedes(t[k].archive_path, t[j].archive_path)
           /\ SourcesDiffer(list) => SourcesDiffer(t)
<1>1. PICK n \in Nat : n = Len(list) /\ DOMAIN list = 1 .. n
  BY LenProperties DEF IsSeq
<1>2. PICK order \in Bijection(1 .. n, 1 .. n) : t = [k \in 1 .. n |-> list[order[k]]]
  BY <1>1 DEF ByArchivePath
<1>3. \A j, k \in 1 .. n : j < k => ~Precedes(t[k].archive_path, t[j].archive_path)
  BY <1>1 DEF ByArchivePath
<1>4. /\ order \in [1 .. n -> 1 .. n]
      /\ \A j, k \in 1 .. n : order[j] = order[k] => j = k
      /\ \A m \in 1 .. n : \E k \in 1 .. n : order[k] = m
  BY <1>2 DEF Bijection, Injection, Surjection, IsInjective
<1>5. \A k \in 1 .. n : order[k] \in 1 .. n /\ t[k] = list[order[k]]
  BY <1>2, <1>4
<1>6. IsSeq(t) /\ Len(t) = n
  <2> DEFINE T == {t[k] : k \in 1 .. n}
  <2>1. t \in [1 .. n -> T]
    BY <1>2
  <2>2. t \in Seq(T) /\ DOMAIN t = 1 .. n
    BY <1>2, <2>1, SeqDef
  <2>3. Len(t) = n
    <3>1. PICK l \in Nat : l = Len(t) /\ 1 .. l = 1 .. n
      BY <2>2, LenProperties
    <3>2. l \in 1 .. l \/ l = 0
      OBVIOUS
    <3>3. n \in 1 .. n \/ n = 0
      OBVIOUS
    <3> QED
      BY <3>1, <3>2, <3>3
  <2> QED
    BY <2>2, <2>3 DEF IsSeq
<1>7. {t[k] : k \in 1 .. n} = {list[k] : k \in 1 .. n}
  <2>1. Among(t, 1 .. n, list, 1 .. n)
    BY <1>5 DEF Among
  <2>2. Among(list, 1 .. n, t, 1 .. n)
    <3> SUFFICES ASSUME NEW m \in 1 .. n PROVE \E k \in 1 .. n : list[m] = t[k]
      BY DEF Among
    <3>1. PICK k \in 1 .. n : order[k] = m
      BY <1>4
    <3> QED
      BY <1>5, <3>1
  <2>3. Elements(t, 1 .. n) = Elements(list, 1 .. n)
    BY <2>1, <2>2, SameElements
  <2> QED
    BY <2>3, Zenon DEF Elements
<1>8. SourcesDiffer(list) => SourcesDiffer(t)
  <2> SUFFICES ASSUME SourcesDiffer(list), NEW j \in 1 .. n, NEW k \in 1 .. n, t[j].source = t[k].source
               PROVE  j = k
    BY <1>6 DEF SourcesDiffer
  <2>1. order[j] = order[k]
    BY <1>1, <1>5 DEF SourcesDiffer
  <2> QED
    BY <1>4, <2>1
<1> QED
  BY <1>1, <1>3, <1>6, <1>7, <1>8

(* A walk that ends leaves what was listed in front of it. *)
LEMMA SeqResorted ==
    ASSUME NEW s, IsSeq(s), NEW m \in 0 .. Len(s), NEW c \in ByArchivePath(SubSeq(s, m + 1, Len(s)))
    PROVE  LET r == SubSeq(s, 1, m) \o c
           IN  IsSeq(r) /\ m <= Len(r) /\ Len(r) \in Nat
<1>1. PICK S : s \in Seq(S)
  BY DEF IsSeq
<1> DEFINE a == SubSeq(s, 1, m)
           b == SubSeq(s, m + 1, Len(s))
<1>2. Len(s) \in Nat /\ m \in Nat
  BY <1>1, LenProperties
<1>3. a \in Seq(S) /\ Len(a) = m
  BY <1>1, <1>2, SubSeqProperties
<1>4. b \in Seq(S) /\ c \in ByArchivePath(b)
  BY <1>1, <1>2, SubSeqProperties
<1> HIDE DEF a, b
<1>5. PICK T : c \in Seq(T)
  BY <1>4, SortedByName DEF IsSeq
<1>6. a \in Seq(S \cup T) /\ c \in Seq(S \cup T)
  BY <1>3, <1>5, SeqMonotonic
<1>7. a \o c \in Seq(S \cup T) /\ Len(a \o c) = Len(a) + Len(c) /\ Len(c) \in Nat
  BY <1>6, ConcatProperties, LenProperties
<1>8. IsSeq(a \o c) /\ m <= Len(a \o c) /\ Len(a \o c) \in Nat
  BY <1>2, <1>3, <1>7 DEF IsSeq
<1> QED
  BY <1>8 DEF a, b

ScanInv ==
    /\ ScanTypeOK
    /\ IsSeq(entries)
    /\ walk # "none" => input <= Len(inputs)
    /\ at \in {"main", "parsing", "engine"} => walk = "none" /\ input = 1

LEMMA ScanStarts == Init => ScanInv
<1> SUFFICES ASSUME Init PROVE ScanInv
  OBVIOUS
<1>1. <<>> \in Seq(DOMAIN Tree) /\ Len(<<>>) = 0 /\ IsSeq(<<>>)
  BY EmptySeq DEF IsSeq
<1>2. IsSeq(entries) /\ Len(entries) = 0 /\ inputs \in Seq(DOMAIN Tree) /\ Len(inputs) = 0
  BY <1>1 DEF Init, ScanInit
<1>3. /\ recurse \in BOOLEAN /\ input = 1 /\ walk = "none" /\ before = 0 /\ ec \in BOOLEAN
      /\ scanned = "none" /\ faults = 0 /\ reached \in Seq(Nat)
  BY <1>1, EmptySeq DEF Init, ScanInit
<1>4. MaxFaults \in Nat
  BY FileScannerAssumption
<1>5. ScanTypeOK
  BY <1>2, <1>3, <1>4 DEF ScanTypeOK
<1> QED
  BY <1>2, <1>3, <1>5 DEF ScanInv

LEMMA StepScan ==
    ASSUME ScanInv, ScanNext, at \notin {"main", "parsing", "engine"}, at' = at
    PROVE  ScanInv'
<1> USE FileScannerAssumption DEF ScanInv, ScanTypeOK, Fail, Count, AtInput, At, Passed
<1>1. Len(entries) \in Nat /\ Len(inputs) \in Nat
  BY LenProperties DEF IsSeq
<1>2. ASSUME NotFound \/ NotSupported PROVE ScanInv'
  BY <1>2 DEF NotFound, NotSupported
<1>3. ASSUME ScanFile PROVE ScanInv'
  <2>1. \A e : IsSeq(Append(entries, e)) /\ Len(Append(entries, e)) = Len(entries) + 1
    BY SeqAppended
  <2>2. IsSeq(entries') /\ Len(entries') \in {Len(entries), Len(entries) + 1}
    BY <1>3, <2>1 DEF ScanFile
  <2>3. input' \in {input, input + 1} /\ UNCHANGED <<inputs, recurse, walk, left, reached, before>> /\ walk = "none"
    BY <1>3 DEF ScanFile
  <2>4. ec' \in BOOLEAN /\ scanned' \in {scanned, "Io"} /\ faults' \in 0 .. MaxFaults /\ input <= Len(inputs)
    BY <1>3 DEF ScanFile
  <2> QED
    BY <1>1, <2>2, <2>3, <2>4
<1>4. ASSUME WalkStarts \/ WalkDenied PROVE ScanInv'
  <2>1. ASSUME NEW n \in {0, 1}, Fail(n) PROVE faults' \in 0 .. MaxFaults
    BY <2>1
  <2>2. ec' \in BOOLEAN /\ faults' \in 0 .. MaxFaults
    <3>1. CASE WalkStarts
      BY <2>1, <3>1 DEF WalkStarts
    <3>2. CASE WalkDenied
      BY <2>1, <3>2 DEF WalkDenied
    <3> QED
      BY <1>4, <3>1, <3>2
  <2>3. /\ walk' = "step" /\ left' \in {InWalk, {}} /\ before' = Len(entries) /\ input <= Len(inputs)
        /\ UNCHANGED <<inputs, recurse, input, reached, entries, scanned>>
    BY <1>4 DEF WalkStarts, WalkDenied, ghostVars
  <2>4. left' \subseteq Tree[inputs[input]].under
    BY <2>3 DEF InWalk, Here
  <2> QED
    BY <1>1, <2>2, <2>3, <2>4
<1>5. ASSUME Increment \/ SkipDirectory \/ WalkFails PROVE ScanInv'
  <2>1. ec' \in BOOLEAN /\ faults' \in 0 .. MaxFaults
    <3>1. CASE Increment
      BY <3>1 DEF Increment
    <3>2. CASE SkipDirectory
      <4>1. faults' = faults + 1 /\ faults + 1 <= MaxFaults
        BY <3>2 DEF SkipDirectory
      <4>2. faults' \in 0 .. MaxFaults
        BY <4>1
      <4>3. ec' \in BOOLEAN
        BY <3>2 DEF SkipDirectory
      <4> QED
        BY <4>2, <4>3
    <3>3. CASE WalkFails
      BY <3>3 DEF WalkFails
    <3> QED
      BY <1>5, <3>1, <3>2, <3>3
  <2>2. /\ walk # "none" /\ walk' = "step" /\ left' \subseteq left /\ scanned' \in {scanned, "Io"}
        /\ UNCHANGED <<inputs, recurse, input, reached, before, entries>>
    BY <1>5 DEF Increment, SkipDirectory, WalkFails, ghostVars
  <2> QED
    BY <2>1, <2>2
<1>6. ASSUME WalkEnds PROVE ScanInv'
  <2>1. PICK c \in ByArchivePath(SubSeq(entries, before + 1, Len(entries))) :
           entries' = SubSeq(entries, 1, before) \o c
    BY <1>6 DEF WalkEnds
  <2>2. IsSeq(entries') /\ before <= Len(entries') /\ Len(entries') \in Nat
    BY <1>1, <2>1, SeqResorted
  <2> QED
    BY <1>1, <1>6, <2>2 DEF WalkEnds
<1>7. ASSUME NEW e \in left, At(e), walk # "none" PROVE e.path \in Seq(Nat) /\ e.regular \in BOOLEAN
  <2>1. inputs[input] \in DOMAIN Tree
    BY <1>1, <1>7
  <2> QED
    BY <1>7, <2>1 DEF Hierarchy, TreeEntries
<1>8. ASSUME NEW e \in left, HandleEntry(e) PROVE ScanInv'
  <2>1. \A x : IsSeq(Append(entries, x)) /\ Len(Append(entries, x)) = Len(entries) + 1
    BY SeqAppended
  <2>2. walk = "step" /\ reached' \in Seq(Nat)
    BY <1>7, <1>8 DEF HandleEntry
  <2> QED
    BY <1>1, <1>8, <2>1, <2>2 DEF HandleEntry
<1>9. ASSUME NEW e \in left, PassOver(e) PROVE ScanInv'
  <2>1. walk = "step" /\ reached' \in Seq(Nat) /\ e.regular \in BOOLEAN
    BY <1>7, <1>9 DEF PassOver
  <2> QED
    BY <1>9, <2>1 DEF PassOver
<1>10. ASSUME NEW e \in left, RelativeThrows(e) PROVE ScanInv'
  BY <1>10 DEF RelativeThrows
<1>11. ASSUME ScanEnds PROVE ScanInv'
  BY <1>11 DEF ScanEnds
<1> QED
  BY <1>2, <1>3, <1>4, <1>5, <1>6, <1>8, <1>9, <1>10, <1>11 DEF ScanNext

LEMMA StepTyped == JobInv /\ ScanInv /\ [Next]_vars => ScanInv'
<1> SUFFICES ASSUME JobInv, ScanInv, [Next]_vars PROVE ScanInv'
  OBVIOUS
<1>1. CASE Scan
  BY <1>1, StepScan DEF Scan
<1>2. CASE StartEngine
  <2>1. inputs' \in Seq(DOMAIN Tree) /\ recurse' \in BOOLEAN
    <3>1. args.inputs \in Seq(Paths) /\ args.recurse \in BOOLEAN
      BY DEF JobInv, ParseInv, ArgsTyped, PackArgs
    <3>2. args.inputs \in Seq(DOMAIN Tree)
      BY <3>1, FrontEndAssumption, SeqMonotonic
    <3> QED
      BY <1>2, <3>1, <3>2 DEF StartEngine, JobOptions
  <2>2. Len(inputs') \in Nat
    BY <2>1, LenProperties
  <2> QED
    BY <1>2, <2>1, <2>2 DEF StartEngine, ScanInv, ScanTypeOK
<1>3. CASE UNCHANGED scanVars /\ (at' \in {"main", "parsing", "engine"} => at \in {"main", "parsing", "engine"})
  BY <1>3 DEF scanVars, walkVars, ScanInv, ScanTypeOK
<1>4. CASE Parse
  BY <1>3, <1>4 DEF Parse, CliNext, Dispatch, TakeSwitch, TakeValue, TakeInput, Reject, ParseEnds, Parsing, Exit
<1>5. CASE StartFails \/ ScanFailed \/ ScanThrew \/ Scanned \/ MakeCodecs
  BY <1>3, <1>5 DEF StartFails, ScanFailed, ScanThrew, Scanned, MakeCodecs, JobFails, Exit
<1>6. CASE Pack \/ Done \/ UNCHANGED vars
  BY <1>3, <1>6 DEF Pack, Done, vars, JobFails, Exit
<1>7. CASE OpenOutput \/ OpenFails
  <2>1. faults' \in 0 .. MaxFaults
    BY <1>7, FileScannerAssumption DEF OpenOutput, OpenFails, AskOutput, Fail, Count, ScanInv, ScanTypeOK
  <2> QED
    BY <1>7, <2>1 DEF OpenOutput, OpenFails, JobFails, Exit, walkVars, ScanInv, ScanTypeOK
<1> QED
  BY <1>1, <1>2, <1>4, <1>5, <1>6, <1>7 DEF Next

LEMMA TypesTold == JobInv /\ ScanInv => TypeOK
<1> SUFFICES ASSUME JobInv, ScanInv PROVE TypeOK
  OBVIOUS
<1>1. args \in PackArgs
  BY DEF JobInv, ParseInv, ArgsTyped
<1>2. CliTypeOK
  BY <1>1 DEF JobInv, ParseInv, ArgsTyped, CliTypeOK, PackArgs
<1> QED
  BY <1>2 DEF JobInv, ParseInv, ArgsTyped, Stages, Typed, ScanInv, TypeOK

(* Every variable of a pack, from the command line to the exit code, keeps *)
(* its type; the sizes fit in size_t.                                      *)
THEOREM FrontEndTypeCorrect == Spec => []TypeOK
<1>1. Spec => []ScanInv
  BY JobInvariance, ScanStarts, StepTyped, PTL DEF Spec
<1> QED
  BY <1>1, JobInvariance, TypesTold, PTL

-----------------------------------------------------------------------------
(* What the scan has listed.                                               *)

(* A query that fails marks what the loop has been at.                     *)
MarkedBehind ==
    \A mark \in dropped \cup misread :
        \/ mark[1] \in 1 .. input - 1
        \/ mark[1] = input /\ walk # "none" /\ \E e \in InWalk \ left : mark[2] = e.path

SkippedBehind ==
    \A mark \in skipped :
        \/ mark[1] \in 1 .. input - 1
        \/ mark[1] = input /\ walk # "none"

(* A walk has been at a directory before what is in it, so it may still    *)
(* pass over all of that when it is there.                                 *)
Ahead ==
    /\ \A e \in left : ~Closed(input, e.path)
    /\ \A d \in left : \A e \in InWalk : Inside(e.path, d.path) => e \in left
    /\ walk = "increment" =>
          /\ \E e \in InWalk \ left : e.path = reached
          /\ \A e \in InWalk : Inside(e.path, reached) => e \in left

(* The entries behind the n-th are the files the iterator has passed, each *)
(* of a path of its own.                                                   *)
PassedBehind(n) ==
    /\ {entries[k] : k \in n + 1 .. Len(entries)} = {EntryOf(input, e) : e \in Found(input) \ left}
    /\ \A j, k \in n + 1 .. Len(entries) : entries[j].source = entries[k].source => j = k

Walked == left \subseteq InWalk /\ Here.kind # "file" /\ PassedBehind(before) /\ Ahead

ListInv ==
    /\ MarkedBehind /\ SkippedBehind
    /\ walk # "none" => Walked
    /\ ListsInputs(input - 1, IF walk = "none" THEN Len(entries) ELSE before)
    /\ at \in {"main", "parsing", "engine"} =>
          input = 1 /\ entries = <<>> /\ scanned = "none" /\ ghostVars = <<{}, {}, {}>>
    /\ scanned = "Ok" => input = Len(inputs) + 1 /\ walk = "none"

(* The first inputs stay listed. *)
LEMMA ListedStay ==
    ASSUME NEW k \in Nat, NEW n \in Nat, ListsInputs(k, n),
           \A j \in 1 .. k : Listing(j)' = Listing(j),
           \A x \in 1 .. n : entries'[x] = entries[x]
    PROVE  ListsInputs(k, n)'
<1>1. PICK cut \in [0 .. k -> 0 .. n] :
        /\ cut[0] = 0 /\ cut[k] = n
        /\ \A j \in 1 .. k : cut[j - 1] <= cut[j] /\ ListsByName(cut[j - 1], cut[j], Listing(j))
  BY DEF ListsInputs
<1>2. ASSUME NEW j \in 1 .. k
      PROVE  ListsByName(cut[j - 1], cut[j], Listing(j))'
  <2>1. PICK a \in 0 .. n, b \in 0 .. n : a = cut[j - 1] /\ b = cut[j]
    <3>1. j - 1 \in 0 .. k /\ j \in 0 .. k
      OBVIOUS
    <3> QED
      BY <3>1
  <2>2. ListsByName(a, b, Listing(j))
    BY <1>1, <2>1
  <2>3. \A x \in a + 1 .. b : entries'[x] = entries[x]
    <3>1. \A x \in a + 1 .. b : x \in 1 .. n
      OBVIOUS
    <3> QED
      BY <3>1
  <2>4. ListsByName(a, b, Listing(j))'
    BY <2>2, <2>3 DEF ListsByName
  <2> QED
    BY <2>1, <2>4
<1> QED
  BY <1>1, <1>2 DEF ListsInputs

(* One input more is listed. *)
LEMMA OneMoreListed ==
    ASSUME NEW k \in Nat, NEW n \in Nat, NEW m \in Nat, n <= m,
           ListsInputs(k, n)', ListsByName(n, m, Listing(k + 1))'
    PROVE  ListsInputs(k + 1, m)'
<1>1. PICK cut \in [0 .. k -> 0 .. n] :
        /\ cut[0] = 0 /\ cut[k] = n
        /\ \A j \in 1 .. k : cut[j - 1] <= cut[j] /\ ListsByName(cut[j - 1], cut[j], Listing(j))'
  BY DEF ListsInputs
<1> DEFINE more == [j \in 0 .. k + 1 |-> IF j = k + 1 THEN m ELSE cut[j]]
<1>2. more \in [0 .. k + 1 -> 0 .. m]
  <2> SUFFICES ASSUME NEW j \in 0 .. k + 1, j # k + 1 PROVE cut[j] \in 0 .. m
    OBVIOUS
  <2>1. j \in 0 .. k
    OBVIOUS
  <2>2. cut[j] \in 0 .. n
    BY <2>1
  <2> QED
    BY <2>2
<1>3. more[k + 1] = m /\ \A j \in 0 .. k : more[j] = cut[j]
  OBVIOUS
<1> HIDE DEF more
<1>4. ASSUME NEW j \in 1 .. k + 1
      PROVE  more[j - 1] <= more[j] /\ ListsByName(more[j - 1], more[j], Listing(j))'
  <2>1. CASE j = k + 1
    <3>1. j - 1 = k /\ k \in 0 .. k
      BY <2>1
    <3>2. more[j - 1] = n /\ more[j] = m
      BY <1>1, <1>3, <2>1, <3>1
    <3> QED
      BY <2>1, <3>2
  <2>2. CASE j # k + 1
    <3>1. j \in 1 .. k /\ j \in 0 .. k /\ j - 1 \in 0 .. k
      BY <2>2
    <3>2. more[j - 1] = cut[j - 1] /\ more[j] = cut[j]
      BY <1>3, <3>1
    <3> QED
      BY <1>1, <3>1, <3>2
  <2> QED
    BY <2>1, <2>2
<1>5. more[0] = 0
  BY <1>1, <1>3
<1> QED
  BY <1>2, <1>3, <1>4, <1>5 DEF ListsInputs

(* What is marked of one input says nothing of another. *)
SameMarks(k) ==
    \A path : /\ <<k, path>> \in dropped' <=> <<k, path>> \in dropped
              /\ <<k, path>> \in misread' <=> <<k, path>> \in misread
              /\ Closed(k, path)' <=> Closed(k, path)

LEMMA ListingStays ==
    ASSUME NEW k, UNCHANGED <<inputs, recurse>>, SameMarks(k)
    PROVE  Listing(k)' = Listing(k) /\ Found(k)' = Found(k) /\ \A e : EntryOf(k, e)' = EntryOf(k, e)
<1>1. Found(k)' = Found(k)
  BY DEF Found, SameMarks
<1>2. \A e : EntryOf(k, e)' = EntryOf(k, e)
  BY DEF EntryOf, SizeOf, SameMarks
<1>3. \A path, size : SizeOf(k, path, size)' = SizeOf(k, path, size)
  BY DEF SizeOf, SameMarks
<1> QED
  BY <1>1, <1>2, <1>3 DEF Listing

(* A step that marks nothing of the inputs behind leaves what is listed. *)
LEMMA InputsStay ==
    ASSUME NEW k \in Nat, NEW n \in Nat, ListsInputs(k, n), UNCHANGED <<inputs, recurse>>,
           \A j \in 1 .. k : SameMarks(j),
           \A x \in 1 .. n : entries'[x] = entries[x]
    PROVE  ListsInputs(k, n)'
<1>1. \A j \in 1 .. k : Listing(j)' = Listing(j)
  BY ListingStays
<1> QED
  BY <1>1, ListedStay

(* Where the loop is. *)
LEMMA InputIs ==
    ASSUME ScanInv, input <= Len(inputs)
    PROVE  /\ inputs[input] \in DOMAIN Tree
           /\ Hierarchy(Here.path, Here.under)
           /\ \A e \in InWalk : e \in Here.under
<1>1. Len(inputs) \in Nat /\ input \in 1 .. Len(inputs)
  BY LenProperties DEF ScanInv, ScanTypeOK
<1>2. inputs[input] \in DOMAIN Tree
  BY <1>1, ElementOfSeq DEF ScanInv, ScanTypeOK
<1> QED
  BY <1>2, FileScannerAssumption DEF Here, InWalk

LEMMA ListStarts == Init => ListInv
<1> SUFFICES ASSUME Init PROVE ListInv
  OBVIOUS
<1>1. /\ input = 1 /\ entries = <<>> /\ scanned = "none" /\ walk = "none"
      /\ dropped = {} /\ skipped = {} /\ misread = {}
  BY DEF Init, ScanInit
<1>2. ListsInputs(0, 0)
  <2> DEFINE cut == [j \in 0 .. 0 |-> 0]
  <2>1. cut \in [0 .. 0 -> 0 .. 0] /\ cut[0] = 0
    OBVIOUS
  <2>2. \A j \in 1 .. 0 : FALSE
    OBVIOUS
  <2> HIDE DEF cut
  <2> QED
    BY <2>1, <2>2 DEF ListsInputs
<1>3. Len(entries) = 0 /\ input - 1 = 0
  BY <1>1, EmptySeq
<1> QED
  BY <1>1, <1>2, <1>3 DEF ListInv, MarkedBehind, SkippedBehind, ghostVars

(* A step that leaves the list and the marks. *)
LEMMA ListUntouched ==
    ASSUME ListInv, UNCHANGED <<inputs, recurse, input, left, reached, before, entries, ghostVars>>,
           walk' # "none" <=> walk # "none", walk' = "increment" => walk = "increment",
           at' \in {"main", "parsing", "engine"} => at \in {"main", "parsing", "engine"} /\ scanned' = scanned,
           scanned' = "Ok" => scanned = "Ok" \/ (input = Len(inputs) + 1 /\ walk = "none")
    PROVE  ListInv'
<1>1. InWalk' = InWalk /\ Here' = Here
  BY DEF InWalk, Here
<1>2. dropped' = dropped /\ skipped' = skipped /\ misread' = misread
  BY DEF ghostVars
<1>3. MarkedBehind' /\ SkippedBehind'
  BY <1>1, <1>2 DEF ListInv, MarkedBehind, SkippedBehind
<1>4. \A k : SameMarks(k)
  BY <1>2 DEF SameMarks, Closed
<1>5. \A j : Listing(j)' = Listing(j)
  BY <1>4, ListingStays
<1>6. Found(input)' = Found(input) /\ \A e : EntryOf(input, e)' = EntryOf(input, e)
  BY <1>4, ListingStays
<1>7. walk' # "none" => Walked'
  <2>1. PassedBehind(before) => PassedBehind(before)'
    <3>1. {EntryOf(input, e) : e \in Found(input) \ left}' = {EntryOf(input, e) : e \in Found(input) \ left}
      BY <1>6
    <3> QED
      BY <3>1 DEF PassedBehind
  <2>2. walk # "none" /\ Ahead => Ahead'
    BY <1>1, <1>4 DEF Ahead, SameMarks
  <2> QED
    BY <1>1, <2>1, <2>2 DEF ListInv, Walked
<1>8. \A k, n : ListsInputs(k, n)' <=> ListsInputs(k, n)
  BY <1>5 DEF ListsInputs, ListsByName
<1> QED
  BY <1>3, <1>7, <1>8 DEF ListInv, ghostVars

LEMMA AppendedIs ==
    ASSUME NEW s, IsSeq(s), NEW e
    PROVE  LET t == Append(s, e)
           IN  /\ Len(s) \in Nat /\ Len(t) = Len(s) + 1 /\ t[Len(s) + 1] = e
               /\ \A k \in 1 .. Len(s) : t[k] = s[k]
<1>1. PICK S : s \in Seq(S)
  BY DEF IsSeq
<1>2. s \in Seq(S \cup {e})
  BY <1>1, SeqMonotonic
<1>3. /\ Len(Append(s, e)) = Len(s) + 1 /\ Append(s, e)[Len(s) + 1] = e
      /\ \A k \in 1 .. Len(s) : Append(s, e)[k] = s[k]
  BY <1>2, AppendProperties
<1>4. Len(s) \in Nat
  BY <1>1, LenProperties
<1> QED
  BY <1>3, <1>4

(* Marks of this input say nothing of those in front of it. *)
Marks(path) ==
    /\ dropped' = dropped \/ dropped' = dropped \cup {<<input, path>>}
    /\ skipped' = skipped \/ skipped' = skipped \cup {<<input, path>>}
    /\ misread' = misread \/ misread' = misread \cup {<<input, path>>}

LEMMA EarlierUnmarked ==
    ASSUME input \in Nat, NEW mark, Marks(mark)
    PROVE  \A j \in 1 .. input - 1 : SameMarks(j)
<1> SUFFICES ASSUME NEW j \in 1 .. input - 1 PROVE SameMarks(j)
  OBVIOUS
<1>1. j # input
  OBVIOUS
<1>2. \A path : <<j, path>> # <<input, mark>>
  BY <1>1
<1>3. <<input, mark>>[1] # j
  BY <1>1
<1>4. \A s \in skipped' : s[1] = j => s \in skipped
  BY <1>3 DEF Marks
<1>5. \A path : Closed(j, path)' <=> Closed(j, path)
  BY <1>4 DEF Marks, Closed
<1> QED
  BY <1>2, <1>5 DEF SameMarks, Marks

LEMMA StepFile ==
    ASSUME ScanInv, ListInv, ScanFile, at \notin {"main", "parsing", "engine"}, at' = at
    PROVE  ListInv'
<1>1. input <= Len(inputs) /\ Here.kind = "file" /\ walk = "none" /\ scanned = "none" /\ walk' = "none"
      /\ UNCHANGED <<inputs, recurse, left, reached, before, dropped, skipped>>
  BY DEF ScanFile, AtInput
<1>2. PICK noSize \in BOOLEAN, noTime \in BOOLEAN :
        IF noTime THEN scanned' = "Io" /\ UNCHANGED <<input, entries, misread>>
        ELSE /\ entries' = Append(entries, FileEntry(Here.path, <<Last(Here.path)>>,
                                                     IF noSize THEN BadSize ELSE Here.size))
             /\ misread' = IF noSize THEN misread \cup {<<input, Here.path>>} ELSE misread
             /\ input' = input + 1
             /\ UNCHANGED scanned
  BY DEF ScanFile
<1>3. CASE noTime
  BY <1>1, <1>2, <1>3, ListUntouched DEF ghostVars
<1>4. CASE ~noTime
  <2>1. PICK k \in Nat : k = input - 1 /\ input = k + 1 /\ input \in Nat
    BY DEF ScanInv, ScanTypeOK
  <2>2. PICK n \in Nat : n = Len(entries)
    BY LenProperties DEF ScanInv, IsSeq
  <2> DEFINE new == FileEntry(Here.path, <<Last(Here.path)>>, IF noSize THEN BadSize ELSE Here.size)
  <2>3. entries' = Append(entries, new)
    BY <1>2, <1>4
  <2>4. Len(entries') = n + 1 /\ entries'[n + 1] = new /\ \A x \in 1 .. n : entries'[x] = entries[x]
    <3> HIDE DEF new
    <3> QED
      BY <2>2, <2>3, AppendedIs DEF ScanInv
  <2>5. misread' = misread \/ misread' = misread \cup {<<input, Here.path>>}
    BY <1>2, <1>4
  <2>6. ListsInputs(k, n)
    BY <1>1, <2>1, <2>2 DEF ListInv
  <2>7. \A j \in 1 .. k : SameMarks(j)
    BY <1>1, <2>1, <2>5, EarlierUnmarked DEF Marks
  <2>8. ListsInputs(k, n)'
    BY <1>1, <2>4, <2>6, <2>7, InputsStay
  <2>9. <<input, Here.path>> \notin misread
    <3> SUFFICES ASSUME <<input, Here.path>> \in misread PROVE FALSE
      OBVIOUS
    <3>1. <<input, Here.path>>[1] \in 1 .. input - 1
      BY <1>1 DEF ListInv, MarkedBehind
    <3> QED
      BY <2>1, <3>1
  <2>10. Listing(k + 1)' = {new}
    <3>1. (<<input, Here.path>> \in misread') <=> noSize
      BY <1>2, <1>4, <2>9
    <3> QED
      BY <1>1, <2>1, <3>1 DEF Listing, SizeOf, Here
  <2>11. ListsByName(n, n + 1, Listing(k + 1))'
    <3> HIDE DEF new
    <3>1. \A x \in n + 1 .. n + 1 : x = n + 1
      OBVIOUS
    <3>2. n + 1 \in n + 1 .. n + 1
      OBVIOUS
    <3>3. {entries'[x] : x \in n + 1 .. n + 1} = {new}
      BY <2>4, <3>1, <3>2
    <3>4. \A i1, j \in n + 1 .. n + 1 : ~(i1 < j)
      OBVIOUS
    <3> QED
      BY <2>10, <3>3, <3>4 DEF ListsByName
  <2>12. ListsInputs(k + 1, n + 1)'
    BY <2>8, <2>11, OneMoreListed
  <2>13. input' = k + 2 /\ input' - 1 = k + 1 /\ Len(entries)' = n + 1
    BY <1>2, <1>4, <2>1, <2>4
  <2>14. MarkedBehind'
    <3> SUFFICES ASSUME NEW mark \in dropped' \cup misread' PROVE mark[1] \in 1 .. input' - 1
      BY DEF MarkedBehind
    <3>1. CASE mark \in dropped \cup misread
      <4>1. mark[1] \in 1 .. input - 1
        BY <1>1, <3>1 DEF ListInv, MarkedBehind
      <4> QED
        BY <2>1, <2>13, <4>1
    <3>2. CASE mark = <<input, Here.path>>
      BY <2>1, <2>13, <3>2
    <3> QED
      BY <1>1, <2>5, <3>1, <3>2
  <2>15. SkippedBehind'
    <3>1. \A mark \in skipped : mark[1] \in 1 .. input - 1
      BY <1>1 DEF ListInv, SkippedBehind
    <3> QED
      BY <1>1, <2>1, <2>13, <3>1 DEF SkippedBehind
  <2>16. ListsInputs(input - 1, Len(entries))'
    BY <2>12, <2>13
  <2> QED
    BY <1>1, <1>2, <1>4, <2>14, <2>15, <2>16 DEF ListInv
<1> QED
  BY <1>3, <1>4

(* Nothing of an input is marked in front of its walk. *)
LEMMA StepWalkStarts ==
    ASSUME ScanInv, ListInv, WalkStarts \/ WalkDenied, at \notin {"main", "parsing", "engine"}, at' = at
    PROVE  ListInv'
<1>1. /\ Here.kind = "dir" /\ walk = "none" /\ walk' = "step" /\ scanned = "none" /\ input <= Len(inputs)
      /\ before' = Len(entries)
      /\ UNCHANGED <<inputs, recurse, input, reached, entries, scanned, dropped, misread>>
  BY DEF WalkStarts, WalkDenied, AtInput, ghostVars
<1>2. PICK n \in Nat : n = Len(entries)
  BY LenProperties DEF ScanInv, IsSeq
<1>3. InWalk' = InWalk /\ Here' = Here /\ InWalk \subseteq Here.under /\ Hierarchy(Here.path, Here.under)
  BY <1>1, InputIs DEF InWalk, Here
<1>4. PICK k \in Nat : k = input - 1 /\ input = k + 1 /\ input \in Nat
  BY DEF ScanInv, ScanTypeOK
<1>5. skipped' = skipped \/ skipped' = skipped \cup {<<input, Here.path>>}
  BY DEF WalkStarts, WalkDenied, ghostVars
<1>6. MarkedBehind' /\ SkippedBehind'
  BY <1>1, <1>5 DEF ListInv, MarkedBehind, SkippedBehind
<1>7. \/ left' = InWalk /\ skipped' = skipped
      \/ left' = {} /\ skipped' = skipped \cup {<<input, Here.path>>}
  BY DEF WalkStarts, WalkDenied, ghostVars
<1>8. Found(input)' \ left' = {}
  <2>1. CASE left' = InWalk
    BY <1>1, <1>3, <2>1 DEF Found, InWalk, Here
  <2>2. CASE skipped' = skipped \cup {<<input, Here.path>>}
    <3>1. \A e \in Here.under : Inside(e.path, Here.path)
      BY <1>3 DEF Hierarchy
    <3>2. <<input, Here.path>> \in skipped' /\ <<input, Here.path>>[1] = input /\ <<input, Here.path>>[2] = Here.path
      BY <2>2
    <3>3. \A e \in Here.under : Closed(input, e.path)'
      BY <1>1, <3>1, <3>2 DEF Closed
    <3> QED
      BY <1>1, <3>3 DEF Found, Here
  <2> QED
    BY <1>7, <2>1, <2>2
<1>9. PassedBehind(before)'
  <2>1. before' = n /\ Len(entries)' = n
    BY <1>1, <1>2
  <2>2. \A x \in n + 1 .. n : FALSE
    OBVIOUS
  <2> QED
    BY <1>8, <2>1, <2>2 DEF PassedBehind
<1>10. Ahead'
  <2>1. CASE left' = {}
    BY <1>1, <2>1 DEF Ahead
  <2>2. CASE left' = InWalk /\ skipped' = skipped
    <3>1. \A mark \in skipped : mark[1] # input
      BY <1>1, <1>4 DEF ListInv, SkippedBehind
    <3>2. \A path : ~Closed(input, path)'
      BY <1>1, <2>2, <3>1 DEF Closed
    <3> QED
      BY <1>1, <1>3, <2>2, <3>2 DEF Ahead
  <2> QED
    BY <1>7, <2>1, <2>2
<1>11. ListsInputs(k, n)'
  <2>1. \A j \in 1 .. k : SameMarks(j)
    BY <1>1, <1>4, <1>5, EarlierUnmarked DEF Marks
  <2>2. ListsInputs(k, n)
    BY <1>1, <1>2, <1>4 DEF ListInv
  <2> QED
    BY <1>1, <2>1, <2>2, InputsStay
<1>12. ListsInputs(input - 1, before)'
  BY <1>1, <1>2, <1>4, <1>11
<1>13. left' \subseteq InWalk'
  BY <1>3, <1>7
<1> QED
  BY <1>1, <1>3, <1>6, <1>9, <1>10, <1>12, <1>13 DEF ListInv, Walked

(* Where the walk is, and what a step marks. *)
LEMMA InWalkIs ==
    ASSUME ScanInv, ListInv, walk # "none"
    PROVE  /\ Hierarchy(Here.path, Here.under) /\ InWalk \subseteq Here.under /\ left \subseteq InWalk
           /\ Found(input) \subseteq InWalk
           /\ \A e, f \in InWalk : e.path = f.path => e = f
           /\ \A e \in left : /\ <<input, e.path>> \notin dropped /\ <<input, e.path>> \notin misread
                              /\ ~Closed(input, e.path)
<1>1. Hierarchy(Here.path, Here.under) /\ InWalk \subseteq Here.under
  BY InputIs DEF ScanInv
<1>2. left \subseteq InWalk /\ \A e \in left : ~Closed(input, e.path)
  BY DEF ListInv, Walked, Ahead
<1>3. Found(input) \subseteq InWalk
  BY DEF Found, InWalk, Here
<1>4. \A e, f \in InWalk : e.path = f.path => e = f
  BY <1>1 DEF Hierarchy
<1>5. ASSUME NEW e \in left PROVE <<input, e.path>> \notin dropped \cup misread
  <2> SUFFICES ASSUME <<input, e.path>> \in dropped \cup misread PROVE FALSE
    OBVIOUS
  <2>1. PICK mark \in dropped \cup misread : mark[1] = input /\ mark[2] = e.path
    OBVIOUS
  <2>2. input \notin 1 .. input - 1
    BY DEF ScanInv, ScanTypeOK
  <2>3. PICK f \in InWalk \ left : mark[2] = f.path
    BY <2>1, <2>2 DEF ListInv, MarkedBehind
  <2>4. e = f
    BY <1>2, <1>4, <2>1, <2>3
  <2> QED
    BY <2>3, <2>4
<1> QED
  BY <1>1, <1>2, <1>3, <1>4, <1>5

LEMMA InsideIs ==
    ASSUME NEW e, NEW root, NEW under, Hierarchy(root, under), e \in under
    PROVE  e.path \in Seq(Nat) /\ Len(e.path) \in Nat /\ DOMAIN e.path = 1 .. Len(e.path)
<1>1. e.path \in Seq(Nat)
  BY DEF Hierarchy, TreeEntries
<1> QED
  BY <1>1, LenProperties

(* Two directories on the way to one path are one, or one is in the other. *)
LEMMA OneWay ==
    ASSUME NEW p, NEW c \in Seq(Nat), NEW d \in Seq(Nat), Inside(p, c), Inside(p, d)
    PROVE  c = d \/ Inside(c, d) \/ Inside(d, c)
<1>1. PICK m \in Nat, n \in Nat : m = Len(c) /\ n = Len(d) /\ DOMAIN c = 1 .. m /\ DOMAIN d = 1 .. n
  BY LenProperties
<1>2. (\A k \in 1 .. m : p[k] = c[k]) /\ (\A k \in 1 .. n : p[k] = d[k])
  BY <1>1 DEF Inside
<1>3. CASE m < n
  <2>1. \A k \in 1 .. m : k \in 1 .. n
    BY <1>3
  <2> QED
    BY <1>1, <1>2, <1>3, <2>1 DEF Inside
<1>4. CASE n < m
  <2>1. \A k \in 1 .. n : k \in 1 .. m
    BY <1>4
  <2> QED
    BY <1>1, <1>2, <1>4, <2>1 DEF Inside
<1>5. CASE m = n
  <2>1. \A k \in 1 .. m : c[k] = d[k]
    BY <1>2, <1>5
  <2> QED
    BY <1>1, <1>5, <2>1, SeqEqual
<1> QED
  BY <1>3, <1>4, <1>5

(* The entry the walk is at is reached and marked. *)
LEMMA MarkedPassed ==
    ASSUME ScanInv, ListInv, walk # "none", walk' # "none", NEW e \in left, left' = left \ {e},
           UNCHANGED <<inputs, recurse, input, skipped>>, Marks(e.path)
    PROVE  MarkedBehind' /\ SkippedBehind'
<1>1. InWalk' = InWalk
  BY DEF InWalk, Here
<1>2. e \in InWalk
  BY InWalkIs
<1>3. SkippedBehind'
  BY DEF ListInv, SkippedBehind
<1> SUFFICES ASSUME NEW mark \in dropped' \cup misread'
             PROVE  \/ mark[1] \in 1 .. input - 1
                    \/ mark[1] = input /\ \E f \in InWalk \ left' : mark[2] = f.path
  BY <1>1, <1>3 DEF MarkedBehind
<1>4. CASE mark \in dropped \cup misread
  BY <1>4 DEF ListInv, MarkedBehind
<1>5. CASE mark = <<input, e.path>>
  BY <1>2, <1>5
<1> QED
  BY <1>4, <1>5 DEF Marks

(* What is in the entry the walk is at comes after it. *)
LEMMA AheadPassed ==
    ASSUME ScanInv, ListInv, NEW e \in left, At(e), Passed(e), UNCHANGED <<inputs, recurse, input, skipped>>
    PROVE  Ahead'
<1>1. InWalk' = InWalk /\ walk = "step" /\ left' = left \ {e} /\ reached' = e.path
  BY DEF InWalk, Here, At, Passed
<1>2. Ahead /\ left \subseteq InWalk
  BY <1>1 DEF ListInv, Walked
<1>3. \A path : Closed(input, path)' <=> Closed(input, path)
  BY DEF Closed
<1>4. \A f \in left' : ~Closed(input, f.path)'
  BY <1>1, <1>2, <1>3 DEF Ahead
<1>5. ~Inside(e.path, e.path)
  BY DEF At
<1>6. \A d \in left' : \A f \in InWalk : Inside(f.path, d.path) => f \in left'
  BY <1>1, <1>2 DEF Ahead, At
<1>7. \A f \in InWalk : Inside(f.path, reached') => f \in left'
  BY <1>1, <1>2, <1>5 DEF Ahead
<1> QED
  BY <1>1, <1>2, <1>4, <1>6, <1>7 DEF Ahead

(* What is listed in front of the walk stays. *)
LEMMA FrontStays ==
    ASSUME ScanInv, ListInv, walk # "none", NEW mark, UNCHANGED <<inputs, recurse>>, Marks(mark),
           \A x \in 1 .. before : entries'[x] = entries[x]
    PROVE  ListsInputs(input - 1, before) /\ \A k \in Nat, n \in Nat :
              k = input - 1 /\ n = before => ListsInputs(k, n)'
<1>1. ListsInputs(input - 1, before)
  BY DEF ListInv
<1>2. input \in Nat
  BY DEF ScanInv, ScanTypeOK
<1>3. \A j \in 1 .. input - 1 : SameMarks(j)
  BY <1>2, EarlierUnmarked
<1>4. ASSUME NEW k \in Nat, NEW n \in Nat, k = input - 1, n = before PROVE ListsInputs(k, n)'
  <2>1. ListsInputs(k, n) /\ (\A j \in 1 .. k : SameMarks(j)) /\ \A x \in 1 .. n : entries'[x] = entries[x]
    BY <1>1, <1>3, <1>4
  <2> QED
    BY <2>1, InputsStay
<1> QED
  BY <1>1, <1>4

(* A directory that may not be opened leaves no more than the iterator has *)
(* passed: nothing in it is.                                               *)
LEMMA StepSkip ==
    ASSUME ScanInv, ListInv, SkipDirectory, at \notin {"main", "parsing", "engine"}, at' = at
    PROVE  ListInv'
<1>1. /\ walk = "increment" /\ walk' = "step"
      /\ left' = {e \in left : ~Inside(e.path, reached)}
      /\ skipped' = skipped \cup {<<input, reached>>}
      /\ UNCHANGED <<inputs, recurse, input, reached, before, entries, scanned, dropped, misread>>
  BY DEF SkipDirectory
<1>2. InWalk' = InWalk /\ Here' = Here
  BY <1>1 DEF InWalk, Here
<1>3. Walked /\ left \subseteq InWalk /\ left' \subseteq InWalk
  BY <1>1 DEF ListInv, Walked
<1>4. MarkedBehind' /\ SkippedBehind'
  BY <1>1, <1>2 DEF ListInv, MarkedBehind, SkippedBehind
<1>5. \A path : Closed(input, path)' <=> Closed(input, path) \/ Inside(path, reached)
  <2>1. <<input, reached>> \in skipped' /\ <<input, reached>>[1] = input /\ <<input, reached>>[2] = reached
    BY <1>1
  <2>2. skipped \subseteq skipped' /\ \A s \in skipped' : s \in skipped \/ s = <<input, reached>>
    BY <1>1
  <2>3. input' = input
    BY <1>1
  <2> QED
    BY <2>1, <2>2, <2>3 DEF Closed
<1>6. \A e \in InWalk : Inside(e.path, reached) => e \in left
  BY <1>1, <1>3 DEF Walked, Ahead
<1>7. Found(input)' \ left' = Found(input) \ left
  <2>1. \A e \in Found(input) : e \in InWalk
    BY DEF Found, InWalk, Here
  <2>2. Found(input)' = {e \in Found(input) : ~Inside(e.path, reached)}
    BY <1>1, <1>5 DEF Found
  <2> QED
    BY <1>1, <1>6, <2>1, <2>2
<1>8. \A e : EntryOf(input, e)' = EntryOf(input, e)
  BY <1>1 DEF EntryOf, SizeOf
<1>9. PassedBehind(before)'
  <2>1. PassedBehind(before)
    BY <1>3 DEF Walked
  <2>2. {EntryOf(input, f) : f \in Found(input) \ left}' = {EntryOf(input, f) : f \in Found(input) \ left}
    BY <1>7, <1>8
  <2>3. entries' = entries /\ before' = before
    BY <1>1
  <2> QED
    BY <2>1, <2>2, <2>3 DEF PassedBehind
<1>10. Ahead'
  <2>1. \A e \in left' : ~Closed(input, e.path)'
    BY <1>1, <1>3, <1>5 DEF Walked, Ahead
  <2>2. ASSUME NEW d \in left', NEW e \in InWalk, Inside(e.path, d.path), Inside(e.path, reached)
        PROVE  FALSE
    <3>1. PICK r \in InWalk \ left : r.path = reached
      BY <1>1, <1>3 DEF Walked, Ahead
    <3>2. d \in left /\ ~Inside(d.path, reached) /\ d \in InWalk
      BY <1>1, <1>3
    <3>3. ~Inside(r.path, d.path)
      BY <1>3, <3>1, <3>2 DEF Walked, Ahead
    <3>4. d.path # r.path
      BY <1>1, <3>1, <3>2, InWalkIs
    <3>5. d.path \in Seq(Nat) /\ r.path \in Seq(Nat)
      BY <1>1, <3>1, <3>2, InWalkIs, InsideIs
    <3> QED
      BY <2>2, <3>1, <3>2, <3>3, <3>4, <3>5, OneWay
  <2>3. \A d \in left' : \A e \in InWalk : Inside(e.path, d.path) => e \in left'
    BY <1>1, <1>3, <2>2 DEF Walked, Ahead
  <2> QED
    BY <1>1, <1>2, <2>1, <2>3 DEF Ahead
<1>11. PICK k \in Nat, n \in Nat : k = input - 1 /\ n = before
  BY DEF ScanInv, ScanTypeOK
<1>12. ListsInputs(k, n)'
  BY <1>1, <1>11, FrontStays DEF Marks
<1>13. ListsInputs(input - 1, before)'
  BY <1>1, <1>11, <1>12
<1> QED
  BY <1>1, <1>2, <1>3, <1>4, <1>9, <1>10, <1>13 DEF ListInv, Walked

LEMMA StepPassOver ==
    ASSUME ScanInv, ListInv, at \notin {"main", "parsing", "engine"}, at' = at,
           NEW e \in left, PassOver(e)
    PROVE  ListInv'
<1>1. /\ walk = "step" /\ walk' = "increment" /\ scanned = "none" /\ left' = left \ {e}
      /\ dropped' = IF e.regular THEN dropped \cup {<<input, e.path>>} ELSE dropped
      /\ UNCHANGED <<inputs, recurse, input, before, entries, scanned, skipped, misread>>
      /\ At(e) /\ Passed(e)
  BY DEF PassOver, At, Passed
<1>2. InWalk' = InWalk /\ Here' = Here
  BY <1>1 DEF InWalk, Here
<1>0. Marks(e.path) /\ \A path : Closed(input, path)' <=> Closed(input, path)
  BY <1>1 DEF Marks, Closed
<1>3. MarkedBehind' /\ SkippedBehind' /\ Ahead'
  BY <1>0, <1>1, MarkedPassed, AheadPassed
<1>4. Found(input)' \ left' = Found(input) \ left
  <2>1. ASSUME NEW f \in Found(input), f # e PROVE f.path # e.path
    BY <1>1, <2>1, InWalkIs
  <2>2. Found(input)' = Found(input) \ {e}
    <3>1. CASE e.regular
      <4>1. \A path : <<input, path>> \in dropped' <=> <<input, path>> \in dropped \/ path = e.path
        BY <1>1, <3>1
      <4> QED
        BY <1>0, <1>1, <2>1, <4>1 DEF Found
    <3>2. CASE ~e.regular
      BY <1>0, <1>1, <3>2 DEF Found
    <3> QED
      BY <3>1, <3>2
  <2> QED
    BY <1>1, <2>2
<1>5. \A f : EntryOf(input, f)' = EntryOf(input, f)
  BY <1>1 DEF EntryOf, SizeOf
<1>6. PassedBehind(before)'
  <2>1. PassedBehind(before)
    BY <1>1 DEF ListInv, Walked
  <2>2. {EntryOf(input, f) : f \in Found(input) \ left}' = {EntryOf(input, f) : f \in Found(input) \ left}
    BY <1>4, <1>5
  <2>3. entries' = entries /\ before' = before
    BY <1>1
  <2> QED
    BY <2>1, <2>2, <2>3 DEF PassedBehind
<1>7. PICK k \in Nat, n \in Nat : k = input - 1 /\ n = before
  BY DEF ScanInv, ScanTypeOK
<1>8. ListsInputs(k, n)'
  BY <1>0, <1>1, <1>7, FrontStays
<1>9. ListsInputs(input - 1, before)'
  BY <1>1, <1>7, <1>8
<1>10. left' \subseteq InWalk /\ Here.kind # "file"
  BY <1>1 DEF ListInv, Walked
<1> QED
  BY <1>1, <1>2, <1>3, <1>6, <1>9, <1>10 DEF ListInv, Walked

LEMMA StepHandleEntry ==
    ASSUME ScanInv, ListInv, at \notin {"main", "parsing", "engine"}, at' = at,
           NEW e \in left, HandleEntry(e)
    PROVE  ListInv'
<1>1. /\ walk = "step" /\ walk' = "increment" /\ scanned = "none" /\ left' = left \ {e} /\ e.regular
      /\ UNCHANGED <<inputs, recurse, input, before, scanned, dropped, skipped>>
      /\ At(e) /\ Passed(e)
  BY DEF HandleEntry, At, Passed
<1>2. PICK noSize \in BOOLEAN :
        /\ misread' = IF noSize THEN misread \cup {<<input, e.path>>} ELSE misread
        /\ entries' = Append(entries, FileEntry(e.path, ArchivePath(Here.base, e.real),
                                                IF noSize THEN BadSize ELSE e.size))
  BY DEF HandleEntry
<1> DEFINE new == FileEntry(e.path, ArchivePath(Here.base, e.real), IF noSize THEN BadSize ELSE e.size)
           passed == Found(input) \ left
<1>3. PICK n \in Nat, b \in Nat : n = Len(entries) /\ b = before /\ b <= n
  <2>1. Len(entries) \in Nat /\ before \in 0 .. Len(entries)
    BY LenProperties DEF ScanInv, ScanTypeOK, IsSeq
  <2> QED
    BY <2>1
<1>4. Len(entries') = n + 1 /\ entries'[n + 1] = new /\ \A x \in 1 .. n : entries'[x] = entries[x]
  <2>1. entries' = Append(entries, new)
    BY <1>2
  <2> HIDE DEF new
  <2> QED
    BY <1>3, <2>1, AppendedIs DEF ScanInv
<1>5. InWalk' = InWalk /\ Here' = Here
  BY <1>1 DEF InWalk, Here
<1>0. Marks(e.path) /\ \A path : Closed(input, path)' <=> Closed(input, path)
  BY <1>1, <1>2 DEF Marks, Closed
<1>6. MarkedBehind' /\ SkippedBehind' /\ Ahead'
  BY <1>0, <1>1, MarkedPassed, AheadPassed
<1>7. /\ Hierarchy(Here.path, Here.under) /\ InWalk \subseteq Here.under /\ left \subseteq InWalk
      /\ <<input, e.path>> \notin dropped /\ <<input, e.path>> \notin misread
      /\ Found(input) \subseteq Here.under /\ ~Closed(input, e.path)
  BY <1>1, InWalkIs
<1>8. Found(input)' \ left' = passed \cup {e} /\ e \in Here.under /\ e \notin passed
  <2>1. e \in InWalk /\ e \in Here.under
    BY <1>7
  <2>2. e \in Found(input)
    BY <1>1, <1>7, <2>1 DEF Found, InWalk, Here
  <2>3. Found(input)' = Found(input)
    BY <1>0, <1>1 DEF Found
  <2> QED
    BY <1>1, <2>1, <2>2, <2>3
<1>9. EntryOf(input, e)' = new
  <2>1. (<<input, e.path>> \in misread') <=> noSize
    BY <1>2, <1>7
  <2> QED
    BY <1>1, <1>5, <2>1 DEF EntryOf, SizeOf, Here
<1>10. \A f \in passed : EntryOf(input, f)' = EntryOf(input, f)
  <2> SUFFICES ASSUME NEW f \in passed PROVE EntryOf(input, f)' = EntryOf(input, f)
    OBVIOUS
  <2>1. f.path # e.path
    BY <1>7, <1>8 DEF Hierarchy
  <2>2. (<<input, f.path>> \in misread') <=> (<<input, f.path>> \in misread)
    BY <1>2, <2>1
  <2> QED
    BY <1>1, <2>2 DEF EntryOf, SizeOf
<1>11. \A f \in passed : EntryOf(input, f).source # new.source
  <2> SUFFICES ASSUME NEW f \in passed, EntryOf(input, f).source = new.source PROVE FALSE
    OBVIOUS
  <2>1. f.path = e.path
    BY DEF EntryOf, FileEntry
  <2>2. f = e
    BY <1>7, <1>8, <2>1 DEF Hierarchy
  <2> QED
    BY <1>8, <2>2
<1> HIDE DEF new, passed
<1>12. PassedBehind(before)
  BY <1>1 DEF ListInv, Walked
<1>13. /\ {entries[k] : k \in b + 1 .. n} = {EntryOf(input, f) : f \in passed}
       /\ \A j, k \in b + 1 .. n : entries[j].source = entries[k].source => j = k
  BY <1>3, <1>12 DEF PassedBehind, passed
<1>14. \A k \in b + 1 .. n + 1 :
          /\ k = n + 1 => entries'[k] = new
          /\ k # n + 1 => k \in b + 1 .. n /\ entries'[k] = entries[k]
  <2> SUFFICES ASSUME NEW k \in b + 1 .. n + 1, k # n + 1
               PROVE  k \in b + 1 .. n /\ entries'[k] = entries[k]
    BY <1>4
  <2>1. k \in b + 1 .. n /\ k \in 1 .. n
    OBVIOUS
  <2> QED
    BY <1>4, <2>1
<1>15. {entries'[k] : k \in b + 1 .. n + 1} = {entries[k] : k \in b + 1 .. n} \cup {new}
  <2>1. \A k \in b + 1 .. n : k \in b + 1 .. n + 1 /\ k # n + 1
    OBVIOUS
  <2>2. n + 1 \in b + 1 .. n + 1
    BY <1>3
  <2> QED
    BY <1>14, <2>1, <2>2
<1>16. {EntryOf(input, f)' : f \in passed \cup {e}} = {EntryOf(input, f) : f \in passed} \cup {new}
  BY <1>9, <1>10
<1>17. \A k \in b + 1 .. n : entries[k].source # new.source
  <2> SUFFICES ASSUME NEW k \in b + 1 .. n PROVE entries[k].source # new.source
    OBVIOUS
  <2>1. PICK f \in passed : entries[k] = EntryOf(input, f)
    BY <1>13
  <2> QED
    BY <1>11, <2>1
<1>18. PassedBehind(before)'
  <2>1. {EntryOf(input, f) : f \in Found(input) \ left}' = {EntryOf(input, f)' : f \in passed \cup {e}}
    BY <1>8
  <2>2. before' = b /\ Len(entries)' = n + 1
    BY <1>1, <1>3, <1>4
  <2>3. {entries'[k] : k \in b + 1 .. n + 1} = {EntryOf(input, f) : f \in Found(input) \ left}'
    BY <1>13, <1>15, <1>16, <2>1
  <2>4. ASSUME NEW j \in b + 1 .. n + 1, NEW k \in b + 1 .. n + 1,
               entries'[j].source = entries'[k].source
        PROVE  j = k
    BY <1>13, <1>14, <1>17, <2>4
  <2> QED
    BY <2>2, <2>3, <2>4 DEF PassedBehind
<1>19. PICK k \in Nat : k = input - 1
  BY DEF ScanInv, ScanTypeOK
<1>20. ListsInputs(k, b)'
  <2>1. \A x \in 1 .. before : entries'[x] = entries[x]
    <3>1. \A x \in 1 .. b : x \in 1 .. n
      BY <1>3
    <3> QED
      BY <1>3, <1>4, <3>1
  <2> QED
    BY <1>0, <1>1, <1>3, <1>19, <2>1, FrontStays
<1>21. ListsInputs(input - 1, before)'
  BY <1>1, <1>3, <1>19, <1>20
<1>22. left' \subseteq InWalk /\ Here.kind # "file"
  BY <1>1 DEF ListInv, Walked
<1> QED
  BY <1>1, <1>5, <1>6, <1>18, <1>21, <1>22 DEF ListInv, Walked

LEMMA StepWalkEnds ==
    ASSUME ScanInv, ListInv, at \notin {"main", "parsing", "engine"}, at' = at, WalkEnds
    PROVE  ListInv'
<1>1. /\ walk = "step" /\ walk' = "none" /\ scanned = "none" /\ left = {} /\ input' = input + 1
      /\ UNCHANGED <<inputs, recurse, left, before, scanned, dropped, skipped, misread>>
  BY DEF WalkEnds, ghostVars
<1>0. PICK sorted \in ByArchivePath(SubSeq(entries, before + 1, Len(entries))) :
         entries' = SubSeq(entries, 1, before) \o sorted
  BY DEF WalkEnds
<1>2. PICK n \in Nat, b \in Nat : n = Len(entries) /\ b = before /\ b <= n
  <2>1. Len(entries) \in Nat /\ before \in 0 .. Len(entries)
    BY LenProperties DEF ScanInv, ScanTypeOK, IsSeq
  <2> QED
    BY <2>1
<1>3. PICK k \in Nat : k = input - 1 /\ input = k + 1
  BY DEF ScanInv, ScanTypeOK
<1>4. PICK m \in Nat : m = n - b
  <2>1. n - b \in Nat
    BY <1>2
  <2> QED
    BY <2>1
<1> DEFINE front == SubSeq(entries, 1, b)
           back == SubSeq(entries, b + 1, n)
<1>5. IsSeq(front) /\ Len(front) = b /\ \A x \in 1 .. b : front[x] = entries[x]
  <2>1. PICK S : entries \in Seq(S)
    BY DEF ScanInv, IsSeq
  <2>2. \A x \in 1 .. b : entries[x] \in S
    BY <1>2, <2>1, ElementOfSeq
  <2>3. /\ front \in Seq(S) /\ Len(front) = (IF 1 <= b THEN b - 1 + 1 ELSE 0)
        /\ \A x \in 1 .. b - 1 + 1 : front[x] = entries[1 + x - 1]
    BY <2>2, SubSeqProperties
  <2> HIDE DEF front
  <2>4. b - 1 + 1 = b /\ \A x \in 1 .. b : 1 + x - 1 = x
    OBVIOUS
  <2> QED
    BY <2>3, <2>4 DEF IsSeq
<1>6. IsSeq(back) /\ Len(back) = m /\ \A x \in 1 .. m : back[x] = entries[b + x]
  <2>1. PICK S : entries \in Seq(S)
    BY DEF ScanInv, IsSeq
  <2>2. \A x \in b + 1 .. n : entries[x] \in S
    <3>1. \A x \in b + 1 .. n : x \in 1 .. n
      OBVIOUS
    <3> QED
      BY <1>2, <2>1, <3>1, ElementOfSeq
  <2>3. /\ back \in Seq(S) /\ Len(back) = (IF b + 1 <= n THEN n - (b + 1) + 1 ELSE 0)
        /\ \A x \in 1 .. n - (b + 1) + 1 : back[x] = entries[b + 1 + x - 1]
    BY <2>2, SubSeqProperties
  <2> HIDE DEF back
  <2>4. n - (b + 1) + 1 = m /\ \A x \in 1 .. m : b + 1 + x - 1 = b + x
    BY <1>4
  <2>5. Len(back) = m
    BY <1>2, <1>4, <2>3
  <2> QED
    BY <2>3, <2>4, <2>5 DEF IsSeq
<1> HIDE DEF front, back
<1>7. PassedBehind(before) /\ Found(input) \ left = Found(input) /\ Here.kind # "file"
  BY <1>1 DEF ListInv, Walked
<1>8. /\ {entries[x] : x \in b + 1 .. n} = {EntryOf(input, e) : e \in Found(input)}
      /\ \A x, y \in b + 1 .. n : entries[x].source = entries[y].source => x = y
  BY <1>2, <1>7 DEF PassedBehind
<1>23. sorted \in ByArchivePath(back)
  BY <1>0, <1>2 DEF back
<1>9. \A x \in 1 .. m : b + x \in b + 1 .. n
  BY <1>2, <1>4
<1>10. SourcesDiffer(back)
  <2> SUFFICES ASSUME NEW x \in 1 .. m, NEW y \in 1 .. m, back[x].source = back[y].source PROVE x = y
    BY <1>6 DEF SourcesDiffer
  <2>1. entries[b + x].source = entries[b + y].source
    BY <1>6
  <2>2. b + x = b + y
    BY <1>8, <1>9, <2>1
  <2> QED
    BY <2>2
<1>11. /\ IsSeq(sorted) /\ Len(sorted) = m
       /\ {sorted[x] : x \in 1 .. m} = {back[x] : x \in 1 .. m}
       /\ \A x, y \in 1 .. m : x < y => ~Precedes(sorted[y].archive_path, sorted[x].archive_path)
       /\ \A x, y \in 1 .. m : sorted[x].source = sorted[y].source => x = y
  <2>1. /\ IsSeq(sorted) /\ Len(sorted) = Len(back)
        /\ {sorted[x] : x \in 1 .. Len(back)} = {back[x] : x \in 1 .. Len(back)}
        /\ \A x, y \in 1 .. Len(back) : x < y => ~Precedes(sorted[y].archive_path, sorted[x].archive_path)
        /\ SourcesDiffer(back) => SourcesDiffer(sorted)
    BY <1>6, <1>23, SortedByName, Zenon
  <2> QED
    BY <1>6, <1>10, <2>1 DEF SourcesDiffer
<1>12. /\ Len(entries') = n
       /\ \A x \in 1 .. b : entries'[x] = entries[x]
       /\ \A x \in 1 .. m : entries'[b + x] = sorted[x]
  <2>1. entries' = front \o sorted
    BY <1>0, <1>2 DEF front
  <2>2. PICK S : front \in Seq(S) /\ sorted \in Seq(S)
    <3>1. PICK A, B : front \in Seq(A) /\ sorted \in Seq(B)
      BY <1>5, <1>11 DEF IsSeq
    <3>2. front \in Seq(A \cup B) /\ sorted \in Seq(A \cup B)
      BY <3>1, SeqMonotonic
    <3> QED
      BY <3>2
  <2>3. Joined(entries', front, sorted)
    BY <2>1, <2>2, Concatenated
  <2>4. b + m = n
    BY <1>2, <1>4
  <2> QED
    BY <1>5, <1>11, <2>3, <2>4 DEF Joined
<1>13. \A x \in b + 1 .. n : \E y \in 1 .. m : x = b + y /\ y = x - b
  BY <1>2, <1>4
<1>14. {entries'[x] : x \in b + 1 .. n} = {EntryOf(input, e) : e \in Found(input)}
  <2>1. Elements(entries', b + 1 .. n) = Elements(sorted, 1 .. m)
    <3>1. Among(entries', b + 1 .. n, sorted, 1 .. m)
      BY <1>12, <1>13 DEF Among
    <3>2. Among(sorted, 1 .. m, entries', b + 1 .. n)
      BY <1>9, <1>12 DEF Among
    <3> QED
      BY <3>1, <3>2, SameElements
  <2>2. Elements(entries, b + 1 .. n) = Elements(back, 1 .. m)
    <3>1. Among(entries, b + 1 .. n, back, 1 .. m)
      BY <1>6, <1>13 DEF Among
    <3>2. Among(back, 1 .. m, entries, b + 1 .. n)
      BY <1>6, <1>9 DEF Among
    <3> QED
      BY <3>1, <3>2, SameElements
  <2>3. Elements(sorted, 1 .. m) = Elements(back, 1 .. m)
    BY <1>11, Zenon DEF Elements
  <2>4. Elements(entries, b + 1 .. n) = {EntryOf(input, e) : e \in Found(input)}
    BY <1>8, Zenon DEF Elements
  <2>5. Elements(entries', b + 1 .. n) = {EntryOf(input, e) : e \in Found(input)}
    BY <2>1, <2>2, <2>3, <2>4, Zenon
  <2> QED
    BY <2>5, Zenon DEF Elements
<1>15. ASSUME NEW x \in b + 1 .. n, NEW y \in b + 1 .. n, x < y
       PROVE  ~Precedes(entries'[y].archive_path, entries'[x].archive_path) /\ entries'[x].source # entries'[y].source
  <2>1. PICK v \in 1 .. m, w \in 1 .. m : x = b + v /\ y = b + w
    BY <1>13
  <2>2. v < w
    BY <1>15, <2>1
  <2>3. entries'[x] = sorted[v] /\ entries'[y] = sorted[w] /\ v # w
    BY <1>12, <2>1, <2>2
  <2>4. ~Precedes(sorted[w].archive_path, sorted[v].archive_path) /\ sorted[v].source # sorted[w].source
    BY <1>11, <2>2, <2>3
  <2> QED
    BY <2>3, <2>4, Zenon
<1>16. Listing(k + 1)' = {EntryOf(input, e) : e \in Found(input)}
  <2>1. SameMarks(k + 1)
    BY <1>1 DEF SameMarks, Closed
  <2>2. Listing(k + 1)' = Listing(k + 1)
    BY <1>1, <2>1, ListingStays
  <2> QED
    BY <1>3, <1>7, <2>2 DEF Listing, Here
<1>17. ListsByName(b, n, Listing(k + 1))'
  BY <1>14, <1>15, <1>16 DEF ListsByName
<1>18. ListsInputs(k, b)'
  BY <1>1, <1>2, <1>3, <1>12, FrontStays DEF Marks
<1>19. ListsInputs(k + 1, n)'
  <2>1. b <= n
    BY <1>2
  <2> QED
    BY <1>17, <1>18, <2>1, OneMoreListed
<1>20. input' - 1 = k + 1 /\ Len(entries)' = n
  <2>1. input' = input + 1
    BY <1>1, Zenon
  <2>2. Len(entries)' = n
    BY <1>12
  <2> QED
    BY <1>3, <2>1, <2>2
<1>21. ListsInputs(input - 1, Len(entries))'
  BY <1>19, <1>20
<1>22. MarkedBehind'
  <2> SUFFICES ASSUME NEW mark \in dropped \cup misread PROVE mark[1] \in 1 .. input' - 1
    BY <1>1 DEF MarkedBehind
  <2>1. mark[1] \in 1 .. input - 1 \/ mark[1] = input
    BY DEF ListInv, MarkedBehind
  <2> QED
    BY <1>3, <1>20, <2>1
<1>24. SkippedBehind'
  BY <1>1, <1>3, <1>20 DEF ListInv, SkippedBehind
<1> QED
  BY <1>1, <1>21, <1>22, <1>24 DEF ListInv

(* Each step of the scan keeps the list in order. *)
LEMMA StepListed ==
    ASSUME ScanInv, ListInv, ScanNext, at \notin {"main", "parsing", "engine"}, at' = at
    PROVE  ListInv'
<1>1. CASE NotFound \/ NotSupported \/ WalkFails
  BY <1>1, ListUntouched DEF NotFound, NotSupported, WalkFails
<1>2. CASE Increment
  BY <1>2, ListUntouched DEF Increment
<1>3. CASE ScanEnds
  <2>1. input = Len(inputs) + 1 /\ walk = "none"
    <3>1. Len(inputs) \in Nat /\ input > Len(inputs) /\ input \in 1 .. Len(inputs) + 1
      BY <1>3, LenProperties DEF ScanEnds, ScanInv, ScanTypeOK
    <3> QED
      BY <3>1 DEF ScanInv
  <2> QED
    BY <1>3, <2>1, ListUntouched DEF ScanEnds
<1>4. CASE \E e \in left : HandleEntry(e) \/ PassOver(e)
  BY <1>4, StepHandleEntry, StepPassOver
<1>5. CASE \E e \in left : RelativeThrows(e)
  BY <1>5, ListUntouched DEF RelativeThrows
<1>6. CASE WalkStarts \/ WalkDenied
  BY <1>6, StepWalkStarts
<1> QED
  BY <1>1, <1>2, <1>3, <1>4, <1>5, <1>6, StepFile, StepSkip, StepWalkEnds DEF ScanNext

LEMMA StepList == JobInv /\ ScanInv /\ ListInv /\ [Next]_vars => ListInv'
<1> SUFFICES ASSUME JobInv, ScanInv, ListInv, [Next]_vars PROVE ListInv'
  OBVIOUS
<1>1. CASE Scan
  BY <1>1, StepListed DEF Scan
<1>2. CASE StartEngine
  <2>1. /\ at' = "scanning" /\ input = 1 /\ entries = <<>> /\ scanned = "none" /\ walk = "none"
        /\ dropped = {} /\ skipped = {} /\ misread = {}
        /\ UNCHANGED <<input, walk, left, before, entries, scanned, dropped, skipped, misread>>
    BY <1>2 DEF StartEngine, ListInv, ScanInv, ghostVars
  <2>2. ListsInputs(0, 0)
    BY <2>1, EmptySeq DEF ListInv
  <2>3. ListsInputs(0, 0)'
    BY <2>2, ListedStay
  <2>4. input' - 1 = 0 /\ Len(entries)' = 0
    BY <2>1, EmptySeq
  <2>5. ListsInputs(input - 1, Len(entries))'
    BY <2>3, <2>4
  <2> QED
    BY <2>1, <2>5 DEF ListInv, MarkedBehind, SkippedBehind
<1>3. CASE UNCHANGED walkVars /\ (at' \in {"main", "parsing", "engine"} => at \in {"main", "parsing", "engine"})
  BY <1>3, ListUntouched DEF walkVars
<1>4. CASE Parse
  BY <1>3, <1>4 DEF Parse, CliNext, Dispatch, TakeSwitch, TakeValue, TakeInput, Reject, ParseEnds, Parsing, Exit, scanVars
<1>5. CASE StartFails \/ ScanFailed \/ ScanThrew \/ Scanned \/ MakeCodecs
  BY <1>3, <1>5 DEF StartFails, ScanFailed, ScanThrew, Scanned, MakeCodecs, JobFails, Exit, scanVars
<1>6. CASE OpenOutput \/ OpenFails \/ Pack \/ Done \/ UNCHANGED vars
  BY <1>3, <1>6 DEF OpenOutput, OpenFails, Pack, Done, vars, JobFails, Exit, scanVars
<1> QED
  BY <1>1, <1>2, <1>4, <1>5, <1>6 DEF Next

LEMMA ListTold == ScanInv /\ ListInv => ListingExact
<1> SUFFICES ASSUME ScanInv, ListInv, scanned = "Ok" PROVE ListsInputs(Len(inputs), Len(entries))
  BY DEF ListingExact
<1>1. input = Len(inputs) + 1 /\ walk = "none"
  BY DEF ListInv
<1>2. input - 1 = Len(inputs)
  BY <1>1, LenProperties DEF ScanInv, ScanTypeOK
<1> QED
  BY <1>1, <1>2 DEF ListInv

(* A scan that succeeds has each regular file of each input once, but for  *)
(* those whose type could not be read and those in a directory that could  *)
(* not be opened, in the order of the inputs and, of each, of the names,   *)
(* whatever order the iterator has, whatever query fails on the way and    *)
(* whatever the tree is (scan and scan_directory).                         *)
THEOREM ListingAlwaysExact == Spec => []ListingExact
<1>1. Spec => []ScanInv
  BY JobInvariance, ScanStarts, StepTyped, PTL DEF Spec
<1>2. Spec => []ListInv
  BY <1>1, JobInvariance, ListStarts, StepList, PTL DEF Spec
<1> QED
  BY <1>1, <1>2, ListTold, PTL

-----------------------------------------------------------------------------
(* Once the words are all read, the last of the options that disagree is   *)
(* the last that was read.                                                 *)
LEMMA AllRead ==
    ASSUME ArgsTyped, i > Len(argv), NEW options, Places(options) # {}
    PROVE  /\ Max(Places(options)) \in Places(options) /\ Max(Places(options)) \in 2 .. Len(argv)
           /\ LastRead(options, Max(Places(options)))
           /\ \A k \in Places(options) : k < i
<1> DEFINE P == Places(options)
<1>1. argv \in Seq(STRING) /\ Len(argv) \in Nat /\ i \in Nat
  BY CommandLineAssumption, LenProperties DEF ArgsTyped
<1>2. P \subseteq 2 .. Len(argv)
  BY <1>1, OptionIs DEF Places
<1>3. P \in SUBSET (1 .. Len(argv)) /\ \A k \in P : k < i
  BY <1>1, <1>2
<1>4. Max(P) \in P /\ \A k \in P : k <= Max(P)
  BY <1>1, <1>3, MaxOf
<1> QED
  BY <1>2, <1>3, <1>4 DEF LastRead, LastBefore

LEMMA NoGpuRead == ParseInv /\ i > Len(argv) /\ NoGpu => args.gpu_set /\ ~args.use_gpu
<1> SUFFICES ASSUME ParseInv, i > Len(argv), NoGpu PROVE args.gpu_set /\ ~args.use_gpu
  OBVIOUS
<1> DEFINE Gpu == {"--gpu", "--no-gpu"}
           k == Max(Places(Gpu))
<1>1. Places(Gpu) # {} /\ argv[k] = "--no-gpu"
  BY DEF NoGpu, LastOf
<1>2. k \in Places(Gpu) /\ LastRead(Gpu, k) /\ k < i
  BY <1>1, AllRead DEF ParseInv
<1> HIDE DEF k
<1> QED
  BY <1>1, <1>2 DEF ParseInv, GpuRead

LEMMA GpuTold == JobInv => GpuAsAsked
<1> SUFFICES ASSUME JobInv PROVE GpuAsAsked
  OBVIOUS
<1>1. gpu # "none" => i > Len(argv) /\ args.use_gpu /\ machine.cuda
  BY DEF JobInv, Asked
<1>2. NoGpu \/ ~machine.cuda => gpu = "none"
  BY <1>1, NoGpuRead DEF JobInv
<1>3. gpu = "none" => \A k \in DOMAIN entries : Goes(k) = "Cpu"
  BY DEF Goes, Route
<1>4. status = "Cuda" => machine.cuda /\ (~NoGpu \/ PinsMemory)
  BY NoGpuRead DEF JobInv, Asked
<1> QED
  BY <1>2, <1>3, <1>4 DEF GpuAsAsked, JobInv, Asked

LEMMA OutputAsAsked == JobInv => OutputKept
<1> SUFFICES ASSUME JobInv PROVE OutputKept
  OBVIOUS
<1>1. output = "replaced" => Places({"--overwrite"}) # {} \/ unseen
  BY DEF JobInv, Asked, ParseInv, OverwriteRead
<1> QED
  BY <1>1 DEF OutputKept, JobInv, Asked, Opened

LEMMA SizeAsked ==
    ASSUME ArgsTyped, i > Len(argv), NEW option, NEW default, NEW size, SizeRead(option, default, size)
    PROVE  AsksFor(option, default, size)
<1> DEFINE P == Places({option})
           k == Max(P)
<1>1. CASE P = {}
  BY <1>1 DEF AsksFor, SizeRead, SizeBefore
<1>2. CASE P # {}
  <2>1. k \in P /\ LastRead({option}, k)
    BY <1>2, AllRead
  <2>2. argv[k + 1] \in DOMAIN Sizes /\ size = ParseSize(argv[k + 1])
    <3> HIDE DEF k
    <3> QED
      BY <2>1 DEF SizeRead, SizeBefore, LastRead
  <2> HIDE DEF k, P
  <2>3. Sizes[argv[k + 1]][1] * Sizes[argv[k + 1]][2] < W64 =>
           size = Sizes[argv[k + 1]][1] * Sizes[argv[k + 1]][2]
    BY <2>2, SizeFits
  <2> QED
    BY <1>2, <2>3 DEF AsksFor, k, P
<1> QED
  BY <1>1, <1>2

LEMMA RequestAsAsked == JobInv => JobAsAsked
<1> SUFFICES ASSUME JobInv, at = "packing" PROVE JobAsAsked
  BY DEF JobAsAsked
<1>1. i > Len(argv) /\ ArgsTyped
  BY DEF JobInv, Settled, ParseInv
<1>2. AsksFor("--block-bytes", DefaultBlock, args.block_bytes)
  BY <1>1, SizeAsked DEF JobInv, ParseInv
<1>3. AsksFor("--gpu-threshold", DefaultThreshold, args.gpu_threshold)
  BY <1>1, SizeAsked DEF JobInv, ParseInv
<1>4. ASSUME NEW k \in DOMAIN entries, Goes(k) = "Gpu"
      PROVE  args.gpu_threshold \in 0 .. entries[k].size_bytes
  <2>1. JobOptions.algorithm \in {"Auto", "CpuDeflate"} /\ JobOptions.gpu_threshold_bytes = args.gpu_threshold
    BY DEF JobOptions
  <2>2. entries[k].size_bytes >= args.gpu_threshold
    BY <1>4, <2>1 DEF Goes, Route
  <2>3. args.gpu_threshold \in Nat
    BY <1>1, CommandLineAssumption DEF ArgsTyped, PackArgs
  <2> QED
    BY <2>2, <2>3
<1>5. JobOptions.block_bytes = args.block_bytes
  BY DEF JobOptions
<1> QED
  BY <1>2, <1>3, <1>4, <1>5 DEF JobAsAsked, JobInv, Settled

(* With --no-gpu last among its kind, or without CUDA in the build, a job  *)
(* makes no codec on the GPU and sends no file there, whatever the other   *)
(* words of the command line; it fails of CUDA then only where the build   *)
(* has it and a block that is read has bytes, and one that has such blocks *)
(* succeeds there only with a device (parse_pack, cmd_pack, make_codecs,   *)
(* SizeRouter::route, PinnedBuffer::allocate).                             *)
THEOREM GpuAlwaysAsAsked == Spec => []GpuAsAsked
BY JobInvariance, GpuTold, PTL

(* The writer's begin comes behind every check, and empties what exists    *)
(* only on request; the exit code says what has become of the output.      *)
THEOREM OutputAlwaysKept == Spec => []OutputKept
BY JobInvariance, OutputAsAsked, PTL

(* The sizes run() uses are those of the last --block-bytes and            *)
(* --gpu-threshold, or the defaults, unless a product wraps; each pool has *)
(* a thread, and there is a file.                                          *)
THEOREM JobAlwaysAsAsked == Spec => []JobAsAsked
BY JobInvariance, RequestAsAsked, PTL
=============================================================================
