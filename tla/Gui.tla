-------------------------------- MODULE Gui ---------------------------------
(***************************************************************************)
(* The desktop program (gui/ViewModels/MainViewModel.cs and                *)
(* gui/Bridge/CompressionEngine.cs) as a host of the bridge. The UI thread *)
(* runs the user's clicks and, one after the other, what was queued on the *)
(* dispatcher; a pool thread makes the blocking call of pack, and the      *)
(* job's thread reports progress. Any other host of the bridge is there    *)
(* too, as Bridge has it.                                                  *)
(***************************************************************************)
EXTENDS Bridge, Sequences

CONSTANTS
    Hosts,          \* among "gui" and "any"
    GpuAvailable,   \* what the view model probed
    MaxEvents       \* bound on the progress events in the dispatcher's queue

ASSUME GuiAssumption == GpuAvailable \in BOOLEAN /\ MaxEvents \in Nat

VARIABLES
    host,
    UseGpu,      \* the toggle
    _engine,     \* none, cpu, gpu: whether it was created with GPU
    algorithm,   \* options.Algorithm of each pack
    asked,       \* whether the toggle was on when each pack was clicked
    latest,      \* the pack clicked last
    command,     \* PackAsync: idle; native: in Task.Run; posted: it will resume; faulted
    queue,       \* the dispatcher's
    StatusLine,  \* [what, pack, status]
    gpuJobs      \* jobs with a block that went to the GPU

guiVars == <<host, UseGpu, _engine, algorithm, asked, latest, command, queue, StatusLine, gpuJobs>>
allVars == <<vars, guiVars>>

Line(what, p) == [what |-> what, pack |-> p, status |-> "none"]
Lines ==
    [ what : {"ready", "starting", "missing", "progress", "cancelling", "resume", "result"},
      pack : Packs \cup {NoPack}, status : Statuses \cup {"none"} ]

GuiTypeOK ==
    /\ TypeOK
    /\ host \in Hosts
    /\ UseGpu \in BOOLEAN
    /\ _engine \in {"none", "cpu", "gpu"}
    /\ algorithm \in [Packs -> {"Auto", "CpuDeflate"}]
    /\ asked \in [Packs -> BOOLEAN]
    /\ latest \in Packs \cup {NoPack}
    /\ command \in {"idle", "native", "posted", "faulted"}
    /\ queue \in Seq(Lines)
    /\ StatusLine \in Lines
    /\ gpuJobs \subseteq Packs

GuiInit ==
    /\ Init
    /\ host \in Hosts
    /\ UseGpu = GpuAvailable
    /\ _engine = "none"
    /\ algorithm = [p \in Packs |-> "Auto"]
    /\ asked = [p \in Packs |-> FALSE]
    /\ latest = NoPack
    /\ command = "idle"
    /\ queue = <<>>
    /\ StatusLine = Line("ready", NoPack)
    /\ gpuJobs = {}

-----------------------------------------------------------------------------
(* The user. The UI thread is taken while it calls cancel, and ends when   *)
(* the command faults.                                                     *)

UiFree == host = "gui" /\ command # "faulted" /\ \A c \in Cancels : cancel[c] # "found"
GpuOn == UseGpu /\ GpuAvailable

Toggle ==
    /\ UiFree
    /\ UseGpu' = ~UseGpu
    /\ UNCHANGED <<vars, host, _engine, algorithm, asked, latest, command, queue, StatusLine, gpuJobs>>

(* Mutant of AlgorithmOf: the engine's setting is left to decide. *)
AlgorithmOfEngine == IF _engine = "cpu" THEN "CpuDeflate" ELSE "Auto"
AlgorithmOf == IF GpuOn THEN "Auto" ELSE "CpuDeflate"

(* PackAsync up to its await. The command cannot be run while it runs; the *)
(* engine is created by the first pack, for all of them.                   *)
ClickPack(p) ==
    /\ UiFree
    /\ command = "idle"
    /\ pack[p] = "out" /\ p # latest
    /\ command' = "native"
    /\ latest' = p
    /\ _engine' = IF _engine # "none" THEN _engine ELSE IF GpuOn THEN "gpu" ELSE "cpu"
    /\ algorithm' = [algorithm EXCEPT ![p] = AlgorithmOf]
    /\ asked' = [asked EXCEPT ![p] = GpuOn]
    /\ StatusLine' = Line("starting", p)
    /\ UNCHANGED <<vars, host, UseGpu, queue, gpuJobs>>

(* The first pack finds no bridge library. *)
BridgeMissing ==
    /\ UiFree
    /\ _engine = "none"
    /\ StatusLine' = Line("missing", NoPack)
    /\ UNCHANGED <<vars, host, UseGpu, _engine, algorithm, asked, latest, command, queue, gpuJobs>>

(* Cancel; before the first pack it only says so.                          *)
ClickCancel(c) ==
    /\ UiFree
    /\ IF _engine = "none" THEN UNCHANGED vars ELSE Find(c)
    /\ StatusLine' = Line("cancelling", NoPack)
    /\ UNCHANGED <<host, UseGpu, _engine, algorithm, asked, latest, command, queue, gpuJobs>>

-----------------------------------------------------------------------------
(* The threads behind the UI.                                              *)

StartTask(p) ==
    /\ command = "native" /\ latest = p
    /\ Enter(p)
    /\ UNCHANGED guiVars

(* on_progress, on the job's thread.                                       *)
Progress(p) ==
    /\ host = "gui"
    /\ job[p] = "running"
    /\ Len(queue) < MaxEvents
    /\ queue' = Append(queue, Line("progress", p))
    /\ UNCHANGED <<vars, host, UseGpu, _engine, algorithm, asked, latest, command, StatusLine, gpuJobs>>

(* A job's blocks go to the GPU if it has a codec and the route allows.    *)
GuiJobEnds(p) ==
    /\ host = "gui"
    /\ JobEnds(p)
    /\ \/ UNCHANGED gpuJobs
       \/ _engine = "gpu" /\ algorithm[p] # "CpuDeflate" /\ gpuJobs' = gpuJobs \cup {p}
    /\ UNCHANGED <<host, UseGpu, _engine, algorithm, asked, latest, command, queue, StatusLine>>

Result(p) == [what |-> "result", pack |-> p, status |-> report[p]]

(* Mutant of Post: the pool thread writes the result itself. *)
PostDirect ==
    /\ command = "native" /\ pack[latest] \in {"returned", "left"}
    /\ command' = "idle"
    /\ StatusLine' = Result(latest)
    /\ UNCHANGED <<vars, host, UseGpu, _engine, algorithm, asked, latest, queue, gpuJobs>>

(* The task is over: the rest of PackAsync is posted to the UI thread. *)
Post ==
    /\ command = "native" /\ pack[latest] \in {"returned", "left"}
    /\ command' = "posted"
    /\ queue' = Append(queue, Line("resume", latest))
    /\ UNCHANGED <<vars, host, UseGpu, _engine, algorithm, asked, latest, StatusLine, gpuJobs>>

(* The rest of PackAsync queues the result, behind what is queued by then. *)
Resume ==
    /\ UiFree
    /\ queue # <<>> /\ Head(queue).what = "resume"
    /\ pack[latest] = "returned"
    /\ queue' = Append(Tail(queue), Result(latest))
    /\ command' = "idle"
    /\ UNCHANGED <<vars, host, UseGpu, _engine, algorithm, asked, latest, StatusLine, gpuJobs>>

(* The task has faulted: the await throws out of PackAsync and of the      *)
(* command that awaits it, and nothing in the program handles that.        *)
ResumeFaults ==
    /\ UiFree
    /\ queue # <<>> /\ Head(queue).what = "resume"
    /\ pack[latest] = "left"
    /\ queue' = Tail(queue)
    /\ command' = "faulted"
    /\ UNCHANGED <<vars, host, UseGpu, _engine, algorithm, asked, latest, StatusLine, gpuJobs>>

Show ==
    /\ UiFree
    /\ queue # <<>> /\ Head(queue).what # "resume"
    /\ queue' = Tail(queue)
    /\ StatusLine' = Head(queue)
    /\ UNCHANGED <<vars, host, UseGpu, _engine, algorithm, asked, latest, command, gpuJobs>>

GuiNext ==
    \/ Toggle \/ BridgeMissing
    \/ \E p \in Packs : ClickPack(p) \/ StartTask(p) \/ Progress(p) \/ GuiJobEnds(p)
    \/ \E c \in Cancels : ClickCancel(c)
    \/ Post \/ Resume \/ ResumeFaults \/ Show
    \/ (host = "any" /\ Next /\ UNCHANGED guiVars)
    \/ (host = "gui" /\ UNCHANGED guiVars /\
          ((\E p \in Packs : Call(p)) \/ (\E c \in Cancels : Stop(c))))

(* The fairness of Bridge; the pool starts the task, its end is posted,    *)
(* and the UI thread takes what is queued.                                 *)
GuiSpec ==
    /\ GuiInit /\ [][GuiNext]_allVars
    /\ \A p \in Packs :
          /\ WF_allVars(Call(p) /\ UNCHANGED guiVars)
          /\ WF_allVars(host = "any" /\ JobEnds(p) /\ UNCHANGED guiVars)
          /\ WF_allVars(GuiJobEnds(p))
          /\ WF_allVars(StartTask(p))
    /\ \A c \in Cancels : WF_allVars(Stop(c) /\ UNCHANGED guiVars)
    /\ WF_allVars(host = "any" /\ Destroy /\ UNCHANGED guiVars)
    /\ WF_allVars(Post) /\ WF_allVars(Resume \/ ResumeFaults \/ Show)

-----------------------------------------------------------------------------
(* Properties.                                                             *)

(* The engine keeps the GPU setting of the first pack (MainViewModel.cs:   *)
(* 99), and the toggle may change between packs: a pack clicked with the   *)
(* toggle off has no block on the GPU. (One clicked with the toggle on,    *)
(* after an engine without, has none either; and one clicked with it off   *)
(* still has a GPU codec made for it if the engine allows, and may fail of *)
(* that.)                                                                  *)
ToggleObeyed == \A p \in gpuJobs : asked[p]

(* MainViewModel.cs:13 "progress callbacks marshal back": when nothing is  *)
(* running or queued, the status line is the outcome of the last pack's    *)
(* job, never a late progress event, an earlier pack or an Internal error; *)
(* unless the user has pressed Cancel since, whose line then stays.        *)
ResultStands ==
    latest # NoPack /\ command = "idle" /\ queue = <<>> /\ StatusLine.what # "cancelling" =>
        /\ StatusLine = Result(latest)
        /\ job[latest] = "over" => report[latest] = outcome[latest]

(* Calls come to an end (Bridge), and for every click on Pack either the   *)
(* result comes to the status line or the command faults, the latter only  *)
(* of an exception that ended the job of this very pack.                   *)
AllReturn ==
    /\ CallsReturn
    /\ \A p \in Packs : command = "native" /\ latest = p ~>
          StatusLine = Result(p) \/ (command = "faulted" /\ latest = p /\ outcome[p] = "thrown")
=============================================================================
