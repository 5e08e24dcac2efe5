----------------------------- MODULE GuiProofs ------------------------------
(***************************************************************************)
(* Theorems about Bridge.tla and Gui.tla, for every number of pack and     *)
(* cancel calls. A step of the desktop program is a step of the bridge or  *)
(* leaves the bridge alone, so what holds of the bridge holds of it.       *)
(***************************************************************************)
EXTENDS Gui, SequenceTheorems, TLAPS

Published == {"published", "blocked", "waited", "reported"}

(* A call and its job: the job is there once it is submitted, its outcome  *)
(* once it is over, its future is moved out by a call that has come to the *)
(* wait, or by destroy; an exception that leaves the call is its job's.    *)
JobOfCall ==
    \A p \in Packs :
        /\ pack[p] \in {"out", "entered"} => job[p] = "none" /\ p \notin taken \cup resolved
        /\ pack[p] \in Published \cup {"submitted"} => job[p] # "none"
        /\ job[p] = "over" <=> outcome[p] # "none"
        /\ pack[p] \in {"out", "entered", "submitted", "published"} /\ p \in taken => destroy # "out"
        /\ pack[p] = "submitted" => p \notin taken \cup resolved
        /\ pack[p] \in {"waited", "reported"} => p \in resolved
        /\ pack[p] = "left" => job[p] = "over" /\ outcome[p] = "thrown"

(* A result that is there is the job's own, or destroy was turned away.    *)
Own(p, status) ==
    \/ job[p] = "over" /\ status = outcome[p] /\ outcome[p] # "thrown"
    \/ status = "Internal" /\ destroy # "out"

ResultsOwn ==
    \A p \in Packs :
        /\ error[p] = "Ok" \/ p \in resolved
        /\ p \in resolved => Own(p, error[p])
        /\ pack[p] \in {"reported", "returned"} /\ job[p] # "none" => Own(p, report[p])

(* Nobody but the pack that blocks on a running job has its future, unless *)
(* destroy blocks on it with job_mutex held.                               *)
TakenByDestroy(p) == destroy = "blocked" /\ current = p
RunningWatched ==
    \A p \in Packs : job[p] = "running" =>
        /\ p \in taken \cup resolved => pack[p] = "blocked" \/ TakenByDestroy(p)
        /\ pack[p] # "returned"

(* What the engine shows, and what a cancel has found there.               *)
CurrentPublished ==
    /\ Holding => current # NoPack
    /\ current # NoPack /\ ~Gone => pack[current] \in Published \cup {"left"}
    /\ \A p \in Packs :
          /\ destroy = "out" /\ pack[p] \in Published /\ current = NoPack
                => \E q \in Packs \ {p} : pack[q] = "returned"
          /\ pack[p] = "undefined" => Gone
    /\ \A c \in Cancels :
          /\ cancel[c] = "out" => found[c] = NoPack
          /\ cancel[c] = "found" => found[c] # NoPack
    /\ \A p \in stop : destroy # "out" \/ \E c \in Cancels : found[c] = p

BridgeInv == TypeOK /\ JobOfCall /\ ResultsOwn /\ RunningWatched /\ CurrentPublished

-----------------------------------------------------------------------------
LEMMA BridgeInit == Init => BridgeInv
BY BridgeAssumption DEF Init, BridgeInv, TypeOK, PackStates, DestroyStates, Outcomes, Statuses,
   JobOfCall, ResultsOwn,
   Own, RunningWatched, CurrentPublished, Holding, Gone, Published

LEMMA BridgeStep == BridgeInv /\ [Next]_vars => BridgeInv'
<1> SUFFICES ASSUME BridgeInv, [Next]_vars PROVE BridgeInv'
  OBVIOUS
<1> USE BridgeAssumption DEF BridgeInv, TypeOK, PackStates, DestroyStates, Outcomes, Statuses, Go,
        Holding, Gone, Published,
        cancelVars, jobVars, handleVars,
        JobOfCall, ResultsOwn, Own, RunningWatched, TakenByDestroy, CurrentPublished
<1>1. ASSUME NEW p \in Packs, Enter(p) PROVE BridgeInv'
  BY <1>1 DEF Enter
<1>2. ASSUME NEW p \in Packs, Submit(p) PROVE BridgeInv'
  BY <1>2 DEF Submit
<1>3. ASSUME NEW p \in Packs, SubmitFails(p) PROVE BridgeInv'
  BY <1>3 DEF SubmitFails
<1>4. ASSUME NEW p \in Packs, Publish(p) PROVE BridgeInv'
  BY <1>4 DEF Publish
<1>5. ASSUME NEW p \in Packs, Wait(p) PROVE BridgeInv'
  BY <1>5 DEF Wait, Take, Resolved, TurnAway
<1>6. ASSUME NEW p \in Packs, Unblock(p) PROVE BridgeInv'
  BY <1>6 DEF Unblock, Get
<1>6a. ASSUME NEW p \in Packs, UnblockThrown(p) PROVE BridgeInv'
  BY <1>6a DEF UnblockThrown, GetThrows
<1>7. ASSUME NEW p \in Packs, Report(p) PROVE BridgeInv'
  BY <1>7 DEF Report
<1>8. ASSUME NEW p \in Packs, Clear(p) PROVE BridgeInv'
  BY <1>8 DEF Clear
<1>9. ASSUME NEW p \in Packs, Dangle(p) PROVE BridgeInv'
  BY <1>9 DEF Dangle
<1>10. ASSUME NEW p \in Packs, JobEnds(p) PROVE BridgeInv'
  BY <1>10 DEF JobEnds
<1>11. ASSUME NEW c \in Cancels, Find(c) PROVE BridgeInv'
  BY <1>11 DEF Find
<1>12. ASSUME NEW c \in Cancels, Stop(c) PROVE BridgeInv'
  BY <1>12 DEF Stop
<1>13. ASSUME DestroyLock PROVE BridgeInv'
  BY <1>13 DEF DestroyLock
<1>14. ASSUME DestroyWait PROVE BridgeInv'
  BY <1>14 DEF DestroyWait, Take, Resolved, TurnAway
<1>15. ASSUME DestroyUnblock PROVE BridgeInv'
  BY <1>15 DEF DestroyUnblock, Get
<1>15a. ASSUME DestroyUnblockThrown PROVE BridgeInv'
  BY <1>15a DEF DestroyUnblockThrown, GetThrows
<1>16. ASSUME DestroyReset PROVE BridgeInv'
  BY <1>16 DEF DestroyReset
<1>17. ASSUME Delete PROVE BridgeInv'
  BY <1>17 DEF Delete
<1>18. ASSUME UNCHANGED vars PROVE BridgeInv'
  BY <1>18 DEF vars
<1> QED
  BY <1>1, <1>2, <1>3, <1>4, <1>5, <1>6, <1>6a, <1>7, <1>8, <1>9, <1>10, <1>11, <1>12, <1>13, <1>14,
     <1>15, <1>15a, <1>16, <1>17, <1>18
     DEF Next, Call, Destroy

-----------------------------------------------------------------------------
(* The program drives one pack at a time, the one clicked last, and never  *)
(* calls destroy.                                                          *)
OneAtATime ==
    /\ host = "gui" =>
          /\ destroy = "out"
          /\ \A p \in Packs : p # latest => pack[p] \in {"out", "returned"}
          /\ latest # NoPack /\ command # "native" => pack[latest] \in {"returned", "left"}
          /\ latest # NoPack /\ command = "idle" => pack[latest] = "returned"
    /\ host # "gui" => latest = NoPack
    /\ latest = NoPack => command = "idle" /\ queue = <<>> /\ (host = "gui" => \A p \in Packs : pack[p] = "out")
    /\ _engine = "none" => latest = NoPack

(* A pack that was clicked has the algorithm the toggle asked for.         *)
AlgorithmsAsked ==
    /\ gpuJobs # {} => host = "gui"
    /\ \A p \in Packs :
        /\ host = "gui" /\ (pack[p] # "out" \/ p = latest) /\ algorithm[p] # "CpuDeflate" => asked[p]
        /\ p \in gpuJobs => asked[p] /\ pack[p] # "out"

(* The rest of PackAsync is queued once, while it is posted; and after it, *)
(* the result of the pack clicked last is the last that is queued or shown.*)
ResumesOnce ==
    \A i \in DOMAIN queue : queue[i].what = "resume" =>
        command = "posted" /\ \A j \in DOMAIN queue : queue[j].what = "resume" => i = j

LastLine ==
    latest # NoPack /\ command = "idle" =>
        IF queue = <<>> THEN StatusLine = Result(latest) \/ StatusLine.what = "cancelling"
                        ELSE queue[Len(queue)] = Result(latest)

GuiInv == GuiTypeOK /\ BridgeInv /\ OneAtATime /\ AlgorithmsAsked /\ ResumesOnce /\ LastLine
-----------------------------------------------------------------------------
(* What a queue holds once an element is appended or taken. *)
LEMMA Queueing ==
    ASSUME NEW S, NEW q \in Seq(S), NEW x \in S
    PROVE  /\ Append(q, x) \in Seq(S) /\ Append(q, x) # <<>>
           /\ Len(Append(q, x)) = Len(q) + 1 /\ Len(q) \in Nat
           /\ DOMAIN Append(q, x) = 1 .. Len(q) + 1 /\ DOMAIN q = 1 .. Len(q)
           /\ Append(q, x)[Len(q) + 1] = x
           /\ \A i \in 1 .. Len(q) : Append(q, x)[i] = q[i]
<1>1. Append(q, x) \in Seq(S) /\ Append(q, x) # <<>> /\ Len(Append(q, x)) = Len(q) + 1
  BY AppendProperties
<1>2. Len(q) \in Nat /\ DOMAIN q = 1 .. Len(q) /\ DOMAIN Append(q, x) = 1 .. Len(q) + 1
  BY <1>1, LenProperties
<1> QED
  BY <1>1, <1>2, AppendProperties

LEMMA Taking ==
    ASSUME NEW S, NEW q \in Seq(S), q # <<>>
    PROVE  /\ Head(q) \in S /\ Head(q) = q[1]
           /\ Tail(q) \in Seq(S) /\ (Tail(q) = <<>> <=> Len(q) = 1)
           /\ Len(q) \in Nat \ {0} /\ Len(Tail(q)) = Len(q) - 1
           /\ DOMAIN q = 1 .. Len(q) /\ DOMAIN Tail(q) = 1 .. Len(q) - 1
           /\ \A i \in 1 .. Len(q) - 1 : Tail(q)[i] = q[i + 1]
<1>1. /\ Head(q) \in S /\ Tail(q) \in Seq(S)
      /\ Len(Tail(q)) = Len(q) - 1
      /\ \A i \in 1 .. Len(Tail(q)) : Tail(q)[i] = q[i + 1]
  BY HeadTailProperties
<1>2. Len(q) \in Nat \ {0} /\ DOMAIN q = 1 .. Len(q) /\ DOMAIN Tail(q) = 1 .. Len(q) - 1
  BY <1>1, EmptySeq, LenProperties
<1>3. Tail(q) = <<>> <=> Len(q) = 1
  BY <1>1, <1>2, EmptySeq
<1> QED
  BY <1>1, <1>2, <1>3

LEMMA GuiStepsBridge == GuiNext => Next \/ UNCHANGED vars
<1> SUFFICES ASSUME GuiNext PROVE Next \/ UNCHANGED vars
  OBVIOUS
<1>1. ASSUME NEW p \in Packs, StartTask(p) \/ GuiJobEnds(p) \/ Call(p) PROVE Next
  BY <1>1 DEF StartTask, GuiJobEnds, Next
<1>2. ASSUME NEW c \in Cancels, ClickCancel(c) \/ Stop(c) PROVE Next \/ UNCHANGED vars
  BY <1>2 DEF ClickCancel, Next
<1>3. ASSUME NEW p \in Packs, ClickPack(p) \/ Progress(p) PROVE UNCHANGED vars
  BY <1>3 DEF ClickPack, Progress
<1>4. Toggle \/ BridgeMissing \/ Post \/ Resume \/ ResumeFaults \/ Show => UNCHANGED vars
  BY DEF Toggle, BridgeMissing, Post, Resume, ResumeFaults, Show
<1> QED
  BY <1>1, <1>2, <1>3, <1>4 DEF GuiNext

LEMMA GuiInitInv == GuiInit => GuiInv
<1> SUFFICES ASSUME GuiInit PROVE GuiInv
  OBVIOUS
<1>1. BridgeInv
  BY BridgeInit DEF GuiInit
<1>2. GuiTypeOK
  <2>1. StatusLine \in Lines
    BY DEF GuiInit, Line, Lines
  <2> QED
    BY <1>1, <2>1, GuiAssumption, EmptySeq DEF GuiInit, GuiTypeOK, BridgeInv
<1>3. OneAtATime /\ LastLine
  BY DEF GuiInit, Init, OneAtATime, LastLine
<1>4. AlgorithmsAsked
  BY BridgeAssumption DEF GuiInit, Init, AlgorithmsAsked
<1>5. ResumesOnce
  <2>1. DOMAIN queue = {}
    BY DEF GuiInit
  <2> QED
    BY <2>1 DEF ResumesOnce
<1> QED
  BY <1>1, <1>2, <1>3, <1>4, <1>5 DEF GuiInv

(* The program's job that runs is that of the pack clicked last, whose     *)
(* call has not returned.                                                  *)
LEMMA RunningIsLatest ==
    GuiInv /\ host = "gui" => \A p \in Packs : job[p] = "running" =>
        p = latest /\ pack[p] \notin {"out", "returned", "left"} /\ command = "native"
BY BridgeAssumption DEF GuiInv, GuiTypeOK, BridgeInv, TypeOK, JobOfCall, RunningWatched, OneAtATime

LEMMA ResultIsLine == GuiInv => \A p \in Packs : Result(p) \in Lines
BY DEF GuiInv, GuiTypeOK, TypeOK, Result, Lines

LEMMA GuiStepInv == GuiInv /\ [GuiNext]_allVars => GuiInv'
<1> SUFFICES ASSUME GuiInv, [GuiNext]_allVars PROVE GuiInv'
  OBVIOUS
<1> USE BridgeAssumption
<1>0. BridgeInv' /\ TypeOK'
  <2>1. BridgeInv /\ [Next]_vars
    BY GuiStepsBridge DEF GuiInv, allVars
  <2> QED
    BY <2>1, BridgeStep DEF BridgeInv
<1>a. /\ GuiTypeOK /\ OneAtATime /\ AlgorithmsAsked /\ ResumesOnce /\ LastLine
      /\ TypeOK /\ queue \in Seq(Lines)
  BY DEF GuiInv, GuiTypeOK
<1>b. \A what \in {"starting", "missing", "progress", "cancelling", "resume"}, p \in Packs \cup {NoPack} :
         Line(what, p) \in Lines
  BY DEF Line, Lines
(* The user: the bridge and the queue are as they were. *)
<1>1. ASSUME Toggle PROVE GuiInv'
  <2>1. GuiTypeOK'
    BY <1>0, <1>a, <1>1 DEF Toggle, GuiTypeOK
  <2> QED
    BY <1>0, <1>a, <1>1, <2>1 DEF Toggle, GuiInv, OneAtATime, AlgorithmsAsked, ResumesOnce,
       LastLine, Result, vars
<1>2. ASSUME BridgeMissing PROVE GuiInv'
  <2>1. GuiTypeOK'
    BY <1>0, <1>a, <1>b, <1>2 DEF BridgeMissing, GuiTypeOK
  <2> QED
    BY <1>0, <1>a, <1>2, <2>1 DEF BridgeMissing, GuiInv, OneAtATime, AlgorithmsAsked, ResumesOnce,
       LastLine, Result, vars
<1>3. ASSUME NEW p \in Packs, ClickPack(p) PROVE GuiInv'
  <2>1. GpuOn \in BOOLEAN
    BY <1>a, GuiAssumption DEF GpuOn, GuiTypeOK
  <2>2. GuiTypeOK'
    BY <1>0, <1>a, <1>b, <1>3, <2>1 DEF ClickPack, AlgorithmOf, GuiTypeOK
  <2>3. OneAtATime' /\ ResumesOnce' /\ LastLine'
    BY <1>a, <1>3 DEF ClickPack, UiFree, OneAtATime, ResumesOnce, LastLine, vars
  <2>4. AlgorithmsAsked'
    BY <1>a, <1>3, <2>1 DEF ClickPack, AlgorithmOf, GuiTypeOK, AlgorithmsAsked, vars
  <2> QED
    BY <1>0, <2>2, <2>3, <2>4 DEF GuiInv
<1>4. ASSUME NEW c \in Cancels, ClickCancel(c) PROVE GuiInv'
  <2>1. UNCHANGED <<pack, report, destroy, host, algorithm, asked, latest, command, queue, gpuJobs, UseGpu, _engine>>
    BY <1>4 DEF ClickCancel, Find, vars
  <2>2. StatusLine' = Line("cancelling", NoPack)
    BY <1>4 DEF ClickCancel
  <2>3. GuiTypeOK'
    BY <1>0, <1>a, <1>b, <2>1, <2>2 DEF GuiTypeOK
  <2> QED
    BY <1>0, <1>a, <2>1, <2>2, <2>3 DEF GuiInv, OneAtATime, AlgorithmsAsked, ResumesOnce, LastLine,
       Result, Line
(* The calls and the jobs: the queue is as it was, but for progress. *)
<1>5. ASSUME NEW p \in Packs, StartTask(p) PROVE GuiInv'
  <2>1. /\ command = "native" /\ latest = p
        /\ pack' = [pack EXCEPT ![p] = "entered"]
        /\ UNCHANGED <<guiVars, destroy, report>>
    BY <1>5 DEF StartTask, Enter, Go
  <2>2. GuiTypeOK'
    BY <1>0, <1>a, <2>1 DEF GuiTypeOK, guiVars
  <2> QED
    BY <1>0, <1>a, <2>1, <2>2 DEF guiVars, GuiInv, TypeOK, OneAtATime, AlgorithmsAsked, ResumesOnce,
       LastLine, Result
<1>6. ASSUME NEW p \in Packs, Progress(p) PROVE GuiInv'
  <2>1. queue' \in Seq(Lines)
    BY <1>a, <1>b, <1>6, Queueing DEF Progress
  <2>2. GuiTypeOK'
    BY <1>0, <1>a, <1>6, <2>1 DEF Progress, GuiTypeOK
  <2>3. p = latest /\ command = "native"
    BY <1>6, RunningIsLatest DEF Progress
  <2>4. ResumesOnce'
    BY <1>a, <1>b, <1>6, Queueing DEF Progress, Line, ResumesOnce
  <2> QED
    BY <1>0, <1>a, <1>6, <2>2, <2>3, <2>4 DEF Progress, GuiInv, OneAtATime, AlgorithmsAsked,
       LastLine, vars
<1>7. ASSUME NEW p \in Packs, GuiJobEnds(p) PROVE GuiInv'
  <2>1. /\ host = "gui" /\ p = latest /\ pack[p] # "out"
        /\ UNCHANGED <<pack, report, destroy, host, algorithm, asked, latest, command, queue, UseGpu, _engine, StatusLine>>
        /\ gpuJobs' = gpuJobs \/ (gpuJobs' = gpuJobs \cup {p} /\ algorithm[p] # "CpuDeflate")
    BY <1>7, RunningIsLatest DEF GuiJobEnds, JobEnds
  <2>2. GuiTypeOK'
    BY <1>0, <1>a, <2>1 DEF GuiTypeOK
  <2> QED
    BY <1>0, <1>a, <2>1, <2>2 DEF GuiInv, OneAtATime, AlgorithmsAsked, ResumesOnce, LastLine, Result
<1>8. ASSUME NEW p \in Packs, host = "gui", Call(p), UNCHANGED guiVars PROVE GuiInv'
  <2>1. /\ pack[p] \notin {"out", "returned", "left"} /\ destroy' = destroy
        /\ \E state \in PackStates \ {"out"} : pack' = [pack EXCEPT ![p] = state]
        /\ report' = report \/ \E r : report' = [report EXCEPT ![p] = r]
    BY <1>8 DEF Call, Submit, SubmitFails, Publish, Wait, Unblock, UnblockThrown, Report, Clear,
       Dangle, Go, PackStates
  <2>2. p = latest /\ command = "native"
    BY <1>8, <1>a, <2>1 DEF OneAtATime
  <2>3. GuiTypeOK'
    BY <1>0, <1>a, <1>8 DEF GuiTypeOK, guiVars
  <2> QED
    BY <1>0, <1>a, <1>8, <2>1, <2>2, <2>3 DEF GuiInv, guiVars, TypeOK, OneAtATime, AlgorithmsAsked,
       ResumesOnce, LastLine
<1>9. ASSUME NEW c \in Cancels, Stop(c), UNCHANGED guiVars PROVE GuiInv'
  <2>1. UNCHANGED <<pack, report, destroy>>
    BY <1>9 DEF Stop
  <2>2. GuiTypeOK'
    BY <1>0, <1>a, <1>9 DEF GuiTypeOK, guiVars
  <2> QED
    BY <1>0, <1>a, <1>9, <2>1, <2>2 DEF GuiInv, guiVars, OneAtATime, AlgorithmsAsked, ResumesOnce,
       LastLine, Result
(* The way of a result to the status line. *)
<1>10. ASSUME Post PROVE GuiInv'
  <2>1. latest \in Packs
    BY <1>a, <1>10 DEF Post, OneAtATime, GuiTypeOK
  <2>2. Line("resume", latest) \in Lines
    BY <1>b, <2>1
  <2>3. queue' \in Seq(Lines)
    BY <1>a, <1>10, <2>2, Queueing DEF Post
  <2>4. GuiTypeOK'
    BY <1>0, <1>a, <1>10, <2>3 DEF Post, GuiTypeOK
  <2>5. ResumesOnce'
    BY <1>a, <1>10, <2>2, Queueing DEF Post, ResumesOnce
  <2> QED
    BY <1>0, <1>a, <1>10, <2>1, <2>4, <2>5 DEF Post, GuiInv, OneAtATime, AlgorithmsAsked, LastLine,
       vars
<1>11. ASSUME Resume PROVE GuiInv'
  <2>1. /\ Tail(queue) \in Seq(Lines) /\ queue[1].what = "resume" /\ Len(queue) \in Nat \ {0}
        /\ DOMAIN queue = 1 .. Len(queue) /\ DOMAIN Tail(queue) = 1 .. Len(queue) - 1
        /\ \A i \in 1 .. Len(queue) - 1 : Tail(queue)[i] = queue[i + 1]
        /\ Len(Tail(queue)) = Len(queue) - 1
    BY <1>a, <1>11, Taking DEF Resume
  <2>2. latest \in Packs /\ host = "gui" /\ command = "posted"
    BY <1>a, <1>11, <2>1 DEF Resume, UiFree, OneAtATime, GuiTypeOK, ResumesOnce
  <2>3. Result(latest) \in Lines
    BY <2>2, ResultIsLine
  <2>4. /\ queue' \in Seq(Lines) /\ queue' # <<>> /\ Len(queue') = Len(queue)
        /\ DOMAIN queue' = 1 .. Len(queue) /\ queue'[Len(queue)] = Result(latest)
        /\ \A i \in 1 .. Len(queue) - 1 : queue'[i] = queue[i + 1]
    BY <1>11, <2>1, <2>3, Queueing DEF Resume
  <2>5. GuiTypeOK'
    BY <1>0, <1>a, <1>11, <2>4 DEF Resume, GuiTypeOK
  <2>6. ResumesOnce'
    <3>1. ASSUME NEW i \in DOMAIN queue', queue'[i].what = "resume" PROVE FALSE
      <4>1. i # Len(queue)
        BY <2>4, <3>1 DEF Result
      <4>2. i + 1 \in DOMAIN queue /\ queue[i + 1].what = "resume" /\ 1 \in DOMAIN queue
        BY <2>1, <2>4, <3>1, <4>1
      <4> QED
        BY <1>a, <2>1, <2>4, <3>1, <4>2 DEF ResumesOnce
    <3> QED
      BY <3>1 DEF ResumesOnce
  <2>7. LastLine'
    BY <1>11, <2>4 DEF Resume, LastLine, Result, vars
  <2> QED
    BY <1>0, <1>a, <1>11, <2>2, <2>5, <2>6, <2>7 DEF Resume, GuiInv, OneAtATime, AlgorithmsAsked,
       vars
<1>11a. ASSUME ResumeFaults PROVE GuiInv'
  <2>1. /\ Tail(queue) \in Seq(Lines) /\ queue[1].what = "resume" /\ Len(queue) \in Nat \ {0}
        /\ DOMAIN queue = 1 .. Len(queue) /\ DOMAIN Tail(queue) = 1 .. Len(queue) - 1
        /\ \A i \in 1 .. Len(queue) - 1 : Tail(queue)[i] = queue[i + 1]
    BY <1>a, <1>11a, Taking DEF ResumeFaults
  <2>2. latest # NoPack
    BY <1>a, <1>11a DEF ResumeFaults, OneAtATime
  <2>3. GuiTypeOK'
    BY <1>0, <1>a, <1>11a, <2>1 DEF ResumeFaults, GuiTypeOK
  <2>4. ResumesOnce'
    <3>1. ASSUME NEW i \in DOMAIN queue', queue'[i].what = "resume" PROVE FALSE
      <4>1. i + 1 \in DOMAIN queue /\ queue[i + 1].what = "resume" /\ 1 \in DOMAIN queue /\ i \in Nat \ {0}
        BY <1>11a, <2>1, <3>1 DEF ResumeFaults
      <4> QED
        BY <1>a, <2>1, <4>1 DEF ResumesOnce
    <3> QED
      BY <3>1 DEF ResumesOnce
  <2> QED
    BY <1>0, <1>a, <1>11a, <2>2, <2>3, <2>4 DEF ResumeFaults, GuiInv, OneAtATime, AlgorithmsAsked,
       LastLine, vars
<1>12. ASSUME Show PROVE GuiInv'
  <2>1. /\ Tail(queue) \in Seq(Lines) /\ Len(queue) \in Nat \ {0} /\ Head(queue) \in Lines
        /\ Head(queue) = queue[1] /\ (Tail(queue) = <<>> <=> Len(queue) = 1)
        /\ DOMAIN queue = 1 .. Len(queue) /\ DOMAIN Tail(queue) = 1 .. Len(queue) - 1
        /\ \A i \in 1 .. Len(queue) - 1 : Tail(queue)[i] = queue[i + 1]
        /\ Len(Tail(queue)) = Len(queue) - 1
    BY <1>a, <1>12, Taking DEF Show
  <2>2. GuiTypeOK'
    BY <1>0, <1>a, <1>12, <2>1 DEF Show, GuiTypeOK
  <2>3. ResumesOnce'
    BY <1>a, <1>12, <2>1 DEF Show, ResumesOnce
  <2>4. LastLine'
    <3>1. CASE Len(queue) = 1
      BY <1>a, <1>12, <2>1, <3>1 DEF Show, LastLine, Result, vars
    <3>2. CASE Len(queue) # 1
      <4>1. Tail(queue)[Len(queue) - 1] = queue[Len(queue)]
        BY <2>1, <3>2
      <4> QED
        BY <1>a, <1>12, <2>1, <3>2, <4>1 DEF Show, LastLine, Result, vars
    <3> QED
      BY <3>1, <3>2
  <2> QED
    BY <1>0, <1>a, <1>12, <2>2, <2>3, <2>4 DEF Show, UiFree, GuiInv, OneAtATime, AlgorithmsAsked,
       vars
(* Another host, and no step at all. *)
<1>13. ASSUME host = "any", UNCHANGED guiVars PROVE GuiInv'
  <2>1. GuiTypeOK'
    BY <1>0, <1>a, <1>13 DEF GuiTypeOK, guiVars
  <2> QED
    BY <1>0, <1>a, <1>13, <2>1 DEF GuiInv, guiVars, OneAtATime, AlgorithmsAsked, ResumesOnce,
       LastLine
<1>14. ASSUME UNCHANGED allVars PROVE GuiInv'
  <2>1. GuiTypeOK'
    BY <1>0, <1>a, <1>14 DEF GuiTypeOK, allVars, guiVars
  <2> QED
    BY <1>0, <1>a, <1>14, <2>1 DEF allVars, vars, guiVars, GuiInv, OneAtATime, AlgorithmsAsked,
       ResumesOnce, LastLine, Result
<1> QED
  BY <1>1, <1>2, <1>3, <1>4, <1>5, <1>6, <1>7, <1>8, <1>9, <1>10, <1>11, <1>11a, <1>12, <1>13, <1>14
     DEF GuiNext
-----------------------------------------------------------------------------
(* What the invariants say of a state, and of a step.                      *)
LEMMA BridgeInvSafe == BridgeInv => PackBlocks /\ ReportsOwn /\ CancelsMeant
BY DEF BridgeInv, TypeOK, JobOfCall, ResultsOwn, Own, RunningWatched, CurrentPublished, Published, PackBlocks,
   ReportsOwn, CancelsMeant

LEMMA GuiInvSafe == GuiInv => GuiTypeOK /\ ToggleObeyed /\ ResultStands
<1> SUFFICES ASSUME GuiInv PROVE GuiTypeOK /\ ToggleObeyed /\ ResultStands
  OBVIOUS
<1>1. GuiTypeOK
  BY DEF GuiInv
<1>2. ToggleObeyed
  BY DEF GuiInv, GuiTypeOK, AlgorithmsAsked, ToggleObeyed
<1>3. ASSUME latest # NoPack, command = "idle", job[latest] = "over" PROVE report[latest] = outcome[latest]
  <2>1. latest \in Packs /\ pack[latest] = "returned" /\ destroy = "out"
    BY <1>3 DEF GuiInv, GuiTypeOK, OneAtATime
  <2> QED
    BY <1>3, <2>1 DEF GuiInv, BridgeInv, ResultsOwn, Own
<1>4. ResultStands
  BY <1>3 DEF GuiInv, LastLine, ResultStands
<1> QED
  BY <1>1, <1>2, <1>4

MissesNobody ==
    \A c \in Cancels, p \in Packs :
        Missed(c) /\ pack[p] \in {"published", "blocked"} => \E q \in Packs \ {p} : pack[q] = "returned"

LEMMA StepMissesNobody == BridgeInv /\ [Next]_vars => MissesNobody
<1> SUFFICES ASSUME BridgeInv, [Next]_vars, NEW c \in Cancels, Missed(c) PROVE destroy = "out" /\ current = NoPack
  BY BridgeAssumption DEF BridgeInv, CurrentPublished, Published, MissesNobody
<1> USE DEF Missed
<1>1. ASSUME NEW p \in Packs, Enter(p) \/ Call(p) \/ JobEnds(p) PROVE UNCHANGED cancel
  BY <1>1 DEF Enter, Call, Submit, SubmitFails, Publish, Wait, Unblock, UnblockThrown, Report,
     Clear, Dangle, JobEnds, cancelVars
<1>2. DestroyLock \/ Destroy \/ UNCHANGED vars => UNCHANGED cancel
  BY DEF DestroyLock, Destroy, DestroyWait, DestroyUnblock, DestroyUnblockThrown, DestroyReset,
     Delete, cancelVars, vars
<1>3. ASSUME NEW d \in Cancels, Stop(d) PROVE FALSE
  BY <1>3 DEF Stop, BridgeInv, TypeOK
<1>4. ASSUME NEW d \in Cancels, Find(d) PROVE destroy = "out" /\ current = NoPack
  BY <1>4 DEF Find, BridgeInv, TypeOK
<1> QED
  BY <1>1, <1>2, <1>3, <1>4 DEF Next

-----------------------------------------------------------------------------
(* The bridge, with any host (c_bridge.cpp): whatever pack, cancel and     *)
(* destroy calls are interleaved, a pack that has returned leaves no job   *)
(* running, its status is that of its own job unless destroy was called,   *)
(* an exception of the job leaves the pack and nothing else, the engine    *)
(* shows no job of a pack that has returned, and a stop reaches only a job *)
(* that a cancel found, or destroy.                                        *)
THEOREM BridgeSafe == Spec => [](TypeOK /\ PackBlocks /\ ReportsOwn /\ CancelsMeant)
<1>1. BridgeInv => TypeOK
  BY DEF BridgeInv
<1> QED
  BY <1>1, BridgeInit, BridgeStep, BridgeInvSafe, PTL DEF Spec

(* A cancel that returns without a job has not missed a pack that waits    *)
(* for its own, unless another pack has returned meanwhile                 *)
(* (collapsar_engine_cancel reads engine->job, which collapsar_engine_pack *)
(* has stored before it waits, and which each pack resets when it returns  *)
(* and not when an exception leaves it).                                   *)
THEOREM BridgeCancelReaches == Spec => CancelReachesWaiting
<1>1. BridgeInv /\ [Next]_vars => [MissesNobody]_vars
  BY StepMissesNobody
<1> QED
  BY <1>1, BridgeInit, BridgeStep, PTL DEF Spec, CancelReachesWaiting, MissesNobody

(* The future a call blocks on has been moved out. *)
Blocking ==
    /\ \A p \in Packs : pack[p] = "blocked" => p \in taken
    /\ destroy = "blocked" => current \in taken

LEMMA StepBlocking == TypeOK /\ Blocking /\ [Next]_vars => Blocking'
<1> SUFFICES ASSUME TypeOK, Blocking, [Next]_vars PROVE Blocking'
  OBVIOUS
<1> USE DEF TypeOK, PackStates, DestroyStates, Blocking, Go, Holding, handleVars, jobVars, cancelVars
<1>1. ASSUME NEW p \in Packs, Enter(p) \/ Call(p) \/ JobEnds(p) PROVE Blocking'
  BY <1>1 DEF Enter, Call, Submit, SubmitFails, Publish, Wait, Take, Resolved, TurnAway, Unblock,
     Get, UnblockThrown, GetThrows, Report, Clear, Dangle, JobEnds
<1>2. ASSUME NEW c \in Cancels, Find(c) \/ Stop(c) PROVE Blocking'
  BY <1>2 DEF Find, Stop
<1>3. DestroyLock \/ Destroy \/ UNCHANGED vars => Blocking'
  BY DEF DestroyLock, Destroy, DestroyWait, DestroyUnblock, DestroyUnblockThrown, DestroyReset,
     Delete, Take, Resolved, TurnAway, Get, GetThrows, vars
<1> QED
  BY <1>1, <1>2, <1>3 DEF Next

(* The handle of q's job: what a call does to it. *)
HandlesStep == \A q \in Packs : [JR(q)!Next]_(JR(q)!vars)

LEMMA StepHandles == BridgeInv /\ Blocking /\ [Next]_vars => HandlesStep
<1> SUFFICES ASSUME BridgeInv, Blocking, [Next]_vars, NEW q \in Packs
    PROVE  [JR(q)!Next]_(JR(q)!vars)
  BY DEF HandlesStep
<1> USE DEF BridgeInv, TypeOK, PackStates, DestroyStates, Outcomes, Blocking, Holding, handleVars, jobVars,
     cancelVars, Statuses, JR!Next, JR!vars
<1>1. ASSUME NEW p \in Packs, Enter(p) \/ Submit(p) \/ SubmitFails(p) \/ Publish(p) \/ UnblockThrown(p)
                                     \/ Report(p) \/ Clear(p) \/ Dangle(p)
      PROVE  UNCHANGED JR(q)!vars
  BY <1>1 DEF Enter, Submit, SubmitFails, Publish, UnblockThrown, GetThrows, Report, Clear, Dangle
<1>2. ASSUME NEW p \in Packs, Wait(p) PROVE [JR(q)!Next]_(JR(q)!vars)
  BY <1>2 DEF Wait, Take, Resolved, TurnAway, JR!Take, JR!TurnAway
<1>3. ASSUME NEW p \in Packs, Unblock(p) PROVE [JR(q)!Next]_(JR(q)!vars)
  BY <1>3 DEF Unblock, Get, JobOfCall, JR!Get
<1>4. ASSUME NEW p \in Packs, JobEnds(p) PROVE [JR(q)!Next]_(JR(q)!vars)
  BY <1>4 DEF JobEnds, JobOfCall, JR!End
<1>5. ASSUME NEW c \in Cancels, Find(c) \/ Stop(c) PROVE [JR(q)!Next]_(JR(q)!vars)
  BY <1>5 DEF Find, Stop, JR!RequestStop
<1>6. DestroyLock => [JR(q)!Next]_(JR(q)!vars)
  BY DEF DestroyLock, JR!RequestStop
<1>7. DestroyWait => [JR(q)!Next]_(JR(q)!vars)
  BY DEF DestroyWait, Take, Resolved, TurnAway, JR!Take, JR!TurnAway
<1>8. DestroyUnblock => [JR(q)!Next]_(JR(q)!vars)
  BY DEF DestroyUnblock, Get, JobOfCall, JR!Get
<1>9. DestroyUnblockThrown \/ DestroyReset \/ Delete \/ UNCHANGED vars => UNCHANGED JR(q)!vars
  BY DEF DestroyUnblockThrown, GetThrows, DestroyReset, Delete, vars
<1> QED
  BY <1>1, <1>2, <1>3, <1>4, <1>5, <1>6, <1>7, <1>8, <1>9 DEF Next, Call, Destroy

LEMMA InitHandles == Init => Blocking /\ \A p \in Packs : JR(p)!Init
BY DEF Init, Blocking, JR!Init

(* The handle of each pack's job is a JobResult, as that of JobHandle.tla  *)
(* is, whichever of pack and destroy waits for it first and however many   *)
(* jobs there are at once (c_bridge.cpp).                                  *)
THEOREM BridgeHandlesSound == Spec => TakesJobResultSteps
<1>1. BridgeInv => TypeOK
  BY DEF BridgeInv
<1>2. BridgeInv /\ Blocking /\ [Next]_vars => [HandlesStep]_vars
  BY StepHandles
<1>3. BridgeInv /\ Blocking /\ [Next]_vars => [\A p \in Packs : [JR(p)!Next]_(JR(p)!vars)]_vars
  BY <1>2 DEF HandlesStep
<1> QED
  BY <1>1, <1>3, BridgeInit, BridgeStep, InitHandles, StepBlocking, PTL DEF Spec, TakesJobResultSteps

LEMMA GuiInductive == GuiSpec => [](GuiInv /\ BridgeInv)
<1>1. GuiInv => BridgeInv
  BY DEF GuiInv
<1> QED
  BY <1>1, GuiInitInv, GuiStepInv, PTL DEF GuiSpec

LEMMA GuiStepsNext == [GuiNext]_allVars => [Next]_vars
BY GuiStepsBridge DEF allVars

(* The desktop program keeps the promises of the bridge: its dispatcher,   *)
(* its one pack at a time and its cancel button are among the              *)
(* interleavings the bridge is proved for. First: when the pool thread's   *)
(* collapsar_engine_pack returns, no job of it runs on.                    *)
THEOREM PackAlwaysBlocks == GuiSpec => []PackBlocks
BY GuiInductive, BridgeInvSafe, PTL

(* The status that PackAsync is given is that of the job it started.       *)
THEOREM ReportsAlwaysOwn == GuiSpec => []ReportsOwn
BY GuiInductive, BridgeInvSafe, PTL

(* No stop reaches a job other than the one a cancel click found, and the  *)
(* engine shows no job whose pack has returned: after an exception, the    *)
(* job that ended with it and no other.                                    *)
THEOREM CancelsAlwaysMeant == GuiSpec => []CancelsMeant
BY GuiInductive, BridgeInvSafe, PTL

(* The cancel button, pressed while a pack waits for its job, finds a job  *)
(* unless another pack has returned (MainViewModel.cs, Cancel).            *)
THEOREM GuiCancelReaches == GuiSpec => CancelReachesWaiting
<1>1. BridgeInv /\ [GuiNext]_allVars => [MissesNobody]_vars
  BY GuiStepsBridge, StepMissesNobody DEF allVars
<1> QED
  BY <1>1, GuiInductive, PTL DEF GuiSpec, CancelReachesWaiting, MissesNobody

(* The jobs of the packs that were clicked are JobResults too. *)
THEOREM GuiHandlesSound == GuiSpec => TakesJobResultSteps
<1>1. BridgeInv => TypeOK
  BY DEF BridgeInv
<1>2. BridgeInv /\ Blocking /\ [GuiNext]_allVars => [\A p \in Packs : [JR(p)!Next]_(JR(p)!vars)]_vars
  BY GuiStepsNext, StepHandles DEF HandlesStep
<1>3. TypeOK /\ Blocking /\ [GuiNext]_allVars => Blocking'
  BY GuiStepsNext, StepBlocking
<1>4. GuiInit => Init
  BY DEF GuiInit
<1> QED
  BY <1>1, <1>2, <1>3, <1>4, GuiInductive, InitHandles, PTL DEF GuiSpec, TakesJobResultSteps

(* Every variable of the view model, the dispatcher and the bridge keeps   *)
(* its type.                                                               *)
THEOREM GuiTypeCorrect == GuiSpec => []GuiTypeOK
BY GuiInductive, GuiInvSafe, PTL

(* No block of a pack that was clicked with the toggle off is compressed   *)
(* on the GPU, although the engine keeps the setting of the first pack     *)
(* (MainViewModel.cs, PackAsync and EnsureEngine).                         *)
THEOREM ToggleAlwaysObeyed == GuiSpec => []ToggleObeyed
BY GuiInductive, GuiInvSafe, PTL

(* When nothing runs or is queued, the status line is the outcome of the   *)
(* pack clicked last, however many progress events the job's thread has    *)
(* queued on the dispatcher before it ended.                               *)
THEOREM ResultAlwaysStands == GuiSpec => []ResultStands
BY GuiInductive, GuiInvSafe, PTL
=============================================================================
