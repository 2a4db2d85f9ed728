---------------------------- MODULE ReflexService ----------------------------
(***************************************************************************)
(* The reflex runtime as a service: the endpoints that start it, stop it   *)
(* and set its goal, each served by a thread of its own, the decision      *)
(* worker and the execution observer of the control runtime, and the files *)
(* of artifacts/reflex that survive the process                            *)
(* (interface/api/src/IntentApiServer.cpp).                                *)
(*                                                                         *)
(* A call is the list of steps that its thread still has to take; a step   *)
(* is what happens under one lock or to one file. Outcomes are numbered.   *)
(***************************************************************************)
EXTENDS Integers, Sequences

CONSTANTS
    Clients,         \* connections that are served at once
    Calls,           \* what they may call: "start", "stop", "control stop", "goal"
    Goals, NoGoal,
    KMaxExperience,  \* 512 in the code
    KOutcomes, KQueued, KCrashes, KCalls   \* bounds

ServiceAssumption ==
    /\ NoGoal \notin Goals /\ KMaxExperience \in Nat \ {0}
    /\ {KOutcomes, KQueued, KCrashes, KCalls} \subseteq Nat

VARIABLES
    todo,            \* [Clients -> the steps left]
    argument,        \* the goal of a call
    copied,          \* what its PersistUrePersistentState has read: [goal, experience]
    calls,
    control,         \* the control runtime: "none", "stopped", "running", "ended" with its pipeline running
    active,          \* ureRuntime_.active
    provider, observer,   \* installed in the control runtime
    goal, experience,     \* ureRuntime_.goal, and the outcomes the agent remembers
    worker,          \* of the decision worker: "idle", "called", "deciding"
    executing,       \* of the control loop: "idle", "observed", "unobserved"
    queued,          \* intents of the reflex runtime in the control runtime
    goalFile, experienceFile,
    recorded,        \* outcomes so far
    late,            \* decisions queued since the last stop
    met,             \* [Clients -> what its call met while it was served: "opposite", "save"]
    settled,         \* the start or stop that was carried through last, and what it met
    crashes

threads == <<todo, argument, copied, calls>>
service == <<control, active, provider, observer>>
memory == <<goal, experience, recorded>>
runtime == <<worker, executing, queued, late>>
files == <<goalFile, experienceFile>>
meetings == <<met, settled>>
vars == <<threads, service, memory, runtime, files, meetings, crashes>>

Persist == <<"read goal", "read experience", "truncate goal", "write goal", "truncate experience", "write experience">>

\* A second stop ends at its first step.
StartSteps == <<"start", "activate", "install", "observe">>
StopSteps == <<"deactivate", "uninstall", "unobserve">> \o Persist
ControlStopSteps == <<"uninstall", "unobserve", "forget">> \o Persist \o <<"request halt", "halt">>
GoalSteps == <<"goal">> \o Persist

Steps(call) ==
    CASE call = "start" -> StartSteps
      [] call = "stop" -> StopSteps
      [] call = "control stop" -> ControlStopSteps
      [] call = "goal" -> GoalSteps

Quiet == \A c \in Clients : todo[c] = <<>>

\* Where a call is decides what another one meets in it: a start and a stop meet their opposite,
\* and a stop meets whoever may still write an older copy of the outcomes.
Starting == {"start", "activate", "install", "observe"}
Stopping == {"deactivate", "uninstall", "unobserve", "forget"}
Saving == Stopping \cup {"goal", "read goal", "read experience", "truncate goal", "write goal",
                         "truncate experience", "write experience"}

In(steps, places) == steps # <<>> /\ Head(steps) \in places

Opposed(steps, others) ==
    \/ In(steps, Starting) /\ In(others, Stopping)
    \/ In(steps, Stopping) /\ In(others, Starting)

Meets(steps, others) ==
    {m \in {"opposite", "save"} : IF m = "opposite" THEN Opposed(steps, others)
                                 ELSE In(steps, Stopping) /\ In(others, Saving)}

-----------------------------------------------------------------------------
Init ==
    /\ todo = [c \in Clients |-> <<>>] /\ argument = [c \in Clients |-> NoGoal]
    /\ copied = [c \in Clients |-> [goal |-> NoGoal, experience |-> <<>>]]
    /\ calls = 0
    /\ control = "none" /\ active = FALSE /\ provider = FALSE /\ observer = FALSE
    /\ goal = NoGoal /\ experience = <<>> /\ recorded = 0
    /\ worker = "idle" /\ executing = "idle" /\ queued = 0 /\ late = 0
    /\ goalFile = NoGoal /\ experienceFile = <<>>
    /\ met = [c \in Clients |-> {}] /\ settled = [call |-> "none", met |-> {}] /\ crashes = 0

Receive(c) ==
    /\ todo[c] = <<>> /\ calls < KCalls
    /\ \E call \in Calls, g \in Goals \cup {NoGoal} :
          /\ (call # "goal" => g = NoGoal)
          /\ todo' = [todo EXCEPT ![c] = Steps(call)]
          /\ argument' = [argument EXCEPT ![c] = g]
          /\ met' = [d \in Clients |-> IF d = c THEN UNION {Meets(Steps(call), todo[e]) : e \in Clients}
                                       ELSE met[d] \cup Meets(todo[d], Steps(call))]
    /\ calls' = calls + 1
    /\ UNCHANGED <<copied, service, memory, runtime, files, settled, crashes>>

At(c, step) == todo[c] # <<>> /\ Head(todo[c]) = step
Continue(c) == todo' = [todo EXCEPT ![c] = Tail(@)] /\ UNCHANGED <<argument, calls>>
Answer(c) == todo' = [todo EXCEPT ![c] = <<>>] /\ UNCHANGED <<argument, calls>>

\* /ure/start. A runtime that was seen stopped may have been started by another thread; one whose
\* frames ended still has its observation pipeline, and refuses.
StartRuntime(c) ==
    /\ At(c, "start")
    /\ CASE control = "running" -> (Continue(c) \/ Answer(c)) /\ UNCHANGED <<control, queued>>
         [] control = "ended" -> Answer(c) /\ queued' = 0 /\ UNCHANGED control
         [] OTHER -> Continue(c) /\ queued' = 0 /\ control' = "running"
    /\ UNCHANGED <<copied, active, provider, observer, memory, worker, executing, late, files, meetings, crashes>>

Activate(c) ==
    /\ At(c, "activate") /\ Continue(c)
    /\ active' = TRUE /\ late' = 0
    /\ UNCHANGED <<copied, control, provider, observer, memory, worker, executing, queued, files, meetings, crashes>>

Install(c) ==
    /\ At(c, "install") /\ Continue(c)
    /\ provider' = TRUE
    /\ UNCHANGED <<copied, control, active, observer, memory, runtime, files, meetings, crashes>>

Observe(c) ==
    /\ At(c, "observe") /\ Continue(c)
    /\ observer' = TRUE /\ settled' = [call |-> "start", met |-> met[c]]
    /\ UNCHANGED <<copied, control, active, provider, memory, runtime, files, met, crashes>>

-----------------------------------------------------------------------------
\* /ure/stop and /control/stop.
Deactivate(c) ==
    /\ At(c, "deactivate")
    /\ IF active THEN Continue(c) ELSE Answer(c)
    /\ active' = FALSE
    /\ UNCHANGED <<copied, control, provider, observer, memory, runtime, files, meetings, crashes>>

Forget(c) ==
    /\ At(c, "forget") /\ Continue(c)
    /\ active' = FALSE
    /\ UNCHANGED <<copied, control, provider, observer, memory, runtime, files, meetings, crashes>>

Uninstall(c) ==
    /\ At(c, "uninstall")
    /\ IF control = "none" THEN Answer(c) ELSE Continue(c)
    /\ provider' = FALSE
    /\ UNCHANGED <<copied, control, active, observer, memory, runtime, files, meetings, crashes>>

Unobserve(c) ==
    /\ At(c, "unobserve") /\ Continue(c)
    /\ observer' = FALSE /\ settled' = [call |-> "stop", met |-> met[c]]
    /\ UNCHANGED <<copied, control, active, provider, memory, runtime, files, met, crashes>>

\* ControlRuntime::Stop, and the threads it joins.
RequestHalt(c) ==
    /\ At(c, "request halt") /\ Continue(c)
    /\ control' = IF control = "running" THEN "ended" ELSE control
    /\ UNCHANGED <<copied, active, provider, observer, memory, runtime, files, meetings, crashes>>

Halt(c) ==
    /\ At(c, "halt") /\ Continue(c) /\ executing = "idle" /\ worker = "idle"
    /\ control' = "stopped"
    /\ UNCHANGED <<copied, active, provider, observer, memory, runtime, files, meetings, crashes>>

\* /ure/goal.
SetGoal(c) ==
    /\ At(c, "goal") /\ Continue(c)
    /\ goal' = argument[c]
    /\ UNCHANGED <<copied, service, experience, recorded, runtime, files, meetings, crashes>>

-----------------------------------------------------------------------------
\* PersistUrePersistentState: two copies, each under its lock, then the files.
ReadGoal(c) ==
    /\ At(c, "read goal") /\ Continue(c)
    /\ copied' = [copied EXCEPT ![c].goal = goal]
    /\ UNCHANGED <<service, memory, runtime, files, meetings, crashes>>

ReadExperience(c) ==
    /\ At(c, "read experience") /\ Continue(c)
    /\ copied' = [copied EXCEPT ![c].experience = experience]
    /\ UNCHANGED <<service, memory, runtime, files, meetings, crashes>>

\* An empty goal file is as good as none.
TruncateGoal(c) ==
    /\ At(c, "truncate goal") /\ Continue(c)
    /\ goalFile' = NoGoal
    /\ UNCHANGED <<copied, service, memory, runtime, experienceFile, meetings, crashes>>

WriteGoal(c) ==
    /\ At(c, "write goal") /\ Continue(c)
    /\ goalFile' = copied[c].goal
    /\ UNCHANGED <<copied, service, memory, runtime, experienceFile, meetings, crashes>>

TruncateExperience(c) ==
    /\ At(c, "truncate experience") /\ Continue(c)
    /\ experienceFile' = <<>>
    /\ UNCHANGED <<copied, service, memory, runtime, goalFile, meetings, crashes>>

AppendEntries(file, entries) == file \o entries   \* variant: written behind what is there

\* Entries are written from the beginning; what another thread wrote behind them stays. (Copies that
\* two threads write at once are prefixes of one another until KMaxExperience outcomes are recorded:
\* the bytes of their entries agree. After that, entries of different lengths may be spliced.)
Overwrite(file, entries) == [i \in DOMAIN file \cup DOMAIN entries |-> IF i \in DOMAIN entries THEN entries[i] ELSE file[i]]

WriteExperience(c) ==
    /\ At(c, "write experience") /\ Continue(c)
    /\ experienceFile' = Overwrite(experienceFile, copied[c].experience)
    /\ UNCHANGED <<copied, service, memory, runtime, goalFile, meetings, crashes>>

-----------------------------------------------------------------------------
\* The decision worker takes the provider it finds, and the provider asks whether it is active.
CallProvider ==
    /\ control = "running" /\ provider /\ worker = "idle"
    /\ worker' = "called"
    /\ UNCHANGED <<threads, service, memory, executing, queued, late, files, meetings, crashes>>

TakeSnapshot ==
    /\ worker = "called"
    /\ worker' = IF active THEN "deciding" ELSE "idle"
    /\ UNCHANGED <<threads, service, memory, executing, queued, late, files, meetings, crashes>>

\* EnqueueIntent, which a stopping runtime refuses; a frame may also have no intents.
Enqueue ==
    /\ worker = "deciding" /\ worker' = "idle"
    /\ \/ control = "running" /\ queued < KQueued /\ queued' = queued + 1
          /\ late' = IF ~active THEN late + 1 ELSE late
       \/ UNCHANGED <<queued, late>>
    /\ UNCHANGED <<threads, service, memory, executing, files, meetings, crashes>>

\* The control loop executes an intent, copies the observer and calls the copy.
Execute ==
    /\ control = "running" /\ executing = "idle" /\ queued > 0
    /\ queued' = queued - 1
    /\ executing' = IF observer THEN "observed" ELSE "unobserved"
    /\ UNCHANGED <<threads, service, memory, worker, late, files, meetings, crashes>>

Latest(entries) == IF Len(entries) > KMaxExperience THEN Tail(entries) ELSE entries

Report ==
    /\ executing # "idle" /\ executing' = "idle"
    /\ \/ executing = "observed" /\ recorded < KOutcomes
          /\ recorded' = recorded + 1
          /\ experience' = Latest(Append(experience, recorded'))
       \/ (executing = "unobserved" \/ recorded = KOutcomes) /\ UNCHANGED <<experience, recorded>>
    /\ UNCHANGED <<threads, service, goal, worker, queued, late, files, meetings, crashes>>

\* The runtime ends by itself after its frames; the endpoints are not told.
RuntimeEnds ==
    /\ control = "running" /\ executing = "idle"
    /\ control' = "ended"
    /\ UNCHANGED <<threads, active, provider, observer, memory, runtime, files, meetings, crashes>>

\* The process ends anywhere; entries that are being written are written in part. The next one
\* restores what it finds.
Crash ==
    /\ crashes < KCrashes /\ crashes' = crashes + 1
    /\ \/ UNCHANGED experienceFile
       \/ \E c \in Clients : /\ At(c, "write experience") /\ experienceFile = <<>>
                             /\ \E n \in 1..Len(copied[c].experience) :
                                    experienceFile' = SubSeq(copied[c].experience, 1, n)
    /\ goal' = goalFile /\ experience' = experienceFile' /\ UNCHANGED <<recorded, goalFile>>
    /\ todo' = [c \in Clients |-> <<>>] /\ argument' = [c \in Clients |-> NoGoal]
    /\ copied' = [c \in Clients |-> [goal |-> NoGoal, experience |-> <<>>]] /\ UNCHANGED calls
    /\ control' = "none" /\ active' = FALSE /\ provider' = FALSE /\ observer' = FALSE
    /\ worker' = "idle" /\ executing' = "idle" /\ queued' = 0 /\ late' = 0
    /\ met' = [c \in Clients |-> {}] /\ settled' = [call |-> "none", met |-> {}]

Next ==
    \/ \E c \in Clients :
          \/ Receive(c) \/ StartRuntime(c) \/ Activate(c) \/ Install(c) \/ Observe(c)
          \/ Deactivate(c) \/ Forget(c) \/ Uninstall(c) \/ Unobserve(c) \/ RequestHalt(c) \/ Halt(c) \/ SetGoal(c)
          \/ ReadGoal(c) \/ ReadExperience(c)
          \/ TruncateGoal(c) \/ WriteGoal(c) \/ TruncateExperience(c) \/ WriteExperience(c)
    \/ CallProvider \/ TakeSnapshot \/ Enqueue \/ Execute \/ Report
    \/ RuntimeEnds \/ Crash

Spec == Init /\ [][Next]_vars

-----------------------------------------------------------------------------
\* A call's steps, the copies and the files are of their kinds.
TypeOK ==
    /\ \A c \in Clients : Len(todo[c]) <= Len(ControlStopSteps)
    /\ goal \in Goals \cup {NoGoal} /\ goalFile \in Goals \cup {NoGoal}
    /\ Len(experience) <= KMaxExperience /\ recorded \in 0..KOutcomes
    /\ worker \in {"idle", "called", "deciding"} /\ executing \in {"idle", "observed", "unobserved"}
    /\ queued \in 0..KQueued

\* When no call is served, the last start or stop that was carried through has done all of it, or
\* none is left of it, unless it met its opposite: a stop that comes between the activation and the
\* installation of a start may leave either without the other.
ActiveMeansInstalled ==
    Quiet /\ "opposite" \notin settled.met =>
        IF settled.call = "start" THEN active /\ provider /\ observer ELSE ~active /\ ~provider /\ ~observer

\* A stop lets one decision through that was being made, and not another: whatever the endpoints'
\* threads have uninstalled by then.
AtMostOneLateDecision == late <= 1

\* The experience file holds outcomes in the order they were recorded in, none of them twice:
\* whatever threads wrote to it, and wherever the process ended.
ExperienceInOrder ==
    \A i, j \in DOMAIN experienceFile : i < j => experienceFile[i] < experienceFile[j] /\ experienceFile[j] <= recorded

\* When no call is served and the last was a stop that met neither a start nor another save, all
\* outcomes are in the file, but for one that was being reported.
StopSaves ==
    Quiet /\ settled = [call |-> "stop", met |-> {}] =>
        \/ experienceFile = experience
        \/ \E n \in 1..recorded : experience = Latest(Append(experienceFile, n))

\* docs/reflex_runtime.md: the state is saved on goal updates. When no call is served, the goal in
\* the file is the goal in memory.
GoalIsSaved == Quiet => goalFile = goal
=============================================================================
