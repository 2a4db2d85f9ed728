--------------------------- MODULE RuntimeLifecycle ---------------------------
(***************************************************************************)
(* Start and Stop of the control runtime called by threads that race, as   *)
(* the API's handlers of /control/start, /control/stop and /ure/start do   *)
(* (core/execution/src/ControlRuntime.cpp, EnvironmentAdapter.cpp).        *)
(*                                                                         *)
(* ControlRuntime has one controller and the whole work of its threads;    *)
(* here a thread only runs and ends, and what matters is who sees which    *)
(* flag, who joins whom and which handle is assigned or cleared.           *)
(*                                                                         *)
(* Start is one critical section of mutex_. Stop is two short ones and     *)
(* then joins without any lock. The handles are std::thread members that   *)
(* no lock protects: join waits for the thread the handle had when it was  *)
(* called, and clears the handle as it is when the wait is over.           *)
(***************************************************************************)
EXTENDS Integers, FiniteSets

CONSTANTS
    Starters, Stoppers,   \* threads that call Start, and threads that call Stop
    MaxStarts             \* bound: calls of Start that are not refused as already running

MaxStartsAssumption == MaxStarts \in Nat

Callers == Starters \cup Stoppers
Threads == {"loop", "decision", "pipeline"}

VARIABLES
    running, stopRequested,    \* of the runtime, under mutex_
    decisionStopRequested,     \* under decisionMutex_
    pipelineRunning,           \* of the pipeline, under its own mutex_
    pipelineStopRequested,
    alive,         \* the threads that have not returned
    joinable,      \* the handles that name a thread
    at,            \* a controller's place: in "idle", in "flags", or at a thread
    starts,
    \* history
    disturbed,     \* the controllers whose Stop saw a Start since it began
    overlapped,    \* a session was started during a Stop
    stopping,      \* a Stop began after the last Start
    terminated     \* std::terminate was called

flags == <<running, stopRequested, decisionStopRequested, pipelineRunning, pipelineStopRequested>>
history == <<starts, disturbed, overlapped, stopping>>
vars == <<flags, alive, joinable, at, history, terminated>>

Idle == [thread |-> "none", phase |-> "idle"]
Flagged == [thread |-> "none", phase |-> "flags"]
Place(t, phase) == [thread |-> t, phase |-> phase]
Places == {Idle, Flagged} \cup [thread : Threads, phase : {"try", "wait", "clear"}]

Init ==
    /\ running = FALSE /\ stopRequested = FALSE /\ decisionStopRequested = FALSE
    /\ pipelineRunning = FALSE /\ pipelineStopRequested = FALSE
    /\ alive = {} /\ joinable = {}
    /\ at = [c \in Callers |-> Idle]
    /\ starts = 0 /\ disturbed = {} /\ overlapped = FALSE /\ stopping = FALSE
    /\ terminated = FALSE

-----------------------------------------------------------------------------
\* Start, for a runtime that is not running. It clears the stop flags first, whoever raised
\* them; then a pipeline that still runs makes it fail.
MayStart(c) == at[c] = Idle /\ ~running /\ starts < MaxStarts

Disturb ==
    /\ starts' = starts + 1
    /\ disturbed' = {c \in Callers : at[c] # Idle}
    /\ overlapped' = (overlapped \/ (disturbed' # {} /\ ~pipelineRunning))
    /\ stopping' = FALSE

StartBlindly(c) ==   \* variant: the pipeline's answer is not looked at
    /\ MayStart(c) /\ pipelineRunning /\ Disturb
    /\ running' = TRUE /\ stopRequested' = FALSE /\ decisionStopRequested' = FALSE
    /\ IF "loop" \in joinable THEN terminated' = TRUE /\ UNCHANGED <<alive, joinable>>
       ELSE /\ alive' = alive \cup {"loop", "decision"} /\ joinable' = joinable \cup {"loop", "decision"}
            /\ UNCHANGED terminated
    /\ UNCHANGED <<pipelineRunning, pipelineStopRequested, at>>

StartRefused(c) ==
    /\ MayStart(c) /\ pipelineRunning /\ Disturb
    /\ running' = FALSE /\ stopRequested' = TRUE /\ decisionStopRequested' = FALSE
    /\ UNCHANGED <<pipelineRunning, pipelineStopRequested, alive, joinable, at, terminated>>

\* The pipeline's and the loop's thread are assigned whatever their handles hold; the decision
\* worker only to a handle that is free.
Start(c) ==
    /\ MayStart(c) /\ ~pipelineRunning /\ Disturb
    /\ running' = TRUE /\ stopRequested' = FALSE /\ decisionStopRequested' = FALSE
    /\ pipelineRunning' = TRUE /\ pipelineStopRequested' = FALSE
    /\ IF {"pipeline", "loop"} \cap joinable # {}
       THEN terminated' = TRUE /\ UNCHANGED <<alive, joinable>>
       ELSE /\ alive' = alive \cup {"pipeline", "loop"} \cup ({"decision"} \ joinable)
            /\ joinable' = Threads
            /\ UNCHANGED terminated
    /\ UNCHANGED at

-----------------------------------------------------------------------------
\* Stop: two sections that raise the flags, then the threads one after the other.
StopRequest(c) ==
    /\ at[c] = Idle
    /\ running' = FALSE /\ stopRequested' = TRUE
    /\ at' = [at EXCEPT ![c] = Flagged]
    /\ stopping' = TRUE /\ disturbed' = disturbed \ {c}
    /\ UNCHANGED <<decisionStopRequested, pipelineRunning, pipelineStopRequested, alive, joinable,
                   starts, overlapped, terminated>>

StopDecisionUnflagged(c) ==   \* variant: the decision worker is not told
    /\ at[c] = Flagged
    /\ at' = [at EXCEPT ![c] = Place("loop", "try")]
    /\ UNCHANGED <<flags, alive, joinable, history, terminated>>

StopDecision(c) ==
    /\ at[c] = Flagged
    /\ decisionStopRequested' = TRUE
    /\ at' = [at EXCEPT ![c] = Place("loop", "try")]
    /\ UNCHANGED <<running, stopRequested, pipelineRunning, pipelineStopRequested, alive, joinable,
                   history, terminated>>

After(t) ==
    CASE t = "loop" -> Place("decision", "try")
      [] t = "decision" -> Place("pipeline", "try")
      [] t = "pipeline" -> Idle

Joining(t) ==
    IF t \notin joinable THEN After(t)
    ELSE Place(t, IF t \in alive THEN "wait" ELSE "clear")

\* ObservationPipeline::Stop, which does nothing for a pipeline that does not run.
StopPipeline(c) ==
    /\ at[c] = Place("pipeline", "try")
    /\ IF pipelineRunning
       THEN pipelineStopRequested' = TRUE /\ at' = [at EXCEPT ![c] = Joining("pipeline")]
       ELSE at' = [at EXCEPT ![c] = Idle] /\ UNCHANGED pipelineStopRequested
    /\ UNCHANGED <<running, stopRequested, decisionStopRequested, pipelineRunning, alive, joinable,
                   history, terminated>>

Join(c, t) ==
    /\ at[c] = Place(t, "try") /\ t # "pipeline"
    /\ at' = [at EXCEPT ![c] = Joining(t)]
    /\ UNCHANGED <<flags, alive, joinable, history, terminated>>

\* The second of two threads that join the same handle may find it closed.
Joined(c, t) ==
    /\ at[c] = Place(t, "clear")
    /\ joinable' = joinable \ {t}
    /\ terminated' \in (IF t \in joinable THEN {FALSE} ELSE BOOLEAN)
    /\ at' = [at EXCEPT ![c] = After(t)]
    /\ UNCHANGED <<flags, alive, history>>

StopStep(c) ==
    \/ StopDecision(c)
    \/ StopPipeline(c)
    \/ \E t \in Threads : Join(c, t) \/ Joined(c, t)

-----------------------------------------------------------------------------
\* A thread that returns ends the wait of everyone who joins it.
Returns(t) ==
    /\ alive' = alive \ {t}
    /\ at' = [c \in Callers |-> IF at[c] = Place(t, "wait") THEN Place(t, "clear") ELSE at[c]]
    /\ UNCHANGED <<joinable, history, terminated>>

\* RunLoop ends by itself after maxFrames.
FramesEnd ==
    /\ "loop" \in alive /\ ~stopRequested
    /\ stopRequested' = TRUE /\ running' = FALSE
    /\ Returns("loop")
    /\ UNCHANGED <<decisionStopRequested, pipelineRunning, pipelineStopRequested>>

\* The loop looks at the flag once a frame and marks the runtime as not running when it ends.
LoopEnds ==
    /\ "loop" \in alive /\ stopRequested
    /\ running' = FALSE
    /\ Returns("loop")
    /\ UNCHANGED <<stopRequested, decisionStopRequested, pipelineRunning, pipelineStopRequested>>

DecisionEnds ==
    /\ "decision" \in alive /\ decisionStopRequested
    /\ Returns("decision")
    /\ UNCHANGED flags

PipelineEnds ==
    /\ "pipeline" \in alive /\ pipelineStopRequested
    /\ pipelineRunning' = FALSE /\ pipelineStopRequested' = FALSE
    /\ Returns("pipeline")
    /\ UNCHANGED <<running, stopRequested, decisionStopRequested>>

ThreadStep == LoopEnds \/ DecisionEnds \/ PipelineEnds

Next ==
    /\ ~terminated
    /\ \/ \E c \in Starters : Start(c) \/ StartRefused(c)
       \/ \E c \in Stoppers : StopRequest(c) \/ StopStep(c)
       \/ FramesEnd
       \/ ThreadStep

Spec == Init /\ [][Next]_vars

\* The threads are scheduled, each of them, and a Stop that has begun goes on.
Fairness ==
    /\ WF_vars(LoopEnds /\ ~terminated)
    /\ WF_vars(DecisionEnds /\ ~terminated)
    /\ WF_vars(PipelineEnds /\ ~terminated)
    /\ \A c \in Stoppers : WF_vars(StopStep(c) /\ ~terminated)
FairSpec == Spec /\ Fairness

-----------------------------------------------------------------------------
\* The variables have the types of the members they stand for, and a pipeline that runs has
\* its thread.
TypeOK ==
    /\ \A b \in {running, stopRequested, decisionStopRequested, pipelineRunning,
                 pipelineStopRequested, overlapped, stopping, terminated} : b \in BOOLEAN
    /\ alive \subseteq Threads /\ joinable \subseteq Threads
    /\ at \in [Callers -> Places]
    /\ starts \in 0..MaxStarts /\ disturbed \subseteq Callers
    /\ pipelineRunning /\ ~terminated => "pipeline" \in alive

Started == running' /\ ~running

\* While no session was started during a Stop, a Start that succeeds finds neither a thread nor a
\* handle of the last session's loop and decision worker, although it checks for neither: what
\* protects it is that Stop ends the pipeline last, however many threads start and stop.
NoSecondThread ==
    [][Started /\ ~overlapped => {"loop", "decision"} \cap (alive \cup joinable) = {}]_vars

\* The first session that is started during a Stop terminates the process only if it finds the
\* pipeline ended and not yet joined by that Stop.
OnlyThePipelineIsEarly ==
    [][Started /\ terminated' /\ ~overlapped =>
          \E c \in Stoppers : at[c] = Place("pipeline", "clear")]_vars

\* A Stop returns when no Start comes in between. One that does may withdraw the flag the
\* decision worker has not yet seen, or start the very threads the Stop is about to join.
StopReturns ==
    \A c \in Stoppers :
        (at[c] # Idle /\ c \notin disturbed) ~> (at[c] = Idle \/ c \in disturbed \/ terminated)

\* A Stop that begins after the last Start ends everything, whatever the calls before it left
\* behind: no thread, no handle, and none of the Stops that waited still waits.
LastStopReleases ==
    /\ stopping ~> ((alive = {} /\ joinable = {} /\ ~running) \/ ~stopping \/ terminated)
    /\ \A c \in Stoppers : (stopping /\ at[c] # Idle) ~> (at[c] = Idle \/ ~stopping \/ terminated)
=============================================================================
