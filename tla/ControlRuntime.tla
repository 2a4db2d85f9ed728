--------------------------- MODULE ControlRuntime ---------------------------
(***************************************************************************)
(* The continuous control runtime (core/execution/src/ControlRuntime.cpp). *)
(*                                                                         *)
(* Five kinds of thread meet in it:                                        *)
(*   - the worker (RunLoop) executes one queued intent per frame and       *)
(*     schedules one correction of an intent whose effect it cannot see;   *)
(*   - the decision worker (DecisionLoop) turns the latest submitted       *)
(*     state into intents, outside every lock;                             *)
(*   - the observation pipeline captures a state, and publishes it later;  *)
(*   - clients enqueue intents, publish events and change the provider;    *)
(*   - one controller calls Start and Stop.                                *)
(*                                                                         *)
(* An action is one critical section of mutex_ or decisionMutex_, together *)
(* with the thread-local work that precedes the next one, so every         *)
(* interleaving of the sections is explored. Time is a choice: a frame is  *)
(* within its budget or it is not, a decision pass is late or it is not.   *)
(* Controllers that race each other are the subject of RuntimeLifecycle.   *)
(***************************************************************************)
EXTENDS Integers, Sequences

CONSTANTS
    FrameLimits,        \* config.maxFrames of a Start: the loop ends there, 0 = never
    FullRefreshPeriod,  \* a full registry refresh every so many frames (120 in the code)
    MaxPass,            \* kMaxDecisionIntentsPerPass
    ClientPriorities,   \* priorities the callers of EnqueueIntent use
    ClientRetries,      \* whether a caller's intent carries feedback_retry = 1 already
    EventTypes,         \* event types published while the runtime is up
    EventPriorities,    \* and their priorities
    Proposals,          \* what a provider proposes: a priority hint, or "unknown"
    Outcomes,           \* what an execution may do: "failed", "ineffective", "effective", "late"
    ReadsRegistry,      \* the environment adapter hands on the registry's snapshot (default)
    OthersRefresh,      \* other threads refresh the registry too
    FrameCap,           \* bound: framesExecuted_ saturates here, above every limit
    CounterCap,         \* bound: droppedFrames_ and decisionTimeouts_ saturate here
    MaxSequence,        \* bound: clients and providers add no intent beyond it
    MaxProposed,        \* bound: proposals of one decision pass
    MaxPending          \* bound: events of one priority waiting for a frame

Priority == {"high", "medium", "low"}
NoState == -1                    \* no observation available
World == 0..5                    \* worlds, told apart as far as IsLikelyMismatch can
NoIntent == [origin |-> 0, retry |-> FALSE, frame |-> 0]
EmptyHand == [intent |-> NoIntent, priority |-> "low", mark |-> 1]
NoRefresh == [ui |-> FALSE, fs |-> FALSE]

ASSUME ConfigAssumption ==
    /\ FrameLimits \subseteq 0..FrameCap
    /\ FullRefreshPeriod \in Nat \ {0, 1}
    /\ MaxPass \in Nat \ {0}
    /\ ClientPriorities \subseteq Priority
    /\ ClientRetries \subseteq BOOLEAN
    /\ EventTypes \subseteq {"UiChanged", "FileSystemChanged", "Error"}
    /\ EventPriorities \subseteq Priority
    /\ Proposals \subseteq Priority \cup {"unknown"}
    /\ Outcomes \subseteq {"failed", "ineffective", "effective", "late"}
    /\ ReadsRegistry \in BOOLEAN /\ OthersRefresh \in BOOLEAN

ASSUME BoundAssumption ==
    /\ FrameCap \in Nat \ {0}
    /\ CounterCap \in Nat
    /\ MaxSequence \in Nat
    /\ MaxProposed \in Nat
    /\ MaxPending \in Nat

VARIABLES
    running, stopRequested,      \* running_, stopRequested_
    maxFrames,                   \* config_.maxFrames
    queues,                      \* highQueue_, mediumQueue_, lowQueue_
    nextSequence,                \* nextSequence_
    stats,                       \* the counters Status() reports
    pendingEvents,               \* pendingHighEvents_, pendingMediumEvents_, pendingLowEvents_
    pendingUiRefresh, pendingFsRefresh,
    wpc,                         \* where the worker is; "off" = no thread to join
    refresh,                     \* RunLoop's refreshUi and refreshFs
    synced,                      \* RunLoop's synchronizedState
    hand,                        \* the popped intent and its priority
    succeeded,                   \* result.IsSuccess() of the last execution
    decisionStopRequested, provider, pendingFrame,
    dpc, dframe, dbatch, daccepted, dlate,
    cpc,                         \* where the controller is in Stop
    pipelineRunning, captured,   \* ObservationPipeline: running_, RunLoop's captured,
    published,                   \* and the active buffer
    registryState,               \* IntentRegistry::LastSnapshot
    world,                       \* what the environment really looks like
    history,                     \* intents handed to the execution engine, in order
    uiDirty, fsDirty,            \* a notified change no capture was asked for yet
    fresh                        \* who holds a capture made after this frame's execution

lifeVars == <<running, stopRequested, maxFrames>>
queueVars == <<queues, nextSequence>>
eventVars == <<pendingEvents, pendingUiRefresh, pendingFsRefresh, uiDirty, fsDirty>>
workVars == <<refresh, synced, hand, succeeded>>
passVars == <<dframe, dbatch, daccepted, dlate>>
slotVars == <<decisionStopRequested, provider, pendingFrame>>
worldVars == <<pipelineRunning, captured, published, registryState, world, history, fresh>>
vars == <<lifeVars, queueVars, stats, eventVars, wpc, workVars, slotVars, dpc,
          passVars, cpc, worldVars>>

-----------------------------------------------------------------------------
Intent == [origin : Nat, retry : BOOLEAN, frame : Nat]
QueuedIntent == [intent : Intent, sequence : Nat]
Stats == [frames : Nat, executed : Nat, dropped : Nat, samples : Nat, mismatches : Nat,
          corrections : Nat, produced : Nat, timeouts : Nat]

NoStats == [frames |-> 0, executed |-> 0, dropped |-> 0, samples |-> 0, mismatches |-> 0,
            corrections |-> 0, produced |-> 0, timeouts |-> 0]

UpTo(cap, n) == IF n < cap THEN n + 1 ELSE n

\* A world nobody has seen yet: an effect is visible to every later capture.
FreshWorld == CHOOSE w \in World : w \notin {world, captured, published, registryState, synced}

\* EnvironmentStateFromSnapshot(LastSnapshot()) stands in until the pipeline publishes.
LatestState == IF published # NoState THEN published ELSE registryState
LatestIsFresh == (IF published # NoState THEN "published" ELSE "registry") \in fresh

\* PopIntentLocked looks at the high queue first, then the medium one, then the low one.
MoreUrgent(p) == CASE p = "high" -> {}
                   [] p = "medium" -> {"high"}
                   [] p = "low" -> {"high", "medium"}

NextQueueUnranked(p) == queues[p] # <<>>   \* variant: any queue

NextQueue(p) == queues[p] # <<>> /\ \A q \in MoreUrgent(p) : queues[q] = <<>>

Init ==
    /\ running = FALSE /\ stopRequested = FALSE /\ maxFrames = 0
    /\ queues = [p \in Priority |-> <<>>] /\ nextSequence = 1
    /\ stats = NoStats
    /\ pendingEvents = [p \in Priority |-> 0]
    /\ pendingUiRefresh = FALSE /\ pendingFsRefresh = FALSE
    /\ uiDirty = FALSE /\ fsDirty = FALSE
    /\ wpc = "off" /\ refresh = NoRefresh /\ synced = NoState /\ hand = EmptyHand
    /\ succeeded = FALSE
    /\ decisionStopRequested = FALSE /\ provider = FALSE /\ pendingFrame = 0
    /\ dpc = "off" /\ dframe = 0 /\ dbatch = <<>> /\ daccepted = 0 /\ dlate = FALSE
    /\ cpc = "idle"
    /\ pipelineRunning = FALSE /\ captured = NoState /\ published = NoState
    /\ registryState = NoState /\ world = 0 /\ history = <<>> /\ fresh = {}

-----------------------------------------------------------------------------
\* Start and Stop, as one controller calls them.

ResetSession(limit) ==
    /\ maxFrames' = limit
    /\ nextSequence' = 1
    /\ queues' = [p \in Priority |-> <<>>]
    /\ stats' = NoStats
    /\ pendingEvents' = [p \in Priority |-> 0]
    /\ pendingUiRefresh' = FALSE /\ pendingFsRefresh' = FALSE
    /\ uiDirty' = FALSE /\ fsDirty' = FALSE
    /\ history' = <<>>
    /\ decisionStopRequested' = FALSE /\ pendingFrame' = 0

Start(limit) ==
    /\ cpc = "idle" /\ ~running /\ ~pipelineRunning
    /\ ResetSession(limit)
    /\ stopRequested' = FALSE /\ running' = TRUE
    /\ pipelineRunning' = TRUE /\ published' = NoState
    /\ dpc' = IF dpc = "off" THEN "wait" ELSE dpc
    /\ wpc' = "top"
    /\ UNCHANGED <<workVars, provider, passVars, cpc, captured, registryState, world, fresh>>

\* The loop ended at maxFrames and nobody called Stop: the pipeline still runs, refuses a
\* second start, and the call fails after it has wiped the finished session.
StartRefused(limit) ==
    /\ cpc = "idle" /\ ~running /\ pipelineRunning
    /\ ResetSession(limit)
    /\ stopRequested' = TRUE /\ running' = FALSE
    /\ UNCHANGED <<wpc, workVars, provider, dpc, passVars, cpc, pipelineRunning, captured,
                   published, registryState, world, fresh>>

StopRequest ==
    /\ cpc = "idle"
    /\ stopRequested' = TRUE /\ running' = FALSE
    /\ cpc' = "stopDecision"
    /\ UNCHANGED <<maxFrames, queueVars, stats, eventVars, wpc, workVars, slotVars, dpc, passVars,
                   worldVars>>

StopDecisionUnflagged ==   \* variant: the state is withdrawn, the flag is not raised
    /\ cpc = "stopDecision"
    /\ pendingFrame' = 0 /\ cpc' = "joinWorker"
    /\ UNCHANGED <<lifeVars, queueVars, stats, eventVars, wpc, workVars, decisionStopRequested,
                   provider, dpc, passVars, worldVars>>

StopDecision ==
    /\ cpc = "stopDecision"
    /\ decisionStopRequested' = TRUE /\ pendingFrame' = 0
    /\ cpc' = "joinWorker"
    /\ UNCHANGED <<lifeVars, queueVars, stats, eventVars, wpc, workVars, provider, dpc,
                   passVars, worldVars>>

JoinWorkerDetached ==   \* variant: the worker is not waited for
    /\ cpc = "joinWorker" /\ cpc' = "joinDecision"
    /\ UNCHANGED <<lifeVars, queueVars, stats, eventVars, wpc, workVars, slotVars, dpc,
                   passVars, worldVars>>

JoinWorker ==
    /\ cpc = "joinWorker" /\ wpc \in {"off", "done"}
    /\ wpc' = "off" /\ cpc' = "joinDecision"
    /\ UNCHANGED <<lifeVars, queueVars, stats, eventVars, workVars, slotVars, dpc, passVars,
                   worldVars>>

JoinDecisionDetached ==   \* variant: the decision worker is not waited for
    /\ cpc = "joinDecision" /\ cpc' = "stopPipeline"
    /\ UNCHANGED <<lifeVars, queueVars, stats, eventVars, wpc, workVars, slotVars, dpc,
                   passVars, worldVars>>

JoinDecision ==
    /\ cpc = "joinDecision" /\ dpc \in {"off", "done"}
    /\ dpc' = "off" /\ cpc' = "stopPipeline"
    /\ UNCHANGED <<lifeVars, queueVars, stats, eventVars, wpc, workVars, slotVars, passVars,
                   worldVars>>

StopPipeline ==
    /\ cpc = "stopPipeline"
    /\ pipelineRunning' = FALSE /\ captured' = NoState /\ cpc' = "idle"
    /\ UNCHANGED <<lifeVars, queueVars, stats, eventVars, wpc, workVars, slotVars, dpc,
                   passVars, published, registryState, world, history, fresh>>

-----------------------------------------------------------------------------
\* Clients: EnqueueIntent, the event handlers, SetDecisionProvider; and the pipeline.

EnqueueIntent(intent, p) ==
    /\ running
    /\ queues' = [queues EXCEPT ![p] = Append(@, [intent |-> intent, sequence |-> nextSequence])]
    /\ nextSequence' = nextSequence + 1

ClientEnqueue(p, retry) ==
    /\ nextSequence <= MaxSequence
    /\ EnqueueIntent([origin |-> nextSequence, retry |-> retry, frame |-> 0], p)
    /\ UNCHANGED <<lifeVars, stats, eventVars, wpc, workVars, slotVars, dpc, passVars, cpc,
                   worldVars>>

HandleEvent(type, p) ==
    /\ running /\ pendingEvents[p] < MaxPending
    /\ pendingEvents' = [pendingEvents EXCEPT ![p] = @ + 1]
    /\ pendingUiRefresh' = (pendingUiRefresh \/ type = "UiChanged")
    /\ pendingFsRefresh' = (pendingFsRefresh \/ type = "FileSystemChanged")
    /\ uiDirty' = (uiDirty \/ type = "UiChanged")
    /\ fsDirty' = (fsDirty \/ type = "FileSystemChanged")
    /\ UNCHANGED <<lifeVars, queueVars, stats, wpc, workVars, slotVars, dpc, passVars, cpc,
                   worldVars>>

SetDecisionProvider(on) ==
    /\ provider' = on /\ pendingFrame' = 0
    /\ UNCHANGED <<lifeVars, queueVars, stats, eventVars, wpc, workVars, decisionStopRequested,
                   dpc, passVars, cpc, worldVars>>

\* A capture that does not fail. RegistryEnvironmentAdapter hands on the registry's last
\* snapshot and has it refreshed only when there is none; other adapters look at the world.
CaptureState ==
    /\ pipelineRunning /\ captured = NoState
    /\ LET reused == ReadsRegistry /\ registryState # NoState
       IN  /\ captured' = IF reused THEN registryState ELSE world
           /\ registryState' = IF ReadsRegistry THEN captured' ELSE registryState
           /\ fresh' = IF (wpc = "feedback" /\ ~reused) \/ (reused /\ "registry" \in fresh)
                         THEN fresh \cup {"captured"}
                                    \cup (IF ReadsRegistry THEN {"registry"} ELSE {})
                         ELSE fresh
    /\ UNCHANGED <<lifeVars, queueVars, stats, eventVars, wpc, workVars, slotVars, dpc,
                   passVars, cpc, pipelineRunning, published, world, history>>

Publish ==
    /\ pipelineRunning /\ captured # NoState
    /\ published' = captured /\ captured' = NoState
    /\ fresh' = (fresh \ {"captured", "published"})
                   \cup (IF "captured" \in fresh THEN {"published"} ELSE {})
    /\ UNCHANGED <<lifeVars, queueVars, stats, eventVars, wpc, workVars, slotVars, dpc,
                   passVars, cpc, pipelineRunning, registryState, world, history>>

\* Any thread may refresh the registry: its own event handlers, API calls, other executors.
RefreshElsewhere ==
    /\ OthersRefresh
    /\ registryState' = world
    /\ fresh' = IF wpc = "feedback" THEN fresh \cup {"registry"} ELSE fresh
    /\ UNCHANGED <<lifeVars, queueVars, stats, eventVars, wpc, workVars, slotVars, dpc,
                   passVars, cpc, pipelineRunning, captured, published, world, history>>

-----------------------------------------------------------------------------
\* The worker: RunLoop.

FrameLimitReached == maxFrames > 0 /\ stats.frames >= maxFrames

LoopStops ==
    /\ wpc = "top" /\ stopRequested
    /\ wpc' = "exit"
    /\ UNCHANGED <<lifeVars, queueVars, stats, eventVars, workVars, slotVars, dpc, passVars,
                   cpc, worldVars>>

LoopReachesMaxFrames ==
    /\ wpc = "top" /\ ~stopRequested
    /\ FrameLimitReached
    /\ stopRequested' = TRUE /\ running' = FALSE
    /\ wpc' = "exit"
    /\ UNCHANGED <<maxFrames, queueVars, stats, eventVars, workVars, slotVars, dpc, passVars, cpc,
                   worldVars>>

LoopContinues ==
    /\ wpc = "top" /\ ~stopRequested
    /\ ~FrameLimitReached
    /\ wpc' = "begin"
    /\ UNCHANGED <<lifeVars, queueVars, stats, eventVars, workVars, slotVars, dpc, passVars,
                   cpc, worldVars>>

\* One pending event is accounted for per frame, the most urgent first.

AccountedEvent(p) == pendingEvents[p] > 0 /\ \A q \in MoreUrgent(p) : pendingEvents[q] = 0

TakenRefreshElseIf ==   \* variant: else-if, as for the event counters
    [ui |-> pendingUiRefresh, fs |-> pendingFsRefresh /\ ~pendingUiRefresh]

TakenRefresh == [ui |-> pendingUiRefresh, fs |-> pendingFsRefresh]

BeginFrame ==
    /\ wpc = "begin"
    /\ stats' = [stats EXCEPT !.frames = UpTo(FrameCap, @)]
    /\ pendingEvents' = [p \in Priority |->
                            IF AccountedEvent(p) THEN pendingEvents[p] - 1 ELSE pendingEvents[p]]
    /\ refresh' = TakenRefresh
    /\ pendingUiRefresh' = FALSE /\ pendingFsRefresh' = FALSE
    /\ wpc' = "refresh"
    /\ UNCHANGED <<lifeVars, queueVars, uiDirty, fsDirty, synced, hand, succeeded, slotVars,
                   dpc, passVars, cpc, worldVars>>

FullRefresh == ~refresh.ui /\ ~refresh.fs /\ stats.frames % FullRefreshPeriod = 1

\* An invalid capture (no foreground window) leaves the registry as it is; the flags are gone.
RefreshRegistry(valid) ==
    /\ wpc = "refresh" /\ (valid \/ refresh.ui \/ refresh.fs \/ FullRefresh)
    /\ uiDirty' = (uiDirty /\ ~refresh.ui /\ ~FullRefresh)
    /\ fsDirty' = (fsDirty /\ ~refresh.fs /\ ~FullRefresh)
    /\ registryState' = IF valid /\ (refresh.ui \/ refresh.fs \/ FullRefresh)
                           THEN world ELSE registryState
    /\ wpc' = "observe"
    /\ UNCHANGED <<lifeVars, queueVars, stats, pendingEvents, pendingUiRefresh,
                   pendingFsRefresh, workVars, slotVars, dpc, passVars, cpc, pipelineRunning,
                   captured, published, world, history, fresh>>

Observe ==
    /\ wpc = "observe"
    /\ synced' = LatestState
    /\ wpc' = "submit"
    /\ UNCHANGED <<lifeVars, queueVars, stats, eventVars, refresh, hand, succeeded, slotVars,
                   dpc, passVars, cpc, worldVars>>

\* Latest state wins: a state the decision worker has not taken yet is overwritten.
SubmitDecisionState ==
    /\ wpc = "submit"
    /\ pendingFrame' = IF synced # NoState /\ ~decisionStopRequested /\ provider
                         THEN stats.frames ELSE pendingFrame
    /\ wpc' = "pop"
    /\ UNCHANGED <<lifeVars, queueVars, stats, eventVars, workVars, decisionStopRequested,
                   provider, dpc, passVars, cpc, worldVars>>

PopIntent(p) ==
    /\ wpc = "pop" /\ NextQueue(p)
    /\ hand' = [intent |-> Head(queues[p]).intent, priority |-> p, mark |-> nextSequence]
    /\ queues' = [queues EXCEPT ![p] = Tail(@)]
    /\ wpc' = "dispatch"
    /\ UNCHANGED <<lifeVars, nextSequence, stats, eventVars, refresh, synced, succeeded,
                   slotVars, dpc, passVars, cpc, worldVars>>

NothingToPop ==
    /\ wpc = "pop" /\ \A p \in Priority : ~NextQueue(p)
    /\ wpc' = "end"
    /\ UNCHANGED <<lifeVars, queueVars, stats, eventVars, workVars, slotVars, dpc, passVars,
                   cpc, worldVars>>

ExecuteInBudget(outcome) ==
    /\ wpc = "dispatch"
    /\ hand' = [hand EXCEPT !.intent.frame = stats.frames]
    /\ history' = Append(history, [origin |-> hand.intent.origin, retry |-> hand.intent.retry])
    /\ world' = IF outcome \in {"effective", "late"} THEN FreshWorld ELSE world
    /\ succeeded' = (outcome \in {"ineffective", "effective"})
    /\ fresh' = {}
    /\ wpc' = "feedback"
    /\ UNCHANGED <<lifeVars, queueVars, stats, eventVars, refresh, synced, slotVars, dpc,
                   passVars, cpc, pipelineRunning, captured, published, registryState>>

PutBackLast(p, intent) == Append(queues[p], [intent |-> intent, sequence |-> 0])  \* variant
PutBackNowhere(p, intent) == queues[p]                                            \* variant

PutBack(p, intent) == <<[intent |-> intent, sequence |-> 0]>> \o queues[p]

\* No budget left: the intent goes back to the head of its own queue.
OverBudget ==
    /\ wpc = "dispatch"
    /\ queues' = [queues EXCEPT ![hand.priority] = PutBack(hand.priority, hand.intent)]
    /\ stats' = [stats EXCEPT !.dropped = UpTo(CounterCap, @)]
    /\ wpc' = "end"
    /\ UNCHANGED <<lifeVars, nextSequence, eventVars, workVars, slotVars, dpc, passVars, cpc,
                   worldVars>>

\* IsLikelyMismatch: every action the engine can carry out is expected to change the state,
\* so an observation of the same sizes and signature after a success is a mismatch.
Mismatch == succeeded /\ LatestState = synced

ShouldScheduleCorrectionAlways(intent) == TRUE   \* variant: the marker is ignored

ShouldScheduleCorrection(intent) == ~intent.retry

RecordFeedback ==
    /\ wpc = "feedback" /\ synced # NoState
    /\ stats' = [stats EXCEPT !.samples = @ + 1,
                              !.mismatches = IF Mismatch THEN @ + 1 ELSE @]
    /\ wpc' = IF Mismatch /\ ShouldScheduleCorrection(hand.intent) THEN "correct" ELSE "count"
    /\ UNCHANGED <<lifeVars, queueVars, eventVars, workVars, slotVars, dpc, passVars, cpc,
                   worldVars>>

NoFeedback ==
    /\ wpc = "feedback" /\ synced = NoState
    /\ wpc' = "count"
    /\ UNCHANGED <<lifeVars, queueVars, stats, eventVars, workVars, slotVars, dpc, passVars,
                   cpc, worldVars>>

ScheduleCorrection ==
    /\ wpc = "correct"
    /\ EnqueueIntent([hand.intent EXCEPT !.retry = TRUE], "high")
    /\ wpc' = "countCorrection"
    /\ UNCHANGED <<lifeVars, stats, eventVars, workVars, slotVars, dpc, passVars, cpc,
                   worldVars>>

CorrectionRefused ==
    /\ wpc = "correct" /\ ~running
    /\ wpc' = "count"
    /\ UNCHANGED <<lifeVars, queueVars, stats, eventVars, workVars, slotVars, dpc, passVars,
                   cpc, worldVars>>

CountCorrection ==
    /\ wpc = "countCorrection"
    /\ stats' = [stats EXCEPT !.corrections = @ + 1]
    /\ wpc' = "count"
    /\ UNCHANGED <<lifeVars, queueVars, eventVars, workVars, slotVars, dpc, passVars, cpc,
                   worldVars>>

CountExecuted ==
    /\ wpc = "count"
    /\ stats' = [stats EXCEPT !.executed = @ + 1]
    /\ wpc' = "end"
    /\ UNCHANGED <<lifeVars, queueVars, eventVars, workVars, slotVars, dpc, passVars, cpc,
                   worldVars>>

\* cycleMs > frameMs counts the frame as dropped, requeued intent or not. The frame's
\* locals go out of scope.
EndFrame(late) ==
    /\ wpc = "end"
    /\ stats' = [stats EXCEPT !.dropped = IF late THEN UpTo(CounterCap, @) ELSE @]
    /\ refresh' = NoRefresh /\ synced' = NoState /\ hand' = EmptyHand /\ succeeded' = FALSE
    /\ fresh' = {}
    /\ wpc' = "wait"
    /\ UNCHANGED <<lifeVars, queueVars, eventVars, slotVars, dpc, passVars, cpc,
                   pipelineRunning, captured, published, registryState, world, history>>

WaitFrame ==
    /\ wpc = "wait"
    /\ wpc' = IF stopRequested THEN "exit" ELSE "top"
    /\ UNCHANGED <<lifeVars, queueVars, stats, eventVars, workVars, slotVars, dpc, passVars,
                   cpc, worldVars>>

ExitLoop ==
    /\ wpc = "exit"
    /\ running' = FALSE
    /\ wpc' = "done"
    /\ UNCHANGED <<stopRequested, maxFrames, queueVars, stats, eventVars, workVars, slotVars, dpc,
                   passVars, cpc, worldVars>>

-----------------------------------------------------------------------------
\* The decision worker: DecisionLoop.

TakeStateKept ==   \* variant: the slot is not emptied
    /\ dpc = "wait" /\ ~decisionStopRequested /\ pendingFrame # 0 /\ provider
    /\ dframe' = pendingFrame
    /\ dpc' = "decide"
    /\ UNCHANGED <<lifeVars, queueVars, stats, eventVars, wpc, workVars, slotVars, dbatch,
                   daccepted, dlate, cpc, worldVars>>

TakeState ==
    /\ dpc = "wait" /\ ~decisionStopRequested /\ pendingFrame # 0 /\ provider
    /\ dframe' = pendingFrame /\ pendingFrame' = 0
    /\ dpc' = "decide"
    /\ UNCHANGED <<lifeVars, queueVars, stats, eventVars, wpc, workVars, decisionStopRequested,
                   provider, dbatch, daccepted, dlate, cpc, worldVars>>

DecisionStops ==
    /\ dpc = "wait" /\ decisionStopRequested
    /\ dpc' = "done"
    /\ UNCHANGED <<lifeVars, queueVars, stats, eventVars, wpc, workVars, slotVars, passVars,
                   cpc, worldVars>>

\* Batches a provider may return; none at all when the sequence bound is reached.
Batches == UNION {[1..n -> Proposals] :
                    n \in 0..(IF nextSequence <= MaxSequence THEN MaxProposed ELSE 0)}

Decide(batch, late) ==
    /\ dpc = "decide"
    /\ dbatch' = batch /\ daccepted' = 0 /\ dlate' = late
    /\ dpc' = "offer"
    /\ UNCHANGED <<lifeVars, queueVars, stats, eventVars, wpc, workVars, slotVars, dframe, cpc,
                   worldVars>>

PassOver == dbatch = <<>> \/ daccepted >= MaxPass

OfferIntent ==
    /\ dpc = "offer" /\ ~PassOver /\ Head(dbatch) # "unknown"
    /\ EnqueueIntent([origin |-> nextSequence, retry |-> FALSE, frame |-> dframe], Head(dbatch))
    /\ daccepted' = daccepted + 1
    /\ dbatch' = Tail(dbatch)
    /\ UNCHANGED <<lifeVars, stats, eventVars, wpc, workVars, slotVars, dpc, dframe, dlate,
                   cpc, worldVars>>

OfferSkippedCounted ==   \* variant: a proposal counts whether it was accepted or not
    /\ dpc = "offer" /\ ~PassOver /\ (Head(dbatch) = "unknown" \/ ~running)
    /\ daccepted' = daccepted + 1
    /\ dbatch' = Tail(dbatch)
    /\ UNCHANGED <<lifeVars, queueVars, stats, eventVars, wpc, workVars, slotVars, dpc, dframe,
                   dlate, cpc, worldVars>>

OfferSkipped ==
    /\ dpc = "offer" /\ ~PassOver /\ (Head(dbatch) = "unknown" \/ ~running)
    /\ dbatch' = Tail(dbatch)
    /\ UNCHANGED <<lifeVars, queueVars, stats, eventVars, wpc, workVars, slotVars, dpc, dframe,
                   daccepted, dlate, cpc, worldVars>>

FinishPass ==
    /\ dpc = "offer" /\ PassOver
    /\ stats' = [stats EXCEPT !.produced = @ + daccepted,
                              !.timeouts = IF dlate THEN UpTo(CounterCap, @) ELSE @]
    /\ dframe' = 0 /\ dbatch' = <<>> /\ daccepted' = 0 /\ dlate' = FALSE
    /\ dpc' = "wait"
    /\ UNCHANGED <<lifeVars, queueVars, eventVars, wpc, workVars, slotVars, cpc, worldVars>>

-----------------------------------------------------------------------------
ControllerStep ==
    \/ \E limit \in FrameLimits : Start(limit) \/ StartRefused(limit)
    \/ StopRequest
    \/ StopDecision \/ JoinWorker \/ JoinDecision \/ StopPipeline

ClientStep ==
    \/ \E p \in ClientPriorities, retry \in ClientRetries : ClientEnqueue(p, retry)
    \/ \E type \in EventTypes, p \in EventPriorities : HandleEvent(type, p)
    \/ \E on \in BOOLEAN : Proposals # {} /\ SetDecisionProvider(on)

WorkerStep ==
    \/ LoopStops \/ LoopReachesMaxFrames \/ LoopContinues
    \/ BeginFrame
    \/ \E valid \in BOOLEAN : RefreshRegistry(valid)
    \/ Observe \/ SubmitDecisionState
    \/ \E p \in Priority : PopIntent(p)
    \/ NothingToPop
    \/ \E outcome \in Outcomes : ExecuteInBudget(outcome)
    \/ OverBudget
    \/ RecordFeedback \/ NoFeedback
    \/ ScheduleCorrection \/ CorrectionRefused \/ CountCorrection
    \/ CountExecuted
    \/ \E late \in BOOLEAN : EndFrame(late)
    \/ WaitFrame \/ ExitLoop

DecisionStep ==
    \/ TakeState \/ DecisionStops
    \/ \E batch \in Batches, late \in BOOLEAN : Decide(batch, late)
    \/ OfferIntent \/ OfferSkipped \/ FinishPass

ObserverStep == CaptureState \/ Publish \/ RefreshElsewhere

Next == ControllerStep \/ ClientStep \/ ObserverStep \/ WorkerStep \/ DecisionStep

Spec == Init /\ [][Next]_vars

\* Threads that hold no condition variable run on; a Stop that began is carried through.
\* That a frame is within budget again and again while intents wait is an assumption about
\* the machine, not about the code: frames that are all over budget execute nothing.
Fairness ==
    /\ WF_vars(WorkerStep)
    /\ WF_vars(DecisionStep)
    /\ WF_vars(StopDecision \/ JoinWorker \/ JoinDecision \/ StopPipeline)
    /\ SF_vars(\E outcome \in Outcomes : ExecuteInBudget(outcome))

FairSpec == Spec /\ Fairness

-----------------------------------------------------------------------------
\* Properties.

WorkerPlaces == {"off", "top", "begin", "refresh", "observe", "submit", "pop", "dispatch",
                 "feedback", "correct", "countCorrection", "count", "end", "wait", "exit",
                 "done"}

FlagsOK ==
    /\ running \in BOOLEAN /\ stopRequested \in BOOLEAN
    /\ pendingUiRefresh \in BOOLEAN /\ pendingFsRefresh \in BOOLEAN
    /\ succeeded \in BOOLEAN
    /\ decisionStopRequested \in BOOLEAN /\ provider \in BOOLEAN /\ dlate \in BOOLEAN
    /\ pipelineRunning \in BOOLEAN
    /\ uiDirty \in BOOLEAN /\ fsDirty \in BOOLEAN

PlacesOK ==
    /\ wpc \in WorkerPlaces
    /\ dpc \in {"off", "wait", "decide", "offer", "done"}
    /\ cpc \in {"idle", "stopDecision", "joinWorker", "joinDecision", "stopPipeline"}

QueuesOK ==
    /\ queues \in [Priority -> Seq(QueuedIntent)] /\ nextSequence \in Nat \ {0}
    /\ hand \in [intent : Intent, priority : Priority, mark : Nat \ {0}]
    /\ history \in Seq([origin : Nat, retry : BOOLEAN])

CountersOK ==
    /\ maxFrames \in Nat /\ stats \in Stats /\ pendingEvents \in [Priority -> Nat]
    /\ pendingFrame \in Nat /\ dframe \in Nat /\ daccepted \in Nat /\ dbatch \in Seq(Proposals)

StatesOK ==
    /\ refresh \in [ui : BOOLEAN, fs : BOOLEAN]
    /\ synced \in World \cup {NoState}
    /\ captured \in World \cup {NoState} /\ published \in World \cup {NoState}
    /\ registryState \in World \cup {NoState} /\ world \in World
    /\ fresh \subseteq {"captured", "published", "registry"}

\* Every variable of ControlRuntime (ControlRuntime.h) keeps its type; the counters of
\* pending events, which are unsigned in the code, never pass below zero.
TypeOK == FlagsOK /\ PlacesOK /\ QueuesOK /\ CountersOK /\ StatesOK

\* A queue holds its intents in the order they were accepted, although the worker takes one
\* out without the lock and may put it back after clients, the decision worker and
\* corrections have added theirs (EnqueueIntent, PopIntentLocked, the over-budget branch).
QueuesInOrder ==
    \A p \in Priority : \A i, j \in DOMAIN queues[p] :
        i < j => queues[p][i].sequence < queues[p][j].sequence

\* The intent the worker is about to execute overtakes no more urgent intent that was
\* accepted before it was popped (PopIntentLocked).
NotOvertaken ==
    wpc = "dispatch" =>
        \A q \in MoreUrgent(hand.priority) : \A i \in DOMAIN queues[q] :
            queues[q][i].sequence >= hand.mark

\* The engine sees an accepted intent twice at most, and the second time it is a correction
\* of the first, however often it was put back over budget (ShouldScheduleCorrection).
ExecutedAtMostTwice ==
    \A i, j \in DOMAIN history :
        i < j /\ history[i].origin = history[j].origin => ~history[i].retry /\ history[j].retry

\* No intent of a pass that began in an earlier session waits in this one: the frame it was
\* decided for is a frame of this session (DecisionLoop stamps controlFrame, Start resets it).
DecidedThisSession ==
    \A p \in Priority : \A i \in DOMAIN queues[p] :
        queues[p][i].intent.frame <= stats.frames

\* A notified change is not forgotten before the worker has asked the registry for a capture
\* that began after it: the flag is taken first, so a change that arrives between the taking
\* and the capture is kept (HandleEvent, RunLoop).
NoLostRefresh ==
    /\ uiDirty => pendingUiRefresh \/ (wpc = "refresh" /\ refresh.ui)
    /\ fsDirty => pendingFsRefresh \/ (wpc = "refresh" /\ refresh.fs)

\* Once Stop has returned no thread of the runtime is left, so the next Start never assigns
\* to a std::thread that is still joinable, which would end the process.
StoppedMeansQuiet ==
    cpc = "idle" /\ ~pipelineRunning => wpc = "off" /\ dpc = "off" /\ ~running

\* What Status reports adds up although every counter has a critical section of its own: at
\* most one execution is uncounted, and decisions and corrections were all accepted.
Accounting ==
    /\ stats.corrections <= stats.mismatches
    /\ stats.mismatches <= stats.samples
    /\ stats.samples <= Len(history)
    /\ stats.executed <= Len(history)
    /\ Len(history) <= stats.executed + 1
    /\ running => stats.produced + stats.corrections + (IF dpc = "offer" THEN daccepted ELSE 0)
                    < nextSequence

\* The promise of IntentDispatch. The popped intent still waits, at the head of its queue,
\* until the engine gets it: putting it back changes nothing.
Items(s) == [i \in DOMAIN s |-> [origin |-> s[i].intent.origin, retry |-> s[i].intent.retry]]
Waiting == [p \in Priority |->
              IF wpc = "dispatch" /\ hand.priority = p
                THEN <<[origin |-> hand.intent.origin, retry |-> hand.intent.retry]>>
                       \o Items(queues[p])
                ELSE Items(queues[p])]

\* Stop returns (joins both threads), whatever the provider and the clients do.
StopReturns == cpc # "idle" ~> cpc = "idle"

\* An accepted intent is executed or the session is stopped, however often the worker takes it
\* out and puts it back over budget (RunLoop): it keeps its place and is not lost on the way. Strict
\* priority makes one exception, which is stated: as long as more urgent intents keep being accepted,
\* a less urgent one may wait forever (PopIntentLocked). To put an intent back is not to accept one.
IsWaiting(item, p) == \E i \in DOMAIN Waiting[p] : Waiting[p][i] = item
IsExecuted(item) == \E i \in DOMAIN history : history[i] = item

MoreUrgentAccepted(p) ==
    nextSequence' > nextSequence /\ \E q \in MoreUrgent(p) : Len(queues'[q]) > Len(queues[q])

EveryIntentGetsItsTurn ==
    \A p \in Priority :
        \/ []<><<MoreUrgentAccepted(p)>>_vars
        \/ \A item \in [origin : 1..MaxSequence, retry : ClientRetries] :
              IsWaiting(item, p) ~> (IsExecuted(item) \/ stopRequested)

\* A submitted state is taken, superseded or withdrawn (SubmitDecisionState, DecisionLoop).
DecisionTaken == pendingFrame # 0 ~> pendingFrame = 0

\* docs/vision.md says that every intent execution is verified after execution: what the
\* feedback of a successful execution looks at was captured after the execution began.
VerifiedAfterExecution ==
    [][ wpc = "feedback" /\ synced # NoState /\ succeeded /\ wpc' # wpc
          => LatestIsFresh ]_vars

=============================================================================
