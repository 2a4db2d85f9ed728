----------------------------- MODULE MCServices -----------------------------
(***************************************************************************)
(* The services around the runtime in one instance for TLC: the sampling   *)
(* thread, racing Start and Stop, telemetry with its thread and windows,   *)
(* the event bus with a watcher, and the HTTP server, once with threads    *)
(* and once as it serves a limited number of requests.                     *)
(*                                                                         *)
(* The parts share no variable, so a behaviour moves one of them, `part':  *)
(* what all of them may do is the union of what each does, and their       *)
(* interleavings would add nothing but states.                             *)
(***************************************************************************)
EXTENDS Integers, FiniteSets, Sequences, TLC

CONSTANTS
    Parts,                                                          \* that this instance moves
    Controllers, SourceKinds, Scripts, Numbers, MaxScript, MaxCaptures, \* pipeline
    Starters, Stoppers, MaxStarts,                                  \* lifecycle
    Loggers, TraceKinds, TraceAdapters, KMaxTraces, KMaxPersistenceQueue, \* telemetry
    KMaxPersistedFiles, KMaxTraceFileBytes, MaxLogged, MaxSessions,
    Publishers, Types, MaxEvents, MaxSubscriptions,                 \* events
    Conns, KMaxConcurrentClients, KHead, KPayload, KBuffer, KEvents, \* server
    ManyRequests, FewRequests, Limit                                \* of its two modes

VARIABLES
    part,
    adapter, running, stopRequested, generated, active, buffers, samples, latestSequence,
    joinable, wpc, captured, cpc, terminated, snapshot, mock, captures, used,
    loopRunning, loopStopRequested, decisionStopRequested, pipelineRunning, pipelineStopRequested,
    alive, handles, place, starts, disturbed, overlapped, stopping, aborted,
    process, session, traces, traceBufferWrapped, totals, adapterAggregates, pending, snapshotTotal,
    persistenceEnabled, persistenceQueue, persistedTraceCount, droppedPersistenceCount,
    currentFileIndex, currentFileBytes, persistedFiles, writer, inHand, disk, history, logged,
    latencyBreakdowns, visionSamples, latestVisionFrameId, visionDroppedFrames, reflexSamples, seen,
    subscriptions, nextSubscriptionId, delivering, watching, handle, watch, control, cancelMissed, published,
    loop, activeClients, served, at, request, received, peerDone, answers, events, runtimes, using

pipelineVars == <<adapter, running, stopRequested, generated, active, buffers, samples, latestSequence,
                  joinable, wpc, captured, cpc, terminated, snapshot, mock, captures, used>>
lifecycleVars == <<loopRunning, loopStopRequested, decisionStopRequested, pipelineRunning,
                   pipelineStopRequested, alive, handles, place, starts, disturbed, overlapped, stopping, aborted>>
telemetryVars == <<process, session, traces, traceBufferWrapped, totals, adapterAggregates, pending, snapshotTotal,
                   persistenceEnabled, persistenceQueue, persistedTraceCount, droppedPersistenceCount,
                   currentFileIndex, currentFileBytes, persistedFiles, writer, inHand, disk, history, logged>>
windowVars == <<latencyBreakdowns, visionSamples, latestVisionFrameId, visionDroppedFrames, reflexSamples, seen>>
deliveryVars == <<subscriptions, nextSubscriptionId, delivering, watching, handle, watch, control, cancelMissed, published>>
serverVars == <<loop, activeClients, served, at, request, received, peerDone, answers, events, runtimes, using>>
vars == <<part, pipelineVars, lifecycleVars, telemetryVars, windowVars, deliveryVars, serverVars>>

\* A short success and a long failure: two long ones do not fit in a file together.
SomeKinds == {[success |-> TRUE, adapter |-> "a", size |-> 1], [success |-> FALSE, adapter |-> "b", size |-> 3]}

\* A stream, a body within the limit, and one that is too large with its head.
SomeRequests == {[kind |-> "live", body |-> 0], [kind |-> "plain", body |-> 1], [kind |-> "plain", body |-> 3]}
SomeStarts == {[kind |-> "start", body |-> 0], [kind |-> "plain", body |-> 0]}

\* Scripts of the mock adapter.
SomeScripts == {<<>>, <<2, 0>>}

Pipeline == INSTANCE ObservationPipeline WITH Adapters <- SourceKinds
Lifecycle == INSTANCE RuntimeLifecycle WITH
    running <- loopRunning, stopRequested <- loopStopRequested, joinable <- handles, at <- place, terminated <- aborted
Telemetry == INSTANCE TelemetryPersistence WITH Kinds <- TraceKinds, Adapters <- TraceAdapters
Windows == INSTANCE TelemetryWindows WITH
    Latencies <- {0, 1, 2, 3, 5}, Frames <- {0, 1, 2, 4, 5}, Targets <- {1, 2}, Limits <- {0, 1, 3, 4}, MaxSamples <- 5,
    KMaxLatencySamples <- 4, KMaxVisionSamples <- 2, KMaxReflexSamples <- 1
Delivery == INSTANCE EventDelivery WITH running <- watching, events <- published
Threaded == INSTANCE ApiServer WITH Requests <- ManyRequests, MaxRequests <- 0
Limited == INSTANCE ApiServer WITH Requests <- FewRequests, MaxRequests <- Limit

\* The bounds are ones the code could have, and there are such parts.
ASSUME BoundsAssumption ==
    /\ Parts \subseteq {"pipeline", "lifecycle", "telemetry", "windows", "delivery", "threaded", "limited"}
    /\ Pipeline!PipelineAssumption /\ Lifecycle!MaxStartsAssumption /\ Delivery!DeliveryAssumption
    /\ Telemetry!TelemetryAssumption /\ Windows!WindowsAssumption
    /\ Threaded!ClientsAssumption /\ Limited!ClientsAssumption /\ Limit > 0

\* What clients will send is the only choice before the server starts. Clients are numbers and may
\* be renamed, so that one order of their requests stands for all.
Init ==
    /\ part \in Parts
    /\ Pipeline!Init /\ Lifecycle!Init /\ Telemetry!Init /\ Windows!Init /\ Delivery!Init
    /\ IF part = "limited" THEN Limited!Init ELSE Threaded!Init
    /\ part = "threaded" => \A c, d \in Conns : c < d => request[c].body <= request[d].body
    /\ part \notin {"threaded", "limited"} => \A c \in Conns : request[c].body = 0

PipelineNext == part = "pipeline" /\ Pipeline!Next
    /\ UNCHANGED <<part, lifecycleVars, telemetryVars, windowVars, deliveryVars, serverVars>>
LifecycleNext == part = "lifecycle" /\ Lifecycle!Next
    /\ UNCHANGED <<part, pipelineVars, telemetryVars, windowVars, deliveryVars, serverVars>>
TelemetryNext == part = "telemetry" /\ Telemetry!Next
    /\ UNCHANGED <<part, pipelineVars, lifecycleVars, windowVars, deliveryVars, serverVars>>
WindowsNext == part = "windows" /\ Windows!Next
    /\ UNCHANGED <<part, pipelineVars, lifecycleVars, telemetryVars, deliveryVars, serverVars>>
DeliveryNext == part = "delivery" /\ Delivery!Next
    /\ UNCHANGED <<part, pipelineVars, lifecycleVars, telemetryVars, windowVars, serverVars>>
ServerNext == ((part = "threaded" /\ Threaded!Next) \/ (part = "limited" /\ Limited!Next))
    /\ UNCHANGED <<part, pipelineVars, lifecycleVars, telemetryVars, windowVars, deliveryVars>>

Next == PipelineNext \/ LifecycleNext \/ TelemetryNext \/ WindowsNext \/ DeliveryNext \/ ServerNext

Spec == Init /\ [][Next]_vars

\* Each part keeps its own fairness.
FairSpec ==
    /\ Spec
    /\ WF_pipelineVars(part = "pipeline" /\ Pipeline!Worker /\ ~terminated)
    /\ \A c \in Controllers : WF_pipelineVars(part = "pipeline" /\ Pipeline!Join(c) /\ ~terminated)
    /\ WF_lifecycleVars(part = "lifecycle" /\ Lifecycle!LoopEnds /\ ~aborted)
    /\ WF_lifecycleVars(part = "lifecycle" /\ Lifecycle!DecisionEnds /\ ~aborted)
    /\ WF_lifecycleVars(part = "lifecycle" /\ Lifecycle!PipelineEnds /\ ~aborted)
    /\ \A c \in Stoppers : WF_lifecycleVars(part = "lifecycle" /\ Lifecycle!StopStep(c) /\ ~aborted)
    /\ WF_telemetryVars(part = "telemetry" /\ Telemetry!Writer)
    /\ WF_telemetryVars(part = "telemetry" /\ Telemetry!Destructed)
    /\ WF_deliveryVars(part = "delivery" /\ Delivery!WatcherThread)
    /\ WF_deliveryVars(part = "delivery" /\ Delivery!Controller)
    /\ \A c \in Conns : /\ WF_serverVars(part = "threaded" /\ Threaded!Serve(c))
                        /\ WF_serverVars(part = "threaded" /\ Threaded!Accept(c))

-----------------------------------------------------------------------------
\* Whoever reads Latest reads a register that Start clears and the thread sets to newer captures, and
\* a number that the pipeline makes up was not published before in the same session
\* (EnvironmentAdapter.cpp, ObservationPipeline::Latest).
RegisterSpec == Pipeline!RegisterSpec /\ Pipeline!GeneratedFresh

\* The graph, the unified view and the metrics carry the number of the state that Latest returns.
ViewsAgree == part = "pipeline" => Pipeline!TypeOK /\ Pipeline!ViewsAgree

\* Start finds nothing left of the session before while none was started during a Stop, and the
\* first that comes too early meets an unjoined pipeline only (ControlRuntime::Start and Stop).
OneSessionsThreads ==
    /\ [](part = "lifecycle" => Lifecycle!TypeOK)
    /\ Lifecycle!NoSecondThread /\ Lifecycle!OnlyThePipelineIsEarly

\* The files of a session are a lossy log of what telemetry accepted (Telemetry::LogExecution,
\* PersistenceLoop).
LogSpec == Telemetry!LogSpec

\* What telemetry reports adds up: the ring with the totals and the aggregates of the adapters,
\* what was logged with what was written, dropped and waits, the files with their limits, the
\* answers of queries with the ring, and the frames counted as dropped with those that are missing.
TelemetryAddsUp ==
    /\ part = "telemetry" => /\ Telemetry!TypeOK /\ Telemetry!LogAgrees /\ Telemetry!PersistenceAccounts
                             /\ Telemetry!DiskBounded /\ Telemetry!QueriesAnswerNewest
    /\ part = "windows" => Windows!TypeOK /\ Windows!GapsCovered /\ Windows!ContractIsSound

\* Every subscriber of the moment an event is published gets it once, in the order of subscription,
\* whatever handlers throw and whoever comes or leaves (EventBus::Publish).
DeliveredInOrder == part = "delivery" => Delivery!TypeOK /\ Delivery!DeliveredInOrder

\* A client gets one response and is handled in part only when it closed its side early; there are
\* never more threads than admitted, nor more requests than asked for, and none uses a runtime that
\* another replaced (IntentApiServer::Run, HandleClient).
ClientsAreAnswered ==
    /\ part = "limited" => Limited!ServesNoMore /\ Limited!NoRuntimeIsReplaced /\ Limited!AnsweredOnce
    /\ part = "threaded" => Threaded!TypeOK /\ Threaded!ThreadsBounded /\ Threaded!AnsweredOnce /\ Threaded!HandledWhole

-----------------------------------------------------------------------------
\* Every Stop and destructor returns, from wherever the threads are, and leaves no thread, handle
\* or waiting trace behind; a watcher whose cancellation came before its read waits for a change.
StopsComplete ==
    /\ Pipeline!StopReturns /\ [](Pipeline!NeverTerminated /\ Pipeline!QuietWhenStopped)
    /\ Lifecycle!StopReturns /\ Lifecycle!LastStopReleases
    /\ Telemetry!StopReturns /\ []Telemetry!DrainedAtStop /\ Telemetry!SnapshotBacklogBounded
    /\ Delivery!StopReturnsUnlessMissed /\ [](Delivery!QuietAfterStop /\ Delivery!HandleHeld)

\* Every client that is connected finds its connection closed in the end, whatever others send or
\* fail to send.
EveryClientIsServed == Threaded!EveryClientIsServed
=============================================================================
