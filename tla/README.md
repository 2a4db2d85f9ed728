# TLA+ models of the Intent Execution Layer

The Intent Execution Layer (IEE) turns what a desktop shows into a list of executable
*intents* and executes them through *adapters* (UI Automation, file system, VS Code), once
per HTTP or CLI call or continuously in a control loop. It is about 24,800 lines of C++20
for Windows. This directory models its concurrent core and the services and algorithms
around it, checks the models with TLC and proves the theorems that matter most with TLAPS.

All paths below are relative to the repository's root.

## 1. The system

### Components

| Component | State | Operations | Talks to |
|---|---|---|---|
| **Control runtime** `core/execution/src/ControlRuntime.cpp` | `running_`, `stopRequested_`, three priority queues, `nextSequence_`, counters, pending events and refresh flags under `mutex_`; provider and a one-element state slot under `decisionMutex_`; two threads | `Start`, `Stop`, `Status`, `EnqueueIntent`, `SetDecisionProvider`, `HandleEvent`; `RunLoop`, `DecisionLoop` | registry (refresh, last snapshot), pipeline (latest state), engine (execute), event bus (subscriptions), telemetry |
| **Intent registry** `core/intent/src/IntentRegistry.cpp` | `lastSnapshot_`, `graph_`, `intents_`, `recencyByIntentId_`, `cacheEpoch_`, `resolutionCache_` under a shared mutex | `Refresh`, `RefreshUiIncremental`, `RefreshFileSystemIncremental`, `Resolve`, `RecordInteraction`, reads | observer (capture), adapters (capabilities), resolver, event bus |
| **Execution engine** `core/execution/src/ExecutionEngine.cpp` | `fastPath_` under `fastPathMutex_` | `Execute`, `ExecuteWithBudget` | validator, adapter registry, event bus, telemetry |
| **Adapter registry** `core/execution/src/Adapter.cpp` | adapters in registration order; moving averages and counters per adapter | `Register*`, `ResolveBest`, `RecordExecution` | engine, registry |
| **Observation pipeline** `core/execution/src/EnvironmentAdapter.cpp` | two buffers and an index, `running_`, `stopRequested_`, metrics; one thread | `Start`, `Stop`, `Latest`, `Metrics`, `RunLoop` | environment adapter, which reads the registry by default |
| **Event bus, watchers** `core/event/src` | subscriptions; watcher threads | `Subscribe`, `Unsubscribe`, `Publish`; `Start`, `Stop` | everyone |
| **Telemetry** `core/telemetry/src/Telemetry.cpp` | ring of traces, windows of measurements, bounded persistence queue, one thread, log files | `Log*`, queries, `PersistenceLoop`, rotation | everyone |
| **Action interface, reveal, contract** `core/action/src/ActionInterface.cpp`, `core/execution/src/RevealExecutor.cpp`, `ExecutionContract.cpp` | two memories of outcomes | resolve, reveal, execute, verify, retry, recover | registry, engine |
| **Sequences, tasks, workflows** `core/execution/src/ActionSequence.cpp`, `core/interaction/src/TaskInterface.cpp` | the call's | parse, run, queue; score and list | action interface |
| **Interaction graph, capability graph, AI view** `core/interaction`, `core/capability` | none; a version history in the API | build, diff, path search | snapshots |
| **Reflex engine and coordination** `core/reflex` | experience, biases, exploration, skills, goal | `Step`, `RecordExecutionOutcome`, `Coordinate`, skill ranking | control runtime through a decision provider and an execution observer |
| **Platform layer** `core/platform` | temporal state, execution memory, policies | plan a sentence, read JSON fields, record, query | API |
| **API server** `interface/api/src/IntentApiServer.cpp` | lazily created runtime, reflex state, histories for deltas, client count; a detached thread per client | some 60 routes | everything above |
| **CLI, SDK, accessibility** | none to speak of | I/O | API, UI Automation |

### How they interact

An *observation* is captured by the observer, kept in the registry as its last snapshot,
handed on by the pipeline's adapter, and published into the pipeline's buffer. The control
worker takes the latest one every frame, hands it to the decision worker through a slot in
which the latest state wins, pops the most urgent intent, executes it, and takes the latest
observation again to see whether it had an effect. Change events go from watchers through
the bus to the registry (which refreshes itself on the publisher's thread) and to the
runtime (which raises flags for its next frame). Resolutions go through the registry's
cache; executions go through the engine's fast path.

Clients reach all of it through the API server, on a thread per connection. `Act` resolves a
node of the interaction graph, reveals it, executes under a contract and heals itself; a
sequence or a sentence is a list of such actions. The reflex runtime is a decision provider
of the control runtime: it proposes intents for every frame and hears of their outcomes
through the execution observer. What clients see of the screen they may ask for as deltas
from what they saw before.

### What is hard, and what makes each component correct

- *Control runtime.* Five kinds of thread, two mutexes and a popped intent that is in no
  queue. Accepted intents must run once, in order within their priority, with one
  correction at most; notified changes must be looked at; Stop must return and leave no
  thread; nothing of an old session may get into a new one; the counters must add up.
- *Intent registry.* Captures and resolutions are computed outside the lock. A cached
  answer must be what the registry says *now*, and no caller may see a mixture.
- *Execution engine.* Retries, two deadlines, fallbacks and a cache shared by threads. The
  budget of attempts must hold on every path, what was reported done must not be done
  again, and the cache must not vouch for something that never worked.
- *Observation pipeline.* Start and Stop against the end of the thread; capture outside the
  lock; numbers given by some adapters and made up for others.
- *Telemetry.* A trace is logged under one lock and queued under another; the queue is
  bounded and drained before the thread ends; files rotate and survive the process.
- *Event bus, watchers.* Delivery outside the lock, unsubscription meanwhile; a read that is
  cancelled before it begins.
- *Action interface.* Several steps of which one fails; retries of what was done; memories
  shared by clients that overlap.
- *Sequences, sentences, tasks.* One text is parsed, planned, sent, posted back and parsed
  again; rankings that are cut.
- *Interaction graph, frame stream.* Deltas against histories that are bounded, shared by
  all clients and appended out of order; identities of nodes that look alike.
- *Reflex engine.* Bounded memories at their limits; arbitration among bundles; a provider
  that is uninstalled while it decides; files that are written while the process may end.
- *API server.* Unsynchronised lazy creation; a limit on threads that count themselves;
  clients that send slowly, too much, or nothing.

`PROJECT.json` lists the hazards one by one, at the line where each bites, with the
properties that cover it or the reason why none does.

## 2. The modules

| Module | What it is |
|---|---|
| `ControlRuntime` | the control runtime: both workers, clients, one controller, the pipeline's capture and publication |
| `IntentDispatch` | abstract: what callers of `EnqueueIntent` are promised |
| `RuntimeLifecycle` | Start and Stop of the runtime by threads that race: flags, handles and joins only |
| `ObservationPipeline` | the sampling thread, its buffers and numbers, its adapters, Start and Stop |
| `LatestRegister` | abstract: what readers of `Latest` are promised |
| `IntentRegistry` | the registry, with the observer's capture |
| `AtomicResolution` | abstract: `Resolve` as one atomic look |
| `ExecutionEngine` | the engine with the adapter registry |
| `TelemetryPersistence` | ring, totals, persistence queue, thread, files, restarts |
| `LossyLog` | abstract: what a session may expect of its trace files |
| `TelemetryWindows` | the bounded windows of latencies and frames and what is computed from them |
| `EventDelivery` | the event bus and the file watcher |
| `ApiServer` | connections, limits, timeouts, the lazily made runtime |
| `ActionPipeline` | `Act`: resolve, reveal, contract, recovery, memories |
| `ActionSequences` | the language of macros, running and queueing them |
| `SemanticSequences` | sentences: split, planned, posted back, executed |
| `JsonFields` | how fields are found in request bodies (operators of `SemanticSequences`) |
| `TaskPlanning` | the ranking of the task planner |
| `InteractionGraph` | building and comparing graphs; the delta endpoint; the capability graph's parents |
| `ScreenStream` | the frame stream and the temporal state |
| `UniversalReflex` | the reflex agent: world model, decision, exploration, experience |
| `ReflexCoordination` | `UreDecisionProvider`: bundles, coordination, preemption, outcomes |
| `ReflexService` | start, stop, goal and persistence of the reflex runtime |
| `SkillMemory` | skills: recording, ranking, hierarchy, file |
| `ReflexPersistence` | what the reflex runtime keeps: an instance of `ReflexService`, for any clients, and one of `SkillMemory` |
| `ReflexScreens` | screens and goals for the instances of the reflex modules |
| `MCControlRuntime`, `MCIntentRegistry` | instances of one module for TLC |
| `MCExecution`, `MCServices`, `MCPlanning`, `MCScreens`, `MCReflex` | suites: several modules in one run, see section 3 |
| `ControlRuntimeProofs` | theorems about the control runtime: types, lifecycle, order and what a session keeps; the refinement of `IntentDispatch` |
| `IntentRegistryProofs` | theorems about the registry |
| `FoldFacts` | lemmas for the theorems: induction and recursion on numbers and on finite sets, and what folds and concatenations make |
| `ExecutionProofs` | theorems about the engine, and about the engine, `Act` and macros as `MCExecution` puts them side by side |
| `ApiServerProofs` | theorems about the server |
| `ServicesProofs` | theorems about what `MCServices` puts side by side: lifecycle, server, pipeline, events, telemetry |
| `ReflexProofs` | theorems about what the reflex runtime keeps, learns and decides |
| `ScreensProofs` | theorems about what clients see of the screen: graph deltas, the shape of a graph, frame deltas |

Definitions whose comment says "variant" are not part of a model: each is a form of the
definition that follows it, with a mistake a programmer could make, and `PROJECT.json` names
the property that notices it.

### ControlRuntime

An action is one critical section of `mutex_` or `decisionMutex_` with the thread-local
work before the next one; `wpc`, `dpc` and `cpc` are the places of `RunLoop`,
`DecisionLoop` and the controller in `Stop`.

| Code | Model |
|---|---|
| `Start` 162-261 | `Start`, `StartRefused` (the pipeline of a finished session still runs) with `ResetSession` |
| `Stop` 263-301 | `StopRequest`, `StopDecision`, `JoinWorker`, `JoinDecision`, `StopPipeline` |
| `EnqueueIntent` 343-371 | `EnqueueIntent`, used by `ClientEnqueue`, `OfferIntent`, `ScheduleCorrection` |
| `HandleEvent` 468-496, `SetDecisionProvider` 392-401 | the actions of these names |
| `RunLoop` 674-994 | `LoopStops`, `LoopReachesMaxFrames`, `LoopContinues`; `BeginFrame`; `RefreshRegistry`; `Observe`; `SubmitDecisionState`; `PopIntent`, `NothingToPop`; `ExecuteInBudget`, `OverBudget`; `RecordFeedback`, `NoFeedback`; `ScheduleCorrection`, `CorrectionRefused`, `CountCorrection`; `CountExecuted`; `EndFrame`; `WaitFrame`; `ExitLoop` |
| `DecisionLoop` 513-611 | `TakeState`, `DecisionStops`, `Decide`, `OfferIntent`, `OfferSkipped`, `FinishPass` |
| pipeline, default adapter | `CaptureState`, `Publish`; refreshes by other threads: `RefreshElsewhere` |

Abstractions. Time is a choice: a frame is within budget or not, a decision pass is late or
not. An intent is its origin (the sequence number it was accepted with), whether it carries
the marker `feedback_retry`, and the frame it was decided for. An observation is a number
for what the environment looked like; two are equal when `IsLikelyMismatch` cannot tell
them apart, and an effective execution leads to one nobody has seen. An execution fails, or
succeeds without effect, or succeeds with effect, or fails too late, having had its effect.
The engine, the pipeline's own details and the registry apart from its last snapshot are
modules of their own. `hand.mark`, `history`, `uiDirty`, `fsDirty` and `fresh` are history
variables: no guard reads them.

### RuntimeLifecycle

Any number of threads call `Start` and `Stop`. A thread of the runtime only runs and ends;
the state is the flags, who is alive, which handles name a thread, and where each controller
is. `join` takes three steps: it tries, waits for the thread the handle named, and clears
the handle as it is by then; a handle that is joined twice or assigned while it names a
thread ends the process (`terminated`). `disturbed`, `overlapped` and `stopping` are history
variables for the properties.

### ObservationPipeline

`Start` and the two halves of `Stop`; the thread's check, capture, publication, pause and
end; and what the adapters read: the registry's snapshot, which refreshes replace or
invalidate; the script of the mock adapter, which may be set or extended at any time; an
external adapter that supplies any numbers. A state is the numbers that name it and its
views, 0 where the adapter left one to the pipeline, as in the code. Which pixels become
which elements is left out.

### IntentRegistry

`BeginRefresh`, `CaptureWindows`, `CaptureFiles`, `Install` (or `GiveUpRefresh`) are the
three refreshes; the observer numbers a capture before it looks, so numbers and contents
can disagree, and captures may be installed in another order than they were taken.
`CacheHit`, `CacheMiss`, `StoreResolution` and `Return` are `Resolve`'s two critical
sections. The desktop is two version numbers, windows and files; the intents of a source
are the version they were built from. A resolution is what the resolver is given: intents,
cursor and recencies. It is a function of those up to the age of the recencies, which the
code computes from the clock and caches all the same.

### ExecutionEngine

A thread is in `ExecuteInternal`: `Execute` (validation), `TryFastPath` or `ResolveBest`,
then for the primary and each fallback `Attempt` and `RunOutOfTime`
(`ExecuteWithRecovery`), `JudgePrimary`, `TryFallback`, `JudgeFallback`,
`FallbackExhausted`, and `Finish` (`UpdateFastPath`), `Return`. The scores are
floating-point averages that decay with the clock, so `ResolveBest` may choose any adapter
that can execute the intent; `RecordExecution` keeps which adapter has ever succeeded and
failed. The loop over the fallbacks is the position `passed` among the adapters in order of
registration; `Candidates` are those it still has to try. The fast path is a sequence ordered by last access; a usable entry may be found too
old at any time. `timeout` is the smaller of the intent's and the caller's. `earned` and
`made` are history variables.

### TelemetryPersistence and TelemetryWindows

`LogExecution` is two critical sections: ring, totals and aggregates under `mutex_`, then
the queue under `persistenceMutex_`. `Snapshot` reads the two halves in the same way.
`PersistenceLoop` takes a trace, then writes it: `PersistTraceLine` rotates when a non-empty
file cannot hold the line, lists the file, removes the oldest ones, and may fail to open it.
`Crash` ends a session anywhere; `Construct` begins another over the files of the last one,
with file 0. A trace is its number, its session, and what counters and rotation look at.
The windows keep the frames, latencies and reflex samples; `WithinBudget` is
`PerformanceContract` with exact sums, `Gap` counts the frames skipped. The rings of
decisions and failures repeat the trace ring and are left out.

### EventDelivery

`Publish` copies the subscribers of a type under the lock; `CallHandler` calls the next one
of the copy, which may throw, while others subscribe and unsubscribe. The watcher's thread
opens the directory, tests its flag, reads, and publishes what it read or an error; its
controller cancels, joins and closes. `CancelIoEx` ends a read only when there is one:
`cancelMissed` remembers a cancellation that found none.

### ApiServer

A connection is away, queued, read, handled, streaming or closed. Bytes are counted in
units, a head is `KHead` of them and a recv brings one to `KBuffer`. A client may send
slowly, too much, part of what it declared or nothing, and hang up at any time; recv and
send end by their timeouts. Making the runtime and using it are separate steps, as
`EnsureControlRuntime` checks and creates without a lock. With `MaxRequests` the requests
are served one after the other by the accepting thread.

### ActionPipeline

One record per client holds the locals of `Act`: the place, the primary and the current
target, the attempt (0 is Act's own, 1 to 3 are those of the recovery), what is left of the
reveal plan, the tries of the current step, the last result and the recovery's trail. Every
look at the desktop has any answer, and the engine's answer is verified, unverified or
failed. The engine does not read the node an intent names: adapters find their target by its
label, or click on its point (`Addressed`), and the alternate's intent is the primary's with
another node id, and another label only if it had none (`BuildIntentFromNode`). So `target`,
the node that is looked at and revealed, and `actedOn` are two things. The resolver's memory and the execution memory are written in two steps. Context
scores are any answer.

### ActionSequences, SemanticSequences, JsonFields, TaskPlanning

A macro's text is a sequence of raw steps, with the counts, conditions, alternatives and
tokens that `ActionSequence.cpp` parses; `Refuse` and `Accept` decide whether it can be run,
`RunStep` and `SkipStep` are `MacroExecutor`, `EnqueueStep` is the API's queued mode. A
sentence is the sequence of its words; `PlanGoal` splits it and plans each clause,
`PostSequence` parses the JSON that the client was sent, where `JsonFields` looks for a
field the way the code does: the first place where its quoted name occurs, key or value.
`TaskPlanning` computes the planner's score in whole units and lists the best nodes.

### InteractionGraph and ScreenStream

A desktop is the preorder list of its elements (`Preorder`, as `WalkTree` builds it). `GraphOf` builds the nodes with their
identities, parents by depth and by reference, reveal plans and intents; `ComputeDelta`
compares two graphs. `Capture` and `Answer` are the two halves of `GET /interaction-graph`:
a handler that captured first may reach the history last. `held` is the client that applies
what it is sent. `ScreenStream` does the same for frames, with `TemporalStateEngine`'s
history and transitions. Hashes are taken as injective, so an id or a signature is the tuple
that is hashed.

### UniversalReflex, ReflexCoordination, ReflexService, SkillMemory

`Step` builds the world model from a screen (containment, proximity, alignment), the
affordances of each object's type, and decides by priority, goal, bias and exploration;
`Outcome` records what became of a decision, `Restart` replays the experience file. Screens
are small sets of objects with boxes on a coarse grid; priorities are the code's integers.
`ReflexCoordination` extends it with the provider's frame: the specialists' bundles, their
refinement and order, a preemption, and the actions that are kept; `UreObserve` is the
execution observer. Of the continuous axes only the two triggers remain. `MCReflex` has one
instance of it, whose screens, goals and bounds are constants; its parts *learning*,
*deciding* and *planning* are restrictions of that instance's steps.

`ReflexService` is the same provider seen as a service. A call of an endpoint is the list of
steps its thread has still to take, each under one lock or on one file; every connection has
a thread, so the steps of a start and a stop mix freely. The decision worker and the execution
observer run beside them, and the process may end anywhere. `met` and `settled` are history:
what a call met while it was served (its opposite, or another that saves), and the start or
stop that was carried through last, which the properties speak of.
`SkillMemory` is the store of skills: attempts and successes per skill, two rankings with
the tolerance in which floats are compared (as products of counts), the hierarchy cut at a
limit, and the file that is truncated and written in two steps. A process that ends while it
writes leaves any beginning of the file: `Torn` is a line that ends within its sequence, within
the name of an action or within the digits of its frames, and `Parsed` what `Load` makes of it.

## 3. What the runs check

Modules that share no variables are checked in suites: a suite instantiates several modules
over variables of their own, and its variable `part` selects, once and for all, which of
them moves. The behaviours of a suite are those of each part and nothing is lost, since the
parts do not interact; what does interact is one module. An invariant of a suite is a
conjunction of invariants of its modules, named there and conditioned on the part; the
constant `Parts` says which parts a run moves. Assumptions of instanced modules are plain
definitions there, and the suite assumes them for its values.

| Run | Module | Properties | Bounds |
|---|---|---|---|
| `RuntimeQueues` | `MCControlRuntime` | `QueuesInOrder`, `NotOvertaken`, `ExecutedAtMostTwice`, `NoLostRefresh` | 2 client intents of 2 priorities, 2 frames, 2 waiting events of 2 types, repeated sessions |
| `RuntimeSessions` | `MCControlRuntime` | `DecidedThisSession`, `StoppedMeansQuiet`, `Accounting`, `DispatchSpec` | sessions of one frame and unbounded ones, a provider that is set and removed, 1 client intent, passes of 1 intent |
| `RuntimeProgress` | `MCControlRuntime` | `StopReturns`, `EveryIntentGetsItsTurn`, `DecisionTaken` | clients of 2 priorities, a proposal that is urgent, 2 accepted intents a session, sessions of one frame and unbounded ones, passes of 1 intent, with fairness |
| `RuntimeVerification` | `MCControlRuntime` | `VerifiedAfterExecution` (violated) | 1 client intent, 2 frames |
| `RegistryCache` | `MCIntentRegistry` | `CacheCoherent`, `CacheBounded`, `OneCapturePerSource`, `ResolutionSpec` | 2 threads, 2 queries, 2 captures, 1 interaction, 1 change of each part of the desktop, a cache of 1 |
| `Execution` | `MCExecution` | `BudgetIsKept`, `SuccessWasSeen`, `DoneOnce`, `FastPathIsSound`, `RecoveryIsSound`, `MemoriesAgree`, `RunsTheExpansion` | *calls*: 2 threads, 3 calls, 3 intents for one target in 2 snapshots, 2 adapters; *recovery*: 1 call at a time, 4 calls, 5 intents, 3 adapters, calls that last 1 or 2, a fast path of 2; *alone*: 1 Act at a time, 2 acts, 3 nodes of which two have the same label and one has neither a label nor a parent, any visibility; *together*: 2 clients, 2 acts, nodes that are shown; *macros*: all texts of up to 2 of 11 steps, up to 3 repetitions |
| `Services` | `MCServices` | `ViewsAgree`, `RegisterSpec`, `OneSessionsThreads`, `TelemetryAddsUp`, `LogSpec`, `DeliveredInOrder`, `ClientsAreAnswered` | *pipeline*: 1 controller, 3 adapters, scripts of up to 2 states, 3 captures; *lifecycle*: 3 controllers, 3 starts; *telemetry*: 2 loggers, 3 traces of 2 kinds, ring, queue and files of 2, 2 sessions; *windows*: 5 measurements; *delivery*: 1 publisher and the watcher, 2 events, 2 subscriptions; *threaded*: 3 clients, 2 threads; *limited*: 3 clients, 2 requests |
| `ServicesProgress` | `MCServices` | `StopsComplete`, `EveryClientIsServed` | 2 captures, 3 starts, a queue of 1 and 4 traces, 2 clients and 1 thread, with fairness |
| `Planning` | `MCPlanning` | `StepsSurvivePosting`, `BestCandidatesFirst` | *planned*: all sentences of up to 5 of 5 words and 4 longer ones; *tasks*: graphs of 3 nodes with 4 labels and 5 conditions, 24 requests |
| `Screens` | `MCScreens` | `GraphDeltasAddUp`, `NodesAreKept`, `FrameDeltasAddUp` | *deltas*: 2 clients, 3 desktops, a history of 2; *shape*: 56 desktops of up to 6 elements, each after each; *stream*: 2 clients, 3 screens, 3 frames, histories of 2; *single*: 1 client that names no frame, 5 frames |
| `Reflex` | `MCReflex` | `LastOutcomeCounts`, `BestBundleWins`, `ExperienceInOrder`, `SkillsAddUp` | *learning*: 4 outcomes, an experience of 3, restarts; *deciding*: 5 screens, 4 goals; *planning*: 4 screens, 4 goals, 2 frames; *service*: 2 clients, 3 calls, 2 outcomes, a memory of 2, 1 queued intent, a crash; *skills*: 3 skills, 2 records, a crash, a file left by an earlier process |
| `ReflexPolicy` | `MCReflex` | `PolicyIsChecked` (violated) | *planning* |

What they show:

- **Dispatch** (`DispatchSpec`, `QueuesInOrder`, `NotOvertaken`, `ExecutedAtMostTwice`).
  Whatever clients, decisions and corrections do while an intent is in the worker's hand,
  it is executed once, in order, and corrected at most once. In the refinement mapping the
  intent in the hand still waits at the head of its queue.
- **Sessions** (`DecidedThisSession`, `StoppedMeansQuiet`, `Accounting`). With one
  controller, stops, restarts and refused starts leave neither threads nor intents behind.
- **Controllers that race** (`OneSessionsThreads`, `StopsComplete`). As long as no session
  was started during a Stop, a Start finds nothing of the last one, although it looks for
  neither thread: what protects it is that Stop ends the pipeline last. A Start during a
  Stop is not safe: it may withdraw the flag the decision worker has not seen, so that this
  Stop waits for the next one, or start the threads the Stop is about to join. The Stop that
  begins after the last Start ends everything.
- **Refresh** (`NoLostRefresh`). Every notified change is followed by a capture that was
  asked for afterwards. It does not say that the capture was valid: an invalid one loses the
  change until the next event or full refresh (`IntentRegistry.cpp:133`).
- **Progress** (`StopReturns`, `EveryIntentGetsItsTurn`, `DecisionTaken`). An accepted intent is
  executed unless its session is stopped; to be taken out of its queue and put back is not
  enough. The exception is stated and not hidden: as long as more urgent intents are accepted
  again and again, strict priority (`ControlRuntime.cpp:613`) lets a less urgent one wait for
  ever. In the run a session accepts finitely many (`MaxSequence`), which is the other case.
  Wake-ups of the condition variable are not modelled (a thread sees what is true), so that a
  lost one would not be found.
- **Observation** (`ViewsAgree`, `RegisterSpec`). Whichever numbers adapters supply, the
  views of one state carry one number, and `Latest` is a register of ever newer captures.
- **Registry**. The cache cannot be seen: `Resolve` implements `AtomicResolution`.
- **Engine**. The budget of attempts, the end after a success and the provenance of the
  fast path hold on every path. What does not hold, and is not claimed by any document: an
  adapter's late success is rewritten to a failure (`ExecutionEngine.cpp:259`), so what was
  done is retried and then done again by the fallbacks. `DoneOnce` therefore speaks of the
  status after that rewriting.
- **Telemetry** (`TelemetryAddsUp`, `LogSpec`). Ring, totals, aggregates, queue, counters and
  files tell one story across rotation, failing files and crashes; the files of a session
  are a lossy log of it. The limits on files are those of one session: file names start at 0
  again after a restart, and files of the session before are found and appended to.
- **Events** (`DeliveredInOrder`, `StopsComplete`). The watcher's Stop returns unless its
  cancellation came before the read; then it waits for the next change in the directory.
- **Server** (`ClientsAreAnswered`, `EveryClientIsServed`). One response per connection, a
  thread limit that is kept, and every connection closed in the end whatever others do. That
  no request uses a runtime another one replaced holds for requests served one after the
  other; with threads, two may both create one.
- **Act** (`RecoveryIsSound`, `MemoriesAgree`). At most four executions in a fixed order,
  the alternate is another node, nothing is executed after a verified execution, and both
  memories agree on what became of each Act. What is acted on has the label of the node Act
  resolved, or is that node; only where it has no label is the alternate acted on. The
  alternate is looked at, revealed, reported and remembered all the same
  (`ActionInterface.cpp:635`, `:730`), so that a recovered success may name a node that was not
  touched. `RecoveryIsSound` says exactly this much of it.
- **Macros, sentences, tasks**. A macro runs what its text means. A planned sentence that is
  posted back means the same *unless a target or a value is spelled like a field name*, in
  which case the search for the field may stop at it; `StepsSurvivePosting` says exactly
  that. Rankings keep the best, prefer what can be used, and put what matches before what
  does not.
- **Deltas** (`GraphDeltasAddUp`, `FrameDeltasAddUp`). A client that only applies deltas is
  right whatever was evicted, repeated or appended out of order. `FrameDeltasAddUp` also
  shows that the signature of a frame covers its id, so that no transition of
  `TemporalStateEngine` is ever stable, however long the screen stays the same.
- **Reflex** (`LastOutcomeCounts`, `BestBundleWins`, `ExperienceInOrder`, `SkillsAddUp`). The
  last outcome of an action counts, learned or replayed; coordination keeps the best
  proposal of each kind; the experience file is in order whoever wrote it and wherever the
  process ended. A start or stop is carried through as a whole unless it meets its opposite:
  `/ure/start` activates under a lock and installs after it (`IntentApiServer.cpp:3663`,
  `:3766`), so a stop of another connection in between leaves provider and observer installed
  in an inactive runtime, or an active one without them. Whatever they do, one decision at most
  comes late. Skills count what was recorded; a line that was cut may leave a skill fewer
  frames than its sequence has, or the missing ones as 1, which is what a new `Skill` has, so
  that `Load` never computes them (`ReflexCoordination.h:121`, `ReflexCoordination.cpp:707`),
  and an action of another name. The next record of the skill repairs all of it.

Two documented promises are not kept, and each has a run:

- `RuntimeVerification`. `docs/vision.md:156-158` says that every execution is verified after
  execution. The runtime compares the observation before with whatever the pipeline
  published last, which may be older than the execution; with the default adapter it is the
  registry's snapshot, which no execution refreshes. A successful and effective intent is
  then counted as a mismatch and executed a second time.
- `ReflexPolicy`. `docs/universal_reflex_engine.md:48` and `README.md:123` say that reflex
  execution obeys the permission policy. The decision is marked as not executable, but the
  bundles made from it still become intents, and only the runtime's `execute` option is
  asked before they are queued.

Four more are stated as definitions, with what the documents say; a configuration that lists
one shows how it fails:

- `FailureLowersPriority` of `UniversalReflex` (`docs/universal_reflex_engine.md:82`,
  `README.md:110`): an outcome of an intent is recorded under the action `activate|<id>` but
  looked up under the affordance (`UniversalReflexEngine.cpp:729`, `:1004`).
- `OutcomeIsLocal` of `ReflexCoordination` (`docs/universal_reflex_engine.md:82`): an intent
  carries the object of the first bundle with the label of the decision
  (`IntentApiServer.cpp:1937`), so an outcome may be recorded for an object it is not about.
- `GoalIsSaved` of `ReflexService` (`docs/reflex_runtime.md:113`): the goal is copied under
  its lock and written after it (`IntentApiServer.cpp:4012`), so the older of two may be
  written last.
- `SequencesAreCoordinated` of `SkillMemory` (`docs/status.md:85`): an outcome replaces the
  sequence of its skill by its one action (`IntentApiServer.cpp:3793`,
  `ReflexCoordination.cpp:781`).

### Bounds

`FrameCap` and `CounterCap` saturate counters above every limit that is compared with them.
`MaxSequence`, `MaxProposed`, `MaxPending` (runtime), `MaxCaptures`, `MaxInteractions`,
`MaxChanges` (registry), `MaxCalls` (engine), `MaxCaptures` (pipeline), `MaxStarts`
(lifecycle), `MaxLogged`, `MaxSessions`, `MaxSamples` (telemetry), `MaxEvents`,
`MaxSubscriptions` (events), `MaxActs`, `MaxVersion` and `KFrames`, `KOutcomes`, `KRecords`,
`KCalls`, `KCrashes`, `KQueued` bound what the environment does, not what the code does:
corrections, put backs, frames and sessions of the runtime are not bounded by them. Two
intents are enough for every order of two, and a correction makes a third; two priorities
are enough for overtaking; two captures and an interaction are enough to invalidate what a
thread computes, twice; three calls let two finish while one is slow; three starts let a
session begin during the Stop of another and be followed by one more.

In *service* no goal is set to another than none, since no property of the run reads it
(`GoalIsSaved` is not checked), and a memory of as many as there are outcomes evicts none: the
theorem covers the rest. Three calls of two clients let a stop meet a start and be followed or
preceded by another call. The sequences of *skills* take frames of one and of two digits.

Limits of the code are small so that they are reached: `FullRefreshPeriod` (120), `MaxPass`
(8), `CacheLimit` (512), `EvictCount` (128 and 64), `FastPathLimit` (256), `KMaxTraces`
(2048), `KMaxPersistenceQueue` (4096), `KMaxPersistedFiles` (8), the file size (1 MB), the
windows (4096), `KMaxConcurrentClients` (16), the payload (1 MB), `KMaxRepeat` (128),
`MaxHistory` (128), `KMaxExperience` (512), `KRanked` (32) and `HierarchyLimit` (16). The
engine evicts no more entries than it keeps (`EvictCount` is in `1..FastPathLimit`, 64 and
256 in the code), as `EngineAssumption` says. The requests clients send, the numbers and
scripts of adapters, the kinds of traces and the types of events are constants of
`MCServices` that its configurations give values, so that the theorems hold for all values
of these as well.

The run `Execution` uses symmetry of its threads and of its clients, and `Reflex` of its
clients, which no definition tells apart; none of their properties is a liveness property. Part
*threaded* fixes one order of the clients' requests, since clients are only names. Suites switch the deadlock check off because their
environments are bounded; the runtime and the registry never stop.

### Fairness

`FairSpec` of `ControlRuntime` assumes weak fairness of the worker, of the decision worker
and of a Stop that has begun: threads that are scheduled, mutexes that are released, a
provider and an engine that return. Clients, events, the controller and the pipeline get
none. It assumes strong fairness of `ExecuteInBudget`: a popped intent meets, again and
again, a frame that has budget left. That is an assumption about the machine and not about
the code: where every frame is over budget when the intent is popped, the code puts it back
for ever.

`FairSpec` of `MCServices` assumes weak fairness of the pipeline's thread and of joins that
have begun, of each thread of the runtime's lifecycle and of Stops that have begun, of the
telemetry writer and its destructor, of the watcher's thread and its controller, and of the
server's threads, whose recv and send have timeouts. Clients, files that change, and callers
that begin something get none.

## 4. What is proved

The theorems hold for every value of the constants that satisfies the assumptions of the
module they are about: `ConfigAssumption` and `BoundAssumption` (`ControlRuntime`),
`CacheAssumption` and `BoundAssumption` (`IntentRegistry`), `EngineAssumption`
(`ExecutionEngine`), `SuiteAssumption` of `MCExecution` (the limits of Act, and that texts are
written in the language of macros, with repeat counts the endpoint has bounded), `ClientsAssumption` (`ApiServer`), and for the services
`BoundsAssumption` of `MCServices`, which is the conjunction of those of its parts. They say
that limits are numbers, that a limit compared with `>=` before an insertion is not 0, that
sets of threads and connections are finite where something is counted, and that the watcher
is nobody else. For the reflex runtime it is `PersistenceAssumption`: a memory holds at least
one outcome, a sequence that is recorded has one to six actions (a frame has at most six
bundles with one action each), none of which is named like a cut one, and a file an earlier
process left has lines as `Save` writes them, or a beginning of one; and for the agent
`BoundsAssumption` of `MCReflex`: a screen shows finitely many items, each of a kind that
`UniversalFeatureExtractor` knows and the cursor among them. For the graph and the stream it is
`DesktopsAssumption` (a desktop is what `AccessibilityLayer::WalkTree` lists: each element under
the one it names as its parent, which comes before it with nothing between but what is under it
too, and no id occurs twice) and `StreamsAssumption` (the temporal
history keeps more than one frame, and so a transition; the history for deltas at least one). An invariant of a run is
seldom inductive; the tables name what has to be known besides.

**Control runtime**

| Theorem | States | Argument |
|---|---|---|
| `ControlRuntimeProofs!TypeCorrect` | `[]TypeOK` | one lemma per part of `TypeOK`, one case per action; counters of pending events are decremented only above zero, and there is always a world nobody has seen |
| `ControlRuntimeProofs!StopLeavesNoThread` | `[]StoppedMeansQuiet` | `LifecycleInv`: where the worker and the decision worker can be while the controller is at each step of `Stop`. `StoppedMeansQuiet` alone is not inductive: it must know that a running runtime has a running pipeline and that the joins came before the pipeline's stop |
| `ControlRuntimeProofs!QueueOrder` | `[]QueuesInOrder` | `OrderInv` adds that all numbers are below the next one and that, while an intent is in the hand, nothing in its queue has the number 0 it would be put back with |
| `ControlRuntimeProofs!NoOvertaking` | `[]NotOvertaken` | `OvertakeInv` adds that the mark taken at the pop is not above the next number |
| `ControlRuntimeProofs!RefreshKept` | `[]NoLostRefresh` | given types and `LifecycleInv` it is inductive: `BeginFrame` hands the flags it clears to the refresh of its frame, and only that refresh forgets a change |
| `ControlRuntimeProofs!DecisionsBelong` | `[]DecidedThisSession` | `FramesInv`: the frames of the decision worker, of its input slot and of the intent in the hand, which may come back as a correction; a pass may outlive its session only as long as the runtime refuses intents |
| `ControlRuntimeProofs!CountersAddUp` | `[]Accounting` | `CountsInv`: the same sums in every state, with what a thread has counted on one side and not yet on the other made up for by its place (`Off`, `Accepted`) |
| `ControlRuntimeProofs!ImplementsDispatch` | `DispatchSpec`, the refinement of `IntentDispatch` | one lemma per kind of step: acceptance, pop, correction, put back, session. `OriginInv`: names come from the sequence counter and were all given out before. `HandInv`: until its correction is decided, the intent in the hand is the last of the history and waits nowhere |
| `ControlRuntimeProofs!OneCorrection` | `[]ExecutedAtMostTwice` | `DispatchInv`, stated about the abstract dispatch and carried over by the simulation: a name waits once, and an item that bears a name the engine has seen is the correction of what it saw |

**Registry**

| Theorem | States | Argument |
|---|---|---|
| `IntentRegistryProofs!TypeCorrect` | `[]TypeOK` | by action |
| `IntentRegistryProofs!CacheCorrect` | `[]CacheCoherent` | `CoherenceInv` adds `PendingCoherent`: a resolution in progress whose epoch is still current is one of the current content, because whatever changes the content takes a new epoch. The proof never uses the comparison of snapshot sequences: the epoch alone suffices |
| `IntentRegistryProofs!CacheLimited` | `[]CacheBounded` | `BoundInv`: the cache is also finite; an insertion adds one entry, and an eviction, which happens above the limit, takes at least one |
| `IntentRegistryProofs!SourcesCorrect` | `[]OneCapturePerSource` | inductive as it stands |
| `IntentRegistryProofs!ResolvesAtomically` | `ResolutionSpec`, the refinement of `AtomicResolution` | a hit and a miss are the atomic look (a hit by `CacheCorrect`), installs and interactions are changes, the rest stutters |

**Engine**

| Theorem | States | Argument |
|---|---|---|
| `ExecutionProofs!TypeCorrect` | `[]TypeOK`, `[]UniqueKeys` | by action; `StoreFastPath` removes the entry of its key before it appends one |
| `ExecutionProofs!WithinBudget` | `[]AttemptBudget` | `EngineInv`: for each thread `Fresh` (adapters that the loop has not passed were not tried), `Chosen` (the adapter in use is the primary, or one that was passed and differs from it), `Budgeted` (`made` of it is the attempts of this round, and within the retries of every other), `Answered` |
| `ExecutionProofs!SuccessSeen` | `[]SuccessIsEarned`, `[]FastPathEarned` | the same invariant: what is stored is the result that `Answered` says was earned |
| `ExecutionProofs!NotRepeated` | `[][NothingAfterSuccess]_vars` | `Answered`: in a place from which an attempt is possible, there is no success yet |
| `ExecutionProofs!ChosenSoundly`, `EvictedInOrder` | the choice from the fast path, and its bound and eviction | facts on sequences (`RemoveAt`, the sequence without one key, `SubSeq`) |
| `ExecutionProofs!BudgetKept`, `SuccessSeenBySuite`, `DoneOnlyOnce`, `FastPathSafe` | `BudgetIsKept`, `SuccessWasSeen`, `DoneOnce`, `FastPathIsSound` | the suite's two parts of the engine are restrictions of `Next`, so each step keeps the same invariant, and the other parts move none of its variables |

**Act**

| Theorem | States | Argument |
|---|---|---|
| `ExecutionProofs!RecoveryKept` | `RecoveryIsSound`: bounded recovery, another node for the alternate, nothing executed after a verified execution or before a reveal that is needed, and a success only as verified, acted on the primary or one with its label unless it has none | `ActsInv`, for each client: `Spent` (executions and reveals within what the attempts so far allow, at every place), `Trailed` (the trail is a beginning of retry, alternate, fallback), `Verified` (which result can be in hand at which place), `Located` (which node is looked at and revealed, against the one Act was asked for), `Aimed` (which node was acted on, from the label and the point that the intent of each attempt carries). Each action is first described by what it moves of its client's record (`Ends`, `Opens`, `Hides`, `Reveals`, `Executes`, `Tries`, `Succeeds`, `GivesUp`), and the parts of the invariant are proved from that |
| `ExecutionProofs!MemoriesAlwaysAgree` | `[]MemoriesAgree` | `MemInv`: for each node, what one memory counts and the other does not is the number of clients between the two steps with a success on that node (`Between`), as cardinalities; the Acts under way are bounded by the Acts begun |

**Macros**

| Theorem | States | Argument |
|---|---|---|
| `ExecutionProofs!MacrosRun` | `[]RunsTheExpansion`: types, what was run against the expansion of the text, what was queued | `MacroInv`: as long as no required step failed, the number of results is the length of what the steps before the place mean plus the repetitions so far, and each result is what the meaning has at its number (`Matching`). It rests on two facts about data: a text that is not refused becomes steps that can be run, whatever its tokens (`StepParsed`, `TextParsed`), and the concatenation of what the steps stand for has each step's part at the place the lengths say (`Layout`) |

Facts about folds need induction, and the library states induction about a predicate, which the
provers cannot instantiate. `FoldFacts` derives from the library's well-founded relations the same
about sets: a set that holds 0 and with each number the next one holds all numbers
(`SetInduction`); the same for the subsets of a finite set, by taking out one element
(`SubsetInduction`), which is how the folds of the community modules go; and that functions can be
defined by such recursions (`NumberRecursion`, `SubsetRecursion`), so that the `CHOOSE` by which a
fold is defined chooses something.

**Server and services**

| Theorem | States | Argument |
|---|---|---|
| `ApiServerProofs!ServerCorrect` | the five invariants of the server, in both modes | `ServerInv`: `Client` (what holds of one connection whatever the others do), `Counted` (`activeClients` is the number of connections at work), `OneAtATime` (with `MaxRequests`, one connection is served at a time and those that were served are gone) |
| `ServicesProofs!ClientsAnswered` | `[]ClientsAreAnswered` | `ServerCorrect` for both instances |
| `ServicesProofs!SessionsAreApart` | `[]OneSessionsThreads` | `LifecycleInv`: as long as no session was started during a Stop, each Stop went to the decision worker's handle after the loop's and to the pipeline's last (`StopsInOrder`), and a pipeline that was asked to end is waited for (`SomeoneJoins`) |
| `ServicesProofs!ViewsAlwaysAgree` | `[]ViewsAgree` | by action: whatever the adapter leaves 0 is set from the number of the state |
| `ServicesProofs!LatestIsARegister` | `RegisterSpec`, the refinement of `LatestRegister`, and `[][NumbersAreNew]_vars` | `Newer`: what is published was captured before what the thread has in hand, and no published number is above the last one made up or supplied |
| `ServicesProofs!EventsDelivered` | `[]DeliveredInOrder` | `DeliveryInv`: `Due` (who was called and who is still to be called are, in this order, who was subscribed; an event has one thread), `Subscribed` (ids are given out in increasing order, so nobody is subscribed twice), `WatcherIdle` |
| `ServicesProofs!WatcherIsQuiet` | `[](QuietAfterStop /\ HandleHeld)` | part of the same invariant |
| `ServicesProofs!NoTraceDisappears` | `[](RingAgrees /\ PersistenceAccounts /\ DrainedAtStop)` | `TelemetryInv`: `RingInv`, `QueueInv` (what was logged is written, dropped, queued, being written or held by a logger, as a sum of cardinalities; without a writer the queue is empty), `WriterInv` (the thread ends only when the queue is empty and nobody can add to it), `FileInv` (a file is begun only after a trace was written) |
| `ServicesProofs!BacklogIsBounded` | `[][SnapshotBacklogBounded]_vars` | the same invariant: between the two halves of `Snapshot` each logger and the writer hold one trace at most |

**Reflex runtime**

| Theorem | States | Argument |
|---|---|---|
| `ReflexProofs!ExperienceKept` | `[]ExperienceInOrder`, for any number of clients: the file is in order whoever writes it; one decision at most comes late; a start or stop that did not meet its opposite is whole; a stop that met no other save has saved | two invariants. `ServiceInv`: what is remembered, copied by each client and in the file at two moments of one process `Fits`, that is, until the memory is full the shorter is how the longer begins, and then its entries are no newer; so that writing one over the other leaves a file in order, in full or in part. `StoppingInv`: what is left of a call is an end of its plan, in which each step is followed by a known one; calls that are at opposite steps have met (`MetInv`); what each call has installed or removed so far (`ControlInv`, `ProgressInv`) unless it met its opposite, and then what the last one that was carried through left (`SettledInv`); where what was remembered is saved, being copied or being written by a stop that is alone in it (`SavedInv`); and that a decision made after a stop had found the runtime active (`LateOnce`) |
| `ReflexProofs!SkillsCounted` | `TypeOK`, `CountsAddUp` and `RecordsRepair` of `SkillMemory` | `SkillInv`: the same bounds for every line of the file and so for every part of it that a crash leaves (`LineTorn`), and nothing counted under a name that is not known. A line may end anywhere behind its counts; a skill that this process has recorded is whole (`RepairInv`) |
| `ReflexProofs!OutcomesCount` | `[]LastOutcomeCounts`, for any screens, goals and bounds | `AgentInv`: biases and adjustments stay within their limits; what is remembered `Counts`, that is, the last of the first n outcomes of a choice shows in its bias; a decision that can be executed is `Sound`. Recording drops the oldest outcome and adds one, which is no other choice's last. Replaying is a fold, and what holds after n outcomes is shown by induction with `FoldFacts`. Containment relates a wider object to a narrower one and so has no circle |
| `ReflexProofs!BestWins` | `[]BestBundleWins`, for any screens, goals and bounds | `PlanningInv`: the plan of a frame is a `Contest`, four or five bundles with different sources in a strict order. The order by priority and source is total, and so the ranking is unique (`OrderedRanked`, `RankedOnce`); adding to the first keeps every place (`BoostOf`). The coordinator keeps of each kind of action the first (`FirstsKept`, by induction over its fold), and an action tells who proposed it (`ProposerOf`), so the one that is made is the best bundle's (`ContestWon`) |

**Interaction graph and frame stream**

| Theorem | States | Argument |
|---|---|---|
| `ScreensProofs!GraphsAreCarried` | `[]GraphDeltasAddUp` | `DeltaInv`: among the graphs captured, remembered and held, a version names one graph, and each is a function of what its nodes show (`Shown`), so that a node which compares equal also has the same plans. A delta then leads from the graph the client holds to the one it is about (`DeltaLeads`), whether its base was still in the history or the whole graph is sent |
| `ScreensProofs!GraphsHaveShape` | `NodesAreKept` | facts about one preorder list. Elements that look alike are told apart by their rank, which grows along the list (`RanksGrow`, `NodesApart`); the parent by depth is the one the element names (`AnchorIsParent`); a plan walks up through parents, each before its child (`PlanFacts`, `PlansReachable`). An element whose path and automation id no other shares has the first rank in both desktops (`AloneIsFirst`, `IdentityKept`) |
| `ScreensProofs!FramesAreCarried` | `[]FrameDeltasAddUp` | `FrameInv` and `StreamBase`: an id names one captured frame, among the latest, those in the hands of handlers, both histories and what clients were served. For clients that name their base that suffices (`StreamDeltaLeads`). For the one that names none: what it was served last is the last frame of the history (`LastServed`), and the histories of frames and transitions, cut at limits one apart, shift alike (`TransitionsInv`, `CutFacts`) |

A suite moves one part at a time; the lemmas that a behaviour of the suite is one of the part
(`part` is constant and the rest is unchanged) come first in each section of
`ServicesProofs`, and last in `ReflexProofs` and `ScreensProofs`. The strengthened invariants were checked by TLC on the runs' instances
before they were proved. The type invariants that are proved are no longer checked by a run.

**Only model-checked.**

- Liveness, which needs fairness and ENABLED: `StopReturns`, `EveryIntentGetsItsTurn`,
  `DecisionTaken`, `EveryClientIsServed`, and of `StopsComplete` the parts that say a Stop returns.
- What is computed with `SelectSeq`, `SortSeq` or as a sum: `AggregatesAgree` of
  `TelemetryPersistence`, the sums of `TelemetryWindows` (the other conjuncts of
  `TelemetryAddsUp`), `DiskBounded`, `QueriesAnswerNewest`. `FoldFacts` gives induction over
  folds; `SelectSeq` and `SortSeq` are built into the prover without the facts that would be needed.
- `LogSpec`, the refinement of `LossyLog`.
- The suite `MCPlanning` (`StepsSurvivePosting`, `BestCandidatesFirst`): its modules use recursive
  operators, for which the prover has no SMT backend.
- Of `SkillsAddUp` of `MCReflex`, the hierarchy.

That the rankings of skills are strict orders is not claimed. Rates that differ by less than
the tolerance are taken as equal, which is not transitive once skills have more than about a
hundred attempts each, and then `std::sort` is given no ordering. The counts of the run are so
small that rates and scores which differ do so by more than the tolerance.

## 5. Not modelled

- `SetPredictor`, `Predict`, the latency samples of the runtime, JSON it prints.
- `IntentResolver`: a stateless ranking with floating-point scores over edit distances, and
  the parsing of free text. Whatever depends on its answer (cache, ambiguity, recovery) takes
  any answer.
- Scores of adapters; screen perception; the continuous axes and the smoothing of the reflex
  controller; hash signatures, which are taken as injective.
- The adapters' Win32 and COM calls, `UiChangeWatcher`'s hooks, the text of HTTP heads, the
  endpoints that read one component and print it, `AIStateView`.
- `PermissionPolicyStore` beyond the one value the reflex provider reads.
- Object lifetimes (handlers that capture `this`).
- Command line, SDK and accessibility: argument parsing, printing and calls; no state
  outlives a call.

## 6. Plan

Done: items 1 to 11 of the list below, as modules and runs.

1. `ControlRuntime`, `IntentDispatch`, proofs.
2. `IntentRegistry`, `AtomicResolution`, proofs.
3. `ExecutionEngine` with the adapter registry.
4. `ObservationPipeline`, `LatestRegister`.
5. `RuntimeLifecycle`.
6. `TelemetryPersistence`, `LossyLog`, `TelemetryWindows`.
7. `EventDelivery`.
8. `ActionPipeline`, `ActionSequences`, `SemanticSequences`, `JsonFields`, `TaskPlanning`.
9. `UniversalReflex`, `ReflexCoordination`, `ReflexService`, `SkillMemory`.
10. `InteractionGraph`, `ScreenStream`.
11. `ApiServer`.
12. `PermissionPolicyStore` (an update gets, changes and applies the policy in two critical
    sections, `IntentApiServer.cpp:3222-3240`, so that one of two may be lost), and
    `UiChangeWatcher`.

Theorems: those of section 4 are done. Left, in this order: the limits of `TelemetryWindows`, and the part of
`LogSpec` that says a session's files hold a subsequence of what it logged.
