--------------------------- MODULE ServicesProofs ---------------------------
(***************************************************************************)
(* What the services around the runtime promise, for any number of callers *)
(* and clients and any bounds.                                             *)
(*                                                                         *)
(* A behaviour of MCServices moves one part only, so that it is, for each  *)
(* part, a behaviour of that part's own specification: the lemmas that say *)
(* so come first in each section, and the invariants are those of the part *)
(* alone.                                                                  *)
(***************************************************************************)
EXTENDS MCServices, FiniteSetTheorems, SequenceTheorems, TLAPS

-----------------------------------------------------------------------------
\* Start and Stop of the runtime.

\* What each Stop has achieved by the place it is at, while no session was started during a Stop:
\* it went to the decision worker's handle after the loop's and to the pipeline's last, so that
\* who asks the pipeline to end has left neither of the others.
NoneLeft == {"loop", "decision"} \cap handles = {}

StopsInOrder ==
    /\ alive \subseteq handles
    /\ \A c \in Lifecycle!Callers :
          /\ place[c].phase = "clear" => place[c].thread \notin alive
          /\ place[c].thread \in {"decision", "pipeline"} => "loop" \notin handles
          /\ place[c].thread = "pipeline" => "decision" \notin handles
    /\ pipelineStopRequested \/ ~pipelineRunning => NoneLeft

\* The pipeline is asked to end by a Stop that waits for it, and that Stop then has the handle of
\* the pipeline that ended.
SomeoneJoins ==
    /\ pipelineStopRequested => \E c \in Stoppers : place[c] = Lifecycle!Place("pipeline", "wait")
    /\ ~pipelineRunning /\ "pipeline" \in handles =>
          \E c \in Stoppers : place[c] = Lifecycle!Place("pipeline", "clear")

LifecycleInv == Lifecycle!TypeOK /\ (~overlapped => StopsInOrder /\ SomeoneJoins)

\* The steps of the other parts leave the runtime's Start and Stop alone.
LEMMA LifecycleBehaves == Spec => Lifecycle!Spec
<1>1. Init => Lifecycle!Init
    BY DEF Init
<1>2. [Next]_vars => [Lifecycle!Next]_Lifecycle!vars
    BY DEF Next, vars, PipelineNext, LifecycleNext, TelemetryNext, WindowsNext, DeliveryNext, ServerNext,
           lifecycleVars, Lifecycle!vars, Lifecycle!flags, Lifecycle!history
<1> QED
    BY <1>1, <1>2, PTL DEF Spec, Lifecycle!Spec

\* The places of a controller are records, told apart by their fields.
LEMMA PlaceFacts ==
    /\ \A x \in Lifecycle!Places :
          /\ x.phase \in {"idle", "flags", "try", "wait", "clear"}
          /\ x.phase \in {"idle", "flags"} => x.thread = "none"
          /\ x.phase \in {"try", "wait", "clear"} => x \in [thread : Lifecycle!Threads, phase : {"try", "wait", "clear"}]
          /\ x = Lifecycle!Idle <=> x.phase = "idle"
    /\ \A t \in Lifecycle!Threads, q \in {"try", "wait", "clear"} :
          /\ Lifecycle!Place(t, q) \in Lifecycle!Places
          /\ Lifecycle!Place(t, q).thread = t /\ Lifecycle!Place(t, q).phase = q
    /\ Lifecycle!Idle \in Lifecycle!Places /\ Lifecycle!Idle.thread = "none" /\ Lifecycle!Idle.phase = "idle"
    /\ Lifecycle!Flagged \in Lifecycle!Places /\ Lifecycle!Flagged.thread = "none" /\ Lifecycle!Flagged.phase = "flags"
    BY DEF Lifecycle!Places, Lifecycle!Threads, Lifecycle!Place, Lifecycle!Idle, Lifecycle!Flagged

\* The controllers that wait for a thread, and those that wait for none.
LEMMA AfterFacts ==
    /\ Lifecycle!After("loop") = Lifecycle!Place("decision", "try")
    /\ Lifecycle!After("decision") = Lifecycle!Place("pipeline", "try")
    /\ Lifecycle!After("pipeline") = Lifecycle!Idle
    BY DEF Lifecycle!After

LEMMA JoiningFacts ==
    \A t \in Lifecycle!Threads :
       /\ Lifecycle!After(t) \in Lifecycle!Places /\ Lifecycle!Joining(t) \in Lifecycle!Places
       /\ t \notin handles => Lifecycle!Joining(t) = Lifecycle!After(t)
       /\ t \in handles /\ t \in alive => Lifecycle!Joining(t) = Lifecycle!Place(t, "wait")
       /\ t \in handles /\ t \notin alive => Lifecycle!Joining(t) = Lifecycle!Place(t, "clear")
    BY AfterFacts, PlaceFacts DEF Lifecycle!Joining, Lifecycle!Threads

\* A thread that returns moves those that wait for it to its handle.
LEMMA ReturnsFacts ==
    ASSUME place \in [Lifecycle!Callers -> Lifecycle!Places], NEW t \in Lifecycle!Threads, Lifecycle!Returns(t)
    PROVE  /\ place' \in [Lifecycle!Callers -> Lifecycle!Places]
           /\ \A c \in Lifecycle!Callers :
                 IF place[c] = Lifecycle!Place(t, "wait") THEN place'[c] = Lifecycle!Place(t, "clear")
                 ELSE place'[c] = place[c]
           /\ alive' = alive \ {t} /\ UNCHANGED <<handles, Lifecycle!history, aborted>>
    BY PlaceFacts DEF Lifecycle!Returns

\* The members keep their types.
LEMMA LifecycleTypes ==
    ASSUME Lifecycle!TypeOK, [Lifecycle!Next]_Lifecycle!vars
    PROVE  Lifecycle!TypeOK'
<1> DEFINE Flags == /\ loopRunning \in BOOLEAN /\ loopStopRequested \in BOOLEAN /\ decisionStopRequested \in BOOLEAN
                    /\ pipelineRunning \in BOOLEAN /\ pipelineStopRequested \in BOOLEAN
                    /\ overlapped \in BOOLEAN /\ stopping \in BOOLEAN /\ aborted \in BOOLEAN
           Others == /\ alive \subseteq Lifecycle!Threads /\ handles \subseteq Lifecycle!Threads
                     /\ place \in [Lifecycle!Callers -> Lifecycle!Places]
                     /\ starts \in 0..MaxStarts /\ disturbed \subseteq Lifecycle!Callers
                     /\ pipelineRunning /\ ~aborted => "pipeline" \in alive
<1>1. Flags /\ Others
    BY DEF Lifecycle!TypeOK
<1>2. SUFFICES Flags' /\ Others'
    BY Zenon DEF Lifecycle!TypeOK
<1>3. CASE UNCHANGED Lifecycle!vars
    BY <1>1, <1>3 DEF Lifecycle!vars, Lifecycle!flags, Lifecycle!history
<1>4. CASE Lifecycle!Next
    <2>0. ~aborted
        BY <1>4 DEF Lifecycle!Next
    <2>1. ASSUME NEW c \in Starters, Lifecycle!Start(c) \/ Lifecycle!StartRefused(c)
          PROVE  Flags' /\ Others'
        <3>1. Flags'
            BY <2>1, <1>1, Zenon
               DEF Lifecycle!Start, Lifecycle!StartRefused, Lifecycle!MayStart, Lifecycle!Disturb
        <3>2. starts' \in 0..MaxStarts /\ disturbed' \subseteq Lifecycle!Callers /\ place' = place
            BY <2>1, <1>1, BoundsAssumption
               DEF Lifecycle!Start, Lifecycle!StartRefused, Lifecycle!MayStart, Lifecycle!Disturb,
                   Lifecycle!MaxStartsAssumption
        <3>3. /\ alive' \subseteq Lifecycle!Threads /\ handles' \subseteq Lifecycle!Threads
              /\ pipelineRunning' /\ ~aborted' => "pipeline" \in alive'
            BY <2>0, <2>1, <1>1 DEF Lifecycle!Start, Lifecycle!StartRefused, Lifecycle!Threads
        <3> QED
            BY <1>1, <3>1, <3>2, <3>3
    <2>2. ASSUME NEW c \in Stoppers, Lifecycle!StopRequest(c)
          PROVE  Flags' /\ Others'
        BY <2>2, <1>1, PlaceFacts DEF Lifecycle!StopRequest
    <2>3. ASSUME NEW c \in Stoppers, Lifecycle!StopDecision(c)
          PROVE  Flags' /\ Others'
        BY <2>3, <1>1, PlaceFacts DEF Lifecycle!StopDecision, Lifecycle!history, Lifecycle!Threads
    <2>4. ASSUME NEW c \in Stoppers, Lifecycle!StopPipeline(c)
          PROVE  Flags' /\ Others'
        <3>1. place' \in [Lifecycle!Callers -> Lifecycle!Places]
            BY <2>4, <1>1, PlaceFacts, JoiningFacts DEF Lifecycle!StopPipeline, Lifecycle!Threads
        <3> QED
            BY <2>4, <1>1, <3>1 DEF Lifecycle!StopPipeline, Lifecycle!history
    <2>5. ASSUME NEW c \in Stoppers, NEW t \in Lifecycle!Threads, Lifecycle!Join(c, t)
          PROVE  Flags' /\ Others'
        BY <2>5, <1>1, JoiningFacts DEF Lifecycle!Join, Lifecycle!flags, Lifecycle!history
    <2>6. ASSUME NEW c \in Stoppers, NEW t \in Lifecycle!Threads, Lifecycle!Joined(c, t)
          PROVE  Flags' /\ Others'
        <3>1. Flags'
            BY <2>6, <1>1, Zenon DEF Lifecycle!Joined, Lifecycle!flags, Lifecycle!history
        <3>2. Others' \/ ~(pipelineRunning' /\ ~aborted' => "pipeline" \in alive')
            BY <2>6, <1>1, JoiningFacts DEF Lifecycle!Joined, Lifecycle!flags, Lifecycle!history
        <3> QED
            BY <2>0, <2>6, <1>1, <3>1, <3>2 DEF Lifecycle!Joined, Lifecycle!flags
    <2>7. CASE Lifecycle!FramesEnd \/ Lifecycle!ThreadStep
        <3>1. Flags'
            BY <2>7, <1>1
               DEF Lifecycle!FramesEnd, Lifecycle!ThreadStep, Lifecycle!LoopEnds, Lifecycle!DecisionEnds,
                   Lifecycle!PipelineEnds, Lifecycle!Returns, Lifecycle!flags, Lifecycle!history
        <3>2. PICK t \in Lifecycle!Threads : Lifecycle!Returns(t)
            BY <2>7 DEF Lifecycle!FramesEnd, Lifecycle!ThreadStep, Lifecycle!LoopEnds, Lifecycle!DecisionEnds,
                        Lifecycle!PipelineEnds, Lifecycle!Threads
        <3>3. pipelineRunning' /\ ~aborted' => "pipeline" \in alive'
            BY <2>7, <1>1
               DEF Lifecycle!FramesEnd, Lifecycle!ThreadStep, Lifecycle!LoopEnds, Lifecycle!DecisionEnds,
                   Lifecycle!PipelineEnds, Lifecycle!Returns, Lifecycle!flags
        <3>4. Others'
            BY <1>1, <3>2, <3>3, ReturnsFacts DEF Lifecycle!history
        <3> QED
            BY <3>1, <3>4
    <2> QED
        BY <1>4, <2>1, <2>2, <2>3, <2>4, <2>5, <2>6, <2>7 DEF Lifecycle!Next, Lifecycle!StopStep
<1> QED
    BY <1>3, <1>4

LEMMA LifecycleStarts == Lifecycle!Init => LifecycleInv
<1> SUFFICES ASSUME Lifecycle!Init PROVE LifecycleInv
    OBVIOUS
<1>0. starts \in 0..MaxStarts
    BY BoundsAssumption DEF Lifecycle!Init, Lifecycle!MaxStartsAssumption
<1>1. Lifecycle!TypeOK
    BY <1>0, PlaceFacts, Zenon DEF Lifecycle!Init, Lifecycle!TypeOK, Lifecycle!Threads
<1>2. StopsInOrder /\ SomeoneJoins
    BY PlaceFacts DEF Lifecycle!Init, StopsInOrder, NoneLeft, SomeoneJoins
<1> QED
    BY <1>1, <1>2 DEF LifecycleInv

\* The order in which a Stop joins is kept by every step but a Start during a Stop.
LEMMA LifecycleSteps ==
    ASSUME LifecycleInv, [Lifecycle!Next]_Lifecycle!vars
    PROVE  LifecycleInv'
<1> DEFINE Clears(c) == place[c].phase = "clear" => place[c].thread \notin alive
           Passed(c) == /\ place[c].thread \in {"decision", "pipeline"} => "loop" \notin handles
                        /\ place[c].thread = "pipeline" => "decision" \notin handles
<1>1. Lifecycle!TypeOK /\ Lifecycle!TypeOK'
    BY LifecycleTypes DEF LifecycleInv
<1>2. ~overlapped' => ~overlapped
    BY DEF Lifecycle!Next, Lifecycle!vars, Lifecycle!history, Lifecycle!Start, Lifecycle!StartRefused,
           Lifecycle!Disturb, Lifecycle!StopRequest, Lifecycle!StopStep, Lifecycle!StopDecision,
           Lifecycle!StopPipeline, Lifecycle!Join, Lifecycle!Joined, Lifecycle!FramesEnd, Lifecycle!ThreadStep,
           Lifecycle!LoopEnds, Lifecycle!DecisionEnds, Lifecycle!PipelineEnds, Lifecycle!Returns
<1> SUFFICES ASSUME ~overlapped', StopsInOrder, SomeoneJoins
             PROVE  StopsInOrder' /\ SomeoneJoins'
    BY <1>1, <1>2 DEF LifecycleInv
<1>3. CASE UNCHANGED Lifecycle!vars
    BY <1>3 DEF Lifecycle!vars, Lifecycle!flags, StopsInOrder, NoneLeft, SomeoneJoins
<1>4. ASSUME NEW c \in Starters, Lifecycle!Start(c)
      PROVE  StopsInOrder' /\ SomeoneJoins'
    <2>1. \A d \in Lifecycle!Callers : place[d] = Lifecycle!Idle
        BY <1>4 DEF Lifecycle!Start, Lifecycle!Disturb
    <2>2. alive \subseteq Lifecycle!Threads
        BY <1>1 DEF Lifecycle!TypeOK
    <2>3. StopsInOrder'
        BY <1>4, <2>1, <2>2, PlaceFacts DEF Lifecycle!Start, StopsInOrder, NoneLeft, Lifecycle!Threads
    <2> QED
        BY <1>4, <2>3 DEF Lifecycle!Start, SomeoneJoins
<1>5. ASSUME NEW c \in Starters, Lifecycle!StartRefused(c)
      PROVE  StopsInOrder' /\ SomeoneJoins'
    BY <1>5 DEF Lifecycle!StartRefused, StopsInOrder, NoneLeft, SomeoneJoins
<1>6. ASSUME NEW c \in Stoppers, Lifecycle!StopRequest(c) \/ Lifecycle!StopDecision(c)
      PROVE  StopsInOrder' /\ SomeoneJoins'
    <2>1. /\ c \in Lifecycle!Callers /\ place \in [Lifecycle!Callers -> Lifecycle!Places]
          /\ place[c] = Lifecycle!Idle \/ place[c] = Lifecycle!Flagged
          /\ place'[c] = Lifecycle!Flagged \/ place'[c] = Lifecycle!Place("loop", "try")
          /\ \A d \in Lifecycle!Callers \ {c} : place'[d] = place[d]
          /\ UNCHANGED <<pipelineRunning, pipelineStopRequested, alive, handles>>
        BY <1>1, <1>6
           DEF Lifecycle!StopRequest, Lifecycle!StopDecision, Lifecycle!TypeOK, Lifecycle!Callers
    <2>2. StopsInOrder'
        BY <2>1, PlaceFacts DEF StopsInOrder, NoneLeft, Lifecycle!Threads
    <2>3. SomeoneJoins'
        BY <2>1, PlaceFacts DEF SomeoneJoins, Lifecycle!Threads, Lifecycle!Callers
    <2> QED
        BY <2>2, <2>3
<1>7. ASSUME NEW c \in Stoppers, Lifecycle!StopPipeline(c), ~aborted
      PROVE  StopsInOrder' /\ SomeoneJoins'
    <2>1. /\ c \in Lifecycle!Callers /\ place \in [Lifecycle!Callers -> Lifecycle!Places]
          /\ place[c] = Lifecycle!Place("pipeline", "try")
          /\ \A d \in Lifecycle!Callers \ {c} : place'[d] = place[d]
          /\ UNCHANGED <<pipelineRunning, alive, handles>>
          /\ pipelineRunning /\ ~aborted => "pipeline" \in alive /\ "pipeline" \in handles
        BY <1>1, <1>7 DEF Lifecycle!StopPipeline, Lifecycle!TypeOK, Lifecycle!Callers, StopsInOrder
    <2>2. NoneLeft
        BY <2>1, PlaceFacts DEF StopsInOrder, NoneLeft, Lifecycle!Threads
    <2>3. CASE pipelineRunning
        <3>1. place'[c] = Lifecycle!Place("pipeline", "wait")
            BY <1>7, <2>1, <2>3, JoiningFacts DEF Lifecycle!StopPipeline, Lifecycle!Threads
        <3>2. StopsInOrder'
            BY <2>1, <2>2, <3>1, PlaceFacts DEF StopsInOrder, NoneLeft, Lifecycle!Threads
        <3>3. SomeoneJoins'
            BY <2>1, <2>3, <3>1 DEF SomeoneJoins
        <3> QED
            BY <3>2, <3>3
    <2>4. CASE ~pipelineRunning
        <3>1. place'[c] = Lifecycle!Idle /\ UNCHANGED pipelineStopRequested
            BY <1>7, <2>1, <2>4 DEF Lifecycle!StopPipeline
        <3>2. StopsInOrder'
            BY <2>1, <2>2, <3>1, PlaceFacts DEF StopsInOrder, NoneLeft, Lifecycle!Threads
        <3>3. SomeoneJoins'
            BY <2>1, <3>1, PlaceFacts DEF SomeoneJoins, Lifecycle!Threads, Lifecycle!Callers
        <3> QED
            BY <3>2, <3>3
    <2> QED
        BY <2>3, <2>4
<1>8. ASSUME NEW c \in Stoppers, NEW t \in Lifecycle!Threads, Lifecycle!Join(c, t)
      PROVE  StopsInOrder' /\ SomeoneJoins'
    <2>1. /\ c \in Lifecycle!Callers /\ place \in [Lifecycle!Callers -> Lifecycle!Places]
          /\ place[c] = Lifecycle!Place(t, "try") /\ t \in {"loop", "decision"}
          /\ place'[c] = Lifecycle!Joining(t)
          /\ \A d \in Lifecycle!Callers \ {c} : place'[d] = place[d]
          /\ UNCHANGED <<pipelineRunning, pipelineStopRequested, alive, handles>>
        BY <1>1, <1>8
           DEF Lifecycle!Join, Lifecycle!flags, Lifecycle!TypeOK, Lifecycle!Callers, Lifecycle!Threads
    <2>2. (Clears(c) /\ Passed(c))'
        BY <2>1, JoiningFacts, AfterFacts, PlaceFacts DEF StopsInOrder, Lifecycle!Threads
    <2>3. StopsInOrder'
        BY <2>1, <2>2 DEF StopsInOrder, NoneLeft
    <2>4. SomeoneJoins'
        BY <2>1, PlaceFacts DEF SomeoneJoins, Lifecycle!Threads, Lifecycle!Callers
    <2> QED
        BY <2>3, <2>4
<1>9. ASSUME NEW c \in Stoppers, NEW t \in Lifecycle!Threads, Lifecycle!Joined(c, t)
      PROVE  StopsInOrder' /\ SomeoneJoins'
    <2>1. /\ c \in Lifecycle!Callers /\ place \in [Lifecycle!Callers -> Lifecycle!Places]
          /\ place[c] = Lifecycle!Place(t, "clear")
          /\ place'[c] = Lifecycle!After(t)
          /\ \A d \in Lifecycle!Callers \ {c} : place'[d] = place[d]
          /\ handles' = handles \ {t}
          /\ UNCHANGED <<pipelineRunning, pipelineStopRequested, alive>>
        BY <1>1, <1>9 DEF Lifecycle!Joined, Lifecycle!flags, Lifecycle!TypeOK, Lifecycle!Callers
    <2>2. t \notin alive
        BY <2>1, PlaceFacts DEF StopsInOrder, Lifecycle!Threads
    <2>3. (Clears(c) /\ Passed(c))'
        BY <2>1, AfterFacts, PlaceFacts DEF StopsInOrder, Lifecycle!Threads
    <2>4. StopsInOrder'
        BY <2>1, <2>2, <2>3 DEF StopsInOrder, NoneLeft
    <2>5. SomeoneJoins'
        BY <2>1, PlaceFacts DEF SomeoneJoins, Lifecycle!Threads, Lifecycle!Callers
    <2> QED
        BY <2>4, <2>5
<1>10. CASE Lifecycle!FramesEnd \/ Lifecycle!ThreadStep
    <2>1. PICK t \in Lifecycle!Threads :
             /\ Lifecycle!Returns(t)
             /\ IF t = "pipeline" THEN pipelineStopRequested /\ ~pipelineStopRequested' /\ ~pipelineRunning'
                ELSE UNCHANGED <<pipelineRunning, pipelineStopRequested>>
        BY <1>10 DEF Lifecycle!FramesEnd, Lifecycle!ThreadStep, Lifecycle!LoopEnds, Lifecycle!DecisionEnds,
                     Lifecycle!PipelineEnds, Lifecycle!Threads, Lifecycle!flags
    <2>2. /\ \A c \in Lifecycle!Callers :
                IF place[c] = Lifecycle!Place(t, "wait") THEN place'[c] = Lifecycle!Place(t, "clear")
                ELSE place'[c] = place[c]
          /\ alive' = alive \ {t} /\ UNCHANGED handles
        BY <1>1, <2>1, ReturnsFacts DEF Lifecycle!TypeOK
    <2>3. ASSUME NEW c \in Lifecycle!Callers
          PROVE  (Clears(c) /\ Passed(c))'
        BY <2>2, PlaceFacts DEF StopsInOrder, Lifecycle!Threads
    <2>4. StopsInOrder'
        BY <2>1, <2>2, <2>3 DEF StopsInOrder, NoneLeft
    <2>5. SomeoneJoins'
        BY <2>1, <2>2, PlaceFacts DEF SomeoneJoins, Lifecycle!Threads, Lifecycle!Callers
    <2> QED
        BY <2>4, <2>5
<1> QED
    BY <1>3, <1>4, <1>5, <1>6, <1>7, <1>8, <1>9, <1>10 DEF Lifecycle!Next, Lifecycle!StopStep

\* What a Start that succeeds finds.
LEMMA StartFinds ==
    ASSUME LifecycleInv, [Lifecycle!Next]_Lifecycle!vars, Lifecycle!Started, ~overlapped
    PROVE  /\ {"loop", "decision"} \cap (alive \cup handles) = {}
           /\ aborted' => \E c \in Stoppers : place[c] = Lifecycle!Place("pipeline", "clear")
<1>1. PICK c \in Starters : Lifecycle!Start(c)
    BY DEF Lifecycle!Started, Lifecycle!Next, Lifecycle!vars, Lifecycle!flags, Lifecycle!StartRefused,
           Lifecycle!StopRequest, Lifecycle!StopStep, Lifecycle!StopDecision, Lifecycle!StopPipeline,
           Lifecycle!Join, Lifecycle!Joined, Lifecycle!FramesEnd, Lifecycle!ThreadStep, Lifecycle!LoopEnds,
           Lifecycle!DecisionEnds, Lifecycle!PipelineEnds, Lifecycle!Returns
<1>2. ~aborted
    BY DEF Lifecycle!Started, Lifecycle!Next, Lifecycle!vars, Lifecycle!flags
<1>3. ~pipelineRunning /\ NoneLeft /\ alive \subseteq handles
    BY <1>1 DEF Lifecycle!Start, LifecycleInv, StopsInOrder
<1>4. aborted' => "pipeline" \in handles
    BY <1>1, <1>2, <1>3 DEF Lifecycle!Start, NoneLeft
<1> QED
    BY <1>3, <1>4 DEF LifecycleInv, SomeoneJoins, NoneLeft

\* OneSessionsThreads: however many threads start and stop the runtime, a session that no Stop in
\* progress disturbs begins without a thread or a handle of the last one's loop and decision
\* worker, because Stop ends the pipeline last and Start refuses a pipeline that runs; the first
\* session that comes too early can meet an unjoined pipeline only (ControlRuntime::Start, Stop).
THEOREM SessionsAreApart == Spec => OneSessionsThreads
<1>1. LifecycleInv => (part = "lifecycle" => Lifecycle!TypeOK)
    BY DEF LifecycleInv
<1>2. LifecycleInv /\ [Lifecycle!Next]_Lifecycle!vars =>
          [Lifecycle!Started /\ ~overlapped => {"loop", "decision"} \cap (alive \cup handles) = {}]_Lifecycle!vars
    BY StartFinds
<1>3. LifecycleInv /\ [Lifecycle!Next]_Lifecycle!vars =>
          [Lifecycle!Started /\ aborted' /\ ~overlapped =>
              \E c \in Stoppers : place[c] = Lifecycle!Place("pipeline", "clear")]_Lifecycle!vars
    BY StartFinds
<1>4. LifecycleInv /\ [Lifecycle!Next]_Lifecycle!vars => LifecycleInv'
    BY LifecycleSteps
<1> QED
    BY LifecycleBehaves, LifecycleStarts, <1>1, <1>2, <1>3, <1>4, PTL
       DEF Lifecycle!Spec, OneSessionsThreads, Lifecycle!NoSecondThread, Lifecycle!OnlyThePipelineIsEarly

-----------------------------------------------------------------------------
\* The HTTP server. What ApiServerProofs shows of it, for its two modes.
Many == INSTANCE ApiServerProofs WITH Requests <- ManyRequests, MaxRequests <- 0
Few == INSTANCE ApiServerProofs WITH Requests <- FewRequests, MaxRequests <- Limit

\* Threaded means in MCServices what Many means here, and Limited what Few means.
LEMMA SameThreaded ==
    /\ Threaded!ClientsAssumption <=> Many!ClientsAssumption
    /\ Threaded!Init <=> Many!Init
    /\ [Threaded!Next]_serverVars <=> [Many!Next]_Many!vars
    /\ Many!TypeOK /\ Many!ThreadsBounded /\ Many!AnsweredOnce /\ Many!HandledWhole =>
          Threaded!TypeOK /\ Threaded!ThreadsBounded /\ Threaded!AnsweredOnce /\ Threaded!HandledWhole
<1>1. Threaded!ClientsAssumption <=> Many!ClientsAssumption
    BY DEF Threaded!ClientsAssumption, Many!ClientsAssumption, Threaded!IsFiniteSet, Many!IsFiniteSet
<1>2. Threaded!Init <=> Many!Init
    BY DEF Threaded!Init, Many!Init
<1>3. [Threaded!Next]_serverVars <=> [Many!Next]_Many!vars
    BY DEF serverVars, Threaded!Threaded, Many!Threaded, Threaded!Go, Many!Go, Threaded!Send, Many!Send,
           Threaded!Connect, Many!Connect, Threaded!HangUp, Many!HangUp, Threaded!Admitted,
           Many!Admitted, Threaded!Accept, Many!Accept, Threaded!BodyThere, Many!BodyThere,
           Threaded!TooLarge, Many!TooLarge, Threaded!Receive, Many!Receive, Threaded!ReceiveEnd,
           Many!ReceiveEnd, Threaded!ReceiveFails, Many!ReceiveFails, Threaded!Handle, Many!Handle,
           Threaded!MakeRuntime, Many!MakeRuntime, Threaded!Answer, Many!Answer, Threaded!SendEvent,
           Many!SendEvent, Threaded!Leave, Many!Leave, Threaded!Serve, Many!Serve, Threaded!Next,
           Many!Next, Threaded!vars, Many!vars
<1>4. Many!TypeOK /\ Many!ThreadsBounded /\ Many!AnsweredOnce /\ Many!HandledWhole =>
          Threaded!TypeOK /\ Threaded!ThreadsBounded /\ Threaded!AnsweredOnce /\ Threaded!HandledWhole
    BY DEF Threaded!TypeOK, Many!TypeOK, Threaded!ThreadsBounded, Many!ThreadsBounded,
           Threaded!AnsweredOnce, Many!AnsweredOnce, Threaded!HandledWhole, Many!HandledWhole,
           Threaded!Threads, Many!Threads, Threaded!Threaded, Many!Threaded,
           Threaded!Cardinality, Many!Cardinality
<1> QED
    BY <1>1, <1>2, <1>3, <1>4

LEMMA SameLimited ==
    /\ Limited!ClientsAssumption <=> Few!ClientsAssumption
    /\ Limited!Init <=> Few!Init
    /\ [Limited!Next]_serverVars <=> [Few!Next]_Few!vars
    /\ Few!ServesNoMore /\ Few!NoRuntimeIsReplaced /\ Few!AnsweredOnce =>
          Limited!ServesNoMore /\ Limited!NoRuntimeIsReplaced /\ Limited!AnsweredOnce
<1>1. Limited!ClientsAssumption <=> Few!ClientsAssumption
    BY DEF Limited!ClientsAssumption, Few!ClientsAssumption, Limited!IsFiniteSet, Few!IsFiniteSet
<1>2. Limited!Init <=> Few!Init
    BY DEF Limited!Init, Few!Init
<1>3. [Limited!Next]_serverVars <=> [Few!Next]_Few!vars
    BY DEF serverVars, Limited!Threaded, Few!Threaded, Limited!Go, Few!Go, Limited!Send, Few!Send,
           Limited!Connect, Few!Connect, Limited!HangUp, Few!HangUp, Limited!Admitted, Few!Admitted,
           Limited!Accept, Few!Accept, Limited!BodyThere, Few!BodyThere, Limited!TooLarge,
           Few!TooLarge, Limited!Receive, Few!Receive, Limited!ReceiveEnd, Few!ReceiveEnd,
           Limited!ReceiveFails, Few!ReceiveFails, Limited!Handle, Few!Handle, Limited!MakeRuntime,
           Few!MakeRuntime, Limited!Answer, Few!Answer, Limited!SendEvent, Few!SendEvent,
           Limited!Leave, Few!Leave, Limited!Serve, Few!Serve, Limited!Next, Few!Next, Limited!vars,
           Few!vars
<1>4. Few!ServesNoMore /\ Few!NoRuntimeIsReplaced /\ Few!AnsweredOnce =>
          Limited!ServesNoMore /\ Limited!NoRuntimeIsReplaced /\ Limited!AnsweredOnce
    BY DEF Limited!ServesNoMore, Few!ServesNoMore, Limited!NoRuntimeIsReplaced,
           Few!NoRuntimeIsReplaced, Limited!AnsweredOnce, Few!AnsweredOnce, Limited!Threaded,
           Few!Threaded, Limited!Cardinality, Few!Cardinality
<1> QED
    BY <1>1, <1>2, <1>3, <1>4

\* The server of the behaviour is in one of its modes.
ServersInv ==
    /\ part = "threaded" => Many!ServerInv
    /\ part = "limited" => Few!ServerInv

\* ClientsAreAnswered: for any number of clients, limits and requests, each client gets one
\* response and is handled in part only when it closed its side early; there are never more threads
\* than admitted, nor more requests than asked for, and while they are served one after the other
\* none uses a runtime that another replaced (IntentApiServer::Run, HandleClient).
THEOREM ClientsAnswered == Spec => []ClientsAreAnswered
<1>0. Many!ClientsAssumption /\ Few!ClientsAssumption /\ Limit > 0
    BY BoundsAssumption, SameThreaded, SameLimited
<1>1. Init => ServersInv
    BY <1>0, SameThreaded, SameLimited, Many!ServerStart, Few!ServerStart DEF Init, ServersInv
<1>2. ServersInv /\ [Next]_vars => ServersInv'
    <2> SUFFICES ASSUME ServersInv, [Next]_vars PROVE ServersInv'
        OBVIOUS
    <2>1. part' = part
        BY DEF Next, vars, PipelineNext, LifecycleNext, TelemetryNext, WindowsNext, DeliveryNext, ServerNext
    <2>2. CASE part = "threaded"
        <3>1. [Threaded!Next]_serverVars
            BY <2>2 DEF Next, vars, PipelineNext, LifecycleNext, TelemetryNext, WindowsNext, DeliveryNext, ServerNext
        <3> QED
            BY <1>0, <2>1, <2>2, <3>1, SameThreaded, Many!ServerNext DEF ServersInv
    <2>3. CASE part = "limited"
        <3>1. [Limited!Next]_serverVars
            BY <2>3 DEF Next, vars, PipelineNext, LifecycleNext, TelemetryNext, WindowsNext, DeliveryNext, ServerNext
        <3> QED
            BY <1>0, <2>1, <2>3, <3>1, SameLimited, Few!ServerNext DEF ServersInv
    <2> QED
        BY <2>1, <2>2, <2>3 DEF ServersInv
<1>3. ServersInv => ClientsAreAnswered
    <2>1. ASSUME part = "threaded", Many!ServerInv
          PROVE  Threaded!TypeOK /\ Threaded!ThreadsBounded /\ Threaded!AnsweredOnce /\ Threaded!HandledWhole
        BY <1>0, <2>1, SameThreaded, Many!ServerKeeps
    <2>2. ASSUME part = "limited", Few!ServerInv
          PROVE  Limited!ServesNoMore /\ Limited!NoRuntimeIsReplaced /\ Limited!AnsweredOnce
        <3>1. ~Few!Threaded
            BY <1>0 DEF Few!Threaded
        <3> QED
            BY <1>0, <2>2, <3>1, SameLimited, Few!ServerKeeps
    <2> QED
        BY <2>1, <2>2 DEF ServersInv, ClientsAreAnswered
<1> QED
    BY <1>1, <1>2, <1>3, PTL DEF Spec

-----------------------------------------------------------------------------
\* The observation pipeline.

\* Captures are numbered in the order they were taken: what is published came before what the
\* thread has in hand, and no number was published that is above the last one made up or supplied.
Newer ==
    /\ captured.id \in 0..captures /\ Pipeline!Latest.id \in 0..captures
    /\ captured # Pipeline!NoState => captured.id > 0
    /\ Pipeline!Latest # Pipeline!NoState => Pipeline!Latest.id > 0
    /\ wpc = "publish" /\ captured # Pipeline!NoState => Pipeline!Latest.id < captured.id
    /\ \A n \in used : n <= generated

PipelineInv == Pipeline!TypeOK /\ Pipeline!ViewsAgree /\ Newer

LEMMA PipelineBehaves == Spec => Pipeline!Spec
<1>1. Init => Pipeline!Init
    BY DEF Init
<1>2. [Next]_vars => [Pipeline!Next]_Pipeline!vars
    BY DEF Next, vars, PipelineNext, LifecycleNext, TelemetryNext, WindowsNext, DeliveryNext, ServerNext,
           pipelineVars, Pipeline!vars, Pipeline!lifeVars, Pipeline!bufferVars, Pipeline!sourceVars
<1> QED
    BY <1>1, <1>2, PTL DEF Spec, Pipeline!Spec

\* States and what the pipeline makes of them.
LEMMA NoStateFacts ==
    ASSUME MaxCaptures \in Nat
    PROVE  Pipeline!NoState \in Pipeline!State /\ Pipeline!NoState.id = 0
    BY DEF Pipeline!NoState, Pipeline!State

LEMMA CompletedFacts ==
    ASSUME NEW s \in Pipeline!State, NEW n \in Nat
    PROVE  LET t == Pipeline!Completed(s, n) IN
           /\ t \in Pipeline!State /\ t.id = s.id /\ t.sequence = n /\ t.graph = n /\ t.unified = n
           /\ t.unifiedFrame = t.frame
    BY DEF Pipeline!Completed, Pipeline!Default, Pipeline!State

LEMMA ViewsOfFacts ==
    ASSUME NEW id \in 0..MaxCaptures, NEW n \in Nat, NEW v \in Nat, NEW f \in Nat
    PROVE  Pipeline!ViewsOf(id, n, v, f) \in Pipeline!State /\ Pipeline!ViewsOf(id, n, v, f).id = id
    BY DEF Pipeline!ViewsOf, Pipeline!State

LEMMA ExternalFacts ==
    ASSUME NEW id \in 0..MaxCaptures, NEW n \in Nat
    PROVE  LET t == [Pipeline!NoState EXCEPT !.id = id, !.sequence = n] IN
           t \in Pipeline!State /\ t.id = id
    BY DEF Pipeline!NoState, Pipeline!State

\* What a mock adapter is.
MockType == [script : Seq(Nat), next : Nat, generated : Nat, loop : BOOLEAN]

LEMMA MockNumber ==
    ASSUME mock \in MockType, mock.next <= Len(mock.script), mock.script # <<>>
    PROVE  /\ Pipeline!MockIndex \in 0..(Len(mock.script) - 1)
           /\ Pipeline!Default(mock.script[Pipeline!MockIndex + 1], mock.generated + 1) \in Nat
<1>1. Pipeline!MockIndex \in 0..(Len(mock.script) - 1)
    BY DEF Pipeline!MockIndex, MockType
<1>2. mock.generated \in Nat /\ mock.script \in Seq(Nat)
    BY DEF MockType
<1> QED
    BY <1>1, <1>2 DEF Pipeline!Default

LEMMA MockFacts ==
    ASSUME mock \in MockType, mock.next <= Len(mock.script)
    PROVE  /\ mock.script # <<>> =>
              \A n \in Nat : /\ Pipeline!AdvancedMock(n) \in MockType
                             /\ Pipeline!AdvancedMock(n).next <= Len(Pipeline!AdvancedMock(n).script)
           /\ \A script \in Seq(Nat) :
                 LET m == [mock EXCEPT !.script = script, !.next = 0, !.generated = 0] IN
                 m \in MockType /\ m.next <= Len(m.script)
           /\ \A n \in Nat : LET m == [mock EXCEPT !.script = Append(@, n)] IN
                 m \in MockType /\ m.next <= Len(m.script)
           /\ \A b \in BOOLEAN : LET m == [mock EXCEPT !.loop = b] IN
                 m \in MockType /\ m.next <= Len(m.script)
<1>1. ASSUME mock.script # <<>>
      PROVE  Pipeline!MockIndex \in 0..(Len(mock.script) - 1)
    BY <1>1, MockNumber
<1>2. ASSUME mock.script # <<>>, NEW n \in Nat
      PROVE  /\ Pipeline!AdvancedMock(n) \in MockType
             /\ Pipeline!AdvancedMock(n).next <= Len(Pipeline!AdvancedMock(n).script)
    <2> DEFINE next == IF mock.loop \/ Pipeline!MockIndex + 1 < Len(mock.script)
                       THEN Pipeline!MockIndex + 1 ELSE Pipeline!MockIndex
    <2>1. next \in 0..Len(mock.script) /\ next \in Nat /\ Pipeline!Bigger(mock.generated, n) \in Nat
        BY <1>1, <1>2 DEF Pipeline!Bigger, MockType
    <2>2. Pipeline!AdvancedMock(n) = [mock EXCEPT !.next = next, !.generated = Pipeline!Bigger(mock.generated, n)]
        BY Zenon DEF Pipeline!AdvancedMock
    <2> HIDE DEF next
    <2>3. Pipeline!AdvancedMock(n) \in MockType
        BY <2>1, <2>2, Zenon DEF MockType
    <2>4. Pipeline!AdvancedMock(n).next = next /\ Pipeline!AdvancedMock(n).script = mock.script
        BY <2>2, Zenon DEF MockType
    <2> QED
        BY <2>1, <2>3, <2>4
<1>3. ASSUME NEW script \in Seq(Nat)
      PROVE  LET m == [mock EXCEPT !.script = script, !.next = 0, !.generated = 0] IN
             m \in MockType /\ m.next <= Len(m.script)
    <2> DEFINE m == [mock EXCEPT !.script = script, !.next = 0, !.generated = 0]
    <2>1. m \in MockType /\ m.next = 0 /\ m.script = script
        <3>1. 0 \in Nat
            OBVIOUS
        <3> QED
            BY <3>1, Zenon DEF MockType
    <2> HIDE DEF m
    <2>2. m \in MockType /\ m.next <= Len(m.script)
        BY <2>1
    <2> QED
        BY <2>2 DEF m
<1>4. ASSUME NEW n \in Nat
      PROVE  LET m == [mock EXCEPT !.script = Append(@, n)] IN m \in MockType /\ m.next <= Len(m.script)
    <2> DEFINE m == [mock EXCEPT !.script = Append(mock.script, n)]
    <2>1. /\ mock.next \in Nat /\ mock.script \in Seq(Nat)
          /\ Append(mock.script, n) \in Seq(Nat) /\ Len(Append(mock.script, n)) = Len(mock.script) + 1
        BY DEF MockType
    <2>2. m \in MockType /\ m.next = mock.next /\ m.script = Append(mock.script, n)
        BY <2>1, Zenon DEF MockType
    <2> HIDE DEF m
    <2>3. m \in MockType /\ m.next <= Len(m.script)
        BY <2>1, <2>2
    <2> QED
        BY <2>3 DEF m
<1>5. ASSUME NEW b \in BOOLEAN
      PROVE  LET m == [mock EXCEPT !.loop = b] IN m \in MockType /\ m.next <= Len(m.script)
    BY Zenon DEF MockType
<1> QED
    BY <1>1, <1>2, <1>3, <1>4, <1>5

\* The parts of Pipeline!TypeOK.
ControlTypes ==
    /\ adapter \in SourceKinds \cup {Pipeline!NoAdapter}
    /\ running \in BOOLEAN /\ stopRequested \in BOOLEAN
    /\ joinable \in BOOLEAN /\ terminated \in BOOLEAN
    /\ wpc \in {"none", "check", "capture", "publish", "pause", "finish"}
    /\ cpc \in [Controllers -> {"idle", "join"}]

BufferTypes ==
    /\ active \in {0, 1} /\ buffers \in [{0, 1} -> Pipeline!State]
    /\ generated \in Nat /\ samples \in Nat /\ latestSequence \in Nat /\ used \subseteq Nat

SourceTypes ==
    /\ snapshot \in [sequence : Nat, valid : BOOLEAN]
    /\ mock \in MockType /\ mock.next <= Len(mock.script)
    /\ captures \in 0..MaxCaptures

LEMMA PipelineTypes ==
    Pipeline!TypeOK <=> ControlTypes /\ BufferTypes /\ SourceTypes /\ captured \in Pipeline!State
    BY Zenon DEF Pipeline!TypeOK, ControlTypes, BufferTypes, SourceTypes, MockType

LEMMA NextTypes ==
    Pipeline!TypeOK' <=> ControlTypes' /\ BufferTypes' /\ SourceTypes' /\ captured' \in Pipeline!State
    BY Zenon DEF Pipeline!TypeOK, ControlTypes, BufferTypes, SourceTypes, MockType

LEMMA PipelineBounds ==
    /\ MaxCaptures \in Nat /\ Numbers \subseteq Nat /\ 0 \in Numbers /\ Scripts \subseteq Seq(Nat)
    /\ Pipeline!Snapshots \subseteq [sequence : Nat, valid : BOOLEAN]
<1>1. /\ MaxCaptures \in Nat /\ Numbers \subseteq Nat /\ 0 \in Numbers /\ Scripts \subseteq Seq(Numbers)
    BY BoundsAssumption DEF Pipeline!PipelineAssumption
<1>2. ASSUME NEW s \in Seq(Numbers) PROVE s \in Seq(Nat)
    BY <1>1, SeqMonotonic
<1>3. Pipeline!Snapshots \subseteq [sequence : Nat, valid : BOOLEAN]
    BY <1>1, Zenon DEF Pipeline!Snapshots
<1> QED
    BY <1>1, <1>2, <1>3

LEMMA PipelineStarts == Pipeline!Init => PipelineInv
<1> SUFFICES ASSUME Pipeline!Init PROVE PipelineInv
    OBVIOUS
<1>1. ControlTypes /\ SourceTypes
    <2>1. 0 \in Nat /\ <<>> \in Seq(Nat) /\ Len(<<>>) = 0 /\ 0 <= 0 /\ 0 \in 0..MaxCaptures
        BY PipelineBounds
    <2> QED
        BY <2>1, Zenon DEF Pipeline!Init, ControlTypes, SourceTypes, MockType
<1>2. BufferTypes /\ captured \in Pipeline!State
    BY NoStateFacts, PipelineBounds DEF Pipeline!Init, BufferTypes
<1>3. Pipeline!ViewsAgree /\ Newer
    <2>1. Pipeline!Latest = Pipeline!NoState /\ captured = Pipeline!NoState /\ samples = 0 /\ captures = 0 /\ used = {}
        BY DEF Pipeline!Init, Pipeline!Latest
    <2> QED
        BY <2>1, NoStateFacts, PipelineBounds DEF Pipeline!ViewsAgree, Newer
<1> QED
    BY <1>1, <1>2, <1>3, PipelineTypes DEF PipelineInv

\* The steps of other threads at the adapters.
LEMMA SourceStepKeeps ==
    ASSUME SourceTypes, Pipeline!SourceStep
    PROVE  SourceTypes'
<1>1. CASE Pipeline!RegistryRefreshed
    BY <1>1, PipelineBounds, Zenon DEF Pipeline!RegistryRefreshed, SourceTypes
<1>2. CASE Pipeline!CapturedElsewhere
    <2>1. Pipeline!Default(mock.script[Pipeline!MockIndex + 1], mock.generated + 1) \in Nat
        BY <1>2, MockNumber DEF Pipeline!CapturedElsewhere, SourceTypes
    <2> QED
        BY <1>2, <2>1, MockFacts, Zenon DEF Pipeline!CapturedElsewhere, SourceTypes
<1>3. ASSUME NEW script \in Scripts, Pipeline!SetScriptedStates(script)
      PROVE  SourceTypes'
    BY <1>3, MockFacts, PipelineBounds, Zenon DEF Pipeline!SetScriptedStates, SourceTypes
<1>4. ASSUME NEW n \in Numbers, Pipeline!PushState(n)
      PROVE  SourceTypes'
    BY <1>4, MockFacts, PipelineBounds, Zenon DEF Pipeline!PushState, SourceTypes
<1>5. ASSUME NEW loops \in BOOLEAN, Pipeline!SetLooping(loops)
      PROVE  SourceTypes'
    BY <1>5, MockFacts, Zenon DEF Pipeline!SetLooping, SourceTypes
<1> QED
    BY <1>1, <1>2, <1>3, <1>4, <1>5 DEF Pipeline!SourceStep

\* A capture that succeeds is newer than every other.
LEMMA CaptureKeeps ==
    ASSUME SourceTypes, captured \in Pipeline!State, Pipeline!CaptureState
    PROVE  /\ SourceTypes' /\ captured' \in Pipeline!State
           /\ \/ captured' = Pipeline!NoState /\ captures' = captures
              \/ captured'.id = captures + 1 /\ captures' = captures + 1
<1>1. CASE captured' = Pipeline!NoState /\ UNCHANGED Pipeline!sourceVars
    BY <1>1, NoStateFacts, PipelineBounds DEF SourceTypes, Pipeline!sourceVars
<1>2. CASE Pipeline!CaptureSucceeds
    <2>1. captures \in Nat /\ captures + 1 \in 0..MaxCaptures /\ captures \in 0..MaxCaptures
        BY <1>2, PipelineBounds DEF Pipeline!CaptureSucceeds, SourceTypes
    <2>2. CASE Pipeline!CaptureRegistry
        <3>1. PICK s \in (IF snapshot.valid THEN {snapshot} ELSE Pipeline!Snapshots), frame \in Numbers \ {0} :
                 /\ snapshot' = s
                 /\ captured' = IF s.valid THEN Pipeline!EnvironmentStateFromSnapshot(s, frame) ELSE Pipeline!NoState
                 /\ captures' = captures + (IF s.valid THEN 1 ELSE 0)
                 /\ UNCHANGED mock
            BY <2>2, Zenon DEF Pipeline!CaptureRegistry
        <3>2. s \in [sequence : Nat, valid : BOOLEAN]
            BY <3>1, PipelineBounds, Zenon DEF SourceTypes
        <3>3. s.sequence \in Nat /\ frame \in Nat
            BY <3>2, PipelineBounds
        <3>4. captures' \in 0..MaxCaptures /\ (s.valid => captures' = captures + 1) /\ (~s.valid => captures' = captures)
            BY <2>1, <3>1
        <3>5. SourceTypes'
            BY <3>1, <3>2, <3>4, Zenon DEF SourceTypes
        <3> QED
            BY <2>1, <3>1, <3>3, <3>4, <3>5, NoStateFacts, ViewsOfFacts, PipelineBounds
               DEF Pipeline!EnvironmentStateFromSnapshot
    <2>3. CASE Pipeline!CaptureMock
        <3> DEFINE n == Pipeline!Default(mock.script[Pipeline!MockIndex + 1], mock.generated + 1)
        <3>1. n \in Nat /\ mock.script # <<>>
            BY <2>3, MockNumber DEF Pipeline!CaptureMock, SourceTypes
        <3>2. /\ mock' = Pipeline!AdvancedMock(n) /\ captured' = Pipeline!ViewsOf(captures + 1, n, n, n)
              /\ captures' = captures + 1 /\ UNCHANGED snapshot
            BY <2>3, Zenon DEF Pipeline!CaptureMock
        <3> HIDE DEF n
        <3>3. SourceTypes'
            BY <2>1, <3>1, <3>2, MockFacts, Zenon DEF SourceTypes
        <3> QED
            BY <2>1, <3>1, <3>2, <3>3, ViewsOfFacts
    <2>4. CASE Pipeline!CaptureExternal
        <3>1. PICK n \in Numbers : captured' = [Pipeline!NoState EXCEPT !.id = captures + 1, !.sequence = n]
            BY <2>4 DEF Pipeline!CaptureExternal
        <3>2. captured' \in Pipeline!State /\ captured'.id = captures + 1
            BY <2>1, <3>1, ExternalFacts, PipelineBounds
        <3>3. SourceTypes' /\ captures' = captures + 1
            BY <2>1, <2>4 DEF Pipeline!CaptureExternal, SourceTypes
        <3> QED
            BY <3>2, <3>3
    <2> QED
        BY <1>2, <2>2, <2>3, <2>4 DEF Pipeline!CaptureSucceeds
<1> QED
    BY <1>1, <1>2 DEF Pipeline!CaptureState

\* Publishing shows the capture in hand, complete, under a number that was not published before if
\* the pipeline made it up.
LEMMA PublishKeeps ==
    ASSUME PipelineInv, Pipeline!Publish
    PROVE  /\ PipelineInv' /\ Pipeline!Latest'.id > Pipeline!Latest.id
           /\ captured.sequence = 0 => latestSequence' \notin used
<1> DEFINE n == Pipeline!Default(captured.sequence, generated + 1)
           shown == Pipeline!Completed(captured, n)
<1>1. /\ ControlTypes /\ BufferTypes /\ SourceTypes /\ captured \in Pipeline!State
      /\ captured.sequence \in Nat /\ captured.id \in Nat /\ Pipeline!Latest \in Pipeline!State
    BY PipelineTypes DEF PipelineInv, Pipeline!State, BufferTypes, Pipeline!Latest
<1>2. /\ wpc = "publish" /\ captured # Pipeline!NoState /\ wpc' = "pause"
      /\ buffers' = [buffers EXCEPT ![1 - active] = shown] /\ active' = 1 - active
      /\ generated' = Pipeline!NextGenerated(captured) /\ latestSequence' = n /\ used' = used \cup {n}
      /\ samples' = samples + 1
      /\ UNCHANGED <<adapter, running, stopRequested, joinable, cpc, terminated, snapshot, mock, captures, captured>>
    BY DEF Pipeline!Publish, Pipeline!PublishInOther, Pipeline!lifeVars, Pipeline!sourceVars
<1>3. n \in Nat /\ n # 0 /\ generated \in Nat
    BY <1>1 DEF Pipeline!Default, BufferTypes
<1>4. /\ shown \in Pipeline!State /\ shown.id = captured.id /\ shown.sequence = n
      /\ shown.graph = n /\ shown.unified = n /\ shown.unifiedFrame = shown.frame
    BY <1>1, <1>3, CompletedFacts
<1> HIDE DEF shown
<1>5. Pipeline!Latest' = shown /\ buffers' \in [{0, 1} -> Pipeline!State] /\ active' \in {0, 1}
    BY <1>1, <1>2, <1>4 DEF BufferTypes, Pipeline!Latest
<1>6. generated' \in Nat /\ generated' >= generated /\ generated' >= n
    BY <1>1, <1>2 DEF Pipeline!NextGenerated, Pipeline!Bigger, Pipeline!Default, BufferTypes
<1>7. captured.sequence = 0 => n = generated + 1
    BY DEF Pipeline!Default
<1> HIDE DEF n
<1>8. BufferTypes'
    BY <1>1, <1>2, <1>3, <1>5, <1>6 DEF BufferTypes
<1>9. ControlTypes' /\ SourceTypes' /\ captured' \in Pipeline!State
    <2>1. ControlTypes' /\ SourceTypes'
        BY <1>1, <1>2, Zenon DEF ControlTypes, SourceTypes
    <2>2. captured' \in Pipeline!State
        BY <1>1, <1>2
    <2> QED
        BY <2>1, <2>2
<1>10. captured.id > 0 /\ Pipeline!Latest.id < captured.id /\ captured.id \in 0..captures
    BY <1>2 DEF PipelineInv, Newer
<1>11. Pipeline!ViewsAgree'
    <2>1. Pipeline!Latest' # Pipeline!NoState
        BY <1>4, <1>5, <1>10, NoStateFacts, PipelineBounds
    <2> QED
        BY <1>1, <1>2, <1>3, <1>4, <1>5, <2>1 DEF Pipeline!ViewsAgree, BufferTypes
<1>12. Newer'
    <2>1. \A m \in used' : m <= generated'
        BY <1>1, <1>2, <1>3, <1>6 DEF PipelineInv, Newer, BufferTypes
    <2> QED
        BY <1>2, <1>4, <1>5, <1>10, <2>1 DEF Newer
<1>13. captured.sequence = 0 => latestSequence' \notin used
    BY <1>1, <1>2, <1>3, <1>7 DEF PipelineInv, Newer, BufferTypes
<1> QED
    BY <1>4, <1>5, <1>8, <1>9, <1>10, <1>11, <1>12, <1>13, NextTypes DEF PipelineInv

\* The steps that neither capture nor publish nor clear what was published.
LEMMA QuietStep ==
    ASSUME PipelineInv, ControlTypes', SourceTypes', UNCHANGED <<Pipeline!bufferVars, captured, captures>>,
           wpc' = "publish" => wpc = "publish"
    PROVE  PipelineInv' /\ Pipeline!Latest' = Pipeline!Latest
<1>1. /\ UNCHANGED <<active, buffers, generated, samples, latestSequence, used>>
      /\ Pipeline!Latest' = Pipeline!Latest /\ captured' = captured /\ captures' = captures
    BY DEF Pipeline!bufferVars, Pipeline!Latest
<1>2. BufferTypes' /\ captured' \in Pipeline!State
    BY <1>1, PipelineTypes DEF PipelineInv, BufferTypes
<1>3. Pipeline!ViewsAgree' /\ Newer'
    BY <1>1 DEF PipelineInv, Pipeline!ViewsAgree, Newer
<1> QED
    BY <1>1, <1>2, <1>3, NextTypes DEF PipelineInv

LEMMA PipelineSteps ==
    ASSUME PipelineInv, [Pipeline!Next]_Pipeline!vars
    PROVE  /\ PipelineInv'
           /\ \/ Pipeline!Latest'.id = 0
              \/ Pipeline!Latest'.id = Pipeline!Latest.id
              \/ Pipeline!Publish
           /\ samples' > samples => Pipeline!Publish
<1> DEFINE Goal == /\ PipelineInv'
                   /\ \/ Pipeline!Latest'.id = 0
                      \/ Pipeline!Latest'.id = Pipeline!Latest.id
                      \/ Pipeline!Publish
                   /\ samples' > samples => Pipeline!Publish
<1>1. ControlTypes /\ BufferTypes /\ SourceTypes /\ captured \in Pipeline!State /\ samples \in Nat
    BY PipelineTypes DEF PipelineInv, BufferTypes
<1>2. ASSUME UNCHANGED <<Pipeline!bufferVars, Pipeline!sourceVars, captured>>, ControlTypes',
             wpc' = "publish" => wpc = "publish"
      PROVE  Goal
    <2>1. SourceTypes' /\ captures' = captures
        BY <1>1, <1>2, Zenon DEF SourceTypes, Pipeline!sourceVars
    <2> QED
        BY <1>1, <1>2, <2>1, QuietStep DEF Pipeline!bufferVars
<1>3. ASSUME NEW c \in Controllers, NEW a \in SourceKinds, Pipeline!Start(c, a)
      PROVE  Goal
    <2>1. ControlTypes' /\ SourceTypes'
        BY <1>1, <1>3, Zenon DEF Pipeline!Start, ControlTypes, SourceTypes, Pipeline!sourceVars
    <2>2. BufferTypes' /\ Pipeline!Latest' = Pipeline!NoState
        BY <1>1, <1>3, NoStateFacts, PipelineBounds DEF Pipeline!Start, Pipeline!NoBuffers, BufferTypes, Pipeline!Latest
    <2>3. captured' \in {captured, Pipeline!NoState} /\ captures' = captures
        BY <1>3 DEF Pipeline!Start, Pipeline!sourceVars
    <2>4. samples' = 0 /\ used' = {}
        BY <1>3 DEF Pipeline!Start
    <2>5. Pipeline!ViewsAgree'
        BY <2>2, <2>4 DEF Pipeline!ViewsAgree
    <2>6. Newer'
        BY <1>1, <2>2, <2>3, <2>4, NoStateFacts, PipelineBounds DEF PipelineInv, Newer, SourceTypes
    <2> QED
        BY <1>1, <2>1, <2>2, <2>3, <2>4, <2>5, <2>6, NextTypes, NoStateFacts, PipelineBounds DEF PipelineInv
<1>4. ASSUME NEW c \in Controllers, Pipeline!StopRequest(c) \/ Pipeline!Join(c)
      PROVE  Goal
    <2>1. ControlTypes' /\ wpc' = wpc
        BY <1>1, <1>4, Zenon DEF Pipeline!StopRequest, Pipeline!Join, ControlTypes
    <2> QED
        BY <1>2, <1>4, <2>1 DEF Pipeline!StopRequest, Pipeline!Join
<1>5. CASE Pipeline!CheckStop \/ Pipeline!CountFailure \/ Pipeline!Pause \/ Pipeline!Finish
    <2>1. ControlTypes' /\ wpc' # "publish"
        BY <1>1, <1>5
           DEF Pipeline!CheckStop, Pipeline!CountFailure, Pipeline!Pause, Pipeline!Finish, ControlTypes, Pipeline!lifeVars
    <2> QED
        BY <1>2, <1>5, <2>1 DEF Pipeline!CheckStop, Pipeline!CountFailure, Pipeline!Pause, Pipeline!Finish
<1>6. CASE Pipeline!CaptureState
    <2>1. /\ SourceTypes' /\ captured' \in Pipeline!State
          /\ \/ captured' = Pipeline!NoState /\ captures' = captures
             \/ captured'.id = captures + 1 /\ captures' = captures + 1
        BY <1>1, <1>6, CaptureKeeps
    <2>2. ControlTypes' /\ UNCHANGED Pipeline!bufferVars
        BY <1>1, <1>6, Zenon DEF Pipeline!CaptureState, ControlTypes, Pipeline!lifeVars
    <2>3. BufferTypes' /\ samples' = samples /\ used' = used /\ generated' = generated
          /\ latestSequence' = latestSequence /\ Pipeline!Latest' = Pipeline!Latest
        BY <1>1, <2>2 DEF Pipeline!bufferVars, BufferTypes, Pipeline!Latest
    <2>4. Pipeline!ViewsAgree'
        BY <2>3 DEF PipelineInv, Pipeline!ViewsAgree
    <2>5. Newer'
        BY <1>1, <2>1, <2>3, NoStateFacts, PipelineBounds DEF PipelineInv, Newer, SourceTypes
    <2> QED
        BY <1>1, <2>1, <2>2, <2>3, <2>4, <2>5, NextTypes DEF PipelineInv
<1>7. CASE Pipeline!Publish
    BY <1>7, PublishKeeps
<1>8. CASE Pipeline!SourceStep
    <2>1. SourceTypes' /\ captures' = captures
        BY <1>1, <1>8, SourceStepKeeps
           DEF Pipeline!SourceStep, Pipeline!RegistryRefreshed, Pipeline!CapturedElsewhere,
               Pipeline!SetScriptedStates, Pipeline!PushState, Pipeline!SetLooping
    <2>2. ControlTypes' /\ UNCHANGED <<Pipeline!bufferVars, wpc, captured>>
        BY <1>1, <1>8, Zenon DEF Pipeline!SourceStep, ControlTypes, Pipeline!lifeVars
    <2> QED
        BY <1>1, <2>1, <2>2, QuietStep DEF Pipeline!bufferVars
<1>9. CASE UNCHANGED Pipeline!vars
    <2>1. ControlTypes' /\ wpc' = wpc
        BY <1>1, <1>9, Zenon DEF Pipeline!vars, Pipeline!lifeVars, ControlTypes
    <2> QED
        BY <1>2, <1>9, <2>1 DEF Pipeline!vars
<1> QED
    BY <1>3, <1>4, <1>5, <1>6, <1>7, <1>8, <1>9 DEF Pipeline!Next, Pipeline!Worker

\* ViewsAgree: the graph, the unified view and the metrics carry the number of the state that Latest
\* returns, for any adapters, scripts and numbers (ObservationPipeline::RunLoop, Latest, Metrics).
THEOREM ViewsAlwaysAgree == Spec => []ViewsAgree
<1>1. PipelineInv => ViewsAgree
    BY DEF PipelineInv, ViewsAgree
<1>2. PipelineInv /\ [Pipeline!Next]_Pipeline!vars => PipelineInv'
    BY PipelineSteps
<1> QED
    BY PipelineBehaves, PipelineStarts, <1>1, <1>2, PTL DEF Pipeline!Spec

\* RegisterSpec: what readers of Latest see is a register that Start clears and the thread sets to
\* newer captures, step by step of the pipeline, whatever the adapters do; and a number that the
\* pipeline makes up was not published before in the session.
THEOREM LatestIsARegister == Spec => RegisterSpec
<1>1. Pipeline!Init => Pipeline!Observed!Init
    BY DEF Pipeline!Init, Pipeline!Observed!Init, Pipeline!Latest, Pipeline!NoState
<1>2. PipelineInv /\ [Pipeline!Next]_Pipeline!vars =>
          PipelineInv' /\ [Pipeline!Observed!Next]_(Pipeline!Latest.id)
    <2> SUFFICES ASSUME PipelineInv, [Pipeline!Next]_Pipeline!vars
                 PROVE  PipelineInv' /\ [Pipeline!Observed!Next]_(Pipeline!Latest.id)
        OBVIOUS
    <2>1. CASE Pipeline!Publish
        <3>1. PipelineInv' /\ Pipeline!Latest'.id > Pipeline!Latest.id
            BY <2>1, PublishKeeps
        <3>2. Pipeline!Latest'.id \in Nat
            BY <3>1, NextTypes DEF PipelineInv, BufferTypes, Pipeline!State, Pipeline!Latest
        <3> QED
            BY <3>1, <3>2 DEF Pipeline!Observed!Next, Pipeline!Observed!Renew
    <2>2. CASE ~Pipeline!Publish
        BY <2>2, PipelineSteps DEF Pipeline!Observed!Next, Pipeline!Observed!Forget
    <2> QED
        BY <2>1, <2>2
<1>3. PipelineInv /\ [Pipeline!Next]_Pipeline!vars =>
          [samples' > samples /\ captured.sequence = 0 => latestSequence' \notin used]_Pipeline!vars
    BY PipelineSteps, PublishKeeps
<1> QED
    BY PipelineBehaves, PipelineStarts, <1>1, <1>2, <1>3, PTL
       DEF Pipeline!Spec, RegisterSpec, Pipeline!RegisterSpec, Pipeline!Observed!Spec, Pipeline!GeneratedFresh

-----------------------------------------------------------------------------
\* The event bus.

\* An event in progress: what was called and what is still to be called are what was due. An event
\* that nobody delivers any more was delivered.
InProgress(p) == delivering[p].event # 0

Halfway(p) ==
    /\ delivering[p].event \in DOMAIN published
    /\ published[delivering[p].event].called \o delivering[p].rest = published[delivering[p].event].due

Closed(n) == published[n].called = published[n].due

Due ==
    /\ \A p \in Delivery!Threads : IF InProgress(p) THEN Halfway(p) ELSE delivering[p] = Delivery!Nothing
    /\ \A p, q \in Delivery!Threads : InProgress(p) /\ delivering[p].event = delivering[q].event => p = q
    /\ \A n \in DOMAIN published : Closed(n) \/ \E p \in Delivery!Threads : delivering[p].event = n

\* The watcher publishes only while its thread waits for the handlers, and it is started only when
\* its last thread was joined.
WatcherIdle ==
    /\ watch \notin {"publishing", "failed"} => ~InProgress(Delivery!Watcher)
    /\ control # "idle" => ~watching
    /\ control = "close" \/ (control = "idle" /\ ~watching) => watch = "none"

Ids == 1..MaxSubscriptions
EventType == [type : Types, due : Seq(Ids), called : Seq(Ids)]

\* Ids are given out in increasing order, so nobody is subscribed twice.
Subscribed ==
    /\ subscriptions \in [Types -> Seq(Ids)] /\ nextSubscriptionId \in 1..MaxSubscriptions + 1
    /\ \A t \in Types : \A k \in DOMAIN subscriptions[t] : subscriptions[t][k] < nextSubscriptionId
    /\ \A t \in Types : Delivery!IsInjective(subscriptions[t])

\* What a thread is publishing, and what was published.
BusTypes ==
    /\ delivering \in [Delivery!Threads -> [event : 0..MaxEvents, rest : Seq(Ids)]]
    /\ published \in Seq(EventType) /\ Len(published) <= MaxEvents

WatcherTypes ==
    /\ watching \in BOOLEAN /\ handle \in BOOLEAN /\ cancelMissed \in BOOLEAN
    /\ watch \in {"none", "opening", "testing", "calling", "reading", "publishing", "failed"}
    /\ control \in {"idle", "cancel", "join", "close"}

DeliveryInv == Subscribed /\ BusTypes /\ WatcherTypes /\ Due /\ WatcherIdle

LEMMA DeliveryBehaves == Spec => Delivery!Spec
<1>1. Init => Delivery!Init
    BY DEF Init
<1>2. [Next]_vars => [Delivery!Next]_Delivery!vars
    BY DEF Next, vars, PipelineNext, LifecycleNext, TelemetryNext, WindowsNext, DeliveryNext, ServerNext,
           deliveryVars, Delivery!vars, Delivery!busVars, Delivery!watcherVars
<1> QED
    BY <1>1, <1>2, PTL DEF Spec, Delivery!Spec

\* Calling the first handler of the rest moves it to those that were called.
LEMMA HeadMoves ==
    ASSUME NEW S, NEW a \in Seq(S), NEW r \in Seq(S), r # <<>>
    PROVE  /\ Append(a, Head(r)) \in Seq(S) /\ Tail(r) \in Seq(S)
           /\ Append(a, Head(r)) \o Tail(r) = a \o r
<1>1. Head(r) \in S /\ Tail(r) \in Seq(S) /\ Append(a, Head(r)) \in Seq(S)
    BY HeadTailProperties, AppendProperties
<1>2. <<Head(r)>> \in Seq(S) /\ Append(a, Head(r)) = a \o <<Head(r)>>
    BY <1>1, AppendIsConcat
<1>3. <<Head(r)>> \o Tail(r) = r
    <2> DEFINE h == <<Head(r)>> \o Tail(r)
    <2>1. /\ h \in Seq(S) /\ Len(h) = Len(<<Head(r)>>) + Len(Tail(r))
          /\ \A i \in 1..Len(<<Head(r)>>) + Len(Tail(r)) :
                h[i] = IF i <= Len(<<Head(r)>>) THEN <<Head(r)>>[i] ELSE Tail(r)[i - Len(<<Head(r)>>)]
        BY <1>1, <1>2, ConcatProperties
    <2>2. /\ Len(<<Head(r)>>) = 1 /\ <<Head(r)>>[1] = r[1] /\ Len(r) \in Nat \ {0}
          /\ Len(Tail(r)) = Len(r) - 1 /\ \A i \in 1..Len(Tail(r)) : Tail(r)[i] = r[i + 1]
        BY <1>1, HeadTailProperties, EmptySeq
    <2> HIDE DEF h
    <2>3. Len(h) = Len(r) /\ \A i \in 1..Len(h) : h[i] = r[i]
        BY <2>1, <2>2
    <2>4. h = r
        BY <2>1, <2>3, SeqEqual
    <2> QED
        BY <2>4 DEF h
<1>4. (a \o <<Head(r)>>) \o Tail(r) = a \o (<<Head(r)>> \o Tail(r))
    BY <1>1, <1>2, ConcatAssociative
<1> QED
    BY <1>1, <1>2, <1>3, <1>4

\* What a step of one thread at the bus leaves as it is.
OnlyMoves(p) == \A q \in Delivery!Threads \ {p} : delivering'[q] = delivering[q]

\* The types of what a thread holds.
LEMMA HeldTypes ==
    ASSUME BusTypes, Due, NEW p \in Delivery!Threads
    PROVE  /\ DOMAIN published = 1..Len(published) /\ Len(published) \in Nat
           /\ delivering[p].event \in 0..MaxEvents /\ delivering[p].rest \in Seq(Ids)
           /\ InProgress(p) => /\ Halfway(p) /\ delivering[p].event \in 1..Len(published)
                               /\ published[delivering[p].event] \in EventType
                               /\ published[delivering[p].event].called \in Seq(Ids)
           /\ ~InProgress(p) => delivering[p] = Delivery!Nothing /\ delivering[p].rest = <<>>
<1>1. DOMAIN published = 1..Len(published) /\ Len(published) \in Nat
    BY DEF BusTypes
<1>2. delivering[p].event \in 0..MaxEvents /\ delivering[p].rest \in Seq(Ids)
    BY DEF BusTypes
<1>3. InProgress(p) => Halfway(p)
    BY DEF Due
<1>4. ~InProgress(p) => delivering[p] = Delivery!Nothing
    BY DEF Due
<1>5. Delivery!Nothing.rest = <<>>
    BY DEF Delivery!Nothing
<1>6. InProgress(p) => delivering[p].event \in 1..Len(published)
    BY <1>1, <1>3 DEF Halfway
<1>7. \A n \in 1..Len(published) : published[n] \in EventType
    BY DEF BusTypes
<1>8. \A e \in EventType : e.called \in Seq(Ids)
    BY DEF EventType
<1> QED
    BY <1>1, <1>2, <1>3, <1>4, <1>5, <1>6, <1>7, <1>8

\* A publication adds an event that is due to the subscribers of the moment.
LEMMA CopiedKeeps ==
    ASSUME BusTypes, Due, NEW p \in Delivery!Threads, ~InProgress(p), NEW t \in Types,
           subscriptions[t] \in Seq(Ids), Delivery!Copied(p, t), MaxEvents \in Nat
    PROVE  BusTypes' /\ Due' /\ OnlyMoves(p)
<1> DEFINE n == Len(published) + 1
           e == [type |-> t, due |-> subscriptions[t], called |-> <<>>]
           d == [event |-> n, rest |-> subscriptions[t]]
<1>1. /\ delivering' = [delivering EXCEPT ![p] = d] /\ published' = Append(published, e)
      /\ Len(published) < MaxEvents
    BY DEF Delivery!Copied
<1>2. /\ e \in EventType /\ e.due = subscriptions[t] /\ e.called = <<>>
      /\ n \in 1..MaxEvents /\ d \in [event : 0..MaxEvents, rest : Seq(Ids)] /\ d.event = n /\ d.rest = subscriptions[t]
    BY <1>1 DEF BusTypes, EventType
<1> HIDE DEF e, d
<1>3. /\ published' \in Seq(EventType) /\ Len(published') = n /\ published'[n] = e
      /\ DOMAIN published = 1..Len(published) /\ DOMAIN published' = 1..n /\ Len(published) \in Nat
      /\ \A m \in DOMAIN published : published'[m] = published[m]
    BY <1>1, <1>2, AppendProperties DEF BusTypes
<1>4. /\ delivering'[p] = d /\ OnlyMoves(p)
      /\ delivering' \in [Delivery!Threads -> [event : 0..MaxEvents, rest : Seq(Ids)]]
    BY <1>1, <1>2 DEF BusTypes, OnlyMoves
<1>5. BusTypes'
    BY <1>2, <1>3, <1>4 DEF BusTypes
<1>6. InProgress(p)' /\ Halfway(p)' /\ delivering'[p].event = n
    <2>1. <<>> \o subscriptions[t] = subscriptions[t]
        BY ConcatEmptySeq
    <2>2. delivering'[p].event = n /\ delivering'[p].rest = subscriptions[t] /\ n # 0
        BY <1>2, <1>3, <1>4
    <2>3. published'[n].called = <<>> /\ published'[n].due = subscriptions[t] /\ n \in DOMAIN published'
        BY <1>2, <1>3
    <2> HIDE DEF n
    <2> QED
        BY <2>1, <2>2, <2>3 DEF InProgress, Halfway
<1>7. ASSUME NEW q \in Delivery!Threads, q # p
      PROVE  /\ delivering'[q] = delivering[q] /\ InProgress(q)' = InProgress(q) /\ delivering[q].event # n
             /\ IF InProgress(q) THEN Halfway(q)' ELSE delivering'[q] = Delivery!Nothing
    <2>1. delivering'[q] = delivering[q]
        BY <1>4, <1>7 DEF OnlyMoves
    <2>2. CASE InProgress(q)
        <3>1. Halfway(q) /\ delivering[q].event \in DOMAIN published /\ delivering[q].event # n
            BY <1>3, <2>2, HeldTypes
        <3>2. /\ delivering[q].event \in DOMAIN published'
              /\ published'[delivering[q].event] = published[delivering[q].event]
            BY <1>3, <3>1
        <3>3. Halfway(q)'
            BY <2>1, <3>1, <3>2 DEF Halfway
        <3> QED
            BY <2>1, <2>2, <3>1, <3>3 DEF InProgress
    <2>3. CASE ~InProgress(q)
        BY <1>3, <2>1, <2>3, HeldTypes DEF InProgress
    <2> QED
        BY <2>2, <2>3
<1>8. \A q \in Delivery!Threads : (IF InProgress(q) THEN Halfway(q) ELSE delivering[q] = Delivery!Nothing)'
    BY <1>6, <1>7
<1>9. ASSUME NEW q \in Delivery!Threads, NEW r \in Delivery!Threads,
             InProgress(q)', delivering'[q].event = delivering'[r].event
      PROVE  q = r
    <2>1. q # p /\ r # p => InProgress(q) /\ delivering[q].event = delivering[r].event
        BY <1>7, <1>9
    <2> QED
        BY <1>6, <1>7, <1>9, <2>1 DEF Due
<1>10. ASSUME NEW m \in DOMAIN published'
       PROVE  Closed(m)' \/ \E q \in Delivery!Threads : delivering'[q].event = m
    <2>1. CASE m = n
        BY <1>6, <2>1
    <2>2. CASE m \in DOMAIN published
        <3>1. delivering[p].event # m
            BY <1>3, <2>2 DEF InProgress
        <3>2. Closed(m) \/ \E q \in Delivery!Threads : delivering[q].event = m
            BY <2>2 DEF Due
        <3>3. Closed(m) => Closed(m)'
            BY <1>3, <2>2 DEF Closed
        <3> QED
            BY <1>7, <3>1, <3>2, <3>3
    <2> QED
        BY <1>3, <2>1, <2>2
<1> QED
    BY <1>4, <1>5, <1>8, <1>9, <1>10 DEF Due

\* A handler that was called is moved from the rest of its event to those called.
LEMMA CallHandlerKeeps ==
    ASSUME BusTypes, Due, NEW p \in Delivery!Threads, Delivery!CallHandler(p)
    PROVE  BusTypes' /\ Due' /\ OnlyMoves(p) /\ InProgress(p)
<1> DEFINE n == delivering[p].event
           rest == delivering[p].rest
           called == Append(published[n].called, Head(rest))
<1>1. /\ rest # <<>> /\ published' = [published EXCEPT ![n].called = called]
      /\ delivering' = [delivering EXCEPT ![p].rest = Tail(rest)]
    BY DEF Delivery!CallHandler, Delivery!AfterHandler
<1>2. InProgress(p) /\ Halfway(p) /\ n \in DOMAIN published
    BY <1>1, HeldTypes
<1>3. /\ published[n] \in EventType /\ published[n].called \in Seq(Ids) /\ rest \in Seq(Ids) /\ n \in 0..MaxEvents
    BY <1>2, HeldTypes
<1>4. called \in Seq(Ids) /\ Tail(rest) \in Seq(Ids) /\ called \o Tail(rest) = published[n].called \o rest
    BY <1>1, <1>3, HeadMoves
<1> HIDE DEF called
<1>5. /\ published' \in Seq(EventType) /\ Len(published') = Len(published) /\ DOMAIN published' = DOMAIN published
      /\ published'[n].called = called /\ published'[n].due = published[n].due
      /\ \A m \in DOMAIN published : m # n => published'[m] = published[m]
    <2> DEFINE e == [published[n] EXCEPT !.called = called]
    <2>1. e \in EventType /\ e.called = called /\ e.due = published[n].due
        BY <1>3, <1>4 DEF EventType
    <2>2. published' = [published EXCEPT ![n] = e]
        BY <1>1
    <2> HIDE DEF e
    <2> QED
        BY <1>2, <2>1, <2>2, ExceptSeq DEF BusTypes
<1>6. /\ delivering' \in [Delivery!Threads -> [event : 0..MaxEvents, rest : Seq(Ids)]]
      /\ delivering'[p].event = n /\ delivering'[p].rest = Tail(rest) /\ OnlyMoves(p)
    BY <1>1, <1>3, <1>4 DEF BusTypes, OnlyMoves
<1>7. BusTypes'
    BY <1>5, <1>6 DEF BusTypes
<1> HIDE DEF rest
<1>8. Due'
    <2>1. \A q \in Delivery!Threads : delivering'[q].event = delivering[q].event /\ InProgress(q)' = InProgress(q)
        BY <1>6 DEF OnlyMoves, InProgress
    <2>2. Halfway(p)'
        <3>1. published[n].called \o rest = published[n].due
            BY <1>2 DEF Halfway, rest
        <3> QED
            BY <1>2, <1>4, <1>5, <1>6, <3>1 DEF Halfway
    <2>3. ASSUME NEW q \in Delivery!Threads, q # p
          PROVE  IF InProgress(q) THEN Halfway(q)' ELSE delivering'[q] = Delivery!Nothing
        <3>1. delivering'[q] = delivering[q]
            BY <1>6, <2>3 DEF OnlyMoves
        <3>2. CASE InProgress(q)
            <4>1. delivering[q].event # n
                BY <1>2, <2>3, <3>2 DEF Due
            <4>2. Halfway(q) /\ delivering[q].event \in DOMAIN published
                BY <3>2, HeldTypes
            <4> QED
                BY <1>5, <3>1, <3>2, <4>1, <4>2 DEF Halfway
        <3>3. CASE ~InProgress(q)
            BY <3>1, <3>3, HeldTypes
        <3> QED
            BY <3>2, <3>3
    <2>4. \A q \in Delivery!Threads : (IF InProgress(q) THEN Halfway(q) ELSE delivering[q] = Delivery!Nothing)'
        BY <1>2, <2>1, <2>2, <2>3
    <2>5. ASSUME NEW m \in DOMAIN published'
          PROVE  Closed(m)' \/ \E q \in Delivery!Threads : delivering'[q].event = m
        <3>1. CASE m = n
            BY <1>6, <3>1
        <3>2. CASE m # n
            <4>1. Closed(m) \/ \E q \in Delivery!Threads : delivering[q].event = m
                BY <1>5 DEF Due
            <4>2. Closed(m) => Closed(m)'
                BY <1>5, <3>2 DEF Closed
            <4> QED
                BY <2>1, <4>1, <4>2
        <3> QED
            BY <3>1, <3>2
    <2>6. \A q, r \in Delivery!Threads : InProgress(q)' /\ delivering'[q].event = delivering'[r].event => q = r
        BY <2>1 DEF Due
    <2> QED
        BY <2>4, <2>5, <2>6 DEF Due
<1> QED
    BY <1>2, <1>6, <1>7, <1>8

\* A publication that has called them all leaves its event complete.
LEMMA DeliveredKeeps ==
    ASSUME BusTypes, Due, NEW p \in Delivery!Threads, Delivery!Delivered(p),
           delivering' = [delivering EXCEPT ![p] = Delivery!Nothing], published' = published, MaxEvents \in Nat
    PROVE  BusTypes' /\ Due' /\ OnlyMoves(p) /\ ~InProgress(p)'
<1>1. /\ Delivery!Nothing \in [event : 0..MaxEvents, rest : Seq(Ids)] /\ Delivery!Nothing.event = 0
    BY DEF Delivery!Nothing
<1>2. /\ delivering' \in [Delivery!Threads -> [event : 0..MaxEvents, rest : Seq(Ids)]]
      /\ delivering'[p] = Delivery!Nothing /\ OnlyMoves(p)
    BY <1>1 DEF BusTypes, OnlyMoves
<1>3. InProgress(p) => Closed(delivering[p].event)
    <2> SUFFICES ASSUME InProgress(p) PROVE Closed(delivering[p].event)
        OBVIOUS
    <2>1. published[delivering[p].event].called \in Seq(Ids) /\ Halfway(p)
        BY HeldTypes
    <2>2. delivering[p].rest = <<>>
        BY DEF Delivery!Delivered
    <2>3. published[delivering[p].event].called \o <<>> = published[delivering[p].event].called
        BY <2>1, ConcatEmptySeq
    <2> QED
        BY <2>1, <2>2, <2>3 DEF Halfway, Closed
<1>4. ~InProgress(p)'
    BY <1>1, <1>2 DEF InProgress
<1>5. ASSUME NEW q \in Delivery!Threads, q # p
      PROVE  /\ delivering'[q] = delivering[q] /\ InProgress(q)' = InProgress(q)
             /\ IF InProgress(q) THEN Halfway(q)' ELSE delivering'[q] = Delivery!Nothing
    <2>1. delivering'[q] = delivering[q]
        BY <1>2, <1>5 DEF OnlyMoves
    <2>2. InProgress(q) => Halfway(q)'
        BY <2>1, HeldTypes DEF Halfway
    <2> QED
        BY <2>1, <2>2, HeldTypes DEF InProgress
<1>6. \A q \in Delivery!Threads : (IF InProgress(q) THEN Halfway(q) ELSE delivering[q] = Delivery!Nothing)'
    BY <1>2, <1>4, <1>5
<1>7. ASSUME NEW m \in DOMAIN published
      PROVE  Closed(m)' \/ \E q \in Delivery!Threads : delivering'[q].event = m
    <2>1. Closed(m)' = Closed(m) /\ m # 0
        BY DEF Closed, BusTypes
    <2>2. CASE delivering[p].event = m
        BY <1>3, <2>1, <2>2 DEF InProgress
    <2>3. CASE delivering[p].event # m
        BY <1>5, <2>1, <2>3 DEF Due
    <2> QED
        BY <2>2, <2>3
<1>8. ASSUME NEW q \in Delivery!Threads, NEW r \in Delivery!Threads,
             InProgress(q)', delivering'[q].event = delivering'[r].event
      PROVE  q = r
    <2>1. q # p /\ r # p
        BY <1>1, <1>2, <1>4, <1>8 DEF InProgress
    <2> QED
        BY <1>5, <1>8, <2>1 DEF Due
<1>9. BusTypes'
    BY <1>2 DEF BusTypes
<1> QED
    BY <1>2, <1>4, <1>6, <1>7, <1>8, <1>9 DEF Due

\* RemoveAt drops one element and keeps the order of the others.
LEMMA RemoveAtFacts ==
    ASSUME NEW S, NEW s \in Seq(S), NEW k \in DOMAIN s
    PROVE  /\ Delivery!RemoveAt(s, k) \in Seq(S)
           /\ \A i \in DOMAIN Delivery!RemoveAt(s, k) :
                 /\ i \in Nat /\ (IF i < k THEN i ELSE i + 1) \in DOMAIN s
                 /\ Delivery!RemoveAt(s, k)[i] = s[IF i < k THEN i ELSE i + 1]
<1> DEFINE l == SubSeq(s, 1, k - 1)
           r == SubSeq(s, k + 1, Len(s))
<1>1. Len(s) \in Nat /\ DOMAIN s = 1..Len(s) /\ k \in 1..Len(s) /\ \A i \in 1..Len(s) : s[i] \in S
    OBVIOUS
<1>2. l \in Seq(S) /\ Len(l) = k - 1 /\ \A i \in 1..k - 1 : l[i] = s[i]
    <2>1. \A i \in 1..k - 1 : s[i] \in S
        BY <1>1
    <2> QED
        BY <1>1, <2>1, SubSeqProperties
<1>3. r \in Seq(S) /\ Len(r) = Len(s) - k /\ \A i \in 1..Len(s) - k : r[i] = s[k + i]
    <2>1. \A i \in k + 1..Len(s) : s[i] \in S
        BY <1>1
    <2>2. Len(r) = Len(s) - k
        BY <1>1, <2>1, SubSeqProperties
    <2>3. r \in Seq(S)
        BY <1>1, <2>1, SubSeqProperties
    <2>4. \A i \in 1..Len(s) - k : r[i] = s[k + 1 + i - 1]
        BY <1>1, <2>1, SubSeqProperties
    <2> QED
        BY <1>1, <2>2, <2>3, <2>4
<1>4. Delivery!RemoveAt(s, k) = l \o r
    BY DEF Delivery!RemoveAt
<1> HIDE DEF l, r
<1> DEFINE c == l \o r
<1>5. /\ c \in Seq(S) /\ Len(c) = Len(l) + Len(r)
      /\ \A i \in 1..Len(l) + Len(r) : c[i] = IF i <= Len(l) THEN l[i] ELSE r[i - Len(l)]
    BY <1>2, <1>3, ConcatProperties
<1> HIDE DEF c
<1>6. DOMAIN c = 1..Len(s) - 1 /\ Len(l) + Len(r) = Len(s) - 1
    BY <1>1, <1>2, <1>3, <1>5
<1>7. ASSUME NEW i \in 1..Len(s) - 1
      PROVE  c[i] = s[IF i < k THEN i ELSE i + 1]
    <2>1. c[i] = IF i <= Len(l) THEN l[i] ELSE r[i - Len(l)]
        BY <1>5, <1>6
    <2>2. CASE i < k
        BY <1>1, <1>2, <2>1, <2>2
    <2>3. CASE ~ (i < k)
        <3>1. i - Len(l) \in 1..Len(s) - k /\ ~ (i <= Len(l)) /\ k + (i - Len(l)) = i + 1
            BY <1>1, <1>2, <2>3
        <3> QED
            BY <1>3, <2>1, <2>3, <3>1
    <2> QED
        BY <2>2, <2>3
<1>8. \A i \in 1..Len(s) - 1 : i \in Nat /\ (IF i < k THEN i ELSE i + 1) \in DOMAIN s
    BY <1>1
<1> QED
    BY <1>4, <1>5, <1>6, <1>7, <1>8 DEF c

\* A subscription has an id that no other ever had.
LEMMA SubscribeKeeps ==
    ASSUME Subscribed, NEW t \in Types, Delivery!Subscribe(t), MaxSubscriptions \in Nat
    PROVE  Subscribed'
<1> DEFINE s == Append(subscriptions[t], nextSubscriptionId)
<1>1. /\ subscriptions' = [subscriptions EXCEPT ![t] = s] /\ nextSubscriptionId' = nextSubscriptionId + 1
      /\ nextSubscriptionId \in Ids /\ subscriptions[t] \in Seq(Ids)
    BY DEF Delivery!Subscribe, Subscribed, Ids
<1>2. /\ s \in Seq(Ids) /\ DOMAIN s = 1..Len(subscriptions[t]) + 1 /\ Len(subscriptions[t]) \in Nat
      /\ DOMAIN subscriptions[t] = 1..Len(subscriptions[t])
      /\ s[Len(subscriptions[t]) + 1] = nextSubscriptionId
      /\ \A k \in 1..Len(subscriptions[t]) : s[k] = subscriptions[t][k]
    BY <1>1, AppendProperties
<1> HIDE DEF s
<1>3. \A k \in 1..Len(subscriptions[t]) : subscriptions[t][k] \in Nat
    BY <1>1 DEF Ids
<1>4. /\ \A k \in 1..Len(subscriptions[t]) : subscriptions[t][k] < nextSubscriptionId
      /\ \A k, m \in 1..Len(subscriptions[t]) : subscriptions[t][k] = subscriptions[t][m] => k = m
    BY <1>2 DEF Subscribed, Delivery!IsInjective
<1> DEFINE l == Len(subscriptions[t])
<1>5. /\ nextSubscriptionId \in Nat
      /\ \A k \in DOMAIN s : \/ k = l + 1 /\ s[k] = nextSubscriptionId
                             \/ /\ k \in 1..l /\ s[k] = subscriptions[t][k]
                                /\ s[k] < nextSubscriptionId /\ s[k] \in Nat
    <2>1. \A k \in 1..l + 1 : k = l + 1 \/ k \in 1..l
        BY <1>2
    <2>2. nextSubscriptionId \in Nat
        BY <1>1 DEF Ids
    <2> QED
        BY <1>2, <1>3, <1>4, <2>1, <2>2
<1>6. \A k, m \in DOMAIN s : s[k] = s[m] => k = m
    BY <1>4, <1>5
<1>7. \A k \in DOMAIN s : s[k] < nextSubscriptionId + 1
    BY <1>5
<1>8. /\ subscriptions' \in [Types -> Seq(Ids)] /\ subscriptions'[t] = s
      /\ \A u \in Types : u # t => subscriptions'[u] = subscriptions[u]
    BY <1>1, <1>2 DEF Subscribed
<1>9. nextSubscriptionId' \in 1..MaxSubscriptions + 1
    BY <1>1 DEF Ids
<1>10. ASSUME NEW u \in Types, NEW k \in DOMAIN subscriptions'[u]
      PROVE  subscriptions'[u][k] < nextSubscriptionId'
    <2>1. CASE u = t
        BY <1>1, <1>7, <1>8, <1>10, <2>1
    <2>2. CASE u # t
        <3>1. subscriptions[u][k] < nextSubscriptionId /\ k \in DOMAIN subscriptions[u] /\ subscriptions[u] \in Seq(Ids)
            BY <1>8, <1>10, <2>2 DEF Subscribed
        <3>2. subscriptions[u][k] \in Ids
            BY <3>1
        <3> QED
            BY <1>1, <1>8, <2>2, <3>1, <3>2 DEF Ids
    <2> QED
        BY <2>1, <2>2
<1>11. \A u \in Types : Delivery!IsInjective(subscriptions'[u])
    BY <1>6, <1>8 DEF Subscribed, Delivery!IsInjective
<1> QED
    BY <1>8, <1>9, <1>10, <1>11 DEF Subscribed

\* Who leaves changes neither the order nor the ids of the others.
LEMMA UnsubscribeKeeps ==
    ASSUME Subscribed, NEW t \in Types, NEW id, Delivery!Unsubscribe(t, id)
    PROVE  Subscribed'
<1>1. PICK k \in DOMAIN subscriptions[t] :
          subscriptions' = [subscriptions EXCEPT ![t] = Delivery!RemoveAt(subscriptions[t], k)]
    BY DEF Delivery!Unsubscribe
<1> DEFINE s == Delivery!RemoveAt(subscriptions[t], k)
           from(i) == IF i < k THEN i ELSE i + 1
<1>2. /\ subscriptions[t] \in Seq(Ids) /\ nextSubscriptionId' = nextSubscriptionId
    BY DEF Delivery!Unsubscribe, Subscribed
<1>3. /\ s \in Seq(Ids)
      /\ \A i \in DOMAIN s : i \in Nat /\ from(i) \in DOMAIN subscriptions[t] /\ s[i] = subscriptions[t][from(i)]
    BY <1>1, <1>2, RemoveAtFacts
<1>4. k \in Nat
    BY <1>1, <1>2
<1>5. \A i, j \in Nat : from(i) = from(j) => i = j
    BY <1>4
<1>6. /\ subscriptions' \in [Types -> Seq(Ids)] /\ subscriptions'[t] = s
      /\ \A u \in Types : u # t => subscriptions'[u] = subscriptions[u]
    BY <1>1, <1>3 DEF Subscribed
<1> HIDE DEF s, from
<1>7. \A i \in DOMAIN s : s[i] < nextSubscriptionId
    BY <1>3 DEF Subscribed
<1>8. \A i, j \in DOMAIN s : s[i] = s[j] => i = j
    BY <1>3, <1>5 DEF Subscribed, Delivery!IsInjective
<1>9. \A u \in Types : \A i \in DOMAIN subscriptions'[u] : subscriptions'[u][i] < nextSubscriptionId'
    BY <1>2, <1>6, <1>7 DEF Subscribed
<1>10. \A u \in Types : Delivery!IsInjective(subscriptions'[u])
    BY <1>6, <1>8 DEF Subscribed, Delivery!IsInjective
<1> QED
    BY <1>2, <1>6, <1>9, <1>10 DEF Subscribed

LEMMA DeliveryStarts == Delivery!DeliveryAssumption /\ Delivery!Init => DeliveryInv
<1> SUFFICES ASSUME Delivery!DeliveryAssumption, Delivery!Init PROVE DeliveryInv
    OBVIOUS
<1> USE DEF Delivery!Init, Delivery!DeliveryAssumption
<1>1. <<>> \in Seq(Ids) /\ <<>> \in Seq(EventType) /\ Len(<<>>) = 0 /\ DOMAIN <<>> = {}
    OBVIOUS
<1>2. Delivery!Nothing \in [event : 0..MaxEvents, rest : Seq(Ids)] /\ Delivery!Nothing.event = 0
    BY <1>1 DEF Delivery!Nothing
<1>3. Subscribed
    BY <1>1 DEF Subscribed, Delivery!IsInjective
<1>4. BusTypes
    BY <1>1, <1>2 DEF BusTypes
<1>5. \A p \in Delivery!Threads : ~InProgress(p) /\ delivering[p] = Delivery!Nothing
    BY <1>2 DEF InProgress
<1>6. Due
    BY <1>1, <1>5 DEF Due
<1>7. WatcherTypes /\ WatcherIdle
    BY <1>5 DEF WatcherTypes, WatcherIdle, Delivery!Threads
<1> QED
    BY <1>3, <1>4, <1>6, <1>7 DEF DeliveryInv

\* Steps that leave the bus or the watcher as it is.
LEMMA BusStill ==
    ASSUME UNCHANGED <<delivering, published>>
    PROVE  (BusTypes => BusTypes') /\ (Due => Due') /\ \A p : InProgress(p)' = InProgress(p)
    BY DEF BusTypes, Due, InProgress, Halfway, Closed

LEMMA SubscribersStill ==
    ASSUME Subscribed, UNCHANGED Delivery!busVars
    PROVE  Subscribed'
    BY DEF Subscribed, Delivery!busVars

\* The steps of a publisher, and of a watcher's thread at the bus, take the event it is publishing
\* through its life. No other thread's event is touched.
LEMMA PublisherSteps ==
    ASSUME Delivery!DeliveryAssumption, DeliveryInv, NEW p \in Publishers,
           \/ \E t \in Types : Delivery!Publish(p, t)
           \/ Delivery!CallHandler(p) \/ Delivery!EndPublish(p)
    PROVE  DeliveryInv'
<1>1. p \in Delivery!Threads /\ p # Delivery!Watcher /\ Delivery!Watcher \in Delivery!Threads /\ MaxEvents \in Nat
    BY DEF Delivery!DeliveryAssumption, Delivery!Threads
<1>2. Subscribed /\ BusTypes /\ WatcherTypes /\ Due /\ WatcherIdle
    BY DEF DeliveryInv
<1>3. UNCHANGED Delivery!busVars /\ UNCHANGED Delivery!watcherVars
    BY DEF Delivery!Publish, Delivery!CallHandler, Delivery!EndPublish
<1>4. BusTypes' /\ Due' /\ OnlyMoves(p)
    <2>1. CASE \E t \in Types : Delivery!Publish(p, t)
        <3>1. PICK t \in Types : Delivery!Publish(p, t)
            BY <2>1
        <3>2. ~InProgress(p) /\ Delivery!Copied(p, t) /\ subscriptions[t] \in Seq(Ids)
            BY <1>2, <3>1 DEF Delivery!Publish, InProgress, Delivery!Nothing, Subscribed
        <3> QED
            BY <1>1, <1>2, <3>2, CopiedKeeps
    <2>2. CASE Delivery!CallHandler(p)
        BY <1>1, <1>2, <2>2, CallHandlerKeeps
    <2>3. CASE Delivery!EndPublish(p)
        BY <1>1, <1>2, <2>3, DeliveredKeeps DEF Delivery!EndPublish
    <2> QED
        BY <2>1, <2>2, <2>3
<1>5. InProgress(Delivery!Watcher)' = InProgress(Delivery!Watcher)
    BY <1>1, <1>4 DEF OnlyMoves, InProgress
<1>6. WatcherTypes' /\ WatcherIdle'
    BY <1>2, <1>3, <1>5 DEF WatcherTypes, WatcherIdle, Delivery!watcherVars
<1> QED
    BY <1>2, <1>3, <1>4, <1>6, SubscribersStill DEF DeliveryInv

\* The watcher's thread publishes one event at a time, and waits for the handlers.
LEMMA WatcherPublishes ==
    ASSUME Delivery!DeliveryAssumption, DeliveryInv, UNCHANGED Delivery!busVars,
           UNCHANGED <<watching, control, cancelMissed>>, handle' \in BOOLEAN,
           watch \notin {"publishing", "failed"}, watch # "none",
           \/ /\ watch' \in {"none", "testing", "calling", "reading"} /\ (watch' = "none" => watch = "testing")
              /\ UNCHANGED <<delivering, published>>
           \/ /\ watch' \in {"publishing", "failed"}
              /\ \E t \in Types : Delivery!Copied(Delivery!Watcher, t)
    PROVE  DeliveryInv'
<1>1. Delivery!Watcher \in Delivery!Threads /\ MaxEvents \in Nat
    BY DEF Delivery!DeliveryAssumption, Delivery!Threads
<1>2. /\ Subscribed /\ BusTypes /\ WatcherTypes /\ Due /\ WatcherIdle
      /\ ~InProgress(Delivery!Watcher)
    BY DEF DeliveryInv, WatcherIdle
<1>3. BusTypes' /\ Due' /\ (UNCHANGED <<delivering, published>> => ~InProgress(Delivery!Watcher)')
    <2>1. CASE UNCHANGED <<delivering, published>>
        BY <1>2, <2>1, BusStill
    <2>2. CASE \E t \in Types : Delivery!Copied(Delivery!Watcher, t)
        <3>1. PICK t \in Types : Delivery!Copied(Delivery!Watcher, t)
            BY <2>2
        <3>2. subscriptions[t] \in Seq(Ids)
            BY <1>2 DEF Subscribed
        <3>3. BusTypes' /\ Due'
            BY <1>1, <1>2, <3>1, <3>2, CopiedKeeps
        <3> QED
            BY <1>2, <3>3, BusStill
    <2> QED
        BY <2>1, <2>2
<1>4. WatcherTypes'
    BY <1>2 DEF WatcherTypes
<1>5. WatcherIdle'
    BY <1>2, <1>3 DEF WatcherIdle
<1> QED
    BY <1>2, <1>3, <1>4, <1>5, SubscribersStill DEF DeliveryInv

LEMMA WatcherSteps ==
    ASSUME Delivery!DeliveryAssumption, DeliveryInv, Delivery!WatcherThread \/ Delivery!Environment
    PROVE  DeliveryInv'
<1> USE DEF Delivery!DeliveryAssumption
<1>1. Delivery!Watcher \in Delivery!Threads /\ MaxEvents \in Nat
    BY DEF Delivery!Threads
<1>2. Subscribed /\ BusTypes /\ WatcherTypes /\ Due /\ WatcherIdle
    BY DEF DeliveryInv
<1>3. CASE Delivery!Open
    BY <1>2, <1>3, WatcherPublishes DEF Delivery!Open
<1>4. CASE Delivery!Test
    BY <1>2, <1>4, WatcherPublishes DEF Delivery!Test, WatcherTypes
<1>5. CASE Delivery!BeginRead
    BY <1>2, <1>5, WatcherPublishes DEF Delivery!BeginRead, WatcherTypes
<1>6. CASE Delivery!Changed
    BY <1>2, <1>6, WatcherPublishes DEF Delivery!Changed, WatcherTypes
<1>7. CASE Delivery!ReadFails
    BY <1>2, <1>7, WatcherPublishes DEF Delivery!ReadFails, WatcherTypes
<1>8. CASE Delivery!CallHandler(Delivery!Watcher)
    <2>1. BusTypes' /\ Due' /\ InProgress(Delivery!Watcher)
        BY <1>1, <1>2, <1>8, CallHandlerKeeps
    <2>2. UNCHANGED Delivery!busVars /\ UNCHANGED Delivery!watcherVars
        BY <1>8 DEF Delivery!CallHandler
    <2>3. WatcherTypes' /\ WatcherIdle'
        BY <1>2, <2>1, <2>2 DEF WatcherTypes, WatcherIdle, Delivery!watcherVars
    <2> QED
        BY <1>2, <2>1, <2>2, <2>3, SubscribersStill DEF DeliveryInv
<1>9. CASE Delivery!WatcherPublished
    <2>1. BusTypes' /\ Due' /\ ~InProgress(Delivery!Watcher)'
        BY <1>1, <1>2, <1>9, DeliveredKeeps DEF Delivery!WatcherPublished
    <2>2. WatcherTypes' /\ WatcherIdle' /\ UNCHANGED Delivery!busVars
        BY <1>2, <1>9, <2>1 DEF Delivery!WatcherPublished, WatcherTypes, WatcherIdle
    <2> QED
        BY <1>2, <2>1, <2>2, SubscribersStill DEF DeliveryInv
<1> QED
    BY <1>3, <1>4, <1>5, <1>6, <1>7, <1>8, <1>9 DEF Delivery!WatcherThread, Delivery!Environment

\* Start and Stop of the watcher.
LEMMA ControllerSteps ==
    ASSUME DeliveryInv, Delivery!Start \/ Delivery!Stop \/ Delivery!Controller
    PROVE  DeliveryInv'
<1>1. Subscribed /\ BusTypes /\ WatcherTypes /\ Due /\ WatcherIdle
    BY DEF DeliveryInv
<1>2. UNCHANGED Delivery!busVars /\ UNCHANGED <<delivering, published>>
    BY DEF Delivery!Start, Delivery!Stop, Delivery!Controller, Delivery!CancelRead, Delivery!JoinWatcher,
           Delivery!CloseDirectory
<1>3. BusTypes' /\ Due' /\ InProgress(Delivery!Watcher)' = InProgress(Delivery!Watcher) /\ Subscribed'
    BY <1>1, <1>2, BusStill, SubscribersStill
<1>4. CASE Delivery!Start
    BY <1>1, <1>3, <1>4 DEF Delivery!Start, DeliveryInv, WatcherTypes, WatcherIdle
<1>5. CASE Delivery!Stop
    BY <1>1, <1>3, <1>5 DEF Delivery!Stop, DeliveryInv, WatcherTypes, WatcherIdle
<1>6. CASE Delivery!CancelRead
    BY <1>1, <1>3, <1>6 DEF Delivery!CancelRead, Delivery!Cancel, DeliveryInv, WatcherTypes, WatcherIdle
<1>7. CASE Delivery!JoinWatcher
    BY <1>1, <1>3, <1>7 DEF Delivery!JoinWatcher, Delivery!Join, DeliveryInv, WatcherTypes, WatcherIdle
<1>8. CASE Delivery!CloseDirectory
    BY <1>1, <1>3, <1>8 DEF Delivery!CloseDirectory, DeliveryInv, WatcherTypes, WatcherIdle
<1> QED
    BY <1>4, <1>5, <1>6, <1>7, <1>8 DEF Delivery!Controller

LEMMA DeliverySteps ==
    ASSUME Delivery!DeliveryAssumption, DeliveryInv, [Delivery!Next]_Delivery!vars
    PROVE  DeliveryInv'
<1>1. Subscribed /\ BusTypes /\ WatcherTypes /\ Due /\ WatcherIdle
    BY DEF DeliveryInv
<1>2. ASSUME Subscribed', UNCHANGED Delivery!watcherVars, UNCHANGED <<delivering, published>>
      PROVE  DeliveryInv'
    <2>1. BusTypes' /\ Due' /\ InProgress(Delivery!Watcher)' = InProgress(Delivery!Watcher)
        BY <1>1, <1>2, BusStill
    <2> QED
        BY <1>1, <1>2, <2>1 DEF DeliveryInv, WatcherTypes, WatcherIdle, Delivery!watcherVars
<1>3. ASSUME NEW t \in Types, Delivery!Subscribe(t)
      PROVE  DeliveryInv'
    <2>1. Subscribed'
        BY <1>1, <1>3, SubscribeKeeps DEF Delivery!DeliveryAssumption
    <2> QED
        BY <1>2, <1>3, <2>1 DEF Delivery!Subscribe
<1>4. ASSUME NEW t \in Types, NEW id \in 1..MaxSubscriptions, Delivery!Unsubscribe(t, id)
      PROVE  DeliveryInv'
    <2>1. Subscribed'
        BY <1>1, <1>4, UnsubscribeKeeps
    <2> QED
        BY <1>2, <1>4, <2>1 DEF Delivery!Unsubscribe
<1>5. CASE UNCHANGED Delivery!vars
    <2>1. UNCHANGED Delivery!busVars /\ UNCHANGED Delivery!watcherVars /\ UNCHANGED <<delivering, published>>
        BY <1>5 DEF Delivery!vars
    <2> QED
        BY <1>1, <1>2, <2>1, SubscribersStill
<1> QED
    BY <1>3, <1>4, <1>5, PublisherSteps, WatcherSteps, ControllerSteps DEF Delivery!Next

\* An event was called for in full, or one thread has the rest of it.
LEMMA DueDelivered == DeliveryInv => Delivery!TypeOK /\ Delivery!DeliveredInOrder
<1> SUFFICES ASSUME DeliveryInv PROVE Delivery!TypeOK /\ Delivery!DeliveredInOrder
    OBVIOUS
<1>1. BusTypes /\ Due
    BY DEF DeliveryInv
<1>2. Delivery!TypeOK
    BY DEF DeliveryInv, Subscribed, BusTypes, WatcherTypes, Ids, Delivery!TypeOK
<1>3. ASSUME NEW n \in DOMAIN published
      PROVE  LET open == {p \in Delivery!Threads : delivering[p].event = n} IN
             /\ Delivery!Cardinality(open) <= 1
             /\ IF open = {} THEN published[n].called = published[n].due
                ELSE published[n].called \o delivering[CHOOSE p \in open : TRUE].rest = published[n].due
    <2> DEFINE open == {p \in Delivery!Threads : delivering[p].event = n}
    <2>1. n # 0
        BY <1>1 DEF BusTypes
    <2>2. CASE open = {}
        <3>1. Cardinality(open) = 0
            BY <2>2, FS_EmptySet
        <3>2. Closed(n)
            BY <1>1, <2>2 DEF Due
        <3> QED
            BY <2>2, <3>1, <3>2 DEF Closed, Cardinality, Delivery!Cardinality
    <2>3. CASE open # {}
        <3>1. PICK p \in open : TRUE
            BY <2>3
        <3>2. InProgress(p) /\ p \in Delivery!Threads /\ delivering[p].event = n
            BY <2>1, <3>1 DEF InProgress
        <3>3. open = {p}
            BY <1>1, <3>2 DEF Due
        <3>4. Cardinality(open) = 1
            BY <3>3, FS_Singleton
        <3>5. (CHOOSE q \in open : TRUE) = p
            BY <3>3
        <3>6. published[n].called \o delivering[p].rest = published[n].due
            BY <1>1, <3>2 DEF Due, Halfway
        <3>7. Delivery!Cardinality(open) <= 1
            BY <3>4 DEF Cardinality, Delivery!Cardinality
        <3>8. published[n].called \o delivering[CHOOSE q \in open : TRUE].rest = published[n].due
            BY <3>5, <3>6
        <3> QED
            BY <2>3, <3>7, <3>8
    <2> QED
        BY <2>2, <2>3
<1> QED
    BY <1>2, <1>3 DEF Delivery!DeliveredInOrder

\* An event is delivered to each subscriber of the moment it was published, once and in the order
\* they subscribed, whoever subscribes, leaves, throws or publishes meanwhile (EventBus::Publish,
\* Subscribe, Unsubscribe and the watcher's loop).
THEOREM EventsDelivered == Spec => []DeliveredInOrder
<1>1. Delivery!DeliveryAssumption
    BY BoundsAssumption
<1>2. Delivery!Init => DeliveryInv
    BY <1>1, DeliveryStarts
<1>3. DeliveryInv /\ [Delivery!Next]_Delivery!vars => DeliveryInv'
    BY <1>1, DeliverySteps
<1>4. DeliveryInv => DeliveredInOrder
    BY DueDelivered DEF DeliveredInOrder
<1> QED
    BY <1>2, <1>3, <1>4, DeliveryBehaves, PTL DEF Delivery!Spec

\* When Stop has returned the watcher has no thread and no open directory, so it publishes nothing
\* more, and the directory is never closed under a thread that uses it (FileSystemWatcher::Stop).
THEOREM WatcherIsQuiet == Spec => [](Delivery!QuietAfterStop /\ Delivery!HandleHeld)
<1> DEFINE Quiet == Delivery!QuietAfterStop /\ Delivery!HandleHeld
<1> USE DEF Delivery!QuietAfterStop, Delivery!HandleHeld
<1>1. Delivery!DeliveryAssumption
    BY BoundsAssumption
<1>2. Delivery!Init => DeliveryInv /\ Quiet
    BY <1>1, DeliveryStarts DEF Delivery!Init
<1>3. DeliveryInv /\ Quiet /\ [Delivery!Next]_Delivery!vars => DeliveryInv' /\ Quiet'
    <2> SUFFICES ASSUME DeliveryInv, Quiet, [Delivery!Next]_Delivery!vars
                 PROVE  DeliveryInv' /\ Quiet'
        OBVIOUS
    <2>1. DeliveryInv' /\ WatcherIdle /\ WatcherTypes
        BY <1>1, DeliverySteps DEF DeliveryInv
    <2>2. CASE UNCHANGED Delivery!watcherVars
        BY <2>1, <2>2 DEF Delivery!watcherVars
    <2>3. CASE Delivery!Open
        BY <2>1, <2>3 DEF Delivery!Open, WatcherIdle
    <2>4. CASE Delivery!Test \/ Delivery!BeginRead \/ Delivery!WatcherPublished
        BY <2>1, <2>4 DEF Delivery!Test, Delivery!BeginRead, Delivery!WatcherPublished, WatcherIdle
    <2>5. CASE Delivery!Environment
        BY <2>1, <2>5 DEF Delivery!Environment, Delivery!Changed, Delivery!ReadFails, WatcherIdle
    <2>6. CASE Delivery!Start \/ Delivery!Stop
        BY <2>1, <2>6 DEF Delivery!Start, Delivery!Stop, WatcherIdle
    <2>7. CASE Delivery!Controller
        BY <2>1, <2>7
           DEF Delivery!Controller, Delivery!CancelRead, Delivery!Cancel, Delivery!JoinWatcher, Delivery!Join,
               Delivery!CloseDirectory, WatcherIdle, WatcherTypes
    <2> HIDE DEF Quiet
    <2>8. CASE UNCHANGED Delivery!vars
        BY <2>1, <2>2, <2>8 DEF Delivery!vars
    <2>9. ASSUME NEW p \in Delivery!Threads,
                 \/ \E t \in Types : Delivery!Publish(p, t)
                 \/ Delivery!CallHandler(p) \/ Delivery!EndPublish(p)
          PROVE  DeliveryInv' /\ Quiet'
        BY <2>2, <2>9 DEF Delivery!Publish, Delivery!CallHandler, Delivery!EndPublish
    <2>10. ASSUME NEW t \in Types,
                  Delivery!Subscribe(t) \/ \E id \in 1..MaxSubscriptions : Delivery!Unsubscribe(t, id)
           PROVE  DeliveryInv' /\ Quiet'
        BY <2>2, <2>10 DEF Delivery!Subscribe, Delivery!Unsubscribe
    <2> QED
        BY <2>3, <2>4, <2>5, <2>6, <2>7, <2>8, <2>9, <2>10
           DEF Delivery!Next, Delivery!WatcherThread, Delivery!Threads
<1> QED
    BY <1>2, <1>3, DeliveryBehaves, PTL DEF Delivery!Spec

-----------------------------------------------------------------------------
\* Telemetry.

LEMMA TelemetryBehaves == Spec => Telemetry!Spec
<1>1. Init => Telemetry!Init
    BY DEF Init
<1>2. [Next]_vars => [Telemetry!Next]_Telemetry!vars
    BY DEF Next, vars, PipelineNext, LifecycleNext, TelemetryNext, WindowsNext, DeliveryNext, ServerNext,
           telemetryVars, Telemetry!vars, Telemetry!ringVars, Telemetry!fileVars, Telemetry!queueVars,
           Telemetry!processVars
<1> QED
    BY <1>1, <1>2, PTL DEF Spec, Telemetry!Spec

\* Traces that were logged have a number; NoTrace has none.
Logged == {t \in Telemetry!Trace : t.id # 0}
Busy == {l \in Loggers : pending[l] # Telemetry!NoTrace}

RingInv ==
    /\ traces \in Seq(Telemetry!Trace) /\ Len(traces) <= KMaxTraces /\ traceBufferWrapped \in BOOLEAN
    /\ totals \in [executions : Nat, successes : Nat, failures : Nat]
    /\ adapterAggregates \in [TraceAdapters -> [executions : Nat, successes : Nat]]
    /\ history \in Seq(Telemetry!Trace) /\ logged \in 0..MaxLogged
    /\ Len(traces) <= Len(history) /\ Len(history) <= logged
    /\ Telemetry!RingAgrees

Held == IF inHand = Telemetry!NoTrace THEN 0 ELSE 1

Accounted ==
    totals.executions =
        persistedTraceCount + droppedPersistenceCount + Len(persistenceQueue) + Cardinality(Busy) + Held

\* Every trace that was logged is somewhere, and nothing is anywhere while nothing is persisted.
QueueInv ==
    /\ pending \in [Loggers -> Logged \cup {Telemetry!NoTrace}] /\ IsFiniteSet(Busy)
    /\ persistenceQueue \in Seq(Logged) /\ Len(persistenceQueue) <= KMaxPersistenceQueue
    /\ inHand \in Logged \cup {Telemetry!NoTrace}
    /\ persistedTraceCount \in Nat /\ droppedPersistenceCount \in Nat
    /\ persistedTraceCount <= totals.executions
    /\ ~persistenceEnabled => Busy = {} /\ persistenceQueue = <<>> /\ writer = "none"
    /\ persistenceEnabled => Accounted

\* The thread ends only when the queue is empty and nobody can add to it.
WriterInv ==
    /\ process \in {"down", "up", "stopping"} /\ session \in 0..MaxSessions
    /\ persistenceEnabled \in BOOLEAN
    /\ writer \in {"none", "waiting", "writing"} /\ (writer = "writing" <=> inHand # Telemetry!NoTrace)
    /\ writer = "none" => persistenceQueue = <<>>
    /\ process = "up" /\ persistenceEnabled => writer # "none"
    /\ process # "up" => Busy = {}
    /\ snapshotTotal \in Nat \cup {Telemetry!NoTotal} /\ snapshotTotal <= totals.executions

\* A new file is begun only after a trace was written to the one before.
FileInv ==
    /\ currentFileIndex \in Nat /\ currentFileBytes \in Nat /\ currentFileIndex <= persistedTraceCount
    /\ currentFileBytes > 0 => currentFileIndex < persistedTraceCount
    /\ persistedFiles \in Seq(Telemetry!FileIndexes)
    /\ disk \in [Telemetry!FileIndexes -> Seq(Telemetry!Trace)]

TelemetryInv == RingInv /\ QueueInv /\ WriterInv /\ FileInv

\* NoTrace is not a trace that was logged.
LEMMA NoTraceFacts == Telemetry!NoTrace \notin Logged /\ Telemetry!NoTrace.id = 0
    BY DEF Logged, Telemetry!NoTrace

\* A sequence is the end of another exactly when their last elements agree, one by one.
LEMMA SuffixIs ==
    ASSUME NEW S, NEW r \in Seq(S), NEW h \in Seq(S), Len(r) <= Len(h)
    PROVE  r = SubSeq(h, Len(h) - Len(r) + 1, Len(h)) <=>
               \A i \in 1..Len(r) : r[i] = h[Len(h) - Len(r) + i]
<1> DEFINE m == Len(h) - Len(r) + 1
           q == SubSeq(h, m, Len(h))
<1>1. Len(h) \in Nat /\ Len(r) \in Nat /\ m \in Nat \ {0} /\ \A i \in 1..Len(h) : h[i] \in S
    OBVIOUS
<1>2. \A i \in m..Len(h) : h[i] \in S
    BY <1>1
<1>3. /\ q \in Seq(S) /\ Len(q) = (IF m <= Len(h) THEN Len(h) - m + 1 ELSE 0)
      /\ \A i \in 1..Len(h) - m + 1 : q[i] = h[m + i - 1]
    BY <1>1, <1>2, SubSeqProperties
<1>4. Len(q) = Len(r) /\ \A i \in 1..Len(r) : q[i] = h[Len(h) - Len(r) + i]
    <2>1. Len(q) = Len(r) /\ Len(h) - m + 1 = Len(r)
        BY <1>1, <1>3
    <2>2. \A i \in 1..Len(r) : m + i - 1 = Len(h) - Len(r) + i
        BY <1>1
    <2> QED
        BY <1>3, <2>1, <2>2
<1> HIDE DEF q
<1>5. (\A i \in 1..Len(r) : r[i] = h[Len(h) - Len(r) + i]) => r = q
    BY <1>3, <1>4, SeqEqual
<1>6. r = q => \A i \in 1..Len(r) : r[i] = h[Len(h) - Len(r) + i]
    BY <1>4
<1> QED
    BY <1>5, <1>6 DEF q

\* Places in a sequence that grew by one, seen from the end.
LEMMA Shifts ==
    ASSUME NEW a \in Nat, NEW b \in Nat, a <= b
    PROVE  /\ \A i \in 1..a : b - a + i = (b + 1) - (a + 1) + i /\ b - a + i \in 1..b
           /\ \A i \in 1..a - 1 : /\ i + 1 \in 1..a /\ b - a + (i + 1) = (b + 1) - a + i
                                 /\ b - a + (i + 1) \in 1..b
           /\ (b + 1) - (a + 1) + (a + 1) = b + 1 /\ (b + 1) - a + a = b + 1
    OBVIOUS

\* What a trace makes of the ring.
Pushed(ring, t, capacity) == IF Len(ring) = capacity THEN Append(Tail(ring), t) ELSE Append(ring, t)

Ends(ring, log) == ring = SubSeq(log, Len(log) - Len(ring) + 1, Len(log))

\* The ring stays the end of what was logged.
LEMMA RingMoves ==
    ASSUME NEW S, NEW r \in Seq(S), NEW h \in Seq(S), NEW t \in S, NEW K \in Nat \ {0},
           Len(r) <= K, Len(r) <= Len(h), Ends(r, h)
    PROVE  /\ Pushed(r, t, K) \in Seq(S) /\ Len(Pushed(r, t, K)) = (IF Len(r) = K THEN K ELSE Len(r) + 1)
           /\ Append(h, t) \in Seq(S) /\ Len(Append(h, t)) = Len(h) + 1
           /\ Ends(Pushed(r, t, K), Append(h, t))
<1> DEFINE r2 == Pushed(r, t, K)
           h2 == Append(h, t)
<1>0. r2 = (IF Len(r) = K THEN Append(Tail(r), t) ELSE Append(r, t)) /\ h2 = Append(h, t)
    BY DEF Pushed
<1> HIDE DEF r2, h2
<1>1. Len(h) \in Nat /\ Len(r) \in Nat
    OBVIOUS
<1>2. \A i \in 1..Len(r) : r[i] = h[Len(h) - Len(r) + i]
    BY SuffixIs DEF Ends
<1>3. /\ h2 \in Seq(S) /\ Len(h2) = Len(h) + 1 /\ h2[Len(h) + 1] = t
      /\ \A i \in 1..Len(h) : h2[i] = h[i]
    BY <1>0, AppendProperties
<1>4. /\ r2 \in Seq(S) /\ Len(r2) = (IF Len(r) = K THEN K ELSE Len(r) + 1)
      /\ \A i \in 1..Len(r2) : r2[i] = h2[Len(h2) - Len(r2) + i]
    <2>1. CASE Len(r) = K
        <3>1. r # <<>>
            BY <2>1
        <3>2. Tail(r) \in Seq(S) /\ Len(Tail(r)) = K - 1 /\ \A i \in 1..K - 1 : Tail(r)[i] = r[i + 1]
            BY <2>1, <3>1, HeadTailProperties
        <3>3. /\ r2 \in Seq(S) /\ Len(r2) = K /\ r2[K] = t
              /\ \A i \in 1..K - 1 : r2[i] = r[i + 1]
            BY <1>0, <2>1, <3>2, AppendProperties
        <3>4. ASSUME NEW i \in 1..K - 1
              PROVE  r2[i] = h2[Len(h2) - Len(r2) + i]
            <4>1. /\ i + 1 \in 1..Len(r) /\ Len(h) - K + (i + 1) = (Len(h) + 1) - K + i
                  /\ Len(h) - K + (i + 1) \in 1..Len(h)
                BY <1>1, <2>1, Shifts
            <4>2. r[i + 1] = h[Len(h) - K + (i + 1)] /\ Len(h2) - Len(r2) + i = (Len(h) + 1) - K + i
                BY <1>2, <1>3, <2>1, <3>3, <4>1
            <4> QED
                BY <1>3, <3>3, <4>1, <4>2
        <3>5. Len(h2) - Len(r2) + K = Len(h) + 1
            <4>1. (Len(h) + 1) - Len(r) + Len(r) = Len(h) + 1
                BY <1>1, Shifts
            <4> QED
                BY <1>3, <2>1, <3>3, <4>1
        <3>6. \A i \in 1..K : i \in 1..K - 1 \/ i = K
            OBVIOUS
        <3> QED
            BY <1>3, <2>1, <3>3, <3>4, <3>5, <3>6
    <2>2. CASE Len(r) # K
        <3>1. /\ r2 \in Seq(S) /\ Len(r2) = Len(r) + 1 /\ r2[Len(r) + 1] = t
              /\ \A i \in 1..Len(r) : r2[i] = r[i]
            BY <1>0, <2>2, AppendProperties
        <3>2. ASSUME NEW i \in 1..Len(r)
              PROVE  r2[i] = h2[Len(h2) - Len(r2) + i]
            <4>1. /\ Len(h) - Len(r) + i = (Len(h) + 1) - (Len(r) + 1) + i
                  /\ Len(h) - Len(r) + i \in 1..Len(h)
                BY <1>1, Shifts
            <4>2. Len(h2) - Len(r2) + i = (Len(h) + 1) - (Len(r) + 1) + i
                BY <1>3, <3>1
            <4> QED
                BY <1>2, <1>3, <3>1, <4>1, <4>2
        <3>3. Len(h2) - Len(r2) + (Len(r) + 1) = Len(h) + 1
            <4>1. (Len(h) + 1) - (Len(r) + 1) + (Len(r) + 1) = Len(h) + 1
                BY <1>1, Shifts
            <4> QED
                BY <1>3, <3>1, <4>1
        <3>4. \A i \in 1..Len(r) + 1 : i \in 1..Len(r) \/ i = Len(r) + 1
            BY <1>1
        <3> QED
            BY <1>3, <2>2, <3>1, <3>2, <3>3, <3>4
    <2> QED
        BY <2>1, <2>2
<1>5. Len(r2) <= Len(h2)
    BY <1>1, <1>3, <1>4
<1> QED
    <2>1. Ends(r2, h2)
        BY <1>3, <1>4, <1>5, SuffixIs DEF Ends
    <2> QED
        BY <1>3, <1>4, <2>1 DEF r2, h2

\* The parts of the invariant look at some variables only.
LEMMA TelemetryStill ==
    /\ RingInv /\ UNCHANGED Telemetry!ringVars => RingInv'
    /\ FileInv /\ UNCHANGED Telemetry!fileVars /\ UNCHANGED persistedTraceCount => FileInv'
    /\ UNCHANGED pending => Busy' = Busy
    BY DEF RingInv, Telemetry!RingAgrees, Telemetry!ringVars, FileInv, Telemetry!fileVars, Busy

\* A process begins, or ends in a crash, with nothing in memory.
LEMMA FreshKeeps ==
    ASSUME Telemetry!TelemetryAssumption, Telemetry!Fresh, logged \in 0..MaxLogged, UNCHANGED <<logged, disk>>,
           disk \in [Telemetry!FileIndexes -> Seq(Telemetry!Trace)],
           session' \in 0..MaxSessions, persistenceEnabled' \in BOOLEAN,
           \/ process' = "up" /\ writer' = (IF persistenceEnabled' THEN "waiting" ELSE "none")
           \/ process' = "down" /\ writer' = "none" /\ ~persistenceEnabled'
    PROVE  TelemetryInv'
<1> USE DEF Telemetry!Fresh
<1>1. {KMaxTraces, KMaxPersistenceQueue} \subseteq Nat
    BY DEF Telemetry!TelemetryAssumption
<1>2. Busy' = {} /\ IsFiniteSet(Busy') /\ Cardinality(Busy') = 0
    BY FS_EmptySet DEF Busy
<1>3. RingInv'
    <2>1. Telemetry!RingAgrees'
        <3>1. <<>> = SubSeq(<<>>, 0 - 0 + 1, 0)
            OBVIOUS
        <3>2. Len(<<>>) = 0
            OBVIOUS
        <3> QED
            BY <3>1, <3>2 DEF Telemetry!RingAgrees
    <2>2. totals' \in [executions : Nat, successes : Nat, failures : Nat]
        OBVIOUS
    <2>3. adapterAggregates' \in [TraceAdapters -> [executions : Nat, successes : Nat]]
        OBVIOUS
    <2>4. logged' \in 0..MaxLogged /\ logged' \in Nat
        OBVIOUS
    <2>5. traces' \in Seq(Telemetry!Trace) /\ history' \in Seq(Telemetry!Trace) /\ Len(traces') = 0 /\ Len(history') = 0
        OBVIOUS
    <2>6. traceBufferWrapped' \in BOOLEAN
        OBVIOUS
    <2>7. Len(traces') <= KMaxTraces /\ Len(traces') <= Len(history') /\ Len(history') <= logged'
        BY <1>1, <2>4, <2>5
    <2> QED
        BY <2>1, <2>2, <2>3, <2>4, <2>5, <2>6, <2>7 DEF RingInv
<1>4. QueueInv'
    <2>1. Accounted'
        BY <1>2 DEF Accounted, Held
    <2> QED
        BY <1>1, <1>2, <2>1 DEF QueueInv
<1>5. WriterInv'
    BY <1>2 DEF WriterInv, Telemetry!NoTotal
<1>6. FileInv'
    BY DEF FileInv
<1> QED
    BY <1>3, <1>4, <1>5, <1>6 DEF TelemetryInv

LEMMA TelemetryStarts == Telemetry!TelemetryAssumption /\ Telemetry!Init => TelemetryInv
<1> SUFFICES ASSUME Telemetry!TelemetryAssumption, Telemetry!Init PROVE TelemetryInv
    OBVIOUS
<1> USE DEF Telemetry!Init
<1>1. {KMaxTraces, KMaxPersistenceQueue} \subseteq Nat /\ MaxLogged \in Nat /\ MaxSessions \in Nat
    BY DEF Telemetry!TelemetryAssumption
<1>2. Busy = {} /\ IsFiniteSet(Busy) /\ Cardinality(Busy) = 0
    BY FS_EmptySet DEF Busy
<1>3. RingInv
    <2>1. Telemetry!RingAgrees
        <3>1. <<>> = SubSeq(<<>>, 0 - 0 + 1, 0)
            OBVIOUS
        <3>2. Len(<<>>) = 0
            OBVIOUS
        <3> QED
            BY <3>1, <3>2 DEF Telemetry!RingAgrees
    <2>2. totals \in [executions : Nat, successes : Nat, failures : Nat]
        OBVIOUS
    <2>3. adapterAggregates \in [TraceAdapters -> [executions : Nat, successes : Nat]]
        OBVIOUS
    <2>4. traces \in Seq(Telemetry!Trace) /\ history \in Seq(Telemetry!Trace) /\ Len(traces) = 0 /\ Len(history) = 0
        OBVIOUS
    <2>5. traceBufferWrapped \in BOOLEAN /\ logged = 0
        OBVIOUS
    <2> QED
        BY <1>1, <2>1, <2>2, <2>3, <2>4, <2>5 DEF RingInv
<1>4. QueueInv
    BY <1>1, <1>2 DEF QueueInv
<1>5. WriterInv
    <2>1. session \in 0..MaxSessions /\ snapshotTotal \in Nat \cup {Telemetry!NoTotal}
        BY <1>1 DEF Telemetry!NoTotal
    <2>2. snapshotTotal <= totals.executions
        BY DEF Telemetry!NoTotal
    <2> QED
        BY <1>2, <2>1, <2>2 DEF WriterInv
<1>6. FileInv
    BY DEF FileInv, Telemetry!NoFiles
<1> QED
    BY <1>3, <1>4, <1>5, <1>6 DEF TelemetryInv

\* A thread that logs counts the trace before it queues it; the trace waits in the thread's hands.
LEMMA LogKeeps ==
    ASSUME Telemetry!TelemetryAssumption, TelemetryInv, NEW l \in Loggers, NEW kind \in TraceKinds,
           Telemetry!LogExecution(l, kind)
    PROVE  TelemetryInv'
<1> DEFINE t == [kind |-> kind, id |-> logged + 1, session |-> session]
<1>1. RingInv /\ QueueInv /\ WriterInv /\ FileInv
    BY DEF TelemetryInv
<1>2. /\ process = "up" /\ pending[l] = Telemetry!NoTrace /\ logged < MaxLogged /\ logged' = logged + 1
      /\ Telemetry!Ring(t) /\ history' = Append(history, t) /\ Telemetry!Counted(kind)
      /\ pending' = [pending EXCEPT ![l] = IF persistenceEnabled THEN t ELSE Telemetry!NoTrace]
    BY DEF Telemetry!LogExecution
<1>3. /\ UNCHANGED Telemetry!fileVars /\ UNCHANGED <<persistenceQueue, persistedTraceCount, droppedPersistenceCount>>
      /\ UNCHANGED <<process, session, persistenceEnabled>> /\ UNCHANGED <<snapshotTotal, writer, inHand>>
    BY DEF Telemetry!LogExecution, Telemetry!queueVars, Telemetry!processVars
<1>4. t \in Telemetry!Trace /\ t.id # 0 /\ t \in Logged
    BY <1>1 DEF RingInv, WriterInv, Telemetry!Trace, Logged
<1> HIDE DEF t
<1>5. /\ totals.executions \in Nat /\ totals.successes \in Nat /\ totals.failures \in Nat
      /\ totals'.executions = totals.executions + 1
      /\ totals' \in [executions : Nat, successes : Nat, failures : Nat]
      /\ totals'.successes + totals'.failures = totals.successes + totals.failures + 1
    <2>1. totals.executions \in Nat /\ totals.successes \in Nat /\ totals.failures \in Nat
        BY <1>1 DEF RingInv
    <2> QED
        BY <1>2, <2>1 DEF Telemetry!Counted
<1>6. adapterAggregates' \in [TraceAdapters -> [executions : Nat, successes : Nat]]
    <2> DEFINE a == adapterAggregates[kind.adapter]
               b == [a EXCEPT !.executions = @ + 1]
               n == IF kind.success THEN 1 ELSE 0
    <2>1. n \in Nat
        OBVIOUS
    <2> HIDE DEF n
    <2>2. adapterAggregates \in [TraceAdapters -> [executions : Nat, successes : Nat]]
        BY <1>1 DEF RingInv
    <2>3. kind.adapter \in TraceAdapters
        BY DEF Telemetry!TelemetryAssumption
    <2>4. b \in [executions : Nat, successes : Nat]
        BY <2>2, <2>3
    <2>5. adapterAggregates' = [adapterAggregates EXCEPT ![kind.adapter] = [b EXCEPT !.successes = @ + n]]
        BY <1>2, <2>2, <2>3 DEF Telemetry!Counted, n
    <2> HIDE DEF b
    <2>6. [b EXCEPT !.successes = @ + n] \in [executions : Nat, successes : Nat]
        BY <2>1, <2>4
    <2> QED
        BY <2>2, <2>5, <2>6
<1>7. /\ traces \in Seq(Telemetry!Trace) /\ history \in Seq(Telemetry!Trace) /\ KMaxTraces \in Nat \ {0}
      /\ Len(traces) <= KMaxTraces /\ Len(traces) <= Len(history)
      /\ Len(traces) \in Nat /\ Len(history) \in Nat
      /\ traces = SubSeq(history, Len(history) - Len(traces) + 1, Len(history))
    BY <1>1 DEF RingInv, Telemetry!RingAgrees, Telemetry!TelemetryAssumption
<1>8. traces' = Pushed(traces, t, KMaxTraces) /\ history' = Append(history, t) /\ t \in Telemetry!Trace
    BY <1>2, <1>4 DEF Telemetry!Ring, Pushed
<1>9. /\ traces' \in Seq(Telemetry!Trace)
      /\ Len(traces') = (IF Len(traces) = KMaxTraces THEN KMaxTraces ELSE Len(traces) + 1)
      /\ history' \in Seq(Telemetry!Trace) /\ Len(history') = Len(history) + 1
      /\ traces' = SubSeq(history', Len(history') - Len(traces') + 1, Len(history'))
    <2>1. /\ traces' \in Seq(Telemetry!Trace)
          /\ Len(traces') = (IF Len(traces) = KMaxTraces THEN KMaxTraces ELSE Len(traces) + 1)
          /\ history' \in Seq(Telemetry!Trace) /\ Len(history') = Len(history) + 1
          /\ Ends(traces', history')
        <3>1. Ends(traces, history)
            BY <1>7 DEF Ends
        <3>2. /\ traces \in Seq(Telemetry!Trace) /\ history \in Seq(Telemetry!Trace)
              /\ KMaxTraces \in Nat \ {0} /\ Len(traces) <= KMaxTraces /\ Len(traces) <= Len(history)
            BY <1>7
        <3> QED
            BY <1>8, <3>1, <3>2, RingMoves
    <2> QED
        BY <2>1 DEF Ends
<1>10. /\ traceBufferWrapped' \in BOOLEAN
       /\ traceBufferWrapped' <=> Len(history') > Len(traces')
       /\ traceBufferWrapped' => Len(traces') = KMaxTraces
    <2>1. /\ traceBufferWrapped \in BOOLEAN /\ traceBufferWrapped' = (traceBufferWrapped \/ Len(traces) = KMaxTraces)
          /\ traceBufferWrapped <=> Len(history) > Len(traces)
          /\ traceBufferWrapped => Len(traces) = KMaxTraces
        BY <1>1, <1>2 DEF RingInv, Telemetry!RingAgrees, Telemetry!Ring
    <2>2. Len(traces) = KMaxTraces => Len(history') > Len(traces') /\ Len(traces') = KMaxTraces
        BY <1>7, <1>9
    <2>3. Len(traces) # KMaxTraces => (Len(history') > Len(traces') <=> Len(history) > Len(traces))
        BY <1>7, <1>9
    <2> QED
        BY <2>1, <2>2, <2>3, Zenon
<1>11. RingInv'
    <2>1. totals.executions = Len(history) /\ totals.successes + totals.failures = totals.executions
        BY <1>1 DEF RingInv, Telemetry!RingAgrees
    <2>2. Telemetry!RingAgrees'
        BY <1>5, <1>9, <1>10, <2>1 DEF Telemetry!RingAgrees
    <2>3. logged' \in 0..MaxLogged /\ Len(history') <= logged'
        BY <1>1, <1>2, <1>7, <1>9 DEF RingInv, Telemetry!TelemetryAssumption
    <2>4. Len(traces') <= KMaxTraces /\ Len(traces') <= Len(history')
        <3>1. /\ Len(traces') = (IF Len(traces) = KMaxTraces THEN KMaxTraces ELSE Len(traces) + 1)
              /\ Len(history') = Len(history) + 1
            BY <1>9
        <3>2. /\ KMaxTraces \in Nat /\ Len(traces) \in Nat /\ Len(history) \in Nat
              /\ Len(traces) <= KMaxTraces /\ Len(traces) <= Len(history)
            BY <1>7
        <3> QED
            BY <3>1, <3>2
    <2> QED
        BY <1>5, <1>6, <1>9, <1>10, <2>2, <2>3, <2>4 DEF RingInv
<1>12. /\ pending' \in [Loggers -> Logged \cup {Telemetry!NoTrace}]
       /\ persistenceEnabled => Busy' = Busy \cup {l} /\ l \notin Busy
       /\ ~persistenceEnabled => Busy' = {}
    <2>1. pending \in [Loggers -> Logged \cup {Telemetry!NoTrace}] /\ (~persistenceEnabled => Busy = {})
        BY <1>1 DEF QueueInv
    <2>2. t # Telemetry!NoTrace
        BY <1>4, NoTraceFacts
    <2> QED
        BY <1>2, <1>4, <2>1, <2>2 DEF Busy
<1>13. /\ IsFiniteSet(Busy') /\ Cardinality(Busy) \in Nat
       /\ persistenceEnabled => Cardinality(Busy') = Cardinality(Busy) + 1
    <2>1. IsFiniteSet(Busy) /\ Cardinality(Busy) \in Nat
        BY <1>1, FS_CardinalityType DEF QueueInv
    <2>2. CASE persistenceEnabled
        <3>1. /\ IsFiniteSet(Busy \cup {l})
              /\ Cardinality(Busy \cup {l}) = IF l \in Busy THEN Cardinality(Busy) ELSE Cardinality(Busy) + 1
            BY <2>1, FS_AddElement
        <3> QED
            BY <1>12, <2>1, <2>2, <3>1
    <2>3. CASE ~persistenceEnabled
        BY <1>12, <2>1, <2>3, FS_EmptySet
    <2> QED
        BY <2>2, <2>3
<1>14. QueueInv'
    <2>1. /\ persistedTraceCount \in Nat /\ droppedPersistenceCount \in Nat
          /\ Len(persistenceQueue) \in Nat /\ persistedTraceCount <= totals.executions
        BY <1>1 DEF QueueInv
    <2>2. Held \in Nat /\ Held' = Held
        BY <1>3 DEF Held
    <2>3. persistenceEnabled /\ Accounted => Accounted'
        <3> SUFFICES ASSUME persistenceEnabled, Accounted PROVE Accounted'
            OBVIOUS
        <3>1. Cardinality(Busy') = Cardinality(Busy) + 1
            BY <1>13
        <3> QED
            BY <1>3, <1>5, <1>13, <2>1, <2>2, <3>1 DEF Accounted
    <2>4. persistedTraceCount' <= totals'.executions
        BY <1>3, <1>5, <2>1
    <2> QED
        BY <1>1, <1>3, <1>12, <1>13, <2>3, <2>4 DEF QueueInv
<1>15. WriterInv'
    BY <1>1, <1>2, <1>3, <1>5 DEF WriterInv, Telemetry!NoTotal
<1> QED
    BY <1>1, <1>3, <1>11, <1>14, <1>15, TelemetryStill DEF TelemetryInv

LEMMA Moved ==
    \A p, d, q, c, h, e, f \in Nat : e + f = d + q + 1 => p + d + q + c + h = p + e + f + (c - 1) + h
    OBVIOUS

\* The trace goes from the thread's hands to the queue, or is counted as dropped.
LEMMA EnqueueKeeps ==
    ASSUME Telemetry!TelemetryAssumption, TelemetryInv, NEW l \in Loggers, Telemetry!EnqueuePersistence(l)
    PROVE  TelemetryInv'
<1>1. RingInv /\ QueueInv /\ WriterInv /\ FileInv
    BY DEF TelemetryInv
<1>2. /\ process = "up" /\ pending[l] # Telemetry!NoTrace /\ Telemetry!QueueOrDrop(pending[l])
      /\ pending' = [pending EXCEPT ![l] = Telemetry!NoTrace]
    BY DEF Telemetry!EnqueuePersistence
<1>3. /\ UNCHANGED Telemetry!ringVars /\ UNCHANGED Telemetry!fileVars /\ UNCHANGED persistedTraceCount
      /\ UNCHANGED <<process, session, persistenceEnabled>> /\ UNCHANGED <<snapshotTotal, writer, inHand>>
      /\ UNCHANGED totals
    BY DEF Telemetry!EnqueuePersistence, Telemetry!processVars, Telemetry!ringVars
<1>4. /\ l \in Busy /\ Busy' = Busy \ {l} /\ pending[l] \in Logged
      /\ pending' \in [Loggers -> Logged \cup {Telemetry!NoTrace}]
    <2>1. pending \in [Loggers -> Logged \cup {Telemetry!NoTrace}]
        BY <1>1 DEF QueueInv
    <2> QED
        BY <1>2, <2>1 DEF Busy
<1>5. persistenceEnabled /\ writer # "none"
    BY <1>1, <1>2, <1>4 DEF QueueInv, WriterInv
<1>6. IsFiniteSet(Busy') /\ Cardinality(Busy') = Cardinality(Busy) - 1 /\ Cardinality(Busy) \in Nat
    <2>1. IsFiniteSet(Busy)
        BY <1>1 DEF QueueInv
    <2> QED
        BY <1>4, <2>1, FS_RemoveElement, FS_CardinalityType
<1>7. /\ persistenceQueue \in Seq(Logged) /\ Len(persistenceQueue) \in Nat
      /\ Len(persistenceQueue) <= KMaxPersistenceQueue /\ KMaxPersistenceQueue \in Nat
      /\ droppedPersistenceCount \in Nat
    BY <1>1 DEF QueueInv, Telemetry!TelemetryAssumption
<1>8. /\ persistenceQueue' \in Seq(Logged) /\ Len(persistenceQueue') <= KMaxPersistenceQueue
      /\ droppedPersistenceCount' \in Nat /\ Len(persistenceQueue') \in Nat
      /\ droppedPersistenceCount' + Len(persistenceQueue') = droppedPersistenceCount + Len(persistenceQueue) + 1
    <2>1. CASE Len(persistenceQueue) >= KMaxPersistenceQueue
        BY <1>2, <1>7, <2>1 DEF Telemetry!QueueOrDrop
    <2>2. CASE ~ (Len(persistenceQueue) >= KMaxPersistenceQueue)
        <3>1. /\ persistenceQueue' = Append(persistenceQueue, pending[l])
              /\ droppedPersistenceCount' = droppedPersistenceCount
            BY <1>2, <2>2 DEF Telemetry!QueueOrDrop
        <3>2. persistenceQueue' \in Seq(Logged) /\ Len(persistenceQueue') = Len(persistenceQueue) + 1
            BY <1>4, <1>7, <3>1, AppendProperties
        <3> QED
            BY <1>7, <2>2, <3>1, <3>2
    <2> QED
        BY <2>1, <2>2
<1>9. QueueInv'
    <2>1. Accounted /\ persistedTraceCount \in Nat
        BY <1>1, <1>5 DEF QueueInv
    <2>2. Held \in Nat /\ Held' = Held
        BY <1>3 DEF Held
    <2>3. /\ totals' = totals /\ persistedTraceCount' = persistedTraceCount
          /\ Cardinality(Busy') = Cardinality(Busy) - 1
        BY <1>3, <1>6
    <2>4. Accounted'
        <3>1. /\ droppedPersistenceCount \in Nat /\ Len(persistenceQueue) \in Nat /\ Cardinality(Busy) \in Nat
              /\ droppedPersistenceCount' \in Nat /\ Len(persistenceQueue') \in Nat
              /\ persistedTraceCount \in Nat /\ Held \in Nat
            BY <1>6, <1>7, <1>8, <2>1, <2>2
        <3>2. persistedTraceCount + droppedPersistenceCount + Len(persistenceQueue) + Cardinality(Busy) + Held =
              persistedTraceCount + droppedPersistenceCount' + Len(persistenceQueue') + (Cardinality(Busy) - 1) + Held
            BY <1>8, <3>1, Moved, SMTT(60)
        <3>3. totals.executions =
              persistedTraceCount + droppedPersistenceCount + Len(persistenceQueue) + Cardinality(Busy) + Held
            BY <2>1 DEF Accounted
        <3> QED
            BY <2>2, <2>3, <3>2, <3>3 DEF Accounted
    <2> QED
        BY <1>1, <1>3, <1>4, <1>5, <1>6, <1>8, <2>4 DEF QueueInv
<1>10. WriterInv'
    BY <1>1, <1>2, <1>3, <1>5 DEF WriterInv
<1> QED
    BY <1>1, <1>3, <1>9, <1>10, TelemetryStill DEF TelemetryInv

\* The thread takes the first trace of the queue.
LEMMA TakeKeeps ==
    ASSUME TelemetryInv, Telemetry!TakeTrace
    PROVE  TelemetryInv'
<1>1. RingInv /\ QueueInv /\ WriterInv /\ FileInv
    BY DEF TelemetryInv
<1>2. /\ writer = "waiting" /\ persistenceQueue # <<>> /\ writer' = "writing"
      /\ inHand' = Head(persistenceQueue) /\ persistenceQueue' = Tail(persistenceQueue)
      /\ UNCHANGED <<persistedTraceCount, droppedPersistenceCount, pending, snapshotTotal>>
      /\ UNCHANGED Telemetry!ringVars /\ UNCHANGED Telemetry!fileVars
      /\ UNCHANGED <<process, session, persistenceEnabled, totals>>
    BY DEF Telemetry!TakeTrace, Telemetry!processVars, Telemetry!ringVars
<1>3. persistenceEnabled /\ inHand = Telemetry!NoTrace /\ persistenceQueue \in Seq(Logged)
    BY <1>1, <1>2 DEF QueueInv, WriterInv
<1>4. /\ inHand' \in Logged /\ persistenceQueue' \in Seq(Logged) /\ Len(persistenceQueue) \in Nat
      /\ Len(persistenceQueue') = Len(persistenceQueue) - 1 /\ Len(persistenceQueue) > 0
    BY <1>2, <1>3, HeadTailProperties
<1>5. Busy' = Busy
    BY <1>2, TelemetryStill
<1>6. QueueInv'
    <2>1. /\ Accounted /\ Held = 0
          /\ persistedTraceCount \in Nat /\ droppedPersistenceCount \in Nat /\ IsFiniteSet(Busy)
        BY <1>1, <1>3 DEF QueueInv, Held
    <2>2. Cardinality(Busy) \in Nat
        BY <2>1, FS_CardinalityType
    <2>3. Held' = 1
        BY <1>4, NoTraceFacts DEF Held
    <2>4. Accounted'
        BY <1>2, <1>4, <1>5, <2>1, <2>2, <2>3 DEF Accounted
    <2>5. KMaxPersistenceQueue \in Nat
        BY BoundsAssumption DEF Telemetry!TelemetryAssumption
    <2>6. Len(persistenceQueue') <= KMaxPersistenceQueue
        BY <1>1, <1>4, <2>5 DEF QueueInv
    <2> QED
        BY <1>1, <1>2, <1>3, <1>4, <1>5, <2>4, <2>6 DEF QueueInv
<1>7. WriterInv'
    <2>1. inHand' # Telemetry!NoTrace
        BY <1>4, NoTraceFacts
    <2> QED
        BY <1>1, <1>2, <1>5, <2>1 DEF WriterInv
<1> QED
    BY <1>1, <1>2, <1>6, <1>7, TelemetryStill DEF TelemetryInv

\* A line that was written, or could not be, leaves the thread's hands and is counted; a file is
\* begun only behind one that holds a line, so their numbers do not run ahead of the lines.
LEMMA PersistKeeps ==
    ASSUME Telemetry!TelemetryAssumption, TelemetryInv, Telemetry!PersistTraceLine \/ Telemetry!NoDirectory
    PROVE  TelemetryInv'
<1>1. RingInv /\ QueueInv /\ WriterInv /\ FileInv
    BY DEF TelemetryInv
<1>2. /\ writer = "writing" /\ writer' = "waiting" /\ inHand' = Telemetry!NoTrace
      /\ UNCHANGED <<persistenceQueue, pending, snapshotTotal>> /\ UNCHANGED Telemetry!ringVars
      /\ UNCHANGED <<process, session, persistenceEnabled, totals, logged>>
    BY DEF Telemetry!PersistTraceLine, Telemetry!NoDirectory, Telemetry!processVars, Telemetry!ringVars
<1>3. /\ \/ persistedTraceCount' = persistedTraceCount + 1 /\ UNCHANGED droppedPersistenceCount
         \/ droppedPersistenceCount' = droppedPersistenceCount + 1 /\ UNCHANGED persistedTraceCount
    BY DEF Telemetry!PersistTraceLine, Telemetry!NoDirectory
<1>4. persistenceEnabled /\ inHand \in Logged /\ Held = 1 /\ Held' = 0
    BY <1>1, <1>2 DEF QueueInv, WriterInv, Held
<1>5. Busy' = Busy /\ IsFiniteSet(Busy) /\ Cardinality(Busy) \in Nat
    BY <1>1, <1>2, TelemetryStill, FS_CardinalityType DEF QueueInv
<1>6. /\ persistedTraceCount \in Nat /\ droppedPersistenceCount \in Nat /\ Len(persistenceQueue) \in Nat /\ Accounted
    BY <1>1, <1>4 DEF QueueInv
<1>7. /\ persistedTraceCount' \in Nat /\ droppedPersistenceCount' \in Nat /\ persistedTraceCount <= persistedTraceCount'
      /\ persistedTraceCount' + droppedPersistenceCount' = persistedTraceCount + droppedPersistenceCount + 1
    BY <1>3, <1>6
<1>8. persistedTraceCount + 1 <= totals.executions /\ totals.executions \in Nat /\ Accounted'
    <2>1. totals.executions =
              persistedTraceCount + droppedPersistenceCount + Len(persistenceQueue) + Cardinality(Busy) + 1
        BY <1>4, <1>6 DEF Accounted
    <2>2. totals.executions =
              persistedTraceCount' + droppedPersistenceCount' + Len(persistenceQueue) + Cardinality(Busy) + 0
        <3>1. CASE persistedTraceCount' = persistedTraceCount + 1 /\ UNCHANGED droppedPersistenceCount
            BY <1>5, <1>6, <2>1, <3>1
        <3>2. CASE droppedPersistenceCount' = droppedPersistenceCount + 1 /\ UNCHANGED persistedTraceCount
            BY <1>5, <1>6, <2>1, <3>2
        <3> QED
            BY <1>3, <3>1, <3>2
    <2>3. totals' = totals /\ persistenceQueue' = persistenceQueue /\ Busy' = Busy
        BY <1>2, <1>5
    <2>4. Accounted'
        BY <1>4, <2>2, <2>3 DEF Accounted
    <2> QED
        BY <1>5, <1>6, <2>1, <2>4
<1>9. QueueInv'
    <2>1. persistedTraceCount' <= totals'.executions
        BY <1>2, <1>3, <1>6, <1>8
    <2> QED
        BY <1>1, <1>2, <1>4, <1>5, <1>7, <1>8, <2>1 DEF QueueInv
<1>10. WriterInv'
    BY <1>1, <1>2, <1>4, <1>5 DEF WriterInv
<1>11. FileInv'
    <2> DEFINE size == inHand.kind.size
               file == Telemetry!FileAfter(size)
               files == Telemetry!Listed(file)
               bytes == Telemetry!BytesBefore(size)
    <2>1. CASE Telemetry!NoDirectory
        BY <1>1, <1>7, <2>1 DEF Telemetry!NoDirectory, FileInv, Telemetry!fileVars
    <2>2. CASE Telemetry!PersistTraceLine
        <3>1. size \in Nat \ {0} /\ inHand \in Telemetry!Trace
            BY <1>4 DEF Logged, Telemetry!Trace, Telemetry!TelemetryAssumption
        <3>2. /\ currentFileIndex \in Nat /\ currentFileBytes \in Nat /\ currentFileIndex <= persistedTraceCount
              /\ currentFileBytes > 0 => currentFileIndex < persistedTraceCount
            BY <1>1 DEF FileInv
        <3> HIDE DEF size
        <3>3. file \in Nat /\ file <= persistedTraceCount /\ bytes \in Nat
            BY <1>6, <3>1, <3>2 DEF Telemetry!FileAfter, Telemetry!BytesBefore, Telemetry!Rotates
        <3>4. bytes > 0 => file < persistedTraceCount
            BY <3>2 DEF Telemetry!FileAfter, Telemetry!BytesBefore, Telemetry!Rotates
        <3>5. file \in Telemetry!FileIndexes
            <4>1. totals.executions = Len(history) /\ Len(history) <= logged /\ logged \in 0..MaxLogged
                BY <1>1 DEF RingInv, Telemetry!RingAgrees
            <4>2. MaxLogged \in Nat
                BY DEF Telemetry!TelemetryAssumption
            <4> QED
                BY <1>6, <1>8, <3>3, <4>1, <4>2 DEF Telemetry!FileIndexes
        <3> HIDE DEF file, bytes
        <3>6. files \in Seq(Telemetry!FileIndexes)
            <4>1. persistedFiles \in Seq(Telemetry!FileIndexes)
                BY <1>1 DEF FileInv
            <4> QED
                BY <3>5, <4>1, AppendProperties DEF Telemetry!Listed
        <3> HIDE DEF files
        <3>7. Telemetry!Kept(files) \in Seq(Telemetry!FileIndexes)
            <4> DEFINE m == Len(files) - KMaxPersistedFiles + 1
            <4>1. KMaxPersistedFiles \in Nat \ {0} /\ Len(files) \in Nat
                BY <3>6 DEF Telemetry!TelemetryAssumption
            <4>2. CASE Len(files) > KMaxPersistedFiles
                <5>1. m \in Nat \ {0} /\ \A i \in m..Len(files) : files[i] \in Telemetry!FileIndexes
                    BY <3>6, <4>1, <4>2
                <5>2. SubSeq(files, m, Len(files)) \in Seq(Telemetry!FileIndexes)
                    BY <4>1, <5>1, SubSeqProperties
                <5> QED
                    BY <4>2, <5>2 DEF Telemetry!Kept
            <4>3. CASE ~ (Len(files) > KMaxPersistedFiles)
                BY <3>6, <4>3 DEF Telemetry!Kept
            <4> QED
                BY <4>2, <4>3
        <3> DEFINE cleaned == [i \in Telemetry!FileIndexes |-> IF i \in Telemetry!Removed(files) THEN <<>> ELSE disk[i]]
        <3>8. cleaned \in [Telemetry!FileIndexes -> Seq(Telemetry!Trace)]
            BY <1>1 DEF FileInv
        <3> HIDE DEF cleaned
        <3>9. /\ currentFileIndex' = file /\ persistedFiles' = Telemetry!Kept(files)
              /\ \/ /\ disk' = [cleaned EXCEPT ![file] = Append(@, inHand)]
                    /\ currentFileBytes' = bytes + size /\ persistedTraceCount' = persistedTraceCount + 1
                 \/ disk' = cleaned /\ currentFileBytes' = bytes /\ persistedTraceCount' = persistedTraceCount
            BY <2>2 DEF Telemetry!PersistTraceLine, size, file, files, bytes, cleaned
        <3>10. disk' \in [Telemetry!FileIndexes -> Seq(Telemetry!Trace)]
            <4>1. Append(cleaned[file], inHand) \in Seq(Telemetry!Trace)
                BY <3>1, <3>5, <3>8, AppendProperties
            <4> QED
                BY <3>8, <3>9, <4>1
        <3>11. /\ currentFileIndex' \in Nat /\ currentFileBytes' \in Nat /\ currentFileIndex' <= persistedTraceCount'
               /\ currentFileBytes' > 0 => currentFileIndex' < persistedTraceCount'
            BY <1>6, <3>1, <3>3, <3>4, <3>9
        <3> QED
            BY <3>7, <3>9, <3>10, <3>11 DEF FileInv
    <2> QED
        BY <2>1, <2>2
<1> QED
    BY <1>1, <1>2, <1>9, <1>10, <1>11, TelemetryStill DEF TelemetryInv

LEMMA TelemetrySteps ==
    ASSUME Telemetry!TelemetryAssumption, TelemetryInv, [Telemetry!Next]_Telemetry!vars
    PROVE  TelemetryInv'
<1>1. RingInv /\ QueueInv /\ WriterInv /\ FileInv
    BY DEF TelemetryInv
<1>2. /\ disk \in [Telemetry!FileIndexes -> Seq(Telemetry!Trace)] /\ logged \in 0..MaxLogged
      /\ session \in 0..MaxSessions /\ MaxSessions \in Nat
    BY <1>1 DEF FileInv, RingInv, WriterInv, Telemetry!TelemetryAssumption
<1>3. CASE Telemetry!Construct
    <2>1. session' \in 0..MaxSessions
        BY <1>2, <1>3 DEF Telemetry!Construct
    <2> QED
        BY <1>2, <1>3, <2>1, FreshKeeps DEF Telemetry!Construct
<1>4. CASE Telemetry!Crash
    BY <1>2, <1>4, FreshKeeps DEF Telemetry!Crash
<1>5. ASSUME UNCHANGED Telemetry!ringVars, UNCHANGED Telemetry!fileVars, UNCHANGED Telemetry!queueVars,
             UNCHANGED <<pending, persistenceEnabled, inHand>>, (writer' = writer \/ writer' = "none"), WriterInv'
      PROVE  TelemetryInv'
    <2>1. Busy' = Busy /\ UNCHANGED <<persistenceQueue, persistedTraceCount, droppedPersistenceCount, totals>>
        BY <1>5, TelemetryStill DEF Telemetry!queueVars, Telemetry!ringVars
    <2>2. Accounted' = Accounted
        BY <1>5, <2>1 DEF Accounted, Held
    <2>3. QueueInv'
        BY <1>1, <1>5, <2>1, <2>2 DEF QueueInv
    <2> QED
        BY <1>1, <1>5, <2>1, <2>3, TelemetryStill DEF TelemetryInv
<1>6. UNCHANGED pending => Busy' = Busy
    BY TelemetryStill
<1>7. CASE Telemetry!StopPersistenceWorker
    <2>1. Busy = {}
        BY <1>7 DEF Telemetry!StopPersistenceWorker, Busy
    <2>2. WriterInv'
        BY <1>1, <1>6, <1>7, <2>1
           DEF Telemetry!StopPersistenceWorker, WriterInv, Telemetry!queueVars, Telemetry!ringVars
    <2> QED
        BY <1>5, <1>7, <2>2 DEF Telemetry!StopPersistenceWorker
<1>8. CASE Telemetry!Destructed
    <2>1. WriterInv'
        BY <1>1, <1>6, <1>8 DEF Telemetry!Destructed, WriterInv, Telemetry!queueVars, Telemetry!ringVars
    <2> QED
        BY <1>5, <1>8, <2>1 DEF Telemetry!Destructed
<1>9. CASE Telemetry!PersistenceEnds
    <2>1. WriterInv'
        BY <1>1, <1>6, <1>9
           DEF Telemetry!PersistenceEnds, Telemetry!WriterStops, WriterInv, Telemetry!queueVars, Telemetry!ringVars,
               Telemetry!processVars
    <2> QED
        BY <1>5, <1>9, <2>1 DEF Telemetry!PersistenceEnds, Telemetry!WriterStops, Telemetry!processVars
<1>10. CASE Telemetry!SnapshotTotals
    <2>1. totals.executions \in Nat
        BY <1>1 DEF RingInv
    <2>2. WriterInv'
        BY <1>1, <1>6, <1>10, <2>1
           DEF Telemetry!SnapshotTotals, WriterInv, Telemetry!queueVars, Telemetry!ringVars, Telemetry!processVars
    <2> QED
        BY <1>5, <1>10, <2>2 DEF Telemetry!SnapshotTotals, Telemetry!processVars
<1>11. CASE Telemetry!SnapshotPersistence
    <2>1. totals.executions \in Nat
        BY <1>1 DEF RingInv
    <2>2. WriterInv'
        BY <1>1, <1>6, <1>11, <2>1
           DEF Telemetry!SnapshotPersistence, WriterInv, Telemetry!queueVars, Telemetry!ringVars,
               Telemetry!processVars, Telemetry!NoTotal
    <2> QED
        BY <1>5, <1>11, <2>2 DEF Telemetry!SnapshotPersistence, Telemetry!processVars
<1>12. CASE UNCHANGED Telemetry!vars
    <2>1. WriterInv'
        BY <1>1, <1>6, <1>12 DEF Telemetry!vars, WriterInv, Telemetry!queueVars, Telemetry!ringVars, Telemetry!processVars
    <2> QED
        BY <1>5, <1>12, <2>1 DEF Telemetry!vars, Telemetry!processVars
<1> QED
    BY <1>3, <1>4, <1>7, <1>8, <1>9, <1>10, <1>11, <1>12, LogKeeps, EnqueueKeeps, TakeKeeps, PersistKeeps
       DEF Telemetry!Next, Telemetry!Writer

\* What the invariant says of the telemetry that a reader sees.
LEMMA TelemetryKnows ==
    ASSUME Telemetry!TelemetryAssumption, TelemetryInv
    PROVE  /\ Telemetry!TypeOK /\ Telemetry!RingAgrees /\ Telemetry!PersistenceAccounts
           /\ Telemetry!DrainedAtStop
<1>1. RingInv /\ QueueInv /\ WriterInv /\ FileInv
    BY DEF TelemetryInv
<1>2. Telemetry!RingAgrees
    BY <1>1 DEF RingInv
<1>3. Telemetry!PersistenceAccounts
    <2>1. Telemetry!Cardinality({l \in Loggers : pending[l] # Telemetry!NoTrace}) = Cardinality(Busy)
        BY DEF Busy, Cardinality, Telemetry!Cardinality
    <2>2. persistenceEnabled => Accounted
        BY <1>1 DEF QueueInv
    <2>3. Accounted =>
              totals.executions = persistedTraceCount + droppedPersistenceCount + Len(persistenceQueue)
                + Telemetry!Cardinality({l \in Loggers : pending[l] # Telemetry!NoTrace})
                + (IF inHand = Telemetry!NoTrace THEN 0 ELSE 1)
        BY <2>1 DEF Accounted, Held
    <2> QED
        BY <2>2, <2>3 DEF Telemetry!PersistenceAccounts
<1>4. Telemetry!DrainedAtStop
    BY <1>1 DEF WriterInv, Telemetry!DrainedAtStop
<1>5. Telemetry!TypeOK
    <2>1. currentFileIndex \in Telemetry!FileIndexes
        <3>1. totals.executions = Len(history) /\ Len(history) <= logged /\ logged \in 0..MaxLogged
            BY <1>1 DEF RingInv, Telemetry!RingAgrees
        <3>2. /\ currentFileIndex \in Nat /\ currentFileIndex <= persistedTraceCount
              /\ persistedTraceCount \in Nat /\ persistedTraceCount <= totals.executions /\ MaxLogged \in Nat
            BY <1>1 DEF FileInv, QueueInv, Telemetry!TelemetryAssumption
        <3> QED
            BY <3>1, <3>2 DEF Telemetry!FileIndexes
    <2>2. Logged \subseteq Telemetry!Trace
        BY DEF Logged
    <2>3. /\ pending \in [Loggers -> Telemetry!Trace \cup {Telemetry!NoTrace}]
          /\ inHand \in Telemetry!Trace \cup {Telemetry!NoTrace}
        BY <1>1, <2>2 DEF QueueInv
    <2>4. persistenceQueue \in Seq(Telemetry!Trace)
        BY <1>1, <2>2, SeqMonotonic DEF QueueInv
    <2> QED
        BY <1>1, <2>1, <2>3, <2>4 DEF RingInv, QueueInv, WriterInv, FileInv, Telemetry!TypeOK
<1> QED
    BY <1>2, <1>3, <1>4, <1>5

\* Telemetry loses no trace between its two locks, its queue and its thread: what was logged while
\* traces are persisted is written, counted as dropped, queued or in somebody's hands; the ring is
\* the end of what was logged; and a session that ended in order left nothing in the queue
\* (Telemetry::LogExecution, EnqueuePersistence, PersistenceLoop and PersistTraceLine).
THEOREM NoTraceDisappears ==
    Spec => [](/\ Telemetry!TypeOK /\ Telemetry!RingAgrees /\ Telemetry!PersistenceAccounts
               /\ Telemetry!DrainedAtStop)
<1>1. Telemetry!TelemetryAssumption
    BY BoundsAssumption
<1>2. Telemetry!Init => TelemetryInv
    BY <1>1, TelemetryStarts
<1>3. TelemetryInv /\ [Telemetry!Next]_Telemetry!vars => TelemetryInv'
    BY <1>1, TelemetrySteps
<1>4. TelemetryInv => /\ Telemetry!TypeOK /\ Telemetry!RingAgrees /\ Telemetry!PersistenceAccounts
                      /\ Telemetry!DrainedAtStop
    BY <1>1, TelemetryKnows
<1> QED
    BY <1>2, <1>3, <1>4, TelemetryBehaves, PTL DEF Telemetry!Spec

\* The backlog that a snapshot shows, from two halves read at different times, is never more than
\* what can be under way (Telemetry::Snapshot).
THEOREM BacklogIsBounded == Spec => Telemetry!SnapshotBacklogBounded
<1>1. Telemetry!TelemetryAssumption
    BY BoundsAssumption
<1>2. Telemetry!Init => TelemetryInv
    BY <1>1, TelemetryStarts
<1>3. TelemetryInv /\ [Telemetry!Next]_Telemetry!vars => TelemetryInv'
    BY <1>1, TelemetrySteps
<1>4. TelemetryInv => [Telemetry!SnapshotPersistence /\ persistenceEnabled =>
          snapshotTotal - persistedTraceCount - droppedPersistenceCount
             <= KMaxPersistenceQueue + Telemetry!Cardinality(Loggers) + 1]_Telemetry!vars
    <2> SUFFICES ASSUME TelemetryInv, Telemetry!SnapshotPersistence, persistenceEnabled
                 PROVE  snapshotTotal - persistedTraceCount - droppedPersistenceCount
                          <= KMaxPersistenceQueue + Telemetry!Cardinality(Loggers) + 1
        OBVIOUS
    <2>1. IsFiniteSet(Loggers) /\ KMaxPersistenceQueue \in Nat
        BY <1>1 DEF Telemetry!TelemetryAssumption, IsFiniteSet, Telemetry!IsFiniteSet
    <2>2. Cardinality(Busy) <= Cardinality(Loggers) /\ Cardinality(Busy) \in Nat /\ Cardinality(Loggers) \in Nat
        <3>1. Busy \in SUBSET Loggers
            BY DEF Busy
        <3> QED
            BY <2>1, <3>1, FS_Subset, FS_CardinalityType
    <2>3. /\ Accounted /\ Len(persistenceQueue) \in Nat /\ Len(persistenceQueue) <= KMaxPersistenceQueue
          /\ persistedTraceCount \in Nat /\ droppedPersistenceCount \in Nat
        BY DEF TelemetryInv, QueueInv
    <2>4. Held \in Nat /\ Held <= 1
        BY DEF Held
    <2>5. snapshotTotal <= totals.executions /\ snapshotTotal \in Int /\ totals.executions \in Nat
        BY DEF TelemetryInv, WriterInv, RingInv, Telemetry!NoTotal
    <2>6. totals.executions - persistedTraceCount - droppedPersistenceCount =
              Len(persistenceQueue) + Cardinality(Busy) + Held
        BY <2>2, <2>3, <2>4, <2>5 DEF Accounted
    <2>7. snapshotTotal - persistedTraceCount - droppedPersistenceCount <= KMaxPersistenceQueue + Cardinality(Loggers) + 1
        BY <2>1, <2>2, <2>3, <2>4, <2>5, <2>6
    <2> QED
        BY <2>7 DEF Cardinality, Telemetry!Cardinality
<1> QED
    BY <1>2, <1>3, <1>4, TelemetryBehaves, PTL DEF Telemetry!Spec, Telemetry!SnapshotBacklogBounded

=============================================================================
