------------------------ MODULE ControlRuntimeProofs ------------------------
(***************************************************************************)
(* Theorems about ControlRuntime, for every value of its constants: type   *)
(* correctness, the lifecycle of its threads, the order of its queues, and *)
(* what a session keeps: no notified change is lost, no decision of an     *)
(* earlier session is executed in a later one, and the counters of Status  *)
(* add up. It implements IntentDispatch, from which it follows that the    *)
(* engine sees an accepted intent twice at most.                           *)
(***************************************************************************)
EXTENDS MCControlRuntime, SequenceTheorems, TLAPS

-----------------------------------------------------------------------------
\* Facts about the operators the actions are built from.

\* Six worlds are enough for an effect to be new to each of the five places one is kept.
LEMMA FreshWorldType ==
    ASSUME TypeOK
    PROVE  FreshWorld \in World
<1>1. \E w \in World : w \notin {world, captured, published, registryState, synced}
    BY DEF TypeOK, StatesOK, World, NoState
<1>. QED
    BY <1>1 DEF FreshWorld

\* An intent added behind, or put back in front, leaves a queue of queued intents.
LEMMA QueueUpdateType ==
    ASSUME queues \in [Priority -> Seq(QueuedIntent)], NEW p \in Priority,
           NEW intent \in Intent, NEW n \in Nat
    PROVE  /\ [queues EXCEPT ![p] = Append(@, [intent |-> intent, sequence |-> n])]
                    \in [Priority -> Seq(QueuedIntent)]
           /\ [queues EXCEPT ![p] = PutBack(p, intent)] \in [Priority -> Seq(QueuedIntent)]
<1>1. [intent |-> intent, sequence |-> n] \in QueuedIntent
    BY DEF QueuedIntent
<1>2. [intent |-> intent, sequence |-> 0] \in QueuedIntent
    BY DEF QueuedIntent
<1>3. PutBack(p, intent) \in Seq(QueuedIntent)
    BY <1>2 DEF PutBack
<1>. QED
    BY <1>1, <1>3

-----------------------------------------------------------------------------
\* A saturating counter stays a natural number.
LEMMA UpToType == ASSUME NEW cap \in Nat, NEW n \in Nat PROVE UpTo(cap, n) \in Nat
    BY DEF UpTo

\* The counters stay natural numbers when one or two of them are set to one.
LEMMA StatsUpdate ==
    ASSUME stats \in Stats, NEW m \in Nat, NEW n \in Nat
    PROVE  /\ [stats EXCEPT !.frames = m] \in Stats
           /\ [stats EXCEPT !.dropped = m] \in Stats
           /\ [stats EXCEPT !.executed = m] \in Stats
           /\ [stats EXCEPT !.corrections = m] \in Stats
           /\ [stats EXCEPT !.samples = m, !.mismatches = n] \in Stats
           /\ [stats EXCEPT !.produced = m, !.timeouts = n] \in Stats
    BY DEF Stats

\* The initial state is well typed.
LEMMA TypeInit == Init => TypeOK
<1>. SUFFICES ASSUME Init PROVE TypeOK
    OBVIOUS
<1>1. FlagsOK
    BY DEF Init, FlagsOK
<1>2. PlacesOK /\ CountersOK
    BY DEF Init, PlacesOK, WorkerPlaces, CountersOK, Stats, NoStats
<1>3. QueuesOK
    BY DEF Init, QueuesOK, EmptyHand, NoIntent, Intent, Priority
<1>4. StatesOK
    BY DEF Init, StatesOK, NoRefresh, World, NoState
<1>. QED
    BY <1>1, <1>2, <1>3, <1>4 DEF TypeOK

\* No action disturbs the type of a flag.
LEMMA FlagsStep ==
    ASSUME TypeOK, [Next]_vars
    PROVE  FlagsOK'
<1>. USE DEF TypeOK, FlagsOK, ResetSession, lifeVars, queueVars, eventVars, workVars,
         passVars, slotVars, worldVars
<1>1. CASE StopRequest
    BY <1>1 DEF StopRequest
<1>2. CASE StopDecision
    BY <1>2 DEF StopDecision
<1>3. CASE JoinWorker
    BY <1>3 DEF JoinWorker
<1>4. CASE JoinDecision
    BY <1>4 DEF JoinDecision
<1>5. CASE StopPipeline
    BY <1>5 DEF StopPipeline
<1>6. CASE CaptureState
    BY <1>6 DEF CaptureState
<1>7. CASE Publish
    BY <1>7 DEF Publish
<1>8. CASE RefreshElsewhere
    BY <1>8 DEF RefreshElsewhere
<1>9. CASE LoopStops
    BY <1>9 DEF LoopStops
<1>10. CASE LoopReachesMaxFrames
    BY <1>10 DEF LoopReachesMaxFrames
<1>11. CASE LoopContinues
    BY <1>11 DEF LoopContinues
<1>12. CASE BeginFrame
    BY <1>12 DEF BeginFrame
<1>13. CASE Observe
    BY <1>13 DEF Observe
<1>14. CASE SubmitDecisionState
    BY <1>14 DEF SubmitDecisionState
<1>15. CASE NothingToPop
    BY <1>15 DEF NothingToPop
<1>16. CASE OverBudget
    BY <1>16 DEF OverBudget
<1>17. CASE RecordFeedback
    BY <1>17 DEF RecordFeedback
<1>18. CASE NoFeedback
    BY <1>18 DEF NoFeedback
<1>19. CASE ScheduleCorrection
    BY <1>19 DEF ScheduleCorrection
<1>20. CASE CorrectionRefused
    BY <1>20 DEF CorrectionRefused
<1>21. CASE CountCorrection
    BY <1>21 DEF CountCorrection
<1>22. CASE CountExecuted
    BY <1>22 DEF CountExecuted
<1>23. CASE WaitFrame
    BY <1>23 DEF WaitFrame
<1>24. CASE ExitLoop
    BY <1>24 DEF ExitLoop
<1>25. CASE TakeState
    BY <1>25 DEF TakeState
<1>26. CASE DecisionStops
    BY <1>26 DEF DecisionStops
<1>27. CASE OfferIntent
    BY <1>27 DEF OfferIntent
<1>28. CASE OfferSkipped
    BY <1>28 DEF OfferSkipped
<1>29. CASE FinishPass
    BY <1>29 DEF FinishPass
<1>30. ASSUME NEW limit \in FrameLimits, Start(limit)
      PROVE  FlagsOK'
    BY <1>30 DEF Start
<1>31. ASSUME NEW limit \in FrameLimits, StartRefused(limit)
      PROVE  FlagsOK'
    BY <1>31 DEF StartRefused
<1>32. ASSUME NEW p \in ClientPriorities, NEW retry \in ClientRetries, ClientEnqueue(p, retry)
      PROVE  FlagsOK'
    BY <1>32 DEF ClientEnqueue
<1>33. ASSUME NEW type \in EventTypes, NEW p \in EventPriorities, HandleEvent(type, p)
      PROVE  FlagsOK'
    BY <1>33 DEF HandleEvent
<1>34. ASSUME NEW on \in BOOLEAN, SetDecisionProvider(on)
      PROVE  FlagsOK'
    BY <1>34 DEF SetDecisionProvider
<1>35. ASSUME NEW valid \in BOOLEAN, RefreshRegistry(valid)
      PROVE  FlagsOK'
    BY <1>35 DEF RefreshRegistry
<1>36. ASSUME NEW p \in Priority, PopIntent(p)
      PROVE  FlagsOK'
    BY <1>36 DEF PopIntent
<1>37. ASSUME NEW outcome \in Outcomes, ExecuteInBudget(outcome)
      PROVE  FlagsOK'
    BY <1>37 DEF ExecuteInBudget
<1>38. ASSUME NEW late \in BOOLEAN, EndFrame(late)
      PROVE  FlagsOK'
    BY <1>38 DEF EndFrame
<1>39. ASSUME NEW batch \in Batches, NEW late \in BOOLEAN, Decide(batch, late)
      PROVE  FlagsOK'
    BY <1>39 DEF Decide
<1>40. CASE UNCHANGED vars
    BY <1>40 DEF vars
<1>. QED
    BY <1>1, <1>2, <1>3, <1>4, <1>5, <1>6, <1>7, <1>8, <1>9, <1>10, <1>11, <1>12, <1>13,
       <1>14, <1>15, <1>16, <1>17, <1>18, <1>19, <1>20, <1>21, <1>22, <1>23, <1>24, <1>25,
       <1>26, <1>27, <1>28, <1>29, <1>30, <1>31, <1>32, <1>33, <1>34, <1>35, <1>36, <1>37,
       <1>38, <1>39, <1>40
    DEF Next, ControllerStep, ClientStep, ObserverStep, WorkerStep, DecisionStep

\* No action leads a thread to a place the code does not have.
LEMMA PlacesStep ==
    ASSUME TypeOK, [Next]_vars
    PROVE  PlacesOK'
<1>. USE DEF TypeOK, PlacesOK, WorkerPlaces, ResetSession, lifeVars, queueVars, eventVars,
         workVars, passVars, slotVars, worldVars
<1>1. CASE StopRequest
    BY <1>1 DEF StopRequest
<1>2. CASE StopDecision
    BY <1>2 DEF StopDecision
<1>3. CASE JoinWorker
    BY <1>3 DEF JoinWorker
<1>4. CASE JoinDecision
    BY <1>4 DEF JoinDecision
<1>5. CASE StopPipeline
    BY <1>5 DEF StopPipeline
<1>6. CASE CaptureState
    BY <1>6 DEF CaptureState
<1>7. CASE Publish
    BY <1>7 DEF Publish
<1>8. CASE RefreshElsewhere
    BY <1>8 DEF RefreshElsewhere
<1>9. CASE LoopStops
    BY <1>9 DEF LoopStops
<1>10. CASE LoopReachesMaxFrames
    BY <1>10 DEF LoopReachesMaxFrames
<1>11. CASE LoopContinues
    BY <1>11 DEF LoopContinues
<1>12. CASE BeginFrame
    BY <1>12 DEF BeginFrame
<1>13. CASE Observe
    BY <1>13 DEF Observe
<1>14. CASE SubmitDecisionState
    BY <1>14 DEF SubmitDecisionState
<1>15. CASE NothingToPop
    BY <1>15 DEF NothingToPop
<1>16. CASE OverBudget
    BY <1>16 DEF OverBudget
<1>17. CASE RecordFeedback
    BY <1>17 DEF RecordFeedback
<1>18. CASE NoFeedback
    BY <1>18 DEF NoFeedback
<1>19. CASE ScheduleCorrection
    BY <1>19 DEF ScheduleCorrection
<1>20. CASE CorrectionRefused
    BY <1>20 DEF CorrectionRefused
<1>21. CASE CountCorrection
    BY <1>21 DEF CountCorrection
<1>22. CASE CountExecuted
    BY <1>22 DEF CountExecuted
<1>23. CASE WaitFrame
    BY <1>23 DEF WaitFrame
<1>24. CASE ExitLoop
    BY <1>24 DEF ExitLoop
<1>25. CASE TakeState
    BY <1>25 DEF TakeState
<1>26. CASE DecisionStops
    BY <1>26 DEF DecisionStops
<1>27. CASE OfferIntent
    BY <1>27 DEF OfferIntent
<1>28. CASE OfferSkipped
    BY <1>28 DEF OfferSkipped
<1>29. CASE FinishPass
    BY <1>29 DEF FinishPass
<1>30. ASSUME NEW limit \in FrameLimits, Start(limit)
      PROVE  PlacesOK'
    BY <1>30 DEF Start
<1>31. ASSUME NEW limit \in FrameLimits, StartRefused(limit)
      PROVE  PlacesOK'
    BY <1>31 DEF StartRefused
<1>32. ASSUME NEW p \in ClientPriorities, NEW retry \in ClientRetries, ClientEnqueue(p, retry)
      PROVE  PlacesOK'
    BY <1>32 DEF ClientEnqueue
<1>33. ASSUME NEW type \in EventTypes, NEW p \in EventPriorities, HandleEvent(type, p)
      PROVE  PlacesOK'
    BY <1>33 DEF HandleEvent
<1>34. ASSUME NEW on \in BOOLEAN, SetDecisionProvider(on)
      PROVE  PlacesOK'
    BY <1>34 DEF SetDecisionProvider
<1>35. ASSUME NEW valid \in BOOLEAN, RefreshRegistry(valid)
      PROVE  PlacesOK'
    BY <1>35 DEF RefreshRegistry
<1>36. ASSUME NEW p \in Priority, PopIntent(p)
      PROVE  PlacesOK'
    BY <1>36 DEF PopIntent
<1>37. ASSUME NEW outcome \in Outcomes, ExecuteInBudget(outcome)
      PROVE  PlacesOK'
    BY <1>37 DEF ExecuteInBudget
<1>38. ASSUME NEW late \in BOOLEAN, EndFrame(late)
      PROVE  PlacesOK'
    BY <1>38 DEF EndFrame
<1>39. ASSUME NEW batch \in Batches, NEW late \in BOOLEAN, Decide(batch, late)
      PROVE  PlacesOK'
    BY <1>39 DEF Decide
<1>40. CASE UNCHANGED vars
    BY <1>40 DEF vars
<1>. QED
    BY <1>1, <1>2, <1>3, <1>4, <1>5, <1>6, <1>7, <1>8, <1>9, <1>10, <1>11, <1>12, <1>13,
       <1>14, <1>15, <1>16, <1>17, <1>18, <1>19, <1>20, <1>21, <1>22, <1>23, <1>24, <1>25,
       <1>26, <1>27, <1>28, <1>29, <1>30, <1>31, <1>32, <1>33, <1>34, <1>35, <1>36, <1>37,
       <1>38, <1>39, <1>40
    DEF Next, ControllerStep, ClientStep, ObserverStep, WorkerStep, DecisionStep

\* Every observation in flight is one of a real world, or absent.
LEMMA StatesStep ==
    ASSUME TypeOK, [Next]_vars
    PROVE  StatesOK'
<1>. USE FreshWorldType DEF TypeOK, FlagsOK, StatesOK, LatestState, NoRefresh, TakenRefresh,
         ResetSession, lifeVars, queueVars, eventVars, workVars, passVars, slotVars,
         worldVars
<1>1. CASE StopRequest
    BY <1>1 DEF StopRequest
<1>2. CASE StopDecision
    BY <1>2 DEF StopDecision
<1>3. CASE JoinWorker
    BY <1>3 DEF JoinWorker
<1>4. CASE JoinDecision
    BY <1>4 DEF JoinDecision
<1>5. CASE StopPipeline
    BY <1>5 DEF StopPipeline
<1>6. CASE CaptureState
    BY <1>6 DEF CaptureState
<1>7. CASE Publish
    BY <1>7 DEF Publish
<1>8. CASE RefreshElsewhere
    BY <1>8 DEF RefreshElsewhere
<1>9. CASE LoopStops
    BY <1>9 DEF LoopStops
<1>10. CASE LoopReachesMaxFrames
    BY <1>10 DEF LoopReachesMaxFrames
<1>11. CASE LoopContinues
    BY <1>11 DEF LoopContinues
<1>12. CASE BeginFrame
    BY <1>12 DEF BeginFrame
<1>13. CASE Observe
    BY <1>13 DEF Observe
<1>14. CASE SubmitDecisionState
    BY <1>14 DEF SubmitDecisionState
<1>15. CASE NothingToPop
    BY <1>15 DEF NothingToPop
<1>16. CASE OverBudget
    BY <1>16 DEF OverBudget
<1>17. CASE RecordFeedback
    BY <1>17 DEF RecordFeedback
<1>18. CASE NoFeedback
    BY <1>18 DEF NoFeedback
<1>19. CASE ScheduleCorrection
    BY <1>19 DEF ScheduleCorrection
<1>20. CASE CorrectionRefused
    BY <1>20 DEF CorrectionRefused
<1>21. CASE CountCorrection
    BY <1>21 DEF CountCorrection
<1>22. CASE CountExecuted
    BY <1>22 DEF CountExecuted
<1>23. CASE WaitFrame
    BY <1>23 DEF WaitFrame
<1>24. CASE ExitLoop
    BY <1>24 DEF ExitLoop
<1>25. CASE TakeState
    BY <1>25 DEF TakeState
<1>26. CASE DecisionStops
    BY <1>26 DEF DecisionStops
<1>27. CASE OfferIntent
    BY <1>27 DEF OfferIntent
<1>28. CASE OfferSkipped
    BY <1>28 DEF OfferSkipped
<1>29. CASE FinishPass
    BY <1>29 DEF FinishPass
<1>30. ASSUME NEW limit \in FrameLimits, Start(limit)
      PROVE  StatesOK'
    BY <1>30 DEF Start
<1>31. ASSUME NEW limit \in FrameLimits, StartRefused(limit)
      PROVE  StatesOK'
    BY <1>31 DEF StartRefused
<1>32. ASSUME NEW p \in ClientPriorities, NEW retry \in ClientRetries, ClientEnqueue(p, retry)
      PROVE  StatesOK'
    BY <1>32 DEF ClientEnqueue
<1>33. ASSUME NEW type \in EventTypes, NEW p \in EventPriorities, HandleEvent(type, p)
      PROVE  StatesOK'
    BY <1>33 DEF HandleEvent
<1>34. ASSUME NEW on \in BOOLEAN, SetDecisionProvider(on)
      PROVE  StatesOK'
    BY <1>34 DEF SetDecisionProvider
<1>35. ASSUME NEW valid \in BOOLEAN, RefreshRegistry(valid)
      PROVE  StatesOK'
    BY <1>35 DEF RefreshRegistry
<1>36. ASSUME NEW p \in Priority, PopIntent(p)
      PROVE  StatesOK'
    BY <1>36 DEF PopIntent
<1>37. ASSUME NEW outcome \in Outcomes, ExecuteInBudget(outcome)
      PROVE  StatesOK'
    BY <1>37 DEF ExecuteInBudget
<1>38. ASSUME NEW late \in BOOLEAN, EndFrame(late)
      PROVE  StatesOK'
    BY <1>38 DEF EndFrame
<1>39. ASSUME NEW batch \in Batches, NEW late \in BOOLEAN, Decide(batch, late)
      PROVE  StatesOK'
    BY <1>39 DEF Decide
<1>40. CASE UNCHANGED vars
    BY <1>40 DEF vars
<1>. QED
    BY <1>1, <1>2, <1>3, <1>4, <1>5, <1>6, <1>7, <1>8, <1>9, <1>10, <1>11, <1>12, <1>13,
       <1>14, <1>15, <1>16, <1>17, <1>18, <1>19, <1>20, <1>21, <1>22, <1>23, <1>24, <1>25,
       <1>26, <1>27, <1>28, <1>29, <1>30, <1>31, <1>32, <1>33, <1>34, <1>35, <1>36, <1>37,
       <1>38, <1>39, <1>40
    DEF Next, ControllerStep, ClientStep, ObserverStep, WorkerStep, DecisionStep

\* No action disturbs a counter; pending events are taken only where there are some.
LEMMA CountersStep ==
    ASSUME TypeOK, [Next]_vars
    PROVE  CountersOK'
<1>1. CASE StopDecision
    BY <1>1, ConfigAssumption DEF TypeOK, CountersOK, StopDecision, lifeVars, eventVars, passVars
<1>2. CASE BeginFrame
  <2>1. stats' \in Stats
    <3>1. stats.frames \in Nat
        BY DEF TypeOK, CountersOK, Stats
    <3>2. UpTo(FrameCap, stats.frames) \in Nat
        BY <3>1, UpToType, BoundAssumption
    <3>. QED
        BY <1>2, <3>2, StatsUpdate DEF TypeOK, CountersOK, BeginFrame
  <2>2. pendingEvents' \in [Priority -> Nat]
    BY <1>2 DEF TypeOK, CountersOK, BeginFrame, AccountedEvent
  <2>. QED
    BY <1>2, <2>1, <2>2 DEF TypeOK, CountersOK, BeginFrame, lifeVars, slotVars, passVars
<1>3. CASE SubmitDecisionState
    BY <1>3 DEF TypeOK, CountersOK, SubmitDecisionState, Stats, lifeVars, eventVars, passVars
<1>4. CASE OverBudget
  <2>1. stats.dropped \in Nat
    BY DEF TypeOK, CountersOK, Stats
  <2>2. UpTo(CounterCap, stats.dropped) \in Nat
    BY <2>1, UpToType, BoundAssumption
  <2>. QED
    BY <1>4, <2>2, StatsUpdate
    DEF TypeOK, CountersOK, OverBudget, lifeVars, eventVars, slotVars, passVars
<1>5. CASE RecordFeedback
  <2>1. stats.samples + 1 \in Nat /\ stats.mismatches \in Nat
    BY DEF TypeOK, CountersOK, Stats
  <2>2. (IF Mismatch THEN stats.mismatches + 1 ELSE stats.mismatches) \in Nat
    BY <2>1
  <2>. QED
    BY <1>5, <2>1, <2>2, StatsUpdate
    DEF TypeOK, CountersOK, RecordFeedback, lifeVars, eventVars, slotVars, passVars
<1>6. CASE CountCorrection
  <2>1. stats.corrections + 1 \in Nat
    BY DEF TypeOK, CountersOK, Stats
  <2>. QED
    BY <1>6, <2>1, StatsUpdate
    DEF TypeOK, CountersOK, CountCorrection, lifeVars, eventVars, slotVars, passVars
<1>7. CASE CountExecuted
  <2>1. stats.executed + 1 \in Nat
    BY DEF TypeOK, CountersOK, Stats
  <2>. QED
    BY <1>7, <2>1, StatsUpdate
    DEF TypeOK, CountersOK, CountExecuted, lifeVars, eventVars, slotVars, passVars
<1>8. CASE TakeState
    BY <1>8, ConfigAssumption DEF TypeOK, CountersOK, TakeState, lifeVars, eventVars
<1>9. CASE OfferIntent
  <2>1. dbatch' \in Seq(Proposals)
    BY <1>9 DEF TypeOK, CountersOK, OfferIntent, PassOver
  <2>. QED
    BY <1>9, <2>1 DEF TypeOK, CountersOK, OfferIntent, lifeVars, eventVars, slotVars
<1>10. CASE OfferSkipped
  <2>1. dbatch' \in Seq(Proposals)
    BY <1>10 DEF TypeOK, CountersOK, OfferSkipped, PassOver
  <2>. QED
    BY <1>10, <2>1 DEF TypeOK, CountersOK, OfferSkipped, lifeVars, eventVars, slotVars
<1>11. CASE FinishPass
  <2>1. stats.produced + daccepted \in Nat /\ stats.timeouts \in Nat
    BY DEF TypeOK, CountersOK, Stats
  <2>2. (IF dlate THEN UpTo(CounterCap, stats.timeouts) ELSE stats.timeouts) \in Nat
    BY <2>1, UpToType, BoundAssumption
  <2>3. stats' \in Stats
    BY <1>11, <2>1, <2>2, StatsUpdate DEF TypeOK, CountersOK, FinishPass
  <2>. QED
    BY <1>11, <2>3 DEF TypeOK, CountersOK, FinishPass, lifeVars, eventVars, slotVars
<1>12. ASSUME NEW limit \in FrameLimits, Start(limit)
      PROVE  CountersOK'
    BY <1>12, ConfigAssumption, BoundAssumption
    DEF TypeOK, CountersOK, Start, ResetSession, Stats, NoStats, passVars
<1>13. ASSUME NEW limit \in FrameLimits, StartRefused(limit)
      PROVE  CountersOK'
    BY <1>13, ConfigAssumption, BoundAssumption
    DEF TypeOK, CountersOK, StartRefused, ResetSession, Stats, NoStats, passVars
<1>14. ASSUME NEW type \in EventTypes, NEW p \in EventPriorities, HandleEvent(type, p)
      PROVE  CountersOK'
    BY <1>14, ConfigAssumption DEF TypeOK, CountersOK, HandleEvent, lifeVars, slotVars, passVars
<1>15. ASSUME NEW on \in BOOLEAN, SetDecisionProvider(on)
      PROVE  CountersOK'
    BY <1>15, ConfigAssumption DEF TypeOK, CountersOK, SetDecisionProvider, lifeVars, eventVars, passVars
<1>16. ASSUME NEW valid \in BOOLEAN, RefreshRegistry(valid)
      PROVE  CountersOK'
    BY <1>16 DEF TypeOK, CountersOK, RefreshRegistry, lifeVars, slotVars, passVars
<1>17. ASSUME NEW late \in BOOLEAN, EndFrame(late)
      PROVE  CountersOK'
  <2>1. stats.dropped \in Nat
    BY DEF TypeOK, CountersOK, Stats
  <2>2. (IF late THEN UpTo(CounterCap, stats.dropped) ELSE stats.dropped) \in Nat
    BY <2>1, UpToType, BoundAssumption
  <2>. QED
    BY <1>17, <2>2, StatsUpdate
    DEF TypeOK, CountersOK, EndFrame, lifeVars, eventVars, slotVars, passVars
<1>18. ASSUME NEW batch \in Batches, NEW late \in BOOLEAN, Decide(batch, late)
      PROVE  CountersOK'
  <2>1. batch \in Seq(Proposals)
    BY BoundAssumption DEF Batches
  <2>. QED
    BY <1>18, <2>1 DEF TypeOK, CountersOK, Decide, lifeVars, eventVars, slotVars
<1>19. ASSUME \/ StopRequest
              \/ JoinWorker
              \/ JoinDecision
              \/ StopPipeline
              \/ CaptureState
              \/ Publish
              \/ RefreshElsewhere
              \/ LoopStops
              \/ LoopReachesMaxFrames
              \/ LoopContinues
              \/ Observe
              \/ NothingToPop
              \/ NoFeedback
              \/ ScheduleCorrection
              \/ CorrectionRefused
              \/ WaitFrame
              \/ ExitLoop
              \/ DecisionStops
              \/ \E p \in ClientPriorities, retry \in ClientRetries : ClientEnqueue(p, retry)
              \/ \E p \in Priority : PopIntent(p)
              \/ \E outcome \in Outcomes : ExecuteInBudget(outcome)
              \/ UNCHANGED vars
      PROVE  CountersOK'
  <2>1. UNCHANGED <<maxFrames, stats, pendingEvents, pendingFrame, dframe, daccepted, dbatch>>
    BY <1>19 DEF vars, lifeVars, queueVars, eventVars, workVars, passVars, slotVars,
       worldVars, StopRequest, JoinWorker, JoinDecision, StopPipeline, CaptureState,
       Publish, RefreshElsewhere, LoopStops, LoopReachesMaxFrames, LoopContinues, Observe,
       NothingToPop, NoFeedback, ScheduleCorrection, CorrectionRefused, WaitFrame,
       ExitLoop, DecisionStops, ClientEnqueue, PopIntent, ExecuteInBudget
  <2>. QED
    BY <2>1 DEF TypeOK, CountersOK
<1>. QED
    BY <1>1, <1>2, <1>3, <1>4, <1>5, <1>6, <1>7, <1>8, <1>9, <1>10, <1>11, <1>12, <1>13,
       <1>14, <1>15, <1>16, <1>17, <1>18, <1>19
    DEF Next, ControllerStep, ClientStep, ObserverStep, WorkerStep, DecisionStep

\* Queues, the intent in hand and the history keep their types.
LEMMA QueuesStep ==
    ASSUME TypeOK, [Next]_vars
    PROVE  QueuesOK'
<1>1. CASE CaptureState
    BY <1>1 DEF TypeOK, QueuesOK, CaptureState, queueVars, workVars
<1>2. CASE Publish
    BY <1>2 DEF TypeOK, QueuesOK, Publish, queueVars, workVars
<1>3. CASE RefreshElsewhere
    BY <1>3 DEF TypeOK, QueuesOK, RefreshElsewhere, queueVars, workVars
<1>4. CASE BeginFrame
    BY <1>4 DEF TypeOK, QueuesOK, BeginFrame, queueVars, worldVars
<1>5. CASE Observe
    BY <1>5 DEF TypeOK, QueuesOK, Observe, queueVars, worldVars
<1>6. CASE OverBudget
  <2>1. hand.intent \in Intent /\ hand.priority \in Priority
    BY DEF TypeOK, QueuesOK
  <2>2. queues' \in [Priority -> Seq(QueuedIntent)]
    BY <1>6, <2>1, QueueUpdateType DEF TypeOK, QueuesOK, OverBudget
  <2>. QED
    BY <1>6, <2>2 DEF TypeOK, QueuesOK, OverBudget, workVars, worldVars
<1>7. CASE ScheduleCorrection
  <2>1. hand.intent \in Intent
    BY DEF TypeOK, QueuesOK
  <2>2. [hand.intent EXCEPT !.retry = TRUE] \in Intent
    BY <2>1, Zenon DEF Intent
  <2>3. [queues EXCEPT !["high"] = Append(@, [intent |-> [hand.intent EXCEPT !.retry = TRUE],
                                             sequence |-> nextSequence])]
            \in [Priority -> Seq(QueuedIntent)]
    BY <2>2, QueueUpdateType DEF TypeOK, QueuesOK, Priority
  <2>. QED
    BY <1>7, <2>3 DEF TypeOK, QueuesOK, ScheduleCorrection, EnqueueIntent, workVars, worldVars
<1>8. CASE OfferIntent
  <2>1. [origin |-> nextSequence, retry |-> FALSE, frame |-> dframe] \in Intent
    BY DEF TypeOK, QueuesOK, CountersOK, Intent
  <2>2. Head(dbatch) \in Priority
    <3>1. Head(dbatch) \in Proposals
        BY <1>8 DEF TypeOK, CountersOK, OfferIntent, PassOver
    <3>. QED
        BY <1>8, <3>1, ConfigAssumption DEF OfferIntent
  <2>3. queues' \in [Priority -> Seq(QueuedIntent)]
    BY <1>8, <2>1, <2>2, QueueUpdateType DEF TypeOK, QueuesOK, OfferIntent, EnqueueIntent
  <2>4. hand' = hand /\ history' = history /\ nextSequence' = nextSequence + 1
    BY <1>8 DEF OfferIntent, EnqueueIntent, workVars, worldVars
  <2>. QED
    BY <2>3, <2>4 DEF TypeOK, QueuesOK
<1>9. ASSUME NEW limit \in FrameLimits, Start(limit)
      PROVE  QueuesOK'
    BY <1>9 DEF TypeOK, QueuesOK, Start, ResetSession, workVars
<1>10. ASSUME NEW limit \in FrameLimits, StartRefused(limit)
      PROVE  QueuesOK'
    BY <1>10 DEF TypeOK, QueuesOK, StartRefused, ResetSession, workVars
<1>11. ASSUME NEW p \in ClientPriorities, NEW retry \in ClientRetries, ClientEnqueue(p, retry)
      PROVE  QueuesOK'
  <2>1. [origin |-> nextSequence, retry |-> retry, frame |-> 0] \in Intent
    BY ConfigAssumption DEF TypeOK, QueuesOK, Intent
  <2>2. p \in Priority
    BY ConfigAssumption
  <2>. QED
    BY <1>11, <2>1, <2>2, QueueUpdateType
    DEF TypeOK, QueuesOK, ClientEnqueue, EnqueueIntent, workVars, worldVars
<1>12. ASSUME NEW valid \in BOOLEAN, RefreshRegistry(valid)
      PROVE  QueuesOK'
    BY <1>12 DEF TypeOK, QueuesOK, RefreshRegistry, queueVars, workVars
<1>13. ASSUME NEW p \in Priority, PopIntent(p)
      PROVE  QueuesOK'
  <2>1. Head(queues[p]) \in QueuedIntent /\ Tail(queues[p]) \in Seq(QueuedIntent)
    BY <1>13 DEF TypeOK, QueuesOK, PopIntent, NextQueue
  <2>2. Head(queues[p]).intent \in Intent
    BY <2>1 DEF QueuedIntent
  <2>. QED
    BY <1>13, <2>1, <2>2 DEF TypeOK, QueuesOK, PopIntent, worldVars
<1>14. ASSUME NEW outcome \in Outcomes, ExecuteInBudget(outcome)
      PROVE  QueuesOK'
  <2>1. hand.intent \in Intent /\ stats.frames \in Nat
    BY DEF TypeOK, QueuesOK, CountersOK, Stats
  <2>2. hand' \in [intent : Intent, priority : Priority, mark : Nat \ {0}]
    BY <1>14, <2>1 DEF TypeOK, QueuesOK, ExecuteInBudget, Intent
  <2>3. history' \in Seq([origin : Nat, retry : BOOLEAN])
    BY <1>14, <2>1 DEF TypeOK, QueuesOK, ExecuteInBudget, Intent
  <2>. QED
    BY <1>14, <2>2, <2>3 DEF TypeOK, QueuesOK, ExecuteInBudget, queueVars
<1>15. ASSUME NEW late \in BOOLEAN, EndFrame(late)
      PROVE  QueuesOK'
    BY <1>15 DEF TypeOK, QueuesOK, EndFrame, queueVars, EmptyHand, NoIntent, Intent, Priority
<1>16. ASSUME \/ StopRequest
              \/ StopDecision
              \/ JoinWorker
              \/ JoinDecision
              \/ StopPipeline
              \/ LoopStops
              \/ LoopReachesMaxFrames
              \/ LoopContinues
              \/ SubmitDecisionState
              \/ NothingToPop
              \/ RecordFeedback
              \/ NoFeedback
              \/ CorrectionRefused
              \/ CountCorrection
              \/ CountExecuted
              \/ WaitFrame
              \/ ExitLoop
              \/ TakeState
              \/ DecisionStops
              \/ OfferSkipped
              \/ FinishPass
              \/ \E type \in EventTypes, p \in EventPriorities : HandleEvent(type, p)
              \/ \E on \in BOOLEAN : SetDecisionProvider(on)
              \/ \E batch \in Batches, late \in BOOLEAN : Decide(batch, late)
              \/ UNCHANGED vars
      PROVE  QueuesOK'
  <2>1. UNCHANGED <<queues, nextSequence, hand, history>>
    BY <1>16 DEF vars, lifeVars, queueVars, eventVars, workVars, passVars, slotVars,
       worldVars, StopRequest, StopDecision, JoinWorker, JoinDecision, StopPipeline,
       LoopStops, LoopReachesMaxFrames, LoopContinues, SubmitDecisionState, NothingToPop,
       RecordFeedback, NoFeedback, CorrectionRefused, CountCorrection, CountExecuted,
       WaitFrame, ExitLoop, TakeState, DecisionStops, OfferSkipped, FinishPass,
       HandleEvent, SetDecisionProvider, Decide
  <2>. QED
    BY <2>1 DEF TypeOK, QueuesOK
<1>. QED
    BY <1>1, <1>2, <1>3, <1>4, <1>5, <1>6, <1>7, <1>8, <1>9, <1>10, <1>11, <1>12, <1>13,
       <1>14, <1>15, <1>16
    DEF Next, ControllerStep, ClientStep, ObserverStep, WorkerStep, DecisionStep

\* TypeOK holds in every reachable state: no step of any thread, and in particular not the
\* accounting of pending events, takes a counter out of the naturals.
THEOREM TypeCorrect == Spec => []TypeOK
<1>1. TypeOK /\ [Next]_vars => TypeOK'
    BY FlagsStep, PlacesStep, CountersStep, QueuesStep, StatesStep DEF TypeOK
<1>. QED
    BY TypeInit, <1>1, PTL DEF Spec

-----------------------------------------------------------------------------
\* The threads: who can be where while the controller is where.

LifecycleInv ==
    /\ running => cpc = "idle" /\ pipelineRunning
    /\ cpc = "idle" /\ wpc \notin {"off", "exit", "done"} => running
    /\ cpc \in {"joinDecision", "stopPipeline"} => wpc = "off"
    /\ cpc = "stopPipeline" => dpc = "off"
    /\ cpc = "idle" /\ ~pipelineRunning => wpc = "off" /\ dpc = "off"

\* No thread and no controller initially.
LEMMA LifecycleInit == Init => LifecycleInv
    BY DEF Init, LifecycleInv

\* Each action keeps the threads where the controller lets them be.
LEMMA LifecycleStep ==
    ASSUME TypeOK, LifecycleInv, [Next]_vars
    PROVE  LifecycleInv'
<1>. USE DEF TypeOK, FlagsOK, PlacesOK, LifecycleInv, EnqueueIntent, lifeVars, queueVars, eventVars,
         workVars, passVars, slotVars, worldVars
<1>1. CASE StopRequest
    BY <1>1 DEF StopRequest
<1>2. CASE StopDecision
    BY <1>2 DEF StopDecision
<1>3. CASE JoinWorker
    BY <1>3 DEF JoinWorker
<1>4. CASE JoinDecision
    BY <1>4 DEF JoinDecision
<1>5. CASE StopPipeline
    BY <1>5 DEF StopPipeline
<1>6. CASE CaptureState
    BY <1>6 DEF CaptureState
<1>7. CASE Publish
    BY <1>7 DEF Publish
<1>8. CASE RefreshElsewhere
    BY <1>8 DEF RefreshElsewhere
<1>9. CASE LoopStops
    BY <1>9 DEF LoopStops
<1>10. CASE LoopReachesMaxFrames
    BY <1>10 DEF LoopReachesMaxFrames
<1>11. CASE LoopContinues
    BY <1>11 DEF LoopContinues
<1>12. CASE BeginFrame
    BY <1>12 DEF BeginFrame
<1>13. CASE Observe
    BY <1>13 DEF Observe
<1>14. CASE SubmitDecisionState
    BY <1>14 DEF SubmitDecisionState
<1>15. CASE NothingToPop
    BY <1>15 DEF NothingToPop
<1>16. CASE OverBudget
    BY <1>16 DEF OverBudget
<1>17. CASE RecordFeedback
    BY <1>17 DEF RecordFeedback
<1>18. CASE NoFeedback
    BY <1>18 DEF NoFeedback
<1>19. CASE ScheduleCorrection
    BY <1>19 DEF ScheduleCorrection
<1>20. CASE CorrectionRefused
    BY <1>20 DEF CorrectionRefused
<1>21. CASE CountCorrection
    BY <1>21 DEF CountCorrection
<1>22. CASE CountExecuted
    BY <1>22 DEF CountExecuted
<1>23. CASE WaitFrame
    BY <1>23 DEF WaitFrame
<1>24. CASE ExitLoop
    BY <1>24 DEF ExitLoop
<1>25. CASE TakeState
    BY <1>25 DEF TakeState
<1>26. CASE DecisionStops
    BY <1>26 DEF DecisionStops
<1>27. CASE OfferIntent
    BY <1>27 DEF OfferIntent
<1>28. CASE OfferSkipped
    BY <1>28 DEF OfferSkipped
<1>29. CASE FinishPass
    BY <1>29 DEF FinishPass
<1>30. ASSUME NEW limit \in FrameLimits, Start(limit)
      PROVE  LifecycleInv'
    BY <1>30 DEF Start
<1>31. ASSUME NEW limit \in FrameLimits, StartRefused(limit)
      PROVE  LifecycleInv'
    BY <1>31 DEF StartRefused
<1>32. ASSUME NEW p \in ClientPriorities, NEW retry \in ClientRetries, ClientEnqueue(p, retry)
      PROVE  LifecycleInv'
    BY <1>32 DEF ClientEnqueue
<1>33. ASSUME NEW type \in EventTypes, NEW p \in EventPriorities, HandleEvent(type, p)
      PROVE  LifecycleInv'
    BY <1>33 DEF HandleEvent
<1>34. ASSUME NEW on \in BOOLEAN, SetDecisionProvider(on)
      PROVE  LifecycleInv'
    BY <1>34 DEF SetDecisionProvider
<1>35. ASSUME NEW valid \in BOOLEAN, RefreshRegistry(valid)
      PROVE  LifecycleInv'
    BY <1>35 DEF RefreshRegistry
<1>36. ASSUME NEW p \in Priority, PopIntent(p)
      PROVE  LifecycleInv'
    BY <1>36 DEF PopIntent
<1>37. ASSUME NEW outcome \in Outcomes, ExecuteInBudget(outcome)
      PROVE  LifecycleInv'
    BY <1>37 DEF ExecuteInBudget
<1>38. ASSUME NEW late \in BOOLEAN, EndFrame(late)
      PROVE  LifecycleInv'
    BY <1>38 DEF EndFrame
<1>39. ASSUME NEW batch \in Batches, NEW late \in BOOLEAN, Decide(batch, late)
      PROVE  LifecycleInv'
    BY <1>39 DEF Decide
<1>40. CASE UNCHANGED vars
    BY <1>40 DEF vars
<1>. QED
    BY <1>1, <1>2, <1>3, <1>4, <1>5, <1>6, <1>7, <1>8, <1>9, <1>10, <1>11, <1>12, <1>13,
       <1>14, <1>15, <1>16, <1>17, <1>18, <1>19, <1>20, <1>21, <1>22, <1>23, <1>24, <1>25,
       <1>26, <1>27, <1>28, <1>29, <1>30, <1>31, <1>32, <1>33, <1>34, <1>35, <1>36, <1>37,
       <1>38, <1>39, <1>40
    DEF Next, ControllerStep, ClientStep, ObserverStep, WorkerStep, DecisionStep

\* The thread invariant holds in every reachable state.
LEMMA LifecycleCorrect == Spec => [](TypeOK /\ LifecycleInv)
<1>1. TypeOK /\ [Next]_vars => TypeOK'
    BY FlagsStep, PlacesStep, CountersStep, QueuesStep, StatesStep DEF TypeOK
<1>2. TypeOK /\ LifecycleInv /\ [Next]_vars => LifecycleInv'
    BY LifecycleStep
<1>. QED
    BY TypeInit, LifecycleInit, <1>1, <1>2, PTL DEF Spec

\* Once Stop has returned, no thread is left and the runtime refuses intents: Start never
\* assigns to a joinable std::thread.
THEOREM StopLeavesNoThread == Spec => []StoppedMeansQuiet
<1>1. LifecycleInv => StoppedMeansQuiet
    BY DEF LifecycleInv, StoppedMeansQuiet
<1>. QED
    BY LifecycleCorrect, <1>1, PTL

-----------------------------------------------------------------------------
\* The queues. Sequence numbers rise along a queue; all of them are below the next one, and
\* while the worker holds an intent, everything behind it has a number of its own, so that
\* the number 0 it is put back with is the smallest.

OrderInv ==
    /\ QueuesInOrder
    /\ \A p \in Priority : \A i \in DOMAIN queues[p] : queues[p][i].sequence < nextSequence
    /\ wpc = "dispatch" =>
          \A i \in DOMAIN queues[hand.priority] : queues[hand.priority][i].sequence > 0

OvertakeInv ==
    /\ NotOvertaken
    /\ wpc = "dispatch" => hand.mark <= nextSequence

\* What Append returns, element by element.
LEMMA AppendFacts ==
    ASSUME NEW S, NEW q \in Seq(S), NEW x \in S
    PROVE  /\ DOMAIN Append(q, x) = 1..(Len(q) + 1) /\ DOMAIN q = 1..Len(q)
           /\ \A i \in 1..Len(q) : Append(q, x)[i] = q[i]
           /\ Append(q, x)[Len(q) + 1] = x
    OBVIOUS

\* What Tail returns, element by element.
LEMMA TailFacts ==
    ASSUME NEW S, NEW q \in Seq(S), q # <<>>
    PROVE  /\ DOMAIN q = 1..Len(q) /\ Len(q) >= 1
           /\ DOMAIN Tail(q) = 1..(Len(q) - 1)
           /\ \A i \in 1..(Len(q) - 1) : Tail(q)[i] = q[i + 1]
    OBVIOUS

\* What putting an element in front returns, element by element.
LEMMA FrontFacts ==
    ASSUME NEW S, NEW q \in Seq(S), NEW x \in S
    PROVE  /\ DOMAIN (<<x>> \o q) = 1..(Len(q) + 1) /\ DOMAIN q = 1..Len(q)
           /\ (<<x>> \o q)[1] = x
           /\ \A i \in 2..(Len(q) + 1) : (<<x>> \o q)[i] = q[i - 1]
    OBVIOUS

\* What a queue of intents holds has a number.
LEMMA SequenceNumbers ==
    ASSUME queues \in [Priority -> Seq(QueuedIntent)]
    PROVE  \A r \in Priority : \A i \in DOMAIN queues[r] : queues[r][i].sequence \in Nat
<1>. SUFFICES ASSUME NEW r \in Priority, NEW i \in DOMAIN queues[r]
              PROVE  queues[r][i].sequence \in Nat
    OBVIOUS
<1>1. queues[r] \in Seq(QueuedIntent)
    OBVIOUS
<1>2. queues[r][i] \in QueuedIntent
    BY <1>1
<1>. QED
    BY <1>2 DEF QueuedIntent

\* Accepting an intent keeps the order, whatever the worker holds.
LEMMA EnqueueOrder ==
    ASSUME TypeOK, OrderInv, OvertakeInv, NEW p \in Priority, NEW intent \in Intent,
           EnqueueIntent(intent, p), hand' = hand, wpc' = "dispatch" => wpc = "dispatch"
    PROVE  OrderInv' /\ OvertakeInv'
<1>. DEFINE x == [intent |-> intent, sequence |-> nextSequence]
<1>1. /\ queues \in [Priority -> Seq(QueuedIntent)] /\ nextSequence \in Nat \ {0}
      /\ hand.priority \in Priority /\ hand.mark \in Nat
      /\ x \in QueuedIntent
    BY DEF TypeOK, QueuesOK, QueuedIntent
<1>2. /\ \A r \in Priority : r # p => queues'[r] = queues[r]
      /\ queues'[p] = Append(queues[p], x)
      /\ nextSequence' = nextSequence + 1
    BY <1>1 DEF EnqueueIntent
<1>3. /\ DOMAIN queues'[p] = 1..(Len(queues[p]) + 1) /\ DOMAIN queues[p] = 1..Len(queues[p])
      /\ Len(queues[p]) \in Nat
      /\ \A i \in 1..Len(queues[p]) : queues'[p][i] = queues[p][i]
      /\ queues'[p][Len(queues[p]) + 1].sequence = nextSequence
    BY <1>1, <1>2, AppendFacts
<1>4. \A r \in Priority : \A i \in DOMAIN queues[r] : queues[r][i].sequence \in Nat
    BY <1>1, SequenceNumbers
<1>5. \A r \in Priority, i \in Nat :
        i \in DOMAIN queues'[r] =>
            \/ i \in DOMAIN queues[r] /\ queues'[r][i] = queues[r][i]
            \/ r = p /\ i = Len(queues[p]) + 1 /\ queues'[r][i].sequence = nextSequence
    BY <1>1, <1>2, <1>3
<1>6. \A r \in Priority : DOMAIN queues'[r] \subseteq Nat /\ DOMAIN queues[r] \subseteq Nat
    BY <1>1, <1>2, <1>3
<1>7. QueuesInOrder'
  <2>. SUFFICES ASSUME NEW r \in Priority, NEW i \in DOMAIN queues'[r],
                       NEW j \in DOMAIN queues'[r], i < j
                PROVE  queues'[r][i].sequence < queues'[r][j].sequence
    BY DEF QueuesInOrder
  <2>1. CASE r # p
    BY <2>1, <1>2 DEF OrderInv, QueuesInOrder
  <2>2. CASE r = p /\ j = Len(queues[p]) + 1
    <3>1. i \in DOMAIN queues[p]
        BY <2>2, <1>3
    <3>. QED
        BY <3>1, <2>2, <1>3, <1>4 DEF OrderInv
  <2>3. CASE r = p /\ j # Len(queues[p]) + 1
    <3>1. i \in DOMAIN queues[p] /\ j \in DOMAIN queues[p]
        BY <2>3, <1>3
    <3>. QED
        BY <3>1, <2>3, <1>3 DEF OrderInv, QueuesInOrder
  <2>. QED
    BY <2>1, <2>2, <2>3
<1>8. \A r \in Priority : \A i \in DOMAIN queues'[r] : queues'[r][i].sequence < nextSequence'
  <2>. SUFFICES ASSUME NEW r \in Priority, NEW i \in DOMAIN queues'[r]
                PROVE  queues'[r][i].sequence < nextSequence + 1
    BY <1>2
  <2>1. CASE i \in DOMAIN queues[r] /\ queues'[r][i] = queues[r][i]
    BY <2>1, <1>1, <1>4 DEF OrderInv
  <2>2. CASE queues'[r][i].sequence = nextSequence
    BY <2>2, <1>1
  <2>. QED
    BY <2>1, <2>2, <1>5, <1>6
<1>9. ASSUME wpc' = "dispatch", NEW i \in DOMAIN queues'[hand.priority]
      PROVE  queues'[hand.priority][i].sequence > 0
  <2>1. CASE i \in DOMAIN queues[hand.priority]
             /\ queues'[hand.priority][i] = queues[hand.priority][i]
    BY <2>1, <1>9 DEF OrderInv
  <2>2. CASE queues'[hand.priority][i].sequence = nextSequence
    BY <2>2, <1>1
  <2>. QED
    BY <2>1, <2>2, <1>1, <1>5, <1>6
<1>10. ASSUME wpc' = "dispatch", NEW r \in MoreUrgent(hand.priority), NEW i \in DOMAIN queues'[r]
       PROVE  queues'[r][i].sequence >= hand.mark
  <2>1. r \in Priority
    BY <1>1 DEF MoreUrgent, Priority
  <2>2. CASE i \in DOMAIN queues[r] /\ queues'[r][i] = queues[r][i]
    BY <2>2, <1>10 DEF OvertakeInv, NotOvertaken
  <2>3. CASE queues'[r][i].sequence = nextSequence
    BY <2>3, <1>1, <1>10 DEF OvertakeInv
  <2>. QED
    BY <2>1, <2>2, <2>3, <1>5, <1>6
<1>11. wpc' = "dispatch" => hand.mark <= nextSequence'
    BY <1>1, <1>2 DEF OvertakeInv
<1>12. OrderInv'
    BY <1>7, <1>8, <1>9 DEF OrderInv
<1>13. OvertakeInv'
    BY <1>10, <1>11 DEF OvertakeInv, NotOvertaken
<1>. QED
    BY <1>12, <1>13

\* Taking the head of the most urgent queue: what stays behind it has a positive number, and
\* the more urgent queues are empty.
LEMMA PopOrder ==
    ASSUME TypeOK, OrderInv, NEW p \in Priority, PopIntent(p)
    PROVE  OrderInv' /\ OvertakeInv'
<1>1. /\ queues \in [Priority -> Seq(QueuedIntent)] /\ nextSequence \in Nat \ {0}
      /\ queues[p] # <<>>
      /\ \A r \in MoreUrgent(p) : queues[r] = <<>>
      /\ nextSequence' = nextSequence /\ wpc' = "dispatch"
      /\ hand'.priority = p /\ hand'.mark = nextSequence
    BY DEF TypeOK, QueuesOK, PopIntent, NextQueue
<1>2. /\ \A r \in Priority : r # p => queues'[r] = queues[r]
      /\ queues'[p] = Tail(queues[p])
    BY <1>1 DEF PopIntent
<1>3. /\ DOMAIN queues[p] = 1..Len(queues[p]) /\ Len(queues[p]) \in Nat /\ Len(queues[p]) >= 1
      /\ DOMAIN queues'[p] = 1..(Len(queues[p]) - 1)
      /\ \A i \in 1..(Len(queues[p]) - 1) : queues'[p][i] = queues[p][i + 1]
    BY <1>1, <1>2, TailFacts
<1>4. \A i \in DOMAIN queues[p] : queues[p][i].sequence \in Nat
    BY <1>1, SequenceNumbers
<1>5. QueuesInOrder'
  <2>. SUFFICES ASSUME NEW r \in Priority, NEW i \in DOMAIN queues'[r],
                       NEW j \in DOMAIN queues'[r], i < j
                PROVE  queues'[r][i].sequence < queues'[r][j].sequence
    BY DEF QueuesInOrder
  <2>1. CASE r # p
    BY <2>1, <1>2 DEF OrderInv, QueuesInOrder
  <2>2. CASE r = p
    <3>1. i + 1 \in DOMAIN queues[p] /\ j + 1 \in DOMAIN queues[p] /\ i + 1 < j + 1
        BY <2>2, <1>3
    <3>2. queues'[p][i] = queues[p][i + 1] /\ queues'[p][j] = queues[p][j + 1]
        BY <2>2, <1>3
    <3>. QED
        BY <3>1, <3>2, <2>2 DEF OrderInv, QueuesInOrder
  <2>. QED
    BY <2>1, <2>2
<1>6. \A r \in Priority : \A i \in DOMAIN queues'[r] : queues'[r][i].sequence < nextSequence
  <2>. SUFFICES ASSUME NEW r \in Priority, NEW i \in DOMAIN queues'[r]
                PROVE  queues'[r][i].sequence < nextSequence
    OBVIOUS
  <2>1. CASE r # p
    BY <2>1, <1>2 DEF OrderInv
  <2>2. CASE r = p
    <3>1. i + 1 \in DOMAIN queues[p] /\ queues'[p][i] = queues[p][i + 1]
        BY <2>2, <1>3
    <3>. QED
        BY <3>1, <2>2 DEF OrderInv
  <2>. QED
    BY <2>1, <2>2
<1>7. \A i \in DOMAIN queues'[p] : queues'[p][i].sequence > 0
  <2>. SUFFICES ASSUME NEW i \in DOMAIN queues'[p]
                PROVE  queues'[p][i].sequence > 0
    OBVIOUS
  <2>1. 1 \in DOMAIN queues[p] /\ i + 1 \in DOMAIN queues[p] /\ 1 < i + 1
        /\ queues'[p][i] = queues[p][i + 1]
    BY <1>3
  <2>2. queues[p][1].sequence < queues[p][i + 1].sequence
    BY <2>1 DEF OrderInv, QueuesInOrder
  <2>. QED
    BY <2>1, <2>2, <1>4
<1>8. OrderInv'
    BY <1>1, <1>5, <1>6, <1>7 DEF OrderInv
<1>9. \A r \in MoreUrgent(p) : r \in Priority /\ r # p
    BY DEF MoreUrgent, Priority
<1>10. \A r \in MoreUrgent(p) : queues'[r] = <<>>
    BY <1>1, <1>2, <1>9
<1>11. NotOvertaken'
    BY <1>1, <1>10 DEF NotOvertaken
<1>. QED
    BY <1>1, <1>8, <1>11 DEF OvertakeInv

\* Putting an intent back with the number 0 keeps the order: everything behind it has a
\* positive one.
LEMMA PutBackOrder ==
    ASSUME TypeOK, OrderInv, OverBudget
    PROVE  OrderInv'
<1>. DEFINE p == hand.priority
            x == [intent |-> hand.intent, sequence |-> 0]
<1>1. /\ queues \in [Priority -> Seq(QueuedIntent)] /\ nextSequence \in Nat \ {0}
      /\ p \in Priority /\ x \in QueuedIntent
      /\ nextSequence' = nextSequence /\ wpc = "dispatch" /\ wpc' = "end"
    BY DEF TypeOK, QueuesOK, OverBudget, QueuedIntent
<1>2. /\ \A r \in Priority : r # p => queues'[r] = queues[r]
      /\ queues'[p] = <<x>> \o queues[p]
    BY <1>1 DEF OverBudget, PutBack
<1>3. /\ DOMAIN queues[p] = 1..Len(queues[p]) /\ Len(queues[p]) \in Nat
      /\ DOMAIN queues'[p] = 1..(Len(queues[p]) + 1)
      /\ queues'[p][1].sequence = 0
      /\ \A i \in 2..(Len(queues[p]) + 1) : queues'[p][i] = queues[p][i - 1]
    BY <1>1, <1>2, FrontFacts
<1>4. \A i \in DOMAIN queues[p] : queues[p][i].sequence > 0
    BY <1>1 DEF OrderInv
<1>5. QueuesInOrder'
  <2>. SUFFICES ASSUME NEW r \in Priority, NEW i \in DOMAIN queues'[r],
                       NEW j \in DOMAIN queues'[r], i < j
                PROVE  queues'[r][i].sequence < queues'[r][j].sequence
    BY DEF QueuesInOrder
  <2>1. CASE r # p
    BY <2>1, <1>2 DEF OrderInv, QueuesInOrder
  <2>2. CASE r = p /\ i = 1
    <3>1. j - 1 \in DOMAIN queues[p] /\ queues'[p][j] = queues[p][j - 1]
        BY <2>2, <1>3
    <3>. QED
        BY <3>1, <2>2, <1>3, <1>4
  <2>3. CASE r = p /\ i # 1
    <3>1. i \in 2..(Len(queues[p]) + 1) /\ j \in 2..(Len(queues[p]) + 1)
        BY <2>3, <1>3
    <3>2. i - 1 \in DOMAIN queues[p] /\ j - 1 \in DOMAIN queues[p] /\ i - 1 < j - 1
        BY <3>1, <1>3
    <3>3. queues'[p][i] = queues[p][i - 1] /\ queues'[p][j] = queues[p][j - 1]
        BY <3>1, <1>3
    <3>. QED
        BY <3>2, <3>3, <2>3 DEF OrderInv, QueuesInOrder
  <2>. QED
    BY <2>1, <2>2, <2>3
<1>6. \A r \in Priority : \A i \in DOMAIN queues'[r] : queues'[r][i].sequence < nextSequence
  <2>. SUFFICES ASSUME NEW r \in Priority, NEW i \in DOMAIN queues'[r]
                PROVE  queues'[r][i].sequence < nextSequence
    OBVIOUS
  <2>1. CASE r # p
    BY <2>1, <1>2 DEF OrderInv
  <2>2. CASE r = p /\ i = 1
    BY <2>2, <1>1, <1>3
  <2>3. CASE r = p /\ i # 1
    <3>1. i - 1 \in DOMAIN queues[p] /\ queues'[p][i] = queues[p][i - 1]
        BY <2>3, <1>3
    <3>. QED
        BY <3>1, <2>3 DEF OrderInv
  <2>. QED
    BY <2>1, <2>2, <2>3
<1>. QED
    BY <1>1, <1>5, <1>6 DEF OrderInv

\* Every action keeps the order of the queues and lets nothing overtake.
LEMMA OrderStep ==
    ASSUME TypeOK, LifecycleInv, OrderInv, OvertakeInv, [Next]_vars
    PROVE  OrderInv' /\ OvertakeInv'
<1>1. CASE OverBudget
  <2>1. wpc' # "dispatch"
    BY <1>1 DEF OverBudget
  <2>. QED
    BY <1>1, <2>1, PutBackOrder DEF OvertakeInv, NotOvertaken
<1>2. CASE ScheduleCorrection
  <2>1. hand.intent \in Intent
    BY DEF TypeOK, QueuesOK
  <2>2. [hand.intent EXCEPT !.retry = TRUE] \in Intent
    BY <2>1, Zenon DEF Intent
  <2>. QED
    BY <1>2, <2>2, EnqueueOrder DEF ScheduleCorrection, workVars, Priority
<1>3. CASE OfferIntent
  <2>1. [origin |-> nextSequence, retry |-> FALSE, frame |-> dframe] \in Intent
    BY DEF TypeOK, QueuesOK, CountersOK, Intent
  <2>2. Head(dbatch) \in Priority
    <3>1. Head(dbatch) \in Proposals
        BY <1>3 DEF TypeOK, CountersOK, OfferIntent, PassOver
    <3>. QED
        BY <1>3, <3>1, ConfigAssumption DEF OfferIntent
  <2>. QED
    BY <1>3, <2>1, <2>2, EnqueueOrder DEF OfferIntent, workVars
<1>4. ASSUME NEW limit \in FrameLimits, Start(limit)
      PROVE  OrderInv' /\ OvertakeInv'
    BY <1>4 DEF Start, ResetSession, OrderInv, OvertakeInv, NotOvertaken, QueuesInOrder
<1>5. ASSUME NEW limit \in FrameLimits, StartRefused(limit)
      PROVE  OrderInv' /\ OvertakeInv'
  <2>1. wpc # "dispatch"
    BY <1>5 DEF StartRefused, LifecycleInv
  <2>. QED
    BY <1>5, <2>1
    DEF StartRefused, ResetSession, OrderInv, OvertakeInv, NotOvertaken, QueuesInOrder
<1>6. ASSUME NEW p \in ClientPriorities, NEW retry \in ClientRetries, ClientEnqueue(p, retry)
      PROVE  OrderInv' /\ OvertakeInv'
  <2>1. [origin |-> nextSequence, retry |-> retry, frame |-> 0] \in Intent
    BY ConfigAssumption DEF TypeOK, QueuesOK, Intent
  <2>2. p \in Priority
    BY ConfigAssumption
  <2>. QED
    BY <1>6, <2>1, <2>2, EnqueueOrder DEF ClientEnqueue, workVars
<1>7. ASSUME NEW p \in Priority, PopIntent(p)
      PROVE  OrderInv' /\ OvertakeInv'
    BY <1>7, PopOrder
<1>8. ASSUME \/ StopRequest
             \/ StopDecision
             \/ JoinWorker
             \/ JoinDecision
             \/ StopPipeline
             \/ CaptureState
             \/ Publish
             \/ RefreshElsewhere
             \/ LoopStops
             \/ LoopReachesMaxFrames
             \/ LoopContinues
             \/ BeginFrame
             \/ Observe
             \/ SubmitDecisionState
             \/ NothingToPop
             \/ RecordFeedback
             \/ NoFeedback
             \/ CorrectionRefused
             \/ CountCorrection
             \/ CountExecuted
             \/ WaitFrame
             \/ ExitLoop
             \/ TakeState
             \/ DecisionStops
             \/ OfferSkipped
             \/ FinishPass
             \/ \E type \in EventTypes, p \in EventPriorities : HandleEvent(type, p)
             \/ \E on \in BOOLEAN : SetDecisionProvider(on)
             \/ \E valid \in BOOLEAN : RefreshRegistry(valid)
             \/ \E outcome \in Outcomes : ExecuteInBudget(outcome)
             \/ \E late \in BOOLEAN : EndFrame(late)
             \/ \E batch \in Batches, late \in BOOLEAN : Decide(batch, late)
             \/ UNCHANGED vars
      PROVE  OrderInv' /\ OvertakeInv'
  <2>1. UNCHANGED queueVars /\ (wpc' = "dispatch" => wpc = "dispatch" /\ hand' = hand)
    BY <1>8 DEF vars, lifeVars, queueVars, eventVars, workVars, passVars, slotVars,
       worldVars, StopRequest, StopDecision, JoinWorker, JoinDecision, StopPipeline,
       CaptureState, Publish, RefreshElsewhere, LoopStops, LoopReachesMaxFrames,
       LoopContinues, BeginFrame, Observe, SubmitDecisionState, NothingToPop,
       RecordFeedback, NoFeedback, CorrectionRefused, CountCorrection, CountExecuted,
       WaitFrame, ExitLoop, TakeState, DecisionStops, OfferSkipped, FinishPass,
       HandleEvent, SetDecisionProvider, RefreshRegistry, ExecuteInBudget, EndFrame,
       Decide
  <2>. QED
    BY <2>1 DEF queueVars, OrderInv, OvertakeInv, NotOvertaken, QueuesInOrder
<1>. QED
    BY <1>1, <1>2, <1>3, <1>4, <1>5, <1>6, <1>7, <1>8
    DEF Next, ControllerStep, ClientStep, ObserverStep, WorkerStep, DecisionStep

\* Empty queues are in order.
LEMMA OrderInit == Init => OrderInv /\ OvertakeInv
    BY DEF Init, OrderInv, OvertakeInv, NotOvertaken, QueuesInOrder

\* The order invariant holds in every reachable state.
LEMMA OrderCorrect == Spec => [](OrderInv /\ OvertakeInv)
<1>1. TypeOK /\ LifecycleInv /\ OrderInv /\ OvertakeInv /\ [Next]_vars
        => OrderInv' /\ OvertakeInv'
    BY OrderStep
<1>. QED
    BY OrderInit, LifecycleCorrect, <1>1, PTL DEF Spec

\* Each queue keeps the order of acceptance, although the worker takes an intent out and puts
\* it back in separate critical sections.
THEOREM QueueOrder == Spec => []QueuesInOrder
<1>1. OrderInv => QueuesInOrder
    BY DEF OrderInv
<1>. QED
    BY OrderCorrect, <1>1, PTL

\* No more urgent intent that was there when the worker popped waits behind the popped one.
THEOREM NoOvertaking == Spec => []NotOvertaken
<1>1. OvertakeInv => NotOvertaken
    BY DEF OvertakeInv
<1>. QED
    BY OrderCorrect, <1>1, PTL

-----------------------------------------------------------------------------
\* Notified changes. NoLostRefresh is inductive: BeginFrame hands the flags it clears to the
\* refresh of the frame, and only that refresh forgets a change.

\* Each action keeps the flag of a change the registry was not asked for yet.
LEMMA RefreshStep ==
    ASSUME TypeOK, LifecycleInv, NoLostRefresh, [Next]_vars
    PROVE  NoLostRefresh'
<1>. USE DEF TypeOK, FlagsOK, PlacesOK, WorkerPlaces, StatesOK, NoLostRefresh
<1>1. CASE BeginFrame
    BY <1>1 DEF BeginFrame, TakenRefresh
<1>2. ASSUME NEW valid \in BOOLEAN, RefreshRegistry(valid)
      PROVE  NoLostRefresh'
    BY <1>2 DEF RefreshRegistry
<1>3. ASSUME NEW limit \in FrameLimits, Start(limit) \/ StartRefused(limit)
      PROVE  NoLostRefresh'
    BY <1>3 DEF Start, StartRefused, ResetSession
<1>4. ASSUME NEW type \in EventTypes, NEW p \in EventPriorities, HandleEvent(type, p)
      PROVE  NoLostRefresh'
    BY <1>4 DEF HandleEvent, workVars
<1>5. ASSUME NEW late \in BOOLEAN, EndFrame(late)
      PROVE  NoLostRefresh'
    BY <1>5 DEF EndFrame, eventVars
<1>6. CASE JoinWorker
    BY <1>6 DEF JoinWorker, eventVars, workVars
<1>7. ASSUME \/ StopRequest
             \/ StopDecision
             \/ JoinDecision
             \/ StopPipeline
             \/ CaptureState
             \/ Publish
             \/ RefreshElsewhere
             \/ LoopStops
             \/ LoopReachesMaxFrames
             \/ LoopContinues
             \/ Observe
             \/ SubmitDecisionState
             \/ NothingToPop
             \/ OverBudget
             \/ RecordFeedback
             \/ NoFeedback
             \/ ScheduleCorrection
             \/ CorrectionRefused
             \/ CountCorrection
             \/ CountExecuted
             \/ WaitFrame
             \/ ExitLoop
             \/ TakeState
             \/ DecisionStops
             \/ OfferIntent
             \/ OfferSkipped
             \/ FinishPass
             \/ \E p \in ClientPriorities, retry \in ClientRetries : ClientEnqueue(p, retry)
             \/ \E on \in BOOLEAN : SetDecisionProvider(on)
             \/ \E p \in Priority : PopIntent(p)
             \/ \E outcome \in Outcomes : ExecuteInBudget(outcome)
             \/ \E batch \in Batches, late \in BOOLEAN : Decide(batch, late)
             \/ UNCHANGED vars
      PROVE  NoLostRefresh'
  <2>1. /\ UNCHANGED <<pendingUiRefresh, pendingFsRefresh, uiDirty, fsDirty, refresh>>
        /\ wpc = "refresh" => wpc' = "refresh"
    BY <1>7 DEF vars, lifeVars, queueVars, eventVars, workVars, passVars, slotVars,
       worldVars, StopRequest, StopDecision, JoinDecision, StopPipeline, CaptureState,
       Publish, RefreshElsewhere, LoopStops, LoopReachesMaxFrames, LoopContinues, Observe,
       SubmitDecisionState, NothingToPop, OverBudget, RecordFeedback, NoFeedback,
       ScheduleCorrection, CorrectionRefused, CountCorrection, CountExecuted, WaitFrame,
       ExitLoop, TakeState, DecisionStops, OfferIntent, OfferSkipped, FinishPass,
       ClientEnqueue, SetDecisionProvider, PopIntent, ExecuteInBudget, Decide
  <2>. QED
    BY <2>1
<1>. QED
    BY <1>1, <1>2, <1>3, <1>4, <1>5, <1>6, <1>7
    DEF Next, ControllerStep, ClientStep, ObserverStep, WorkerStep, DecisionStep

\* A change that was notified while the worker took the flags, refreshed or looked at the
\* state is refreshed for in a later frame (HandleEvent, RunLoop).
THEOREM RefreshKept == Spec => []NoLostRefresh
<1>1. Init => NoLostRefresh
    BY DEF Init, NoLostRefresh
<1>2. TypeOK /\ LifecycleInv /\ NoLostRefresh /\ [Next]_vars => NoLostRefresh'
    BY RefreshStep
<1>. QED
    BY LifecycleCorrect, <1>1, <1>2, PTL DEF Spec

-----------------------------------------------------------------------------
\* The frame a decision was made for. A pass may outlive its session only as long as the
\* runtime refuses intents; an intent in the worker's hand goes back to a queue, or comes back
\* as a correction, with the frame it had.

FramesInv ==
    /\ DecidedThisSession
    /\ pendingFrame <= stats.frames
    /\ running => dframe <= stats.frames
    /\ dpc \notin {"decide", "offer"} => dframe = 0
    /\ wpc \in {"dispatch", "feedback", "correct"} => hand.intent.frame <= stats.frames

\* The quantities FramesInv compares are natural numbers.
LEMMA FrameTypes ==
    ASSUME TypeOK
    PROVE  /\ stats.frames \in Nat /\ pendingFrame \in Nat /\ dframe \in Nat
           /\ hand.intent.frame \in Nat /\ hand.priority \in Priority
           /\ \A p \in Priority : \A i \in DOMAIN queues[p] :
                    queues[p][i].intent.frame \in Nat
<1>1. stats.frames \in Nat /\ pendingFrame \in Nat /\ dframe \in Nat
    BY DEF TypeOK, CountersOK, Stats
<1>2. hand.intent.frame \in Nat /\ hand.priority \in Priority
    BY DEF TypeOK, QueuesOK, Intent
<1>3. ASSUME NEW p \in Priority, NEW i \in DOMAIN queues[p]
      PROVE  queues[p][i].intent.frame \in Nat
  <2>1. queues[p][i] \in QueuedIntent
    BY DEF TypeOK, QueuesOK
  <2>. QED
    BY <2>1 DEF QueuedIntent, Intent
<1>. QED
    BY <1>1, <1>2, <1>3

\* An intent of this session joins its queue.
LEMMA EnqueueFrames ==
    ASSUME TypeOK, DecidedThisSession, NEW p \in Priority, NEW intent \in Intent,
           intent.frame <= stats.frames, EnqueueIntent(intent, p), stats' = stats
    PROVE  DecidedThisSession'
<1>. DEFINE x == [intent |-> intent, sequence |-> nextSequence]
<1>1. queues \in [Priority -> Seq(QueuedIntent)] /\ x \in QueuedIntent
    BY DEF TypeOK, QueuesOK, QueuedIntent
<1>2. /\ \A r \in Priority : r # p => queues'[r] = queues[r]
      /\ queues'[p] = Append(queues[p], x)
    BY <1>1 DEF EnqueueIntent
<1>3. \A i \in DOMAIN queues'[p] :
         (i \in DOMAIN queues[p] /\ queues'[p][i] = queues[p][i]) \/ queues'[p][i] = x
    BY <1>1, <1>2, AppendFacts
<1>. QED
    BY <1>2, <1>3 DEF DecidedThisSession

\* The worker takes an intent of this session out of a queue.
LEMMA PopFrames ==
    ASSUME TypeOK, FramesInv, NEW p \in Priority, PopIntent(p)
    PROVE  FramesInv'
<1>1. /\ queues \in [Priority -> Seq(QueuedIntent)] /\ queues[p] # <<>>
      /\ hand'.intent = Head(queues[p]).intent
      /\ UNCHANGED <<stats, pendingFrame, running, dframe, dpc>>
    BY DEF TypeOK, QueuesOK, PopIntent, NextQueue, lifeVars, slotVars, passVars
<1>2. /\ \A r \in Priority : r # p => queues'[r] = queues[r]
      /\ queues'[p] = Tail(queues[p])
    BY <1>1 DEF PopIntent
<1>3. \A i \in DOMAIN queues'[p] : i + 1 \in DOMAIN queues[p] /\ queues'[p][i] = queues[p][i + 1]
    BY <1>1, <1>2, TailFacts
<1>4. 1 \in DOMAIN queues[p] /\ Head(queues[p]) = queues[p][1]
    BY <1>1, TailFacts
<1>5. DecidedThisSession'
    BY <1>1, <1>2, <1>3 DEF FramesInv, DecidedThisSession
<1>6. hand'.intent.frame <= stats'.frames
    BY <1>1, <1>4 DEF FramesInv, DecidedThisSession
<1>. QED
    BY <1>1, <1>5, <1>6 DEF FramesInv

\* Over budget, the worker puts it back.
LEMMA PutBackFrames ==
    ASSUME TypeOK, FramesInv, OverBudget
    PROVE  FramesInv'
<1>. DEFINE p == hand.priority
            x == [intent |-> hand.intent, sequence |-> 0]
<1>1. /\ queues \in [Priority -> Seq(QueuedIntent)] /\ p \in Priority /\ x \in QueuedIntent
      /\ wpc = "dispatch" /\ wpc' = "end"
      /\ stats'.frames = stats.frames
      /\ UNCHANGED <<pendingFrame, running, dframe, dpc>>
    BY DEF TypeOK, QueuesOK, CountersOK, Stats, QueuedIntent, OverBudget, lifeVars, slotVars,
       passVars
<1>2. /\ \A r \in Priority : r # p => queues'[r] = queues[r]
      /\ queues'[p] = <<x>> \o queues[p]
    BY <1>1 DEF OverBudget, PutBack
<1>3. \A i \in DOMAIN queues'[p] :
         \/ queues'[p][i] = x
         \/ i - 1 \in DOMAIN queues[p] /\ queues'[p][i] = queues[p][i - 1]
    BY <1>1, <1>2, FrontFacts
<1>4. x.intent.frame <= stats.frames
    BY <1>1 DEF FramesInv
<1>5. DecidedThisSession'
    BY <1>1, <1>2, <1>3, <1>4 DEF FramesInv, DecidedThisSession
<1>. QED
    BY <1>1, <1>5 DEF FramesInv

\* Each action keeps the frames of waiting intents within the session.
LEMMA FramesStep ==
    ASSUME TypeOK, LifecycleInv, FramesInv, [Next]_vars
    PROVE  FramesInv'
<1>. USE FrameTypes
<1>1. CASE OverBudget
    BY <1>1, PutBackFrames
<1>2. ASSUME NEW p \in Priority, PopIntent(p)
      PROVE  FramesInv'
    BY <1>2, PopFrames
<1>3. CASE ScheduleCorrection
  <2>1. /\ hand.intent \in Intent /\ wpc = "correct"
        /\ wpc' = "countCorrection" /\ UNCHANGED <<stats, pendingFrame, running, dframe, dpc>>
    BY <1>3 DEF TypeOK, QueuesOK, ScheduleCorrection, lifeVars, slotVars, passVars
  <2>2. [hand.intent EXCEPT !.retry = TRUE] \in Intent
    BY <2>1, Zenon DEF Intent
  <2>3. [hand.intent EXCEPT !.retry = TRUE].frame = hand.intent.frame
    BY <2>1 DEF Intent
  <2>4. DecidedThisSession'
    BY <1>3, <2>1, <2>2, <2>3, EnqueueFrames DEF ScheduleCorrection, FramesInv, Priority
  <2>. QED
    BY <2>1, <2>4 DEF FramesInv
<1>4. CASE OfferIntent
  <2>1. /\ [origin |-> nextSequence, retry |-> FALSE, frame |-> dframe] \in Intent
        /\ running /\ UNCHANGED <<stats, pendingFrame, running, dframe, dpc, hand, wpc>>
    BY <1>4 DEF TypeOK, QueuesOK, CountersOK, Intent, OfferIntent, EnqueueIntent, lifeVars,
       slotVars, workVars
  <2>2. Head(dbatch) \in Priority
    <3>1. Head(dbatch) \in Proposals
        BY <1>4 DEF TypeOK, CountersOK, OfferIntent, PassOver
    <3>. QED
        BY <1>4, <3>1, ConfigAssumption DEF OfferIntent
  <2>3. DecidedThisSession'
    BY <1>4, <2>1, <2>2, EnqueueFrames DEF OfferIntent, FramesInv
  <2>. QED
    BY <2>1, <2>3 DEF FramesInv
<1>5. ASSUME NEW p \in ClientPriorities, NEW retry \in ClientRetries, ClientEnqueue(p, retry)
      PROVE  FramesInv'
  <2>1. /\ [origin |-> nextSequence, retry |-> retry, frame |-> 0] \in Intent
        /\ p \in Priority
        /\ UNCHANGED <<stats, pendingFrame, running, dframe, dpc, hand, wpc>>
    BY <1>5, ConfigAssumption
    DEF TypeOK, QueuesOK, Intent, ClientEnqueue, lifeVars, slotVars, passVars, workVars
  <2>2. DecidedThisSession'
    BY <1>5, <2>1, EnqueueFrames DEF ClientEnqueue, FramesInv
  <2>. QED
    BY <2>1, <2>2 DEF FramesInv
<1>6. ASSUME NEW limit \in FrameLimits, Start(limit)
      PROVE  FramesInv'
  <2>1. dpc = "off" /\ dframe = 0
    BY <1>6 DEF Start, LifecycleInv, FramesInv
  <2>2. /\ queues' = [p \in Priority |-> <<>>] /\ stats'.frames = 0 /\ pendingFrame' = 0
        /\ wpc' = "top" /\ dframe' = 0
    BY <1>6, <2>1 DEF Start, ResetSession, NoStats, passVars
  <2>. QED
    BY <2>2 DEF FramesInv, DecidedThisSession
<1>7. ASSUME NEW limit \in FrameLimits, StartRefused(limit)
      PROVE  FramesInv'
  <2>1. wpc \in {"off", "exit", "done"}
    BY <1>7 DEF StartRefused, LifecycleInv
  <2>2. /\ queues' = [p \in Priority |-> <<>>] /\ stats'.frames = 0 /\ pendingFrame' = 0
        /\ ~running' /\ UNCHANGED <<wpc, dpc, dframe>>
    BY <1>7 DEF StartRefused, ResetSession, NoStats, passVars
  <2>. QED
    BY <2>1, <2>2 DEF FramesInv, DecidedThisSession
<1>8. CASE BeginFrame
  <2>1. UpTo(FrameCap, stats.frames) \in Nat /\ UpTo(FrameCap, stats.frames) >= stats.frames
    BY BoundAssumption DEF UpTo
  <2>2. stats'.frames = UpTo(FrameCap, stats.frames)
    BY <1>8 DEF TypeOK, CountersOK, Stats, BeginFrame
  <2>3. UNCHANGED <<queues, pendingFrame, running, dframe, dpc>> /\ wpc' = "refresh"
    BY <1>8 DEF BeginFrame, queueVars, slotVars, lifeVars, passVars
  <2>. QED
    BY <2>1, <2>2, <2>3 DEF FramesInv, DecidedThisSession
<1>9. ASSUME NEW outcome \in Outcomes, ExecuteInBudget(outcome)
      PROVE  FramesInv'
  <2>1. /\ hand'.intent.frame = stats.frames
        /\ UNCHANGED <<stats, queues, pendingFrame, running, dframe, dpc>>
    BY <1>9 DEF TypeOK, QueuesOK, Intent, ExecuteInBudget, queueVars, slotVars, lifeVars, passVars
  <2>. QED
    BY <2>1 DEF FramesInv, DecidedThisSession
<1>10. CASE TakeState
    BY <1>10 DEF TakeState, FramesInv, DecidedThisSession, queueVars, workVars, lifeVars
<1>11. CASE FinishPass
  <2>1. stats'.frames = stats.frames /\ UNCHANGED <<queues, pendingFrame, running, hand, wpc>>
        /\ dframe' = 0
    BY <1>11 DEF TypeOK, CountersOK, Stats, FinishPass, queueVars, slotVars, lifeVars, workVars
  <2>. QED
    BY <2>1 DEF FramesInv, DecidedThisSession
<1>12. ASSUME \/ StopDecision
              \/ SubmitDecisionState
              \/ \E on \in BOOLEAN : SetDecisionProvider(on)
      PROVE  FramesInv'
  <2>1. /\ UNCHANGED <<stats, queues, running, dframe, dpc, hand>>
        /\ pendingFrame' \in {0, pendingFrame, stats.frames}
        /\ wpc' \in {wpc, "pop"}
    BY <1>12 DEF StopDecision, SubmitDecisionState, SetDecisionProvider, lifeVars, queueVars,
       workVars, passVars
  <2>. QED
    BY <2>1 DEF FramesInv, DecidedThisSession
<1>13. ASSUME NEW late \in BOOLEAN, EndFrame(late)
       PROVE  FramesInv'
  <2>1. /\ stats'.frames = stats.frames /\ wpc' = "wait"
        /\ UNCHANGED <<queues, pendingFrame, running, dframe, dpc>>
    BY <1>13 DEF TypeOK, CountersOK, Stats, EndFrame, queueVars, slotVars, lifeVars, passVars
  <2>. QED
    BY <2>1 DEF FramesInv, DecidedThisSession
<1>14. ASSUME RecordFeedback \/ CountCorrection \/ CountExecuted
       PROVE  FramesInv'
  <2>1. /\ stats'.frames = stats.frames /\ UNCHANGED hand
        /\ wpc' \in {"dispatch", "feedback", "correct"} => wpc = "feedback"
        /\ UNCHANGED <<queues, pendingFrame, running, dframe, dpc>>
    BY <1>14 DEF TypeOK, CountersOK, Stats, RecordFeedback, CountCorrection, CountExecuted,
       queueVars, slotVars, lifeVars, passVars, workVars
  <2>. QED
    BY <2>1 DEF FramesInv, DecidedThisSession
<1>15. ASSUME \/ StopRequest
              \/ JoinWorker
              \/ JoinDecision
              \/ StopPipeline
              \/ CaptureState
              \/ Publish
              \/ RefreshElsewhere
              \/ LoopStops
              \/ LoopReachesMaxFrames
              \/ LoopContinues
              \/ Observe
              \/ NothingToPop
              \/ NoFeedback
              \/ CorrectionRefused
              \/ WaitFrame
              \/ ExitLoop
              \/ DecisionStops
              \/ OfferSkipped
              \/ \E type \in EventTypes, p \in EventPriorities : HandleEvent(type, p)
              \/ \E valid \in BOOLEAN : RefreshRegistry(valid)
              \/ \E batch \in Batches, late \in BOOLEAN : Decide(batch, late)
              \/ UNCHANGED vars
      PROVE  FramesInv'
  <2>1. /\ UNCHANGED <<queues, stats, pendingFrame, dframe, hand>>
        /\ running' => running
        /\ dpc' \in {"decide", "offer"} <=> dpc \in {"decide", "offer"}
        /\ wpc' \in {"dispatch", "feedback", "correct"} => wpc' = wpc
    BY <1>15 DEF vars, lifeVars, queueVars, eventVars, workVars, passVars, slotVars,
       worldVars, StopRequest, JoinWorker, JoinDecision, StopPipeline, CaptureState,
       Publish, RefreshElsewhere, LoopStops, LoopReachesMaxFrames, LoopContinues, Observe,
       NothingToPop, NoFeedback, CorrectionRefused, WaitFrame, ExitLoop, DecisionStops,
       OfferSkipped, HandleEvent, RefreshRegistry, Decide
  <2>. QED
    BY <2>1 DEF FramesInv, DecidedThisSession
<1>. QED
    BY <1>1, <1>2, <1>3, <1>4, <1>5, <1>6, <1>7, <1>8, <1>9, <1>10, <1>11, <1>12, <1>13,
       <1>14, <1>15
    DEF Next, ControllerStep, ClientStep, ObserverStep, WorkerStep, DecisionStep

\* A pass that began in an earlier session never puts an intent into a queue of this one,
\* although a session that ended by itself leaves its decision worker running and a refused
\* Start resets the frame counter under it (Start, DecisionLoop).
THEOREM DecisionsBelong == Spec => []DecidedThisSession
<1>1. Init => FramesInv
    BY DEF Init, FramesInv, DecidedThisSession, NoStats, NoIntent, EmptyHand
<1>2. TypeOK /\ LifecycleInv /\ FramesInv /\ [Next]_vars => FramesInv'
    BY FramesStep
<1>3. FramesInv => DecidedThisSession
    BY DEF FramesInv
<1>. QED
    BY LifecycleCorrect, <1>1, <1>2, <1>3, PTL DEF Spec

-----------------------------------------------------------------------------
\* The counters. Each is raised in a critical section of its own, some places later than what
\* it counts: the invariant says how far behind each one is, place by place.

Off(places) == IF wpc \in places THEN 1 ELSE 0
Accepted == IF dpc = "offer" THEN daccepted ELSE 0

CountsInv ==
    /\ stats.corrections + Off({"correct", "countCorrection"}) <= stats.mismatches
    /\ stats.mismatches <= stats.samples
    /\ stats.samples + Off({"feedback"}) <= Len(history)
    /\ stats.executed + Off({"feedback", "correct", "countCorrection", "count"}) = Len(history)
    /\ running => stats.produced + stats.corrections + Accepted + Off({"countCorrection"})
                    < nextSequence

\* The quantities CountsInv compares are natural numbers.
LEMMA CountTypes ==
    ASSUME TypeOK
    PROVE  /\ stats \in Stats
           /\ stats.corrections \in Nat /\ stats.mismatches \in Nat /\ stats.samples \in Nat
           /\ stats.executed \in Nat /\ stats.produced \in Nat /\ daccepted \in Nat
           /\ nextSequence \in Nat /\ Len(history) \in Nat
<1>1. history \in Seq([origin : Nat, retry : BOOLEAN]) /\ nextSequence \in Nat
      /\ stats \in Stats /\ daccepted \in Nat
    BY DEF TypeOK, QueuesOK, CountersOK
<1>. QED
    BY <1>1 DEF Stats

\* Each action leaves the counters as far behind as the places of the threads say.
LEMMA CountsStep ==
    ASSUME TypeOK, LifecycleInv, CountsInv, [Next]_vars
    PROVE  CountsInv'
<1>. USE CountTypes
<1>1. ASSUME NEW limit \in FrameLimits, Start(limit)
      PROVE  CountsInv'
  <2>1. dpc = "off"
    BY <1>1 DEF Start, LifecycleInv
  <2>2. /\ stats' = NoStats /\ nextSequence' = 1 /\ history' = <<>>
        /\ wpc' = "top" /\ dpc' = "wait"
    BY <1>1, <2>1 DEF Start, ResetSession
  <2>. QED
    BY <2>2 DEF CountsInv, Off, Accepted, NoStats
<1>2. ASSUME NEW limit \in FrameLimits, StartRefused(limit)
      PROVE  CountsInv'
  <2>1. wpc \in {"off", "exit", "done"}
    BY <1>2 DEF StartRefused, LifecycleInv
  <2>2. stats' = NoStats /\ history' = <<>> /\ ~running' /\ wpc' = wpc
    BY <1>2 DEF StartRefused, ResetSession
  <2>. QED
    BY <2>1, <2>2 DEF CountsInv, Off, NoStats
<1>3. ASSUME NEW outcome \in Outcomes, ExecuteInBudget(outcome)
      PROVE  CountsInv'
  <2>1. /\ wpc = "dispatch" /\ wpc' = "feedback"
        /\ UNCHANGED <<stats, running, dpc, daccepted, nextSequence>>
    BY <1>3 DEF ExecuteInBudget, lifeVars, queueVars, passVars
  <2>2. Len(history') = Len(history) + 1
    <3>1. /\ history \in Seq([origin : Nat, retry : BOOLEAN])
          /\ [origin |-> hand.intent.origin, retry |-> hand.intent.retry]
                \in [origin : Nat, retry : BOOLEAN]
        BY DEF TypeOK, QueuesOK, Intent
    <3>. QED
        BY <1>3, <3>1 DEF ExecuteInBudget
  <2>. QED
    BY <2>1, <2>2 DEF CountsInv, Off, Accepted
<1>4. CASE RecordFeedback
  <2>1. /\ stats'.samples = stats.samples + 1
        /\ stats'.mismatches = IF Mismatch THEN stats.mismatches + 1 ELSE stats.mismatches
        /\ stats'.corrections = stats.corrections /\ stats'.executed = stats.executed
        /\ stats'.produced = stats.produced
    BY <1>4 DEF RecordFeedback, Stats
  <2>2. /\ wpc = "feedback"
        /\ (wpc' = "correct" /\ Mismatch) \/ wpc' = "count"
        /\ UNCHANGED <<running, dpc, daccepted, nextSequence, history>>
    BY <1>4 DEF RecordFeedback, lifeVars, queueVars, passVars, worldVars
  <2>. QED
    BY <2>1, <2>2 DEF CountsInv, Off, Accepted
<1>5. CASE ScheduleCorrection
  <2>1. /\ wpc = "correct" /\ wpc' = "countCorrection" /\ nextSequence' = nextSequence + 1
        /\ UNCHANGED <<stats, running, dpc, daccepted, history>>
    BY <1>5 DEF ScheduleCorrection, EnqueueIntent, lifeVars, passVars, worldVars
  <2>. QED
    BY <2>1 DEF CountsInv, Off, Accepted
<1>6. CASE CountCorrection
  <2>1. /\ stats'.corrections = stats.corrections + 1
        /\ stats'.mismatches = stats.mismatches /\ stats'.samples = stats.samples
        /\ stats'.executed = stats.executed /\ stats'.produced = stats.produced
    BY <1>6 DEF CountCorrection, Stats
  <2>2. /\ wpc = "countCorrection" /\ wpc' = "count"
        /\ UNCHANGED <<running, dpc, daccepted, nextSequence, history>>
    BY <1>6 DEF CountCorrection, lifeVars, queueVars, passVars, worldVars
  <2>. QED
    BY <2>1, <2>2 DEF CountsInv, Off, Accepted
<1>7. CASE CountExecuted
  <2>1. /\ stats'.executed = stats.executed + 1
        /\ stats'.mismatches = stats.mismatches /\ stats'.samples = stats.samples
        /\ stats'.corrections = stats.corrections /\ stats'.produced = stats.produced
    BY <1>7 DEF CountExecuted, Stats
  <2>2. /\ wpc = "count" /\ wpc' = "end"
        /\ UNCHANGED <<running, dpc, daccepted, nextSequence, history>>
    BY <1>7 DEF CountExecuted, lifeVars, queueVars, passVars, worldVars
  <2>. QED
    BY <2>1, <2>2 DEF CountsInv, Off, Accepted
<1>8. CASE FinishPass
  <2>1. /\ stats'.produced = stats.produced + daccepted
        /\ stats'.mismatches = stats.mismatches /\ stats'.samples = stats.samples
        /\ stats'.corrections = stats.corrections /\ stats'.executed = stats.executed
    BY <1>8 DEF FinishPass, Stats
  <2>2. /\ dpc = "offer" /\ dpc' = "wait"
        /\ UNCHANGED <<running, wpc, nextSequence, history>>
    BY <1>8 DEF FinishPass, lifeVars, queueVars, worldVars
  <2>. QED
    BY <2>1, <2>2 DEF CountsInv, Off, Accepted
<1>9. CASE OfferIntent
  <2>1. /\ dpc = "offer" /\ dpc' = dpc /\ daccepted' = daccepted + 1
        /\ nextSequence' = nextSequence + 1
        /\ UNCHANGED <<stats, running, wpc, history>>
    BY <1>9 DEF OfferIntent, EnqueueIntent, lifeVars, worldVars
  <2>. QED
    BY <2>1 DEF CountsInv, Off, Accepted
<1>10. ASSUME NEW p \in ClientPriorities, NEW retry \in ClientRetries, ClientEnqueue(p, retry)
       PROVE  CountsInv'
  <2>1. /\ nextSequence' = nextSequence + 1
        /\ UNCHANGED <<stats, running, wpc, dpc, daccepted, history>>
    BY <1>10 DEF ClientEnqueue, EnqueueIntent, lifeVars, passVars, worldVars
  <2>. QED
    BY <2>1 DEF CountsInv, Off, Accepted
<1>11. ASSUME NEW batch \in Batches, NEW late \in BOOLEAN, Decide(batch, late)
       PROVE  CountsInv'
  <2>1. /\ dpc = "decide" /\ daccepted' = 0
        /\ UNCHANGED <<stats, running, wpc, nextSequence, history>>
    BY <1>11 DEF Decide, lifeVars, queueVars, worldVars
  <2>. QED
    BY <2>1 DEF CountsInv, Off, Accepted
<1>12. ASSUME \/ BeginFrame
              \/ OverBudget
              \/ \E late \in BOOLEAN : EndFrame(late)
       PROVE  CountsInv'
  <2>1. /\ stats'.mismatches = stats.mismatches /\ stats'.samples = stats.samples
        /\ stats'.corrections = stats.corrections /\ stats'.executed = stats.executed
        /\ stats'.produced = stats.produced
    BY <1>12 DEF BeginFrame, OverBudget, EndFrame, Stats
  <2>2. /\ wpc \in {"begin", "dispatch", "end"} /\ wpc' \in {"refresh", "end", "wait"}
        /\ UNCHANGED <<running, dpc, daccepted, nextSequence, history>>
    BY <1>12 DEF BeginFrame, OverBudget, EndFrame, lifeVars, queueVars, passVars, worldVars
  <2>. QED
    BY <2>1, <2>2 DEF CountsInv, Off, Accepted
<1>13. ASSUME NoFeedback \/ CorrectionRefused
       PROVE  CountsInv'
  <2>1. /\ wpc \in {"feedback", "correct"} /\ wpc' = "count"
        /\ UNCHANGED <<stats, running, dpc, daccepted, nextSequence, history>>
    BY <1>13 DEF NoFeedback, CorrectionRefused, lifeVars, queueVars, passVars, worldVars
  <2>. QED
    BY <2>1 DEF CountsInv, Off, Accepted
<1>14. ASSUME \/ StopRequest
              \/ StopDecision
              \/ JoinWorker
              \/ JoinDecision
              \/ StopPipeline
              \/ CaptureState
              \/ Publish
              \/ RefreshElsewhere
              \/ LoopStops
              \/ LoopReachesMaxFrames
              \/ LoopContinues
              \/ Observe
              \/ SubmitDecisionState
              \/ NothingToPop
              \/ WaitFrame
              \/ ExitLoop
              \/ TakeState
              \/ DecisionStops
              \/ OfferSkipped
              \/ \E type \in EventTypes, p \in EventPriorities : HandleEvent(type, p)
              \/ \E on \in BOOLEAN : SetDecisionProvider(on)
              \/ \E valid \in BOOLEAN : RefreshRegistry(valid)
              \/ \E p \in Priority : PopIntent(p)
              \/ UNCHANGED vars
       PROVE  CountsInv'
  <2>1. /\ UNCHANGED <<stats, nextSequence, history, daccepted>>
        /\ running' => running
        /\ dpc' = "offer" <=> dpc = "offer"
        /\ \/ wpc' = wpc
           \/ {wpc, wpc'} \cap {"feedback", "correct", "countCorrection", "count"} = {}
    BY <1>14 DEF vars, lifeVars, queueVars, eventVars, workVars, passVars, slotVars,
       worldVars, StopRequest, StopDecision, JoinWorker, JoinDecision, StopPipeline,
       CaptureState, Publish, RefreshElsewhere, LoopStops, LoopReachesMaxFrames,
       LoopContinues, Observe, SubmitDecisionState, NothingToPop, WaitFrame, ExitLoop,
       TakeState, DecisionStops, OfferSkipped, HandleEvent, SetDecisionProvider,
       RefreshRegistry, PopIntent
  <2>. QED
    BY <2>1 DEF CountsInv, Off, Accepted
<1>. QED
    BY <1>1, <1>2, <1>3, <1>4, <1>5, <1>6, <1>7, <1>8, <1>9, <1>10, <1>11, <1>12, <1>13,
       <1>14
    DEF Next, ControllerStep, ClientStep, ObserverStep, WorkerStep, DecisionStep

\* Status never reports more corrections than mismatches, more mismatches than samples or
\* more of either than executions, and at most one execution is not counted yet, whatever
\* thread is between its critical sections (RecordFeedback, RunLoop, DecisionLoop).
THEOREM CountersAddUp == Spec => []Accounting
<1>1. Init => CountsInv
    BY DEF Init, CountsInv, Off, Accepted, NoStats
<1>2. TypeOK /\ LifecycleInv /\ CountsInv /\ [Next]_vars => CountsInv'
    BY CountsStep
<1>3. TypeOK /\ CountsInv => Accounting
    BY CountTypes DEF CountsInv, Off, Accepted, Accounting
<1>. QED
    BY LifecycleCorrect, <1>1, <1>2, <1>3, PTL DEF Spec

-----------------------------------------------------------------------------
\* ControlRuntime implements IntentDispatch, and what follows from that for the engine.

Item == [origin : Nat, retry : BOOLEAN]
ItemOf(x) == [origin |-> x.intent.origin, retry |-> x.intent.retry]

-----------------------------------------------------------------------------
\* Items commutes with what the actions do to a queue.

\* What Items returns, element by element.
LEMMA ItemsFacts ==
    ASSUME NEW q \in Seq(QueuedIntent)
    PROVE  /\ Items(q) \in Seq(Item) /\ Len(Items(q)) = Len(q) /\ Len(q) \in Nat
           /\ \A i \in 1..Len(q) : Items(q)[i] = ItemOf(q[i])
           /\ \A x \in QueuedIntent : ItemOf(x) \in Item
<1>1. \A x \in QueuedIntent : ItemOf(x) \in Item
    BY DEF QueuedIntent, Intent, ItemOf, Item
<1>2. DOMAIN q = 1..Len(q) /\ Len(q) \in Nat /\ \A i \in 1..Len(q) : q[i] \in QueuedIntent
    OBVIOUS
<1>3. Items(q) = [i \in 1..Len(q) |-> ItemOf(q[i])]
    BY <1>2 DEF Items, ItemOf
<1>4. \A i \in 1..Len(q) : ItemOf(q[i]) \in Item
    BY <1>1, <1>2
<1>. QED
    BY <1>1, <1>2, <1>3, <1>4, IsASeq

\* A queue that got an intent behind.
LEMMA ItemsAppend ==
    ASSUME NEW q \in Seq(QueuedIntent), NEW x \in QueuedIntent
    PROVE  Items(Append(q, x)) = Append(Items(q), ItemOf(x))
<1>1. Append(q, x) \in Seq(QueuedIntent)
    OBVIOUS
<1>2. /\ Items(q) \in Seq(Item) /\ Len(Items(q)) = Len(q) /\ Len(q) \in Nat
      /\ Items(Append(q, x)) \in Seq(Item) /\ Len(Items(Append(q, x))) = Len(q) + 1
      /\ ItemOf(x) \in Item
    BY <1>1, ItemsFacts, AppendProperties
<1>3. /\ Append(Items(q), ItemOf(x)) \in Seq(Item)
      /\ Len(Append(Items(q), ItemOf(x))) = Len(q) + 1
    BY <1>2, AppendProperties
<1>4. ASSUME NEW i \in 1..(Len(q) + 1)
      PROVE  Items(Append(q, x))[i] = Append(Items(q), ItemOf(x))[i]
  <2>1. Items(Append(q, x))[i] = ItemOf(Append(q, x)[i])
    BY <1>1, <1>2, ItemsFacts
  <2>2. CASE i = Len(q) + 1
    BY <1>2, <2>1, <2>2, AppendFacts
  <2>3. CASE i \in 1..Len(q)
    BY <1>2, <2>1, <2>3, AppendFacts, ItemsFacts
  <2>. QED
    BY <1>2, <2>2, <2>3
<1>. QED
    BY <1>2, <1>3, <1>4, SeqEqual

\* A queue that got an intent back in front.
LEMMA ItemsFront ==
    ASSUME NEW q \in Seq(QueuedIntent), NEW x \in QueuedIntent
    PROVE  Items(<<x>> \o q) = <<ItemOf(x)>> \o Items(q)
<1>1. <<x>> \o q \in Seq(QueuedIntent)
    OBVIOUS
<1>2. /\ Items(q) \in Seq(Item) /\ Len(Items(q)) = Len(q) /\ Len(q) \in Nat
      /\ Items(<<x>> \o q) \in Seq(Item) /\ Len(Items(<<x>> \o q)) = Len(q) + 1
      /\ ItemOf(x) \in Item
  <2>1. Len(<<x>> \o q) = Len(q) + 1 /\ Len(q) \in Nat
    OBVIOUS
  <2>. QED
    BY <1>1, <2>1, ItemsFacts
<1>3. /\ <<ItemOf(x)>> \o Items(q) \in Seq(Item)
      /\ Len(<<ItemOf(x)>> \o Items(q)) = Len(q) + 1
  <2>1. <<ItemOf(x)>> \in Seq(Item) /\ Len(<<ItemOf(x)>>) = 1
    BY <1>2
  <2>. QED
    BY <1>2, <2>1, ConcatProperties
<1>4. ASSUME NEW i \in 1..(Len(q) + 1)
      PROVE  Items(<<x>> \o q)[i] = (<<ItemOf(x)>> \o Items(q))[i]
  <2>1. Items(<<x>> \o q)[i] = ItemOf((<<x>> \o q)[i])
    BY <1>1, <1>2, ItemsFacts
  <2>2. CASE i = 1
    BY <1>2, <2>1, <2>2, FrontFacts
  <2>3. CASE i \in 2..(Len(q) + 1)
    <3>1. i - 1 \in 1..Len(q)
        BY <1>2, <2>3
    <3>. QED
        BY <1>2, <2>1, <2>3, <3>1, FrontFacts, ItemsFacts
  <2>. QED
    BY <1>2, <2>2, <2>3
<1>. QED
    BY <1>2, <1>3, <1>4, SeqEqual

\* A queue is its first intent and the rest of it.
LEMMA ItemsHead ==
    ASSUME NEW q \in Seq(QueuedIntent), q # <<>>
    PROVE  <<ItemOf(Head(q))>> \o Items(Tail(q)) = Items(q)
<1>1. Tail(q) \in Seq(QueuedIntent) /\ Head(q) \in QueuedIntent
    BY HeadTailProperties
<1>2. <<Head(q)>> \o Tail(q) = q
    BY <1>1
<1>. QED
    BY <1>1, <1>2, ItemsFront

\* The waiting items are sequences, one per priority.
LEMMA WaitingType ==
    ASSUME TypeOK
    PROVE  /\ Waiting \in [Priority -> Seq(Item)] /\ history \in Seq(Item)
           /\ \A p \in Priority : queues[p] \in Seq(QueuedIntent) /\ Items(queues[p]) \in Seq(Item)
           /\ ItemOf(hand) \in Item /\ hand.priority \in Priority
<1>1. \A p \in Priority : queues[p] \in Seq(QueuedIntent)
    BY DEF TypeOK, QueuesOK
<1>2. \A p \in Priority : Items(queues[p]) \in Seq(Item)
    BY <1>1, ItemsFacts
<1>3. ItemOf(hand) \in Item /\ hand.priority \in Priority
    BY DEF TypeOK, QueuesOK, Intent, ItemOf, Item
<1>4. \A p \in Priority : <<ItemOf(hand)>> \o Items(queues[p]) \in Seq(Item)
    BY <1>2, <1>3
<1>. QED
    BY <1>1, <1>2, <1>3, <1>4 DEF Waiting, ItemOf, TypeOK, QueuesOK, Item

-----------------------------------------------------------------------------
\* The simulation. What it needs to know of the runtime: names are taken from the sequence
\* counter and were all given out before, and until its correction is decided the intent in
\* the worker's hand is the last of the history and waits nowhere.

OriginInv ==
    /\ \A p \in Priority : \A i \in DOMAIN Waiting[p] : Waiting[p][i].origin < nextSequence
    /\ \A k \in DOMAIN history : history[k].origin < nextSequence

HandInv ==
    /\ wpc \in {"feedback", "correct"} =>
          /\ history # <<>> /\ history[Len(history)] = ItemOf(hand)
          /\ \A p \in Priority : \A i \in DOMAIN Waiting[p] :
                Waiting[p][i].origin # hand.intent.origin
    /\ wpc = "correct" => ~hand.intent.retry

\* An intent accepted by the queues is one accepted by the dispatch.
LEMMA EnqueueWaits ==
    ASSUME TypeOK, NEW p \in Priority, NEW intent \in Intent, EnqueueIntent(intent, p),
           UNCHANGED <<hand, history>>, wpc' = "dispatch" <=> wpc = "dispatch"
    PROVE  Waiting' = [Waiting EXCEPT ![p] =
                          Append(@, [origin |-> intent.origin, retry |-> intent.retry])]
<1>. DEFINE x == [intent |-> intent, sequence |-> nextSequence]
            y == [origin |-> intent.origin, retry |-> intent.retry]
<1>1. x \in QueuedIntent /\ ItemOf(x) = y
    BY DEF TypeOK, QueuesOK, QueuedIntent, ItemOf
<1>2. /\ \A r \in Priority : r # p => queues'[r] = queues[r]
      /\ queues'[p] = Append(queues[p], x)
    BY DEF EnqueueIntent, TypeOK, QueuesOK
<1>3. Items(queues'[p]) = Append(Items(queues[p]), y)
    BY <1>1, <1>2, WaitingType, ItemsAppend
<1>4. /\ Items(queues[p]) \in Seq(Item) /\ y \in Item /\ <<ItemOf(hand)>> \in Seq(Item)
    BY <1>1, WaitingType, ItemsFacts
<1>5. <<ItemOf(hand)>> \o Append(Items(queues[p]), y) = Append(<<ItemOf(hand)>> \o Items(queues[p]), y)
    BY <1>4
<1>6. ASSUME NEW r \in Priority
      PROVE  Waiting'[r] = IF r = p THEN Append(Waiting[p], y) ELSE Waiting[r]
    BY <1>2, <1>3, <1>5 DEF Waiting, ItemOf
<1>. QED
    BY <1>6 DEF Waiting

\* Items that wait nowhere and were not executed are not known.
LEMMA FreshOrigin ==
    ASSUME TypeOK, OriginInv
    PROVE  ~Dispatch!Known(nextSequence)
<1>1. /\ \A p \in Priority : \A i \in DOMAIN Waiting[p] : Waiting[p][i].origin \in Nat
      /\ \A k \in DOMAIN history : history[k].origin \in Nat
      /\ nextSequence \in Nat
  <2>1. Waiting \in [Priority -> Seq(Item)] /\ history \in Seq(Item)
    BY WaitingType
  <2>2. \A p \in Priority : \A i \in DOMAIN Waiting[p] : Waiting[p][i] \in Item
    BY <2>1
  <2>3. \A k \in DOMAIN history : history[k] \in Item
    BY <2>1
  <2>. QED
    BY <2>2, <2>3 DEF Item, TypeOK, QueuesOK
<1>. QED
    BY <1>1 DEF OriginInv, Dispatch!Known, Dispatch!Waits, Dispatch!Priority, Priority

\* An intent under a new name is accepted.
LEMMA AcceptStep ==
    ASSUME TypeOK, OriginInv, NEW p \in Priority, NEW intent \in Intent,
           intent.origin = nextSequence, EnqueueIntent(intent, p),
           UNCHANGED <<hand, history>>, wpc' = "dispatch" <=> wpc = "dispatch"
    PROVE  Dispatch!Accept(p)
<1>. DEFINE y == [origin |-> intent.origin, retry |-> intent.retry]
<1>1. Waiting' = [Waiting EXCEPT ![p] = Append(@, y)]
    BY EnqueueWaits
<1>2. y \in Item /\ Waiting \in [Priority -> Seq(Item)]
    BY WaitingType DEF Intent, Item
<1>3. Waiting'[p] = Append(Waiting[p], y)
    BY <1>1, <1>2
<1>4. Waiting'[p] # <<>> /\ Waiting'[p][Len(Waiting'[p])] = y
    BY <1>2, <1>3, AppendProperties
<1>5. y \in Dispatch!Item /\ ~Dispatch!Known(y.origin) /\ UNCHANGED history
    BY <1>2, FreshOrigin DEF Dispatch!Item, Item
<1>. HIDE DEF y
<1>. QED
    BY <1>1, <1>4, <1>5 DEF Dispatch!Accept

\* The correction of the intent executed last is one the dispatch allows.
LEMMA CorrectStep ==
    ASSUME TypeOK, HandInv, ScheduleCorrection
    PROVE  Dispatch!Correct
<1>. DEFINE item == history[Len(history)]
            intent == [hand.intent EXCEPT !.retry = TRUE]
<1>1. /\ wpc = "correct" /\ wpc' = "countCorrection" /\ EnqueueIntent(intent, "high")
      /\ UNCHANGED <<hand, history>>
    BY DEF ScheduleCorrection, workVars, worldVars
<1>2. hand.intent \in Intent
    BY DEF TypeOK, QueuesOK
<1>3. intent \in Intent /\ intent.origin = hand.intent.origin /\ intent.retry = TRUE
    BY <1>2 DEF Intent
<1>4. Waiting' = [Waiting EXCEPT !["high"] =
                    Append(@, [origin |-> intent.origin, retry |-> intent.retry])]
  <2>. HIDE DEF intent
  <2>. QED
    BY <1>1, <1>3, EnqueueWaits DEF Priority
<1>5. history # <<>> /\ item = [origin |-> hand.intent.origin, retry |-> FALSE]
  <2>1. history # <<>> /\ item = ItemOf(hand)
    BY <1>1 DEF HandInv
  <2>2. hand.intent.retry = FALSE
    BY <1>1, <1>2 DEF HandInv, Intent
  <2>. QED
    BY <2>1, <2>2 DEF ItemOf
<1>6. ~Dispatch!Waits(item.origin)
  <2>1. item.origin = hand.intent.origin
    BY <1>5
  <2>2. \A p \in Priority : \A i \in DOMAIN Waiting[p] : Waiting[p][i].origin # hand.intent.origin
    BY <1>1 DEF HandInv
  <2>. HIDE DEF item
  <2>. QED
    BY <2>1, <2>2 DEF Dispatch!Waits, Dispatch!Priority, Priority
<1>7. item.origin = intent.origin
  <2>. HIDE DEF item, intent
  <2>. QED
    BY <1>3, <1>5
<1>8. ~item.retry
  <2>. HIDE DEF item
  <2>. QED
    BY <1>5
<1>9. UNCHANGED history
    BY <1>1
<1>10. Waiting' = [Waiting EXCEPT !["high"] =
                     Append(@, [origin |-> item.origin, retry |-> TRUE])]
    BY <1>3, <1>4, <1>7, Zenon
<1>. QED
    BY <1>5, <1>6, <1>8, <1>9, <1>10, Zenon DEF Dispatch!Correct

\* Taking an intent into the hand, or putting it back, is invisible.
LEMMA HandStutters ==
    ASSUME TypeOK, NEW p \in Priority, PopIntent(p)
    PROVE  Waiting' = Waiting
<1>1. /\ queues \in [Priority -> Seq(QueuedIntent)] /\ queues[p] # <<>> /\ wpc = "pop"
      /\ queues' = [queues EXCEPT ![p] = Tail(@)] /\ wpc' = "dispatch"
      /\ hand'.intent = Head(queues[p]).intent /\ hand'.priority = p
    BY DEF TypeOK, QueuesOK, PopIntent, NextQueue
<1>2. <<[origin |-> hand'.intent.origin, retry |-> hand'.intent.retry]>> \o Items(Tail(queues[p]))
        = Items(queues[p])
    BY <1>1, ItemsHead DEF ItemOf
<1>3. ASSUME NEW r \in Priority
      PROVE  Waiting'[r] = Waiting[r]
    BY <1>1, <1>2 DEF Waiting
<1>. QED
    BY <1>3 DEF Waiting

\* Taking an intent into the hand, or putting it back, is invisible.
LEMMA PutBackStutters ==
    ASSUME TypeOK, OverBudget
    PROVE  Waiting' = Waiting
<1>. DEFINE p == hand.priority
            x == [intent |-> hand.intent, sequence |-> 0]
<1>1. /\ queues \in [Priority -> Seq(QueuedIntent)] /\ p \in Priority /\ x \in QueuedIntent
      /\ queues' = [queues EXCEPT ![p] = <<x>> \o queues[p]]
      /\ wpc = "dispatch" /\ wpc' = "end"
    BY DEF TypeOK, QueuesOK, QueuedIntent, OverBudget, PutBack
<1>2. Items(<<x>> \o queues[p])
        = <<[origin |-> hand.intent.origin, retry |-> hand.intent.retry]>> \o Items(queues[p])
    BY <1>1, ItemsFront DEF ItemOf
<1>3. ASSUME NEW r \in Priority
      PROVE  Waiting'[r] = Waiting[r]
    BY <1>1, <1>2 DEF Waiting
<1>. QED
    BY <1>3 DEF Waiting

\* The engine gets the first of the items that wait.
LEMMA ExecuteStep ==
    ASSUME TypeOK, NEW outcome \in Outcomes, ExecuteInBudget(outcome)
    PROVE  Dispatch!Execute(hand.priority)
<1>. DEFINE p == hand.priority
<1>1. /\ wpc = "dispatch" /\ wpc' = "feedback" /\ p \in Priority /\ queues' = queues
      /\ history' = Append(history, ItemOf(hand))
    BY DEF TypeOK, QueuesOK, ExecuteInBudget, queueVars, ItemOf
<1>2. Items(queues[p]) \in Seq(Item) /\ ItemOf(hand) \in Item
    BY <1>1, WaitingType
<1>3. Waiting[p] = <<ItemOf(hand)>> \o Items(queues[p])
    BY <1>1 DEF Waiting, ItemOf
<1>4. /\ Waiting[p] # <<>> /\ Head(Waiting[p]) = ItemOf(hand)
      /\ Tail(Waiting[p]) = Items(queues[p])
    BY <1>2, <1>3
<1>5. ASSUME NEW r \in Priority
      PROVE  Waiting'[r] = IF r = p THEN Tail(Waiting[p]) ELSE Waiting[r]
    BY <1>1, <1>4 DEF Waiting
<1>6. Waiting' = [Waiting EXCEPT ![p] = Tail(@)]
    BY <1>5 DEF Waiting
<1>. QED
    BY <1>1, <1>4, <1>6 DEF Dispatch!Execute

\* An action that leaves the queues and the history alone, and the hand while it counts as
\* waiting, is no step of the dispatch.
LEMMA OthersStutter ==
    ASSUME TypeOK, LifecycleInv,
           \/ StopRequest
           \/ StopDecision
           \/ JoinWorker
           \/ JoinDecision
           \/ StopPipeline
           \/ CaptureState
           \/ Publish
           \/ RefreshElsewhere
           \/ LoopStops
           \/ LoopReachesMaxFrames
           \/ LoopContinues
           \/ BeginFrame
           \/ Observe
           \/ SubmitDecisionState
           \/ NothingToPop
           \/ RecordFeedback
           \/ NoFeedback
           \/ CorrectionRefused
           \/ CountCorrection
           \/ CountExecuted
           \/ WaitFrame
           \/ ExitLoop
           \/ TakeState
           \/ DecisionStops
           \/ OfferSkipped
           \/ FinishPass
           \/ \E type \in EventTypes, p \in EventPriorities : HandleEvent(type, p)
           \/ \E on \in BOOLEAN : SetDecisionProvider(on)
           \/ \E valid \in BOOLEAN : RefreshRegistry(valid)
           \/ \E late \in BOOLEAN : EndFrame(late)
           \/ \E batch \in Batches, late \in BOOLEAN : Decide(batch, late)
           \/ UNCHANGED vars
    PROVE  /\ Waiting' = Waiting /\ history' = history /\ nextSequence' = nextSequence
           /\ wpc' \in {"feedback", "correct"} => hand' = hand /\ wpc \in {"feedback", "correct"}
           /\ wpc' = "correct" => wpc = "correct" \/ ~hand.intent.retry
<1>1. /\ UNCHANGED <<queues, nextSequence, history>>
      /\ wpc' = "dispatch" <=> wpc = "dispatch"
      /\ wpc' \in {"dispatch", "feedback", "correct"} => hand' = hand
      /\ wpc' \in {"feedback", "correct"} => wpc \in {"feedback", "correct"}
      /\ wpc' = "correct" => wpc = "correct" \/ ~hand.intent.retry
    BY DEF vars, lifeVars, queueVars, eventVars, workVars, passVars, slotVars, worldVars,
       StopRequest, StopDecision, JoinWorker, JoinDecision, StopPipeline, CaptureState,
       Publish, RefreshElsewhere, LoopStops, LoopReachesMaxFrames, LoopContinues, BeginFrame,
       Observe, SubmitDecisionState, NothingToPop, RecordFeedback, ShouldScheduleCorrection,
       NoFeedback, CorrectionRefused, CountCorrection, CountExecuted, WaitFrame, ExitLoop,
       TakeState, DecisionStops, OfferSkipped, FinishPass, HandleEvent, SetDecisionProvider,
       RefreshRegistry, EndFrame, Decide
<1>2. wpc = "dispatch" => hand' = hand
    BY <1>1
<1>3. Waiting' = Waiting
    BY <1>1, <1>2 DEF Waiting
<1>. QED
    BY <1>1, <1>3

\* A Start discards everything.
LEMMA StartDiscards ==
    ASSUME TypeOK, LifecycleInv, NEW limit \in FrameLimits, Start(limit) \/ StartRefused(limit)
    PROVE  Dispatch!Discard /\ wpc' \in {"top", "off", "exit", "done"}
<1>1. wpc' \in {"top", "off", "exit", "done"}
    BY DEF Start, StartRefused, LifecycleInv
<1>2. queues' = [p \in Priority |-> <<>>] /\ history' = <<>>
    BY DEF Start, StartRefused, ResetSession
<1>3. Waiting' = [p \in Priority |-> Items(<<>>)]
    BY <1>1, <1>2 DEF Waiting
<1>4. Items(<<>>) = <<>>
  <2>1. <<>> \in Seq(QueuedIntent) /\ Len(<<>>) = 0
    OBVIOUS
  <2>2. Items(<<>>) \in Seq(Item) /\ Len(Items(<<>>)) = 0
    BY <2>1, ItemsFacts
  <2>. QED
    BY <2>2, EmptySeq
<1>. QED
    BY <1>1, <1>2, <1>3, <1>4 DEF Dispatch!Discard, Dispatch!Priority, Priority

\* Every step of the runtime is a step of the dispatch or none.
LEMMA StepSimulation ==
    ASSUME TypeOK, LifecycleInv, OriginInv, HandInv, [Next]_vars
    PROVE  [Dispatch!Next]_<<Waiting, history>>
<1>. USE DEF Dispatch!Next, Dispatch!Priority, Priority
<1>1. ASSUME NEW limit \in FrameLimits, Start(limit) \/ StartRefused(limit)
      PROVE  Dispatch!Next
    BY <1>1, StartDiscards
<1>2. ASSUME NEW p \in ClientPriorities, NEW retry \in ClientRetries, ClientEnqueue(p, retry)
      PROVE  Dispatch!Next
  <2>1. [origin |-> nextSequence, retry |-> retry, frame |-> 0] \in Intent /\ p \in Priority
    BY ConfigAssumption DEF TypeOK, QueuesOK, Intent
  <2>2. Dispatch!Accept(p)
    BY <1>2, <2>1, AcceptStep DEF ClientEnqueue, workVars, worldVars
  <2>. QED
    BY <2>1, <2>2
<1>3. CASE OfferIntent
  <2>1. [origin |-> nextSequence, retry |-> FALSE, frame |-> dframe] \in Intent
    BY DEF TypeOK, QueuesOK, CountersOK, Intent
  <2>2. Head(dbatch) \in Priority
    <3>1. Head(dbatch) \in Proposals
        BY <1>3 DEF TypeOK, CountersOK, OfferIntent, PassOver
    <3>. QED
        BY <1>3, <3>1, ConfigAssumption DEF OfferIntent
  <2>3. Dispatch!Accept(Head(dbatch))
    BY <1>3, <2>1, <2>2, AcceptStep DEF OfferIntent, workVars, worldVars
  <2>. QED
    BY <2>2, <2>3
<1>4. CASE ScheduleCorrection
    BY <1>4, CorrectStep
<1>5. ASSUME NEW p \in Priority, PopIntent(p)
      PROVE  UNCHANGED <<Waiting, history>>
    BY <1>5, HandStutters DEF PopIntent, worldVars
<1>6. CASE OverBudget
    BY <1>6, PutBackStutters DEF OverBudget, worldVars
<1>7. ASSUME NEW outcome \in Outcomes, ExecuteInBudget(outcome)
      PROVE  Dispatch!Next
    BY <1>7, ExecuteStep, WaitingType
<1>. QED
    BY <1>1, <1>2, <1>3, <1>4, <1>5, <1>6, <1>7, OthersStutter
    DEF Next, ControllerStep, ClientStep, ObserverStep, WorkerStep, DecisionStep

-----------------------------------------------------------------------------
\* What the dispatch keeps, step by step: a name waits once, and an item that bears a name
\* the engine has seen is the correction of what it saw.

DispatchInv ==
    /\ \A p, q \in Priority : \A i \in DOMAIN Waiting[p], j \in DOMAIN Waiting[q] :
          Waiting[p][i].origin = Waiting[q][j].origin => p = q /\ i = j
    /\ \A p \in Priority : \A i \in DOMAIN Waiting[p], k \in DOMAIN history :
          history[k].origin = Waiting[p][i].origin => Waiting[p][i].retry /\ ~history[k].retry
    /\ ExecutedAtMostTwice

\* After an Append an item is where it was, or is the new one.
LEMMA AppendSlots ==
    ASSUME Waiting \in [Priority -> Seq(Item)], NEW p \in Priority, NEW y \in Item,
           Waiting' = [Waiting EXCEPT ![p] = Append(@, y)]
    PROVE  \A r \in Priority : \A i \in DOMAIN Waiting'[r] :
              \/ i \in DOMAIN Waiting[r] /\ Waiting'[r][i] = Waiting[r][i]
              \/ r = p /\ i = Len(Waiting[p]) + 1 /\ Waiting'[r][i] = y
<1>1. Waiting[p] \in Seq(Item)
    OBVIOUS
<1>2. \A i \in DOMAIN Append(Waiting[p], y) :
         \/ i \in DOMAIN Waiting[p] /\ Append(Waiting[p], y)[i] = Waiting[p][i]
         \/ i = Len(Waiting[p]) + 1 /\ Append(Waiting[p], y)[i] = y
    BY <1>1, AppendFacts
<1>. QED
    BY <1>2

\* After a Tail an item is one place nearer to the front.
LEMMA TailSlots ==
    ASSUME Waiting \in [Priority -> Seq(Item)], NEW p \in Priority, Waiting[p] # <<>>,
           Waiting' = [Waiting EXCEPT ![p] = Tail(@)]
    PROVE  /\ 1 \in DOMAIN Waiting[p] /\ Waiting[p][1] = Head(Waiting[p])
           /\ \A r \in Priority : \A i \in DOMAIN Waiting'[r] :
                 \/ r # p /\ i \in DOMAIN Waiting[r] /\ Waiting'[r][i] = Waiting[r][i]
                 \/ r = p /\ i \in Nat \ {0} /\ i + 1 \in DOMAIN Waiting[r]
                          /\ Waiting'[r][i] = Waiting[r][i + 1]
<1>1. Waiting[p] \in Seq(Item)
    OBVIOUS
<1>2. /\ 1 \in DOMAIN Waiting[p] /\ Waiting[p][1] = Head(Waiting[p])
      /\ \A i \in DOMAIN Tail(Waiting[p]) :
            /\ i \in Nat \ {0} /\ i + 1 \in DOMAIN Waiting[p]
            /\ Tail(Waiting[p])[i] = Waiting[p][i + 1]
    BY <1>1, TailFacts
<1>. QED
    BY <1>2

\* An item under a name that does not wait, and that is new or the one executed last and
\* not corrected yet.
LEMMA ArrivalKeeps ==
    ASSUME TypeOK, DispatchInv, NEW p \in Priority, NEW y \in Item,
           Waiting' = [Waiting EXCEPT ![p] = Append(@, y)], history' = history,
           \A r \in Priority : \A i \in DOMAIN Waiting[r] : Waiting[r][i].origin # y.origin,
           \A k \in DOMAIN history : history[k].origin = y.origin => y.retry /\ ~history[k].retry
    PROVE  DispatchInv'
<1>1. \A r \in Priority : \A i \in DOMAIN Waiting'[r] :
         \/ i \in DOMAIN Waiting[r] /\ Waiting'[r][i] = Waiting[r][i]
         \/ r = p /\ i = Len(Waiting[p]) + 1 /\ Waiting'[r][i] = y
    BY WaitingType, AppendSlots
<1>2. ASSUME NEW r \in Priority, NEW q \in Priority, NEW i \in DOMAIN Waiting'[r],
             NEW j \in DOMAIN Waiting'[q], Waiting'[r][i].origin = Waiting'[q][j].origin
      PROVE  r = q /\ i = j
    BY <1>1, <1>2 DEF DispatchInv
<1>3. ASSUME NEW r \in Priority, NEW i \in DOMAIN Waiting'[r], NEW k \in DOMAIN history,
             history[k].origin = Waiting'[r][i].origin
      PROVE  Waiting'[r][i].retry /\ ~history[k].retry
    BY <1>1, <1>3 DEF DispatchInv
<1>4. ExecutedAtMostTwice'
    BY DEF DispatchInv, ExecutedAtMostTwice
<1>. QED
    BY <1>2, <1>3, <1>4 DEF DispatchInv

\* The first item of a queue goes to the engine.
LEMMA ExecutionKeeps ==
    ASSUME TypeOK, DispatchInv, NEW p \in Priority, Dispatch!Execute(p)
    PROVE  /\ DispatchInv'
           /\ \A r \in Priority : \A i \in DOMAIN Waiting'[r] :
                 Waiting'[r][i].origin # Head(Waiting[p]).origin
<1>. DEFINE x == Head(Waiting[p])
<1>1. /\ Waiting \in [Priority -> Seq(Item)] /\ history \in Seq(Item)
      /\ Waiting[p] # <<>> /\ Waiting' = [Waiting EXCEPT ![p] = Tail(@)]
      /\ history' = Append(history, x)
    BY WaitingType DEF Dispatch!Execute
<1>2. /\ 1 \in DOMAIN Waiting[p] /\ Waiting[p][1] = x
      /\ \A r \in Priority : \A i \in DOMAIN Waiting'[r] :
            \/ r # p /\ i \in DOMAIN Waiting[r] /\ Waiting'[r][i] = Waiting[r][i]
            \/ r = p /\ i \in Nat \ {0} /\ i + 1 \in DOMAIN Waiting[r]
                     /\ Waiting'[r][i] = Waiting[r][i + 1]
    BY <1>1, TailSlots
<1>3. x \in Item
    BY <1>1
<1>4. \A k \in DOMAIN history' :
         \/ k \in DOMAIN history /\ history'[k] = history[k]
         \/ k = Len(history) + 1 /\ history'[k] = x
    BY <1>1, <1>3, AppendFacts
<1>. HIDE DEF x
<1>5. ASSUME NEW r \in Priority, NEW q \in Priority, NEW i \in DOMAIN Waiting'[r],
             NEW j \in DOMAIN Waiting'[q], Waiting'[r][i].origin = Waiting'[q][j].origin
      PROVE  r = q /\ i = j
  <2>1. CASE r = p /\ q = p
    <3>1. i + 1 = j + 1
        BY <1>2, <1>5, <2>1 DEF DispatchInv
    <3>. QED
        BY <1>2, <2>1, <3>1
  <2>. QED
    BY <1>2, <1>5, <2>1 DEF DispatchInv
<1>6. ASSUME NEW r \in Priority, NEW i \in DOMAIN Waiting'[r]
      PROVE  Waiting'[r][i].origin # x.origin
    BY <1>2 DEF DispatchInv
<1>7. ASSUME NEW r \in Priority, NEW i \in DOMAIN Waiting'[r], NEW k \in DOMAIN history',
             history'[k].origin = Waiting'[r][i].origin
      PROVE  Waiting'[r][i].retry /\ ~history'[k].retry
  <2>1. k \in DOMAIN history /\ history'[k] = history[k]
    BY <1>4, <1>6, <1>7
  <2>2. \E j \in DOMAIN Waiting[r] : Waiting'[r][i] = Waiting[r][j]
    BY <1>2
  <2>. QED
    BY <1>7, <2>1, <2>2 DEF DispatchInv
<1>8. ASSUME NEW j \in DOMAIN history', NEW k \in DOMAIN history',
             j < k, history'[j].origin = history'[k].origin
      PROVE  ~history'[j].retry /\ history'[k].retry
  <2>1. /\ DOMAIN history' = 1..(Len(history) + 1) /\ DOMAIN history = 1..Len(history)
        /\ Len(history) \in Nat
    BY <1>1, <1>3, AppendFacts
  <2>2. j \in DOMAIN history /\ history'[j] = history[j]
    BY <1>4, <1>8, <2>1
  <2>3. CASE k \in DOMAIN history /\ history'[k] = history[k]
    BY <1>8, <2>2, <2>3 DEF DispatchInv, ExecutedAtMostTwice
  <2>4. CASE history'[k] = x
    BY <1>2, <1>8, <2>2, <2>4 DEF DispatchInv
  <2>. QED
    BY <1>4, <2>3, <2>4
<1>9. ExecutedAtMostTwice'
    BY <1>8 DEF ExecutedAtMostTwice
<1>. QED
    BY <1>5, <1>6, <1>7, <1>9 DEF DispatchInv, x

\* Every step of the dispatch keeps its invariant.
LEMMA DispatchKeeps ==
    ASSUME TypeOK, DispatchInv, [Dispatch!Next]_<<Waiting, history>>
    PROVE  DispatchInv'
<1>. USE DEF Dispatch!Priority, Priority
<1>1. Waiting \in [Priority -> Seq(Item)] /\ history \in Seq(Item)
    BY WaitingType
<1>2. ASSUME NEW p \in Priority, Dispatch!Accept(p)
      PROVE  DispatchInv'
  <2>. DEFINE y == Waiting'[p][Len(Waiting'[p])]
  <2>1. /\ y \in Item /\ ~Dispatch!Known(y.origin)
        /\ Waiting' = [Waiting EXCEPT ![p] = Append(@, y)] /\ history' = history
    BY <1>2 DEF Dispatch!Accept, Dispatch!Item, Item
  <2>. HIDE DEF y
  <2>2. /\ \A r \in Priority : \A i \in DOMAIN Waiting[r] : Waiting[r][i].origin # y.origin
        /\ \A k \in DOMAIN history : history[k].origin # y.origin
    BY <2>1 DEF Dispatch!Known, Dispatch!Waits
  <2>. QED
    BY <2>1, <2>2, ArrivalKeeps
<1>3. ASSUME NEW p \in Priority, Dispatch!Execute(p)
      PROVE  DispatchInv'
    BY <1>3, ExecutionKeeps
<1>4. CASE Dispatch!Correct
  <2>. DEFINE item == history[Len(history)]
              y == [origin |-> item.origin, retry |-> TRUE]
  <2>1. /\ history # <<>> /\ ~item.retry /\ ~Dispatch!Waits(item.origin)
        /\ Waiting' = [Waiting EXCEPT !["high"] = Append(@, y)] /\ history' = history
    BY <1>4 DEF Dispatch!Correct
  <2>2. Len(history) \in DOMAIN history /\ item \in Item /\ DOMAIN history = 1..Len(history)
        /\ Len(history) \in Nat
    BY <1>1, <2>1
  <2>3. y \in Item /\ y.origin = item.origin /\ y.retry
    BY <2>2 DEF Item
  <2>. HIDE DEF y
  <2>4. \A r \in Priority : \A i \in DOMAIN Waiting[r] : Waiting[r][i].origin # y.origin
    BY <2>1, <2>3 DEF Dispatch!Waits
  <2>5. ASSUME NEW k \in DOMAIN history, history[k].origin = y.origin
        PROVE  y.retry /\ ~history[k].retry
    <3>1. k = Len(history) \/ k < Len(history)
        BY <2>2
    <3>2. CASE k < Len(history)
        BY <2>1, <2>2, <2>3, <2>5, <3>2 DEF DispatchInv, ExecutedAtMostTwice
    <3>3. CASE k = Len(history)
        BY <2>1, <2>3, <3>3
    <3>. QED
        BY <3>1, <3>2, <3>3
  <2>. QED
    BY <2>1, <2>3, <2>4, <2>5, ArrivalKeeps
<1>5. CASE Dispatch!Discard
    BY <1>5 DEF Dispatch!Discard, DispatchInv, ExecutedAtMostTwice
<1>6. CASE UNCHANGED <<Waiting, history>>
    BY <1>6 DEF DispatchInv, ExecutedAtMostTwice
<1>. QED
    BY <1>2, <1>3, <1>4, <1>5, <1>6 DEF Dispatch!Next

-----------------------------------------------------------------------------
\* What the simulation needs to know of the runtime is kept by the runtime.

\* An accepted intent bears a name below the next one, and not that of the intent whose
\* execution is being looked at.
LEMMA ArrivalOrigins ==
    ASSUME TypeOK, OriginInv, HandInv, NEW p \in Priority, NEW intent \in Intent,
           intent.origin = nextSequence, EnqueueIntent(intent, p),
           UNCHANGED <<hand, history, wpc>>
    PROVE  OriginInv' /\ HandInv'
<1>. DEFINE y == [origin |-> intent.origin, retry |-> intent.retry]
<1>1. /\ Waiting' = [Waiting EXCEPT ![p] = Append(@, y)] /\ nextSequence' = nextSequence + 1
      /\ y \in Item /\ y.origin = nextSequence /\ nextSequence \in Nat
      /\ Waiting \in [Priority -> Seq(Item)] /\ history \in Seq(Item)
    BY EnqueueWaits, WaitingType DEF EnqueueIntent, TypeOK, QueuesOK, Intent, Item
<1>. HIDE DEF y
<1>2. \A r \in Priority : \A i \in DOMAIN Waiting'[r] :
         \/ i \in DOMAIN Waiting[r] /\ Waiting'[r][i] = Waiting[r][i]
         \/ r = p /\ i = Len(Waiting[p]) + 1 /\ Waiting'[r][i] = y
    BY <1>1, AppendSlots
<1>3. /\ \A r \in Priority : \A i \in DOMAIN Waiting[r] : Waiting[r][i].origin \in Nat
      /\ \A k \in DOMAIN history : history[k].origin \in Nat
  <2>1. /\ \A r \in Priority : \A i \in DOMAIN Waiting[r] : Waiting[r][i] \in Item
        /\ \A k \in DOMAIN history : history[k] \in Item
    BY <1>1
  <2>. QED
    BY <2>1 DEF Item
<1>4. OriginInv'
    BY <1>1, <1>2, <1>3 DEF OriginInv
<1>5. ASSUME wpc \in {"feedback", "correct"}
      PROVE  hand.intent.origin # nextSequence
  <2>1. history # <<>> /\ history[Len(history)] = ItemOf(hand)
    BY <1>5 DEF HandInv
  <2>2. Len(history) \in DOMAIN history
    BY <1>1, <2>1
  <2>3. hand.intent.origin < nextSequence
    BY <2>1, <2>2 DEF OriginInv, ItemOf
  <2>. QED
    BY <1>1, <2>3
<1>6. HandInv'
    BY <1>1, <1>2, <1>5 DEF HandInv, ItemOf
<1>. QED
    BY <1>4, <1>6

\* A correction bears the name of the intent it corrects.
LEMMA CorrectionOrigins ==
    ASSUME TypeOK, OriginInv, HandInv, ScheduleCorrection
    PROVE  OriginInv' /\ HandInv'
<1>. DEFINE intent == [hand.intent EXCEPT !.retry = TRUE]
            y == [origin |-> intent.origin, retry |-> intent.retry]
<1>1. /\ wpc = "correct" /\ wpc' = "countCorrection" /\ EnqueueIntent(intent, "high")
      /\ UNCHANGED <<hand, history>> /\ nextSequence' = nextSequence + 1
    BY DEF ScheduleCorrection, EnqueueIntent, workVars, worldVars
<1>2. hand.intent \in Intent /\ nextSequence \in Nat
    BY DEF TypeOK, QueuesOK
<1>3. intent \in Intent /\ intent.origin = hand.intent.origin
    BY <1>2 DEF Intent
<1>. HIDE DEF intent
<1>4. /\ Waiting' = [Waiting EXCEPT !["high"] = Append(@, y)]
      /\ y \in Item /\ y.origin = hand.intent.origin
      /\ Waiting \in [Priority -> Seq(Item)] /\ history \in Seq(Item)
    BY <1>1, <1>3, EnqueueWaits, WaitingType DEF Intent, Item, Priority
<1>. HIDE DEF y
<1>5. \A r \in Priority : \A i \in DOMAIN Waiting'[r] :
         \/ i \in DOMAIN Waiting[r] /\ Waiting'[r][i] = Waiting[r][i]
         \/ Waiting'[r][i] = y
    BY <1>4, AppendSlots DEF Priority
<1>6. /\ \A r \in Priority : \A i \in DOMAIN Waiting[r] : Waiting[r][i].origin \in Nat
      /\ \A k \in DOMAIN history : history[k].origin \in Nat
  <2>1. /\ \A r \in Priority : \A i \in DOMAIN Waiting[r] : Waiting[r][i] \in Item
        /\ \A k \in DOMAIN history : history[k] \in Item
    BY <1>4
  <2>. QED
    BY <2>1 DEF Item
<1>7. hand.intent.origin < nextSequence /\ hand.intent.origin \in Nat
  <2>1. history # <<>> /\ history[Len(history)] = ItemOf(hand)
    BY <1>1 DEF HandInv
  <2>2. Len(history) \in DOMAIN history
    BY <1>4, <2>1
  <2>. QED
    BY <1>6, <2>1, <2>2 DEF OriginInv, ItemOf
<1>8. OriginInv'
    BY <1>1, <1>2, <1>4, <1>5, <1>6, <1>7 DEF OriginInv
<1>. QED
    BY <1>1, <1>8 DEF HandInv

\* The engine has the intent: it is the last of the history and waits nowhere.
LEMMA ExecutionOrigins ==
    ASSUME TypeOK, OriginInv, DispatchInv, NEW outcome \in Outcomes, ExecuteInBudget(outcome)
    PROVE  OriginInv' /\ HandInv'
<1>. DEFINE p == hand.priority
<1>1. /\ wpc = "dispatch" /\ wpc' = "feedback" /\ p \in Priority
      /\ history' = Append(history, ItemOf(hand)) /\ nextSequence' = nextSequence
      /\ hand'.intent.origin = hand.intent.origin /\ hand'.intent.retry = hand.intent.retry
    BY DEF TypeOK, QueuesOK, Intent, ExecuteInBudget, queueVars, ItemOf
<1>2. /\ Waiting \in [Priority -> Seq(Item)] /\ history \in Seq(Item) /\ ItemOf(hand) \in Item
      /\ Items(queues[p]) \in Seq(Item)
    BY <1>1, WaitingType
<1>3. Dispatch!Execute(p)
    BY ExecuteStep
<1>4. Head(Waiting[p]) = ItemOf(hand)
  <2>1. Waiting[p] = <<ItemOf(hand)>> \o Items(queues[p])
    BY <1>1 DEF Waiting, ItemOf
  <2>. QED
    BY <1>2, <2>1
<1>5. \A r \in Priority : \A i \in DOMAIN Waiting'[r] : Waiting'[r][i].origin # hand.intent.origin
    BY <1>1, <1>3, <1>4, ExecutionKeeps DEF ItemOf
<1>6. /\ 1 \in DOMAIN Waiting[p] /\ Waiting[p][1] = ItemOf(hand)
      /\ \A r \in Priority : \A i \in DOMAIN Waiting'[r] :
            \E j \in DOMAIN Waiting[r] : Waiting'[r][i] = Waiting[r][j]
  <2>1. Waiting[p] # <<>> /\ Waiting' = [Waiting EXCEPT ![p] = Tail(@)]
    BY <1>3 DEF Dispatch!Execute
  <2>2. /\ 1 \in DOMAIN Waiting[p] /\ Waiting[p][1] = Head(Waiting[p])
        /\ \A r \in Priority : \A i \in DOMAIN Waiting'[r] :
              \/ i \in DOMAIN Waiting[r] /\ Waiting'[r][i] = Waiting[r][i]
              \/ i + 1 \in DOMAIN Waiting[r] /\ Waiting'[r][i] = Waiting[r][i + 1]
    BY <1>1, <1>2, <2>1, TailSlots
  <2>. QED
    BY <1>4, <2>2
<1>7. /\ history' # <<>> /\ history'[Len(history')] = ItemOf(hand)
      /\ \A k \in DOMAIN history' :
            (k \in DOMAIN history /\ history'[k] = history[k]) \/ history'[k] = ItemOf(hand)
    BY <1>1, <1>2, AppendFacts
<1>8. OriginInv'
    BY <1>1, <1>6, <1>7 DEF OriginInv
<1>9. ItemOf(hand)' = ItemOf(hand)
    BY <1>1 DEF ItemOf
<1>10. HandInv'
    BY <1>1, <1>5, <1>7, <1>9 DEF HandInv
<1>. QED
    BY <1>8, <1>10

\* Every step of the runtime keeps what the simulation needs.
LEMMA OriginStep ==
    ASSUME TypeOK, LifecycleInv, OriginInv, HandInv, DispatchInv, [Next]_vars
    PROVE  OriginInv' /\ HandInv'
<1>1. ASSUME NEW limit \in FrameLimits, Start(limit) \/ StartRefused(limit)
      PROVE  OriginInv' /\ HandInv'
    BY <1>1, StartDiscards DEF Dispatch!Discard, Dispatch!Priority, Priority, OriginInv, HandInv
<1>2. ASSUME NEW p \in ClientPriorities, NEW retry \in ClientRetries, ClientEnqueue(p, retry)
      PROVE  OriginInv' /\ HandInv'
  <2>1. [origin |-> nextSequence, retry |-> retry, frame |-> 0] \in Intent /\ p \in Priority
    BY ConfigAssumption DEF TypeOK, QueuesOK, Intent
  <2>. QED
    BY <1>2, <2>1, ArrivalOrigins DEF ClientEnqueue, workVars, worldVars
<1>3. CASE OfferIntent
  <2>1. [origin |-> nextSequence, retry |-> FALSE, frame |-> dframe] \in Intent
    BY DEF TypeOK, QueuesOK, CountersOK, Intent
  <2>2. Head(dbatch) \in Priority
    <3>1. Head(dbatch) \in Proposals
        BY <1>3 DEF TypeOK, CountersOK, OfferIntent, PassOver
    <3>. QED
        BY <1>3, <3>1, ConfigAssumption DEF OfferIntent
  <2>. QED
    BY <1>3, <2>1, <2>2, ArrivalOrigins DEF OfferIntent, workVars, worldVars
<1>4. CASE ScheduleCorrection
    BY <1>4, CorrectionOrigins
<1>5. ASSUME NEW p \in Priority, PopIntent(p)
      PROVE  OriginInv' /\ HandInv'
    BY <1>5, HandStutters DEF PopIntent, worldVars, OriginInv, HandInv
<1>6. CASE OverBudget
    BY <1>6, PutBackStutters DEF OverBudget, worldVars, OriginInv, HandInv
<1>7. ASSUME NEW outcome \in Outcomes, ExecuteInBudget(outcome)
      PROVE  OriginInv' /\ HandInv'
    BY <1>7, ExecutionOrigins
<1>8. ASSUME /\ Waiting' = Waiting /\ history' = history /\ nextSequence' = nextSequence
             /\ wpc' \in {"feedback", "correct"} =>
                    hand' = hand /\ wpc \in {"feedback", "correct"}
             /\ wpc' = "correct" => wpc = "correct" \/ ~hand.intent.retry
      PROVE  OriginInv' /\ HandInv'
    BY <1>8 DEF OriginInv, HandInv, ItemOf
<1>. QED
    BY <1>1, <1>2, <1>3, <1>4, <1>5, <1>6, <1>7, <1>8, OthersStutter
    DEF Next, ControllerStep, ClientStep, ObserverStep, WorkerStep, DecisionStep

\* Nothing waits and nothing was executed initially.
LEMMA DispatchInit == Init => Dispatch!Init /\ OriginInv /\ HandInv /\ DispatchInv
<1>. SUFFICES ASSUME Init PROVE Dispatch!Init /\ OriginInv /\ HandInv /\ DispatchInv
    OBVIOUS
<1>1. <<>> \in Seq(QueuedIntent) /\ Len(<<>>) = 0
    OBVIOUS
<1>2. Items(<<>>) = <<>>
  <2>1. Items(<<>>) \in Seq(Item) /\ Len(Items(<<>>)) = 0
    BY <1>1, ItemsFacts
  <2>. QED
    BY <2>1, EmptySeq
<1>3. Waiting = [p \in Priority |-> <<>>] /\ history = <<>> /\ wpc = "off"
    BY <1>2 DEF Init, Waiting
<1>. QED
    BY <1>3 DEF Dispatch!Init, Dispatch!Priority, Priority, OriginInv, HandInv, DispatchInv,
       ExecutedAtMostTwice

\* The invariants of the simulation hold together in every reachable state.
LEMMA DispatchCorrect ==
    Spec => [](TypeOK /\ LifecycleInv /\ OriginInv /\ HandInv /\ DispatchInv)
<1>1. TypeOK /\ LifecycleInv /\ OriginInv /\ HandInv /\ DispatchInv /\ [Next]_vars
        => OriginInv' /\ HandInv' /\ DispatchInv'
    BY OriginStep, StepSimulation, DispatchKeeps
<1>. QED
    BY LifecycleCorrect, DispatchInit, <1>1, PTL DEF Spec

\* The runtime implements the dispatch: an intent accepted by EnqueueIntent waits in its
\* queue, or in the worker's hand, until the engine gets it; only its correction brings it
\* back, and only a Start discards it.
THEOREM ImplementsDispatch == Spec => DispatchSpec
<1>1. Init => Dispatch!Init
    BY DispatchInit
<1>2. TypeOK /\ LifecycleInv /\ OriginInv /\ HandInv /\ [Next]_vars
        => [Dispatch!Next]_<<Waiting, history>>
    BY StepSimulation
<1>. QED
    BY DispatchCorrect, <1>1, <1>2, PTL DEF Spec, DispatchSpec, Dispatch!Spec

\* The engine sees an accepted intent twice at most, the second time as the correction of the
\* first: putting it back over budget does not make it a second one (ShouldScheduleCorrection).
THEOREM OneCorrection == Spec => []ExecutedAtMostTwice
<1>1. DispatchInv => ExecutedAtMostTwice
    BY DEF DispatchInv
<1>. QED
    BY DispatchCorrect, <1>1, PTL

=============================================================================
