-------------------------- MODULE TelemetryWindows --------------------------
(***************************************************************************)
(* The sample windows of core/telemetry/src/Telemetry.cpp: latencies of    *)
(* the control loop, frames of the vision pipeline, reflex decisions. Each *)
(* is a bounded deque under mutex_; the statistics answered to the API are *)
(* functions of its newest samples. Milliseconds are whole numbers.        *)
(***************************************************************************)
EXTENDS Integers, FiniteSets, SequencesExt

CONSTANTS
    Latencies,              \* total latencies that are logged
    Frames,                 \* ids of the frames that are logged; 0 is "no id"
    KMaxLatencySamples, KMaxVisionSamples, KMaxReflexSamples,
    MaxSamples,             \* bound: samples logged
    Targets, Limits         \* the arguments of the queries

WindowsAssumption ==
    /\ Latencies \subseteq Nat /\ Frames \subseteq Nat
    /\ Targets \subseteq Nat /\ Limits \subseteq Nat
    /\ {KMaxLatencySamples, KMaxVisionSamples, KMaxReflexSamples} \subseteq Nat \ {0}
    /\ MaxSamples \in Nat

VARIABLES
    latencyBreakdowns,
    visionSamples, latestVisionFrameId, visionDroppedFrames,
    reflexSamples,
    seen                    \* history: the frame ids logged, in that order

visionVars == <<visionSamples, latestVisionFrameId, visionDroppedFrames, seen>>
vars == <<latencyBreakdowns, visionVars, reflexSamples>>

ReflexSample == [withinBudget : BOOLEAN, intentProduced : BOOLEAN]

Init ==
    /\ latencyBreakdowns = <<>>
    /\ visionSamples = <<>> /\ latestVisionFrameId = 0 /\ visionDroppedFrames = 0 /\ seen = <<>>
    /\ reflexSamples = <<>>

\* A deque that forgets its oldest element when it outgrows its capacity.
Bounded(s, capacity) == IF Len(s) > capacity THEN Tail(s) ELSE s

Sampled == Len(latencyBreakdowns) + Len(seen) + Len(reflexSamples)

LogLatencyBreakdown(ms) ==
    /\ latencyBreakdowns' = Bounded(Append(latencyBreakdowns, ms), KMaxLatencySamples)
    /\ UNCHANGED <<visionVars, reflexSamples>>

\* The frames between the newest one and a frame further ahead were dropped.

Gap(frame) ==
    IF frame > 0 /\ latestVisionFrameId > 0 /\ frame > latestVisionFrameId + 1
    THEN frame - latestVisionFrameId - 1 ELSE 0

NewestFrame(frame) == IF frame > latestVisionFrameId THEN frame ELSE latestVisionFrameId

LogVisionSample(frame) ==
    /\ visionDroppedFrames' = visionDroppedFrames + Gap(frame)
    /\ latestVisionFrameId' = NewestFrame(frame)
    /\ visionSamples' = Bounded(Append(visionSamples, frame), KMaxVisionSamples)
    /\ seen' = Append(seen, frame)
    /\ UNCHANGED <<latencyBreakdowns, reflexSamples>>

LogReflexSample(sample) ==
    /\ reflexSamples' = Bounded(Append(reflexSamples, sample), KMaxReflexSamples)
    /\ UNCHANGED <<latencyBreakdowns, visionVars>>

Next ==
    /\ Sampled < MaxSamples
    /\ \/ \E ms \in Latencies : LogLatencyBreakdown(ms)
       \/ \E frame \in Frames : LogVisionSample(frame)
       \/ \E sample \in ReflexSample : LogReflexSample(sample)

Spec == Init /\ [][Next]_vars

-----------------------------------------------------------------------------
\* The queries.

\* A limit of 0 works like 1.
Window(s, limit) ==
    LET count == IF limit < 1 THEN 1 ELSE limit IN
    IF Len(s) > count THEN SubSeq(s, Len(s) - count + 1, Len(s)) ELSE s

Sorted(s) == SortSeq(s, <)

\* Of the n values sorted, the one at index (n-1)*p/100, counted from 0.
PercentileValue(s, p) == Sorted(s)[((Len(s) - 1) * p) \div 100 + 1]

Sum(s) == FoldSeq(+, 0, s)
Largest(s) == FoldSeq(LAMBDA a, b : IF a > b THEN a ELSE b, 0, s)
Distance(a, b) == IF a > b THEN a - b ELSE b - a

\* PerformanceContract(...).withinBudget. Without samples nothing is within budget.
WithinBudget(target, limit) ==
    LET totals == Window(latencyBreakdowns, limit) IN
    /\ totals # <<>>
    /\ PercentileValue(totals, 95) <= target /\ Largest(totals) <= 2 * target
    /\ Sum([i \in DOMAIN totals |-> Distance(totals[i], target)]) <= target * Len(totals)

-----------------------------------------------------------------------------
\* The deques stay within their capacities.
TypeOK ==
    /\ latencyBreakdowns \in Seq(Latencies) /\ Len(latencyBreakdowns) <= KMaxLatencySamples
    /\ visionSamples \in Seq(Frames) /\ Len(visionSamples) <= KMaxVisionSamples
    /\ reflexSamples \in Seq(ReflexSample) /\ Len(reflexSamples) <= KMaxReflexSamples
    /\ latestVisionFrameId \in Frames \cup {0} /\ visionDroppedFrames \in Nat
    /\ seen \in Seq(Frames)

\* Frames arrive late, twice or without an id. Every id that is missing between the first and the
\* newest frame is counted as dropped, and never the two themselves or anything twice.
GapsCovered ==
    LET ids == SelectSeq(seen, LAMBDA f : f # 0) IN
    ids # <<>> =>
       LET missing == (Head(ids)..latestVisionFrameId) \ ToSet(ids) IN
       /\ Cardinality(missing) <= visionDroppedFrames
       /\ visionDroppedFrames > 0 => visionDroppedFrames < latestVisionFrameId - Head(ids)

\* What "within budget" means for the samples: none is over twice the target, at most one in
\* twenty (and one more) is over the target, and a window that never is over the target is within
\* budget, whatever its drift.
ContractIsSound ==
    \A target \in Targets, limit \in Limits :
       LET totals == Window(latencyBreakdowns, limit)
           over == {i \in DOMAIN totals : totals[i] > target}
       IN /\ WithinBudget(target, limit) =>
                /\ \A i \in DOMAIN totals : totals[i] <= 2 * target
                /\ 20 * Cardinality(over) < Len(totals) + 20
          /\ totals # <<>> /\ over = {} => WithinBudget(target, limit)
=============================================================================
