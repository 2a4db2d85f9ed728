------------------------ MODULE TelemetryPersistence ------------------------
(***************************************************************************)
(* The execution log of core/telemetry/src/Telemetry.cpp: the ring of      *)
(* recent traces and its totals under mutex_, the queue of traces to be    *)
(* written under persistenceMutex_, the thread that writes them, and the   *)
(* files it rotates. Files outlive the process; everything else starts     *)
(* over, the file index included.                                          *)
(*                                                                         *)
(* A trace is the number it was logged under, its session, and what the    *)
(* counters and the rotation look at: [success, adapter, size].            *)
(***************************************************************************)
EXTENDS Integers, FiniteSets, SequencesExt

CONSTANTS
    Loggers,                \* threads that log executions
    Kinds,                  \* traces as the rest of the program makes them
    Adapters,
    KMaxTraces, KMaxPersistenceQueue, KMaxPersistedFiles, KMaxTraceFileBytes,
    MaxLogged,              \* bound: traces logged in all sessions
    MaxSessions             \* bound: starts of the program

TelemetryAssumption ==
    /\ Kinds \subseteq [success : BOOLEAN, adapter : Adapters, size : Nat \ {0}]
    /\ {KMaxTraces, KMaxPersistenceQueue, KMaxPersistedFiles, KMaxTraceFileBytes} \subseteq Nat \ {0}
    /\ MaxLogged \in Nat /\ MaxSessions \in Nat /\ IsFiniteSet(Loggers)

VARIABLES
    \* the process: "down", "up", or "stopping" while the destructor waits for the thread
    process, session,
    \* under mutex_
    traces, traceBufferWrapped, totals, adapterAggregates,
    \* between the two locks: LogExecution of a thread that has yet to enqueue its trace,
    \* and the total that Snapshot has read
    pending, snapshotTotal,
    \* under persistenceMutex_
    persistenceEnabled, persistenceQueue, persistedTraceCount, droppedPersistenceCount,
    currentFileIndex, currentFileBytes, persistedFiles,
    \* the persistence thread: "none", "waiting" or "writing", and the trace it took
    writer, inHand,
    \* the trace files: what each holds; a file without lines does not exist
    disk,
    \* history: what this session logged, in the order of mutex_, and how much all sessions did
    history, logged

ringVars == <<traces, traceBufferWrapped, totals, adapterAggregates, history, logged>>
fileVars == <<currentFileIndex, currentFileBytes, persistedFiles, disk>>
queueVars == <<persistenceQueue, persistedTraceCount, droppedPersistenceCount>>
processVars == <<process, session, persistenceEnabled>>
vars == <<ringVars, fileVars, queueVars, processVars, pending, snapshotTotal, writer, inHand>>

-----------------------------------------------------------------------------
Trace == [kind : Kinds, id : Nat, session : Nat]
NoTrace == [kind |-> CHOOSE k \in Kinds : TRUE, id |-> 0, session |-> 0]
NoTotal == -1
Larger(a, b) == IF a > b THEN a ELSE b
Smaller(a, b) == IF a < b THEN a ELSE b
FileIndexes == 0..MaxLogged
NoFiles == [i \in FileIndexes |-> <<>>]

\* What the constructor finds in memory.
Fresh ==
    /\ traces' = <<>> /\ traceBufferWrapped' = FALSE
    /\ totals' = [executions |-> 0, successes |-> 0, failures |-> 0]
    /\ adapterAggregates' = [a \in Adapters |-> [executions |-> 0, successes |-> 0]]
    /\ pending' = [l \in Loggers |-> NoTrace] /\ snapshotTotal' = NoTotal
    /\ persistenceQueue' = <<>> /\ persistedTraceCount' = 0 /\ droppedPersistenceCount' = 0
    /\ currentFileIndex' = 0 /\ currentFileBytes' = 0 /\ persistedFiles' = <<>>
    /\ inHand' = NoTrace /\ history' = <<>>

Init ==
    /\ process = "down" /\ session = 0
    /\ traces = <<>> /\ traceBufferWrapped = FALSE
    /\ totals = [executions |-> 0, successes |-> 0, failures |-> 0]
    /\ adapterAggregates = [a \in Adapters |-> [executions |-> 0, successes |-> 0]]
    /\ pending = [l \in Loggers |-> NoTrace] /\ snapshotTotal = NoTotal
    /\ persistenceEnabled = FALSE /\ writer = "none" /\ inHand = NoTrace
    /\ persistenceQueue = <<>> /\ persistedTraceCount = 0 /\ droppedPersistenceCount = 0
    /\ currentFileIndex = 0 /\ currentFileBytes = 0 /\ persistedFiles = <<>>
    /\ disk = NoFiles
    /\ history = <<>> /\ logged = 0

-----------------------------------------------------------------------------
\* The constructor. Without a directory nothing is persisted in this session.
Construct ==
    /\ process = "down" /\ session < MaxSessions
    /\ process' = "up" /\ session' = session + 1
    /\ Fresh
    /\ persistenceEnabled' \in BOOLEAN
    /\ writer' = IF persistenceEnabled' THEN "waiting" ELSE "none"
    /\ UNCHANGED <<disk, logged>>

\* The destructor, when no other thread uses the object, asks the thread to stop and joins it.
StopPersistenceWorker ==
    /\ process = "up" /\ snapshotTotal = NoTotal /\ \A l \in Loggers : pending[l] = NoTrace
    /\ process' = "stopping"
    /\ UNCHANGED <<ringVars, fileVars, queueVars, session, persistenceEnabled, pending, snapshotTotal, writer, inHand>>

Destructed ==
    /\ process = "stopping" /\ writer = "none"
    /\ process' = "down"
    /\ UNCHANGED <<ringVars, fileVars, queueVars, session, persistenceEnabled, pending, snapshotTotal, writer, inHand>>

\* The process ends at any point, between two lines of the files.
Crash ==
    /\ process # "down"
    /\ process' = "down" /\ writer' = "none" /\ persistenceEnabled' = FALSE
    /\ Fresh
    /\ UNCHANGED <<session, disk, logged>>

-----------------------------------------------------------------------------
\* LogExecution: the ring, the totals and the aggregates in one critical section...
Counted(kind) ==
    /\ totals' = [executions |-> totals.executions + 1,
                  successes |-> totals.successes + (IF kind.success THEN 1 ELSE 0),
                  failures |-> totals.failures + (IF kind.success THEN 0 ELSE 1)]
    /\ adapterAggregates' =
          [adapterAggregates EXCEPT ![kind.adapter].executions = @ + 1,
                                    ![kind.adapter].successes = @ + (IF kind.success THEN 1 ELSE 0)]

Ring(t) ==
    /\ traces' = IF Len(traces) = KMaxTraces THEN Append(Tail(traces), t) ELSE Append(traces, t)
    /\ traceBufferWrapped' = (traceBufferWrapped \/ Len(traces) = KMaxTraces)

LogExecution(l, kind) ==
    /\ process = "up" /\ pending[l] = NoTrace /\ logged < MaxLogged
    /\ LET t == [kind |-> kind, id |-> logged + 1, session |-> session] IN
          /\ Ring(t)
          /\ history' = Append(history, t)
          /\ pending' = [pending EXCEPT ![l] = IF persistenceEnabled THEN t ELSE NoTrace]
    /\ Counted(kind)
    /\ logged' = logged + 1
    /\ UNCHANGED <<fileVars, queueVars, processVars, snapshotTotal, writer, inHand>>

\* ... and EnqueuePersistence in another.
SilentDrop(t) ==   \* variant: a trace that finds the queue full is not counted
    /\ persistenceQueue' = IF Len(persistenceQueue) >= KMaxPersistenceQueue THEN persistenceQueue
                           ELSE Append(persistenceQueue, t)
    /\ UNCHANGED droppedPersistenceCount

QueueOrDrop(t) ==
    IF Len(persistenceQueue) >= KMaxPersistenceQueue
    THEN droppedPersistenceCount' = droppedPersistenceCount + 1 /\ UNCHANGED persistenceQueue
    ELSE persistenceQueue' = Append(persistenceQueue, t) /\ UNCHANGED droppedPersistenceCount

EnqueuePersistence(l) ==
    /\ process = "up" /\ pending[l] # NoTrace
    /\ QueueOrDrop(pending[l])
    /\ pending' = [pending EXCEPT ![l] = NoTrace]
    /\ UNCHANGED <<ringVars, fileVars, persistedTraceCount, processVars, snapshotTotal, writer, inHand>>

-----------------------------------------------------------------------------
\* PersistenceLoop: what is queued is written before a stop is obeyed.

WriterStops ==
    /\ writer = "waiting" /\ process = "stopping" /\ persistenceQueue = <<>>
    /\ writer' = "none"

PersistenceEnds ==
    /\ WriterStops
    /\ UNCHANGED <<ringVars, fileVars, queueVars, processVars, pending, snapshotTotal, inHand>>

TakeLast ==   \* variant: the newest trace first
    /\ writer = "waiting" /\ persistenceQueue # <<>>
    /\ inHand' = Last(persistenceQueue) /\ persistenceQueue' = Front(persistenceQueue)
    /\ writer' = "writing"
    /\ UNCHANGED <<ringVars, fileVars, persistedTraceCount, droppedPersistenceCount, processVars, pending, snapshotTotal>>

TakeTrace ==
    /\ writer = "waiting" /\ persistenceQueue # <<>>
    /\ inHand' = Head(persistenceQueue) /\ persistenceQueue' = Tail(persistenceQueue)
    /\ writer' = "writing"
    /\ UNCHANGED <<ringVars, fileVars, persistedTraceCount, droppedPersistenceCount, processVars, pending, snapshotTotal>>

\* PersistTraceLine. The file is full when it holds something and the line does not fit.

Rotates(size) == currentFileBytes > 0 /\ currentFileBytes + size > KMaxTraceFileBytes

FileAfter(size) == IF Rotates(size) THEN currentFileIndex + 1 ELSE currentFileIndex
BytesBefore(size) == IF Rotates(size) THEN 0 ELSE currentFileBytes

\* The file joins the ones to keep before it is opened, so it may never come to exist.
Listed(file) ==
    IF persistedFiles # <<>> /\ Last(persistedFiles) = file THEN persistedFiles ELSE Append(persistedFiles, file)

Kept(files) ==
    IF Len(files) > KMaxPersistedFiles THEN SubSeq(files, Len(files) - KMaxPersistedFiles + 1, Len(files)) ELSE files

Removed(files) == ToSet(files) \ ToSet(Kept(files))

\* Each line is written to the file with the index that is current.
PersistTraceLine ==
    /\ writer = "writing"
    /\ LET size == inHand.kind.size
           file == FileAfter(size)
           files == Listed(file)
           cleaned == [i \in FileIndexes |-> IF i \in Removed(files) THEN <<>> ELSE disk[i]]
       IN /\ currentFileIndex' = file
          /\ persistedFiles' = Kept(files)
          /\ \/ disk' = [cleaned EXCEPT ![file] = Append(@, inHand)]
                /\ currentFileBytes' = BytesBefore(size) + size
                /\ persistedTraceCount' = persistedTraceCount + 1
                /\ UNCHANGED droppedPersistenceCount
             \/ disk' = cleaned                       \* the file does not open
                /\ currentFileBytes' = BytesBefore(size)
                /\ droppedPersistenceCount' = droppedPersistenceCount + 1
                /\ UNCHANGED persistedTraceCount
    /\ writer' = "waiting" /\ inHand' = NoTrace
    /\ UNCHANGED <<ringVars, persistenceQueue, processVars, pending, snapshotTotal>>

\* The directory cannot be made.
NoDirectory ==
    /\ writer = "writing"
    /\ droppedPersistenceCount' = droppedPersistenceCount + 1
    /\ writer' = "waiting" /\ inHand' = NoTrace
    /\ UNCHANGED <<ringVars, fileVars, persistenceQueue, persistedTraceCount, processVars, pending, snapshotTotal>>

Writer == PersistenceEnds \/ TakeTrace \/ PersistTraceLine \/ NoDirectory

\* The queries of recent traces. An empty filter lets everything pass.
AnyAdapter == "any"
Passes(t, success, adapter) ==
    /\ t.kind.success \in success
    /\ adapter = AnyAdapter \/ t.kind.adapter = adapter

RecentExecutions(limit) == SubSeq(traces, Larger(1, Len(traces) - limit + 1), Len(traces))

\* The scan starts at the newest trace and compares with the limit after it has taken one, so a
\* limit of 0 works like 1; the result is in the order of the log again.
QueryExecutions(limit, success, adapter) ==
    LET newestFirst == SelectSeq(Reverse(traces), LAMBDA t : Passes(t, success, adapter))
    IN Reverse(SubSeq(newestFirst, 1, Smaller(Larger(1, limit), Len(newestFirst))))

\* Snapshot reads the totals under one lock and the persistence counters under the other.
SnapshotTotals ==
    /\ process = "up" /\ snapshotTotal = NoTotal
    /\ snapshotTotal' = totals.executions
    /\ UNCHANGED <<ringVars, fileVars, queueVars, processVars, pending, writer, inHand>>

SnapshotPersistence ==
    /\ process = "up" /\ snapshotTotal # NoTotal
    /\ snapshotTotal' = NoTotal
    /\ UNCHANGED <<ringVars, fileVars, queueVars, processVars, pending, writer, inHand>>

Next ==
    \/ Construct \/ StopPersistenceWorker \/ Destructed \/ Crash
    \/ \E l \in Loggers : EnqueuePersistence(l) \/ \E kind \in Kinds : LogExecution(l, kind)
    \/ Writer
    \/ SnapshotTotals \/ SnapshotPersistence

Spec == Init /\ [][Next]_vars

\* The thread is scheduled; the file system answers.
Fairness == WF_vars(Writer) /\ WF_vars(Destructed)
FairSpec == Spec /\ Fairness

-----------------------------------------------------------------------------
\* The variables have the types of the members they stand for, within their capacities.
TypeOK ==
    /\ process \in {"down", "up", "stopping"} /\ session \in 0..MaxSessions
    /\ traces \in Seq(Trace) /\ Len(traces) <= KMaxTraces /\ traceBufferWrapped \in BOOLEAN
    /\ totals \in [executions : Nat, successes : Nat, failures : Nat]
    /\ adapterAggregates \in [Adapters -> [executions : Nat, successes : Nat]]
    /\ pending \in [Loggers -> Trace \cup {NoTrace}] /\ snapshotTotal \in Nat \cup {NoTotal}
    /\ persistenceEnabled \in BOOLEAN
    /\ persistenceQueue \in Seq(Trace) /\ Len(persistenceQueue) <= KMaxPersistenceQueue
    /\ persistedTraceCount \in Nat /\ droppedPersistenceCount \in Nat
    /\ currentFileIndex \in FileIndexes /\ currentFileBytes \in Nat
    /\ persistedFiles \in Seq(FileIndexes)
    /\ writer \in {"none", "waiting", "writing"} /\ inHand \in Trace \cup {NoTrace}
    /\ disk \in [FileIndexes -> Seq(Trace)]
    /\ history \in Seq(Trace) /\ logged \in 0..MaxLogged

\* The ring is the end of what was logged, and wrapped when something is missing.
RingAgrees ==
    /\ traces = SubSeq(history, Len(history) - Len(traces) + 1, Len(history))
    /\ traceBufferWrapped <=> Len(history) > Len(traces)
    /\ traceBufferWrapped => Len(traces) = KMaxTraces
    /\ totals.executions = Len(history) /\ totals.successes + totals.failures = totals.executions

AggregatesAgree ==
    /\ FoldSet(LAMBDA a, n : n + adapterAggregates[a].executions, 0, Adapters) = totals.executions
    /\ FoldSet(LAMBDA a, n : n + adapterAggregates[a].successes, 0, Adapters) = totals.successes

\* The ring, the flag, the totals and the aggregates, kept separately, tell one story, and the
\* totals of the adapters add up.
LogAgrees == RingAgrees /\ AggregatesAgree

\* No trace disappears between the two locks, the queue and the file: whatever was logged while
\* persistence is enabled is written, counted as dropped, queued, in the thread's hands or in
\* those of the thread that logged it.
PersistenceAccounts ==
    persistenceEnabled =>
        totals.executions = persistedTraceCount + droppedPersistenceCount + Len(persistenceQueue)
            + Cardinality({l \in Loggers : pending[l] # NoTrace}) + (IF inHand = NoTrace THEN 0 ELSE 1)

Weight(lines) == FoldSeq(LAMBDA t, n : n + t.kind.size, 0, lines)
OfSession(lines, s) == SelectSeq(lines, LAMBDA t : t.session = s)

\* A query answers the newest matching traces, oldest first: a trace is in the answer exactly
\* when it matches and fewer than `limit` later ones do. Without filters it is RecentExecutions.
QueriesAnswerNewest ==
    \A limit \in 1..KMaxTraces, success \in {{TRUE}, {FALSE}, BOOLEAN}, adapter \in Adapters \cup {AnyAdapter} :
       LET answer == QueryExecutions(limit, success, adapter)
           Matches(i) == Passes(traces[i], success, adapter)
           Later(i) == {j \in i + 1..Len(traces) : Matches(j)}
       IN /\ ToSet(answer) = {traces[i] : i \in {j \in DOMAIN traces : Matches(j) /\ Cardinality(Later(j)) < limit}}
          /\ \A i, j \in DOMAIN answer : i < j => answer[i].id < answer[j].id
          /\ success = BOOLEAN /\ adapter = AnyAdapter => answer = RecentExecutions(limit)

\* What one session adds to the directory is bounded: at most KMaxPersistedFiles files hold lines
\* of it while it runs, none with more than KMaxTraceFileBytes unless a single line is longer,
\* and the rotation's own count of the bytes is the truth about its session.
DiskBounded ==
    /\ \A i \in FileIndexes, s \in 1..session :
          LET lines == OfSession(disk[i], s) IN Weight(lines) <= KMaxTraceFileBytes \/ Len(lines) = 1
    /\ process # "down" =>
          /\ Cardinality({i \in FileIndexes : OfSession(disk[i], session) # <<>>}) <= KMaxPersistedFiles
          /\ currentFileBytes = Weight(OfSession(disk[currentFileIndex], session))

\* A session that ended in order left nothing behind in the queue.
DrainedAtStop ==
    process = "stopping" /\ writer = "none" => persistenceQueue = <<>> /\ inHand = NoTrace

\* The backlog a snapshot shows is never more than what can be under way, although its two
\* halves are read at different times. (It may be negative.)
SnapshotBacklogBounded ==
    [][SnapshotPersistence /\ persistenceEnabled =>
          snapshotTotal - persistedTraceCount - droppedPersistenceCount
             <= KMaxPersistenceQueue + Cardinality(Loggers) + 1]_vars

\* The destructor returns: the thread empties the queue and ends, whatever the disk does.
StopReturns == (process = "stopping") ~> (process = "down")

\* What this session stored, in the order of its files.
StoredLines ==
    FlattenSeq([n \in 1..Cardinality(FileIndexes) |-> OfSession(disk[n - 1], session)])

\* The files of one session are a lossy log of what it accepted.
Log == INSTANCE LossyLog WITH
    waiting <- (IF inHand = NoTrace THEN <<>> ELSE <<inHand>>) \o persistenceQueue,
    stored <- IF process = "down" THEN <<>> ELSE StoredLines
LogSpec == Log!Spec
=============================================================================
