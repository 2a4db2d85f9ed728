-------------------------- MODULE ExecutionEngine --------------------------
(***************************************************************************)
(* The execution engine (core/execution/src/ExecutionEngine.cpp): validate *)
(* an intent, choose an adapter, execute with retries under a deadline,    *)
(* fall back on the other adapters, remember what worked.                  *)
(*                                                                         *)
(* The control worker, API calls, sequences and workflows call Execute     *)
(* from their own threads; they share the fast path (fastPathMutex_) and   *)
(* the adapters' success counters (AdapterRegistry's mutex_). A score is a *)
(* float that decays with the clock, so ResolveBest may choose any adapter *)
(* that can execute the intent. Time passes in units of an adapter call's  *)
(* duration; an entry of the fast path is over a second old or it is not.  *)
(***************************************************************************)
EXTENDS Integers, Sequences, SequencesExt

CONSTANTS
    Executors,          \* threads in ExecuteInternal
    Adapters,           \* in registration order, a sequence
    Keys,               \* the targets the fast path tells apart (FastPathKey)
    Intents,            \* what they execute: see IntentType
    Durations,          \* what an adapter call may take
    FastPathLimit,      \* 256: the size above which entries are evicted
    EvictCount,         \* 64: how many, so that an eviction leaves some
    MaxCalls            \* bound: calls of Execute

Status == {"SUCCESS", "PARTIAL", "FAILED"}
AdapterSet == ToSet(Adapters)
IntentType == [key : Keys \cup {"none"}, ticks : Nat, version : Nat, valid : BOOLEAN, timeout : Nat \ {0},
               maxRetries : Nat, allowFallback : BOOLEAN, requiresVerification : BOOLEAN,
               capable : SUBSET AdapterSet]

ASSUME EngineAssumption ==
    /\ Intents \subseteq IntentType
    /\ Durations \subseteq Nat
    /\ FastPathLimit \in Nat /\ EvictCount \in 1 .. FastPathLimit
    /\ MaxCalls \in Nat
    /\ Adapters \in Seq(STRING) /\ IsInjective(Adapters)

VARIABLES
    calls,              \* how many calls began
    pc,
    intent,
    adapter,            \* the adapter the thread uses; "none" before one is chosen
    primary,            \* the one chosen first
    attempt, elapsed,   \* of ExecuteWithRecovery
    status,             \* lastResult.status
    result,             \* what ExecuteInternal will return
    passed,             \* the adapters its fallback loop is past, in order of registration
    fastPath,           \* fastPath_, the least recently accessed entry first
    recorded,           \* which of an adapter's successCount and failureCount are not zero
    made,               \* attempts of this call by adapter
    earned              \* the calls that ended well

callVars == <<intent, adapter, primary, attempt, elapsed, status, result, passed, made>>
vars == <<calls, pc, callVars, fastPath, recorded, earned>>

-----------------------------------------------------------------------------
NoIntent == [key |-> "none", ticks |-> 0, version |-> 0, valid |-> FALSE, timeout |-> 1,
             maxRetries |-> 0, allowFallback |-> FALSE, requiresVerification |-> FALSE,
             capable |-> {}]
NothingMade == [a \in AdapterSet |-> 0]

Init ==
    /\ calls = 0
    /\ pc = [e \in Executors |-> "idle"]
    /\ intent = [e \in Executors |-> NoIntent]
    /\ adapter = [e \in Executors |-> "none"] /\ primary = [e \in Executors |-> "none"]
    /\ attempt = [e \in Executors |-> 0] /\ elapsed = [e \in Executors |-> 0]
    /\ status = [e \in Executors |-> "FAILED"] /\ result = [e \in Executors |-> "FAILED"]
    /\ passed = [e \in Executors |-> 0]
    /\ fastPath = <<>>
    /\ recorded = {}
    /\ made = [e \in Executors |-> NothingMade]
    /\ earned = {}

Goto(e, place) == pc' = [pc EXCEPT ![e] = place]

-----------------------------------------------------------------------------
\* ExecuteInternal, up to the choice of an adapter.

Execute(e, i) ==
    /\ pc[e] = "idle" /\ calls < MaxCalls
    /\ calls' = calls + 1
    /\ intent' = [intent EXCEPT ![e] = i]
    /\ Goto(e, IF i.valid THEN "select" ELSE "returned")
    /\ UNCHANGED <<adapter, primary, attempt, elapsed, status, result, passed, made,
                   fastPath, recorded, earned>>

FastPathEntry == [key : Keys \cup {"none"}, adapter : AdapterSet, ticks : Nat, version : Nat]

HasSnapshot(i) == i.ticks # 0 \/ i.version # 0

\* A snapshot number the intent does not carry is not compared.
SameSnapshotTicksOnly(entry, i) == i.ticks # 0 => entry.ticks = i.ticks   \* variant

SameSnapshot(entry, i) ==
    /\ i.ticks # 0 => entry.ticks = i.ticks
    /\ i.version # 0 => entry.version = i.version

Entries(key) == {k \in DOMAIN fastPath : fastPath[k].key = key}

WithoutKey(key) ==
    IF Entries(key) = {} THEN fastPath
    ELSE RemoveAt(fastPath, CHOOSE k \in Entries(key) : TRUE)

UseAdapter(e, a) ==
    /\ adapter' = [adapter EXCEPT ![e] = a] /\ primary' = [primary EXCEPT ![e] = a]
    /\ Goto(e, "attempt")

\* The entry found is young enough, of the same snapshot, and its adapter can do it.
TryFastPath(e) ==
    /\ pc[e] = "select" /\ HasSnapshot(intent[e])
    /\ \E k \in Entries(intent[e].key) :
          /\ SameSnapshot(fastPath[k], intent[e])
          /\ fastPath[k].adapter \in intent[e].capable
          /\ fastPath' = Append(WithoutKey(intent[e].key), fastPath[k])
          /\ UseAdapter(e, fastPath[k].adapter)
    /\ UNCHANGED <<calls, intent, attempt, elapsed, status, result, passed, made,
                   recorded, earned>>

\* Any other entry that was found is erased; a usable one may have grown too old.
ResolveBest(e) ==
    /\ pc[e] = "select"
    /\ fastPath' = IF HasSnapshot(intent[e]) THEN WithoutKey(intent[e].key) ELSE fastPath
    /\ \/ \E a \in intent[e].capable : UseAdapter(e, a)
       \/ /\ intent[e].capable = {}
          /\ Goto(e, "returned") /\ UNCHANGED <<adapter, primary>>
    /\ UNCHANGED <<calls, intent, attempt, elapsed, status, result, passed, made,
                   recorded, earned>>

-----------------------------------------------------------------------------
\* ExecuteWithRecovery: one adapter, up to maxRetries + 1 attempts before the deadline.

Deadline(i) == i.timeout * (i.maxRetries + 1)

ShouldRetryUnverified(i, s, n) ==   \* variant: a partial success is always repeated
    n < i.maxRetries /\ s # "SUCCESS"

ShouldRetry(i, s, n) ==
    /\ n < i.maxRetries
    /\ s # "SUCCESS"
    /\ s = "PARTIAL" => i.requiresVerification

\* An answer that says it took too long is a failure, whatever else it says; so is a partial
\* one at the deadline.
Judged(outcome, reported, total, i) ==
    IF \/ reported > i.timeout
       \/ outcome # "SUCCESS" /\ total >= Deadline(i)
      THEN "FAILED" ELSE outcome

RecordExecution(a, s) == recorded' = recorded \cup {<<a, s # "FAILED">>}

\* The engine measures a call only if the adapter reports no duration of its own.
Attempt(e, outcome, duration, reported) ==
    LET a == adapter[e]
        total == elapsed[e] + duration
        judged == Judged(outcome, IF reported = 0 THEN duration ELSE reported, total, intent[e])
        again == ShouldRetry(intent[e], judged, attempt[e])
    IN  /\ pc[e] = "attempt" /\ elapsed[e] < Deadline(intent[e])
        /\ elapsed' = [elapsed EXCEPT ![e] = total]
        /\ status' = [status EXCEPT ![e] = judged]
        /\ RecordExecution(a, judged)
        /\ attempt' = [attempt EXCEPT ![e] = IF again THEN @ + 1 ELSE @]
        /\ Goto(e, IF again THEN "attempt" ELSE "judge")
        /\ made' = [made EXCEPT ![e][a] = @ + 1]
        /\ UNCHANGED <<calls, intent, adapter, primary, result, passed, fastPath, earned>>

\* The deadline is past when the loop looks, even before the first attempt.
RunOutOfTime(e) ==
    /\ pc[e] = "attempt"
    /\ status' = [status EXCEPT ![e] = "FAILED"]
    /\ Goto(e, "judge")
    /\ UNCHANGED <<calls, intent, adapter, primary, attempt, elapsed, result, passed, made,
                   fastPath, recorded, earned>>

-----------------------------------------------------------------------------
\* ExecuteInternal, from the primary adapter's result on.

CandidatesAll(e) ==   \* variant: the primary is tried again
    {k \in passed[e] + 1 .. Len(Adapters) : Adapters[k] \in intent[e].capable}

Candidates(e) ==
    {k \in passed[e] + 1 .. Len(Adapters) :
        Adapters[k] # primary[e] /\ Adapters[k] \in intent[e].capable}

JudgePrimary(e) ==
    /\ pc[e] = "judge" /\ adapter[e] = primary[e]
    /\ result' = [result EXCEPT ![e] = status[e]]
    /\ Goto(e, IF status[e] = "FAILED" /\ intent[e].allowFallback THEN "fallback" ELSE "finish")
    /\ UNCHANGED <<calls, intent, adapter, primary, attempt, elapsed, status, passed, made,
                   fastPath, recorded, earned>>

TryFallback(e) ==
    /\ pc[e] = "fallback"
    /\ \E k \in Candidates(e) :
          /\ \A j \in Candidates(e) : k <= j
          /\ adapter' = [adapter EXCEPT ![e] = Adapters[k]]
          /\ passed' = [passed EXCEPT ![e] = k]
    /\ attempt' = [attempt EXCEPT ![e] = 0] /\ elapsed' = [elapsed EXCEPT ![e] = 0]
    /\ Goto(e, "attempt")
    /\ UNCHANGED <<calls, intent, primary, status, result, made, fastPath, recorded,
                   earned>>

JudgeFallback(e) ==
    /\ pc[e] = "judge" /\ adapter[e] # primary[e]
    /\ IF status[e] # "FAILED"
         THEN result' = [result EXCEPT ![e] = status[e]] /\ Goto(e, "finish")
         ELSE UNCHANGED result /\ Goto(e, "fallback")
    /\ UNCHANGED <<calls, intent, adapter, primary, attempt, elapsed, status, passed, made,
                   fastPath, recorded, earned>>

FallbackExhausted(e) ==
    /\ pc[e] = "fallback" /\ Candidates(e) = {}
    /\ Goto(e, "finish")
    /\ UNCHANGED <<calls, callVars, fastPath, recorded, earned>>

\* fastPath_[key] = entry, then EvictCount times the least recently accessed entry.

Evicted(s) ==
    IF Len(s) <= FastPathLimit THEN s ELSE SubSeq(s, EvictCount + 1, Len(s))

EntryUnchecked(e) ==   \* variant: the primary is remembered, whoever did it
    [key |-> intent[e].key, adapter |-> primary[e],
     ticks |-> intent[e].ticks, version |-> intent[e].version]

Entry(e) == [key |-> intent[e].key, adapter |-> adapter[e],
             ticks |-> intent[e].ticks, version |-> intent[e].version]

UpdateFastPath(e) ==
    IF result[e] # "FAILED" /\ HasSnapshot(intent[e])
      THEN Evicted(Append(WithoutKey(intent[e].key), Entry(e))) ELSE fastPath

Finish(e) ==
    /\ pc[e] = "finish"
    /\ fastPath' = UpdateFastPath(e)
    /\ earned' = IF status[e] # "FAILED"
                   THEN earned \cup {[key |-> intent[e].key, adapter |-> adapter[e],
                                      ticks |-> intent[e].ticks, version |-> intent[e].version]}
                   ELSE earned
    /\ Goto(e, "returned")
    /\ UNCHANGED <<calls, callVars, recorded>>

Return(e) ==
    /\ pc[e] = "returned"
    /\ Goto(e, "idle")
    /\ intent' = [intent EXCEPT ![e] = NoIntent]
    /\ adapter' = [adapter EXCEPT ![e] = "none"] /\ primary' = [primary EXCEPT ![e] = "none"]
    /\ attempt' = [attempt EXCEPT ![e] = 0] /\ elapsed' = [elapsed EXCEPT ![e] = 0]
    /\ status' = [status EXCEPT ![e] = "FAILED"] /\ result' = [result EXCEPT ![e] = "FAILED"]
    /\ passed' = [passed EXCEPT ![e] = 0]
    /\ made' = [made EXCEPT ![e] = NothingMade]
    /\ UNCHANGED <<calls, fastPath, recorded, earned>>

-----------------------------------------------------------------------------
Step(e) ==
    \/ \E i \in Intents : Execute(e, i)
    \/ TryFastPath(e) \/ ResolveBest(e)
    \/ \E outcome \in Status, duration \in Durations, reported \in Durations \cup {0} :
          Attempt(e, outcome, duration, reported)
    \/ RunOutOfTime(e)
    \/ JudgePrimary(e) \/ TryFallback(e) \/ JudgeFallback(e) \/ FallbackExhausted(e)
    \/ Finish(e) \/ Return(e)

Next == \E e \in Executors : Step(e)

Spec == Init /\ [][Next]_vars

-----------------------------------------------------------------------------
\* Properties.

UniqueKeys(s) == \A k, l \in DOMAIN s : s[k].key = s[l].key => k = l

\* Every variable keeps its type; no key has two entries in the fast path (a map in
\* ExecutionEngine.h).
TypeOK ==
    /\ calls \in Nat
    /\ pc \in [Executors -> {"idle", "select", "attempt", "judge", "fallback", "finish",
                             "returned"}]
    /\ intent \in [Executors -> Intents \cup {NoIntent}]
    /\ adapter \in [Executors -> AdapterSet \cup {"none"}]
    /\ primary \in [Executors -> AdapterSet \cup {"none"}]
    /\ attempt \in [Executors -> Nat] /\ elapsed \in [Executors -> Nat]
    /\ status \in [Executors -> Status] /\ result \in [Executors -> Status]
    /\ passed \in [Executors -> 0 .. Len(Adapters)]
    /\ fastPath \in Seq(FastPathEntry) /\ UniqueKeys(fastPath)
    /\ recorded \subseteq AdapterSet \X BOOLEAN
    /\ made \in [Executors -> [AdapterSet -> Nat]]

\* However the primary and the fallbacks end, no adapter executes an intent more often than
\* its retries allow (ExecuteWithRecovery, the fallback loop).
AttemptBudget ==
    \A e \in Executors : \A a \in AdapterSet : made[e][a] <= intent[e].maxRetries + 1

\* What was reported done is not done again: an adapter executes only while the latest answer
\* of this call, of whichever adapter, is a failure or a partial one to be verified, which only
\* the same adapter repeats (ShouldRetry, the break of the fallback loop).
RepeatsNothing ==
    \A e \in Executors :
        pc[e] = "attempt" /\ made'[e] # made[e] =>
            \/ status[e] = "FAILED"
            \/ status[e] = "PARTIAL" /\ intent[e].requiresVerification /\ attempt[e] > 0
NothingAfterSuccess == [][RepeatsNothing]_vars

\* A success that is returned was reported by the adapter used last (usedAdapter), and its
\* counters know it.
SuccessIsEarned ==
    \A e \in Executors :
        pc[e] \in {"finish", "returned"} /\ result[e] # "FAILED" =>
            /\ result[e] = status[e]
            /\ adapter[e] \in intent[e].capable
            /\ made[e][adapter[e]] > 0 /\ <<adapter[e], TRUE>> \in recorded

\* An entry of the fast path says what some call really earned: the adapter that did it, for
\* that key and that snapshot (docs/adapter_sdk.md, "validated by snapshot metadata").
FastPathEarned == ToSet(fastPath) \subseteq earned

\* What TryFastPath chooses (ResolveBest leaves no entry of the key) worked before on the
\* snapshot the intent carries, and can execute this intent as well.
ChoosesSoundly ==
    \A e \in Executors :
        LET i == intent[e]
        IN  /\ pc[e] = "select" /\ pc'[e] = "attempt" /\ HasSnapshot(i)
            /\ \E k \in DOMAIN fastPath' : fastPath'[k].key = i.key
            => /\ adapter'[e] \in i.capable
               /\ \E w \in earned : /\ w.key = i.key /\ w.adapter = adapter'[e]
                                    /\ i.ticks \in {0, w.ticks}
                                    /\ i.version \in {0, w.version}
FastPathSound == [][ChoosesSoundly]_vars

\* The fast path is bounded (docs/adapter_sdk.md), and an eviction takes neither the entry that
\* made it necessary nor one used since the entry it keeps.
EvictsTheOldest ==
    /\ Len(fastPath') <= FastPathLimit
    /\ \A e \in Executors :
          pc[e] = "finish" /\ pc'[e] = "returned" /\ result[e] # "FAILED" /\ HasSnapshot(intent[e]) =>
              LET others == WithoutKey(intent[e].key)
                  kept == Len(fastPath') - 1
              IN  fastPath' = Append(SubSeq(others, Len(others) - kept + 1, Len(others)), Last(fastPath'))
                  /\ Last(fastPath').key = intent[e].key
FastPathBounded == [][EvictsTheOldest]_vars
=============================================================================
