-------------------------- MODULE ExecutionProofs --------------------------
(***************************************************************************)
(* Theorems about what executes, for every value of the constants: the     *)
(* engine (its budget of attempts, that a success is not repeated, what    *)
(* the fast path holds), Act (its self-healing, and that the two memories  *)
(* agree) and the executor of macros (that it runs what a text means), all *)
(* of them for the parts of MCExecution, whose steps are theirs.           *)
(***************************************************************************)
EXTENDS MCExecution, FoldFacts

-----------------------------------------------------------------------------
\* Facts about sequences.

\* RemoveAt drops one element and keeps the others in order.
LEMMA RemoveAtFacts ==
    ASSUME NEW S, NEW s \in Seq(S), NEW k \in 1 .. Len(s)
    PROVE  /\ RemoveAt(s, k) \in Seq(S)
           /\ Len(RemoveAt(s, k)) = Len(s) - 1
           /\ \A i \in 1 .. Len(s) - 1 :
                 RemoveAt(s, k)[i] = IF i < k THEN s[i] ELSE s[i + 1]
<1>. DEFINE l == SubSeq(s, 1, k - 1)
            r == SubSeq(s, k + 1, Len(s))
<1>1. Len(s) \in Nat /\ \A i \in 1 .. Len(s) : s[i] \in S
    OBVIOUS
<1>2. l \in Seq(S) /\ Len(l) = k - 1 /\ \A i \in 1 .. k - 1 : l[i] = s[i]
    <2>1. \A i \in 1 .. k - 1 : s[i] \in S
        BY <1>1
    <2>. QED
        BY <2>1, SubSeqProperties
<1>3. r \in Seq(S) /\ Len(r) = Len(s) - k /\ \A i \in 1 .. Len(s) - k : r[i] = s[k + i]
    <2>1. \A i \in k + 1 .. Len(s) : s[i] \in S
        BY <1>1
    <2>2. Len(r) = Len(s) - k
        BY <1>1, <2>1, SubSeqProperties
    <2>3. r \in Seq(S)
        BY <1>1, <2>1, SubSeqProperties
    <2>4. \A i \in 1 .. Len(s) - k : r[i] = s[k + 1 + i - 1]
        BY <1>1, <2>1, SubSeqProperties
    <2>. QED
        BY <1>1, <2>2, <2>3, <2>4
<1>4. RemoveAt(s, k) = l \o r
    BY DEF RemoveAt
<1>. HIDE DEF l, r
<1>5. /\ l \o r \in Seq(S)
      /\ Len(l \o r) = Len(l) + Len(r)
      /\ \A i \in 1 .. Len(l) + Len(r) : (l \o r)[i] = IF i <= Len(l) THEN l[i] ELSE r[i - Len(l)]
    BY <1>2, <1>3, ConcatProperties
<1>6. \A i \in 1 .. Len(s) - 1 : (l \o r)[i] = IF i < k THEN s[i] ELSE s[i + 1]
    <2>. TAKE i \in 1 .. Len(s) - 1
    <2>1. (l \o r)[i] = IF i <= Len(l) THEN l[i] ELSE r[i - Len(l)]
        BY <1>1, <1>2, <1>3, <1>5
    <2>2. CASE i < k
        BY <1>1, <1>2, <2>1, <2>2
    <2>3. CASE ~ (i < k)
        <3>1. i - Len(l) \in 1 .. Len(s) - k /\ ~ (i <= Len(l)) /\ k + (i - Len(l)) = i + 1
            BY <1>1, <1>2, <2>3
        <3>. QED
            BY <1>1, <1>2, <1>3, <2>1, <2>3, <3>1
    <2>. QED
        BY <2>2, <2>3
<1>. QED
    BY <1>1, <1>2, <1>3, <1>4, <1>5, <1>6
-----------------------------------------------------------------------------
\* Facts about the fast path.

\* What is left of the fast path without a key: the other keys' entries, each once.
LEMMA WithoutKeyFacts ==
    ASSUME fastPath \in Seq(FastPathEntry), UniqueKeys(fastPath), NEW key
    PROVE  /\ WithoutKey(key) \in Seq(FastPathEntry)
           /\ UniqueKeys(WithoutKey(key))
           /\ \A i \in DOMAIN WithoutKey(key) : WithoutKey(key)[i].key # key
           /\ ToSet(WithoutKey(key)) \subseteq ToSet(fastPath)
           /\ Len(WithoutKey(key)) = IF Entries(key) = {} THEN Len(fastPath) ELSE Len(fastPath) - 1
<1>1. DOMAIN fastPath = 1 .. Len(fastPath) /\ Len(fastPath) \in Nat
    OBVIOUS
<1>2. CASE Entries(key) = {}
    BY <1>2 DEF WithoutKey, Entries
<1>3. CASE Entries(key) # {}
    <2>1. PICK k \in Entries(key) : WithoutKey(key) = RemoveAt(fastPath, k)
        BY <1>3 DEF WithoutKey
    <2>. DEFINE s == RemoveAt(fastPath, k)
    <2>2. k \in 1 .. Len(fastPath) /\ fastPath[k].key = key
        BY <1>1 DEF Entries
    <2>3. /\ s \in Seq(FastPathEntry)
          /\ Len(s) = Len(fastPath) - 1
          /\ \A i \in 1 .. Len(fastPath) - 1 : s[i] = IF i < k THEN fastPath[i] ELSE fastPath[i + 1]
        BY <2>2, RemoveAtFacts
    <2>. HIDE DEF s
    <2>4. DOMAIN s = 1 .. Len(fastPath) - 1
        BY <2>3
    <2>5. \A i \in DOMAIN s : \E j \in DOMAIN fastPath : s[i] = fastPath[j] /\ j # k
        <3>. TAKE i \in DOMAIN s
        <3>1. i \in 1 .. Len(fastPath) /\ i + 1 \in 1 .. Len(fastPath)
            BY <1>1, <2>4
        <3>2. CASE i < k
            BY <1>1, <2>3, <2>4, <3>1, <3>2
        <3>3. CASE ~ (i < k)
            BY <1>1, <2>2, <2>3, <2>4, <3>1, <3>3
        <3>. QED
            BY <3>2, <3>3
    <2>6. \A i \in DOMAIN s : s[i].key # key
        BY <2>2, <2>5, <1>1 DEF UniqueKeys
    <2>7. ToSet(s) \subseteq ToSet(fastPath)
        BY <2>5 DEF ToSet
    <2>8. UniqueKeys(s)
        <3>1. SUFFICES ASSUME NEW i \in DOMAIN s, NEW j \in DOMAIN s, s[i].key = s[j].key
                       PROVE  i = j
            BY DEF UniqueKeys
        <3>. DEFINE at(n) == IF n < k THEN n ELSE n + 1
        <3>2. at(i) \in DOMAIN fastPath /\ at(j) \in DOMAIN fastPath
            BY <1>1, <2>2, <2>4
        <3>3. s[i] = fastPath[at(i)] /\ s[j] = fastPath[at(j)]
            BY <2>3, <2>4
        <3>4. at(i) = at(j)
            BY <3>1, <3>2, <3>3 DEF UniqueKeys
        <3>. QED
            BY <2>2, <2>4, <3>4
    <2>. QED
        BY <1>3, <2>1, <2>3, <2>6, <2>7, <2>8 DEF s
<1>. QED
    BY <1>2, <1>3

\* An entry that takes its key's place: it is the last, and the others are as they were.
LEMMA ReplacedFacts ==
    ASSUME fastPath \in Seq(FastPathEntry), UniqueKeys(fastPath), NEW x \in FastPathEntry
    PROVE  LET s == Append(WithoutKey(x.key), x)
           IN  /\ s \in Seq(FastPathEntry) /\ UniqueKeys(s)
               /\ ToSet(s) \subseteq ToSet(fastPath) \cup {x}
               /\ Len(s) <= Len(fastPath) + 1
               /\ Entries(x.key) # {} => Len(s) = Len(fastPath)
<1>. DEFINE t == WithoutKey(x.key)
            s == Append(t, x)
<1>1. /\ t \in Seq(FastPathEntry) /\ UniqueKeys(t)
      /\ \A i \in DOMAIN t : t[i].key # x.key
      /\ ToSet(t) \subseteq ToSet(fastPath)
      /\ Len(t) = IF Entries(x.key) = {} THEN Len(fastPath) ELSE Len(fastPath) - 1
    BY WithoutKeyFacts
<1>. HIDE DEF t
<1>2. /\ s \in Seq(FastPathEntry) /\ Len(s) = Len(t) + 1
      /\ \A i \in 1 .. Len(t) : s[i] = t[i]
      /\ s[Len(t) + 1] = x
    BY <1>1, AppendProperties
<1>. HIDE DEF s
<1>3. DOMAIN s = 1 .. Len(t) + 1 /\ DOMAIN t = 1 .. Len(t) /\ Len(t) \in Nat /\ Len(fastPath) \in Nat
    BY <1>1, <1>2
<1>4. \A i \in DOMAIN s : i \in DOMAIN t \/ i = Len(t) + 1
    BY <1>3
<1>5. UniqueKeys(s)
    BY <1>1, <1>2, <1>3, <1>4 DEF UniqueKeys
<1>6. ToSet(s) \subseteq ToSet(fastPath) \cup {x}
    BY <1>1, <1>2, <1>3, <1>4 DEF ToSet
<1>7. Len(s) <= Len(fastPath) + 1 /\ (Entries(x.key) # {} => Len(s) = Len(fastPath))
    BY <1>1, <1>2, <1>3
<1>. QED
    BY <1>2, <1>5, <1>6, <1>7 DEF s, t

\* An eviction leaves a suffix that is not empty and within the limit.
LEMMA EvictedFacts ==
    ASSUME NEW s \in Seq(FastPathEntry), UniqueKeys(s), Len(s) <= FastPathLimit + 1
    PROVE  /\ Evicted(s) \in Seq(FastPathEntry) /\ UniqueKeys(Evicted(s))
           /\ ToSet(Evicted(s)) \subseteq ToSet(s)
           /\ Len(Evicted(s)) <= FastPathLimit
<1>1. Len(s) \in Nat /\ DOMAIN s = 1 .. Len(s) /\ \A i \in 1 .. Len(s) : s[i] \in FastPathEntry
    OBVIOUS
<1>2. CASE Len(s) <= FastPathLimit
    BY <1>2 DEF Evicted
<1>3. CASE ~ (Len(s) <= FastPathLimit)
    <2>. DEFINE t == SubSeq(s, EvictCount + 1, Len(s))
    <2>1. /\ EvictCount + 1 \in 1 .. Len(s) /\ EvictCount \in Nat /\ FastPathLimit \in Nat
          /\ EvictCount >= 1
        BY <1>1, <1>3, EngineAssumption
    <2>2. \A i \in EvictCount + 1 .. Len(s) : s[i] \in FastPathEntry
        BY <1>1, <2>1
    <2>3. /\ t \in Seq(FastPathEntry)
          /\ Len(t) = Len(s) - (EvictCount + 1) + 1
        BY <1>1, <2>1, <2>2, SubSeqProperties
    <2>4. \A i \in 1 .. Len(s) - (EvictCount + 1) + 1 : t[i] = s[EvictCount + 1 + i - 1]
        BY <1>1, <2>1, <2>2, SubSeqProperties
    <2>. HIDE DEF t
    <2>5. DOMAIN t = 1 .. Len(s) - EvictCount /\ Len(t) <= FastPathLimit
        BY <1>1, <2>1, <2>3
    <2>6. \A i \in DOMAIN t : EvictCount + i \in DOMAIN s /\ t[i] = s[EvictCount + i]
        <3>. TAKE i \in DOMAIN t
        <3>1. EvictCount + 1 + i - 1 = EvictCount + i /\ EvictCount + i \in DOMAIN s
            BY <1>1, <2>1, <2>5
        <3>. QED
            BY <1>1, <2>1, <2>4, <2>5, <3>1
    <2>7. UniqueKeys(t)
        <3>1. SUFFICES ASSUME NEW i \in DOMAIN t, NEW j \in DOMAIN t, t[i].key = t[j].key
                       PROVE  i = j
            BY DEF UniqueKeys
        <3>2. EvictCount + i = EvictCount + j
            BY <2>6, <3>1 DEF UniqueKeys
        <3>. QED
            BY <2>1, <2>5, <3>2
    <2>8. ToSet(t) \subseteq ToSet(s)
        BY <2>6 DEF ToSet
    <2>. QED
        BY <1>3, <2>3, <2>5, <2>7, <2>8 DEF Evicted, t
<1>. QED
    BY <1>2, <1>3

-----------------------------------------------------------------------------
\* The inductive invariant, thread by thread.

\* Nothing is left of the last call when a thread is to choose an adapter.
Fresh(e) ==
    pc[e] \in {"idle", "select"} =>
        /\ made[e] = NothingMade /\ passed[e] = 0 /\ attempt[e] = 0
        /\ status[e] = "FAILED" /\ result[e] = "FAILED"

\* The adapters in use can execute the intent, and the loop over the fallbacks stands at one.
Chosen(e) ==
    pc[e] \in {"attempt", "judge", "fallback", "finish"} =>
        /\ adapter[e] \in intent[e].capable /\ primary[e] \in intent[e].capable
        /\ \/ adapter[e] = primary[e]
           \/ passed[e] > 0 /\ adapter[e] = Adapters[passed[e]]

\* The attempts made with the adapter in use are those its loop counts, and the fallbacks that
\* are still to come have executed nothing.
Budgeted(e) ==
    /\ \A a \in AdapterSet : made[e][a] <= intent[e].maxRetries + 1
    /\ pc[e] = "attempt" => made[e][adapter[e]] = attempt[e] /\ attempt[e] <= intent[e].maxRetries
    /\ pc[e] \in {"attempt", "judge", "fallback"} =>
          \A k \in passed[e] + 1 .. Len(Adapters) :
              Adapters[k] # primary[e] => made[e][Adapters[k]] = 0

\* The latest answer is a failure whenever an adapter is tried for the first time, and one that
\* is worth repeating whenever it is tried again; the last one is what the call returns.
Answered(e) ==
    /\ pc[e] \in {"attempt", "judge", "fallback"} => result[e] = "FAILED"
    /\ pc[e] = "attempt" =>
          \/ status[e] = "FAILED"
          \/ status[e] = "PARTIAL" /\ intent[e].requiresVerification /\ attempt[e] > 0
    /\ pc[e] = "fallback" => status[e] = "FAILED"
    /\ pc[e] \in {"finish", "returned"} => result[e] = status[e]
    /\ pc[e] \in {"judge", "finish", "returned"} /\ status[e] # "FAILED" =>
          /\ adapter[e] \in intent[e].capable
          /\ made[e][adapter[e]] > 0 /\ <<adapter[e], TRUE>> \in recorded

Call(e) == Fresh(e) /\ Chosen(e) /\ Budgeted(e) /\ Answered(e)

FastPathInv == Len(fastPath) <= FastPathLimit /\ FastPathEarned

EngineInv == TypeOK /\ (\A e \in Executors : Call(e)) /\ FastPathInv

-----------------------------------------------------------------------------
\* The type invariant.

\* The intent of a call, or the empty one between two calls, says who can execute it.
LEMMA IntentFacts ==
    ASSUME TypeOK, NEW e \in Executors
    PROVE  /\ intent[e] \in IntentType
           /\ intent[e].capable \subseteq AdapterSet
           /\ intent[e].maxRetries \in Nat /\ intent[e].timeout \in Nat
           /\ intent[e].key \in Keys \cup {"none"}
           /\ intent[e].ticks \in Nat /\ intent[e].version \in Nat
<1>1. NoIntent \in IntentType
    <2>1. 0 \in Nat /\ 1 \in Nat \ {0}
        OBVIOUS
    <2>2. "none" \in Keys \cup {"none"}
        OBVIOUS
    <2>3. {} \in SUBSET AdapterSet
        OBVIOUS
    <2>4. FALSE \in BOOLEAN
        OBVIOUS
    <2>. QED
        BY <2>1, <2>2, <2>3, <2>4, Zenon DEF NoIntent, IntentType
<1>2. intent[e] \in IntentType
    BY <1>1, EngineAssumption DEF TypeOK
<1>. QED
    BY <1>2 DEF IntentType

\* The adapters are a sequence without repetition.
LEMMA AdaptersFacts ==
    /\ Len(Adapters) \in Nat /\ DOMAIN Adapters = 1 .. Len(Adapters)
    /\ \A k \in 1 .. Len(Adapters) : Adapters[k] \in AdapterSet
    /\ \A j, k \in 1 .. Len(Adapters) : Adapters[j] = Adapters[k] => j = k
<1>1. Len(Adapters) \in Nat /\ DOMAIN Adapters = 1 .. Len(Adapters)
    BY EngineAssumption
<1>. QED
    BY <1>1, EngineAssumption DEF AdapterSet, ToSet, IsInjective

LEMMA TypeInit == Init => TypeOK
<1>. SUFFICES ASSUME Init PROVE TypeOK
    OBVIOUS
<1>1. fastPath \in Seq(FastPathEntry) /\ UniqueKeys(fastPath)
    BY DEF Init, UniqueKeys
<1>2. passed \in [Executors -> 0 .. Len(Adapters)]
    BY AdaptersFacts DEF Init
<1>. QED
    BY <1>1, <1>2 DEF Init, TypeOK, Status, NothingMade

LEMMA TypeStep ==
    ASSUME TypeOK, FastPathInv, NEW e \in Executors, Call(e), Step(e)
    PROVE  TypeOK'
<1>. USE DEF TypeOK, Goto
<1>1. ASSUME NEW i \in Intents, Execute(e, i)
      PROVE  TypeOK'
    BY <1>1 DEF Execute
<1>2. ASSUME NEW a \in intent[e].capable, UseAdapter(e, a)
      PROVE  /\ adapter' \in [Executors -> AdapterSet \cup {"none"}]
             /\ primary' \in [Executors -> AdapterSet \cup {"none"}]
             /\ pc' = [pc EXCEPT ![e] = "attempt"]
    BY <1>2, IntentFacts DEF UseAdapter
<1>3. CASE TryFastPath(e)
    <2>1. PICK k \in Entries(intent[e].key) :
              /\ fastPath[k].adapter \in intent[e].capable
              /\ fastPath' = Append(WithoutKey(intent[e].key), fastPath[k])
              /\ UseAdapter(e, fastPath[k].adapter)
        BY <1>3 DEF TryFastPath
    <2>2. fastPath[k] \in FastPathEntry /\ fastPath[k].key = intent[e].key
        BY <2>1 DEF Entries
    <2>. DEFINE s == Append(WithoutKey(intent[e].key), fastPath[k])
    <2>3. s \in Seq(FastPathEntry) /\ UniqueKeys(s) /\ fastPath' = s
        BY <2>1, <2>2, ReplacedFacts
    <2>. HIDE DEF s
    <2>4. fastPath' \in Seq(FastPathEntry) /\ UniqueKeys(fastPath)'
        BY <2>3 DEF UniqueKeys
    <2>. QED
        BY <1>2, <1>3, <2>1, <2>4 DEF TryFastPath
<1>4. CASE ResolveBest(e)
    <2>1. fastPath' \in Seq(FastPathEntry) /\ UniqueKeys(fastPath)'
        BY <1>4, WithoutKeyFacts DEF ResolveBest, UniqueKeys
    <2>2. CASE \E a \in intent[e].capable : UseAdapter(e, a)
        BY <1>2, <1>4, <2>1, <2>2 DEF ResolveBest
    <2>3. CASE Goto(e, "returned") /\ UNCHANGED <<adapter, primary>>
        BY <1>4, <2>1, <2>3 DEF ResolveBest
    <2>. QED
        BY <1>4, <2>2, <2>3 DEF ResolveBest
<1>5. ASSUME NEW outcome \in Status, NEW duration \in Durations, NEW reported \in Durations \cup {0},
             Attempt(e, outcome, duration, reported)
      PROVE  TypeOK'
    <2>1. adapter[e] \in AdapterSet /\ intent[e].capable \subseteq AdapterSet
        BY <1>5, IntentFacts DEF Attempt, Call, Chosen
    <2>2. \A r, t : Judged(outcome, r, t, intent[e]) \in Status
        BY DEF Judged, Status
    <2>3. duration \in Nat
        BY EngineAssumption
    <2>4. recorded' \subseteq AdapterSet \X BOOLEAN
        <3>1. \A s : <<adapter[e], s # "FAILED">> \in AdapterSet \X BOOLEAN
            <4>1. \A s : (s # "FAILED") \in BOOLEAN
                OBVIOUS
            <4>. QED
                BY <2>1, <4>1, Zenon
        <3>2. \E s : recorded' = recorded \cup {<<adapter[e], s # "FAILED">>}
            BY <1>5, Zenon DEF Attempt, RecordExecution
        <3>. QED
            BY <3>1, <3>2, Zenon
    <2>5. made' \in [Executors -> [AdapterSet -> Nat]]
        BY <1>5, <2>1 DEF Attempt
    <2>6. attempt' \in [Executors -> Nat] /\ elapsed' \in [Executors -> Nat]
        BY <1>5, <2>3 DEF Attempt
    <2>7. status' \in [Executors -> Status]
        BY <1>5, <2>2 DEF Attempt
    <2>. QED
        BY <1>5, <2>4, <2>5, <2>6, <2>7 DEF Attempt
<1>6. CASE TryFallback(e)
    <2>1. \A k \in Candidates(e) : k \in 0 .. Len(Adapters) /\ Adapters[k] \in AdapterSet
        BY AdaptersFacts DEF Candidates
    <2>. QED
        BY <1>6, <2>1 DEF TryFallback
<1>7. CASE Finish(e)
    <2>1. fastPath' \in Seq(FastPathEntry) /\ UniqueKeys(fastPath)'
        <3>1. CASE ~ (result[e] # "FAILED" /\ HasSnapshot(intent[e]))
            BY <1>7, <3>1 DEF Finish, UpdateFastPath, UniqueKeys
        <3>2. CASE result[e] # "FAILED" /\ HasSnapshot(intent[e])
            <4>. DEFINE s == Append(WithoutKey(intent[e].key), Entry(e))
            <4>1. Entry(e) \in FastPathEntry /\ Entry(e).key = intent[e].key
                BY <1>7, IntentFacts DEF Finish, Call, Chosen, Entry, FastPathEntry
            <4>2. s \in Seq(FastPathEntry) /\ UniqueKeys(s) /\ Len(s) <= FastPathLimit + 1
                <5>1. /\ s \in Seq(FastPathEntry) /\ UniqueKeys(s)
                      /\ Len(s) <= Len(fastPath) + 1
                    BY <4>1, ReplacedFacts
                <5>2. Len(s) \in Nat /\ Len(fastPath) \in Nat /\ FastPathLimit \in Nat
                    BY <5>1, EngineAssumption
                <5>. QED
                    BY <5>1, <5>2 DEF FastPathInv
            <4>3. fastPath' = Evicted(s)
                BY <1>7, <3>2 DEF Finish, UpdateFastPath
            <4>. HIDE DEF s
            <4>4. Evicted(s) \in Seq(FastPathEntry) /\ UniqueKeys(Evicted(s))
                BY <4>2, EvictedFacts
            <4>. QED
                BY <4>3, <4>4 DEF UniqueKeys
        <3>. QED
            BY <3>1, <3>2
    <2>. QED
        BY <1>7, <2>1 DEF Finish, callVars
<1>8. CASE Return(e)
    <2>1. 0 \in 0 .. Len(Adapters) /\ NothingMade \in [AdapterSet -> Nat] /\ "FAILED" \in Status
        BY AdaptersFacts DEF NothingMade, Status
    <2>. QED
        BY <1>8, <2>1 DEF Return
<1>9. CASE RunOutOfTime(e) \/ JudgePrimary(e) \/ JudgeFallback(e) \/ FallbackExhausted(e)
    BY <1>9 DEF RunOutOfTime, JudgePrimary, JudgeFallback, FallbackExhausted, callVars, Status
<1>. QED
    BY <1>1, <1>3, <1>4, <1>5, <1>6, <1>7, <1>8, <1>9 DEF Step

-----------------------------------------------------------------------------
\* The invariant of a call.

\* What an action of one thread leaves alone.
Kept(d) ==
    /\ pc'[d] = pc[d] /\ intent'[d] = intent[d]
    /\ adapter'[d] = adapter[d] /\ primary'[d] = primary[d]
    /\ attempt'[d] = attempt[d] /\ passed'[d] = passed[d] /\ made'[d] = made[d]
    /\ status'[d] = status[d] /\ result'[d] = result[d]
    /\ recorded \subseteq recorded'

LEMMA OthersKept ==
    ASSUME TypeOK, NEW e \in Executors, Step(e), NEW d \in Executors \ {e}
    PROVE  Kept(d)
<1>. USE DEF TypeOK, Goto, Kept
<1>1. ASSUME NEW i \in Intents, Execute(e, i)
      PROVE  Kept(d)
    BY <1>1 DEF Execute
<1>2. CASE TryFastPath(e) \/ ResolveBest(e)
    <2>1. \A a : UseAdapter(e, a) =>
              pc'[d] = pc[d] /\ adapter'[d] = adapter[d] /\ primary'[d] = primary[d]
        BY DEF UseAdapter
    <2>2. CASE TryFastPath(e)
        BY <2>1, <2>2 DEF TryFastPath
    <2>3. CASE ResolveBest(e)
        BY <2>1, <2>3 DEF ResolveBest
    <2>. QED
        BY <1>2, <2>2, <2>3
<1>3. ASSUME NEW outcome \in Status, NEW duration \in Durations, NEW reported \in Durations \cup {0},
             Attempt(e, outcome, duration, reported)
      PROVE  Kept(d)
    BY <1>3 DEF Attempt, RecordExecution
<1>4. CASE RunOutOfTime(e) \/ JudgePrimary(e) \/ JudgeFallback(e) \/ FallbackExhausted(e)
    BY <1>4 DEF RunOutOfTime, JudgePrimary, JudgeFallback, FallbackExhausted, callVars
<1>5. CASE TryFallback(e)
    BY <1>5 DEF TryFallback
<1>6. CASE Finish(e)
    BY <1>6 DEF Finish, callVars
<1>7. CASE Return(e)
    BY <1>7 DEF Return
<1>. QED
    BY <1>1, <1>2, <1>3, <1>4, <1>5, <1>6, <1>7 DEF Step

\* A thread that is left alone keeps the invariant of its call.
LEMMA KeptCall ==
    ASSUME NEW d \in Executors, Call(d), Kept(d)
    PROVE  Call(d)'
    BY DEF Call, Kept, Fresh, Chosen, Budgeted, Answered

\* The thread that moves keeps it as well.
LEMMA CallStep ==
    ASSUME TypeOK, NEW e \in Executors, Call(e), Step(e)
    PROVE  Call(e)'
<1>. USE DEF TypeOK, Goto
<1>1. ASSUME NEW i \in Intents, Execute(e, i)
      PROVE  Call(e)'
    <2>1. i.maxRetries \in Nat
        BY EngineAssumption DEF IntentType
    <2>2. /\ pc[e] = "idle" /\ intent'[e] = i /\ pc'[e] \in {"select", "returned"}
          /\ UNCHANGED <<adapter, primary, attempt, status, result, passed, made, recorded>>
        BY <1>1 DEF Execute
    <2>. QED
        BY <2>1, <2>2 DEF Call, Fresh, Chosen, Budgeted, Answered, NothingMade
<1>2. ASSUME NEW a \in intent[e].capable, UseAdapter(e, a), pc[e] = "select",
             UNCHANGED <<intent, attempt, status, result, passed, made, recorded>>
      PROVE  Call(e)'
    <2>1. /\ pc'[e] = "attempt" /\ adapter'[e] = a /\ primary'[e] = a
          /\ a \in AdapterSet /\ intent[e].maxRetries \in Nat
        BY <1>2, IntentFacts DEF UseAdapter
    <2>2. /\ made[e] = NothingMade /\ passed[e] = 0 /\ attempt[e] = 0
          /\ status[e] = "FAILED" /\ result[e] = "FAILED"
        BY <1>2 DEF Call, Fresh
    <2>3. Fresh(e)' /\ Chosen(e)' /\ Answered(e)'
        BY <1>2, <2>1, <2>2 DEF Fresh, Chosen, Answered
    <2>4. Budgeted(e)'
        BY <1>2, <2>1, <2>2, AdaptersFacts DEF Budgeted, NothingMade
    <2>. QED
        BY <2>3, <2>4 DEF Call
<1>3. CASE TryFastPath(e)
    BY <1>2, <1>3 DEF TryFastPath
<1>4. CASE ResolveBest(e)
    <2>1. CASE intent[e].capable = {} /\ Goto(e, "returned") /\ UNCHANGED <<adapter, primary>>
        BY <1>4, <2>1 DEF ResolveBest, Call, Fresh, Chosen, Budgeted, Answered
    <2>. QED
        BY <1>2, <1>4, <2>1 DEF ResolveBest
<1>5. ASSUME NEW outcome \in Status, NEW duration \in Durations, NEW reported \in Durations \cup {0},
             Attempt(e, outcome, duration, reported)
      PROVE  Call(e)'
    <2>. DEFINE judged == status'[e]
                again == ShouldRetry(intent[e], judged, attempt[e])
                a == adapter[e]
    <2>1. /\ pc[e] = "attempt"
          /\ attempt'[e] = IF again THEN attempt[e] + 1 ELSE attempt[e]
          /\ pc'[e] = IF again THEN "attempt" ELSE "judge"
          /\ made'[e] = [made[e] EXCEPT ![a] = @ + 1]
          /\ UNCHANGED <<intent, adapter, primary, result, passed>>
        BY <1>5 DEF Attempt
    <2>2. a \in intent[e].capable /\ a \in AdapterSet /\ intent[e].maxRetries \in Nat
        BY <2>1, IntentFacts DEF Call, Chosen
    <2>3. judged \in Status /\ attempt[e] \in Nat
        BY <1>5 DEF Attempt, Judged, Status
    <2>4. recorded' = recorded \cup {<<a, judged # "FAILED">>}
        BY <1>5 DEF Attempt, RecordExecution
    <2>5. judged # "FAILED" => <<a, TRUE>> \in recorded'
        BY <2>4, Zenon
    <2>6. made[e] \in [AdapterSet -> Nat]
        OBVIOUS
    <2>. HIDE DEF judged, again
    <2>7. /\ made[e][a] = attempt[e] /\ attempt[e] <= intent[e].maxRetries
          /\ \A b \in AdapterSet : made[e][b] <= intent[e].maxRetries + 1
          /\ \A k \in passed[e] + 1 .. Len(Adapters) :
                Adapters[k] # primary[e] => made[e][Adapters[k]] = 0
        BY <2>1 DEF Call, Budgeted, a
    <2>8. again => /\ attempt[e] < intent[e].maxRetries
                   /\ \/ judged = "FAILED"
                      \/ judged = "PARTIAL" /\ intent[e].requiresVerification
        BY <2>3 DEF again, ShouldRetry, Status
    <2>9. /\ made'[e][a] = attempt[e] + 1
          /\ \A b \in AdapterSet \ {a} : made'[e][b] = made[e][b]
        BY <2>1, <2>2, <2>6, <2>7
    <2>10. Fresh(e)' /\ Chosen(e)'
        BY <2>1 DEF Call, Fresh, Chosen
    <2>11. Budgeted(e)'
        <3>1. \A b \in AdapterSet : made'[e][b] <= intent'[e].maxRetries + 1
            BY <2>1, <2>2, <2>3, <2>7, <2>9
        <3>2. pc'[e] = "attempt" => made'[e][adapter'[e]] = attempt'[e] /\ attempt'[e] <= intent'[e].maxRetries
            BY <2>1, <2>2, <2>3, <2>8, <2>9 DEF a
        <3>3. ASSUME NEW k \in passed'[e] + 1 .. Len(Adapters), Adapters[k] # primary'[e]
              PROVE  made'[e][Adapters[k]] = 0
            <4>1. passed[e] \in 0 .. Len(Adapters) /\ k \in passed[e] + 1 .. Len(Adapters)
                BY <2>1, <3>3
            <4>2. Adapters[k] \in AdapterSet
                BY <4>1, AdaptersFacts
            <4>3. Adapters[k] # a
                BY <2>1, <3>3, <4>1, AdaptersFacts DEF Call, Chosen, a
            <4>. QED
                BY <2>1, <2>7, <2>9, <3>3, <4>1, <4>2, <4>3
        <3>. QED
            BY <3>1, <3>2, <3>3 DEF Budgeted
    <2>12. Answered(e)'
        <3>1. result[e] = "FAILED"
            BY <2>1 DEF Call, Answered
        <3>2. pc'[e] \in {"attempt", "judge"}
            BY <2>1
        <3>3. pc'[e] = "attempt" =>
                  \/ judged = "FAILED"
                  \/ judged = "PARTIAL" /\ intent[e].requiresVerification /\ attempt'[e] > 0
            <4>1. pc'[e] = "attempt" => again
                BY <2>1
            <4>2. again => attempt'[e] > 0
                BY <2>1, <2>3
            <4>. QED
                BY <2>8, <4>1, <4>2
        <3>4. made'[e][a] > 0
            BY <2>3, <2>9
        <3>. QED
            <4>1. result'[e] = "FAILED" /\ intent' = intent /\ adapter'[e] = a /\ status'[e] = judged
                BY <2>1, <3>1 DEF a, judged
            <4>. HIDE DEF a
            <4>. QED
                BY <2>2, <2>5, <3>2, <3>3, <3>4, <4>1 DEF Answered
    <2>. QED
        BY <2>10, <2>11, <2>12 DEF Call
<1>6. CASE TryFallback(e)
    <2>1. PICK k \in Candidates(e) :
              /\ adapter' = [adapter EXCEPT ![e] = Adapters[k]]
              /\ passed' = [passed EXCEPT ![e] = k]
        BY <1>6 DEF TryFallback
    <2>2. /\ pc[e] = "fallback" /\ pc'[e] = "attempt" /\ attempt'[e] = 0
          /\ adapter'[e] = Adapters[k] /\ passed'[e] = k
          /\ UNCHANGED <<intent, primary, status, result, made, recorded>>
        BY <1>6, <2>1 DEF TryFallback
    <2>3. /\ k \in passed[e] + 1 .. Len(Adapters) /\ passed[e] \in Nat /\ Len(Adapters) \in Nat
          /\ Adapters[k] # primary[e] /\ Adapters[k] \in intent[e].capable
        BY AdaptersFacts DEF Candidates
    <2>4. intent[e].maxRetries \in Nat
        BY IntentFacts
    <2>5. Fresh(e)' /\ Chosen(e)'
        BY <2>2, <2>3 DEF Call, Fresh, Chosen
    <2>6. Budgeted(e)'
        BY <2>2, <2>3, <2>4 DEF Call, Budgeted
    <2>7. Answered(e)'
        BY <2>2 DEF Call, Answered
    <2>. QED
        BY <2>5, <2>6, <2>7 DEF Call
<1>7. CASE JudgePrimary(e)
    BY <1>7 DEF JudgePrimary, Call, Fresh, Chosen, Budgeted, Answered
<1>8. CASE JudgeFallback(e)
    BY <1>8 DEF JudgeFallback, Call, Fresh, Chosen, Budgeted, Answered
<1>9. CASE RunOutOfTime(e)
    BY <1>9 DEF RunOutOfTime, Call, Fresh, Chosen, Budgeted, Answered
<1>10. CASE FallbackExhausted(e)
    BY <1>10 DEF FallbackExhausted, callVars, Call, Fresh, Chosen, Budgeted, Answered
<1>11. CASE Finish(e)
    BY <1>11 DEF Finish, callVars, Call, Fresh, Chosen, Budgeted, Answered
<1>12. CASE Return(e)
    <2>1. /\ pc'[e] = "idle" /\ intent'[e] = NoIntent /\ made'[e] = NothingMade
          /\ passed'[e] = 0 /\ attempt'[e] = 0 /\ status'[e] = "FAILED" /\ result'[e] = "FAILED"
        BY <1>12 DEF Return
    <2>2. \A a \in AdapterSet : made'[e][a] <= NoIntent.maxRetries + 1
        BY <2>1 DEF NothingMade, NoIntent
    <2>. QED
        BY <2>1, <2>2 DEF Call, Fresh, Chosen, Budgeted, Answered
<1>. QED
    BY <1>1, <1>3, <1>4, <1>5, <1>6, <1>7, <1>8, <1>9, <1>10, <1>11, <1>12 DEF Step

-----------------------------------------------------------------------------
\* The invariant of the fast path.

\* An entry that is added says what this call earned; the others were there before.
LEMMA FastPathStep ==
    ASSUME TypeOK, FastPathInv, NEW e \in Executors, Call(e), Step(e)
    PROVE  FastPathInv'
<1>. USE DEF TypeOK
<1>1. Len(fastPath) \in Nat /\ FastPathLimit \in Nat
    BY EngineAssumption
<1>2. CASE TryFastPath(e)
    <2>1. PICK k \in Entries(intent[e].key) : fastPath' = Append(WithoutKey(intent[e].key), fastPath[k])
        BY <1>2 DEF TryFastPath
    <2>. DEFINE s == Append(WithoutKey(intent[e].key), fastPath[k])
    <2>2. /\ fastPath[k] \in FastPathEntry /\ fastPath[k].key = intent[e].key
          /\ fastPath[k] \in ToSet(fastPath) /\ Entries(intent[e].key) # {}
        BY DEF Entries, ToSet
    <2>3. ToSet(s) \subseteq ToSet(fastPath) \cup {fastPath[k]} /\ Len(s) = Len(fastPath)
        <3>. DEFINE t == Append(WithoutKey(fastPath[k].key), fastPath[k])
        <3>1. ToSet(t) \subseteq ToSet(fastPath) \cup {fastPath[k]}
            BY <2>2, ReplacedFacts
        <3>2. Entries(fastPath[k].key) # {} => Len(t) = Len(fastPath)
            BY <2>2, ReplacedFacts
        <3>3. s = t
            BY <2>2
        <3>. HIDE DEF s, t
        <3>. QED
            BY <2>2, <3>1, <3>2, <3>3
    <2>4. fastPath' = s /\ earned' = earned
        BY <1>2, <2>1 DEF TryFastPath
    <2>. HIDE DEF s
    <2>. QED
        BY <2>2, <2>3, <2>4 DEF FastPathInv, FastPathEarned
<1>3. CASE ResolveBest(e)
    <2>1. earned' = earned /\ (fastPath' = fastPath \/ fastPath' = WithoutKey(intent[e].key))
        BY <1>3 DEF ResolveBest
    <2>2. /\ ToSet(WithoutKey(intent[e].key)) \subseteq ToSet(fastPath)
          /\ Len(WithoutKey(intent[e].key)) <= Len(fastPath)
        <3>. HIDE DEF TypeOK
        <3>1. fastPath \in Seq(FastPathEntry) /\ UniqueKeys(fastPath)
            BY DEF TypeOK
        <3>2. /\ ToSet(WithoutKey(intent[e].key)) \subseteq ToSet(fastPath)
              /\ Len(WithoutKey(intent[e].key)) =
                    IF Entries(intent[e].key) = {} THEN Len(fastPath) ELSE Len(fastPath) - 1
            BY <3>1, WithoutKeyFacts
        <3>. QED
            BY <1>1, <3>2
    <2>3. Len(WithoutKey(intent[e].key)) \in Nat
        BY WithoutKeyFacts
    <2>. QED
        BY <1>1, <2>1, <2>2, <2>3 DEF FastPathInv, FastPathEarned
<1>4. CASE Finish(e)
    <2>1. CASE ~ (result[e] # "FAILED" /\ HasSnapshot(intent[e]))
        BY <1>4, <2>1 DEF Finish, UpdateFastPath, FastPathInv, FastPathEarned, ToSet
    <2>2. CASE result[e] # "FAILED" /\ HasSnapshot(intent[e])
        <3>. DEFINE s == Append(WithoutKey(intent[e].key), Entry(e))
        <3>1. Entry(e) \in FastPathEntry /\ Entry(e).key = intent[e].key
            BY <1>4, IntentFacts DEF Finish, Call, Chosen, Entry, FastPathEntry
        <3>2. /\ s \in Seq(FastPathEntry) /\ UniqueKeys(s)
              /\ ToSet(s) \subseteq ToSet(fastPath) \cup {Entry(e)}
              /\ Len(s) <= Len(fastPath) + 1
            BY <3>1, ReplacedFacts
        <3>3. fastPath' = Evicted(s)
            BY <1>4, <2>2 DEF Finish, UpdateFastPath
        <3>4. earned' = earned \cup {Entry(e)}
            BY <1>4, <2>2 DEF Finish, Entry, Call, Answered
        <3>. HIDE DEF s
        <3>5. Len(s) <= FastPathLimit + 1
            <4>1. Len(s) \in Nat
                BY <3>2
            <4>. QED
                BY <1>1, <3>2, <4>1 DEF FastPathInv
        <3>6. ToSet(Evicted(s)) \subseteq ToSet(s) /\ Len(Evicted(s)) <= FastPathLimit
            BY <3>2, <3>5, EvictedFacts
        <3>7. ToSet(fastPath)' = ToSet(Evicted(s))
            BY <3>3 DEF ToSet
        <3>. QED
            BY <3>2, <3>3, <3>4, <3>6, <3>7 DEF FastPathInv, FastPathEarned
    <2>. QED
        BY <2>1, <2>2
<1>5. ASSUME UNCHANGED <<fastPath, earned>>
      PROVE  FastPathInv'
    BY <1>5 DEF FastPathInv, FastPathEarned
<1>6. ASSUME NEW i \in Intents, Execute(e, i)
      PROVE  FastPathInv'
    BY <1>5, <1>6 DEF Execute
<1>7. ASSUME NEW outcome \in Status, NEW duration \in Durations, NEW reported \in Durations \cup {0},
             Attempt(e, outcome, duration, reported)
      PROVE  FastPathInv'
    BY <1>5, <1>7 DEF Attempt
<1>8. CASE \/ RunOutOfTime(e) \/ JudgePrimary(e) \/ TryFallback(e) \/ JudgeFallback(e)
           \/ FallbackExhausted(e) \/ Return(e)
    BY <1>5, <1>8 DEF RunOutOfTime, JudgePrimary, TryFallback, JudgeFallback, FallbackExhausted, Return
<1>. QED
    BY <1>2, <1>3, <1>4, <1>6, <1>7, <1>8 DEF Step

-----------------------------------------------------------------------------
\* The inductive invariant.

LEMMA EngineInit == Init => EngineInv
<1>. SUFFICES ASSUME Init PROVE EngineInv
    OBVIOUS
<1>1. TypeOK
    BY TypeInit
<1>2. ASSUME NEW e \in Executors
      PROVE  Call(e)
    <2>1. intent[e].maxRetries = 0 /\ pc[e] = "idle" /\ made[e] = NothingMade
        BY DEF Init, NoIntent
    <2>2. \A a \in AdapterSet : made[e][a] <= intent[e].maxRetries + 1
        BY <2>1 DEF NothingMade
    <2>. QED
        BY <2>1, <2>2 DEF Init, Call, Fresh, Chosen, Budgeted, Answered
<1>3. FastPathInv
    BY EngineAssumption DEF Init, FastPathInv, FastPathEarned, ToSet
<1>. QED
    BY <1>1, <1>2, <1>3 DEF EngineInv

LEMMA EngineStep == EngineInv /\ [Next]_vars => EngineInv'
<1>. SUFFICES ASSUME EngineInv, [Next]_vars PROVE EngineInv'
    OBVIOUS
<1>1. CASE Next
    <2>1. PICK e \in Executors : Step(e)
        BY <1>1 DEF Next
    <2>2. Call(e) /\ TypeOK /\ FastPathInv
        BY DEF EngineInv
    <2>3. TypeOK' /\ FastPathInv'
        BY <2>1, <2>2, TypeStep, FastPathStep
    <2>4. ASSUME NEW d \in Executors
          PROVE  Call(d)'
        <3>1. CASE d = e
            BY <2>1, <2>2, <3>1, CallStep
        <3>2. CASE d # e
            <4>1. Kept(d)
                BY <2>1, <2>2, <3>2, OthersKept
            <4>. QED
                BY <4>1, KeptCall DEF EngineInv
        <3>. QED
            BY <3>1, <3>2
    <2>. QED
        BY <2>3, <2>4 DEF EngineInv
<1>2. CASE UNCHANGED vars
    <2>1. ASSUME NEW d \in Executors
          PROVE  Call(d)'
        <3>1. Kept(d) /\ Call(d)
            BY <1>2 DEF vars, callVars, EngineInv, Kept
        <3>. QED
            BY <3>1, KeptCall
    <2>2. TypeOK' /\ FastPathInv'
        BY <1>2 DEF vars, callVars, EngineInv, TypeOK, UniqueKeys, FastPathInv, FastPathEarned
    <2>. QED
        BY <2>1, <2>2 DEF EngineInv
<1>. QED
    BY <1>1, <1>2

-----------------------------------------------------------------------------
\* What the steps never do.

\* A budget, and an answer that was earned, are parts of the invariant.
LEMMA InvariantImplies ==
    ASSUME EngineInv
    PROVE  AttemptBudget /\ SuccessIsEarned /\ FastPathEarned /\ RepeatsNothing
<1>1. AttemptBudget
    BY DEF EngineInv, Call, Budgeted, AttemptBudget
<1>2. SuccessIsEarned
    BY DEF EngineInv, Call, Answered, SuccessIsEarned
<1>3. RepeatsNothing
    BY DEF EngineInv, Call, Answered, RepeatsNothing
<1>. QED
    BY <1>1, <1>2, <1>3 DEF EngineInv, FastPathInv

\* A step that takes a thread from the choice of an adapter to its first attempt is its own.
LEMMA ChoosesStep ==
    ASSUME EngineInv, [Next]_vars
    PROVE  ChoosesSoundly
<1>. SUFFICES ASSUME NEW d \in Executors, pc[d] = "select", pc'[d] = "attempt",
                     HasSnapshot(intent[d]),
                     NEW l \in DOMAIN fastPath', fastPath'[l].key = intent[d].key
              PROVE  /\ adapter'[d] \in intent[d].capable
                     /\ \E w \in earned : /\ w.key = intent[d].key /\ w.adapter = adapter'[d]
                                          /\ intent[d].ticks \in {0, w.ticks}
                                          /\ intent[d].version \in {0, w.version}
    BY DEF ChoosesSoundly
<1>1. TypeOK /\ FastPathEarned
    BY DEF EngineInv, FastPathInv
<1>2. PICK e \in Executors : Step(e)
    BY DEF Next, vars
<1>3. d = e
    BY <1>1, <1>2, OthersKept DEF Kept
<1>4. TryFastPath(d)
    <2>1. ~ ResolveBest(d)
        BY <1>1, WithoutKeyFacts DEF ResolveBest, TypeOK
    <2>. QED
        BY <1>2, <1>3, <2>1 DEF Step, Execute, Attempt, RunOutOfTime, JudgePrimary, TryFallback,
                                JudgeFallback, FallbackExhausted, Finish, Return
<1>5. PICK k \in Entries(intent[d].key) :
          /\ SameSnapshot(fastPath[k], intent[d])
          /\ fastPath[k].adapter \in intent[d].capable
          /\ UseAdapter(d, fastPath[k].adapter)
    BY <1>4 DEF TryFastPath
<1>6. fastPath[k] \in earned /\ fastPath[k].key = intent[d].key
    BY <1>1 DEF Entries, FastPathEarned, ToSet
<1>7. adapter'[d] = fastPath[k].adapter
    BY <1>1, <1>5 DEF UseAdapter, TypeOK
<1>. QED
    BY <1>5, <1>6, <1>7 DEF SameSnapshot

\* A step that remembers a success keeps the entries used last, and the new one behind them.
LEMMA EvictsStep ==
    ASSUME EngineInv, [Next]_vars
    PROVE  EvictsTheOldest
<1>1. Len(fastPath') <= FastPathLimit
    BY EngineStep DEF EngineInv, FastPathInv
<1>2. ASSUME NEW d \in Executors, pc[d] = "finish", pc'[d] = "returned", result[d] # "FAILED",
             HasSnapshot(intent[d])
      PROVE  LET others == WithoutKey(intent[d].key)
                 kept == Len(fastPath') - 1
             IN  /\ fastPath' = Append(SubSeq(others, Len(others) - kept + 1, Len(others)), Last(fastPath'))
                 /\ Last(fastPath').key = intent[d].key
    <2>. DEFINE others == WithoutKey(intent[d].key)
                s == Append(others, Entry(d))
    <2>1. TypeOK /\ Call(d) /\ Len(fastPath) <= FastPathLimit
        BY DEF EngineInv, FastPathInv
    <2>2. PICK e \in Executors : Step(e)
        BY <1>2 DEF Next, vars
    <2>3. d = e
        BY <1>2, <2>1, <2>2, OthersKept DEF Kept
    <2>4. Finish(d)
        BY <1>2, <2>2, <2>3 DEF Step, Execute, TryFastPath, ResolveBest, Attempt, RunOutOfTime,
                                JudgePrimary, TryFallback, JudgeFallback, FallbackExhausted, Return
    <2>5. fastPath' = Evicted(s)
        BY <1>2, <2>4 DEF Finish, UpdateFastPath
    <2>6. Entry(d) \in FastPathEntry /\ Entry(d).key = intent[d].key
        BY <2>1, <2>4, IntentFacts DEF Finish, Call, Chosen, Entry, FastPathEntry
    <2>7. others \in Seq(FastPathEntry)
        BY <2>1, WithoutKeyFacts DEF TypeOK
    <2>. HIDE DEF others
    <2>8. /\ s \in Seq(FastPathEntry) /\ Len(s) = Len(others) + 1
          /\ \A i \in 1 .. Len(others) : s[i] = others[i]
          /\ s[Len(others) + 1] = Entry(d)
        BY <2>6, <2>7, AppendProperties
    <2>9. Len(others) \in Nat
        BY <2>7
    <2>10. CASE Len(s) <= FastPathLimit
        <3>1. fastPath' = s /\ Len(fastPath') - 1 = Len(others) /\ Last(fastPath') = Entry(d)
            BY <2>5, <2>8, <2>9, <2>10 DEF Evicted, Last
        <3>2. SubSeq(others, Len(others) - Len(others) + 1, Len(others)) = others
            BY <2>7, <2>9, SubSeqFull
        <3>. QED
            BY <2>6, <3>1, <3>2 DEF others
    <2>11. CASE ~ (Len(s) <= FastPathLimit)
        <3>1. EvictCount \in 1 .. Len(others)
            BY <2>8, <2>9, <2>11, EngineAssumption
        <3>2. fastPath' = SubSeq(s, EvictCount + 1, Len(others) + 1)
            BY <2>5, <2>8, <2>11 DEF Evicted
        <3>. DEFINE l == Len(others)
                    front == SubSeq(s, EvictCount + 1, l)
                    kept == SubSeq(others, EvictCount + 1, l)
        <3>3. fastPath' = front \o <<Entry(d)>>
            <4>1. EvictCount + 1 \in 1 .. Len(s) /\ l + 1 \in EvictCount + 1 .. Len(s) /\ (l + 1) - 1 = l
                BY <2>8, <2>9, <3>1
            <4>2. \A n \in EvictCount + 1 .. Len(s) :
                      SubSeq(s, EvictCount + 1, n) = SubSeq(s, EvictCount + 1, n - 1) \o <<s[n]>>
                BY <2>8, <4>1, SubSeqRecursiveSecond
            <4>3. SubSeq(s, EvictCount + 1, l + 1) = SubSeq(s, EvictCount + 1, (l + 1) - 1) \o <<s[l + 1]>>
                BY <4>1, <4>2
            <4>. QED
                BY <2>8, <3>2, <4>1, <4>3
        <3>4. \A i \in EvictCount + 1 .. l : i \in 1 .. l /\ s[i] = others[i] /\ others[i] \in FastPathEntry
            BY <2>7, <2>8, <2>9, <3>1
        <3>5. /\ kept \in Seq(FastPathEntry) /\ Len(kept) = l - EvictCount
              /\ \A i \in 1 .. l - EvictCount : kept[i] = others[EvictCount + i]
            <4>1. kept \in Seq(FastPathEntry) /\ Len(kept) = l - (EvictCount + 1) + 1
                BY <2>9, <3>1, <3>4, SubSeqProperties
            <4>2. \A i \in 1 .. l - (EvictCount + 1) + 1 : kept[i] = others[EvictCount + 1 + i - 1]
                BY <2>9, <3>1, <3>4, SubSeqProperties
            <4>. QED
                BY <2>9, <3>1, <4>1, <4>2
        <3>6. /\ front \in Seq(FastPathEntry) /\ Len(front) = l - EvictCount
              /\ \A i \in 1 .. l - EvictCount : front[i] = s[EvictCount + i]
            <4>1. front \in Seq(FastPathEntry) /\ Len(front) = l - (EvictCount + 1) + 1
                BY <2>9, <3>1, <3>4, SubSeqProperties
            <4>2. \A i \in 1 .. l - (EvictCount + 1) + 1 : front[i] = s[EvictCount + 1 + i - 1]
                BY <2>9, <3>1, <3>4, SubSeqProperties
            <4>. QED
                BY <2>9, <3>1, <4>1, <4>2
        <3>. HIDE DEF front, kept, s
        <3>7. front = kept
            <4>1. \A i \in 1 .. Len(front) : front[i] = kept[i]
                BY <2>9, <3>1, <3>4, <3>5, <3>6
            <4>. QED
                BY <3>5, <3>6, <4>1, SeqEqual
        <3>8. kept \o <<Entry(d)>> = Append(kept, Entry(d))
            BY <2>6, <3>5, AppendIsConcat
        <3>9. /\ Len(fastPath') - 1 = l - EvictCount
              /\ l - (l - EvictCount) + 1 = EvictCount + 1
              /\ Last(fastPath') = Entry(d)
            <4>1. /\ Len(Append(kept, Entry(d))) = Len(kept) + 1
                  /\ Append(kept, Entry(d))[Len(kept) + 1] = Entry(d)
                BY <2>6, <3>5, AppendProperties
            <4>. QED
                BY <2>9, <3>1, <3>3, <3>5, <3>7, <3>8, <4>1 DEF Last
        <3>. QED
            BY <2>6, <3>3, <3>7, <3>8, <3>9 DEF kept, others
    <2>. QED
        BY <2>9, <2>10, <2>11
<1>. QED
    BY <1>1, <1>2 DEF EvictsTheOldest

-----------------------------------------------------------------------------
\* The engine, with any constants.

\* Every variable keeps its type, and the fast path holds a key once.
THEOREM TypeCorrect == Spec => []TypeOK
<1>1. EngineInv => TypeOK
    BY DEF EngineInv
<1>. QED
    BY <1>1, EngineInit, EngineStep, PTL DEF Spec

\* No adapter executes an intent more often than its retries allow, with any number of adapters
\* to fall back on (ExecuteWithRecovery, the fallback loop).
THEOREM WithinBudget == Spec => []AttemptBudget
<1>1. EngineInv => AttemptBudget
    BY InvariantImplies
<1>. QED
    BY <1>1, EngineInit, EngineStep, PTL DEF Spec

\* A success that is returned, and every entry of the fast path, was earned by the adapter it
\* names (usedAdapter, UpdateFastPath).
THEOREM SuccessSeen == Spec => [](SuccessIsEarned /\ FastPathEarned)
<1>1. EngineInv => SuccessIsEarned /\ FastPathEarned
    BY InvariantImplies
<1>. QED
    BY <1>1, EngineInit, EngineStep, PTL DEF Spec

\* What was reported done is not done again (ShouldRetry, the break of the fallback loop).
THEOREM NotRepeated == Spec => NothingAfterSuccess
<1>1. EngineInv /\ [Next]_vars => [RepeatsNothing]_vars
    BY InvariantImplies
<1>. QED
    BY <1>1, EngineInit, EngineStep, PTL DEF Spec, NothingAfterSuccess

\* An adapter chosen without a ranking worked before on the intent's snapshot (TryFastPath).
THEOREM ChosenSoundly == Spec => FastPathSound
<1>1. EngineInv /\ [Next]_vars => [ChoosesSoundly]_vars
    BY ChoosesStep
<1>. QED
    BY <1>1, EngineInit, EngineStep, PTL DEF Spec, FastPathSound

\* The fast path stays within its limit and forgets what was not used for longest
\* (UpdateFastPath).
THEOREM EvictedInOrder == Spec => FastPathBounded
<1>1. EngineInv /\ [Next]_vars => [EvictsTheOldest]_vars
    BY EvictsStep
<1>. QED
    BY <1>1, EngineInit, EngineStep, PTL DEF Spec, FastPathBounded

-----------------------------------------------------------------------------
\* Act: what holds of the local state of one client, whatever the others do.

Places == {"idle", "resolve", "lookup", "policy", "contract", "reveal", "execute", "verify",
           "judge", "learn", "record", "done"}
SomeNode == Nodes \cup {Acts!NoNode}
StepNames == {"expand_parent", "focus_parent", "scroll_into_view", "probe_visibility"}
Tried == [id : Nat, success : BOOLEAN]

LocalType(a) ==
    /\ DOMAIN a = DOMAIN Acts!Idle
    /\ a.pc \in Places /\ a.attempt \in 0..3
    /\ a.primary \in SomeNode /\ a.target \in SomeNode /\ a.resultNode \in SomeNode /\ a.actedOn \in SomeNode
    /\ a.steps \in Seq(StepNames) /\ Len(a.steps) <= Acts!MaxSteps /\ a.tries \in 0..Acts!RetriesPerStep
    /\ a.revealed \in BOOLEAN /\ a.last \in {"none", "verified", "unverified", "failed"}
    /\ a.trail \in Seq(Tried) /\ a.status \in {"success", "failure"}
    /\ a.calls \in Nat /\ a.revealCalls \in Nat

\* Which nodes are known where, and that nothing was done before the contract.
Located(a) ==
    /\ a.pc \in {"idle", "resolve", "lookup", "policy"} =>
          a.attempt = 0 /\ a.calls = 0 /\ a.revealCalls = 0 /\ a.last = "none" /\ a.trail = <<>>
    /\ a.pc \notin {"idle", "resolve", "done"} => a.primary \in Nodes
    /\ a.pc \in {"contract", "reveal", "execute", "verify", "judge"} => a.target \in Nodes
    /\ a.pc \notin {"idle", "resolve", "lookup", "done"} => a.resultNode \in Nodes
    /\ a.attempt = 2 => a.target # a.primary

InContract(a) == a.pc \in {"contract", "reveal", "execute"}

\* How much was executed and revealed, by attempt and place.
Spent(a) ==
    /\ a.calls <= a.attempt + 1 /\ (InContract(a) => a.calls <= a.attempt)
    /\ a.revealCalls <= 9 * a.attempt + 9
    /\ a.pc = "contract" => a.revealCalls <= 9 * a.attempt
    /\ a.pc = "reveal" => a.revealCalls <= 9 * a.attempt + 3 * (3 - Len(a.steps)) + a.tries

\* The trail holds the attempts of recovery before this one, which failed, and then this one.
Trailed(a) ==
    /\ Len(a.trail) <= a.attempt
    /\ InContract(a) \/ a.pc \in {"verify", "judge"} => Len(a.trail) = (IF a.attempt = 0 THEN 0 ELSE a.attempt - 1)
    /\ \A i \in 1..Len(a.trail) : /\ a.trail[i].id = i
                                  /\ a.trail[i].success => i = Len(a.trail) /\ a.status = "success"

\* An execution that was verified is the last one, and what a success reports; where one is
\* possible the node was seen, or nothing is left to be revealed.
Verified(a) ==
    /\ InContract(a) => a.last # "verified"
    /\ a.pc = "execute" => a.revealed \/ a.steps = <<>>
    /\ a.pc = "judge" => (a.stage = "verified" <=> a.last = "verified")
    /\ a.pc \notin {"learn", "record", "done"} => a.status = "failure"
    /\ a.pc = "learn" => a.status = "success"
    /\ a.pc \in {"record", "done"} /\ a.status = "failure" => a.reason # ""
    /\ a.status = "success" =>
          /\ a.last = "verified" /\ a.resultNode = a.target
          /\ a.attempt > 0 => a.trail # <<>> /\ a.trail[Len(a.trail)] = [id |-> a.attempt, success |-> TRUE]

\* Only the alternate is another node, and what a verified execution acted on is what the intent
\* of its attempt addresses.
InAttempt(a) == a.pc \in {"contract", "reveal", "execute", "verify", "judge"} \/ a.status = "success"

Aimed(a) ==
    /\ InAttempt(a) /\ a.attempt # 2 => a.target = a.primary
    /\ (a.pc = "verify" /\ a.last # "failed") \/ a.last = "verified" =>
          a.actedOn \in Acts!Addressed(Acts!Carried(a))

LocalInv(a) == LocalType(a) /\ Located(a) /\ Spent(a) /\ Trailed(a) /\ Verified(a) /\ Aimed(a)

ActsInv == act = [c \in Clients |-> act[c]] /\ \A c \in Clients : LocalInv(act[c])

-----------------------------------------------------------------------------
\* What taking new values for some fields makes of a local state.

Fields == {"pc", "primary", "target", "attempt", "steps", "tries", "revealed", "stage", "last",
           "trail", "status", "reason", "resultNode", "actedOn", "calls", "revealCalls"}

LEMMA Taken ==
    ASSUME NEW a, LocalInv(a), NEW fields, NEW f \in Fields
    PROVE  /\ DOMAIN Acts!With(a, fields) = DOMAIN Acts!Idle
           /\ Acts!With(a, fields)[f] = IF f \in DOMAIN fields THEN fields[f] ELSE a[f]
<1>1. DOMAIN a = DOMAIN Acts!Idle
    BY DEF LocalInv, LocalType
<1>2. DOMAIN Acts!Idle = Fields
    BY DEF Acts!Idle, Fields
<1>. QED
    BY <1>1, <1>2 DEF Acts!With

LEMMA Untaken ==
    ASSUME NEW a, LocalInv(a), NEW fields, NEW f \in Fields \ DOMAIN fields
    PROVE  Acts!With(a, fields)[f] = a[f]
    BY Taken

LEMMA IdleInv == LocalInv(Acts!Idle)
<1>1. LocalType(Acts!Idle)
    BY DEF LocalType, Acts!Idle, SomeNode, Places, Acts!MaxSteps, Acts!RetriesPerStep
<1>2. /\ Located(Acts!Idle) /\ Spent(Acts!Idle) /\ Trailed(Acts!Idle) /\ Verified(Acts!Idle)
      /\ Aimed(Acts!Idle)
    BY DEF Located, Spent, Trailed, Verified, Aimed, InAttempt, InContract, Acts!Idle
<1>. QED
    BY <1>1, <1>2 DEF LocalInv

\* Before the contract: nothing was done yet, so only the place, the node and the reason change.

NothingDone(a) == a.attempt = 0 /\ a.calls = 0 /\ a.revealCalls = 0 /\ a.trail = <<>>

LEMMA NothingDoneFacts ==
    ASSUME NEW a, NothingDone(a)
    PROVE  /\ a.attempt # 2 /\ a.calls <= a.attempt + 1 /\ a.revealCalls <= 9 * a.attempt + 9
           /\ Len(a.trail) <= a.attempt /\ \A i \in 1..Len(a.trail) : FALSE
<1>1. Len(a.trail) = 0
    BY DEF NothingDone
<1>. QED
    BY <1>1 DEF NothingDone

EarlyFields == {"pc", "primary", "reason", "resultNode"}

SameWork(a, b) ==
    /\ DOMAIN b = DOMAIN Acts!Idle
    /\ b.target = a.target /\ b.attempt = a.attempt /\ b.steps = a.steps /\ b.tries = a.tries
    /\ b.revealed = a.revealed /\ b.last = a.last /\ b.trail = a.trail /\ b.actedOn = a.actedOn
    /\ b.status = a.status /\ b.calls = a.calls /\ b.revealCalls = a.revealCalls

LEMMA EarlyUntaken ==
    ASSUME NEW a, LocalInv(a), NEW fields, DOMAIN fields \subseteq EarlyFields,
           NEW b, b = Acts!With(a, fields)
    PROVE  SameWork(a, b)
<1>1. \A f \in Fields \ EarlyFields : b[f] = a[f]
    BY Untaken
<1>2. {"target", "attempt", "steps", "tries", "revealed", "last", "trail", "actedOn", "status", "calls", "revealCalls"}
        \subseteq Fields \ EarlyFields
    BY DEF Fields, EarlyFields
<1>3. DOMAIN b = DOMAIN Acts!Idle
    BY Taken DEF Fields
<1>. QED
    BY <1>1, <1>2, <1>3 DEF SameWork

LEMMA EarlyKeeps ==
    ASSUME NEW a, LocalInv(a), a.pc \in {"idle", "resolve", "lookup", "policy"}, NEW fields,
           DOMAIN fields \subseteq EarlyFields,
           NEW b, b = Acts!With(a, fields),
           b.pc \in {"resolve", "lookup", "policy", "record", "done"},
           b.primary \in SomeNode, b.resultNode \in SomeNode,
           b.pc \notin {"resolve", "done"} => b.primary \in Nodes,
           b.pc \in {"policy", "record"} => b.resultNode \in Nodes,
           b.pc \in {"record", "done"} => b.reason # ""
    PROVE  LocalInv(b)
<1>1. SameWork(a, b)
    BY EarlyUntaken
<1>2. NothingDone(b)
    BY <1>1 DEF LocalInv, Located, NothingDone, SameWork
<1>3. b.last = "none" /\ b.status = "failure"
    BY <1>1 DEF LocalInv, Located, Verified, SameWork
<1>4. LocalType(b)
    BY <1>1 DEF LocalInv, LocalType, Places, SameWork
<1>5. b.pc \notin {"contract", "reveal", "execute", "verify", "judge", "learn"}
    OBVIOUS
<1>6. Located(b)
    BY <1>2, <1>3, <1>5, NothingDoneFacts DEF Located, NothingDone
<1>7. Spent(b)
    BY <1>2, <1>5, NothingDoneFacts DEF Spent, InContract
<1>8. Trailed(b)
    BY <1>2, <1>5, NothingDoneFacts DEF Trailed, InContract
<1>9. Verified(b)
    BY <1>3, <1>5 DEF Verified, InContract
<1>10. Aimed(b)
    BY <1>3, <1>5 DEF Aimed, InAttempt
<1>. QED
    BY <1>4, <1>6, <1>7, <1>8, <1>9, <1>10 DEF LocalInv

-----------------------------------------------------------------------------
\* The contract. What a step moves is stated as a relation of the two local states.

Moves(a, b, fields) == DOMAIN b = Fields /\ \A f \in Fields \ fields : b[f] = a[f]

LEMMA TakenMoves ==
    ASSUME NEW a, LocalInv(a), NEW fields
    PROVE  Moves(a, Acts!With(a, fields), DOMAIN fields)
<1>1. DOMAIN Acts!With(a, fields) = Fields
  <2>1. "pc" \in Fields /\ DOMAIN Acts!Idle = Fields
      BY DEF Fields, Acts!Idle
  <2>. QED
      BY <2>1, Taken
<1>2. \A f \in Fields \ DOMAIN fields : Acts!With(a, fields)[f] = a[f]
    BY Untaken
<1>. QED
    BY <1>1, <1>2 DEF Moves

LEMMA TakenFields ==
    ASSUME NEW a, LocalInv(a), NEW fields, DOMAIN fields \subseteq Fields
    PROVE  \A f \in DOMAIN fields : Acts!With(a, fields)[f] = fields[f]
    BY Taken

LEMMA FieldsOf == DOMAIN Acts!Idle = Fields
    BY DEF Fields, Acts!Idle

\* The contract ends without a verified execution.
Ends(a, b) ==
    /\ a.pc \in {"contract", "reveal"} /\ Moves(a, b, {"pc", "stage", "revealCalls"})
    /\ b.pc = "judge" /\ b.stage \in {"resolve", "reveal"}
    /\ b.revealCalls \in Nat /\ b.revealCalls <= 9 * a.attempt + 9

LEMMA EndsUntaken ==
    ASSUME NEW a, NEW b, Ends(a, b)
    PROVE  /\ DOMAIN b = DOMAIN Acts!Idle
           /\ b.primary = a.primary /\ b.target = a.target /\ b.attempt = a.attempt /\ b.steps = a.steps
           /\ b.tries = a.tries /\ b.revealed = a.revealed /\ b.last = a.last /\ b.trail = a.trail
           /\ b.status = a.status /\ b.reason = a.reason /\ b.resultNode = a.resultNode /\ b.calls = a.calls
           /\ b.actedOn = a.actedOn
    BY FieldsOf DEF Ends, Moves, Fields

LEMMA EndsKeeps ==
    ASSUME NEW a, NEW b, LocalInv(a), Ends(a, b)
    PROVE  LocalInv(b)
<1>1. LocalType(b)
    BY EndsUntaken DEF LocalInv, LocalType, Ends, Places
<1>2. Located(b)
    BY EndsUntaken DEF LocalInv, Located, Ends
<1>3. Spent(b)
    BY EndsUntaken DEF LocalInv, Spent, Ends, InContract
<1>4. Trailed(b)
    BY EndsUntaken DEF LocalInv, Trailed, Ends, InContract
<1>5. Verified(b)
    BY EndsUntaken DEF LocalInv, Verified, Ends, InContract
<1>6. Aimed(b)
  <2>1. Acts!Carried(b) = Acts!Carried(a)
      BY EndsUntaken DEF Acts!Carried
  <2>. QED
      BY <2>1, EndsUntaken DEF LocalInv, Aimed, InAttempt, Ends
<1>. QED
    BY <1>1, <1>2, <1>3, <1>4, <1>5, <1>6 DEF LocalInv

\* The node is seen, or nothing is left to be revealed.
Opens(a, b) ==
    /\ a.pc \in {"contract", "reveal"} /\ Moves(a, b, {"pc", "revealed"})
    /\ b.pc = "execute" /\ b.revealed \in BOOLEAN
    /\ b.revealed \/ a.steps = <<>>

LEMMA OpensUntaken ==
    ASSUME NEW a, NEW b, Opens(a, b)
    PROVE  /\ DOMAIN b = DOMAIN Acts!Idle
           /\ b.primary = a.primary /\ b.target = a.target /\ b.attempt = a.attempt
           /\ b.steps = a.steps /\ b.tries = a.tries /\ b.stage = a.stage /\ b.last = a.last
           /\ b.trail = a.trail /\ b.status = a.status /\ b.reason = a.reason
           /\ b.resultNode = a.resultNode /\ b.calls = a.calls /\ b.revealCalls = a.revealCalls
           /\ b.actedOn = a.actedOn
    BY FieldsOf DEF Opens, Moves, Fields

LEMMA OpensKeeps ==
    ASSUME NEW a, NEW b, LocalInv(a), Opens(a, b)
    PROVE  LocalInv(b)
<1>1. LocalType(b)
    BY OpensUntaken DEF LocalInv, LocalType, Opens, Places, SomeNode, Acts!MaxSteps, Acts!RetriesPerStep
<1>2. Located(b)
    BY OpensUntaken DEF LocalInv, LocalType, Located, Opens
<1>3. Spent(b)
    BY OpensUntaken DEF LocalInv, LocalType, Spent, Opens, InContract
<1>4. Trailed(b)
    BY OpensUntaken DEF LocalInv, LocalType, Trailed, Opens, InContract
<1>5. Verified(b)
    BY OpensUntaken DEF LocalInv, LocalType, Verified, Opens, InContract
<1>6. Aimed(b)
  <2>1. Acts!Carried(b) = Acts!Carried(a)
      BY OpensUntaken DEF Acts!Carried
  <2>. QED
      BY <2>1, OpensUntaken DEF LocalInv, Aimed, InAttempt, Opens
<1>. QED
    BY <1>1, <1>2, <1>3, <1>4, <1>5, <1>6 DEF LocalInv

\* The node must be revealed.
Hides(a, b) ==
    /\ a.pc = "contract" /\ Moves(a, b, {"pc", "steps", "tries"})
    /\ b.pc = "reveal" /\ b.tries = 0
    /\ b.steps \in Seq(StepNames) /\ Len(b.steps) <= 3

LEMMA HidesUntaken ==
    ASSUME NEW a, NEW b, Hides(a, b)
    PROVE  /\ DOMAIN b = DOMAIN Acts!Idle
           /\ b.primary = a.primary /\ b.target = a.target /\ b.attempt = a.attempt
           /\ b.revealed = a.revealed /\ b.stage = a.stage /\ b.last = a.last
           /\ b.trail = a.trail /\ b.status = a.status /\ b.reason = a.reason
           /\ b.resultNode = a.resultNode /\ b.calls = a.calls /\ b.revealCalls = a.revealCalls
           /\ b.actedOn = a.actedOn
    BY FieldsOf DEF Hides, Moves, Fields

LEMMA HidesKeeps ==
    ASSUME NEW a, NEW b, LocalInv(a), Hides(a, b)
    PROVE  LocalInv(b)
<1>1. LocalType(b)
    BY HidesUntaken DEF LocalInv, LocalType, Hides, Places, SomeNode, Acts!MaxSteps, Acts!RetriesPerStep
<1>2. Located(b)
    BY HidesUntaken DEF LocalInv, LocalType, Located, Hides
<1>3. Spent(b)
  <2>1. /\ b.calls = a.calls /\ b.attempt = a.attempt /\ b.revealCalls = a.revealCalls
        /\ a.calls <= a.attempt /\ a.revealCalls <= 9 * a.attempt /\ a.revealCalls <= 9 * a.attempt + 9
      BY HidesUntaken DEF LocalInv, Spent, Hides, InContract
  <2>2. a.attempt \in Nat /\ a.calls \in Nat /\ a.revealCalls \in Nat
      BY DEF LocalInv, LocalType
  <2>3. b.tries = 0 /\ Len(b.steps) \in 0..3
    <3>1. Len(b.steps) <= 3 /\ b.tries = 0
        BY DEF Hides
    <3>2. Len(b.steps) \in Nat
        BY DEF Hides
    <3>3. \A n \in Nat : n <= 3 => n \in 0..3
        OBVIOUS
    <3>. QED
        BY <3>1, <3>2, <3>3, Zenon
  <2>4. b.revealCalls <= 9 * b.attempt + 3 * (3 - Len(b.steps)) + b.tries
    <3>1. \A r, k \in Nat, l \in 0..3 : r <= 9 * k => r <= 9 * k + 3 * (3 - l) + 0
        OBVIOUS
    <3>. QED
        BY <2>1, <2>2, <2>3, <3>1
  <2>5. b.calls <= b.attempt + 1 /\ b.calls <= b.attempt /\ b.revealCalls <= 9 * b.attempt + 9
      BY <2>1, <2>2
  <2>6. b.pc = "reveal"
      BY DEF Hides
  <2>. QED
      BY <2>4, <2>5, <2>6 DEF Spent
<1>4. Trailed(b)
    BY HidesUntaken DEF LocalInv, LocalType, Trailed, Hides, InContract
<1>5. Verified(b)
    BY HidesUntaken DEF LocalInv, LocalType, Verified, Hides, InContract
<1>6. Aimed(b)
  <2>1. Acts!Carried(b) = Acts!Carried(a)
      BY HidesUntaken DEF Acts!Carried
  <2>. QED
      BY <2>1, HidesUntaken DEF LocalInv, Aimed, InAttempt, Hides
<1>. QED
    BY <1>1, <1>2, <1>3, <1>4, <1>5, <1>6 DEF LocalInv

\* A step was done, or it is tried again.
Reveals(a, b) ==
    /\ a.pc = "reveal" /\ Moves(a, b, {"steps", "tries", "revealCalls"})
    /\ b.pc = "reveal" /\ b.tries \in 0..2
    /\ b.steps \in Seq(StepNames) /\ Len(b.steps) <= 3
    /\ b.revealCalls \in Nat /\ b.revealCalls <= 9 * a.attempt + 3 * (3 - Len(b.steps)) + b.tries
    /\ Len(b.steps) = 0 => b.tries = 0

LEMMA RevealsUntaken ==
    ASSUME NEW a, NEW b, Reveals(a, b)
    PROVE  /\ DOMAIN b = DOMAIN Acts!Idle
           /\ b.primary = a.primary /\ b.target = a.target /\ b.attempt = a.attempt
           /\ b.revealed = a.revealed /\ b.stage = a.stage /\ b.last = a.last
           /\ b.trail = a.trail /\ b.status = a.status /\ b.reason = a.reason
           /\ b.resultNode = a.resultNode /\ b.calls = a.calls
           /\ b.actedOn = a.actedOn
    BY FieldsOf DEF Reveals, Moves, Fields

LEMMA RevealsKeeps ==
    ASSUME NEW a, NEW b, LocalInv(a), Reveals(a, b)
    PROVE  LocalInv(b)
<1>1. LocalType(b)
    BY RevealsUntaken DEF LocalInv, LocalType, Reveals, Places, SomeNode, Acts!MaxSteps, Acts!RetriesPerStep
<1>2. Located(b)
    BY RevealsUntaken DEF LocalInv, LocalType, Located, Reveals
<1>3. Spent(b)
  <2>1. /\ b.calls = a.calls /\ b.attempt = a.attempt
        /\ a.calls <= a.attempt
      BY RevealsUntaken DEF LocalInv, Spent, Reveals, InContract
  <2>2. a.attempt \in Nat /\ a.calls \in Nat
      BY DEF LocalInv, LocalType
  <2>3. b.tries \in 0..2 /\ Len(b.steps) \in 0..3 /\ b.revealCalls \in Nat
    <3>1. b.tries \in 0..2 /\ Len(b.steps) <= 3 /\ b.revealCalls \in Nat
        BY DEF Reveals
    <3>2. Len(b.steps) \in Nat
        BY DEF Reveals
    <3>3. \A n \in Nat : n <= 3 => n \in 0..3
        OBVIOUS
    <3>. QED
        BY <3>1, <3>2, <3>3, Zenon
  <2>4. b.revealCalls <= 9 * a.attempt + 3 * (3 - Len(b.steps)) + b.tries
      BY DEF Reveals
  <2>5. b.calls <= b.attempt + 1 /\ b.calls <= b.attempt
      BY <2>1, <2>2
  <2>6. Len(b.steps) = 0 => b.tries = 0
      BY <2>3 DEF Reveals
  <2>7. b.revealCalls <= 9 * b.attempt + 9
    <3>1. \A r, n \in Nat, l \in 0..3, t \in 0..2 :
             (l = 0 => t = 0) /\ r <= 9 * n + 3 * (3 - l) + t => r <= 9 * n + 9
        OBVIOUS
    <3>. QED
        BY <2>1, <2>2, <2>3, <2>4, <2>6, <3>1, Zenon
  <2>8. b.pc = "reveal"
      BY DEF Reveals
  <2>. QED
      BY <2>1, <2>4, <2>5, <2>7, <2>8 DEF Spent
<1>4. Trailed(b)
  <2>1. b.trail = a.trail /\ b.attempt = a.attempt /\ b.status = a.status
      BY RevealsUntaken
  <2>2. a.pc = "reveal" /\ b.pc = "reveal"
      BY DEF Reveals
  <2>. QED
      BY <2>1, <2>2 DEF LocalInv, Trailed, InContract
<1>5. Verified(b)
    BY RevealsUntaken DEF LocalInv, LocalType, Verified, Reveals, InContract
<1>6. Aimed(b)
  <2>1. Acts!Carried(b) = Acts!Carried(a)
      BY RevealsUntaken DEF Acts!Carried
  <2>. QED
      BY <2>1, RevealsUntaken DEF LocalInv, Aimed, InAttempt, Reveals
<1>. QED
    BY <1>1, <1>2, <1>3, <1>4, <1>5, <1>6 DEF LocalInv

\* The engine executed.
Executes(a, b) ==
    /\ a.pc = "execute" /\ Moves(a, b, {"pc", "last", "actedOn", "calls"})
    /\ b.pc = "verify" /\ b.last \in {"verified", "unverified", "failed"}
    /\ b.actedOn \in SomeNode /\ (b.last # "failed" => b.actedOn \in Acts!Addressed(Acts!Carried(a)))
    /\ b.calls = a.calls + 1

LEMMA ExecutesUntaken ==
    ASSUME NEW a, NEW b, Executes(a, b)
    PROVE  /\ DOMAIN b = DOMAIN Acts!Idle
           /\ b.primary = a.primary /\ b.target = a.target /\ b.attempt = a.attempt
           /\ b.steps = a.steps /\ b.tries = a.tries /\ b.revealed = a.revealed
           /\ b.stage = a.stage /\ b.trail = a.trail /\ b.status = a.status
           /\ b.reason = a.reason /\ b.resultNode = a.resultNode
           /\ b.revealCalls = a.revealCalls
    BY FieldsOf DEF Executes, Moves, Fields

LEMMA ExecutesKeeps ==
    ASSUME NEW a, NEW b, LocalInv(a), Executes(a, b)
    PROVE  LocalInv(b)
<1>1. LocalType(b)
    BY ExecutesUntaken DEF LocalInv, LocalType, Executes, Places, SomeNode, Acts!MaxSteps, Acts!RetriesPerStep
<1>2. Located(b)
    BY ExecutesUntaken DEF LocalInv, LocalType, Located, Executes
<1>3. Spent(b)
    BY ExecutesUntaken DEF LocalInv, LocalType, Spent, Executes, InContract
<1>4. Trailed(b)
    BY ExecutesUntaken DEF LocalInv, LocalType, Trailed, Executes, InContract
<1>5. Verified(b)
    BY ExecutesUntaken DEF LocalInv, LocalType, Verified, Executes, InContract
<1>6. Aimed(b)
  <2>1. Acts!Carried(b) = Acts!Carried(a)
      BY ExecutesUntaken DEF Acts!Carried
  <2>2. a.attempt # 2 => a.target = a.primary
      BY DEF LocalInv, Aimed, InAttempt, Executes
  <2>. QED
      BY <2>1, <2>2, ExecutesUntaken DEF Aimed, Executes
<1>. QED
    BY <1>1, <1>2, <1>3, <1>4, <1>5, <1>6 DEF LocalInv

\* The outcome was verified, or not.
Verifies(a, b) ==
    /\ a.pc = "verify" /\ Moves(a, b, {"pc", "stage", "last"})
    /\ b.pc = "judge" /\ b.last \in {"none", "verified", "unverified", "failed"}
    /\ b.stage = "verified" <=> b.last = "verified"
    /\ b.last = "verified" => a.last # "failed"

LEMMA VerifiesUntaken ==
    ASSUME NEW a, NEW b, Verifies(a, b)
    PROVE  /\ DOMAIN b = DOMAIN Acts!Idle
           /\ b.primary = a.primary /\ b.target = a.target /\ b.attempt = a.attempt
           /\ b.steps = a.steps /\ b.tries = a.tries /\ b.revealed = a.revealed
           /\ b.trail = a.trail /\ b.status = a.status /\ b.reason = a.reason
           /\ b.resultNode = a.resultNode /\ b.calls = a.calls /\ b.revealCalls = a.revealCalls
           /\ b.actedOn = a.actedOn
    BY FieldsOf DEF Verifies, Moves, Fields

LEMMA VerifiesKeeps ==
    ASSUME NEW a, NEW b, LocalInv(a), Verifies(a, b)
    PROVE  LocalInv(b)
<1>1. LocalType(b)
    BY VerifiesUntaken DEF LocalInv, LocalType, Verifies, Places, SomeNode, Acts!MaxSteps, Acts!RetriesPerStep
<1>2. Located(b)
    BY VerifiesUntaken DEF LocalInv, LocalType, Located, Verifies
<1>3. Spent(b)
    BY VerifiesUntaken DEF LocalInv, LocalType, Spent, Verifies, InContract
<1>4. Trailed(b)
    BY VerifiesUntaken DEF LocalInv, LocalType, Trailed, Verifies, InContract
<1>5. Verified(b)
    BY VerifiesUntaken DEF LocalInv, LocalType, Verified, Verifies, InContract
<1>6. Aimed(b)
  <2>1. Acts!Carried(b) = Acts!Carried(a)
      BY VerifiesUntaken DEF Acts!Carried
  <2>. QED
      BY <2>1, VerifiesUntaken DEF LocalInv, Aimed, InAttempt, Verifies
<1>. QED
    BY <1>1, <1>2, <1>3, <1>4, <1>5, <1>6 DEF LocalInv

\* An attempt begins: Act's own, or the next one of recovery.
Tries(a, b) ==
    /\ a.pc \in {"policy", "judge"} /\ (a.pc = "judge" => a.stage # "verified")
    /\ Moves(a, b, {"pc", "attempt", "target", "trail", "revealed", "stage", "actedOn"})
    /\ b.pc = "contract" /\ b.revealed = FALSE /\ b.actedOn = Acts!NoNode
    /\ b.attempt \in 0..3 /\ (a.pc = "policy" => b.attempt = 0) /\ (a.pc = "judge" => b.attempt > a.attempt)
    /\ b.target \in Nodes /\ (b.attempt = 2 <=> b.target # a.primary)
    /\ b.trail \in Seq(Tried) /\ Len(b.trail) = (IF b.attempt = 0 THEN 0 ELSE b.attempt - 1)
    /\ \A i \in 1..Len(b.trail) : b.trail[i].id = i /\ ~b.trail[i].success

LEMMA TriesUntaken ==
    ASSUME NEW a, NEW b, Tries(a, b)
    PROVE  /\ DOMAIN b = DOMAIN Acts!Idle
           /\ b.primary = a.primary /\ b.steps = a.steps /\ b.tries = a.tries
           /\ b.last = a.last /\ b.status = a.status /\ b.reason = a.reason
           /\ b.resultNode = a.resultNode /\ b.calls = a.calls /\ b.revealCalls = a.revealCalls
    BY FieldsOf DEF Tries, Moves, Fields

LEMMA TriesKeeps ==
    ASSUME NEW a, NEW b, LocalInv(a), Tries(a, b)
    PROVE  LocalInv(b)
<1>1. LocalType(b)
  <2>1. /\ b.pc = "contract" /\ b.revealed = FALSE /\ b.target \in SomeNode /\ b.trail \in Seq(Tried)
        /\ b.attempt \in 0..3 /\ b.actedOn \in SomeNode
      BY DEF Tries, SomeNode
  <2>. QED
      BY <2>1, TriesUntaken DEF LocalInv, LocalType, Places
<1>2. Located(b)
  <2>1. b.pc = "contract" /\ b.target \in Nodes /\ (b.attempt = 2 => b.target # a.primary)
      BY DEF Tries
  <2>2. a.primary \in Nodes /\ a.resultNode \in Nodes
      BY DEF Tries, LocalInv, Located
  <2>. QED
      BY <2>1, <2>2, TriesUntaken DEF Located
<1>3. Spent(b)
  <2>1. a.attempt \in Nat /\ a.calls \in Nat /\ a.revealCalls \in Nat /\ b.attempt \in Nat
      BY DEF Tries, LocalInv, LocalType
  <2>2. CASE a.pc = "policy"
    <3>1. b.attempt = 0 /\ a.calls = 0 /\ a.revealCalls = 0 /\ b.calls = a.calls /\ b.revealCalls = a.revealCalls
        BY <2>2, TriesUntaken DEF Tries, LocalInv, Located
    <3>2. b.calls <= b.attempt /\ b.calls <= b.attempt + 1 /\ b.revealCalls <= 9 * b.attempt
          /\ b.revealCalls <= 9 * b.attempt + 9
        BY <3>1, SMT
    <3>3. b.pc = "contract"
        BY DEF Tries
    <3>. QED
        BY <3>2, <3>3 DEF Spent
  <2>3. CASE a.pc = "judge"
    <3>1. /\ b.attempt > a.attempt /\ a.calls <= a.attempt + 1 /\ a.revealCalls <= 9 * a.attempt + 9
          /\ b.calls = a.calls /\ b.revealCalls = a.revealCalls
        BY <2>3, TriesUntaken DEF Tries, LocalInv, Spent
    <3>2. b.calls <= b.attempt /\ b.calls <= b.attempt + 1 /\ b.revealCalls <= 9 * b.attempt
          /\ b.revealCalls <= 9 * b.attempt + 9
        BY <2>1, <3>1
    <3>3. b.pc = "contract"
        BY DEF Tries
    <3>. QED
        BY <3>2, <3>3 DEF Spent
  <2>. QED
      BY <2>2, <2>3 DEF Tries
<1>4. Trailed(b)
    BY TriesUntaken DEF LocalInv, LocalType, Trailed, Tries, InContract
<1>5. Verified(b)
  <2>1. b.pc = "contract" /\ a.pc \in {"policy", "judge"} /\ (a.pc = "judge" => a.stage # "verified")
      BY DEF Tries
  <2>2. a.last # "verified" /\ a.status = "failure"
      BY <2>1 DEF LocalInv, Located, Verified
  <2>. QED
      BY <2>1, <2>2, TriesUntaken DEF Verified
<1>6. Aimed(b)
  <2>1. b.pc = "contract" /\ (b.attempt # 2 => b.target = a.primary)
        /\ a.pc \in {"policy", "judge"} /\ (a.pc = "judge" => a.stage # "verified")
      BY DEF Tries
  <2>2. a.last # "verified"
      BY <2>1 DEF LocalInv, Located, Verified
  <2>3. b.primary = a.primary /\ b.last = a.last
      BY TriesUntaken
  <2>. QED
      BY <2>1, <2>2, <2>3 DEF Aimed
<1>. QED
    BY <1>1, <1>2, <1>3, <1>4, <1>5, <1>6 DEF LocalInv

\* A verified execution ends the Act.
Succeeds(a, b) ==
    /\ a.pc = "judge" /\ a.stage = "verified"
    /\ Moves(a, b, {"pc", "status", "reason", "resultNode", "trail"})
    /\ b.pc = "learn" /\ b.status = "success" /\ b.resultNode = a.target
    /\ b.trail \in Seq(Tried) /\ Len(b.trail) = a.attempt
    /\ \A i \in 1..Len(b.trail) : b.trail[i].id = i /\ (b.trail[i].success => i = Len(b.trail))
    /\ a.attempt > 0 => b.trail # <<>> /\ b.trail[Len(b.trail)] = [id |-> a.attempt, success |-> TRUE]

LEMMA SucceedsUntaken ==
    ASSUME NEW a, NEW b, Succeeds(a, b)
    PROVE  /\ DOMAIN b = DOMAIN Acts!Idle
           /\ b.primary = a.primary /\ b.target = a.target /\ b.attempt = a.attempt
           /\ b.steps = a.steps /\ b.tries = a.tries /\ b.revealed = a.revealed
           /\ b.stage = a.stage /\ b.last = a.last /\ b.calls = a.calls
           /\ b.revealCalls = a.revealCalls
           /\ b.actedOn = a.actedOn
    BY FieldsOf DEF Succeeds, Moves, Fields

LEMMA SucceedsKeeps ==
    ASSUME NEW a, NEW b, LocalInv(a), Succeeds(a, b)
    PROVE  LocalInv(b)
<1>1. LocalType(b)
    BY SucceedsUntaken DEF LocalInv, LocalType, Succeeds, Places, SomeNode, Acts!MaxSteps, Acts!RetriesPerStep
<1>2. Located(b)
    BY SucceedsUntaken DEF LocalInv, LocalType, Located, Succeeds
<1>3. Spent(b)
    BY SucceedsUntaken DEF LocalInv, LocalType, Spent, Succeeds, InContract
<1>4. Trailed(b)
    BY SucceedsUntaken DEF LocalInv, LocalType, Trailed, Succeeds, InContract
<1>5. Verified(b)
  <2>1. b.pc = "learn" /\ b.status = "success" /\ b.resultNode = a.target
      BY DEF Succeeds
  <2>2. a.last = "verified"
      BY DEF Succeeds, LocalInv, Verified
  <2>3. a.attempt > 0 => b.trail # <<>> /\ b.trail[Len(b.trail)] = [id |-> a.attempt, success |-> TRUE]
      BY DEF Succeeds
  <2>. QED
      BY <2>1, <2>2, <2>3, SucceedsUntaken DEF Verified, InContract
<1>6. Aimed(b)
  <2>1. Acts!Carried(b) = Acts!Carried(a)
      BY SucceedsUntaken DEF Acts!Carried
  <2>. QED
      BY <2>1, SucceedsUntaken DEF LocalInv, Aimed, InAttempt, Succeeds, Verified
<1>. QED
    BY <1>1, <1>2, <1>3, <1>4, <1>5, <1>6 DEF LocalInv

\* The last attempt failed.
GivesUp(a, b) ==
    /\ a.pc = "judge" /\ a.stage # "verified" /\ a.attempt = 3
    /\ Moves(a, b, {"pc", "reason", "resultNode", "trail"})
    /\ b.pc = "record" /\ b.reason # "" /\ b.resultNode = a.primary
    /\ b.trail \in Seq(Tried) /\ Len(b.trail) = a.attempt
    /\ \A i \in 1..Len(b.trail) : b.trail[i].id = i /\ ~b.trail[i].success

LEMMA GivesUpUntaken ==
    ASSUME NEW a, NEW b, GivesUp(a, b)
    PROVE  /\ DOMAIN b = DOMAIN Acts!Idle
           /\ b.primary = a.primary /\ b.target = a.target /\ b.attempt = a.attempt
           /\ b.steps = a.steps /\ b.tries = a.tries /\ b.revealed = a.revealed
           /\ b.stage = a.stage /\ b.last = a.last /\ b.status = a.status /\ b.calls = a.calls
           /\ b.revealCalls = a.revealCalls
           /\ b.actedOn = a.actedOn
    BY FieldsOf DEF GivesUp, Moves, Fields

LEMMA GivesUpKeeps ==
    ASSUME NEW a, NEW b, LocalInv(a), GivesUp(a, b)
    PROVE  LocalInv(b)
<1>1. LocalType(b)
  <2>1. b.pc = "record" /\ b.resultNode = a.primary /\ b.trail \in Seq(Tried)
      BY DEF GivesUp
  <2>. QED
      BY <2>1, GivesUpUntaken DEF LocalInv, LocalType, Places
<1>2. Located(b)
  <2>1. b.pc = "record" /\ b.resultNode = a.primary /\ a.pc = "judge"
      BY DEF GivesUp
  <2>2. a.primary \in Nodes /\ (a.attempt = 2 => a.target # a.primary)
      BY <2>1 DEF LocalInv, Located
  <2>. QED
      BY <2>1, <2>2, GivesUpUntaken DEF Located
<1>3. Spent(b)
  <2>1. b.pc = "record"
      BY DEF GivesUp
  <2>2. a.calls <= a.attempt + 1 /\ a.revealCalls <= 9 * a.attempt + 9
      BY DEF LocalInv, Spent
  <2>. QED
      BY <2>1, <2>2, GivesUpUntaken DEF Spent, InContract
<1>4. Trailed(b)
  <2>1. b.pc = "record"
      BY DEF GivesUp
  <2>2. Len(b.trail) <= b.attempt
    <3>1. b.attempt = a.attempt
        BY GivesUpUntaken
    <3>2. Len(b.trail) = a.attempt /\ a.attempt = 3
        BY DEF GivesUp
    <3>. QED
        BY <3>1, <3>2
  <2>3. \A i \in 1..Len(b.trail) : b.trail[i].id = i /\ ~b.trail[i].success
      BY DEF GivesUp
  <2>. QED
      BY <2>1, <2>2, <2>3 DEF Trailed, InContract
<1>5. Verified(b)
  <2>1. b.pc = "record" /\ b.reason # "" /\ a.pc = "judge"
      BY DEF GivesUp
  <2>2. a.status = "failure"
      BY <2>1 DEF LocalInv, Verified
  <2>. QED
      BY <2>1, <2>2, GivesUpUntaken DEF Verified, InContract
<1>6. Aimed(b)
  <2>1. Acts!Carried(b) = Acts!Carried(a)
      BY GivesUpUntaken DEF Acts!Carried
  <2>2. b.pc = "record" /\ a.pc = "judge"
      BY DEF GivesUp
  <2>3. a.status = "failure"
      BY <2>2 DEF LocalInv, Verified
  <2>4. b.status = a.status /\ b.last = a.last /\ b.actedOn = a.actedOn
      BY GivesUpUntaken
  <2>5. a.last = "verified" => a.actedOn \in Acts!Addressed(Acts!Carried(a))
      BY DEF LocalInv, Aimed
  <2>. QED
      BY <2>1, <2>2, <2>3, <2>4, <2>5 DEF Aimed, InAttempt
<1>. QED
    BY <1>1, <1>2, <1>3, <1>4, <1>5, <1>6 DEF LocalInv

\* One of the memories was told.
Remembers(a, b) ==
    /\ Moves(a, b, {"pc"})
    /\ (a.pc = "learn" /\ b.pc = "record") \/ (a.pc = "record" /\ b.pc = "done")

LEMMA RemembersUntaken ==
    ASSUME NEW a, NEW b, Remembers(a, b)
    PROVE  /\ DOMAIN b = DOMAIN Acts!Idle
           /\ b.primary = a.primary /\ b.target = a.target /\ b.attempt = a.attempt
           /\ b.steps = a.steps /\ b.tries = a.tries /\ b.revealed = a.revealed
           /\ b.stage = a.stage /\ b.last = a.last /\ b.trail = a.trail /\ b.status = a.status
           /\ b.reason = a.reason /\ b.resultNode = a.resultNode /\ b.calls = a.calls
           /\ b.revealCalls = a.revealCalls
           /\ b.actedOn = a.actedOn
    BY FieldsOf DEF Remembers, Moves, Fields

LEMMA RemembersKeeps ==
    ASSUME NEW a, NEW b, LocalInv(a), Remembers(a, b)
    PROVE  LocalInv(b)
<1>1. LocalType(b)
    BY RemembersUntaken DEF LocalInv, LocalType, Remembers, Places, SomeNode, Acts!MaxSteps, Acts!RetriesPerStep
<1>2. Located(b)
    BY RemembersUntaken DEF LocalInv, LocalType, Located, Remembers
<1>3. Spent(b)
    BY RemembersUntaken DEF LocalInv, LocalType, Spent, Remembers, InContract
<1>4. Trailed(b)
    BY RemembersUntaken DEF LocalInv, LocalType, Trailed, Remembers, InContract
<1>5. Verified(b)
  <2>1. /\ b.last = a.last /\ b.status = a.status /\ b.resultNode = a.resultNode /\ b.target = a.target
        /\ b.attempt = a.attempt /\ b.trail = a.trail /\ b.reason = a.reason
      BY RemembersUntaken
  <2>2. CASE a.pc = "learn"
    <3>1. b.pc = "record" /\ a.status = "success"
        BY <2>2 DEF Remembers, LocalInv, Verified
    <3>2. a.last = "verified" /\ a.resultNode = a.target
          /\ (a.attempt > 0 => a.trail # <<>> /\ a.trail[Len(a.trail)] = [id |-> a.attempt, success |-> TRUE])
        BY <3>1 DEF LocalInv, Verified
    <3>. QED
        BY <2>1, <3>1, <3>2 DEF Verified, InContract
  <2>3. CASE a.pc = "record"
    <3>1. b.pc = "done"
        BY <2>3 DEF Remembers
    <3>2. /\ a.status = "failure" => a.reason # ""
          /\ a.status = "success" => a.last = "verified" /\ a.resultNode = a.target
          /\ a.status = "success" =>
                (a.attempt > 0 => a.trail # <<>> /\ a.trail[Len(a.trail)] = [id |-> a.attempt, success |-> TRUE])
        BY <2>3 DEF LocalInv, Verified
    <3>. QED
        BY <2>1, <3>1, <3>2 DEF Verified, InContract
  <2>. QED
      BY <2>2, <2>3 DEF Remembers
<1>6. Aimed(b)
  <2>1. Acts!Carried(b) = Acts!Carried(a)
      BY RemembersUntaken DEF Acts!Carried
  <2>2. b.pc \in {"record", "done"} /\ b.status = a.status /\ b.last = a.last /\ b.actedOn = a.actedOn
        /\ b.attempt = a.attempt /\ b.target = a.target /\ b.primary = a.primary
      BY RemembersUntaken DEF Remembers
  <2>3. /\ a.status = "success" /\ a.attempt # 2 => a.target = a.primary
        /\ a.last = "verified" => a.actedOn \in Acts!Addressed(Acts!Carried(a))
      BY DEF LocalInv, Aimed, InAttempt
  <2>. QED
      BY <2>1, <2>2, <2>3 DEF Aimed, InAttempt
<1>. QED
    BY <1>1, <1>2, <1>3, <1>4, <1>5, <1>6 DEF LocalInv

-----------------------------------------------------------------------------
\* What each action does to the client that takes it.

LocalStep(c) ==
    \E b : /\ act' = [act EXCEPT ![c] = b] /\ LocalInv(b)
           /\ b = Acts!Idle \/ b.calls = act[c].calls \/ act[c].pc = "execute"
           /\ b = Acts!Idle \/ b.status = act[c].status \/ b.pc = "learn"

LEMMA StepBySet ==
    ASSUME ActsInv, NEW c \in Clients, NEW fields, Acts!Set(c, fields),
           LocalInv(Acts!With(act[c], fields)), "calls" \notin DOMAIN fields \/ act[c].pc = "execute",
           "status" \notin DOMAIN fields \/ Acts!With(act[c], fields).pc = "learn"
    PROVE  LocalStep(c)
<1>. DEFINE b == Acts!With(act[c], fields)
<1>1. act' = [act EXCEPT ![c] = b]
    BY DEF Acts!Set
<1>2. "calls" \notin DOMAIN fields => b.calls = act[c].calls
    BY Untaken DEF ActsInv, Fields
<1>3. "status" \notin DOMAIN fields => b.status = act[c].status
    BY Untaken DEF ActsInv, Fields
<1>4. b.calls = act[c].calls \/ act[c].pc = "execute"
    BY <1>2
<1>5. b.status = act[c].status \/ b.pc = "learn"
    BY <1>3
<1>6. LocalInv(b)
    OBVIOUS
<1>. HIDE DEF b
<1>. QED
    BY <1>1, <1>4, <1>5, <1>6 DEF LocalStep

\* The steps before the contract, by the fields they take.
LEMMA EarlyStep ==
    ASSUME ActsInv, NEW c \in Clients, act[c].pc \in {"idle", "resolve", "lookup", "policy"},
           NEW fields, Acts!Set(c, fields), DOMAIN fields \subseteq EarlyFields, "pc" \in DOMAIN fields,
           fields.pc \in {"resolve", "lookup", "policy", "record", "done"},
           "primary" \in DOMAIN fields => fields.primary \in Nodes,
           "resultNode" \in DOMAIN fields => fields.resultNode \in Nodes,
           fields.pc = "lookup" => "primary" \in DOMAIN fields,
           fields.pc = "policy" => "resultNode" \in DOMAIN fields,
           fields.pc \in {"policy", "record"} => act[c].pc \in {"lookup", "policy"},
           fields.pc = "record" => act[c].pc = "policy",
           fields.pc \in {"record", "done"} => "reason" \in DOMAIN fields /\ fields.reason # ""
    PROVE  LocalStep(c)
<1>. DEFINE a == act[c]
            b == Acts!With(a, fields)
<1>1. LocalInv(a)
    BY DEF ActsInv
<1>2. a.primary \in SomeNode /\ a.resultNode \in SomeNode
    BY <1>1 DEF LocalInv, LocalType
<1>3. (a.pc \in {"lookup", "policy"} => a.primary \in Nodes) /\ (a.pc = "policy" => a.resultNode \in Nodes)
    BY <1>1 DEF LocalInv, Located
<1>4. b.pc = fields.pc
    BY <1>1, Taken DEF Fields
<1>5. b.primary = IF "primary" \in DOMAIN fields THEN fields.primary ELSE a.primary
    BY <1>1, Taken DEF Fields
<1>6. b.resultNode = IF "resultNode" \in DOMAIN fields THEN fields.resultNode ELSE a.resultNode
    BY <1>1, Taken DEF Fields
<1>7. "reason" \in DOMAIN fields => b.reason = fields.reason
    BY <1>1, Taken DEF Fields
<1>8. b.primary \in SomeNode /\ b.resultNode \in SomeNode
    BY <1>2, <1>5, <1>6 DEF SomeNode
<1>9. b.pc \notin {"resolve", "done"} => b.primary \in Nodes
    BY <1>3, <1>4, <1>5
<1>10. b.pc \in {"policy", "record"} => b.resultNode \in Nodes
    BY <1>3, <1>4, <1>6
<1>11. b.pc \in {"record", "done"} => b.reason # ""
    BY <1>4, <1>7
<1>12. b = Acts!With(a, fields) /\ b.pc \in {"resolve", "lookup", "policy", "record", "done"} /\ a.pc = act[c].pc
    BY <1>4
<1>13. "calls" \notin DOMAIN fields /\ "status" \notin DOMAIN fields
    BY DEF EarlyFields
<1>. HIDE DEF b
<1>14. LocalInv(b)
    BY <1>1, <1>8, <1>9, <1>10, <1>11, <1>12, EarlyKeeps
<1>. QED
    BY <1>12, <1>13, <1>14, StepBySet

LEMMA RefuseStep ==
    ASSUME ActsInv, NEW c \in Clients, act[c].pc \in {"idle", "resolve", "lookup"}, NEW reason, reason # "",
           Acts!Refuse(c, reason)
    PROVE  LocalStep(c)
<1>. DEFINE fields == [pc |-> "done", reason |-> reason]
<1>1. DOMAIN fields = {"pc", "reason"} /\ fields.pc = "done" /\ fields.reason = reason
    OBVIOUS
<1>2. Acts!Set(c, fields)
    BY DEF Acts!Refuse
<1>. HIDE DEF fields
<1>. QED
    BY <1>1, <1>2, EarlyStep DEF EarlyFields

LEMMA BeginStep ==
    ASSUME ActsInv, NEW c \in Clients, Acts!Begin(c)
    PROVE  LocalStep(c)
<1>1. act[c].pc = "idle"
    BY DEF Acts!Begin, Acts!At
<1>2. CASE \E reason \in {"unsupported_action", "missing_target"} : Acts!Refuse(c, reason)
    BY <1>1, <1>2, RefuseStep
<1>3. CASE Acts!Set(c, [pc |-> "resolve"])
  <2>. DEFINE fields == [pc |-> "resolve"]
  <2>1. DOMAIN fields = {"pc"} /\ fields.pc = "resolve" /\ Acts!Set(c, fields)
      BY <1>3
  <2>. HIDE DEF fields
  <2>. QED
      BY <1>1, <2>1, EarlyStep DEF EarlyFields
<1>. QED
    BY <1>2, <1>3 DEF Acts!Begin

LEMMA ResolveStep ==
    ASSUME ActsInv, NEW c \in Clients, Acts!Resolve(c)
    PROVE  LocalStep(c)
<1>1. act[c].pc = "resolve"
    BY DEF Acts!Resolve, Acts!At
<1>2. CASE Acts!Refuse(c, "target_not_found")
    BY <1>1, <1>2, RefuseStep
<1>3. ASSUME NEW n \in Nodes, Acts!Set(c, [pc |-> "done", reason |-> "ambiguous_target", resultNode |-> n])
      PROVE  LocalStep(c)
  <2>. DEFINE fields == [pc |-> "done", reason |-> "ambiguous_target", resultNode |-> n]
  <2>1. /\ DOMAIN fields = {"pc", "reason", "resultNode"} /\ fields.pc = "done"
        /\ fields.reason = "ambiguous_target" /\ fields.resultNode = n /\ Acts!Set(c, fields)
      BY <1>3
  <2>. HIDE DEF fields
  <2>. QED
      BY <1>1, <2>1, EarlyStep DEF EarlyFields
<1>4. ASSUME NEW n \in Nodes, Acts!Set(c, [pc |-> "lookup", primary |-> n])
      PROVE  LocalStep(c)
  <2>. DEFINE fields == [pc |-> "lookup", primary |-> n]
  <2>1. DOMAIN fields = {"pc", "primary"} /\ fields.pc = "lookup" /\ fields.primary = n /\ Acts!Set(c, fields)
      BY <1>4
  <2>. HIDE DEF fields
  <2>. QED
      BY <1>1, <2>1, EarlyStep DEF EarlyFields
<1>. QED
    BY <1>2, <1>3, <1>4 DEF Acts!Resolve

LEMMA LookupStep ==
    ASSUME ActsInv, NEW c \in Clients, Acts!LookupTarget(c)
    PROVE  LocalStep(c)
<1>1. act[c].pc = "lookup" /\ act[c].primary \in Nodes
    BY DEF Acts!LookupTarget, Acts!At, ActsInv, LocalInv, Located
<1>2. CASE \E reason \in {"state_unavailable", "graph_unavailable", "resolved_node_missing"} : Acts!Refuse(c, reason)
    BY <1>1, <1>2, RefuseStep
<1>3. CASE Acts!Set(c, [pc |-> "done", reason |-> "missing_value", resultNode |-> act[c].primary])
  <2>. DEFINE fields == [pc |-> "done", reason |-> "missing_value", resultNode |-> act[c].primary]
  <2>1. /\ DOMAIN fields = {"pc", "reason", "resultNode"} /\ fields.pc = "done"
        /\ fields.reason = "missing_value" /\ fields.resultNode = act[c].primary /\ Acts!Set(c, fields)
      BY <1>3
  <2>. HIDE DEF fields
  <2>. QED
      BY <1>1, <2>1, EarlyStep DEF EarlyFields
<1>4. CASE Acts!Set(c, [pc |-> "policy", resultNode |-> act[c].primary])
  <2>. DEFINE fields == [pc |-> "policy", resultNode |-> act[c].primary]
  <2>1. /\ DOMAIN fields = {"pc", "resultNode"} /\ fields.pc = "policy"
        /\ fields.resultNode = act[c].primary /\ Acts!Set(c, fields)
      BY <1>4
  <2>. HIDE DEF fields
  <2>. QED
      BY <1>1, <2>1, EarlyStep DEF EarlyFields
<1>. QED
    BY <1>2, <1>3, <1>4 DEF Acts!LookupTarget

\* An attempt starts; what it starts from is in Tries.
LEMMA AttemptStep ==
    ASSUME ActsInv, NEW c \in Clients, NEW k \in 0..3, NEW n \in Nodes, NEW trail \in Seq(Tried),
           Acts!Attempt(c, k, n, trail),
           act[c].pc \in {"policy", "judge"}, act[c].pc = "judge" => act[c].stage # "verified",
           act[c].pc = "policy" => k = 0, act[c].pc = "judge" => k > act[c].attempt,
           k = 2 <=> n # act[c].primary,
           Len(trail) = IF k = 0 THEN 0 ELSE k - 1,
           \A i \in 1..Len(trail) : trail[i].id = i /\ ~trail[i].success
    PROVE  LocalStep(c)
<1>. DEFINE a == act[c]
            fields == [pc |-> "contract", attempt |-> k, target |-> n, trail |-> trail, revealed |-> FALSE, stage |-> "",
                       actedOn |-> Acts!NoNode]
            b == Acts!With(a, fields)
<1>1. LocalInv(a)
    BY DEF ActsInv
<1>2. Acts!Set(c, fields)
    BY DEF Acts!Attempt
<1>3. DOMAIN fields = {"pc", "attempt", "target", "trail", "revealed", "stage", "actedOn"}
    OBVIOUS
<1>4. Moves(a, b, DOMAIN fields)
    BY <1>1, TakenMoves
<1>5. /\ b.pc = "contract" /\ b.revealed = FALSE /\ b.attempt = k /\ b.target = n /\ b.trail = trail
      /\ b.actedOn = Acts!NoNode
  <2>1. DOMAIN fields \subseteq Fields
      BY <1>3 DEF Fields
  <2>2. \A f \in DOMAIN fields : b[f] = fields[f]
    <3>. HIDE DEF fields, a
    <3>. QED
        BY <1>1, <2>1, TakenFields
  <2>. QED
      BY <1>3, <2>2
<1>6. "calls" \notin DOMAIN fields /\ "status" \notin DOMAIN fields
    OBVIOUS
<1>. HIDE DEF b, fields
<1>7. Tries(a, b)
    BY <1>3, <1>4, <1>5 DEF Tries
<1>8. LocalInv(b)
    BY <1>1, <1>7, TriesKeeps
<1>. QED
    BY <1>2, <1>6, <1>8, StepBySet DEF b

LEMMA PolicyStep ==
    ASSUME ActsInv, NEW c \in Clients, Acts!CheckPolicy(c)
    PROVE  LocalStep(c)
<1>1. act[c].pc = "policy" /\ act[c].primary \in Nodes
    BY DEF Acts!CheckPolicy, Acts!At, ActsInv, LocalInv, Located
<1>2. CASE Acts!Set(c, [pc |-> "record", reason |-> "policy_denied"])
  <2>. DEFINE fields == [pc |-> "record", reason |-> "policy_denied"]
  <2>1. DOMAIN fields = {"pc", "reason"} /\ fields.pc = "record" /\ fields.reason = "policy_denied" /\ Acts!Set(c, fields)
      BY <1>2
  <2>. HIDE DEF fields
  <2>. QED
      BY <1>1, <2>1, EarlyStep DEF EarlyFields
<1>3. CASE Acts!Attempt(c, 0, act[c].primary, <<>>)
  <2>1. /\ <<>> \in Seq(Tried) /\ Len(<<>>) = IF 0 = 0 THEN 0 ELSE 0 - 1
        /\ \A i \in 1..Len(<<>>) : <<>>[i].id = i /\ ~<<>>[i].success
      OBVIOUS
  <2>2. 0 \in 0..3 /\ 0 # 2 /\ act[c].pc \in {"policy", "judge"} /\ act[c].pc # "judge"
      BY <1>1
  <2>. QED
      BY <1>1, <1>3, <2>1, <2>2, AttemptStep, Zenon
<1>. QED
    BY <1>2, <1>3 DEF Acts!CheckPolicy

-----------------------------------------------------------------------------
\* The steps of the contract.

LEMMA OneAtMost ==
    ASSUME NEW S, NEW x \in S, NEW P
    PROVE  (IF P THEN <<x>> ELSE <<>>) \in Seq(S) /\ Len(IF P THEN <<x>> ELSE <<>>) \in 0..1
<1>1. <<x>> \in Seq(S) /\ Len(<<x>>) = 1 /\ <<>> \in Seq(S) /\ Len(<<>>) = 0
    OBVIOUS
<1>2. 0 \in 0..1 /\ 1 \in 0..1
    OBVIOUS
<1>. QED
    BY <1>1, <1>2

LEMMA RevealStepsFacts ==
    ASSUME NEW n, NEW shape
    PROVE  Acts!RevealSteps(n, shape) \in Seq(StepNames) /\ Len(Acts!RevealSteps(n, shape)) <= 3
<1>. DEFINE When(needed, move) == IF needed THEN <<move>> ELSE <<>>
            s == When(shape.collapsed /\ n \notin Orphans, "expand_parent")
            t == When(shape.hidden /\ n \notin Orphans, "focus_parent")
            u == When(shape.offscreen, "scroll_into_view")
<1>1. s \in Seq(StepNames) /\ t \in Seq(StepNames) /\ u \in Seq(StepNames)
  <2>1. "expand_parent" \in StepNames /\ "focus_parent" \in StepNames /\ "scroll_into_view" \in StepNames
      BY DEF StepNames
  <2>. QED
      BY <2>1, OneAtMost
<1>2. Len(s) \in 0..1 /\ Len(t) \in 0..1 /\ Len(u) \in 0..1
  <2>1. "expand_parent" \in StepNames /\ "focus_parent" \in StepNames /\ "scroll_into_view" \in StepNames
      BY DEF StepNames
  <2>. QED
      BY <2>1, OneAtMost
<1>3. Acts!RevealSteps(n, shape) = IF (s \o t) \o u = <<>> THEN <<"probe_visibility">> ELSE (s \o t) \o u
    BY DEF Acts!RevealSteps
<1>. HIDE DEF s, t, u
<1>4. s \o t \in Seq(StepNames) /\ Len(s \o t) = Len(s) + Len(t)
    BY <1>1, ConcatProperties
<1>5. (s \o t) \o u \in Seq(StepNames) /\ Len((s \o t) \o u) = Len(s \o t) + Len(u)
    BY <1>1, <1>4, ConcatProperties
<1>6. Len((s \o t) \o u) <= 3
  <2>1. Len(s \o t) = Len(s) + Len(t) /\ Len((s \o t) \o u) = Len(s \o t) + Len(u)
      BY <1>4, <1>5
  <2>2. \A i, j, k \in 0..1 : (i + j) + k <= 3
      OBVIOUS
  <2>3. (Len(s) + Len(t)) + Len(u) <= 3
      BY <1>2, <2>2
  <2>. QED
      BY <2>1, <2>3, Zenon
<1>7. <<"probe_visibility">> \in Seq(StepNames) /\ Len(<<"probe_visibility">>) <= 3
  <2>1. <<"probe_visibility">> \in Seq(StepNames) /\ Len(<<"probe_visibility">>) = 1 /\ 1 <= 3
      BY DEF StepNames
  <2>. QED
      BY <2>1, Zenon
<1>. QED
    BY <1>3, <1>5, <1>6, <1>7

\* The step of a client that takes fields, from what it makes of its local state.
LEMMA ContractEndStep ==
    ASSUME ActsInv, NEW c \in Clients, act[c].pc \in {"contract", "reveal"}, NEW stage \in {"resolve", "reveal"},
           Acts!Set(c, Acts!EndContract(stage))
    PROVE  LocalStep(c)
<1>. DEFINE a == act[c]
            fields == Acts!EndContract(stage)
            b == Acts!With(a, fields)
<1>1. LocalInv(a)
    BY DEF ActsInv
<1>2. DOMAIN fields = {"pc", "stage"} /\ fields.pc = "judge" /\ fields.stage = stage
    BY DEF Acts!EndContract
<1>. HIDE DEF fields
<1>3. b.pc = fields.pc /\ b.stage = fields.stage /\ b.revealCalls = a.revealCalls
  <2>. HIDE DEF a
  <2>1. b.pc = fields.pc /\ b.stage = fields.stage
      BY <1>1, <1>2, TakenFields DEF Fields
  <2>2. b.revealCalls = a.revealCalls
      BY <1>1, <1>2, Untaken DEF Fields
  <2>. QED
      BY <2>1, <2>2
<1>4. Moves(a, b, {"pc", "stage"})
    BY <1>1, <1>2, TakenMoves
<1>5. Moves(a, b, {"pc", "stage", "revealCalls"})
    BY <1>4 DEF Moves
<1>6. a.revealCalls \in Nat /\ a.revealCalls <= 9 * a.attempt + 9
    BY <1>1 DEF LocalInv, LocalType, Spent
<1>. HIDE DEF b
<1>7. Ends(a, b)
    BY <1>2, <1>3, <1>5, <1>6 DEF Ends
<1>8. LocalInv(b)
    BY <1>1, <1>7, EndsKeeps
<1>9. "calls" \notin DOMAIN fields /\ "status" \notin DOMAIN fields
    BY <1>2
<1>. QED
    BY <1>8, <1>9, StepBySet DEF b, fields

LEMMA OpensStep ==
    ASSUME ActsInv, NEW c \in Clients, NEW seen \in BOOLEAN,
           act[c].pc \in {"contract", "reveal"}, seen \/ act[c].steps = <<>>,
           Acts!Set(c, [pc |-> "execute", revealed |-> seen])
    PROVE  LocalStep(c)
<1>. DEFINE a == act[c]
            fields == [pc |-> "execute", revealed |-> seen]
            b == Acts!With(a, fields)
<1>1. LocalInv(a)
    BY DEF ActsInv
<1>2. DOMAIN fields = {"pc", "revealed"} /\ fields.pc = "execute" /\ fields.revealed = seen
    OBVIOUS
<1>3. Acts!Set(c, fields)
    OBVIOUS
<1>. HIDE DEF fields
<1>4. b.pc = fields.pc /\ b.revealed = fields.revealed
  <2>. HIDE DEF a
  <2>1. DOMAIN fields \subseteq Fields
      BY <1>2 DEF Fields
  <2>. QED
      BY <1>1, <1>2, <2>1, TakenFields
<1>5. Moves(a, b, {"pc", "revealed"})
    BY <1>1, <1>2, TakenMoves
<1>. HIDE DEF b
<1>7. Opens(a, b)
    BY <1>2, <1>4, <1>5 DEF Opens
<1>8. LocalInv(b)
    BY <1>1, <1>7, OpensKeeps
<1>9. /\ "calls" \notin DOMAIN fields \/ act[c].pc = "execute"
      /\ "status" \notin DOMAIN fields
    BY <1>2
<1>. QED
    BY <1>3, <1>8, <1>9, StepBySet DEF b

LEMMA HidesStep ==
    ASSUME ActsInv, NEW c \in Clients, NEW steps \in Seq(StepNames), Len(steps) <= 3,
           act[c].pc = "contract",
           Acts!Set(c, [pc |-> "reveal", steps |-> steps, tries |-> 0])
    PROVE  LocalStep(c)
<1>. DEFINE a == act[c]
            fields == [pc |-> "reveal", steps |-> steps, tries |-> 0]
            b == Acts!With(a, fields)
<1>1. LocalInv(a)
    BY DEF ActsInv
<1>2. DOMAIN fields = {"pc", "steps", "tries"} /\ fields.pc = "reveal" /\ fields.steps = steps /\ fields.tries = 0
    OBVIOUS
<1>3. Acts!Set(c, fields)
    OBVIOUS
<1>. HIDE DEF fields
<1>4. b.pc = fields.pc /\ b.steps = fields.steps /\ b.tries = fields.tries
  <2>. HIDE DEF a
  <2>1. DOMAIN fields \subseteq Fields
      BY <1>2 DEF Fields
  <2>. QED
      BY <1>1, <1>2, <2>1, TakenFields
<1>5. Moves(a, b, {"pc", "steps", "tries"})
    BY <1>1, <1>2, TakenMoves
<1>. HIDE DEF b
<1>7. Hides(a, b)
    BY <1>2, <1>4, <1>5 DEF Hides
<1>8. LocalInv(b)
    BY <1>1, <1>7, HidesKeeps
<1>9. /\ "calls" \notin DOMAIN fields \/ act[c].pc = "execute"
      /\ "status" \notin DOMAIN fields
    BY <1>2
<1>. QED
    BY <1>3, <1>8, <1>9, StepBySet DEF b

LEMMA ExecutesStep ==
    ASSUME ActsInv, NEW c \in Clients, NEW outcome \in {"verified", "unverified", "failed"},
           act[c].pc = "execute", NEW n \in Acts!Addressed(Acts!Carried(act[c])),
           Acts!Set(c, [pc |-> "verify", last |-> outcome, calls |-> act[c].calls + 1,
                        actedOn |-> IF outcome = "failed" THEN Acts!NoNode ELSE n])
    PROVE  LocalStep(c)
<1>. DEFINE a == act[c]
            fields == [pc |-> "verify", last |-> outcome, calls |-> act[c].calls + 1,
                       actedOn |-> IF outcome = "failed" THEN Acts!NoNode ELSE n]
            b == Acts!With(a, fields)
<1>1. LocalInv(a)
    BY DEF ActsInv
<1>2. /\ DOMAIN fields = {"pc", "last", "actedOn", "calls"} /\ fields.pc = "verify" /\ fields.last = outcome
      /\ fields.calls = a.calls + 1
      /\ IF outcome = "failed" THEN fields.actedOn = Acts!NoNode ELSE fields.actedOn = n
    OBVIOUS
<1>6. n \in SomeNode
  <2>1. a.primary \in Nodes
      BY <1>1 DEF LocalInv, Located
  <2>2. Acts!Carried(a).screenCenter = a.primary
      BY DEF Acts!Carried, Acts!BuildIntentForAction, Acts!BuildIntentFromNode
  <2>. QED
      BY <2>1, <2>2 DEF Acts!Addressed, SomeNode
<1>3. Acts!Set(c, fields)
    OBVIOUS
<1>. HIDE DEF fields
<1>4. b.pc = fields.pc /\ b.last = fields.last /\ b.actedOn = fields.actedOn /\ b.calls = fields.calls
  <2>. HIDE DEF a
  <2>1. DOMAIN fields \subseteq Fields
      BY <1>2 DEF Fields
  <2>. QED
      BY <1>1, <1>2, <2>1, TakenFields
<1>5. Moves(a, b, {"pc", "last", "actedOn", "calls"})
    BY <1>1, <1>2, TakenMoves
<1>. HIDE DEF b
<1>7. Executes(a, b)
    BY <1>2, <1>4, <1>5, <1>6 DEF Executes, SomeNode
<1>8. LocalInv(b)
    BY <1>1, <1>7, ExecutesKeeps
<1>9. /\ "calls" \notin DOMAIN fields \/ act[c].pc = "execute"
      /\ "status" \notin DOMAIN fields
    BY <1>2
<1>. QED
    BY <1>3, <1>8, <1>9, StepBySet DEF b

LEMMA VerifiesStep ==
    ASSUME ActsInv, NEW c \in Clients, NEW stage, NEW last \in {"none", "verified", "unverified", "failed"},
           act[c].pc = "verify", stage = "verified" <=> last = "verified",
           last = "verified" => act[c].last # "failed",
           Acts!Set(c, [pc |-> "judge", stage |-> stage, last |-> last])
    PROVE  LocalStep(c)
<1>. DEFINE a == act[c]
            fields == [pc |-> "judge", stage |-> stage, last |-> last]
            b == Acts!With(a, fields)
<1>1. LocalInv(a)
    BY DEF ActsInv
<1>2. DOMAIN fields = {"pc", "stage", "last"} /\ fields.pc = "judge" /\ fields.stage = stage /\ fields.last = last
    OBVIOUS
<1>3. Acts!Set(c, fields)
    OBVIOUS
<1>. HIDE DEF fields
<1>4. b.pc = fields.pc /\ b.stage = fields.stage /\ b.last = fields.last
  <2>. HIDE DEF a
  <2>1. DOMAIN fields \subseteq Fields
      BY <1>2 DEF Fields
  <2>. QED
      BY <1>1, <1>2, <2>1, TakenFields
<1>5. Moves(a, b, {"pc", "stage", "last"})
    BY <1>1, <1>2, TakenMoves
<1>. HIDE DEF b
<1>7. Verifies(a, b)
    BY <1>2, <1>4, <1>5 DEF Verifies
<1>8. LocalInv(b)
    BY <1>1, <1>7, VerifiesKeeps
<1>9. /\ "calls" \notin DOMAIN fields \/ act[c].pc = "execute"
      /\ "status" \notin DOMAIN fields
    BY <1>2
<1>. QED
    BY <1>3, <1>8, <1>9, StepBySet DEF b

LEMMA RemembersStep ==
    ASSUME ActsInv, NEW c \in Clients, NEW place,
           (act[c].pc = "learn" /\ place = "record") \/ (act[c].pc = "record" /\ place = "done"),
           Acts!Set(c, [pc |-> place])
    PROVE  LocalStep(c)
<1>. DEFINE a == act[c]
            fields == [pc |-> place]
            b == Acts!With(a, fields)
<1>1. LocalInv(a)
    BY DEF ActsInv
<1>2. DOMAIN fields = {"pc"} /\ fields.pc = place
    OBVIOUS
<1>3. Acts!Set(c, fields)
    OBVIOUS
<1>. HIDE DEF fields
<1>4. b.pc = fields.pc
  <2>. HIDE DEF a
  <2>1. DOMAIN fields \subseteq Fields
      BY <1>2 DEF Fields
  <2>. QED
      BY <1>1, <1>2, <2>1, TakenFields
<1>5. Moves(a, b, {"pc"})
    BY <1>1, <1>2, TakenMoves
<1>. HIDE DEF b
<1>7. Remembers(a, b)
    BY <1>2, <1>4, <1>5 DEF Remembers
<1>8. LocalInv(b)
    BY <1>1, <1>7, RemembersKeeps
<1>9. /\ "calls" \notin DOMAIN fields \/ act[c].pc = "execute"
      /\ "status" \notin DOMAIN fields
    BY <1>2
<1>. QED
    BY <1>3, <1>8, <1>9, StepBySet DEF b

\* The trail of a success in attempt k: the attempts of recovery, of which only the last succeeded.
TrailOfSuccess(trail, k) ==
    /\ trail \in Seq(Tried) /\ Len(trail) = k
    /\ \A i \in 1..Len(trail) : trail[i].id = i /\ (trail[i].success => i = Len(trail))
    /\ k > 0 => trail # <<>> /\ trail[Len(trail)] = [id |-> k, success |-> TRUE]

SuccessFields(a, trail) ==
    [pc |-> "learn", status |-> "success", reason |-> "", resultNode |-> a.target, trail |-> trail]

LEMMA SucceedsStep ==
    ASSUME ActsInv, NEW c \in Clients, NEW trail, TrailOfSuccess(trail, act[c].attempt),
           act[c].pc = "judge", act[c].stage = "verified",
           Acts!Set(c, SuccessFields(act[c], trail))
    PROVE  LocalStep(c)
<1>. DEFINE a == act[c]
            fields == SuccessFields(a, trail)
            b == Acts!With(a, fields)
<1>1. LocalInv(a)
    BY DEF ActsInv
<1>2. DOMAIN fields = {"pc", "status", "reason", "resultNode", "trail"} /\ fields.pc = "learn" /\ fields.status = "success" /\ fields.resultNode = a.target /\ fields.trail = trail
    BY DEF SuccessFields
<1>3. Acts!Set(c, fields)
    OBVIOUS
<1>. HIDE DEF fields
<1>4. b.pc = fields.pc /\ b.status = fields.status /\ b.resultNode = fields.resultNode /\ b.trail = fields.trail
  <2>. HIDE DEF a
  <2>1. DOMAIN fields \subseteq Fields
      BY <1>2 DEF Fields
  <2>2. \A f \in DOMAIN fields : b[f] = fields[f]
      BY <1>1, <2>1, TakenFields
  <2>. QED
      BY <1>2, <2>2
<1>5. Moves(a, b, {"pc", "status", "reason", "resultNode", "trail"})
  <2>1. Moves(a, b, DOMAIN fields)
      BY <1>1, TakenMoves
  <2>. QED
      BY <1>2, <2>1
<1>. HIDE DEF b
<1>7. Succeeds(a, b)
  <2>1. b.pc = "learn" /\ b.status = "success" /\ b.resultNode = a.target /\ b.trail = trail
      BY <1>2, <1>4
  <2>2. a.pc = "judge" /\ a.stage = "verified" /\ a.attempt = act[c].attempt
      OBVIOUS
  <2>. HIDE DEF a
  <2>. QED
      BY <1>5, <2>1, <2>2 DEF Succeeds, TrailOfSuccess
<1>8. LocalInv(b)
    BY <1>1, <1>7, SucceedsKeeps
<1>9. /\ "calls" \notin DOMAIN fields \/ act[c].pc = "execute"
      /\ b.pc = "learn"
    BY <1>2, <1>4
<1>. QED
    BY <1>3, <1>8, <1>9, StepBySet DEF b

LEMMA GivesUpStep ==
    ASSUME ActsInv, NEW c \in Clients, NEW trail \in Seq(Tried), Len(trail) = act[c].attempt,
           act[c].pc = "judge", act[c].stage # "verified", act[c].attempt = 3,
           \A i \in 1..Len(trail) : trail[i].id = i /\ ~trail[i].success,
           Acts!Set(c, [pc |-> "record", reason |-> "exhausted", resultNode |-> act[c].primary, trail |-> trail])
    PROVE  LocalStep(c)
<1>. DEFINE a == act[c]
            fields == [pc |-> "record", reason |-> "exhausted", resultNode |-> act[c].primary, trail |-> trail]
            b == Acts!With(a, fields)
<1>1. LocalInv(a)
    BY DEF ActsInv
<1>2. DOMAIN fields = {"pc", "reason", "resultNode", "trail"} /\ fields.pc = "record" /\ fields.reason = "exhausted" /\ fields.resultNode = a.primary /\ fields.trail = trail
    OBVIOUS
<1>3. Acts!Set(c, fields)
    OBVIOUS
<1>. HIDE DEF fields
<1>4. b.pc = fields.pc /\ b.reason = fields.reason /\ b.resultNode = fields.resultNode /\ b.trail = fields.trail
  <2>. HIDE DEF a
  <2>1. DOMAIN fields \subseteq Fields
      BY <1>2 DEF Fields
  <2>. QED
      BY <1>1, <1>2, <2>1, TakenFields
<1>5. Moves(a, b, {"pc", "reason", "resultNode", "trail"})
    BY <1>1, <1>2, TakenMoves
<1>. HIDE DEF b
<1>7. GivesUp(a, b)
    BY <1>2, <1>4, <1>5 DEF GivesUp
<1>8. LocalInv(b)
    BY <1>1, <1>7, GivesUpKeeps
<1>9. /\ "calls" \notin DOMAIN fields \/ act[c].pc = "execute"
      /\ "status" \notin DOMAIN fields
    BY <1>2
<1>. QED
    BY <1>3, <1>8, <1>9, StepBySet DEF b

-----------------------------------------------------------------------------
\* The steps of a reveal, within the budget of its attempt.

LEMMA RevealBudget ==
    ASSUME NEW k \in Nat, NEW n \in 1..3, NEW t \in 0..2, NEW r \in Nat, r <= 9 * k + 3 * (3 - n) + t
    PROVE  /\ r <= 9 * k + 3 * (3 - (n - 1)) + 0 /\ r + 1 <= 9 * k + 3 * (3 - (n - 1)) + 0
           /\ r + 1 <= 9 * k + 3 * (3 - n) + (t + 1) /\ r + 1 <= 9 * k + 9
           /\ r + 1 \in Nat /\ n - 1 \in 0..2
    OBVIOUS

LEMMA RevealingFacts ==
    ASSUME ActsInv, NEW c \in Clients, act[c].pc = "reveal", act[c].steps # <<>>
    PROVE  /\ act[c].attempt \in Nat /\ Len(act[c].steps) \in 1..3 /\ act[c].tries \in 0..2 /\ act[c].revealCalls \in Nat
           /\ act[c].revealCalls <= 9 * act[c].attempt + 3 * (3 - Len(act[c].steps)) + act[c].tries
           /\ Tail(act[c].steps) \in Seq(StepNames) /\ Len(Tail(act[c].steps)) = Len(act[c].steps) - 1
<1>1. LocalInv(act[c])
    BY DEF ActsInv
<1>2. /\ act[c].attempt \in 0..3 /\ act[c].tries \in 0..2 /\ act[c].revealCalls \in Nat
      /\ act[c].steps \in Seq(StepNames) /\ Len(act[c].steps) <= 3
    BY <1>1 DEF LocalInv, LocalType, Acts!MaxSteps, Acts!RetriesPerStep
<1>3. Tail(act[c].steps) \in Seq(StepNames) /\ Len(Tail(act[c].steps)) = Len(act[c].steps) - 1
    BY <1>2, HeadTailProperties
<1>4. Len(act[c].steps) \in Nat /\ Len(act[c].steps) # 0
    BY <1>2, EmptySeq
<1>5. \A n \in Nat : n # 0 /\ n <= 3 => n \in 1..3
    OBVIOUS
<1>6. Len(act[c].steps) \in 1..3
    BY <1>2, <1>4, <1>5, Zenon
<1>7. act[c].revealCalls <= 9 * act[c].attempt + 3 * (3 - Len(act[c].steps)) + act[c].tries
    BY <1>1 DEF LocalInv, Spent
<1>8. \A n \in 0..3 : n \in Nat
    OBVIOUS
<1>. QED
    BY <1>2, <1>3, <1>6, <1>7, <1>8, Zenon

RevealFields(steps, tries, spent) == [steps |-> steps, tries |-> tries, revealCalls |-> spent]

LEMMA RevealsStep ==
    ASSUME ActsInv, NEW c \in Clients, act[c].pc = "reveal",
           NEW steps \in Seq(StepNames), Len(steps) <= 3, NEW tries \in 0..2, Len(steps) = 0 => tries = 0,
           NEW spent \in Nat, spent <= 9 * act[c].attempt + 3 * (3 - Len(steps)) + tries,
           NEW fields, DOMAIN fields \subseteq {"steps", "tries", "revealCalls"},
           Acts!With(act[c], fields).steps = steps, Acts!With(act[c], fields).tries = tries,
           Acts!With(act[c], fields).revealCalls = spent,
           Acts!Set(c, fields)
    PROVE  LocalStep(c)
<1>. DEFINE a == act[c]
            b == Acts!With(a, fields)
<1>1. LocalInv(a)
    BY DEF ActsInv
<1>2. Moves(a, b, {"steps", "tries", "revealCalls"})
  <2>1. Moves(a, b, DOMAIN fields)
      BY <1>1, TakenMoves
  <2>. QED
      BY <2>1 DEF Moves
<1>3. b.pc = a.pc
    BY <1>1, Untaken DEF Fields
<1>4. b.steps = steps /\ b.tries = tries /\ b.revealCalls = spent
    OBVIOUS
<1>. HIDE DEF b
<1>5. Reveals(a, b)
    BY <1>2, <1>3, <1>4 DEF Reveals
<1>6. LocalInv(b)
    BY <1>1, <1>5, RevealsKeeps
<1>7. "calls" \notin DOMAIN fields /\ "status" \notin DOMAIN fields
    OBVIOUS
<1>. QED
    BY <1>6, <1>7, StepBySet DEF b

LEMMA StepDoneStep ==
    ASSUME ActsInv, NEW c \in Clients, act[c].pc = "reveal", act[c].steps # <<>>,
           NEW spent \in {act[c].revealCalls, act[c].revealCalls + 1},
           Acts!Set(c, Acts!StepDone(c, spent))
    PROVE  LocalStep(c)
<1>. DEFINE a == act[c]
            fields == Acts!StepDone(c, spent)
            b == Acts!With(a, fields)
<1>1. LocalInv(a)
    BY DEF ActsInv
<1>2. /\ DOMAIN fields = {"steps", "tries", "revealCalls"} /\ fields.steps = Tail(a.steps)
      /\ fields.tries = 0 /\ fields.revealCalls = spent
    BY DEF Acts!StepDone
<1>. HIDE DEF fields
<1>3. b.steps = Tail(a.steps) /\ b.tries = 0 /\ b.revealCalls = spent
  <2>1. DOMAIN fields \subseteq Fields
      BY <1>2 DEF Fields
  <2>2. \A f \in DOMAIN fields : b[f] = fields[f]
      BY <1>1, <2>1, TakenFields
  <2>. QED
      BY <1>2, <2>2
<1>4. Tail(a.steps) \in Seq(StepNames) /\ Len(Tail(a.steps)) = Len(a.steps) - 1
    BY RevealingFacts
<1>5. spent \in Nat /\ spent <= 9 * a.attempt + 3 * (3 - (Len(a.steps) - 1)) + 0 /\ Len(a.steps) - 1 \in 0..2
  <2>1. /\ a.attempt \in Nat /\ Len(a.steps) \in 1..3 /\ a.tries \in 0..2 /\ a.revealCalls \in Nat
        /\ a.revealCalls <= 9 * a.attempt + 3 * (3 - Len(a.steps)) + a.tries
      BY RevealingFacts
  <2>2. /\ a.revealCalls <= 9 * a.attempt + 3 * (3 - (Len(a.steps) - 1)) + 0
        /\ a.revealCalls + 1 <= 9 * a.attempt + 3 * (3 - (Len(a.steps) - 1)) + 0
        /\ a.revealCalls + 1 \in Nat /\ Len(a.steps) - 1 \in 0..2
      BY <2>1, RevealBudget, Zenon
  <2>. QED
      BY <2>1, <2>2, Zenon
<1>6. \A n \in 0..2 : n <= 3
    OBVIOUS
<1>7. 0 \in 0..2 /\ Len(Tail(a.steps)) <= 3
  <2>1. Len(Tail(a.steps)) <= 3
      BY <1>4, <1>5, <1>6, Zenon
  <2>. QED
      BY <2>1
<1>8. Acts!Set(c, fields) /\ DOMAIN fields \subseteq {"steps", "tries", "revealCalls"}
    BY <1>2 DEF fields
<1>. QED
    BY <1>3, <1>4, <1>5, <1>7, <1>8, RevealsStep

LEMMA TryAgainStep ==
    ASSUME ActsInv, NEW c \in Clients, act[c].pc = "reveal", act[c].steps # <<>>, act[c].tries < 2,
           Acts!Set(c, [tries |-> act[c].tries + 1, revealCalls |-> act[c].revealCalls + 1])
    PROVE  LocalStep(c)
<1>. DEFINE a == act[c]
            fields == [tries |-> act[c].tries + 1, revealCalls |-> act[c].revealCalls + 1]
            b == Acts!With(a, fields)
<1>1. LocalInv(a)
    BY DEF ActsInv
<1>2. DOMAIN fields = {"tries", "revealCalls"} /\ fields.tries = a.tries + 1 /\ fields.revealCalls = a.revealCalls + 1
    OBVIOUS
<1>3. Acts!Set(c, fields)
    OBVIOUS
<1>. HIDE DEF fields
<1>4. b.steps = a.steps /\ b.tries = a.tries + 1 /\ b.revealCalls = a.revealCalls + 1
  <2>1. DOMAIN fields \subseteq Fields
      BY <1>2 DEF Fields
  <2>2. \A f \in DOMAIN fields : b[f] = fields[f]
      BY <1>1, <2>1, TakenFields
  <2>3. b.steps = a.steps
      BY <1>1, <1>2, Untaken DEF Fields
  <2>. QED
      BY <1>2, <2>2, <2>3
<1>5. a.steps \in Seq(StepNames) /\ Len(a.steps) <= 3
    BY <1>1 DEF LocalInv, LocalType, Acts!MaxSteps
<1>6. /\ a.attempt \in Nat /\ Len(a.steps) \in 1..3 /\ a.tries \in 0..2 /\ a.revealCalls \in Nat
      /\ a.revealCalls <= 9 * a.attempt + 3 * (3 - Len(a.steps)) + a.tries
    BY RevealingFacts
<1>7. /\ a.revealCalls + 1 <= 9 * a.attempt + 3 * (3 - Len(a.steps)) + (a.tries + 1)
      /\ a.revealCalls + 1 \in Nat
    BY <1>6, RevealBudget, Zenon
<1>8. a.tries + 1 \in 0..2 /\ Len(a.steps) # 0
  <2>1. a.tries \in 0..2 /\ a.tries < 2 /\ Len(a.steps) \in 1..3
      BY <1>6
  <2>. HIDE DEF a
  <2>. QED
      BY <2>1
<1>9. DOMAIN fields \subseteq {"steps", "tries", "revealCalls"}
    BY <1>2
<1>. HIDE DEF b
<1>. QED
    BY <1>3, <1>4, <1>5, <1>7, <1>8, <1>9, RevealsStep DEF b

LEMMA RevealFailsStep ==
    ASSUME ActsInv, NEW c \in Clients, act[c].pc = "reveal", act[c].steps # <<>>,
           Acts!Set(c, [pc |-> "judge", stage |-> "reveal", revealCalls |-> act[c].revealCalls + 1])
    PROVE  LocalStep(c)
<1>. DEFINE a == act[c]
            fields == [pc |-> "judge", stage |-> "reveal", revealCalls |-> act[c].revealCalls + 1]
            b == Acts!With(a, fields)
<1>1. LocalInv(a)
    BY DEF ActsInv
<1>2. /\ DOMAIN fields = {"pc", "stage", "revealCalls"} /\ fields.pc = "judge" /\ fields.stage = "reveal"
      /\ fields.revealCalls = a.revealCalls + 1
    OBVIOUS
<1>3. Acts!Set(c, fields)
    OBVIOUS
<1>. HIDE DEF fields
<1>4. b.pc = "judge" /\ b.stage = "reveal" /\ b.revealCalls = a.revealCalls + 1
  <2>. HIDE DEF a
  <2>1. DOMAIN fields \subseteq Fields
      BY <1>2 DEF Fields
  <2>2. \A f \in DOMAIN fields : b[f] = fields[f]
      BY <1>1, <2>1, TakenFields
  <2>. QED
      BY <1>2, <2>2
<1>5. Moves(a, b, {"pc", "stage", "revealCalls"})
  <2>1. Moves(a, b, DOMAIN fields)
      BY <1>1, TakenMoves
  <2>. QED
      BY <1>2, <2>1
<1>6. /\ a.attempt \in Nat /\ Len(a.steps) \in 1..3 /\ a.tries \in 0..2 /\ a.revealCalls \in Nat
      /\ a.revealCalls <= 9 * a.attempt + 3 * (3 - Len(a.steps)) + a.tries
    BY RevealingFacts
<1>7. a.revealCalls + 1 <= 9 * a.attempt + 9 /\ a.revealCalls + 1 \in Nat
    BY <1>6, RevealBudget, Zenon
<1>. HIDE DEF b
<1>8. Ends(a, b)
    BY <1>4, <1>5, <1>7 DEF Ends
<1>9. LocalInv(b)
    BY <1>1, <1>8, EndsKeeps
<1>10. "calls" \notin DOMAIN fields /\ "status" \notin DOMAIN fields
    BY <1>2
<1>. QED
    BY <1>3, <1>9, <1>10, StepBySet DEF b

LEMMA ContractStep ==
    ASSUME ActsInv, NEW c \in Clients, Acts!Contract(c)
    PROVE  LocalStep(c)
<1>1. CASE Acts!ResolveNode(c)
  <2>1. act[c].pc = "contract"
      BY <1>1 DEF Acts!ResolveNode, Acts!At
  <2>2. CASE Acts!Set(c, Acts!EndContract("resolve"))
      BY <2>1, <2>2, ContractEndStep
  <2>3. ASSUME NEW shape \in Shapes, Acts!Set(c, [pc |-> "execute", revealed |-> TRUE])
        PROVE  LocalStep(c)
      BY <2>1, <2>3, OpensStep
  <2>4. ASSUME NEW shape \in Shapes,
               Acts!Set(c, [pc |-> "reveal", steps |-> Acts!RevealSteps(act[c].target, shape), tries |-> 0])
        PROVE  LocalStep(c)
      BY <2>1, <2>4, RevealStepsFacts, HidesStep
  <2>. QED
      BY <1>1, <2>2, <2>3, <2>4 DEF Acts!ResolveNode
<1>2. CASE Acts!ProbeVisibility(c)
  <2>1. act[c].pc = "reveal" /\ act[c].steps # <<>>
      BY <1>2 DEF Acts!ProbeVisibility, Acts!At
  <2>2. CASE Acts!Set(c, Acts!StepDone(c, act[c].revealCalls))
      BY <2>1, <2>2, StepDoneStep
  <2>3. CASE Acts!Set(c, Acts!EndContract("reveal"))
      BY <2>1, <2>3, ContractEndStep
  <2>. QED
      BY <1>2, <2>2, <2>3 DEF Acts!ProbeVisibility
<1>3. CASE Acts!RevealStep(c)
  <2>1. act[c].pc = "reveal" /\ act[c].steps # <<>>
      BY <1>3 DEF Acts!RevealStep, Acts!At
  <2>2. CASE Acts!Set(c, Acts!StepDone(c, act[c].revealCalls + 1))
      BY <2>1, <2>2, StepDoneStep
  <2>3. CASE act[c].tries < 2 /\ Acts!Set(c, [tries |-> act[c].tries + 1, revealCalls |-> act[c].revealCalls + 1])
      BY <2>1, <2>3, TryAgainStep
  <2>4. CASE Acts!Set(c, [pc |-> "judge", stage |-> "reveal", revealCalls |-> act[c].revealCalls + 1])
      BY <2>1, <2>4, RevealFailsStep
  <2>. QED
      BY <1>3, <2>2, <2>3, <2>4 DEF Acts!RevealStep, Acts!RetriesPerStep
<1>4. CASE Acts!VerifyReveal(c)
  <2>1. act[c].pc = "reveal" /\ act[c].steps = <<>>
      BY <1>4 DEF Acts!VerifyReveal, Acts!At
  <2>2. PICK seen \in BOOLEAN : Acts!Set(c, [pc |-> "execute", revealed |-> seen])
      BY <1>4 DEF Acts!VerifyReveal
  <2>. QED
      BY <2>1, <2>2, OpensStep
<1>5. CASE Acts!Execute(c)
  <2>1. act[c].pc = "execute"
      BY <1>5 DEF Acts!Execute, Acts!At
  <2>2. PICK outcome \in {"verified", "unverified", "failed"}, n \in Acts!Addressed(Acts!Carried(act[c])) :
            Acts!Set(c, [pc |-> "verify", last |-> outcome, calls |-> act[c].calls + 1,
                         actedOn |-> IF outcome = "failed" THEN Acts!NoNode ELSE n])
      BY <1>5 DEF Acts!Execute
  <2>. QED
      BY <2>1, <2>2, ExecutesStep
<1>6. CASE Acts!Verify(c)
  <2>1. act[c].pc = "verify"
      BY <1>6 DEF Acts!Verify, Acts!At
  <2>2. PICK filesAgree \in BOOLEAN :
            Acts!Set(c, [pc |-> "judge", stage |-> IF Acts!VerifyOutcome(c, filesAgree) THEN "verified" ELSE "verify",
                         last |-> IF filesAgree /\ act[c].last = "unverified" THEN "verified" ELSE act[c].last])
      BY <1>6 DEF Acts!Verify
  <2>. DEFINE stage == IF Acts!VerifyOutcome(c, filesAgree) THEN "verified" ELSE "verify"
              last == IF filesAgree /\ act[c].last = "unverified" THEN "verified" ELSE act[c].last
  <2>3. act[c].last \in {"none", "verified", "unverified", "failed"}
      BY DEF ActsInv, LocalInv, LocalType
  <2>4. last \in {"none", "verified", "unverified", "failed"} /\ (stage = "verified" <=> last = "verified")
        /\ (last = "verified" => act[c].last # "failed")
      BY <2>3 DEF Acts!VerifyOutcome
  <2>5. Acts!Set(c, [pc |-> "judge", stage |-> stage, last |-> last])
      BY <2>2
  <2>. HIDE DEF stage, last
  <2>. QED
      BY <2>1, <2>4, <2>5, VerifiesStep
<1>. QED
    BY <1>1, <1>2, <1>3, <1>4, <1>5, <1>6 DEF Acts!Contract

-----------------------------------------------------------------------------
\* The trail, and the steps of recovery.

\* The trail of k attempts of recovery that all failed.
TrailOfFailures(trail, k) ==
    /\ trail \in Seq(Tried) /\ Len(trail) = k
    /\ \A i \in 1..Len(trail) : trail[i].id = i /\ ~trail[i].success

LEMMA LongerTrail ==
    ASSUME NEW k \in Nat, NEW trail, TrailOfFailures(trail, k), NEW success \in BOOLEAN,
           NEW longer, longer = Append(trail, [id |-> k + 1, success |-> success])
    PROVE  /\ success => TrailOfSuccess(longer, k + 1)
           /\ ~success => TrailOfFailures(longer, k + 1)
<1>. DEFINE one == [id |-> k + 1, success |-> success]
<1>1. one \in Tried /\ one.id = k + 1 /\ one.success = success
    BY DEF Tried
<1>2. trail \in Seq(Tried) /\ Len(trail) = k /\ \A i \in 1..k : trail[i].id = i /\ ~trail[i].success
    BY DEF TrailOfFailures
<1>3. longer = Append(trail, one)
    OBVIOUS
<1>. HIDE DEF one
<1>4. /\ longer \in Seq(Tried) /\ Len(longer) = Len(trail) + 1
      /\ \A i \in 1..Len(trail) : longer[i] = trail[i]
      /\ longer[Len(trail) + 1] = one
    BY <1>1, <1>2, <1>3, AppendProperties
<1>5. Len(longer) = k + 1 /\ longer[k + 1] = one /\ \A i \in 1..k : longer[i] = trail[i]
    BY <1>2, <1>4
<1>6. \A i \in 1..k + 1 : i \in 1..k \/ i = k + 1
    OBVIOUS
<1>7. \A i \in 1..k + 1 : longer[i].id = i /\ (longer[i].success => i = k + 1 /\ success)
  <2>. TAKE i \in 1..k + 1
  <2>1. CASE i \in 1..k
      BY <1>2, <1>5, <2>1, Zenon
  <2>2. CASE i = k + 1
      BY <1>1, <1>5, <2>2, Zenon
  <2>. QED
      BY <1>6, <2>1, <2>2
<1>8. k + 1 > 0 /\ longer # <<>>
    BY <1>5
<1>9. success => one = [id |-> k + 1, success |-> TRUE]
    BY DEF one
<1>10. success => TrailOfSuccess(longer, k + 1)
    BY <1>4, <1>5, <1>7, <1>8, <1>9 DEF TrailOfSuccess
<1>11. ~success => TrailOfFailures(longer, k + 1)
    BY <1>4, <1>5, <1>7 DEF TrailOfFailures
<1>. QED
    BY <1>10, <1>11

\* What is on the trail of a client whose attempt is judged.
LEMMA JudgedTrail ==
    ASSUME ActsInv, NEW c \in Clients, act[c].pc = "judge"
    PROVE  /\ act[c].attempt \in 0..3
           /\ act[c].stage = "verified" => TrailOfSuccess(Acts!Trail(c), act[c].attempt)
           /\ act[c].stage # "verified" => TrailOfFailures(Acts!Trail(c), act[c].attempt)
<1>. DEFINE a == act[c]
<1>1. LocalInv(a)
    BY DEF ActsInv
<1>2. a.attempt \in 0..3 /\ a.trail \in Seq(Tried) /\ a.status = "failure"
    BY <1>1 DEF LocalInv, LocalType, Verified
<1>3. Len(a.trail) = (IF a.attempt = 0 THEN 0 ELSE a.attempt - 1)
    BY <1>1 DEF LocalInv, Trailed
<1>4. \A i \in 1..Len(a.trail) : a.trail[i].id = i /\ ~a.trail[i].success
    BY <1>1, <1>2 DEF LocalInv, Trailed
<1>5. CASE a.attempt = 0
  <2>1. Acts!Trail(c) = <<>>
      BY <1>5 DEF Acts!Trail
  <2>2. TrailOfSuccess(<<>>, 0) /\ TrailOfFailures(<<>>, 0)
      BY DEF TrailOfSuccess, TrailOfFailures
  <2>. QED
      BY <1>2, <1>5, <2>1, <2>2
<1>6. CASE a.attempt # 0
  <2>. DEFINE k == a.attempt - 1
  <2>1. k \in Nat /\ k + 1 = a.attempt /\ Len(a.trail) = k
    <3>1. \A n \in 0..3 : n # 0 => n - 1 \in Nat /\ (n - 1) + 1 = n
        OBVIOUS
    <3>. QED
        BY <1>2, <1>3, <1>6, <3>1, Zenon
  <2>2. TrailOfFailures(a.trail, k)
      BY <1>2, <1>4, <2>1 DEF TrailOfFailures
  <2>3. Acts!Trail(c) = Append(a.trail, [id |-> k + 1, success |-> a.stage = "verified"])
      BY <1>6, <2>1 DEF Acts!Trail, Acts!Satisfied
  <2>. HIDE DEF k
  <2>4. (a.stage = "verified") \in BOOLEAN
      OBVIOUS
  <2>5. /\ a.stage = "verified" => TrailOfSuccess(Acts!Trail(c), k + 1)
        /\ a.stage # "verified" => TrailOfFailures(Acts!Trail(c), k + 1)
      BY <2>1, <2>2, <2>3, <2>4, LongerTrail
  <2>. QED
      BY <1>2, <2>1, <2>5
<1>. QED
    BY <1>5, <1>6

LEMMA RecoveryStep ==
    ASSUME ActsInv, NEW c \in Clients, Acts!Recovery(c)
    PROVE  LocalStep(c)
<1>1. act[c].pc = "judge" /\ act[c].primary \in Nodes
  <2>1. act[c].pc = "judge"
      BY DEF Acts!Recovery, Acts!ActSucceeds, Acts!Retry, Acts!TryAlternate, Acts!FallbackReveal, Acts!GiveUp, Acts!At
  <2>. QED
      BY <2>1 DEF ActsInv, LocalInv, Located
<1>2. CASE Acts!ActSucceeds(c)
  <2>1. act[c].stage = "verified" /\ Acts!Set(c, SuccessFields(act[c], Acts!Trail(c)))
      BY <1>2 DEF Acts!ActSucceeds, Acts!Satisfied, SuccessFields
  <2>. QED
      BY <1>1, <2>1, JudgedTrail, SucceedsStep
<1>3. CASE Acts!Retry(c)
  <2>1. act[c].stage # "verified" /\ act[c].attempt = 0 /\ Acts!Attempt(c, 1, act[c].primary, <<>>)
      BY <1>3 DEF Acts!Retry, Acts!Satisfied
  <2>2. /\ <<>> \in Seq(Tried) /\ Len(<<>>) = IF 1 = 0 THEN 0 ELSE 1 - 1
        /\ \A i \in 1..Len(<<>>) : <<>>[i].id = i /\ ~<<>>[i].success
      OBVIOUS
  <2>3. 1 \in 0..3 /\ 1 # 2 /\ 1 > act[c].attempt
      BY <2>1
  <2>4. act[c].pc \in {"policy", "judge"} /\ act[c].pc # "policy"
      BY <1>1
  <2>. QED
      BY <1>1, <2>1, <2>2, <2>3, <2>4, AttemptStep, Zenon
<1>4. CASE Acts!TryAlternate(c)
  <2>1. act[c].stage # "verified" /\ act[c].attempt = 1
      BY <1>4 DEF Acts!TryAlternate, Acts!Satisfied
  <2>2. TrailOfFailures(Acts!Trail(c), 1)
      BY <1>1, <2>1, JudgedTrail
  <2>3. act[c].pc \in {"policy", "judge"} /\ act[c].pc # "policy"
      BY <1>1
  <2>4. ASSUME NEW n \in Acts!Alternates(c), Acts!Attempt(c, 2, n, Acts!Trail(c))
        PROVE  LocalStep(c)
    <3>1. n \in Nodes /\ n # act[c].primary
        BY DEF Acts!Alternates
    <3>2. 2 \in 0..3 /\ 2 > act[c].attempt /\ (IF 2 = 0 THEN 0 ELSE 2 - 1) = 1
        BY <2>1
    <3>3. /\ Acts!Trail(c) \in Seq(Tried) /\ Len(Acts!Trail(c)) = IF 2 = 0 THEN 0 ELSE 2 - 1
          /\ \A i \in 1..Len(Acts!Trail(c)) : Acts!Trail(c)[i].id = i /\ ~Acts!Trail(c)[i].success
        BY <2>2, <3>2, Zenon DEF TrailOfFailures
    <3>. QED
        BY <1>1, <2>1, <2>3, <2>4, <3>1, <3>2, <3>3, AttemptStep, Zenon
  <2>5. ASSUME Acts!Attempt(c, 3, act[c].primary, Acts!AlternateSkipped(c))
        PROVE  LocalStep(c)
    <3>1. Acts!AlternateSkipped(c) = Append(Acts!Trail(c), [id |-> 1 + 1, success |-> FALSE])
        BY DEF Acts!AlternateSkipped
    <3>2. TrailOfFailures(Acts!AlternateSkipped(c), 1 + 1)
        BY <2>2, <3>1, LongerTrail
    <3>3. 3 \in 0..3 /\ 3 > act[c].attempt /\ (IF 3 = 0 THEN 0 ELSE 3 - 1) = 1 + 1 /\ 3 # 2
        BY <2>1
    <3>4. /\ Acts!AlternateSkipped(c) \in Seq(Tried) /\ Len(Acts!AlternateSkipped(c)) = IF 3 = 0 THEN 0 ELSE 3 - 1
          /\ \A i \in 1..Len(Acts!AlternateSkipped(c)) :
                Acts!AlternateSkipped(c)[i].id = i /\ ~Acts!AlternateSkipped(c)[i].success
        BY <3>2, <3>3, Zenon DEF TrailOfFailures
    <3>. QED
        BY <1>1, <2>1, <2>3, <2>5, <3>3, <3>4, AttemptStep, Zenon
  <2>. QED
      BY <1>4, <2>4, <2>5 DEF Acts!TryAlternate
<1>5. CASE Acts!FallbackReveal(c)
  <2>1. act[c].stage # "verified" /\ act[c].attempt = 2 /\ Acts!Attempt(c, 3, act[c].primary, Acts!Trail(c))
      BY <1>5 DEF Acts!FallbackReveal, Acts!Satisfied
  <2>2. TrailOfFailures(Acts!Trail(c), 2)
      BY <1>1, <2>1, JudgedTrail
  <2>3. 3 \in 0..3 /\ 3 > act[c].attempt /\ (IF 3 = 0 THEN 0 ELSE 3 - 1) = 2 /\ 3 # 2
      BY <2>1
  <2>4. /\ Acts!Trail(c) \in Seq(Tried) /\ Len(Acts!Trail(c)) = IF 3 = 0 THEN 0 ELSE 3 - 1
        /\ \A i \in 1..Len(Acts!Trail(c)) : Acts!Trail(c)[i].id = i /\ ~Acts!Trail(c)[i].success
      BY <2>2, <2>3, Zenon DEF TrailOfFailures
  <2>5. act[c].pc \in {"policy", "judge"} /\ act[c].pc # "policy"
      BY <1>1
  <2>. QED
      BY <1>1, <2>1, <2>3, <2>4, <2>5, AttemptStep, Zenon
<1>6. CASE Acts!GiveUp(c)
  <2>1. /\ act[c].stage # "verified" /\ act[c].attempt = 3
        /\ Acts!Set(c, [pc |-> "record", reason |-> "exhausted", resultNode |-> act[c].primary, trail |-> Acts!Trail(c)])
      BY <1>6 DEF Acts!GiveUp, Acts!Satisfied
  <2>2. TrailOfFailures(Acts!Trail(c), act[c].attempt)
      BY <1>1, <2>1, JudgedTrail
  <2>. QED
      BY <1>1, <2>1, <2>2, GivesUpStep DEF TrailOfFailures
<1>. QED
    BY <1>2, <1>3, <1>4, <1>5, <1>6 DEF Acts!Recovery

-----------------------------------------------------------------------------
\* Every step of Act.

LEMMA MemoryStep ==
    ASSUME ActsInv, NEW c \in Clients, Acts!Learn(c) \/ Acts!Record(c)
    PROVE  /\ LocalStep(c)
           /\ \A d \in Clients \ {c} : act'[d] = act[d]
           /\ act'[c].status = act[c].status /\ act'[c].resultNode = act[c].resultNode
           /\ Acts!Learn(c) => act[c].pc = "learn" /\ act'[c].pc = "record"
           /\ Acts!Record(c) => act[c].pc = "record" /\ act'[c].pc = "done"
<1>. DEFINE place == IF act[c].pc = "learn" THEN "record" ELSE "done"
            fields == [pc |-> place]
            b == Acts!With(act[c], fields)
<1>1. /\ Acts!Set(c, fields)
      /\ (act[c].pc = "learn" /\ place = "record") \/ (act[c].pc = "record" /\ place = "done")
      /\ (Acts!Learn(c) => act[c].pc = "learn") /\ (Acts!Record(c) => act[c].pc = "record")
    BY DEF Acts!Learn, Acts!Record, Acts!At
<1>2. LocalStep(c)
  <2>. HIDE DEF place
  <2>. QED
      BY <1>1, RemembersStep
<1>3. LocalInv(act[c])
    BY DEF ActsInv
<1>4. DOMAIN fields = {"pc"} /\ fields.pc = place
    OBVIOUS
<1>5. act' = [act EXCEPT ![c] = b]
    BY <1>1 DEF Acts!Set
<1>. HIDE DEF fields
<1>6. b.pc = place /\ b.status = act[c].status /\ b.resultNode = act[c].resultNode
  <2>1. b.pc = fields.pc
      BY <1>3, <1>4, TakenFields DEF Fields
  <2>2. b.status = act[c].status /\ b.resultNode = act[c].resultNode
      BY <1>3, <1>4, Untaken DEF Fields
  <2>. QED
      BY <1>4, <2>1, <2>2
<1>. HIDE DEF b
<1>7. act'[c] = b /\ \A d \in Clients \ {c} : act'[d] = act[d]
    BY <1>5 DEF ActsInv
<1>. QED
    BY <1>1, <1>2, <1>6, <1>7

LEMMA ActStep ==
    ASSUME ActsInv, NEW c \in Clients, Acts!Begin(c) \/ Acts!Continue(c)
    PROVE  LocalStep(c)
<1>1. CASE Acts!Return(c)
  <2>1. act' = [act EXCEPT ![c] = Acts!Idle]
      BY <1>1 DEF Acts!Return
  <2>. QED
      BY <2>1, IdleInv DEF LocalStep
<1>. QED
    BY <1>1, BeginStep, ResolveStep, LookupStep, PolicyStep, ContractStep, RecoveryStep, MemoryStep
       DEF Acts!Continue

\* What a step of one client is to all of them.
LEMMA LocalStepFacts ==
    ASSUME ActsInv, NEW c \in Clients, LocalStep(c)
    PROVE  /\ ActsInv' /\ LocalInv(act'[c]) /\ \A d \in Clients \ {c} : act'[d] = act[d]
           /\ act'[c] = Acts!Idle \/ act'[c].calls = act[c].calls \/ act[c].pc = "execute"
           /\ act'[c] = Acts!Idle \/ act'[c].status = act[c].status \/ act'[c].pc = "learn"
<1>1. PICK b : /\ act' = [act EXCEPT ![c] = b] /\ LocalInv(b)
               /\ b = Acts!Idle \/ b.calls = act[c].calls \/ act[c].pc = "execute"
               /\ b = Acts!Idle \/ b.status = act[c].status \/ b.pc = "learn"
    BY DEF LocalStep
<1>2. act'[c] = b /\ \A d \in Clients \ {c} : act'[d] = act[d]
    BY <1>1 DEF ActsInv
<1>3. act' = [d \in Clients |-> act'[d]]
    BY <1>1 DEF ActsInv
<1>4. \A d \in Clients : LocalInv(act'[d])
    BY <1>1, <1>2 DEF ActsInv
<1>5. ActsInv'
    BY <1>3, <1>4 DEF ActsInv, LocalInv, LocalType, Located, Spent, Trailed, Verified, InContract
<1>. QED
    BY <1>1, <1>2, <1>4, <1>5

LEMMA ActsStart == Acts!Init => ActsInv
    BY IdleInv DEF Acts!Init, ActsInv

LEMMA ActsStep == ActsInv /\ [Acts!Next]_actVars => ActsInv'
<1>. SUFFICES ASSUME ActsInv, [Acts!Next]_actVars PROVE ActsInv'
    OBVIOUS
<1>1. CASE Acts!Next
    BY <1>1, ActStep, LocalStepFacts DEF Acts!Next
<1>2. CASE UNCHANGED actVars
    BY <1>2 DEF actVars, ActsInv
<1>. QED
    BY <1>1, <1>2

-----------------------------------------------------------------------------
\* What follows for every client.

LEMMA ActsImply ==
    ASSUME ActsInv
    PROVE  Acts!BoundedRecovery /\ Acts!AlternateIsOther /\ Acts!SuccessIsVerified
<1>1. ASSUME NEW c \in Clients
      PROVE  /\ act[c].calls <= 4 /\ act[c].revealCalls <= 4 * Acts!MaxSteps * (Acts!RetriesPerStep + 1)
             /\ \A i \in DOMAIN act[c].trail :
                   act[c].trail[i].id = i /\ (act[c].trail[i].success => i = Len(act[c].trail))
  <2>1. LocalInv(act[c])
      BY DEF ActsInv
  <2>2. act[c].attempt \in 0..3 /\ act[c].calls \in Nat /\ act[c].revealCalls \in Nat
      BY <2>1 DEF LocalInv, LocalType
  <2>3. act[c].calls <= act[c].attempt + 1 /\ act[c].revealCalls <= 9 * act[c].attempt + 9
      BY <2>1 DEF LocalInv, Spent
  <2>4. \A k \in 0..3, n \in Nat, r \in Nat : n <= k + 1 /\ r <= 9 * k + 9 => n <= 4 /\ r <= 4 * 3 * (2 + 1)
      OBVIOUS
  <2>5. act[c].calls <= 4 /\ act[c].revealCalls <= 4 * 3 * (2 + 1)
      BY <2>2, <2>3, <2>4, Zenon
  <2>6. act[c].trail \in Seq(Tried)
      BY <2>1 DEF LocalInv, LocalType
  <2>7. DOMAIN act[c].trail = 1..Len(act[c].trail)
      BY <2>6
  <2>8. \A i \in 1..Len(act[c].trail) : act[c].trail[i].id = i /\ (act[c].trail[i].success => i = Len(act[c].trail))
      BY <2>1 DEF LocalInv, Trailed
  <2>. QED
      BY <2>5, <2>7, <2>8 DEF Acts!MaxSteps, Acts!RetriesPerStep
<1>2. ASSUME NEW c \in Clients
      PROVE  act[c].attempt = 2 => act[c].target # act[c].primary
    BY DEF ActsInv, LocalInv, Located
<1>3. ASSUME NEW c \in Clients
      PROVE  /\ act[c].status = "success" =>
                   /\ act[c].last = "verified" /\ act[c].resultNode = act[c].target
                   /\ act[c].attempt # 2 => Acts!Alike(act[c].actedOn, act[c].resultNode)
                   /\ ~Acts!Alike(act[c].actedOn, act[c].primary) =>
                         LabelOf[act[c].primary] = "" /\ Acts!Alike(act[c].actedOn, act[c].resultNode)
                   /\ act[c].attempt > 0 => act[c].trail[Len(act[c].trail)] = [id |-> act[c].attempt, success |-> TRUE]
             /\ act[c].pc = "done" /\ act[c].status = "failure" => act[c].reason # ""
  <2>1. Verified(act[c]) /\ Aimed(act[c])
      BY DEF ActsInv, LocalInv
  <2>2. ASSUME act[c].status = "success"
        PROVE  /\ act[c].attempt # 2 => Acts!Alike(act[c].actedOn, act[c].resultNode)
               /\ ~Acts!Alike(act[c].actedOn, act[c].primary) =>
                     LabelOf[act[c].primary] = "" /\ Acts!Alike(act[c].actedOn, act[c].resultNode)
    <3>1. act[c].resultNode = act[c].target /\ (act[c].attempt # 2 => act[c].target = act[c].primary)
        BY <2>1, <2>2 DEF Verified, Aimed, InAttempt
    <3>2. act[c].actedOn \in Acts!Addressed(Acts!Carried(act[c]))
        BY <2>1, <2>2 DEF Verified, Aimed
    <3>3. \/ act[c].actedOn = act[c].primary
          \/ LabelOf[act[c].actedOn] = LabelOf[act[c].primary]
          \/ /\ act[c].attempt = 2 /\ LabelOf[act[c].primary] = ""
             /\ LabelOf[act[c].actedOn] = LabelOf[act[c].target]
        BY <3>2 DEF Acts!Addressed, Acts!Carried, Acts!BuildIntentForAction, Acts!BuildIntentFromNode
    <3>. QED
        BY <3>1, <3>3 DEF Acts!Alike
  <2>. QED
      BY <2>1, <2>2 DEF Verified
<1>. QED
    BY <1>1, <1>2, <1>3 DEF Acts!BoundedRecovery, Acts!AlternateIsOther, Acts!SuccessIsVerified

\* Nothing is executed after a verified execution, and what is executed was revealed.
ActsCarefully ==
    \A c \in Clients :
       /\ act[c].last = "verified" /\ act'[c].pc # "idle" => act'[c].calls = act[c].calls
       /\ act'[c].calls > act[c].calls => act[c].revealed \/ act[c].steps = <<>>

LEMMA CarefulStep ==
    ASSUME ActsInv, [Acts!Next]_actVars
    PROVE  ActsCarefully
<1>0. ASSUME NEW c \in Clients PROVE act[c].calls \in Nat
    BY DEF ActsInv, LocalInv, LocalType
<1>1. CASE UNCHANGED actVars
    BY <1>0, <1>1 DEF actVars, ActsCarefully
<1>2. CASE Acts!Next
  <2>1. PICK c \in Clients : LocalStep(c)
      BY <1>2, ActStep DEF Acts!Next
  <2>2. ASSUME NEW d \in Clients \ {c} PROVE act'[d] = act[d]
      BY <2>1, LocalStepFacts
  <2>3. CASE act'[c] = Acts!Idle
    <3>1. Acts!Idle.pc = "idle" /\ Acts!Idle.calls = 0
        BY DEF Acts!Idle
    <3>2. act'[c].pc = "idle" /\ act'[c].calls = 0
        BY <2>3, <3>1
    <3>3. ~(act'[c].calls > act[c].calls)
        BY <1>0, <3>2
    <3>. QED
        BY <1>0, <2>2, <3>2, <3>3 DEF ActsCarefully
  <2>4. CASE act'[c].calls = act[c].calls
      BY <1>0, <2>2, <2>4 DEF ActsCarefully
  <2>5. CASE act[c].pc = "execute"
    <3>1. act[c].last # "verified" /\ (act[c].revealed \/ act[c].steps = <<>>)
        BY <2>5 DEF ActsInv, LocalInv, Verified, InContract
    <3>. QED
        BY <1>0, <2>2, <3>1 DEF ActsCarefully
  <2>. QED
      BY <2>1, <2>3, <2>4, <2>5, LocalStepFacts
<1>. QED
    BY <1>1, <1>2 DEF actVars

-----------------------------------------------------------------------------
\* The two memories. Each counts outcomes; the Acts that are under way bound what is to come.

Outcome == [node : Nodes, status : {"success", "failure"}]
Busy == {c \in Clients : act[c].pc \notin {"idle", "done"}}
Between(n) == {c \in Clients : act[c].pc = "record" /\ act[c].status = "success" /\ act[c].resultNode = n}
Noted(n, outcome) == {i \in 1..Len(outcomes) : outcomes[i] = [node |-> n, status |-> outcome]}

MemInv ==
    /\ learned \in [Nodes -> Nat] /\ stats \in [Nodes -> [success : Nat, failure : Nat]]
    /\ outcomes \in Seq(Outcome) /\ started \in 0..MaxActs
    /\ IsFiniteSet(Busy) /\ Len(outcomes) + Cardinality(Busy) <= started
    /\ \A n \in Nodes : /\ stats[n].success = Cardinality(Noted(n, "success"))
                        /\ stats[n].failure = Cardinality(Noted(n, "failure"))
                        /\ learned[n] = stats[n].success + Cardinality(Between(n))

LEMMA SameCardinality == ASSUME NEW S PROVE Acts!Cardinality(S) = Cardinality(S)
    BY DEF Acts!Cardinality, Cardinality

LEMMA EntriesFacts ==
    ASSUME outcomes \in Seq(Outcome), NEW n, NEW outcome
    PROVE  /\ IsFiniteSet(Noted(n, outcome)) /\ Cardinality(Noted(n, outcome)) \in 0..Len(outcomes)
           /\ Acts!Count(n, outcome) = Cardinality(Noted(n, outcome))
<1>1. IsFiniteSet(1..Len(outcomes)) /\ Cardinality(1..Len(outcomes)) = Len(outcomes) /\ Len(outcomes) \in Nat
  <2>1. Len(outcomes) \in Nat
      OBVIOUS
  <2>2. \A k \in Nat : k \in Int /\ (IF 1 > k THEN 0 ELSE k - 1 + 1) = k
      OBVIOUS
  <2>. QED
      BY <2>1, <2>2, FS_Interval
<1>2. Noted(n, outcome) \subseteq 1..Len(outcomes)
    BY DEF Noted
<1>3. IsFiniteSet(Noted(n, outcome)) /\ Cardinality(Noted(n, outcome)) <= Len(outcomes)
    BY <1>1, <1>2, FS_Subset
<1>4. Cardinality(Noted(n, outcome)) \in Nat
    BY <1>3, FS_CardinalityType
<1>5. DOMAIN outcomes = 1..Len(outcomes)
    OBVIOUS
<1>6. Acts!Count(n, outcome) = Cardinality(Noted(n, outcome))
    BY <1>5, SameCardinality DEF Acts!Count, Noted
<1>. QED
    BY <1>1, <1>3, <1>4, <1>6

\* A step that tells no memory.
Quiet(c) == Acts!Begin(c) \/ Acts!Resolve(c) \/ Acts!LookupTarget(c) \/ Acts!CheckPolicy(c) \/ Acts!Contract(c)
            \/ Acts!Recovery(c) \/ Acts!Return(c)

LEMMA QuietFacts ==
    ASSUME NEW c \in Clients, Quiet(c)
    PROVE  /\ UNCHANGED <<learned, stats, outcomes>>
           /\ \/ started' = started + 1 /\ started < MaxActs /\ act[c].pc = "idle"
              \/ started' = started /\ act[c].pc \notin {"idle", "learn", "record", "done"}
              \/ started' = started /\ act[c].pc = "done" /\ act' = [act EXCEPT ![c] = Acts!Idle]
<1>1. CASE Acts!Begin(c)
    BY <1>1 DEF Acts!Begin, Acts!At, Acts!memoryVars
<1>2. CASE Acts!Resolve(c) \/ Acts!LookupTarget(c) \/ Acts!CheckPolicy(c)
    BY <1>2 DEF Acts!Resolve, Acts!LookupTarget, Acts!CheckPolicy, Acts!At, Acts!KeepOthers, Acts!memoryVars
<1>3. CASE Acts!Contract(c)
    BY <1>3 DEF Acts!Contract, Acts!ResolveNode, Acts!ProbeVisibility, Acts!RevealStep, Acts!VerifyReveal,
                Acts!Execute, Acts!Verify, Acts!At, Acts!KeepOthers, Acts!memoryVars
<1>4. CASE Acts!Recovery(c)
    BY <1>4 DEF Acts!Recovery, Acts!ActSucceeds, Acts!Retry, Acts!TryAlternate, Acts!FallbackReveal,
                Acts!GiveUp, Acts!At, Acts!KeepOthers, Acts!memoryVars
<1>5. CASE Acts!Return(c)
    BY <1>5 DEF Acts!Return, Acts!At, Acts!KeepOthers, Acts!memoryVars
<1>. QED
    BY <1>1, <1>2, <1>3, <1>4, <1>5 DEF Quiet

LEMMA QuietStep ==
    ASSUME ActsInv, NEW c \in Clients, Quiet(c)
    PROVE  /\ \A n \in Nodes : Between(n)' = Between(n)
           /\ \/ started' = started + 1 /\ started < MaxActs /\ Busy' \subseteq Busy \cup {c}
              \/ started' = started /\ Busy' \subseteq Busy
<1>1. LocalStep(c)
    BY ActStep DEF Quiet, Acts!Continue
<1>2. /\ \A d \in Clients \ {c} : act'[d] = act[d]
      /\ act'[c] = Acts!Idle \/ act'[c].status = act[c].status \/ act'[c].pc = "learn"
    BY <1>1, LocalStepFacts
<1>3. Verified(act[c])
    BY DEF ActsInv, LocalInv
<1>4. act[c].pc # "record" /\ (act[c].status = "failure" \/ act[c].pc = "done")
    BY <1>3, QuietFacts DEF Verified
<1>5. act[c].pc = "done" => act'[c] = Acts!Idle
    BY QuietFacts DEF ActsInv
<1>6. act'[c] = Acts!Idle => act'[c].pc = "idle"
  <2>1. Acts!Idle.pc = "idle"
      BY DEF Acts!Idle
  <2>. QED
      BY <2>1
<1>7. ~(act'[c].pc = "record" /\ act'[c].status = "success")
    BY <1>2, <1>4, <1>5, <1>6
<1>8. \A n \in Nodes : Between(n)' = Between(n)
    BY <1>2, <1>4, <1>7 DEF Between
<1>9. Busy' \subseteq Busy \cup {c}
    BY <1>2 DEF Busy
<1>10. act[c].pc # "idle" => Busy' \subseteq Busy
    BY <1>2, <1>5, <1>6 DEF Busy
<1>. QED
    BY <1>8, <1>9, <1>10, QuietFacts

LEMMA BetweenFacts ==
    ASSUME IsFiniteSet(Busy), NEW n
    PROVE  IsFiniteSet(Between(n)) /\ Cardinality(Between(n)) \in Nat /\ Cardinality(Between(n)) <= Cardinality(Busy)
<1>1. Between(n) \subseteq Busy
    BY DEF Between, Busy
<1>2. IsFiniteSet(Between(n)) /\ Cardinality(Between(n)) <= Cardinality(Busy)
    BY <1>1, FS_Subset
<1>. QED
    BY <1>2, FS_CardinalityType

LEMMA QuietKeepsMemories ==
    ASSUME ActsInv, MemInv, NEW c \in Clients, Quiet(c), MaxActs \in Nat
    PROVE  MemInv'
<1>1. UNCHANGED <<learned, stats, outcomes>>
    BY QuietFacts
<1>2. \A n \in Nodes : Between(n)' = Between(n)
    BY QuietStep
<1>3. IsFiniteSet(Busy) /\ Cardinality(Busy) \in Nat /\ Len(outcomes) \in Nat /\ started \in 0..MaxActs
      /\ Len(outcomes) + Cardinality(Busy) <= started
    BY FS_CardinalityType DEF MemInv
<1>4. /\ started' \in 0..MaxActs /\ IsFiniteSet(Busy') /\ Len(outcomes) + Cardinality(Busy') <= started'
  <2>1. CASE started' = started + 1 /\ started < MaxActs /\ Busy' \subseteq Busy \cup {c}
    <3>1. IsFiniteSet(Busy \cup {c}) /\ Cardinality(Busy \cup {c}) <= Cardinality(Busy) + 1
          /\ Cardinality(Busy \cup {c}) \in Nat
      <4>1. IsFiniteSet(Busy \cup {c}) /\ Cardinality(Busy \cup {c}) = (IF c \in Busy THEN Cardinality(Busy) ELSE Cardinality(Busy) + 1)
          BY <1>3, FS_AddElement
      <4>. QED
          BY <1>3, <4>1
    <3>2. IsFiniteSet(Busy') /\ Cardinality(Busy') <= Cardinality(Busy \cup {c}) /\ Cardinality(Busy') \in Nat
      <4>1. IsFiniteSet(Busy') /\ Cardinality(Busy') <= Cardinality(Busy \cup {c})
          BY <2>1, <3>1, FS_Subset
      <4>. QED
          BY <4>1, FS_CardinalityType
    <3>3. started' = started + 1 /\ started < MaxActs
        BY <2>1
    <3>. QED
        BY <1>3, <3>1, <3>2, <3>3
  <2>2. CASE started' = started /\ Busy' \subseteq Busy
    <3>1. IsFiniteSet(Busy') /\ Cardinality(Busy') <= Cardinality(Busy)
        BY <1>3, <2>2, FS_Subset
    <3>2. Cardinality(Busy') \in Nat /\ started' = started
        BY <2>2, <3>1, FS_CardinalityType
    <3>. QED
        BY <1>3, <3>1, <3>2
  <2>. QED
      BY <2>1, <2>2, QuietStep
<1>5. \A n, s : Noted(n, s)' = Noted(n, s)
    BY <1>1 DEF Noted
<1>. QED
    BY <1>1, <1>2, <1>4, <1>5 DEF MemInv

LEMMA LearnKeepsMemories ==
    ASSUME ActsInv, MemInv, NEW c \in Clients, Acts!Learn(c)
    PROVE  MemInv'
<1>0. PICK r \in Nodes : act[c].resultNode = r
    BY MemoryStep DEF ActsInv, LocalInv, Located
<1>1. act[c].pc = "learn" /\ act'[c].pc = "record" /\ act'[c].status = act[c].status /\ act'[c].resultNode = r
      /\ \A d \in Clients \ {c} : act'[d] = act[d]
    BY <1>0, MemoryStep
<1>2. act[c].status = "success" /\ act[c].resultNode = r
    BY <1>0, <1>1 DEF ActsInv, LocalInv, Verified
<1>3. learned' = [learned EXCEPT ![r] = @ + 1] /\ UNCHANGED <<stats, outcomes, started>>
    BY <1>0 DEF Acts!Learn
<1>4. Busy' = Busy
    BY <1>1 DEF Busy
<1>5. \A n, s : Noted(n, s)' = Noted(n, s)
    BY <1>3 DEF Noted
<1>6. Between(r)' = Between(r) \cup {c} /\ c \notin Between(r) /\ \A n \in Nodes \ {r} : Between(n)' = Between(n)
  <2>1. c \notin Between(r)
      BY <1>1 DEF Between
  <2>2. Between(r)' = Between(r) \cup {c}
      BY <1>1, <1>2 DEF Between
  <2>3. ASSUME NEW n \in Nodes \ {r} PROVE Between(n)' = Between(n)
    <3>1. c \notin Between(n) /\ c \notin Between(n)'
        BY <1>1 DEF Between
    <3>2. \A d \in Clients \ {c} : d \in Between(n)' <=> d \in Between(n)
        BY <1>1 DEF Between
    <3>. QED
        BY <3>1, <3>2 DEF Between
  <2>. QED
      BY <2>1, <2>2, <2>3
<1>7. IsFiniteSet(Busy)
    BY DEF MemInv
<1>8. Cardinality(Between(r)') = Cardinality(Between(r)) + 1
    BY <1>6, <1>7, BetweenFacts, FS_AddElement
<1>9. learned \in [Nodes -> Nat] /\ stats \in [Nodes -> [success : Nat, failure : Nat]]
    BY DEF MemInv
<1>10. learned' \in [Nodes -> Nat] /\ learned'[r] = learned[r] + 1 /\ \A n \in Nodes \ {r} : learned'[n] = learned[n]
    BY <1>2, <1>3, <1>9
<1>11. learned'[r] = stats[r].success + Cardinality(Between(r)')
  <2>1. learned[r] = stats[r].success + Cardinality(Between(r))
      BY <1>2 DEF MemInv
  <2>2. stats[r].success \in Nat /\ Cardinality(Between(r)) \in Nat
      BY <1>2, <1>7, <1>9, BetweenFacts
  <2>. QED
      BY <1>8, <1>10, <2>1, <2>2
<1>12. \A n \in Nodes : learned'[n] = stats[n].success + Cardinality(Between(n)')
  <2>. TAKE n \in Nodes
  <2>1. CASE n = r
      BY <1>11, <2>1 DEF Between
  <2>2. CASE n # r
      BY <1>6, <1>10, <2>2 DEF MemInv
  <2>. QED
      BY <2>1, <2>2
<1>. QED
    BY <1>3, <1>4, <1>5, <1>10, <1>12 DEF MemInv

LEMMA EntriesGrow ==
    ASSUME outcomes \in Seq(Outcome), NEW r \in Nodes, NEW st \in {"success", "failure"},
           outcomes' = Append(outcomes, [node |-> r, status |-> st])
    PROVE  /\ outcomes' \in Seq(Outcome) /\ Len(outcomes') = Len(outcomes) + 1
           /\ Cardinality(Noted(r, st)') = Cardinality(Noted(r, st)) + 1
           /\ \A n, s : n # r \/ s # st => Noted(n, s)' = Noted(n, s)
<1>. DEFINE o == [node |-> r, status |-> st]
            k == Len(outcomes) + 1
<1>1. o \in Outcome
    BY DEF Outcome
<1>2. \A n, s : o = [node |-> n, status |-> s] <=> n = r /\ s = st
    OBVIOUS
<1>3. outcomes' = Append(outcomes, o)
    OBVIOUS
<1>. HIDE DEF o
<1>4. /\ outcomes' \in Seq(Outcome) /\ Len(outcomes') = k /\ outcomes'[k] = o
      /\ \A i \in 1..Len(outcomes) : outcomes'[i] = outcomes[i]
    BY <1>1, <1>3, AppendProperties
<1>5. /\ k \in 1..k /\ k \notin 1..Len(outcomes) /\ \A i \in 1..k : i \in 1..Len(outcomes) \/ i = k
      /\ \A i \in 1..Len(outcomes) : i \in 1..k
    OBVIOUS
<1>. HIDE DEF k
<1>6. Noted(r, st)' = Noted(r, st) \cup {k} /\ k \notin Noted(r, st)
    BY <1>2, <1>4, <1>5 DEF Noted
<1>7. \A n, s : n # r \/ s # st => Noted(n, s)' = Noted(n, s)
    BY <1>2, <1>4, <1>5 DEF Noted
<1>8. Cardinality(Noted(r, st)') = Cardinality(Noted(r, st)) + 1
    BY <1>6, EntriesFacts, FS_AddElement
<1>. QED
    BY <1>4, <1>7, <1>8 DEF k

LEMMA RecordKeepsMemories ==
    ASSUME ActsInv, MemInv, NEW c \in Clients, Acts!Record(c)
    PROVE  MemInv'
<1>0. PICK r \in Nodes, st \in {"success", "failure"} : act[c].resultNode = r /\ act[c].status = st
    BY MemoryStep DEF ActsInv, LocalInv, Located, LocalType
<1>1. act[c].pc = "record" /\ act'[c].pc = "done" /\ \A d \in Clients \ {c} : act'[d] = act[d]
    BY <1>0, MemoryStep
<1>2. /\ stats' = IF st = "success" THEN [stats EXCEPT ![r].success = @ + 1] ELSE [stats EXCEPT ![r].failure = @ + 1]
      /\ outcomes' = Append(outcomes, [node |-> r, status |-> st]) /\ UNCHANGED <<learned, started>>
    BY <1>0 DEF Acts!Record
<1>3. /\ learned \in [Nodes -> Nat] /\ stats \in [Nodes -> [success : Nat, failure : Nat]]
      /\ outcomes \in Seq(Outcome) /\ IsFiniteSet(Busy) /\ started \in 0..MaxActs
      /\ Len(outcomes) + Cardinality(Busy) <= started
    BY DEF MemInv
<1>4. /\ outcomes' \in Seq(Outcome) /\ Len(outcomes') = Len(outcomes) + 1
      /\ Cardinality(Noted(r, st)') = Cardinality(Noted(r, st)) + 1
      /\ \A n, s : n # r \/ s # st => Noted(n, s)' = Noted(n, s)
    BY <1>2, <1>3, EntriesGrow
<1>5. IsFiniteSet(Busy') /\ Len(outcomes') + Cardinality(Busy') <= started
  <2>1. c \in Busy /\ Busy' = Busy \ {c}
      BY <1>1 DEF Busy
  <2>2. IsFiniteSet(Busy') /\ Cardinality(Busy') = Cardinality(Busy) - 1
      BY <1>3, <2>1, FS_RemoveElement
  <2>3. Cardinality(Busy) \in Nat /\ Len(outcomes) \in Nat
      BY <1>3, FS_CardinalityType
  <2>. QED
      BY <1>3, <1>4, <2>2, <2>3
<1>6. stats' \in [Nodes -> [success : Nat, failure : Nat]]
    BY <1>2, <1>3
<1>7. \A n \in Nodes \ {r} : stats'[n] = stats[n] /\ Between(n)' = Between(n)
  <2>. TAKE n \in Nodes \ {r}
  <2>1. stats'[n] = stats[n]
      BY <1>2, <1>3
  <2>2. c \notin Between(n) /\ c \notin Between(n)'
      BY <1>0, <1>1 DEF Between
  <2>3. \A d \in Clients \ {c} : d \in Between(n)' <=> d \in Between(n)
      BY <1>1 DEF Between
  <2>. QED
      BY <2>1, <2>2, <2>3 DEF Between
<1>8. \A n \in Nodes \ {r} : /\ stats'[n].success = Cardinality(Noted(n, "success")')
                             /\ stats'[n].failure = Cardinality(Noted(n, "failure")')
                             /\ learned'[n] = stats'[n].success + Cardinality(Between(n)')
  <2>. TAKE n \in Nodes \ {r}
  <2>1. Noted(n, "success")' = Noted(n, "success") /\ Noted(n, "failure")' = Noted(n, "failure")
      BY <1>4
  <2>2. learned'[n] = learned[n]
      BY <1>2
  <2>. QED
      BY <1>7, <2>1, <2>2 DEF MemInv
<1>9. /\ stats[r].success = Cardinality(Noted(r, "success")) /\ stats[r].failure = Cardinality(Noted(r, "failure"))
      /\ learned[r] = stats[r].success + Cardinality(Between(r))
      /\ stats[r].success \in Nat /\ stats[r].failure \in Nat /\ learned'[r] = learned[r]
    BY <1>2, <1>3 DEF MemInv
<1>10. CASE st = "success"
  <2>1. stats'[r].success = stats[r].success + 1 /\ stats'[r].failure = stats[r].failure
      BY <1>2, <1>3, <1>10
  <2>2. /\ Cardinality(Noted(r, "success")') = Cardinality(Noted(r, "success")) + 1
        /\ Noted(r, "failure")' = Noted(r, "failure")
      BY <1>4, <1>10 DEF Noted
  <2>3. c \in Between(r) /\ Between(r)' = Between(r) \ {c}
    <3>1. c \in Between(r) /\ c \notin Between(r)'
        BY <1>0, <1>1, <1>10 DEF Between
    <3>2. \A d \in Clients \ {c} : d \in Between(r)' <=> d \in Between(r)
        BY <1>1 DEF Between
    <3>. QED
        BY <3>1, <3>2 DEF Between
  <2>4. Cardinality(Between(r)') = Cardinality(Between(r)) - 1 /\ Cardinality(Between(r)) \in Nat
      BY <1>3, <2>3, BetweenFacts, FS_RemoveElement
  <2>5. /\ stats'[r].success = Cardinality(Noted(r, "success")')
        /\ stats'[r].failure = Cardinality(Noted(r, "failure")')
      BY <1>9, <2>1, <2>2
  <2>6. learned'[r] = stats'[r].success + Cardinality(Between(r)')
      BY <1>9, <2>1, <2>4
  <2>. QED
      BY <1>2, <1>3, <1>4, <1>5, <1>6, <1>8, <2>5, <2>6 DEF MemInv
<1>11. CASE st = "failure"
  <2>1. stats'[r].failure = stats[r].failure + 1 /\ stats'[r].success = stats[r].success
      BY <1>2, <1>3, <1>11
  <2>2. /\ Cardinality(Noted(r, "failure")') = Cardinality(Noted(r, "failure")) + 1
        /\ Noted(r, "success")' = Noted(r, "success")
      BY <1>4, <1>11 DEF Noted
  <2>3. Between(r)' = Between(r)
    <3>1. c \notin Between(r) /\ c \notin Between(r)'
        BY <1>0, <1>1, <1>11 DEF Between
    <3>2. \A d \in Clients \ {c} : d \in Between(r)' <=> d \in Between(r)
        BY <1>1 DEF Between
    <3>. QED
        BY <3>1, <3>2 DEF Between
  <2>4. /\ stats'[r].success = Cardinality(Noted(r, "success")')
        /\ stats'[r].failure = Cardinality(Noted(r, "failure")')
      BY <1>9, <2>1, <2>2
  <2>5. learned'[r] = stats'[r].success + Cardinality(Between(r)')
      BY <1>9, <2>1, <2>3
  <2>. QED
      BY <1>2, <1>3, <1>4, <1>5, <1>6, <1>8, <2>4, <2>5 DEF MemInv
<1>. QED
    BY <1>10, <1>11

LEMMA MemoriesKept ==
    ASSUME ActsInv, MemInv, [Acts!Next]_actVars, MaxActs \in Nat
    PROVE  MemInv'
<1>1. CASE Acts!Next
    BY <1>1, QuietKeepsMemories, LearnKeepsMemories, RecordKeepsMemories DEF Acts!Next, Acts!Continue, Quiet
<1>2. CASE UNCHANGED actVars
    BY <1>2 DEF actVars, MemInv, Busy, Between, Noted
<1>. QED
    BY <1>1, <1>2

LEMMA MemoriesStart ==
    ASSUME Acts!Init, MaxActs \in Nat
    PROVE  MemInv
<1>1. Busy = {} /\ \A n \in Nodes : Between(n) = {}
    BY DEF Acts!Init, Busy, Between, Acts!Idle
<1>2. \A n, s : Noted(n, s) = {}
    BY DEF Acts!Init, Noted
<1>3. IsFiniteSet({}) /\ Cardinality({}) = 0
    BY FS_EmptySet
<1>4. /\ learned \in [Nodes -> Nat] /\ stats \in [Nodes -> [success : Nat, failure : Nat]]
      /\ outcomes = <<>> /\ started = 0
      /\ \A n \in Nodes : learned[n] = 0 /\ stats[n].success = 0 /\ stats[n].failure = 0
    BY DEF Acts!Init
<1>5. outcomes \in Seq(Outcome) /\ Len(outcomes) = 0
    BY <1>4
<1>6. Len(outcomes) + 0 <= started /\ started \in 0..MaxActs /\ 0 = 0 + 0
    BY <1>4, <1>5
<1>. QED
    BY <1>1, <1>2, <1>3, <1>4, <1>5, <1>6 DEF MemInv

LEMMA WithinBound ==
    ASSUME NEW M \in Nat, NEW m \in 0..M, NEW l \in Nat, NEW b \in Nat, l + b <= m,
           NEW x \in 0..l, NEW y \in 0..l, NEW z \in Nat, z <= b
    PROVE  x + z \in 0..M /\ x \in 0..M /\ y \in 0..M
    OBVIOUS

LEMMA MemoriesImply ==
    ASSUME ActsInv, MemInv, MaxActs \in Nat
    PROVE  Acts!TypeOK /\ Acts!MemoriesAgree
<1>1. /\ outcomes \in Seq(Outcome) /\ IsFiniteSet(Busy) /\ started \in 0..MaxActs
      /\ Len(outcomes) + Cardinality(Busy) <= started
      /\ learned \in [Nodes -> Nat] /\ stats \in [Nodes -> [success : Nat, failure : Nat]]
    BY DEF MemInv
<1>2. Cardinality(Busy) \in Nat /\ Len(outcomes) \in Nat
    BY <1>1, FS_CardinalityType
<1>3. \A n \in Nodes : learned[n] \in 0..MaxActs /\ stats[n].success \in 0..MaxActs /\ stats[n].failure \in 0..MaxActs
  <2>. TAKE n \in Nodes
  <2>1. /\ Cardinality(Noted(n, "success")) \in 0..Len(outcomes)
        /\ Cardinality(Noted(n, "failure")) \in 0..Len(outcomes)
      BY <1>1, EntriesFacts
  <2>2. Cardinality(Between(n)) \in Nat /\ Cardinality(Between(n)) <= Cardinality(Busy)
      BY <1>1, BetweenFacts
  <2>3. /\ stats[n].success = Cardinality(Noted(n, "success")) /\ stats[n].failure = Cardinality(Noted(n, "failure"))
        /\ learned[n] = stats[n].success + Cardinality(Between(n))
      BY DEF MemInv
  <2>4. /\ Cardinality(Noted(n, "success")) + Cardinality(Between(n)) \in 0..MaxActs
        /\ Cardinality(Noted(n, "success")) \in 0..MaxActs /\ Cardinality(Noted(n, "failure")) \in 0..MaxActs
      BY <1>1, <1>2, <2>1, <2>2, WithinBound
  <2>. QED
      BY <2>3, <2>4
<1>4. learned \in [Nodes -> 0..MaxActs] /\ stats \in [Nodes -> [success : 0..MaxActs, failure : 0..MaxActs]]
    BY <1>1, <1>3
<1>5. ASSUME NEW c \in Clients
      PROVE  /\ act[c].pc \in {"idle", "resolve", "lookup", "policy", "contract", "reveal", "execute", "verify",
                               "judge", "learn", "record", "done"}
             /\ {act[c].primary, act[c].target, act[c].resultNode, act[c].actedOn} \subseteq Nodes \cup {Acts!NoNode}
             /\ act[c].attempt \in 0..3 /\ Len(act[c].trail) <= 3
             /\ Len(act[c].steps) <= Acts!MaxSteps /\ act[c].tries \in 0..Acts!RetriesPerStep
             /\ act[c].last \in {"none", "verified", "unverified", "failed"}
  <2>1. LocalType(act[c]) /\ Len(act[c].trail) <= act[c].attempt
      BY DEF ActsInv, LocalInv, Trailed
  <2>2. Len(act[c].trail) \in Nat /\ act[c].attempt \in 0..3
      BY <2>1 DEF LocalType
  <2>3. Len(act[c].trail) <= 3
      BY <2>1, <2>2
  <2>. QED
      BY <2>1, <2>3 DEF LocalType, Places, SomeNode
<1>6. Acts!TypeOK
    BY <1>1, <1>4, <1>5 DEF Acts!TypeOK
<1>7. ASSUME NEW n \in Nodes
      PROVE  {c \in Clients : Acts!At(c, "record") /\ act[c].status = "success" /\ act[c].resultNode = n} = Between(n)
    BY DEF Acts!At, Between
<1>8. Acts!MemoriesAgree
    BY <1>1, <1>7, EntriesFacts, SameCardinality DEF Acts!MemoriesAgree, MemInv
<1>. QED
    BY <1>6, <1>8

-----------------------------------------------------------------------------
\* What the executor of macros is given: steps that can be run.

\* The actions of the language, and the names of targets and alternatives.
Actions == DOMAIN Macros!RequiredArgs
Names == STRING \cup {""}

\* A step that can be run.
Runnable == [condition : Names, intent : Actions, else : Names, required : BOOLEAN,
             repeatCount : 1..KMaxRepeat]

\* What the texts are made of.
LEMMA LanguageFacts ==
    /\ KMaxRepeat \in Nat \ {0} /\ 1 \in 1..KMaxRepeat
    /\ \A text \in Texts : text \in Seq(Macros!RawStep)
    /\ \A template \in Templates : template.action \in Actions /\ template.repeat \in 1..KMaxRepeat
<1>1. Macros!LanguageAssumption
    BY SuiteAssumption
<1>. QED
    BY <1>1 DEF Macros!LanguageAssumption, Actions

\* What a token makes of a step that can be run can be run.
LEMMA TokenKeeps ==
    ASSUME NEW parsed \in Runnable, NEW token
    PROVE  Macros!ApplyStepToken(parsed, token) \in Runnable
<1>1. KMaxRepeat \in Nat \ {0}
    BY LanguageFacts
<1>2. ASSUME NEW n \in Nat \ {0} PROVE Macros!Clamped(n) \in 1..KMaxRepeat
    BY <1>1, <1>2 DEF Macros!Clamped
<1>3. ASSUME NEW r \in BOOLEAN PROVE [parsed EXCEPT !.required = r] \in Runnable
    BY <1>3 DEF Runnable
<1>4. ASSUME NEW n \in 1..KMaxRepeat PROVE [parsed EXCEPT !.repeatCount = n] \in Runnable
    BY <1>4 DEF Runnable
<1>5. (token[2] # 0) \in BOOLEAN
    OBVIOUS
<1>. QED
    BY <1>2, <1>3, <1>4, <1>5 DEF Macros!ApplyStepToken

\* The parts of a raw step that the parser looks at.
LEMMA RawFacts ==
    ASSUME NEW raw \in Macros!RawStep
    PROVE  /\ raw.target \in STRING /\ raw.otherwise.action \in STRING
           /\ raw.tokens \in Seq(STRING \X Int)
<1>1. raw.target \in STRING /\ raw.otherwise \in Macros!Expression /\ raw.tokens \in Seq(STRING \X Int)
    BY Zenon DEF Macros!RawStep
<1>2. raw.otherwise.action \in STRING
    BY <1>1 DEF Macros!Expression
<1>. QED
    BY <1>1, <1>2

\* A step that is not refused can be run.
LEMMA StepParsed ==
    ASSUME NEW raw \in Macros!RawStep, ~Macros!Refused(raw)
    PROVE  Macros!ParsedStep(raw) \in Runnable
<1>. DEFINE tok == raw.tokens
            base == [condition |-> IF raw.head = "if_visible" THEN raw.target ELSE "",
                     intent |-> raw.expression.action,
                     else |-> IF raw.head = "if_visible" THEN raw.otherwise.action ELSE "",
                     required |-> TRUE,
                     repeatCount |-> IF raw.head = "loop" THEN Macros!Clamped(raw.count) ELSE 1]
            D == DOMAIN tok
            c == [s \in SUBSET D |-> Max(s)]
            h == [i \in D |-> [v \in Runnable |-> Macros!ApplyStepToken(v, tok[i])]]
            Left(g) == g = [s \in SUBSET D |->
                              IF s = {} THEN base ELSE Macros!ApplyStepToken(g[s \ {Max(s)}], tok[Max(s)])]
            iter == CHOOSE g : Left(g)
<1>1. Len(tok) \in Nat /\ D = 1..Len(tok)
  <2>. DEFINE T == STRING \X Int
  <2>1. tok \in Seq(T)
      BY RawFacts
  <2>. HIDE DEF T, tok
  <2>. QED
      BY <2>1
<1>2. IsFiniteSet(D)
    BY <1>1, FS_Interval
<1>3. \A s \in SUBSET D : c[s] = Max(s) /\ (s # {} => c[s] \in s)
    BY <1>1, LargestNumber
<1>4. base \in Runnable
  <2>1. raw.expression.action \in Actions
      BY DEF Macros!Refused, Macros!BuildsIntent, Actions
  <2>2. raw.target \in Names /\ raw.otherwise.action \in Names /\ "" \in Names
    <3>1. raw.target \in STRING /\ raw.otherwise.action \in STRING
        BY RawFacts, Zenon
    <3>. QED
        BY <3>1 DEF Names
  <2>3. raw.head = "loop" => Macros!Clamped(raw.count) \in 1..KMaxRepeat
      BY LanguageFacts DEF Macros!Refused, Macros!Clamped
  <2>4. (IF raw.head = "loop" THEN Macros!Clamped(raw.count) ELSE 1) \in 1..KMaxRepeat
      BY <2>3, LanguageFacts
  <2>5. (IF raw.head = "if_visible" THEN raw.target ELSE "") \in Names
        /\ (IF raw.head = "if_visible" THEN raw.otherwise.action ELSE "") \in Names
      BY <2>2
  <2>. QED
      BY <2>1, <2>4, <2>5 DEF Runnable
<1>5. h \in [D -> [Runnable -> Runnable]]
    BY TokenKeeps
<1>6. Macros!ParsedStep(raw) = iter[D]
    BY DEF Macros!ParsedStep, Macros!FoldLeft, Macros!MapThenFoldSet, Macros!Max, Max
<1>. HIDE DEF tok, base, D, h
<1>. HIDE DEF c
<1>7. \E f : Unfolds(f, D, Runnable, base, h, c)
    BY <1>2, <1>3, <1>4, <1>5, SubsetRecursion, Zenon
<1>8. PICK f : Unfolds(f, D, Runnable, base, h, c)
    BY <1>7
<1>9. Left(f)
  <2>1. ASSUME NEW s \in SUBSET D, s # {} PROVE f[s] = Macros!ApplyStepToken(f[s \ {Max(s)}], tok[Max(s)])
    <3>1. Max(s) \in D /\ f[s \ {Max(s)}] \in Runnable /\ f[s] = h[Max(s)][f[s \ {Max(s)}]]
        BY <1>3, <1>8, <2>1 DEF Unfolds
    <3>. QED
        BY <3>1 DEF h
  <2>2. f = [s \in SUBSET D |-> f[s]] /\ f[{}] = base
      BY <1>8 DEF Unfolds
  <2>. QED
      BY <2>1, <2>2
<1>10. Left(iter)
  <2>. HIDE DEF Left
  <2>. QED
      BY <1>9
<1>. DEFINE P == {s \in SUBSET D : iter[s] \in Runnable}
<1>11. SUBSET D \subseteq P
  <2>1. {} \in P
      BY <1>4, <1>10
  <2>2. ASSUME NEW s \in SUBSET D, s # {}, s \ {c[s]} \in P PROVE s \in P
    <3>1. iter[s \ {Max(s)}] \in Runnable
        BY <1>3, <2>2
    <3>2. iter[s] = Macros!ApplyStepToken(iter[s \ {Max(s)}], tok[Max(s)])
        BY <1>10, <2>2
    <3>. QED
        BY <3>1, <3>2, TokenKeeps
  <2>. HIDE DEF P
  <2>. QED
      BY <1>2, <1>3, <2>1, <2>2, SubsetInduction
<1>. QED
    BY <1>6, <1>11

\* A text that is not refused becomes steps that can be run.
LEMMA TextParsed ==
    ASSUME NEW text \in Texts, ~Macros!RefusedText(text)
    PROVE  Macros!ParsedText(text) \in Seq(Runnable)
<1>. DEFINE V == Seq(Runnable)
            Parsed(v, raw) == IF Macros!Blank(raw) THEN v ELSE Append(v, Macros!ParsedStep(raw))
            base == <<>>
            D == DOMAIN text
            c == [s \in SUBSET D |-> Max(s)]
            h == [i \in D |-> [v \in V |-> Parsed(v, text[i])]]
            Left(g) == g = [s \in SUBSET D |-> IF s = {} THEN base ELSE Parsed(g[s \ {Max(s)}], text[Max(s)])]
            iter == CHOOSE g : Left(g)
<1>1. Len(text) \in Nat /\ D = 1..Len(text) /\ \A i \in D : text[i] \in Macros!RawStep
  <2>. DEFINE R == Macros!RawStep
  <2>1. text \in Seq(R)
      BY LanguageFacts
  <2>. HIDE DEF R
  <2>2. Len(text) \in Nat /\ DOMAIN text = 1..Len(text) /\ \A i \in 1..Len(text) : text[i] \in R
      BY <2>1
  <2>. QED
      BY <2>2 DEF R
<1>2. IsFiniteSet(D)
    BY <1>1, FS_Interval
<1>3. \A s \in SUBSET D : c[s] = Max(s) /\ (s # {} => c[s] \in s)
    BY <1>1, LargestNumber
<1>4. base \in V
    OBVIOUS
<1>5. ASSUME NEW i \in D, NEW v \in V PROVE Parsed(v, text[i]) \in V
  <2>1. ~Macros!Blank(text[i]) => Macros!ParsedStep(text[i]) \in Runnable
      BY <1>1, StepParsed DEF Macros!RefusedText
  <2>. DEFINE p == Macros!ParsedStep(text[i])
  <2>2. p \in Runnable => Append(v, p) \in Seq(Runnable)
    <3>. HIDE DEF p
    <3>. QED
        OBVIOUS
  <2>. QED
      BY <2>1, <2>2
<1>6. Macros!ParsedText(text) = iter[D]
    BY DEF Macros!ParsedText, Macros!FoldLeft, Macros!MapThenFoldSet, Macros!Max, Max
<1>. HIDE DEF V, Parsed, base, D, c
<1>7. h \in [D -> [V -> V]]
    BY <1>5
<1>. HIDE DEF h
<1>8. \E f : Unfolds(f, D, V, base, h, c)
    BY <1>2, <1>3, <1>4, <1>7, SubsetRecursion, Zenon
<1>9. PICK f : Unfolds(f, D, V, base, h, c)
    BY <1>8
<1>10. Left(f)
  <2>1. ASSUME NEW s \in SUBSET D, s # {} PROVE f[s] = Parsed(f[s \ {Max(s)}], text[Max(s)])
    <3>1. Max(s) \in D /\ f[s \ {Max(s)}] \in V /\ f[s] = h[Max(s)][f[s \ {Max(s)}]]
        BY <1>3, <1>9, <2>1 DEF Unfolds
    <3>. QED
        BY <3>1 DEF h
  <2>2. f = [s \in SUBSET D |-> f[s]] /\ f[{}] = base
      BY <1>9 DEF Unfolds
  <2>. QED
      BY <2>1, <2>2
<1>11. Left(iter)
  <2>. HIDE DEF Left
  <2>. QED
      BY <1>10
<1>. DEFINE P == {s \in SUBSET D : iter[s] \in V}
<1>12. SUBSET D \subseteq P
  <2>1. {} \in P
      BY <1>4, <1>11
  <2>2. ASSUME NEW s \in SUBSET D, s # {}, s \ {c[s]} \in P PROVE s \in P
    <3>1. iter[s \ {Max(s)}] \in V /\ Max(s) \in D
        BY <1>3, <2>2
    <3>2. iter[s] = Parsed(iter[s \ {Max(s)}], text[Max(s)])
        BY <1>11, <2>2
    <3>. QED
        BY <1>5, <3>1, <3>2
  <2>. HIDE DEF P
  <2>. QED
      BY <1>2, <1>3, <2>1, <2>2, SubsetInduction
<1>. QED
    BY <1>6, <1>12 DEF V

\* A single action that is repeated becomes steps that can be run.
LEMMA RepeatedFacts ==
    ASSUME NEW template \in Templates
    PROVE  Macros!BuildRepeatedSequence(template) \in Seq(Runnable)
<1>. DEFINE s == [condition |-> "", intent |-> template.action, else |-> "", required |-> TRUE, repeatCount |-> 1]
            n == template.repeat
<1>1. s \in Runnable
  <2>1. "" \in Names
      BY DEF Names
  <2>. QED
      BY <2>1, LanguageFacts DEF Runnable
<1>2. n \in Nat
    BY LanguageFacts
<1>3. Macros!BuildRepeatedSequence(template) = [i \in 1..n |-> s]
    BY DEF Macros!BuildRepeatedSequence
<1>. HIDE DEF s, n
<1>. QED
    BY <1>1, <1>2, <1>3

-----------------------------------------------------------------------------
\* What a sequence of steps means, given what is visible, and where in it each step has its part.

\* What a step stands for: the action it chooses, how often, and the sequence of them.
ChosenOf(s, shown) == IF s.condition = "" \/ s.condition \in shown THEN s.intent ELSE s.else
Repeats(s, shown) == IF ChosenOf(s, shown) = "" THEN 0 ELSE s.repeatCount
PieceOf(s, shown) == IF ChosenOf(s, shown) = "" THEN <<>> ELSE [k \in 1..s.repeatCount |-> ChosenOf(s, shown)]
PiecesOf(steps, shown) == [i \in DOMAIN steps |-> PieceOf(steps[i], shown)]
ChosenActions(steps, shown) == {ChosenOf(steps[i], shown) : i \in DOMAIN steps}

\* f[i] is what the first i of these steps mean.
Means(f, steps, shown) ==
    /\ f \in [0..Len(steps) -> Seq(ChosenActions(steps, shown))] /\ f[0] = <<>>
    /\ \A i \in 1..Len(steps) : f[i] = f[i - 1] \o PieceOf(steps[i], shown)
    /\ FlattenSeq(PiecesOf(steps, shown)) = f[Len(steps)]

MeaningOf(steps, shown) == CHOOSE f : Means(f, steps, shown)
WholeOf(steps, shown) == MeaningOf(steps, shown)[Len(steps)]
LengthOf(steps, shown, i) == Len(MeaningOf(steps, shown)[i])

\* What a step stands for is the action it chose, as often as its count says.
LEMMA PieceFacts ==
    ASSUME NEW s \in Runnable, NEW shown, NEW S, ChosenOf(s, shown) \in S
    PROVE  /\ PieceOf(s, shown) \in Seq(S) /\ Len(PieceOf(s, shown)) = Repeats(s, shown)
           /\ Repeats(s, shown) \in Nat
           /\ \A k \in 1..Repeats(s, shown) : PieceOf(s, shown)[k] = ChosenOf(s, shown)
<1>1. s.repeatCount \in Nat
    BY LanguageFacts DEF Runnable
<1>. DEFINE n == s.repeatCount
            x == ChosenOf(s, shown)
<1>2. n \in Nat /\ x \in S
    BY <1>1
<1>3. CASE x = ""
  <2>1. PieceOf(s, shown) = <<>> /\ Repeats(s, shown) = 0
      BY <1>3 DEF PieceOf, Repeats
  <2>2. <<>> \in Seq(S) /\ Len(<<>>) = 0 /\ 1..0 = {}
      OBVIOUS
  <2>. QED
      BY <2>1, <2>2
<1>4. CASE x # ""
  <2>1. PieceOf(s, shown) = [k \in 1..n |-> x] /\ Repeats(s, shown) = n
      BY <1>4 DEF PieceOf, Repeats
  <2>. HIDE DEF n, x
  <2>2. [k \in 1..n |-> x] \in Seq(S) /\ Len([k \in 1..n |-> x]) = n
      BY <1>2
  <2>. QED
      BY <1>2, <2>1, <2>2 DEF x
<1>. QED
    BY <1>3, <1>4

\* The meaning of a sequence is put together of what its steps stand for, one after the other.
LEMMA MeaningExists ==
    ASSUME NEW steps \in Seq(Runnable), NEW shown
    PROVE  Means(MeaningOf(steps, shown), steps, shown)
<1>. DEFINE S == ChosenActions(steps, shown)
            pieces == PiecesOf(steps, shown)
<1>1. Len(steps) \in Nat /\ DOMAIN steps = 1..Len(steps) /\ \A i \in 1..Len(steps) : steps[i] \in Runnable
    OBVIOUS
<1>2. \A i \in 1..Len(steps) : ChosenOf(steps[i], shown) \in S
    BY <1>1 DEF ChosenActions
<1>3. pieces = [i \in 1..Len(steps) |-> PieceOf(steps[i], shown)]
    BY <1>1 DEF PiecesOf
<1>4. \A i \in 1..Len(steps) : PieceOf(steps[i], shown) \in Seq(S)
    BY <1>1, <1>2, PieceFacts
<1>. HIDE DEF S, pieces
<1>5. pieces \in Seq(Seq(S)) /\ Len(pieces) = Len(steps)
    BY <1>1, <1>3, <1>4
<1>6. PICK f \in [0..Len(pieces) -> Seq(S)] :
              /\ f[0] = <<>>
              /\ \A i \in 1..Len(pieces) : f[i] = f[i - 1] \o pieces[i]
              /\ FlattenSeq(pieces) = f[Len(pieces)]
    BY <1>5, FlattenSteps
<1>7. \A i \in 1..Len(steps) : f[i] = f[i - 1] \o PieceOf(steps[i], shown)
    BY <1>3, <1>5, <1>6
<1>8. Means(f, steps, shown)
    BY <1>5, <1>6, <1>7 DEF Means, S, pieces
<1>. QED
    BY <1>8 DEF MeaningOf

\* Where in the whole each step's part is.
LEMMA Layout ==
    ASSUME NEW steps \in Seq(Runnable), NEW shown
    PROVE  /\ LengthOf(steps, shown, 0) = 0
           /\ \A i \in 0..Len(steps) : LengthOf(steps, shown, i) \in Nat
           /\ \A i \in 0..Len(steps) : LengthOf(steps, shown, i) <= LengthOf(steps, shown, Len(steps))
           /\ WholeOf(steps, shown) \in Seq(ChosenActions(steps, shown))
           /\ Len(WholeOf(steps, shown)) = LengthOf(steps, shown, Len(steps))
           /\ \A i \in 1..Len(steps) :
                 /\ LengthOf(steps, shown, i) = LengthOf(steps, shown, i - 1) + Repeats(steps[i], shown)
                 /\ Repeats(steps[i], shown) \in Nat
                 /\ \A k \in 1..Repeats(steps[i], shown) :
                       WholeOf(steps, shown)[LengthOf(steps, shown, i - 1) + k] = ChosenOf(steps[i], shown)
<1>. DEFINE f == MeaningOf(steps, shown)
            S == ChosenActions(steps, shown)
            n == Len(steps)
            pieces == PiecesOf(steps, shown)
<1>1. n \in Nat /\ DOMAIN steps = 1..n /\ \A i \in 1..n : steps[i] \in Runnable
    OBVIOUS
<1>2. f \in [0..n -> Seq(S)] /\ f[0] = <<>> /\ \A i \in 1..n : f[i] = f[i - 1] \o PieceOf(steps[i], shown)
    BY MeaningExists DEF Means
<1>3. \A i \in 1..n : ChosenOf(steps[i], shown) \in S
    BY <1>1 DEF ChosenActions
<1>4. \A i \in 1..n : /\ PieceOf(steps[i], shown) \in Seq(S)
                      /\ Len(PieceOf(steps[i], shown)) = Repeats(steps[i], shown)
                      /\ Repeats(steps[i], shown) \in Nat
                      /\ \A k \in 1..Repeats(steps[i], shown) : PieceOf(steps[i], shown)[k] = ChosenOf(steps[i], shown)
    BY <1>1, <1>3, PieceFacts
<1>5. pieces = [i \in 1..n |-> PieceOf(steps[i], shown)]
    BY <1>1 DEF PiecesOf
<1>. HIDE DEF f, S, n, pieces
<1>6. pieces \in Seq(Seq(S)) /\ Len(pieces) = n
    BY <1>1, <1>4, <1>5
<1>7. \A i \in 1..Len(pieces) : f[i] = f[i - 1] \o pieces[i]
    BY <1>2, <1>5, <1>6
<1>8. \A i \in 0..n : Begins(f[i], f[n])
    BY <1>2, <1>6, <1>7, FlattenBegins
<1>9. \A i \in 0..n : f[i] \in Seq(S) /\ Len(f[i]) \in Nat
    BY <1>2
<1>10. n \in 0..n /\ \A i \in 1..n : i - 1 \in 0..n /\ i \in 0..n
    BY <1>1
<1>11. ASSUME NEW i \in 1..n
       PROVE  /\ Len(f[i]) = Len(f[i - 1]) + Repeats(steps[i], shown)
              /\ Repeats(steps[i], shown) \in Nat
              /\ \A k \in 1..Repeats(steps[i], shown) : f[n][Len(f[i - 1]) + k] = ChosenOf(steps[i], shown)
  <2>. DEFINE p == PieceOf(steps[i], shown)
              r == Repeats(steps[i], shown)
              a == f[i - 1]
              x == ChosenOf(steps[i], shown)
  <2>1. f[i] = a \o p /\ a \in Seq(S) /\ p \in Seq(S) /\ Len(p) = r /\ r \in Nat /\ Len(a) \in Nat
      BY <1>2, <1>4, <1>9, <1>10
  <2>2. \A k \in 1..r : p[k] = x
      BY <1>4
  <2>3. Begins(f[i], f[n]) /\ Len(f[i]) \in Nat
      BY <1>8, <1>9, <1>10
  <2>. HIDE DEF p, r, a, x
  <2>4. /\ Len(f[i]) = Len(a) + r /\ \A k \in 1..r : f[i][Len(a) + k] = p[k]
    <3>1. Len(a \o p) = Len(a) + Len(p) /\ \A k \in 1..Len(p) : (a \o p)[Len(a) + k] = p[k]
        BY <2>1, Appended
    <3>. QED
        BY <2>1, <3>1
  <2>5. \A k \in 1..r : f[n][Len(a) + k] = x
    <3>1. \A k \in 1..r : Len(a) + k \in 1..Len(f[i])
        BY <2>1, <2>4
    <3>. QED
        BY <2>2, <2>3, <2>4, <3>1 DEF Begins
  <2>. QED
      BY <2>1, <2>4, <2>5 DEF r, a, x
<1>12. Len(f[0]) = 0
    BY <1>2
<1>13. \A i \in 0..n : Len(f[i]) <= Len(f[n])
    BY <1>8 DEF Begins
<1>. QED
    BY <1>9, <1>10, <1>11, <1>12, <1>13 DEF LengthOf, WholeOf, f, S, n

-----------------------------------------------------------------------------
\* The invariant of the executor: what was run is how the meaning begins.

\* What is remembered of a run, the step the executor is at, and the meaning of all of them.
Result == [intent : Names \cup Actions, required : BOOLEAN, success : BOOLEAN]
Here == sequence[step]
Whole == WholeOf(sequence, visible)
At(i) == LengthOf(sequence, visible, i)

\* The executor has not left the steps, or went to their end.
Running == phase \in {"idle", "steps"} \/ (phase = "done" /\ mode = "steps")

MacroType ==
    /\ sequence \in Seq(Runnable) /\ visible \subseteq Macros!Targets
    /\ phase \in {"idle", "steps", "queueing", "done", "refused"} /\ mode \in {"steps", "queueing"}
    /\ step \in 1..Len(sequence) + 1 /\ repetition \in Nat /\ stopRequested \in BOOLEAN
    /\ results \in Seq(Result) /\ queued \in Seq(Actions)

\* What was run is how the whole begins, and the place says how far.
Matching ==
    /\ \A i \in 1..Len(results) :
          /\ i <= Len(Whole) /\ results[i].intent = Whole[i]
          /\ ~results[i].success /\ results[i].required => i = Len(results) /\ stopRequested
    /\ stopRequested => Len(results) > 0 /\ ~results[Len(results)].success /\ results[Len(results)].required
    /\ Running /\ ~stopRequested => Len(results) = At(step - 1) + repetition
    /\ repetition > 0 => step <= Len(sequence) /\ repetition < Repeats(Here, visible)

\* What was queued are the intents before the place.
Queueing ==
    /\ ~Running => results = <<>> /\ ~stopRequested /\ repetition = 0
    /\ mode = "queueing" => Len(queued) = step - 1
    /\ \A i \in 1..Len(queued) : queued[i] = sequence[i].intent

Phases ==
    /\ phase = "idle" => step = 1 /\ repetition = 0 /\ results = <<>> /\ queued = <<>> /\ ~stopRequested
                         /\ mode = "steps"
    /\ phase \in {"steps", "queueing"} => mode = phase
    /\ phase = "done" /\ ~stopRequested => step = Len(sequence) + 1

MacroInv == MacroType /\ Matching /\ Queueing /\ Phases

\* What the executor selects.
LEMMA SameChoice == ASSUME NEW s PROVE Macros!Selected(s) = ChosenOf(s, visible)
    BY DEF Macros!Selected, ChosenOf

\* The expansion of the sequence that is run is its meaning.
LEMMA SameMeaning ==
    ASSUME sequence \in Seq(Runnable)
    PROVE  Macros!Expansion = Whole
<1>. DEFINE pieces == PiecesOf(sequence, visible)
<1>1. Macros!Expansion = Macros!FlattenSeq(pieces)
    BY SameChoice DEF Macros!Expansion, PiecesOf, PieceOf
<1>2. Macros!FlattenSeq(pieces) = FlattenSeq(pieces)
    BY DEF Macros!FlattenSeq, FlattenSeq
<1>3. FlattenSeq(pieces) = Whole
    BY MeaningExists DEF Means, Whole, WholeOf
<1>. QED
    BY <1>1, <1>2, <1>3

\* The step that the executor is at can be run.
LEMMA HereFacts ==
    ASSUME MacroType, step <= Len(sequence)
    PROVE  /\ Here \in Runnable /\ Here.intent \in Actions /\ Here.required \in BOOLEAN
           /\ Here.repeatCount \in Nat \ {0} /\ ChosenOf(Here, visible) \in Names \cup Actions
<1>1. step \in 1..Len(sequence) /\ Len(sequence) \in Nat
    BY DEF MacroType
<1>2. Here \in Runnable
    BY <1>1 DEF MacroType, Here
<1>3. Here.intent \in Actions /\ Here.required \in BOOLEAN /\ Here.else \in Names
      /\ Here.repeatCount \in 1..KMaxRepeat
    BY <1>2, Zenon DEF Runnable
<1>4. Here.repeatCount \in Nat \ {0}
    BY <1>3, LanguageFacts
<1>5. ChosenOf(Here, visible) = Here.intent \/ ChosenOf(Here, visible) = Here.else
    BY Zenon DEF ChosenOf
<1>6. ChosenOf(Here, visible) \in Names \cup Actions
    BY <1>3, <1>5, Zenon
<1>. QED
    BY <1>2, <1>3, <1>4, <1>6, Zenon

\* The invariant holds at first.
LEMMA MacrosStart == Macros!Init => MacroInv
<1>. SUFFICES ASSUME Macros!Init PROVE MacroInv
    OBVIOUS
<1>1. sequence = <<>> /\ results = <<>> /\ queued = <<>> /\ visible = {} /\ step = 1 /\ repetition = 0
      /\ stopRequested = FALSE /\ phase = "idle" /\ mode = "steps"
    BY DEF Macros!Init
<1>2. <<>> \in Seq(Runnable) /\ <<>> \in Seq(Result) /\ <<>> \in Seq(Actions) /\ Len(<<>>) = 0
    OBVIOUS
<1>3. MacroType
  <2>1. step \in 1..Len(sequence) + 1 /\ repetition \in Nat /\ stopRequested \in BOOLEAN
    <3>1. step = 1 /\ repetition = 0 /\ stopRequested = FALSE /\ Len(sequence) = 0
        BY <1>1, <1>2, Zenon
    <3>2. stopRequested \in BOOLEAN
        BY <3>1, Zenon
    <3>3. step \in 1..Len(sequence) + 1
      <4>1. 1 \in 1..0 + 1
          OBVIOUS
      <4>. QED
          BY <3>1, <4>1, Zenon
    <3>4. 0 \in Nat
        OBVIOUS
    <3>. QED
        BY <3>1, <3>2, <3>3, <3>4, Zenon
  <2>2. phase \in {"idle", "steps", "queueing", "done", "refused"} /\ mode \in {"steps", "queueing"}
      BY <1>1
  <2>3. visible \subseteq Macros!Targets
      BY <1>1, Zenon
  <2>. QED
      BY <1>1, <1>2, <2>1, <2>2, <2>3, Zenon DEF MacroType
<1>4. At(0) = 0
    BY <1>3, Layout DEF At, MacroType
<1>5. Matching
  <2>1. At(step - 1) = 0
      BY <1>1, <1>4
  <2>. QED
      BY <1>1, <1>2, <2>1 DEF Matching
<1>6. Queueing
    BY <1>1, <1>2 DEF Queueing, Running
<1>7. Phases
    BY <1>1 DEF Phases
<1>. QED
    BY <1>3, <1>5, <1>6, <1>7 DEF MacroInv

\* A text that is refused leaves the executor alone.
LEMMA RefuseKeeps == MacroInv /\ Macros!Refuse => MacroInv'
<1>. SUFFICES ASSUME MacroInv, Macros!Refuse PROVE MacroInv'
    OBVIOUS
<1>1. phase = "idle" /\ phase' = "refused"
      /\ UNCHANGED <<sequence, visible, mode, step, repetition, results, queued, stopRequested>>
    BY DEF Macros!Refuse
<1>2. MacroType'
    BY <1>1 DEF MacroInv, MacroType
<1>3. Matching'
  <2>1. ~Running'
      BY <1>1 DEF Running
  <2>. QED
      BY <1>1, <2>1 DEF MacroInv, Matching, Whole, At, Here
<1>4. Queueing' /\ Phases'
    BY <1>1 DEF MacroInv, Queueing, Phases, Running
<1>. QED
    BY <1>2, <1>3, <1>4 DEF MacroInv

\* Nothing of an accepted text was run yet.
LEMMA AcceptKeeps == MacroInv /\ Macros!Accept => MacroInv'
<1>. SUFFICES ASSUME MacroInv, Macros!Accept PROVE MacroInv'
    OBVIOUS
<1>1. phase = "idle" /\ step = 1 /\ repetition = 0 /\ results = <<>> /\ queued = <<>> /\ ~stopRequested
    BY DEF MacroInv, Phases, Macros!Accept
<1>2. sequence' \in Seq(Runnable)
  <2>1. CASE \E text \in Texts : ~Macros!RefusedText(text) /\ sequence' = Macros!ParsedText(text)
      BY <2>1, TextParsed
  <2>2. CASE \E template \in Templates : sequence' = Macros!BuildRepeatedSequence(template)
      BY <2>2, RepeatedFacts
  <2>. QED
      BY <2>1, <2>2 DEF Macros!Accept
<1>3. PICK m \in {"steps", "queueing"} : Macros!BeginIn(m)
    BY DEF Macros!Accept
<1>4. phase' = m /\ mode' = m /\ visible' \subseteq Macros!Targets
      /\ UNCHANGED <<step, repetition, results, queued, stopRequested>>
    BY <1>3 DEF Macros!BeginIn
<1>5. step' = 1 /\ repetition' = 0 /\ results' = <<>> /\ queued' = <<>> /\ ~stopRequested'
    BY <1>1, <1>4
<1>6. Len(sequence') \in Nat /\ Len(<<>>) = 0
    BY <1>2
<1>7. MacroType'
  <2>1. step' \in 1..Len(sequence') + 1
      BY <1>5, <1>6
  <2>2. <<>> \in Seq(Result) /\ <<>> \in Seq(Actions)
      OBVIOUS
  <2>3. repetition' \in Nat /\ stopRequested' \in BOOLEAN
      BY <1>1, <1>4 DEF MacroInv, MacroType
  <2>. QED
      BY <1>2, <1>3, <1>4, <1>5, <2>1, <2>2, <2>3 DEF MacroType
<1>8. LengthOf(sequence', visible', 0) = 0
    BY <1>2, Layout
<1>9. Matching'
  <2>1. step' - 1 = 0 /\ Len(results') = 0 /\ ~(repetition' > 0)
      BY <1>5, <1>6
  <2>. QED
      BY <1>5, <1>8, <2>1 DEF Matching, At
<1>10. Queueing'
  <2>1. step' - 1 = 0 /\ Len(queued') = 0
      BY <1>5, <1>6
  <2>. QED
      BY <1>5, <2>1 DEF Queueing
<1>11. Phases'
    BY <1>3, <1>4, <1>5 DEF Phases
<1>. QED
    BY <1>7, <1>9, <1>10, <1>11 DEF MacroInv

\* A step that is queued is the next one, and nothing is run in queued mode.
LEMMA EnqueueKeeps == MacroInv /\ Macros!EnqueueStep => MacroInv'
<1>. SUFFICES ASSUME MacroInv, Macros!EnqueueStep PROVE MacroInv'
    OBVIOUS
<1>1. phase = "queueing" /\ step <= Len(sequence)
      /\ UNCHANGED <<sequence, visible, mode, repetition, results, stopRequested>>
    BY DEF Macros!EnqueueStep
<1>2. ~Running /\ mode = "queueing"
    BY <1>1 DEF MacroInv, Phases, Running
<1>3. results = <<>> /\ ~stopRequested /\ repetition = 0 /\ Len(queued) = step - 1
    BY <1>2 DEF MacroInv, Queueing
<1>4. results' = <<>> /\ ~stopRequested' /\ repetition' = 0
    BY <1>1, <1>3
<1>5. /\ sequence \in Seq(Runnable) /\ step \in 1..Len(sequence) + 1 /\ queued \in Seq(Actions)
      /\ \A i \in 1..Len(queued) : queued[i] = sequence[i].intent
    BY DEF MacroInv, MacroType, Queueing
<1>6. phase' \in {"queueing", "refused"}
    BY <1>1 DEF Macros!EnqueueStep
<1>7. ~Running'
    BY <1>1, <1>2, <1>6 DEF Running
<1>8. Matching'
  <2>1. Len(results') = 0
      BY <1>4
  <2>. QED
      BY <1>4, <1>7, <2>1 DEF Matching
<1>9. CASE queued' = Append(queued, sequence[step].intent) /\ step' = step + 1 /\ phase' = phase
  <2>1. step \in 1..Len(sequence) /\ Len(sequence) \in Nat
      BY <1>1, <1>5
  <2>. DEFINE x == sequence[step].intent
  <2>2. x \in Actions
    <3>1. sequence[step] \in Runnable
        BY <1>5, <2>1
    <3>. QED
        BY <3>1, Zenon DEF Runnable
  <2>3. queued' = Append(queued, x)
      BY <1>9
  <2>4. \A i \in 1..Len(queued) : queued[i] = sequence[i].intent
      BY <1>5
  <2>5. queued[Len(queued) + 1] = queued[Len(queued) + 1] /\ x = sequence[Len(queued) + 1].intent
    <3>1. Len(queued) + 1 = step
        BY <1>3, <2>1
    <3>. QED
        BY <3>1
  <2>6. queued \in Seq(Actions) /\ Len(queued) \in Nat
      BY <1>5
  <2>. HIDE DEF x
  <2>7. queued' \in Seq(Actions) /\ Len(queued') = Len(queued) + 1 /\ queued'[Len(queued) + 1] = x
        /\ \A i \in 1..Len(queued) : queued'[i] = queued[i]
      BY <2>2, <2>3, <2>6
  <2>8. \A i \in 1..Len(queued') : queued'[i] = sequence'[i].intent
    <3>. SUFFICES ASSUME NEW i \in 1..Len(queued') PROVE queued'[i] = sequence[i].intent
        BY <1>1
    <3>1. i = Len(queued) + 1 \/ i \in 1..Len(queued)
        BY <2>6, <2>7
    <3>. QED
        BY <2>4, <2>5, <2>7, <3>1
  <2>9. Len(queued') = step' - 1
      BY <1>3, <1>9, <2>1, <2>7
  <2>10. step' \in 1..Len(sequence') + 1
      BY <1>1, <1>9, <2>1
  <2>11. MacroType'
      BY <1>1, <1>6, <2>7, <2>10 DEF MacroInv, MacroType
  <2>12. Queueing'
      BY <1>4, <2>8, <2>9 DEF Queueing
  <2>13. Phases'
      BY <1>1, <1>2, <1>9 DEF Phases
  <2>. QED
      BY <1>8, <2>11, <2>12, <2>13 DEF MacroInv
<1>10. CASE phase' = "refused" /\ UNCHANGED <<queued, step>>
  <2>1. MacroType' /\ Queueing' /\ Phases'
      BY <1>1, <1>10 DEF MacroInv, MacroType, Queueing, Phases, Running
  <2>. QED
      BY <1>8, <2>1 DEF MacroInv
<1>. QED
    BY <1>9, <1>10 DEF Macros!EnqueueStep

\* The last step was queued.
LEMMA EndQueueKeeps == MacroInv /\ Macros!EndQueue => MacroInv'
<1>. SUFFICES ASSUME MacroInv, Macros!EndQueue PROVE MacroInv'
    OBVIOUS
<1>1. phase = "queueing" /\ step > Len(sequence) /\ phase' = "done"
      /\ UNCHANGED <<sequence, visible, mode, step, repetition, results, queued, stopRequested>>
    BY DEF Macros!EndQueue
<1>2. ~Running /\ ~Running' /\ mode = "queueing"
    BY <1>1 DEF MacroInv, Phases, Running
<1>3. MacroType'
    BY <1>1 DEF MacroInv, MacroType
<1>4. Matching'
    BY <1>1, <1>2 DEF MacroInv, Matching, Whole, At, Here
<1>5. Queueing'
    BY <1>1, <1>2 DEF MacroInv, Queueing
<1>6. step' = Len(sequence') + 1
  <2>1. step \in 1..Len(sequence) + 1 /\ Len(sequence) \in Nat
      BY DEF MacroInv, MacroType
  <2>. QED
      BY <1>1, <2>1
<1>7. Phases'
    BY <1>1, <1>6 DEF Phases
<1>. QED
    BY <1>3, <1>4, <1>5, <1>7 DEF MacroInv

\* The executor ends where the steps end or one has stopped it.
LEMMA FinishKeeps == MacroInv /\ Macros!Finish => MacroInv'
<1>. SUFFICES ASSUME MacroInv, Macros!Finish PROVE MacroInv'
    OBVIOUS
<1>1. phase = "steps" /\ (stopRequested \/ step > Len(sequence)) /\ phase' = "done"
      /\ UNCHANGED <<sequence, visible, mode, step, repetition, results, queued, stopRequested>>
    BY DEF Macros!Finish
<1>2. Running /\ Running' /\ mode = "steps"
    BY <1>1 DEF MacroInv, Phases, Running
<1>3. MacroType'
    BY <1>1 DEF MacroInv, MacroType
<1>4. Matching'
    BY <1>1, <1>2 DEF MacroInv, Matching, Whole, At, Here
<1>5. Queueing'
    BY <1>1, <1>2 DEF MacroInv, Queueing
<1>6. ~stopRequested' => step' = Len(sequence') + 1
  <2>1. step \in 1..Len(sequence) + 1 /\ Len(sequence) \in Nat
      BY DEF MacroInv, MacroType
  <2>. QED
      BY <1>1, <2>1
<1>7. Phases'
    BY <1>1, <1>6 DEF Phases
<1>. QED
    BY <1>3, <1>4, <1>5, <1>7 DEF MacroInv

\* Where the executor is when it has a step to run.
LEMMA PlaceFacts ==
    ASSUME MacroInv, Macros!AtStep
    PROVE  /\ phase = "steps" /\ mode = "steps" /\ Running /\ ~stopRequested
           /\ step \in 1..Len(sequence) /\ Len(sequence) \in Nat /\ Len(results) \in Nat /\ repetition \in Nat
           /\ Len(results) = At(step - 1) + repetition
           /\ At(step) = At(step - 1) + Repeats(Here, visible)
           /\ Repeats(Here, visible) \in Nat /\ At(step - 1) \in Nat
           /\ At(step) <= Len(Whole) /\ Len(Whole) \in Nat
           /\ \A k \in 1..Repeats(Here, visible) : Whole[At(step - 1) + k] = ChosenOf(Here, visible)
           /\ repetition > 0 => repetition < Repeats(Here, visible)
<1>1. phase = "steps" /\ step <= Len(sequence) /\ ~stopRequested
    BY DEF Macros!AtStep
<1>2. mode = "steps" /\ Running
    BY <1>1 DEF MacroInv, Phases, Running
<1>3. sequence \in Seq(Runnable) /\ step \in 1..Len(sequence) + 1 /\ results \in Seq(Result) /\ repetition \in Nat
    BY DEF MacroInv, MacroType
<1>4. Len(sequence) \in Nat /\ Len(results) \in Nat
    BY <1>3
<1>5. step \in 1..Len(sequence) /\ step - 1 \in 0..Len(sequence) /\ step \in 0..Len(sequence)
    BY <1>1, <1>3, <1>4
<1>6. Len(results) = At(step - 1) + repetition /\ (repetition > 0 => repetition < Repeats(Here, visible))
    BY <1>1, <1>2 DEF MacroInv, Matching
<1>. DEFINE s == sequence
            sh == visible
<1>7. /\ LengthOf(s, sh, step) = LengthOf(s, sh, step - 1) + Repeats(s[step], sh)
      /\ Repeats(s[step], sh) \in Nat /\ LengthOf(s, sh, step - 1) \in Nat
      /\ LengthOf(s, sh, step) <= Len(WholeOf(s, sh))
      /\ \A k \in 1..Repeats(s[step], sh) : WholeOf(s, sh)[LengthOf(s, sh, step - 1) + k] = ChosenOf(s[step], sh)
    BY <1>3, <1>5, Layout
<1>8. Len(WholeOf(s, sh)) \in Nat
  <2>1. Len(sequence) \in 0..Len(sequence)
      BY <1>4
  <2>. QED
      BY <1>3, <2>1, Layout
<1>. QED
    BY <1>1, <1>2, <1>3, <1>4, <1>5, <1>6, <1>7, <1>8 DEF At, Here, Whole

\* A step that chooses nothing stands for nothing.
LEMMA SkipKeeps == MacroInv /\ Macros!SkipStep => MacroInv'
<1>. SUFFICES ASSUME MacroInv, Macros!SkipStep PROVE MacroInv'
    OBVIOUS
<1>1. Macros!AtStep /\ ChosenOf(Here, visible) = "" /\ step' = step + 1 /\ repetition' = 0
      /\ UNCHANGED <<sequence, visible, mode, phase, results, queued, stopRequested>>
    BY SameChoice DEF Macros!SkipStep, Macros!Advance, Macros!Current, Here
<1>. DEFINE r == Repeats(Here, visible)
<1>2. r = 0
    BY <1>1 DEF Repeats
<1>3. /\ phase = "steps" /\ mode = "steps" /\ Running /\ ~stopRequested
      /\ step \in 1..Len(sequence) /\ Len(sequence) \in Nat /\ Len(results) \in Nat /\ repetition \in Nat
      /\ Len(results) = At(step - 1) + repetition
      /\ At(step) = At(step - 1) + r /\ At(step - 1) \in Nat
      /\ repetition > 0 => repetition < r
    BY <1>1, PlaceFacts, Zenon
<1>4. Len(results) = At(step)
    BY <1>2, <1>3
<1>5. step' - 1 = step /\ ~(repetition' > 0) /\ step' \in 1..Len(sequence) + 1
  <2>1. step \in 1..Len(sequence) /\ Len(sequence) \in Nat /\ step' = step + 1 /\ repetition' = 0
      BY <1>1, <1>3, Zenon
  <2>. QED
      BY <2>1
<1>6. Len(results') = LengthOf(sequence', visible', step' - 1) + repetition'
  <2>1. LengthOf(sequence', visible', step' - 1) = At(step)
      BY <1>1, <1>5, Zenon DEF At
  <2>2. Len(results') = At(step) /\ repetition' = 0 /\ Len(results) \in Nat
      BY <1>1, <1>3, <1>4, Zenon
  <2>3. At(step) + 0 = At(step)
      BY <1>3, <1>4
  <2>. QED
      BY <2>1, <2>2, <2>3, Zenon
<1>7. MacroType'
  <2>1. repetition' \in Nat
      BY <1>1
  <2>. QED
      BY <1>1, <1>5, <2>1 DEF MacroInv, MacroType
<1>8. Matching'
  <2>1. \A i \in 1..Len(results) : i <= Len(Whole) /\ results[i].intent = Whole[i]
                                  /\ (~results[i].success /\ results[i].required => i = Len(results) /\ stopRequested)
      BY DEF MacroInv, Matching
  <2>. QED
      BY <1>1, <1>3, <1>5, <1>6, <2>1, Zenon DEF Matching, Whole, At
<1>9. Queueing'
    BY <1>1, <1>3 DEF MacroInv, Queueing, Running
<1>10. Phases'
    BY <1>1, <1>3 DEF Phases
<1>. QED
    BY <1>7, <1>8, <1>9, <1>10 DEF MacroInv

\* What is known when a step is run once.
Ran(success) ==
    /\ Macros!AtStep /\ ChosenOf(Here, visible) # ""
    /\ results' = Append(results, [intent |-> ChosenOf(Here, visible), required |-> Here.required, success |-> success])
    /\ stopRequested' = (~success /\ Here.required)
    /\ IF repetition + 1 < Here.repeatCount /\ ~stopRequested'
       THEN repetition' = repetition + 1 /\ step' = step
       ELSE step' = step + 1 /\ repetition' = 0
    /\ UNCHANGED <<sequence, visible, mode, phase, queued>>

\* RunStep by what it does to the variables.
LEMMA RanOnce == Macros!RunStep => \E success \in BOOLEAN : Ran(success)
<1>. SUFFICES ASSUME Macros!RunStep PROVE \E success \in BOOLEAN : Ran(success)
    OBVIOUS
<1>1. PICK success \in BOOLEAN :
          /\ results' = Append(results, [intent |-> ChosenOf(Here, visible), required |-> Here.required, success |-> success])
          /\ stopRequested' = (~success /\ Here.required)
    BY SameChoice DEF Macros!RunStep, Macros!Current, Macros!StopsSequence, Here
<1>2. /\ Macros!AtStep /\ ChosenOf(Here, visible) # ""
      /\ IF repetition + 1 < Here.repeatCount /\ ~stopRequested'
         THEN repetition' = repetition + 1 /\ step' = step
         ELSE step' = step + 1 /\ repetition' = 0
      /\ UNCHANGED <<sequence, visible, mode, phase, queued>>
    BY SameChoice DEF Macros!RunStep, Macros!Current, Macros!Advance, Here
<1>. QED
    BY <1>1, <1>2 DEF Ran

\* The place after a run is as far in the whole as what was run.
LEMMA PlaceMoves ==
    ASSUME MacroInv, NEW success \in BOOLEAN, Ran(success)
    PROVE  /\ Len(results) + 1 <= Len(Whole) /\ Whole[Len(results) + 1] = ChosenOf(Here, visible)
           /\ step' \in 1..Len(sequence) + 1 /\ repetition' \in Nat
           /\ ~stopRequested' => Len(results) + 1 = LengthOf(sequence, visible, step' - 1) + repetition'
           /\ repetition' > 0 => step' = step /\ step <= Len(sequence) /\ repetition' < Repeats(Here, visible)
<1>. DEFINE r == Repeats(Here, visible)
            a == At(step - 1)
            l == Len(results)
            n == Len(sequence)
            w == Len(Whole)
            b == At(step)
<1>1. /\ step \in 1..n /\ n \in Nat /\ l \in Nat /\ repetition \in Nat
      /\ l = a + repetition
      /\ b = a + r /\ r \in Nat /\ a \in Nat /\ b <= w /\ w \in Nat
      /\ repetition > 0 => repetition < r
    BY PlaceFacts, Zenon DEF Ran
<1>2. \A k \in 1..r : Whole[a + k] = ChosenOf(Here, visible)
    BY PlaceFacts, Zenon DEF Ran
<1>3. r = Here.repeatCount
    BY DEF Ran, Repeats
<1>4. r # 0
  <2>1. MacroType /\ step <= Len(sequence)
      BY <1>1 DEF MacroInv
  <2>2. Here.repeatCount \in Nat \ {0}
      BY <2>1, HereFacts, Zenon
  <2>. QED
      BY <1>3, <2>2
<1>5. IF repetition + 1 < r /\ ~stopRequested' THEN repetition' = repetition + 1 /\ step' = step
                                               ELSE step' = step + 1 /\ repetition' = 0
    BY <1>3, Zenon DEF Ran
<1>. HIDE DEF r, l, n, w
<1>6. repetition + 1 \in 1..r /\ l + 1 = a + (repetition + 1) /\ l + 1 <= w
    BY <1>1, <1>4
<1>7. Whole[l + 1] = ChosenOf(Here, visible)
  <2>. HIDE DEF a
  <2>1. Whole[a + (repetition + 1)] = ChosenOf(Here, visible)
      BY <1>2, <1>6
  <2>. QED
      BY <1>6, <2>1
<1>8. step' \in 1..n + 1 /\ repetition' \in Nat
  <2>. HIDE DEF a, b
  <2>. QED
      BY <1>1, <1>5
<1>9. ~stopRequested' => l + 1 = LengthOf(sequence, visible, step' - 1) + repetition'
  <2>1. CASE repetition + 1 < r /\ ~stopRequested'
    <3>1. step' = step /\ repetition' = repetition + 1
        BY <1>5, <2>1, Zenon
    <3>2. a = LengthOf(sequence, visible, step' - 1)
        BY <3>1, Zenon DEF At
    <3>. QED
        BY <1>6, <3>1, <3>2, Zenon
  <2>2. CASE ~(repetition + 1 < r) /\ ~stopRequested'
    <3>1. step' = step + 1 /\ repetition' = 0
        BY <1>5, <2>2, Zenon
    <3>. HIDE DEF a, b
    <3>2. step' - 1 = step
        BY <1>1, <3>1
    <3>3. l + 1 = b + 0
        BY <1>1, <1>6, <2>2
    <3>. QED
        BY <3>1, <3>2, <3>3, Zenon DEF At, b
  <2>. QED
      BY <2>1, <2>2
<1>10. repetition' > 0 => step' = step /\ step <= n /\ repetition' < r
  <2>. HIDE DEF a, b
  <2>. QED
      BY <1>1, <1>5
<1>. QED
    BY <1>6, <1>7, <1>8, <1>9, <1>10, Zenon DEF r, l, n, w

\* What is run is what comes next in the meaning.
LEMMA RunKeeps == MacroInv /\ Macros!RunStep => MacroInv'
<1>. SUFFICES ASSUME MacroInv, NEW success \in BOOLEAN, Ran(success) PROVE MacroInv'
    BY RanOnce
<1>. DEFINE x == [intent |-> ChosenOf(Here, visible), required |-> Here.required, success |-> success]
            l == Len(results)
<1>1. /\ results' = Append(results, x) /\ stopRequested' = (~x.success /\ x.required)
      /\ UNCHANGED <<sequence, visible, mode, phase, queued>>
    BY DEF Ran
<1>2. phase = "steps" /\ mode = "steps" /\ Running /\ ~stopRequested /\ step \in 1..Len(sequence)
    BY PlaceFacts, Zenon DEF Ran
<1>3. results \in Seq(Result) /\ l \in Nat
  <2>1. results \in Seq(Result)
      BY DEF MacroInv, MacroType
  <2>2. \A s \in Seq(Result) : Len(s) \in Nat
      OBVIOUS
  <2>. QED
      BY <2>1, <2>2
<1>4. x \in Result /\ Here.required \in BOOLEAN
  <2>1. MacroType /\ step <= Len(sequence)
      BY DEF Ran, Macros!AtStep, MacroInv
  <2>2. Here.required \in BOOLEAN /\ ChosenOf(Here, visible) \in Names \cup Actions
      BY <2>1, HereFacts, Zenon
  <2>. QED
      BY <2>2 DEF Result
<1>5. /\ l + 1 <= Len(Whole) /\ Whole[l + 1] = x.intent
      /\ step' \in 1..Len(sequence) + 1 /\ repetition' \in Nat
      /\ ~stopRequested' => l + 1 = LengthOf(sequence, visible, step' - 1) + repetition'
      /\ repetition' > 0 => step' = step /\ step <= Len(sequence) /\ repetition' < Repeats(Here, visible)
  <2>1. x.intent = ChosenOf(Here, visible)
      OBVIOUS
  <2>. QED
      BY <2>1, PlaceMoves, Zenon
<1>. HIDE DEF x
<1>6. /\ results' \in Seq(Result) /\ Len(results') = l + 1 /\ results'[l + 1] = x
      /\ \A i \in 1..l : results'[i] = results[i]
  <2>. DEFINE R == Result
  <2>1. results \in Seq(R) /\ x \in R /\ results' = Append(results, x)
      BY <1>1, <1>3, <1>4
  <2>. HIDE DEF R
  <2>2. /\ results' \in Seq(R) /\ Len(results') = Len(results) + 1 /\ results'[Len(results) + 1] = x
        /\ \A i \in 1..Len(results) : results'[i] = results[i]
      BY <2>1
  <2>. QED
      BY <2>2 DEF R
<1>7. MacroType'
  <2>1. stopRequested' \in BOOLEAN
      BY <1>1
  <2>. QED
      BY <1>1, <1>5, <1>6, <2>1, Zenon DEF MacroInv, MacroType
<1>8. \A i \in 1..Len(results') :
         /\ i <= Len(Whole) /\ results'[i].intent = Whole[i]
         /\ ~results'[i].success /\ results'[i].required => i = Len(results') /\ stopRequested'
  <2>. SUFFICES ASSUME NEW i \in 1..l + 1
                PROVE  /\ i <= Len(Whole) /\ results'[i].intent = Whole[i]
                       /\ ~results'[i].success /\ results'[i].required => i = l + 1 /\ stopRequested'
      BY <1>6, Zenon
  <2>1. i = l + 1 \/ i \in 1..l
      BY <1>3
  <2>2. \A j \in 1..l : j <= Len(Whole) /\ results[j].intent = Whole[j]
                        /\ (~results[j].success /\ results[j].required => stopRequested)
      BY DEF MacroInv, Matching
  <2>. QED
      BY <1>1, <1>2, <1>5, <1>6, <2>1, <2>2, Zenon
<1>9. Matching'
  <2>1. Whole' = Whole
      BY <1>1 DEF Whole
  <2>2. stopRequested' => Len(results') > 0 /\ ~results'[Len(results')].success /\ results'[Len(results')].required
    <3>1. l + 1 > 0
        BY <1>3
    <3>. QED
        BY <1>1, <1>6, <3>1, Zenon
  <2>3. ~stopRequested' => Len(results') = LengthOf(sequence', visible', step' - 1) + repetition'
      BY <1>1, <1>5, <1>6, Zenon
  <2>4. repetition' > 0 => step' <= Len(sequence') /\ repetition' < Repeats(sequence'[step'], visible')
      BY <1>1, <1>5, Zenon DEF Here
  <2>. QED
      BY <1>8, <2>1, <2>2, <2>3, <2>4, Zenon DEF Matching, At, Here
<1>10. Queueing'
    BY <1>1, <1>2 DEF MacroInv, Queueing, Running
<1>11. Phases'
    BY <1>1, <1>2, Zenon DEF Phases
<1>. QED
    BY <1>7, <1>9, <1>10, <1>11 DEF MacroInv

\* Every step of the executor keeps the invariant.
LEMMA MacrosKept == MacroInv /\ [Macros!Next]_macroVars => MacroInv'
<1>. SUFFICES ASSUME MacroInv, [Macros!Next]_macroVars PROVE MacroInv'
    OBVIOUS
<1>1. CASE Macros!Next
    BY <1>1, RefuseKeeps, AcceptKeeps, EnqueueKeeps, EndQueueKeeps, SkipKeeps, RunKeeps, FinishKeeps, Zenon DEF Macros!Next
<1>2. CASE UNCHANGED macroVars
    BY <1>2 DEF macroVars, MacroInv, MacroType, Matching, Queueing, Phases, Running, Whole, At, Here
<1>. QED
    BY <1>1, <1>2

\* Every suite step is a step of the executor, or leaves it alone.
LEMMA SuiteMovesMacros == [SuiteNext]_suiteVars => [Macros!Next]_macroVars
    BY Zenon DEF SuiteNext, suiteVars

-----------------------------------------------------------------------------
\* What the invariant says at the end.

\* The types of the meaning and of the results.
LEMMA WholeFacts ==
    ASSUME MacroInv
    PROVE  /\ Macros!Expansion = Whole /\ Len(Whole) \in Nat /\ Len(sequence) \in Nat
           /\ Len(results) \in Nat /\ DOMAIN results = 1..Len(results) /\ Len(Whole) = At(Len(sequence))
<1>1. sequence \in Seq(Runnable) /\ results \in Seq(Result)
    BY DEF MacroInv, MacroType
<1>2. Len(sequence) \in Nat /\ Len(sequence) \in 0..Len(sequence)
    BY <1>1
<1>3. LengthOf(sequence, visible, Len(sequence)) \in Nat
      /\ Len(WholeOf(sequence, visible)) = LengthOf(sequence, visible, Len(sequence))
    BY <1>1, <1>2, Layout
<1>4. Len(results) \in Nat /\ DOMAIN results = 1..Len(results)
  <2>. DEFINE R == Result
  <2>1. results \in Seq(R)
      BY <1>1
  <2>. HIDE DEF R
  <2>. QED
      BY <2>1
<1>. QED
    BY <1>1, <1>2, <1>3, <1>4, SameMeaning DEF At, Whole

\* A result that is a success has only successes.
LEMMA SuccessOfAll ==
    ASSUME MacroInv, Macros!Success, NEW i \in 1..Len(results)
    PROVE  results[i].success
<1>. DEFINE n == Len(results)
            good == {j \in 1..n : results[j].success}
<1>1. n \in Nat /\ DOMAIN results = 1..n
    BY WholeFacts
<1>2. Cardinality(good) = n
  <2>1. Macros!Cardinality(good) = Cardinality(good)
      BY DEF Macros!Cardinality, Cardinality
  <2>2. n # 0
      BY <1>1
  <2>3. Macros!Cardinality(good) = n
      BY <1>1, <2>2 DEF Macros!Success, Macros!AttemptedSteps, Macros!CompletedSteps
  <2>. QED
      BY <2>1, <2>3
<1>3. IsFiniteSet(1..n) /\ Cardinality(1..n) = n
  <2>. HIDE DEF n
  <2>. QED
      BY <1>1, FS_Interval
<1>4. good = 1..n
  <2>1. good \subseteq 1..n
      OBVIOUS
  <2>. HIDE DEF good, n
  <2>. QED
      BY <1>2, <1>3, <2>1, FS_Subset
<1>. QED
    BY <1>4

\* What was run is how the expansion begins, and all of it at the end unless a required step failed.
LEMMA RunAsMeant == MacroInv => Macros!RunsTheExpansion
<1>. SUFFICES ASSUME MacroInv PROVE Macros!RunsTheExpansion
    OBVIOUS
<1>. DEFINE l == Len(results)
            w == Len(Whole)
<1>1. Macros!Expansion = Whole /\ w \in Nat /\ Len(sequence) \in Nat /\ l \in Nat /\ DOMAIN results = 1..l
      /\ w = At(Len(sequence))
    BY WholeFacts
<1>2. /\ \A i \in 1..l : i <= w /\ results[i].intent = Whole[i]
                         /\ (~results[i].success /\ results[i].required => i = l /\ stopRequested)
      /\ stopRequested => l > 0 /\ ~results[l].success /\ results[l].required
      /\ Running /\ ~stopRequested => l = At(step - 1) + repetition
      /\ repetition > 0 => step <= Len(sequence)
    BY DEF MacroInv, Matching
<1>3. l <= w
  <2>1. CASE l = 0
      BY <1>1, <2>1
  <2>2. CASE l # 0
    <3>1. l \in 1..l
        BY <1>1, <2>2
    <3>. QED
        BY <1>2, <3>1, Zenon
  <2>. QED
      BY <2>1, <2>2
<1>4. stopRequested => ~Macros!Last(results).success /\ Macros!Last(results).required
    BY <1>2, Zenon DEF Macros!Last
<1>5. ASSUME phase = "done", mode = "steps", Macros!Success \/ ~stopRequested PROVE l = w
  <2>1. ~stopRequested
    <3>. SUFFICES ASSUME stopRequested, Macros!Success PROVE FALSE
        BY <1>5
    <3>1. l > 0 /\ l \in Nat
        BY <1>1, <1>2, Zenon
    <3>2. l \in 1..l
      <4>. HIDE DEF l
      <4>. QED
          BY <3>1
    <3>. QED
        BY <1>2, <3>2, SuccessOfAll
  <2>2. l = At(step - 1) + repetition /\ step = Len(sequence) + 1
      BY <1>2, <1>5, <2>1 DEF Running, MacroInv, Phases
  <2>3. repetition = 0 /\ step - 1 = Len(sequence)
    <3>1. repetition \in Nat
        BY DEF MacroInv, MacroType
    <3>2. ~(repetition > 0) /\ step - 1 = Len(sequence)
      <4>1. ~(step <= Len(sequence)) /\ step - 1 = Len(sequence)
        <5>1. step = Len(sequence) + 1 /\ Len(sequence) \in Nat
            BY <1>1, <2>2, Zenon
        <5>. QED
            BY <5>1
      <4>. QED
          BY <1>2, <4>1, Zenon
    <3>. QED
        BY <3>1, <3>2
  <2>4. l = w + 0
      BY <1>1, <2>2, <2>3, Zenon
  <2>. HIDE DEF l, w
  <2>. QED
      BY <1>1, <2>4
<1>. HIDE DEF w
<1>. QED
    BY <1>1, <1>2, <1>3, <1>4, <1>5, Zenon DEF Macros!RunsTheExpansion, Macros!AttemptedSteps, w

\* A step is never repeated more often than its count says.
LEMMA MacroTyped == MacroInv => Macros!TypeOK
<1>. SUFFICES ASSUME MacroInv PROVE Macros!TypeOK
    OBVIOUS
<1>1. /\ sequence \in Seq(Runnable) /\ visible \subseteq Macros!Targets
      /\ phase \in {"idle", "steps", "queueing", "done", "refused"}
      /\ step \in 1..Len(sequence) + 1 /\ repetition \in Nat /\ stopRequested \in BOOLEAN
    BY DEF MacroInv, MacroType
<1>2. repetition < KMaxRepeat
  <2>1. CASE repetition = 0
      BY <2>1, LanguageFacts
  <2>2. CASE repetition # 0
    <3>1. step <= Len(sequence) /\ repetition < Repeats(Here, visible)
      <4>1. repetition > 0
          BY <1>1, <2>2
      <4>. QED
          BY <4>1 DEF MacroInv, Matching
    <3>2. MacroType
        BY DEF MacroInv
    <3>3. Here \in Runnable
        BY <3>1, <3>2, HereFacts, Zenon
    <3>4. Here.repeatCount \in 1..KMaxRepeat
        BY <3>3, Zenon DEF Runnable
    <3>5. Repeats(Here, visible) = 0 \/ Repeats(Here, visible) = Here.repeatCount
        BY Zenon DEF Repeats
    <3>. QED
        BY <1>1, <2>2, <3>1, <3>4, <3>5, LanguageFacts
  <2>. QED
      BY <2>1, <2>2
<1>3. ASSUME NEW i \in DOMAIN sequence
      PROVE  sequence[i].intent \in DOMAIN Macros!RequiredArgs /\ sequence[i].repeatCount \in 1..KMaxRepeat
  <2>1. sequence[i] \in Runnable
      BY <1>1
  <2>. QED
      BY <2>1, Zenon DEF Runnable, Actions
<1>. QED
    BY <1>1, <1>2, <1>3, Zenon DEF Macros!TypeOK

\* Of plain steps, the first i mean i actions.
LEMMA PlainLayout ==
    ASSUME NEW s \in Seq(Runnable), NEW shown,
           \A i \in 1..Len(s) : Repeats(s[i], shown) = 1,
           NEW i \in 0..Len(s)
    PROVE  LengthOf(s, shown, i) = i
<1>. DEFINE n == Len(s)
            T == {m \in Nat : m <= n => LengthOf(s, shown, m) = m}
<1>1. n \in Nat
    OBVIOUS
<1>2. /\ LengthOf(s, shown, 0) = 0
      /\ \A j \in 1..n : LengthOf(s, shown, j) = LengthOf(s, shown, j - 1) + Repeats(s[j], shown)
    BY Layout
<1>3. 0 \in T
    BY <1>2
<1>4. ASSUME NEW m \in Nat, m \in T PROVE m + 1 \in T
  <2>. SUFFICES ASSUME m + 1 <= n PROVE LengthOf(s, shown, m + 1) = m + 1
      OBVIOUS
  <2>. HIDE DEF n
  <2>1. m + 1 \in 1..n /\ (m + 1) - 1 = m /\ m <= n
      BY <1>1
  <2>2. LengthOf(s, shown, m + 1) = LengthOf(s, shown, (m + 1) - 1) + Repeats(s[m + 1], shown)
      BY <1>2, <2>1, Zenon
  <2>3. Repeats(s[m + 1], shown) = 1
      BY <2>1, Zenon DEF n
  <2>4. LengthOf(s, shown, m) = m
      BY <1>4, <2>1
  <2>. QED
      BY <2>1, <2>2, <2>3, <2>4, Zenon
<1>5. Nat \subseteq T
  <2>. HIDE DEF T
  <2>. QED
      BY <1>3, <1>4, SetInduction
<1>. HIDE DEF n
<1>6. i \in Nat /\ i <= n
    BY <1>1 DEF n
<1>7. i \in T
    BY <1>5, <1>6
<1>. QED
    BY <1>6, <1>7

\* A sequence of members of a set is one of members of a larger set.
LEMMA Widened == ASSUME NEW A, NEW B, A \subseteq B, NEW s \in Seq(A) PROVE s \in Seq(B)
<1>1. Len(s) \in Nat /\ s = [i \in 1..Len(s) |-> s[i]] /\ \A i \in 1..Len(s) : s[i] \in A
    OBVIOUS
<1>. DEFINE n == Len(s)
            t == [i \in 1..n |-> s[i]]
<1>2. \A i \in 1..n : s[i] \in B
    BY <1>1
<1>3. n \in Nat /\ s = t
    BY <1>1
<1>. HIDE DEF n
<1>4. t \in Seq(B)
    BY <1>2, <1>3
<1>. QED
    BY <1>3, <1>4

\* What was queued of plain steps is the expansion.
LEMMA QueuedAsMeant == MacroInv => Macros!QueuedAsWritten
<1>. DEFINE n == Len(sequence)
            plain == \A i \in DOMAIN sequence : sequence[i].condition = "" /\ sequence[i].repeatCount = 1
<1>. SUFFICES ASSUME MacroInv, phase = "done", mode = "queueing", plain PROVE queued = Macros!Expansion
    BY DEF Macros!QueuedAsWritten
<1>. HIDE DEF plain
<1>1. Macros!Expansion = Whole /\ n \in Nat /\ Len(Whole) = At(n)
    BY WholeFacts
<1>2. /\ sequence \in Seq(Runnable) /\ queued \in Seq(Actions)
      /\ DOMAIN sequence = 1..n /\ \A i \in 1..n : sequence[i] \in Runnable
  <2>. DEFINE R == Runnable
  <2>1. sequence \in Seq(R) /\ queued \in Seq(Actions)
      BY DEF MacroInv, MacroType
  <2>. HIDE DEF R
  <2>2. DOMAIN sequence = 1..n /\ \A i \in 1..n : sequence[i] \in R
      BY <2>1
  <2>. QED
      BY <2>1, <2>2 DEF R
<1>3. Len(queued) = n /\ \A i \in 1..n : queued[i] = sequence[i].intent
  <2>1. ~Running
      BY DEF Running
  <2>2. ~stopRequested /\ Len(queued) = step - 1 /\ \A i \in 1..Len(queued) : queued[i] = sequence[i].intent
      BY <2>1 DEF MacroInv, Queueing
  <2>3. step = n + 1
      BY <2>2 DEF MacroInv, Phases
  <2>4. Len(queued) = n
    <3>1. n \in Nat /\ step = n + 1
        BY <1>1, <2>3
    <3>2. step - 1 = n
      <4>. HIDE DEF n
      <4>. QED
          BY <3>1
    <3>. QED
        BY <2>2, <3>2, Zenon
  <2>. QED
      BY <2>2, <2>4
<1>4. ASSUME NEW i \in 1..n
      PROVE  ChosenOf(sequence[i], visible) = sequence[i].intent /\ Repeats(sequence[i], visible) = 1
  <2>1. ChosenOf(sequence[i], visible) = sequence[i].intent
      BY <1>2, Zenon DEF ChosenOf, plain
  <2>2. sequence[i].intent # ""
    <3>1. sequence[i] \in Runnable
        BY <1>2
    <3>2. sequence[i].intent \in Actions
        BY <3>1, Zenon DEF Runnable
    <3>3. "" \notin Actions
        BY DEF Actions, Macros!RequiredArgs
    <3>. QED
        BY <3>2, <3>3, Zenon
  <2>3. sequence[i].repeatCount = 1
      BY <1>2, Zenon DEF plain
  <2>. QED
      BY <2>1, <2>2, <2>3, Zenon DEF Repeats
<1>5. \A i \in 0..n : LengthOf(sequence, visible, i) = i
    BY <1>2, <1>4, PlainLayout
<1>6. Len(Whole) = n
  <2>1. n \in 0..n
    <3>1. n \in Nat
        BY <1>1
    <3>. HIDE DEF n
    <3>. QED
        BY <3>1
  <2>. QED
      BY <1>1, <1>5, <2>1 DEF At
<1>7. ASSUME NEW i \in 1..n PROVE Whole[i] = queued[i]
  <2>1. Repeats(sequence[i], visible) = 1 /\ 1 \in 1..1
    <3>1. 1 \in 1..1
        OBVIOUS
    <3>. QED
        BY <1>4, <3>1, Zenon
  <2>2. Whole[LengthOf(sequence, visible, i - 1) + 1] = ChosenOf(sequence[i], visible)
      BY <1>2, <2>1, Layout DEF Whole
  <2>3. LengthOf(sequence, visible, i - 1) = i - 1 /\ (i - 1) + 1 = i
    <3>1. i - 1 \in 0..n /\ (i - 1) + 1 = i
      <4>1. n \in Nat
          BY <1>1
      <4>. HIDE DEF n
      <4>. QED
          BY <4>1
    <3>. QED
        BY <1>5, <3>1
  <2>. QED
      BY <1>3, <1>4, <2>2, <2>3
<1>8. Whole = queued
  <2>. DEFINE S == ChosenActions(sequence, visible) \cup Actions
  <2>1. Whole \in Seq(ChosenActions(sequence, visible))
      BY <1>2, Layout DEF Whole
  <2>2. ChosenActions(sequence, visible) \subseteq S /\ Actions \subseteq S
      OBVIOUS
  <2>. HIDE DEF S
  <2>4. Whole \in Seq(S) /\ queued \in Seq(S)
      BY <1>2, <2>1, <2>2, Widened
  <2>. HIDE DEF S
  <2>. QED
      BY <1>3, <1>6, <1>7, <2>4, SeqEqual
<1>. QED
    BY <1>1, <1>8

-----------------------------------------------------------------------------
\* Whichever part moves, it is a behaviour of the engine and of Act.

SuiteInv == EngineInv /\ ActsInv /\ MemInv

LEMMA BoundOfActs == MaxActs \in Nat
    BY SuiteAssumption DEF Acts!ActionAssumption

LEMMA SuiteStart == SuiteInit => Init /\ Acts!Init /\ SuiteInv
    BY EngineInit, ActsStart, MemoriesStart, BoundOfActs DEF SuiteInit, SuiteInv

\* A step of the suite is one of the engine and one of Act, as far as their variables go.
LEMMA SuiteSteps == [SuiteNext]_suiteVars => part' = part /\ [Next]_vars /\ [Acts!Next]_actVars
    BY DEF SuiteNext, suiteVars, Calls, Recovery, ActsAlone, ActsTogether

LEMMA SuiteStep == SuiteInv /\ [SuiteNext]_suiteVars => SuiteInv'
    BY SuiteSteps, EngineStep, ActsStep, MemoriesKept, BoundOfActs DEF SuiteInv

LEMMA SuiteRunsEngine == SuiteSpec => Spec
    BY SuiteStart, SuiteSteps, PTL DEF SuiteSpec, Spec

\* No adapter executes an intent more often than its retries allow, in either part of the engine.
THEOREM BudgetKept == SuiteSpec => []BudgetIsKept
<1>1. AttemptBudget => BudgetIsKept
    BY DEF BudgetIsKept
<1>. QED
    BY <1>1, SuiteRunsEngine, WithinBudget, PTL

\* What the fast path remembers and what a call returns was done by the adapter they name.
THEOREM SuccessSeenBySuite == SuiteSpec => []SuccessWasSeen
<1>1. TypeOK /\ (SuccessIsEarned /\ FastPathEarned) => SuccessWasSeen
    BY DEF SuccessWasSeen
<1>. QED
    BY <1>1, SuiteRunsEngine, TypeCorrect, SuccessSeen, PTL

\* What was reported done is not done again.
THEOREM DoneOnlyOnce == SuiteSpec => DoneOnce
    BY SuiteRunsEngine, NotRepeated DEF DoneOnce

\* What the fast path chooses worked before on that snapshot, and an eviction takes the oldest.
THEOREM FastPathSafe == SuiteSpec => FastPathIsSound
    BY SuiteRunsEngine, ChosenSoundly, EvictedInOrder DEF FastPathIsSound

\* Act stays within its bounds and order, on however many nodes and with however many clients: it
\* executes what was revealed, nothing after an execution that was verified, and reports as done
\* what was verified on the node it reports.
THEOREM RecoveryKept == SuiteSpec => RecoveryIsSound
<1>1. SuiteInv => (Acting => Acts!TypeOK /\ Acts!BoundedRecovery /\ Acts!AlternateIsOther /\ Acts!SuccessIsVerified)
    BY ActsImply, MemoriesImply, BoundOfActs DEF SuiteInv
<1>2. SuiteInv /\ [SuiteNext]_suiteVars => ActsCarefully
    BY SuiteSteps, CarefulStep DEF SuiteInv
<1>3. ActsCarefully =>
        /\ [\A c \in Clients : act[c].last = "verified" /\ act'[c].pc # "idle" => act'[c].calls = act[c].calls]_Acts!vars
        /\ [\A c \in Clients : act'[c].calls > act[c].calls => act[c].revealed \/ act[c].steps = <<>>]_Acts!vars
    BY DEF ActsCarefully
<1>. HIDE DEF SuiteInv, ActsCarefully
<1>. QED
    BY <1>1, <1>2, <1>3, SuiteStart, SuiteStep, PTL
       DEF SuiteSpec, RecoveryIsSound, Acts!NothingAfterVerified, Acts!ExecutedWhenRevealed

\* The two memories count the same Acts, for the node of each result, with any number of clients.
THEOREM MemoriesAlwaysAgree == SuiteSpec => []MemoriesAgree
<1>1. SuiteInv => MemoriesAgree
    BY MemoriesImply, BoundOfActs DEF SuiteInv, MemoriesAgree
<1>. QED
    BY <1>1, SuiteStart, SuiteStep, PTL DEF SuiteSpec

\* A macro is run as it was written: the results are, one by one, how the expansion of its text
\* begins, all of it unless a required step failed; queued, plain steps come in the same order; and
\* no step is repeated more often than KMaxRepeat (MacroExecutor::Execute, the stream endpoint).
THEOREM MacrosRun == SuiteSpec => []RunsTheExpansion
<1>1. SuiteInit => MacroInv
    BY MacrosStart DEF SuiteInit
<1>2. MacroInv /\ [SuiteNext]_suiteVars => MacroInv'
    BY SuiteMovesMacros, MacrosKept
<1>3. MacroInv => RunsTheExpansion
    BY MacroTyped, RunAsMeant, QueuedAsMeant DEF RunsTheExpansion
<1>. QED
    BY <1>1, <1>2, <1>3, PTL DEF SuiteSpec
=============================================================================
