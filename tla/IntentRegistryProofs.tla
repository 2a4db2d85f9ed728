------------------------ MODULE IntentRegistryProofs ------------------------
(***************************************************************************)
(* Theorems about IntentRegistry, for any number of threads and queries    *)
(* and any cache limit: types, the coherence of the resolution cache, one  *)
(* capture behind each source, the bound on the cache and the refinement   *)
(* of AtomicResolution.                                                    *)
(***************************************************************************)
EXTENDS IntentRegistry, FiniteSetTheorems, TLAPS

\* The content of the registry is well typed.
LEMMA ContentType ==
    ASSUME TypeOK
    PROVE  Content \in Contents
    BY DEF TypeOK, Content, Contents, Snapshot

\* What is built from a snapshot is an intent, and a kind refreshes sources.
LEMMA BuiltType ==
    ASSUME NEW s \in Snapshot, NEW kind \in Kinds, intents \subseteq BuiltIntents
    PROVE  ReplaceIntentsBySource(kind, s) \subseteq BuiltIntents
<1>1. Refreshed(kind) \subseteq Sources
    BY DEF Refreshed, Kinds, Sources
<1>2. \A source \in Sources : Built(source, s) \in BuiltIntents
    BY DEF Built, BuiltIntents, Snapshot
<1>. QED
    BY <1>1, <1>2 DEF ReplaceIntentsBySource

\* A cache after eviction holds nothing it did not hold before.
LEMMA EvictedSubset ==
    ASSUME NEW c, NEW d \in Evicted(c)
    PROVE  d \subseteq c
    BY DEF Evicted

\* The registry is well typed initially.
LEMMA TypeInit == Init => TypeOK
    BY DEF Init, TypeOK, Snapshot, NoSnapshot, NoCapture, Kinds, Sources

\* Every step keeps the types.
LEMMA TypeStep ==
    ASSUME TypeOK, [Next]_vars
    PROVE  TypeOK'
<1>. USE DEF TypeOK, desktopVars, registryVars
<1>1. CASE WindowsChange
    BY <1>1 DEF WindowsChange
<1>2. CASE FilesChange
    BY <1>2 DEF FilesChange
<1>3. ASSUME NEW t \in Threads, NEW kind \in Kinds, BeginRefresh(t, kind)
      PROVE  TypeOK'
    BY <1>3 DEF BeginRefresh, NoSnapshot, Snapshot
<1>4. ASSUME NEW t \in Threads, CaptureWindows(t)
      PROVE  TypeOK'
    BY <1>4 DEF CaptureWindows, Snapshot
<1>5. ASSUME NEW t \in Threads, CaptureFiles(t)
      PROVE  TypeOK'
    BY <1>5 DEF CaptureFiles, Snapshot
<1>6. ASSUME NEW t \in Threads, GiveUpRefresh(t)
      PROVE  TypeOK'
    BY <1>6 DEF GiveUpRefresh, NoCapture, NoSnapshot, Snapshot, Kinds
<1>7. ASSUME NEW t \in Threads, Install(t)
      PROVE  TypeOK'
  <2>1. capture[t].snapshot \in Snapshot /\ capture[t].kind \in Kinds
    OBVIOUS
  <2>2. intents' \subseteq BuiltIntents
    BY <1>7, <2>1, BuiltType DEF Install
  <2>3. NoCapture \in [kind : Kinds, snapshot : Snapshot]
    BY DEF NoCapture, NoSnapshot, Snapshot, Kinds
  <2>. QED
    BY <1>7, <2>1, <2>2, <2>3 DEF Install
<1>8. ASSUME NEW t \in Threads, RecordInteraction(t)
      PROVE  TypeOK'
    BY <1>8 DEF RecordInteraction
<1>9. ASSUME NEW t \in Threads, NEW q \in Queries, CacheHit(t, q)
      PROVE  TypeOK'
    BY <1>9 DEF CacheHit
<1>10. ASSUME NEW t \in Threads, NEW q \in Queries, CacheMiss(t, q)
       PROVE  TypeOK'
  <2>1. [key |-> Key(q), answer |-> Content] \in Resolutions
    BY ContentType DEF Key, Keys, Resolutions, Snapshot
  <2>. QED
    BY <1>10, <2>1 DEF CacheMiss
<1>11. ASSUME NEW t \in Threads, StoreResolution(t)
       PROVE  TypeOK'
  <2>1. PICK r \in lookup[t] :
          resolutionCache' \in IF StillCurrent(r.key)
                                 THEN Evicted({o \in resolutionCache : o.key # r.key} \cup {r})
                                 ELSE {resolutionCache}
    BY <1>11 DEF StoreResolution
  <2>2. r \in Resolutions
    OBVIOUS
  <2>3. resolutionCache' \subseteq Resolutions
    BY <2>1, <2>2, EvictedSubset
  <2>. QED
    BY <1>11, <2>3 DEF StoreResolution
<1>12. ASSUME NEW t \in Threads, Return(t)
       PROVE  TypeOK'
    BY <1>12 DEF Return
<1>13. CASE UNCHANGED vars
    BY <1>13 DEF vars
<1>. QED
    BY <1>1, <1>2, <1>3, <1>4, <1>5, <1>6, <1>7, <1>8, <1>9, <1>10, <1>11, <1>12, <1>13
    DEF Next, RefreshStep, ResolveStep

\* Every reachable state of the registry is well typed.
THEOREM TypeCorrect == Spec => []TypeOK
    BY TypeInit, TypeStep, PTL DEF Spec

-----------------------------------------------------------------------------
\* A resolution in progress whose epoch is still the registry's is a resolution of what the
\* registry holds: whatever changes the content takes a new epoch. The comparison of the
\* snapshot's sequence adds nothing to that of the epoch.
PendingCoherent ==
    \A t \in Threads : \A r \in lookup[t] :
        pc[t] = "resolve" =>
            /\ r.key.epoch <= cacheEpoch
            /\ r.key.epoch = cacheEpoch => r.key = Key(r.key.query) /\ r.answer = Content

CoherenceInv == CacheCoherent /\ PendingCoherent

\* A step that neither touches the content nor the epoch keeps what is cached coherent.
LEMMA SameContent ==
    ASSUME UNCHANGED <<snapshot, intents, recency, cacheEpoch>>
    PROVE  Content' = Content /\ \A q : Key(q)' = Key(q)
    BY DEF Content, Key

\* Every step keeps the cache and the pending resolutions coherent.
LEMMA CoherenceStep ==
    ASSUME TypeOK, CoherenceInv, [Next]_vars
    PROVE  CoherenceInv'
<1>. USE DEF CoherenceInv, CacheCoherent, PendingCoherent
<1>1. ASSUME UNCHANGED registryVars, UNCHANGED lookup,
             \A t \in Threads : pc'[t] = "resolve" => pc[t] = "resolve"
      PROVE  CoherenceInv'
    BY <1>1, SameContent DEF registryVars
<1>2. ASSUME cacheEpoch' = cacheEpoch + 1, resolutionCache' = {}, lookup' = lookup,
             \A t \in Threads : pc'[t] = "resolve" => pc[t] = "resolve"
      PROVE  CoherenceInv'
  <2>1. \A t \in Threads : \A r \in lookup[t] :
            pc[t] = "resolve" => r.key.epoch \in Nat /\ r.key.epoch <= cacheEpoch
    BY DEF TypeOK, Resolutions, Keys
  <2>. QED
    BY <1>2, <2>1 DEF TypeOK
<1>3. ASSUME NEW t \in Threads, RefreshStep(t)
      PROVE  CoherenceInv'
  <2>1. CASE Install(t)
    BY <2>1, <1>2 DEF Install, TypeOK
  <2>2. CASE ~Install(t)
    <3>1. UNCHANGED registryVars /\ UNCHANGED lookup
        BY <1>3, <2>2 DEF RefreshStep, BeginRefresh, CaptureWindows, CaptureFiles, GiveUpRefresh
    <3>2. \A u \in Threads : pc'[u] = "resolve" => pc[u] = "resolve"
        BY <1>3, <2>2
        DEF RefreshStep, BeginRefresh, CaptureWindows, CaptureFiles, GiveUpRefresh, TypeOK
    <3>. QED
        BY <3>1, <3>2, <1>1
  <2>. QED
    BY <2>1, <2>2
<1>4. ASSUME NEW t \in Threads, RecordInteraction(t)
      PROVE  CoherenceInv'
    BY <1>4, <1>2 DEF RecordInteraction
<1>5. ASSUME NEW t \in Threads, NEW q \in Queries, CacheHit(t, q)
      PROVE  CoherenceInv'
  <2>1. /\ UNCHANGED registryVars
        /\ \A u \in Threads : pc'[u] = "resolve" => u # t /\ pc[u] = "resolve"
        /\ \A u \in Threads : u # t => lookup'[u] = lookup[u]
    BY <1>5 DEF CacheHit, TypeOK
  <2>. QED
    BY <2>1, SameContent DEF registryVars
<1>6. ASSUME NEW t \in Threads, NEW q \in Queries, CacheMiss(t, q)
      PROVE  CoherenceInv'
  <2>1. /\ UNCHANGED registryVars
        /\ \A u \in Threads : u # t => pc'[u] = pc[u] /\ lookup'[u] = lookup[u]
        /\ lookup'[t] = {[key |-> Key(q), answer |-> Content]}
    BY <1>6 DEF CacheMiss, TypeOK
  <2>2. Content' = Content /\ \A p : Key(p)' = Key(p)
    BY <2>1, SameContent DEF registryVars
  <2>3. Key(q).epoch = cacheEpoch /\ Key(q).query = q /\ cacheEpoch <= cacheEpoch
    BY DEF Key, TypeOK
  <2>4. CacheCoherent'
    BY <2>1, <2>2 DEF registryVars
  <2>5. ASSUME NEW u \in Threads, NEW r \in lookup'[u], pc'[u] = "resolve"
        PROVE  /\ r.key.epoch <= cacheEpoch
               /\ r.key.epoch = cacheEpoch => r.key = Key(r.key.query) /\ r.answer = Content
    <3>1. CASE u = t
        BY <3>1, <2>1, <2>3
    <3>2. CASE u # t
        BY <3>2, <2>1, <2>5
    <3>. QED
        BY <3>1, <3>2
  <2>6. cacheEpoch' = cacheEpoch
    BY <2>1 DEF registryVars
  <2>. QED
    BY <2>2, <2>4, <2>5, <2>6
<1>7. ASSUME NEW t \in Threads, StoreResolution(t)
      PROVE  CoherenceInv'
  <2>1. PICK r \in lookup[t] :
          resolutionCache' \in IF StillCurrent(r.key)
                                 THEN Evicted({o \in resolutionCache : o.key # r.key} \cup {r})
                                 ELSE {resolutionCache}
    BY <1>7 DEF StoreResolution
  <2>2. /\ UNCHANGED <<snapshot, intents, recency, cacheEpoch>> /\ lookup' = lookup
        /\ pc[t] = "resolve"
        /\ \A u \in Threads : pc'[u] = "resolve" => pc[u] = "resolve"
    BY <1>7 DEF StoreResolution, TypeOK
  <2>3. Content' = Content /\ \A p : Key(p)' = Key(p)
    BY <2>2, SameContent
  <2>4. StillCurrent(r.key) => r.key = Key(r.key.query) /\ r.answer = Content
    BY <2>1, <2>2 DEF StillCurrent
  <2>5. \A o \in resolutionCache' : o.key = Key(o.key.query) /\ o.answer = Content
    BY <2>1, <2>4, EvictedSubset
  <2>. QED
    BY <2>2, <2>3, <2>5
<1>8. ASSUME NEW t \in Threads, Return(t)
      PROVE  CoherenceInv'
  <2>1. /\ UNCHANGED registryVars
        /\ \A u \in Threads : pc'[u] = "resolve" => u # t /\ pc[u] = "resolve"
        /\ \A u \in Threads : u # t => lookup'[u] = lookup[u]
    BY <1>8 DEF Return, TypeOK
  <2>. QED
    BY <2>1, SameContent DEF registryVars
<1>9. CASE WindowsChange \/ FilesChange \/ UNCHANGED vars
    BY <1>9, <1>1 DEF WindowsChange, FilesChange, vars
<1>. QED
    BY <1>3, <1>4, <1>5, <1>6, <1>7, <1>8, <1>9 DEF Next, ResolveStep

\* What is cached is what the registry would answer now: a computation that ran outside the
\* lock never leaves a stale resolution behind.
THEOREM CacheCorrect == Spec => []CacheCoherent
<1>1. Init => CoherenceInv
    BY DEF Init, CoherenceInv, CacheCoherent, PendingCoherent
<1>2. TypeOK /\ CoherenceInv /\ [Next]_vars => CoherenceInv'
    BY CoherenceStep
<1>3. CoherenceInv => CacheCoherent
    BY DEF CoherenceInv
<1>. QED
    BY TypeCorrect, <1>1, <1>2, <1>3, PTL DEF Spec

-----------------------------------------------------------------------------
\* The intents of one source come from one capture, however refreshes of different kinds
\* interleave.
THEOREM SourcesCorrect == Spec => []OneCapturePerSource
<1>1. Init => OneCapturePerSource
    BY DEF Init, OneCapturePerSource
<1>2. ASSUME OneCapturePerSource, [Next]_vars
      PROVE  OneCapturePerSource'
  <2>1. ASSUME NEW t \in Threads, Install(t)
        PROVE  OneCapturePerSource'
    BY <1>2, <2>1 DEF Install, OneCapturePerSource, ReplaceIntentsBySource, Built
  <2>2. ASSUME intents' = intents
        PROVE  OneCapturePerSource'
    BY <1>2, <2>2 DEF OneCapturePerSource
  <2>. QED
    BY <1>2, <2>1, <2>2
    DEF Next, vars, registryVars, desktopVars, WindowsChange, FilesChange, RefreshStep,
        BeginRefresh, CaptureWindows, CaptureFiles, GiveUpRefresh, RecordInteraction,
        ResolveStep, CacheHit, CacheMiss, StoreResolution, Return
<1>. QED
    BY <1>1, <1>2, PTL DEF Spec

-----------------------------------------------------------------------------
\* The bound on the cache. It is a finite set: a limit is met because an insertion adds one
\* entry and an eviction takes at least one.

BoundInv == IsFiniteSet(resolutionCache) /\ CacheBounded

\* Evicting from a cache one entry above its limit brings it back within it.
LEMMA EvictedBound ==
    ASSUME NEW c, IsFiniteSet(c), Cardinality(c) <= CacheLimit + 1, NEW d \in Evicted(c)
    PROVE  IsFiniteSet(d) /\ Cardinality(d) <= CacheLimit
<1>. DEFINE n == IF EvictCount < Cardinality(c) THEN EvictCount ELSE Cardinality(c)
<1>1. Cardinality(c) \in Nat /\ CacheLimit \in Nat /\ EvictCount \in Nat \ {0}
    BY FS_CardinalityType, CacheAssumption
<1>2. CASE ~(Cardinality(c) > CacheLimit)
    BY <1>1, <1>2 DEF Evicted
<1>3. CASE Cardinality(c) > CacheLimit
  <2>1. PICK e \in SUBSET c : Cardinality(e) = n /\ d = c \ e
    BY <1>3 DEF Evicted
  <2>2. n \in Nat /\ n >= 1
    BY <1>1, <1>3
  <2>3. IsFiniteSet(c \ e) /\ Cardinality(c \ e) = Cardinality(c) - Cardinality(c \cap e)
    BY FS_Difference
  <2>4. c \cap e = e
    OBVIOUS
  <2>5. Cardinality(d) = Cardinality(c) - n /\ IsFiniteSet(d)
    BY <2>1, <2>3, <2>4
  <2>. HIDE DEF n
  <2>. QED
    BY <1>1, <2>2, <2>5
<1>. QED
    BY <1>1, <1>2, <1>3

\* Storing a resolution adds one entry at most, under a key that had none.
LEMMA StoreBound ==
    ASSUME BoundInv, NEW t \in Threads, StoreResolution(t)
    PROVE  BoundInv'
<1>1. PICK r \in lookup[t] :
         resolutionCache' \in IF StillCurrent(r.key)
                                THEN Evicted({o \in resolutionCache : o.key # r.key} \cup {r})
                                ELSE {resolutionCache}
    BY DEF StoreResolution
<1>. DEFINE kept == {o \in resolutionCache : o.key # r.key}
<1>2. IsFiniteSet(kept) /\ Cardinality(kept) <= Cardinality(resolutionCache)
    BY FS_Subset DEF BoundInv
<1>3. IsFiniteSet(kept \cup {r}) /\ Cardinality(kept \cup {r}) <= Cardinality(kept) + 1
  <2>1. /\ IsFiniteSet(kept \cup {r})
        /\ Cardinality(kept \cup {r})
              = IF r \in kept THEN Cardinality(kept) ELSE Cardinality(kept) + 1
    BY <1>2, FS_AddElement
  <2>2. Cardinality(kept) \in Nat
    BY <1>2, FS_CardinalityType
  <2>. QED
    BY <2>1, <2>2
<1>4. Cardinality(kept \cup {r}) <= CacheLimit + 1
  <2>1. /\ Cardinality(resolutionCache) \in Nat /\ Cardinality(kept) \in Nat
        /\ Cardinality(kept \cup {r}) \in Nat /\ CacheLimit \in Nat
    BY <1>2, <1>3, FS_CardinalityType, CacheAssumption DEF BoundInv
  <2>. QED
    BY <1>2, <1>3, <2>1 DEF BoundInv, CacheBounded
<1>5. CASE StillCurrent(r.key)
  <2>1. resolutionCache' \in Evicted(kept \cup {r})
    BY <1>1, <1>5
  <2>. QED
    BY <1>3, <1>4, <2>1, EvictedBound DEF BoundInv, CacheBounded
<1>6. CASE ~StillCurrent(r.key)
    BY <1>1, <1>6 DEF BoundInv, CacheBounded
<1>. QED
    BY <1>5, <1>6

\* The cache never holds more resolutions than its limit, in whatever order the threads that
\* computed them store them, and whatever is evicted (Resolve).
THEOREM CacheLimited == Spec => []CacheBounded
<1>1. Init => BoundInv
    BY FS_EmptySet, CacheAssumption DEF Init, BoundInv, CacheBounded
<1>2. ASSUME BoundInv, [Next]_vars
      PROVE  BoundInv'
  <2>1. ASSUME NEW t \in Threads, StoreResolution(t)
        PROVE  BoundInv'
    BY <1>2, <2>1, StoreBound
  <2>2. ASSUME resolutionCache' = {}
        PROVE  BoundInv'
    BY <2>2, FS_EmptySet, CacheAssumption DEF BoundInv, CacheBounded
  <2>3. ASSUME resolutionCache' = resolutionCache
        PROVE  BoundInv'
    BY <1>2, <2>3 DEF BoundInv, CacheBounded
  <2>. QED
    BY <1>2, <2>1, <2>2, <2>3
    DEF Next, vars, registryVars, desktopVars, WindowsChange, FilesChange, RefreshStep,
        BeginRefresh, CaptureWindows, CaptureFiles, GiveUpRefresh, Install, RecordInteraction,
        ResolveStep, CacheHit, CacheMiss, Return
<1>3. BoundInv => CacheBounded
    BY DEF BoundInv
<1>. QED
    BY <1>1, <1>2, <1>3, PTL DEF Spec

-----------------------------------------------------------------------------
\* Changing what one thread holds changes its answer alone.
LEMMA AnswersUpdate ==
    ASSUME TypeOK, NEW t \in Threads, NEW s, lookup' = [lookup EXCEPT ![t] = s]
    PROVE  Answers' = [Answers EXCEPT ![t] = {r.answer : r \in s}]
<1>1. \A u \in Threads : lookup'[u] = IF u = t THEN s ELSE lookup[u]
    BY DEF TypeOK
<1>2. Answers' = [u \in Threads |-> {r.answer : r \in IF u = t THEN s ELSE lookup[u]}]
    BY <1>1 DEF Answers
<1>3. [Answers EXCEPT ![t] = {r.answer : r \in s}]
        = [u \in Threads |-> IF u = t THEN {r.answer : r \in s} ELSE {r.answer : r \in lookup[u]}]
    BY DEF Answers
<1>4. \A u \in Threads : {r.answer : r \in IF u = t THEN s ELSE lookup[u]}
        = IF u = t THEN {r.answer : r \in s} ELSE {r.answer : r \in lookup[u]}
    OBVIOUS
<1>. QED
    BY <1>2, <1>3, <1>4, Zenon

\* IntentRegistry implements AtomicResolution: a cached answer is the present one, and one
\* that is computed is that of the moment its copies were taken.
THEOREM ResolvesAtomically == Spec => ResolutionSpec
<1>1. Init => Atomic!Init
  <2>. SUFFICES ASSUME Init PROVE Atomic!Init
    OBVIOUS
  <2>1. Content \in Contents
    BY TypeInit, ContentType
  <2>2. \A t \in Threads : {r.answer : r \in lookup[t]} = {}
    BY DEF Init
  <2>3. Answers = [t \in Threads |-> {}]
    BY <2>2 DEF Answers
  <2>. QED
    BY <2>1, <2>3 DEF Atomic!Init
<1>2. ASSUME TypeOK, TypeOK', CoherenceInv, [Next]_vars
      PROVE  [Atomic!Next]_<<Content, Answers>>
  <2>. USE <1>2
  <2>1. ASSUME lookup' = lookup
        PROVE  [Atomic!Next]_<<Content, Answers>>
    <3>1. Answers' = Answers
        BY <2>1 DEF Answers
    <3>2. Content' \in Contents
        BY ContentType, TypeOK' DEF Content, Contents, TypeOK, Snapshot
    <3>. QED
        BY <3>1, <3>2 DEF Atomic!Next, Atomic!Change
  <2>2. ASSUME NEW t \in Threads, lookup[t] = {}, UNCHANGED registryVars,
               \E r : lookup' = [lookup EXCEPT ![t] = {r}] /\ r.answer = Content
        PROVE  [Atomic!Next]_<<Content, Answers>>
    <3>1. PICK r : lookup' = [lookup EXCEPT ![t] = {r}] /\ r.answer = Content
        BY <2>2
    <3>2. Content' = Content
        BY <2>2 DEF registryVars, Content
    <3>3. Answers[t] = {}
        BY <2>2 DEF Answers
    <3>4. Answers' = [Answers EXCEPT ![t] = {x.answer : x \in {r}}]
        BY <3>1, AnswersUpdate
    <3>5. {x.answer : x \in {r}} = {Content}
        BY <3>1
    <3>6. Answers' = [Answers EXCEPT ![t] = {Content}]
        BY <3>4, <3>5
    <3>. QED
        BY <3>2, <3>3, <3>6 DEF Atomic!Next, Atomic!Resolve
  <2>3. ASSUME NEW t \in Threads, NEW q \in Queries, CacheHit(t, q)
        PROVE  [Atomic!Next]_<<Content, Answers>>
    <3>1. PICK r \in resolutionCache : lookup' = [lookup EXCEPT ![t] = {r}]
        BY <2>3 DEF CacheHit
    <3>2. r.answer = Content
        BY <3>1 DEF CoherenceInv, CacheCoherent
    <3>3. lookup[t] = {} /\ UNCHANGED registryVars
        BY <2>3 DEF CacheHit, TypeOK
    <3>. QED
        BY <3>1, <3>2, <3>3, <2>2
  <2>4. ASSUME NEW t \in Threads, NEW q \in Queries, CacheMiss(t, q)
        PROVE  [Atomic!Next]_<<Content, Answers>>
    <3>1. lookup' = [lookup EXCEPT ![t] = {[key |-> Key(q), answer |-> Content]}]
        BY <2>4 DEF CacheMiss
    <3>2. lookup[t] = {} /\ UNCHANGED registryVars
        BY <2>4 DEF CacheMiss, TypeOK
    <3>3. [key |-> Key(q), answer |-> Content].answer = Content
        OBVIOUS
    <3>4. \E r : lookup' = [lookup EXCEPT ![t] = {r}] /\ r.answer = Content
        BY <3>1, <3>3
    <3>. QED
        BY <3>2, <3>4, <2>2
  <2>5. ASSUME NEW t \in Threads, Return(t)
        PROVE  [Atomic!Next]_<<Content, Answers>>
    <3>1. Content' = Content
        BY <2>5 DEF Return, registryVars, Content
    <3>2. lookup[t] # {} /\ lookup' = [lookup EXCEPT ![t] = {}]
        BY <2>5 DEF Return, TypeOK
    <3>3. PICK r \in lookup[t] : TRUE
        BY <3>2
    <3>4. Answers[t] # {}
        BY <3>3 DEF Answers
    <3>5. Answers' = [Answers EXCEPT ![t] = {x.answer : x \in {}}]
        BY <3>2, AnswersUpdate
    <3>6. Answers' = [Answers EXCEPT ![t] = {}]
        BY <3>5
    <3>. QED
        BY <3>1, <3>4, <3>6 DEF Atomic!Next, Atomic!Return
  <2>6. CASE UNCHANGED vars
    BY <2>6, <2>1 DEF vars
  <2>7. CASE WindowsChange \/ FilesChange
    BY <2>7, <2>1 DEF WindowsChange, FilesChange
  <2>8. ASSUME NEW t \in Threads,
               RefreshStep(t) \/ RecordInteraction(t) \/ StoreResolution(t)
        PROVE  [Atomic!Next]_<<Content, Answers>>
    BY <2>8, <2>1
    DEF RefreshStep, BeginRefresh, CaptureWindows, CaptureFiles, GiveUpRefresh, Install,
        RecordInteraction, StoreResolution
  <2>. QED
    BY <2>3, <2>4, <2>5, <2>6, <2>7, <2>8 DEF Next, ResolveStep
<1>3. Spec => []CoherenceInv
  <2>1. Init => CoherenceInv
    BY DEF Init, CoherenceInv, CacheCoherent, PendingCoherent
  <2>2. TypeOK /\ CoherenceInv /\ [Next]_vars => CoherenceInv'
    BY CoherenceStep
  <2>. QED
    BY TypeCorrect, <2>1, <2>2, PTL DEF Spec
<1>. QED
    BY TypeCorrect, <1>1, <1>2, <1>3, PTL DEF Spec, ResolutionSpec, Atomic!Spec
=============================================================================
