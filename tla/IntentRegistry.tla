--------------------------- MODULE IntentRegistry ---------------------------
(***************************************************************************)
(* The intent registry (core/intent/src/IntentRegistry.cpp): the list of   *)
(* executable intents built from observer snapshots, and the cache of      *)
(* resolutions in front of it.                                             *)
(*                                                                         *)
(* Any thread may refresh (the control worker, event handlers on watcher   *)
(* threads, API calls, executors) and any may resolve. A refresh looks at  *)
(* the desktop outside the lock and installs what it saw under it, so an   *)
(* old capture may be installed after a newer one; a resolution reads      *)
(* under the shared lock, computes outside it and caches under the lock.   *)
(*                                                                         *)
(* The desktop is a version number for its windows and one for its files.  *)
(* The intents of a source are the version they were built from. graph_    *)
(* changes exactly when the intents of "other" do and is left out.         *)
(***************************************************************************)
EXTENDS Integers, FiniteSets

CONSTANTS
    Threads,
    Queries,            \* pairs of an action and a normalised target
    CacheLimit,         \* 512: the size above which entries are evicted
    EvictCount,         \* 128: how many
    MaxCaptures,        \* bound: observer captures
    MaxInteractions,    \* bound: recorded interactions
    MaxChanges          \* bound: changes of the windows, and of the files

ASSUME CacheAssumption ==
    /\ CacheLimit \in Nat /\ EvictCount \in Nat \ {0}
    /\ IsFiniteSet(Threads) /\ IsFiniteSet(Queries)

ASSUME BoundAssumption == MaxCaptures \in Nat /\ MaxInteractions \in Nat /\ MaxChanges \in Nat

VARIABLES
    windows, files,     \* the desktop
    nextCapture,        \* g_snapshotSequence of the observer
    snapshot,           \* lastSnapshot_
    intents,            \* intents_
    recency,            \* recencyByIntentId_
    cacheEpoch,         \* cacheEpoch_
    resolutionCache,    \* resolutionCache_
    pc,                 \* where each thread is
    capture,            \* the snapshot a refreshing thread holds, and what it is for
    lookup              \* the key and the copies a resolving thread holds

desktopVars == <<windows, files, nextCapture>>
registryVars == <<snapshot, intents, recency, cacheEpoch, resolutionCache>>
vars == <<desktopVars, registryVars, pc, capture, lookup>>

-----------------------------------------------------------------------------
Sources == {"uia", "filesystem", "other"}
Snapshot == [sequence : Nat, windows : Nat, files : Nat]
NoSnapshot == [sequence |-> 0, windows |-> 0, files |-> 0]
Kinds == {"full", "ui", "fs"}
NoCapture == [kind |-> "full", snapshot |-> NoSnapshot]

Built(source, s) ==
    [source |-> source, version |-> IF source = "filesystem" THEN s.files ELSE s.windows]
BuiltIntents == [source : Sources, version : Nat]

\* What resolver_.Resolve looks at. The cursor is the snapshot's, told apart by its sequence.
Content == [intents |-> intents, cursor |-> snapshot.sequence, recency |-> recency]
Contents == [intents : SUBSET BuiltIntents, cursor : Nat, recency : Nat]

Key(q) == [query |-> q, sequence |-> snapshot.sequence, epoch |-> cacheEpoch]
Keys == [query : Queries, sequence : Nat, epoch : Nat]
Resolutions == [key : Keys, answer : Contents]

Init ==
    /\ windows = 1 /\ files = 1 /\ nextCapture = 1
    /\ snapshot = NoSnapshot /\ intents = {} /\ recency = 0
    /\ cacheEpoch = 0 /\ resolutionCache = {}
    /\ pc = [t \in Threads |-> "idle"]
    /\ capture = [t \in Threads |-> NoCapture]
    /\ lookup = [t \in Threads |-> {}]

WindowsChange ==
    /\ windows <= MaxChanges
    /\ windows' = windows + 1
    /\ UNCHANGED <<files, nextCapture, registryVars, pc, capture, lookup>>

FilesChange ==
    /\ files <= MaxChanges
    /\ files' = files + 1
    /\ UNCHANGED <<windows, nextCapture, registryVars, pc, capture, lookup>>

-----------------------------------------------------------------------------
\* Refresh, RefreshUiIncremental, RefreshFileSystemIncremental. The observer numbers a
\* capture first, walks the accessibility tree next and lists the files last.

BeginRefresh(t, kind) ==
    /\ pc[t] = "idle" /\ nextCapture <= MaxCaptures
    /\ capture' = [capture EXCEPT ![t] = [kind |-> kind,
                        snapshot |-> [NoSnapshot EXCEPT !.sequence = nextCapture]]]
    /\ nextCapture' = nextCapture + 1
    /\ pc' = [pc EXCEPT ![t] = "captureWindows"]
    /\ UNCHANGED <<windows, files, registryVars, lookup>>

CaptureWindows(t) ==
    /\ pc[t] = "captureWindows"
    /\ capture' = [capture EXCEPT ![t].snapshot.windows = windows]
    /\ pc' = [pc EXCEPT ![t] = "captureFiles"]
    /\ UNCHANGED <<desktopVars, registryVars, lookup>>

CaptureFiles(t) ==
    /\ pc[t] = "captureFiles"
    /\ capture' = [capture EXCEPT ![t].snapshot.files = files]
    /\ pc' = [pc EXCEPT ![t] = "install"]
    /\ UNCHANGED <<desktopVars, registryVars, lookup>>

\* No foreground window makes the snapshot invalid; an adapter that throws ends the refresh.
GiveUpRefresh(t) ==
    /\ pc[t] \in {"captureWindows", "install"}
    /\ capture' = [capture EXCEPT ![t] = NoCapture]
    /\ pc' = [pc EXCEPT ![t] = "idle"]
    /\ UNCHANGED <<desktopVars, registryVars, lookup>>

Refreshed(kind) == CASE kind = "full" -> Sources
                     [] kind = "ui"   -> {"uia"}
                     [] kind = "fs"   -> {"filesystem"}

ReplaceIntentsBySourceAppending(kind, s) ==   \* variant: the source's old intents are kept
    intents \cup {Built(source, s) : source \in Refreshed(kind)}

ReplaceIntentsBySource(kind, s) ==
    {i \in intents : i.source \notin Refreshed(kind)}
        \cup {Built(source, s) : source \in Refreshed(kind)}

Install(t) ==
    /\ pc[t] = "install"
    /\ snapshot' = capture[t].snapshot
    /\ intents' = ReplaceIntentsBySource(capture[t].kind, capture[t].snapshot)
    /\ cacheEpoch' = cacheEpoch + 1 /\ resolutionCache' = {}
    /\ capture' = [capture EXCEPT ![t] = NoCapture]
    /\ pc' = [pc EXCEPT ![t] = "idle"]
    /\ UNCHANGED <<desktopVars, recency, lookup>>

RecordInteractionUnversioned(t) ==   \* variant: the cache is cleared, the epoch is kept
    /\ pc[t] = "idle" /\ recency < MaxInteractions
    /\ recency' = recency + 1
    /\ resolutionCache' = {}
    /\ UNCHANGED <<desktopVars, snapshot, intents, cacheEpoch, pc, capture, lookup>>

RecordInteractionUncleared(t) ==   \* variant: the cache is not cleared, nor versioned
    /\ pc[t] = "idle" /\ recency < MaxInteractions
    /\ recency' = recency + 1
    /\ UNCHANGED <<desktopVars, snapshot, intents, cacheEpoch, resolutionCache, pc, capture,
                   lookup>>

RecordInteraction(t) ==
    /\ pc[t] = "idle" /\ recency < MaxInteractions
    /\ recency' = recency + 1
    /\ cacheEpoch' = cacheEpoch + 1 /\ resolutionCache' = {}
    /\ UNCHANGED <<desktopVars, snapshot, intents, pc, capture, lookup>>

-----------------------------------------------------------------------------
\* Resolve.

CacheHit(t, q) ==
    /\ pc[t] = "idle"
    /\ \E r \in resolutionCache :
          /\ r.key = Key(q)
          /\ lookup' = [lookup EXCEPT ![t] = {r}]
    /\ pc' = [pc EXCEPT ![t] = "return"]
    /\ UNCHANGED <<desktopVars, registryVars, capture>>

CacheMiss(t, q) ==
    /\ pc[t] = "idle"
    /\ \A r \in resolutionCache : r.key # Key(q)
    /\ lookup' = [lookup EXCEPT ![t] = {[key |-> Key(q), answer |-> Content]}]
    /\ pc' = [pc EXCEPT ![t] = "resolve"]
    /\ UNCHANGED <<desktopVars, registryVars, capture>>

\* Unordered: which entries go is not determined.
EvictedLate(c) ==   \* variant: evicts one entry too late
    IF Cardinality(c) > CacheLimit + 1
      THEN {c \ e : e \in {e \in SUBSET c : Cardinality(e) = EvictCount}} ELSE {c}

Evicted(c) ==
    IF Cardinality(c) > CacheLimit
      THEN {c \ e : e \in {e \in SUBSET c :
                Cardinality(e) = IF EvictCount < Cardinality(c) THEN EvictCount ELSE Cardinality(c)}}
      ELSE {c}

\* The key still names the current snapshot and epoch.
StillCurrent(key) == key.sequence = snapshot.sequence /\ key.epoch = cacheEpoch

StoreResolution(t) ==
    /\ pc[t] = "resolve"
    /\ \E r \in lookup[t] :
          resolutionCache' \in IF StillCurrent(r.key)
                                 THEN Evicted({o \in resolutionCache : o.key # r.key} \cup {r})
                                 ELSE {resolutionCache}
    /\ pc' = [pc EXCEPT ![t] = "return"]
    /\ UNCHANGED <<desktopVars, snapshot, intents, recency, cacheEpoch, capture, lookup>>

Return(t) ==
    /\ pc[t] = "return"
    /\ lookup' = [lookup EXCEPT ![t] = {}]
    /\ pc' = [pc EXCEPT ![t] = "idle"]
    /\ UNCHANGED <<desktopVars, registryVars, capture>>

-----------------------------------------------------------------------------
RefreshStep(t) ==
    \/ \E kind \in Kinds : BeginRefresh(t, kind)
    \/ CaptureWindows(t) \/ CaptureFiles(t) \/ GiveUpRefresh(t) \/ Install(t)

ResolveStep(t) ==
    \/ \E q \in Queries : CacheHit(t, q) \/ CacheMiss(t, q)
    \/ StoreResolution(t) \/ Return(t)

Next ==
    \/ WindowsChange \/ FilesChange
    \/ \E t \in Threads : RefreshStep(t) \/ RecordInteraction(t) \/ ResolveStep(t)

Spec == Init /\ [][Next]_vars

-----------------------------------------------------------------------------
\* Properties.

\* Every variable of IntentRegistry (IntentRegistry.h) keeps its type, and a resolving thread
\* holds one key and one answer.
TypeOK ==
    /\ windows \in Nat /\ files \in Nat /\ nextCapture \in Nat
    /\ snapshot \in Snapshot /\ intents \subseteq BuiltIntents /\ recency \in Nat
    /\ cacheEpoch \in Nat /\ resolutionCache \subseteq Resolutions
    /\ pc \in [Threads -> {"idle", "captureWindows", "captureFiles", "install", "resolve",
                           "return"}]
    /\ capture \in [Threads -> [kind : Kinds, snapshot : Snapshot]]
    /\ lookup \in [Threads -> SUBSET Resolutions]
    /\ \A t \in Threads :
          /\ lookup[t] # {} <=> pc[t] \in {"resolve", "return"}
          /\ \A r, o \in lookup[t] : r = o

\* Whatever is cached is what the registry resolves to now, although it was computed outside
\* the lock while refreshes and interactions went on (Resolve's second critical section).
CacheCoherent ==
    \A r \in resolutionCache : r.key = Key(r.key.query) /\ r.answer = Content

\* The cache never outgrows its limit, in whatever order resolutions are stored (Resolve).
CacheBounded == Cardinality(resolutionCache) <= CacheLimit

\* The intents of one source come from one capture: an incremental refresh replaces what it
\* refreshes, whatever was installed in the meantime (ReplaceIntentsBySource).
OneCapturePerSource == \A i, j \in intents : i.source = j.source => i = j

\* What a caller of Resolve has been given, or is about to be.
Answers == [t \in Threads |-> {r.answer : r \in lookup[t]}]

Atomic == INSTANCE AtomicResolution
            WITH Callers <- Threads, content <- Content, answer <- Answers

\* Resolve implements AtomicResolution: with the cache, as without it, an answer is the
\* resolution of one moment of the call, whatever is installed and recorded meanwhile.
ResolutionSpec == Atomic!Spec

=============================================================================
