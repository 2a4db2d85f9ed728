---------------------------- MODULE ScreenStream ----------------------------
(***************************************************************************)
(* Screens for clients: GET /stream/frame of interface/api/src/            *)
(* IntentApiServer.cpp, which answers with the screen or with what has     *)
(* changed since a frame, and TemporalStateEngine (core/platform/src/      *)
(* PlatformLayer.cpp), where each request records the frame that it        *)
(* serves. Requests run on threads of their own.                           *)
(*                                                                         *)
(* What a frame shows and when it was captured are those of the last       *)
(* snapshot of the observer; its id is counted by ScreenCaptureEngine. A   *)
(* screen maps the ids of elements to their looks: MakeUniqueId leaves no  *)
(* id twice. Signatures are taken as injective.                            *)
(***************************************************************************)
EXTENDS Integers, FiniteSets, SequencesExt

CONSTANTS
    Clients,
    Screens,       \* what snapshots may show
    NamesBase,     \* clients name the frame that they hold in "since"
    MaxHistory,    \* 256 in the code
    MaxFrames,     \* 128 in the code: frames kept to compute deltas from
    KFrames, KTime \* bounds: frames that are captured, and periods of 30 ms

StreamAssumption ==
    /\ MaxHistory \in Nat /\ MaxHistory > 1 /\ MaxFrames \in Nat /\ MaxFrames > 0
    /\ \A screen \in Screens : screen = [id \in DOMAIN screen |-> screen[id]]

NoFrame == [id |-> 0, at |-> 0, screen |-> <<>>]

VARIABLES
    snapshot,      \* the observer's last: [at, screen]
    frameCounter,
    latest,        \* the last frame of the control runtime's pipeline, NoFrame when it has none
    pc, held,      \* [Clients -> where its request is, and the frame that it captured]
    history, transitions,
    frameHistory,
    views,         \* [Clients -> the screen as the answers let the client know it]
    served         \* [Clients -> the frame that was answered last]

vars == <<snapshot, frameCounter, latest, pc, held, history, transitions, frameHistory, views, served>>

Init ==
    /\ \E screen \in Screens : snapshot = [at |-> 0, screen |-> screen]
    /\ frameCounter = 0
    /\ latest = NoFrame
    /\ pc = [c \in Clients |-> "idle"]
    /\ held = [c \in Clients |-> NoFrame]
    /\ history = <<>> /\ transitions = <<>> /\ frameHistory = <<>>
    /\ views = [c \in Clients |-> <<>>]
    /\ served = [c \in Clients |-> NoFrame]

Requests == <<pc, held, history, transitions, frameHistory, views, served>>

\* The observer refreshes, at once or some time after the last snapshot.
Refresh(screen, elapsed) ==
    /\ snapshot.at + elapsed <= KTime
    /\ snapshot' = [at |-> snapshot.at + elapsed, screen |-> screen]
    /\ UNCHANGED <<frameCounter, latest, Requests>>

\* RegistryEnvironmentAdapter::CaptureState: every capture is a new frame of the last snapshot.
NextFrame == [id |-> frameCounter + 1, at |-> snapshot.at, screen |-> snapshot.screen]

Sample ==
    /\ frameCounter < KFrames
    /\ frameCounter' = frameCounter + 1
    /\ latest' = NextFrame
    /\ UNCHANGED <<snapshot, Requests>>

StopRuntime ==
    /\ latest # NoFrame
    /\ latest' = NoFrame
    /\ UNCHANGED <<snapshot, frameCounter, Requests>>

-----------------------------------------------------------------------------
\* CaptureEnvironmentState: the runtime's frame, or else one of its own.
Capture(c) ==
    /\ pc[c] = "idle"
    /\ IF latest # NoFrame
       THEN /\ held' = [held EXCEPT ![c] = latest]
            /\ UNCHANGED frameCounter
       ELSE /\ frameCounter < KFrames
            /\ held' = [held EXCEPT ![c] = NextFrame]
            /\ frameCounter' = frameCounter + 1
    /\ pc' = [pc EXCEPT ![c] = "captured"]
    /\ UNCHANGED <<snapshot, latest, history, transitions, frameHistory, views, served>>

Signature(frame) == <<frame.id, frame.screen>>

Transition(from, to) ==
    LET changed == Signature(from) # Signature(to)
    IN [from |-> from.id, to |-> to.id, changed |-> changed,
        stable |-> ~changed /\ to.at - from.at >= 1]

LastOf(sequence, limit) == SubSeq(sequence, Len(sequence) - limit + 1, Len(sequence))
Trimmed(sequence, limit) == IF Len(sequence) > limit THEN LastOf(sequence, limit) ELSE sequence

RecordAsMany(frame) ==   \* variant: as many transitions are kept as frames
    /\ transitions' = IF history = <<>> THEN transitions
                      ELSE Trimmed(Append(transitions, Transition(Last(history), frame)), MaxHistory)
    /\ history' = Trimmed(Append(history, frame), MaxHistory)

\* TemporalStateEngine::Record.
Record(frame) ==
    /\ transitions' = IF history = <<>> THEN transitions
                      ELSE Trimmed(Append(transitions, Transition(Last(history), frame)), MaxHistory - 1)
    /\ history' = Trimmed(Append(history, frame), MaxHistory)

RecordFrame(c) ==
    /\ pc[c] = "captured"
    /\ Record(held[c])
    /\ pc' = [pc EXCEPT ![c] = "recorded"]
    /\ UNCHANGED <<snapshot, frameCounter, latest, held, frameHistory, views, served>>

-----------------------------------------------------------------------------
\* SerializeScreenDeltaJson, and what a client makes of it.
Delta(base, current) ==
    [added |-> [id \in DOMAIN current \ DOMAIN base |-> current[id]],
     updated |-> [id \in {e \in DOMAIN base \cap DOMAIN current : base[e] # current[e]} |-> current[id]],
     removed |-> DOMAIN base \ DOMAIN current]

Patched(view, delta) ==
    [id \in (DOMAIN view \ delta.removed) \cup DOMAIN delta.added \cup DOMAIN delta.updated |->
        IF id \in DOMAIN delta.added THEN delta.added[id]
        ELSE IF id \in DOMAIN delta.updated THEN delta.updated[id] ELSE view[id]]

Named(since) == {i \in DOMAIN frameHistory : frameHistory[i].id = since}

\* The latest frame of that id; without an id, the last frame that was served to anyone.
Base(since) ==
    IF since > 0 THEN {frameHistory[i] : i \in {j \in Named(since) : \A k \in Named(since) : k <= j}}
    ELSE IF frameHistory = <<>> THEN {} ELSE {Last(frameHistory)}

Remember(frame) ==
    frameHistory' = IF frameHistory # <<>> /\ Last(frameHistory).id = frame.id THEN frameHistory
                    ELSE Trimmed(Append(frameHistory, frame), MaxFrames)

\* What the client knows after an answer in delta mode: nothing has changed in the frame that it named,
\* or the delta from a base, or the whole screen when its base is gone or nothing was served before.
DeltaAnswer(view, since, frame) ==
    IF since # 0 /\ since = frame.id THEN view
    ELSE IF Base(since) # {} THEN Patched(view, Delta((CHOOSE base \in Base(since) : TRUE).screen, frame.screen))
    ELSE frame.screen

Answer(c, view) ==
    /\ pc[c] = "recorded"
    /\ Remember(held[c])
    /\ views' = [views EXCEPT ![c] = view]
    /\ served' = [served EXCEPT ![c] = held[c]]
    /\ held' = [held EXCEPT ![c] = NoFrame]
    /\ pc' = [pc EXCEPT ![c] = "idle"]
    /\ UNCHANGED <<snapshot, frameCounter, latest, history, transitions>>

ServeFull(c) == Answer(c, held[c].screen)

\* A client that names frames asks for its first one in full.
ServeDelta(c) ==
    /\ NamesBase => served[c] # NoFrame
    /\ Answer(c, DeltaAnswer(views[c], IF NamesBase THEN served[c].id ELSE 0, held[c]))

Next ==
    \/ \E screen \in Screens, elapsed \in {0, 1} : Refresh(screen, elapsed)
    \/ Sample
    \/ StopRuntime
    \/ \E c \in Clients : Capture(c) \/ RecordFrame(c) \/ ServeFull(c) \/ ServeDelta(c)

Spec == Init /\ [][Next]_vars

-----------------------------------------------------------------------------

\* TemporalStateEngine::FrameConsistency, over the last "limit" frames.
FrameConsistency(limit) ==
    LET window == Trimmed(history, limit)
        first == window[1].id
        last == Last(window).id
        expected == IF last >= first THEN last - first + 1 ELSE 0
    IN IF history = <<>> THEN [expected |-> 0, actual |-> 0, skipped |-> 0]
       ELSE [expected |-> expected, actual |-> Len(window),
             skipped |-> IF expected > Len(window) THEN expected - Len(window) ELSE 0]

(***************************************************************************)
(* Properties.                                                             *)
(***************************************************************************)
\* Type invariant: histories within their limits, and frames that were captured.
TypeOK ==
    /\ Len(history) <= MaxHistory /\ Len(frameHistory) <= MaxFrames
    /\ \A c \in Clients : /\ pc[c] \in {"idle", "captured", "recorded"}
                          /\ (held[c] = NoFrame) = (pc[c] = "idle")
                          /\ held[c].id <= frameCounter
    /\ \A i \in DOMAIN history : history[i].id \in 1..frameCounter

\* GET /stream/frame: a client that names the frame it holds, or that is the only one and names none,
\* knows the screen of the frame that it was last answered with, whatever was forgotten or repeated.
DeltasAddUp == \A c \in Clients : views[c] = served[c].screen

\* TemporalStateEngine: there is a transition from each frame of the history to the next, in order,
\* also when both are cut.
TransitionsFollowHistory ==
    /\ Len(transitions) = (IF history = <<>> THEN 0 ELSE Len(history) - 1)
    /\ \A i \in DOMAIN transitions :
        transitions[i].from = history[i].id /\ transitions[i].to = history[i + 1].id

\* The signature of a frame covers its id: only a frame that is recorded twice counts as unchanged, and as
\* it was captured once, no transition is ever stable, however long the screen stays the same.
OnlyRepetitionsAreUnchanged ==
    \A i \in DOMAIN transitions :
        /\ transitions[i].changed = (transitions[i].from # transitions[i].to)
        /\ ~transitions[i].stable

\* FrameConsistency never reports more skipped frames than there are frames that no request recorded,
\* though frames are recorded out of order and more than once.
SkipsAreReal ==
    \A limit \in 1..MaxHistory :
        LET window == Trimmed(history, limit)
            ids == {window[i].id : i \in DOMAIN window}
        IN history # <<>> =>
            FrameConsistency(limit).skipped <= Cardinality((window[1].id..Last(window).id) \ ids)
=============================================================================
