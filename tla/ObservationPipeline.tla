------------------------ MODULE ObservationPipeline ------------------------
(***************************************************************************)
(* The observation pipeline and the environment adapters it samples        *)
(* (core/execution/src/EnvironmentAdapter.cpp).                            *)
(*                                                                         *)
(* One thread captures a state from the adapter, outside mutex_, gives it  *)
(* the numbers it lacks and publishes it into the buffer that is not       *)
(* active. Latest reads the active one. Start and Stop come from whatever  *)
(* threads control the runtime; the thread handle worker_ belongs to none  *)
(* of them and no lock protects it while Stop joins.                       *)
(*                                                                         *)
(* A state is the numbers that name it and its views. What the desktop     *)
(* looked like is the identity `id` of the capture; 0 is "not set" for     *)
(* every number, as in the code.                                           *)
(***************************************************************************)
EXTENDS Integers, Sequences

CONSTANTS
    Controllers,        \* threads that call Start and Stop
    Adapters,           \* of {"registry", "mock", "external"}: what Start may be given
    Scripts,            \* what SetScriptedStates may be given: sequences of sequence numbers
    Numbers,            \* bound: numbers a snapshot, a script or an external adapter carries
    MaxScript,          \* bound: states of a script that PushState extends
    MaxCaptures         \* bound: captures that succeed

PipelineAssumption ==
    /\ Adapters \subseteq {"registry", "mock", "external"}
    /\ Numbers \subseteq Nat /\ 0 \in Numbers
    /\ Scripts \subseteq Seq(Numbers)
    /\ MaxScript \in Nat /\ MaxCaptures \in Nat

NoAdapter == "none"

VARIABLES
    \* under mutex_
    adapter, running, stopRequested,
    generated,          \* generatedSequence_
    active, buffers,    \* activeBufferIndex_; a buffer is a state, or NoState while not valid
    samples, latestSequence,
    \* threads
    joinable,           \* worker_.joinable()
    wpc,                \* RunLoop's place; "none" when it has not begun or has returned
    captured,           \* its local state; NoState when the capture failed
    cpc,                \* a controller's place in Stop
    terminated,         \* std::terminate was called
    \* adapters
    snapshot,           \* the registry's last snapshot: [sequence, valid]
    mock,               \* MockEnvironmentAdapter
    \* history
    captures,           \* captures that succeeded
    used                \* numbers published since Start

lifeVars == <<adapter, running, stopRequested, joinable, cpc, terminated>>
bufferVars == <<generated, active, buffers, samples, latestSequence, used>>
sourceVars == <<snapshot, mock, captures>>
vars == <<lifeVars, bufferVars, sourceVars, wpc, captured>>

-----------------------------------------------------------------------------
NoState == [id |-> 0, sequence |-> 0, version |-> 0, screenFrame |-> 0, frame |-> 0,
            screen |-> 0, graph |-> 0, unified |-> 0, unifiedFrame |-> 0]
Bigger(a, b) == IF a > b THEN a ELSE b
Default(n, d) == IF n = 0 THEN d ELSE n

Init ==
    /\ adapter = NoAdapter
    /\ running = FALSE /\ stopRequested = FALSE
    /\ generated = 0
    /\ active = 0 /\ buffers = [i \in {0, 1} |-> NoState]
    /\ samples = 0 /\ latestSequence = 0
    /\ joinable = FALSE
    /\ wpc = "none" /\ captured = NoState
    /\ cpc = [c \in Controllers |-> "idle"]
    /\ terminated = FALSE
    /\ snapshot = [sequence |-> 0, valid |-> FALSE]
    /\ mock = [script |-> <<>>, next |-> 0, generated |-> 0, loop |-> FALSE]
    /\ captures = 0 /\ used = {}

-----------------------------------------------------------------------------
\* Start and Stop.

KeepBuffers == buffers   \* variant: what the last session saw is still there

NoBuffers == [i \in {0, 1} |-> NoState]

\* Assigning a new thread to a handle that is still joinable calls std::terminate.
Start(c, a) ==
    /\ cpc[c] = "idle" /\ ~running
    /\ adapter' = a
    /\ stopRequested' = FALSE /\ running' = TRUE
    /\ generated' = 0 /\ samples' = 0 /\ latestSequence' = 0 /\ used' = {}
    /\ buffers' = NoBuffers /\ active' = 0
    /\ IF joinable
       THEN terminated' = TRUE /\ UNCHANGED <<joinable, wpc, captured>>
       ELSE joinable' = TRUE /\ wpc' = "check" /\ captured' = NoState /\ UNCHANGED terminated
    /\ UNCHANGED <<cpc, sourceVars>>

StopRequest(c) ==
    /\ cpc[c] = "idle" /\ running
    /\ stopRequested' = TRUE
    /\ cpc' = [cpc EXCEPT ![c] = IF joinable THEN "join" ELSE "idle"]
    /\ UNCHANGED <<adapter, running, joinable, terminated, bufferVars, sourceVars, wpc, captured>>

\* The second of two threads that join the same handle may find it closed.
Join(c) ==
    /\ cpc[c] = "join" /\ wpc = "none"
    /\ joinable' = FALSE
    /\ terminated' \in (IF joinable THEN {FALSE} ELSE BOOLEAN)
    /\ cpc' = [cpc EXCEPT ![c] = "idle"]
    /\ UNCHANGED <<adapter, running, stopRequested, bufferVars, sourceVars, wpc, captured>>

-----------------------------------------------------------------------------
\* The adapters. PopulateScreenState captures a frame, or makes one up that has the state's
\* number, and derives every view from the state.

ViewsOf(id, sequence, version, frame) ==
    [id |-> id, sequence |-> sequence, version |-> version, screenFrame |-> frame, frame |-> frame,
     screen |-> sequence, graph |-> sequence, unified |-> sequence, unifiedFrame |-> frame]

EnvironmentStateFromSnapshot(s, frame) == ViewsOf(captures + 1, s.sequence, s.sequence, frame)

Snapshots == [sequence : Numbers \ {0}, valid : BOOLEAN]

\* A snapshot that is missing or not valid is asked for again, once. The screen's frames are
\* counted by the capture engine, independently of the snapshots.
CaptureRegistry ==
    \E s \in (IF snapshot.valid THEN {snapshot} ELSE Snapshots), frame \in Numbers \ {0} :
       /\ snapshot' = s
       /\ captured' = IF s.valid THEN EnvironmentStateFromSnapshot(s, frame) ELSE NoState
       /\ captures' = captures + (IF s.valid THEN 1 ELSE 0)
       /\ UNCHANGED mock

\* The index the next scripted state is taken from, counted from 0.
MockIndex ==
    IF mock.next < Len(mock.script) THEN mock.next
    ELSE IF mock.loop THEN 0 ELSE Len(mock.script) - 1

AdvancedMock(sequence) ==
    [mock EXCEPT !.next = IF mock.loop \/ MockIndex + 1 < Len(mock.script) THEN MockIndex + 1 ELSE MockIndex,
                 !.generated = Bigger(@, sequence)]

\* A scripted state without a number gets one from the mock itself.
CaptureMock ==
    /\ mock.script # <<>>
    /\ LET n == Default(mock.script[MockIndex + 1], mock.generated + 1) IN
          /\ mock' = AdvancedMock(n)
          /\ captured' = ViewsOf(captures + 1, n, n, n)
    /\ captures' = captures + 1
    /\ UNCHANGED snapshot

\* An adapter of the embedding program: numbers as it likes, no views.
CaptureExternal ==
    /\ \E n \in Numbers :
          captured' = [NoState EXCEPT !.id = captures + 1, !.sequence = n]
    /\ captures' = captures + 1
    /\ UNCHANGED <<snapshot, mock>>

CaptureSucceeds ==
    /\ captures < MaxCaptures
    /\ \/ adapter = "registry" /\ CaptureRegistry
       \/ adapter = "mock" /\ CaptureMock
       \/ adapter = "external" /\ CaptureExternal

\* Other threads: the registry refreshes itself, API calls capture from the same mock, and the
\* program scripts it.
RegistryRefreshed ==
    /\ "registry" \in Adapters
    /\ snapshot' \in Snapshots
    /\ UNCHANGED <<mock, captures>>

CapturedElsewhere ==
    /\ mock.script # <<>>
    /\ mock' = AdvancedMock(Default(mock.script[MockIndex + 1], mock.generated + 1))
    /\ mock'.generated <= MaxCaptures
    /\ UNCHANGED <<snapshot, captures>>

SetScriptedStates(script) ==
    /\ mock' = [mock EXCEPT !.script = script, !.next = 0, !.generated = 0]
    /\ UNCHANGED <<snapshot, captures>>

PushState(n) ==
    /\ Len(mock.script) < MaxScript
    /\ mock' = [mock EXCEPT !.script = Append(@, n)]
    /\ UNCHANGED <<snapshot, captures>>

SetLooping(loop) ==
    /\ mock' = [mock EXCEPT !.loop = loop]
    /\ UNCHANGED <<snapshot, captures>>

SourceStep ==
    /\ \/ RegistryRefreshed
       \/ CapturedElsewhere
       \/ \E script \in Scripts : SetScriptedStates(script)
       \/ \E n \in Numbers : "mock" \in Adapters /\ PushState(n)
       \/ \E loop \in BOOLEAN : SetLooping(loop)
    /\ UNCHANGED <<lifeVars, bufferVars, wpc, captured>>

-----------------------------------------------------------------------------
\* RunLoop.

CheckStop ==
    /\ wpc = "check"
    /\ wpc' = IF stopRequested THEN "finish" ELSE "capture"
    /\ UNCHANGED <<lifeVars, bufferVars, sourceVars, captured>>

CaptureState ==
    /\ wpc = "capture" /\ wpc' = "publish"
    /\ \/ CaptureSucceeds
       \/ captured' = NoState /\ UNCHANGED sourceVars
    /\ UNCHANGED <<lifeVars, bufferVars>>

\* PopulateUnifiedState(state, false), after the numbers the state lacks were filled in.

Completed(s, n) ==
    [s EXCEPT !.sequence = n, !.version = Default(@, n), !.screenFrame = Default(@, n),
              !.frame = Default(@, Default(s.screenFrame, n)), !.screen = Default(@, n),
              !.graph = n, !.unified = n, !.unifiedFrame = Default(s.frame, Default(s.screenFrame, n))]

NextGenerated(s) == IF s.sequence = 0 THEN generated + 1 ELSE Bigger(generated, s.sequence)

PublishInPlace(s) ==   \* variant: the buffer is switched before it is written
    /\ buffers' = [buffers EXCEPT ![active] = s]
    /\ active' = 1 - active

PublishInOther(s) ==
    /\ buffers' = [buffers EXCEPT ![1 - active] = s]
    /\ active' = 1 - active

Publish ==
    /\ wpc = "publish" /\ captured # NoState
    /\ LET n == Default(captured.sequence, generated + 1) IN
          /\ PublishInOther(Completed(captured, n))
          /\ generated' = NextGenerated(captured)
          /\ latestSequence' = n
          /\ used' = used \cup {n}
    /\ samples' = samples + 1
    /\ wpc' = "pause"
    /\ UNCHANGED <<lifeVars, sourceVars, captured>>

CountFailure ==
    /\ wpc = "publish" /\ captured = NoState
    /\ wpc' = "pause"
    /\ UNCHANGED <<lifeVars, bufferVars, sourceVars, captured>>

PauseForgets ==   \* variant: the request that woke the thread is consumed
    /\ wpc = "pause"
    /\ wpc' = "check" /\ stopRequested' = FALSE
    /\ UNCHANGED <<adapter, running, joinable, cpc, terminated, bufferVars, sourceVars, captured>>

\* A stop ends the pause at once, the end of the interval does otherwise.
Pause ==
    /\ wpc = "pause"
    /\ wpc' = IF stopRequested THEN "finish" ELSE "check"
    /\ UNCHANGED <<lifeVars, bufferVars, sourceVars, captured>>

Finish ==
    /\ wpc = "finish" /\ wpc' = "none"
    /\ running' = FALSE /\ stopRequested' = FALSE
    /\ UNCHANGED <<adapter, joinable, cpc, terminated, bufferVars, sourceVars, captured>>

Worker == CheckStop \/ CaptureState \/ Publish \/ CountFailure \/ Pause \/ Finish

Next ==
    /\ ~terminated
    /\ \/ \E c \in Controllers, a \in Adapters : Start(c, a)
       \/ \E c \in Controllers : StopRequest(c) \/ Join(c)
       \/ Worker
       \/ SourceStep

Spec == Init /\ [][Next]_vars

\* The thread is scheduled, its adapter returns and a Stop that has begun goes on.
Fairness ==
    /\ WF_vars(Worker /\ ~terminated)
    /\ \A c \in Controllers : WF_vars(Join(c) /\ ~terminated)
FairSpec == Spec /\ Fairness

-----------------------------------------------------------------------------
\* Latest: nothing while the active buffer is not valid.
Latest == buffers[active]

State == [id : 0..MaxCaptures, sequence : Nat, version : Nat, screenFrame : Nat, frame : Nat,
          screen : Nat, graph : Nat, unified : Nat, unifiedFrame : Nat]

\* The variables have the types of the members they stand for; the mock's index is never past
\* the end of its script.
TypeOK ==
    /\ adapter \in Adapters \cup {NoAdapter}
    /\ running \in BOOLEAN /\ stopRequested \in BOOLEAN
    /\ joinable \in BOOLEAN /\ terminated \in BOOLEAN
    /\ wpc \in {"none", "check", "capture", "publish", "pause", "finish"}
    /\ cpc \in [Controllers -> {"idle", "join"}]
    /\ active \in {0, 1} /\ buffers \in [{0, 1} -> State]
    /\ captured \in State
    /\ generated \in Nat /\ samples \in Nat /\ latestSequence \in Nat /\ used \subseteq Nat
    /\ snapshot \in [sequence : Nat, valid : BOOLEAN]
    /\ mock \in [script : Seq(Nat), next : Nat, generated : Nat, loop : BOOLEAN]
    /\ mock.next <= Len(mock.script)
    /\ captures \in 0..MaxCaptures

\* The runtime, the API and the metrics read one state and its views by different numbers: the
\* graph, the unified view and the metrics carry the number of the state Latest returns, and
\* there is such a state exactly when the session counted a sample.
ViewsAgree ==
    /\ (samples > 0) <=> (Latest # NoState)
    /\ Latest # NoState =>
          /\ Latest.sequence # 0 /\ latestSequence = Latest.sequence
          /\ Latest.graph = Latest.sequence
          /\ Latest.unified = Latest.sequence
          /\ Latest.unifiedFrame = Latest.frame

\* A number the pipeline makes up was not published before in the same session, whatever
\* numbers the adapter supplied in between: the runtime takes equal numbers for the same state.
GeneratedFresh ==
    [][samples' > samples /\ captured.sequence = 0 => latestSequence' \notin used]_vars

\* With one controller the program is not terminated: nobody starts a thread over one that was
\* not joined and nobody joins it twice.
NeverTerminated == ~terminated

\* With one controller, what Stop leaves behind: no thread, and flags that let Start begin.
QuietWhenStopped ==
    (\A c \in Controllers : cpc[c] = "idle") /\ ~stopRequested /\ ~running => ~joinable /\ wpc = "none"

\* Stop returns: the thread notices the request from wherever it is.
StopReturns == \A c \in Controllers : (cpc[c] = "join") ~> (cpc[c] = "idle")

\* What readers of Latest are promised: the value of a register that is cleared by Start and
\* set to a newer capture by the thread.
Observed == INSTANCE LatestRegister WITH value <- Latest.id
RegisterSpec == Observed!Spec
=============================================================================
