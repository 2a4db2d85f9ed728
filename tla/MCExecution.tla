----------------------------- MODULE MCExecution -----------------------------
(***************************************************************************)
(* What executes, in one run: the engine, Act, and the executor of macros. *)
(* They share no variable, so a behaviour moves one of them, as `part'     *)
(* says; the parts of the engine and of Act are two restrictions each.     *)
(*   "calls"     threads execute intents for one target of two snapshots   *)
(*   "recovery"  one call at a time, for many targets, with durations      *)
(*   "alone"     one Act at a time, on nodes that may have to be revealed  *)
(*   "together"  clients act on nodes that are shown                       *)
(*   "macros"    texts are parsed and run or queued                        *)
(***************************************************************************)
EXTENDS ExecutionEngine, FiniteSets

CONSTANTS
    Parts,                                          \* which parts move
    FewCalls,                                       \* bound on calls in part "calls"
    Clients, Nodes, Orphans, LabelOf, Shapes, MaxActs,  \* of ActionPipeline
    Texts, Templates, KMaxRepeat                    \* of ActionSequences

VARIABLES
    part,
    act, learned, stats, outcomes, started,
    sequence, visible, phase, mode, step, repetition, results, queued, stopRequested

actVars == <<act, learned, stats, outcomes, started>>
macroVars == <<sequence, visible, phase, mode, step, repetition, results, queued, stopRequested>>
suiteVars == <<part, vars, actVars, macroVars>>

-----------------------------------------------------------------------------
\* The engine's three adapters, of which two are asked in part "calls", and what it executes.
AllAdapters == <<"UIA", "VSCode", "Input">>

Click == [key |-> "click", ticks |-> 1, version |-> 1, valid |-> TRUE, timeout |-> 1,
          maxRetries |-> 1, allowFallback |-> TRUE, requiresVerification |-> TRUE,
          capable |-> {"UIA", "VSCode", "Input"}]
ClickOfTwo == [Click EXCEPT !.capable = {"UIA", "VSCode"}]
ClickLater == [Click EXCEPT !.version = 2, !.maxRetries = 0, !.requiresVerification = FALSE, !.capable = {"VSCode"}]
ClickUnversioned == [ClickLater EXCEPT !.version = 0]
ClickOnce == [Click EXCEPT !.maxRetries = 0]
Type == [ClickLater EXCEPT !.key = "type", !.maxRetries = 1]
Open == [ClickLater EXCEPT !.key = "open", !.capable = {"UIA"}, !.allowFallback = FALSE]
Unserved == [Click EXCEPT !.ticks = 0, !.version = 0, !.capable = {}]
Invalid == [Click EXCEPT !.valid = FALSE]

OneTarget == {ClickOfTwo, ClickLater, ClickUnversioned}
ManyTargets == {ClickOnce, Type, Open, Unserved, Invalid}
AllIntents == OneTarget \cup ManyTargets

\* Nodes with a parent have one label between them, the others none.
SomeLabels == [n \in Nodes |-> IF n \in Orphans THEN "" ELSE "Save"]

Interchangeable == Permutations(Executors) \cup Permutations(Clients)
                      \cup Permutations(Orphans) \cup Permutations(Nodes \ Orphans)

\* What a look at a node can find.
AllShapes == {s \in [hidden : BOOLEAN, offscreen : BOOLEAN, collapsed : BOOLEAN] : s.collapsed => s.hidden}

\* Every text of up to two of these steps, and single actions repeated up to three times.
Plain(action, args, tokens) ==
    [head |-> "plain", target |-> "", expression |-> [action |-> action, args |-> args],
     otherwise |-> [action |-> "", args |-> 0], count |-> 0, tokens |-> tokens]

RawSteps == {
    [Plain("", 0, <<>>) EXCEPT !.head = "blank"],
    Plain("activate", 2, <<>>),
    Plain("set_value", 2, <<>>),
    Plain("create", 3, << <<"required", 0>>, <<"repeat", 2>> >>),
    Plain("move", 3, << <<"repeat", 0>>, <<"after", 5>> >>),
    [Plain("delete", 2, << <<"repeat", 9>>, <<"repeat", -1>> >>) EXCEPT !.head = "loop", !.count = 2],
    [Plain("delete", 2, <<>>) EXCEPT !.head = "loop", !.count = 9],
    [Plain("delete", 2, <<>>) EXCEPT !.head = "loop", !.count = 0],
    [Plain("activate", 2, <<>>) EXCEPT !.head = "if_visible", !.target = "Save",
                                       !.otherwise = [action |-> "select", args |-> 2]],
    [Plain("activate", 2, << <<"required", 0>> >>) EXCEPT !.head = "if_visible", !.target = "Open"],
    [Plain("activate", 2, <<>>) EXCEPT !.head = "if_visible", !.target = "Open",
                                       !.otherwise = [action |-> "select", args |-> 1]] }

SomeTexts == {<<a>> : a \in RawSteps} \cup {<<a, b>> : a, b \in RawSteps}
SomeTemplates == {[action |-> "activate", repeat |-> n] : n \in 1..3}

-----------------------------------------------------------------------------
Acts == INSTANCE ActionPipeline
Macros == INSTANCE ActionSequences WITH pc <- phase

\* The bounds are ones the code could have.
ASSUME SuiteAssumption == Acts!ActionAssumption /\ Macros!LanguageAssumption

SuiteInit ==
    /\ part \in Parts
    /\ Init /\ Acts!Init /\ Macros!Init

OnlyOneCalls == \E e \in Executors : \A d \in Executors \ {e} : pc[d] = "idle" /\ pc'[d] = "idle"
OnlyOneActs == \E c \in Clients : \A d \in Clients \ {c} : act[d].pc = "idle" /\ act'[d].pc = "idle"

\* No call takes longer than one unit; each is for the one target.
Calls == Next /\ calls' <= FewCalls
    /\ \A e \in Executors : intent'[e] \in OneTarget \cup {NoIntent} /\ elapsed'[e] <= elapsed[e] + 1
Recovery == Next /\ OnlyOneCalls
    /\ \A e \in Executors : intent'[e] \in ManyTargets \cup {NoIntent}

ActsAlone == Acts!Next /\ OnlyOneActs
ActsTogether == Acts!Next /\ \A c \in Clients : act'[c].pc # "reveal"

SuiteNext ==
    \/ part = "calls" /\ Calls /\ UNCHANGED <<part, actVars, macroVars>>
    \/ part = "recovery" /\ Recovery /\ UNCHANGED <<part, actVars, macroVars>>
    \/ part = "alone" /\ ActsAlone /\ UNCHANGED <<part, vars, macroVars>>
    \/ part = "together" /\ ActsTogether /\ UNCHANGED <<part, vars, macroVars>>
    \/ part = "macros" /\ Macros!Next /\ UNCHANGED <<part, vars, actVars>>

SuiteSpec == SuiteInit /\ [][SuiteNext]_suiteVars

-----------------------------------------------------------------------------
Engines == part \in {"calls", "recovery"}
Acting == part \in {"alone", "together"}

\* However the primary and the fallbacks end, no adapter executes an intent more often than its
\* retries allow (ExecuteWithRecovery, the fallback loop).
BudgetIsKept == Engines => AttemptBudget

\* What the fast path remembers and what a call returns was done by the adapter they name
\* (usedAdapter, UpdateFastPath).
SuccessWasSeen == Engines => TypeOK /\ SuccessIsEarned /\ FastPathEarned

\* What was reported done is not done again: neither by a retry, nor by a fallback (ShouldRetry,
\* ExecuteInternal).
DoneOnce == NothingAfterSuccess

\* An adapter that is chosen without a ranking worked before on that snapshot, and the fast path
\* forgets what was not used for longest (TryFastPath, UpdateFastPath).
FastPathIsSound == FastPathSound /\ FastPathBounded

\* Act heals itself within its bounds and in its order, looks at another node where it says so,
\* executes only what is revealed and nothing after an execution was verified. A success was verified
\* and names the node that was looked at; what was acted on is the node Act resolved or one with its
\* label, and the alternate only where that has no label (ActionExecutor::Act, RecoverAction).
RecoveryIsSound ==
    /\ [](Acting => Acts!TypeOK /\ Acts!BoundedRecovery /\ Acts!AlternateIsOther /\ Acts!SuccessIsVerified)
    /\ Acts!NothingAfterVerified /\ Acts!ExecutedWhenRevealed

\* Both memories count every Act once, for the node of its result, also when clients overlap.
MemoriesAgree == Acting => Acts!MemoriesAgree

\* A macro runs, step by step, what its text means, and queues it in the same order.
RunsTheExpansion == part = "macros" => Macros!TypeOK /\ Macros!RunsTheExpansion /\ Macros!QueuedAsWritten
=============================================================================
