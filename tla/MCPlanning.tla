------------------------------ MODULE MCPlanning ------------------------------
(***************************************************************************)
(* What is planned for clients, in one instance for TLC: sentences that    *)
(* are split, planned and posted back, and the candidates of task plans.   *)
(* The parts share no variable, so a behaviour moves one of them, `part';  *)
(* what the other would be given is then empty.                            *)
(***************************************************************************)
EXTENDS Integers, Sequences, FiniteSets, TLC

VARIABLES
    part,
    phase, asked, plan, run, effects,
    graph, task, candidates

sentenceVars == <<phase, asked, plan, run, effects>>
taskVars == <<graph, task, candidates>>
vars == <<part, sentenceVars, taskVars>>

-----------------------------------------------------------------------------
\* Sentences of the words that the parsers look for and of names of fields.
Words == {"type", "in", "then", "value", "context"}

Sentences == (UNION {[1..n -> Words] : n \in 1..5}) \cup {
    <<"go", "to", "site", "then", "navigate", "site", "then", "select", "save">>,
    <<"type", "a", "in", "b", "in", "c", "then", "search">>,
    <<"go", "to", "then", "export", "then">>,
    <<"type", "save", "in", "value", "then", "click", "save">>}

SomeContexts == {[app |-> <<>>, domain |-> <<>>], [app |-> <<"code">>, domain |-> <<"browser">>]}

\* Three nodes: one matches, one half, one has the keywords of a domain, one is a stranger; each as it
\* is, off the screen, in a collapsed menu, disabled, or a label.
Labels == {{"export", "slide"}, {"export", "button"},
           {"browser", "tab", "address", "search", "url", "navigate", "open"}, {"help"}}

Condition(interactive, enabled, offscreen, collapsed, rooted) ==
    [interactive |-> interactive, enabled |-> enabled, offscreen |-> offscreen,
     collapsed |-> collapsed, rooted |-> rooted]
Conditions == {Condition(TRUE, TRUE, FALSE, FALSE, FALSE), Condition(TRUE, TRUE, TRUE, FALSE, FALSE),
               Condition(TRUE, TRUE, TRUE, TRUE, FALSE), Condition(TRUE, FALSE, FALSE, FALSE, TRUE),
               Condition(FALSE, TRUE, FALSE, FALSE, FALSE)}

SomeGraphs == {{[id |-> i, words |-> words[i]] @@ conditions[i] : i \in 1..3} :
                  words \in [1..3 -> Labels], conditions \in [1..3 -> Conditions]}

SomeTasks ==
    {[goal |-> goal, hint |-> hint, domain |-> domain, allowHidden |-> allowHidden, maxPlans |-> maxPlans] :
        goal \in {<<"export", "slide">>}, hint \in {<<>>, <<"export">>},
        domain \in {"generic", "browser", "presentation"}, allowHidden \in BOOLEAN, maxPlans \in {1, 2}}

-----------------------------------------------------------------------------
Planned == INSTANCE SemanticSequences WITH
    Goals <- Sentences, Contexts <- SomeContexts, pc <- phase, request <- asked
Tasks == INSTANCE TaskPlanning WITH Graphs <- SomeGraphs, Requests <- SomeTasks, request <- task

Init ==
    /\ part \in {"planned", "tasks"}
    /\ Planned!Init
    /\ IF part = "tasks" THEN Tasks!Init ELSE graph = {} /\ task = Tasks!NoRequest /\ candidates = <<>>

Next ==
    \/ part = "planned" /\ Planned!Next /\ UNCHANGED <<part, taskVars>>
    \/ part = "tasks" /\ Tasks!Next /\ UNCHANGED <<part, sentenceVars>>

Spec == Init /\ [][Next]_vars

-----------------------------------------------------------------------------
\* A sentence is split, planned, sent to the client, posted back and parsed again without losing a
\* word or a step, and its report counts what happened.
StepsSurvivePosting ==
    part = "planned" =>
        /\ Planned!TypeOK /\ Planned!ClausesRebuildTheGoal /\ Planned!TypedTextEndsAtTheTarget
        /\ Planned!StepsSurvivePosting /\ Planned!ReportTellsWhatHappened

\* The candidates of a task are the best there are: a usable node is ahead of its unusable twin, one
\* that matches ahead of a stranger, and without hidden nodes every plan can be followed.
BestCandidatesFirst ==
    part = "tasks" =>
        /\ Tasks!TypeOK /\ Tasks!TheBestAreKept /\ Tasks!UsableTwinFirst
        /\ Tasks!MatchesBeforeStrangers /\ Tasks!OnlyStepsThatCanBeTaken
=============================================================================
