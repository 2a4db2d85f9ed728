---------------------------- MODULE TaskPlanning ----------------------------
(***************************************************************************)
(* The task planner (TaskPlanner::Plan, core/interaction/src/              *)
(* TaskInterface.cpp) behind POST /task/plan and /task/semantic: the nodes *)
(* of the current interaction graph are scored for a goal and the best are *)
(* listed.                                                                 *)
(*                                                                         *)
(* Scores are exact here, in units that keep them whole; the code computes *)
(* in floating point, where scores that are equal may differ in their last *)
(* bits. A node has the state that InteractionGraph builds: hidden when it *)
(* is off the screen, disabled or collapsed, to be revealed when hidden.   *)
(* Nodes are numbered in the order of their ids.                           *)
(***************************************************************************)
EXTENDS Integers, FiniteSets, SequencesExt

CONSTANTS
    Graphs,      \* sets of nodes [id, words, interactive, enabled, offscreen, collapsed, rooted]
    Requests     \* [goal, hint : sequences of words, domain, allowHidden, maxPlans]

VARIABLES graph, request, candidates

vars == <<graph, request, candidates>>

Unit == 84   \* shares of up to 4 words, and of 6 and of 7 keywords, are whole numbers of 1/84

KeywordCoverage(words, needles) ==
    IF needles = <<>> THEN 0
    ELSE (Unit * Cardinality({i \in DOMAIN needles : needles[i] \in words})) \div Len(needles)

Keywords(domain) ==
    CASE domain = "presentation" -> {"present", "presentation", "slide", "slideshow", "deck", "export"}
      [] domain = "browser" -> {"browser", "tab", "address", "search", "url", "navigate", "open"}
      [] OTHER -> {}

DomainAffinity(domain, words) ==
    IF Keywords(domain) = {} THEN 0
    ELSE (Unit * Cardinality(Keywords(domain) \cap words)) \div Cardinality(Keywords(domain))

\* Of 100 * Unit.
WeightedRelevance(r, words) ==
    45 * KeywordCoverage(words, r.goal) + 35 * KeywordCoverage(words, r.hint)
        + 20 * DomainAffinity(r.domain, words)

-----------------------------------------------------------------------------
Hidden(n) == n.offscreen \/ ~n.enabled \/ n.collapsed

Executable(n) == n.interactive /\ n.enabled

\* Steps to expand or focus the parent, to scroll, or else to probe; and the action.
StepCount(n) ==
    LET parents == IF n.rooted THEN 0 ELSE (IF n.collapsed THEN 1 ELSE 0) + (IF Hidden(n) THEN 1 ELSE 0)
        reveal == parents + (IF n.offscreen THEN 1 ELSE 0)
    IN 1 + (IF Hidden(n) /\ reveal = 0 THEN 1 ELSE reveal)

Least(a, b) == IF a < b THEN a ELSE b
Weigh(condition, weight) == IF condition THEN weight ELSE 0

CostOfVisible(n) ==   \* variant: the penalties of hiding are charged to what is visible
    Least(100, 10 + Weigh(~Hidden(n), 38) + Weigh(~Executable(n), 45) + Least(25, 4 * StepCount(n)))

\* Of 100.
EstimateExecutionCost(n) ==
    Least(100, 10 + Weigh(Hidden(n), 18) + Weigh(n.offscreen, 12) + Weigh(n.collapsed, 12)
                  + Weigh(Hidden(n), 20) + Weigh(~Executable(n), 45) + Least(25, 4 * StepCount(n)))

\* Of 10000 * Unit. A node that must be revealed always has a strategy that counts as guaranteed.
EstimateSuccessProbability(n, relevance, cost) ==
    Least(10000 * Unit,
          100 * Unit * (35 + Weigh(Executable(n), 10) - Weigh(Hidden(n), 8) + Weigh(Hidden(n), 3))
              + 45 * relevance + 20 * (100 - cost) * Unit)

\* Of 1000000 * Unit.
Total(r, n) ==
    LET relevance == WeightedRelevance(r, n.words)
        cost == EstimateExecutionCost(n)
    IN 6000 * relevance + 25 * EstimateSuccessProbability(n, relevance, cost) + 1500 * (100 - cost) * Unit

-----------------------------------------------------------------------------
\* Nodes that have an action and are not refused by ScoreNode: their totals are positive.
Plannable(r, nodes) == {n \in nodes : n.interactive /\ (r.allowHidden \/ ~Hidden(n))}

Before(r, m, n) == Total(r, m) > Total(r, n) \/ (Total(r, m) = Total(r, n) /\ m.id < n.id)

Bounded(maxPlans) == IF maxPlans < 1 THEN 1 ELSE Least(maxPlans, 8)

Plan(r, nodes) ==
    LET ordered == SetToSortSeq(Plannable(r, nodes), LAMBDA m, n : Before(r, m, n))
    IN SubSeq(ordered, 1, Least(Len(ordered), Bounded(r.maxPlans)))

NoRequest == [goal |-> <<>>, hint |-> <<>>, domain |-> "generic", allowHidden |-> TRUE, maxPlans |-> 3]

Init == graph \in Graphs /\ request = NoRequest /\ candidates = <<>>

\* POST /task/plan; /task/semantic asks with the goal as the hint, hidden nodes and four plans.
PlanTask(r) ==
    /\ request = NoRequest
    /\ request' = r
    /\ candidates' = Plan(r, graph)
    /\ UNCHANGED graph

Next == \E r \in Requests : PlanTask(r)

Spec == Init /\ [][Next]_vars

-----------------------------------------------------------------------------
(***************************************************************************)
(* Properties.                                                             *)
(***************************************************************************)
Asked == request # NoRequest

Listed == ToSet(candidates)

\* Type invariant: no more candidates than asked for, each a node of the graph, none twice.
TypeOK ==
    /\ Listed \subseteq graph
    /\ Cardinality(Listed) = Len(candidates)
    /\ Asked => Len(candidates) <= request.maxPlans

\* The list is cut at its end, after it was sorted: no node that was left out is better than one
\* that is listed, and the list is as long as it may be.
TheBestAreKept ==
    Asked =>
        /\ \A n \in Plannable(request, graph) \ Listed, m \in Listed : Total(request, m) >= Total(request, n)
        /\ \A i, j \in DOMAIN candidates : i < j => Total(request, candidates[i]) >= Total(request, candidates[j])
        /\ Len(candidates) = Least(request.maxPlans, Cardinality(Plannable(request, graph)))

\* ScoreNode: of nodes with the same words, one that can be acted on as it is is never behind one that
\* is hidden or cannot be acted on, and so is not left out for it.
UsableTwinFirst ==
    \A i \in DOMAIN candidates :
        Hidden(candidates[i]) =>
            \A n \in {m \in Plannable(request, graph) : m.words = candidates[i].words /\ ~Hidden(m)} :
                \E j \in 1..i - 1 : candidates[j] = n

\* The weights of ScoreNode: a node with all the words of the goal and of the hint is ahead of one that
\* has none of them, in whatever state both are and whatever keywords of the domain the other has.
MatchesBeforeStrangers ==
    \A i \in DOMAIN candidates :
        KeywordCoverage(candidates[i].words, request.goal \o request.hint) = 0 /\ request.hint # <<>> =>
            \A n \in Plannable(request, graph) :
                ToSet(request.goal) \cup ToSet(request.hint) \subseteq n.words => n \in {candidates[j] : j \in 1..i - 1}

\* A client that does not allow hidden nodes gets plans of one step that can be executed.
OnlyStepsThatCanBeTaken ==
    Asked /\ ~request.allowHidden =>
        \A n \in Listed : Executable(n) /\ StepCount(n) = 1
=============================================================================
