-------------------------- MODULE SemanticSequences --------------------------
(***************************************************************************)
(* Goals in words (core/platform/src/PlatformLayer.cpp and the handlers of *)
(* interface/api/src/IntentApiServer.cpp): a client posts a goal to        *)
(* /task/semantic, gets a sequence of actions for it, and posts the        *)
(* sequence to /act/sequence, where IntentSequenceExecutor performs it.    *)
(*                                                                         *)
(* A goal is the sequence of its words, in lower case and one space apart. *)
(* An action is performed by ActionExecutor::Act (ActionPipeline): here it *)
(* may succeed, or fail before or after it had its effect.                 *)
(***************************************************************************)
EXTENDS JsonFields

CONSTANTS
    Goals,       \* sequences of words
    Contexts     \* [app, domain : sequences of words]

VARIABLES
    pc,          \* idle, planned, running, done
    request,     \* the goal and the context that were posted
    plan,        \* what /task/semantic answered
    run,         \* the sequence that was posted, and what became of it
    effects      \* actions that had their effect, in order

vars == <<pc, request, plan, run, effects>>

From(words, i) == SubSeq(words, i, Len(words))

\* The first place, after a word and before another, of a word that is spelled with its spaces.
Separators(words, word) == {i \in 2..Len(words) - 1 : words[i] = word}

\* SplitPhrase(goal, " then "): a "then" right after another belongs to the next clause, the space is spent.
RECURSIVE SplitPhrase(_)
SplitPhrase(words) ==
    LET cuts == Separators(words, "then")
    IN IF cuts = {} THEN <<words>>
       ELSE <<SubSeq(words, 1, First(cuts) - 1)>> \o SplitPhrase(From(words, First(cuts) + 1))

-----------------------------------------------------------------------------
\* ParseActLikePhrase; what it does not understand is activated as it stands.
Asked(action, target, value) == [action |-> <<action>>, target |-> target, value |-> value]

\* " in " right after "type" starts before the value would: the length wraps and the value is all the rest.
Typed(words) ==
    LET ins == Separators(words, "in")
    IN IF ins = {} THEN Asked("set_value", <<"focused", "input">>, From(words, 2))
       ELSE Asked("set_value", From(words, First(ins) + 1),
                  IF First(ins) = 2 THEN From(words, 2) ELSE SubSeq(words, 2, First(ins) - 1))

ParseActLikePhrase(words) ==
    CASE Len(words) >= 2 /\ words[1] \in {"click", "open", "activate"} -> Asked("activate", From(words, 2), <<>>)
      [] Len(words) >= 2 /\ words[1] = "select" -> Asked("select", From(words, 2), <<>>)
      [] Len(words) >= 2 /\ words[1] = "type" -> Typed(words)
      [] Len(words) >= 2 /\ words[1] = "navigate" -> Asked("navigate", <<"address", "bar">>, From(words, 2))
      [] Len(words) >= 3 /\ words[1] = "go" /\ words[2] = "to" -> Asked("navigate", <<"address", "bar">>, From(words, 3))
      [] OTHER -> Asked("activate", words, <<>>)

Mentions(words, keywords) == ToSet(words) \cap keywords # {}

DomainOf(goal, context) ==
    CASE context.domain \in {<<"presentation">>, <<"browser">>} -> context.domain[1]
      [] context.domain # <<>> -> "generic"
      [] Mentions(goal, {"browser", "search", "url"}) -> "browser"
      [] Mentions(goal, {"slide", "presentation", "export"}) -> "presentation"
      [] OTHER -> "generic"

\* SemanticPlannerBridge::Plan: the steps, or a task for the planner when no clause ends in " then ".
Plan(goal, context) ==
    IF Separators(goal, "then") = {}
    THEN [steps |-> <<>>, task |-> [goal |-> goal, domain |-> DomainOf(goal, context)]]
    ELSE LET clauses == SplitPhrase(goal)
         IN [steps |-> [i \in DOMAIN clauses |-> ParseActLikePhrase(clauses[i]) @@ [context |-> context]],
             task |-> [goal |-> goal, domain |-> DomainOf(goal, context)]]

-----------------------------------------------------------------------------
\* The bodies that the server writes and the client sends back.
Field(key, text) == <<Str(<<key>>), Mark(":"), Str(text)>>

Comma == <<Mark(",")>>

ContextJson(context) ==
    <<Str(<<"context">>), Mark(":"), Mark("{")>> \o Field("app", context.app)
        \o Comma \o Field("domain", context.domain) \o <<Mark("}")>>

StepJson(step) ==
    <<Mark("{")>> \o Field("action", step.action) \o Comma \o Field("target", step.target)
        \o Comma \o Field("value", step.value) \o Comma \o ContextJson(step.context) \o <<Mark("}")>>

SequenceJson(steps) ==
    <<Mark("{"), Str(<<"steps">>), Mark(":"), Mark("[")>>
        \o FlattenSeq([i \in DOMAIN steps |-> (IF i = 1 THEN <<>> ELSE Comma) \o StepJson(steps[i])])
        \o <<Mark("]"), Mark("}")>>

GoalJson(goal, context) ==
    <<Mark("{")>> \o Field("goal", goal) \o Comma \o ContextJson(context) \o <<Mark("}")>>

\* ParseSemanticTaskRequestJson: only a context object is looked into.
ParseSemanticTaskRequestJson(payload) ==
    {[goal |-> goal,
      context |-> LET within == ExtractJsonObjectField(payload, "context")
                  IN IF within = {} THEN [app |-> <<>>, domain |-> <<>>]
                     ELSE ContextIn(CHOOSE object \in within : TRUE)] :
        goal \in Given(ExtractJsonStringField(payload, "goal"))}

-----------------------------------------------------------------------------
NoContext == [app |-> <<>>, domain |-> <<>>]

NoRun == [steps |-> <<>>, attempted |-> 0, completed |-> 0, failedStep |-> -1, status |-> "failure"]

Init ==
    /\ pc = "idle"
    /\ request = [goal |-> <<>>, context |-> NoContext]
    /\ plan = Plan(<<>>, NoContext)
    /\ run = NoRun
    /\ effects = <<>>

\* POST /task/semantic.
PlanGoal(goal, context) ==
    /\ pc = "idle"
    /\ \E parsed \in ParseSemanticTaskRequestJson(GoalJson(goal, context)) :
           plan' = Plan(parsed.goal, parsed.context)
    /\ request' = [goal |-> goal, context |-> context]
    /\ pc' = "planned"
    /\ UNCHANGED <<run, effects>>

\* POST /act/sequence with the steps of the answer; a body without steps is refused.
PostSequence ==
    /\ pc = "planned"
    /\ \E steps \in ParseIntentSequenceJson(SequenceJson(plan.steps)) : run' = [NoRun EXCEPT !.steps = steps]
    /\ pc' = "running"
    /\ UNCHANGED <<request, plan, effects>>

RefuseSequence ==
    /\ pc = "planned"
    /\ ParseIntentSequenceJson(SequenceJson(plan.steps)) = {}
    /\ pc' = "done"
    /\ UNCHANGED <<request, plan, run, effects>>

\* Act refuses to set no value.
Performs(step) == ~(step.action = <<"set_value">> /\ step.value = <<>>)

Continues(success) == success   \* both handlers ask to stop at a failure

\* One step of IntentSequenceExecutor::Execute.
ActStep(succeeds, happens) ==
    LET attempted == run.attempted + 1
        completed == run.completed + (IF succeeds THEN 1 ELSE 0)
    IN /\ pc = "running"
       /\ succeeds => happens
       /\ happens => Performs(run.steps[attempted])
       /\ effects' = IF happens THEN Append(effects, run.steps[attempted]) ELSE effects
       /\ run' = [run EXCEPT !.attempted = attempted, !.completed = completed,
                             !.failedStep = IF succeeds THEN @ ELSE attempted - 1,
                             !.status = IF completed = Len(run.steps) THEN "success" ELSE @]
       /\ pc' = IF Continues(succeeds) /\ attempted < Len(run.steps) THEN "running" ELSE "done"
       /\ UNCHANGED <<request, plan>>

Next ==
    \/ \E goal \in Goals, context \in Contexts : PlanGoal(goal, context)
    \/ PostSequence
    \/ RefuseSequence
    \/ \E succeeds, happens \in BOOLEAN : ActStep(succeeds, happens)

Spec == Init /\ [][Next]_vars

-----------------------------------------------------------------------------
(***************************************************************************)
(* Properties.                                                             *)
(***************************************************************************)
\* Type invariant of the executor: a run that goes on has not failed, and counts within its steps.
TypeOK ==
    /\ pc \in {"idle", "planned", "running", "done"}
    /\ 0 <= run.completed /\ run.completed <= run.attempted /\ run.attempted <= Len(run.steps)
    /\ pc = "running" => run.attempted < Len(run.steps) /\ run.failedStep = -1
    /\ run.status = "success" => run.failedStep = -1

Clauses == IF Separators(request.goal, "then") = {} THEN <<>> ELSE SplitPhrase(request.goal)

\* SplitPhrase loses no word: the clauses with "then" between them are the goal, none of them is
\* empty, and there is one step for each.
ClausesRebuildTheGoal ==
    Clauses # <<>> =>
        /\ request.goal = FlattenSeq([i \in DOMAIN Clauses |->
                                IF i = 1 THEN Clauses[i] ELSE <<"then">> \o Clauses[i]])
        /\ <<>> \notin ToSet(Clauses)
        /\ Len(plan.steps) = Len(Clauses)

\* ParseActLikePhrase: what is typed ends where the first " in " begins and the target follows it,
\* so no word is both typed and part of the target, unless nothing stands between "type" and "in".
TypedTextEndsAtTheTarget ==
    \A i \in DOMAIN plan.steps :
        LET step == plan.steps[i]
        IN step.action = <<"set_value">> /\ step.target # <<"focused", "input">> =>
            \/ /\ Clauses[i] = <<"type">> \o step.value \o <<"in">> \o step.target
               /\ Separators(step.value \o <<"in">>, "in") = {}
            \/ step.value = <<"in">> \o step.target

FieldNames == {<<name>> : name \in {"action", "target", "value", "context", "app", "domain", "steps"}}

\* A sequence that the server has planned means the same when the client posts it back, unless a
\* target or a value is spelled like a field: then the search of a field may stop at it.
StepsSurvivePosting ==
    pc = "running" \/ (pc = "done" /\ run.steps # <<>>) =>
        /\ Len(run.steps) = Len(plan.steps)
        /\ \A i \in DOMAIN plan.steps :
            \/ run.steps[i] = plan.steps[i]
            \/ {plan.steps[i].target, plan.steps[i].value} \cap FieldNames # {}

\* What has happened is what the answer said, in its order and from its first step on, and the
\* report counts it: all of it, but for a last step that failed after it had its effect.
ReportTellsWhatHappened ==
    /\ Len(effects) \in run.completed..run.completed + (IF run.failedStep = -1 THEN 0 ELSE 1)
    /\ \A i \in DOMAIN effects :
        LET planned == plan.steps[i]
        IN <<effects[i].action, effects[i].target, effects[i].value>>
            = <<planned.action, planned.target, planned.value>>
=============================================================================
