------------------------- MODULE ReflexCoordination -------------------------
(***************************************************************************)
(* The decision provider of the reflex runtime: four specialists propose   *)
(* bundles beside the agent's decision, the planner refines and orders     *)
(* them, a strategy may boost one, and the coordinator picks the actions   *)
(* that become intents (core/reflex/src/ReflexCoordination.cpp and         *)
(* UreDecisionProvider in interface/api/src/IntentApiServer.cpp). Outcomes *)
(* of the intents come back to the agent.                                  *)
(*                                                                         *)
(* Of the continuous actions only the two triggers are kept: `interact' is *)
(* set by every frame, so that the axes never decide whether there is one. *)
(***************************************************************************)
EXTENDS UniversalReflex

CONSTANTS
    IdWords,      \* the words an identifier contains
    KFrames       \* bound: frames decided

CoordinationAssumption == IdWords \in [Ids -> SUBSET STRING] /\ KFrames \in Nat

VARIABLES
    centers,      \* keys of previousCenters_
    frame,        \* the last frame: what was planned and what came of it
    pending,      \* intents in the control runtime
    frames

providerVars == <<agentVars, outcomes, centers, frame, pending, frames>>

-----------------------------------------------------------------------------
\* Attention, prediction and anticipation.
MoreSalient(objects, a, b) ==
    objects[a].salience > objects[b].salience \/ (objects[a].salience = objects[b].salience /\ a < b)

BuildAttentionMap(objects) ==
    LET sorted == SetToSortSeq(DOMAIN objects, LAMBDA a, b : MoreSalient(objects, a, b))
    IN SubSeq(sorted, 1, IF Len(sorted) > 5 THEN 5 ELSE Len(sorted))

SelectAttentionObject(objects) == BuildAttentionMap(objects)[1]

PredictedConfidence(id, object) ==
    (IF object.dynamic THEN 75 ELSE 55) + (IF id \in centers THEN 18 ELSE -20)

\* The signal counts the surest prediction, in hundredths of hundredths.
DriftConfidence(objects) ==
    LET top == CHOOSE c \in {PredictedConfidence(id, objects[id]) : id \in DOMAIN objects} :
                   \A id \in DOMAIN objects : PredictedConfidence(id, objects[id]) <= c
    IN 75 * top
Actionable(objects) == DriftConfidence(objects) >= 6200

-----------------------------------------------------------------------------
\* The specialists.
IsMeaningfulGoal(goal) == goal.active /\ goal.text # {}
GoalTouchesObject(goal, object) == IsMeaningfulGoal(goal) /\ goal.words \cap ObjectWords(object) # {}

Bundle(source, target, priority, actions, fire, interact) ==
    [source |-> source, target |-> target, priority |-> Limited(0, priority, 100),
     discrete |-> actions, fire |-> fire, interact |-> interact]

Permitted(allowed, name, intent) == IF allowed.execute THEN << [name |-> name, intent |-> intent] >> ELSE <<>>

MovementAgent(objects, focus, goal, allowed) ==
    Bundle("movement", focus,
           (IF IsMeaningfulGoal(goal) THEN 70 ELSE 55) + (IF GoalTouchesObject(goal, objects[focus]) THEN 14 ELSE 0),
           Permitted(allowed, "move_toward_target", "move"), FALSE, FALSE)

AimAgent(focus, goal, allowed) ==
    LET shooting == goal.active /\ goal.text \cap {"shoot", "fire"} # {}
    IN Bundle("aim", focus, (IF IsMeaningfulGoal(goal) THEN 64 ELSE 52) + (IF shooting THEN 18 ELSE 0),
              IF shooting THEN Permitted(allowed, "shoot", "activate") ELSE Permitted(allowed, "aim_target", "select"),
              shooting, FALSE)

\* Only the first preference counts; what it does not know means to activate.
PreferredIntent(goal) ==
    LET preferred == IF goal.active /\ goal.preferred # <<>> THEN Head(goal.preferred) ELSE ""
    IN CASE preferred \in {"select", "drag", "adjust"} -> "select"
         [] preferred \in {"set_value", "input"} -> "set_value"
         [] OTHER -> "activate"

\* It proposes to interact even when nothing may be executed.
InteractionAgent(objects, focus, goal, allowed) ==
    Bundle("interaction", focus,
           (IF IsMeaningfulGoal(goal) THEN 72 ELSE 60)
               + (IF allowed.execute /\ GoalTouchesObject(goal, objects[focus]) THEN 16 ELSE 0),
           Permitted(allowed, "interact", PreferredIntent(goal)), FALSE, TRUE)

StrategyAgent(focus, goal, allowed) ==
    Bundle("strategy", focus, IF IsMeaningfulGoal(goal) THEN 58 ELSE 45,
           IF IsMeaningfulGoal(goal) THEN Permitted(allowed, "stabilize_interaction", "select")
                                     ELSE Permitted(allowed, "explore_context", "activate"), FALSE, FALSE)

\* The decision's action is proposed whether it is executable or not.
BuildBundleFromReflexDecision(decided) ==
    Bundle("meta_policy", decided.object, decided.priority,
           IF decided.action = "" THEN <<>> ELSE << [name |-> "reflex_action", intent |-> decided.action] >>, FALSE, FALSE)

BuildSpecialistBundles(objects, goal, allowed) ==
    LET focus == SelectAttentionObject(objects)
    IN {MovementAgent(objects, focus, goal, allowed), AimAgent(focus, goal, allowed),
        InteractionAgent(objects, focus, goal, allowed), StrategyAgent(focus, goal, allowed)}

-----------------------------------------------------------------------------
\* MicroPlanner, the strategy, and the coordinator.
Sources == <<"aim", "interaction", "meta_policy", "movement", "strategy">>   \* in their order
SourceRank(source) == CHOOSE i \in DOMAIN Sources : Sources[i] = source

\* No two bundles of a frame have the same source.
Before(a, b) == a.priority > b.priority \/ (a.priority = b.priority /\ SourceRank(a.source) < SourceRank(b.source))
Ordered(bundles) ==
    [place \in 1..Cardinality(bundles) |->
        CHOOSE bundle \in bundles : Cardinality({other \in bundles : Before(other, bundle)}) = place - 1]

Named(goal, bundle) == goal.target # {} /\ goal.target \subseteq IdWords[bundle.target]

Refined(goal, bundle) ==
    LET boost == IF ~IsMeaningfulGoal(goal) THEN 0
                 ELSE (IF bundle.source = "interaction" THEN 8 ELSE 0) + (IF Named(goal, bundle) THEN 10 ELSE 0)
    IN IF bundle.priority < 5 THEN bundle ELSE [bundle EXCEPT !.priority = Limited(0, @ + boost, 100)]

\* At most five bundles come here, so that the limit of six never cuts.
Refine(goal, bundles) == Ordered({b \in {Refined(goal, bundle) : bundle \in bundles} : b.priority >= 20})

\* EvaluatePreemption, of an active strategy: the confidence in hundredths of hundredths.
Highest(planned) == planned[1]

Preempts(goal, objects, decided, planned) ==
    /\ IsMeaningfulGoal(goal) /\ planned # <<>>
    /\ LET delta == Limited(0, Highest(planned).priority - decided.priority, 100) * 100
           boost == IF Actionable(objects) THEN (DriftConfidence(objects) * 35) \div 100 ELSE 0
       IN delta + boost >= 4500 /\ Highest(planned).priority >= 70

Boost(source, planned) ==
    Ordered({IF planned[i].source = source THEN [planned[i] EXCEPT !.priority = Limited(0, @ + 18, 100)] ELSE planned[i]
                 : i \in DOMAIN planned})

IsConflictingAction(a, b) == a.intent = b.intent

KeepLast(planned) ==   \* variant: a later bundle replaces the action of an earlier one
    FoldLeft(LAMBDA kept, bundle : SelectSeq(kept, LAMBDA k : \A i \in DOMAIN bundle.discrete :
                                                        ~IsConflictingAction(k, bundle.discrete[i])) \o bundle.discrete,
             <<>>, planned)

\* ActionCoordinator::resolve, the discrete channel.
Keep(kept, action) ==
    IF \E i \in DOMAIN kept : IsConflictingAction(action, kept[i]) THEN kept ELSE Append(kept, action)

Resolve(kept, actions) == FoldLeft(Keep, kept, actions)

Coordinate(planned) == FoldLeft(Resolve, <<>>, [i \in DOMAIN planned |-> planned[i].discrete])

HasMeaningfulContinuous(planned) == \E i \in DOMAIN planned : planned[i].fire \/ planned[i].interact

-----------------------------------------------------------------------------
\* UreDecisionProvider::Decide.
PrimaryObject(planned, decided) == IF planned = <<>> THEN decided.object ELSE planned[1].target

\* The intents of a frame carry the object of the first bundle and the label of the decision.
IntentsOf(planned, decided) ==
    LET primary == PrimaryObject(planned, decided)
        actions == Coordinate(planned)
    IN {[action |-> actions[i].intent, continuous |-> FALSE, object |-> primary, label |-> decided.label] : i \in DOMAIN actions}
       \cup IF HasMeaningfulContinuous(planned)
            THEN {[action |-> "move", continuous |-> TRUE, object |-> primary, label |-> primary]}
            ELSE {}

UreInit ==
    /\ Init
    /\ centers = {} /\ pending = {} /\ frames = 0
    /\ frame = [planned |-> <<>>, boosted |-> <<>>, intents |-> {}, permitted |-> FALSE, label |-> 0]

\* What one frame computes, value by value.
UreDecide(screen, goal) ==
    /\ frames < KFrames /\ pending = {}
    /\ \E permitted \in BOOLEAN, executeActions \in BOOLEAN :
       \E objects \in {WorldObjects(screen)},
          allowed \in {[execute |-> permitted /\ executeActions, exploration |-> permitted]} :
       \E decided \in {Decided(objects, allowed, goal)} :
       \E planned \in {Refine(goal, BuildSpecialistBundles(objects, goal, allowed)
                                        \cup {BuildBundleFromReflexDecision(decided)})} :
       \E boosted \in {IF Preempts(goal, objects, decided, planned) THEN Boost(Highest(planned).source, planned) ELSE planned} :
           /\ Remember(screen)
           /\ decision' = decided /\ safety' = allowed
           /\ centers' = DOMAIN objects
           /\ pending' = (IF executeActions THEN IntentsOf(boosted, decided) ELSE {})
           /\ frame' = [planned |-> planned, boosted |-> boosted, intents |-> pending', permitted |-> permitted,
                        label |-> IF planned = <<>> THEN 0 ELSE TargetLabel(planned[1].target, objects[planned[1].target])]
    /\ frames' = frames + 1
    /\ UNCHANGED <<failureBias, adjustments, experience, awaited, outcomes>>

\* The execution observer: the object's type is not known to it.
UreObserve ==
    /\ \E intent \in pending, success \in BOOLEAN :
          /\ pending' = pending \ {intent}
          /\ \/ outcomes < KOutcomes /\ outcomes' = outcomes + 1
                /\ RecordExecutionOutcome([object |-> intent.object, type |-> "", action |-> intent.action, success |-> success])
             \/ UNCHANGED <<failureBias, adjustments, experience, outcomes>>    \* the observer was cleared
    /\ UNCHANGED <<world, previousCursor, decision, safety, awaited, centers, frame, frames>>

UreNext == (\E screen \in Screens, goal \in Goals : UreDecide(screen, goal)) \/ UreObserve

UreSpec == UreInit /\ [][UreNext]_providerVars

-----------------------------------------------------------------------------
\* The last frame is one of the provider's, and what waits comes from it.
UreTypeOK ==
    /\ pending \subseteq frame.intents /\ frames \in 0..KFrames
    /\ \A i \in DOMAIN frame.boosted : frame.boosted[i].priority \in 20..100
    /\ Len(frame.planned) \in {0, 4, 5} /\ Len(frame.boosted) = Len(frame.planned)

\* At most one discrete intent of a kind comes from a frame, and it is the one that the bundle of
\* the highest priority proposes: no proposal of lower priority displaces it or is lost with it.
BestBundleWins ==
    LET proposing(intent) == {i \in DOMAIN frame.boosted :
                                  \E k \in DOMAIN frame.boosted[i].discrete : frame.boosted[i].discrete[k].intent = intent}
        kept == Coordinate(frame.boosted)
    IN \A i \in DOMAIN frame.boosted : \A k \in DOMAIN frame.boosted[i].discrete :
          LET action == frame.boosted[i].discrete[k]
          IN /\ Cardinality({n \in DOMAIN kept : kept[n].intent = action.intent}) = 1
             /\ (\A j \in proposing(action.intent) : i <= j) <=> (\E n \in DOMAIN kept : kept[n] = action)

\* A preemption strengthens the bundle that leads and nothing else: what is coordinated after it is
\* what would have been coordinated without it.
PreemptionBoostsTheLeader ==
    /\ Coordinate(frame.boosted) = Coordinate(frame.planned)
    /\ PrimaryObject(frame.boosted, decision) = PrimaryObject(frame.planned, decision)

\* docs/universal_reflex_engine.md: the policy is checked before execution. Intents are made only
\* in frames whose policy permits to execute.
PolicyIsChecked == frame.intents # {} => frame.permitted

\* docs/universal_reflex_engine.md: failures increase the local bias. The label that an intent is
\* resolved by is the label of the object that its outcome is recorded for.
OutcomeIsLocal == \A intent \in frame.intents : ~intent.continuous => intent.label = frame.label
=============================================================================
