--------------------------- MODULE UniversalReflex ---------------------------
(***************************************************************************)
(* The reflex agent (core/reflex/src/UniversalReflexEngine.cpp): what is on*)
(* the screen becomes a world model, each object of it affords actions, one*)
(* of them is decided on, and the outcomes of what was executed bias later *)
(* decisions. A process that starts again learns from the stored outcomes. *)
(*                                                                         *)
(* Identifiers are numbers in the order of the strings they stand for;     *)
(* priorities, confidences and biases are hundredths. A box is its extent  *)
(* along one axis. Labels are numbers that are no identifiers; 0 is none.  *)
(***************************************************************************)
EXTENDS Integers, FiniteSets, SequencesExt

CONSTANTS
    Screens,         \* functions from identifiers to what stands there
    Goals,           \* goals of clients
    KMaxExperience,  \* 512 in the code
    KOutcomes,       \* bound: outcomes recorded
    KExecuting       \* bound: decisions that are executed at once

Ids == UNION {DOMAIN screen : screen \in Screens}
CursorId == 1        \* "cursor:active" precedes all other identifiers

\* What can stand on a screen: a node of the tree, what was found by its looks, an element, the cursor.
Boxes == Int \X Int
Items ==
    [source : {"uig"}, shown : BOOLEAN, class : STRING, executable : BOOLEAN, confidence : 0..100,
     box : Boxes, label : Nat, words : SUBSET STRING]
    \cup [source : {"visual"}, textLike : BOOLEAN, edge : 0..100, large : BOOLEAN, confidence : 0..100,
          box : Boxes, label : Nat, words : SUBSET STRING]
    \cup [source : {"screen"}, textLike : BOOLEAN, focused : BOOLEAN, confidence : 0..100,
          box : Boxes, label : Nat, words : SUBSET STRING]
    \cup [source : {"cursor"}, box : Boxes, label : Nat, words : SUBSET STRING]

\* On every screen there is the cursor, and finitely many items.
AgentAssumption ==
    /\ KMaxExperience \in Nat \ {0} /\ KOutcomes \in Nat /\ KExecuting \in Nat
    /\ \A screen \in Screens :
          /\ IsFiniteSet(DOMAIN screen) /\ DOMAIN screen \subseteq Nat \ {0}
          /\ \A id \in DOMAIN screen : screen[id] \in Items
          /\ CursorId \in DOMAIN screen /\ screen[CursorId].source = "cursor"
    /\ \A goal \in Goals : goal.preferred \in Seq(STRING)

VARIABLES
    world,           \* previousWorldModel_: [objects, relationships]
    previousCursor,  \* its box; before the first step: <<>>
    failureBias,     \* failureBiasByKey_, by [action, object]
    adjustments,     \* affordanceConfidenceAdjustments_, by [type, action]
    experience,      \* experience_: [object, type, action, success]
    decision,        \* of the last step
    safety,          \* the policy of the last step
    awaited,         \* decisions that are being executed
    outcomes

agentVars == <<world, previousCursor, failureBias, adjustments, experience, decision, safety, awaited>>
vars == <<world, previousCursor, failureBias, adjustments, experience, decision, safety, awaited, outcomes>>

Limited(low, value, high) == IF value < low THEN low ELSE IF value > high THEN high ELSE value
Apart(a, b) == LET d == a[1] + a[2] - b[1] - b[2] IN (IF d < 0 THEN -d ELSE d) \div 2   \* CenterDistance
Width(box) == box[2] - box[1]

-----------------------------------------------------------------------------
\* UniversalFeatureExtractor.
ClassifyNodeType(node) ==
    CASE ~node.shown -> "obstacle"
      [] node.shown /\ node.class = "menu" -> "navigation_element"
      [] node.shown /\ node.class = "pane" -> "control_surface"
      [] OTHER -> IF node.executable THEN "interactive_object" ELSE "target"

ClassifyVisualType(element) ==
    CASE element.textLike -> "target"
      [] ~element.textLike /\ element.edge >= 45 -> "dynamic_object"
      [] ~element.textLike /\ element.edge < 45 -> IF element.large THEN "control_surface" ELSE "resource"

CursorFeature(item) ==
    LET moved == IF previousCursor = <<>> THEN 0 ELSE Apart(previousCursor, item.box)
    IN IF moved >= 4
       THEN [type |-> "dynamic_object", salience |-> Limited(0, 25 + (100 * moved) \div 64, 100), dynamic |-> TRUE]
       ELSE [type |-> "navigation_element", salience |-> 25, dynamic |-> FALSE]

Feature(item) ==
    CASE item.source = "uig" ->
           [type |-> ClassifyNodeType(item), dynamic |-> FALSE,
            salience |-> Limited(0, (item.confidence * 8) \div 10 + (IF item.executable THEN 20 ELSE 0), 100)]
      [] item.source = "visual" ->
           [type |-> ClassifyVisualType(item), dynamic |-> ClassifyVisualType(item) = "dynamic_object",
            salience |-> (item.confidence * 6 + item.edge * 4) \div 10]
      [] item.source = "screen" ->
           [type |-> IF item.textLike THEN "text_region" ELSE "interactive_object", dynamic |-> FALSE,
            salience |-> (item.confidence * 3) \div 4 + (IF item.focused THEN 25 ELSE 0)]
      [] item.source = "cursor" -> CursorFeature(item)

\* WorldModelBuilder: an object is dynamic when its feature is or when it has moved.
Moved(id, box) == id \in DOMAIN world.objects /\ Apart(world.objects[id].box, box) >= 8

WorldObjects(screen) ==
    [id \in DOMAIN screen |->
        LET feature == Feature(screen[id])
        IN [type |-> feature.type, salience |-> feature.salience, box |-> screen[id].box,
            label |-> screen[id].label, words |-> screen[id].words,
            dynamic |-> feature.dynamic \/ Moved(id, screen[id].box)]]

HoldsCenter(box, other) == 2 * box[1] <= other[1] + other[2] /\ other[1] + other[2] <= 2 * box[2]

Encloses(box, other) == HoldsCenter(box, other) /\ Width(box) > Width(other)

Overlapping(a, b) == a[1] < b[2] /\ b[1] < a[2]

\* Every pair is looked at once, the lower identifier first.
Relationships(objects) ==
    LET Box(id) == objects[id].box
        Pairs == {p \in (DOMAIN objects) \X (DOMAIN objects) : p[1] < p[2]}
        Related(kind, pairs) == {[from |-> p[1], to |-> p[2], type |-> kind] : p \in pairs}
    IN UNION {
        {[from |-> id, to |-> id, type |-> "motion"] : id \in {i \in DOMAIN objects : Moved(i, Box(i))}},
        Related("overlap", {p \in Pairs : Overlapping(Box(p[1]), Box(p[2]))}),
        Related("proximity", {p \in Pairs : Apart(Box(p[1]), Box(p[2])) <= 180}),
        Related("hierarchy", {p \in Pairs : Encloses(Box(p[1]), Box(p[2]))}),
        Related("hierarchy", {<<p[2], p[1]>> : p \in {q \in Pairs : /\ ~Encloses(Box(q[1]), Box(q[2]))
                                                                     /\ Encloses(Box(q[2]), Box(q[1]))}}) }

-----------------------------------------------------------------------------
\* AffordanceEngine, and what the actions mean to the execution engine.

Types == {"interactive_object", "control_surface", "dynamic_object", "text_region", "target",
          "navigation_element", "resource", "obstacle"}

AffordancesForType(type) ==
    CASE type = "interactive_object" -> <<"activate", "click">>
      [] type = "control_surface" -> <<"adjust", "drag">>
      [] type = "dynamic_object" -> <<"target", "track">>
      [] type \in {"text_region", "target"} -> <<"input", "read">>
      [] type = "navigation_element" -> <<"click", "navigate">>
      [] type = "resource" -> <<"acquire", "activate">>
      [] type = "obstacle" -> <<"avoid">>

BestEffortIntentAction(action) ==
    CASE action \in {"activate", "click", "acquire", "target", "track", "navigate"} -> "activate"
      [] action \in {"drag", "adjust"} -> "select"
      [] OTHER -> ""

NormalizeActionToken(action) ==
    CASE action \in {"activate", "click", "acquire", "target", "track", "navigate"} -> "activate"
      [] action \in {"select", "drag", "adjust"} -> "select"
      [] action \in {"set_value", "input"} -> "set_value"
      [] OTHER -> action

Valued(table, key) == IF key \in DOMAIN table THEN table[key] ELSE 0

\* Step adds the adjustment of each of the object's actions.
Confidence(object) ==
    FoldLeft(LAMBDA confidence, action :
                 Limited(0, confidence + Valued(adjustments, [type |-> object.type, action |-> action]), 100),
             Limited(0, (object.salience * 8) \div 10 + 20, 100),
             AffordancesForType(object.type))

-----------------------------------------------------------------------------
\* MetaPolicyEngine.
NoGoal == [active |-> FALSE, text |-> {}, words |-> {}, target |-> {}, preferred |-> <<>>]

ObjectWords(object) == object.words \cup {object.type}

GoalMatchesObject(goal, object) ==
    /\ goal.active
    /\ goal.words \cap ObjectWords(object) # {}
    /\ goal.target # {} => goal.target \cap ObjectWords(object) # {}

\* The first affordance that means what the first possible preference means.
SelectGoalPreferredAction(goal, actions) ==
    LET Fits(p) == {i \in DOMAIN actions : NormalizeActionToken(actions[i]) = NormalizeActionToken(goal.preferred[p])}
        possible == {p \in DOMAIN goal.preferred : Fits(p) # {}}
    IN IF possible = {} THEN ""
       ELSE LET p == CHOOSE q \in possible : \A r \in possible : q <= r
            IN actions[CHOOSE i \in Fits(p) : \A j \in Fits(p) : i <= j]

Threatening(object) == object.type = "dynamic_object" /\ object.salience >= 75

BasePriority(object) ==
    IF Threatening(object) THEN 95
    ELSE CASE object.type = "target" -> 85
           [] object.type = "resource" -> 80
           [] object.type = "obstacle" -> 88
           [] object.type = "interactive_object" -> 78
           [] OTHER -> 55

SelectedAction(object, goal) ==
    LET actions == AffordancesForType(object.type)
        preferred == IF GoalMatchesObject(goal, object) THEN SelectGoalPreferredAction(goal, actions) ELSE ""
    IN IF preferred # "" THEN preferred
       ELSE IF Threatening(object) THEN "avoid" ELSE actions[1]

\* The bias is looked up by the selected action, which is one of the affordances.
Priority(id, object, goal) ==
    LET base == Limited(0, BasePriority(object) + (IF GoalMatchesObject(goal, object) THEN 18 ELSE 0), 100)
    IN Limited(0, base - Valued(failureBias, [action |-> SelectedAction(object, goal), object |-> id]), 100)

TargetLabel(id, object) == IF object.label = 0 THEN id ELSE object.label

Least(S) == CHOOSE x \in S : \A y \in S : x <= y

\* The first object of the highest priority; its action is given even when it must not be executed.
Decide(objects, allowed, goal) ==
    LET PriorityOf(id) == Priority(id, objects[id], goal)
        best == Least({i \in DOMAIN objects : \A j \in DOMAIN objects : PriorityOf(j) <= PriorityOf(i)})
        selected == SelectedAction(objects[best], goal)
        fallback == Least(DOMAIN objects)
    IN IF PriorityOf(best) > 0
       THEN [object |-> best, type |-> objects[best].type, action |-> BestEffortIntentAction(selected),
             label |-> TargetLabel(best, objects[best]), priority |-> PriorityOf(best), exploratory |-> FALSE,
             goalConditioned |-> GoalMatchesObject(goal, objects[best]),
             executable |-> /\ allowed.execute /\ BestEffortIntentAction(selected) # ""
                            /\ objects[best].type # "obstacle"]
       ELSE [object |-> fallback, type |-> objects[fallback].type, action |-> IF allowed.execute THEN "activate" ELSE "",
             label |-> TargetLabel(fallback, objects[fallback]), priority |-> 50, exploratory |-> TRUE,
             goalConditioned |-> FALSE, executable |-> allowed.execute]

-----------------------------------------------------------------------------
\* ExplorationEngine: the most promising object that affords an action of the engine.
Explorable(object) == \E i \in DOMAIN AffordancesForType(object.type) :
                          BestEffortIntentAction(AffordancesForType(object.type)[i]) # ""

ExplorationAction(object) ==
    LET actions == AffordancesForType(object.type)
    IN BestEffortIntentAction(actions[Least({i \in DOMAIN actions : BestEffortIntentAction(actions[i]) # ""})])

Explored(objects, decided, allowed) ==
    LET candidates == {id \in DOMAIN objects : Explorable(objects[id])}
        found == Least({i \in candidates : \A j \in candidates : Confidence(objects[j]) <= Confidence(objects[i])})
    IN IF ~allowed.exploration \/ candidates = {} THEN decided
       ELSE [object |-> found, type |-> objects[found].type, action |-> ExplorationAction(objects[found]),
             label |-> TargetLabel(found, objects[found]), exploratory |-> TRUE,
             priority |-> IF decided.priority < 45 THEN 45 ELSE decided.priority,
             goalConditioned |-> FALSE, executable |-> allowed.execute]

\* What UniversalReflexAgent::Step decides.
Decided(objects, allowed, goal) ==
    LET decided == Decide(objects, allowed, goal)
    IN IF decided.executable THEN decided ELSE Explored(objects, decided, allowed)

\* What it keeps for the next step.
Remember(screen) ==
    LET objects == WorldObjects(screen)
    IN /\ world' = [objects |-> objects, relationships |-> Relationships(objects)]
       /\ previousCursor' = screen[CursorId].box

-----------------------------------------------------------------------------
\* Outcomes.
BiasAfter(bias, success, up, down) == IF success THEN Limited(0, bias - down, 90) ELSE Limited(0, bias + up, 90)
AdjustmentAfter(a, success, up, down) == IF success THEN Limited(-30, a + up, 30) ELSE Limited(-30, a - down, 30)

With(table, key, value) == [k \in DOMAIN table \cup {key} |-> IF k = key THEN value ELSE table[k]]

Latest(entries) == IF Len(entries) > KMaxExperience THEN Tail(entries) ELSE entries

RecordExecutionOutcome(entry) ==
    LET key == [action |-> entry.action, object |-> entry.object]
        kind == [type |-> entry.type, action |-> entry.action]
    IN /\ experience' = Latest(Append(experience, entry))
       /\ failureBias' = With(failureBias, key, BiasAfter(Valued(failureBias, key), entry.success, 25, 10))
       /\ adjustments' = With(adjustments, kind, AdjustmentAfter(Valued(adjustments, kind), entry.success, 2, 3))

\* RestoreExperience: the stored outcomes are replayed, with weights of their own.
ReplayBias(table, entry) ==
    LET key == [action |-> entry.action, object |-> entry.object]
    IN With(table, key, BiasAfter(Valued(table, key), entry.success, 16, 8))

ReplayAdjustment(table, entry) ==
    LET kind == [type |-> entry.type, action |-> entry.action]
    IN With(table, kind, AdjustmentAfter(Valued(table, kind), entry.success, 1, 2))

NewestFirst(entries) == FoldLeft(ReplayBias, <<>>, Reverse(entries))   \* variant: from the newest on

RestoredBias(entries) == FoldLeft(ReplayBias, <<>>, entries)
RestoredAdjustments(entries) == FoldLeft(ReplayAdjustment, <<>>, entries)

-----------------------------------------------------------------------------
Init ==
    /\ world = [objects |-> <<>>, relationships |-> {}]
    /\ previousCursor = <<>>
    /\ failureBias = <<>> /\ adjustments = <<>> /\ experience = <<>>
    /\ decision = [object |-> 0] /\ safety = [execute |-> FALSE, exploration |-> FALSE]
    /\ awaited = {} /\ outcomes = 0

\* /ure/step. On request the decision of this step is executed, after the agent was unlocked.
Step(screen, goal) ==
    \E execute \in BOOLEAN :
        /\ safety' = [execute |-> execute, exploration |-> execute]
        /\ decision' = Decided(WorldObjects(screen), safety', goal)
        /\ Remember(screen)
        /\ \/ UNCHANGED awaited
           \/ /\ decision'.executable /\ Cardinality(awaited) < KExecuting /\ outcomes < KOutcomes
              /\ awaited' = awaited \cup {decision'}
        /\ UNCHANGED <<failureBias, adjustments, experience, outcomes>>

\* Its outcome, possibly after steps of other clients.
Outcome ==
    /\ outcomes < KOutcomes
    /\ \E executed \in awaited, success \in BOOLEAN :
          /\ RecordExecutionOutcome([object |-> executed.object, type |-> executed.type,
                                     action |-> executed.action, success |-> success])
          /\ awaited' = awaited \ {executed}
    /\ outcomes' = outcomes + 1
    /\ UNCHANGED <<world, previousCursor, decision, safety>>

\* The process ends with its outcomes stored, and starts again.
Restart ==
    /\ failureBias' = RestoredBias(experience)
    /\ adjustments' = RestoredAdjustments(experience)
    /\ world' = [objects |-> <<>>, relationships |-> {}]
    /\ previousCursor' = <<>> /\ awaited' = {}
    /\ UNCHANGED <<experience, decision, safety, outcomes>>

Next == (\E screen \in Screens, goal \in Goals : Step(screen, goal)) \/ Outcome \/ Restart

Spec == Init /\ [][Next]_vars

-----------------------------------------------------------------------------
\* Biases and adjustments stay in their ranges whatever the outcomes, and what is remembered of
\* them is limited.
TypeOK ==
    /\ \A key \in DOMAIN failureBias : failureBias[key] \in 0..90
    /\ \A kind \in DOMAIN adjustments : adjustments[kind] \in -30..30
    /\ Len(experience) <= KMaxExperience
    /\ awaited \subseteq [object : Ids, type : Types, action : {"activate", "select"}, label : Nat,
                          priority : 0..100, exploratory : BOOLEAN, goalConditioned : BOOLEAN, executable : {TRUE}]

\* What may be executed is permitted, is on the screen and can be done there: it is never about an
\* obstacle, also when it was found by exploring or is what a goal prefers.
SafeToExecute ==
    decision.object # 0 /\ decision.executable =>
        /\ safety.execute /\ decision.action # ""
        /\ decision.type # "obstacle"
        /\ \E i \in DOMAIN AffordancesForType(decision.type) :
              BestEffortIntentAction(AffordancesForType(decision.type)[i]) = decision.action

\* The outcome that is remembered last for an object counts, in a process that learned it itself
\* as in one that replayed it: after a failure there is a bias, after a success it is not at its limit.
LastOutcomeCounts ==
    \A i \in DOMAIN experience :
        LET key == [action |-> experience[i].action, object |-> experience[i].object]
            isLast == \A j \in i + 1..Len(experience) :
                          experience[j].action # key.action \/ experience[j].object # key.object
        IN isLast => IF experience[i].success THEN Valued(failureBias, key) <= 82 ELSE Valued(failureBias, key) >= 16

\* Containment is a hierarchy: among any objects there is one that no other of them contains, so
\* that following it never leads back.
ContainmentIsAHierarchy ==
    \A ids \in SUBSET DOMAIN world.objects : ids # {} =>
        \E top \in ids : ~ \E r \in world.relationships : r.type = "hierarchy" /\ r.from \in ids /\ r.to = top

\* README.md: failures bias against what failed. A choice with a recorded bias has lost as much
\* priority as the bias says.
FailureLowersPriority ==
    [][(\E screen \in Screens, goal \in Goals : Step(screen, goal)) /\ ~decision'.exploratory =>
          LET bias == Valued(failureBias, [action |-> decision'.action, object |-> decision'.object])
          IN decision'.priority <= 100 - bias]_vars
=============================================================================
