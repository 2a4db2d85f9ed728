------------------------------- MODULE MCReflex -------------------------------
(***************************************************************************)
(* The reflex runtime in one instance for TLC: the agent learning from     *)
(* outcomes, the agent deciding for many screens and goals, the decision   *)
(* provider frame by frame, the service with two clients and with a        *)
(* crash, and the memory of skills. They share no variable but the         *)
(* agent's, so a behaviour moves one of them, as `part' says.              *)
(***************************************************************************)
EXTENDS ReflexScreens, ReflexPersistence, FiniteSets, TLC

CONSTANTS
    Parts,                                             \* which parts move
    LearnedScreens, DecidedScreens, PlannedScreens,    \* of the agent, by its part
    DecidedGoals, PlannedGoals,
    KRemembered, KRecorded, KAtOnce, KDecided          \* bounds of the agent

VARIABLES
    part,
    world, previousCursor, failureBias, adjustments, experience, decision, safety, awaited, outcomes,
    centers, frame, pending, frames

agentVars == <<world, previousCursor, failureBias, adjustments, experience, decision, safety, awaited, outcomes,
               centers, frame, pending, frames>>
vars == <<part, agentVars, serviceVars, skillVars>>

-----------------------------------------------------------------------------
\* Screens and goals for each of the agent's parts; nothing is wanted without a goal.
NoWish == [active |-> FALSE, text |-> {}, words |-> {}, target |-> {}, preferred |-> <<>>]
Saving == Wanted({"save"}, {}, <<"click">>)
Shaping == Wanted({"shape", "open"}, {"shape"}, <<"select">>)

ScreensToLearn == {Form(20), Picture(20)}
ScreensToDecide == {Form(20), Hiding(20), Hiding(70), Picture(20), Moving(60)}
GoalsToDecide == {NoWish, Saving, Wanted({"avoid", "obstacle"}, {}, <<"set_value", "activate">>), Shaping}
ScreensToPlan == {Form(20), Hiding(70), Panes(0), Panes(40)}
GoalsToPlan == {NoWish, Saving, Wanted({"shoot"}, {"save"}, <<"input">>), Shaping}
\* Two sequences of actions, of which one takes a number of frames with two digits, and a file of
\* skills with near rates of which the worse was tried more often.
Left(attempts) ==
    [attempts |-> attempts, successes |-> 1, sequence |-> <<activate>>, frames |-> 4, complexity |-> 0]
SomeSequences == {<<set, activate>>, <<set, activate, set>>}
SomeFiles == {<<>>, <<Left(2), Left(3), Left(4)>>}

-----------------------------------------------------------------------------
AllScreens == LearnedScreens \cup DecidedScreens \cup PlannedScreens

\* Clients are told apart by nothing.
Interchangeable == Permutations(Clients)

Agent == INSTANCE ReflexCoordination WITH
    Screens <- AllScreens, Goals <- {NoWish} \cup DecidedGoals \cup PlannedGoals,
    KMaxExperience <- KRemembered, KOutcomes <- KRecorded, KExecuting <- KAtOnce, KFrames <- KDecided,
    IdWords <- [id \in UNION {DOMAIN screen : screen \in AllScreens} |-> IF id = 4 THEN {"save"} ELSE {}]

\* The bounds are ones the code could have.
ASSUME BoundsAssumption == Agent!AgentAssumption /\ Agent!CoordinationAssumption

Init ==
    /\ part \in Parts
    /\ Agent!UreInit
    /\ Service!Init
    /\ Skills!Init /\ (part # "skills" => file = <<>>)

\* The agent learns from outcomes; or it decides for many screens and goals, or a frame at a time,
\* and one outcome at most comes back.
Learning == (\E screen \in LearnedScreens : Agent!Step(screen, NoWish)) \/ Agent!Outcome \/ Agent!Restart

Deciding ==
    /\ \/ \E screen \in DecidedScreens, wish \in DecidedGoals : Agent!Step(screen, wish)
       \/ Agent!Outcome \/ Agent!Restart
    /\ outcomes' + Cardinality(awaited') <= 1

Planning ==
    /\ (\E screen \in PlannedScreens, wish \in PlannedGoals : Agent!UreDecide(screen, wish)) \/ Agent!UreObserve
    /\ outcomes' <= 1

AgentNext ==
    /\ \/ part = "learning" /\ Learning /\ UNCHANGED <<centers, frame, pending, frames>>
       \/ part = "deciding" /\ Deciding /\ UNCHANGED <<centers, frame, pending, frames>>
       \/ part = "planning" /\ Planning
    /\ UNCHANGED <<part, serviceVars, skillVars>>

ServiceNext == part = "service" /\ Service!Next /\ UNCHANGED <<part, agentVars, skillVars>>

SkillNext == part = "skills" /\ Skills!Next /\ UNCHANGED <<part, agentVars, serviceVars>>

Next == AgentNext \/ ServiceNext \/ SkillNext

Spec == Init /\ [][Next]_vars

-----------------------------------------------------------------------------
\* The outcome remembered last counts, in a process that learned it as in one that replayed it, and
\* what is decided may be done (UniversalReflexAgent).
LastOutcomeCounts ==
    part \in {"learning", "deciding"} =>
        Agent!TypeOK /\ Agent!LastOutcomeCounts /\ Agent!SafeToExecute /\ Agent!ContainmentIsAHierarchy

\* Of each kind of action, a frame makes the one that its best bundle proposes, and a preemption
\* only strengthens the bundle that leads (UreDecisionProvider, ActionCoordinator).
BestBundleWins ==
    part = "planning" =>
        Agent!UreTypeOK /\ Agent!BestBundleWins /\ Agent!PreemptionBoostsTheLeader

\* docs/universal_reflex_engine.md: the policy is checked before execution. Intents are made only in
\* frames whose policy permits to execute.
PolicyIsChecked == part = "planning" => Agent!PolicyIsChecked

\* The experience file holds outcomes in order whoever wrote to it and wherever the process ended;
\* a stop leaves at most one decision behind it, and nothing installed unless it met a start on
\* another connection; and one that met no other save either has saved everything.
ExperienceInOrder ==
    part = "service" =>
        /\ Service!TypeOK /\ Service!ExperienceInOrder /\ Service!ActiveMeansInstalled
        /\ Service!AtMostOneLateDecision /\ Service!StopSaves

\* Skills count what was recorded of them, through a restart too; what a cut line left wrong of a
\* skill is right once it is recorded again; and the hierarchy of a strategy is closed
\* (SkillMemoryStore).
SkillsAddUp ==
    part = "skills" =>
        Skills!TypeOK /\ Skills!CountsAddUp /\ Skills!RecordsRepair /\ Skills!ChildrenAreListed
=============================================================================
