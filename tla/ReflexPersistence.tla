--------------------------- MODULE ReflexPersistence ---------------------------
(***************************************************************************)
(* What the reflex runtime keeps: the service with any number of clients   *)
(* and the memory of skills. They share no variable.                       *)
(***************************************************************************)
EXTENDS Integers, Sequences

CONSTANTS
    activate, set,      \* two actions
    cut,                \* what is left of one where a file is cut
    Clients, SavedGoals, KEntries, KReports, KCalls, KQueued,   \* of the service
    KSkills, KRanked, KMilestones, HierarchyLimit, KRecords, FrameSequences, SkillFiles,
    KCrashes

VARIABLES
    todo, argument, copied, calls, control, active, provider, observer, goal, remembered, worker, executing,
    queued, goalFile, experienceFile, recorded, late, met, settled, crashes,
    skills, file, saving, saved, unresolved, coordinated, counted, reported, won, touched, strategy, records,
    restarts

serviceVars == <<todo, argument, copied, calls, control, active, provider, observer, goal, remembered, worker,
                 executing, queued, goalFile, experienceFile, recorded, late, met, settled, crashes>>
skillVars == <<skills, file, saving, saved, unresolved, coordinated, counted, reported, won, touched, strategy,
               records, restarts>>

Service == INSTANCE ReflexService WITH
    Calls <- {"start", "stop", "control stop", "goal"}, Goals <- SavedGoals, NoGoal <- "none",
    KMaxExperience <- KEntries, KOutcomes <- KReports, experience <- remembered

Skills == INSTANCE SkillMemory WITH
    Actions <- {activate, set}, Fragment <- cut, Goals <- {{}, {set, 3}},
    Sequences <- FrameSequences, Stored <- SkillFiles, pending <- unresolved, frames <- counted,
    outcomes <- reported, crashes <- restarts

ASSUME PersistenceAssumption ==
    /\ Service!ServiceAssumption /\ Skills!LimitAssumption /\ Skills!StoredAssumption
=============================================================================
