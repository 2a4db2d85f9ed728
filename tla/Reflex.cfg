SPECIFICATION Spec
CONSTANTS
    Parts = {"learning", "deciding", "planning", "service", "skills"}
    LearnedScreens <- ScreensToLearn
    DecidedScreens <- ScreensToDecide
    PlannedScreens <- ScreensToPlan
    DecidedGoals <- GoalsToDecide
    PlannedGoals <- GoalsToPlan
    KRemembered = 3
    KRecorded = 4
    KAtOnce = 1
    KDecided = 2
    activate = activate
    set = set
    cut = cut
    Clients = {c, d}
    SavedGoals = {}
    KEntries = 2
    KReports = 2
    KCalls = 3
    KQueued = 1
    KSkills = 3
    KRanked = 32
    KMilestones = 2
    HierarchyLimit = 3
    KRecords = 2
    FrameSequences <- SomeSequences
    SkillFiles <- SomeFiles
    KCrashes = 1
SYMMETRY Interchangeable
INVARIANTS
    LastOutcomeCounts
    BestBundleWins
    ExperienceInOrder
    SkillsAddUp
CHECK_DEADLOCK FALSE
