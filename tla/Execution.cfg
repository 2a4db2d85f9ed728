\* Two threads and two clients; intents, texts and shapes are those of the module.
SPECIFICATION SuiteSpec
CONSTANTS
    Parts = {"calls", "recovery", "alone", "together", "macros"}
    Executors = {e1, e2}
    Adapters <- AllAdapters
    Keys = {"click", "type", "open"}
    Intents <- AllIntents
    Durations = {1, 2}
    FastPathLimit = 2
    EvictCount = 1
    MaxCalls = 4
    FewCalls = 3
    Clients = {c1, c2}
    Nodes = {n1, n2, n3}
    Orphans = {n3}
    LabelOf <- SomeLabels
    Shapes <- AllShapes
    MaxActs = 2
    Texts <- SomeTexts
    Templates <- SomeTemplates
    KMaxRepeat = 3
SYMMETRY Interchangeable
INVARIANTS
    BudgetIsKept
    SuccessWasSeen
    MemoriesAgree
    RunsTheExpansion
PROPERTIES
    DoneOnce
    FastPathIsSound
    RecoveryIsSound
CHECK_DEADLOCK FALSE
