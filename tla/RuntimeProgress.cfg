SPECIFICATION FairSpec
CONSTANTS
    FrameLimits = {0,1}
    FullRefreshPeriod = 3
    MaxPass = 1
    ClientPriorities = {"low", "high"}
    ClientRetries = {FALSE}
    EventTypes = {}
    EventPriorities = {}
    Proposals = {"high"}
    Outcomes = {"ineffective"}
    FrameCap = 1
    CounterCap = 0
    MaxSequence = 2
    MaxProposed = 0
    MaxPending = 0
    ReadsRegistry = TRUE
    OthersRefresh = FALSE
PROPERTIES
    StopReturns
    EveryIntentGetsItsTurn
    DecisionTaken
