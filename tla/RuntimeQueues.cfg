SPECIFICATION Spec
CONSTANTS
    FrameLimits = {2}
    FullRefreshPeriod = 3
    MaxPass = 1
    ClientPriorities = {"high", "low"}
    ClientRetries = {TRUE, FALSE}
    EventTypes = {"UiChanged", "FileSystemChanged"}
    EventPriorities = {"high"}
    Proposals = {}
    Outcomes = {"failed","ineffective"}
    FrameCap = 2
    CounterCap = 0
    MaxSequence = 2
    MaxProposed = 0
    MaxPending = 2
    ReadsRegistry = TRUE
    OthersRefresh = TRUE
INVARIANTS
    ExecutedAtMostTwice
    QueuesInOrder
    NotOvertaken
    NoLostRefresh
