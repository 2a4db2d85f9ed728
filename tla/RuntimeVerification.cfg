SPECIFICATION Spec
CONSTANTS
    FrameLimits = {2}
    FullRefreshPeriod = 3
    MaxPass = 1
    ClientPriorities = {"high"}
    ClientRetries = {FALSE}
    EventTypes = {}
    EventPriorities = {}
    Proposals = {}
    Outcomes = {"ineffective", "effective"}
    FrameCap = 2
    CounterCap = 0
    MaxSequence = 1
    MaxProposed = 0
    MaxPending = 0
    ReadsRegistry = TRUE
    OthersRefresh = TRUE
PROPERTIES
    VerifiedAfterExecution
