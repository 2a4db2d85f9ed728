SPECIFICATION Spec
CONSTANTS
    FrameLimits = {0,1}
    FullRefreshPeriod = 3
    MaxPass = 1
    ClientPriorities = {"low"}
    ClientRetries = {FALSE}
    EventTypes = {}
    EventPriorities = {}
    Proposals = {"high","unknown"}
    Outcomes = {"ineffective"}
    FrameCap = 1
    CounterCap = 0
    MaxSequence = 1
    MaxProposed = 1
    MaxPending = 0
    ReadsRegistry = FALSE
    OthersRefresh = FALSE
INVARIANTS
    DecidedThisSession
    StoppedMeansQuiet
    Accounting
PROPERTIES
    DispatchSpec
