\* The threads are fair; one controller of the pipeline, two of the runtime, a queue of one trace.
SPECIFICATION FairSpec
CONSTANTS
    Parts = {"pipeline", "lifecycle", "telemetry", "delivery", "threaded"}
    Controllers = {c1}
    SourceKinds = {"registry", "external"}
    Scripts = {}
    Numbers = {0, 2}
    MaxScript = 1
    MaxCaptures = 2
    Starters = {a, b}
    Stoppers = {b, c}
    MaxStarts = 3
    Loggers = {l1}
    TraceKinds <- SomeKinds
    TraceAdapters = {"a", "b"}
    KMaxTraces = 3
    KMaxPersistenceQueue = 1
    KMaxPersistedFiles = 1
    KMaxTraceFileBytes = 4
    MaxLogged = 4
    MaxSessions = 1
    Publishers = {}
    Types = {"FileSystemChanged", "Error"}
    MaxEvents = 2
    MaxSubscriptions = 1
    Conns = {1, 2}
    KMaxConcurrentClients = 1
    KHead = 1
    KPayload = 3
    KBuffer = 2
    KEvents = 1
    ManyRequests <- SomeRequests
    FewRequests <- SomeStarts
    Limit = 2
PROPERTIES
    StopsComplete
    EveryClientIsServed
CHECK_DEADLOCK FALSE
