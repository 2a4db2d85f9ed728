\* One controller of the pipeline, three of the runtime, three adapters, two loggers, a publisher
\* and three clients.
SPECIFICATION Spec
CONSTANTS
    Parts = {"pipeline", "lifecycle", "telemetry", "windows", "delivery", "threaded", "limited"}
    Controllers = {c1}
    SourceKinds = {"registry", "mock", "external"}
    Scripts <- SomeScripts
    Numbers = {0, 2}
    MaxScript = 1
    MaxCaptures = 3
    Starters = {a, b}
    Stoppers = {b, c}
    MaxStarts = 3
    Loggers = {l1, l2}
    TraceKinds <- SomeKinds
    TraceAdapters = {"a", "b"}
    KMaxTraces = 2
    KMaxPersistenceQueue = 2
    KMaxPersistedFiles = 2
    KMaxTraceFileBytes = 4
    MaxLogged = 3
    MaxSessions = 2
    Publishers = {p1}
    Types = {"FileSystemChanged", "Error"}
    MaxEvents = 2
    MaxSubscriptions = 2
    Conns = {1, 2, 3}
    KMaxConcurrentClients = 2
    KHead = 2
    KPayload = 3
    KBuffer = 2
    KEvents = 1
    ManyRequests <- SomeRequests
    FewRequests <- SomeStarts
    Limit = 2
INVARIANTS
    ViewsAgree
    TelemetryAddsUp
    DeliveredInOrder
    ClientsAreAnswered
PROPERTIES
    RegisterSpec
    OneSessionsThreads
    LogSpec
CHECK_DEADLOCK FALSE
