SPECIFICATION Spec
CONSTANTS
    Threads = {t1, t2}
    Queries = {q1, q2}
    CacheLimit = 1
    EvictCount = 1
    MaxCaptures = 2
    MaxInteractions = 1
    MaxChanges = 1
INVARIANTS
    CacheCoherent
    CacheBounded
    OneCapturePerSource
PROPERTIES
    ResolutionSpec
