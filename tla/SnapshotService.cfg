SPECIFICATION FairSpec
CONSTANTS
    Requests = {r1, r2, r3}
    None = None
    CacheTtl = 2
    ExecutionLimit = 3
    HandlerLimit = 2
INVARIANTS
    SingleFlight
    EvidenceAgeBounded
PROPERTIES
    CacheNeverRegresses
    EveryoneAnswered
