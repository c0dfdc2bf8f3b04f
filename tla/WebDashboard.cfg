SPECIFICATION FairPagesSpec
CONSTANTS
    Requests = {p, other}
    Pages = {p}
    None = None
    Period = 4
    CacheTtl = 1
    ExecutionLimit = 2
    HandlerLimit = 3
INVARIANTS AutoLive ShownAgeBounded
PROPERTIES WatchGoesOn
