SPECIFICATION FairServerSpec
CONSTANTS
    Capacity = 2
    Window = 5
    Second = 2
    MaxTime = 4
    Clients = {c1, c2}
INVARIANTS RetryAfterSuffices ProcessesBounded NobodyForsaken
PROPERTIES ShutdownEnds
