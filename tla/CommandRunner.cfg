SPECIFICATION FairSpec
CONSTANTS
    Leader = leader
    Descendants = {d1}
    OutputLimit = 1
    BufferSize = 1
    PipeCapacity = 1
    MaxInput = 1
    MaxWritten = 2
INVARIANTS SuccessIsComplete FailureHasCause NoGroupSurvivor ReadNeverBlocks
PROPERTIES PumpEnds CutRunReturns
