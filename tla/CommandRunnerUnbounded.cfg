SPECIFICATION FairSpec
CONSTANTS
    Leader = leader
    Descendants = {d1}
    OutputLimit = 0
    BufferSize = 1
    PipeCapacity = 1
    MaxInput = 1
    MaxWritten = 1
PROPERTIES
    RunReturns
