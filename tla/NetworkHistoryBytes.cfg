SPECIFICATION Spec
CONSTANTS
    Calls = {c1, c2, c3}
    Original = original
    Long = {c1}
    LongSize = 2
    MaxRecords = 8
    MaxBytes = 3
INVARIANTS BytesBounded
