SPECIFICATION FairSpec
CONSTANTS
    Calls = {c1, c2, c3}
    Original = original
    Nobody = nobody
    EntrySize = 2
    Limit = 5
INVARIANTS LogBounded SuccessParsable RotationWhole
PROPERTIES RecordReturns
