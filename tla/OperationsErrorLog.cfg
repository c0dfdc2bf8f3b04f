SPECIFICATION Spec
CONSTANTS
    MaxRequests = 2
    MaxChanges = 1
INVARIANTS ErrorLogComplete
CHECK_DEADLOCK FALSE
