SPECIFICATION Spec
CONSTANTS
    MaxRequests = 2
    MaxChanges = 1
INVARIANTS EffectRequested FailureRecorded SuccessStores EchoRestored
PROPERTIES FlagAsScanned
CHECK_DEADLOCK FALSE
