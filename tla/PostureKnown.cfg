SPECIFICATION Spec
CONSTANTS
    Zones = {public, trusted}
    Devices = {eth}
    Wifi = {}
    Sources = {lan}
    Baseline = public
    Traffic = {eth}
    Moving = {"accept", "forward"}
    MaxChanges = 0
    MaxDisturbances = 2
INVARIANTS KnownBeforeSafe
CHECK_DEADLOCK FALSE
