SPECIFICATION Spec
CONSTANTS
    Zones = {public}
    Devices = {eth}
    Wifi = {}
    Sources = {lan}
    Baseline = public
    Traffic = {eth}
    Moving = {"accept", "forward"}
    MaxChanges = 0
    MaxDisturbances = 1
INVARIANTS RecognisedBeforeSafe
CHECK_DEADLOCK FALSE
