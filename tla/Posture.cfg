SPECIFICATION Spec
CONSTANTS
    Zones = {public, trusted}
    Devices = {eth, wlan}
    Wifi = {wlan}
    Sources = {lan}
    Baseline = public
    Traffic = {eth}
    Moving = {"accept", "forward"}
    MaxChanges = 1
    MaxDisturbances = 1
INVARIANTS CleanIsTrue ReadyIsTrue ViewsAgree UnknownNeverClean SafeIsTrue RecommendationFits
CHECK_DEADLOCK FALSE
