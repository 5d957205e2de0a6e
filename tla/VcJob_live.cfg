SPECIFICATION MCLiveSpec
CONSTANTS
    Jobs = {j1}
    Slow = {j1}
    EndPhases = {"Completed"}
    Faults = {"db", "api"}
PROPERTY GoneIsSettled
CHECK_DEADLOCK FALSE
