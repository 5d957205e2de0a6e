SPECIFICATION Spec
CONSTANTS
    Jobs = {j1}
    Slow = {j1}
    EndPhases = {"Completed"}
    Faults = {"crash"}
INVARIANT GoneIsMarked
CHECK_DEADLOCK FALSE
