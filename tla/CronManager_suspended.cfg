SPECIFICATION SyncedFirst
CONSTANTS
    n1 = n1
    n2 = n2
    Names = {n1, n2}
    Types = {"cleaner", "other"}
    Specs = {"s1"}
    Configs = {"c1", "c2"}
    ValidTypes = {"cleaner"}
    ValidSpecs = {"s1"}
    ValidConfigs <- MCValidConfigs
    MaxId = 3
    Faults = {}
    Off = off
INVARIANTS SuspendedIsStopped
