SPECIFICATION MCFairSpec
CONSTANTS
    Builds = {b1}
    Links = {l1}
    Platforms = {"amd64", "arm64"}
    ClientSources = {"Envd", "Snapshot"}
    MaxBuildErrors = 1
    ImageIds = {i1}
    ImageUsers = {1}
    ImageAccounts = {1, 2}
    DefaultId = 1
    ImageOwner = 3
    Posts = {p1, p2}
    MaxRows = 3
    Machines = {n1, n2}
    Kinds = {"k1", "k2"}
    MaxOnNode = 1
    Syncs = {s1}
    MaxNodeSteps = 2
    MaxLinks = 1
    RangeEnds = {1}
    NodeNames = {m1}
    LabelSlots = {"label"}
    TaintSlots = {"account"}
    AccountSlot = "account"
    MarkValues = {"empty", "v"}
    NodeCalls = {c1, c2}
    MaxNodeVersion = 3
    n1 = n1
    n2 = n2
    Names = {n1, n2}
    Types = {"cleaner", "other"}
    Specs = {"s1"}
    Configs = {"c1", "c2"}
    ValidTypes = {"cleaner"}
    ValidSpecs = {"s1"}
    ValidConfigs <- MCValidConfigs
    MaxId = 3
    Faults = {"update", "commit", "sync", "crash"}
    Off = off
INVARIANTS ShownIsBuilt SyncedIsCluster
PROPERTIES BuildSettles CancelTakesEffect OthersMarksKept KeepsSchedule
CHECK_DEADLOCK FALSE
