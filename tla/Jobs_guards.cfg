SPECIFICATION MCSpec
CONSTANTS
    Users = {u1}
    Jobs = {job1}
    Requests = {c1, c2}
    MaxOrders = 2
    Hours <- MCHours
    AutoHours = 2
    MaxHours = 2
    Window = 1
    MaxTime = 2
    MaxLock = 3
    Reviews = {"Rejected"}
    DbFails = TRUE
    Pods = {p1, p2}
    Ports = {"ssh", "web"}
    SSHPort = "ssh"
    JobPorts <- MCJobPorts
    Clients = {c1, c2}
    MaxRules = 2
    MaxSlips = 1
    JobSlots = {j1, j2}
    Submits = {c1, c2}
    MaxAmount = 1
    MaxReplicas = 2
    MaxAdmin = 1
    Persons = {w1}
    PlatformRoles = {"user", "admin"}
    Emails = {"m"}
    NoEmail = "none"
    Edits = {e1}
    MaxCode = 1
SYMMETRY Symmetry
INVARIANTS AutoOncePerWindow RulesWhole SSHOpenedOnce
PROPERTIES LocksOnlyGrow WithinLimits ReducedRightsHold UserRowsKept
CHECK_DEADLOCK FALSE
