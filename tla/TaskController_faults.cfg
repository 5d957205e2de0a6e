SPECIFICATION Spec
CONSTANTS
    Tasks = {1, 2}
    Resources <- MCResources
    SLO <- MCSLOTwo
    Request <- MCRequestTwo
    Owner <- MCOwnerTwo
    Accounts = {"A"}
    InitAccounts = {"A"}
    Jupyter = {}
    Deletable = {1}
    Preemptable = {}
    QuotaChoices <- MCQuotaLowered
    InitQuota <- MCInitQuota
    Faults = {"db", "crash"}
    MaxEvents = 1
PROPERTIES LaunchedOnce KeepsLedger
CHECK_DEADLOCK FALSE
