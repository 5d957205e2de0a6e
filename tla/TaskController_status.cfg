SPECIFICATION Spec
CONSTANTS
    Tasks = {1, 2}
    Resources <- MCResources
    SLO <- MCSLOTwo
    Request <- MCRequestTwo
    Owner <- MCOwnerTwo
    Accounts = {"A"}
    InitAccounts = {"A"}
    Jupyter = {}
    Deletable = {}
    Preemptable = {}
    QuotaChoices <- MCNoQuotaChoices
    InitQuota <- MCInitQuota
    Faults = {}
    MaxEvents = 2
INVARIANTS StatusFollowsJob
CHECK_DEADLOCK FALSE
