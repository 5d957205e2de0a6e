SPECIFICATION FairSpec
CONSTANTS
    Tasks = {1, 2}
    Resources <- MCResources
    SLO <- MCSLOTwo
    Request <- MCRequestTwo
    Owner <- MCOwnerTwo
    Accounts = {"A"}
    InitAccounts = {"A"}
    Jupyter = {}
    Deletable = {}
    Preemptable = {1}
    QuotaChoices <- MCNoQuotaChoices
    InitQuota <- MCInitQuota
    Faults = {}
    MaxEvents = 1
INVARIANTS LiveJobsCounted
PROPERTIES QueuedIsAdmitted
CHECK_DEADLOCK FALSE
