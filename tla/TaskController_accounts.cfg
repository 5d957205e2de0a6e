SPECIFICATION Spec
CONSTANTS
    Tasks = {1, 2, 3}
    Resources <- MCResources
    SLO <- MCSLOMixed
    Request <- MCRequestMixed
    Owner <- MCOwnerMixed
    Accounts = {"A", "B"}
    InitAccounts = {"A"}
    Jupyter = {1}
    Deletable = {3}
    Preemptable = {}
    QuotaChoices <- MCNoQuotaChoices
    InitQuota <- MCInitQuota
    Faults = {"db", "api", "ingress"}
    MaxEvents = 1
INVARIANTS QuotaAccounting
CHECK_DEADLOCK FALSE
