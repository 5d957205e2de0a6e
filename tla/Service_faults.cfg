SPECIFICATION MCSpec
CONSTANTS
    Jobs = {j1}
    Slow = {j1}
    EndPhases = {"Completed", "Failed", "Aborted", "Terminated"}
    Faults = {"get", "db", "api", "mail", "record", "crash"}
    TokenCalls = {t1, t2}
    PodIndex = {1, 2}
    MaxRuns = 2
    Members = {u1, u2}
    UsageJobs = {1, 2}
    UsageTasks = {3}
    JobAmount <- MCJobAmount
    MaxSignals = 2
    MaxMigrationFaults = 2
    HarborCalls = {r1, r2}
    MaxPassword = 3
    Sizes = {1, 2}
    DefaultQuotaSize = 2
    MaxHarborFaults = 1
INVARIANTS QuietMeansSynced EmailOnce NothingMissing SchemaMatchesRecords CredentialWorks PagesAgree TokensAgree EventsComplete PagesAddUp
PROPERTIES TerminalFinal NoResurrection
CHECK_DEADLOCK FALSE
