SPECIFICATION MCSpec
CONSTANTS
    Users = {u1}
    Accounts = {a0, a1}
    Default = a0
    Grants = {"g1", "g2"}
    Quotas = {"x", "y"}
    Calls = {c1, c2}
    MaxMembers = 2
    MaxMishaps = 1
    Owners = {v1, v2}
    Groups = {p0}
    Public = p0
    DataIds = {d1}
    Areas = {"public", "user"}
    Prefix <- MCPrefix
    Ops = {c1, c2}
    MaxShares = 3
    MaxDepth = 2
    MaxErrors = 1
    ReadOnlyClaim = "rox"
    SelectorKeys = {"zone"}
    MaxMounts = 2
    MaxTasks = 2
    ProfileTasks = {1, 2}
    CutTasks = {2}
    Command <- MCCommand
    MaxProfFaults = 1
SYMMETRY Symmetry
INVARIANTS QueuesMatch NoMemberOfDeleted FreshTokenWorks SharesAreListed PodsCanRun QueueWhole NoneForgotten
CHECK_DEADLOCK FALSE
