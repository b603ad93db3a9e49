SPECIFICATION FairSpec
CONSTANTS
    Pids = {p1, p2}
    NrCpus = 2
    ForksWithoutCtx = TRUE
    MaxCohorts = 4
    MaxBpfIds = 2
    MaxDaemonIds = 0
    MaxMerges = 0
    MaxSpills = 0
    SplitMinTasks = 1
    DaemonCohortBase = 100
    NrTasksModulus = 8
INVARIANTS
    ResolvedCohortExists
    NrTasksExact
    PoliciesMatch
PROPERTIES
    DeadCohortReclaimed
    MembershipSpec
CHECK_DEADLOCK FALSE
