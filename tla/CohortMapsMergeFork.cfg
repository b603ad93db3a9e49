SPECIFICATION Spec
CONSTANTS
    Pids = {p1, p2, p3}
    NrCpus = 1
    ForksWithoutCtx = FALSE
    MaxCohorts = 4
    MaxBpfIds = 2
    MaxDaemonIds = 0
    MaxMerges = 1
    MaxSpills = 0
    SplitMinTasks = 1
    DaemonCohortBase = 100
    NrTasksModulus = 1
SYMMETRY Symmetry
INVARIANTS
    ResolvedCohortExists
CHECK_DEADLOCK FALSE
