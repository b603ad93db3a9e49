SPECIFICATION Spec
CONSTANTS
    Pids = {p1, p2}
    NrCpus = 1
    ForksWithoutCtx = FALSE
    MaxCohorts = 2
    MaxBpfIds = 2
    MaxDaemonIds = 1
    MaxMerges = 1
    MaxSpills = 1
    SplitMinTasks = 1
    DaemonCohortBase = 100
    NrTasksModulus = 1
SYMMETRY Symmetry
CONSTRAINT PlansLeft
INVARIANTS
    NoIdReuse
    SplitTargetsExist
    SpillEntriesTracked
PROPERTIES
    RemovalLeavesNoMemberBehind
CHECK_DEADLOCK FALSE
