SPECIFICATION SteadySpec
CONSTANTS
    c1 = c1
    c2 = c2
    c3 = c3
    NrLlcs = 3
    Cap <- SmallCap
    Cohorts = {c1, c2, c3}
    Tasks = {1, 2, 3, 4}
    CohortOf <- TwoInFirst
    Weight <- Equal
    PinCcd <- NoRule
    Residency <- NoRule
    None = NoValue
    Duties = {1, 2, 3}
    ExecLoads = {0, 2, 5}
    Elapsed = {1}
    MaxAge = 3
    ImbalancePct = 25
    ConfirmTicks = 2
    ResidencyMs = 2
    HighPct = 95
    LowPct = 75
    ColdCeiling = 2
PROPERTIES
    Converges
    Repaired
CHECK_DEADLOCK TRUE
