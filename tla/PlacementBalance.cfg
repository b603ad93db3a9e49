SPECIFICATION Spec
CONSTANTS
    c1 = c1
    c2 = c2
    c3 = c3
    NrLlcs = 2
    Cap <- UnevenCap
    Cohorts = {c1, c2}
    Tasks = {1, 2, 3}
    CohortOf <- TwoInFirst
    Weight <- FirstHeavy
    PinCcd <- Pin3
    Residency <- LongerFor2
    None = NoValue
    Duties = {0, 1, 3}
    ExecLoads = {0, 2, 5}
    Elapsed = {1, 3}
    MaxAge = 3
    ImbalancePct = 25
    ConfirmTicks = 2
    ResidencyMs = 2
    HighPct = 95
    LowPct = 75
    ColdCeiling = 2
PROPERTIES
    ConfirmedMoves
    ResidencyRespected
    MoveNeverOvershoots
    SpillHysteresis
CHECK_DEADLOCK TRUE
