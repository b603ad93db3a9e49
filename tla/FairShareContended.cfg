SPECIFICATION Spec
CONSTANTS
    t1 = t1
    t2 = t2
    t3 = t3
    t4 = t4
    NrCpus = 2
    Tasks = {t1, t2, t3, t4}
    Weight <- SameWeight
    Slice = 2
    Interactive = {t3}
    CreditMax = 1
    Sleepers = {t1}
    MaxSleep = 3
    Mod = 32
    Cap = 14
INVARIANTS
    OvertakingBounded
    SharesEven
CHECK_DEADLOCK TRUE
