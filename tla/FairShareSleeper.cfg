SPECIFICATION Spec
CONSTANTS
    t1 = t1
    t2 = t2
    t3 = t3
    t4 = t4
    NrCpus = 1
    Tasks = {t1, t2, t3, t4}
    Weight <- SameWeight
    Slice = 1
    Interactive = {}
    CreditMax = 0
    Sleepers = {t1, t2}
    MaxSleep = 10
    Mod = 64
    Cap = 6
INVARIANTS
    OvertakingBounded
CHECK_DEADLOCK FALSE
