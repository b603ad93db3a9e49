SPECIFICATION Spec
CONSTANTS
    t1 = t1
    t2 = t2
    t3 = t3
    Cpus = {0, 1}
    NrLlcs = 2
    LlcOf <- OneEach
    Tasks = {t1, t2, t3}
    None = None
    Affinities = {{0, 1}, {0}, {1}}
    Pinning = TRUE
    Moving = TRUE
    Stealing = TRUE
    Handoff = TRUE
    StealMin = 1
SYMMETRY Symmetry
INVARIANTS
    NoStranding
    Served
CHECK_DEADLOCK TRUE
