\* One pair: six rounds over three lines, words that wrap three times, every
\* third measured round sampled, and two faults.
CONSTANTS
    NrPairs = 1
    NrSpinners = 2
    Iters = 5
    Warmup = 1
    Lines = 3
    MaxSamples = 2
    WordModulus = 2
    ParentPid = 2
    OrphanParent = 1
    MaxFaults = 2
SPECIFICATION FairSpec
INVARIANTS PayloadIntact NoLostWakeup ResultsComplete
PROPERTIES Completes NoOrphans RoundTripsSpec
CHECK_DEADLOCK FALSE
