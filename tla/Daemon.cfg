CONSTANTS
  MetricsClients = {m}
  ProcsClients = {p}
  MaxWord = 255
  Counted = {"enq_spill", "steals"}
  MaxEvents = 2
  MaxEjects = 1
  MaxFaults = 1
SPECIFICATION FairSpec
INVARIANTS NoCapsAfterDrop StopsPromptly
PROPERTIES ProcsCoherent PercentInRange DeltaWithinInterval ShutdownExits TickComes EjectedComesBack
