---------------------------- MODULE MCCohortMaps ----------------------------
(* Instances of CohortMaps for TLC.  Pids are interchangeable.             *)
EXTENDS CohortMaps, TLC

Symmetry == Permutations(Pids)

\* A bound: behaviours are followed to the end of the tick in which the last
\* merge and the last split have both been made.
PlansLeft == ~(nr_merges = MaxMerges /\ daemon_seq = MaxDaemonIds /\ dpc = "sleep")
=============================================================================
