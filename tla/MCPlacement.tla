----------------------------- MODULE MCPlacement -----------------------------
(***************************************************************************)
(* Instances of Placement.  Tasks are numbered; c1 .. c3 are cohorts.      *)
(***************************************************************************)
EXTENDS Placement
CONSTANTS c1, c2, c3

\* LLCs of equal size, or the others half as large as the first.
SmallCap == [l \in 0 .. NrLlcs - 1 |-> 4]
UnevenCap == [l \in 0 .. NrLlcs - 1 |-> IF l = 0 THEN 8 ELSE 4]

\* Two tasks in the first cohort, one in each other.
TwoInFirst == [t \in Tasks |-> <<c1, c1, c2, c3>>[t]]

Equal == [t \in Tasks |-> 1]
FirstHeavy == [t \in Tasks |-> IF t = 1 THEN 2 ELSE 1]

\* Rules: none; task 3 pinned to a CCD the machine does not have; a longer
\* residency for task 2.
NoRule == [t \in Tasks |-> None]
Pin3 == [t \in Tasks |-> IF t = 3 THEN 7 ELSE None]
LongerFor2 == [t \in Tasks |-> IF t = 2 THEN MaxAge ELSE None]
=============================================================================
