---------------------------- MODULE MCFairShare -----------------------------
(***************************************************************************)
(* Instances of FairShare: four tasks of equal weight.                     *)
(***************************************************************************)
EXTENDS FairShare
CONSTANTS t1, t2, t3, t4

SameWeight == [t \in Tasks |-> 100]
=============================================================================
