----------------------------- MODULE MCDispatch -----------------------------
(***************************************************************************)
(* Instances of Dispatch: two LLCs of one CPU each.                        *)
(***************************************************************************)
EXTENDS Dispatch, TLC
CONSTANTS t1, t2, t3

OneEach == [c \in Cpus |-> c]
Symmetry == Permutations(Tasks)
=============================================================================
