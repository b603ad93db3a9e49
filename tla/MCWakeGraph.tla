----------------------------- MODULE MCWakeGraph -----------------------------
(***************************************************************************)
(* Instances of WakeGraph.  Processes are numbered from 1.                 *)
(***************************************************************************)
EXTENDS WakeGraph

\* Who may wake whom: neighbours in a chain.
AllPairs == {{a, b} : a, b \in Tgids} \ {{a} : a \in Tgids}
Chain == {e \in AllPairs : Max(e) = Min(e) + 1}

\* Two tasks in every process.
TwoEach == [g \in Tgids |-> 2]
=============================================================================
