----------------------------- MODULE Membership -----------------------------
(***************************************************************************)
(* What the cohort maps promise as long as nothing is merged or split: a   *)
(* task is in one cohort for all its life, the threads of a process are in *)
(* the same one, a cohort is removed only without members, and its id is   *)
(* not used again.                                                         *)
(***************************************************************************)
CONSTANTS Tasks, Ids, NoCohort

VARIABLES
    cohorts,         \* the cohorts that exist
    retired,         \* the ids of those that existed once
    process,         \* the process of a task
    member           \* the cohort of a task

vars == <<cohorts, retired, process, member>>

Init ==
    /\ cohorts = {} /\ retired = {}
    /\ process = [t \in Tasks |-> t]
    /\ member = [t \in Tasks |-> NoCohort]

Create(id) ==
    /\ id \notin cohorts \cup retired
    /\ cohorts' = cohorts \cup {id}
    /\ UNCHANGED <<retired, process, member>>

Join(t, g, id) ==
    /\ member[t] = NoCohort
    /\ id \in cohorts
    /\ \A u \in Tasks : member[u] # NoCohort /\ process[u] = g => member[u] = id
    /\ process' = [process EXCEPT ![t] = g]
    /\ member' = [member EXCEPT ![t] = id]
    /\ UNCHANGED <<cohorts, retired>>

Leave(t) ==
    /\ member[t] # NoCohort
    /\ process' = [process EXCEPT ![t] = t]
    /\ member' = [member EXCEPT ![t] = NoCohort]
    /\ UNCHANGED <<cohorts, retired>>

Collect(id) ==
    /\ id \in cohorts
    /\ \A t \in Tasks : member[t] # id
    /\ cohorts' = cohorts \ {id}
    /\ retired' = retired \cup {id}
    /\ UNCHANGED <<process, member>>

Next ==
    \/ \E id \in Ids : Create(id) \/ Collect(id)
    \/ \E t, g \in Tasks, id \in Ids : Join(t, g, id)
    \/ \E t \in Tasks : Leave(t)

Spec == Init /\ [][Next]_vars
=============================================================================
