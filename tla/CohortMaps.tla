----------------------------- MODULE CohortMaps -----------------------------
(***************************************************************************)
(* Cohort membership: the BPF maps that say which cohort a task belongs to *)
(* and which cohorts exist, written by two sides that share no lock.       *)
(*                                                                         *)
(* The BPF side (bpf/main.bpf.c) runs init_task, exit_task, the wakeup     *)
(* path and stopping on any CPU.  The daemon (main.rs) runs one tick at a  *)
(* time: it copies the maps, collects dead cohorts and dead tgids from the *)
(* copies, writes the spill set and applies merges and splits.  One map    *)
(* operation is atomic; a handler or a tick is a sequence of them, so each *)
(* map operation another actor can see is a step of its own here.          *)
(*                                                                         *)
(* Abstractions.  A map is the set of its keys, or a total function with   *)
(* NoCohort for an absent key.  Policy values, loads and virtual time are  *)
(* left to the other modules; which merges, splits and spills the planners *)
(* ask for is a choice within what the planners can return.  A pid is free *)
(* for reuse once exit_task of its last holder has returned.               *)
(***************************************************************************)
EXTENDS Integers, FiniteSets

CONSTANTS
    Pids,            \* task ids; a thread group has the pid of its leader
    NrCpus,          \* how many BPF task handlers run at the same time
    ForksWithoutCtx, \* whether a parent without a TaskCtx forks
    MaxCohorts,      \* max_entries of cohort_policy and of cohort_counters
    MaxBpfIds,       \* bound: cohorts the BPF side allocates
    MaxDaemonIds,    \* bound: cohorts the daemon allocates (splits)
    MaxMerges,       \* bound: merges the daemon applies
    MaxSpills,       \* bound: size of the desired spill set
    SplitMinTasks,   \* WakeGraphCfg::split_min_tasks
    DaemonCohortBase,\* DAEMON_COHORT_BASE
    NrTasksModulus   \* nr_tasks is unsigned, modulo this; 1 leaves it out

ASSUME BoundsAssumption ==
    /\ IsFiniteSet(Pids)
    /\ ForksWithoutCtx \in BOOLEAN
    /\ NrCpus \in Nat /\ MaxCohorts \in Nat
    /\ MaxBpfIds \in Nat /\ MaxDaemonIds \in Nat
    /\ MaxMerges \in Nat /\ MaxSpills \in Nat /\ SplitMinTasks \in Nat
    /\ NrTasksModulus \in Nat \ {0}

\* The BPF allocator counts up from 1 and the daemon's from DaemonCohortBase:
\* the id spaces are disjoint as long as the first never reaches the second.
ASSUME IdSpaceAssumption ==
    /\ DaemonCohortBase \in Nat
    /\ MaxBpfIds < DaemonCohortBase

VARIABLES
    (* BPF maps *)
    tgid_cohort,     \* tgid -> cohort id
    policy,          \* keys of cohort_policy
    counters,        \* keys of cohort_counters
    nr_tasks,        \* CohortCounters::nr_tasks of each key of counters
    task_ctxs,       \* pid -> TaskCtx::cohort_id
    task_stats,      \* pid -> TaskStat::cohort_id
    spill_tasks,     \* keys of spill_tasks
    cohort_seq,      \* BPF id allocator
    (* tasks *)
    pc,              \* where the task is in its life and in its handler
    tgid,            \* p->tgid
    reg,             \* the handler's local variable id
    forker,          \* the task that runs init_task for a fork, else itself
    (* daemon *)
    attached,        \* struct_ops attached
    dpc,             \* where the tick is
    s_tasks,         \* snapshot_tasks: a set of TaskSnapshot
    s_tgids,         \* snapshot_tgid_cohort
    s_cohorts,       \* ids snapshot_cohorts returned
    dead,            \* snapshot_cohorts: ids still to delete
    victim,          \* the id whose policy entry is deleted next
    visit,           \* tgids the current loop has still to visit
    plan,            \* the MergePlan or SplitPlan being applied
    merged,          \* cohorts merged in this tick
    split_off,       \* tgids split off in this tick
    dead_cohorts,    \* Scheduler::dead_cohorts
    dead_tgids,      \* Scheduler::dead_tgids
    current_spills,  \* Scheduler::current_spills
    daemon_seq,      \* Scheduler::daemon_seq
    nr_merges,       \* Scheduler::nr_merges
    (* timing and history *)
    stragglers,      \* handlers that were running when the last tick ended
    retired          \* cohorts whose counters were deleted

bpfVars == <<tgid_cohort, policy, counters, nr_tasks, task_ctxs, task_stats,
             spill_tasks, cohort_seq>>
taskVars == <<pc, tgid, reg, forker>>
snapVars == <<s_tasks, s_tgids, s_cohorts>>
loopVars == <<dead, victim, visit, plan, merged, split_off>>
memVars == <<dead_cohorts, dead_tgids, current_spills, daemon_seq, nr_merges>>
daemonVars == <<attached, dpc, snapVars, loopVars, memVars>>
vars == <<bpfVars, taskVars, daemonVars, stragglers, retired>>

-----------------------------------------------------------------------------
NoCohort == 0                   \* COHORT_INVALID, and an absent hash entry
BpfIds == 1 .. MaxBpfIds
DaemonIds == {DaemonCohortBase + k : k \in 0 .. MaxDaemonIds - 1}
Ids == BpfIds \cup DaemonIds
OptId == Ids \cup {NoCohort}

InitPcs == {"init_policy", "init_counters", "init_map", "init_count", "init_stat"}
ExitPcs == {"exit_count", "exit_stat", "exit_spill"}
InFlight == {p \in Pids : pc[p] \in InitPcs \cup ExitPcs}
Live == {p \in Pids : pc[p] = "live"}

\* The pid is not in use: neither a task's pid nor a thread group's id.
PidFree(p) == \A q \in Pids : pc[q] # "none" => q # p /\ tgid[q] # p

TaskSnapshots == [pid : Pids, tgid : Pids, cohort : Ids]
NoPlan == [into |-> NoCohort, from |-> NoCohort]

\* A hash map of MaxCohorts entries accepts a new key unless it is full.
HasRoom(map) == Cardinality(map) < MaxCohorts
Insert(map, id) == IF HasRoom(map) THEN map \cup {id} ELSE map

\* resolve_cohort: tgid_cohort first, the cached id of the task otherwise.
Resolve(p) ==
    IF tgid_cohort[tgid[p]] # NoCohort THEN tgid_cohort[tgid[p]] ELSE task_ctxs[p]

Init ==
    /\ tgid_cohort = [g \in Pids |-> NoCohort]
    /\ policy = {} /\ counters = {}
    /\ nr_tasks = [id \in Ids |-> 0]
    /\ task_ctxs = [p \in Pids |-> NoCohort]
    /\ task_stats = [p \in Pids |-> NoCohort]
    /\ spill_tasks = {}
    /\ cohort_seq = 0
    /\ pc = [p \in Pids |-> "none"]
    /\ tgid = [p \in Pids |-> p]
    /\ reg = [p \in Pids |-> NoCohort]
    /\ forker = [p \in Pids |-> p]
    /\ attached = FALSE
    /\ dpc = "sleep"
    /\ s_tasks = {}
    /\ s_tgids = [g \in Pids |-> NoCohort]
    /\ s_cohorts = {} /\ dead = {} /\ victim = NoCohort /\ visit = {}
    /\ plan = NoPlan /\ merged = {} /\ split_off = {}
    /\ dead_cohorts = {} /\ dead_tgids = {} /\ current_spills = {}
    /\ daemon_seq = 0 /\ nr_merges = 0
    /\ stragglers = {} /\ retired = {}

-----------------------------------------------------------------------------
(* BPF side: cohort_init_task                                              *)

\* cohort_init_task up to the first map write: create the task's context and
\* run assign_cohort's lookups.  While the scheduler attaches, existing tasks
\* arrive one at a time without fork set; afterwards every task is a fork, of
\* a live task or of one without a TaskCtx, and is either a new thread of its
\* parent's group or the leader of a new group.  The shared data read here
\* are one tgid_cohort entry and the context of the parent, which is running.
InitTaskAs(p, g, id, next) ==
    /\ task_ctxs' = [task_ctxs EXCEPT ![p] = NoCohort]
    /\ tgid' = [tgid EXCEPT ![p] = g]
    /\ reg' = [reg EXCEPT ![p] = id]
    /\ pc' = [pc EXCEPT ![p] = next]

NewCohort(p, g) ==
    /\ cohort_seq < MaxBpfIds
    /\ cohort_seq' = cohort_seq + 1
    /\ InitTaskAs(p, g, cohort_seq + 1, "init_policy")

\* Mutant: a task without a cohort to inherit gets a new one, whatever its group
\* has.
InitTaskNoLookup(p, g, parent, inherited) ==
    /\ PidFree(p)
    /\ forker' = [forker EXCEPT ![p] = parent]
    /\ Cardinality(InFlight) < NrCpus
    /\ \/ /\ inherited # NoCohort
          /\ InitTaskAs(p, g, inherited, "init_map")
          /\ UNCHANGED cohort_seq
       \/ /\ inherited = NoCohort
          /\ NewCohort(p, g)
    /\ UNCHANGED <<tgid_cohort, policy, counters, nr_tasks, task_stats,
                   spill_tasks, daemonVars, stragglers, retired>>

InitTask(p, g, parent, inherited) ==
    /\ PidFree(p)
    /\ forker' = [forker EXCEPT ![p] = parent]
    /\ Cardinality(InFlight) < NrCpus
    /\ \/ /\ tgid_cohort[g] # NoCohort
          /\ InitTaskAs(p, g, tgid_cohort[g], "init_count")
          /\ UNCHANGED cohort_seq
       \/ /\ tgid_cohort[g] = NoCohort
          /\ inherited # NoCohort
          /\ InitTaskAs(p, g, inherited, "init_map")
          /\ UNCHANGED cohort_seq
       \/ /\ tgid_cohort[g] = NoCohort
          /\ inherited = NoCohort
          /\ NewCohort(p, g)
    /\ UNCHANGED <<tgid_cohort, policy, counters, nr_tasks, task_stats,
                   spill_tasks, daemonVars, stragglers, retired>>

AttachTask(p) ==
    /\ ~attached /\ dpc = "sleep"
    /\ InFlight = {}
    /\ \E g \in {p} \cup {tgid[q] : q \in Live} : InitTask(p, g, p, NoCohort)

Fork(p, parent) ==
    /\ attached
    /\ parent \in Live
    /\ \E g \in {p, tgid[parent]} : InitTask(p, g, parent, task_ctxs[parent])

ForkNoCtx(p) ==
    /\ ForksWithoutCtx
    /\ attached
    /\ InitTask(p, p, p, NoCohort)

\* Mutant: the counters are created before the policy.
InitPolicyCountersFirst(p) ==
    /\ pc[p] = "init_policy"
    /\ counters' = Insert(counters, reg[p])
    /\ pc' = [pc EXCEPT ![p] = "init_counters"]
    /\ UNCHANGED <<tgid_cohort, policy, nr_tasks, task_ctxs, task_stats,
                   spill_tasks, cohort_seq, tgid, reg, forker, daemonVars,
                   stragglers, retired>>

\* assign_cohort, a fresh cohort: the policy entry first.  A full map refuses
\* the entry and the return value is ignored.
InitPolicy(p) ==
    /\ pc[p] = "init_policy"
    /\ policy' = Insert(policy, reg[p])
    /\ pc' = [pc EXCEPT ![p] = "init_counters"]
    /\ UNCHANGED <<tgid_cohort, counters, nr_tasks, task_ctxs, task_stats,
                   spill_tasks, cohort_seq, tgid, reg, forker, daemonVars,
                   stragglers, retired>>

\* assign_cohort, a fresh cohort: then its zeroed counters.
InitCounters(p) ==
    /\ pc[p] = "init_counters"
    /\ counters' = Insert(counters, reg[p])
    /\ pc' = [pc EXCEPT ![p] = "init_map"]
    /\ UNCHANGED <<tgid_cohort, policy, nr_tasks, task_ctxs, task_stats,
                   spill_tasks, cohort_seq, tgid, reg, forker, daemonVars,
                   stragglers, retired>>

\* assign_cohort's last write, BPF_ANY.
InitMap(p) ==
    /\ pc[p] = "init_map"
    /\ tgid_cohort' = [tgid_cohort EXCEPT ![tgid[p]] = reg[p]]
    /\ pc' = [pc EXCEPT ![p] = "init_count"]
    /\ UNCHANGED <<policy, counters, nr_tasks, task_ctxs, task_stats,
                   spill_tasks, cohort_seq, tgid, reg, forker, daemonVars,
                   stragglers, retired>>

\* Cache the id in the task's context and count the task.
InitCount(p) ==
    /\ pc[p] = "init_count"
    /\ task_ctxs' = [task_ctxs EXCEPT ![p] = reg[p]]
    /\ nr_tasks' = IF reg[p] \in counters
                   THEN [nr_tasks EXCEPT ![reg[p]] = (@ + 1) % NrTasksModulus]
                   ELSE nr_tasks
    /\ pc' = [pc EXCEPT ![p] = "init_stat"]
    /\ UNCHANGED <<tgid_cohort, policy, counters, task_stats, spill_tasks,
                   cohort_seq, tgid, reg, forker, daemonVars, stragglers,
                   retired>>

\* Publish the task to the daemon; init_task returns.
InitStat(p) ==
    /\ pc[p] = "init_stat"
    /\ task_stats' = [task_stats EXCEPT ![p] = reg[p]]
    /\ pc' = [pc EXCEPT ![p] = "live"]
    /\ reg' = [reg EXCEPT ![p] = NoCohort]
    /\ forker' = [forker EXCEPT ![p] = p]
    /\ stragglers' = stragglers \ {p}
    /\ UNCHANGED <<tgid_cohort, policy, counters, nr_tasks, task_ctxs,
                   spill_tasks, cohort_seq, tgid, daemonVars, retired>>

-----------------------------------------------------------------------------
(* BPF side: wakeups, stopping and cohort_exit_task                        *)

\* task_home_llc, on every select_cpu and enqueue: a spilled task returns
\* before resolve_cohort, any other refreshes its cached cohort.
Wake(p) ==
    /\ attached
    /\ p \in Live
    /\ p \notin spill_tasks
    /\ task_ctxs' = [task_ctxs EXCEPT ![p] = Resolve(p)]
    /\ UNCHANGED <<tgid_cohort, policy, counters, nr_tasks, task_stats,
                   spill_tasks, cohort_seq, taskVars, daemonVars, stragglers,
                   retired>>

\* cohort_stopping copies the cached cohort to the entry the daemon reads.
Stopping(p) ==
    /\ attached
    /\ p \in Live
    /\ task_stats[p] # NoCohort
    /\ task_stats' = [task_stats EXCEPT ![p] = task_ctxs[p]]
    /\ UNCHANGED <<tgid_cohort, policy, counters, nr_tasks, task_ctxs,
                   spill_tasks, cohort_seq, taskVars, daemonVars, stragglers,
                   retired>>

\* cohort_exit_task: resolve the cohort once more ...
ExitResolve(p) ==
    /\ attached
    /\ p \in Live
    /\ \A q \in Pids : forker[q] = p => q = p
    /\ Cardinality(InFlight) < NrCpus
    /\ reg' = [reg EXCEPT ![p] = Resolve(p)]
    /\ task_ctxs' = [task_ctxs EXCEPT ![p] = Resolve(p)]
    /\ pc' = [pc EXCEPT ![p] = "exit_count"]
    /\ UNCHANGED <<tgid_cohort, policy, counters, nr_tasks, task_stats,
                   spill_tasks, cohort_seq, tgid, forker, daemonVars, stragglers,
                   retired>>

\* Mutant: the exiting task stays counted.
ExitCountMissing(p) ==
    /\ pc[p] = "exit_count"
    /\ pc' = [pc EXCEPT ![p] = "exit_stat"]
    /\ UNCHANGED <<tgid_cohort, policy, counters, nr_tasks, task_ctxs, task_stats,
                   spill_tasks, cohort_seq, tgid, reg, forker, daemonVars,
                   stragglers, retired>>

\* ... take the task off that cohort's count ...
ExitCount(p) ==
    /\ pc[p] = "exit_count"
    /\ nr_tasks' = IF reg[p] \in counters
                   THEN [nr_tasks EXCEPT ![reg[p]] = (@ - 1) % NrTasksModulus]
                   ELSE nr_tasks
    /\ pc' = [pc EXCEPT ![p] = "exit_stat"]
    /\ UNCHANGED <<tgid_cohort, policy, counters, task_ctxs, task_stats,
                   spill_tasks, cohort_seq, tgid, reg, forker, daemonVars,
                   stragglers, retired>>

\* ... and delete its two entries.
ExitStat(p) ==
    /\ pc[p] = "exit_stat"
    /\ task_stats' = [task_stats EXCEPT ![p] = NoCohort]
    /\ pc' = [pc EXCEPT ![p] = "exit_spill"]
    /\ UNCHANGED <<tgid_cohort, policy, counters, nr_tasks, task_ctxs,
                   spill_tasks, cohort_seq, tgid, reg, forker, daemonVars,
                   stragglers, retired>>

ExitSpill(p) ==
    /\ pc[p] = "exit_spill"
    /\ spill_tasks' = spill_tasks \ {p}
    /\ pc' = [pc EXCEPT ![p] = "none"]
    /\ task_ctxs' = [task_ctxs EXCEPT ![p] = NoCohort]
    /\ tgid' = [tgid EXCEPT ![p] = p]
    /\ reg' = [reg EXCEPT ![p] = NoCohort]
    /\ stragglers' = stragglers \ {p}
    /\ UNCHANGED <<tgid_cohort, policy, counters, nr_tasks, task_stats,
                   cohort_seq, forker, daemonVars, retired>>

-----------------------------------------------------------------------------
(* The daemon: Scheduler::init and the parts of Scheduler::tick that read  *)
(* or write these maps, in the order of tick.                              *)

\* What the tick derives from its snapshots.
TaskCount(id) == Cardinality({t \in s_tasks : t.cohort = id})
TasksOf(gs) == Cardinality({t \in s_tasks : t.tgid \in gs})
LiveTgids == {t.tgid : t \in s_tasks}
Members(id) == {g \in Pids : s_tgids[g] = id}
CohortSize(id) == IF id \in s_cohorts THEN TaskCount(id) ELSE 0

Attach ==
    /\ ~attached /\ dpc = "sleep"
    /\ InFlight = {} /\ Live # {}
    /\ attached' = TRUE
    /\ UNCHANGED <<bpfVars, taskVars, dpc, snapVars, loopVars, memVars,
                   stragglers, retired>>

\* snapshot_tasks.  The daemon sleeps for the whole interval between two ticks
\* and a handler is a bounded, non-sleeping program: one that was running when
\* a tick ended has returned when the next tick starts.
SnapshotTasks ==
    /\ attached
    /\ dpc = "sleep"
    /\ stragglers = {}
    /\ s_tasks' = {[pid |-> p, tgid |-> tgid[p], cohort |-> task_stats[p]] :
                      p \in {q \in Pids : task_stats[q] # NoCohort}}
    /\ dpc' = "tgids"
    /\ UNCHANGED <<bpfVars, taskVars, attached, s_tgids, s_cohorts, loopVars,
                   memVars, stragglers, retired>>

SnapshotTgidCohort ==
    /\ dpc = "tgids"
    /\ s_tgids' = tgid_cohort
    /\ dpc' = "cohorts"
    /\ UNCHANGED <<bpfVars, taskVars, attached, s_tasks, s_cohorts, loopVars,
                   memVars, stragglers, retired>>

\* Mutant: one observation is enough.
SnapshotCohortsAtOnce ==
    LET unseen == {id \in counters : TaskCount(id) = 0 /\ Members(id) = {}}
    IN
    /\ dpc = "cohorts"
    /\ s_cohorts' = counters \ unseen
    /\ dead' = unseen
    /\ dpc' = "gc_counters"
    /\ UNCHANGED <<bpfVars, taskVars, attached, s_tasks, s_tgids, victim, visit,
                   plan, merged, split_off, memVars, stragglers, retired>>

\* snapshot_cohorts: a cohort no snapshot refers to is dead on its second
\* observation in a row; an empty task snapshot observes nothing.
SnapshotCohorts ==
    LET unseen == {id \in counters : TaskCount(id) = 0 /\ Members(id) = {}}
        gc_safe == s_tasks # {}
    IN
    /\ dpc = "cohorts"
    /\ s_cohorts' = counters \ unseen
    /\ dead' = IF gc_safe THEN unseen \cap dead_cohorts ELSE {}
    /\ dead_cohorts' = IF gc_safe THEN unseen \ dead_cohorts ELSE {}
    /\ dpc' = "gc_counters"
    /\ UNCHANGED <<bpfVars, taskVars, attached, s_tasks, s_tgids, victim, visit,
                   plan, merged, split_off, dead_tgids, current_spills,
                   daemon_seq, nr_merges, stragglers, retired>>

DeleteCounters(id) ==
    /\ counters' = counters \ {id}
    /\ nr_tasks' = [nr_tasks EXCEPT ![id] = 0]
    /\ retired' = retired \cup ({id} \cap counters)
    /\ victim' = id

\* The deletions of snapshot_cohorts: counters, then policy, id by id.
GcCounters(id) ==
    /\ dpc = "gc_counters"
    /\ id \in dead
    /\ DeleteCounters(id)
    /\ dead' = dead \ {id}
    /\ dpc' = "gc_policy"
    /\ UNCHANGED <<tgid_cohort, policy, task_ctxs, task_stats, spill_tasks,
                   cohort_seq, taskVars, attached, snapVars, visit, plan, merged,
                   split_off, memVars, stragglers>>

GcPolicy ==
    /\ dpc = "gc_policy"
    /\ policy' = policy \ {victim}
    /\ victim' = NoCohort
    /\ dpc' = "gc_counters"
    /\ UNCHANGED <<tgid_cohort, counters, nr_tasks, task_ctxs, task_stats,
                   spill_tasks, cohort_seq, taskVars, attached, snapVars, dead,
                   visit, plan, merged, split_off, memVars, stragglers, retired>>

\* Mutant: the candidates of this tick are not remembered for the next.
GcTgidMapForgets ==
    LET unseen == {g \in Pids : s_tgids[g] # NoCohort} \ LiveTgids
    IN
    /\ dpc = "gc_counters"
    /\ dead = {}
    /\ visit' = unseen \cap dead_tgids
    /\ dead_tgids' = {}
    /\ dpc' = "gc_tgid"
    /\ UNCHANGED <<bpfVars, taskVars, attached, snapVars, dead, victim, plan,
                   merged, split_off, dead_cohorts, current_spills, daemon_seq,
                   nr_merges, stragglers, retired>>

\* gc_tgid_map: the same two-observation rule for tgids without a task.
GcTgidMap ==
    LET unseen == {g \in Pids : s_tgids[g] # NoCohort} \ LiveTgids
    IN
    /\ dpc = "gc_counters"
    /\ dead = {}
    /\ visit' = unseen \cap dead_tgids
    /\ dead_tgids' = unseen \ dead_tgids
    /\ dpc' = "gc_tgid"
    /\ UNCHANGED <<bpfVars, taskVars, attached, snapVars, dead, victim, plan,
                   merged, split_off, dead_cohorts, current_spills, daemon_seq,
                   nr_merges, stragglers, retired>>

GcTgid(g) ==
    /\ dpc = "gc_tgid"
    /\ g \in visit
    /\ tgid_cohort' = [tgid_cohort EXCEPT ![g] = NoCohort]
    /\ visit' = visit \ {g}
    /\ UNCHANGED <<policy, counters, nr_tasks, task_ctxs, task_stats, spill_tasks,
                   cohort_seq, taskVars, attached, dpc, snapVars, dead, victim,
                   plan, merged, split_off, memVars, stragglers, retired>>

\* Mutant: entries that are no longer wanted stay in the map.
ApplySpillsKeepsOld ==
    /\ dpc = "gc_tgid"
    /\ visit = {}
    /\ \E desired \in SUBSET {t.pid : t \in {u \in s_tasks : u.cohort \in s_cohorts}} :
          /\ Cardinality(desired) <= MaxSpills
          /\ spill_tasks' = spill_tasks \cup (desired \ current_spills)
          /\ current_spills' = desired
    /\ dpc' = "merges"
    /\ UNCHANGED <<tgid_cohort, policy, counters, nr_tasks, task_ctxs, task_stats,
                   cohort_seq, taskVars, attached, snapVars, loopVars,
                   dead_cohorts, dead_tgids, daemon_seq, nr_merges, stragglers,
                   retired>>

\* apply_spills with a set plan_spills can return: pids of the task snapshot
\* whose cohort was snapshot too.  Only the difference to the set written last
\* goes to the map; the writes are to different keys and commute.
ApplySpills ==
    /\ dpc = "gc_tgid"
    /\ visit = {}
    /\ \E desired \in SUBSET {t.pid : t \in {u \in s_tasks : u.cohort \in s_cohorts}} :
          /\ Cardinality(desired) <= MaxSpills
          /\ spill_tasks' = (spill_tasks \cup (desired \ current_spills))
                              \ (current_spills \ desired)
          /\ current_spills' = desired
    /\ dpc' = "merges"
    /\ UNCHANGED <<tgid_cohort, policy, counters, nr_tasks, task_ctxs, task_stats,
                   cohort_seq, taskVars, attached, snapVars, loopVars,
                   dead_cohorts, dead_tgids, daemon_seq, nr_merges, stragglers,
                   retired>>

-----------------------------------------------------------------------------
(* The daemon: discover_relationships, apply_merge and apply_split.  Which *)
(* cohorts talk to each other is a choice; what the plans can be is not.   *)

\* A cohort takes part in one merge per tick and the one with more tasks in
\* the snapshot absorbs the other.  apply_merge gives up unless both exist.
PlanMerge(into, from) ==
    /\ dpc = "merges"
    /\ nr_merges < MaxMerges
    /\ into # from /\ Members(into) # {} /\ Members(from) # {}
    /\ {into, from} \cap merged = {}
    /\ CohortSize(into) >= CohortSize(from)
    /\ {into, from} \subseteq counters
    /\ plan' = [into |-> into, from |-> from]
    /\ merged' = merged \cup {into, from}
    /\ visit' = Members(from)
    /\ dpc' = "merge_tgids"
    /\ UNCHANGED <<bpfVars, taskVars, attached, snapVars, dead, victim, split_off,
                   memVars, stragglers, retired>>

\* Point the tgid at the plan's target if it still has an entry (EXIST).
RemapTgid(g) ==
    /\ g \in visit
    /\ tgid_cohort' = IF tgid_cohort[g] = NoCohort THEN tgid_cohort
                      ELSE [tgid_cohort EXCEPT ![g] = plan.into]
    /\ visit' = visit \ {g}

MergeTgid(g) ==
    /\ dpc = "merge_tgids"
    /\ RemapTgid(g)
    /\ UNCHANGED <<policy, counters, nr_tasks, task_ctxs, task_stats, spill_tasks,
                   cohort_seq, taskVars, attached, dpc, snapVars, dead, victim,
                   plan, merged, split_off, memVars, stragglers, retired>>

\* Mutant: the counters may go before every tgid is remapped.
MergeCountersEarly ==
    /\ dpc = "merge_tgids"
    /\ DeleteCounters(plan.from)
    /\ dpc' = "merge_policy"
    /\ UNCHANGED <<tgid_cohort, policy, task_ctxs, task_stats, spill_tasks,
                   cohort_seq, taskVars, attached, snapVars, dead, visit, plan,
                   merged, split_off, memVars, stragglers>>

MergeCounters ==
    /\ dpc = "merge_tgids"
    /\ visit = {}
    /\ DeleteCounters(plan.from)
    /\ dpc' = "merge_policy"
    /\ UNCHANGED <<tgid_cohort, policy, task_ctxs, task_stats, spill_tasks,
                   cohort_seq, taskVars, attached, snapVars, dead, visit, plan,
                   merged, split_off, memVars, stragglers>>

MergePolicy ==
    /\ dpc = "merge_policy"
    /\ policy' = policy \ {victim}
    /\ victim' = NoCohort
    /\ plan' = NoPlan
    /\ nr_merges' = nr_merges + 1
    /\ dpc' = "merges"
    /\ UNCHANGED <<tgid_cohort, counters, nr_tasks, task_ctxs, task_stats,
                   spill_tasks, cohort_seq, taskVars, attached, snapVars, dead,
                   visit, merged, split_off, dead_cohorts, dead_tgids,
                   current_spills, daemon_seq, stragglers, retired>>

\* Mutant: the daemon counts from 1 as the BPF side does.
PlanSplitFromOne(c, off) ==
    /\ dpc \in {"merges", "splits"}
    /\ daemon_seq < MaxDaemonIds
    /\ c \in s_cohorts
    /\ off # {} /\ off \subseteq Members(c) \ split_off
    /\ LET rest == Members(c) \ (off \cup split_off)
       IN  /\ rest # {}
           /\ SplitMinTasks <= TasksOf(off) /\ TasksOf(off) <= TasksOf(rest)
    /\ c \in policy
    /\ daemon_seq' = daemon_seq + 1
    /\ plan' = [into |-> 1 + daemon_seq, from |-> c]
    /\ visit' = off
    /\ split_off' = split_off \cup off
    /\ dpc' = "split_policy"
    /\ UNCHANGED <<bpfVars, taskVars, attached, snapVars, dead, victim, merged,
                   dead_cohorts, dead_tgids, current_spills, nr_merges,
                   stragglers, retired>>

\* A plan splits off one component of a cohort's tgids; the largest component
\* stays and a component below the footprint floor is skipped.
PlanSplit(c, off) ==
    /\ dpc \in {"merges", "splits"}
    /\ daemon_seq < MaxDaemonIds
    /\ c \in s_cohorts
    /\ off # {} /\ off \subseteq Members(c) \ split_off
    /\ LET rest == Members(c) \ (off \cup split_off)
       IN  /\ rest # {}
           /\ SplitMinTasks <= TasksOf(off) /\ TasksOf(off) <= TasksOf(rest)
    /\ c \in policy
    /\ daemon_seq' = daemon_seq + 1
    /\ plan' = [into |-> DaemonCohortBase + daemon_seq, from |-> c]
    /\ visit' = off
    /\ split_off' = split_off \cup off
    /\ dpc' = "split_policy"
    /\ UNCHANGED <<bpfVars, taskVars, attached, snapVars, dead, victim, merged,
                   dead_cohorts, dead_tgids, current_spills, nr_merges,
                   stragglers, retired>>

\* Mutant: the error is ignored, as it is on the BPF side.
SplitInsertIgnored(map, next) == dpc' = next /\ UNCHANGED attached

\* apply_split inserts the two entries.  A refused insert is an error that
\* ends the tick, the run loop and, with the Scheduler dropped, the attachment.
SplitInsert(map, next) ==
    /\ dpc' = IF HasRoom(map) THEN next ELSE "failed"
    /\ attached' = HasRoom(map)

SplitPolicy ==
    /\ dpc = "split_policy"
    /\ policy' = Insert(policy, plan.into)
    /\ SplitInsert(policy, "split_counters")
    /\ UNCHANGED <<tgid_cohort, counters, nr_tasks, task_ctxs, task_stats,
                   spill_tasks, cohort_seq, taskVars, snapVars, loopVars, memVars,
                   stragglers, retired>>

SplitCounters ==
    /\ dpc = "split_counters"
    /\ counters' = Insert(counters, plan.into)
    /\ SplitInsert(counters, "split_tgids")
    /\ UNCHANGED <<tgid_cohort, policy, nr_tasks, task_ctxs, task_stats,
                   spill_tasks, cohort_seq, taskVars, snapVars, loopVars, memVars,
                   stragglers, retired>>

SplitTgid(g) ==
    /\ dpc = "split_tgids"
    /\ RemapTgid(g)
    /\ UNCHANGED <<policy, counters, nr_tasks, task_ctxs, task_stats, spill_tasks,
                   cohort_seq, taskVars, attached, dpc, snapVars, dead, victim,
                   plan, merged, split_off, memVars, stragglers, retired>>

SplitDone ==
    /\ dpc = "split_tgids"
    /\ visit = {}
    /\ plan' = NoPlan
    /\ dpc' = "splits"
    /\ UNCHANGED <<bpfVars, taskVars, attached, snapVars, dead, victim, visit,
                   merged, split_off, memVars, stragglers, retired>>

\* tick returns: its locals are gone and the daemon sleeps for the interval.
TickEnd ==
    /\ dpc \in {"merges", "splits"}
    /\ s_tasks' = {} /\ s_tgids' = [g \in Pids |-> NoCohort] /\ s_cohorts' = {}
    /\ merged' = {} /\ split_off' = {}
    /\ stragglers' = InFlight
    /\ dpc' = "sleep"
    /\ UNCHANGED <<bpfVars, taskVars, attached, dead, victim, visit, plan, memVars,
                   retired>>

-----------------------------------------------------------------------------
TaskStep(p) ==
    \/ AttachTask(p) \/ ForkNoCtx(p) \/ \E q \in Pids : Fork(p, q)
    \/ InitPolicy(p) \/ InitCounters(p) \/ InitMap(p) \/ InitCount(p) \/ InitStat(p)
    \/ Wake(p) \/ Stopping(p)
    \/ ExitResolve(p) \/ ExitCount(p) \/ ExitStat(p) \/ ExitSpill(p)

DaemonStep ==
    \/ Attach
    \/ SnapshotTasks \/ SnapshotTgidCohort \/ SnapshotCohorts
    \/ (\E id \in Ids : GcCounters(id)) \/ GcPolicy
    \/ GcTgidMap \/ \E g \in Pids : GcTgid(g)
    \/ ApplySpills
    \/ \E into, from \in Ids : PlanMerge(into, from)
    \/ (\E g \in Pids : MergeTgid(g)) \/ MergeCounters \/ MergePolicy
    \/ \E c \in Ids, off \in SUBSET Pids : PlanSplit(c, off)
    \/ SplitPolicy \/ SplitCounters \/ (\E g \in Pids : SplitTgid(g)) \/ SplitDone
    \/ TickEnd

Next == DaemonStep \/ \E p \in Pids : TaskStep(p)

Spec == Init /\ [][Next]_vars

-----------------------------------------------------------------------------
(* Properties                                                              *)

MapsTypeOK ==
    /\ tgid_cohort \in [Pids -> OptId]
    /\ policy \subseteq Ids /\ counters \subseteq Ids /\ retired \subseteq Ids
    /\ nr_tasks \in [Ids -> 0 .. NrTasksModulus - 1]
    /\ task_ctxs \in [Pids -> OptId] /\ task_stats \in [Pids -> OptId]
    /\ spill_tasks \subseteq Pids
    /\ cohort_seq \in 0 .. MaxBpfIds

TasksTypeOK ==
    /\ pc \in [Pids -> {"none", "live"} \cup InitPcs \cup ExitPcs]
    /\ tgid \in [Pids -> Pids] /\ forker \in [Pids -> Pids]
    /\ reg \in [Pids -> OptId]
    /\ stragglers \subseteq Pids

TickTypeOK ==
    /\ s_tasks \subseteq TaskSnapshots
    /\ s_tgids \in [Pids -> OptId]
    /\ s_cohorts \subseteq Ids /\ dead \subseteq Ids /\ victim \in OptId
    /\ visit \subseteq Pids /\ split_off \subseteq Pids /\ merged \subseteq Ids
    /\ plan \in [into : OptId, from : OptId]

DaemonTypeOK ==
    /\ attached \in BOOLEAN
    /\ dpc \in {"sleep", "tgids", "cohorts", "gc_counters", "gc_policy", "gc_tgid",
                "merges", "merge_tgids", "merge_policy", "splits", "split_policy",
                "split_counters", "split_tgids", "failed"}
    /\ dead_cohorts \subseteq Ids /\ dead_tgids \subseteq Pids
    /\ current_spills \subseteq Pids
    /\ daemon_seq \in 0 .. MaxDaemonIds /\ nr_merges \in 0 .. MaxMerges

\* Every map, cache, snapshot and local holds values of its kind.
TypeOK == MapsTypeOK /\ TasksTypeOK /\ TickTypeOK /\ DaemonTypeOK

\* No cohort id is ever created twice: once a merge or the garbage collector
\* has deleted a cohort, its id never names a cohort again, so an id cached in
\* a TaskCtx, a TaskStat or a snapshot can go stale but never means another
\* cohort (the two allocators, and BPF_NOEXIST after an atomic increment).
NoIdReuse == retired \cap counters = {}

\* A cohort with counters has a policy: creation writes the policy first and
\* deletion removes it last, on both sides, so the daemon never snapshots a
\* cohort with a defaulted home.  (With room in the maps: a policy that a full
\* map refuses may be followed by counters, for which the collector has made room.)
CountersHavePolicy == counters \subseteq policy

\* The converse: a policy without counters belongs to a cohort that is being
\* created or deleted right now.  Collection starts from the counters, so any
\* other policy entry would never be collected.
NoPolicyLeak ==
    \A id \in policy \ counters :
        \/ id = victim
        \/ dpc = "split_counters" /\ id = plan.into
        \/ \E p \in Pids : pc[p] = "init_counters" /\ reg[p] = id

\* The two maps of a cohort, written one after the other by two sides, agree up
\* to the cohorts that are being created or deleted (assign_cohort, apply_split,
\* apply_merge, gc): in that order, so that counters never come alone.
PoliciesMatch == CountersHavePolicy /\ NoPolicyLeak

\* A process is never sent to a cohort that was not created: apply_split remaps
\* its tgids after both inserts, and an insert a full map refuses ends the tick
\* before the first of them, so no fork, exit or later merge finds such an id.
SplitTargetsExist ==
    \A g \in Pids : tgid_cohort[g] \in DaemonIds => tgid_cohort[g] \in counters \cup retired

\* Every initialised task resolves to a cohort that exists: TaskCtx::cohort_id
\* is a "key into the cohort map".  The collector's two-observation rule must
\* not take a cohort from under init_task, a fork, an exit or a reused tgid.
ResolvedCohortExists ==
    \A p \in Live : Resolve(p) \in counters \cap policy

\* nr_tasks counts the tasks between their increment and their decrement.
Counted(id) ==
    {p \in Pids : pc[p] \in {"init_stat", "live", "exit_count"} /\ task_ctxs[p] = id}
NrTasksExact == \A id \in counters : nr_tasks[id] = Cardinality(Counted(id))

\* Every entry of spill_tasks is one the daemon remembers writing, whatever
\* exits and reuses of the pid came between, so a later tick can remove it.
SpillEntriesTracked == spill_tasks \subseteq current_spills

\* Deleting a cohort, by collection or by merge, leaves none of its processes
\* behind that the tick saw alive: each was remapped before the counters go.
\* (Unless two threads of a process start at the same time without an entry:
\* the second to write it may write back the cohort the merge took it from.)
RemovalLeavesNoMemberBehind ==
    [][\A id \in counters \ counters' :
          \A g \in LiveTgids : s_tgids[g] = id => tgid_cohort'[g] # id]_vars

\* The membership the maps stand for: what resolve_cohort returns for the tasks
\* that init_task has returned for and exit_task has not been called for.
MS == INSTANCE Membership WITH
        Tasks   <- Pids,
        cohorts <- counters,
        process <- [p \in Pids |-> IF pc[p] = "live" THEN tgid[p] ELSE p],
        member  <- [p \in Pids |-> IF pc[p] = "live" THEN Resolve(p) ELSE NoCohort]

\* Without merges and splits the maps, the handlers and the collector implement
\* the membership service, map write by map write: a task resolves to the same
\* cohort for all its life, and so do the other threads of its process, a cohort
\* is collected only when no task resolves to it, and its id never comes back.
MembershipSpec == MS!Spec

-----------------------------------------------------------------------------
(* Liveness.  The daemon's loop keeps running, and a handler that started  *)
(* returns.  Nothing is assumed of forks, wakeups, stops and exits.        *)
HandlerStep(p) ==
    \/ InitPolicy(p) \/ InitCounters(p) \/ InitMap(p) \/ InitCount(p) \/ InitStat(p)
    \/ ExitCount(p) \/ ExitStat(p) \/ ExitSpill(p)

Fairness ==
    /\ WF_vars(DaemonStep)
    /\ \A p \in Pids : WF_vars(HandlerStep(p))

FairSpec == Spec /\ Fairness

\* A task the daemon can see belongs to the cohort, by its own entry or by its
\* process.
HasMember(id) ==
    \E p \in Pids : /\ task_stats[p] # NoCohort
                    /\ id \in {task_stats[p], tgid_cohort[tgid[p]]}

\* A cohort all of whose processes are gone is eventually collected, first its
\* stale tgid entries and then the cohort, unless the machine has no task at
\* all (the collector skips an empty snapshot).
DeadCohortReclaimed ==
    \A id \in Ids :
        []<>(\/ id \notin counters
             \/ HasMember(id)
             \/ \A p \in Pids : task_stats[p] = NoCohort)
=============================================================================
