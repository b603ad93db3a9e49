-------------------------- MODULE CohortMapsProofs --------------------------
(***************************************************************************)
(* Proofs about CohortMaps, for every number of tasks, CPUs, cohorts,      *)
(* merges, splits and spills: types, what the daemon remembers, ids,       *)
(* policies, removals and the cohorts splits create.                       *)
(***************************************************************************)
EXTENDS CohortMaps, TLAPS

\* What types need of control: a running init_task has chosen an id, a split in
\* progress has allocated one, and a merge in progress is not counted yet.
HandlerHasId == \A p \in Pids : pc[p] \in InitPcs => reg[p] # NoCohort

PlanInProgress ==
    /\ dpc \in {"split_policy", "split_counters"} => plan.into # NoCohort
    /\ dpc \in {"merge_tgids", "merge_policy"} => nr_merges < MaxMerges

TypeInv == TypeOK /\ HandlerHasId /\ PlanInProgress

\* The ids and the absent value are numbers; 0 is no id.
LEMMA IdFacts ==
    /\ NoCohort \notin Ids
    /\ Ids \subseteq OptId /\ NoCohort \in OptId
    /\ \A x \in OptId : x # NoCohort => x \in Ids
    /\ \A n \in 0 .. MaxBpfIds : n < MaxBpfIds => n + 1 \in Ids
    /\ \A n \in 0 .. MaxDaemonIds : n < MaxDaemonIds => DaemonCohortBase + n \in Ids
  BY BoundsAssumption, IdSpaceAssumption
     DEF Ids, OptId, BpfIds, DaemonIds, NoCohort

\* The unsigned count stays in its range whatever is added or taken away.
LEMMA CountInRange ==
    \A n \in 0 .. NrTasksModulus - 1 :
        /\ (n + 1) % NrTasksModulus \in 0 .. NrTasksModulus - 1
        /\ (n - 1) % NrTasksModulus \in 0 .. NrTasksModulus - 1
  BY BoundsAssumption

\* A step that leaves a group of variables alone leaves its type alone.
LEMMA DaemonUnchanged ==
    ASSUME TickTypeOK, DaemonTypeOK, PlanInProgress, UNCHANGED daemonVars
    PROVE  TickTypeOK' /\ DaemonTypeOK' /\ PlanInProgress'
  BY Zenon DEF TickTypeOK, DaemonTypeOK, PlanInProgress, daemonVars, snapVars, loopVars, memVars

\* The same for the tasks.
LEMMA TasksUnchanged ==
    ASSUME TasksTypeOK, HandlerHasId, UNCHANGED taskVars,
           stragglers' \subseteq Pids
    PROVE  TasksTypeOK' /\ HandlerHasId'
  BY Zenon DEF TasksTypeOK, HandlerHasId, taskVars

\* The same for the maps.
LEMMA MapsUnchanged ==
    ASSUME MapsTypeOK, UNCHANGED bpfVars, UNCHANGED retired
    PROVE  MapsTypeOK'
  BY Zenon DEF MapsTypeOK, bpfVars

\* init_task's first step, whatever its parent is.
LEMMA InitTaskType ==
    ASSUME MapsTypeOK, TasksTypeOK, HandlerHasId, NEW p \in Pids, NEW g \in Pids,
           NEW parent \in Pids, NEW inherited \in OptId,
           InitTask(p, g, parent, inherited)
    PROVE  MapsTypeOK' /\ TasksTypeOK' /\ HandlerHasId' /\ UNCHANGED daemonVars
  <1>1. \E id \in Ids, next \in InitPcs :
            InitTaskAs(p, g, id, next) /\ cohort_seq' \in 0 .. MaxBpfIds
    <2> USE IdFacts DEF MapsTypeOK, InitTask, InitPcs
    <2>1. CASE tgid_cohort[g] # NoCohort
      BY <2>1, Zenon
    <2>2. CASE tgid_cohort[g] = NoCohort /\ inherited # NoCohort
      BY <2>2, Zenon
    <2>3. CASE tgid_cohort[g] = NoCohort /\ inherited = NoCohort
      BY <2>3, BoundsAssumption DEF NewCohort
    <2> QED BY <2>1, <2>2, <2>3, Zenon
  <1>2. PICK id \in Ids, next \in InitPcs :
            InitTaskAs(p, g, id, next) /\ cohort_seq' \in 0 .. MaxBpfIds
    BY <1>1, Zenon
  <1>3. MapsTypeOK'
    BY <1>2, IdFacts, Zenon DEF MapsTypeOK, InitTask, InitTaskAs
  <1>4. TasksTypeOK' /\ HandlerHasId'
    BY <1>2, IdFacts, Zenon DEF TasksTypeOK, HandlerHasId, InitTask, InitTaskAs
  <1> QED BY <1>3, <1>4, Zenon DEF InitTask

\* Every step of a BPF handler keeps the types and leaves the daemon alone.
LEMMA TaskStepType ==
    ASSUME MapsTypeOK, TasksTypeOK, HandlerHasId, NEW p \in Pids, TaskStep(p)
    PROVE  MapsTypeOK' /\ TasksTypeOK' /\ HandlerHasId' /\ UNCHANGED daemonVars
  <1> USE IdFacts DEF MapsTypeOK, TasksTypeOK, HandlerHasId, InitPcs, ExitPcs
  <1>1. CASE AttachTask(p)
    BY <1>1, InitTaskType DEF AttachTask, Live
  <1>2. CASE ForkNoCtx(p)
    BY <1>2, InitTaskType, Zenon DEF ForkNoCtx
  <1>3. CASE \E q \in Pids : Fork(p, q)
    BY <1>3, InitTaskType, Zenon DEF Fork
  <1>4. CASE InitPolicy(p)
    BY <1>4, Zenon DEF InitPolicy, Insert
  <1>5. CASE InitCounters(p)
    BY <1>5, Zenon DEF InitCounters, Insert
  <1>6. CASE InitMap(p)
    BY <1>6, Zenon DEF InitMap
  <1>7. CASE InitCount(p)
    BY <1>7, CountInRange, Zenon DEF InitCount
  <1>8. CASE InitStat(p)
    BY <1>8, Zenon DEF InitStat
  <1>9. CASE Wake(p)
    BY <1>9, Zenon DEF Wake, Resolve, taskVars
  <1>10. CASE Stopping(p)
    BY <1>10, Zenon DEF Stopping, taskVars
  <1>11. CASE ExitResolve(p)
    BY <1>11, Zenon DEF ExitResolve, Resolve
  <1>12. CASE ExitCount(p)
    BY <1>12, CountInRange, Zenon DEF ExitCount
  <1>13. CASE ExitStat(p)
    BY <1>13, Zenon DEF ExitStat
  <1>14. CASE ExitSpill(p)
    BY <1>14, Zenon DEF ExitSpill
  <1> QED
    BY <1>1, <1>2, <1>3, <1>4, <1>5, <1>6, <1>7, <1>8, <1>9, <1>10, <1>11,
       <1>12, <1>13, <1>14, Zenon DEF TaskStep

\* Every step of the daemon keeps the types: the maps it writes, the tasks it
\* never touches, the tick's locals and the daemon's memory.
LEMMA DaemonStepType ==
    ASSUME TypeInv, DaemonStep
    PROVE  TypeInv'
  <1> USE IdFacts
  <1>a. /\ MapsTypeOK /\ TasksTypeOK /\ HandlerHasId
        /\ TickTypeOK /\ DaemonTypeOK /\ PlanInProgress
    BY Zenon DEF TypeInv, TypeOK
  <1>1. CASE Attach
    <2>1. MapsTypeOK'
      BY <1>a, <1>1, MapsUnchanged, Zenon DEF Attach
    <2>2. TasksTypeOK' /\ HandlerHasId'
      BY <1>a, <1>1, TasksUnchanged, Zenon DEF Attach, TasksTypeOK
    <2>3. TickTypeOK'
      BY <1>a, <1>1, Zenon DEF Attach, TickTypeOK, DaemonTypeOK, snapVars, loopVars
    <2>4. DaemonTypeOK' /\ PlanInProgress'
      BY <1>a, <1>1, Zenon
         DEF Attach, TickTypeOK, DaemonTypeOK, PlanInProgress, loopVars, memVars
    <2> QED BY <2>1, <2>2, <2>3, <2>4, Zenon DEF TypeInv, TypeOK
  <1>2. CASE SnapshotTasks
    <2>1. MapsTypeOK'
      BY <1>a, <1>2, MapsUnchanged, Zenon DEF SnapshotTasks
    <2>2. TasksTypeOK' /\ HandlerHasId'
      BY <1>a, <1>2, TasksUnchanged, Zenon DEF SnapshotTasks, TasksTypeOK
    <2>3. TickTypeOK'
      BY <1>a, <1>2 DEF SnapshotTasks, TaskSnapshots, TickTypeOK, DaemonTypeOK, MapsTypeOK, TasksTypeOK, snapVars, loopVars
    <2>4. DaemonTypeOK' /\ PlanInProgress'
      BY <1>a, <1>2, Zenon
         DEF SnapshotTasks, TaskSnapshots, TickTypeOK, DaemonTypeOK, PlanInProgress, MapsTypeOK, TasksTypeOK, loopVars, memVars
    <2> QED BY <2>1, <2>2, <2>3, <2>4, Zenon DEF TypeInv, TypeOK
  <1>3. CASE SnapshotTgidCohort
    <2>1. MapsTypeOK'
      BY <1>a, <1>3, MapsUnchanged, Zenon DEF SnapshotTgidCohort
    <2>2. TasksTypeOK' /\ HandlerHasId'
      BY <1>a, <1>3, TasksUnchanged, Zenon DEF SnapshotTgidCohort, TasksTypeOK
    <2>3. TickTypeOK'
      BY <1>a, <1>3, Zenon DEF SnapshotTgidCohort, TickTypeOK, DaemonTypeOK, MapsTypeOK, snapVars, loopVars
    <2>4. DaemonTypeOK' /\ PlanInProgress'
      BY <1>a, <1>3, Zenon
         DEF SnapshotTgidCohort, TickTypeOK, DaemonTypeOK, PlanInProgress, MapsTypeOK, loopVars, memVars
    <2> QED BY <2>1, <2>2, <2>3, <2>4, Zenon DEF TypeInv, TypeOK
  <1>4. CASE SnapshotCohorts
    <2>1. MapsTypeOK'
      BY <1>a, <1>4, MapsUnchanged, Zenon DEF SnapshotCohorts
    <2>2. TasksTypeOK' /\ HandlerHasId'
      BY <1>a, <1>4, TasksUnchanged, Zenon DEF SnapshotCohorts, TasksTypeOK
    <2>3. TickTypeOK'
      BY <1>a, <1>4, Zenon DEF SnapshotCohorts, TickTypeOK, DaemonTypeOK, MapsTypeOK, snapVars, loopVars
    <2>4. DaemonTypeOK' /\ PlanInProgress'
      BY <1>a, <1>4, Zenon
         DEF SnapshotCohorts, TickTypeOK, DaemonTypeOK, PlanInProgress, MapsTypeOK, loopVars, memVars
    <2> QED BY <2>1, <2>2, <2>3, <2>4, Zenon DEF TypeInv, TypeOK
  <1>5. CASE \E id \in Ids : GcCounters(id)
    <2>1. MapsTypeOK'
      BY <1>a, <1>5, BoundsAssumption
         DEF GcCounters, DeleteCounters, MapsTypeOK, TickTypeOK, PlanInProgress
    <2>2. TasksTypeOK' /\ HandlerHasId'
      BY <1>a, <1>5, TasksUnchanged, Zenon DEF GcCounters, TasksTypeOK
    <2>3. TickTypeOK'
      BY <1>a, <1>5, Zenon DEF GcCounters, DeleteCounters, TickTypeOK, DaemonTypeOK, snapVars, loopVars
    <2>4. DaemonTypeOK' /\ PlanInProgress'
      BY <1>a, <1>5, Zenon
         DEF GcCounters, DeleteCounters, TickTypeOK, DaemonTypeOK, PlanInProgress, loopVars, memVars
    <2> QED BY <2>1, <2>2, <2>3, <2>4, Zenon DEF TypeInv, TypeOK
  <1>6. CASE GcPolicy
    <2>1. MapsTypeOK'
      BY <1>a, <1>6, BoundsAssumption, Zenon
         DEF GcPolicy, MapsTypeOK, TickTypeOK, PlanInProgress
    <2>2. TasksTypeOK' /\ HandlerHasId'
      BY <1>a, <1>6, TasksUnchanged, Zenon DEF GcPolicy, TasksTypeOK
    <2>3. TickTypeOK'
      BY <1>a, <1>6, Zenon DEF GcPolicy, TickTypeOK, DaemonTypeOK, snapVars, loopVars
    <2>4. DaemonTypeOK' /\ PlanInProgress'
      BY <1>a, <1>6, Zenon
         DEF GcPolicy, TickTypeOK, DaemonTypeOK, PlanInProgress, loopVars, memVars
    <2> QED BY <2>1, <2>2, <2>3, <2>4, Zenon DEF TypeInv, TypeOK
  <1>7. CASE GcTgidMap
    <2>1. MapsTypeOK'
      BY <1>a, <1>7, MapsUnchanged, Zenon DEF GcTgidMap
    <2>2. TasksTypeOK' /\ HandlerHasId'
      BY <1>a, <1>7, TasksUnchanged, Zenon DEF GcTgidMap, TasksTypeOK
    <2>3. TickTypeOK'
      BY <1>a, <1>7, Zenon DEF GcTgidMap, LiveTgids, TickTypeOK, DaemonTypeOK, snapVars, loopVars
    <2>4. DaemonTypeOK' /\ PlanInProgress'
      BY <1>a, <1>7, Zenon
         DEF GcTgidMap, LiveTgids, TickTypeOK, DaemonTypeOK, PlanInProgress, loopVars, memVars
    <2> QED BY <2>1, <2>2, <2>3, <2>4, Zenon DEF TypeInv, TypeOK
  <1>8. CASE \E g \in Pids : GcTgid(g)
    <2>1. MapsTypeOK'
      BY <1>a, <1>8, BoundsAssumption
         DEF GcTgid, MapsTypeOK, TickTypeOK, PlanInProgress
    <2>2. TasksTypeOK' /\ HandlerHasId'
      BY <1>a, <1>8, TasksUnchanged, Zenon DEF GcTgid, TasksTypeOK
    <2>3. TickTypeOK'
      BY <1>a, <1>8, Zenon DEF GcTgid, TickTypeOK, DaemonTypeOK, snapVars, loopVars
    <2>4. DaemonTypeOK' /\ PlanInProgress'
      BY <1>a, <1>8, Zenon
         DEF GcTgid, TickTypeOK, DaemonTypeOK, PlanInProgress, loopVars, memVars
    <2> QED BY <2>1, <2>2, <2>3, <2>4, Zenon DEF TypeInv, TypeOK
  <1>9. CASE ApplySpills
    <2>1. MapsTypeOK'
      BY <1>a, <1>9, BoundsAssumption
         DEF ApplySpills, TaskSnapshots, MapsTypeOK, TickTypeOK, PlanInProgress
    <2>2. TasksTypeOK' /\ HandlerHasId'
      BY <1>a, <1>9, TasksUnchanged, Zenon DEF ApplySpills, TasksTypeOK
    <2>3. TickTypeOK'
      BY <1>a, <1>9, Zenon DEF ApplySpills, TaskSnapshots, TickTypeOK, DaemonTypeOK, snapVars, loopVars
    <2>4. DaemonTypeOK' /\ PlanInProgress'
      BY <1>a, <1>9
         DEF ApplySpills, TaskSnapshots, TickTypeOK, DaemonTypeOK, PlanInProgress, loopVars, memVars
    <2> QED BY <2>1, <2>2, <2>3, <2>4, Zenon DEF TypeInv, TypeOK
  <1>10. CASE \E into, from \in Ids : PlanMerge(into, from)
    <2>1. MapsTypeOK'
      BY <1>a, <1>10, MapsUnchanged, Zenon DEF PlanMerge
    <2>2. TasksTypeOK' /\ HandlerHasId'
      BY <1>a, <1>10, TasksUnchanged, Zenon DEF PlanMerge, TasksTypeOK
    <2>3. TickTypeOK'
      BY <1>a, <1>10 DEF PlanMerge, Members, TickTypeOK, DaemonTypeOK, snapVars, loopVars
    <2>4. DaemonTypeOK' /\ PlanInProgress'
      BY <1>a, <1>10, Zenon
         DEF PlanMerge, Members, TickTypeOK, DaemonTypeOK, PlanInProgress, loopVars, memVars
    <2> QED BY <2>1, <2>2, <2>3, <2>4, Zenon DEF TypeInv, TypeOK
  <1>11. CASE \E g \in Pids : MergeTgid(g)
    <2>1. MapsTypeOK'
      BY <1>a, <1>11, BoundsAssumption, Zenon
         DEF MergeTgid, RemapTgid, MapsTypeOK, TickTypeOK, PlanInProgress
    <2>2. TasksTypeOK' /\ HandlerHasId'
      BY <1>a, <1>11, TasksUnchanged, Zenon DEF MergeTgid, TasksTypeOK
    <2>3. TickTypeOK'
      BY <1>a, <1>11, Zenon DEF MergeTgid, RemapTgid, TickTypeOK, DaemonTypeOK, snapVars, loopVars
    <2>4. DaemonTypeOK' /\ PlanInProgress'
      BY <1>a, <1>11, Zenon
         DEF MergeTgid, RemapTgid, TickTypeOK, DaemonTypeOK, PlanInProgress, loopVars, memVars
    <2> QED BY <2>1, <2>2, <2>3, <2>4, Zenon DEF TypeInv, TypeOK
  <1>12. CASE MergeCounters
    <2>1. MapsTypeOK'
      <3>1. nr_tasks' \in [Ids -> 0 .. NrTasksModulus - 1]
        <4>1. nr_tasks' = [x \in Ids |-> IF x = plan.from THEN 0 ELSE nr_tasks[x]]
          BY ONLY <1>a, <1>12, Zenon DEF MergeCounters, DeleteCounters, MapsTypeOK
        <4> QED BY <1>a, <4>1, BoundsAssumption DEF MapsTypeOK
      <3> QED
        BY <1>a, <1>12, <3>1, Zenon DEF MergeCounters, DeleteCounters, MapsTypeOK
    <2>2. TasksTypeOK' /\ HandlerHasId'
      BY <1>a, <1>12, TasksUnchanged, Zenon DEF MergeCounters, TasksTypeOK
    <2>3. TickTypeOK'
      BY <1>a, <1>12, Zenon DEF MergeCounters, DeleteCounters, TickTypeOK, DaemonTypeOK, snapVars, loopVars
    <2>4. DaemonTypeOK' /\ PlanInProgress'
      BY <1>a, <1>12, Zenon
         DEF MergeCounters, DeleteCounters, TickTypeOK, DaemonTypeOK, PlanInProgress, loopVars, memVars
    <2> QED BY <2>1, <2>2, <2>3, <2>4, Zenon DEF TypeInv, TypeOK
  <1>13. CASE MergePolicy
    <2>1. MapsTypeOK'
      BY <1>a, <1>13, BoundsAssumption, Zenon
         DEF MergePolicy, MapsTypeOK, TickTypeOK, PlanInProgress
    <2>2. TasksTypeOK' /\ HandlerHasId'
      BY <1>a, <1>13, TasksUnchanged, Zenon DEF MergePolicy, TasksTypeOK
    <2>3. TickTypeOK'
      BY <1>a, <1>13, BoundsAssumption, Zenon DEF MergePolicy, NoPlan, TickTypeOK, DaemonTypeOK, snapVars, loopVars
    <2>4. DaemonTypeOK' /\ PlanInProgress'
      BY <1>a, <1>13, BoundsAssumption
         DEF MergePolicy, NoPlan, TickTypeOK, DaemonTypeOK, PlanInProgress, loopVars, memVars
    <2> QED BY <2>1, <2>2, <2>3, <2>4, Zenon DEF TypeInv, TypeOK
  <1>14. CASE \E c \in Ids, off \in SUBSET Pids : PlanSplit(c, off)
    <2>1. MapsTypeOK'
      BY <1>a, <1>14, MapsUnchanged, Zenon DEF PlanSplit
    <2>2. TasksTypeOK' /\ HandlerHasId'
      BY ONLY <1>a, <1>14, TasksUnchanged, SMTT(30) DEF PlanSplit, TasksTypeOK
    <2>3. TickTypeOK'
      BY <1>a, <1>14, BoundsAssumption, SMTT(30) DEF PlanSplit, Members, TickTypeOK, DaemonTypeOK, snapVars, loopVars
    <2>4. DaemonTypeOK' /\ PlanInProgress'
      BY <1>a, <1>14, BoundsAssumption, SMTT(30)
         DEF PlanSplit, Members, TickTypeOK, DaemonTypeOK, PlanInProgress, loopVars, memVars
    <2> QED BY <2>1, <2>2, <2>3, <2>4, Zenon DEF TypeInv, TypeOK
  <1>15. CASE SplitPolicy
    <2>1. MapsTypeOK'
      BY <1>a, <1>15, BoundsAssumption, Zenon
         DEF SplitPolicy, Insert, SplitInsert, MapsTypeOK, TickTypeOK, PlanInProgress
    <2>2. TasksTypeOK' /\ HandlerHasId'
      BY <1>a, <1>15, TasksUnchanged, Zenon DEF SplitPolicy, TasksTypeOK
    <2>3. TickTypeOK'
      BY <1>a, <1>15, Zenon DEF SplitPolicy, SplitInsert, TickTypeOK, DaemonTypeOK, snapVars, loopVars
    <2>4. DaemonTypeOK' /\ PlanInProgress'
      <3>1. attached' \in BOOLEAN
        BY <1>15 DEF SplitPolicy, SplitInsert, HasRoom
      <3> QED
        BY <1>a, <1>15, <3>1, Zenon
           DEF SplitPolicy, SplitInsert, DaemonTypeOK, PlanInProgress, loopVars, memVars
    <2> QED BY <2>1, <2>2, <2>3, <2>4, Zenon DEF TypeInv, TypeOK
  <1>16. CASE SplitCounters
    <2>1. MapsTypeOK'
      BY <1>a, <1>16, BoundsAssumption, Zenon
         DEF SplitCounters, Insert, SplitInsert, MapsTypeOK, TickTypeOK, PlanInProgress
    <2>2. TasksTypeOK' /\ HandlerHasId'
      BY <1>a, <1>16, TasksUnchanged, Zenon DEF SplitCounters, TasksTypeOK
    <2>3. TickTypeOK'
      BY <1>a, <1>16, Zenon DEF SplitCounters, SplitInsert, TickTypeOK, DaemonTypeOK, snapVars, loopVars
    <2>4. DaemonTypeOK' /\ PlanInProgress'
      <3>1. attached' \in BOOLEAN
        BY <1>16 DEF SplitCounters, SplitInsert, HasRoom
      <3> QED
        BY <1>a, <1>16, <3>1, Zenon
           DEF SplitCounters, SplitInsert, DaemonTypeOK, PlanInProgress, loopVars, memVars
    <2> QED BY <2>1, <2>2, <2>3, <2>4, Zenon DEF TypeInv, TypeOK
  <1>17. CASE \E g \in Pids : SplitTgid(g)
    <2>1. MapsTypeOK'
      BY <1>a, <1>17, BoundsAssumption, Zenon
         DEF SplitTgid, RemapTgid, MapsTypeOK, TickTypeOK, PlanInProgress
    <2>2. TasksTypeOK' /\ HandlerHasId'
      BY <1>a, <1>17, TasksUnchanged, Zenon DEF SplitTgid, TasksTypeOK
    <2>3. TickTypeOK'
      BY <1>a, <1>17, Zenon DEF SplitTgid, RemapTgid, TickTypeOK, DaemonTypeOK, snapVars, loopVars
    <2>4. DaemonTypeOK' /\ PlanInProgress'
      BY <1>a, <1>17, Zenon
         DEF SplitTgid, RemapTgid, TickTypeOK, DaemonTypeOK, PlanInProgress, loopVars, memVars
    <2> QED BY <2>1, <2>2, <2>3, <2>4, Zenon DEF TypeInv, TypeOK
  <1>18. CASE SplitDone
    <2>1. MapsTypeOK'
      BY <1>a, <1>18, MapsUnchanged, Zenon DEF SplitDone
    <2>2. TasksTypeOK' /\ HandlerHasId'
      BY <1>a, <1>18, TasksUnchanged, Zenon DEF SplitDone, TasksTypeOK
    <2>3. TickTypeOK'
      BY <1>a, <1>18, Zenon DEF SplitDone, NoPlan, TickTypeOK, DaemonTypeOK, snapVars, loopVars
    <2>4. DaemonTypeOK' /\ PlanInProgress'
      BY <1>a, <1>18, Zenon
         DEF SplitDone, NoPlan, TickTypeOK, DaemonTypeOK, PlanInProgress, loopVars, memVars
    <2> QED BY <2>1, <2>2, <2>3, <2>4, Zenon DEF TypeInv, TypeOK
  <1>19. CASE TickEnd
    <2>1. MapsTypeOK'
      BY <1>a, <1>19, MapsUnchanged, Zenon DEF TickEnd
    <2>2. TasksTypeOK' /\ HandlerHasId'
      BY <1>a, <1>19, TasksUnchanged, Zenon DEF TickEnd, InFlight
    <2>3. TickTypeOK'
      BY <1>a, <1>19, Zenon DEF TickEnd, TickTypeOK, DaemonTypeOK, snapVars, loopVars
    <2>4. DaemonTypeOK' /\ PlanInProgress'
      BY <1>a, <1>19, Zenon
         DEF TickEnd, TickTypeOK, DaemonTypeOK, PlanInProgress, loopVars, memVars
    <2> QED BY <2>1, <2>2, <2>3, <2>4, Zenon DEF TypeInv, TypeOK
  <1> QED
    BY <1>1, <1>2, <1>3, <1>4, <1>5, <1>6, <1>7, <1>8, <1>9, <1>10,
       <1>11, <1>12, <1>13, <1>14, <1>15, <1>16, <1>17, <1>18, <1>19, Zenon DEF DaemonStep

\* The initial state, before any task is attached, has the types.
LEMMA TypeInit ==
    ASSUME Init
    PROVE  TypeInv
  <1> USE IdFacts DEF Init
  <1>1. MapsTypeOK
    BY BoundsAssumption DEF MapsTypeOK
  <1>2. TasksTypeOK /\ HandlerHasId
    BY Zenon DEF TasksTypeOK, HandlerHasId, InitPcs
  <1>3. TickTypeOK
    BY Zenon DEF TickTypeOK, NoPlan
  <1>4. DaemonTypeOK /\ PlanInProgress
    <2>1. attached \in BOOLEAN
      BY Zenon
    <2> QED BY <2>1, BoundsAssumption DEF DaemonTypeOK, PlanInProgress
  <1> QED BY <1>1, <1>2, <1>3, <1>4, Zenon DEF TypeInv, TypeOK

\* Every step, of a BPF handler or of the daemon, keeps the types.
LEMMA TypeStep ==
    ASSUME TypeInv, [Next]_vars
    PROVE  TypeInv'
  <1>1. CASE DaemonStep
    BY <1>1, DaemonStepType, Zenon
  <1>2. ASSUME NEW p \in Pids, TaskStep(p)
        PROVE  TypeInv'
    BY <1>2, TaskStepType, DaemonUnchanged, Zenon DEF TypeInv, TypeOK
  <1>3. CASE UNCHANGED vars
    <2>1. stragglers' \subseteq Pids
      BY <1>3, Zenon DEF vars, TypeInv, TypeOK, TasksTypeOK
    <2> QED
      BY <1>3, <2>1, DaemonUnchanged, TasksUnchanged, MapsUnchanged, Zenon
         DEF TypeInv, TypeOK, vars
  <1> QED BY <1>1, <1>2, <1>3, Zenon DEF Next

\* TypeOK holds in every reachable state, whatever the constants are.
THEOREM TypeCorrect == Spec => []TypeOK
  <1>1. Init => TypeInv
    BY TypeInit, Zenon
  <1>2. TypeInv /\ [Next]_vars => TypeInv'
    BY TypeStep, Zenon
  <1>3. TypeInv => TypeOK
    BY Zenon DEF TypeInv
  <1> QED BY <1>1, <1>2, <1>3, PTL DEF Spec

-----------------------------------------------------------------------------
\* Spec => []SpillEntriesTracked: exits only remove entries, and apply_spills
\* starts from a remembered set that covers what is in the map.
THEOREM SpillsTracked == Spec => []SpillEntriesTracked
  <1>1. Init => SpillEntriesTracked
    BY Zenon DEF Init, SpillEntriesTracked
  <1>2. ASSUME SpillEntriesTracked, [Next]_vars
        PROVE  SpillEntriesTracked'
    <2>1. CASE ApplySpills
      <3>1. PICK desired :
              /\ spill_tasks' = (spill_tasks \cup (desired \ current_spills))
                                  \ (current_spills \ desired)
              /\ current_spills' = desired
        BY ONLY <2>1, Zenon DEF ApplySpills
      <3> QED BY <1>2, <3>1, Zenon DEF SpillEntriesTracked
    <2>2. CASE DaemonStep /\ ~ApplySpills
      <3>1. UNCHANGED <<spill_tasks, current_spills>>
        BY ONLY <2>2, ZenonT(60)
           DEF DaemonStep, Attach, SnapshotTasks, SnapshotTgidCohort,
               SnapshotCohorts, GcCounters, GcPolicy, GcTgidMap, GcTgid, PlanMerge,
               MergeTgid, MergeCounters, MergePolicy, PlanSplit, SplitPolicy,
               SplitCounters, SplitTgid, SplitDone, TickEnd, bpfVars, memVars
      <3> QED BY <1>2, <3>1, Zenon DEF SpillEntriesTracked
    <2>3. ASSUME NEW p \in Pids, TaskStep(p)
          PROVE  SpillEntriesTracked'
      <3>1. spill_tasks' \subseteq spill_tasks /\ UNCHANGED current_spills
        BY ONLY <2>3, ZenonT(60)
           DEF TaskStep, AttachTask, ForkNoCtx, Fork, InitTask, InitPolicy,
               InitCounters, InitMap, InitCount, InitStat, Wake, Stopping,
               ExitResolve, ExitCount, ExitStat, ExitSpill, daemonVars, memVars
      <3> QED BY <1>2, <3>1, Zenon DEF SpillEntriesTracked
    <2>4. CASE UNCHANGED vars
      BY <1>2, <2>4, Zenon DEF vars, bpfVars, daemonVars, memVars, SpillEntriesTracked
    <2> QED BY <1>2, <2>1, <2>2, <2>3, <2>4, Zenon DEF Next
  <1> QED BY <1>1, <1>2, PTL DEF Spec

-----------------------------------------------------------------------------
(* Ids.  An id is handed out once: everything that was ever a cohort lies  *)
(* below one of the two allocators, and an id on its way to becoming one is*)
(* known to a single creator.                                              *)
Creating(p) == pc[p] \in {"init_policy", "init_counters"}
Allocated(id) ==
    \/ id <= cohort_seq
    \/ DaemonCohortBase <= id /\ id < DaemonCohortBase + daemon_seq

IdInv ==
    /\ NoIdReuse
    /\ \A id \in counters \cup retired : Allocated(id)
    /\ \A p \in Pids : Creating(p) =>
          /\ reg[p] \in 1 .. cohort_seq
          /\ reg[p] \notin counters \cup retired
          /\ \A q \in Pids : Creating(q) /\ q # p => reg[q] # reg[p]
    /\ dpc \in {"split_policy", "split_counters"} =>
          /\ daemon_seq > 0 /\ plan.into = DaemonCohortBase + daemon_seq - 1
          /\ plan.into \notin counters \cup retired

\* Ids are natural numbers, and those of the BPF side lie below the daemon's.
LEMMA IdsAreNumbers ==
    /\ \A id \in Ids : id \in Nat
    /\ MaxBpfIds \in Nat /\ MaxDaemonIds \in Nat /\ DaemonCohortBase \in Nat
    /\ MaxBpfIds < DaemonCohortBase
  BY BoundsAssumption, IdSpaceAssumption DEF Ids, BpfIds, DaemonIds

\* A step that creates nothing: no handler starts to create, none changes its
\* id, and cohorts only move from existing to retired.
LEMMA NothingCreated ==
    ASSUME TypeInv, IdInv,
           UNCHANGED <<cohort_seq, daemon_seq>>,
           counters' \cup retired' \subseteq counters \cup retired,
           counters' \cap retired' = {},
           \A p \in Pids : Creating(p)' => Creating(p) /\ reg'[p] = reg[p],
           dpc' \in {"split_policy", "split_counters"} =>
               dpc \in {"split_policy", "split_counters"} /\ plan' = plan
    PROVE  IdInv'
  BY Zenon DEF IdInv, NoIdReuse, Allocated

\* A handler's step that neither creates a cohort nor starts or ends a creation.
Quiet ==
    /\ UNCHANGED <<policy, counters, retired, cohort_seq, daemonVars>>
    /\ \A q \in Pids : /\ pc'[q] = "init_policy" <=> pc[q] = "init_policy"
                       /\ pc'[q] = "init_counters" <=> pc[q] = "init_counters"
                       /\ Creating(q) => reg'[q] = reg[q]

\* All handler steps are quiet except init_task's first step and the two that
\* insert a fresh cohort.
LEMMA QuietHandlers ==
    ASSUME TasksTypeOK, NEW p \in Pids,
           \/ InitMap(p) \/ InitCount(p) \/ InitStat(p) \/ Wake(p) \/ Stopping(p)
           \/ ExitResolve(p) \/ ExitCount(p) \/ ExitStat(p) \/ ExitSpill(p)
    PROVE  Quiet
  <1>a. pc \in [Pids -> {"none", "live"} \cup InitPcs \cup ExitPcs]
        /\ reg \in [Pids -> OptId]
    BY Zenon DEF TasksTypeOK
  <1>1. CASE InitMap(p)
    BY ONLY <1>a, <1>1, p \in Pids, Zenon DEF InitMap, Quiet, Creating
  <1>2. CASE InitCount(p)
    BY ONLY <1>a, <1>2, p \in Pids, Zenon DEF InitCount, Quiet, Creating
  <1>3. CASE InitStat(p)
    BY ONLY <1>a, <1>3, p \in Pids, Zenon DEF InitStat, Quiet, Creating
  <1>4. CASE Wake(p)
    BY ONLY <1>a, <1>4, p \in Pids, Zenon DEF Wake, Quiet, Creating, taskVars
  <1>5. CASE Stopping(p)
    BY ONLY <1>a, <1>5, p \in Pids, Zenon DEF Stopping, Quiet, Creating, taskVars
  <1>6. CASE ExitResolve(p)
    BY ONLY <1>a, <1>6, p \in Pids, Zenon DEF ExitResolve, Live, Quiet, Creating
  <1>7. CASE ExitCount(p)
    BY ONLY <1>a, <1>7, p \in Pids, Zenon DEF ExitCount, Quiet, Creating
  <1>8. CASE ExitStat(p)
    BY ONLY <1>a, <1>8, p \in Pids, Zenon DEF ExitStat, Quiet, Creating
  <1>9. CASE ExitSpill(p)
    BY ONLY <1>a, <1>9, p \in Pids, Zenon DEF ExitSpill, Quiet, Creating
  <1> QED BY <1>1, <1>2, <1>3, <1>4, <1>5, <1>6, <1>7, <1>8, <1>9, Zenon

\* Every step of a BPF handler preserves IdInv: init_task alone creates cohorts.
LEMMA TaskStepIds ==
    ASSUME TypeInv, IdInv, NEW p \in Pids, TaskStep(p)
    PROVE  IdInv'
  <1>t. /\ TasksTypeOK
        /\ pc \in [Pids -> {"none", "live"} \cup InitPcs \cup ExitPcs]
        /\ reg \in [Pids -> OptId] /\ tgid \in [Pids -> Pids]
    BY Zenon DEF TypeInv, TypeOK, TasksTypeOK
  <1>m. /\ counters \cup retired \subseteq Ids /\ cohort_seq \in 0 .. MaxBpfIds
        /\ task_ctxs \in [Pids -> OptId] /\ daemon_seq \in Nat
    BY DEF TypeInv, TypeOK, MapsTypeOK, DaemonTypeOK
  <1>1. ASSUME NEW g \in Pids, NEW parent \in Pids, NEW inherited \in OptId,
               InitTask(p, g, parent, inherited)
        PROVE  IdInv'
    <2>1. CASE NewCohort(p, g)
      <3>1. /\ cohort_seq \in Nat /\ cohort_seq + 1 <= MaxBpfIds
            /\ cohort_seq' = cohort_seq + 1
            /\ UNCHANGED <<counters, retired, daemon_seq, dpc, plan>>
            /\ reg' = [reg EXCEPT ![p] = cohort_seq + 1]
            /\ pc' = [pc EXCEPT ![p] = "init_policy"]
        <4>1. UNCHANGED <<counters, retired, daemon_seq, dpc, plan>>
          BY ONLY <1>1, Zenon DEF InitTask, daemonVars, memVars, loopVars
        <4>2. cohort_seq + 1 <= MaxBpfIds
          BY ONLY <1>m, <2>1, IdsAreNumbers DEF NewCohort
        <4> QED BY ONLY <1>m, <2>1, <4>1, <4>2 DEF NewCohort, InitTaskAs
      <3>3. cohort_seq + 1 \notin counters \cup retired
        BY <1>m, <3>1, IdsAreNumbers DEF IdInv, Allocated
      <3>4. NoIdReuse' /\ \A id \in counters' \cup retired' : Allocated(id)'
        BY ONLY <1>m, <3>1, IdsAreNumbers, IdInv DEF IdInv, Allocated, NoIdReuse
      <3>5. ASSUME NEW q \in Pids, Creating(q)'
            PROVE  /\ reg'[q] \in 1 .. cohort_seq'
                   /\ reg'[q] \notin counters' \cup retired'
                   /\ \A r \in Pids : Creating(r)' /\ r # q => reg'[r] # reg'[q]
        BY ONLY <1>t, <3>1, <3>3, <3>5, IdInv DEF IdInv, Creating
      <3>6. dpc' \in {"split_policy", "split_counters"} =>
              /\ daemon_seq' > 0 /\ plan'.into = DaemonCohortBase + daemon_seq' - 1
              /\ plan'.into \notin counters' \cup retired'
        BY <3>1, Zenon DEF IdInv
      <3> QED BY ONLY <3>4, <3>5, <3>6, IdInv, Zenon DEF IdInv
    <2>2. CASE ~NewCohort(p, g)
      <3>1. /\ UNCHANGED <<cohort_seq, counters, retired, daemon_seq, dpc, plan>>
            /\ \E id \in OptId : reg' = [reg EXCEPT ![p] = id]
            /\ \E next \in {"init_count", "init_map"} : pc' = [pc EXCEPT ![p] = next]
        <4>1. UNCHANGED <<counters, retired, daemon_seq, dpc, plan>>
          BY ONLY <1>1, Zenon DEF InitTask, daemonVars, memVars, loopVars
        <4>2. tgid_cohort[g] \in OptId
          BY Zenon DEF TypeInv, TypeOK, MapsTypeOK
        <4> QED BY ONLY <1>1, <2>2, <4>1, <4>2, Zenon DEF InitTask, InitTaskAs
      <3>2. \A q \in Pids : Creating(q)' => Creating(q) /\ reg'[q] = reg[q]
        BY ONLY <1>t, <3>1, p \in Pids DEF Creating
      <3> QED BY ONLY <3>1, <3>2, NothingCreated, TypeInv, IdInv, p \in Pids, Zenon
                 DEF IdInv, NoIdReuse
    <2> QED BY <2>1, <2>2, Zenon
  <1>2. CASE AttachTask(p)
    BY ONLY <1>t, <1>2, <1>1, p \in Pids, IdFacts, Zenon DEF AttachTask, Live
  <1>3. CASE ForkNoCtx(p)
    BY ONLY <1>3, <1>1, p \in Pids, IdFacts, Zenon DEF ForkNoCtx
  <1>4. CASE \E q \in Pids : Fork(p, q)
    BY ONLY <1>t, <1>m, <1>4, <1>1, p \in Pids, Zenon DEF Fork
  <1>5. CASE InitPolicy(p)
    <2>1. \A q \in Pids : Creating(q)' => Creating(q) /\ reg'[q] = reg[q]
      BY ONLY <1>t, <1>5, p \in Pids, Zenon DEF InitPolicy, Creating
    <2>2. UNCHANGED <<counters, retired, cohort_seq, daemon_seq, dpc, plan>>
      BY ONLY <1>5, Zenon DEF InitPolicy, daemonVars, memVars, loopVars
    <2> QED BY ONLY <2>1, <2>2, NothingCreated, TypeInv, IdInv, p \in Pids, Zenon
               DEF IdInv, NoIdReuse
  <1>6. CASE InitCounters(p)
    <2>1. /\ Creating(p) /\ pc' = [pc EXCEPT ![p] = "init_map"]
          /\ counters' \subseteq counters \cup {reg[p]}
          /\ UNCHANGED <<retired, cohort_seq, daemon_seq, reg, dpc, plan>>
      BY ONLY <1>6, Zenon
         DEF InitCounters, Insert, Creating, daemonVars, memVars, loopVars
    <2>2. reg[p] \in 1 .. cohort_seq /\ reg[p] \notin retired
      BY <2>1, Zenon DEF IdInv
    <2>3. NoIdReuse' /\ \A id \in counters' \cup retired' : Allocated(id)'
      BY ONLY <1>m, <2>1, <2>2, IdsAreNumbers, IdInv DEF IdInv, NoIdReuse, Allocated
    <2>4. ASSUME NEW q \in Pids, Creating(q)'
          PROVE  /\ reg'[q] \in 1 .. cohort_seq'
                 /\ reg'[q] \notin counters' \cup retired'
                 /\ \A r \in Pids : Creating(r)' /\ r # q => reg'[r] # reg'[q]
      <3>1. q # p /\ Creating(q) /\ \A r \in Pids : Creating(r)' => Creating(r)
        BY ONLY <1>t, <2>1, <2>4, p \in Pids, Zenon DEF Creating
      <3> QED BY <2>1, <3>1, Zenon DEF IdInv
    <2>5. dpc' \in {"split_policy", "split_counters"} =>
            /\ daemon_seq' > 0 /\ plan'.into = DaemonCohortBase + daemon_seq' - 1
            /\ plan'.into \notin counters' \cup retired'
      BY <1>m, <2>1, <2>2, IdsAreNumbers DEF IdInv
    <2> QED BY ONLY <2>3, <2>4, <2>5, IdInv, Zenon DEF IdInv
  <1>7. CASE Quiet
    <2>1. /\ UNCHANGED <<counters, retired, cohort_seq, daemon_seq, dpc, plan>>
          /\ \A q \in Pids : Creating(q)' => Creating(q) /\ reg'[q] = reg[q]
      BY ONLY <1>7, Zenon DEF Quiet, Creating, daemonVars, memVars, loopVars
    <2> QED BY ONLY <2>1, NothingCreated, TypeInv, IdInv, p \in Pids, Zenon
               DEF IdInv, NoIdReuse
  <1> QED
    BY ONLY <1>t, <1>2, <1>3, <1>4, <1>5, <1>6, <1>7, QuietHandlers, p \in Pids,
            TaskStep(p), Zenon DEF TaskStep

\* No step of the daemon runs a handler or allocates a handler's cohort.
LEMMA DaemonLeavesHandlers ==
    ASSUME DaemonStep
    PROVE  UNCHANGED <<pc, tgid, reg, cohort_seq>>
  <1>1. CASE \/ Attach \/ SnapshotTasks \/ SnapshotTgidCohort \/ SnapshotCohorts
             \/ (\E id \in Ids : GcCounters(id)) \/ GcPolicy \/ GcTgidMap
    <2>1. CASE Attach
      BY ONLY <2>1, Zenon DEF Attach, bpfVars, taskVars
    <2>2. CASE SnapshotTasks
      BY ONLY <2>2, Zenon DEF SnapshotTasks, bpfVars, taskVars
    <2>3. CASE SnapshotTgidCohort
      BY ONLY <2>3, Zenon DEF SnapshotTgidCohort, bpfVars, taskVars
    <2>4. CASE SnapshotCohorts
      BY ONLY <2>4, Zenon DEF SnapshotCohorts, bpfVars, taskVars
    <2>5. CASE \E id \in Ids : GcCounters(id)
      BY ONLY <2>5, Zenon DEF GcCounters, bpfVars, taskVars
    <2>6. CASE GcPolicy
      BY ONLY <2>6, Zenon DEF GcPolicy, bpfVars, taskVars
    <2>7. CASE GcTgidMap
      BY ONLY <2>7, Zenon DEF GcTgidMap, bpfVars, taskVars
    <2> QED
      BY ONLY <1>1, <2>1, <2>2, <2>3, <2>4, <2>5, <2>6, <2>7, Zenon
  <1>2. CASE \/ (\E g \in Pids : GcTgid(g)) \/ ApplySpills
             \/ (\E into, from \in Ids : PlanMerge(into, from))
             \/ (\E g \in Pids : MergeTgid(g)) \/ MergeCounters \/ MergePolicy
    <2>1. CASE \E g \in Pids : GcTgid(g)
      BY ONLY <2>1, Zenon DEF GcTgid, bpfVars, taskVars
    <2>2. CASE ApplySpills
      BY ONLY <2>2, Zenon DEF ApplySpills, bpfVars, taskVars
    <2>3. CASE \E into, from \in Ids : PlanMerge(into, from)
      BY ONLY <2>3, Zenon DEF PlanMerge, bpfVars, taskVars
    <2>4. CASE \E g \in Pids : MergeTgid(g)
      BY ONLY <2>4, Zenon DEF MergeTgid, bpfVars, taskVars
    <2>5. CASE MergeCounters
      BY ONLY <2>5, Zenon DEF MergeCounters, bpfVars, taskVars
    <2>6. CASE MergePolicy
      BY ONLY <2>6, Zenon DEF MergePolicy, bpfVars, taskVars
    <2> QED
      BY ONLY <1>2, <2>1, <2>2, <2>3, <2>4, <2>5, <2>6, Zenon
  <1>3. CASE \/ (\E c \in Ids, off \in SUBSET Pids : PlanSplit(c, off))
             \/ SplitPolicy \/ SplitCounters \/ (\E g \in Pids : SplitTgid(g))
             \/ SplitDone \/ TickEnd
    <2>1. CASE \E c \in Ids, off \in SUBSET Pids : PlanSplit(c, off)
      BY ONLY <2>1, Zenon DEF PlanSplit, bpfVars, taskVars
    <2>2. CASE SplitPolicy
      BY ONLY <2>2, Zenon DEF SplitPolicy, bpfVars, taskVars
    <2>3. CASE SplitCounters
      BY ONLY <2>3, Zenon DEF SplitCounters, bpfVars, taskVars
    <2>4. CASE \E g \in Pids : SplitTgid(g)
      BY ONLY <2>4, Zenon DEF SplitTgid, bpfVars, taskVars
    <2>5. CASE SplitDone
      BY ONLY <2>5, Zenon DEF SplitDone, bpfVars, taskVars
    <2>6. CASE TickEnd
      BY ONLY <2>6, Zenon DEF TickEnd, bpfVars, taskVars
    <2> QED
      BY ONLY <1>3, <2>1, <2>2, <2>3, <2>4, <2>5, <2>6, Zenon
  <1> QED BY ONLY <1>1, <1>2, <1>3, DaemonStep, Zenon DEF DaemonStep

\* Every step of the daemon preserves IdInv: apply_split alone creates cohorts.
LEMMA DaemonStepIds ==
    ASSUME TypeInv, IdInv, DaemonStep
    PROVE  IdInv'
  <1>a. /\ UNCHANGED <<pc, reg, cohort_seq>>
        /\ \A p \in Pids : Creating(p)' => Creating(p) /\ reg'[p] = reg[p]
    BY DaemonLeavesHandlers, Zenon DEF Creating
  <1>1. CASE (\E id \in Ids : GcCounters(id)) \/ MergeCounters
    <2>1. /\ UNCHANGED daemon_seq
          /\ dpc' \in {"gc_policy", "merge_policy"}
          /\ counters' \cup retired' \subseteq counters \cup retired
          /\ counters' \cap retired' = {}
      <3>1. counters \cap retired = {}
        BY Zenon DEF IdInv, NoIdReuse
      <3> QED BY ONLY <1>1, <3>1, Zenon DEF GcCounters, MergeCounters, DeleteCounters, memVars
    <2> QED BY <1>a, <2>1, NothingCreated, Zenon
  <1>2. CASE \E c \in Ids, off \in SUBSET Pids : PlanSplit(c, off)
    <2>1. /\ daemon_seq' = daemon_seq + 1 /\ daemon_seq \in Nat
          /\ plan'.into = DaemonCohortBase + daemon_seq
          /\ UNCHANGED <<counters, retired>>
          /\ cohort_seq \in 0 .. MaxBpfIds
          /\ counters \cup retired \subseteq Ids
      <3>1. /\ daemon_seq \in Nat /\ cohort_seq \in 0 .. MaxBpfIds
            /\ counters \cup retired \subseteq Ids
        BY DEF TypeInv, TypeOK, MapsTypeOK, DaemonTypeOK
      <3> QED BY ONLY <1>2, <3>1 DEF PlanSplit, bpfVars
    <2>2. DaemonCohortBase + daemon_seq \notin counters \cup retired
      BY <2>1, IdsAreNumbers DEF IdInv, Allocated
    <2>3. NoIdReuse' /\ \A id \in counters' \cup retired' : Allocated(id)'
      BY ONLY <1>a, <2>1, IdsAreNumbers, IdInv DEF IdInv, NoIdReuse, Allocated
    <2>4. ASSUME NEW p \in Pids, Creating(p)'
          PROVE  /\ reg'[p] \in 1 .. cohort_seq'
                 /\ reg'[p] \notin counters' \cup retired'
                 /\ \A q \in Pids : Creating(q)' /\ q # p => reg'[q] # reg'[p]
      BY <1>a, <2>1, <2>4, Zenon DEF IdInv
    <2>5. /\ daemon_seq' > 0 /\ plan'.into = DaemonCohortBase + daemon_seq' - 1
          /\ plan'.into \notin counters' \cup retired'
      BY <2>1, <2>2, IdsAreNumbers
    <2> QED BY ONLY <2>3, <2>4, <2>5, IdInv, SMTT(30) DEF IdInv
  <1>3. CASE SplitCounters
    <2>1. /\ dpc = "split_counters" /\ dpc' \in {"split_tgids", "failed"}
          /\ counters' \subseteq counters \cup {plan.into}
          /\ UNCHANGED <<retired, daemon_seq>>
      BY ONLY <1>3, Zenon DEF SplitCounters, SplitInsert, Insert, memVars
    <2>2. /\ daemon_seq \in Nat /\ daemon_seq > 0 /\ cohort_seq \in 0 .. MaxBpfIds
          /\ plan.into = DaemonCohortBase + daemon_seq - 1
          /\ plan.into \notin counters \cup retired
      BY <2>1 DEF IdInv, TypeInv, TypeOK, MapsTypeOK, DaemonTypeOK
    <2>3. NoIdReuse' /\ \A id \in counters' \cup retired' : Allocated(id)'
      BY ONLY <1>a, <2>1, <2>2, IdsAreNumbers, IdInv DEF IdInv, NoIdReuse, Allocated
    <2>4. ASSUME NEW p \in Pids, Creating(p)'
          PROVE  /\ reg'[p] \in 1 .. cohort_seq'
                 /\ reg'[p] \notin counters' \cup retired'
                 /\ \A q \in Pids : Creating(q)' /\ q # p => reg'[q] # reg'[p]
      BY <1>a, <2>1, <2>2, <2>4, IdsAreNumbers DEF IdInv
    <2> QED BY ONLY <2>1, <2>3, <2>4, IdInv, Zenon DEF IdInv
  <1>4. CASE SplitPolicy
    <2>1. /\ dpc = "split_policy" /\ dpc' \in {"split_counters", "failed"}
          /\ UNCHANGED <<counters, retired, daemon_seq, plan>>
      BY ONLY <1>4, Zenon DEF SplitPolicy, SplitInsert, memVars, loopVars
    <2> QED BY ONLY <1>a, <2>1, NothingCreated, TypeInv, IdInv, SMTT(30) DEF IdInv, NoIdReuse
  <1>5. CASE \/ Attach \/ SnapshotTasks \/ SnapshotTgidCohort \/ SnapshotCohorts
             \/ GcPolicy \/ GcTgidMap \/ (\E g \in Pids : GcTgid(g)) \/ ApplySpills
    <2>1. /\ dpc' \notin {"split_policy", "split_counters"}
          /\ UNCHANGED <<counters, retired, daemon_seq>>
      <3>1. CASE Attach
        BY ONLY <3>1, Zenon DEF Attach, bpfVars, memVars, loopVars
      <3>2. CASE SnapshotTasks
        BY ONLY <3>2, Zenon DEF SnapshotTasks, bpfVars, memVars, loopVars
      <3>3. CASE SnapshotTgidCohort
        BY ONLY <3>3, Zenon DEF SnapshotTgidCohort, bpfVars, memVars, loopVars
      <3>4. CASE SnapshotCohorts
        BY ONLY <3>4, Zenon DEF SnapshotCohorts, bpfVars, memVars, loopVars
      <3>5. CASE GcPolicy
        BY ONLY <3>5, Zenon DEF GcPolicy, bpfVars, memVars, loopVars
      <3>6. CASE GcTgidMap
        BY ONLY <3>6, Zenon DEF GcTgidMap, bpfVars, memVars, loopVars
      <3>7. CASE \E g \in Pids : GcTgid(g)
        BY ONLY <3>7, Zenon DEF GcTgid, bpfVars, memVars, loopVars
      <3>8. CASE ApplySpills
        BY ONLY <3>8, Zenon DEF ApplySpills, bpfVars, memVars, loopVars
      <3> QED
        BY ONLY <1>5, <3>1, <3>2, <3>3, <3>4, <3>5, <3>6, <3>7, <3>8, Zenon
    <2> QED BY ONLY <1>a, <2>1, NothingCreated, TypeInv, IdInv, SMTT(30) DEF IdInv, NoIdReuse
  <1>6. CASE \/ (\E into, from \in Ids : PlanMerge(into, from))
             \/ (\E g \in Pids : MergeTgid(g)) \/ MergePolicy
             \/ (\E g \in Pids : SplitTgid(g)) \/ SplitDone \/ TickEnd
    <2>1. /\ dpc' \notin {"split_policy", "split_counters"}
          /\ UNCHANGED <<counters, retired, daemon_seq>>
      <3>1. CASE \E into, from \in Ids : PlanMerge(into, from)
        BY ONLY <3>1, Zenon DEF PlanMerge, bpfVars, memVars, loopVars
      <3>2. CASE \E g \in Pids : MergeTgid(g)
        BY ONLY <3>2, Zenon DEF MergeTgid, bpfVars, memVars, loopVars
      <3>3. CASE MergePolicy
        BY ONLY <3>3, Zenon DEF MergePolicy, bpfVars, memVars, loopVars
      <3>4. CASE \E g \in Pids : SplitTgid(g)
        BY ONLY <3>4, Zenon DEF SplitTgid, bpfVars, memVars, loopVars
      <3>5. CASE SplitDone
        BY ONLY <3>5, Zenon DEF SplitDone, bpfVars, memVars, loopVars
      <3>6. CASE TickEnd
        BY ONLY <3>6, Zenon DEF TickEnd, bpfVars, memVars, loopVars
      <3> QED
        BY ONLY <1>6, <3>1, <3>2, <3>3, <3>4, <3>5, <3>6, Zenon
    <2> QED BY ONLY <1>a, <2>1, NothingCreated, TypeInv, IdInv, SMTT(30) DEF IdInv, NoIdReuse
  <1> QED BY ONLY DaemonStep, <1>1, <1>2, <1>3, <1>4, <1>5, <1>6, Zenon DEF DaemonStep

\* Both together, and stuttering.
LEMMA IdStep ==
    ASSUME TypeInv, IdInv, [Next]_vars
    PROVE  IdInv'
  <1>1. CASE UNCHANGED vars
    BY ONLY <1>1, NothingCreated, TypeInv, IdInv, [Next]_vars, SMTT(30)
       DEF vars, bpfVars, taskVars, daemonVars, memVars, loopVars, Creating, IdInv,
           NoIdReuse
  <1> QED BY <1>1, TaskStepIds, DaemonStepIds, Zenon DEF Next

\* Spec => []NoIdReuse: neither allocator hands out an id that names, or ever
\* named, a cohort, in any interleaving of init_task, collection, merges and
\* splits.
THEOREM IdsNeverReused == Spec => []NoIdReuse
  <1>1. Init => TypeInv /\ IdInv
    BY ONLY TypeInit, Zenon DEF Init, IdInv, NoIdReuse, Creating
  <1>2. TypeInv /\ IdInv /\ [Next]_vars => (TypeInv /\ IdInv)'
    BY TypeStep, IdStep, Zenon
  <1>3. IdInv => NoIdReuse
    BY Zenon DEF IdInv
  <1> QED BY <1>1, <1>2, <1>3, PTL DEF Spec

-----------------------------------------------------------------------------
(* Policies.  The policy is written before the counters and removed after  *)
(* them, and whoever removes it last removes that of a retired id, which   *)
(* no creator can be working on.                                           *)

INSTANCE FiniteSetTheorems

Room == Cardinality(Ids) <= MaxCohorts

PolicyInv ==
    /\ CountersHavePolicy
    /\ NoPolicyLeak
    /\ \A p \in Pids : pc[p] = "init_counters" => reg[p] \in policy
    /\ dpc = "split_counters" => plan.into \in policy
    /\ dpc \in {"gc_counters", "gc_policy"} => dead \subseteq counters
    /\ dpc = "merge_tgids" => plan.from \in counters
    /\ IF dpc \in {"gc_policy", "merge_policy"} THEN victim \in retired
                                                ELSE victim = NoCohort

\* With room for every id an insertion is never refused.
LEMMA RoomToInsert ==
    ASSUME Room, NEW map \in SUBSET Ids, NEW id \in Ids
    PROVE  /\ Insert(map, id) = map \cup {id}
           /\ id \notin map => HasRoom(map)
  <1>1. IsFiniteSet(Ids)
    <2>1. \A x \in Ids : x <= DaemonCohortBase + MaxDaemonIds
      BY BoundsAssumption, IdSpaceAssumption DEF Ids, BpfIds, DaemonIds
    <2>2. Ids \in SUBSET Nat /\ DaemonCohortBase + MaxDaemonIds \in Nat
      BY IdsAreNumbers
    <2> HIDE DEF Ids
    <2> QED BY ONLY <2>1, <2>2, FS_BoundedSetOfNaturals, Zenon
  <1>2. CASE id \in map
    BY <1>2, Zenon DEF Insert
  <1>3. CASE id \notin map
    <2>1. IsFiniteSet(map) /\ IsFiniteSet(map \cup {id})
      BY <1>1, FS_Subset, Zenon
    <2>2. Cardinality(map \cup {id}) = Cardinality(map) + 1
      BY <2>1, <1>3, FS_AddElement, Zenon
    <2>3. Cardinality(map \cup {id}) <= Cardinality(Ids)
      BY <1>1, FS_Subset, Zenon
    <2>4. Cardinality(map) \in Nat /\ Cardinality(Ids) \in Nat /\ MaxCohorts \in Nat
      BY <1>1, <2>1, FS_CardinalityType, BoundsAssumption, Zenon
    <2> QED BY <2>2, <2>3, <2>4 DEF Room, HasRoom, Insert
  <1> QED BY <1>2, <1>3, Zenon


\* A handler's step, of whatever kind, leaves the deletions in progress alone;
\* a step that writes neither map and starts or ends no insertion keeps the rest.
LEMMA NoPolicyWrite ==
    ASSUME PolicyInv,
           UNCHANGED <<policy, counters, retired, daemonVars>>,
           \A q \in Pids : /\ pc'[q] = "init_counters" <=> pc[q] = "init_counters"
                           /\ pc[q] = "init_counters" => reg'[q] = reg[q]
    PROVE  PolicyInv'
  <1>1. UNCHANGED <<dpc, plan, victim, dead>>
    BY Zenon DEF daemonVars, loopVars
  <1>2. CountersHavePolicy' /\ NoPolicyLeak'
    BY <1>1 DEF PolicyInv, CountersHavePolicy, NoPolicyLeak
  <1> QED BY <1>1, <1>2, Zenon DEF PolicyInv

\* Every step of a BPF handler keeps policies and counters in step.
LEMMA TaskStepPolicies ==
    ASSUME Room, TypeInv, IdInv, PolicyInv, NEW p \in Pids, TaskStep(p)
    PROVE  PolicyInv'
  <1>a. /\ policy \in SUBSET Ids /\ counters \in SUBSET Ids
        /\ pc[p] \in InitPcs => reg[p] \in Ids
    BY IdFacts, Zenon DEF TypeInv, TypeOK, MapsTypeOK, TasksTypeOK, HandlerHasId
  <1>t. /\ TasksTypeOK /\ task_ctxs \in [Pids -> OptId]
        /\ pc \in [Pids -> {"none", "live"} \cup InitPcs \cup ExitPcs]
        /\ reg \in [Pids -> OptId] /\ tgid \in [Pids -> Pids]
    BY Zenon DEF TypeInv, TypeOK, MapsTypeOK, TasksTypeOK
  <1>1. ASSUME NEW g \in Pids, NEW parent \in Pids, NEW inherited \in OptId,
               InitTask(p, g, parent, inherited)
        PROVE  PolicyInv'
    <2>1. pc[p] = "none"
      BY ONLY <1>1, Zenon DEF InitTask, PidFree
    <2>2. \E id, next : /\ pc' = [pc EXCEPT ![p] = next]
                        /\ reg' = [reg EXCEPT ![p] = id]
                        /\ next # "init_counters"
      BY ONLY <1>1, Zenon DEF InitTask, InitTaskAs, NewCohort
    <2>3. \A q \in Pids : /\ pc'[q] = "init_counters" <=> pc[q] = "init_counters"
                          /\ pc[q] = "init_counters" => reg'[q] = reg[q]
      BY ONLY <1>t, <2>1, <2>2, p \in Pids
    <2>4. UNCHANGED <<policy, counters, retired, daemonVars>>
      BY ONLY <1>1, Zenon DEF InitTask
    <2> QED BY ONLY <2>3, <2>4, PolicyInv, NoPolicyWrite, Zenon
  <1>2. CASE AttachTask(p)
    BY ONLY <1>t, <1>2, <1>1, p \in Pids, IdFacts, Zenon DEF AttachTask, Live
  <1>3. CASE ForkNoCtx(p)
    BY ONLY <1>3, <1>1, p \in Pids, IdFacts, Zenon DEF ForkNoCtx
  <1>4. CASE \E q \in Pids : Fork(p, q)
    BY ONLY <1>t, <1>4, <1>1, p \in Pids, Zenon DEF Fork
  <1>5. CASE InitPolicy(p)
    <2>1. /\ policy' = policy \cup {reg[p]}
          /\ pc[p] = "init_policy" /\ pc' = [pc EXCEPT ![p] = "init_counters"]
          /\ UNCHANGED <<counters, retired, reg, dpc, plan, victim, dead>>
      <3>1. pc[p] = "init_policy" /\ policy' = Insert(policy, reg[p])
        BY ONLY <1>5, Zenon DEF InitPolicy
      <3>2. Insert(policy, reg[p]) = policy \cup {reg[p]}
        BY ONLY <1>a, <3>1, Room, RoomToInsert, Zenon DEF InitPcs
      <3> QED BY ONLY <1>5, <3>1, <3>2, Zenon DEF InitPolicy, daemonVars, loopVars
    <2>2. CountersHavePolicy'
      BY ONLY <2>1, PolicyInv, Zenon DEF PolicyInv, CountersHavePolicy
    <2>3. NoPolicyLeak'
      BY ONLY <1>t, <2>1, PolicyInv, Zenon DEF PolicyInv, NoPolicyLeak
    <2>4. \A q \in Pids : pc'[q] = "init_counters" => reg'[q] \in policy'
      BY <1>t, <2>1, Zenon DEF PolicyInv
    <2> QED BY ONLY <2>1, <2>2, <2>3, <2>4, PolicyInv, Zenon DEF PolicyInv
  <1>6. CASE InitCounters(p)
    <2>1. /\ counters' = counters \cup {reg[p]}
          /\ pc[p] = "init_counters" /\ pc' = [pc EXCEPT ![p] = "init_map"]
          /\ UNCHANGED <<policy, retired, reg, dpc, plan, victim, dead>>
      <3>1. pc[p] = "init_counters" /\ counters' = Insert(counters, reg[p])
        BY ONLY <1>6, Zenon DEF InitCounters
      <3>2. Insert(counters, reg[p]) = counters \cup {reg[p]}
        BY ONLY <1>a, <3>1, Room, RoomToInsert, Zenon DEF InitPcs
      <3> QED BY ONLY <1>6, <3>1, <3>2, Zenon DEF InitCounters, daemonVars, loopVars
    <2>2. CountersHavePolicy'
      BY ONLY <2>1, PolicyInv, Zenon DEF PolicyInv, CountersHavePolicy
    <2>3. NoPolicyLeak'
      BY ONLY <1>t, <2>1, PolicyInv, Zenon DEF PolicyInv, NoPolicyLeak
    <2>4. \A q \in Pids : pc'[q] = "init_counters" => reg'[q] \in policy'
      BY ONLY <1>t, <2>1, PolicyInv, Zenon DEF PolicyInv
    <2> QED BY ONLY <2>1, <2>2, <2>3, <2>4, PolicyInv, Zenon DEF PolicyInv
  <1>7. CASE Quiet
    <2>1. /\ UNCHANGED <<policy, counters, retired, daemonVars>>
          /\ \A q \in Pids : /\ pc'[q] = "init_counters" <=> pc[q] = "init_counters"
                             /\ pc[q] = "init_counters" => reg'[q] = reg[q]
      BY ONLY <1>7, Zenon DEF Quiet, Creating
    <2> QED BY ONLY <2>1, PolicyInv, NoPolicyWrite, Zenon
  <1> QED
    BY ONLY <1>t, <1>2, <1>3, <1>4, <1>5, <1>6, <1>7, QuietHandlers, p \in Pids,
            TaskStep(p), Zenon DEF TaskStep

\* Every step of the daemon keeps policies and counters in step.
LEMMA DaemonStepPolicies ==
    ASSUME Room, TypeInv, IdInv, PolicyInv, DaemonStep
    PROVE  PolicyInv'
  <1>a. UNCHANGED <<pc, reg>>
    BY DaemonLeavesHandlers, Zenon
  <1>b. /\ policy \in SUBSET Ids /\ counters \in SUBSET Ids
        /\ dpc \in {"split_policy", "split_counters"} => plan.into \in Ids
        /\ NoCohort \notin policy
    BY IdFacts, Zenon DEF TypeInv, TypeOK, MapsTypeOK, TickTypeOK, PlanInProgress
  <1>1. CASE (\E id \in Ids : GcCounters(id)) \/ MergeCounters
    <2>1. PICK id \in counters :
            /\ counters' = counters \ {id} /\ retired' = retired \cup {id}
            /\ victim' = id /\ victim = NoCohort
            /\ UNCHANGED <<policy, plan>>
            /\ \/ dpc = "gc_counters" /\ dpc' = "gc_policy" /\ dead' = dead \ {id}
               \/ dpc = "merge_tgids" /\ dpc' = "merge_policy"
      <3>1. /\ dpc \in {"gc_counters", "gc_policy"} => dead \subseteq counters
            /\ dpc = "merge_tgids" => plan.from \in counters
            /\ dpc \notin {"gc_policy", "merge_policy"} => victim = NoCohort
        BY Zenon DEF PolicyInv
      <3>2. CASE \E id \in Ids : GcCounters(id)
        <4>1. PICK id \in Ids : GcCounters(id)
          BY <3>2, Zenon
        <4>2. /\ dpc = "gc_counters" /\ dpc' = "gc_policy" /\ dead' = dead \ {id}
              /\ id \in dead /\ counters' = counters \ {id} /\ victim' = id
              /\ retired' = retired \cup ({id} \cap counters)
              /\ UNCHANGED <<policy, plan>>
          BY ONLY <4>1, Zenon DEF GcCounters, DeleteCounters
        <4>3. id \in counters /\ victim = NoCohort /\ {id} \cap counters = {id}
          BY ONLY <3>1, <4>2, Zenon
        <4> QED BY ONLY <4>2, <4>3, Zenon
      <3>3. CASE MergeCounters
        <4>1. /\ dpc = "merge_tgids" /\ dpc' = "merge_policy"
              /\ counters' = counters \ {plan.from} /\ victim' = plan.from
              /\ retired' = retired \cup ({plan.from} \cap counters)
              /\ UNCHANGED <<policy, plan>>
          BY ONLY <3>3, Zenon DEF MergeCounters, DeleteCounters
        <4>2. /\ plan.from \in counters /\ victim = NoCohort
              /\ {plan.from} \cap counters = {plan.from}
          BY ONLY <3>1, <4>1, Zenon
        <4> QED BY ONLY <4>1, <4>2, Zenon
      <3> QED BY ONLY <1>1, <3>2, <3>3, Zenon
    <2>2. CountersHavePolicy'
      BY ONLY <2>1, PolicyInv, Zenon DEF PolicyInv, CountersHavePolicy
    <2>3. NoPolicyLeak'
      BY ONLY <1>a, <1>b, <2>1, PolicyInv, Zenon DEF PolicyInv, NoPolicyLeak
    <2> QED BY ONLY <1>a, <2>1, <2>2, <2>3, PolicyInv, Zenon DEF PolicyInv
  <1>2. CASE GcPolicy \/ MergePolicy
    <2>1. /\ policy' = policy \ {victim} /\ victim' = NoCohort /\ victim \in retired
          /\ UNCHANGED <<counters, retired, dead>>
          /\ \/ dpc = "gc_policy" /\ dpc' = "gc_counters"
             \/ dpc = "merge_policy" /\ dpc' = "merges"
      <3>1. dpc \in {"gc_policy", "merge_policy"} => victim \in retired
        BY Zenon DEF PolicyInv
      <3> QED BY ONLY <1>2, <3>1, Zenon DEF GcPolicy, MergePolicy
    <2>2. CountersHavePolicy'
      BY ONLY <2>1, IdInv, PolicyInv, Zenon
         DEF PolicyInv, CountersHavePolicy, IdInv, NoIdReuse
    <2>3. NoPolicyLeak'
      BY ONLY <1>a, <2>1, PolicyInv, Zenon DEF PolicyInv, NoPolicyLeak
    <2>4. \A p \in Pids : pc'[p] = "init_counters" => reg'[p] \in policy'
      BY ONLY <1>a, <2>1, IdInv, PolicyInv, Zenon DEF PolicyInv, IdInv, Creating
    <2> QED BY ONLY <2>1, <2>2, <2>3, <2>4, PolicyInv, Zenon DEF PolicyInv
  <1>3. CASE SplitPolicy
    <2>1. /\ policy' = policy \cup {plan.into} /\ dpc = "split_policy"
          /\ UNCHANGED <<counters, retired, plan, victim, dead>>
          /\ dpc' = IF HasRoom(policy) THEN "split_counters" ELSE "failed"
          /\ plan.into \notin policy => HasRoom(policy)
      <3>1. /\ policy' = Insert(policy, plan.into) /\ dpc = "split_policy"
            /\ UNCHANGED <<counters, retired, plan, victim, dead>>
            /\ dpc' = IF HasRoom(policy) THEN "split_counters" ELSE "failed"
        BY ONLY <1>3, Zenon DEF SplitPolicy, SplitInsert, loopVars
      <3> QED BY ONLY <1>b, <3>1, Room, RoomToInsert, Zenon
    <2>2. CountersHavePolicy'
      BY ONLY <2>1, PolicyInv, Zenon DEF PolicyInv, CountersHavePolicy
    <2>3. NoPolicyLeak'
      <3>1. CASE plan.into \in policy
        BY ONLY <1>a, <2>1, <3>1, PolicyInv, Zenon DEF PolicyInv, NoPolicyLeak
      <3>2. CASE plan.into \notin policy
        BY ONLY <1>a, <2>1, <3>2, PolicyInv, Zenon DEF PolicyInv, NoPolicyLeak
      <3> QED BY <3>1, <3>2, Zenon
    <2> QED BY ONLY <1>a, <2>1, <2>2, <2>3, PolicyInv, Zenon DEF PolicyInv
  <1>4. CASE SplitCounters
    <2>1. /\ counters' = counters \cup {plan.into} /\ dpc = "split_counters"
          /\ UNCHANGED <<policy, retired, plan, victim, dead>>
          /\ dpc' \in {"split_tgids", "failed"}
      <3>1. /\ counters' = Insert(counters, plan.into) /\ dpc = "split_counters"
            /\ UNCHANGED <<policy, retired, plan, victim, dead>>
            /\ dpc' \in {"split_tgids", "failed"}
        BY ONLY <1>4, Zenon DEF SplitCounters, SplitInsert, loopVars
      <3> QED BY ONLY <1>b, <3>1, Room, RoomToInsert, Zenon
    <2>2. CountersHavePolicy'
      BY ONLY <2>1, PolicyInv, Zenon DEF PolicyInv, CountersHavePolicy
    <2>3. NoPolicyLeak'
      BY ONLY <1>a, <2>1, PolicyInv, Zenon DEF PolicyInv, NoPolicyLeak
    <2> QED BY ONLY <1>a, <2>1, <2>2, <2>3, PolicyInv, Zenon DEF PolicyInv
  <1>5. CASE SnapshotCohorts
    <2>1. /\ UNCHANGED <<policy, counters, retired, plan, victim>>
          /\ dpc = "cohorts" /\ dpc' = "gc_counters" /\ dead' \subseteq counters
      BY ONLY <1>5, Zenon DEF SnapshotCohorts, bpfVars
    <2>2. CountersHavePolicy' /\ NoPolicyLeak'
      BY ONLY <1>a, <2>1, PolicyInv, Zenon DEF PolicyInv, CountersHavePolicy, NoPolicyLeak
    <2> QED BY ONLY <1>a, <2>1, <2>2, PolicyInv, Zenon DEF PolicyInv
  <1>6. CASE \E into, from \in Ids : PlanMerge(into, from)
    <2>1. /\ UNCHANGED <<policy, counters, retired, victim>>
          /\ dpc = "merges" /\ dpc' = "merge_tgids" /\ plan'.from \in counters
      BY ONLY <1>6 DEF PlanMerge, bpfVars
    <2>2. CountersHavePolicy' /\ NoPolicyLeak'
      BY ONLY <1>a, <2>1, PolicyInv, Zenon DEF PolicyInv, CountersHavePolicy, NoPolicyLeak
    <2> QED BY ONLY <1>a, <2>1, <2>2, PolicyInv, Zenon DEF PolicyInv
  <1>7. CASE (\E g \in Pids : GcTgid(g)) \/ (\E g \in Pids : MergeTgid(g))
              \/ (\E g \in Pids : SplitTgid(g))
    <2>1. UNCHANGED <<policy, counters, retired, victim, dpc, plan, dead>>
      BY ONLY <1>7, Zenon DEF GcTgid, MergeTgid, SplitTgid
    <2>2. CountersHavePolicy' /\ NoPolicyLeak'
      BY ONLY <1>a, <2>1, PolicyInv, Zenon DEF PolicyInv, CountersHavePolicy, NoPolicyLeak
    <2> QED BY ONLY <1>a, <2>1, <2>2, PolicyInv, Zenon DEF PolicyInv
  <1>8. CASE \/ Attach \/ SnapshotTasks \/ SnapshotTgidCohort
             \/ GcTgidMap \/ ApplySpills \/ SplitDone \/ TickEnd
             \/ \E c \in Ids, off \in SUBSET Pids : PlanSplit(c, off)
    <2>1. /\ UNCHANGED <<policy, counters, retired, victim>>
          /\ dpc \notin {"split_counters", "gc_policy", "merge_policy"}
          /\ dpc' \notin {"split_counters", "gc_counters", "gc_policy",
                          "merge_tgids", "merge_policy"}
      <3>1. CASE Attach
        BY ONLY <3>1, Zenon DEF Attach, bpfVars, loopVars
      <3>2. CASE SnapshotTasks
        BY ONLY <3>2, Zenon DEF SnapshotTasks, bpfVars, loopVars
      <3>3. CASE SnapshotTgidCohort
        BY ONLY <3>3, Zenon DEF SnapshotTgidCohort, bpfVars, loopVars
      <3>4. CASE GcTgidMap
        BY ONLY <3>4, Zenon DEF GcTgidMap, bpfVars, loopVars
      <3>5. CASE ApplySpills
        BY ONLY <3>5, Zenon DEF ApplySpills, bpfVars, loopVars
      <3>6. CASE SplitDone
        BY ONLY <3>6, Zenon DEF SplitDone, bpfVars, loopVars
      <3>7. CASE TickEnd
        BY ONLY <3>7, Zenon DEF TickEnd, bpfVars, loopVars
      <3>8. CASE \E c \in Ids, off \in SUBSET Pids : PlanSplit(c, off)
        BY ONLY <3>8, Zenon DEF PlanSplit, bpfVars, loopVars
      <3> QED
        BY ONLY <1>8, <3>1, <3>2, <3>3, <3>4, <3>5, <3>6, <3>7, <3>8, Zenon
    <2>2. CountersHavePolicy' /\ NoPolicyLeak'
      BY ONLY <1>a, <2>1, PolicyInv, Zenon DEF PolicyInv, CountersHavePolicy, NoPolicyLeak
    <2> QED BY ONLY <1>a, <2>1, <2>2, PolicyInv, Zenon DEF PolicyInv
  <1> QED
    BY ONLY DaemonStep, <1>1, <1>2, <1>3, <1>4, <1>5, <1>6, <1>7, <1>8, Zenon DEF DaemonStep

\* Spec => []PoliciesMatch when the maps hold every id:
\* at any point of any interleaving the two maps differ by the cohorts that are
\* being created or deleted at that point, and counters never come alone.
THEOREM PoliciesMatchCounters ==
    ASSUME Room
    PROVE  Spec => []PoliciesMatch
  <1> DEFINE Inv == TypeInv /\ IdInv /\ PolicyInv
  <1>1. Init => Inv
    <2> SUFFICES ASSUME Init PROVE Inv
      OBVIOUS
    <2>1. TypeInv /\ IdInv
      BY TypeInit, Zenon DEF Init, IdInv, NoIdReuse, Creating
    <2>2. PolicyInv
      BY Zenon DEF Init, PolicyInv, CountersHavePolicy, NoPolicyLeak
    <2> QED BY <2>1, <2>2, Zenon
  <1>2. Inv /\ [Next]_vars => Inv'
    <2> SUFFICES ASSUME Inv, [Next]_vars PROVE Inv'
      OBVIOUS
    <2>1. TypeInv' /\ IdInv'
      BY TypeStep, IdStep, Zenon
    <2>2. CASE UNCHANGED vars
      BY <2>1, <2>2, NoPolicyWrite, Zenon DEF vars, bpfVars, taskVars
    <2> QED BY <2>1, <2>2, TaskStepPolicies, DaemonStepPolicies, Zenon DEF Next
  <1>3. Inv => PoliciesMatch
    BY Zenon DEF PolicyInv, PoliciesMatch
  <1> HIDE DEF Inv
  <1> QED BY <1>1, <1>2, <1>3, PTL DEF Spec

-----------------------------------------------------------------------------
(* Removal.  A task that starts in a group without an entry is about to    *)
(* write one.  If it is alone in that, nobody else writes the entry        *)
(* meanwhile, so a merge that finds an entry does not race with it.        *)
Entering(p) == pc[p] \in {"init_policy", "init_counters", "init_map"}
OneStarter ==
    \A p, q \in Pids : Entering(p) /\ Entering(q) /\ tgid[p] = tgid[q] => p = q

\* Of the processes the tick saw alive: an entry in the snapshot is still there,
\* the collector visits none of them, and a merge has moved those it visited.
RemovalTickInv ==
    /\ dpc \in {"sleep", "tgids"} => \A g \in Pids : s_tgids[g] = NoCohort
    /\ dpc \in {"gc_counters", "gc_policy"} =>
          \A id \in dead : \A g \in Pids : s_tgids[g] # id
    /\ \A g \in LiveTgids : s_tgids[g] # NoCohort => tgid_cohort[g] # NoCohort
    /\ dpc = "gc_tgid" => visit \cap LiveTgids = {}
    /\ dpc \in {"merge_tgids", "split_policy", "split_counters", "split_tgids"} =>
          plan.into # NoCohort
    /\ dpc = "merge_tgids" =>
          /\ plan.into # plan.from /\ plan.from # NoCohort
          /\ \A g \in Pids : s_tgids[g] = plan.from /\ g \in LiveTgids \ visit
                                 => tgid_cohort[g] # plan.from

\* A task that is about to write its group's entry is in a group without one.
RemovalInv ==
    /\ \A p \in Pids : Entering(p) => tgid_cohort[tgid[p]] = NoCohort
    /\ RemovalTickInv

\* What RemovalLeavesNoMemberBehind says of a step.
NoneLeftBehind ==
    \A id \in counters \ counters' :
        \A g \in LiveTgids : s_tgids[g] = id => tgid_cohort'[g] # id

\* A step of a BPF handler preserves RemovalInv and removes no cohort.
LEMMA TaskStepRemoval ==
    ASSUME TypeInv, RemovalInv, OneStarter, NEW p \in Pids, TaskStep(p)
    PROVE  RemovalInv' /\ NoneLeftBehind
  <1>t. /\ pc \in [Pids -> {"none", "live"} \cup InitPcs \cup ExitPcs]
        /\ tgid \in [Pids -> Pids] /\ reg \in [Pids -> OptId]
        /\ tgid_cohort \in [Pids -> OptId]
        /\ HandlerHasId
    BY Zenon DEF TypeInv, TypeOK, TasksTypeOK, MapsTypeOK
  <1>1. /\ dpc' = dpc /\ s_tgids' = s_tgids /\ s_tasks' = s_tasks /\ dead' = dead
        /\ visit' = visit /\ plan' = plan
    BY TaskStepType, Zenon DEF TypeInv, TypeOK, daemonVars, snapVars, loopVars
  <1>l. LiveTgids' = LiveTgids /\ LiveTgids \subseteq Pids
    BY <1>1, Zenon DEF LiveTgids, TypeInv, TypeOK, TickTypeOK, TaskSnapshots
  <1>2. counters \subseteq counters'
    BY ONLY TaskStep(p), ZenonT(60)
       DEF TaskStep, AttachTask, ForkNoCtx, Fork, InitTask, InitPolicy, Insert,
           InitCounters, InitMap, InitCount, InitStat, Wake, Stopping,
           ExitResolve, ExitCount, ExitStat, ExitSpill
  <1>3. NoneLeftBehind
    BY ONLY <1>2, Zenon DEF NoneLeftBehind
  <1>4. CASE InitMap(p)
    <2>1. /\ Entering(p) /\ tgid_cohort' = [tgid_cohort EXCEPT ![tgid[p]] = reg[p]]
          /\ tgid' = tgid /\ pc' = [pc EXCEPT ![p] = "init_count"] /\ reg[p] # NoCohort
      BY ONLY <1>t, <1>4, p \in Pids, Zenon DEF InitMap, Entering, HandlerHasId, InitPcs
    <2>2. \A q \in Pids : Entering(q)' => Entering(q) /\ q # p
      BY ONLY <1>t, <2>1, Zenon DEF Entering
    <2>3. \A q \in Pids : Entering(q)' => tgid_cohort'[tgid'[q]] = NoCohort
      BY ONLY <1>t, <2>1, <2>2, RemovalInv, OneStarter, p \in Pids, Zenon DEF RemovalInv, OneStarter
    <2>4. tgid_cohort[tgid[p]] = NoCohort /\ tgid[p] \in Pids
      BY ONLY <1>t, <2>1, RemovalInv, p \in Pids, Zenon DEF RemovalInv
    <2>5. \A g \in Pids : g # tgid[p] => tgid_cohort'[g] = tgid_cohort[g]
      BY ONLY <1>t, <2>1, Zenon
    <2>6. tgid_cohort'[tgid[p]] # NoCohort
      BY ONLY <1>t, <2>1, <2>4, Zenon
    <2>8. \A g \in LiveTgids : s_tgids[g] # NoCohort => tgid_cohort'[g] # NoCohort /\ g # tgid[p]
      BY ONLY <2>4, <2>5, <1>l, RemovalInv, Zenon DEF RemovalInv, RemovalTickInv
    <2>9. dpc = "merge_tgids" =>
            \A g \in Pids : s_tgids[g] = plan.from /\ g \in LiveTgids \ visit
                               => tgid_cohort'[g] # plan.from
      BY ONLY <2>5, <2>8, RemovalInv, Zenon DEF RemovalInv, RemovalTickInv
    <2>10. RemovalTickInv'
      BY ONLY <1>1, <1>l, <2>8, <2>9, RemovalInv, Zenon DEF RemovalInv, RemovalTickInv
    <2> QED BY ONLY <1>3, <2>3, <2>10, Zenon DEF RemovalInv
  <1>5. CASE ~InitMap(p)
    <2>1. tgid_cohort' = tgid_cohort
      BY ONLY <1>5, TaskStep(p), ZenonT(60)
         DEF TaskStep, AttachTask, ForkNoCtx, Fork, InitTask, InitPolicy,
             InitCounters, InitCount, InitStat, Wake, Stopping,
             ExitResolve, ExitCount, ExitStat, ExitSpill
    <2>t. RemovalTickInv'
      BY ONLY <1>1, <1>l, <2>1, RemovalInv, Zenon DEF RemovalInv, RemovalTickInv
    <2>2. ASSUME NEW g \in Pids, NEW parent, NEW inherited, InitTask(p, g, parent, inherited)
          PROVE  \A q \in Pids : Entering(q)' => tgid_cohort[tgid'[q]] = NoCohort
      <3>1. /\ tgid' = [tgid EXCEPT ![p] = g]
            /\ \E next : pc' = [pc EXCEPT ![p] = next] /\ (next = "init_count" \/ tgid_cohort[g] = NoCohort)
        BY ONLY <2>2, Zenon DEF InitTask, InitTaskAs, NewCohort
      <3> QED BY ONLY <1>t, <3>1, RemovalInv, p \in Pids, Zenon DEF RemovalInv, Entering
    <2>3. CASE AttachTask(p) \/ ForkNoCtx(p) \/ \E q \in Pids : Fork(p, q)
      <3>1. \E g \in Pids : \E parent, inherited : InitTask(p, g, parent, inherited)
        BY ONLY <1>t, <2>3, p \in Pids, Zenon DEF AttachTask, ForkNoCtx, Fork, Live
      <3> QED BY ONLY <1>3, <2>1, <2>2, <2>t, <3>1, Zenon DEF RemovalInv
    <2>4. ASSUME ~(AttachTask(p) \/ ForkNoCtx(p) \/ \E q \in Pids : Fork(p, q))
          PROVE  \A q \in Pids : Entering(q)' => Entering(q) /\ tgid'[q] = tgid[q]
      <3>1. CASE InitPolicy(p) \/ InitCounters(p)
        BY ONLY <1>t, <3>1, p \in Pids, Zenon DEF InitPolicy, InitCounters, Entering
      <3>2. CASE InitCount(p) \/ InitStat(p)
        BY ONLY <1>t, <3>2, p \in Pids, Zenon DEF InitCount, InitStat, Entering
      <3>3. CASE Wake(p) \/ Stopping(p)
        BY ONLY <1>t, <3>3, p \in Pids, Zenon DEF Wake, Stopping, taskVars, Entering
      <3>4. CASE ExitResolve(p) \/ ExitCount(p) \/ ExitStat(p)
        BY ONLY <1>t, <3>4, p \in Pids, Zenon DEF ExitResolve, ExitCount, ExitStat, Live, Entering
      <3>5. CASE ExitSpill(p)
        BY ONLY <1>t, <3>5, p \in Pids, Zenon DEF ExitSpill, Entering
      <3> QED BY ONLY <1>5, <2>4, <3>1, <3>2, <3>3, <3>4, <3>5, TaskStep(p), Zenon DEF TaskStep
    <2>5. ASSUME ~(AttachTask(p) \/ ForkNoCtx(p) \/ \E q \in Pids : Fork(p, q))
          PROVE  RemovalInv'
      BY ONLY <2>1, <2>t, <2>4, <2>5, RemovalInv, Zenon DEF RemovalInv
    <2> QED BY ONLY <1>3, <2>3, <2>5, Zenon
  <1> QED BY ONLY <1>3, <1>4, <1>5, Zenon

\* A step of the daemon preserves RemovalInv, and when it deletes a cohort it
\* leaves no process behind.
LEMMA DaemonStepRemoval ==
    ASSUME TypeInv, RemovalInv, DaemonStep
    PROVE  RemovalInv' /\ NoneLeftBehind
  <1>t. /\ tgid_cohort \in [Pids -> OptId] /\ s_tgids \in [Pids -> OptId]
        /\ tgid \in [Pids -> Pids] /\ visit \subseteq Pids
        /\ RemovalTickInv
    BY Zenon DEF TypeInv, TypeOK, MapsTypeOK, TasksTypeOK, TickTypeOK, RemovalInv
  <1>l. LiveTgids \subseteq Pids
    BY Zenon DEF LiveTgids, TypeInv, TypeOK, TickTypeOK, TaskSnapshots
  <1> DEFINE Frees == \A g \in Pids : tgid_cohort[g] = NoCohort => tgid_cohort'[g] = NoCohort
             Fine == RemovalTickInv' /\ Frees /\ NoneLeftBehind
  <1>1. ASSUME Attach \/ SnapshotTasks PROVE Fine
    <2>1. /\ dpc = "sleep" /\ dpc' \in {"sleep", "tgids"} /\ s_tgids' = s_tgids
          /\ tgid_cohort' = tgid_cohort /\ counters' = counters
      BY ONLY <1>1, Zenon DEF Attach, SnapshotTasks, snapVars, bpfVars
    <2>2. LiveTgids' \subseteq Pids
      BY DaemonStepType, Zenon DEF LiveTgids, TypeInv, TypeOK, TickTypeOK, TaskSnapshots
    <2>3. \A g \in Pids : s_tgids'[g] = NoCohort
      BY ONLY <1>t, <1>l, <2>1, Zenon DEF RemovalTickInv
    <2>4. RemovalTickInv'
      BY ONLY <2>1, <2>2, <2>3, Zenon DEF RemovalTickInv
    <2> QED BY ONLY <2>1, <2>4, Zenon DEF NoneLeftBehind
  <1>2. ASSUME SnapshotTgidCohort PROVE Fine
    <2>1. /\ dpc' = "cohorts" /\ s_tgids' = tgid_cohort /\ s_tasks' = s_tasks
          /\ tgid_cohort' = tgid_cohort /\ counters' = counters
      BY ONLY <1>2, Zenon DEF SnapshotTgidCohort, bpfVars
    <2> QED BY ONLY <2>1, Zenon DEF RemovalTickInv, NoneLeftBehind
  <1>3. ASSUME SnapshotCohorts PROVE Fine
    <2>1. /\ dpc = "cohorts" /\ dpc' = "gc_counters" /\ s_tgids' = s_tgids /\ s_tasks' = s_tasks
          /\ tgid_cohort' = tgid_cohort /\ counters' = counters
          /\ \A id \in dead' : Members(id) = {}
      BY ONLY <1>3, Zenon DEF SnapshotCohorts, bpfVars
    <2>2. \A id \in dead' : \A g \in Pids : s_tgids[g] # id
      BY ONLY <2>1, Zenon DEF Members
    <2> QED BY ONLY <1>t, <1>l, <2>1, <2>2, Zenon DEF RemovalTickInv, NoneLeftBehind, LiveTgids
  <1>4. ASSUME NEW id \in Ids, GcCounters(id)
        PROVE  Fine
    <2>1. /\ dpc = "gc_counters" /\ dpc' = "gc_policy" /\ s_tgids' = s_tgids /\ s_tasks' = s_tasks
          /\ tgid_cohort' = tgid_cohort /\ counters' = counters \ {id}
          /\ id \in dead /\ dead' \subseteq dead
      BY ONLY <1>4, Zenon DEF GcCounters, DeleteCounters, snapVars
    <2>2. NoneLeftBehind
      BY ONLY <1>t, <1>l, <2>1, Zenon DEF RemovalTickInv, NoneLeftBehind
    <2> QED BY ONLY <1>t, <1>l, <2>1, <2>2, Zenon DEF RemovalTickInv, LiveTgids
  <1>5. ASSUME GcPolicy PROVE Fine
    <2>1. /\ dpc = "gc_policy" /\ dpc' = "gc_counters" /\ s_tgids' = s_tgids /\ s_tasks' = s_tasks
          /\ tgid_cohort' = tgid_cohort /\ counters' = counters /\ dead' = dead
      BY ONLY <1>5, Zenon DEF GcPolicy, snapVars
    <2> QED BY ONLY <1>t, <1>l, <2>1, Zenon DEF RemovalTickInv, NoneLeftBehind, LiveTgids
  <1>6. ASSUME GcTgidMap PROVE Fine
    <2>1. /\ dpc' = "gc_tgid" /\ s_tgids' = s_tgids /\ s_tasks' = s_tasks
          /\ tgid_cohort' = tgid_cohort /\ counters' = counters
          /\ visit' \cap LiveTgids = {}
      BY ONLY <1>6, Zenon DEF GcTgidMap, snapVars, bpfVars
    <2> QED BY ONLY <1>t, <1>l, <2>1, Zenon DEF RemovalTickInv, NoneLeftBehind, LiveTgids
  <1>7. ASSUME NEW h \in Pids, GcTgid(h)
        PROVE  Fine
    <2>1. /\ dpc = "gc_tgid" /\ dpc' = "gc_tgid" /\ s_tgids' = s_tgids /\ s_tasks' = s_tasks
          /\ tgid_cohort' = [tgid_cohort EXCEPT ![h] = NoCohort] /\ counters' = counters
          /\ h \in visit /\ visit' \subseteq visit
      BY ONLY <1>7, Zenon DEF GcTgid, snapVars
    <2>2. h \notin LiveTgids
      BY ONLY <1>t, <1>l, <2>1, Zenon DEF RemovalTickInv
    <2>3. \A g \in Pids : tgid_cohort'[g] = IF g = h THEN NoCohort ELSE tgid_cohort[g]
      BY ONLY <1>t, <1>l, <2>1, Zenon
    <2>4. LiveTgids' = LiveTgids
      BY ONLY <2>1, Zenon DEF LiveTgids
    <2> QED BY ONLY <1>t, <1>l, <2>1, <2>2, <2>3, <2>4, Zenon DEF RemovalTickInv, NoneLeftBehind
  <1>8. ASSUME ApplySpills \/ MergePolicy \/ SplitDone PROVE Fine
    <2>1. /\ dpc' \in {"merges", "splits"} /\ s_tgids' = s_tgids /\ s_tasks' = s_tasks
          /\ tgid_cohort' = tgid_cohort /\ counters' = counters
      BY ONLY <1>8, Zenon DEF ApplySpills, MergePolicy, SplitDone, snapVars, bpfVars
    <2> QED BY ONLY <1>t, <1>l, <2>1, Zenon DEF RemovalTickInv, NoneLeftBehind, LiveTgids
  <1>9. ASSUME NEW into \in Ids, NEW from \in Ids, PlanMerge(into, from)
        PROVE  Fine
    <2>1. /\ dpc' = "merge_tgids" /\ s_tgids' = s_tgids /\ s_tasks' = s_tasks
          /\ tgid_cohort' = tgid_cohort /\ counters' = counters
          /\ into # from /\ plan' = [into |-> into, from |-> from] /\ visit' = Members(from)
      BY ONLY <1>9, Zenon DEF PlanMerge, snapVars, bpfVars
    <2>2. plan'.into = into /\ plan'.from = from /\ into # NoCohort /\ from # NoCohort
      BY ONLY <1>9, <2>1, IdFacts
    <2>3. \A g \in Pids : s_tgids[g] = from => g \in visit'
      BY ONLY <2>1, Zenon DEF Members
    <2> QED BY ONLY <1>t, <1>l, <2>1, <2>2, <2>3, Zenon DEF RemovalTickInv, NoneLeftBehind, LiveTgids
  <1>10. ASSUME NEW h \in Pids, MergeTgid(h) \/ SplitTgid(h)
         PROVE  Fine
    <2>1. /\ dpc \in {"merge_tgids", "split_tgids"} /\ dpc' = dpc /\ plan' = plan
          /\ s_tgids' = s_tgids /\ s_tasks' = s_tasks /\ counters' = counters
          /\ visit' = visit \ {h} /\ h \in visit
          /\ tgid_cohort' = IF tgid_cohort[h] = NoCohort THEN tgid_cohort
                            ELSE [tgid_cohort EXCEPT ![h] = plan.into]
      BY ONLY <1>10, Zenon DEF MergeTgid, SplitTgid, RemapTgid, snapVars
    <2>2. \A g \in Pids : tgid_cohort'[g] = IF g = h /\ tgid_cohort[h] # NoCohort
                                            THEN plan.into ELSE tgid_cohort[g]
      BY ONLY <1>t, <1>l, <1>10, <2>1, Zenon
    <2>3. LiveTgids' = LiveTgids
      BY ONLY <2>1, Zenon DEF LiveTgids
    <2>4. plan.into # NoCohort
      BY ONLY <1>t, <1>l, <2>1, Zenon DEF RemovalTickInv
    <2>5. \A g \in LiveTgids : s_tgids[g] # NoCohort => tgid_cohort'[g] # NoCohort
      BY ONLY <1>t, <1>l, <2>2, <2>4, Zenon DEF RemovalTickInv
    <2>6. dpc = "merge_tgids" =>
            /\ plan.into # plan.from /\ plan.from # NoCohort
            /\ \A g \in Pids : s_tgids[g] = plan.from /\ g \in LiveTgids \ visit'
                                  => tgid_cohort'[g] # plan.from
      BY ONLY <1>t, <1>l, <2>1, <2>2, Zenon DEF RemovalTickInv
    <2>7. RemovalTickInv'
      BY ONLY <2>1, <2>3, <2>4, <2>5, <2>6, Zenon DEF RemovalTickInv
    <2> QED BY ONLY <2>1, <2>2, <2>7, Zenon DEF NoneLeftBehind
  <1>11. ASSUME MergeCounters PROVE Fine
    <2>1. /\ dpc = "merge_tgids" /\ dpc' = "merge_policy" /\ s_tgids' = s_tgids
          /\ s_tasks' = s_tasks /\ tgid_cohort' = tgid_cohort
          /\ counters' = counters \ {plan.from} /\ visit = {}
      BY ONLY <1>11, Zenon DEF MergeCounters, DeleteCounters, snapVars
    <2>2. NoneLeftBehind
      BY ONLY <1>t, <1>l, <2>1, Zenon DEF RemovalTickInv, NoneLeftBehind
    <2> QED BY ONLY <1>t, <1>l, <2>1, <2>2, Zenon DEF RemovalTickInv, LiveTgids
  <1>12. ASSUME NEW c \in Ids, NEW off \in SUBSET Pids, PlanSplit(c, off)
         PROVE  Fine
    <2>1. /\ dpc' = "split_policy" /\ s_tgids' = s_tgids /\ s_tasks' = s_tasks
          /\ tgid_cohort' = tgid_cohort /\ counters' = counters
      BY ONLY <1>12, Zenon DEF PlanSplit, snapVars, bpfVars
    <2>2. plan'.into # NoCohort
      BY <2>1, DaemonStepType, Zenon DEF TypeInv, PlanInProgress
    <2> QED BY ONLY <1>t, <1>l, <2>1, <2>2, Zenon DEF RemovalTickInv, NoneLeftBehind, LiveTgids
  <1>13. ASSUME SplitPolicy \/ SplitCounters PROVE Fine
    <2>1. /\ dpc \in {"split_policy", "split_counters"}
          /\ dpc' \in {"split_counters", "split_tgids", "failed"} /\ plan' = plan
          /\ s_tgids' = s_tgids /\ s_tasks' = s_tasks
          /\ tgid_cohort' = tgid_cohort /\ counters \subseteq counters'
      BY ONLY <1>13, Zenon DEF SplitPolicy, SplitCounters, SplitInsert, Insert, snapVars, loopVars
    <2> QED BY ONLY <1>t, <1>l, <2>1, Zenon DEF RemovalTickInv, NoneLeftBehind, LiveTgids
  <1>14. ASSUME TickEnd PROVE Fine
    <2>1. /\ dpc' = "sleep" /\ \A g \in Pids : s_tgids'[g] = NoCohort
          /\ s_tasks' = {} /\ tgid_cohort' = tgid_cohort /\ counters' = counters
      BY ONLY <1>14, Zenon DEF TickEnd, bpfVars
    <2> QED BY ONLY <2>1, Zenon DEF RemovalTickInv, NoneLeftBehind, LiveTgids
  <1>15. Fine
    BY ONLY DaemonStep, <1>1, <1>2, <1>3, <1>4, <1>5, <1>6, <1>7, <1>8, <1>9, <1>10,
            <1>11, <1>12, <1>13, <1>14, Zenon DEF DaemonStep
  <1>16. pc' = pc /\ tgid' = tgid
    BY DaemonLeavesHandlers, Zenon
  <1> QED BY ONLY <1>t, <1>l, <1>15, <1>16, RemovalInv, Zenon DEF RemovalInv, Entering

LEMMA RemovalStep ==
    ASSUME TypeInv, RemovalInv, OneStarter, [Next]_vars
    PROVE  RemovalInv' /\ (NoneLeftBehind \/ UNCHANGED vars)
  <1>1. CASE UNCHANGED vars
    <2>1. RemovalInv'
      BY ONLY <1>1, RemovalInv, Zenon
         DEF RemovalInv, RemovalTickInv, Entering, LiveTgids, vars, bpfVars, taskVars,
             daemonVars, snapVars, loopVars, memVars
    <2> QED BY ONLY <1>1, <2>1, Zenon
  <1> QED BY <1>1, TaskStepRemoval, DaemonStepRemoval, Zenon DEF Next

\* Spec => RemovalLeavesNoMemberBehind for the behaviours in which no two threads
\* of a process run cohort_init_task without an entry at the same time: each live
\* process of a deleted cohort was remapped before the counters went.
THEOREM RemovalRemaps ==
    Spec /\ []OneStarter => RemovalLeavesNoMemberBehind
  <1>1. Init => TypeInv /\ RemovalInv
    <2>1. ASSUME Init PROVE RemovalInv
      BY ONLY <2>1, Zenon DEF Init, RemovalInv, RemovalTickInv, Entering, LiveTgids
    <2> QED BY <2>1, TypeInit, Zenon
  <1>2. TypeInv /\ RemovalInv /\ OneStarter /\ [Next]_vars
            => (TypeInv /\ RemovalInv)' /\ [NoneLeftBehind]_vars
    BY TypeStep, RemovalStep, Zenon
  <1>3. RemovalLeavesNoMemberBehind <=> [][NoneLeftBehind]_vars
    BY Zenon DEF RemovalLeavesNoMemberBehind, NoneLeftBehind
  <1> QED BY <1>1, <1>2, <1>3, PTL DEF Spec

-----------------------------------------------------------------------------
(* Cohorts the daemon created.  An id of the daemon's reaches tgid_cohort  *)
(* from a plan, and from there the handlers' registers and the tasks'      *)
(* contexts, which write it back for a child: it must have been created by *)
(* the time the plan's tgids are remapped.                                 *)
Known(x) == x \in DaemonIds => x \in counters \cup retired

CreatedInv ==
    /\ \A g \in Pids : Known(tgid_cohort[g])
    /\ \A p \in Pids : Known(reg[p]) /\ Known(task_ctxs[p])
    /\ dpc \in {"merge_tgids", "split_tgids"} => Known(plan.into)

\* At most one entry changes, and to an id that is known.
KnownUpdate(f, g) == g = f \/ \E k, x : Known(x) /\ g = [f EXCEPT ![k] = x]

\* The absent id and the BPF side's ids are not the daemon's.
LEMMA OthersKnown ==
    /\ Known(NoCohort)
    /\ \A n \in 0 .. MaxBpfIds : n < MaxBpfIds => Known(n + 1)
  BY BoundsAssumption, IdSpaceAssumption DEF Known, DaemonIds, NoCohort

\* A step that forgets no cohort and spreads only known ids preserves CreatedInv.
LEMMA Spreads ==
    ASSUME TypeInv, CreatedInv,
           counters \cup retired \subseteq counters' \cup retired',
           KnownUpdate(tgid_cohort, tgid_cohort'), KnownUpdate(reg, reg'),
           KnownUpdate(task_ctxs, task_ctxs'),
           dpc' \in {"merge_tgids", "split_tgids"} => Known(plan.into)' \/ (plan' = plan /\ dpc' = dpc)
    PROVE  CreatedInv'
  <1>1. \A x : Known(x) => Known(x)'
    BY ONLY counters \cup retired \subseteq counters' \cup retired', Zenon DEF Known
  <1>2. /\ tgid_cohort \in [Pids -> OptId] /\ reg \in [Pids -> OptId]
        /\ task_ctxs \in [Pids -> OptId]
    BY Zenon DEF TypeInv, TypeOK, MapsTypeOK, TasksTypeOK
  <1>3. ASSUME NEW f, NEW g, f \in [Pids -> OptId], KnownUpdate(f, g), \A k \in Pids : Known(f[k])
        PROVE  \A k \in Pids : Known(g[k])
    BY ONLY <1>3, Zenon DEF KnownUpdate
  <1>4. /\ \A k \in Pids : Known(tgid_cohort'[k]) /\ Known(reg'[k]) /\ Known(task_ctxs'[k])
    BY <1>2, <1>3, Zenon DEF CreatedInv
  <1>5. (dpc \in {"merge_tgids", "split_tgids"} => Known(plan.into))'
    <2>1. plan' = plan /\ dpc' = dpc /\ dpc \in {"merge_tgids", "split_tgids"} => Known(plan.into)'
      BY ONLY <1>1, CreatedInv, SMTT(30) DEF CreatedInv, Known
    <2> QED BY ONLY <2>1, dpc' \in {"merge_tgids", "split_tgids"} => Known(plan.into)' \/ (plan' = plan /\ dpc' = dpc),
                    Zenon
  <1>6. /\ \A k \in Pids : Known(tgid_cohort[k])'
        /\ \A k \in Pids : Known(reg[k])' /\ Known(task_ctxs[k])'
    BY ONLY <1>1, <1>4, counters \cup retired \subseteq counters' \cup retired', SMTT(30) DEF Known
  <1> QED BY ONLY <1>5, <1>6, Zenon DEF CreatedInv

\* What a handler writes it has looked up, inherited, resolved or allocated.
LEMMA TaskStepCreated ==
    ASSUME TypeInv, CreatedInv, NEW p \in Pids, TaskStep(p)
    PROVE  CreatedInv'
  <1> DEFINE Goal == /\ counters \cup retired \subseteq counters' \cup retired'
                     /\ KnownUpdate(tgid_cohort, tgid_cohort') /\ KnownUpdate(reg, reg')
                     /\ KnownUpdate(task_ctxs, task_ctxs')
  <1>t. /\ tgid \in [Pids -> Pids] /\ cohort_seq \in 0 .. MaxBpfIds
    BY Zenon DEF TypeInv, TypeOK, MapsTypeOK, TasksTypeOK
  <1>k. /\ Known(NoCohort) /\ Known(reg[p]) /\ Known(task_ctxs[p])
        /\ \A g \in Pids : Known(tgid_cohort[g])
    BY OthersKnown, Zenon DEF CreatedInv
  <1>r. Known(Resolve(p))
    BY ONLY <1>t, <1>k, p \in Pids, Zenon DEF Resolve
  <1>1. ASSUME NEW g \in Pids, NEW parent, NEW inherited, Known(inherited),
               InitTask(p, g, parent, inherited)
        PROVE  Goal
    <2>1. \E x, next : Known(x) /\ InitTaskAs(p, g, x, next)
      <3>1. CASE NewCohort(p, g)
        <4>1. cohort_seq < MaxBpfIds /\ InitTaskAs(p, g, cohort_seq + 1, "init_policy")
          BY ONLY <3>1, Zenon DEF NewCohort
        <4>2. Known(cohort_seq + 1)
          BY ONLY <1>t, <4>1, OthersKnown, Zenon
        <4> QED BY ONLY <4>1, <4>2, Zenon
      <3>2. CASE InitTaskAs(p, g, tgid_cohort[g], "init_count")
        BY ONLY <1>k, <3>2, g \in Pids, Zenon
      <3>3. CASE InitTaskAs(p, g, inherited, "init_map")
        BY ONLY <1>1, <3>3, Zenon
      <3> QED BY ONLY <1>1, <3>1, <3>2, <3>3, Zenon DEF InitTask
    <2>2. UNCHANGED <<tgid_cohort, counters, retired>>
      BY ONLY <1>1, Zenon DEF InitTask
    <2> QED BY ONLY <1>k, <2>1, <2>2, Zenon DEF InitTaskAs, KnownUpdate
  <1>2. ASSUME AttachTask(p)
        PROVE  Goal
    <2>1. \E g \in Pids : InitTask(p, g, p, NoCohort)
      BY ONLY <1>t, <1>2, p \in Pids, Zenon DEF AttachTask, Live
    <2> QED BY ONLY <1>k, <1>1, <2>1, Zenon
  <1>3. ASSUME ForkNoCtx(p)
        PROVE  Goal
    BY ONLY <1>k, <1>1, <1>3, p \in Pids, Zenon DEF ForkNoCtx
  <1>4. ASSUME \E q \in Pids : Fork(p, q)
        PROVE  Goal
    <2>1. \E q \in Pids : \E g \in Pids : InitTask(p, g, q, task_ctxs[q])
      BY ONLY <1>t, <1>4, p \in Pids, Zenon DEF Fork
    <2>2. \A q \in Pids : Known(task_ctxs[q])
      BY ONLY CreatedInv, Zenon DEF CreatedInv
    <2> QED BY ONLY <1>1, <2>1, <2>2, Zenon
  <1>5. ASSUME InitPolicy(p) \/ InitCounters(p)
        PROVE  Goal
    BY ONLY <1>5, Zenon DEF InitPolicy, InitCounters, Insert, KnownUpdate
  <1>6. ASSUME InitMap(p)
        PROVE  Goal
    BY ONLY <1>k, <1>6, Zenon DEF InitMap, KnownUpdate
  <1>7. ASSUME InitCount(p) \/ InitStat(p)
        PROVE  Goal
    BY ONLY <1>k, <1>7, Zenon DEF InitCount, InitStat, KnownUpdate
  <1>8. ASSUME Wake(p) \/ Stopping(p)
        PROVE  Goal
    BY ONLY <1>r, <1>8, Zenon DEF Wake, Stopping, taskVars, KnownUpdate
  <1>9. ASSUME ExitResolve(p) \/ ExitCount(p)
        PROVE  Goal
    BY ONLY <1>r, <1>9, Zenon DEF ExitResolve, ExitCount, KnownUpdate
  <1>10. ASSUME ExitStat(p) \/ ExitSpill(p)
         PROVE  Goal
    BY ONLY <1>k, <1>10, Zenon DEF ExitStat, ExitSpill, KnownUpdate
  <1>11. Goal
    BY ONLY <1>2, <1>3, <1>4, <1>5, <1>6, <1>7, <1>8, <1>9, <1>10, TaskStep(p), Zenon DEF TaskStep
  <1>12. UNCHANGED <<dpc, plan>>
    BY TaskStepType, Zenon DEF TypeInv, TypeOK, daemonVars, loopVars
  <1> QED BY <1>11, <1>12, Spreads, Zenon

\* The daemon remaps to a cohort it found in counters, or has just inserted.
LEMMA DaemonStepCreated ==
    ASSUME TypeInv, CreatedInv, DaemonStep
    PROVE  CreatedInv'
  <1> DEFINE Maps == KnownUpdate(tgid_cohort, tgid_cohort') /\ KnownUpdate(task_ctxs, task_ctxs')
             Kept == counters \cup retired \subseteq counters' \cup retired'
             Target == dpc' \in {"merge_tgids", "split_tgids"} =>
                           Known(plan.into)' \/ (plan' = plan /\ dpc' = dpc)
             Goal == Maps /\ Kept /\ Target
  <1>k. Known(NoCohort) /\ counters \subseteq Ids
    BY OthersKnown, Zenon DEF TypeInv, TypeOK, MapsTypeOK
  <1>1. ASSUME Attach \/ SnapshotTasks \/ SnapshotTgidCohort \/ SnapshotCohorts
        PROVE  Goal
    <2>1. UNCHANGED bpfVars /\ retired' = retired /\ dpc' \in {dpc, "tgids", "cohorts", "gc_counters"}
          /\ plan' = plan
      BY ONLY <1>1, Zenon DEF Attach, SnapshotTasks, SnapshotTgidCohort, SnapshotCohorts, loopVars
    <2> QED BY ONLY <2>1 DEF bpfVars, KnownUpdate
  <1>2. ASSUME (\E id \in Ids : GcCounters(id)) \/ MergeCounters
        PROVE  Goal
    <2>1. /\ UNCHANGED <<tgid_cohort, task_ctxs>>
          /\ \E id : DeleteCounters(id)
          /\ dpc' \in {"gc_policy", "merge_policy"}
      BY ONLY <1>2, Zenon DEF GcCounters, MergeCounters
    <2>2. Kept
      BY ONLY <2>1, Zenon DEF DeleteCounters
    <2> QED BY ONLY <2>1, <2>2 DEF KnownUpdate
  <1>3. ASSUME GcPolicy \/ GcTgidMap \/ ApplySpills \/ MergePolicy
        PROVE  Goal
    <2>1. /\ UNCHANGED <<tgid_cohort, task_ctxs, counters, retired>>
          /\ dpc' \in {"gc_counters", "gc_tgid", "merges"}
      BY ONLY <1>3, Zenon DEF GcPolicy, GcTgidMap, ApplySpills, MergePolicy, bpfVars
    <2> QED BY ONLY <2>1 DEF KnownUpdate
  <1>4. ASSUME \E g \in Pids : GcTgid(g)
        PROVE  Goal
    BY ONLY <1>k, <1>4, Zenon DEF GcTgid, KnownUpdate
  <1>5. ASSUME \E into, from \in Ids : PlanMerge(into, from)
        PROVE  Goal
    <2>1. PICK into, from \in Ids :
              /\ into \in counters /\ plan' = [into |-> into, from |-> from]
              /\ UNCHANGED bpfVars /\ retired' = retired
      BY ONLY <1>5, Zenon DEF PlanMerge
    <2>2. plan'.into \in counters' \cup retired'
      BY ONLY <2>1, Zenon DEF bpfVars
    <2>3. Known(plan.into)'
      BY ONLY <2>2, Zenon DEF Known
    <2> QED BY ONLY <2>1, <2>3, Zenon DEF bpfVars, KnownUpdate
  <1>6. ASSUME \E g \in Pids : MergeTgid(g) \/ SplitTgid(g)
        PROVE  Goal
    <2>1. PICK g \in Pids : /\ dpc \in {"merge_tgids", "split_tgids"} /\ RemapTgid(g)
                            /\ UNCHANGED <<task_ctxs, counters, retired, dpc, plan>>
      BY ONLY <1>6, Zenon DEF MergeTgid, SplitTgid
    <2>2. Known(plan.into)
      BY ONLY <2>1, CreatedInv, Zenon DEF CreatedInv
    <2> QED BY ONLY <2>1, <2>2, Zenon DEF RemapTgid, KnownUpdate
  <1>7. ASSUME (\E c \in Ids, off \in SUBSET Pids : PlanSplit(c, off)) \/ SplitPolicy
               \/ SplitDone \/ TickEnd
        PROVE  Goal
    <2>1. /\ UNCHANGED <<tgid_cohort, task_ctxs, counters, retired>>
          /\ dpc' \in {"split_policy", "split_counters", "failed", "splits", "sleep"}
      BY ONLY <1>7, Zenon DEF PlanSplit, SplitPolicy, SplitInsert, SplitDone, TickEnd, bpfVars
    <2> QED BY ONLY <2>1 DEF KnownUpdate
  <1>8. ASSUME SplitCounters
        PROVE  Goal
    <2>1. /\ UNCHANGED <<tgid_cohort, task_ctxs, retired, plan>>
          /\ counters' = Insert(counters, plan.into)
          /\ dpc' = IF HasRoom(counters) THEN "split_tgids" ELSE "failed"
      BY ONLY <1>8, Zenon DEF SplitCounters, SplitInsert, loopVars
    <2>2. CASE HasRoom(counters)
      <3>1. counters' = counters \cup {plan.into} /\ plan' = plan
        BY ONLY <2>1, <2>2, Zenon DEF Insert
      <3>2. Known(plan.into)'
        BY ONLY <3>1, Zenon DEF Known
      <3> QED BY ONLY <2>1, <3>1, <3>2, Zenon DEF KnownUpdate
    <2>3. CASE ~HasRoom(counters)
      BY ONLY <2>1, <2>3 DEF Insert, KnownUpdate
    <2> QED BY ONLY <2>2, <2>3, Zenon
  <1>9. Goal
    BY ONLY <1>1, <1>2, <1>3, <1>4, <1>5, <1>6, <1>7, <1>8, DaemonStep, Zenon DEF DaemonStep
  <1>10. KnownUpdate(reg, reg')
    BY DaemonLeavesHandlers, Zenon DEF KnownUpdate
  <1> QED BY <1>9, <1>10, Spreads, Zenon

\* Spec => []SplitTargetsExist, in maps of any size: whatever apply_split is
\* refused and whatever is forked, merged or collected meanwhile, no process is
\* sent to a cohort that was never created.
THEOREM SplitsCreateFirst == Spec => []SplitTargetsExist
  <1>1. Init => TypeInv /\ CreatedInv
    <2>1. ASSUME Init PROVE CreatedInv
      BY ONLY <2>1, OthersKnown, Zenon DEF Init, CreatedInv
    <2> QED BY <2>1, TypeInit, Zenon
  <1>2. TypeInv /\ CreatedInv /\ [Next]_vars => (TypeInv /\ CreatedInv)'
    <2>1. ASSUME CreatedInv, UNCHANGED vars PROVE CreatedInv'
      BY ONLY <2>1, Zenon
         DEF CreatedInv, Known, vars, bpfVars, taskVars, daemonVars, loopVars
    <2> QED BY <2>1, TypeStep, TaskStepCreated, DaemonStepCreated, Zenon DEF Next
  <1>3. CreatedInv => SplitTargetsExist
    BY Zenon DEF CreatedInv, Known, SplitTargetsExist
  <1> QED BY <1>1, <1>2, <1>3, PTL DEF Spec

=============================================================================
