----------------------- MODULE CohortMapsMemberProofs -----------------------
(***************************************************************************)
(* Who belongs to a cohort, when the maps have room for every id and the   *)
(* daemon only collects: it never takes a cohort that is in use, the maps  *)
(* implement Membership, and nr_tasks counts the members.                  *)
(***************************************************************************)
EXTENDS CohortMapsProofs, TLAPS

-----------------------------------------------------------------------------
(* Members.  Without merges and splits a thread group has one cohort for   *)
(* all its life, wherever the id is held: in tgid_cohort, in the contexts  *)
(* of its tasks, or in the local variable of an init_task on its way.      *)
NoPlans == MaxMerges = 0 /\ MaxDaemonIds = 0

\* The task has chosen its cohort; and the cohort has been created.
Placed(p) == pc[p] \in InitPcs \cup {"live"}
Starting(p) == pc[p] \in {"init_map", "init_count", "init_stat"}
Assigned(p) == Starting(p) \/ pc[p] = "live"
IdOf(p) == IF pc[p] = "live" THEN task_ctxs[p] ELSE reg[p]

Mapped(id) == \E g \in Pids : tgid_cohort[g] = id
InUse(id) == Mapped(id) \/ \E p \in Pids : Assigned(p) /\ IdOf(p) = id
Unobserved(id) == \A t \in s_tasks : t.cohort # id

\* The copies of a task's id agree.
Cached ==
    \A p \in Pids :
        /\ pc[p] = "init_stat" => task_ctxs[p] = reg[p]
        /\ pc[p] = "live" => /\ task_ctxs[p] # NoCohort
                             /\ task_stats[p] = task_ctxs[p]

\* So do the tasks of a group, and the group's entry while it has one.
OneId ==
    \A p, q \in Pids : Placed(p) /\ Placed(q) /\ tgid[p] = tgid[q] => IdOf(p) = IdOf(q)
EntryAgrees ==
    \A p \in Pids : Placed(p) => tgid_cohort[tgid[p]] \in {NoCohort, IdOf(p)}

\* Until the scheduler is attached nothing is collected.
Attaching ==
    ~attached =>
        /\ dpc = "sleep"
        /\ \A p \in Pids : pc[p] \in {"init_count", "init_stat", "live"} =>
              tgid_cohort[tgid[p]] # NoCohort

GroupInv == Cached /\ OneId /\ EntryAgrees /\ Attaching

\* A cohort in use exists, and so does one the collector has seen dead once or
\* is about to delete.
ExistInv ==
    /\ \A id \in Ids : InUse(id) => id \in counters
    /\ dead_cohorts \cup dead \subseteq counters
    /\ dead \cap dead_cohorts = {}

\* Why the second observation settles it.  While the daemon sleeps, a task that
\* is starting in a cohort seen dead once was already starting when the tick
\* ended, or took the cohort from something the next tick will see: an entry of
\* tgid_cohort or a running parent.  So a cohort which that tick's first snapshot
\* misses is used by an entry or by nothing, and one that the second misses too
\* is used by nothing.
SleepInv ==
    \A p \in Pids :
        Starting(p) /\ reg[p] \in dead_cohorts =>
            \/ p \in stragglers
            \/ Mapped(reg[p])
            \/ pc[forker[p]] = "live" /\ task_ctxs[forker[p]] = reg[p]

TickInv ==
    /\ dpc \in {"sleep", "tgids", "cohorts", "gc_counters", "gc_policy", "gc_tgid",
                "merges"}
    /\ IsFiniteSet(s_tasks)
    /\ dpc = "sleep" => SleepInv
    /\ dpc = "tgids" =>
          \A id \in dead_cohorts : Unobserved(id) /\ InUse(id) => Mapped(id)
    /\ dpc = "cohorts" =>
          \A id \in dead_cohorts : Unobserved(id) /\ Members(id) = {} => ~InUse(id)
    /\ dpc \in {"gc_counters", "gc_policy"} => \A id \in dead : ~InUse(id)

MemberInv == GroupInv /\ ExistInv /\ TickInv

\* What the proofs below use of the types.
Shape ==
    /\ pc \in [Pids -> {"none", "live"} \cup InitPcs \cup ExitPcs]
    /\ reg \in [Pids -> OptId] /\ task_ctxs \in [Pids -> OptId]
    /\ task_stats \in [Pids -> OptId] /\ tgid_cohort \in [Pids -> OptId]
    /\ tgid \in [Pids -> Pids] /\ forker \in [Pids -> Pids]
    /\ HandlerHasId
    /\ NoCohort \notin dead_cohorts

LEMMA Shapes == TypeInv => Shape
  BY IdFacts, Zenon DEF TypeInv, TypeOK, MapsTypeOK, TasksTypeOK, DaemonTypeOK, Shape

\* A step that brings no task and no entry: who is placed was placed before,
\* with the same id, and no parent that a starting task relies on is gone.
SameGroups ==
    /\ UNCHANGED <<tgid_cohort, attached, dpc>>
    /\ \A q \in Pids :
          /\ Placed(q)' => Placed(q) /\ IdOf(q)' = IdOf(q) /\ tgid'[q] = tgid[q]
          /\ pc'[q] = "init_stat" => task_ctxs'[q] = reg'[q]
          /\ pc'[q] = "live" => /\ task_ctxs'[q] # NoCohort
                                /\ task_stats'[q] = task_ctxs'[q]
          /\ pc'[q] \in {"init_count", "init_stat", "live"} =>
                pc[q] \in {"init_count", "init_stat", "live"}

LEMMA GroupsKept ==
    ASSUME GroupInv, SameGroups PROVE GroupInv'
  <1>1. Cached'
    BY Zenon DEF SameGroups, Cached
  <1>2. OneId'
    BY Zenon DEF SameGroups, OneId, GroupInv
  <1>3. EntryAgrees'
    BY Zenon DEF SameGroups, EntryAgrees, GroupInv
  <1>4. Attaching'
    <2>1. ASSUME NEW q \in Pids, pc'[q] \in {"init_count", "init_stat", "live"}
          PROVE  pc[q] \in {"init_count", "init_stat", "live"} /\ tgid'[q] = tgid[q]
      BY <2>1, Zenon DEF SameGroups, Placed, InitPcs
    <2> QED BY <2>1, Zenon DEF SameGroups, Attaching, GroupInv
  <1> QED BY ONLY <1>1, <1>2, <1>3, <1>4, Zenon DEF GroupInv

\* Starting tasks keep what SleepInv says they rely on.
SameStarts ==
    /\ UNCHANGED daemonVars
    /\ \A id \in dead_cohorts : Mapped(id) => Mapped(id)'
    /\ \A id \in dead_cohorts \cup dead : InUse(id)' => InUse(id)
    /\ \A q \in Pids : Starting(q)' /\ Starting(q) =>
          /\ reg'[q] = reg[q] /\ forker'[q] = forker[q]
          /\ q \in stragglers => q \in stragglers'
          /\ pc[forker[q]] = "live" => /\ pc'[forker[q]] = "live"
                                       /\ task_ctxs'[forker[q]] = task_ctxs[forker[q]]
    /\ \A q \in Pids : Starting(q)' /\ ~Starting(q) /\ reg'[q] \in dead_cohorts =>
          \/ Mapped(reg'[q])
          \/ pc'[forker'[q]] = "live" /\ task_ctxs'[forker'[q]] = reg'[q]

LEMMA TickKept ==
    ASSUME TickInv, SameStarts PROVE TickInv'
  <1> USE DEF SameStarts
  <1>1. UNCHANGED <<dpc, s_tasks, s_tgids, dead, dead_cohorts>>
    BY Zenon DEF daemonVars, snapVars, loopVars, memVars
  <1>2. ASSUME dpc = "sleep" PROVE SleepInv'
    <2> SUFFICES ASSUME NEW p \in Pids, Starting(p)', reg'[p] \in dead_cohorts
                 PROVE  \/ p \in stragglers'
                        \/ Mapped(reg[p])'
                        \/ /\ pc'[forker'[p]] = "live"
                           /\ task_ctxs'[forker'[p]] = reg'[p]
      BY <1>1, Zenon DEF SleepInv
    <2>0. SleepInv
      BY <1>2, Zenon DEF TickInv
    <2>2. Mapped(reg'[p]) => Mapped(reg[p])'
      BY Zenon DEF Mapped
    <2>1. CASE Starting(p)
      <3>1. /\ reg'[p] = reg[p] /\ forker'[p] = forker[p]
            /\ p \in stragglers => p \in stragglers'
            /\ pc[forker[p]] = "live" =>
                  /\ pc'[forker[p]] = "live"
                  /\ task_ctxs'[forker[p]] = task_ctxs[forker[p]]
        BY <2>1, Zenon
      <3>2. \/ p \in stragglers
            \/ Mapped(reg'[p])
            \/ pc[forker[p]] = "live" /\ task_ctxs[forker[p]] = reg[p]
        BY <2>0, <2>1, <3>1, Zenon DEF SleepInv
      <3> QED BY ONLY <2>2, <3>1, <3>2, Zenon
    <2> QED BY <2>1, <2>2, Zenon
  <1>3. ASSUME NEW id PROVE /\ Unobserved(id)' <=> Unobserved(id)
                            /\ Members(id)' = Members(id)
    BY <1>1, Zenon DEF Unobserved, Members
  <1>4. TickInv
    OBVIOUS
  <1> HIDE DEF SameStarts
  <1>5. dpc = "tgids" =>
          \A id \in dead_cohorts : Unobserved(id)' /\ InUse(id)' => Mapped(id)'
    BY <1>3, Zenon DEF TickInv, SameStarts
  <1>6. dpc = "cohorts" =>
          \A id \in dead_cohorts : Unobserved(id)' /\ Members(id)' = {} => ~InUse(id)'
    BY <1>3, Zenon DEF TickInv, SameStarts
  <1>7. dpc \in {"gc_counters", "gc_policy"} => \A id \in dead : ~InUse(id)'
    BY Zenon DEF TickInv, SameStarts
  <1> QED
    BY ONLY <1>1, <1>2, <1>4, <1>5, <1>6, <1>7, Zenon DEF TickInv

\* A handler's step touches its own task only.
Frame(p) ==
    /\ UNCHANGED daemonVars
    /\ \A q \in Pids : q # p =>
          /\ pc'[q] = pc[q] /\ reg'[q] = reg[q] /\ tgid'[q] = tgid[q]
          /\ task_ctxs'[q] = task_ctxs[q] /\ task_stats'[q] = task_stats[q]
          /\ forker'[q] = forker[q] /\ (q \in stragglers => q \in stragglers')

\* The step gives its task nothing it had not, and keeps it where a child needs it.
GainsNothing(p) ==
    /\ UNCHANGED <<tgid_cohort, counters>>
    /\ Placed(p)' => Placed(p) /\ IdOf(p)' = IdOf(p) /\ tgid'[p] = tgid[p]
    /\ pc'[p] = "init_stat" => task_ctxs'[p] = reg'[p]
    /\ pc'[p] = "live" => /\ task_ctxs'[p] # NoCohort
                          /\ task_stats'[p] = task_ctxs'[p]
    /\ pc'[p] \in {"init_count", "init_stat", "live"} =>
          pc[p] \in {"init_count", "init_stat", "live"}
    /\ Assigned(p)' => Assigned(p)
    /\ Starting(p)' => /\ Starting(p) /\ reg'[p] = reg[p] /\ forker'[p] = forker[p]
                       /\ p \in stragglers => p \in stragglers'
    /\ pc[p] = "live" => \/ pc'[p] = "live" /\ task_ctxs'[p] = task_ctxs[p]
                         \/ \A q \in Pids : forker[q] = p => q = p

LEMMA QuietTask ==
    ASSUME Shape, MemberInv, NEW p \in Pids, Frame(p), GainsNothing(p)
    PROVE  MemberInv'
  <1>0. /\ UNCHANGED <<attached, dpc, dead, dead_cohorts>>
        /\ UNCHANGED <<tgid_cohort, counters>>
    BY Zenon DEF Frame, GainsNothing, daemonVars, loopVars, memVars
  <1>1. \A q \in Pids : q # p =>
          /\ (Placed(q)' <=> Placed(q)) /\ (Starting(q)' <=> Starting(q))
          /\ Assigned(q)' <=> Assigned(q)
          /\ IdOf(q)' = IdOf(q)
    BY Zenon DEF Frame, Placed, Starting, Assigned, IdOf
  <1>2. SameGroups
    <2>1. ASSUME NEW q \in Pids, q # p
          PROVE  /\ Placed(q)' => Placed(q) /\ IdOf(q)' = IdOf(q) /\ tgid'[q] = tgid[q]
                 /\ pc'[q] = "init_stat" => task_ctxs'[q] = reg'[q]
                 /\ pc'[q] = "live" => /\ task_ctxs'[q] # NoCohort
                                       /\ task_stats'[q] = task_ctxs'[q]
                 /\ pc'[q] \in {"init_count", "init_stat", "live"} =>
                       pc[q] \in {"init_count", "init_stat", "live"}
      BY <1>1, <2>1, Zenon DEF Frame, MemberInv, GroupInv, Cached
    <2> QED BY <1>0, <2>1, Zenon DEF SameGroups, GainsNothing
  <1>3. ASSUME NEW id PROVE /\ Mapped(id) => Mapped(id)'
                            /\ InUse(id)' => InUse(id)
    <2>1. Mapped(id) <=> Mapped(id)'
      BY <1>0, Zenon DEF Mapped
    <2>2. ASSUME NEW q \in Pids, Assigned(q)' PROVE Assigned(q) /\ IdOf(q)' = IdOf(q)
      <3>1. Assigned(p)' => Assigned(p) /\ IdOf(p)' = IdOf(p)
        BY Zenon DEF GainsNothing, Assigned, Starting, Placed, InitPcs
      <3> QED BY <1>1, <2>2, <3>1, Zenon
    <2> QED BY <2>1, <2>2, Zenon DEF InUse
  <1>4. SameStarts
    <2>1. ASSUME NEW q \in Pids, Starting(q)'
          PROVE  /\ Starting(q)
                 /\ reg'[q] = reg[q] /\ forker'[q] = forker[q]
                 /\ q \in stragglers => q \in stragglers'
                 /\ pc[forker[q]] = "live" =>
                       /\ pc'[forker[q]] = "live"
                       /\ task_ctxs'[forker[q]] = task_ctxs[forker[q]]
      <3>1. /\ Starting(q) /\ reg'[q] = reg[q] /\ forker'[q] = forker[q]
            /\ q \in stragglers => q \in stragglers'
        BY <1>1, <2>1, Zenon DEF Frame, GainsNothing
      <3>2. q = p => pc[p] # "live"
        BY <3>1, Zenon DEF Starting
      <3>3. forker[q] \in Pids
        BY Zenon DEF Shape
      <3>4. ASSUME pc[forker[q]] = "live"
            PROVE  /\ pc'[forker[q]] = "live"
                   /\ task_ctxs'[forker[q]] = task_ctxs[forker[q]]
        BY <3>2, <3>3, <3>4, Zenon DEF Frame, GainsNothing
      <3> QED BY <3>1, <3>4, Zenon
    <2>2. UNCHANGED daemonVars
      BY Zenon DEF Frame
    <2> QED BY <1>3, <2>1, <2>2, Zenon DEF SameStarts
  <1>5. GroupInv' /\ TickInv'
    BY <1>2, <1>4, GroupsKept, TickKept, Zenon DEF MemberInv
  <1>6. ExistInv'
    BY <1>0, <1>3, Zenon DEF MemberInv, ExistInv
  <1> QED BY <1>5, <1>6, Zenon DEF MemberInv

\* A wakeup and a stop refresh a copy with the value it has.
LEMMA Refreshes ==
    ASSUME Shape, GroupInv, NEW p \in Pids, Wake(p) \/ Stopping(p)
    PROVE  UNCHANGED <<tgid_cohort, policy, counters, nr_tasks, task_ctxs, task_stats,
                       cohort_seq, taskVars, daemonVars, stragglers, retired>>
  <1>1. pc[p] = "live"
    BY Zenon DEF Wake, Stopping, Live
  <1>2. Resolve(p) = task_ctxs[p] /\ task_stats[p] = task_ctxs[p]
    BY <1>1, Zenon DEF GroupInv, Cached, EntryAgrees, Placed, IdOf, Resolve
  <1>3. /\ [task_ctxs EXCEPT ![p] = task_ctxs[p]] = task_ctxs
        /\ [task_stats EXCEPT ![p] = task_stats[p]] = task_stats
    BY Zenon DEF Shape
  <1>4. CASE Wake(p)
    BY ONLY <1>2, <1>3, <1>4, Zenon DEF Wake
  <1>5. CASE Stopping(p)
    BY ONLY <1>2, <1>3, <1>5, Zenon DEF Stopping
  <1> QED BY <1>4, <1>5, Zenon

\* The steps of the handlers that neither start a task nor write the maps of
\* cohorts.
LEMMA QuietMembers ==
    ASSUME Shape, MemberInv, NEW p \in Pids,
           \/ InitPolicy(p) \/ InitCount(p) \/ InitStat(p)
           \/ Wake(p) \/ Stopping(p)
           \/ ExitResolve(p) \/ ExitCount(p) \/ ExitStat(p) \/ ExitSpill(p)
    PROVE  MemberInv'
  <1>a. /\ pc \in [Pids -> {"none", "live"} \cup InitPcs \cup ExitPcs]
        /\ reg \in [Pids -> OptId] /\ task_ctxs \in [Pids -> OptId]
        /\ task_stats \in [Pids -> OptId] /\ tgid \in [Pids -> Pids]
        /\ forker \in [Pids -> Pids] /\ p \in Pids
    BY Zenon DEF Shape
  <1>b. /\ pc[p] = "init_stat" => task_ctxs[p] = reg[p]
        /\ pc[p] = "live" => task_ctxs[p] # NoCohort /\ task_stats[p] = task_ctxs[p]
        /\ pc[p] \in InitPcs => reg[p] # NoCohort
    BY Zenon DEF MemberInv, GroupInv, Cached, Shape, HandlerHasId
  <1>1. CASE InitPolicy(p)
    <2>1. Frame(p)
      BY ONLY <1>a, <1>1, Zenon DEF InitPolicy, Frame
    <2>2. GainsNothing(p)
      BY ONLY <1>a, <1>1, Zenon
         DEF InitPolicy, GainsNothing, Placed, IdOf, Assigned, Starting, InitPcs
    <2> QED BY <2>1, <2>2, QuietTask, Zenon
  <1>2. CASE InitCount(p)
    <2>1. Frame(p)
      BY ONLY <1>a, <1>2, Zenon DEF InitCount, Frame
    <2>2. GainsNothing(p)
      BY ONLY <1>a, <1>2, Zenon
         DEF InitCount, GainsNothing, Placed, IdOf, Assigned, Starting, InitPcs
    <2> QED BY <2>1, <2>2, QuietTask, Zenon
  <1>3. CASE InitStat(p)
    <2>1. Frame(p)
      BY ONLY <1>a, <1>3, Zenon DEF InitStat, Frame
    <2>2. GainsNothing(p)
      BY ONLY <1>a, <1>b, <1>3, Zenon
         DEF InitStat, GainsNothing, Placed, IdOf, Assigned, Starting, InitPcs
    <2> QED BY <2>1, <2>2, QuietTask, Zenon
  <1>4. CASE Wake(p) \/ Stopping(p)
    <2>1. UNCHANGED <<tgid_cohort, counters, task_ctxs, task_stats, pc, tgid, reg,
                      forker, daemonVars, stragglers>>
      BY <1>4, Refreshes, Zenon DEF MemberInv, taskVars
    <2>2. Frame(p)
      BY ONLY <2>1, Zenon DEF Frame
    <2>3. GainsNothing(p)
      BY ONLY <1>b, <2>1, Zenon DEF GainsNothing, Placed, IdOf, Assigned, Starting
    <2> QED BY <2>2, <2>3, QuietTask, Zenon
  <1>5. CASE ExitResolve(p)
    <2>1. Frame(p)
      BY ONLY <1>a, <1>5, Zenon DEF ExitResolve, Frame
    <2>2. GainsNothing(p)
      BY ONLY <1>a, <1>5, Zenon
         DEF ExitResolve, GainsNothing, Placed, Assigned, Starting, InitPcs
    <2> QED BY <2>1, <2>2, QuietTask, Zenon
  <1>6. CASE ExitCount(p)
    <2>1. Frame(p)
      BY ONLY <1>a, <1>6, Zenon DEF ExitCount, Frame
    <2>2. GainsNothing(p)
      BY ONLY <1>a, <1>6, Zenon
         DEF ExitCount, GainsNothing, Placed, Assigned, Starting, InitPcs
    <2> QED BY <2>1, <2>2, QuietTask, Zenon
  <1>7. CASE ExitStat(p)
    <2>1. Frame(p)
      BY ONLY <1>a, <1>7, Zenon DEF ExitStat, Frame
    <2>2. GainsNothing(p)
      BY ONLY <1>a, <1>7, Zenon
         DEF ExitStat, GainsNothing, Placed, Assigned, Starting, InitPcs
    <2> QED BY <2>1, <2>2, QuietTask, Zenon
  <1>8. CASE ExitSpill(p)
    <2>1. Frame(p)
      BY ONLY <1>a, <1>8, Zenon DEF ExitSpill, Frame
    <2>2. GainsNothing(p)
      BY ONLY <1>a, <1>8, Zenon
         DEF ExitSpill, GainsNothing, Placed, Assigned, Starting, InitPcs
    <2> QED BY <2>1, <2>2, QuietTask, Zenon
  <1> QED
    BY <1>1, <1>2, <1>3, <1>4, <1>5, <1>6, <1>7, <1>8, Zenon

\* init_task's first step.  The child takes the id of its group if the group has
\* a task or an entry; one it takes from elsewhere is in use already, and the
\* daemon can see by whom.
LEMMA StartKeepsMembers ==
    ASSUME Shape, MemberInv,
           NEW p \in Pids, NEW g \in Pids, NEW parent \in Pids, NEW inherited \in OptId,
           InitTask(p, g, parent, inherited),
           \/ g = p
           \/ \E q \in Pids : /\ pc[q] = "live" /\ tgid[q] = g
                              /\ inherited = task_ctxs[q] \/ tgid_cohort[g] # NoCohort,
           \/ inherited = NoCohort
           \/ attached /\ pc[parent] = "live" /\ inherited = task_ctxs[parent]
    PROVE  MemberInv'
  <1>1. PICK id, next :
          /\ next \in {"init_count", "init_map", "init_policy"}
          /\ pc' = [pc EXCEPT ![p] = next]
          /\ reg' = [reg EXCEPT ![p] = id]
          /\ tgid' = [tgid EXCEPT ![p] = g]
          /\ task_ctxs' = [task_ctxs EXCEPT ![p] = NoCohort]
          /\ forker' = [forker EXCEPT ![p] = parent]
          /\ next = "init_count" => tgid_cohort[g] = id /\ id # NoCohort
          /\ next = "init_map" => /\ tgid_cohort[g] = NoCohort
                                  /\ inherited = id /\ id # NoCohort
          /\ next = "init_policy" => tgid_cohort[g] = NoCohort /\ inherited = NoCohort
          /\ UNCHANGED <<tgid_cohort, counters, task_stats, daemonVars, stragglers>>
    <2>1. CASE /\ tgid_cohort[g] # NoCohort
               /\ InitTaskAs(p, g, tgid_cohort[g], "init_count")
      BY ONLY <2>1, InitTask(p, g, parent, inherited), Zenon DEF InitTask, InitTaskAs
    <2>2. CASE /\ tgid_cohort[g] = NoCohort /\ inherited # NoCohort
               /\ InitTaskAs(p, g, inherited, "init_map")
      BY ONLY <2>2, InitTask(p, g, parent, inherited), Zenon DEF InitTask, InitTaskAs
    <2>3. CASE tgid_cohort[g] = NoCohort /\ inherited = NoCohort /\ NewCohort(p, g)
      BY ONLY <2>3, InitTask(p, g, parent, inherited), Zenon
         DEF InitTask, InitTaskAs, NewCohort
    <2> QED BY <2>1, <2>2, <2>3, Zenon DEF InitTask
  <1>a. /\ pc \in [Pids -> {"none", "live"} \cup InitPcs \cup ExitPcs]
        /\ reg \in [Pids -> OptId] /\ task_ctxs \in [Pids -> OptId]
        /\ tgid \in [Pids -> Pids] /\ forker \in [Pids -> Pids]
        /\ {p, g, parent} \subseteq Pids
    BY Zenon DEF Shape
  <1>2. /\ \A q \in Pids : pc[q] # "none" => q # p /\ tgid[q] # p
        /\ UNCHANGED <<attached, dpc, dead, dead_cohorts>>
    BY <1>1, Zenon DEF InitTask, PidFree, daemonVars, loopVars, memVars
  <1>3. /\ pc'[p] = next /\ reg'[p] = id /\ tgid'[p] = g /\ forker'[p] = parent
        /\ \A q \in Pids : q # p =>
              /\ pc'[q] = pc[q] /\ reg'[q] = reg[q] /\ tgid'[q] = tgid[q]
              /\ task_ctxs'[q] = task_ctxs[q] /\ forker'[q] = forker[q]
    BY ONLY <1>a, <1>1, Zenon
  <1>4. /\ Placed(p)' /\ ~Placed(p) /\ IdOf(p)' = id
        /\ \A q \in Pids : q # p =>
              /\ (Placed(q)' <=> Placed(q)) /\ (Starting(q)' <=> Starting(q))
              /\ (Assigned(q)' <=> Assigned(q)) /\ IdOf(q)' = IdOf(q)
    <2>1. pc[p] = "none"
      BY <1>2, Zenon
    <2> QED BY ONLY <1>1, <1>3, <2>1
            DEF Placed, Starting, Assigned, IdOf, InitPcs
  <1>5. ASSUME NEW q \in Pids, q # p, Placed(q), tgid[q] = g
        PROVE  IdOf(q) = id
    <2>1. g # p
      BY <1>2, <1>5, Zenon DEF Placed, InitPcs
    <2>2. PICK r \in Pids : /\ pc[r] = "live" /\ tgid[r] = g
                            /\ inherited = task_ctxs[r] \/ tgid_cohort[g] # NoCohort
      BY <2>1, Zenon
    <2>3. Placed(r) /\ IdOf(r) = task_ctxs[r] /\ task_ctxs[r] # NoCohort
      BY <2>2, Zenon DEF Placed, IdOf, MemberInv, GroupInv, Cached
    <2>4. IdOf(q) = IdOf(r) /\ tgid_cohort[g] \in {NoCohort, IdOf(q)}
      BY <1>5, <2>2, <2>3, Zenon DEF MemberInv, GroupInv, OneId, EntryAgrees
    <2> QED BY <1>1, <2>2, <2>3, <2>4, Zenon
  <1>6. GroupInv'
    <2>1. Cached'
      BY <1>1, <1>3 DEF MemberInv, GroupInv, Cached
    <2>2. OneId'
      <3>1. \A q, r \in Pids : Placed(q) /\ Placed(r) /\ tgid[q] = tgid[r] =>
                                  IdOf(q) = IdOf(r)
        BY Zenon DEF MemberInv, GroupInv, OneId
      <3>2. ASSUME NEW q \in Pids, NEW r \in Pids,
                   Placed(q)', Placed(r)', tgid'[q] = tgid'[r]
            PROVE  IdOf(q)' = IdOf(r)'
        BY ONLY <1>3, <1>4, <1>5, <3>1, <3>2
      <3> QED BY <3>2, Zenon DEF OneId
    <2>3. EntryAgrees'
      <3>1. tgid_cohort[g] \in {NoCohort, id}
        BY <1>1, Zenon
      <3>2. ASSUME NEW q \in Pids, q # p, Placed(q)'
            PROVE  tgid_cohort[tgid[q]] \in {NoCohort, IdOf(q)}
        BY <1>4, <3>2, Zenon DEF MemberInv, GroupInv, EntryAgrees
      <3> QED BY <1>1, <1>3, <1>4, <3>1, <3>2, Zenon DEF EntryAgrees
    <2>4. Attaching'
      <3>1. ASSUME ~attached PROVE pc'[p] = "init_count" => tgid_cohort[g] # NoCohort
        BY <1>1, <1>3, Zenon
      <3>2. ~attached => next # "init_map"
        BY <1>1, Zenon
      <3>3. ~attached => pc'[p] \in {"init_count", "init_policy"}
        BY ONLY <1>1, <1>3, <3>2, Zenon
      <3> QED
        BY <1>1, <1>2, <1>3, <3>1, <3>3 DEF Attaching, MemberInv, GroupInv
    <2> QED BY <2>1, <2>2, <2>3, <2>4, Zenon DEF GroupInv
  <1>7. ASSUME NEW x PROVE (Mapped(x)' <=> Mapped(x)) /\ (InUse(x)' => InUse(x))
    <2>1. Mapped(x)' <=> Mapped(x)
      BY <1>1, Zenon DEF Mapped
    <2>2. CASE next = "init_count"
      <3>1. Mapped(id)
        BY <1>1, <2>2, Zenon DEF Mapped
      <3> QED BY <1>4, <2>1, <3>1, Zenon DEF InUse
    <2>3. CASE next = "init_map"
      <3>1. pc[parent] = "live" /\ task_ctxs[parent] = id
        BY <1>1, <2>3, Zenon
      <3>2. InUse(id)
        BY <3>1, Zenon DEF InUse, Assigned, IdOf
      <3> QED BY <1>4, <2>1, <3>2, Zenon DEF InUse
    <2>4. CASE next = "init_policy"
      <3>1. ~Assigned(p)'
        BY <1>3, <2>4, Zenon DEF Assigned, Starting
      <3> QED BY <1>4, <2>1, <3>1, Zenon DEF InUse
    <2> QED BY <1>1, <2>2, <2>3, <2>4, Zenon
  <1>8. SameStarts
    <2>1. ASSUME NEW q \in Pids, Starting(q), Starting(q)'
          PROVE  /\ q # p
                 /\ pc[forker[q]] = "live" => forker[q] # p /\ forker[q] \in Pids
      BY <1>2, <1>a, <2>1, Zenon DEF Starting
    <2>2. Starting(p)' => \/ Mapped(id)
                          \/ pc'[parent] = "live" /\ task_ctxs'[parent] = id
      <3>1. CASE next = "init_count"
        BY <1>1, <3>1, Zenon DEF Mapped
      <3>2. CASE next = "init_map"
        <4>1. pc[parent] = "live" /\ task_ctxs[parent] = id /\ parent # p
          BY <1>1, <1>2, <3>2, Zenon
        <4> QED BY <1>3, <4>1, Zenon
      <3>3. CASE next = "init_policy"
        BY <1>3, <3>3, Zenon DEF Starting
      <3> QED BY <1>1, <3>1, <3>2, <3>3, Zenon
    <2>3. UNCHANGED daemonVars /\ UNCHANGED stragglers
      BY <1>1, Zenon
    <2>4. \A q \in Pids : Starting(q)' /\ Starting(q) =>
            /\ reg'[q] = reg[q] /\ forker'[q] = forker[q]
            /\ q \in stragglers => q \in stragglers'
            /\ pc[forker[q]] = "live" =>
                  /\ pc'[forker[q]] = "live"
                  /\ task_ctxs'[forker[q]] = task_ctxs[forker[q]]
      BY <1>3, <2>1, <2>3, Zenon
    <2>5. \A q \in Pids : Starting(q)' /\ ~Starting(q) => q = p
      BY <1>4, Zenon
    <2> QED BY <1>3, <1>7, <2>2, <2>3, <2>4, <2>5, Zenon DEF SameStarts
  <1>9. TickInv' /\ ExistInv'
    BY <1>1, <1>2, <1>7, <1>8, TickKept, Zenon DEF MemberInv, ExistInv
  <1> QED BY <1>6, <1>9, Zenon DEF MemberInv

\* The counters of a fresh cohort: from here on it exists and is in use.
LEMMA CountersKeepMembers ==
    ASSUME Room, TypeInv, IdInv, MemberInv, NEW p \in Pids, InitCounters(p)
    PROVE  MemberInv'
  <1>a. /\ pc \in [Pids -> {"none", "live"} \cup InitPcs \cup ExitPcs]
        /\ Shape /\ p \in Pids
    BY Shapes, Zenon DEF Shape
  <1>1. /\ pc[p] = "init_counters" /\ pc' = [pc EXCEPT ![p] = "init_map"]
        /\ UNCHANGED <<tgid_cohort, task_ctxs, task_stats, tgid, reg, forker,
                       daemonVars, stragglers>>
        /\ UNCHANGED <<attached, dpc, dead, dead_cohorts>>
    BY Zenon DEF InitCounters, daemonVars, loopVars, memVars
  <1>2. counters' = counters \cup {reg[p]} /\ reg[p] \in Ids
    <2>1. reg[p] \in Ids /\ counters \in SUBSET Ids
      BY <1>1, Zenon DEF TypeInv, TypeOK, MapsTypeOK, TasksTypeOK, HandlerHasId, InitPcs, OptId
    <2> QED BY <2>1, RoomToInsert, Zenon DEF InitCounters
  <1>3. \A q \in Pids : /\ q # p => pc'[q] = pc[q]
                        /\ (Placed(q)' <=> Placed(q)) /\ IdOf(q)' = IdOf(q)
                        /\ pc'[q] = "live" <=> pc[q] = "live"
    BY ONLY <1>a, <1>1, Zenon DEF Placed, IdOf, InitPcs
  <1>4. SameGroups
    <2>1. pc'[p] = "init_map"
      BY ONLY <1>a, <1>1, Zenon
    <2> QED
      BY <1>1, <1>3, <2>1, Zenon DEF SameGroups, MemberInv, GroupInv, Cached
  <1>5. ASSUME NEW id PROVE /\ Mapped(id) => Mapped(id)'
                            /\ InUse(id)' => InUse(id) \/ id = reg[p]
    <2>1. Mapped(id) <=> Mapped(id)'
      BY <1>1, Zenon DEF Mapped
    <2>2. ASSUME NEW q \in Pids, q # p, Assigned(q)' PROVE Assigned(q)
      BY <1>3, <2>2, Zenon DEF Assigned, Starting
    <2>3. IdOf(p) = reg[p]
      BY <1>1, Zenon DEF IdOf
    <2> QED BY <1>3, <2>1, <2>2, <2>3, Zenon DEF InUse
  <1>6. reg[p] \notin dead_cohorts \cup dead
    <2>1. reg[p] \notin counters
      BY <1>1, Zenon DEF IdInv, Creating
    <2> QED BY <2>1, Zenon DEF MemberInv, ExistInv
  <1>7. SameStarts
    <2>1. \A q \in Pids : Starting(q)' /\ Starting(q) => q # p
      BY <1>1, Zenon DEF Starting
    <2>2. \A q \in Pids : Starting(q)' /\ ~Starting(q) => q = p
      BY <1>3, Zenon DEF Starting
    <2>3. \A q \in Pids : pc[q] = "live" => pc'[q] = "live"
      BY <1>3, Zenon
    <2>4. \A q \in Pids : forker[q] \in Pids
      BY <1>a, Zenon DEF Shape
    <2> QED BY <1>1, <1>5, <1>6, <2>1, <2>2, <2>3, <2>4, Zenon DEF SameStarts
  <1>8. ExistInv'
    BY <1>1, <1>2, <1>5, Zenon DEF MemberInv, ExistInv
  <1> QED BY <1>4, <1>7, <1>8, GroupsKept, TickKept, Zenon DEF MemberInv

\* The group's entry: it was absent or held this id.
LEMMA MapKeepsMembers ==
    ASSUME Shape, MemberInv, NEW p \in Pids, InitMap(p)
    PROVE  MemberInv'
  <1>a. /\ pc \in [Pids -> {"none", "live"} \cup InitPcs \cup ExitPcs]
        /\ tgid_cohort \in [Pids -> OptId] /\ p \in Pids /\ tgid[p] \in Pids
        /\ reg[p] # NoCohort \/ pc[p] \notin InitPcs
        /\ \A q \in Pids : forker[q] \in Pids
    BY Zenon DEF Shape, HandlerHasId
  <1>1. /\ pc[p] = "init_map" /\ pc' = [pc EXCEPT ![p] = "init_count"]
        /\ tgid_cohort' = [tgid_cohort EXCEPT ![tgid[p]] = reg[p]]
        /\ UNCHANGED <<counters, task_ctxs, task_stats, tgid, reg, forker, daemonVars,
                       stragglers>>
        /\ UNCHANGED <<attached, dpc, dead, dead_cohorts>>
    BY Zenon DEF InitMap, daemonVars, loopVars, memVars
  <1>2. /\ tgid_cohort'[tgid[p]] = reg[p] /\ reg[p] # NoCohort
        /\ \A g \in Pids : g # tgid[p] => tgid_cohort'[g] = tgid_cohort[g]
    BY ONLY <1>a, <1>1, Zenon DEF InitPcs
  <1>3. /\ Placed(p) /\ Assigned(p) /\ IdOf(p) = reg[p]
        /\ \A q \in Pids :
              /\ (Placed(q)' <=> Placed(q)) /\ (Starting(q)' <=> Starting(q))
              /\ (Assigned(q)' <=> Assigned(q)) /\ IdOf(q)' = IdOf(q)
    BY ONLY <1>a, <1>1, Zenon DEF Placed, Starting, Assigned, IdOf, InitPcs
  <1>4. tgid_cohort[tgid[p]] \in {NoCohort, reg[p]}
    BY <1>3, Zenon DEF MemberInv, GroupInv, EntryAgrees
  <1>5. GroupInv'
    <2>1. Cached'
      BY <1>a, <1>1, Zenon DEF MemberInv, GroupInv, Cached
    <2>2. OneId'
      BY <1>1, <1>3, Zenon DEF MemberInv, GroupInv, OneId
    <2>3. EntryAgrees'
      <3>1. ASSUME NEW q \in Pids, Placed(q)
            PROVE  tgid_cohort'[tgid[q]] \in {NoCohort, IdOf(q)}
        <4>1. tgid[q] = tgid[p] => IdOf(q) = reg[p]
          BY <1>3, <3>1, Zenon DEF MemberInv, GroupInv, OneId
        <4>2. tgid[q] \in Pids /\ tgid_cohort[tgid[q]] \in {NoCohort, IdOf(q)}
          BY <3>1, Zenon DEF MemberInv, GroupInv, EntryAgrees, Shape
        <4> QED BY ONLY <1>2, <4>1, <4>2, Zenon
      <3> QED BY <1>1, <1>3, <3>1, Zenon DEF EntryAgrees
    <2>4. Attaching'
      <3>1. ASSUME NEW q \in Pids, q # p PROVE pc'[q] = pc[q] /\ tgid[q] \in Pids
        BY <1>a, <1>1, <3>1, Zenon DEF Shape
      <3>2. ASSUME NEW q \in Pids, tgid_cohort[tgid[q]] # NoCohort \/ q = p
            PROVE  tgid_cohort'[tgid[q]] # NoCohort
        BY <1>2, <3>1, <3>2, Zenon
      <3> QED BY <1>1, <3>1, <3>2, Zenon DEF MemberInv, GroupInv, Attaching
    <2> QED BY <2>1, <2>2, <2>3, <2>4, Zenon DEF GroupInv
  <1>6. ASSUME NEW id PROVE (Mapped(id) => Mapped(id)' \/ id = NoCohort)
                            /\ (InUse(id)' => InUse(id))
    <2>1. Mapped(id) => Mapped(id)' \/ id = NoCohort
      BY <1>a, <1>2, <1>4, Zenon DEF Mapped
    <2>2. Mapped(id)' => InUse(id)
      BY <1>2, <1>3, Zenon DEF Mapped, InUse
    <2> QED BY <1>3, <2>1, <2>2, Zenon DEF InUse
  <1>7. SameStarts
    <2>1. \A q \in Pids : pc[q] = "live" => pc'[q] = "live"
      BY ONLY <1>a, <1>1, Zenon
    <2>2. NoCohort \notin dead_cohorts
      BY Zenon DEF Shape
    <2>3. UNCHANGED <<daemonVars, reg, forker, stragglers, task_ctxs>>
      BY <1>1, Zenon
    <2> QED BY <1>a, <1>3, <1>6, <2>1, <2>2, <2>3, Zenon DEF SameStarts
  <1>8. ExistInv'
    BY <1>1, <1>6, Zenon DEF MemberInv, ExistInv
  <1> QED BY <1>5, <1>7, <1>8, TickKept, Zenon DEF MemberInv

\* Every step of a handler.
LEMMA TaskStepMembers ==
    ASSUME Room, TypeInv, IdInv, MemberInv, NEW p \in Pids, TaskStep(p)
    PROVE  MemberInv'
  <1>a. /\ Shape /\ NoCohort \in OptId
        /\ \A q \in Pids : tgid[q] \in Pids /\ task_ctxs[q] \in OptId
    BY Shapes, IdFacts, Zenon DEF Shape
  <1>1. CASE AttachTask(p)
    <2>1. PICK g \in {p} \cup {tgid[q] : q \in Live} : InitTask(p, g, p, NoCohort)
      BY <1>1, Zenon DEF AttachTask
    <2>2. g = p \/ \E q \in Pids : /\ pc[q] = "live" /\ tgid[q] = g
                                   /\ tgid_cohort[g] # NoCohort
      <3>1. ~attached
        BY <1>1, Zenon DEF AttachTask
      <3>2. \A q \in Live : q \in Pids /\ pc[q] = "live" /\ tgid_cohort[tgid[q]] # NoCohort
        BY <3>1, Zenon DEF Live, MemberInv, GroupInv, Attaching
      <3> QED BY <2>1, <3>2, Zenon
    <2>3. g \in Pids
      BY <1>a, <2>2, Zenon
    <2> QED BY <1>a, <2>1, <2>2, <2>3, StartKeepsMembers, Zenon
  <1>2. CASE ForkNoCtx(p)
    <2>1. InitTask(p, p, p, NoCohort)
      BY <1>2, Zenon DEF ForkNoCtx
    <2> QED BY <1>a, <2>1, StartKeepsMembers, Zenon
  <1>3. ASSUME NEW parent \in Pids, Fork(p, parent) PROVE MemberInv'
    <2>1. /\ attached /\ pc[parent] = "live"
          /\ \E g \in {p, tgid[parent]} : InitTask(p, g, parent, task_ctxs[parent])
      BY <1>3, Zenon DEF Fork, Live
    <2>2. PICK g \in {p, tgid[parent]} : InitTask(p, g, parent, task_ctxs[parent])
      BY <2>1, Zenon
    <2>3. /\ g \in Pids
          /\ g = p \/ \E q \in Pids : /\ pc[q] = "live" /\ tgid[q] = g
                                      /\ task_ctxs[parent] = task_ctxs[q]
      BY <1>a, <2>1, Zenon
    <2> QED BY <1>a, <2>1, <2>2, <2>3, StartKeepsMembers, Zenon
  <1>4. CASE InitCounters(p)
    BY <1>4, CountersKeepMembers, Zenon
  <1>5. CASE InitMap(p)
    BY <1>a, <1>5, MapKeepsMembers, Zenon
  <1> QED
    BY <1>a, <1>1, <1>2, <1>3, <1>4, <1>5, QuietMembers, Zenon DEF TaskStep

\* A tick without plans: these are the daemon's steps.
LEMMA TickSteps ==
    ASSUME NoPlans, TypeInv, TickInv, DaemonStep
    PROVE  \/ Attach \/ SnapshotTasks \/ SnapshotTgidCohort \/ SnapshotCohorts
           \/ (\E id \in Ids : GcCounters(id)) \/ GcPolicy
           \/ GcTgidMap \/ (\E g \in Pids : GcTgid(g))
           \/ ApplySpills \/ TickEnd
  <1>1. ASSUME NEW into \in Ids, NEW from \in Ids PROVE ~PlanMerge(into, from)
    BY DEF PlanMerge, NoPlans, TypeInv, TypeOK, DaemonTypeOK
  <1>2. ASSUME NEW c \in Ids, NEW off \in SUBSET Pids PROVE ~PlanSplit(c, off)
    BY DEF PlanSplit, NoPlans, TypeInv, TypeOK, DaemonTypeOK
  <1>3. ~MergeCounters /\ ~MergePolicy /\ \A g \in Pids : ~MergeTgid(g)
    BY Zenon DEF TickInv, MergeCounters, MergePolicy, MergeTgid
  <1>4. /\ ~SplitPolicy /\ ~SplitCounters /\ ~SplitDone
        /\ \A g \in Pids : ~SplitTgid(g)
    BY Zenon DEF TickInv, SplitPolicy, SplitCounters, SplitDone, SplitTgid
  <1> QED BY ONLY DaemonStep, <1>1, <1>2, <1>3, <1>4, Zenon DEF DaemonStep

\* The daemon writes no task; what it does to the maps is to delete.
LEMMA DaemonGroups ==
    ASSUME Shape, GroupInv,
           UNCHANGED <<pc, tgid, reg, task_ctxs, task_stats>>,
           attached' \/ UNCHANGED <<attached, dpc, tgid_cohort>>,
           \A g \in Pids : tgid_cohort'[g] \in {NoCohort, tgid_cohort[g]}
    PROVE  /\ GroupInv'
           /\ \A id : id # NoCohort /\ InUse(id)' => InUse(id)
  <1>1. \A q \in Pids : /\ (Placed(q)' <=> Placed(q)) /\ IdOf(q)' = IdOf(q)
                        /\ (Assigned(q)' <=> Assigned(q)) /\ tgid[q] \in Pids
    BY Zenon DEF Placed, IdOf, Assigned, Starting, Shape
  <1>2. Cached' /\ OneId'
    BY <1>1, Zenon DEF GroupInv, Cached, OneId
  <1>3. EntryAgrees'
    BY <1>1, Zenon DEF GroupInv, EntryAgrees
  <1>4. Attaching'
    BY Zenon DEF GroupInv, Attaching
  <1>5. ASSUME NEW id, id # NoCohort, InUse(id)' PROVE InUse(id)
    BY <1>1, <1>5, Zenon DEF InUse, Mapped
  <1> QED BY ONLY <1>2, <1>3, <1>4, <1>5, Zenon DEF GroupInv

\* A task the daemon can see is in the task snapshot with its cohort.
LEMMA SnapshotSees ==
    ASSUME Shape, SnapshotTasks
    PROVE  /\ \A p \in Pids : task_stats[p] # NoCohort =>
                 \E t \in s_tasks' : t.cohort = task_stats[p]
           /\ IsFiniteSet(s_tasks')
  <1> DEFINE seen == {q \in Pids : task_stats[q] # NoCohort}
             shot(p) == [pid |-> p, tgid |-> tgid[p], cohort |-> task_stats[p]]
  <1>1. s_tasks' = {shot(p) : p \in seen}
    BY Zenon DEF SnapshotTasks
  <1>2. ASSUME NEW p \in Pids, task_stats[p] # NoCohort
        PROVE  \E t \in s_tasks' : t.cohort = task_stats[p]
    <2>1. shot(p) \in s_tasks' /\ shot(p).cohort = task_stats[p]
      BY <1>1, <1>2, Zenon
    <2> HIDE DEF shot
    <2> QED BY <2>1, Zenon
  <1>3. IsFiniteSet(s_tasks')
    <2>1. IsFiniteSet(seen)
      BY BoundsAssumption, FS_Subset, Zenon
    <2> DEFINE f == [p \in seen |-> shot(p)]
    <2>2. f \in Surjection(seen, s_tasks')
      BY <1>1, Zenon DEF Surjection
    <2> HIDE DEF f, seen
    <2> QED BY <2>1, <2>2, FS_Surjection, Zenon
  <1> QED BY <1>2, <1>3, Zenon

\* Every step of the daemon.
LEMMA DaemonStepMembers ==
    ASSUME NoPlans, TypeInv, MemberInv, DaemonStep
    PROVE  MemberInv'
  <1>a. /\ Shape /\ GroupInv /\ ExistInv /\ TickInv
        /\ NoCohort \notin Ids /\ counters \subseteq Ids
        /\ attached \in BOOLEAN
        /\ dpc # "sleep" => attached
    BY Shapes, IdFacts, Zenon
       DEF MemberInv, GroupInv, Attaching, TypeInv, TypeOK, MapsTypeOK, DaemonTypeOK
  <1> DEFINE Still == UNCHANGED <<pc, tgid, reg, forker, task_ctxs, task_stats>>
  <1>s. ASSUME Still, UNCHANGED tgid_cohort, attached' \/ UNCHANGED <<attached, dpc>>
        PROVE  /\ GroupInv'
               /\ \A id : (Mapped(id)' <=> Mapped(id)) /\ (InUse(id)' <=> InUse(id))
               /\ \A p \in Pids : Starting(p)' <=> Starting(p)
    <2>1. \A g \in Pids : tgid_cohort'[g] \in {NoCohort, tgid_cohort[g]}
      BY <1>s, Zenon
    <2>2. \A p \in Pids : /\ Starting(p)' <=> Starting(p)
                          /\ Assigned(p)' <=> Assigned(p)
                          /\ IdOf(p)' = IdOf(p)
      BY <1>s, Zenon DEF Starting, Assigned, IdOf
    <2>3. \A id : Mapped(id)' <=> Mapped(id)
      BY <1>s, Zenon DEF Mapped
    <2> QED BY <1>a, <1>s, <2>1, <2>2, <2>3, DaemonGroups, Zenon DEF InUse
  <1>1. CASE Attach
    <2>1. /\ Still /\ attached' /\ dpc = "sleep"
          /\ UNCHANGED <<tgid_cohort, counters, dpc, s_tasks, dead, dead_cohorts, stragglers>>
      BY <1>1, Zenon DEF Attach, bpfVars, taskVars, snapVars, loopVars, memVars
    <2>2. SleepInv'
      BY <1>a, <1>s, <2>1, Zenon DEF TickInv, SleepInv
    <2>3. TickInv'
      BY <1>a, <2>1, <2>2, Zenon DEF TickInv
    <2>4. ExistInv'
      BY <1>a, <1>s, <2>1, Zenon DEF ExistInv
    <2> QED BY <1>s, <2>1, <2>3, <2>4, Zenon DEF MemberInv
  <1>2. CASE SnapshotTasks
    <2>1. /\ Still /\ attached' /\ dpc = "sleep" /\ dpc' = "tgids" /\ stragglers = {}
          /\ UNCHANGED <<tgid_cohort, counters, dead, dead_cohorts>>
      BY <1>2, Zenon DEF SnapshotTasks, bpfVars, taskVars, loopVars, memVars
    <2>2. ASSUME NEW id \in dead_cohorts, Unobserved(id)', InUse(id), ~Mapped(id)
          PROVE  FALSE
      <3>1. \A p \in Pids : task_stats[p] # id
        <4>1. id # NoCohort
          BY <1>a, <2>2, Zenon DEF Shape
        <4> QED BY <1>a, <1>2, <2>2, <4>1, SnapshotSees, Zenon DEF Unobserved
      <3>2. \A p \in Pids : pc[p] = "live" => task_ctxs[p] # id
        BY <1>a, <3>1, Zenon DEF GroupInv, Cached
      <3>3. PICK p \in Pids : Assigned(p) /\ IdOf(p) = id
        BY <2>2, Zenon DEF InUse
      <3>4. Starting(p) /\ reg[p] = id
        BY <3>2, <3>3, Zenon DEF Assigned, IdOf, Starting
      <3>5. SleepInv /\ forker[p] \in Pids
        BY <1>a, <2>1, Zenon DEF TickInv, Shape
      <3> QED BY <2>1, <2>2, <3>2, <3>4, <3>5, Zenon DEF SleepInv
    <2>3. TickInv'
      BY <1>a, <1>2, <1>s, <2>1, <2>2, SnapshotSees, Zenon DEF TickInv
    <2>4. ExistInv'
      BY <1>a, <1>s, <2>1, Zenon DEF ExistInv
    <2> QED BY <1>s, <2>1, <2>3, <2>4, Zenon DEF MemberInv
  <1>3. CASE SnapshotTgidCohort
    <2>1. /\ Still /\ dpc = "tgids" /\ dpc' = "cohorts" /\ s_tgids' = tgid_cohort
          /\ UNCHANGED <<tgid_cohort, counters, dead, dead_cohorts, s_tasks, attached>>
      BY <1>3, Zenon DEF SnapshotTgidCohort, bpfVars, taskVars, loopVars, memVars
    <2>2. ASSUME NEW id \in dead_cohorts, Unobserved(id)', Members(id)' = {}
          PROVE  ~InUse(id)
      <3>1. ~Mapped(id)
        BY <2>1, <2>2, Zenon DEF Members, Mapped
      <3>2. Unobserved(id)
        BY <2>1, <2>2, Zenon DEF Unobserved
      <3> QED BY <1>a, <2>1, <3>1, <3>2, Zenon DEF TickInv
    <2>3. attached'
      BY <1>a, <2>1, Zenon
    <2>4. TickInv'
      BY <1>a, <1>s, <2>1, <2>2, <2>3, Zenon DEF TickInv
    <2>5. ExistInv'
      BY <1>a, <1>s, <2>1, <2>3, Zenon DEF ExistInv
    <2> QED BY <1>s, <2>1, <2>3, <2>4, <2>5, Zenon DEF MemberInv
  <1>4. CASE SnapshotCohorts
    <2>1. /\ Still /\ dpc = "cohorts" /\ dpc' = "gc_counters"
          /\ UNCHANGED <<tgid_cohort, counters, s_tasks, attached>>
      BY <1>4, Zenon DEF SnapshotCohorts, bpfVars, taskVars
    <2>2. /\ dead' \subseteq dead_cohorts /\ dead' \cup dead_cohorts' \subseteq counters
          /\ dead' \cap dead_cohorts' = {}
          /\ \A id \in dead' : TaskCount(id) = 0 /\ Members(id) = {}
      BY ONLY <1>4, Zenon DEF SnapshotCohorts
    <2>3. ASSUME NEW id \in dead' PROVE ~InUse(id)
      <3> DEFINE of == {t \in s_tasks : t.cohort = id}
      <3>1. IsFiniteSet(of) /\ Cardinality(of) = 0
        BY <1>a, <2>2, FS_Subset, Zenon DEF TickInv, TaskCount
      <3>2. of = {}
        BY ONLY <3>1, FS_EmptySet, Zenon
      <3>3. Unobserved(id)
        BY <3>2, Zenon DEF Unobserved
      <3> QED BY <1>a, <2>1, <2>2, <3>3, Zenon DEF TickInv
    <2>4. attached'
      BY <1>a, <2>1, Zenon
    <2>5. TickInv'
      BY <1>a, <1>s, <2>1, <2>3, <2>4, Zenon DEF TickInv
    <2>6. ExistInv'
      BY <1>a, <1>s, <2>1, <2>2, <2>4, Zenon DEF ExistInv
    <2> QED BY <1>s, <2>1, <2>4, <2>5, <2>6, Zenon DEF MemberInv
  <1>5. ASSUME NEW id \in Ids, GcCounters(id) PROVE MemberInv'
    <2>1. /\ Still /\ dpc = "gc_counters" /\ dpc' = "gc_policy" /\ id \in dead
          /\ counters' = counters \ {id} /\ dead' = dead \ {id}
          /\ UNCHANGED <<tgid_cohort, dead_cohorts, s_tasks, attached>>
      BY <1>5, Zenon DEF GcCounters, DeleteCounters, taskVars, memVars, snapVars
    <2>2. attached' /\ ~InUse(id)
      BY <1>a, <2>1, Zenon DEF TickInv
    <2>3. TickInv'
      BY <1>a, <1>s, <2>1, <2>2, Zenon DEF TickInv
    <2>4. ExistInv'
      BY <1>a, <1>s, <2>1, <2>2, Zenon DEF ExistInv
    <2> QED BY <1>s, <2>1, <2>2, <2>3, <2>4, Zenon DEF MemberInv
  <1>6. CASE GcPolicy \/ GcTgidMap \/ ApplySpills
    <2>1. /\ Still /\ dpc # "sleep" /\ dpc' \in {"gc_counters", "gc_tgid", "merges"}
          /\ dpc' = "gc_counters" => dpc = "gc_policy"
          /\ UNCHANGED <<tgid_cohort, counters, dead, dead_cohorts, s_tasks, attached>>
      BY ONLY <1>6, SMTT(30) DEF GcPolicy, GcTgidMap, ApplySpills, bpfVars, taskVars, memVars,
         snapVars, loopVars
    <2>2. attached'
      BY <1>a, <2>1, Zenon
    <2>3. TickInv'
      BY <1>a, <1>s, <2>1, <2>2, Zenon DEF TickInv
    <2>4. ExistInv'
      BY <1>a, <1>s, <2>1, <2>2, Zenon DEF ExistInv
    <2> QED BY <1>s, <2>1, <2>2, <2>3, <2>4, Zenon DEF MemberInv
  <1>7. ASSUME NEW g \in Pids, GcTgid(g) PROVE MemberInv'
    <2>1. /\ Still /\ dpc = "gc_tgid"
          /\ tgid_cohort' = [tgid_cohort EXCEPT ![g] = NoCohort]
          /\ UNCHANGED <<dpc, counters, dead, dead_cohorts, s_tasks, attached>>
      BY <1>7, Zenon DEF GcTgid, taskVars, memVars, snapVars
    <2>2. attached' /\ \A h \in Pids : tgid_cohort'[h] \in {NoCohort, tgid_cohort[h]}
      <3>1. attached'
        BY <1>a, <2>1, Zenon
      <3> QED BY <1>a, <2>1, <3>1, Zenon DEF Shape
    <2>3. GroupInv' /\ \A id : id # NoCohort /\ InUse(id)' => InUse(id)
      BY <1>a, <2>1, <2>2, DaemonGroups, Zenon
    <2>4. TickInv'
      BY <1>a, <2>1, Zenon DEF TickInv
    <2>5. ExistInv'
      BY <1>a, <2>1, <2>3, Zenon DEF ExistInv
    <2> QED BY <2>3, <2>4, <2>5, Zenon DEF MemberInv
  <1>8. CASE TickEnd
    <2>1. /\ Still /\ dpc \in {"merges", "splits"} /\ dpc' = "sleep" /\ s_tasks' = {}
          /\ stragglers' = InFlight
          /\ UNCHANGED <<tgid_cohort, counters, dead, dead_cohorts, attached>>
      BY <1>8, Zenon DEF TickEnd, bpfVars, taskVars, memVars
    <2>2. attached'
      BY <1>a, <2>1, Zenon
    <2>3. SleepInv'
      <3>1. \A p \in Pids : Starting(p) => p \in InFlight
        BY Zenon DEF Starting, InFlight, InitPcs
      <3> QED BY <1>s, <2>1, <2>2, <3>1, Zenon DEF SleepInv
    <2>4. TickInv'
      BY <2>1, <2>3, FS_EmptySet, Zenon DEF TickInv
    <2>5. ExistInv'
      BY <1>a, <1>s, <2>1, <2>2, Zenon DEF ExistInv
    <2> QED BY <1>s, <2>1, <2>2, <2>4, <2>5, Zenon DEF MemberInv
  <1> QED
    BY <1>a, <1>1, <1>2, <1>3, <1>4, <1>5, <1>6, <1>7, <1>8, TickSteps, Zenon

\* Everything the theorems about members need, and its preservation.
AllInv == TypeInv /\ IdInv /\ PolicyInv /\ MemberInv

LEMMA AllInit == Init => AllInv
  <1> SUFFICES ASSUME Init PROVE AllInv
    OBVIOUS
  <1>1. TypeInv /\ IdInv /\ PolicyInv
    BY TypeInit, Zenon
       DEF Init, IdInv, NoIdReuse, Creating, PolicyInv, CountersHavePolicy, NoPolicyLeak
  <1>2. /\ pc = [p \in Pids |-> "none"] /\ tgid_cohort = [g \in Pids |-> NoCohort]
        /\ dead_cohorts = {} /\ dead = {} /\ s_tasks = {} /\ dpc = "sleep"
    BY Zenon DEF Init
  <1>3. \A p \in Pids : ~Placed(p) /\ ~Assigned(p) /\ ~Starting(p) /\ pc[p] = "none"
    BY ONLY <1>2, Zenon DEF Placed, Assigned, Starting, InitPcs
  <1>4. GroupInv
    BY <1>2, <1>3, Zenon DEF GroupInv, Cached, OneId, EntryAgrees, Attaching
  <1>5. ExistInv
    <2>1. \A id \in Ids : ~InUse(id)
      BY <1>2, <1>3, IdFacts, Zenon DEF InUse, Mapped
    <2> QED BY <1>2, <2>1, Zenon DEF ExistInv
  <1>6. TickInv
    BY <1>2, FS_EmptySet, Zenon DEF TickInv, SleepInv
  <1> QED BY <1>1, <1>4, <1>5, <1>6, Zenon DEF AllInv, MemberInv

LEMMA AllStep ==
    ASSUME Room, NoPlans, AllInv, [Next]_vars PROVE AllInv'
  <1>1. TypeInv' /\ IdInv'
    BY TypeStep, IdStep, Zenon DEF AllInv
  <1>2. CASE UNCHANGED vars
    <2>1. UNCHANGED <<bpfVars, taskVars, daemonVars, stragglers, retired>>
      BY <1>2, Zenon DEF vars
    <2>2. PolicyInv'
      BY <2>1, NoPolicyWrite, Zenon DEF AllInv, bpfVars, taskVars
    <2>3. MemberInv'
      <3>1. UNCHANGED <<tgid_cohort, counters, attached, dpc, s_tasks, s_tgids, pc, reg,
                        tgid, forker, task_ctxs, task_stats, dead, dead_cohorts,
                        stragglers>>
        BY <2>1, Zenon DEF bpfVars, taskVars, daemonVars, snapVars, loopVars, memVars
      <3>2. GroupInv'
        BY <3>1, Zenon DEF AllInv, MemberInv, GroupInv, Cached, OneId, EntryAgrees,
           Attaching, Placed, IdOf
      <3>3. /\ \A id : (Mapped(id)' <=> Mapped(id)) /\ (InUse(id)' <=> InUse(id))
            /\ \A q \in Pids : Starting(q)' <=> Starting(q)
        BY <3>1, Zenon DEF InUse, Mapped, Assigned, Starting, IdOf
      <3>4. SameStarts
        BY <2>1, <3>1, <3>3, Zenon DEF SameStarts
      <3>5. ExistInv'
        BY <3>1, <3>3, Zenon DEF AllInv, MemberInv, ExistInv
      <3> QED BY <3>2, <3>4, <3>5, TickKept, Zenon DEF AllInv, MemberInv
    <2> QED BY <1>1, <2>2, <2>3, Zenon DEF AllInv
  <1>3. CASE DaemonStep
    BY <1>1, <1>3, DaemonStepPolicies, DaemonStepMembers, Zenon DEF AllInv
  <1>4. CASE \E p \in Pids : TaskStep(p)
    BY <1>1, <1>4, TaskStepPolicies, TaskStepMembers, Zenon DEF AllInv
  <1> QED BY <1>2, <1>3, <1>4, Zenon DEF Next

\* A running task has cached what it resolves to, and that cohort exists.
Resolved ==
    \A p \in Pids : pc[p] = "live" =>
        Resolve(p) = task_ctxs[p] /\ task_ctxs[p] \in counters

LEMMA AllResolved ==
    ASSUME AllInv PROVE Resolved
  <1> SUFFICES ASSUME NEW p \in Pids, pc[p] = "live"
               PROVE  Resolve(p) = task_ctxs[p] /\ task_ctxs[p] \in counters
    BY Zenon DEF Resolved
  <1>1. Resolve(p) = task_ctxs[p] /\ task_ctxs[p] # NoCohort
    BY Zenon DEF AllInv, MemberInv, GroupInv, Cached, EntryAgrees, Placed, IdOf, Resolve
  <1>2. InUse(task_ctxs[p])
    BY Zenon DEF InUse, Assigned, IdOf
  <1>3. task_ctxs[p] \in Ids
    BY <1>1, IdFacts, Shapes, Zenon DEF AllInv, Shape
  <1> QED BY <1>1, <1>2, <1>3, Zenon DEF AllInv, MemberInv, ExistInv

\* Spec => []ResolvedCohortExists when the daemon only
\* collects: however forks, exits, wakeups and reuses of pids and tgids fall
\* between the map operations of the ticks, no cohort is collected that a task
\* resolves to.
THEOREM MembersKeepTheirCohort ==
    ASSUME Room, NoPlans
    PROVE  Spec => []ResolvedCohortExists
  <1>1. ASSUME AllInv PROVE ResolvedCohortExists
    BY <1>1, AllResolved, Zenon
       DEF AllInv, Resolved, ResolvedCohortExists, Live, PolicyInv, CountersHavePolicy
  <1> QED BY <1>1, AllInit, AllStep, PTL DEF Spec

-----------------------------------------------------------------------------
(* The membership service.                                                 *)

\* Every step of the maps is a step of Membership or changes no membership.
LEMMA MembershipStep ==
    ASSUME NoPlans, AllInv, Resolved, AllInv', Resolved', [Next]_vars
    PROVE  [MS!Next]_(MS!vars)
  <1> DEFINE Proc == [p \in Pids |-> IF pc[p] = "live" THEN tgid[p] ELSE p]
             Mem == [p \in Pids |-> IF pc[p] = "live" THEN Resolve(p) ELSE NoCohort]
             ProcN == [p \in Pids |-> IF pc'[p] = "live" THEN tgid'[p] ELSE p]
             MemN == [p \in Pids |-> IF pc'[p] = "live" THEN Resolve(p)' ELSE NoCohort]
             Lives(q) == pc[q] = "live"
             LivesN(q) == pc'[q] = "live"
             SameTask(q) == /\ LivesN(q) <=> Lives(q)
                            /\ Lives(q) => task_ctxs'[q] = task_ctxs[q] /\ tgid'[q] = tgid[q]
  <1>u. counters' = counters /\ retired' = retired /\ ProcN = Proc /\ MemN = Mem
            => UNCHANGED MS!vars
    BY ONLY Zenon DEF MS!vars
  <1>c. ASSUME NEW id \in Ids, id \notin counters \cup retired, counters' = counters \cup {id},
               retired' = retired, ProcN = Proc, MemN = Mem
        PROVE  MS!Next
    <2>1. MS!Create(id)
      BY ONLY <1>c, Zenon DEF MS!Create
    <2> QED BY ONLY <2>1, id \in Ids, Zenon DEF MS!Next
  <1>k. ASSUME NEW id \in Ids, id \in counters, \A p \in Pids : Mem[p] # id,
               counters' = counters \ {id}, retired' = retired \cup {id},
               ProcN = Proc, MemN = Mem
        PROVE  MS!Next
    <2>1. MS!Collect(id)
      BY ONLY <1>k, Zenon DEF MS!Collect
    <2> QED BY ONLY <2>1, id \in Ids, Zenon DEF MS!Next
  <1>j. ASSUME NEW p \in Pids, NEW g \in Pids, NEW id \in Ids,
               Mem[p] = NoCohort, id \in counters,
               \A u \in Pids : Mem[u] # NoCohort /\ Proc[u] = g => Mem[u] = id,
               ProcN = [Proc EXCEPT ![p] = g], MemN = [Mem EXCEPT ![p] = id],
               counters' = counters, retired' = retired
        PROVE  MS!Next
    <2>1. MS!Join(p, g, id)
      BY ONLY <1>j, Zenon DEF MS!Join
    <2> QED BY ONLY <2>1, p \in Pids, g \in Pids, id \in Ids, Zenon DEF MS!Next
  <1>l. ASSUME NEW p \in Pids, Mem[p] # NoCohort,
               ProcN = [Proc EXCEPT ![p] = p], MemN = [Mem EXCEPT ![p] = NoCohort],
               counters' = counters, retired' = retired
        PROVE  MS!Next
    <2>1. MS!Leave(p)
      BY ONLY <1>l, Zenon DEF MS!Leave
    <2> QED BY ONLY <2>1, p \in Pids, Zenon DEF MS!Next
  <1>v. \A p \in Pids :
          /\ Proc[p] = IF Lives(p) THEN tgid[p] ELSE p
          /\ ProcN[p] = IF LivesN(p) THEN tgid'[p] ELSE p
          /\ Mem[p] = IF Lives(p) THEN task_ctxs[p] ELSE NoCohort
          /\ MemN[p] = IF LivesN(p) THEN task_ctxs'[p] ELSE NoCohort
          /\ LivesN(p) => task_ctxs'[p] \in counters'
          /\ Lives(p) => task_ctxs[p] \in counters
    BY ONLY Resolved, Resolved', Zenon DEF Resolved
  <1>d. /\ Proc = [p \in Pids |-> Proc[p]] /\ ProcN = [p \in Pids |-> ProcN[p]]
        /\ Mem = [p \in Pids |-> Mem[p]] /\ MemN = [p \in Pids |-> MemN[p]]
    BY ONLY TRUE, Zenon
  <1> HIDE DEF Proc, Mem, ProcN, MemN
  <1>e. ASSUME \A q \in Pids : SameTask(q)
        PROVE  ProcN = Proc /\ MemN = Mem
    <2>1. \A q \in Pids : ProcN[q] = Proc[q] /\ MemN[q] = Mem[q]
      BY ONLY <1>e, <1>v, Zenon
    <2> QED BY ONLY <1>d, <2>1, Zenon
  <1>t. /\ Shape /\ counters \subseteq Ids /\ NoIdReuse' /\ GroupInv /\ TickInv /\ ExistInv
    BY Shapes, Zenon DEF AllInv, TypeInv, TypeOK, MapsTypeOK, IdInv, MemberInv
  <1>1. CASE DaemonStep
    <2>1. pc' = pc /\ tgid' = tgid
      BY <1>1, DaemonLeavesHandlers, Zenon
    <2>2. task_ctxs' = task_ctxs
      BY ONLY <1>1, ZenonT(60)
         DEF DaemonStep, Attach, SnapshotTasks, SnapshotTgidCohort,
             SnapshotCohorts, GcCounters, GcPolicy, GcTgidMap, GcTgid, ApplySpills, PlanMerge,
             MergeTgid, MergeCounters, MergePolicy, PlanSplit, SplitPolicy,
             SplitCounters, SplitTgid, SplitDone, TickEnd, bpfVars
    <2>3. ProcN = Proc /\ MemN = Mem
      BY ONLY <1>e, <2>1, <2>2, Zenon
    <2>4. ASSUME NEW id \in Ids, GcCounters(id)
          PROVE  MS!Next
      <3>1. /\ id \in dead /\ counters' = counters \ {id}
            /\ retired' = retired \cup ({id} \cap counters)
        BY ONLY <2>4, Zenon DEF GcCounters, DeleteCounters
      <3>2. id \in counters /\ retired' = retired \cup {id}
        BY ONLY <1>t, <3>1, Zenon DEF ExistInv
      <3>3. \A p \in Pids : Mem[p] # id
        BY ONLY <1>v, <2>3, <2>4, <3>1, IdFacts, Zenon
      <3> QED BY ONLY <1>k, <2>3, <3>1, <3>2, <3>3, id \in Ids, Zenon
    <2>5. CASE \A id \in Ids : ~GcCounters(id)
      <3>1. counters' = counters /\ retired' = retired
        <4>1. \/ Attach \/ SnapshotTasks \/ SnapshotTgidCohort \/ SnapshotCohorts
              \/ GcPolicy \/ GcTgidMap \/ (\E g \in Pids : GcTgid(g))
              \/ ApplySpills \/ TickEnd
          BY <1>1, <1>t, <2>5, TickSteps, Zenon DEF AllInv
        <4> QED
          BY ONLY <4>1, ZenonT(60)
             DEF Attach, SnapshotTasks, SnapshotTgidCohort, SnapshotCohorts, GcPolicy,
                 GcTgidMap, GcTgid, ApplySpills, TickEnd, bpfVars
      <3> QED BY ONLY <1>u, <2>3, <3>1, Zenon
    <2> QED BY ONLY <2>4, <2>5, Zenon
  <1>2. ASSUME NEW p \in Pids, TaskStep(p)
        PROVE  [MS!Next]_(MS!vars)
    <2>1. retired' = retired
      BY ONLY <1>2, ZenonT(60)
         DEF TaskStep, AttachTask, ForkNoCtx, Fork, InitTask, InitPolicy,
             InitCounters, InitMap, InitCount, InitStat, Wake, Stopping,
             ExitResolve, ExitCount, ExitStat, ExitSpill
    <2>2. CASE InitStat(p)
      <3>1. /\ pc[p] = "init_stat" /\ pc' = [pc EXCEPT ![p] = "live"]
            /\ task_ctxs' = task_ctxs /\ tgid' = tgid /\ counters' = counters
        BY ONLY <2>2, Zenon DEF InitStat
      <3>2. LivesN(p) /\ ~Lives(p) /\ \A q \in Pids : q # p => SameTask(q)
        BY ONLY <1>t, <1>2, <3>1, Zenon DEF Shape
      <3>3. /\ ProcN[p] = tgid[p] /\ MemN[p] = task_ctxs[p] /\ Mem[p] = NoCohort
            /\ task_ctxs[p] \in counters
            /\ \A q \in Pids : q # p => ProcN[q] = Proc[q] /\ MemN[q] = Mem[q]
        BY ONLY <1>v, <1>2, <3>1, <3>2, Zenon
      <3>4. ProcN = [Proc EXCEPT ![p] = tgid[p]] /\ MemN = [Mem EXCEPT ![p] = task_ctxs[p]]
        BY ONLY <1>d, <1>2, <3>3, Zenon
      <3>5. \A u \in Pids : Mem[u] # NoCohort /\ Proc[u] = tgid[p] => Mem[u] = task_ctxs[p]
        <4>1. Placed(p) /\ IdOf(p) = task_ctxs[p]
          BY ONLY <1>t, <1>2, <3>1, Zenon DEF Placed, InitPcs, IdOf, GroupInv, Cached
        <4>2. \A u \in Pids : Lives(u) => Placed(u) /\ IdOf(u) = task_ctxs[u]
          BY ONLY Zenon DEF Placed, IdOf
        <4>3. \A u \in Pids : Mem[u] # NoCohort => /\ Lives(u) /\ Mem[u] = task_ctxs[u]
                                                 /\ Proc[u] = tgid[u]
          BY ONLY <1>v, Zenon
        <4>4. \A u \in Pids : Placed(u) /\ tgid[u] = tgid[p] => IdOf(u) = IdOf(p)
          BY ONLY <1>t, <1>2, <4>1, Zenon DEF GroupInv, OneId
        <4> QED BY ONLY <4>1, <4>2, <4>3, <4>4, Zenon
      <3>6. tgid[p] \in Pids /\ task_ctxs[p] \in Ids
        BY ONLY <1>t, <1>2, <3>3, Zenon DEF Shape
      <3> QED BY ONLY <1>j, <1>2, <2>1, <3>1, <3>3, <3>4, <3>5, <3>6, Zenon
    <2>3. CASE ExitResolve(p)
      <3>1. /\ pc[p] = "live" /\ pc' = [pc EXCEPT ![p] = "exit_count"]
            /\ task_ctxs' = [task_ctxs EXCEPT ![p] = Resolve(p)]
            /\ tgid' = tgid /\ counters' = counters
        BY ONLY <2>3, Zenon DEF ExitResolve, Live
      <3>2. ~LivesN(p) /\ Lives(p) /\ \A q \in Pids : q # p => SameTask(q)
        BY ONLY <1>t, <1>2, <3>1, Zenon DEF Shape
      <3>3. /\ ProcN[p] = p /\ MemN[p] = NoCohort /\ Mem[p] # NoCohort
            /\ \A q \in Pids : q # p => ProcN[q] = Proc[q] /\ MemN[q] = Mem[q]
        BY ONLY <1>t, <1>v, <1>2, <3>2, IdFacts, Zenon
      <3>4. ProcN = [Proc EXCEPT ![p] = p] /\ MemN = [Mem EXCEPT ![p] = NoCohort]
        BY ONLY <1>d, <1>2, <3>3, Zenon
      <3> QED BY ONLY <1>l, <1>2, <2>1, <3>1, <3>3, <3>4, Zenon
    <2>4. CASE InitCounters(p)
      <3>1. /\ pc[p] = "init_counters" /\ pc' = [pc EXCEPT ![p] = "init_map"]
            /\ task_ctxs' = task_ctxs /\ tgid' = tgid
            /\ counters' \in {counters, counters \cup {reg[p]}}
        BY ONLY <2>4, Zenon DEF InitCounters, Insert
      <3>2. ProcN = Proc /\ MemN = Mem
        <4>1. \A q \in Pids : SameTask(q)
          BY ONLY <1>t, <1>2, <3>1, Zenon DEF Shape
        <4> QED BY ONLY <1>e, <4>1, Zenon
      <3>3. reg[p] \in Ids
        BY ONLY <1>t, <1>2, <3>1, IdFacts, Zenon DEF Shape, HandlerHasId, InitPcs
      <3>4. CASE counters' = counters
        BY ONLY <1>u, <2>1, <3>2, <3>4, Zenon
      <3>5. CASE counters' # counters
        <4>1. counters' = counters \cup {reg[p]} /\ reg[p] \notin counters
          BY ONLY <3>1, <3>5, Zenon
        <4>2. reg[p] \notin retired
          BY ONLY <1>t, <2>1, <4>1, Zenon DEF NoIdReuse
        <4> QED BY ONLY <1>c, <2>1, <3>2, <3>3, <4>1, <4>2, Zenon
      <3> QED BY ONLY <3>4, <3>5, Zenon
    <2>5. CASE ~InitStat(p) /\ ~ExitResolve(p) /\ ~InitCounters(p)
      <3>1. counters' = counters
        BY ONLY <1>2, <2>5, ZenonT(60)
           DEF TaskStep, AttachTask, ForkNoCtx, Fork, InitTask, InitPolicy,
               InitMap, InitCount, Wake, Stopping, ExitCount, ExitStat, ExitSpill
      <3>2. CASE Wake(p) \/ Stopping(p)
        <4>1. pc' = pc /\ tgid' = tgid
          BY ONLY <3>2, Zenon DEF Wake, Stopping, taskVars
        <4>2. \A q \in Pids : Lives(q) => task_ctxs'[q] = task_ctxs[q]
          BY ONLY <1>t, <1>2, <3>2, Resolved, Zenon DEF Wake, Stopping, Live, Resolved, Shape
        <4> QED BY ONLY <1>e, <1>u, <2>1, <3>1, <4>1, <4>2, Zenon
      <3>3. CASE AttachTask(p) \/ ForkNoCtx(p) \/ \E q \in Pids : Fork(p, q)
        <4>1. PICK g, parent, inherited : InitTask(p, g, parent, inherited)
          BY ONLY <3>3, Zenon DEF AttachTask, ForkNoCtx, Fork
        <4>2. /\ pc[p] = "none"
              /\ \E next : next # "live" /\ pc' = [pc EXCEPT ![p] = next]
              /\ \E id : task_ctxs' = [task_ctxs EXCEPT ![p] = id]
              /\ tgid' = [tgid EXCEPT ![p] = g]
          BY ONLY <1>2, <4>1, Zenon DEF InitTask, InitTaskAs, NewCohort, PidFree
        <4>3. \A q \in Pids : SameTask(q)
          BY ONLY <1>t, <1>2, <4>2, Zenon DEF Shape
        <4> QED BY ONLY <1>e, <1>u, <2>1, <3>1, <4>3, Zenon
      <3>4. CASE InitPolicy(p) \/ InitMap(p) \/ InitCount(p) \/ ExitCount(p) \/ ExitStat(p) \/ ExitSpill(p)
        <4>1. /\ pc[p] # "live"
              /\ \E next : next # "live" /\ pc' = [pc EXCEPT ![p] = next]
              /\ task_ctxs' = task_ctxs \/ \E id : task_ctxs' = [task_ctxs EXCEPT ![p] = id]
              /\ tgid' = tgid \/ \E g : tgid' = [tgid EXCEPT ![p] = g]
          BY ONLY <3>4, ZenonT(60)
             DEF InitPolicy, InitMap, InitCount, ExitCount, ExitStat, ExitSpill
        <4>2. \A q \in Pids : q # p => task_ctxs'[q] = task_ctxs[q] /\ tgid'[q] = tgid[q]
          <5>1. task_ctxs \in [Pids -> OptId] /\ tgid \in [Pids -> Pids]
            BY ONLY <1>t, Zenon DEF Shape
          <5>2. \A q \in Pids : q # p => task_ctxs'[q] = task_ctxs[q]
            BY ONLY <4>1, <5>1, Zenon
          <5>3. \A q \in Pids : q # p => tgid'[q] = tgid[q]
            BY ONLY <4>1, <5>1, Zenon
          <5> QED BY ONLY <5>2, <5>3, Zenon
        <4>3. pc'[p] # "live" /\ \A q \in Pids : q # p => pc'[q] = pc[q]
          BY ONLY <1>t, <1>2, <4>1, Zenon DEF Shape
        <4>4. \A q \in Pids : SameTask(q)
          BY ONLY <4>1, <4>2, <4>3, Zenon
        <4> QED BY ONLY <1>e, <1>u, <2>1, <3>1, <4>4, Zenon
      <3> QED BY ONLY <1>2, <2>5, <3>2, <3>3, <3>4, Zenon DEF TaskStep
    <2> QED BY ONLY <2>2, <2>3, <2>4, <2>5, Zenon
  <1>3. CASE UNCHANGED vars
    <2>1. /\ pc' = pc /\ tgid' = tgid /\ task_ctxs' = task_ctxs
          /\ counters' = counters /\ retired' = retired
      BY ONLY <1>3, Zenon DEF vars, bpfVars, taskVars
    <2> QED BY ONLY <1>e, <1>u, <2>1, Zenon
  <1> QED BY ONLY <1>1, <1>2, <1>3, [Next]_vars, Zenon DEF Next

\* Spec => MembershipSpec when the daemon only collects: handlers that look up,
\* create and publish in separate map operations, a collector that works from
\* snapshots, and tgid entries that come and go, together behave like a service
\* that keeps every task in one cohort and removes only empty ones.
THEOREM ImplementsMembership ==
    ASSUME Room, NoPlans
    PROVE  Spec => MembershipSpec
  <1>1. Init => MS!Init
    <2> SUFFICES ASSUME Init PROVE MS!Init
      OBVIOUS
    <2>1. /\ counters = {} /\ retired = {} /\ \A p \in Pids : pc[p] # "live"
      BY Zenon DEF Init
    <2> QED BY ONLY <2>1, Zenon DEF MS!Init
  <1>2. AllInv => Resolved
    BY AllResolved, Zenon
  <1>3. AllInv /\ Resolved /\ AllInv' /\ Resolved' /\ [Next]_vars => [MS!Next]_(MS!vars)
    BY MembershipStep, Zenon
  <1>4. AllInv /\ [Next]_vars => AllInv'
    BY AllStep, Zenon
  <1> QED BY <1>1, <1>2, <1>3, <1>4, AllInit, PTL DEF Spec, MembershipSpec, MS!Spec

-----------------------------------------------------------------------------
(* Counts.                                                                 *)

\* nr_tasks of a cohort that does not exist is zero, as creation leaves it; an
\* exiting task is counted by the cohort it will be taken off.
CountInv ==
    /\ \A id \in Ids :
          nr_tasks[id] = IF id \in counters THEN Cardinality(Counted(id)) ELSE 0
    /\ \A p \in Pids : pc[p] = "exit_count" =>
          task_ctxs[p] = reg[p] /\ reg[p] \in counters \cup retired

IsCounted(p) == pc[p] \in {"init_stat", "live", "exit_count"}

\* There are never as many tasks as nr_tasks has values.
CountsFit == Cardinality(Pids) < NrTasksModulus

LEMMA CountFacts ==
    ASSUME CountsFit, NEW S \in SUBSET Pids
    PROVE  /\ IsFiniteSet(S) /\ Cardinality(S) \in Nat
           /\ Cardinality(S) % NrTasksModulus = Cardinality(S)
           /\ \A p \in S : /\ Cardinality(S) > 0
                           /\ Cardinality(S \ {p}) = Cardinality(S) - 1
           /\ \A p \in Pids : p \notin S => Cardinality(S \cup {p}) = Cardinality(S) + 1
  <1>1. /\ IsFiniteSet(S) /\ Cardinality(S) \in Nat /\ Cardinality(Pids) \in Nat
        /\ Cardinality(S) <= Cardinality(Pids) /\ NrTasksModulus \in Nat
    BY BoundsAssumption, FS_Subset, FS_CardinalityType, Zenon
  <1>2. ASSUME NEW p \in S PROVE /\ Cardinality(S) > 0
                                 /\ Cardinality(S \ {p}) = Cardinality(S) - 1
    <2>1. Cardinality(S) # 0
      BY <1>1, FS_EmptySet, Zenon
    <2>2. Cardinality(S \ {p}) = Cardinality(S) - 1
      BY <1>1, FS_RemoveElement, Zenon
    <2> QED BY <1>1, <2>1, <2>2
  <1>3. ASSUME NEW p \in Pids, p \notin S
        PROVE  Cardinality(S \cup {p}) = Cardinality(S) + 1
    BY <1>1, <1>3, FS_AddElement, Zenon
  <1>4. Cardinality(S) % NrTasksModulus = Cardinality(S)
    BY <1>1 DEF CountsFit
  <1> QED BY ONLY <1>1, <1>2, <1>3, <1>4, Zenon

\* A step after which the same tasks are counted, each by the same cohort.
LEMMA CountsKept ==
    ASSUME CountInv, UNCHANGED <<counters, nr_tasks, retired>>,
           \A q \in Pids : /\ IsCounted(q)' <=> IsCounted(q)
                           /\ IsCounted(q) => task_ctxs'[q] = task_ctxs[q],
           \A q \in Pids : pc'[q] = "exit_count" =>
               task_ctxs'[q] = reg'[q] /\ reg'[q] \in counters \cup retired
    PROVE  CountInv'
  <1>1. ASSUME NEW id PROVE Counted(id)' = Counted(id)
    BY Zenon DEF Counted, IsCounted
  <1> QED BY <1>1, Zenon DEF CountInv

LEMMA TaskStepCounts ==
    ASSUME CountsFit, Room, AllInv, CountInv, NEW p \in Pids, TaskStep(p)
    PROVE  CountInv'
  <1>a. /\ pc \in [Pids -> {"none", "live"} \cup InitPcs \cup ExitPcs]
        /\ reg \in [Pids -> OptId] /\ task_ctxs \in [Pids -> OptId]
        /\ p \in Pids /\ Shape /\ MemberInv /\ GroupInv /\ TypeInv
        /\ nr_tasks \in [Ids -> 0 .. NrTasksModulus - 1]
    BY Shapes, Zenon DEF AllInv, MemberInv, TypeInv, TypeOK, MapsTypeOK, Shape
  <1>b. /\ \A q \in Pids : pc[q] = "exit_count" =>
              task_ctxs[q] = reg[q] /\ reg[q] \in counters \cup retired
        /\ \A id \in Ids :
              nr_tasks[id] = IF id \in counters THEN Cardinality(Counted(id)) ELSE 0
    BY Zenon DEF CountInv
  <1>c. ASSUME NEW q \in Pids, Assigned(q)
        PROVE  IdOf(q) \in counters /\ IdOf(q) \in Ids
    <2>1. IdOf(q) \in Ids
      BY <1>a, <1>c, IdFacts, Zenon
         DEF GroupInv, Cached, IdOf, Assigned, Starting, Shape, HandlerHasId, InitPcs
    <2> QED BY <1>a, <1>c, <2>1, Zenon DEF MemberInv, ExistInv, InUse
  <1>1. ASSUME NEW g, NEW parent, NEW inherited, InitTask(p, g, parent, inherited)
        PROVE  CountInv'
    <2>1. PICK next, id :
             /\ next \in {"init_count", "init_map", "init_policy"}
             /\ pc[p] = "none" /\ pc' = [pc EXCEPT ![p] = next]
             /\ reg' = [reg EXCEPT ![p] = id]
             /\ task_ctxs' = [task_ctxs EXCEPT ![p] = NoCohort]
             /\ UNCHANGED <<counters, nr_tasks, retired>>
      BY ONLY <1>a, <1>1 DEF InitTask, InitTaskAs, NewCohort, PidFree
    <2>2. \A q \in Pids : /\ IsCounted(q)' <=> IsCounted(q)
                          /\ IsCounted(q) => task_ctxs'[q] = task_ctxs[q]
                          /\ pc'[q] = "exit_count" => /\ pc[q] = "exit_count"
                                                      /\ task_ctxs'[q] = task_ctxs[q]
                                                      /\ reg'[q] = reg[q]
      BY ONLY <1>a, <2>1, Zenon DEF IsCounted
    <2> QED BY <1>b, <2>1, <2>2, CountsKept, Zenon
  <1>2. CASE AttachTask(p) \/ ForkNoCtx(p) \/ \E q \in Pids : Fork(p, q)
    BY <1>1, <1>2, Zenon DEF AttachTask, ForkNoCtx, Fork
  <1>3. CASE \/ InitPolicy(p) \/ InitMap(p) \/ InitStat(p) \/ Wake(p) \/ Stopping(p)
             \/ ExitStat(p) \/ ExitSpill(p)
    <2>1. UNCHANGED <<counters, nr_tasks, retired>>
      BY ONLY <1>3, Zenon DEF InitPolicy, InitMap, InitStat, Wake, Stopping, ExitStat,
         ExitSpill
    <2>2. \A q \in Pids : /\ IsCounted(q)' <=> IsCounted(q)
                          /\ IsCounted(q) => task_ctxs'[q] = task_ctxs[q]
                          /\ pc'[q] = "exit_count" => /\ pc[q] = "exit_count"
                                                      /\ task_ctxs'[q] = task_ctxs[q]
                                                      /\ reg'[q] = reg[q]
      <3>1. CASE Wake(p) \/ Stopping(p)
        BY <1>a, <3>1, Refreshes, Zenon DEF taskVars, IsCounted
      <3>2. CASE InitPolicy(p) \/ InitMap(p) \/ InitStat(p)
        BY ONLY <1>a, <3>2, Zenon DEF InitPolicy, InitMap, InitStat, IsCounted
      <3>3. CASE ExitStat(p) \/ ExitSpill(p)
        BY ONLY <1>a, <3>3, Zenon DEF ExitStat, ExitSpill, IsCounted
      <3> QED BY <1>3, <3>1, <3>2, <3>3, Zenon
    <2> QED BY <1>b, <2>1, <2>2, CountsKept, Zenon
  <1>4. CASE ExitResolve(p)
    <2>1. /\ pc[p] = "live" /\ pc' = [pc EXCEPT ![p] = "exit_count"]
          /\ reg' = [reg EXCEPT ![p] = Resolve(p)]
          /\ task_ctxs' = [task_ctxs EXCEPT ![p] = Resolve(p)]
          /\ UNCHANGED <<counters, nr_tasks, retired>>
      BY <1>4, Zenon DEF ExitResolve, Live
    <2>2. Resolve(p) = task_ctxs[p] /\ task_ctxs[p] \in counters
      <3>1. task_ctxs[p] \in counters
        BY <1>c, <2>1, Zenon DEF Assigned, IdOf
      <3> QED BY <1>a, <2>1, <3>1, Zenon DEF GroupInv, EntryAgrees, Placed, IdOf, Resolve
    <2>3. \A q \in Pids : /\ IsCounted(q)' <=> IsCounted(q)
                          /\ task_ctxs'[q] = task_ctxs[q]
                          /\ pc'[q] = "exit_count" =>
                                \/ pc[q] = "exit_count" /\ reg'[q] = reg[q]
                                \/ reg'[q] = task_ctxs[q] /\ task_ctxs[q] \in counters
      BY ONLY <1>a, <2>1, <2>2, Zenon DEF IsCounted
    <2> QED BY <1>b, <2>1, <2>3, CountsKept, Zenon
  <1>5. CASE InitCounters(p)
    <2>1. /\ pc[p] = "init_counters" /\ pc' = [pc EXCEPT ![p] = "init_map"]
          /\ counters' = Insert(counters, reg[p])
          /\ UNCHANGED <<nr_tasks, retired, task_ctxs, reg>>
      BY <1>5, Zenon DEF InitCounters
    <2>2. reg[p] \in Ids /\ counters' = counters \cup {reg[p]}
      <3>1. reg[p] \in Ids /\ counters \in SUBSET Ids
        BY <1>a, <2>1, IdFacts, Zenon
           DEF Shape, HandlerHasId, InitPcs, TypeInv, TypeOK, MapsTypeOK
      <3> QED BY <2>1, <3>1, RoomToInsert, Zenon
    <2>3. \A q \in Pids : /\ IsCounted(q)' <=> IsCounted(q)
                          /\ pc'[q] = "exit_count" <=> pc[q] = "exit_count"
      BY ONLY <1>a, <2>1, Zenon DEF IsCounted
    <2>4. \A id : Counted(id)' = Counted(id)
      BY <2>1, <2>3, Zenon DEF Counted, IsCounted
    <2>5. reg[p] \notin counters \cup retired
      BY <2>1, Zenon DEF AllInv, IdInv, Creating
    <2>6. Counted(reg[p]) = {}
      <3> SUFFICES ASSUME NEW q \in Pids, IsCounted(q), task_ctxs[q] = reg[p]
                   PROVE  FALSE
        BY Zenon DEF Counted, IsCounted
      <3>1. CASE pc[q] = "exit_count"
        BY <1>b, <2>5, <3>1, Zenon
      <3>2. CASE pc[q] \in {"init_stat", "live"}
        <4>1. Assigned(q) /\ IdOf(q) = task_ctxs[q]
          BY <1>a, <3>2, Zenon DEF Assigned, Starting, IdOf, GroupInv, Cached
        <4> QED BY <1>c, <2>5, <4>1, Zenon
      <3> QED BY <3>1, <3>2, Zenon DEF IsCounted
    <2>7. nr_tasks[reg[p]] = Cardinality(Counted(reg[p]))
      BY <1>b, <2>2, <2>5, <2>6, FS_EmptySet, Zenon
    <2>8. \A id \in Ids :
            nr_tasks[id] = IF id \in counters' THEN Cardinality(Counted(id)) ELSE 0
      BY <1>b, <2>2, <2>7, Zenon
    <2> QED BY <1>b, <2>1, <2>2, <2>3, <2>4, <2>8, Zenon DEF CountInv
  <1>6. CASE InitCount(p)
    <2> DEFINE r == reg[p]
    <2>1. /\ pc[p] = "init_count" /\ pc' = [pc EXCEPT ![p] = "init_stat"]
          /\ task_ctxs' = [task_ctxs EXCEPT ![p] = r]
          /\ UNCHANGED <<counters, retired, reg>>
      BY <1>6, Zenon DEF InitCount
    <2>2. r \in counters /\ r \in Ids
      BY <1>c, <2>1, Zenon DEF Assigned, Starting, IdOf
    <2>3. nr_tasks' = [nr_tasks EXCEPT ![r] = (nr_tasks[r] + 1) % NrTasksModulus]
      BY <1>6, <2>2, Zenon DEF InitCount
    <2>4. /\ Counted(r)' = Counted(r) \cup {p} /\ p \notin Counted(r)
          /\ \A id \in Ids : id # r => Counted(id)' = Counted(id)
      BY ONLY <1>a, <2>1, Zenon DEF Counted
    <2>5. nr_tasks'[r] = Cardinality(Counted(r)')
      <3>1. Counted(r) \in SUBSET Pids /\ Counted(r) \cup {p} \in SUBSET Pids
        BY Zenon DEF Counted
      <3>2. Cardinality(Counted(r) \cup {p}) = Cardinality(Counted(r)) + 1
        BY <2>4, <3>1, CountFacts, Zenon
      <3>3. Cardinality(Counted(r) \cup {p}) % NrTasksModulus =
              Cardinality(Counted(r) \cup {p})
        BY <3>1, CountFacts, Zenon
      <3>4. nr_tasks[r] = Cardinality(Counted(r))
        BY <1>b, <2>2, Zenon
      <3> QED BY <1>a, <2>2, <2>3, <2>4, <3>2, <3>3, <3>4, Zenon
    <2>6. \A id \in Ids : id # r => nr_tasks'[id] = nr_tasks[id]
      BY ONLY <1>a, <2>3, Zenon
    <2>7. \A q \in Pids : pc'[q] = "exit_count" =>
            pc[q] = "exit_count" /\ task_ctxs'[q] = task_ctxs[q]
      BY ONLY <1>a, <2>1, Zenon
    <2>8. ASSUME NEW id \in Ids
          PROVE  nr_tasks'[id] = IF id \in counters THEN Cardinality(Counted(id)') ELSE 0
      <3>1. CASE id = r
        BY ONLY <2>1, <2>2, <2>5, <3>1, Zenon DEF Counted
      <3>2. CASE id # r
        BY <1>b, <2>4, <2>6, <3>2, Zenon
      <3> QED BY <3>1, <3>2, Zenon
    <2> QED BY <1>b, <2>1, <2>7, <2>8, Zenon DEF CountInv
  <1>7. CASE ExitCount(p)
    <2> DEFINE r == reg[p]
    <2>1. /\ pc[p] = "exit_count" /\ pc' = [pc EXCEPT ![p] = "exit_stat"]
          /\ UNCHANGED <<counters, retired, task_ctxs, reg>>
      BY <1>7, Zenon DEF ExitCount
    <2>2. task_ctxs[p] = r
      BY <1>b, <2>1, Zenon
    <2>3. /\ Counted(r)' = Counted(r) \ {p} /\ p \in Counted(r)
          /\ \A id \in Ids : id # r => Counted(id)' = Counted(id)
      BY ONLY <1>a, <2>1, <2>2, Zenon DEF Counted
    <2>4. \A q \in Pids : pc'[q] = "exit_count" => pc[q] = "exit_count"
      BY ONLY <1>a, <2>1, Zenon
    <2>5. ASSUME NEW id \in Ids
          PROVE  nr_tasks'[id] = IF id \in counters THEN Cardinality(Counted(id)') ELSE 0
      <3>1. CASE r \notin counters
        <4>1. nr_tasks' = nr_tasks
          BY <1>7, <3>1, Zenon DEF ExitCount
        <4> QED BY <1>b, <2>3, <3>1, <4>1, Zenon
      <3>2. CASE r \in counters
        <4>1. r \in Ids
          BY <1>a, <3>2, Zenon DEF TypeInv, TypeOK, MapsTypeOK
        <4>2. nr_tasks' = [nr_tasks EXCEPT ![r] = (nr_tasks[r] - 1) % NrTasksModulus]
          BY <1>7, <3>2, Zenon DEF ExitCount
        <4>3. id # r => nr_tasks'[id] = nr_tasks[id]
          BY ONLY <1>a, <4>2, id \in Ids, Zenon
        <4>4. nr_tasks'[r] = Cardinality(Counted(r)')
          <5>1. Counted(r) \in SUBSET Pids /\ Counted(r) \ {p} \in SUBSET Pids
            BY Zenon DEF Counted
          <5>2. Cardinality(Counted(r) \ {p}) = Cardinality(Counted(r)) - 1
            BY <2>3, <5>1, CountFacts, Zenon
          <5>3. Cardinality(Counted(r) \ {p}) % NrTasksModulus =
                  Cardinality(Counted(r) \ {p})
            BY <5>1, CountFacts, Zenon
          <5>4. nr_tasks[r] = Cardinality(Counted(r))
            BY <1>b, <3>2, <4>1, Zenon
          <5> QED BY <1>a, <2>3, <4>1, <4>2, <5>2, <5>3, <5>4, Zenon
        <4>5. id = r => nr_tasks'[id] = Cardinality(Counted(id)')
          BY ONLY <2>1, <4>4, Zenon DEF Counted
        <4> QED BY <1>b, <2>3, <3>2, <4>3, <4>5, Zenon
      <3> QED BY <3>1, <3>2, Zenon
    <2> QED BY <1>b, <2>1, <2>4, <2>5, Zenon DEF CountInv
  <1> QED BY <1>2, <1>3, <1>4, <1>5, <1>6, <1>7, Zenon DEF TaskStep

LEMMA DaemonStepCounts ==
    ASSUME NoPlans, AllInv, CountInv, DaemonStep
    PROVE  CountInv'
  <1>1. ASSUME NEW id \in Ids, GcCounters(id) PROVE CountInv'
    <2>1. /\ counters' = counters \ {id} /\ retired' = retired \cup {id}
          /\ nr_tasks' = [nr_tasks EXCEPT ![id] = 0]
          /\ UNCHANGED <<pc, task_ctxs, reg>>
      <3>1. id \in counters
        BY <1>1, Zenon DEF GcCounters, AllInv, MemberInv, ExistInv
      <3> QED BY <1>1, <3>1, Zenon DEF GcCounters, DeleteCounters, taskVars
    <2>2. \A x : Counted(x)' = Counted(x)
      BY <2>1, Zenon DEF Counted
    <2>3. /\ nr_tasks'[id] = 0
          /\ \A x \in Ids : x # id => nr_tasks'[x] = nr_tasks[x]
      BY <2>1, Zenon DEF AllInv, TypeInv, TypeOK, MapsTypeOK
    <2>4. \A x \in Ids :
            nr_tasks'[x] = IF x \in counters' THEN Cardinality(Counted(x)') ELSE 0
      BY <2>1, <2>2, <2>3, Zenon DEF CountInv
    <2> QED BY <2>1, <2>4, Zenon DEF CountInv
  <1>2. CASE \/ Attach \/ SnapshotTasks \/ SnapshotTgidCohort \/ SnapshotCohorts
             \/ GcPolicy \/ GcTgidMap \/ (\E g \in Pids : GcTgid(g))
             \/ ApplySpills \/ TickEnd
    <2>1. UNCHANGED <<counters, nr_tasks, retired, pc, task_ctxs, reg>>
      BY ONLY <1>2, Zenon
         DEF Attach, SnapshotTasks, SnapshotTgidCohort, SnapshotCohorts, GcPolicy,
             GcTgidMap, GcTgid, ApplySpills, TickEnd, bpfVars, taskVars
    <2> QED BY <2>1, CountsKept, Zenon DEF IsCounted, CountInv
  <1> QED BY <1>1, <1>2, TickSteps, Zenon DEF AllInv, MemberInv

\* Spec => []NrTasksExact when the daemon only collects and
\* nr_tasks can hold every count: in any interleaving the counter of a cohort is
\* the number of its tasks between their increment in init_task and their
\* decrement in exit_task, because a task is taken off the cohort it was put on.
THEOREM MembersCounted ==
    ASSUME Room, NoPlans, CountsFit
    PROVE  Spec => []NrTasksExact
  <1>1. Init => CountInv
    BY FS_EmptySet DEF Init, CountInv
  <1>2. ASSUME AllInv, CountInv, [Next]_vars PROVE CountInv'
    <2>1. CASE UNCHANGED vars
      <3>1. UNCHANGED <<counters, nr_tasks, retired, pc, task_ctxs, reg>>
        BY <2>1, Zenon DEF vars, bpfVars, taskVars
      <3> QED BY <1>2, <3>1, CountsKept, Zenon DEF IsCounted, CountInv
    <2> QED BY <1>2, <2>1, TaskStepCounts, DaemonStepCounts, Zenon DEF Next
  <1>3. AllInv /\ CountInv => NrTasksExact
    BY Zenon DEF AllInv, TypeInv, TypeOK, MapsTypeOK, CountInv, NrTasksExact
  <1> QED BY <1>1, <1>2, <1>3, AllInit, AllStep, PTL DEF Spec

=============================================================================
