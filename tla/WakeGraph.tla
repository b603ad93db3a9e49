------------------------------ MODULE WakeGraph ------------------------------
(***************************************************************************)
(* Relationship discovery: WakeGraph (wake_graph.rs) and the part of a     *)
(* daemon tick that feeds it and applies its plans (discover_relationships *)
(* in main.rs).  Wake rates between processes merge cohorts that talk and  *)
(* split cohorts whose processes no longer do.                             *)
(*                                                                         *)
(* Abstractions.  A rate is an integer and the weight alpha of the moving  *)
(* average is 1/AlphaInv.  An edge the HashMap does not hold is an edge    *)
(* with all fields 0, which is what inserting and dropping it amount to.   *)
(* A tick is one step: what other writers of the maps do while it runs is  *)
(* the subject of CohortMaps.  A cohort without members, which the planner *)
(* never sees, is gone a tick later.  A task runs between two ticks, so    *)
(* its TaskStat names the cohort tgid_cohort maps its process to.          *)
(***************************************************************************)
EXTENDS Integers, FiniteSets, FiniteSetsExt

CONSTANTS
    Tgids,           \* processes, by number
    Edges,           \* pairs of processes that may wake each other
    NTasks,          \* tasks of each process
    None,
    Traffic,         \* bound: wakes per second an edge may have in one tick
    AlphaInv,        \* (dt_s + rate_tau_s) / dt_s
    MergeRate, MergeConfirm,                 \* WakeGraphCfg, merging
    SplitMin, SplitConfirm, SplitMinTasks,   \* WakeGraphCfg, splitting
    MaxIds,          \* bound: cohorts at any time, and as many new ones
    Mortal           \* processes that may exit, and start again

Ids == 1 .. MaxIds

ASSUME WakeGraphAssumption ==
    /\ IsFiniteSet(Tgids) /\ Tgids # {} /\ Tgids \subseteq Ids
    /\ \A e \in Edges : \E a, b \in Tgids : a # b /\ e = {a, b}
    /\ NTasks \in [Tgids -> Nat \ {0}]
    /\ None \notin Nat
    /\ Traffic \subseteq Nat
    /\ AlphaInv \in Nat \ {0}
    /\ MergeRate \in Nat \ {0} /\ MergeConfirm \in Nat \ {0}
    /\ SplitMin \in Nat \ {0} /\ SplitConfirm \in Nat \ {0}
    /\ SplitMinTasks \in Nat
    /\ MaxIds \in Nat /\ MaxIds >= 2 * Cardinality(Tgids) /\ Mortal \subseteq Tgids

VARIABLES
    cohort,          \* tgid_cohort: tgid -> cohort id or None
    live,            \* keys of cohort_policy
    traffic,         \* wakes per second since the last tick, by edge
    rate, over_ticks,   \* EdgeState; over_ticks up to MergeConfirm
    split_streak,    \* WakeGraph::split_streak, 0 for an absent entry
    alive,           \* processes with a task
    dead_tgids,      \* Scheduler::dead_tgids
    steady,          \* the environment: from here on the load stays as it is
    (* history *)
    hot,             \* ticks in a row the edge was over the merge rate
    broken           \* ticks in a row the cohort was disconnected

graph == <<rate, over_ticks, split_streak>>
procs == <<alive, dead_tgids>>
history == <<hot, broken>>
vars == <<cohort, live, traffic, graph, procs, steady, history>>

-----------------------------------------------------------------------------
Members(c) == {g \in Tgids : cohort[g] = c}
Mapped(e) == \A g \in e : cohort[g] # None
CohortsOf(e) == {cohort[g] : g \in e}
Crosses(e) == Mapped(e) /\ Cardinality(CohortsOf(e)) = 2
Size(gs) == MapThenSumSet(LAMBDA g : NTasks[g], gs \cap alive)

\* n new ids.  The allocators never hand out an id twice; here an id nothing
\* refers to any more is as good as a new one.
Fresh(n) == {s \in kSubset(n, Ids \ live) : \A i \in s, j \in (Ids \ live) \ s : i < j}

Capped(n, max) == IF n < max THEN n ELSE max

\* Any grouping of the running processes, as fork lineage made it.  Which id a
\* cohort has does not matter: here, that of its lowest member.
Init ==
    /\ cohort \in {f \in [Tgids -> Tgids] : \A g \in Tgids : f[g] <= g /\ f[f[g]] = f[g]}
    /\ live = {cohort[g] : g \in Tgids}
    /\ traffic \in [Edges -> Traffic]
    /\ rate = [e \in Edges |-> 0]
    /\ over_ticks = [e \in Edges |-> 0]
    /\ split_streak = [c \in Ids |-> 0]
    /\ alive = Tgids /\ dead_tgids = {} /\ steady = FALSE
    /\ hot = [e \in Edges |-> 0]
    /\ broken = [c \in Ids |-> 0]

\* The traffic of an interval changes; a process that is gone has none.
Interval ==
    /\ ~steady
    /\ traffic' \in {t \in [Edges -> Traffic] :
                        \A e \in Edges : e \subseteq alive \/ t[e] = 0}
    /\ UNCHANGED <<cohort, live, graph, procs, steady, history>>

\* A process exits; its tgid_cohort entry and its edges stay.  Tgids are given
\* out in turn: one is not reused and freed again between two ticks.
Exit(g) ==
    /\ ~steady
    /\ g \in alive \cap Mortal
    /\ g \notin dead_tgids
    /\ alive' = alive \ {g}
    /\ UNCHANGED <<cohort, live, traffic, graph, dead_tgids, steady, history>>

\* A process with the same tgid starts: under the old entry if that is not
\* collected yet, else in its parent's cohort or in a new one.
Start(g) ==
    /\ ~steady
    /\ g \notin alive
    /\ alive' = alive \cup {g}
    /\ \/ /\ cohort[g] # None
          /\ UNCHANGED <<cohort, live>>
       \/ /\ cohort[g] = None
          /\ \E parent \in alive : cohort' = [cohort EXCEPT ![g] = cohort[parent]]
          /\ UNCHANGED live
       \/ /\ cohort[g] = None
          /\ \E new \in Fresh(1) : \E id \in new :
                /\ cohort' = [cohort EXCEPT ![g] = id]
                /\ live' = live \cup {id}
    /\ UNCHANGED <<traffic, graph, dead_tgids, steady, history>>

\* Traffic and processes stop changing, at any time at which all processes run.
Calm ==
    /\ ~steady /\ alive = Tgids
    /\ steady' = TRUE
    /\ UNCHANGED <<cohort, live, traffic, graph, procs, history>>

-----------------------------------------------------------------------------
(* observe                                                                 *)

\* The blended rate; an edge decayed to noise is dropped.
Blend(r, i) == r + ((i - r) \div AlphaInv)
Noise(r) == r * 10 < SplitMin

\* Mutant: only the wakes between cohorts are counted.
ObserveCrossing ==
    rate' = [e \in Edges |->
          LET r == Blend(rate[e], IF Crosses(e) THEN traffic[e] ELSE 0)
          IN  IF Noise(r) THEN 0 ELSE r]

Observe ==
    rate' = [e \in Edges |->
          LET r == Blend(rate[e], traffic[e]) IN IF Noise(r) THEN 0 ELSE r]

\* Mutant: observe inserts the edge anew.
KeptNever(e) == 0

\* over_ticks as observe leaves it.
Kept(e) == IF Noise(Blend(rate[e], traffic[e])) THEN 0 ELSE over_ticks[e]

-----------------------------------------------------------------------------
(* merges and apply_merge                                                  *)

\* Over the merge rate, by the average and by this tick's own rate (EdgeState's
\* inst, which is not read before the next tick overwrites it).
Over(e) == rate'[e] >= MergeRate /\ traffic[e] >= MergeRate

\* Mutant: the counter survives while both processes are in one cohort.
CountInside(e) ==
    IF ~Mapped(e) \/ ~Crosses(e) THEN Kept(e)
    ELSE IF Over(e) THEN Capped(Kept(e) + 1, MergeConfirm)
    ELSE 0

\* The confirmation counter before a merge resets it.  An edge of a process
\* without a cohort is skipped as it is.
Count(e) ==
    IF ~Mapped(e) THEN Kept(e)
    ELSE IF Crosses(e) /\ Over(e) THEN Capped(Kept(e) + 1, MergeConfirm)
    ELSE 0

Confirmed == {e \in Edges : Crosses(e) /\ Over(e) /\ Count(e) >= MergeConfirm}

\* Mutant: a cohort may take part in several merges of a tick.
MergeSetsAll == {Confirmed}

\* The edges merges acts on.  The HashMap is read in any order, and an edge is
\* passed over if one of its cohorts takes part in a merge already.
MergeSets ==
    {m \in SUBSET Confirmed :
        /\ \A e, f \in m : e # f => CohortsOf(e) \cap CohortsOf(f) = {}
        /\ \A e \in Confirmed \ m : \E f \in m : CohortsOf(e) \cap CohortsOf(f) # {}}

\* The larger cohort absorbs the smaller one; of equals, that of the lower tgid.
Plan(e) ==
    LET ca == cohort[Min(e)]
        cb == cohort[Max(e)]
    IN  IF Size(Members(ca)) >= Size(Members(cb))
        THEN [into |-> ca, from |-> cb] ELSE [into |-> cb, from |-> ca]

AfterMerges(ps) ==
    [g \in Tgids |->
        IF \E p \in ps : p.from = cohort[g]
        THEN (CHOOSE p \in ps : p.from = cohort[g]).into
        ELSE cohort[g]]

-----------------------------------------------------------------------------
(* splits and apply_split                                                  *)

\* Mutant: the traffic of this tick alone decides what is connected.
ConnectsNow(e) == traffic[e] >= SplitMin

Connects(e) == rate'[e] >= SplitMin

\* The classes of the union-find: the smallest sets of members that no edge
\* above the split rate leaves.
Closed(s, gs) ==
    \A e \in Edges : e \subseteq gs /\ Connects(e) /\ e \cap s # {} => e \subseteq s
Components(c) ==
    LET closed == {s \in (SUBSET Members(c)) \ {{}} : Closed(s, Members(c))}
    IN  {s \in closed : \A t \in closed : t \subseteq s => t = s}

\* From here on comps is the Components of every cohort in the snapshot.
Disconnected(c, comps) == Cardinality(comps[c]) >= 2
Due(c, comps) == Disconnected(c, comps) /\ split_streak[c] + 1 >= SplitConfirm

\* What is split off: everything but a largest component and components
\* under the footprint floor.
SplitOffs(parts) ==
    {{s \in parts \ {k} : Size(s) >= SplitMinTasks} :
        k \in {k \in parts : \A s \in parts : Size(k) >= Size(s)}}

\* The split plans of a tick, one choice per cohort; apply_split skips a cohort
\* whose policy a merge of the same tick has deleted.
Splits(gone, comps) ==
    LET due == {c \in live \ gone : Due(c, comps)}
        offs == [c \in due |-> SplitOffs(comps[c])]
    IN  {UNION {f[c] : c \in due} :
            f \in {f \in [due -> UNION {offs[c] : c \in due}] :
                      \A c \in due : f[c] \in offs[c]}}

\* Mutant: the streak survives a tick in which the cohort is connected.
StreakKept(c, comps) ==
    IF c \notin live \/ Due(c, comps) THEN 0
    ELSE IF Disconnected(c, comps) THEN split_streak[c] + 1 ELSE split_streak[c]

Streak(c, comps) ==
    IF c \in live /\ Disconnected(c, comps) /\ ~Due(c, comps)
    THEN split_streak[c] + 1 ELSE 0

-----------------------------------------------------------------------------
\* What a tick adds to history.
History(comps) ==
    /\ hot' = [e \in Edges |->
          IF Over(e) /\ (Mapped(e) => Crosses(e)) THEN Capped(hot[e] + 1, MergeConfirm) ELSE 0]
    /\ broken' = [c \in Ids |->
          IF c \in live /\ Disconnected(c, comps)
          THEN Capped(broken[c] + 1, SplitConfirm) ELSE 0]

\* gc_tgid_map: the entry of a process without tasks goes when a second tick
\* in a row finds it so.
Unseen == {g \in Tgids \ alive : cohort[g] # None}
Collected == Unseen \cap dead_tgids

\* discover_relationships: merges, apply_merge, splits, apply_split.  All plans
\* are made from the tgid_cohort snapshot of the tick, but neither merge nor
\* split writes an entry that was collected meanwhile.
Discover(m, comps) ==
    LET ps == {Plan(e) : e \in m}
        gone == {p.from : p \in ps}
    IN
    \E offs \in Splits(gone, comps) : \E new \in Fresh(Cardinality(offs)) :
        /\ \E id \in Bijection(offs, new) :
              cohort' = [g \in Tgids |->
                  IF g \in Collected THEN None
                  ELSE IF \E s \in offs : g \in s
                  THEN id[CHOOSE s \in offs : g \in s]
                  ELSE AfterMerges(ps)[g]]
        /\ live' = {c \in live \ gone : Members(c) # {}} \cup new

Tick ==
    /\ Observe
    /\ \E m \in MergeSets :
       \E comps \in {[c \in live |-> Components(c)]} :
          /\ Discover(m, comps)
          /\ over_ticks' = [e \in Edges |-> IF e \in m THEN 0 ELSE Count(e)]
          /\ split_streak' = [c \in Ids |-> Streak(c, comps)]
          /\ History(comps)
    /\ dead_tgids' = Unseen \ dead_tgids
    /\ traffic' = [e \in Edges |-> IF e \subseteq alive THEN traffic[e] ELSE 0]
    /\ UNCHANGED <<alive, steady>>

Next == Tick \/ Interval \/ Calm \/ \E g \in Tgids : Exit(g) \/ Start(g)
Spec == Init /\ [][Next]_vars

\* The daemon's loop runs for ever; only under steady traffic is that needed.
FairSpec == Spec /\ WF_vars(steady /\ Tick)

-----------------------------------------------------------------------------
(* Properties                                                              *)

\* Maps, rates and counters hold values of their kind.
TypeOK ==
    /\ cohort \in [Tgids -> Ids \cup {None}]
    /\ live \subseteq Ids
    /\ traffic \in [Edges -> Nat] /\ rate \in [Edges -> Nat]
    /\ over_ticks \in [Edges -> 0 .. MergeConfirm]
    /\ split_streak \in [Ids -> 0 .. SplitConfirm - 1]
    /\ alive \subseteq Tgids /\ dead_tgids \subseteq Tgids /\ steady \in BOOLEAN

\* A process belongs to a cohort that exists, whatever merges and splits one
\* tick applies from one snapshot (one merge per cohort per tick; apply_split
\* skips a cohort that was merged away).
MembersHaveCohort == \A g \in Tgids : cohort[g] # None => cohort[g] \in live

\* "A merge needs the cross-cohort wake rate to stay above threshold for
\* merge_confirm_ticks consecutive ticks": a cohort is merged away only if an
\* edge of its own was over the rate in each of the last ticks.
MergesConfirmed ==
    [][\A c \in {d \in live \ live' : Members(d) # {}} :
          \E e \in Edges : c \in CohortsOf(e) /\ hot'[e] >= MergeConfirm]_vars

\* Two processes that wake each other above the split rate are never separated,
\* not even by a tick that also merges one of their cohorts.
TalkersStayTogether ==
    [][\A e \in Edges :
          Mapped(e) /\ ~Crosses(e) /\ rate'[e] >= SplitMin
             => Cardinality({cohort'[g] : g \in e \ {h \in e : cohort'[h] = None}}) <= 1]_vars

\* "A split needs a cohort's internal wake graph to stay disconnected for
\* split_confirm_ticks ticks": a cohort loses a process, other than by exit or
\* merge, only if it was disconnected in each of the last ticks.
SplitsConfirmed ==
    [][\A c \in live \cap live' :
          (\E g \in Members(c) : cohort'[g] \notin {c, None})
             => broken'[c] >= SplitConfirm]_vars

\* Once the traffic stays the same, whatever it and the processes did before,
\* merging and splitting come to rest ...
Settles == <>[][steady => cohort' = cohort]_vars

\* ... with every pair that keeps waking each other at the merge rate in one
\* cohort.
TalkersJoin ==
    <>[](steady => \A e \in Edges :
            rate[e] >= MergeRate /\ traffic[e] >= MergeRate
                => Cardinality(CohortsOf(e)) = 1)

=============================================================================
