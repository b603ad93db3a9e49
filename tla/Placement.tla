------------------------------ MODULE Placement ------------------------------
(***************************************************************************)
(* Placement: where cohorts live and which of their tasks run elsewhere.   *)
(* Once per tick the daemon pins cohorts by rule (apply_rules), moves at   *)
(* most one cohort to another LLC (Balancer::plan and apply) and computes  *)
(* the spill set (plan_spills and apply_spills), from what ran during the  *)
(* interval that just ended.                                               *)
(*                                                                         *)
(* Nobody else writes a home, a pin or the remembered spill set, so a tick *)
(* is one step here; how its map writes interleave with the BPF side is    *)
(* the subject of CohortMaps.  Interval is the environment: the time that  *)
(* passes, how long each task ran, on which LLC, and which tasks exited.   *)
(*                                                                         *)
(* Abstractions.  One unit stands for a slice of a tick's runtime.  The    *)
(* rule a task matches does not change while it lives, and no task starts  *)
(* after the first tick: forks change loads and members, which Interval    *)
(* does already.  An instant of the last move is kept as its age, up to    *)
(* MaxAge; an unknown cohort has that age.  A cohort without tasks is      *)
(* collected and its id never returns (CohortMaps, NoIdReuse).             *)
(***************************************************************************)
EXTENDS Integers, FiniteSets, FiniteSetsExt

CONSTANTS
    NrLlcs,          \* LLCs are 0 .. NrLlcs - 1
    Cap,             \* LLC -> capacity_ns
    Cohorts, Tasks,
    CohortOf,        \* task -> cohort
    Weight,          \* task -> p->scx.weight / 100
    PinCcd,          \* task -> pin_ccd of the rule it matches, or None
    Residency,       \* task -> min_ccd_residency_ms of that rule, or None
    None,
    Duties,          \* bound: runtimes a task may have in one interval
    ExecLoads,       \* bound: loads an LLC may have executed in one interval
    Elapsed,         \* bound: times between two ticks
    MaxAge,          \* bound: ages of a move beyond this are one
    ImbalancePct, ConfirmTicks, ResidencyMs,   \* BalancerCfg
    HighPct, LowPct, ColdCeiling               \* SpillCfg; tick_ns * cold_max_pct / 100

Llcs == 0 .. NrLlcs - 1

ASSUME PlacementAssumption ==
    /\ NrLlcs \in Nat \ {0}
    /\ IsFiniteSet(Cohorts) /\ IsFiniteSet(Tasks)
    /\ Cap \in [Llcs -> Nat] /\ CohortOf \in [Tasks -> Cohorts]
    /\ Weight \in [Tasks -> Nat \ {0}]
    /\ None \notin Nat
    /\ PinCcd \in [Tasks -> Nat \cup {None}]
    /\ Duties \subseteq Nat /\ ExecLoads \subseteq Nat /\ Elapsed \subseteq Nat
    /\ MaxAge \in Nat /\ ResidencyMs \in 0 .. MaxAge
    /\ Residency \in [Tasks -> (0 .. MaxAge) \cup {None}]
    /\ ImbalancePct \in Nat /\ ConfirmTicks \in Nat \ {0}
    /\ HighPct \in Nat /\ LowPct \in Nat /\ LowPct <= HighPct /\ ColdCeiling \in Nat

VARIABLES
    home,            \* CohortPolicy::home_llc
    pinned,          \* cohorts with COHORT_PINNED
    age,             \* time since last_move_at
    streak,          \* Balancer::streak, up to ConfirmTicks
    spills,          \* current_spills: task -> LLC or None
    alive,           \* tasks that exist
    duty,            \* TaskSnapshot::duty_ns
    exec,            \* LlcLoad::load_ns
    phase,           \* "interval" or "tick"
    (* history *)
    hot_ticks,       \* over-threshold ticks in a row without a move
    since            \* time since the balancer last moved the cohort

vars == <<home, pinned, age, streak, spills, alive, duty, exec, phase, hot_ticks, since>>

-----------------------------------------------------------------------------
Members(c) == {t \in alive : CohortOf[t] = c}
Snapshot == {c \in Cohorts : Members(c) # {}}

\* load_ns of a set of tasks: weight-scaled runtime.
Load(ts) == MapThenSumSet(LAMBDA t : duty[t] * Weight[t], ts)
CohortLoad(c) == Load(Members(c))

\* Where a task's runtime is spent when nothing is stolen.
PlacedOn(t) == IF spills[t] # None THEN spills[t] ELSE home[CohortOf[t]]

Older(a, dt) == Min({a + dt, MaxAge})

Init ==
    /\ home \in [Cohorts -> Llcs]
    /\ pinned = {}
    /\ age = [c \in Cohorts |-> MaxAge]
    /\ streak = 0
    /\ spills = [t \in Tasks |-> None]
    /\ alive = Tasks
    /\ duty \in [Tasks -> Duties]
    /\ exec = [l \in Llcs |-> 0]
    /\ phase = "interval"
    /\ hot_ticks = 0
    /\ since = [c \in Cohorts |-> MaxAge]

Sleep(dt) ==
    /\ phase = "interval"
    /\ phase' = "tick"
    /\ age' = [c \in Cohorts |-> Older(age[c], dt)]
    /\ since' = [c \in Cohorts |-> Older(since[c], dt)]
    /\ UNCHANGED <<home, pinned, streak, spills, hot_ticks>>

\* The tasks run for any time on any LLC (idle search, stealing and affinity
\* are free to do so), and some exit.
Interval ==
    /\ \E dt \in Elapsed : Sleep(dt)
    /\ duty' \in [Tasks -> Duties]
    /\ exec' \in [Llcs -> ExecLoads]
    /\ alive' \in SUBSET alive

\* The steady state: the tasks run as long as before and where they are placed.
SteadyInterval ==
    /\ \E dt \in Elapsed : Sleep(dt)
    /\ exec' = [l \in Llcs |-> Load({t \in alive : PlacedOn(t) = l})]
    /\ UNCHANGED <<duty, alive>>

-----------------------------------------------------------------------------
(* apply_rules                                                             *)

\* The homes that rules ask for, one of them wins; CCDs are clamped.
PinTargets(c) ==
    {Min({PinCcd[t], NrLlcs - 1}) : t \in {u \in Members(c) : PinCcd[u] # None}}

Overrides(c) == {Residency[t] : t \in Members(c)} \ {None}
ResidencyOf(c) == IF Overrides(c) = {} THEN ResidencyMs ELSE Max(Overrides(c))

\* A home for every cohort: the one it has, or the one a rule pins it to.
RuleHomes ==
    {h \in [Cohorts -> Llcs] :
        \A c \in Cohorts : IF PinTargets(c) = {} THEN h[c] = home[c]
                                                 ELSE h[c] \in PinTargets(c)}

-----------------------------------------------------------------------------
(* Balancer::plan, with the homes h and the pins ps the rules left.        *)

\* max_by_key takes the last maximum and min_by_key the first minimum.
MaxLlc == Max({l \in Llcs : \A k \in Llcs : exec[k] <= exec[l]})
MinLlc == Min({l \in Llcs : \A k \in Llcs : exec[l] <= exec[k]})
Gap == exec[MaxLlc] - exec[MinLlc]
Threshold == (Cap[MinLlc] * ImbalancePct) \div 100
Hot == NrLlcs >= 2 /\ Gap > Threshold

\* What the gap becomes when a cohort of this load moves.
GapAfter(load) == IF Gap >= 2 * load THEN Gap - 2 * load ELSE 2 * load - Gap

\* Mutants: a cohort as large as the gap moves, any cohort moves whatever the
\* gap becomes, only one below half the gap moves.
CandidateMirrors(c, h, ps) ==
    /\ c \in Snapshot
    /\ h[c] = MaxLlc
    /\ c \notin ps
    /\ CohortLoad(c) > 0 /\ CohortLoad(c) <= Cap[MinLlc]
    /\ age[c] >= ResidencyOf(c)
    /\ GapAfter(CohortLoad(c)) <= Gap

CandidateAnyGap(c, h, ps) ==
    /\ c \in Snapshot
    /\ h[c] = MaxLlc
    /\ c \notin ps
    /\ CohortLoad(c) > 0 /\ CohortLoad(c) <= Cap[MinLlc]
    /\ age[c] >= ResidencyOf(c)

CandidateHalfGap(c, h, ps) ==
    /\ c \in Snapshot
    /\ h[c] = MaxLlc
    /\ c \notin ps
    /\ CohortLoad(c) > 0 /\ CohortLoad(c) <= Cap[MinLlc]
    /\ age[c] >= ResidencyOf(c)
    /\ 2 * CohortLoad(c) <= Gap

Candidate(c, h, ps) ==
    /\ c \in Snapshot
    /\ h[c] = MaxLlc
    /\ c \notin ps
    /\ CohortLoad(c) > 0 /\ CohortLoad(c) <= Cap[MinLlc]
    /\ age[c] >= ResidencyOf(c)
    /\ GapAfter(CohortLoad(c)) < Gap

Best(c, h, ps) ==
    /\ Candidate(c, h, ps)
    /\ \A d \in Cohorts : Candidate(d, h, ps) =>
          \/ GapAfter(CohortLoad(c)) < GapAfter(CohortLoad(d))
          \/ /\ GapAfter(CohortLoad(c)) = GapAfter(CohortLoad(d))
             /\ CohortLoad(c) <= CohortLoad(d)

\* A cohort that left the snapshot is forgotten (retain_cohorts).
Known == [c \in Cohorts |-> IF c \in Snapshot THEN age[c] ELSE MaxAge]

Stay(h) ==
    /\ home' = h
    /\ age' = Known

\* Mutants: the move not recorded, the streak not reset.
MoveNotRecorded(c, h) ==
    /\ home' = [h EXCEPT ![c] = MinLlc]
    /\ age' = Known
    /\ streak' = 0

MoveKeepsStreak(c, h) ==
    /\ home' = [h EXCEPT ![c] = MinLlc]
    /\ age' = [Known EXCEPT ![c] = 0]
    /\ streak' = ConfirmTicks

Move(c, h) ==
    /\ home' = [h EXCEPT ![c] = MinLlc]
    /\ age' = [Known EXCEPT ![c] = 0]
    /\ streak' = 0

Balance(h, ps) ==
    \/ /\ ~Hot
       /\ streak' = IF NrLlcs >= 2 THEN 0 ELSE streak
       /\ Stay(h)
    \/ /\ Hot
       /\ \/ streak + 1 < ConfirmTicks
          \/ \A c \in Cohorts : ~Candidate(c, h, ps)
       /\ streak' = Min({streak + 1, ConfirmTicks})
       /\ Stay(h)
    \/ /\ Hot
       /\ streak + 1 >= ConfirmTicks
       /\ \E c \in Cohorts : Best(c, h, ps) /\ Move(c, h)

-----------------------------------------------------------------------------
(* plan_spills, with the homes of the snapshot: those before the move.     *)

High(c, h) == (Cap[h[c]] * HighPct) \div 100
Low(c, h) == (Cap[h[c]] * LowPct) \div 100

Already(c) == {t \in Members(c) : spills[t] # None}
Cold(c) == {t \in Members(c) \ Already(c) : duty[t] < ColdCeiling}

\* The least loaded other LLC absorbs the spill.
SpillTarget(c, h) ==
    LET others == Llcs \ {h[c]}
    IN  Min({l \in others : \A k \in others : exec[l] <= exec[k]})

\* The coldest members in turn, until they shed the excess or run out; members
\* of equal duty come in any order, and an idle one counts 1.
Shed(ts) == MapThenSumSet(LAMBDA t : Max({duty[t], 1}), ts)
Grown(c, h) ==
    LET excess == CohortLoad(c) - High(c, h)
    IN  {g \in SUBSET Cold(c) :
            /\ \A t \in g, u \in Cold(c) \ g : duty[t] <= duty[u]
            /\ g = Cold(c) \/ Shed(g) >= excess
            /\ \A t \in g : (\A u \in g : duty[u] <= duty[t]) => Shed(g \ {t}) < excess}

\* Below the low mark everybody comes home, between the marks the set is kept,
\* at the high mark it grows.
NewSpills(c, h) ==
    IF NrLlcs >= 2 /\ CohortLoad(c) >= High(c, h) THEN Grown(c, h) ELSE {{}}

\* Mutant: one mark instead of two.
KeepsAtHigh(c, h) == NrLlcs >= 2 /\ CohortLoad(c) >= High(c, h)

Keeps(c, h) == NrLlcs >= 2 /\ CohortLoad(c) >= Low(c, h)

PlanSpills(h) ==
    \E new \in SUBSET alive :
        /\ \A c \in Snapshot : new \cap Members(c) \in NewSpills(c, h)
        /\ spills' = [t \in Tasks |->
              IF t \in new THEN SpillTarget(CohortOf[t], h)
              ELSE IF t \in alive /\ Keeps(CohortOf[t], h) THEN spills[t]
              ELSE None]

-----------------------------------------------------------------------------
\* What the moves of this tick, those beyond the rules' homes, add to history.
History(h) ==
    /\ hot_ticks' = IF Hot /\ home' = h THEN Min({hot_ticks + 1, ConfirmTicks}) ELSE 0
    /\ since' = [c \in Cohorts |-> IF home'[c] # h[c] THEN 0 ELSE since[c]]

Tick ==
    /\ phase = "tick"
    /\ phase' = "interval"
    /\ pinned' = pinned \cup {c \in Cohorts : PinTargets(c) # {}}
    /\ \E h \in RuleHomes :
          /\ Balance(h, pinned')
          /\ PlanSpills(h)
          /\ History(h)
    /\ UNCHANGED <<alive, duty, exec>>

Next == Interval \/ Tick
Spec == Init /\ [][Next]_vars

\* The daemon's loop runs for ever and time passes.
SteadyNext == SteadyInterval \/ Tick
SteadySpec == Init /\ [][SteadyNext]_vars /\ WF_vars(SteadyNext)

-----------------------------------------------------------------------------
(* Properties                                                              *)

\* Every map, counter and planner state holds values of its kind.
TypeOK ==
    /\ home \in [Cohorts -> Llcs] /\ pinned \subseteq Cohorts
    /\ age \in [Cohorts -> 0 .. MaxAge] /\ since \in [Cohorts -> 0 .. MaxAge]
    /\ streak \in 0 .. ConfirmTicks /\ hot_ticks \in 0 .. ConfirmTicks
    /\ spills \in [Tasks -> Llcs \cup {None}]
    /\ alive \subseteq Tasks
    /\ duty \in [Tasks -> Nat] /\ exec \in [Llcs -> Nat]
    /\ phase \in {"interval", "tick"}

TickStep == phase = "tick" /\ phase' = "interval"
MovedIn(c) == since'[c] # since[c]

\* A pinned cohort stays on a CCD that one of its rules asked for, however the
\* loads change and also after the task that matched is gone (apply_rules never
\* clears a pin; plan skips pinned cohorts).
PinnedHome ==
    \A c \in pinned :
        \E t \in Tasks : /\ CohortOf[t] = c /\ PinCcd[t] # None
                         /\ home[c] = Min({PinCcd[t], NrLlcs - 1})

\* "Imbalance must persist for confirm_ticks consecutive ticks before anything
\* moves": also between two moves.
ConfirmedMoves ==
    [][TickStep /\ (\E c \in Cohorts : MovedIn(c))
          => Hot /\ hot_ticks + 1 >= ConfirmTicks]_vars

\* "A cohort that just moved is immune for residency_ms", its rules' override
\* included, also when it was idle in between.
ResidencyRespected ==
    [][TickStep => \A c \in Cohorts : MovedIn(c) => since[c] >= ResidencyOf(c)]_vars

\* A move never recreates the imbalance it repairs: with the cohort's load on
\* top, the receiving LLC is still below what the source was, and the source
\* still above what the receiver was.
MoveNeverOvershoots ==
    [][TickStep => \A c \in Cohorts : MovedIn(c) =>
          /\ exec[home'[c]] + CohortLoad(c) < exec[MaxLlc]
          /\ exec[MaxLlc] - CohortLoad(c) > exec[home'[c]]]_vars

\* Hysteresis: a task starts to run remotely only when it is cold and its
\* cohort is at the high mark; it keeps its LLC until the cohort is below the
\* low mark.
SpillHysteresis ==
    [][TickStep => \A t \in alive : spills'[t] # spills[t] =>
          LET c == CohortOf[t]
              at == {Cap[l] : l \in {home[c]} \cup PinTargets(c)}
          IN  IF spills[t] = None
              THEN /\ duty[t] < ColdCeiling
                   /\ \E cap \in at : CohortLoad(c) >= (cap * HighPct) \div 100
              ELSE /\ spills'[t] = None
                   /\ \E cap \in at : CohortLoad(c) < (cap * LowPct) \div 100]_vars

\* A load that stays the same is balanced in finitely many moves ("so the
\* imbalance signal converges"): no cohort oscillates for ever.
Converges == <>[][home' = home]_vars

\* ... and what it converges to is no imbalance, or one that no single move of
\* a movable cohort would repair: neither the streak nor the residency blocks a
\* repair for ever.
Repairable ==
    /\ Hot
    /\ \E c \in Snapshot : /\ home[c] = MaxLlc /\ c \notin pinned
                           /\ CohortLoad(c) > 0 /\ CohortLoad(c) <= Cap[MinLlc]
                           /\ GapAfter(CohortLoad(c)) < Gap
Repaired == <>[](phase = "tick" => ~Repairable)

=============================================================================
