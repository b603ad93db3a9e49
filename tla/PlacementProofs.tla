--------------------------- MODULE PlacementProofs ---------------------------
(***************************************************************************)
(* Proofs about Placement, for every machine, every set of cohorts, tasks  *)
(* and rules, and whatever runs where in each interval.                    *)
(***************************************************************************)
EXTENDS Placement, WellFoundedInduction, FiniteSetTheorems, TLAPS

\* A tick changes no home beyond what the rules ask for, except that of one
\* candidate that it records as moved now.
LEMMA OneMove ==
    ASSUME NEW h, NEW ps, Balance(h, ps)
    PROVE  \/ home' = h /\ age' = Known
           \/ /\ Hot /\ streak + 1 >= ConfirmTicks
              /\ streak' = 0
              /\ \E c \in Cohorts : /\ Candidate(c, h, ps)
                                    /\ home' = [h EXCEPT ![c] = MinLlc]
                                    /\ age' = [Known EXCEPT ![c] = 0]
  BY Zenon DEF Balance, Stay, Move, Best

\* The two ends of a gap are different LLCs.
LEMMA GapEnds ==
    ASSUME Hot, MaxLlc \in Llcs, exec \in [Llcs -> Nat]
    PROVE  MaxLlc # MinLlc
  <1> SUFFICES ASSUME MaxLlc = MinLlc PROVE FALSE
    OBVIOUS
  <1>1. exec[MaxLlc] \in Nat /\ Cap[MinLlc] \in Nat /\ ImbalancePct \in Nat
    BY PlacementAssumption, Zenon
  <1>2. Gap = 0
    BY <1>1, SMTT(30) DEF Gap
  <1>3. Threshold \in Nat
    BY <1>1, SMTT(30) DEF Threshold
  <1> QED BY <1>2, <1>3, SMTT(30) DEF Hot

-----------------------------------------------------------------------------
(* Residency: what the balancer remembers of a cohort it can still see is  *)
(* the time since its last move, and a cohort it forgot does not return.   *)

AgeInv ==
    /\ exec \in [Llcs -> Nat]
    /\ age \in [Cohorts -> 0 .. MaxAge]
    /\ \A c \in Snapshot : age[c] = since[c]

\* Every step keeps the remembered age of a cohort in the snapshot exact.
LEMMA AgeStep ==
    ASSUME AgeInv, [Next]_vars
    PROVE  AgeInv'
  <1>1. CASE Interval
    <2>1. /\ Snapshot' \subseteq Snapshot
          /\ \E dt \in Elapsed :
                /\ age' = [c \in Cohorts |-> Older(age[c], dt)]
                /\ since' = [c \in Cohorts |-> Older(since[c], dt)]
      BY <1>1, Zenon DEF Interval, Sleep, Snapshot, Members
    <2>2. \A a \in 0 .. MaxAge, dt \in Elapsed : Older(a, dt) \in 0 .. MaxAge
      <3> SUFFICES ASSUME NEW a \in 0 .. MaxAge, NEW dt \in Elapsed
                   PROVE  Older(a, dt) \in 0 .. MaxAge
        OBVIOUS
      <3>1. \E x \in {a + dt, MaxAge} : \A y \in {a + dt, MaxAge} : x =< y
        BY PlacementAssumption, SMTT(30)
      <3> QED BY <3>1, PlacementAssumption, SMTT(30) DEF Older, Min
    <2>3. Snapshot \subseteq Cohorts
      BY Zenon DEF Snapshot
    <2>4. exec' \in [Llcs -> Nat]
      BY <1>1, PlacementAssumption, Zenon DEF Interval
    <2> QED BY <2>1, <2>2, <2>3, <2>4, SMTT(30) DEF AgeInv
  <1>2. CASE Tick
    <2>1. PICK h \in RuleHomes : Balance(h, pinned') /\ History(h)
      BY <1>2, Zenon DEF Tick
    <2>2. /\ UNCHANGED <<alive, duty, exec>> /\ Snapshot' = Snapshot
          /\ Snapshot \subseteq Cohorts
      BY <1>2, Zenon DEF Tick, Snapshot, Members
    <2>3. Known \in [Cohorts -> 0 .. MaxAge]
      BY PlacementAssumption, SMTT(30) DEF Known, AgeInv
    <2>4. CASE home' = h /\ age' = Known
      BY <2>1, <2>2, <2>3, <2>4, Zenon DEF AgeInv, Known, History
    <2>5. ASSUME Hot, NEW c \in Cohorts, Candidate(c, h, pinned'),
                 home' = [h EXCEPT ![c] = MinLlc], age' = [Known EXCEPT ![c] = 0]
          PROVE  AgeInv'
      <3>1. h[c] = MaxLlc /\ MaxLlc # MinLlc /\ h \in [Cohorts -> Llcs]
        <4>1. h[c] = MaxLlc /\ h \in [Cohorts -> Llcs]
          BY <2>1, <2>5, Zenon DEF Candidate, RuleHomes
        <4> QED BY <2>5, <4>1, GapEnds, Zenon DEF AgeInv
      <3>2. home'[c] = MinLlc /\ \A d \in Cohorts : d # c => home'[d] = h[d]
        BY <2>5, <3>1, Zenon
      <3>3. since'[c] = 0 /\ \A d \in Cohorts : d # c => since'[d] = since[d]
        BY <2>1, <3>1, <3>2, Zenon DEF History
      <3>4. \A d \in Snapshot : age'[d] = since'[d]
        BY <2>2, <2>5, <3>3, Zenon DEF AgeInv, Known
      <3>5. age' \in [Cohorts -> 0 .. MaxAge]
        BY <2>3, <2>5, PlacementAssumption, SMTT(30)
      <3> QED BY <2>2, <3>4, <3>5, Zenon DEF AgeInv
    <2> QED BY <2>1, <2>4, <2>5, OneMove, Zenon
  <1>3. CASE UNCHANGED vars
    BY <1>3, Zenon DEF vars, AgeInv, Snapshot, Members
  <1> QED BY <1>1, <1>2, <1>3, Zenon DEF Next

\* Spec => ResidencyRespected: no cohort moves twice within its residency, in
\* whatever order tasks exit, rules match and cohorts empty.
THEOREM MovesRespectResidency == Spec => ResidencyRespected
  <1> DEFINE Respected == TickStep => \A c \in Cohorts :
                              MovedIn(c) => since[c] >= ResidencyOf(c)
  <1>1. Init => AgeInv
    BY PlacementAssumption, SMTT(30) DEF Init, AgeInv, Snapshot
  <1>2. AgeInv /\ [Next]_vars => AgeInv'
    BY AgeStep, Zenon
  <1>3. AgeInv /\ [Next]_vars => [Respected]_vars
    <2> SUFFICES ASSUME AgeInv, [Next]_vars, TickStep,
                        NEW c \in Cohorts, MovedIn(c)
                 PROVE  since[c] >= ResidencyOf(c)
      OBVIOUS
    <2>1. Tick
      BY Zenon DEF TickStep, Next, Interval, Sleep, vars
    <2>2. PICK h \in RuleHomes : Balance(h, pinned') /\ History(h)
      BY <2>1, SMTT(30) DEF Tick
    <2>3. home'[c] # h[c]
      BY <2>2, Zenon DEF MovedIn, History
    <2>4. h \in [Cohorts -> Llcs]
      BY <2>2, Zenon DEF RuleHomes
    <2>5. Candidate(c, h, pinned')
      BY <2>2, <2>3, <2>4, OneMove, SMTT(30)
    <2> QED BY <2>5, Zenon DEF Candidate, AgeInv
  <1> QED BY <1>1, <1>2, <1>3, PTL DEF Spec, ResidencyRespected

-----------------------------------------------------------------------------
\* Spec => ConfirmedMoves: the streak counts the over-threshold ticks in a row
\* since the last move, so every move has its own confirmation.
THEOREM MovesAreConfirmed == Spec => ConfirmedMoves
  <1> DEFINE Inv == AgeInv /\ streak = hot_ticks /\ (NrLlcs < 2 => streak = 0)
             Confirmed == TickStep /\ (\E c \in Cohorts : MovedIn(c))
                              => Hot /\ hot_ticks + 1 >= ConfirmTicks
  <1>1. Init => Inv
    BY PlacementAssumption, SMTT(30) DEF Init, AgeInv, Snapshot
  <1>2. Inv /\ [Next]_vars => Inv'
    <2> SUFFICES ASSUME Inv, [Next]_vars
                 PROVE  streak' = hot_ticks' /\ (NrLlcs < 2 => streak' = 0)
      BY AgeStep, Zenon
    <2>1. CASE Interval
      BY <2>1, Zenon DEF Interval, Sleep
    <2>2. CASE Tick
      <3>1. PICK h \in RuleHomes : Balance(h, pinned') /\ History(h)
        BY <2>2, Zenon DEF Tick
      <3>2. h \in [Cohorts -> Llcs]
        BY <3>1, Zenon DEF RuleHomes
      <3>3. CASE ~Hot
        BY <3>1, <3>3, PlacementAssumption, SMTT(30) DEF Balance, History
      <3>4. CASE Hot /\ Stay(h) /\ streak' = Min({streak + 1, ConfirmTicks})
        BY <3>1, <3>4, PlacementAssumption, SMTT(30) DEF Stay, History, Hot
      <3>5. ASSUME Hot, NEW c \in Cohorts, Best(c, h, pinned'), Move(c, h)
            PROVE  streak' = hot_ticks' /\ streak' = 0
        <4>1. h[c] = MaxLlc /\ MaxLlc \in Llcs
          BY <3>2, <3>5, Zenon DEF Best, Candidate
        <4>2. home' # h
          BY <3>2, <3>5, <4>1, GapEnds, Zenon DEF Move, AgeInv
        <4> QED BY <3>1, <3>5, <4>2, Zenon DEF Move, History
      <3> QED BY <3>1, <3>3, <3>4, <3>5, Zenon DEF Balance
    <2>3. CASE UNCHANGED vars
      BY <2>3, Zenon DEF vars
    <2> QED BY <2>1, <2>2, <2>3, Zenon DEF Next
  <1>3. Inv /\ [Next]_vars => [Confirmed]_vars
    <2> SUFFICES ASSUME Inv, [Next]_vars, TickStep,
                        NEW c \in Cohorts, MovedIn(c)
                 PROVE  Hot /\ hot_ticks + 1 >= ConfirmTicks
      OBVIOUS
    <2>1. Tick
      BY Zenon DEF TickStep, Next, Interval, Sleep, vars
    <2>2. PICK h \in RuleHomes : Balance(h, pinned') /\ History(h)
      BY <2>1, Zenon DEF Tick
    <2>3. home'[c] # h[c]
      BY <2>2, Zenon DEF MovedIn, History
    <2> QED BY <2>2, <2>3, OneMove, Zenon
  <1> QED BY <1>1, <1>2, <1>3, PTL DEF Spec, ConfirmedMoves

-----------------------------------------------------------------------------
\* Spec => []PinnedHome: rules alone decide where a pinned cohort lives.
THEOREM PinsHold == Spec => []PinnedHome
  <1> DEFINE Inv == PinnedHome /\ pinned \subseteq Cohorts /\ alive \subseteq Tasks
  <1>1. Init => Inv
    BY Zenon DEF Init, PinnedHome
  <1>2. ASSUME Inv, [Next]_vars
        PROVE  Inv'
    <2>1. CASE Interval
      BY <1>2, <2>1, SMTT(30) DEF Interval, Sleep, PinnedHome
    <2>2. CASE Tick
      <3>0. pinned' \subseteq Cohorts /\ alive' \subseteq Tasks
        BY <1>2, <2>2, Zenon DEF Tick
      <3>1. PICK h \in RuleHomes : Balance(h, pinned')
        BY <2>2, Zenon DEF Tick
      <3>2. pinned' = pinned \cup {c \in Cohorts : PinTargets(c) # {}}
        BY <2>2, Zenon DEF Tick
      <3>3. SUFFICES ASSUME NEW c \in pinned'
                     PROVE  \E t \in Tasks : /\ CohortOf[t] = c /\ PinCcd[t] # None
                                             /\ home'[c] = Min({PinCcd[t], NrLlcs - 1})
        BY <3>0, SMTT(30) DEF PinnedHome
      <3>4. c \in Cohorts
        BY <3>0, <3>3, Zenon
      <3>5. \E t \in Tasks : /\ CohortOf[t] = c /\ PinCcd[t] # None
                             /\ home'[c] = Min({PinCcd[t], NrLlcs - 1})
        <4>1. h \in [Cohorts -> Llcs]
          BY <3>1, Zenon DEF RuleHomes
        <4>2. home'[c] = h[c]
          BY <3>1, <3>3, <3>4, <4>1, OneMove, SMTT(30) DEF Candidate
        <4>3. CASE PinTargets(c) = {}
          BY <1>2, <3>1, <3>2, <3>3, <3>4, <4>2, <4>3, SMTT(30) DEF RuleHomes, PinnedHome
        <4>4. CASE PinTargets(c) # {}
          <5>1. h[c] \in PinTargets(c)
            BY <3>1, <3>4, <4>4, Zenon DEF RuleHomes
          <5>2. PICK t \in alive : /\ CohortOf[t] = c /\ PinCcd[t] # None
                                   /\ h[c] = Min({PinCcd[t], NrLlcs - 1})
            BY <5>1, Zenon DEF PinTargets, Members
          <5> QED BY <1>2, <4>2, <5>2, Zenon
        <4> QED BY <4>3, <4>4, Zenon
      <3> QED BY <3>5, Zenon
    <2>3. CASE UNCHANGED vars
      BY <1>2, <2>3, SMTT(30) DEF vars, PinnedHome
    <2> QED BY <1>2, <2>1, <2>2, <2>3, Zenon DEF Next
  <1> QED BY <1>1, <1>2, PTL DEF Spec

-----------------------------------------------------------------------------
\* A set of naturals that is not empty has a least element.
LEMMA LeastExists ==
    ASSUME NEW S \in SUBSET Nat, S # {}
    PROVE  \E x \in S : \A y \in S : x <= y
  <1> DEFINE R == OpToRel(<, Nat)
  <1>1. IsWellFoundedOn(R, Nat)
    BY NatLessThanWellFounded, Zenon
  <1>2. PICK x \in S : \A y \in S : ~(<<y, x>> \in R)
    <2> HIDE DEF R
    <2> QED BY <1>1, WFMin, Zenon
  <1>3. \A y \in S : ~(y < x)
    BY <1>2, Zenon DEF OpToRel
  <1> QED BY <1>3, SMTT(30)

\* Of any LLCs, the first among those that executed least.
LEMMA LeastLoaded ==
    ASSUME exec \in [Llcs -> Nat], NEW ls \in SUBSET Llcs, ls # {}
    PROVE  Min({l \in ls : \A k \in ls : exec[l] <= exec[k]}) \in ls
  <1> DEFINE least == {l \in ls : \A k \in ls : exec[l] <= exec[k]}
             loads == {exec[l] : l \in ls}
  <1>1. loads \in SUBSET Nat /\ loads # {}
    OBVIOUS
  <1>2. PICK x \in loads : \A y \in loads : x <= y
    <2> HIDE DEF loads
    <2> QED BY <1>1, LeastExists, Zenon
  <1>3. least # {}
    BY <1>2, SMTT(30)
  <1>4. least \in SUBSET Nat
    BY PlacementAssumption, SMTT(30) DEF Llcs
  <1>5. PICK l \in least : \A k \in least : l <= k
    <2> HIDE DEF least
    <2> QED BY <1>3, <1>4, LeastExists, Zenon
  <1>6. Min(least) \in least
    <2> HIDE DEF least
    <2> QED BY <1>5, Zenon DEF Min
  <1> QED BY <1>6, Zenon

\* Capped sums stay within the cap.
LEMMA MinOfTwo ==
    ASSUME NEW a \in Nat, NEW b \in Nat
    PROVE  Min({a, b}) \in 0 .. b
  <1>1. \E x \in {a, b} : \A y \in {a, b} : x =< y
    OBVIOUS
  <1> QED BY <1>1, SMTT(30) DEF Min

\* Balancer::plan leaves every cohort on an LLC of the machine.
LEMMA BalanceTypes ==
    ASSUME TypeOK, NEW ps, NEW h \in RuleHomes, Balance(h, ps)
    PROVE  /\ home' \in [Cohorts -> Llcs]
           /\ age' \in [Cohorts -> 0 .. MaxAge]
           /\ streak' \in 0 .. ConfirmTicks
  <1>1. h \in [Cohorts -> Llcs]
    BY Zenon DEF RuleHomes
  <1>2. MinLlc \in Llcs
    <2>1. 0 \in Llcs
      BY PlacementAssumption, SMTT(30) DEF Llcs
    <2> QED BY <2>1, LeastLoaded, Zenon DEF MinLlc, TypeOK
  <1>3. Known \in [Cohorts -> 0 .. MaxAge]
    BY PlacementAssumption, SMTT(30) DEF Known, TypeOK
  <1>4. home' \in [Cohorts -> Llcs] /\ age' \in [Cohorts -> 0 .. MaxAge]
    <2>1. 0 \in 0 .. MaxAge
      BY PlacementAssumption, SMTT(30)
    <2>2. CASE home' = h /\ age' = Known
      BY <1>1, <1>3, <2>2, Zenon
    <2>3. ASSUME NEW c \in Cohorts, home' = [h EXCEPT ![c] = MinLlc],
                 age' = [Known EXCEPT ![c] = 0]
          PROVE  home' \in [Cohorts -> Llcs] /\ age' \in [Cohorts -> 0 .. MaxAge]
      BY <1>1, <1>2, <1>3, <2>1, <2>3, Zenon
    <2> QED BY <2>2, <2>3, OneMove, Zenon
  <1>5. streak' \in 0 .. ConfirmTicks
    <2>1. streak + 1 \in Nat /\ ConfirmTicks \in Nat /\ 0 \in 0 .. ConfirmTicks
      BY PlacementAssumption, SMTT(30) DEF TypeOK
    <2>2. Min({streak + 1, ConfirmTicks}) \in 0 .. ConfirmTicks
      BY <2>1, MinOfTwo, Zenon
    <2> QED BY <2>1, <2>2, Zenon DEF Balance, Move, TypeOK
  <1> QED BY <1>4, <1>5, Zenon

\* plan_spills spills a task to an LLC that exists: it spills only where there
\* is a second one.
LEMMA SpillTypes ==
    ASSUME TypeOK, NEW h \in RuleHomes, PlanSpills(h)
    PROVE  spills' \in [Tasks -> Llcs \cup {None}]
  <1>1. PICK new \in SUBSET alive :
            /\ \A c \in Snapshot : new \cap Members(c) \in NewSpills(c, h)
            /\ spills' = [t \in Tasks |->
                  IF t \in new THEN SpillTarget(CohortOf[t], h)
                  ELSE IF t \in alive /\ Keeps(CohortOf[t], h) THEN spills[t]
                  ELSE None]
    BY Zenon DEF PlanSpills
  <1>2. ASSUME NEW t \in new
        PROVE  SpillTarget(CohortOf[t], h) \in Llcs
    <2> DEFINE c == CohortOf[t]
               others == Llcs \ {h[c]}
    <2>1. t \in Members(c) /\ c \in Snapshot
      BY PlacementAssumption, Zenon DEF Members, Snapshot, TypeOK
    <2>2. NrLlcs >= 2
      BY <1>1, <2>1, Zenon DEF NewSpills
    <2>3. 0 \in Llcs /\ 1 \in Llcs
      BY <2>2, PlacementAssumption, SMTT(30) DEF Llcs
    <2>4. others \in SUBSET Llcs /\ others # {}
      BY <2>3, SMTT(30)
    <2>5. Min({l \in others : \A k \in others : exec[l] <= exec[k]}) \in others
      <3> HIDE DEF others
      <3> QED BY <2>4, LeastLoaded, Zenon DEF TypeOK
    <2> QED BY <2>4, <2>5, Zenon DEF SpillTarget
  <1>3. \A t \in Tasks : spills'[t] \in Llcs \cup {None}
    BY <1>1, <1>2, Zenon DEF TypeOK
  <1>4. spills' = [t \in Tasks |-> spills'[t]]
    BY <1>1, Zenon
  <1> QED BY <1>3, <1>4, Zenon

\* Spec => []TypeOK: whatever rules, loads and exits do, every cohort has a home
\* on the machine and every spilled task an LLC that exists.
THEOREM TypeCorrect == Spec => []TypeOK
  <1>1. ASSUME Init
        PROVE  TypeOK
    <2>1. 0 \in 0 .. ConfirmTicks /\ MaxAge \in 0 .. MaxAge
      BY PlacementAssumption, SMTT(30)
    <2>2. duty \in [Tasks -> Nat] /\ exec \in [Llcs -> Nat]
      BY <1>1, PlacementAssumption, Zenon DEF Init
    <2>3. /\ home \in [Cohorts -> Llcs] /\ pinned \subseteq Cohorts
          /\ age \in [Cohorts -> 0 .. MaxAge] /\ since \in [Cohorts -> 0 .. MaxAge]
      BY <1>1, <2>1, Zenon DEF Init
    <2>4. spills \in [Tasks -> Llcs \cup {None}] /\ alive \subseteq Tasks
      BY <1>1, Zenon DEF Init
    <2> QED BY <1>1, <2>1, <2>2, <2>3, <2>4, Zenon DEF Init, TypeOK
  <1>2. ASSUME TypeOK, [Next]_vars
        PROVE  TypeOK'
    <2>1. CASE Interval
      <3>1. PICK dt \in Elapsed : Sleep(dt)
        BY <2>1, Zenon DEF Interval
      <3>2. \A a \in 0 .. MaxAge : Older(a, dt) \in 0 .. MaxAge
        BY MinOfTwo, PlacementAssumption, SMTT(30) DEF Older
      <3>3. age' \in [Cohorts -> 0 .. MaxAge] /\ since' \in [Cohorts -> 0 .. MaxAge]
        BY <1>2, <3>1, <3>2, Zenon DEF Sleep, TypeOK
      <3>4. /\ duty' \in [Tasks -> Nat] /\ exec' \in [Llcs -> Nat]
            /\ alive' \subseteq Tasks
        BY <1>2, <2>1, PlacementAssumption, Zenon DEF Interval, TypeOK
      <3> QED BY <1>2, <3>1, <3>3, <3>4, Zenon DEF Sleep, TypeOK
    <2>2. CASE Tick
      <3>1. PICK h \in RuleHomes : Balance(h, pinned') /\ PlanSpills(h) /\ History(h)
        BY <2>2, Zenon DEF Tick
      <3>2. /\ home' \in [Cohorts -> Llcs] /\ age' \in [Cohorts -> 0 .. MaxAge]
            /\ streak' \in 0 .. ConfirmTicks
        BY <1>2, <3>1, BalanceTypes, Zenon
      <3>3. spills' \in [Tasks -> Llcs \cup {None}]
        BY <1>2, <3>1, SpillTypes, Zenon
      <3>4. hot_ticks' \in 0 .. ConfirmTicks
        <4>1. hot_ticks + 1 \in Nat /\ ConfirmTicks \in Nat
          BY <1>2, PlacementAssumption, SMTT(30) DEF TypeOK
        <4>2. Min({hot_ticks + 1, ConfirmTicks}) \in 0 .. ConfirmTicks
          BY <4>1, MinOfTwo, Zenon
        <4> QED BY <3>1, <4>1, <4>2, SMTT(30) DEF History
      <3>5. since' \in [Cohorts -> 0 .. MaxAge]
        BY <1>2, <3>1, PlacementAssumption, SMTT(30) DEF History, TypeOK
      <3>6. /\ pinned' \subseteq Cohorts /\ phase' = "interval"
            /\ UNCHANGED <<alive, duty, exec>>
        BY <1>2, <2>2, Zenon DEF Tick, TypeOK
      <3> QED BY <1>2, <3>2, <3>3, <3>4, <3>5, <3>6, Zenon DEF TypeOK
    <2>3. CASE UNCHANGED vars
      BY <1>2, <2>3, Zenon DEF vars, TypeOK
    <2> QED BY <1>2, <2>1, <2>2, <2>3, Zenon DEF Next
  <1> QED BY <1>1, <1>2, PTL DEF Spec

-----------------------------------------------------------------------------
(* Loads: sums over sets of tasks.                                         *)

\* The element MapThenSumSet adds next.
Some(s) == CHOOSE x \in s : TRUE
\* The sum of f over the elements of a set, one element less at a time.
SumStep(f, F, s) == IF s = {} THEN 0 ELSE f[Some(s)] + F[s \ {Some(s)}]

\* Summing a finite set is well defined: on the subsets of up to n elements by
\* induction on n, as the least n for which it fails.
LEMMA SumDefined ==
    ASSUME NEW S, IsFiniteSet(S), NEW f
    PROVE  \E F : F = [s \in SUBSET S |-> SumStep(f, F, s)]
  <1> DEFINE D(n) == {s \in SUBSET S : Cardinality(s) <= n}
             Solves(n, F) == F = [s \in D(n) |-> SumStep(f, F, s)]
             Bad == {n \in Nat : ~ \E F : Solves(n, F)}
  <1>1. \A s \in SUBSET S : IsFiniteSet(s) /\ Cardinality(s) \in Nat
    BY FS_Subset, FS_CardinalityType, Zenon
  <1>2. \A s \in SUBSET S : s # {} => /\ s \ {Some(s)} \in SUBSET S
                                      /\ Cardinality(s \ {Some(s)}) = Cardinality(s) - 1
    <2> SUFFICES ASSUME NEW s \in SUBSET S, s # {}
                 PROVE  Cardinality(s \ {Some(s)}) = Cardinality(s) - 1
        OBVIOUS
    <2>1. Some(s) \in s
        BY Zenon DEF Some
    <2> QED BY <1>1, <2>1, FS_RemoveElement, Zenon
  <1>3. Bad = {}
    <2> SUFFICES ASSUME Bad # {} PROVE FALSE
        OBVIOUS
    <2>1. Bad \in SUBSET Nat
        OBVIOUS
    <2>2. PICK n \in Bad : \A k \in Bad : n <= k
        <3> HIDE DEF Bad
        <3> QED BY <2>1, LeastExists, Zenon
    <2>3. n \in Nat /\ ~ \E F : Solves(n, F)
        BY <2>2, Zenon
    <2>4. CASE n = 0
        <3>1. \A s \in D(n) : s = {}
            <4> TAKE s \in D(n)
            <4>1. s \in SUBSET S /\ Cardinality(s) <= 0
                BY <2>4, Zenon
            <4>2. Cardinality(s) = 0
                BY <1>1, <4>1, SMTT(30)
            <4> QED BY <1>1, <4>1, <4>2, FS_EmptySet, Zenon
        <3>2. Solves(n, [s \in D(n) |-> 0])
            <4> HIDE DEF D
            <4> QED BY <3>1, Zenon DEF SumStep
        <3> QED BY <2>3, <3>2, Zenon
    <2>5. CASE n # 0
        <3>1. n - 1 \in Nat /\ n - 1 \notin Bad
            <4> HIDE DEF Bad
            <4> QED BY <2>2, <2>3, <2>5, SMTT(30)
        <3>2. PICK F : Solves(n - 1, F)
            BY <3>1, Zenon
        <3> DEFINE G == [s \in D(n) |-> SumStep(f, F, s)]
        <3>3. \A s \in D(n) : s # {} => s \ {Some(s)} \in D(n - 1) /\ s \ {Some(s)} \in D(n)
            BY <1>1, <1>2, <2>3, SMTT(30)
        <3>4. D(n - 1) \subseteq D(n)
            BY <1>1, <2>3, SMTT(30)
        <3> HIDE DEF D
        <3>5. \A r \in D(n - 1) : G[r] = F[r]
            BY <3>2, <3>4, Zenon
        <3>6. \A s \in D(n) : SumStep(f, F, s) = SumStep(f, G, s)
            <4> HIDE DEF G
            <4> QED BY <3>3, <3>5, Zenon DEF SumStep
        <3>7. Solves(n, G)
            BY <3>6, Zenon
        <3> QED BY <2>3, <3>7, Zenon
    <2> QED BY <2>4, <2>5, Zenon
  <1>4. D(Cardinality(S)) = SUBSET S
    BY <1>1, FS_Subset, Zenon
  <1>5. PICK F : Solves(Cardinality(S), F)
    <2>1. Cardinality(S) \in Nat
        BY FS_CardinalityType, Zenon
    <2> QED BY <1>3, <2>1, Zenon
  <1> HIDE DEF D
  <1> QED BY <1>4, <1>5, Zenon

\* ... and a sum of naturals is one.
LEMMA SumIsNat ==
    ASSUME NEW S, IsFiniteSet(S), NEW f \in [S -> Nat], NEW F,
           F = [s \in SUBSET S |-> SumStep(f, F, s)]
    PROVE  F[S] \in Nat
  <1> DEFINE Bad == {s \in SUBSET S : F[s] \notin Nat}
             Sizes == {Cardinality(s) : s \in Bad}
  <1>1. \A s \in SUBSET S : IsFiniteSet(s) /\ Cardinality(s) \in Nat
    BY FS_Subset, FS_CardinalityType, Zenon
  <1>2. Bad = {}
    <2> SUFFICES ASSUME Bad # {} PROVE FALSE
        OBVIOUS
    <2>1. Sizes \in SUBSET Nat /\ Sizes # {}
        <3>1. Bad \subseteq SUBSET S
            OBVIOUS
        <3> HIDE DEF Bad
        <3> QED BY <1>1, <3>1, SMTT(30)
    <2>2. PICK n \in Sizes : \A k \in Sizes : n <= k
        <3> HIDE DEF Sizes
        <3> QED BY <2>1, LeastExists, Zenon
    <2>3. PICK s \in Bad : n = Cardinality(s)
        BY <2>2, Zenon
    <2>4. s \in SUBSET S /\ F[s] \notin Nat /\ F[s] = SumStep(f, F, s)
        BY <2>3, Zenon
    <2>5. s # {}
        BY <2>4, SMTT(30) DEF SumStep
    <2>6. Some(s) \in s
        BY <2>5, Zenon DEF Some
    <2>7. F[s] = f[Some(s)] + F[s \ {Some(s)}]
        BY <2>4, <2>5, Zenon DEF SumStep
    <2>8. Cardinality(s \ {Some(s)}) = Cardinality(s) - 1 /\ Cardinality(s) \in Nat
        BY <1>1, <2>4, <2>6, FS_RemoveElement, Zenon
    <2>9. s \ {Some(s)} \in SUBSET S /\ s \ {Some(s)} \notin Bad
        <3>1. s \ {Some(s)} \in SUBSET S
            BY <2>4, Zenon
        <3>2. ASSUME s \ {Some(s)} \in Bad PROVE FALSE
            <4>1. Cardinality(s \ {Some(s)}) \in Sizes
                BY <3>2, Zenon
            <4> HIDE DEF Sizes, Bad
            <4> QED BY <2>2, <2>3, <2>8, <4>1, SMTT(30)
        <3> QED BY <3>1, <3>2, Zenon
    <2>10. f[Some(s)] \in Nat /\ F[s \ {Some(s)}] \in Nat
        BY <2>4, <2>6, <2>9, Zenon
    <2> QED BY <2>4, <2>7, <2>10, SMTT(30)
  <1> QED BY <1>2, Zenon

\* The load of any tasks is a natural number, whatever order they are added in.
LEMMA LoadIsNat ==
    ASSUME NEW ts \in SUBSET Tasks, duty \in [Tasks -> Nat]
    PROVE  Load(ts) \in Nat
  <1> DEFINE f == [t \in ts |-> duty[t] * Weight[t]]
             Rec(G) == [s \in SUBSET ts |->
                 IF s = {} THEN 0
                 ELSE duty[Some(s)] * Weight[Some(s)] + G[s \ {Some(s)}]]
             F == CHOOSE G : G = Rec(G)
  <1>1. Load(ts) = F[ts]
    BY Zenon DEF Load, MapThenSumSet, MapThenFoldSet, Some
  <1>2. IsFiniteSet(ts) /\ f \in [ts -> Nat]
    BY PlacementAssumption, FS_Subset, SMTT(30)
  <1>3. \A G : Rec(G) = [s \in SUBSET ts |-> SumStep(f, G, s)]
    <2>1. \A s \in SUBSET ts : s # {} => f[Some(s)] = duty[Some(s)] * Weight[Some(s)]
        BY Zenon DEF Some
    <2> HIDE DEF f
    <2> QED BY <2>1, Zenon DEF SumStep
  <1> HIDE DEF Rec, f
  <1>4. F = Rec(F)
    BY <1>2, <1>3, SumDefined, SMTT(30)
  <1> HIDE DEF F
  <1> QED BY <1>1, <1>2, <1>3, <1>4, SumIsNat, SMTT(30)

-----------------------------------------------------------------------------
\* Spec => MoveNeverOvershoots: a move leaves the receiving LLC below what the
\* source was, whatever the loads.
THEOREM MovesDoNotOvershoot == Spec => MoveNeverOvershoots
  <1> DEFINE Fits == TickStep => \A c \in Cohorts : MovedIn(c) =>
                 /\ exec[home'[c]] + CohortLoad(c) < exec[MaxLlc]
                 /\ exec[MaxLlc] - CohortLoad(c) > exec[home'[c]]
  <1>1. Spec => []TypeOK
    BY TypeCorrect, Zenon
  <1>2. TypeOK /\ [Next]_vars => [Fits]_vars
    <2> SUFFICES ASSUME TypeOK, [Next]_vars, TickStep, NEW c \in Cohorts, MovedIn(c)
                 PROVE  /\ exec[home'[c]] + CohortLoad(c) < exec[MaxLlc]
                        /\ exec[MaxLlc] - CohortLoad(c) > exec[home'[c]]
      OBVIOUS
    <2>1. Tick
      BY Zenon DEF TickStep, Next, Interval, Sleep, vars
    <2>2. PICK h \in RuleHomes : Balance(h, pinned') /\ History(h)
      BY <2>1, Zenon DEF Tick
    <2>3. home'[c] # h[c] /\ h \in [Cohorts -> Llcs]
      BY <2>2, Zenon DEF MovedIn, History, RuleHomes
    <2>4. Candidate(c, h, pinned') /\ home'[c] = MinLlc
      BY <2>2, <2>3, OneMove, SMTT(30)
    <2>5. CohortLoad(c) \in Nat
      BY LoadIsNat, Zenon DEF CohortLoad, Members, TypeOK
    <2>6. exec[MaxLlc] \in Nat /\ exec[MinLlc] \in Nat
      <3>1. MaxLlc \in Llcs
        BY <2>3, <2>4, Zenon DEF Candidate
      <3>2. MinLlc \in Llcs
        BY <3>1, LeastLoaded, Zenon DEF MinLlc, TypeOK
      <3> QED BY <3>1, <3>2, Zenon DEF TypeOK
    <2>7. CohortLoad(c) > 0 /\ GapAfter(CohortLoad(c)) < Gap
      BY <2>4, Zenon DEF Candidate
    <2> QED BY <2>4, <2>5, <2>6, <2>7, SMTT(30) DEF GapAfter, Gap
  <1> QED BY <1>1, <1>2, PTL DEF Spec, MoveNeverOvershoots

-----------------------------------------------------------------------------
\* On a machine with one LLC nothing is ever spilled.
SpillInv == TypeOK /\ (NrLlcs < 2 => \A t \in Tasks : spills[t] = None)

\* What a tick does to the spill of a task that is alive: it stays, a cold task
\* is spilled at the high mark, or a spilled one comes home below the low mark.
LEMMA SpillStep ==
    ASSUME SpillInv, NEW h \in RuleHomes, PlanSpills(h), NEW t \in alive,
           spills'[t] # spills[t]
    PROVE  LET c == CohortOf[t]
           IN  IF spills[t] = None
               THEN duty[t] < ColdCeiling /\ NrLlcs >= 2 /\ CohortLoad(c) >= High(c, h)
               ELSE spills'[t] = None /\ CohortLoad(c) < Low(c, h)
  <1> DEFINE c == CohortOf[t]
  <1>1. PICK new \in SUBSET alive :
            /\ \A d \in Snapshot : new \cap Members(d) \in NewSpills(d, h)
            /\ spills' = [u \in Tasks |->
                  IF u \in new THEN SpillTarget(CohortOf[u], h)
                  ELSE IF u \in alive /\ Keeps(CohortOf[u], h) THEN spills[u]
                  ELSE None]
    BY Zenon DEF PlanSpills
  <1>2. t \in Tasks /\ c \in Cohorts /\ t \in Members(c) /\ c \in Snapshot
    BY PlacementAssumption, Zenon DEF SpillInv, TypeOK, Members, Snapshot
  <1>3. CASE t \in new
    <2>1. new \cap Members(c) \in NewSpills(c, h) /\ t \in new \cap Members(c)
      BY <1>1, <1>2, <1>3, Zenon
    <2>2. NrLlcs >= 2 /\ CohortLoad(c) >= High(c, h) /\ new \cap Members(c) \in Grown(c, h)
      BY <2>1, Zenon DEF NewSpills
    <2>3. t \in Cold(c)
      BY <2>1, <2>2, Zenon DEF Grown
    <2> QED BY <2>2, <2>3, Zenon DEF Cold, Already
  <1>4. CASE t \notin new
    <2>1. spills'[t] = None /\ spills[t] # None /\ ~Keeps(c, h)
      BY <1>1, <1>2, <1>4, Zenon
    <2>2. NrLlcs >= 2
      BY <1>2, <2>1, PlacementAssumption, SMTT(30) DEF SpillInv
    <2>3. CohortLoad(c) \in Nat
      BY LoadIsNat, Zenon DEF CohortLoad, Members, SpillInv, TypeOK
    <2>4. Low(c, h) \in Nat
      <3>1. h[c] \in Llcs
        BY <1>2, Zenon DEF RuleHomes
      <3>2. Cap[h[c]] * LowPct \in Nat
        BY <3>1, PlacementAssumption, SMTT(30)
      <3> QED BY <3>2, SMTT(30) DEF Low
    <2> QED BY <2>1, <2>2, <2>3, <2>4, SMTT(30) DEF Keeps
  <1> QED BY <1>3, <1>4, Zenon

\* Spec => SpillHysteresis: spilling and recalling a task have a mark each, with
\* the capacity of the home the rules left the cohort.
THEOREM SpillsHaveHysteresis == Spec => SpillHysteresis
  <1> DEFINE At(c) == {Cap[l] : l \in {home[c]} \cup PinTargets(c)}
             Marks == TickStep => \A t \in alive : spills'[t] # spills[t] =>
                 LET c == CohortOf[t]
                     at == {Cap[l] : l \in {home[c]} \cup PinTargets(c)}
                 IN  IF spills[t] = None
                     THEN /\ duty[t] < ColdCeiling
                          /\ \E cap \in at : CohortLoad(c) >= (cap * HighPct) \div 100
                     ELSE /\ spills'[t] = None
                          /\ \E cap \in at : CohortLoad(c) < (cap * LowPct) \div 100
  <1>1. Init => (NrLlcs < 2 => \A t \in Tasks : spills[t] = None)
    BY Zenon DEF Init
  <1>2. Spec => []TypeOK
    BY TypeCorrect, Zenon
  <1>3. SpillInv /\ [Next]_vars /\ TypeOK' => SpillInv'
    <2> SUFFICES ASSUME SpillInv, [Next]_vars, NrLlcs < 2, NEW t \in Tasks
                 PROVE  spills'[t] = None
      BY Zenon DEF SpillInv
    <2>1. CASE Tick
      <3>1. PICK h \in RuleHomes : PlanSpills(h)
        BY <2>1, Zenon DEF Tick
      <3>2. CASE t \in alive
        BY <3>1, <3>2, SpillStep, PlacementAssumption, SMTT(30) DEF SpillInv
      <3>3. CASE t \notin alive
        BY <3>1, <3>3, Zenon DEF PlanSpills
      <3> QED BY <3>2, <3>3, Zenon
    <2>2. CASE ~Tick
      BY <2>2, Zenon DEF Next, Interval, Sleep, vars, SpillInv
    <2> QED BY <2>1, <2>2, Zenon
  <1>4. SpillInv /\ [Next]_vars => [Marks]_vars
    <2> SUFFICES ASSUME SpillInv, [Next]_vars, TickStep, NEW t \in alive, spills'[t] # spills[t]
                 PROVE  IF spills[t] = None
                        THEN /\ duty[t] < ColdCeiling
                             /\ \E cap \in At(CohortOf[t]) :
                                   CohortLoad(CohortOf[t]) >= (cap * HighPct) \div 100
                        ELSE /\ spills'[t] = None
                             /\ \E cap \in At(CohortOf[t]) :
                                   CohortLoad(CohortOf[t]) < (cap * LowPct) \div 100
      BY Zenon
    <2>1. Tick
      BY Zenon DEF TickStep, Next, Interval, Sleep, vars
    <2>2. PICK h \in RuleHomes : PlanSpills(h)
      BY <2>1, Zenon DEF Tick
    <2>3. CohortOf[t] \in Cohorts
      BY PlacementAssumption, Zenon DEF SpillInv, TypeOK
    <2>4. Cap[h[CohortOf[t]]] \in At(CohortOf[t])
      BY <2>3, Zenon DEF RuleHomes
    <2> HIDE DEF At
    <2> QED BY <2>2, <2>4, SpillStep, Zenon DEF High, Low
  <1> QED BY <1>1, <1>2, <1>3, <1>4, PTL DEF Spec, SpillHysteresis, SpillInv
=============================================================================
