--------------------------- MODULE WakeGraphProofs ---------------------------
(***************************************************************************)
(* Relationship discovery, for any processes, edges, rates and             *)
(* confirmation counts: a process always belongs to a cohort that exists,  *)
(* every merge and every split is confirmed by consecutive ticks, also when*)
(* tgids are reused, processes that talk are never separated, and rates and*)
(* counters stay within their ranges.                                      *)
(***************************************************************************)
EXTENDS WakeGraph, FiniteSetTheorems, TLAPS

\* The ends of an edge are its two processes.
LEMMA EdgeEnds ==
    ASSUME NEW e \in Edges
    PROVE  /\ Min(e) \in e /\ Max(e) \in e /\ e = {Min(e), Max(e)}
           /\ e \subseteq Tgids
<1>1. PICK a, b \in Tgids : a # b /\ e = {a, b}
    BY WakeGraphAssumption, Zenon
<1>2. a \in Nat /\ b \in Nat
    BY WakeGraphAssumption, SMTT(30) DEF Ids
<1>3. \E x \in e : \A y \in e : x <= y
    BY <1>1, <1>2, SMTT(30)
<1>4. \E x \in e : \A y \in e : x >= y
    BY <1>1, <1>2, SMTT(30)
<1>5. Min(e) \in e /\ \A y \in e : Min(e) <= y
    BY <1>3, Zenon DEF Min
<1>6. Max(e) \in e /\ \A y \in e : Max(e) >= y
    BY <1>4, Zenon DEF Max
<1>7. Min(e) # Max(e)
    <2>1. SUFFICES ASSUME Min(e) = Max(e) PROVE FALSE
        OBVIOUS
    <2>2. Min(e) <= a /\ Min(e) <= b /\ Min(e) >= a /\ Min(e) >= b
        BY <1>1, <1>5, <1>6, <2>1, Zenon
    <2>3. Min(e) \in Nat
        BY <1>1, <1>2, <1>5, Zenon
    <2> QED BY <1>1, <1>2, <2>2, <2>3, SMTT(30)
<1> QED BY <1>1, <1>5, <1>6, <1>7, Zenon

\* A merge plan joins the two different cohorts of its edge.
LEMMA PlanEnds ==
    ASSUME NEW e \in Edges, Crosses(e)
    PROVE  /\ Plan(e).into \in CohortsOf(e) /\ Plan(e).from \in CohortsOf(e)
           /\ Plan(e).into # Plan(e).from
           /\ Plan(e).into # None /\ Plan(e).from # None
<1> DEFINE ca == cohort[Min(e)]
           cb == cohort[Max(e)]
<1>1. e = {Min(e), Max(e)}
    BY EdgeEnds, Zenon
<1>2. CohortsOf(e) = {ca, cb}
    BY <1>1, Zenon DEF CohortsOf
<1>3. ca # cb
    <2>1. SUFFICES ASSUME ca = cb PROVE FALSE
        OBVIOUS
    <2>2. CohortsOf(e) = {ca}
        BY <1>2, <2>1, Zenon
    <2>3. Cardinality({ca}) = 1
        BY FS_Singleton, Zenon
    <2> QED BY <2>2, <2>3, SMTT(30) DEF Crosses
<1>4. ca # None /\ cb # None
    BY <1>1, Zenon DEF Crosses, Mapped
<1>5. \/ Plan(e).into = ca /\ Plan(e).from = cb
      \/ Plan(e).into = cb /\ Plan(e).from = ca
    BY Zenon DEF Plan
<1> QED BY <1>2, <1>3, <1>4, <1>5, Zenon

-----------------------------------------------------------------------------
\* tgid_cohort is a function of the tgids, and what it names exists.
MemberInv ==
    /\ cohort = [g \in Tgids |-> cohort[g]]
    /\ alive \subseteq Tgids /\ live \subseteq Ids
    /\ MembersHaveCohort

\* The cohort a merge of the tick leaves a process in: it exists and is not
\* itself merged away, because no cohort takes part in two merges.
LEMMA MergedIntoLive ==
    ASSUME MembersHaveCohort, NEW m \in MergeSets, NEW g \in Tgids, cohort[g] # None
    PROVE  LET ps == {Plan(e) : e \in m}
               gone == {p.from : p \in ps}
           IN  AfterMerges(ps)[g] \in {c \in live \ gone : Members(c) # {}}
<1> DEFINE ps == {Plan(e) : e \in m}
           gone == {p.from : p \in ps}
<1>1. \A e \in m : e \in Edges /\ Crosses(e)
    BY Zenon DEF MergeSets, Confirmed
<1>2. CASE \E p \in ps : p.from = cohort[g]
    <2>1. PICK p \in ps : p.from = cohort[g] /\ AfterMerges(ps)[g] = p.into
        BY <1>2, Zenon DEF AfterMerges
    <2>2. PICK e \in m : p = Plan(e)
        BY <2>1, Zenon
    <2>3. e \in Edges /\ Crosses(e)
        BY <1>1, Zenon
    <2>4. p.into \in CohortsOf(e) /\ p.into # p.from /\ p.into # None
        BY <2>2, <2>3, PlanEnds, Zenon
    <2>5. PICK h \in e : p.into = cohort[h]
        BY <2>4, Zenon DEF CohortsOf
    <2>6. h \in Tgids
        BY <2>3, <2>5, EdgeEnds, Zenon
    <2>7. p.into \in live /\ Members(p.into) # {}
        BY <2>4, <2>5, <2>6, Zenon DEF MembersHaveCohort, Members
    <2>8. ASSUME p.into \in gone PROVE FALSE
        <3>1. PICK f \in m : p.into = Plan(f).from
            BY <2>8, Zenon
        <3>2. Plan(f).from \in CohortsOf(f)
            BY <1>1, PlanEnds, Zenon
        <3>3. f # e
            BY <2>2, <2>4, <3>1, Zenon
        <3>4. CohortsOf(e) \cap CohortsOf(f) = {}
            BY <3>3, Zenon DEF MergeSets
        <3> QED BY <2>4, <3>1, <3>2, <3>4, Zenon
    <2> QED BY <2>1, <2>7, <2>8, Zenon
<1>3. CASE ~ \E p \in ps : p.from = cohort[g]
    <2>1. AfterMerges(ps)[g] = cohort[g]
        BY <1>3, Zenon DEF AfterMerges
    <2>2. cohort[g] \in live /\ Members(cohort[g]) # {}
        BY Zenon DEF MembersHaveCohort, Members
    <2>3. cohort[g] \notin gone
        BY <1>3, Zenon
    <2> QED BY <2>1, <2>2, <2>3, Zenon
<1> QED BY <1>2, <1>3, Zenon

\* A tick keeps every member in a cohort that exists, unmaps only what it
\* collects and deletes a cohort with members only for a confirmed edge.
LEMMA TickMembers ==
    ASSUME MemberInv, Tick
    PROVE  /\ MemberInv'
           /\ \A g \in Tgids : cohort'[g] = None => cohort[g] = None \/ g \in Collected
           /\ \A c \in live \ live' :
                 Members(c) # {} => \E e \in Confirmed : c \in CohortsOf(e)
<1> DEFINE comps == [c \in live |-> Components(c)]
<1>1. PICK m \in MergeSets : Discover(m, comps)
    BY Zenon DEF Tick
<1> DEFINE ps == {Plan(e) : e \in m}
           gone == {p.from : p \in ps}
<1> DEFINE Applied(offs, new) ==
        /\ \E id \in Bijection(offs, new) :
              cohort' = [g \in Tgids |->
                  IF g \in Collected THEN None
                  ELSE IF \E s \in offs : g \in s
                  THEN id[CHOOSE s \in offs : g \in s]
                  ELSE AfterMerges(ps)[g]]
        /\ live' = {c \in live \ gone : Members(c) # {}} \cup new
<1>1a. PICK offs \in Splits(gone, comps) : \E new \in Fresh(Cardinality(offs)) : Applied(offs, new)
    BY <1>1, Zenon DEF Discover
<1>2. PICK new \in Fresh(Cardinality(offs)) : Applied(offs, new)
    BY <1>1a, Zenon
<1> HIDE DEF comps
<1>3. PICK id \in Bijection(offs, new) :
        cohort' = [g \in Tgids |->
            IF g \in Collected THEN None
            ELSE IF \E s \in offs : g \in s
            THEN id[CHOOSE s \in offs : g \in s]
            ELSE AfterMerges(ps)[g]]
    BY <1>2, Zenon
<1>4. live' = {c \in live \ gone : Members(c) # {}} \cup new
    BY <1>2, Zenon
<1>5. \A s \in offs : id[s] \in new
    BY <1>3, Zenon DEF Bijection, Injection, Surjection, IsInjective
<1>6. ASSUME NEW g \in Tgids, cohort'[g] # None
      PROVE  cohort'[g] \in live'
    <2>1. g \notin Collected
        BY <1>3, <1>6, Zenon
    <2>2. CASE \E s \in offs : g \in s
        <3>1. (CHOOSE s \in offs : g \in s) \in offs
            BY <2>2, Zenon
        <3>2. cohort'[g] = id[CHOOSE s \in offs : g \in s]
            BY <1>3, <2>1, <2>2, Zenon
        <3> HIDE DEF ps, gone
        <3> QED BY <1>4, <1>5, <3>1, <3>2, Zenon
    <2>3. CASE ~ \E s \in offs : g \in s
        <3>1. cohort'[g] = AfterMerges(ps)[g]
            BY <1>3, <2>1, <2>3, Zenon
        <3>2. CASE cohort[g] # None
            <4>1. AfterMerges(ps)[g] \in {c \in live \ gone : Members(c) # {}}
                BY <3>2, MergedIntoLive, Zenon DEF MemberInv
            <4> HIDE DEF ps, gone
            <4> QED BY <1>4, <3>1, <4>1, Zenon
        <3>3. CASE cohort[g] = None
            <4>1. \A p \in ps : p.from # None
                <5>1. \A e \in m : e \in Edges /\ Crosses(e)
                    BY Zenon DEF MergeSets, Confirmed
                <5> QED BY <5>1, PlanEnds, Zenon
            <4>2. AfterMerges(ps)[g] = None
                <5> HIDE DEF ps
                <5> QED BY <3>3, <4>1, Zenon DEF AfterMerges
            <4> QED BY <1>6, <3>1, <4>2, Zenon
        <3> QED BY <3>2, <3>3, Zenon
    <2> QED BY <2>2, <2>3, Zenon
<1>7. cohort' = [g \in Tgids |-> cohort'[g]]
    <2> HIDE DEF ps
    <2> QED BY <1>3, Zenon
<1>8. alive' \subseteq Tgids
    BY Zenon DEF Tick, MemberInv
<1>9. live' \subseteq Ids
    <2>1. new \subseteq Ids
        BY Zenon DEF Fresh, kSubset
    <2> HIDE DEF gone
    <2> QED BY <1>4, <2>1, Zenon DEF MemberInv
<1>10. ASSUME NEW g \in Tgids, cohort'[g] = None, cohort[g] # None
       PROVE  g \in Collected
    <2>1. SUFFICES ASSUME g \notin Collected PROVE FALSE
        OBVIOUS
    <2>2. None \notin live /\ None \notin new
        BY WakeGraphAssumption, SMTT(30) DEF MemberInv, Fresh, kSubset, Ids
    <2>3. CASE \E s \in offs : g \in s
        <3>1. (CHOOSE s \in offs : g \in s) \in offs
            BY <2>3, Zenon
        <3>2. cohort'[g] = id[CHOOSE s \in offs : g \in s]
            BY <1>3, <2>1, <2>3, Zenon
        <3> QED BY <1>5, <1>10, <2>2, <3>1, <3>2, Zenon
    <2>4. CASE ~ \E s \in offs : g \in s
        <3>1. cohort'[g] = AfterMerges(ps)[g]
            BY <1>3, <2>1, <2>4, Zenon
        <3>2. AfterMerges(ps)[g] \in {c \in live \ gone : Members(c) # {}}
            BY <1>10, MergedIntoLive, Zenon DEF MemberInv
        <3> HIDE DEF ps, gone
        <3> QED BY <1>10, <2>2, <3>1, <3>2, Zenon
    <2> QED BY <2>3, <2>4, Zenon
<1>11. ASSUME NEW c \in live \ live', Members(c) # {}
       PROVE  \E e \in Confirmed : c \in CohortsOf(e)
    <2>1. c \in gone
        <3> HIDE DEF gone
        <3> QED BY <1>4, <1>11, Zenon
    <2>2. PICK e \in m : c = Plan(e).from
        BY <2>1, Zenon
    <2>3. e \in Confirmed /\ e \in Edges /\ Crosses(e)
        BY Zenon DEF MergeSets, Confirmed
    <2> QED BY <2>2, <2>3, PlanEnds, Zenon
<1>12. MemberInv'
    BY <1>6, <1>7, <1>8, <1>9, Zenon DEF MemberInv, MembersHaveCohort
<1> QED BY <1>10, <1>11, <1>12, Zenon

\* Every step keeps members in cohorts that exist.
LEMMA MemberStep ==
    ASSUME MemberInv, [Next]_vars
    PROVE  MemberInv'
<1>1. CASE Tick
    BY <1>1, TickMembers, Zenon
<1>2. CASE Interval
    BY <1>2, Zenon DEF MemberInv, MembersHaveCohort, Interval, procs
<1>3. ASSUME NEW g \in Tgids, Exit(g) PROVE MemberInv'
    BY <1>3, Zenon DEF MemberInv, MembersHaveCohort, Exit
<1>4. ASSUME NEW g \in Tgids, Start(g) PROVE MemberInv'
    BY <1>4, Zenon DEF MemberInv, MembersHaveCohort, Start, Fresh, kSubset
<1>5. CASE Calm \/ UNCHANGED vars
    BY <1>5, Zenon DEF MemberInv, MembersHaveCohort, Calm, vars, procs
<1> QED BY <1>1, <1>2, <1>3, <1>4, <1>5, Zenon DEF Next

\* A process belongs to a cohort that exists, in every state of every instance.
THEOREM MembershipHolds == Spec => []MembersHaveCohort
<1>1. Init => MemberInv
    BY WakeGraphAssumption, SMTT(30) DEF Init, MemberInv, MembersHaveCohort
<1>2. MemberInv /\ [Next]_vars => MemberInv'
    BY MemberStep, Zenon
<1>3. MemberInv => MembersHaveCohort
    BY Zenon DEF MemberInv
<1> QED BY <1>1, <1>2, <1>3, PTL DEF Spec

-----------------------------------------------------------------------------
\* Why over_ticks counts consecutive ticks.  It never exceeds the number of
\* ticks in a row the edge was over the rate; and merges may skip an edge of
\* an unmapped process, because the process had been silent for a tick before
\* its entry was collected, which took the counter back to 0.
ConfirmInv ==
    /\ MemberInv
    /\ over_ticks \in [Edges -> Nat] /\ hot \in [Edges -> Nat]
    /\ \A e \in Edges : over_ticks[e] <= hot[e]
    /\ \A e \in Edges : ~Mapped(e) => over_ticks[e] = 0
    /\ \A e \in Edges : \A g \in e : g \in dead_tgids \ alive => traffic[e] = 0

\* What a tick does to the two counters of an edge.
LEMMA TickCounts ==
    ASSUME ConfirmInv, Tick, NEW e \in Edges
    PROVE  /\ over_ticks'[e] \in {0, Count(e)}
           /\ e \in Confirmed => hot'[e] >= MergeConfirm
           /\ Count(e) \in Nat /\ hot'[e] \in Nat /\ Count(e) <= hot'[e]
<1>1. PICK m \in MergeSets : over_ticks' = [f \in Edges |-> IF f \in m THEN 0 ELSE Count(f)]
    BY Zenon DEF Tick
<1>2. over_ticks'[e] \in {0, Count(e)}
    BY <1>1, Zenon
<1>3. hot'[e] = IF Over(e) /\ (Mapped(e) => Crosses(e))
                THEN Capped(hot[e] + 1, MergeConfirm) ELSE 0
    BY Zenon DEF Tick, History
<1>4. Kept(e) \in Nat /\ Kept(e) <= hot[e] /\ hot[e] \in Nat /\ MergeConfirm \in Nat
    BY WakeGraphAssumption, SMTT(30) DEF ConfirmInv, Kept
<1>5. CASE ~Mapped(e)
    <2>1. Kept(e) = 0
        BY <1>5, Zenon DEF ConfirmInv, Kept
    <2>2. Count(e) = 0 /\ e \notin Confirmed
        BY <1>5, <2>1, Zenon DEF Count, Confirmed, Crosses
    <2> QED BY <1>2, <1>3, <1>4, <2>2, SMTT(30) DEF Capped
<1>6. CASE Mapped(e) /\ Crosses(e) /\ Over(e)
    <2>1. Count(e) = Capped(Kept(e) + 1, MergeConfirm)
        BY <1>6, Zenon DEF Count
    <2>2. hot'[e] = Capped(hot[e] + 1, MergeConfirm)
        BY <1>3, <1>6, Zenon
    <2>3. Count(e) \in Nat /\ hot'[e] \in Nat /\ Count(e) <= hot'[e]
        BY <1>4, <2>1, <2>2, SMTT(30) DEF Capped
    <2>4. e \in Confirmed => Count(e) >= MergeConfirm
        BY Zenon DEF Confirmed
    <2> QED BY <1>2, <1>4, <2>3, <2>4, SMTT(30)
<1>7. CASE Mapped(e) /\ ~(Crosses(e) /\ Over(e))
    <2>1. Count(e) = 0 /\ e \notin Confirmed
        BY <1>7, Zenon DEF Count, Confirmed
    <2> QED BY <1>2, <1>3, <1>4, <2>1, SMTT(30) DEF Capped
<1> QED BY <1>5, <1>6, <1>7, Zenon

\* A tick keeps the counters exact.
LEMMA TickConfirm ==
    ASSUME ConfirmInv, Tick
    PROVE  ConfirmInv'
<1>1. MemberInv' /\ \A g \in Tgids : cohort'[g] = None => cohort[g] = None \/ g \in Collected
    BY TickMembers, Zenon DEF ConfirmInv
<1>2. over_ticks' \in [Edges -> Nat] /\ hot' \in [Edges -> Nat]
    <2>1. /\ over_ticks' = [e \in Edges |-> over_ticks'[e]]
          /\ hot' = [e \in Edges |-> hot'[e]]
        BY Zenon DEF Tick, History
    <2>2. \A e \in Edges : over_ticks'[e] \in Nat /\ hot'[e] \in Nat
        BY TickCounts, SMTT(30)
    <2> QED BY <2>1, <2>2, Zenon
<1>3. \A e \in Edges : over_ticks'[e] <= hot'[e]
    BY TickCounts, SMTT(30)
<1>4. ASSUME NEW e \in Edges, ~Mapped(e)' PROVE over_ticks'[e] = 0
    <2>1. PICK h \in e : cohort'[h] = None
        BY <1>4, Zenon DEF Mapped
    <2>2. h \in Tgids
        BY <2>1, EdgeEnds, Zenon
    <2>3. CASE cohort[h] = None
        <3>1. ~Mapped(e)
            BY <2>1, <2>3, Zenon DEF Mapped
        <3>2. Count(e) = 0
            BY <3>1, Zenon DEF Count, Kept, ConfirmInv
        <3> QED BY <3>2, TickCounts, Zenon
    <2>4. CASE h \in Collected
        <3>1. traffic[e] = 0
            BY <2>1, <2>4, Zenon DEF Collected, Unseen, ConfirmInv
        <3>2. ~Over(e)
            BY <3>1, WakeGraphAssumption, SMTT(30) DEF Over
        <3>3. Count(e) = 0
            BY <3>2, Zenon DEF Count, Kept, ConfirmInv
        <3> QED BY <3>3, TickCounts, Zenon
    <2> QED BY <1>1, <2>1, <2>2, <2>3, <2>4, Zenon
<1>5. \A e \in Edges : \A g \in e : g \in dead_tgids' \ alive' => traffic'[e] = 0
    BY Zenon DEF Tick
<1> QED BY <1>1, <1>2, <1>3, <1>4, <1>5, Zenon DEF ConfirmInv

\* Every merge is confirmed by merge_confirm_ticks consecutive ticks over the
\* merge rate, also across exits and the reuse of tgids.
THEOREM MergesAreConfirmed == Spec => MergesConfirmed
<1>1. Init => ConfirmInv
    <2>1. Init => MemberInv
        BY WakeGraphAssumption, SMTT(30) DEF Init, MemberInv, MembersHaveCohort
    <2> QED BY <2>1, SMTT(30) DEF Init, ConfirmInv
<1>2. ConfirmInv /\ [Next]_vars => ConfirmInv'
    <2>1. ASSUME ConfirmInv, Tick PROVE ConfirmInv'
        BY <2>1, TickConfirm, Zenon
    <2>2. ASSUME ConfirmInv, Interval PROVE ConfirmInv'
        <3>1. \A e \in Edges : e \subseteq alive \/ traffic'[e] = 0
            BY <2>2, Zenon DEF Interval
        <3> QED BY <2>2, <3>1, Zenon DEF ConfirmInv, MemberInv, MembersHaveCohort, Mapped, Interval,
                                  procs, graph, history
    <2>3. ASSUME ConfirmInv, NEW g \in Tgids, Exit(g) PROVE ConfirmInv'
        BY <2>3, Zenon DEF ConfirmInv, MemberInv, MembersHaveCohort, Mapped, Exit, graph, history
    <2>4. ASSUME ConfirmInv, NEW g \in Tgids, Start(g) PROVE ConfirmInv'
        <3>1. MemberInv'
            BY <2>4, Zenon DEF ConfirmInv, MemberInv, MembersHaveCohort, Start, Fresh, kSubset
        <3>2. \A h \in Tgids : cohort[h] # None => cohort'[h] = cohort[h]
            BY <2>4, Zenon DEF ConfirmInv, MemberInv, Start
        <3>3. \A e \in Edges : e \subseteq Tgids
            BY EdgeEnds, Zenon
        <3>4. \A e \in Edges : Mapped(e) => Mapped(e)'
            BY <3>2, <3>3, Zenon DEF Mapped
        <3> QED BY <2>4, <3>1, <3>4, Zenon DEF ConfirmInv, Start, graph, history
    <2>5. ASSUME ConfirmInv, Calm \/ UNCHANGED vars PROVE ConfirmInv'
        BY <2>5, Zenon DEF ConfirmInv, MemberInv, MembersHaveCohort, Mapped, Calm, vars, procs, graph, history
    <2> QED BY <2>1, <2>2, <2>3, <2>4, <2>5, Zenon DEF Next
<1> DEFINE Confirming ==
        \A c \in {d \in live \ live' : Members(d) # {}} :
            \E e \in Edges : c \in CohortsOf(e) /\ hot'[e] >= MergeConfirm
<1>3. ConfirmInv /\ [Next]_vars => [Confirming]_vars
    <2>1. ASSUME ConfirmInv, Tick PROVE Confirming
        <3>1. ASSUME NEW c \in live \ live', Members(c) # {}
              PROVE  \E e \in Edges : c \in CohortsOf(e) /\ hot'[e] >= MergeConfirm
            <4>1. PICK e \in Confirmed : c \in CohortsOf(e)
                BY <2>1, <3>1, TickMembers, Zenon DEF ConfirmInv
            <4>2. e \in Edges
                BY <4>1, Zenon DEF Confirmed
            <4> QED BY <2>1, <4>1, <4>2, TickCounts, Zenon
        <3> QED BY <3>1, Zenon
    <2>2. ASSUME Interval \/ Calm \/ \E g \in Tgids : Exit(g) \/ Start(g) PROVE Confirming
        <3>1. live \subseteq live'
            BY <2>2, Zenon DEF Interval, Calm, Exit, Start
        <3> QED BY <3>1, Zenon
    <2> QED BY <2>1, <2>2, Zenon DEF Next
<1>4. [][Confirming]_vars => MergesConfirmed
    BY Zenon DEF MergesConfirmed
<1> QED BY <1>1, <1>2, <1>3, <1>4, PTL DEF Spec

-----------------------------------------------------------------------------
\* What splits works on: the components of a cohort are disjoint sets of its
\* members, and every member is in one.
LEMMA ComponentsPartition ==
    ASSUME NEW c
    PROVE  /\ \A s \in Components(c) : s \subseteq Members(c) /\ s # {} /\ Closed(s, Members(c))
           /\ \A s, t \in Components(c) : s # t => s \cap t = {}
           /\ UNION Components(c) = Members(c)
<1> DEFINE M == Members(c)
           closed == {s \in (SUBSET M) \ {{}} : Closed(s, M)}
<1>1. Components(c) = {s \in closed : \A t \in closed : t \subseteq s => t = s}
    BY Zenon DEF Components
<1> HIDE DEF M
<1>1a. \A s : s \in closed <=> s \subseteq M /\ s # {} /\ Closed(s, M)
    BY Zenon
<1> HIDE DEF closed
<1>2. \A s \in Components(c) : s \subseteq M /\ s # {} /\ Closed(s, M)
    BY <1>1, <1>1a, Zenon
<1>3. ASSUME NEW s \in Components(c), NEW t \in Components(c), s \cap t # {}
      PROVE  s = t
    <2>1. Closed(s \cap t, M)
        BY <1>2, Zenon DEF Closed
    <2>2. s \cap t \in closed
        BY <1>1a, <1>2, <1>3, <2>1, Zenon
    <2>3. s \cap t = s /\ s \cap t = t
        BY <1>1, <2>2, Zenon
    <2> QED BY <2>3, Zenon
<1>4. ASSUME NEW g \in M PROVE \E s \in Components(c) : g \in s
    <2> DEFINE C == {h \in M : \A s \in closed : g \in s => h \in s}
    <2>1. g \in C /\ C \subseteq M
        OBVIOUS
    <2>2. Closed(C, M)
        BY <1>1a, Zenon DEF Closed
    <2>3. C \in closed
        BY <1>1a, <2>1, <2>2, Zenon
    <2>4. ASSUME NEW t \in closed, t \subseteq C PROVE t = C
        <3>1. CASE g \in t
            BY <2>4, <3>1, Zenon
        <3>2. CASE g \notin t
            \* no edge leaves t, so none enters it
            <4>1. Closed(C \ t, M)
                BY <1>1a, <2>2, <2>4, Zenon DEF Closed
            <4>2. C \ t \in closed
                BY <1>1a, <2>1, <3>2, <4>1, Zenon
            <4>3. C \subseteq C \ t
                BY <2>1, <3>2, <4>2, Zenon
            <4> QED BY <1>1a, <2>4, <4>3, Zenon
        <3> QED BY <3>1, <3>2, Zenon
    <2> HIDE DEF C
    <2>5. C \in Components(c)
        BY <1>1, <2>3, <2>4, Zenon
    <2> QED BY <2>1, <2>5, Zenon
<1>5. UNION Components(c) = M
    BY <1>2, <1>4, Zenon
<1> QED BY <1>2, <1>3, <1>5, Zenon DEF M

\* A part that a tick splits off is a component of a cohort that is due.
LEMMA SplitOffsDue ==
    ASSUME NEW gone, NEW comps, NEW offs \in Splits(gone, comps), NEW s \in offs
    PROVE  \E d \in live : Due(d, comps) /\ s \in comps[d]
<1> DEFINE due == {d \in live \ gone : Due(d, comps)}
           off == [d \in due |-> SplitOffs(comps[d])]
<1>1. PICK f \in [due -> UNION {off[d] : d \in due}] :
         offs = UNION {f[d] : d \in due} /\ \A d \in due : f[d] \in off[d]
    BY Zenon DEF Splits
<1>2. PICK d \in due : s \in f[d]
    BY <1>1, Zenon
<1>3. f[d] \in SplitOffs(comps[d])
    BY <1>1, <1>2, Zenon
<1>4. s \in comps[d]
    BY <1>2, <1>3, Zenon DEF SplitOffs
<1> QED BY <1>2, <1>4, Zenon

\* A process that keeps its entry leaves its cohort only by a split that is due,
\* or with a merge that ends the cohort; and two processes joined by an edge above
\* the split rate go the same way.
LEMMA TickMoves ==
    ASSUME MemberInv, Tick
    PROVE  LET comps == [c \in live |-> Components(c)]
           IN  /\ \A c \in live \cap live' : \A g \in Members(c) :
                     cohort'[g] \notin {c, None} => Due(c, comps)
               /\ \A e \in Edges : \A g, h \in e :
                     /\ Mapped(e) /\ Connects(e) /\ cohort[g] = cohort[h]
                     /\ cohort'[g] # None /\ cohort'[h] # None
                     => cohort'[g] = cohort'[h]
<1> DEFINE comps == [c \in live |-> Components(c)]
<1>1. PICK m \in MergeSets : Discover(m, comps)
    BY Zenon DEF Tick
<1> DEFINE ps == {Plan(e) : e \in m}
           gone == {p.from : p \in ps}
<1> DEFINE Applied(offs, new) ==
        /\ \E id \in Bijection(offs, new) :
              cohort' = [g \in Tgids |->
                  IF g \in Collected THEN None
                  ELSE IF \E s \in offs : g \in s
                  THEN id[CHOOSE s \in offs : g \in s]
                  ELSE AfterMerges(ps)[g]]
        /\ live' = {c \in live \ gone : Members(c) # {}} \cup new
<1>2. PICK offs \in Splits(gone, comps) : \E new \in Fresh(Cardinality(offs)) : Applied(offs, new)
    BY <1>1, Zenon DEF Discover
<1>3. PICK new \in Fresh(Cardinality(offs)) : Applied(offs, new)
    BY <1>2, Zenon
<1>4. PICK id : cohort' = [g \in Tgids |->
            IF g \in Collected THEN None
            ELSE IF \E s \in offs : g \in s
            THEN id[CHOOSE s \in offs : g \in s]
            ELSE AfterMerges(ps)[g]]
    BY <1>3, Zenon
<1>5. live' = {c \in live \ gone : Members(c) # {}} \cup new
    BY <1>3, Zenon
<1>6. ASSUME NEW s \in offs
      PROVE  \E d \in live : Due(d, comps) /\ s \in Components(d)
    <2>1. PICK d \in live : Due(d, comps) /\ s \in comps[d]
        <3> HIDE DEF comps, gone
        <3> QED BY SplitOffsDue, Zenon
    <2>2. comps[d] = Components(d)
        OBVIOUS
    <2> HIDE DEF comps
    <2> QED BY <2>1, <2>2, Zenon
<1> HIDE DEF comps
<1>7. ASSUME NEW c \in live \cap live', NEW g \in Members(c), cohort'[g] \notin {c, None}
      PROVE  Due(c, comps)
    <2>1. g \in Tgids /\ cohort[g] = c
        BY Zenon DEF Members
    <2>2. g \notin Collected
        BY <1>4, <1>7, <2>1, Zenon
    <2>3. CASE \E s \in offs : g \in s
        <3>1. PICK s \in offs : g \in s
            BY <2>3, Zenon
        <3>2. PICK d \in live : Due(d, comps) /\ s \in Components(d)
            BY <1>6, Zenon
        <3>3. g \in Members(d)
            BY <3>1, <3>2, ComponentsPartition, Zenon
        <3>4. d = c
            BY <2>1, <3>3, Zenon DEF Members
        <3> QED BY <3>2, <3>4, Zenon
    <2>4. CASE ~ \E s \in offs : g \in s
        <3>1. AfterMerges(ps)[g] # c
            BY <1>4, <1>7, <2>1, <2>2, <2>4, Zenon
        <3>2. \E p \in ps : p.from = c
            <4> HIDE DEF ps
            <4> QED BY <2>1, <3>1, Zenon DEF AfterMerges
        <3>3. c \in gone
            BY <3>2, Zenon
        <3>4. c \notin new
            BY Zenon DEF Fresh, kSubset
        <3> HIDE DEF gone
        <3> QED BY <1>5, <3>3, <3>4, Zenon
    <2> QED BY <2>3, <2>4, Zenon
<1>8. ASSUME NEW e \in Edges, NEW g \in e, NEW h \in e, Mapped(e), Connects(e),
             cohort[g] = cohort[h], cohort'[g] # None, cohort'[h] # None
      PROVE  cohort'[g] = cohort'[h]
    <2>1. g \in Tgids /\ h \in Tgids /\ \A x \in e : x = g \/ x = h \/ g = h
        <3>1. e \subseteq Tgids /\ e = {Min(e), Max(e)}
            BY EdgeEnds, Zenon
        <3> QED BY <3>1, Zenon
    <2>2. g \notin Collected /\ h \notin Collected
        BY <1>4, <1>8, <2>1, Zenon
    <2>3. \A s \in offs : g \in s <=> h \in s
        <3>1. SUFFICES ASSUME NEW s \in offs, g \in s \/ h \in s PROVE g \in s /\ h \in s
            OBVIOUS
        <3>2. PICK d \in live : s \in Components(d)
            BY <1>6, Zenon
        <3>3. s \subseteq Members(d) /\ Closed(s, Members(d))
            BY <3>2, ComponentsPartition, Zenon
        <3>4. CASE g = h
            BY <3>1, <3>4, Zenon
        <3>5. CASE g # h
            <4>1. e \subseteq Members(d)
                BY <1>8, <2>1, <3>1, <3>3, <3>5, Zenon DEF Members
            <4>2. e \cap s # {}
                BY <3>1, Zenon
            <4> QED BY <1>8, <3>3, <4>1, <4>2, Zenon DEF Closed
        <3> QED BY <3>4, <3>5, Zenon
    <2>4. CASE \E s \in offs : g \in s
        <3>1. (CHOOSE s \in offs : g \in s) = (CHOOSE s \in offs : h \in s)
            BY <2>3, Zenon
        <3>2. \E s \in offs : h \in s
            BY <2>3, <2>4, Zenon
        <3> QED BY <1>4, <2>1, <2>2, <2>4, <3>1, <3>2, Zenon
    <2>5. CASE ~ \E s \in offs : g \in s
        <3>1. AfterMerges(ps)[g] = AfterMerges(ps)[h]
            <4> HIDE DEF ps
            <4> QED BY <1>8, <2>1, Zenon DEF AfterMerges
        <3>2. ~ \E s \in offs : h \in s
            BY <2>3, <2>5, Zenon
        <3> QED BY <1>4, <2>1, <2>2, <2>5, <3>1, <3>2, Zenon
    <2> QED BY <2>4, <2>5, Zenon
<1> QED BY <1>7, <1>8, Zenon DEF comps

\* A process with an entry keeps it, unless a tick moves or collects it.
LEMMA OnlyTickMoves ==
    ASSUME MemberInv, [Next]_vars, ~Tick, NEW g \in Tgids, cohort[g] # None
    PROVE  cohort'[g] = cohort[g]
<1>1. CASE \E h \in Tgids : Start(h)
    BY <1>1, Zenon DEF Start, MemberInv
<1>2. CASE ~ \E h \in Tgids : Start(h)
    BY <1>2, Zenon DEF Next, vars, Interval, Exit, Calm
<1> QED BY <1>1, <1>2, Zenon

\* Two processes of one cohort that wake each other above the split rate stay in
\* one cohort, whatever the tick merges and splits around them.
THEOREM TalkersAreNotSeparated == Spec => TalkersStayTogether
<1>1. Init => MemberInv
    BY WakeGraphAssumption, SMTT(30) DEF Init, MemberInv, MembersHaveCohort
<1>2. MemberInv /\ [Next]_vars => MemberInv'
    BY MemberStep, Zenon
<1> DEFINE Kind(e) == {cohort'[g] : g \in e \ {h \in e : cohort'[h] = None}}
           Together == \A e \in Edges :
               Mapped(e) /\ ~Crosses(e) /\ rate'[e] >= SplitMin => Cardinality(Kind(e)) <= 1
<1>3. MemberInv /\ [Next]_vars => [Together]_vars
    <2> SUFFICES ASSUME MemberInv, [Next]_vars, NEW e \in Edges,
                        Mapped(e), ~Crosses(e), rate'[e] >= SplitMin
                 PROVE  Cardinality(Kind(e)) <= 1
        OBVIOUS
    <2>1. \A g, h \in e : cohort[g] = cohort[h]
        <3>1. SUFFICES ASSUME NEW g \in e, NEW h \in e, cohort[g] # cohort[h] PROVE FALSE
            OBVIOUS
        <3>2. e = {g, h}
            <4>1. e = {Min(e), Max(e)}
                BY EdgeEnds, Zenon
            <4> QED BY <3>1, <4>1, Zenon
        <3>3. CohortsOf(e) = {cohort[g]} \cup {cohort[h]}
            BY <3>2, Zenon DEF CohortsOf
        <3>4. IsFiniteSet({cohort[g]}) /\ Cardinality({cohort[g]}) = 1
            BY FS_Singleton, Zenon
        <3>5. Cardinality({cohort[g]} \cup {cohort[h]}) = 1 + 1
            BY <3>1, <3>4, FS_AddElement, Zenon
        <3> QED BY <3>3, <3>5, SMTT(30) DEF Crosses
    <2>2. ASSUME NEW g \in e, NEW h \in e, cohort'[g] # None, cohort'[h] # None
          PROVE  cohort'[g] = cohort'[h]
        <3>1. CASE Tick
            BY <2>1, <2>2, <3>1, TickMoves, Zenon DEF Connects
        <3>2. CASE ~Tick
            <4>1. g \in Tgids /\ h \in Tgids
                BY EdgeEnds, Zenon
            <4>2. cohort'[g] = cohort[g] /\ cohort'[h] = cohort[h]
                BY <3>2, <4>1, OnlyTickMoves, Zenon DEF Mapped
            <4> QED BY <2>1, <4>2, Zenon
        <3> QED BY <3>1, <3>2, Zenon
    <2>3. CASE Kind(e) = {}
        BY <2>3, FS_EmptySet, SMTT(30)
    <2>4. CASE Kind(e) # {}
        <3>1. PICK g \in e : cohort'[g] # None
            BY <2>4, Zenon
        <3>2. Kind(e) = {cohort'[g]}
            BY <2>2, <3>1, Zenon
        <3>3. Cardinality({cohort'[g]}) = 1
            BY FS_Singleton, Zenon
        <3> HIDE DEF Kind
        <3> QED BY <3>2, <3>3, SMTT(30)
    <2> QED BY <2>3, <2>4, Zenon
<1>4. [][Together]_vars => TalkersStayTogether
    BY Zenon DEF TalkersStayTogether
<1> QED BY <1>1, <1>2, <1>3, <1>4, PTL DEF Spec

\* Why split_streak counts consecutive ticks: it never exceeds the number of
\* ticks in a row the cohort was disconnected.
StreakInv ==
    /\ MemberInv
    /\ split_streak \in [Ids -> Nat] /\ broken \in [Ids -> Nat]
    /\ \A c \in Ids : split_streak[c] <= broken[c]

\* What a tick does to the two counters of a cohort.
LEMMA TickStreaks ==
    ASSUME StreakInv, Tick, NEW c \in Ids
    PROVE  LET comps == [d \in live |-> Components(d)]
           IN  /\ split_streak'[c] \in Nat /\ broken'[c] \in Nat
               /\ split_streak'[c] <= broken'[c]
               /\ c \in live /\ Due(c, comps) => broken'[c] >= SplitConfirm
<1> DEFINE comps == [d \in live |-> Components(d)]
<1>1. split_streak' = [d \in Ids |-> Streak(d, comps)] /\ History(comps)
    BY Zenon DEF Tick
<1> HIDE DEF comps
<1>2. split_streak'[c] = IF c \in live /\ Disconnected(c, comps) /\ ~Due(c, comps)
                         THEN split_streak[c] + 1 ELSE 0
    BY <1>1, Zenon DEF Streak
<1>3. broken'[c] = IF c \in live /\ Disconnected(c, comps)
                   THEN Capped(broken[c] + 1, SplitConfirm) ELSE 0
    BY <1>1, Zenon DEF History
<1>4. /\ split_streak[c] \in Nat /\ broken[c] \in Nat /\ split_streak[c] <= broken[c]
      /\ SplitConfirm \in Nat
    BY WakeGraphAssumption, Zenon DEF StreakInv
<1>5. Due(c, comps) <=> Disconnected(c, comps) /\ split_streak[c] + 1 >= SplitConfirm
    BY Zenon DEF Due
<1>6. /\ split_streak'[c] \in Nat /\ broken'[c] \in Nat /\ split_streak'[c] <= broken'[c]
      /\ c \in live /\ Due(c, comps) => broken'[c] >= SplitConfirm
    BY <1>2, <1>3, <1>4, <1>5, SMTT(30) DEF Capped
<1> QED BY <1>6, Zenon DEF comps

\* Every split is confirmed by split_confirm_ticks consecutive ticks in which the
\* cohort's wake graph was disconnected.
THEOREM SplitsAreConfirmed == Spec => SplitsConfirmed
<1>1. Init => StreakInv
    BY WakeGraphAssumption, SMTT(30) DEF Init, StreakInv, MemberInv, MembersHaveCohort
<1>2. StreakInv /\ [Next]_vars => StreakInv'
    <2> SUFFICES ASSUME StreakInv, [Next]_vars PROVE StreakInv'
        OBVIOUS
    <2>1. MemberInv'
        BY MemberStep, Zenon DEF StreakInv
    <2>2. CASE Tick
        <3>1. split_streak' = [c \in Ids |-> split_streak'[c]] /\ broken' = [c \in Ids |-> broken'[c]]
            BY <2>2, Zenon DEF Tick, History
        <3>2. \A c \in Ids : /\ split_streak'[c] \in Nat /\ broken'[c] \in Nat
                             /\ split_streak'[c] <= broken'[c]
            BY <2>2, TickStreaks, Zenon
        <3> QED BY <2>1, <3>1, <3>2, Zenon DEF StreakInv
    <2>3. CASE ~Tick
        <3>1. UNCHANGED <<split_streak, broken>>
            BY <2>3, Zenon DEF Next, vars, Interval, Exit, Start, Calm, graph, history
        <3> QED BY <2>1, <3>1, Zenon DEF StreakInv
    <2> QED BY <2>2, <2>3, Zenon
<1> DEFINE Confirming ==
        \A c \in live \cap live' :
            (\E g \in Members(c) : cohort'[g] \notin {c, None}) => broken'[c] >= SplitConfirm
<1>3. StreakInv /\ [Next]_vars => [Confirming]_vars
    <2> SUFFICES ASSUME StreakInv, [Next]_vars, NEW c \in live \cap live',
                        NEW g \in Members(c), cohort'[g] \notin {c, None}
                 PROVE  broken'[c] >= SplitConfirm
        OBVIOUS
    <2>1. c \in Ids /\ c # None /\ g \in Tgids /\ cohort[g] = c
        BY WakeGraphAssumption, SMTT(30) DEF StreakInv, MemberInv, Members, Ids
    <2>2. Tick
        <3> SUFFICES ASSUME ~Tick PROVE FALSE
            OBVIOUS
        <3> QED BY <2>1, OnlyTickMoves, Zenon DEF StreakInv
    <2>3. Due(c, [d \in live |-> Components(d)])
        BY <2>2, TickMoves, Zenon DEF StreakInv
    <2> QED BY <2>1, <2>2, <2>3, TickStreaks, Zenon
<1>4. [][Confirming]_vars => SplitsConfirmed
    BY Zenon DEF SplitsConfirmed
<1> QED BY <1>1, <1>2, <1>3, <1>4, PTL DEF Spec

-----------------------------------------------------------------------------
\* The moving average of two rates is a rate: the division rounds down, but
\* not below the lower of the two.
LEMMA BlendIsRate ==
    ASSUME NEW r \in Nat, NEW i \in Nat
    PROVE  Blend(r, i) \in Nat
<1> DEFINE A == AlphaInv
           q == (i - r) \div A
<1>1. A \in Int /\ A >= 1
    BY WakeGraphAssumption, SMTT(30)
<1>2. /\ q \in Int /\ (i - r) % A \in Int
      /\ i - r = A * q + ((i - r) % A) /\ (i - r) % A < A
    BY <1>1, SMTT(30)
<1>3. q >= -r
    <2> HIDE DEF q, A
    <2>1. SUFFICES ASSUME q <= -r - 1 PROVE FALSE
        BY <1>2, SMTT(30)
    <2>2. A * q <= A * (-r - 1)
        BY <1>1, <1>2, <2>1, SMTT(30)
    <2>3. A * (-r - 1) = -(A * r) - A
        BY <1>1, SMTT(30)
    <2>4. A * r >= r
        BY <1>1, SMTT(30)
    <2>5. A * q \in Int /\ A * r \in Int
        BY <1>1, <1>2, SMTT(30)
    <2> QED BY <1>1, <1>2, <2>2, <2>3, <2>4, <2>5, SMTT(30)
<1> HIDE DEF q
<1>4. r + q \in Nat
    BY <1>2, <1>3, SMTT(30)
<1> QED BY <1>4, Zenon DEF Blend, q

\* A tick keeps rates and counters within their ranges.
LEMMA TickTypes ==
    ASSUME TypeOK, MemberInv, Tick
    PROVE  TypeOK'
<1>1. MemberInv'
    BY TickMembers, Zenon
<1>2. cohort' \in [Tgids -> Ids \cup {None}] /\ live' \subseteq Ids /\ alive' \subseteq Tgids
    <2>1. \A g \in Tgids : cohort'[g] \in Ids \cup {None}
        BY <1>1, Zenon DEF MemberInv, MembersHaveCohort
    <2> QED BY <1>1, <2>1, Zenon DEF MemberInv
<1>3. rate' \in [Edges -> Nat]
    <2>1. \A e \in Edges : Blend(rate[e], traffic[e]) \in Nat
        BY BlendIsRate, Zenon DEF TypeOK
    <2> QED BY <2>1, Zenon DEF Tick, Observe
<1>4. traffic' \in [Edges -> Nat] /\ dead_tgids' \subseteq Tgids /\ steady' \in BOOLEAN
    BY Zenon DEF Tick, TypeOK, Unseen
<1>5. over_ticks' \in [Edges -> 0 .. MergeConfirm]
    <2>1. PICK m \in MergeSets : over_ticks' = [f \in Edges |-> IF f \in m THEN 0 ELSE Count(f)]
        BY Zenon DEF Tick
    <2>2. MergeConfirm \in Nat /\ \A e \in Edges : Kept(e) \in 0 .. MergeConfirm
        BY WakeGraphAssumption, SMTT(30) DEF Kept, TypeOK
    <2>3. \A e \in Edges : Count(e) \in 0 .. MergeConfirm
        BY <2>2, SMTT(30) DEF Count, Capped
    <2> QED BY <2>1, <2>2, <2>3, SMTT(30)
<1>6. split_streak' \in [Ids -> 0 .. SplitConfirm - 1]
    <2> DEFINE comps == [c \in live |-> Components(c)]
    <2>1. split_streak' = [c \in Ids |-> Streak(c, comps)]
        BY Zenon DEF Tick
    <2> HIDE DEF comps
    <2>2. ASSUME NEW c \in Ids PROVE Streak(c, comps) \in 0 .. SplitConfirm - 1
        <3>1. split_streak[c] \in 0 .. SplitConfirm - 1 /\ SplitConfirm \in Nat \ {0}
            BY WakeGraphAssumption, Zenon DEF TypeOK
        <3>2. CASE c \in live /\ Disconnected(c, comps) /\ ~Due(c, comps)
            <4>1. ~(split_streak[c] + 1 >= SplitConfirm)
                BY <3>2, Zenon DEF Due
            <4> QED BY <3>1, <3>2, <4>1, SMTT(30) DEF Streak
        <3>3. CASE ~(c \in live /\ Disconnected(c, comps) /\ ~Due(c, comps))
            BY <3>1, <3>3, SMTT(30) DEF Streak
        <3> QED BY <3>2, <3>3, Zenon
    <2> QED BY <2>1, <2>2, Zenon
<1> QED BY <1>2, <1>3, <1>4, <1>5, <1>6, Zenon DEF TypeOK

\* Rates never become negative, confirmations never exceed what confirms, and a
\* split is taken as soon as its streak is full: no streak is ever beyond it.
THEOREM TypeCorrect == Spec => []TypeOK
<1>1. Init => TypeOK /\ MemberInv
    <2>1. Init => MemberInv
        BY WakeGraphAssumption, SMTT(30) DEF Init, MemberInv, MembersHaveCohort
    <2>2. ASSUME Init PROVE TypeOK
        <3>1. 0 \in 0 .. MergeConfirm /\ 0 \in 0 .. SplitConfirm - 1
            BY WakeGraphAssumption, SMTT(30)
        <3>2. cohort \in [Tgids -> Ids \cup {None}] /\ live \subseteq Ids
            BY <2>2, WakeGraphAssumption, SMTT(30) DEF Init
        <3>3. traffic \in [Edges -> Nat] /\ rate \in [Edges -> Nat]
            BY <2>2, WakeGraphAssumption, Zenon DEF Init
        <3> QED BY <2>2, <3>1, <3>2, <3>3, Zenon DEF Init, TypeOK
    <2> QED BY <2>1, <2>2, Zenon
<1>2. TypeOK /\ MemberInv /\ [Next]_vars => (TypeOK /\ MemberInv)'
    <2> SUFFICES ASSUME TypeOK, MemberInv, [Next]_vars PROVE TypeOK' /\ MemberInv'
        OBVIOUS
    <2>1. CASE Tick
        BY <2>1, TickTypes, TickMembers, Zenon
    <2>2. CASE Interval
        BY <2>2, WakeGraphAssumption, Zenon
           DEF TypeOK, MemberInv, MembersHaveCohort, Interval, procs, graph
    <2>3. ASSUME NEW g \in Tgids, Exit(g) PROVE TypeOK' /\ MemberInv'
        BY <2>3, Zenon DEF TypeOK, MemberInv, MembersHaveCohort, Exit, graph
    <2>4. ASSUME NEW g \in Tgids, Start(g) PROVE TypeOK' /\ MemberInv'
        BY <2>4, Zenon DEF TypeOK, MemberInv, MembersHaveCohort, Start, Fresh, kSubset, graph
    <2>5. CASE Calm \/ UNCHANGED vars
        BY <2>5, Zenon DEF TypeOK, MemberInv, MembersHaveCohort, Calm, vars, procs, graph
    <2> QED BY <2>1, <2>2, <2>3, <2>4, <2>5, Zenon DEF Next
<1> QED BY <1>1, <1>2, PTL DEF Spec

=============================================================================
