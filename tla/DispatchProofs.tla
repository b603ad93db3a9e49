--------------------------- MODULE DispatchProofs ---------------------------
(***************************************************************************)
(* No task is stranded, for every machine, set of tasks and affinities,    *)
(* with cohorts moving, affinities changing and LLCs stealing.             *)
(*                                                                         *)
(* Nor does a task wait for a CPU that is idle, in the DSQ it reads first. *)
(*                                                                         *)
(* NoStranding is not inductive: that the DSQ of the CPU a task is on is   *)
(* consumed by a CPU the task may use needs that it is on such a CPU.      *)
(***************************************************************************)
EXTENDS Dispatch, FiniteSetTheorems, TLAPS

\* A task that has woken is on a CPU it may use.
OnAllowedCpu == \A t \in Tasks : st[t] # "sleep" => cpu[t] \in aff[t]

\* What a CPU runs is running there, and what is queued is in a DSQ.
Bookkept ==
    /\ \A c \in Cpus : cur[c] # None =>
          cur[c] \in Tasks /\ st[cur[c]] = "running" /\ cpu[cur[c]] = c
    /\ \A t \in Tasks : dsq[t] # None => st[t] = "queued"

Types ==
    /\ st \in [Tasks -> {"sleep", "waking", "queued", "local", "running"}]
    /\ cpu \in [Tasks -> Cpus]
    /\ aff \in [Tasks -> SUBSET Cpus]
    /\ home \in [Tasks -> Llcs]
    /\ dsq \in [Tasks -> Llcs \cup {None}]
    /\ cur \in [Cpus -> Tasks \cup {None}]

StrandInv == Types /\ Bookkept /\ OnAllowedCpu /\ NoStranding

\* The LLC enqueue chooses has a CPU the task may use, if the task is on one.
LEMMA EffectiveIsConsumed ==
    ASSUME Types, NEW t \in Tasks, NEW c \in Cpus, c \in aff[t]
    PROVE  /\ EffectiveLlc(t, c) \in Llcs
           /\ CpusOf(EffectiveLlc(t, c)) \cap aff[t] # {}
<1>1. LlcOf[c] \in Llcs /\ c \in CpusOf(LlcOf[c])
  BY DispatchAssumption, Zenon DEF CpusOf
<1>2. CASE CpusOf(home[t]) \cap aff[t] # {}
  BY <1>2, Zenon DEF EffectiveLlc, Types
<1>3. CASE CpusOf(home[t]) \cap aff[t] = {}
  BY <1>1, <1>3, Zenon DEF EffectiveLlc
<1> QED BY <1>2, <1>3, Zenon

\* A CPU picks only a task that waits and may run there.
LEMMA CandidatesAllowed ==
    ASSUME StrandInv, NEW c \in Cpus, NEW t \in Candidates(c)
    PROVE  t \in Tasks /\ c \in aff[t] /\ st[t] \in {"local", "queued"}
<1>1. CASE t \in Local(c)
  BY <1>1, Zenon DEF Local, StrandInv, OnAllowedCpu
<1>2. ASSUME NEW l, l \in Llcs, t \in Movable(l, c)
      PROVE  t \in Tasks /\ c \in aff[t] /\ st[t] \in {"local", "queued"}
  BY <1>2, DispatchAssumption DEF Movable, Queue, StrandInv, Bookkept
<1>3. CASE t \in Movable(LlcOf[c], c)
  BY <1>2, <1>3, DispatchAssumption, Zenon
<1>4. CASE \E l \in FirstVictim(c) : t \in Movable(l, c)
  BY <1>2, <1>4, Zenon DEF FirstVictim, Victims
<1> QED BY <1>1, <1>3, <1>4, Zenon DEF Candidates

\* Every action preserves the invariant.
LEMMA StrandStep == StrandInv /\ [Next]_vars => StrandInv'
<1> SUFFICES ASSUME StrandInv, [Next]_vars PROVE StrandInv'
  OBVIOUS
<1> USE DEF StrandInv
<1>1. ASSUME NEW t \in Tasks, Wake(t)
      PROVE  StrandInv'
  <2>1. PICK r \in SelectCpu(t), c \in Cpus :
            c \in aff[t] /\ cpu' = [cpu EXCEPT ![t] = c]
    <3>1. PICK r \in SelectCpu(t) :
             \E c \in (IF r.cpu \in aff[t] THEN {r.cpu} ELSE aff[t]) :
                 cpu' = [cpu EXCEPT ![t] = c]
      BY <1>1, Zenon DEF Wake
    <3>2. PICK c \in (IF r.cpu \in aff[t] THEN {r.cpu} ELSE aff[t]) :
             cpu' = [cpu EXCEPT ![t] = c]
      BY <3>1, Zenon
    <3>3. c \in aff[t]
      BY <3>2, Zenon
    <3> QED BY <3>2, <3>3, Zenon DEF Types
  <2>2. /\ st[t] = "sleep" /\ st' = [st EXCEPT ![t] = "waking"]
        /\ UNCHANGED <<aff, home, dsq, cur>>
    BY <1>1, Zenon DEF Wake
  <2>3. Types'
    BY <2>1, <2>2, Zenon DEF Types
  <2>4. Bookkept'
    BY <2>1, <2>2 DEF Types, Bookkept
  <2>5. OnAllowedCpu'
    BY <2>1, <2>2, Zenon DEF Types, OnAllowedCpu
  <2>6. NoStranding'
    BY <2>2, Zenon DEF NoStranding, CpusOf
  <2> QED BY <2>3, <2>4, <2>5, <2>6, Zenon
<1>2. ASSUME NEW t \in Tasks, Enqueue(t)
      PROVE  StrandInv'
  <2>1. st[t] = "waking" /\ UNCHANGED <<cpu, aff, home, cur>>
    BY <1>2, Zenon DEF Enqueue
  <2>2. cpu[t] \in Cpus /\ cpu[t] \in aff[t]
    BY <2>1, Zenon DEF Types, OnAllowedCpu
  <2>3. CASE st' = [st EXCEPT ![t] = "local"] /\ UNCHANGED dsq
    BY <2>1, <2>3 DEF Types, Bookkept, OnAllowedCpu, NoStranding, CpusOf
  <2>4. ASSUME NEW l, l = EffectiveLlc(t, cpu[t]),
               st' = [st EXCEPT ![t] = "queued"], dsq' = [dsq EXCEPT ![t] = l]
        PROVE  StrandInv'
    <3>1. l \in Llcs /\ CpusOf(l) \cap aff[t] # {}
      BY <2>2, <2>4, EffectiveIsConsumed, Zenon
    <3>2. Types' /\ Bookkept' /\ OnAllowedCpu'
      BY <2>1, <2>4, <3>1 DEF Types, Bookkept, OnAllowedCpu
    <3>3. NoStranding'
      BY <2>1, <2>4, <3>1, Zenon DEF Types, NoStranding, CpusOf
    <3> QED BY <3>2, <3>3, Zenon
  <2> QED BY <1>2, <2>3, <2>4, Zenon DEF Enqueue
<1>3. ASSUME NEW c \in Cpus, Schedule(c)
      PROVE  StrandInv'
  <2>1. UNCHANGED <<aff, home>> /\ cur[c] = None
    BY <1>3, Zenon DEF Schedule
  <2>2. CASE UNCHANGED <<st, cpu, dsq, cur>>
    BY <2>1, <2>2 DEF Types, Bookkept, OnAllowedCpu, NoStranding, CpusOf
  <2>3. ASSUME NEW t \in Candidates(c),
               cur' = [cur EXCEPT ![c] = t], st' = [st EXCEPT ![t] = "running"],
               cpu' = [cpu EXCEPT ![t] = c], dsq' = [dsq EXCEPT ![t] = None]
        PROVE  StrandInv'
    <3>1. t \in Tasks /\ c \in aff[t] /\ st[t] \in {"local", "queued"}
      BY <2>3, CandidatesAllowed, Zenon
    <3>2. Types' /\ OnAllowedCpu'
      BY <2>1, <2>3, <3>1, Zenon DEF Types, OnAllowedCpu
    <3>3. Bookkept'
      BY <2>1, <2>3, <3>1, DispatchAssumption DEF Types, Bookkept
    <3>4. NoStranding'
      BY <2>1, <2>3, <3>1, Zenon DEF Types, NoStranding, CpusOf
    <3> QED BY <3>2, <3>3, <3>4, Zenon
  <2> QED BY <1>3, <2>2, <2>3, Zenon DEF Schedule
<1>4. ASSUME NEW c \in Cpus, SliceEnd(c)
      PROVE  StrandInv'
  <2> DEFINE prev == cur[c]
             l == EffectiveLlc(prev, c)
  <2>1. PICK t \in Candidates(c) :
            /\ cur' = [cur EXCEPT ![c] = t]
            /\ st' = [st EXCEPT ![t] = "running", ![prev] = "queued"]
            /\ cpu' = [cpu EXCEPT ![t] = c]
            /\ dsq' = [dsq EXCEPT ![t] = None, ![prev] = l]
    BY <1>4, Zenon DEF SliceEnd
  <2>2. UNCHANGED <<aff, home>> /\ prev # None
    BY <1>4, Zenon DEF SliceEnd
  <2>3. prev \in Tasks /\ st[prev] = "running" /\ cpu[prev] = c /\ c \in aff[prev]
    BY <2>2 DEF Types, Bookkept, OnAllowedCpu
  <2>4. t \in Tasks /\ c \in aff[t] /\ st[t] \in {"local", "queued"}
    BY CandidatesAllowed, Zenon
  <2>5. l \in Llcs /\ CpusOf(l) \cap aff[prev] # {}
    BY <2>3, EffectiveIsConsumed, Zenon
  <2> HIDE DEF prev, l
  <2>6. Types' /\ OnAllowedCpu'
    BY <2>1, <2>2, <2>3, <2>4, <2>5, Zenon DEF Types, OnAllowedCpu
  <2>7. \A d \in Cpus \ {c} : cur[d] # None => cur[d] # t /\ cur[d] # prev
    BY <2>3, <2>4, Zenon DEF Types, Bookkept
  <2>8. Bookkept'
    BY <2>1, <2>3, <2>4, <2>7, DispatchAssumption DEF Types, Bookkept
  <2>9. NoStranding'
    BY <2>1, <2>2, <2>3, <2>4, <2>5, Zenon DEF Types, NoStranding, CpusOf
  <2> QED BY <2>6, <2>8, <2>9, Zenon
<1>5. ASSUME NEW c \in Cpus, Block(c)
      PROVE  StrandInv'
  <2>1. /\ cur[c] # None
        /\ st' = [st EXCEPT ![cur[c]] = "sleep"]
        /\ cur' = [cur EXCEPT ![c] = None]
        /\ UNCHANGED <<cpu, aff, home, dsq>>
    BY <1>5, Zenon DEF Block
  <2> QED BY <2>1 DEF Types, Bookkept, OnAllowedCpu, NoStranding, CpusOf
<1>6. ASSUME NEW t \in Tasks, NEW l \in Llcs, Rehome(t, l)
      PROVE  StrandInv'
  BY <1>6 DEF Rehome, Types, Bookkept, OnAllowedCpu, NoStranding, CpusOf
<1>7. ASSUME NEW t \in Tasks, NEW a \in Affinities, SetAffinity(t, a)
      PROVE  StrandInv'
  BY <1>7, DispatchAssumption
     DEF SetAffinity, Types, Bookkept, OnAllowedCpu, NoStranding, CpusOf
<1>8. ASSUME UNCHANGED <<st, cpu, aff, home, dsq, cur>>
      PROVE  StrandInv'
  BY <1>8 DEF Types, Bookkept, OnAllowedCpu, NoStranding, CpusOf
<1> QED
  BY <1>1, <1>2, <1>3, <1>4, <1>5, <1>6, <1>7, <1>8, Zenon DEF Next, DelayPasses, vars

\* No task ever waits in a DSQ that none of its CPUs consumes, on any machine
\* and for any sequence of affinity changes, cohort moves, spills and steals.
THEOREM NeverStranded == Spec => []NoStranding
<1>1. Init => StrandInv
  BY DispatchAssumption, Zenon
     DEF Init, StrandInv, Types, Bookkept, OnAllowedCpu, NoStranding
<1>2. StrandInv => NoStranding
  BY Zenon DEF StrandInv
<1> QED BY <1>1, <1>2, StrandStep, PTL DEF Spec

-----------------------------------------------------------------------------
\* The converse of Bookkept: what is queued is in a DSQ and what is running is on
\* the CPU it is assigned to.
Placed ==
    /\ \A t \in Tasks : st[t] = "queued" => dsq[t] # None
    /\ \A t \in Tasks : st[t] = "running" => cur[cpu[t]] = t

\* The types StrandInv does without.
MoreTypes ==
    /\ aff \in [Tasks -> Affinities] /\ how \in [Tasks -> {"none", "idle", "sync"}]
    /\ need \subseteq Cpus /\ idle \subseteq Cpus /\ late \subseteq Llcs

\* Every action leaves tasks and CPUs where the bookkeeping says: a CPU takes a
\* task out of the one place where it waits, so nothing runs or waits twice.
LEMMA PlacedStep ==
    ASSUME StrandInv, Placed, [Next]_vars
    PROVE  Placed'
<1>0. Types /\ Bookkept /\ OnAllowedCpu /\ None \notin Tasks /\ None \notin Llcs
  BY DispatchAssumption, Zenon DEF StrandInv
<1>1. ASSUME NEW t \in Tasks, Wake(t)
      PROVE  Placed'
  <2>1. /\ st' = [st EXCEPT ![t] = "waking"] /\ UNCHANGED <<dsq, cur>>
        /\ \E c : cpu' = [cpu EXCEPT ![t] = c]
    BY <1>1, Zenon DEF Wake
  <2>2. \A u \in Tasks : u # t => st'[u] = st[u] /\ cpu'[u] = cpu[u]
    BY ONLY <1>0, <2>1, Zenon DEF Types
  <2>3. st'[t] = "waking"
    BY ONLY <1>0, <2>1, t \in Tasks, Zenon DEF Types
  <2> QED BY ONLY <2>1, <2>2, <2>3, Placed, Zenon DEF Placed
<1>2. ASSUME NEW t \in Tasks, Enqueue(t)
      PROVE  Placed'
  <2>1. st[t] = "waking" /\ UNCHANGED <<cpu, cur>>
    BY <1>2, Zenon DEF Enqueue
  <2>2. CASE st' = [st EXCEPT ![t] = "local"] /\ UNCHANGED dsq
    BY ONLY <1>0, <2>1, <2>2, Placed, Zenon DEF Types, Placed
  <2>3. ASSUME NEW l, l = EffectiveLlc(t, cpu[t]),
               st' = [st EXCEPT ![t] = "queued"], dsq' = [dsq EXCEPT ![t] = l]
        PROVE  Placed'
    <3>1. cpu[t] \in Cpus /\ cpu[t] \in aff[t]
      BY ONLY <1>0, <2>1, t \in Tasks, Zenon DEF Types, OnAllowedCpu
    <3>2. l # None
      BY <1>0, <2>3, <3>1, EffectiveIsConsumed, Zenon
    <3> QED BY ONLY <1>0, <2>1, <2>3, <3>2, Placed, Zenon DEF Types, Placed
  <2> QED BY <1>2, <2>2, <2>3, Zenon DEF Enqueue
<1>3. ASSUME NEW c \in Cpus, Schedule(c)
      PROVE  Placed'
  <2>1. cur[c] = None
    BY <1>3, Zenon DEF Schedule
  <2>2. CASE UNCHANGED <<st, cpu, dsq, cur>>
    BY ONLY <2>2, Placed, Zenon DEF Placed
  <2>3. ASSUME NEW t \in Candidates(c),
               cur' = [cur EXCEPT ![c] = t], st' = [st EXCEPT ![t] = "running"],
               cpu' = [cpu EXCEPT ![t] = c], dsq' = [dsq EXCEPT ![t] = None]
        PROVE  Placed'
    <3>1. t \in Tasks
      BY <2>3, CandidatesAllowed, Zenon
    <3>2. /\ st'[t] = "running" /\ cpu'[t] = c /\ cur'[c] = t
          /\ \A u \in Tasks : u # t => /\ st'[u] = st[u] /\ cpu'[u] = cpu[u]
                                       /\ dsq'[u] = dsq[u]
          /\ \A d \in Cpus : d # c => cur'[d] = cur[d]
      BY ONLY <1>0, <2>3, <3>1, c \in Cpus, Zenon DEF Types
    <3>3. \A u \in Tasks : st[u] = "running" => cpu[u] # c
      BY ONLY <1>0, <2>1, Placed, Zenon DEF Placed
    <3>4. \A u \in Tasks : cpu[u] \in Cpus
      BY ONLY <1>0, Zenon DEF Types
    <3> QED BY ONLY <3>2, <3>3, <3>4, Placed DEF Placed
  <2> QED BY <1>3, <2>2, <2>3, Zenon DEF Schedule
<1>4. ASSUME NEW c \in Cpus, SliceEnd(c)
      PROVE  Placed'
  <2> DEFINE prev == cur[c]
             l == EffectiveLlc(prev, c)
  <2>1. PICK t \in Candidates(c) :
            /\ cur' = [cur EXCEPT ![c] = t]
            /\ st' = [st EXCEPT ![t] = "running", ![prev] = "queued"]
            /\ cpu' = [cpu EXCEPT ![t] = c]
            /\ dsq' = [dsq EXCEPT ![t] = None, ![prev] = l]
    BY <1>4, Zenon DEF SliceEnd
  <2>2. prev # None
    BY <1>4, Zenon DEF SliceEnd
  <2>3. prev \in Tasks /\ st[prev] = "running" /\ cpu[prev] = c /\ c \in aff[prev]
    BY ONLY <1>0, <2>2, c \in Cpus DEF Types, Bookkept, OnAllowedCpu
  <2>4. t \in Tasks /\ st[t] \in {"local", "queued"}
    BY CandidatesAllowed, Zenon
  <2>5. l # None
    BY <1>0, <2>3, EffectiveIsConsumed, Zenon
  <2>6. \A u \in Tasks : st[u] = "running" /\ cpu[u] = c => u = prev
    BY ONLY Placed, Zenon DEF Placed
  <2> HIDE DEF prev, l
  <2>7. /\ st'[t] = "running" /\ cpu'[t] = c /\ cur'[c] = t
        /\ st'[prev] = "queued" /\ dsq'[prev] = l
        /\ \A d \in Cpus : d # c => cur'[d] = cur[d]
    BY ONLY <1>0, <2>1, <2>3, <2>4, c \in Cpus, Zenon DEF Types
  <2>8. \A u \in Tasks : u \notin {t, prev} =>
            st'[u] = st[u] /\ cpu'[u] = cpu[u] /\ dsq'[u] = dsq[u]
    BY ONLY <1>0, <2>1, Zenon DEF Types
  <2>9. \A u \in Tasks : cpu[u] \in Cpus
    BY ONLY <1>0, Zenon DEF Types
  <2> QED BY ONLY <2>5, <2>6, <2>7, <2>8, <2>9, Placed DEF Placed
<1>5. ASSUME NEW c \in Cpus, Block(c)
      PROVE  Placed'
  <2>1. /\ cur[c] # None
        /\ st' = [st EXCEPT ![cur[c]] = "sleep"]
        /\ cur' = [cur EXCEPT ![c] = None]
        /\ UNCHANGED <<cpu, dsq>>
    BY <1>5, Zenon DEF Block
  <2>2. cur[c] \in Tasks /\ cpu[cur[c]] = c
    BY ONLY <1>0, <2>1, c \in Cpus, Zenon DEF Bookkept
  <2>3. /\ st'[cur[c]] = "sleep"
        /\ \A u \in Tasks : u # cur[c] => st'[u] = st[u] /\ (cpu[u] = c => st[u] # "running")
        /\ \A d \in Cpus : d # c => cur'[d] = cur[d]
    BY ONLY <1>0, <2>1, <2>2, Placed, Zenon DEF Types, Placed
  <2>4. \A u \in Tasks : cpu[u] \in Cpus
    BY ONLY <1>0, Zenon DEF Types
  <2> QED BY ONLY <2>1, <2>2, <2>3, <2>4, Placed, Zenon DEF Placed
<1>6. ASSUME UNCHANGED <<st, cpu, dsq, cur>>
      PROVE  Placed'
  BY ONLY <1>6, Placed, Zenon DEF Placed
<1> QED BY <1>1, <1>2, <1>3, <1>4, <1>5, <1>6, Zenon
        DEF Next, Rehome, SetAffinity, DelayPasses, vars

\* The idle mask, the late LLCs and what select_cpu found stay of their kind.
LEMMA MoreTypesStep ==
    ASSUME StrandInv, MoreTypes, [Next]_vars
    PROVE  MoreTypes'
<1>1. ASSUME NEW t \in Tasks, Wake(t)
      PROVE  MoreTypes'
  <2>1. PICK r \in SelectCpu(t) :
            how' = [how EXCEPT ![t] = r.how] /\ idle' = idle \ r.claim
    BY <1>1, Zenon DEF Wake
  <2>2. r.how \in {"none", "idle", "sync"}
    <3>1. \E c, k : \E h \in {"none", "idle", "sync"} : r = Choice(c, h, k)
      <4>1. \/ r = Choice(cpu[t], "none", {})
            \/ r \in {Choice(c, "sync", {}) : c \in SyncTargets(CpusOf(home[t]) \cap aff[t])}
            \/ r \in PickIdle(t) \/ r \in Clamp(t)
        BY ONLY <2>1, r \in SelectCpu(t), Zenon DEF SelectCpu
      <4> QED BY ONLY <4>1, Zenon DEF PickIdle, Clamp
    <3> QED BY ONLY <3>1 DEF Choice
  <2>3. UNCHANGED <<aff, need, late>>
    BY <1>1, Zenon DEF Wake
  <2> QED BY ONLY <2>1, <2>2, <2>3, MoreTypes, Zenon DEF MoreTypes
<1>2. ASSUME NEW t \in Tasks, Enqueue(t)
      PROVE  MoreTypes'
  <2>1. /\ how' = [how EXCEPT ![t] = "none"] /\ UNCHANGED <<aff, idle>>
        /\ need' = IF cur[cpu[t]] = None THEN need \cup {cpu[t]} ELSE need
        /\ late' \subseteq late
    BY <1>2, Zenon DEF Enqueue, InsertInto
  <2>2. cpu[t] \in Cpus
    BY Zenon DEF StrandInv, Types
  <2> QED BY ONLY <2>1, <2>2, MoreTypes, Zenon DEF MoreTypes
<1>3. ASSUME NEW c \in Cpus, Schedule(c)
      PROVE  MoreTypes'
  <2>1. /\ UNCHANGED <<aff, how>> /\ need' \subseteq need
        /\ idle' \subseteq idle \cup {c} /\ late' \subseteq late
    BY <1>3, Zenon DEF Schedule, Consumed
  <2> QED BY ONLY <2>1, c \in Cpus, MoreTypes, Zenon DEF MoreTypes
<1>4. ASSUME NEW c \in Cpus, SliceEnd(c)
      PROVE  MoreTypes'
  <2>1. UNCHANGED <<aff, how, need, idle>> /\ late' \subseteq late
    BY <1>4, Zenon DEF SliceEnd, Consumed
  <2> QED BY ONLY <2>1, MoreTypes, Zenon DEF MoreTypes
<1>5. ASSUME NEW c \in Cpus, Block(c)
      PROVE  MoreTypes'
  BY <1>5, Zenon DEF Block, MoreTypes
<1>6. ASSUME NEW t \in Tasks, NEW a \in Affinities, SetAffinity(t, a)
      PROVE  MoreTypes'
  BY <1>6, Zenon DEF SetAffinity, MoreTypes
<1>7. ASSUME NEW l \in Llcs, DelayPasses(l)
      PROVE  MoreTypes'
  BY <1>7, Zenon DEF DelayPasses, MoreTypes
<1>8. ASSUME UNCHANGED <<aff, how, need, idle, late>>
      PROVE  MoreTypes'
  BY ONLY <1>8, MoreTypes, Zenon DEF MoreTypes
<1> QED BY <1>1, <1>2, <1>3, <1>4, <1>5, <1>6, <1>7, <1>8, Zenon DEF Next, Rehome, vars

\* Together these are TypeOK.
LEMMA PlacedIsTyped ==
    ASSUME StrandInv, Placed, MoreTypes
    PROVE  TypeOK
<1>1. Types /\ Bookkept /\ None \notin Tasks
  BY DispatchAssumption, Zenon DEF StrandInv
<1>2. ASSUME NEW t \in Tasks
      PROVE  (dsq[t] # None) = (st[t] = "queued")
  <2>1. dsq[t] # None <=> st[t] = "queued"
    BY ONLY <1>1, Placed, t \in Tasks, Zenon DEF Bookkept, Placed
  <2> QED BY ONLY <2>1, Zenon
<1>3. ASSUME NEW c \in Cpus, NEW t \in Tasks
      PROVE  (cur[c] = t) = (st[t] = "running" /\ cpu[t] = c)
  <2>1. ASSUME cur[c] = t PROVE st[t] = "running" /\ cpu[t] = c
    BY ONLY <1>1, <2>1, c \in Cpus, t \in Tasks, Zenon DEF Bookkept
  <2>2. ASSUME st[t] = "running", cpu[t] = c PROVE cur[c] = t
    BY ONLY <2>2, Placed, t \in Tasks, Zenon DEF Placed
  <2> QED BY ONLY <2>1, <2>2, Zenon
<1> QED BY ONLY <1>1, <1>2, <1>3, MoreTypes, Zenon DEF TypeOK, Types, MoreTypes

\* Every task is in exactly the place its state names, the CPU that runs it or
\* the DSQ it waits in, on any machine and in any interleaving of wakeups,
\* dispatches and what the daemon does.
THEOREM TypeCorrect == Spec => []TypeOK
<1> DEFINE Inv == StrandInv /\ Placed /\ MoreTypes
<1>1. Init => Inv
  <2>1. Init => StrandInv
    BY DispatchAssumption, Zenon
       DEF Init, StrandInv, Types, Bookkept, OnAllowedCpu, NoStranding
  <2>2. Init => Placed
    BY Zenon DEF Init, Placed
  <2>3. Init => MoreTypes
    BY Zenon DEF Init, MoreTypes
  <2> QED BY <2>1, <2>2, <2>3, Zenon
<1>2. Inv /\ [Next]_vars => Inv'
  BY StrandStep, PlacedStep, MoreTypesStep, Zenon
<1>3. Inv => TypeOK
  BY PlacedIsTyped, Zenon
<1> HIDE DEF Inv
<1> QED BY <1>1, <1>2, <1>3, PTL DEF Spec

-----------------------------------------------------------------------------
(* Waiting tasks and the CPUs they wait for.                               *)

WillBeAwake(c) == cur'[c] # None \/ c \in need'

\* A CPU does not go idle while a task it looks for first is waiting.
LEMMA StaysAwake ==
    ASSUME StrandInv, [Next]_vars, NEW c \in Cpus, Awake(c),
           Local(c) # {} \/ Movable(LlcOf[c], c) # {}
    PROVE  WillBeAwake(c)
<1>0. Types /\ None \notin Tasks
  BY DispatchAssumption, Zenon DEF StrandInv
<1>1. ASSUME NEW d \in Cpus, Schedule(d) \/ SliceEnd(d) \/ Block(d)
      PROVE  WillBeAwake(c)
  <2>1. CASE c # d
    BY <1>0, <1>1, <2>1, Zenon DEF Awake, WillBeAwake, Schedule, SliceEnd, Block, Types
  <2>2. CASE c = d /\ Block(d)
    BY <2>2, SMTT(30) DEF WillBeAwake, Block
  <2>3. CASE c = d /\ ~Block(d)
    <3>1. Candidates(c) # {}
      BY Zenon DEF Candidates
    <3>2. PICK t \in Candidates(c) : cur' = [cur EXCEPT ![c] = t]
      BY <1>1, <2>3, <3>1, SMTT(30) DEF Schedule, SliceEnd
    <3>3. t \in Tasks
      BY CandidatesAllowed, Zenon
    <3>4. cur'[c] # None
      BY <1>0, <3>2, <3>3, Zenon DEF Types
    <3> QED BY <3>4, Zenon DEF WillBeAwake
  <2> QED BY <2>1, <2>2, <2>3, SMTT(30)
<1>2. ASSUME cur' = cur, need \subseteq need'
      PROVE  WillBeAwake(c)
  BY <1>2, Zenon DEF Awake, WillBeAwake
<1> QED BY <1>1, <1>2, Zenon
        DEF Next, Wake, Enqueue, Rehome, SetAffinity, DelayPasses, vars


BeginsToWait(u) == st'[u] \in {"queued", "local"} /\ WillBeAwake(cpu'[u])

KeepsWaiting(u) == st'[u] = st[u] /\ cpu'[u] = cpu[u] /\ dsq'[u] = dsq[u]

\* A task begins to wait in this step, and then its CPU is not idle, or has been
\* waiting, or does not wait.
LEMMA WaitingStep ==
    ASSUME StrandInv, [Next]_vars, NEW u \in Tasks
    PROVE  BeginsToWait(u) \/ KeepsWaiting(u) \/ st'[u] \notin {"queued", "local"}
<1>0. Types /\ Bookkept /\ OnAllowedCpu /\ None \notin Tasks
  BY DispatchAssumption, Zenon DEF StrandInv
<1> DEFINE Goal == BeginsToWait(u) \/ KeepsWaiting(u) \/ st'[u] \notin {"queued", "local"}
<1>1. ASSUME NEW t \in Tasks, Wake(t)
      PROVE  Goal
  <2>1. /\ st' = [st EXCEPT ![t] = "waking"] /\ UNCHANGED <<dsq>>
        /\ \E c : cpu' = [cpu EXCEPT ![t] = c]
    BY <1>1, ZenonT(60) DEF Wake
  <2> QED BY <1>0, <2>1, Zenon DEF Types, KeepsWaiting
<1>2. ASSUME NEW t \in Tasks, Enqueue(t)
      PROVE  Goal
  <2>1. /\ UNCHANGED <<cpu, cur>>
        /\ need' = IF cur[cpu[t]] = None THEN need \cup {cpu[t]} ELSE need
    BY <1>2, Zenon DEF Enqueue
  <2>2. WillBeAwake(cpu'[t])
    BY <2>1, Zenon DEF WillBeAwake
  <2>3. CASE u # t
    <3>1. /\ \E s : st' = [st EXCEPT ![t] = s]
          /\ dsq' = dsq \/ \E l : dsq' = [dsq EXCEPT ![t] = l]
      BY <1>2, Zenon DEF Enqueue
    <3> QED BY <1>0, <2>1, <2>3, <3>1, SMTT(30) DEF Types, KeepsWaiting
  <2>4. CASE u = t
    <3>1. st' = [st EXCEPT ![t] = "local"] \/ st' = [st EXCEPT ![t] = "queued"]
      BY <1>2, Zenon DEF Enqueue
    <3> QED BY ONLY <1>0, <2>2, <2>4, <3>1, t \in Tasks, SMTT(30) DEF Types, BeginsToWait
  <2> QED BY <2>3, <2>4, Zenon
<1>3. ASSUME NEW c \in Cpus, Schedule(c)
      PROVE  Goal
  <2>1. CASE UNCHANGED <<st, cpu, dsq>>
    BY <2>1, Zenon DEF KeepsWaiting
  <2>2. CASE \E t \in Candidates(c) :
                /\ st' = [st EXCEPT ![t] = "running"] /\ cpu' = [cpu EXCEPT ![t] = c]
                /\ dsq' = [dsq EXCEPT ![t] = None]
    BY <1>0, <2>2, Zenon DEF Types, KeepsWaiting
  <2> QED BY <1>3, <2>1, <2>2, Zenon DEF Schedule
<1>4. ASSUME NEW c \in Cpus, SliceEnd(c)
      PROVE  Goal
  <2> DEFINE prev == cur[c]
             l == EffectiveLlc(prev, c)
  <2>1. PICK t \in Candidates(c) :
            /\ cur' = [cur EXCEPT ![c] = t]
            /\ st' = [st EXCEPT ![t] = "running", ![prev] = "queued"]
            /\ cpu' = [cpu EXCEPT ![t] = c]
            /\ dsq' = [dsq EXCEPT ![t] = None, ![prev] = l]
    BY <1>4, ZenonT(60) DEF SliceEnd
  <2>2. prev # None
    BY <1>4, Zenon DEF SliceEnd
  <2>3. prev \in Tasks /\ cpu[prev] = c
    BY ONLY <1>0, <2>2, c \in Cpus, Zenon DEF Bookkept
  <2>4. t \in Tasks
    BY CandidatesAllowed, Zenon
  <2> HIDE DEF prev, l
  <2>5. CASE u \notin {t, prev}
    BY <1>0, <2>1, <2>5, Zenon DEF Types, KeepsWaiting
  <2>6. CASE u = t /\ u # prev
    BY <1>0, <2>1, <2>6, SMTT(30) DEF Types
  <2>7. CASE u = prev
    <3>1. st'[u] = "queued" /\ cpu'[u] = c /\ cur'[c] # None
      BY ONLY <1>0, <2>1, <2>3, <2>4, <2>7, c \in Cpus, SMTT(30) DEF Types
    <3> QED BY <3>1, Zenon DEF BeginsToWait, WillBeAwake
  <2> QED BY <2>5, <2>6, <2>7, Zenon
<1>5. ASSUME NEW c \in Cpus, Block(c)
      PROVE  Goal
  <2>1. st' = [st EXCEPT ![cur[c]] = "sleep"] /\ UNCHANGED <<cpu, dsq>>
    BY <1>5, Zenon DEF Block
  <2> QED BY <1>0, <2>1, Zenon DEF Types, KeepsWaiting
<1>6. ASSUME UNCHANGED <<st, cpu, dsq>>
      PROVE  Goal
  BY <1>6, SMTT(30) DEF KeepsWaiting
<1> QED BY <1>1, <1>2, <1>3, <1>4, <1>5, <1>6, SMTT(30) DEF Next, Rehome, SetAffinity, DelayPasses, vars

LEMMA ServedStep ==
    ASSUME StrandInv, Served, [Next]_vars
    PROVE  Served'
<1>0. /\ Types /\ Bookkept /\ OnAllowedCpu /\ (Types /\ Bookkept)'
      /\ None \notin Llcs /\ LlcOf \in [Cpus -> Llcs]
  BY StrandStep, DispatchAssumption, Zenon DEF StrandInv
<1> SUFFICES ASSUME NEW u \in Tasks, st'[u] = "local" \/ dsq'[u] = LlcOf[cpu'[u]]
             PROVE  WillBeAwake(cpu'[u])
  BY ZenonT(60) DEF Served, Awake, WillBeAwake
<1>1. cpu[u] \in Cpus /\ LlcOf[cpu[u]] # None /\ LlcOf[cpu'[u]] # None
  BY <1>0, Zenon DEF Types
<1>2. st'[u] \in {"queued", "local"}
  BY <1>0, <1>1, Zenon DEF Bookkept
<1>3. CASE BeginsToWait(u)
  BY <1>3, Zenon DEF BeginsToWait
<1>4. CASE KeepsWaiting(u)
  <2>1. st[u] = "local" \/ dsq[u] = LlcOf[cpu[u]]
    BY <1>4, Zenon DEF KeepsWaiting
  <2>2. Awake(cpu[u])
    BY <2>1, Zenon DEF Served
  <2>3. Local(cpu[u]) # {} \/ Movable(LlcOf[cpu[u]], cpu[u]) # {}
    <3>1. CASE st[u] = "local"
      BY <3>1, Zenon DEF Local
    <3>2. CASE dsq[u] = LlcOf[cpu[u]]
      <4>1. cpu[u] \in aff[u]
        BY <1>0, <1>1, <3>2, SMTT(30) DEF Bookkept, OnAllowedCpu
      <4> QED BY <3>2, <4>1, Zenon DEF Movable, Queue
    <3> QED BY <2>1, <3>1, <3>2, Zenon
  <2>4. WillBeAwake(cpu[u])
    BY <1>1, <2>2, <2>3, StaysAwake, Zenon
  <2> QED BY <1>4, <2>4, Zenon DEF KeepsWaiting
<1> QED BY <1>2, <1>3, <1>4, WaitingStep, Zenon

\* What waits in a local DSQ, or in the DSQ its CPU reads first, is waited for
\* by that CPU, on any machine and in any interleaving of wakeups, dispatches,
\* steals, handoffs, affinity changes and moves: select_cpu, enqueue and dispatch
\* never leave it to a CPU that nobody will wake.
THEOREM WaitedFor == Spec => []Served
<1>1. Init => StrandInv /\ Served
  <2> SUFFICES ASSUME Init PROVE StrandInv /\ Served
    OBVIOUS
  <2>1. StrandInv
    BY DispatchAssumption, Zenon
       DEF Init, StrandInv, Types, Bookkept, OnAllowedCpu, NoStranding
  <2>2. \A t \in Tasks : st[t] # "local" /\ dsq[t] # LlcOf[cpu[t]]
    <3>1. \A t \in Tasks : LlcOf[cpu[t]] # None
      <4>1. cpu \in [Tasks -> Cpus] /\ LlcOf \in [Cpus -> Llcs] /\ None \notin Llcs
        BY <2>1, DispatchAssumption, Zenon DEF StrandInv, Types
      <4> QED BY ONLY <4>1, SMTT(30)
    <3>2. \A t \in Tasks : st[t] = "sleep" /\ dsq[t] = None
      BY Zenon DEF Init
    <3> QED BY ONLY <3>1, <3>2, SMTT(30)
  <2> QED BY <2>1, <2>2, Zenon DEF Served
<1>2. StrandInv /\ Served /\ [Next]_vars => (StrandInv /\ Served)'
  BY StrandStep, ServedStep, Zenon
<1> QED BY <1>1, <1>2, PTL DEF Spec

-----------------------------------------------------------------------------
(* Tasks that wait elsewhere.                                              *)

\* No CPU finds a task to steal.
NothingToSteal == \A c \in Cpus : Victims(c) = {}

\* A task is never on a CPU it may not use, not even while it sleeps.
StaysAllowed == \A t \in Tasks : cpu[t] \in aff[t]

\* A task is woken, runs and waits in the LLC enqueue would choose for it.
AtHome ==
    \A t \in Tasks :
        /\ st[t] # "sleep" => LlcOf[cpu[t]] = EffectiveLlc(t, cpu[t])
        /\ dsq[t] # None => dsq[t] = LlcOf[cpu[t]]

\* Of a task that is on a CPU it may use, select_cpu returns a CPU that it may
\* use, in the LLC enqueue would choose, and clears no other CPU's idle bit.
LEMMA SelectsAtHome ==
    ASSUME Types, NEW t \in Tasks, cpu[t] \in aff[t], NEW r \in SelectCpu(t)
    PROVE  /\ r.cpu \in aff[t]
           /\ LlcOf[r.cpu] = EffectiveLlc(t, r.cpu)
           /\ r.claim = {} \/ (r.how = "idle" /\ r.claim = {r.cpu})
<1> DEFINE both == CpusOf(home[t]) \cap aff[t]
           Goal(c) == c \in aff[t] /\ LlcOf[c] = EffectiveLlc(t, c)
<1>0. \A c, h, k : /\ Choice(c, h, k).cpu = c /\ Choice(c, h, k).how = h
                   /\ Choice(c, h, k).claim = k
  BY Zenon DEF Choice
<1>1. \A c \in both : Goal(c)
  BY Zenon DEF EffectiveLlc, CpusOf
<1>2. CASE both = {}
  <2>1. Goal(cpu[t])
    BY <1>2, Zenon DEF EffectiveLlc
  <2>2. r = Choice(cpu[t], "none", {})
    BY <1>2, Zenon DEF SelectCpu
  <2> QED BY <1>0, <2>1, <2>2
<1>3. CASE both # {} /\ Cardinality(aff[t]) = 1
  <2>1. IsFiniteSet(aff[t])
    BY FS_Subset, DispatchAssumption DEF Types
  <2>2. cpu[t] \in both
    <3>1. PICK x : aff[t] = {x}
      BY <1>3, <2>1, FS_Singleton, SMTT(30)
    <3> QED BY <1>3, <3>1, Zenon
  <2>3. r = Choice(cpu[t], "none", {})
    BY <1>3, Zenon DEF SelectCpu
  <2> QED BY <1>0, <1>1, <2>2, <2>3
<1>4. CASE both # {} /\ Cardinality(aff[t]) # 1
  <2>1. \/ r \in {Choice(c, "sync", {}) : c \in SyncTargets(both)}
        \/ r \in PickIdle(t) \/ r \in Clamp(t)
    BY <1>4, SMTT(30) DEF SelectCpu
  <2>2. CASE r \in {Choice(c, "sync", {}) : c \in SyncTargets(both)}
    <3>1. PICK c \in both : r = Choice(c, "sync", {})
      BY <2>2, Zenon DEF SyncTargets
    <3> QED BY <1>0, <1>1, <3>1
  <2>3. CASE r \in PickIdle(t)
    <3>1. PICK c \in Free(t) : r = Choice(c, "idle", {c})
      BY <2>3, SMTT(30) DEF PickIdle
    <3>2. c \in both
      BY Zenon DEF Free
    <3> QED BY <1>0, <1>1, <3>1, <3>2
  <2>4. CASE r \in Clamp(t)
    <3>1. PICK c \in both : r = Choice(c, "none", {})
      BY <2>4, Zenon DEF Clamp
    <3> QED BY <1>0, <1>1, <3>1
  <2> QED BY <2>1, <2>2, <2>3, <2>4, Zenon
<1> QED BY <1>2, <1>3, <1>4, Zenon

\* What a wakeup does to a task that is on a CPU it may use.
LEMMA WakesAtHome ==
    ASSUME Types, NEW t \in Tasks, cpu[t] \in aff[t], Wake(t)
    PROVE  \E r \in SelectCpu(t) :
              /\ cpu' = [cpu EXCEPT ![t] = r.cpu] /\ r.cpu \in aff[t]
              /\ LlcOf[r.cpu] = EffectiveLlc(t, r.cpu)
              /\ how' = [how EXCEPT ![t] = r.how]
              /\ idle' = idle \/ (r.how = "idle" /\ idle' = idle \ {r.cpu})
<1>1. PICK r \in SelectCpu(t) :
          /\ \E c \in (IF r.cpu \in aff[t] THEN {r.cpu} ELSE aff[t]) :
                cpu' = [cpu EXCEPT ![t] = c]
          /\ how' = [how EXCEPT ![t] = r.how]
          /\ idle' = idle \ r.claim
  BY ZenonT(60) DEF Wake
<1>2. /\ r.cpu \in aff[t]
      /\ LlcOf[r.cpu] = EffectiveLlc(t, r.cpu)
      /\ r.claim = {} \/ (r.how = "idle" /\ r.claim = {r.cpu})
  BY SelectsAtHome, Zenon
<1>3. idle' = idle \/ (r.how = "idle" /\ idle' = idle \ {r.cpu})
  BY <1>1, <1>2, SMTT(30)
<1> QED BY <1>1, <1>2, <1>3, Zenon

LEMMA AllowedStep ==
    ASSUME ~Pinning, StrandInv, StaysAllowed, [Next]_vars
    PROVE  StaysAllowed'
<1>0. Types
  BY Zenon DEF StrandInv
<1>1. ASSUME NEW t \in Tasks, Wake(t)
      PROVE  StaysAllowed'
  <2>1. aff' = aff /\ \E c \in aff[t] : cpu' = [cpu EXCEPT ![t] = c]
    BY <1>0, <1>1, WakesAtHome, Zenon DEF Wake, StaysAllowed
  <2> QED BY <1>0, <2>1, SMTT(30) DEF Types, StaysAllowed
<1>2. ASSUME NEW c \in Cpus, Schedule(c) \/ SliceEnd(c)
      PROVE  StaysAllowed'
  <2>1. /\ aff' = aff
        /\ cpu' = cpu \/ \E t \in Candidates(c) : cpu' = [cpu EXCEPT ![t] = c]
    BY <1>2, Zenon DEF Schedule, SliceEnd
  <2>2. \A t \in Candidates(c) : t \in Tasks /\ c \in aff[t]
    BY CandidatesAllowed, Zenon
  <2> QED BY ONLY <1>0, <2>1, <2>2, StaysAllowed, Zenon DEF Types, StaysAllowed
<1>3. ASSUME UNCHANGED <<cpu, aff>>
      PROVE  StaysAllowed'
  BY <1>3, SMTT(30) DEF StaysAllowed
<1> QED BY <1>1, <1>2, <1>3, Zenon
        DEF Next, Enqueue, Block, Rehome, SetAffinity, DelayPasses, vars

\* A CPU that steals nothing takes a task from where the task belongs.
LEMMA TakesAtHome ==
    ASSUME StrandInv, AtHome, NothingToSteal, NEW c \in Cpus, NEW t \in Candidates(c)
    PROVE  LlcOf[c] = EffectiveLlc(t, c)
<1>1. t \in Tasks /\ c \in aff[t] /\ None \notin Llcs /\ LlcOf[c] \in Llcs
  BY CandidatesAllowed, DispatchAssumption, Zenon
<1>2. FirstVictim(c) = {}
  BY Zenon DEF FirstVictim, NothingToSteal
<1>3. CASE t \in Local(c)
  BY <1>3, SMTT(30) DEF Local, AtHome
<1>4. CASE t \in Movable(LlcOf[c], c)
  <2>1. dsq[t] = LlcOf[c] /\ dsq[t] # None
    BY <1>1, <1>4, Zenon DEF Movable, Queue
  <2>2. st[t] # "sleep"
    BY ONLY <1>1, <2>1, StrandInv, SMTT(30) DEF StrandInv, Bookkept
  <2>3. LlcOf[c] = EffectiveLlc(t, cpu[t])
    BY <1>1, <2>1, <2>2, Zenon DEF AtHome
  <2> QED BY <2>3, Zenon DEF EffectiveLlc
<1> QED BY <1>2, <1>3, <1>4, Zenon DEF Candidates

LEMMA AtHomeStep ==
    ASSUME ~Pinning, ~Moving, NothingToSteal, StrandInv, StaysAllowed, AtHome, [Next]_vars
    PROVE  AtHome'
<1>0. Types /\ Bookkept /\ None \notin Tasks /\ UNCHANGED <<aff, home>>
  BY DispatchAssumption, Zenon
     DEF StrandInv, Next, Wake, Enqueue, Schedule, SliceEnd, Block, Rehome, SetAffinity,
         DelayPasses, vars
<1> DEFINE Ran(u, c) == st'[u] # "sleep" => LlcOf[c] = EffectiveLlc(u, c)
           Waits(u) == dsq'[u] # None => dsq'[u] = LlcOf[cpu'[u]]
<1>a. \A u, c : EffectiveLlc(u, c)' = EffectiveLlc(u, c)
  BY <1>0, SMTT(30) DEF EffectiveLlc, CpusOf
<1> SUFFICES ASSUME NEW u \in Tasks
             PROVE  Ran(u, cpu'[u]) /\ Waits(u)
  BY <1>0, <1>a, Zenon DEF AtHome, EffectiveLlc, CpusOf
<1>b. /\ st[u] # "sleep" => LlcOf[cpu[u]] = EffectiveLlc(u, cpu[u])
      /\ dsq[u] # None => dsq[u] = LlcOf[cpu[u]] /\ st[u] # "sleep"
  BY <1>0, SMTT(30) DEF AtHome, Bookkept
<1>1. ASSUME NEW t \in Tasks, Wake(t)
      PROVE  Ran(u, cpu'[u]) /\ Waits(u)
  <2>1. PICK r \in SelectCpu(t) :
              cpu' = [cpu EXCEPT ![t] = r.cpu] /\ LlcOf[r.cpu] = EffectiveLlc(t, r.cpu)
    BY <1>0, <1>1, WakesAtHome, Zenon DEF StaysAllowed
  <2>2. st[t] = "sleep" /\ st' = [st EXCEPT ![t] = "waking"] /\ dsq' = dsq
    BY <1>1, SMTT(30) DEF Wake
  <2>3. CASE u = t
    <3>1. dsq'[u] = None
      BY ONLY <1>b, <2>2, <2>3, Zenon
    <3> QED BY ONLY <1>0, <2>1, <2>3, <3>1, t \in Tasks, Zenon DEF Types
  <2>4. CASE u # t
    BY ONLY <1>0, <1>b, <2>1, <2>2, <2>4, u \in Tasks, Zenon DEF Types
  <2> QED BY <2>3, <2>4, Zenon
<1>2. ASSUME NEW t \in Tasks, Enqueue(t)
      PROVE  Ran(u, cpu'[u]) /\ Waits(u)
  <2>1. st[t] = "waking" /\ cpu' = cpu
    BY <1>2, Zenon DEF Enqueue
  <2>2. CASE st' = [st EXCEPT ![t] = "local"] /\ dsq' = dsq
    BY <1>0, <1>b, <2>1, <2>2, Zenon DEF Types
  <2>3. CASE st' = [st EXCEPT ![t] = "queued"] /\ dsq' = [dsq EXCEPT ![t] = EffectiveLlc(t, cpu[t])]
    <3>1. LlcOf[cpu[t]] = EffectiveLlc(t, cpu[t])
      BY <2>1, SMTT(30) DEF AtHome
    <3>2. Ran(u, cpu'[u])
      BY <1>0, <1>b, <2>1, <2>3, SMTT(30) DEF Types
    <3>3. Waits(u)
      BY <1>0, <1>b, <2>1, <2>3, <3>1, SMTT(30) DEF Types
    <3> QED BY <3>2, <3>3, Zenon
  <2> QED BY <1>2, <2>2, <2>3, SMTT(30) DEF Enqueue
<1>3. ASSUME NEW c \in Cpus, Schedule(c)
      PROVE  Ran(u, cpu'[u]) /\ Waits(u)
  <2>1. CASE UNCHANGED <<st, cpu, dsq>>
    BY <1>b, <2>1, Zenon
  <2>2. ASSUME NEW t \in Candidates(c), st' = [st EXCEPT ![t] = "running"],
               cpu' = [cpu EXCEPT ![t] = c], dsq' = [dsq EXCEPT ![t] = None]
        PROVE  Ran(u, cpu'[u]) /\ Waits(u)
    <3>1. LlcOf[c] = EffectiveLlc(t, c)
      BY <2>2, TakesAtHome, Zenon
    <3> QED BY <1>0, <1>b, <2>2, <3>1, Zenon DEF Types
  <2> QED BY <1>3, <2>1, <2>2, SMTT(30) DEF Schedule
<1>4. ASSUME NEW c \in Cpus, SliceEnd(c)
      PROVE  Ran(u, cpu'[u]) /\ Waits(u)
  <2> DEFINE prev == cur[c]
             l == EffectiveLlc(prev, c)
  <2>1. PICK t \in Candidates(c) :
            /\ st' = [st EXCEPT ![t] = "running", ![prev] = "queued"]
            /\ cpu' = [cpu EXCEPT ![t] = c]
            /\ dsq' = [dsq EXCEPT ![t] = None, ![prev] = l]
    BY <1>4, Zenon DEF SliceEnd
  <2>2. LlcOf[c] = EffectiveLlc(t, c)
    BY TakesAtHome, Zenon
  <2>3. prev \in Tasks /\ st[prev] = "running" /\ cpu[prev] = c /\ l = LlcOf[c]
    BY <1>0, <1>4, SMTT(30) DEF SliceEnd, Bookkept, AtHome
  <2> HIDE DEF prev, l
  <2>4. Ran(u, cpu'[u])
    BY <1>0, <1>b, <2>1, <2>2, <2>3, Zenon DEF Types
  <2>5. Waits(u)
    BY <1>0, <1>b, <2>1, <2>3, Zenon DEF Types
  <2> QED BY <2>4, <2>5, Zenon
<1>5. ASSUME NEW c \in Cpus, Block(c)
      PROVE  Ran(u, cpu'[u]) /\ Waits(u)
  <2>1. st' = [st EXCEPT ![cur[c]] = "sleep"] /\ UNCHANGED <<cpu, dsq>>
    BY <1>5, Zenon DEF Block
  <2> QED BY <1>0, <1>b, <2>1, Zenon DEF Types
<1>6. ASSUME UNCHANGED <<st, cpu, dsq>>
      PROVE  Ran(u, cpu'[u]) /\ Waits(u)
  BY <1>b, <1>6, SMTT(30)
<1> QED BY <1>1, <1>2, <1>3, <1>4, <1>5, <1>6, ZenonT(60) DEF Next, Rehome, SetAffinity, DelayPasses, vars

\* Every task that waits is waited for.
AllServed == \A t \in Tasks : st[t] \in {"queued", "local"} => Awake(cpu[t])

\* Only moves, affinity changes under a sleeping task and steals make a task
\* wait elsewhere than in the DSQ its CPU reads first: as long as there are none,
\* every waiting task is waited for, whoever wakes whom (select_cpu, enqueue).
THEOREM WaitsAtHome ==
    ASSUME ~Pinning, ~Moving
    PROVE  Spec /\ []NothingToSteal => []AllServed
<1> DEFINE Inv == StrandInv /\ Placed /\ StaysAllowed /\ AtHome
<1>1. Init => Inv
  <2> SUFFICES ASSUME Init PROVE Inv
    OBVIOUS
  <2>1. StrandInv
    BY DispatchAssumption, Zenon
       DEF Init, StrandInv, Types, Bookkept, OnAllowedCpu, NoStranding
  <2>2. StaysAllowed /\ Placed /\ AtHome
    BY Zenon DEF Init, StaysAllowed, Placed, AtHome
  <2> QED BY <2>1, <2>2, Zenon
<1>2. Inv /\ NothingToSteal /\ [Next]_vars => Inv'
  BY StrandStep, PlacedStep, AllowedStep, AtHomeStep, Zenon
<1>3. Inv /\ Served => AllServed
  BY Zenon DEF Placed, AtHome, Served, AllServed
<1> HIDE DEF Inv
<1> QED BY <1>1, <1>2, <1>3, WaitedFor, PTL DEF Spec

=============================================================================
