------------------------------ MODULE Dispatch ------------------------------
(***************************************************************************)
(* The wakeup and dispatch path of bpf/main.bpf.c: select_cpu, enqueue and *)
(* dispatch, one DSQ per LLC, and the steal gate between LLCs.             *)
(*                                                                         *)
(* The kernel's part is modelled as the scheduler relies on it: select_cpu *)
(* and the enqueue that follows it are two steps; a CPU calls dispatch when*)
(* it has no task, at the end of a slice, and when a task is woken for it  *)
(* while it is idle, and at no other time.                                 *)
(*                                                                         *)
(* Abstractions.  The home LLC of a task is what task_home_llc resolves to *)
(* (cohort policy or spill); the daemon may change it at any time.  Order  *)
(* in a DSQ is left to FairShare: here dispatch takes any task it may run. *)
(* SMT siblings are not told apart.                                        *)
(***************************************************************************)
EXTENDS Integers, FiniteSets

CONSTANTS
    Cpus, NrLlcs,
    LlcOf,           \* cpu_llc_id
    Tasks, None,
    Affinities,      \* the values p->cpus_ptr may take
    Pinning,         \* whether a task's affinity may change while it sleeps
    Moving,          \* whether the daemon moves cohorts and spills tasks
    Stealing,        \* whether time passes the steal delay
    Handoff,         \* whether tasks are woken by a synchronous waker
    StealMin         \* tunables.steal_min

Llcs == 0 .. NrLlcs - 1

ASSUME DispatchAssumption ==
    /\ IsFiniteSet(Cpus) /\ IsFiniteSet(Tasks)
    /\ NrLlcs \in Nat \ {0}
    /\ LlcOf \in [Cpus -> Llcs]
    /\ Affinities \subseteq (SUBSET Cpus) \ {{}}
    /\ None \notin Tasks /\ None \notin Llcs
    /\ {Pinning, Moving, Stealing, Handoff} \subseteq BOOLEAN
    /\ StealMin \in Nat

VARIABLES
    st,              \* "sleep", "waking", "queued", "local" or "running"
    cpu,             \* scx_bpf_task_cpu
    aff,             \* p->cpus_ptr
    home,            \* task_home_llc
    how,             \* what select_cpu found: "idle" and "sync" insert the task
                     \* into the local DSQ, "none" leaves it to enqueue
    dsq,             \* the LLC whose DSQ holds the task
    cur,             \* the task a CPU runs
    need,            \* CPUs that are about to pick a task
    idle,            \* scx_bpf idle mask
    late             \* LLCs with now - head_enq_ts > steal_delay_ns

vars == <<st, cpu, aff, home, how, dsq, cur, need, idle, late>>

-----------------------------------------------------------------------------
CpusOf(l) == {c \in Cpus : LlcOf[c] = l}
Queue(l) == {t \in Tasks : dsq[t] = l}
Local(c) == {t \in Tasks : st[t] = "local" /\ cpu[t] = c}
Awake(c) == cur[c] # None \/ c \in need

\* The task on the CPU is inside a synchronous wakeup and cannot be descheduled.
Handing(c) == \E t \in Tasks : st[t] = "waking" /\ how[t] = "sync" /\ cpu[t] = c

\* cohort_init, and every task asleep.
Init ==
    /\ st = [t \in Tasks |-> "sleep"]
    /\ aff \in [Tasks -> Affinities]
    /\ cpu \in {f \in [Tasks -> Cpus] : \A t \in Tasks : f[t] \in aff[t]}
    /\ home \in [Tasks -> Llcs]
    /\ how = [t \in Tasks |-> "none"]
    /\ dsq = [t \in Tasks |-> None]
    /\ cur = [c \in Cpus |-> None]
    /\ need = {} /\ idle = Cpus /\ late = IF Stealing THEN Llcs ELSE {}

-----------------------------------------------------------------------------
(* Wakeup: select_cpu, then enqueue                                        *)

Choice(c, h, claim) == [cpu |-> c, how |-> h, claim |-> claim]

\* A synchronous waker of the same cohort hands over its CPU if nothing waits
\* there.
SyncTargets(both) ==
    {c \in both : Handoff /\ cur[c] # None /\ Local(c) = {} /\ ~Handing(c)}

\* The idle CPU the search may claim: in the home LLC and allowed, or the
\* previous CPU in the home LLC, whose affinity is not looked at.
Free(t) == idle \cap CpusOf(home[t]) \cap (aff[t] \cup {cpu[t]})

PickIdle(t) == {Choice(c, "idle", {c}) : c \in Free(t)}

\* No idle CPU at home: stay there all the same.
Clamp(t) ==
    LET mask == CpusOf(home[t]) IN
    {Choice(c, "none", {}) : c \in IF cpu[t] \in mask THEN {cpu[t]} ELSE mask \cap aff[t]}

\* What select_cpu may return: the CPU, whether the task is inserted into its
\* local DSQ, and the CPUs whose idle bit it has cleared.
SelectCpu(t) ==
    LET both == CpusOf(home[t]) \cap aff[t] IN
    IF Cardinality(aff[t]) = 1 \/ both = {} THEN {Choice(cpu[t], "none", {})}
    ELSE {Choice(c, "sync", {}) : c \in SyncTargets(both)} \cup
         (IF Free(t) # {} THEN PickIdle(t) ELSE Clamp(t))

\* select_cpu.  The kernel replaces a CPU the task may not use by one it may.
Wake(t) ==
    /\ st[t] = "sleep"
    /\ \E r \in SelectCpu(t) :
          /\ \E c \in (IF r.cpu \in aff[t] THEN {r.cpu} ELSE aff[t]) :
                cpu' = [cpu EXCEPT ![t] = c]
          /\ how' = [how EXCEPT ![t] = r.how]
          /\ idle' = idle \ r.claim
    /\ st' = [st EXCEPT ![t] = "waking"]
    /\ UNCHANGED <<aff, home, dsq, cur, need, late>>

\* Mutant: affinity not looked at.
EffectiveHome(t, c) == home[t]

\* task_effective_llc: the home, unless the task may not run there at all.
EffectiveLlc(t, c) == IF CpusOf(home[t]) \cap aff[t] # {} THEN home[t] ELSE LlcOf[c]

\* enqueue's head_enq_ts: refreshed by an insertion into an empty DSQ.
InsertInto(l, queue) == IF queue = {} THEN late \ {l} ELSE late

\* enqueue, or the insertion select_cpu asked for.  The CPU the task was woken
\* for picks a task if it is idle; no other CPU is told.
Enqueue(t) ==
    /\ st[t] = "waking"
    /\ \/ /\ how[t] # "none"
          /\ st' = [st EXCEPT ![t] = "local"]
          /\ UNCHANGED <<dsq, late>>
       \/ /\ how[t] = "none"
          /\ st' = [st EXCEPT ![t] = "queued"]
          /\ LET l == EffectiveLlc(t, cpu[t]) IN
                /\ dsq' = [dsq EXCEPT ![t] = l]
                /\ late' = InsertInto(l, Queue(l))
    /\ how' = [how EXCEPT ![t] = "none"]
    /\ need' = IF cur[cpu[t]] = None THEN need \cup {cpu[t]} ELSE need
    /\ UNCHANGED <<cpu, aff, home, cur, idle>>

-----------------------------------------------------------------------------
(* dispatch                                                                *)

\* scx_bpf_dsq_move_to_local: the tasks of a DSQ that may run on the CPU.
Movable(l, c) == {t \in Queue(l) : c \in aff[t]}

\* The steal gate.
GateOpen(l) == Cardinality(Queue(l)) > StealMin \/ l \in late
Victims(c) == {l \in Llcs \ {LlcOf[c]} : GateOpen(l) /\ Movable(l, c) # {}}
FirstVictim(c) == {l \in Victims(c) : \A k \in Victims(c) : l <= k}

\* Mutant: the steal gate holds for the CPU's own LLC as well.
CandidatesGated(c) ==
    IF Local(c) # {} THEN Local(c)
    ELSE IF GateOpen(LlcOf[c]) /\ Movable(LlcOf[c], c) # {} THEN Movable(LlcOf[c], c)
    ELSE UNION {Movable(l, c) : l \in FirstVictim(c)}

\* What a CPU runs next: its local DSQ, its LLC's DSQ, another LLC's.
Candidates(c) ==
    IF Local(c) # {} THEN Local(c)
    ELSE IF Movable(LlcOf[c], c) # {} THEN Movable(LlcOf[c], c)
    ELSE UNION {Movable(l, c) : l \in FirstVictim(c)}

\* The DSQ dispatch took the task from has a new head.
Consumed(t) == late \ {dsq[t]}

\* A CPU without a task picks one, or goes idle.
Schedule(c) ==
    /\ c \in need /\ cur[c] = None
    /\ need' = need \ {c}
    /\ \/ /\ Candidates(c) = {}
          /\ idle' = idle \cup {c}
          /\ UNCHANGED <<st, cpu, dsq, cur, late>>
       \/ \E t \in Candidates(c) :
             /\ cur' = [cur EXCEPT ![c] = t]
             /\ st' = [st EXCEPT ![t] = "running"]
             /\ cpu' = [cpu EXCEPT ![t] = c]
             /\ dsq' = [dsq EXCEPT ![t] = None]
             /\ late' = Consumed(t)
             /\ idle' = idle \ {c}
    /\ UNCHANGED <<aff, home, how>>

\* The end of a slice: dispatch first, and if it found a task the one that ran
\* goes through enqueue, without select_cpu.
SliceEnd(c) ==
    /\ cur[c] # None /\ ~Handing(c)
    /\ \E t \in Candidates(c) :
       LET prev == cur[c]
           l == EffectiveLlc(prev, c)
       IN
          /\ cur' = [cur EXCEPT ![c] = t]
          /\ st' = [st EXCEPT ![t] = "running", ![prev] = "queued"]
          /\ cpu' = [cpu EXCEPT ![t] = c]
          /\ dsq' = [dsq EXCEPT ![t] = None, ![prev] = l]
          /\ late' = IF Queue(l) \ {t} = {} THEN Consumed(t) \ {l} ELSE Consumed(t)
    /\ UNCHANGED <<aff, home, how, need, idle>>

\* A task goes to sleep and its CPU picks another one.
Block(c) ==
    /\ cur[c] # None /\ ~Handing(c)
    /\ st' = [st EXCEPT ![cur[c]] = "sleep"]
    /\ cur' = [cur EXCEPT ![c] = None]
    /\ need' = need \cup {c}
    /\ UNCHANGED <<cpu, aff, home, how, dsq, idle, late>>

-----------------------------------------------------------------------------
(* The daemon, sched_setaffinity and time                                  *)

Rehome(t, l) ==
    /\ Moving
    /\ home' = [home EXCEPT ![t] = l]
    /\ UNCHANGED <<st, cpu, aff, how, dsq, cur, need, idle, late>>

SetAffinity(t, a) ==
    /\ Pinning /\ st[t] = "sleep"
    /\ aff' = [aff EXCEPT ![t] = a]
    /\ UNCHANGED <<st, cpu, home, how, dsq, cur, need, idle, late>>

DelayPasses(l) ==
    /\ Stealing
    /\ late' = late \cup {l}
    /\ UNCHANGED <<st, cpu, aff, home, how, dsq, cur, need, idle>>

Next ==
    \/ \E t \in Tasks : Wake(t) \/ Enqueue(t)
    \/ \E c \in Cpus : Schedule(c) \/ SliceEnd(c) \/ Block(c)
    \/ \E t \in Tasks : \E l \in Llcs : Rehome(t, l)
    \/ \E t \in Tasks : \E a \in Affinities : SetAffinity(t, a)
    \/ \E l \in Llcs : DelayPasses(l)

Spec == Init /\ [][Next]_vars

\* The kernel finishes a wakeup, lets a CPU that has no task pick one, and ends
\* the slice of a task that does not sleep first when another one waits; time
\* passes.
Fairness ==
    /\ \A t \in Tasks : WF_vars(Enqueue(t))
    /\ \A c \in Cpus : WF_vars(Schedule(c)) /\ WF_vars(SliceEnd(c))
    /\ \A l \in Llcs : WF_vars(DelayPasses(l))

FairSpec == Spec /\ Fairness

-----------------------------------------------------------------------------
(* Properties                                                              *)

\* Tasks and CPUs are where the bookkeeping says.
TypeOK ==
    /\ st \in [Tasks -> {"sleep", "waking", "queued", "local", "running"}]
    /\ cpu \in [Tasks -> Cpus] /\ aff \in [Tasks -> Affinities]
    /\ home \in [Tasks -> Llcs] /\ how \in [Tasks -> {"none", "idle", "sync"}]
    /\ dsq \in [Tasks -> Llcs \cup {None}]
    /\ cur \in [Cpus -> Tasks \cup {None}]
    /\ need \subseteq Cpus /\ idle \subseteq Cpus /\ late \subseteq Llcs
    /\ \A t \in Tasks : (dsq[t] # None) = (st[t] = "queued")
    /\ \A c \in Cpus, t \in Tasks : (cur[c] = t) = (st[t] = "running" /\ cpu[t] = c)

\* No task waits in a DSQ that none of its CPUs consumes ("enqueueing such a
\* task at home would strand it"), whatever its affinity was when it slept and
\* wherever the daemon has moved its cohort since.
NoStranding == \A t \in Tasks : dsq[t] # None => CpusOf(dsq[t]) \cap aff[t] # {}

\* A task that waits, in the local DSQ of its CPU or in the DSQ which that CPU
\* reads first, is waited for: its CPU is busy or about to pick a task and will
\* look there, however affinities, homes and steals have changed since select_cpu
\* and whichever CPU went idle before enqueue.  The scheduler never kicks a CPU.
\* (A task that is queued for another LLC than that of its CPU, because it was
\* moved, stolen or sent elsewhere by the kernel, may find all CPUs there idle.)
Served ==
    \A t \in Tasks : st[t] = "local" \/ dsq[t] = LlcOf[cpu[t]] => Awake(cpu[t])

\* A CPU picks a task while t is one it could pick, and picks t.
Considered(t) == \E c \in Cpus : t \in Candidates(c) /\ (Schedule(c) \/ SliceEnd(c))
Taken(t) == Considered(t) /\ st'[t] = "running"

\* A task that is considered again and again is taken in the end: that is what
\* the order of the DSQ by vtime is for.
ReachesHead(t) == []<><<Considered(t)>>_vars => []<><<Taken(t)>>_vars

\* A task that waits in a DSQ gets a CPU ("batch tasks cannot be starved past
\* the watchdog's patience"), if its vtime does not hold it back.
QueuedRuns ==
    \A t \in Tasks : ReachesHead(t) => (st[t] = "queued" ~> st[t] = "running")

=============================================================================
