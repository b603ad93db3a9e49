----------------------------- MODULE FairShare ------------------------------
(***************************************************************************)
(* Virtual time within one LLC: the order of its DSQ, the frontier         *)
(* llcx->vtime_now and the charge of tctx->vtime in bpf/main.bpf.c         *)
(* (enqueue, running, stopping).                                           *)
(*                                                                         *)
(* vtime is a u64 that wraps and is compared as a signed difference; here  *)
(* it has Mod values.  The comparison and the store of running are two     *)
(* steps: CPUs of the LLC share the frontier without a lock.               *)
(*                                                                         *)
(* The LLC is contended: more tasks than it has CPUs never sleep, so that  *)
(* some task always waits.  Tasks reach a CPU through the DSQ: the direct  *)
(* insertions of select_cpu are in Dispatch.  Time advances for all CPUs   *)
(* together; callbacks take no time.  No task sleeps through half of the   *)
(* range of vtime (292 years in the code): MaxSleep bounds it here.        *)
(***************************************************************************)
EXTENDS Integers, FiniteSets

CONSTANTS
    NrCpus,          \* CPUs of the LLC
    Tasks,
    Weight,          \* p->scx.weight
    Slice,           \* slice_ns
    Interactive,     \* tasks that may show the interactive signature
    CreditMax,       \* tunables.credit_max_ns
    Sleepers,        \* tasks that sleep
    MaxSleep,        \* how far others may leave a sleeping task behind
    Mod,             \* the number of vtime values, 2^64 in the code
    Cap              \* bound of the history variable got

ASSUME FairShareAssumption ==
    /\ NrCpus \in Nat \ {0} /\ IsFiniteSet(Tasks)
    /\ Weight \in [Tasks -> Nat \ {0}]
    /\ {Slice, Mod, Cap} \subseteq Nat \ {0} /\ {CreditMax, MaxSleep} \subseteq Nat
    /\ Interactive \subseteq Tasks /\ Sleepers \subseteq Tasks
    /\ Cardinality(Tasks \ Sleepers) > NrCpus

VARIABLES
    st,              \* "sleep", "queued", "storing" or "running"
    vtime,           \* tctx->vtime, in 0 .. Mod - 1 as the next and vtime_now
    key,             \* the vtime the task was inserted with
    ran,             \* time on the CPU since last_run_at, up to Slice
    vtime_now,       \* llcx->vtime_now
    got              \* history: got[p][q] is the vtime charged to q since p
                     \* was put into the DSQ where it still waits

vars == <<st, vtime, key, ran, vtime_now, got>>

-----------------------------------------------------------------------------
\* vtime_before: (s64)(a - b) < 0
Before(a, b) == (a - b) % Mod >= Mod \div 2

Queued == {t \in Tasks : st[t] = "queued"}
OnCpu == {t \in Tasks : st[t] \in {"storing", "running"}}

\* The head of a DSQ (the kernel orders it by vtime, modulo wraparound).
Heads == {t \in Queued : \A u \in Queued : ~Before(key[u], key[t])}

\* init_task gives every task the frontier of its home LLC.
Init ==
    /\ st = [t \in Tasks |-> "queued"]
    /\ vtime_now \in {0, Mod - 1}
    /\ vtime = [t \in Tasks |-> vtime_now]
    /\ key = vtime
    /\ ran = [t \in Tasks |-> 0]
    /\ got = [p \in Tasks |-> [q \in Tasks |-> 0]]

\* The keys enqueue may insert a task of virtual time v with: at most a slice
\* behind the frontier, less the credit if it looks interactive.
Keys(t, v) ==
    LET floor == (vtime_now - Slice) % Mod
        clamped == IF Before(v, floor) THEN floor ELSE v
    IN  {clamped} \cup {(clamped - CreditMax) % Mod : u \in Interactive \cap {t}}

\* stopping: what the time on the CPU costs the task.
Charge(t, d) == (d * 100) \div Weight[t]

\* Mutant: no charge.
ChargedNothing(t) == vtime[t]

Charged(t) == (vtime[t] + Charge(t, ran[t])) % Mod

\* What the tasks that wait have seen t be charged.
Seen(t) ==
    [p \in Tasks |->
        IF p \in Queued
        THEN [got[p] EXCEPT ![t] =
                 IF @ + Charge(t, ran[t]) > Cap THEN Cap ELSE @ + Charge(t, ran[t])]
        ELSE got[p]]
Forget(t) == [q \in Tasks |-> 0]

\* running, first half: is the task ahead of the frontier?
Started(t) == IF Before(vtime_now, vtime[t]) THEN "storing" ELSE "running"

-----------------------------------------------------------------------------
\* A CPU without a task takes the head of the DSQ.
Dispatch(t) ==
    /\ t \in Heads
    /\ Cardinality(OnCpu) < NrCpus
    /\ st' = [st EXCEPT ![t] = Started(t)]
    /\ got' = [got EXCEPT ![t] = Forget(t)]
    /\ UNCHANGED <<vtime, key, ran, vtime_now>>

\* running, second half.
Store(t) ==
    /\ st[t] = "storing"
    /\ st' = [st EXCEPT ![t] = "running"]
    /\ vtime_now' = vtime[t]
    /\ UNCHANGED <<vtime, key, ran, got>>

\* Every CPU is busy.
Filled == Cardinality(OnCpu) = NrCpus

\* Whether a task is so far behind another that it must not sleep (any longer).
TooFarBehind(u, t) ==
    Before(vtime[u], vtime[t]) /\ (vtime[t] - vtime[u]) % Mod > MaxSleep

\* Time passes, and no slice is over.
Tick ==
    /\ Filled
    /\ \A u \in Tasks, t \in OnCpu : st[u] = "sleep" => ~TooFarBehind(u, t)
    /\ \A t \in OnCpu : st[t] = "running" /\ ran[t] < Slice
    /\ ran' = [t \in Tasks |-> IF t \in OnCpu THEN ran[t] + 1 ELSE ran[t]]
    /\ UNCHANGED <<st, vtime, key, vtime_now, got>>

\* Mutant: the clamped and credited key becomes the vtime of the task.
SwitchKeepsCredit(t, u) ==
    /\ st[t] = "running" /\ ran[t] = Slice /\ u \in Heads
    /\ \E k \in Keys(t, Charged(t)) :
          key' = [key EXCEPT ![t] = k] /\ vtime' = [vtime EXCEPT ![t] = k]
    /\ ran' = [ran EXCEPT ![t] = 0]
    /\ st' = [st EXCEPT ![t] = "queued", ![u] = Started(u)]
    /\ got' = [Seen(t) EXCEPT ![u] = Forget(u)]
    /\ UNCHANGED vtime_now

\* A slice ends: dispatch takes the head u, then stopping and enqueue run for t,
\* then running for u.
Switch(t, u) ==
    /\ st[t] = "running" /\ ran[t] = Slice /\ u \in Heads
    /\ vtime' = [vtime EXCEPT ![t] = Charged(t)]
    /\ \E k \in Keys(t, Charged(t)) : key' = [key EXCEPT ![t] = k]
    /\ ran' = [ran EXCEPT ![t] = 0]
    /\ st' = [st EXCEPT ![t] = "queued", ![u] = Started(u)]
    /\ got' = [Seen(t) EXCEPT ![u] = Forget(u)]
    /\ UNCHANGED vtime_now

Sleep(t) ==
    /\ t \in Sleepers /\ st[t] = "running"
    /\ \A u \in Tasks : ~TooFarBehind(t, u)
    /\ vtime' = [vtime EXCEPT ![t] = Charged(t)]
    /\ ran' = [ran EXCEPT ![t] = 0]
    /\ st' = [st EXCEPT ![t] = "sleep"]
    /\ got' = Seen(t)
    /\ UNCHANGED <<key, vtime_now>>

Wake(t) ==
    /\ st[t] = "sleep" /\ Filled
    /\ \E k \in Keys(t, vtime[t]) : key' = [key EXCEPT ![t] = k]
    /\ st' = [st EXCEPT ![t] = "queued"]
    /\ UNCHANGED <<vtime, ran, vtime_now, got>>

Next ==
    \/ Tick
    \/ \E t \in Tasks : Dispatch(t) \/ Store(t) \/ Sleep(t) \/ Wake(t)
    \/ \E t, u \in Tasks : Switch(t, u)

Spec == Init /\ [][Next]_vars

-----------------------------------------------------------------------------
(* Properties                                                              *)

\* The most a task can be charged for one slice.
MaxCharge == CHOOSE m \in {Charge(t, Slice) : t \in Tasks} :
                 \A t \in Tasks : Charge(t, Slice) <= m

\* "Bound how much vtime credit a long sleeper can accumulate: one slice behind
\* the LLC's frontier at most", and "keep the unfairness finite": while a task
\* waits, another one overtakes it by the slice of credit, the interactive
\* credit and the charge each of the two had run up, and no more.
OvertakingBounded ==
    \A p, q \in Tasks : got[p][q] <= Slice + 2 * CreditMax + 3 * MaxCharge

\* Where there are two tasks per CPU, those of one weight that never sleep share
\* the CPUs evenly: their virtual times stay within two slices and the
\* interactive credit of each other, across wraparound and in whatever order the
\* CPUs store the frontier.  With fewer tasks they do not: dispatch runs before
\* the task whose slice is over is queued again, so of two slices that end
\* together the first to end may be all that the second CPU finds.
SharesEven ==
    Cardinality(Tasks) >= 2 * NrCpus =>
        \A p, q \in Tasks \ Sleepers :
            Weight[p] = Weight[q] =>
                LET d == (vtime[p] + Charge(p, ran[p]) - vtime[q] - Charge(q, ran[q])) % Mod
                IN  d < Mod \div 2 => d <= 2 * Charge(p, Slice) + CreditMax

=============================================================================
