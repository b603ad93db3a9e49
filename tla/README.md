# Verification of scx_cohort

TLA+ models of scx_cohort, a sched_ext scheduler that keeps related tasks
(*cohorts*) on one last-level cache (LLC, a CCD). TLC checks them on small
instances; TLAPS proves the main safety properties for all instances.

## 1. The system

| Part | Code | State | Operations |
|---|---|---|---|
| Cohort membership | `bpf/main.bpf.c` (init_task, exit_task, resolve_cohort, assign_cohort), `main.rs` (snapshots, collectors, apply_*) | maps tgid_cohort, cohort_policy, cohort_counters, task_ctxs, task_stats, spill_tasks; two id allocators; dead_cohorts, dead_tgids, current_spills | task creation and exit, wakeup, stopping; per tick: three snapshots, two collections, spill diff, merges, splits |
| Placement | `balancer.rs`, apply_rules, apply, apply_spills in `main.rs` | homes, pins, last_move_at, streak, spill set | plan, plan_spills, apply_rules |
| Wake graph | `wake_graph.rs`, discover_relationships | edge rates, over_ticks, split_streak | observe, merges, splits |
| Wakeup and dispatch | select_cpu, enqueue, dispatch in `main.bpf.c` | one DSQ per LLC, local DSQs, idle mask, head_enq_ts | wake, enqueue, dispatch, steal |
| Virtual time | enqueue, running, stopping in `main.bpf.c` | tctx->vtime, llcx->vtime_now | key, charge, frontier update |
| Lifecycle | `main`, `run`, `Scheduler::init` in `main.rs`, the systemd unit | SHUTDOWN, capabilities, link, user exit info, stats server, next_tick | init, capability drop, launch, request, tick, restart, signal |
| Statistics | `stats.rs`, get_metrics in `main.rs` | counters, the last answer of every connection | answer, difference, hit rate |
| Configuration, top view | `config.rs`, `top.rs` | rules | parse, match, print |
| Benchmark | `bench/ipc_pingpong` | processes, two futex words and a shared buffer per pair | spawn, ping, pong, wait, kill |

The BPF side and the daemon share maps and no lock. The BPF side runs on every
CPU at once. The daemon is one thread that sleeps for an interval and then runs a
tick, which reads every map once and writes decisions based on those copies. What
makes this hard: a tick acts on snapshots that are stale when it writes;
creation and deletion of a cohort take several map writes; pids and tgids are
reused; caches (`TaskCtx::cohort_id`) are refreshed only by a wakeup; nothing
kicks a CPU; three controllers with hysteresis (balancer, spill, merge/split)
react to each other; the daemon may be ended, ejected or restarted anywhere, while
its clients' connections go on. `PROJECT.json` lists these hazards at the lines where they
bite, each with the properties that cover it.

## 2. Modules

| Module | Models | A step is |
|---|---|---|
| `CohortMaps` | membership | one map operation of a BPF handler or of the tick |
| `Placement` | rules, balancer, spill planner | one tick, or the interval between two |
| `WakeGraph` | relationship discovery | one tick, a change of traffic, an exit or start of a process |
| `Dispatch` | wakeup and dispatch path | one callback, or one decision of the kernel |
| `FairShare` | virtual time in one LLC | one callback (running is two), or one unit of time |
| `Daemon` | lifecycle, request loop, statistics per connection | one step of main between two places where a signal, an ejection or a request matters |
| `IpcPingpong` | the benchmark's processes | one access to shared memory or one system call |
| `Membership` | what the cohort maps promise without merges | a cohort created or collected, a task joining or leaving |
| `RoundTrips` | what a pair of the benchmark promises | a message sent, answered or received |
| `*Proofs` | theorems | |
| `MC*` | instances for TLC | |

Splitting the daemon's tick over three modules is sound because the daemon is
the only writer of homes, pins and its own memory: CohortMaps has the tick's map
writes in their order and treats *what* the planners return as a choice;
Placement and WakeGraph have the planners and treat a tick as atomic. WakeGraph's
merges and splits are a subset of those CohortMaps allows (PlanMerge, PlanSplit).
Dispatch takes the home of a task as something the daemon may change at any time.
Daemon has the loop around the ticks: that ticks keep coming, which the liveness
of the other modules assumes, is its property `TickComes`, up to the clients that
section 3 speaks of.

### CohortMaps

`pc[p]` is where task p is in its life: "none", the init_* steps (cohort_init_task
after its lookups), "live", the exit_* steps. `dpc` is where the tick is. A handler's local
`id` is `reg`. Maps are sets of keys or total functions with `NoCohort`.
Assumptions:
- a handler that runs when a tick ends has returned when the next one starts
  (`stragglers`): the interval is 200 ms and handlers do not sleep. The
  two-observation rule of the collectors rests on this;
- a pid is reused only after exit_task of its holder has returned;
- a batched snapshot of one map is atomic; snapshots of different maps are not;
- a parent stays alive while init_task runs for its child (`forker`), and nobody
  forks while existing tasks are being attached;
- tgid_cohort, task_stats and spill_tasks do not fill up; the two cohort maps do
  (`MaxCohorts`), and then a refused insert in apply_split stops the daemon.

### Placement

One unit of load stands for a slice of a tick. `Interval` lets every task run for
any duration, every LLC execute any load, and tasks exit; `SteadyInterval` repeats the
same load where the tasks are placed. Ties are those of the code (last maximum,
first minimum); among equal candidates, and equally cold tasks, any order. The
residency clock is an age. Tasks do not start after the first tick.

### WakeGraph

Rates are integers and the average's weight is 1/`AlphaInv`. An absent edge is an
edge with all fields 0. Floating-point rounding is not modelled. gc_tgid_map is
part of the tick, since a tgid's reuse decides whose traffic is counted. With
`MergeConfirm >= SplitConfirm` the two planners can undo each other for ever: a
split planned from the tick's snapshot undoes the merge of the same tick, each
time anew. The code's values are 3 and 25, and the run keeps that order. `Calm` ends the changes of
traffic, exits and starts at any moment (`steady`); what follows is what the two liveness
properties speak of.

### Dispatch

A wakeup is select_cpu and then enqueue, two steps. A CPU calls dispatch when it
has no task, when a slice ends, or when a task is woken for it while it is idle.
`late` is the set of LLCs whose head has waited longer than the steal delay. Order
in a DSQ is left out (any runnable task of it may be taken), SMT siblings are not
told apart. The kernel's replacement of a CPU outside the affinity is included.

### FairShare

vtime has `Mod` values and is compared as a signed difference, as in
vtime_before. Charging is `delta * 100 / weight`. Comparison and store of the
frontier are two steps. The LLC is contended: more tasks than CPUs never sleep, so
a DSQ is never empty when a slice ends. Whether a task of `Interactive` shows the interactive
signature is a choice at every enqueue. `got[p][q]` is history: what q was charged
since p began to wait.

### Daemon

`pc` is where main stands: "init" (Scheduler::init), "drop", "launch", "check"
(the loop's condition), "recv" (recv_timeout), "left" (after run, before the
restart decision), "exited". `uei` is what the kernel recorded, `caps` the set of threads that
hold capabilities. A tick is one step; `lastView`, `lastTasks` and `spills` name
the tick that last_view, last_tasks and current_spills come from, by parity,
which tells a tick from its neighbours. Counters are four sums; they advance
independently, so reading them one by one equals reading them at once in another
order of the same events. `prev` is the closure state of a connection's reader; it
survives a re-initialisation. What is external is taken from its use: the stats server
passes one request at a time to the loop and the answer back; UserExitInfo::report fails for errors
only; the service manager restarts after a failure and not after a requested stop
(its start limit of 5 in 30 s lies above the bounds). Failures (`MaxFaults`): init,
capset, launch, a tick, a read of the counters. Errors of the channels are left out: the
server lives as long as main.

### IpcPingpong

`life[p]` follows spawn: "forked", "armed" (after prctl), "running" (after the
getppid check), "exited", "killed". A worker's `pc` names its next access: one
line of the payload, the store of its word, FUTEX_WAKE, the load and the FUTEX_WAIT
of futex_wait_until. FUTEX_WAIT compares and sleeps in one step, as the kernel does; a
sleeper may wake for no reason. Stamps are i and -i-1 (`!i`). Faults: a fork that
fails, a killed child, a killed parent. The refinement mapping counts a message
as sent or answered with the store of the word and as received with the end of the
client's round.

## 3. Runs

Passing runs (distinct states in brackets):

| Run | Shows |
|---|---|
| `CohortMapsGc` (470 k) | collection, pid reuse and creation in any interleaving, without merges: every task resolves to an existing cohort, nr_tasks is exact, policies and counters match up to creations and deletions under way, dead cohorts are collected eventually, and the maps implement `Membership` |
| `CohortMapsMerge` (1.6 M) | merges, splits and spills in maps a split may find full: ids are not reused, no process is sent to a cohort whose creation was refused, a deleted cohort leaves no seen process behind, the daemon remembers every entry of spill_tasks |
| `PlacementBalance` (218 k) | moves are confirmed, respect residency, never overshoot; spill hysteresis |
| `PlacementSteady` (17 k) | a constant load converges, spills included, and to a state no single move would repair |
| `WakeGraph` (180 k) | confirmation of merges and splits, membership, also with tgid reuse; constant traffic, whenever it sets in, settles with talkers together |
| `DispatchSteal` (402 k) | no stranding, and no task waits for an idle CPU, with affinity changes, moves, handoffs and steals |
| `FairShareContended` (1.1 M) | even shares, bounded overtaking, across wraparound |
| `Daemon` (337 k) | no thread keeps capabilities after the drop; a signal or an ejection is noticed after at most one round; answers come from one tick and differences from one interval, across failures and re-initialisations; signals end the process, ticks keep coming unless clients ask before every one of them, an ejected scheduler is attached again |
| `IpcPingpong` (70 k) | a reader finds the whole message of its round, no wakeup is lost, results are complete or refused, no orphans, an undisturbed run ends, and the pair implements `RoundTrips` |

Three runs end in a counterexample, where the code differs from what the
repository says of it (quotes in `PROJECT.json`):

| Run | What happens |
|---|---|
| `CohortMapsMergeFork` | a child forked by a parent with a stale cache is mapped to a deleted cohort; this is why `CohortMapsGc` has no merges |
| `DispatchHandoff` | two tasks that wake each other synchronously keep their CPU's local DSQ filled, so dispatch is not called there and a third task in the DSQ of their LLC starves; the unfairness is not "finite" (`main.bpf.c` 459-461, `DESIGN.md` 122 and 193 likewise), since a handoff is inserted without a vtime. An idle CPU of the other LLC could steal the task, but nobody wakes it |
| `FairShareSleeper` | the clamp is applied anew at every enqueue and its sum is the whole sleep; this is why `FairShareContended` bounds a nap |

Other differences between comments and code, met while modelling. They show in
the modules as soon as the statement is checked, but no run is kept for them:
- after a merge nr_tasks wraps: an exit decrements the absorbing cohort, and no
  count was transferred to it (`main.bpf.c` 682-688). The daemon derives its own
  counts;
- a merge can be undone by the process it remaps: the collector may delete the
  tgid entry of a process that has just taken over an old tgid; two of its threads
  that then start together both find no entry and both inherit; one writes the entry, the tick sees it,
  the merge remaps it, and the other writes the old cohort back (BPF_ANY, `main.bpf.c`
  626) before its counters are deleted. It takes four pids and two CPUs.
  `CohortMapsMerge` has one CPU, and `RemovalRemaps` names the condition;
- apply_spills compares the plan with what it wrote last, not with "the current
  map contents" (`balancer.rs` 161): after exit and reuse of a pid within a tick
  a planned spill is not written (`main.rs` 634);
- a spilled task that becomes hot stays remote until its cohort is below the low
  mark ("Hot threads never run remotely", `balancer.rs` 141), a cohort may move
  to the LLC its tasks are spilled to, and the set grows although the demand left
  at home fits, because the excess counts members already spilled (211-214);
- the split streak is the cohort's: with one member long quiet, a lull of one
  tick separates two others (`wake_graph.rs` 15-16, 232); and a split planned
  from the tick's snapshot can undo a merge of the same tick (`main.rs` 761);
- a full map can leave counters without a policy: the collector deletes the counters
  of a dead cohort, the BPF side finds cohort_policy still full and then
  cohort_counters not (`main.bpf.c` 622-623, results ignored), the collector deletes the
  policy. More generally a refused insert on the BPF side leaves tasks in a cohort
  without policy or counters; task_home_llc then answers the LLC the task is
  on. `PoliciesMatch` and `ResolvedCohortExists` are stated with room, and of the two sides only
  apply_split looks at the result: `SplitTargetsExist` is about it;
- a stolen or moved task whose slice ends is queued at home without waking a CPU
  there, and may wait while all CPUs are idle, until the next wakeup
  (`main.bpf.c` 472). `Served` speaks of the tasks in the DSQ their own CPU reads first;
- select_cpu looks at the idle bit of the previous CPU without asking for the affinity (388, 414):
  after a change of affinity it clears the bit of a CPU the kernel then
  replaces, and the search does not find that CPU until it has run something;
- tasks of unequal weight, or fewer than two per CPU, drift apart in vtime: a slice
  that ends always gives way to the head of the DSQ, whatever its vtime. TLC finds three tasks
  on two CPUs where one is always running and the others take turns. `SharesEven`
  asks for two tasks per CPU, and `FairShareContended` has one weight;
- requests that follow each other without a pause put a tick off for ever, since
  recv_timeout looks for a message before its deadline (`main.rs` 919). `TickComes`
  excepts the behaviours in which a client asks again and again while a tick is due; the
  clients' intervals are seconds, and answering takes far less;
- after a failed read of the counters, which is answered as zeros, the next
  difference and its hit rate cover everything since attach, not "THIS interval,
  not since attach" (`stats.rs` 131). `DeltaWithinInterval` excepts it;
- a worker of ipc_pingpong that is killed leaves its peer waiting for a word nobody stores, and
  main waiting for the peer, so `die("a worker process failed")` is not reached
  (`main.rs` 307 of the benchmark) unless the peer had finished. `Completes` is stated without faults;
- a child of ipc_pingpong whose parent ends between fork and prctl recognises it by `getppid() == 1` only; under a
  subreaper (a user session of systemd) it lingers, the "spinning orphan" of lines
  140-141: `NoOrphans` fails for an `OrphanParent` other than 1. And started
  as pid 1 itself, every child exits at once;
- in a build with overflow checks `stamp + off as u64` (103 of the benchmark) overflows
  for the server's stamps `!i`; the suite builds for release.

**Bounds.** CohortMaps: two pids (three where a merge needs two processes and a
child), up to three BPF ids, one merge, one split and one spill, so that creation,
deletion, reuse of a pid and a second creation all happen in a behaviour;
`CohortMapsMerge` has three ids for maps of two entries and follows a behaviour to the end of
the tick that has made both the merge and the split (`PlansLeft`). Placement: two or three
LLCs, three or four tasks, loads on both sides of every mark, ticks shorter and longer
than a residency. WakeGraph: three processes in a chain, the smallest number for which a
merge and a split meet, with two tasks each, one of them mortal. Dispatch: two LLCs of one
CPU each and three tasks, so that a queue is deeper than `StealMin` while a task runs. FairShare: four
tasks on two CPUs, a slice of two units and `Mod` sixteen slices; `MaxSleep` and `Cap` bound
a sleep and the history. Daemon: a metrics and a procs connection, one ejection of any
kind and one failure, which together reach a failing re-initialisation and a restart by the service
manager; two events of the counters `Counted`, the fewest for which steals exceed home placements in an
interval with a placement; `MaxWord` stands for 2^64-1. IpcPingpong: one pair (pairs
share nothing, and the proofs are for any number), two spinners, six rounds over three lines, words
that wrap every two rounds, two faults. Pids and tasks that are interchangeable are symmetric;
liveness runs use no symmetry.

**Deadlock** is checked except in CohortMaps, where id bounds run out and a
refused insert ends the daemon, in IpcPingpong, where all processes end or a
fault leaves some waiting, and in `FairShareSleeper`, where the sleep bound
stops time.

**Fairness.** CohortMaps: the daemon's loop goes on and a handler that began
returns; forks, wakeups and exits are not assumed. Placement and WakeGraph: ticks
keep coming. Dispatch: the kernel completes a wakeup, lets a CPU without a task pick one
and ends a slice when another task waits. In `DispatchHandoff` the
steal delay passes too, and `QueuedRuns` has one more premise, `ReachesHead`: a
task that is again and again a candidate when a CPU picks is eventually picked, which is
what vtime order is for; the counterexample keeps all of these. Daemon: main runs (SCHED_FIFO, above the class it
implements), time passes, a failed service is restarted; clients, signals and ejections
are not assumed, and clients need not pause. IpcPingpong: every process that can run does, sleepers are woken by
nothing but FUTEX_WAKE.

**Refinement.** `RoundTripsSpec` is the specification of `RoundTrips` under the
mapping above, checked by TLC with wraparound and faults. `MembershipSpec` is that
of `Membership`, where the existing cohorts are `counters` and the cohort of a task is what
resolve_cohort returns for it between the return of init_task and the call of exit_task. Both are also
proved, for all constants.

## 4. Theorems

Each is proved for all values of the constants that satisfy the module's
assumptions (`BoundsAssumption`, `IdSpaceAssumption`, `PlacementAssumption`, `WakeGraphAssumption`,
`DispatchAssumption`, `OptsAssumption`, `WordAssumption`; in Daemon `ClientsAssumption`,
`BoundsAssumption`, `CountedAssumption`) and the further hypotheses its statement names:

- `Room`: there is room in the maps for every id there is;
- `NoPlans`: the daemon merges and splits nothing, it only collects (`MaxMerges = 0`,
  `MaxDaemonIds = 0`). With merges the statement is false: that is what `CohortMapsMergeFork` shows;
- `OneStarter`: no two threads of one process run cohort_init_task without a tgid entry at
  the same time, at any moment of the behaviour (section 3 says what happens if they do);
- `CountsFit`: nr_tasks can count every pid (it is 64 bits wide);
- `~Pinning`, `~Moving`, `NothingToSteal`: affinities stay as they are, homes stay as they are, no CPU
  finds a task to steal at any moment. Only `WaitsAtHome` needs them;
- `ParentPid # 1`: the benchmark is not process 1. A child that finds parent 1 takes it
  for the init that adopted it, and leaves.

| Theorem | Statement | Argument |
|---|---|---|
| `CohortMapsProofs!TypeCorrect` | `Spec => []TypeOK` | `TypeInv`; one lemma for the handlers, one for the daemon |
| `CohortMapsProofs!IdsNeverReused` | `Spec => []NoIdReuse` | `IdInv`: everything that ever was a cohort lies below an allocator, and an id being created is known to one creator. NoIdReuse alone is not inductive: it says nothing of ids between allocation and insertion |
| `CohortMapsProofs!PoliciesMatchCounters` | with `Room`, `Spec => []PoliciesMatch` | `PolicyInv`: a creator that is about to write counters has a policy, and what is deleted next is retired, so no creator works on it (from `IdInv`) |
| `CohortMapsProofs!SplitsCreateFirst` | `Spec => []SplitTargetsExist` | `CreatedInv`: a daemon id is in an entry, a cache or a handler's hands, or about to be written by the tick, only after its counters were inserted. SplitTargetsExist alone is not inductive: entries are also written from a parent's cache and by the tick's plan |
| `CohortMapsProofs!SpillsTracked` | `Spec => []SpillEntriesTracked` | inductive as it stands, given types |
| `CohortMapsProofs!RemovalRemaps` | `Spec /\ []OneStarter => RemovalLeavesNoMemberBehind` | `RemovalInv`: a task about to write its group's entry is in a group without one, so nobody overwrites an entry the tick has seen; of the processes seen alive none loses its entry, and a merge has moved those it has visited |
| `CohortMapsMemberProofs!MembersKeepTheirCohort` | with `Room`, `NoPlans`: `Spec => []ResolvedCohortExists` | `MemberInv`, see below |
| `CohortMapsMemberProofs!ImplementsMembership` | with `Room`, `NoPlans`: `Spec => MembershipSpec` | under `MemberInv` a task's entry, cache and resolved cohort are the same, so creation of counters, the end of init_task, the begin of exit_task and a collection are the four steps of `Membership`, and every other step is a stutter |
| `CohortMapsMemberProofs!MembersCounted` | with `Room`, `NoPlans`, `CountsFit`: `Spec => []NrTasksExact` | `CountInv` on top of `MemberInv`: an increment always finds the cohort's counters, a decrement the same cohort, and a cohort is collected with no member to count |
| `PlacementProofs!MovesRespectResidency` | `Spec => ResidencyRespected` | `AgeInv`: the remembered age of a cohort in the snapshot is the true one |
| `PlacementProofs!MovesAreConfirmed` | `Spec => ConfirmedMoves` | the streak is the number of over-threshold ticks since the last move |
| `PlacementProofs!MovesDoNotOvershoot` | `Spec => MoveNeverOvershoots` | a candidate has a load and leaves a smaller gap; loads are sums of natural numbers (`LoadIsNat`) |
| `PlacementProofs!SpillsHaveHysteresis` | `Spec => SpillHysteresis` | `SpillInv`: with one LLC nothing is ever spilled; `SpillStep`: what plan_spills does to a task of a cohort at, between or below the marks |
| `PlacementProofs!PinsHold` | `Spec => []PinnedHome` | only apply_rules moves a pinned cohort |
| `PlacementProofs!TypeCorrect` | `Spec => []TypeOK` | inductive; the least loaded of any LLCs exists because naturals are well-founded, and a spill is planned only where there is a second LLC |
| `WakeGraphProofs!MembershipHolds` | `Spec => []MembersHaveCohort` | a merge's target is not merged away in the same tick; a new id is given to every component split off |
| `WakeGraphProofs!MergesAreConfirmed` | `Spec => MergesConfirmed` | over_ticks never exceeds the history counter |
| `WakeGraphProofs!SplitsAreConfirmed` | `Spec => SplitsConfirmed` | `StreakInv`: a cohort's streak never exceeds the history counter |
| `WakeGraphProofs!TalkersAreNotSeparated` | `Spec => TalkersStayTogether` | components are closed under edges at the split rate and partition the cohort (`ComponentsPartition`), so both ends are split off together or not at all |
| `WakeGraphProofs!TypeCorrect` | `Spec => []TypeOK` | with membership; a rounded average is not below the lower of the two rates |
| `DispatchProofs!NeverStranded` | `Spec => []NoStranding` | `StrandInv`: a task on, or bound for, a CPU may use it, so the fallback of task_effective_llc names a consumed DSQ |
| `DispatchProofs!TypeCorrect` | `Spec => []TypeOK` | with `StrandInv`; what a CPU picks waits in one place and runs nowhere |
| `DispatchProofs!WaitedFor` | `Spec => []Served` | a CPU is idle only if it found nothing in its local DSQ and in the DSQ it reads first; whoever is put there later is put there by that CPU, or by a wakeup that finds it busy or wakes it |
| `DispatchProofs!WaitsAtHome` | with `~Pinning`, `~Moving`: `Spec /\ []NothingToSteal => []AllServed` (the same for every waiting task) | `AtHome`: a task is woken, runs and waits in the LLC enqueue would choose, so the exception of `Served` is empty. Each hypothesis rules out one way into it |
| `DaemonProofs!TypeCorrect` | `Spec => []TypeOK` | `TypeInv`: TypeOK, and no counter ahead of the events there were |
| `DaemonProofs!CapsDropped` | `Spec => []NoCapsAfterDrop` | `CapsInv`: until the server runs, main is the only thread, and it has nothing to pass on once it has dropped |
| `DaemonProofs!PromptStop` | `Spec => []StopsPromptly` | `LateInv`: a round that began before main was to stop is the only one it finishes |
| `DaemonProofs!TopCoherent` | `Spec => ProcsCoherent` | `ViewInv`: inside the loop view, tasks and spills are those of one tick, since a tick that fails leaves the loop |
| `DaemonProofs!DeltaHonest` | `Spec => DeltaWithinInterval` | `DeltaInv`: the counters are at most what a connection last read plus what happened since; a reset only takes them back |
| `DaemonProofs!PercentShown` | `Spec => PercentInRange` | the saturating subtraction, for any two readings |
| `IpcPingpongProofs!TypeCorrect` | `Spec => []TypeOK` | `TypeInv`: TypeOK, and a round past the last one only for a worker that has exited |
| `IpcPingpongPairProofs!BufferIsIntact` | `Spec => []PayloadIntact` | `IInv`: for every pair, whose turn it is (`Turn`), what every line holds (`Message`), that the words are the rounds posted (`Words`), that a sleeper saw another word (`Sleepers`). Rounds of the two workers differ by at most one, so a word size above 1 tells them apart although it wraps |
| `IpcPingpongPairProofs!NoWakeupLost` | `Spec => []NoLostWakeup` | the same `IInv` |
| `IpcPingpongPairProofs!ReportsComplete` | with `ParentPid # 1`: `Spec => []ResultsComplete` | `Sampling`: the samples are the multiples of the stride among the round trips made; `ExitsFinished`, `Waiting`: a status 0 comes from a worker that has finished, and the parent goes on only past those |
| `IpcPingpongPairProofs!ImplementsRoundTrips` | `Spec => RoundTripsSpec` | under `IInv` every step is a step of RoundTrips or leaves the three counts alone |

`IInv` is about one pair at a time; a step of another pair, of the parent or of a
fault leaves the pair's variables alone (`PairFrame`), so the proof has one lemma per step of the pair's own
workers.

**Why no member loses its cohort.** `ResolvedCohortExists` says nothing of the
moments at which a cohort is only about to be used, and those are the ones the collector
races with. `MemberInv` adds them. Without merges a thread group has one cohort, the same
in its tgid entry, in its tasks' storage, in what a handler has looked up and in what
an enabling task is about to store (`GroupInv`, `OneId`, `EntryAgrees`). A cohort in use
exists, and so does one the collector has seen dead once (`ExistInv`). And the rule of the two
observations (`SleepInv`, `TickInv`): while the daemon sleeps, a task that is starting in a cohort the last tick
found dead was already starting then and will be done before the next (`stragglers`), or took the id from an entry or from a parent that runs. So
of a cohort found dead twice, what the snapshot of tasks misses is an entry, and what the snapshot of
entries misses too is nothing. TLC checked `MemberInv` first, completely for 2
pids, 3 ids, 1 spill and 2 CPUs, and to depth 57 for 3 pids.

TLC also checked the other strengthenings on the instances of the runs before they were proved.

Sums over sets are folds. That a sum of natural numbers is one (`SumDefined`, `SumIsNat` in PlacementProofs)
is proved without an induction scheme: of the sets for which it fails one would have the
fewest elements, and there is no such set. The components of a cohort are not
computed step by step either, but defined as the smallest sets that no edge leaves, which is what
the union-find of `splits` ends with.

**Only proved:** `PinnedHome`, `AllServed` and the type invariants; no run
repeats them.

**Only model-checked:**

- all liveness, and what needs ENABLED (out of the prover's reach);
- FairShare: its bounds are not true for all constants (unequal weights, fewer
  than two tasks per CPU, long sleeps, see section 3), and why they hold with two tasks per CPU is
  a count of what waits each time several slices end together, of virtual times that wrap.

## 5. Not modelled

- Configuration: TOML parsing, the precedence of options and glob matching are
  functions of strings without state; which rule matches is a constant of Placement, and
  drop_privs a choice of Daemon.
- The rows and percentages of procs_snapshot and all formatting (statistics, top
  view): sums over one snapshot, whose coherence is `ProcsCoherent`.
- The BPF skeleton and build, benchmark and packaging scripts: generated code,
  shell and Python around external programs.
- vtime across LLCs, and tasks that start between ticks in Placement.
- How late a load signal is (a task is charged when it stops, `main.bpf.c` 563) and
  wakes lost between lookup and deletion of a batch (`main.rs` 493): Placement and
  WakeGraph choose loads and traffic freely, which includes both.
- Liveness of collection after merges: `CohortMapsGc` has none.

## 6. Plan

1. Membership with merges and splits as steps, and what CohortMaps implements of it;
   WakeGraph's ticks as steps of it.
2. FairShare with several LLCs; Placement with forks.
3. Composition of Dispatch with Placement's moves.
4. Proofs: FairShare for one weight and two tasks per CPU.
