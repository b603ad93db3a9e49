------------------------------- MODULE Daemon -------------------------------
(***************************************************************************)
(* The life of the scx_cohort daemon: attaching the scheduler, dropping    *)
(* capabilities, the loop of Scheduler::run that answers statistics        *)
(* requests and ticks, signals, ejection by the kernel, re-initialisation  *)
(* in place and restart by the service manager.  A tick is one step here;  *)
(* what it does to the maps is in CohortMaps, Placement and WakeGraph.     *)
(***************************************************************************)
EXTENDS Integers

CONSTANTS
  MetricsClients,  \* connections of `--monitor` and `--stats`
  ProcsClients,    \* connections of `scx_cohort top`
  MaxWord,         \* the largest u64
  Counted,         \* the counters that advance
  MaxEvents,       \* bound: placements and steals counted in a behaviour
  MaxEjects,       \* bound: ejections by the kernel
  MaxFaults        \* bound: failing operations

ASSUME ClientsAssumption == MetricsClients \cap ProcsClients = {}
ASSUME BoundsAssumption == {MaxWord, MaxEvents, MaxEjects, MaxFaults} \subseteq Nat

Clients == MetricsClients \cup ProcsClients
None == "none"

VARIABLES
  pc,        \* where main stands
  shutdown,  \* SHUTDOWN
  privs,     \* drop_privs
  caps,      \* threads that hold capabilities
  link,      \* Scheduler::_struct_ops is held
  uei,       \* how the kernel ended the scheduler, if it did
  exit,      \* the status of the process once it has exited
  server,    \* stats_server is Some
  due,       \* next_tick has passed
  late,      \* history: rounds of the loop since it was to stop
  lastView,  \* the tick last_view comes from (0: none, or an even one)
  lastTasks, \* the tick last_tasks comes from
  spills,    \* the tick current_spills comes from
  counters,  \* the BPF stats map, summed over CPUs
  fired,     \* history: events counted so far
  ejects,    \* history: ejections so far
  faults,    \* history: failures so far
  chan,      \* whose request is in the channel of the loop
  client,    \* state of every connection
  prev,      \* per metrics connection: prev of its StatsReader
  sound,     \* history: prev was read without an error
  since      \* history: events since prev was read

life == <<pc, shutdown, privs, caps, link, uei, exit, server>>
loop == <<due, late, lastView, lastTasks, spills>>
bounds == <<ejects, faults>>
readers == <<prev, sound, since>>
conns == <<chan, client, readers>>
vars == <<life, loop, bounds, counters, fired, conns>>

-----------------------------------------------------------------------------

Threads == {"main", "server", "monitor"}
Stats == {"direct", "enq_home", "enq_spill", "steals"}
Ends == {"restart", "unreg", "error"}
Ticks == 0..1
Zero == [k \in Stats |-> 0]

ASSUME CountedAssumption == Counted \subseteq Stats

\* The process, its loop and its connections are in states of their kind; in
\* particular its status says success or failure and nothing else.
TypeOK ==
  /\ pc \in {"init", "drop", "launch", "check", "recv", "left", "exited"}
  /\ {shutdown, privs, link, server, due} \subseteq BOOLEAN
  /\ caps \subseteq Threads
  /\ uei \in Ends \cup {None}
  /\ exit \in {None, "ok", "err"}
  /\ {lastView, lastTasks, spills} \subseteq Ticks
  /\ {fired, ejects, faults, late} \subseteq Nat
  /\ counters \in [Stats -> 0..MaxEvents]
  /\ chan \in Clients \cup {None}
  /\ client \in [Clients -> {"closed", "opening", "open", "reading"}]
  /\ prev \in [MetricsClients -> [Stats -> 0..MaxEvents]]
  /\ sound \in [MetricsClients -> BOOLEAN]
  /\ since \in [MetricsClients -> [Stats -> 0..MaxEvents]]

Waiting(c) == client[c] \in {"opening", "reading"}
Stop == shutdown \/ uei # None

\* main once the signal handlers are installed and the options are read:
\* drop_privs comes from the command line or from the configuration file.
Init ==
  /\ pc = "init" /\ shutdown = FALSE /\ caps = {"main"}
  /\ link = FALSE /\ uei = None /\ exit = None
  /\ server = FALSE
  /\ privs \in BOOLEAN
  /\ due = FALSE /\ late = 0 /\ lastView = 0 /\ lastTasks = 0 /\ spills = 0
  /\ counters = Zero /\ fired = 0 /\ ejects = 0 /\ faults = 0
  /\ chan = None
  /\ client = [c \in Clients |-> "closed"]
  /\ prev = [c \in MetricsClients |-> Zero]
  /\ sound = [c \in MetricsClients |-> TRUE]
  /\ since = [c \in MetricsClients |-> Zero]

Fault == faults < MaxFaults /\ faults' = faults + 1

\* The process ends: the link is dropped, the threads are gone and every
\* connection is closed.
Exit(status) ==
  /\ pc' = "exited" /\ exit' = status
  /\ link' = FALSE /\ server' = FALSE /\ caps' = {}
  /\ chan' = None
  /\ client' = [c \in Clients |-> "closed"]
  /\ prev' = [c \in MetricsClients |-> Zero]
  /\ sound' = [c \in MetricsClients |-> TRUE]
  /\ since' = [c \in MetricsClients |-> Zero]
  /\ due' = FALSE /\ late' = 0
  /\ lastView' = 0 /\ lastTasks' = 0 /\ spills' = 0
  /\ counters' = Zero

-----------------------------------------------------------------------------
\* main, up to the loop of run

\* Scheduler::init opens, loads and attaches, with fresh maps.  Loading
\* needs capabilities; the check for uid 0 passes without them.
InitSched ==
  /\ pc = "init" /\ "main" \in caps
  /\ pc' = "drop" /\ link' = TRUE /\ uei' = None
  /\ counters' = Zero /\ lastTasks' = 0 /\ spills' = 0
  /\ UNCHANGED <<shutdown, privs, caps, exit, server, due, late,
                 lastView, fired, bounds, conns>>

InitFails ==
  /\ pc = "init"
  /\ Fault
  /\ Exit("err")
  /\ UNCHANGED <<shutdown, privs, uei, fired, ejects>>

\* Mutant: the drop is left to a later round, when the server is running.
DropPrivilegesLate ==
  /\ pc = "drop" /\ pc' = "launch"
  /\ caps' = IF privs /\ server THEN caps \ {"main"} ELSE caps
  /\ UNCHANGED <<shutdown, privs, link, uei, exit, server, loop,
                 bounds, counters, fired, conns>>

\* drop_all_capabilities drops those of the calling thread, in the first
\* round only.
DropPrivileges ==
  /\ pc = "drop" /\ pc' = "launch"
  /\ caps' = IF privs /\ ~server THEN caps \ {"main"} ELSE caps
  /\ UNCHANGED <<shutdown, privs, link, uei, exit, server, loop,
                 bounds, counters, fired, conns>>

DropFails ==
  /\ pc = "drop" /\ privs /\ ~server
  /\ Fault
  /\ Exit("err")
  /\ UNCHANGED <<shutdown, privs, uei, fired, ejects>>

\* The server and the monitor thread of --stats are spawned in the first
\* round, with the capabilities of main; then run sets up its locals.
Launch ==
  /\ pc = "launch" /\ pc' = "check"
  /\ server' = TRUE
  /\ caps' = IF ~server /\ "main" \in caps THEN Threads ELSE caps
  /\ due' = FALSE /\ late' = 0 /\ lastView' = 0
  /\ UNCHANGED <<shutdown, privs, link, uei, exit, lastTasks, spills,
                 bounds, counters, fired, conns>>

LaunchFails ==
  /\ pc = "launch" /\ ~server
  /\ Fault
  /\ Exit("err")
  /\ UNCHANGED <<shutdown, privs, uei, fired, ejects>>

-----------------------------------------------------------------------------
\* Scheduler::run

\* Mutant: the loop asks the kernel only and not the signal handler.
CheckUeiOnly ==
  /\ pc = "check"
  /\ IF uei # None
       THEN pc' = "left" /\ link' = FALSE
       ELSE pc' = "recv" /\ UNCHANGED link
  /\ UNCHANGED <<shutdown, privs, caps, uei, exit, server, loop, bounds,
                 counters, fired, conns>>

\* The condition of the loop; when it fails, uei_report and drop(sched).
Check ==
  /\ pc = "check"
  /\ IF Stop
       THEN pc' = "left" /\ link' = FALSE
       ELSE pc' = "recv" /\ UNCHANGED link
  /\ UNCHANGED <<shutdown, privs, caps, uei, exit, server, loop, bounds,
                 counters, fired, conns>>

\* A round of the loop is over.
Round ==
  /\ pc' = "check"
  /\ late' = IF Stop THEN late + 1 ELSE late
  /\ UNCHANGED <<shutdown, privs, caps, link, uei, exit, server>>

\* u64::saturating_sub
SaturatingSub(a, b) == IF a >= b THEN a - b ELSE 0
WrappingSub(a, b) == (a - b) % (MaxWord + 1)

\* Mutant: steals are subtracted without saturation.
AffinityPctWraps(d) ==
  LET home == WrappingSub(d.direct + d.enq_home, d.steals)
      total == d.direct + d.enq_home + d.enq_spill
  IN  IF total > 0 THEN (home * 100) \div total ELSE 100

AffinityPct(d) ==
  LET home == SaturatingSub(d.direct + d.enq_home, d.steals)
      total == d.direct + d.enq_home + d.enq_spill
  IN  IF total > 0 THEN (home * 100) \div total ELSE 100

\* Mutant: differences of counters wrap.
ShownWraps(cur, old) ==
  LET d == [k \in Stats |-> WrappingSub(cur[k], old[k])]
  IN  [delta |-> d, pct |-> AffinityPct(d)]

\* Metrics::delta: what a connection is shown.
Shown(cur, old) ==
  LET d == [k \in Stats |-> SaturatingSub(cur[k], old[k])]
  IN  [delta |-> d, pct |-> AffinityPct(d)]

\* get_metrics reads the counters, or zeros if that fails.  The first
\* answer opens the connection, the later ones are shown as differences.
\* The counters are read one after the other; as each of them advances on
\* its own, that is the read at once of another order of the same events.
AnswerMetrics ==
  /\ pc = "recv" /\ chan \in MetricsClients
  /\ \E ok \in BOOLEAN :
       LET cur == IF ok THEN counters ELSE Zero
       IN  /\ IF ok THEN UNCHANGED faults ELSE Fault
           /\ prev' = [prev EXCEPT ![chan] = cur]
           /\ sound' = [sound EXCEPT ![chan] = ok]
  /\ since' = [since EXCEPT ![chan] = Zero]
  /\ client' = [client EXCEPT ![chan] = "open"]
  /\ chan' = None
  /\ Round
  /\ UNCHANGED <<due, lastView, lastTasks, spills, ejects, counters, fired>>

\* Mutant: an answered request puts the next tick off.
AnswerProcsPutsOff ==
  /\ pc = "recv" /\ chan \in ProcsClients
  /\ client' = [client EXCEPT ![chan] = "open"]
  /\ chan' = None
  /\ due' = FALSE
  /\ Round
  /\ UNCHANGED <<lastView, lastTasks, spills, bounds, counters, fired, readers>>

\* procs_snapshot joins last_view, last_tasks and current_spills, which
\* are set in different places of a tick.
AnswerProcs ==
  /\ pc = "recv" /\ chan \in ProcsClients
  /\ client' = [client EXCEPT ![chan] = "open"]
  /\ chan' = None
  /\ Round
  /\ UNCHANGED <<due, lastView, lastTasks, spills, bounds, counters, fired,
                 readers>>

\* Ticks are told apart from their neighbours only.
NextTick(t) == 1 - t

\* recv_timeout times out, and only then, when there is no request.
Tick ==
  /\ pc = "recv" /\ chan = None /\ due
  /\ spills' = NextTick(spills)
  /\ lastTasks' = NextTick(lastTasks)
  /\ lastView' = NextTick(lastView)
  /\ due' = FALSE
  /\ Round
  /\ UNCHANGED <<bounds, counters, fired, conns>>

\* Mutant: an error of discover_relationships, which comes after
\* apply_spills and before last_tasks is set, is logged and forgotten.
TickFailsLogged ==
  /\ pc = "recv" /\ chan = None /\ due
  /\ Fault
  /\ spills' = NextTick(spills)
  /\ due' = FALSE
  /\ Round
  /\ UNCHANGED <<lastView, lastTasks, ejects, counters, fired, conns>>

\* An error of any map operation of the tick ends run and main.
TickFails ==
  /\ pc = "recv" /\ chan = None /\ due
  /\ Fault
  /\ Exit("err")
  /\ UNCHANGED <<shutdown, privs, uei, fired, ejects>>

-----------------------------------------------------------------------------
\* main, after run

\* UserExitInfo::report fails for kinds above UNREG_KERN only.
Status == IF uei = "error" THEN "err" ELSE "ok"

\* Mutant: only an end by the kernel is final.
DoneWhenEjected == uei \notin {None, "restart"}

Done == shutdown \/ uei # "restart"

Return ==
  /\ pc = "left" /\ Done
  /\ Exit(Status)
  /\ UNCHANGED <<shutdown, privs, uei, bounds, fired>>

\* Mutant: without privileges main returns as after any other end.
BailQuietly ==
  /\ pc = "left" /\ ~Done /\ privs
  /\ Exit("ok")
  /\ UNCHANGED <<shutdown, privs, uei, bounds, fired>>

Bail ==
  /\ pc = "left" /\ ~Done /\ privs
  /\ Exit("err")
  /\ UNCHANGED <<shutdown, privs, uei, bounds, fired>>

Reinit ==
  /\ pc = "left" /\ ~Done /\ ~privs
  /\ pc' = "init"
  /\ UNCHANGED <<shutdown, privs, caps, link, uei, exit, server, loop,
                 bounds, counters, fired, conns>>

-----------------------------------------------------------------------------
\* The surroundings: signals, the kernel, time, clients, service manager

OnSignal ==
  /\ pc # "exited" /\ ~shutdown
  /\ shutdown' = TRUE
  /\ UNCHANGED <<pc, privs, caps, link, uei, exit, server, loop,
                 bounds, counters, fired, conns>>

Eject(kind) ==
  /\ link /\ uei = None
  /\ ejects < MaxEjects /\ ejects' = ejects + 1
  /\ uei' = kind
  /\ UNCHANGED <<pc, shutdown, privs, caps, link, exit, server, loop,
                 faults, counters, fired, conns>>

Elapse ==
  /\ pc \in {"check", "recv"} /\ ~due
  /\ due' = TRUE
  /\ UNCHANGED <<life, late, lastView, lastTasks, spills, bounds, counters,
                 fired, chan, client, readers>>

\* The scheduler places or steals a task.
Place(k) ==
  /\ link /\ uei = None
  /\ fired < MaxEvents /\ fired' = fired + 1
  /\ counters' = [counters EXCEPT ![k] = @ + 1]
  /\ since' = [c \in MetricsClients |->
                 IF client[c] \in {"open", "reading"}
                   THEN [since[c] EXCEPT ![k] = @ + 1] ELSE since[c]]
  /\ UNCHANGED <<life, loop, bounds, chan, client, prev, sound>>

\* A metrics connection asks once when it is opened and then for every
\* interval; a procs connection asks only when it reads.
Ask(c) ==
  /\ server /\ ~Waiting(c)
  /\ client' = [client EXCEPT ![c] =
                  IF c \in MetricsClients /\ client[c] = "closed"
                    THEN "opening" ELSE "reading"]
  /\ UNCHANGED <<life, loop, bounds, counters, fired, chan, readers>>

\* The server passes requests on one at a time, and the answer back.
Forward(c) ==
  /\ server /\ chan = None /\ Waiting(c)
  /\ chan' = c
  /\ UNCHANGED <<life, loop, bounds, counters, fired, client, readers>>

\* Restart=on-failure; after a requested stop there is no restart.
Restart ==
  /\ pc = "exited" /\ exit = "err" /\ ~shutdown
  /\ pc' = "init" /\ caps' = {"main"}
  /\ uei' = None /\ exit' = None
  /\ UNCHANGED <<shutdown, privs, link, server, loop, bounds, counters, fired,
                 conns>>

Stopped ==
  /\ pc = "exited" /\ (exit = "ok" \/ shutdown)
  /\ UNCHANGED vars

-----------------------------------------------------------------------------

Main ==
  \/ InitSched \/ DropPrivileges \/ Launch
  \/ Check \/ AnswerMetrics \/ AnswerProcs \/ Tick
  \/ Return \/ Bail \/ Reinit

Failures == InitFails \/ DropFails \/ LaunchFails \/ TickFails

Next ==
  \/ Main \/ Failures
  \/ OnSignal \/ (\E k \in Ends : Eject(k)) \/ Elapse
  \/ \E k \in Counted : Place(k)
  \/ \E c \in Clients : Ask(c) \/ Forward(c)
  \/ Restart \/ Stopped

Spec == Init /\ [][Next]_vars

\* main runs (under SCHED_FIFO, above the class it implements), time
\* passes, and the service manager restarts.
FairSpec ==
  /\ Spec
  /\ WF_vars(Main) /\ WF_vars(Elapse) /\ WF_vars(Restart)

-----------------------------------------------------------------------------

\* Once the capabilities are to be dropped, no thread the daemon has
\* spawned holds any, in whatever round of main it was spawned.
NoCapsAfterDrop == privs /\ server => caps = {}

\* A signal or an ejection is noticed after at most one more round of the
\* loop, wherever it catches main.
StopsPromptly == late <= 1

Reads(c) == client[c] = "reading" /\ client'[c] = "open"

\* An answer to `scx_cohort top` joins cohorts, tasks and spills of one
\* and the same tick of one and the same scheduler, across failing ticks
\* and re-initialisations that its connection survives.
ProcsCoherent ==
  [][\A c \in ProcsClients :
       Reads(c) => lastView = lastTasks /\ lastTasks = spills]_vars

\* The hit rate that is shown is a percentage, although a task may be
\* counted as stolen in a later interval than it was enqueued in, reads
\* may fail and the counters start again with every scheduler.
PercentInRange ==
  [][\A c \in MetricsClients :
       Reads(c) => Shown(prev'[c], prev[c]).pct \in 0..100]_vars

\* No interval shows more events than have happened since the answer
\* before, provided both reads of the counters succeeded, even when the
\* counters have been reset in between.
DeltaWithinInterval ==
  [][\A c \in MetricsClients :
       Reads(c) /\ sound[c] /\ sound'[c] =>
         \A k \in Stats : Shown(prev'[c], prev[c]).delta[k] <= since[c][k]]_vars

\* A signal ends the process, whatever main is doing.
ShutdownExits == shutdown ~> pc = "exited"

\* A connection asks while a tick is due: its request will be served first.
AsksWhenDue == due /\ \E c \in Clients : ~Waiting(c) /\ Waiting(c)'

\* As long as the loop goes on, it ticks again and again, although a request
\* takes precedence over a tick that is due: what was waiting when the time
\* came is answered and then the tick comes, unless connections go on asking
\* before every tick for ever.  As a tick finds the channel empty, every request
\* in it is answered as well, by the scheduler it was sent to or the next.
TickComes ==
  \/ []<><<AsksWhenDue>>_vars
  \/ \A v \in Ticks :
       (pc = "recv" /\ lastView = v) ~> (lastView # v \/ pc \in {"left", "exited"})

\* After suspend or hotplug the scheduler is attached again, by main in
\* place or by the service manager, unless the daemon was told to stop.
EjectedComesBack ==
  (link /\ uei = "restart") ~> ((link /\ uei = None) \/ shutdown)

=============================================================================
