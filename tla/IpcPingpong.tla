---------------------------- MODULE IpcPingpong -----------------------------
(***************************************************************************)
(* bench/ipc_pingpong: the parent spawns spinners and pairs of workers,    *)
(* waits for the workers, kills the spinners and reports.  The two workers *)
(* of a pair pass one shared buffer back and forth: each walks it line by  *)
(* line, stores its futex word and wakes the other one.                    *)
(*                                                                         *)
(* A step is one access to shared memory or one system call; every process *)
(* interleaves with every other.  Words wrap at WordModulus, as u32 does.  *)
(***************************************************************************)
EXTENDS Integers, FiniteSets

CONSTANTS
    NrPairs, NrSpinners,    \* -p and -b
    Iters, Warmup,          \* -n and -w
    Lines,                  \* the payload (-s) in cache lines
    MaxSamples,             \* MAX_SAMPLES
    WordModulus,            \* 2^32
    ParentPid,              \* what getppid() says to a child, before
    OrphanParent,           \* and after the parent is gone
    MaxFaults               \* failed forks and killed processes in a run

\* parse_opts refuses -p 0, -n 0 and a payload below one line.
ASSUME OptsAssumption ==
    /\ {NrPairs, Iters, Lines, MaxSamples} \subseteq Nat \ {0}
    /\ {NrSpinners, Warmup, MaxFaults, ParentPid, OrphanParent} \subseteq Nat
ASSUME WordAssumption == WordModulus \in Nat /\ WordModulus > 1

Pairs == 1 .. NrPairs
Total == Warmup + Iters
Spinners == {"spinner"} \X (1 .. NrSpinners)
Workers == {"server", "client"} \X Pairs
Procs == Spinners \cup Workers
Server(i) == <<"server", i>>
Client(i) == <<"client", i>>
Peer(w) == <<IF w[1] = "server" THEN "client" ELSE "server", w[2]>>

\* The order of the fork()s: the spinners, then each pair's server and client.
NrProcs == NrSpinners + 2 * NrPairs
SpawnOrder ==
    [k \in 1 .. NrProcs |->
        LET n == k - NrSpinners
        IN  IF n <= 0 THEN <<"spinner", k>>
                      ELSE <<IF n % 2 = 1 THEN "server" ELSE "client", (n + 1) \div 2>>]

VARIABLES
    main,       \* where the parent is: spawn, wait, kill, report, or how it ended
    at,         \* the processes it has done with in that loop
    failed,     \* main's `failed`
    life,       \* process -> none, forked, armed, running, exited, killed
    pc,         \* worker -> its next step
    round,      \* worker -> i of its loop
    off,        \* worker -> lines walked
    cur,        \* worker -> the word it loaded in futex_wait_until
    word,       \* worker -> the futex word it stores: ping of a client, pong of a server
    payload,    \* pair -> line -> stamp
    samples,    \* pair -> the measured rounds it kept a sample of
    faults

shared == <<word, payload, samples>>
locals == <<pc, round, off, cur>>
parent == <<main, at, failed>>
vars == <<parent, life, locals, shared, faults>>

ParentGone == main \in {"done", "failed", "gone"}

\* `i as u32`, and the stamps of the two directions: i and !i.
AsU32(i) == i % WordModulus
Stamp(w, i) == IF w[1] = "client" THEN i ELSE -i - 1

Start(w) == IF w[1] = "client" THEN "write" ELSE "load"

Init ==
    /\ main = "spawn" /\ at = 0 /\ failed = FALSE
    /\ life = [p \in Procs |-> "none"]
    /\ pc = [w \in Workers |-> Start(w)]
    /\ round = [w \in Workers |-> 1]
    /\ off = [w \in Workers |-> 0]
    /\ cur = [w \in Workers |-> 0]
    /\ word = [w \in Workers |-> 0]
    /\ payload = [i \in Pairs |-> [l \in 1 .. Lines |-> 0]]
    /\ samples = [i \in Pairs |-> {}]
    /\ faults = 0

-----------------------------------------------------------------------------
(* The parent.  When it ends, the kernel kills the children that have asked *)
(* for it with PR_SET_PDEATHSIG, and no other.                              *)

Ends(how) ==
    /\ main' = how
    /\ life' = [p \in Procs |-> IF life[p] \in {"armed", "running"} THEN "killed"
                                                                  ELSE life[p]]

Spawn ==
    /\ main = "spawn"
    /\ life' = [life EXCEPT ![SpawnOrder[at + 1]] = "forked"]
    /\ IF at + 1 = NrProcs THEN main' = "wait" /\ at' = NrSpinners
                                   ELSE main' = "spawn" /\ at' = at + 1
    /\ UNCHANGED <<failed, locals, shared, faults>>

SpawnFails ==
    /\ main = "spawn"
    /\ faults < MaxFaults
    /\ Ends("failed")
    /\ faults' = faults + 1
    /\ UNCHANGED <<at, failed, locals, shared>>

\* Mutant: the exit status is not looked at.
WaitWorkerBlind ==
    /\ main = "wait"
    /\ life[SpawnOrder[at + 1]] \in {"exited", "killed"}
    /\ IF at + 1 = NrProcs THEN main' = "kill" /\ at' = 0
                                   ELSE main' = "wait" /\ at' = at + 1
    /\ UNCHANGED <<failed, life, locals, shared, faults>>

\* waitpid, worker by worker in the order they were spawned.
WaitWorker ==
    /\ main = "wait"
    /\ life[SpawnOrder[at + 1]] \in {"exited", "killed"}
    /\ failed' = (failed \/ life[SpawnOrder[at + 1]] = "killed")
    /\ IF at + 1 = NrProcs THEN main' = "kill" /\ at' = 0
                                   ELSE main' = "wait" /\ at' = at + 1
    /\ UNCHANGED <<life, locals, shared, faults>>

\* Mutant: the spinners are waited for but not killed.
KillSpinnerNever ==
    /\ main = "kill"
    /\ at < NrSpinners
    /\ life[SpawnOrder[at + 1]] \in {"exited", "killed"}
    /\ at' = at + 1
    /\ UNCHANGED <<main, failed, life, locals, shared, faults>>

KillSpinner ==
    /\ main = "kill"
    /\ at < NrSpinners
    /\ life' = [life EXCEPT ![SpawnOrder[at + 1]] = "killed"]
    /\ at' = at + 1
    /\ UNCHANGED <<main, failed, locals, shared, faults>>

\* die("a worker process failed"), or the results.
Report ==
    /\ main = "kill"
    /\ at = NrSpinners
    /\ Ends(IF failed THEN "failed" ELSE "done")
    /\ UNCHANGED <<at, failed, locals, shared, faults>>

\* The rest of spawn, in the child.
SetPdeathsig(p) ==
    /\ life[p] = "forked"
    /\ life' = [life EXCEPT ![p] = "armed"]
    /\ UNCHANGED <<parent, locals, shared, faults>>

\* Mutant: no check for a parent that ended before the prctl.
CheckParentNever(p) ==
    /\ life[p] = "armed"
    /\ life' = [life EXCEPT ![p] = "running"]
    /\ UNCHANGED <<parent, locals, shared, faults>>

CheckParent(p) ==
    /\ life[p] = "armed"
    /\ LET getppid == IF ParentGone THEN OrphanParent ELSE ParentPid
       IN life' = [life EXCEPT ![p] = IF getppid = 1 THEN "exited" ELSE "running"]
    /\ UNCHANGED <<parent, locals, shared, faults>>

-----------------------------------------------------------------------------
(* The workers.  A client writes, stores ping, wakes the server, waits for  *)
(* pong and reads; a server waits for ping, reads, writes, stores pong and  *)
(* wakes the client.                                                        *)

Running(w) == life[w] = "running"
Goto(w, step) == pc' = [pc EXCEPT ![w] = step]

\* One line of a walk; `done` is the step after the last one.
Walk(w, done) ==
    IF off[w] + 1 = Lines
    THEN off' = [off EXCEPT ![w] = 0] /\ Goto(w, done)
    ELSE off' = [off EXCEPT ![w] = @ + 1] /\ UNCHANGED pc

payload_write(w) ==
    /\ Running(w) /\ pc[w] = "write"
    /\ payload' = [payload EXCEPT ![w[2]][off[w] + 1] = Stamp(w, round[w])]
    /\ Walk(w, "store")
    /\ UNCHANGED <<parent, life, round, cur, word, samples, faults>>

Store(w) ==
    /\ Running(w) /\ pc[w] = "store"
    /\ word' = [word EXCEPT ![w] = AsU32(round[w])]
    /\ Goto(w, "wake")
    /\ UNCHANGED <<parent, life, round, off, cur, payload, samples, faults>>

\* Mutant: one round too many.
EndRoundLate(w) ==
    /\ round' = [round EXCEPT ![w] = @ + 1]
    /\ life' = IF round[w] = Total + 1 THEN [life EXCEPT ![w] = "exited"] ELSE life

\* The end of a round: the next one, or exit(0) after the last.
EndRound(w) ==
    /\ round' = [round EXCEPT ![w] = @ + 1]
    /\ life' = IF round[w] = Total THEN [life EXCEPT ![w] = "exited"] ELSE life

\* FUTEX_WAKE reaches a peer that sleeps on the word, and no other.  A client
\* goes on to wait for the answer; for a server it is the end of the round.
Woken(w) == IF pc[Peer(w)] = "asleep" THEN [pc EXCEPT ![Peer(w)] = "load"] ELSE pc
futex_wake(w) ==
    /\ Running(w) /\ pc[w] = "wake"
    /\ pc' = [Woken(w) EXCEPT ![w] = "load"]
    /\ IF w[1] = "server" THEN EndRound(w) ELSE UNCHANGED <<round, life>>
    /\ UNCHANGED <<parent, off, cur, shared, faults>>

\* futex_wait_until: load the word, and unless it is the wanted one ask the
\* kernel to sleep, which it does if the word still has the value loaded.
Load(w) ==
    /\ Running(w) /\ pc[w] = "load"
    /\ cur' = [cur EXCEPT ![w] = word[Peer(w)]]
    /\ Goto(w, IF word[Peer(w)] = AsU32(round[w]) THEN "read" ELSE "futex")
    /\ UNCHANGED <<parent, life, round, off, shared, faults>>

\* Mutant: the kernel does not compare the word before sleeping.
FutexWaitBlind(w) ==
    /\ Running(w) /\ pc[w] = "futex"
    /\ Goto(w, "asleep")
    /\ UNCHANGED <<parent, life, round, off, cur, shared, faults>>

FutexWait(w) ==
    /\ Running(w) /\ pc[w] = "futex"
    /\ Goto(w, IF word[Peer(w)] = cur[w] THEN "asleep" ELSE "load")
    /\ UNCHANGED <<parent, life, round, off, cur, shared, faults>>

\* Mutant: the word is not loaded again after a wakeup.
SpuriousWakeupTrusted(w) ==
    /\ Running(w) /\ pc[w] = "asleep"
    /\ Goto(w, "read")
    /\ UNCHANGED <<parent, life, round, off, cur, shared, faults>>

\* FUTEX_WAIT may return for other reasons (a signal); the loop loads again.
SpuriousWakeup(w) ==
    /\ Running(w) /\ pc[w] = "asleep"
    /\ Goto(w, "load")
    /\ UNCHANGED <<parent, life, round, off, cur, shared, faults>>

sample_stride == (Iters + MaxSamples - 1) \div MaxSamples

\* The sample of a measured round, if there is to be one.
Sampled(w) ==
    LET k == round[w] - Warmup - 1
    IN  IF k >= 0 /\ k % sample_stride = 0 /\ Cardinality(samples[w[2]]) < MaxSamples
        THEN [samples EXCEPT ![w[2]] = @ \cup {k}]
        ELSE samples

\* What is read goes into `sink`, which nobody uses; after the last line a
\* server answers and for a client the round is over.
payload_read(w) ==
    /\ Running(w) /\ pc[w] = "read"
    /\ Walk(w, "write")
    /\ IF w[1] = "client" /\ off[w] + 1 = Lines
       THEN EndRound(w) /\ samples' = Sampled(w)
       ELSE UNCHANGED <<round, life, samples>>
    /\ UNCHANGED <<parent, cur, word, payload, faults>>

-----------------------------------------------------------------------------
(* What the outside may do to a run.                                        *)

KillChild(p) ==
    /\ faults < MaxFaults
    /\ life[p] \in {"forked", "armed", "running"}
    /\ life' = [life EXCEPT ![p] = "killed"]
    /\ faults' = faults + 1
    /\ UNCHANGED <<parent, locals, shared>>

KillParent ==
    /\ faults < MaxFaults
    /\ ~ParentGone
    /\ Ends("gone")
    /\ faults' = faults + 1
    /\ UNCHANGED <<at, failed, locals, shared>>

-----------------------------------------------------------------------------
MainStep == Spawn \/ WaitWorker \/ KillSpinner \/ Report
ChildStep(p) == SetPdeathsig(p) \/ CheckParent(p)
WorkerStep(w) ==
    \/ payload_write(w) \/ Store(w) \/ futex_wake(w)
    \/ Load(w) \/ FutexWait(w) \/ payload_read(w)
Fault == SpawnFails \/ KillParent \/ \E p \in Procs : KillChild(p)

Next ==
    \/ MainStep
    \/ \E p \in Procs : ChildStep(p)
    \/ \E w \in Workers : WorkerStep(w) \/ SpuriousWakeup(w)
    \/ Fault

\* The kernel runs every process that can run; it wakes no sleeper by itself.
Fairness ==
    /\ WF_vars(MainStep)
    /\ \A p \in Procs : WF_vars(ChildStep(p))
    /\ \A w \in Workers : WF_vars(WorkerStep(w))

Spec == Init /\ [][Next]_vars
FairSpec == Spec /\ Fairness

-----------------------------------------------------------------------------
(* Correctness.                                                             *)

\* Processes, words, buffers and samples hold values of their kind.
TypeOK ==
    /\ main \in {"spawn", "wait", "kill", "done", "failed", "gone"}
    /\ at \in 0 .. NrProcs /\ failed \in BOOLEAN
    /\ life \in [Procs -> {"none", "forked", "armed", "running", "exited", "killed"}]
    /\ pc \in [Workers -> {"write", "store", "wake", "load", "futex", "asleep", "read"}]
    /\ round \in [Workers -> 1 .. Total + 1]
    /\ off \in [Workers -> 0 .. Lines - 1]
    /\ cur \in [Workers -> 0 .. WordModulus - 1]
    /\ word \in [Workers -> 0 .. WordModulus - 1]
    /\ payload \in [Pairs -> [1 .. Lines -> Int]]
    /\ samples \in [Pairs -> SUBSET (0 .. Iters - 1)]
    /\ faults \in 0 .. MaxFaults

\* The buffer belongs to one worker at a time: whatever a worker has still to
\* read of a message is the message its peer wrote for this round, every line
\* of it, also when the words have wrapped (run_server, run_client).
PayloadIntact ==
    \A w \in Workers : pc[w] = "read" =>
        \A l \in off[w] + 1 .. Lines :
            payload[w[2]][l] = Stamp(Peer(w), round[w])

\* No lost wakeup in futex_wait_until: a worker sleeps on a word that is
\* already the one it wants only while the peer that stored it is on its way
\* to FUTEX_WAKE (or was killed on it).
NoLostWakeup ==
    \A w \in Workers :
        pc[w] = "asleep" /\ word[Peer(w)] = AsU32(round[w]) => pc[Peer(w)] = "wake"

\* "Iterations beyond the cap are subsampled evenly rather than truncated", and
\* results are reported only when every pair made every round trip: the report
\* never comes from a run in which a worker was lost.
ResultsComplete ==
    main = "done" => \A i \in Pairs :
        /\ round[Client(i)] = Total + 1 /\ round[Server(i)] = Total + 1
        /\ samples[i] = {k \in 0 .. Iters - 1 : k % sample_stride = 0}
        /\ Cardinality(samples[i]) \in 1 .. MaxSamples

\* A run nobody disturbs ends with its results: no wakeup is lost, no process
\* waits for another for ever (main's waitpid loop, futex_wait_until).
Completes == [](faults = 0) => <>(main = "done")

\* "The child dies with the parent instead of lingering as a spinning orphan"
\* (spawn), wherever between fork and the check it is when the parent ends.
NoOrphans == ParentGone ~> \A p \in Procs : life[p] \in {"none", "exited", "killed"}

\* The messages counted: a word stored is a message sent, the end of a client's
\* round is an answer received.
Posted(w) ==
    LET stored == IF w[1] = "client" THEN pc[w] \notin {"write", "store"}
                                     ELSE pc[w] = "wake"
    IN  IF stored THEN round[w] ELSE round[w] - 1

RT == INSTANCE RoundTrips WITH
        sent     <- [i \in Pairs |-> Posted(Client(i))],
        answered <- [i \in Pairs |-> Posted(Server(i))],
        received <- [i \in Pairs |-> round[Client(i)] - 1]

\* The pair of futex words implements synchronous round trips.
RoundTripsSpec == RT!Spec
=============================================================================
