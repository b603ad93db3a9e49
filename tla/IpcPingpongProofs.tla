------------------------- MODULE IpcPingpongProofs --------------------------
(***************************************************************************)
(* Types of IpcPingpong for any number of pairs, spinners, rounds, lines   *)
(* and faults, and any word size.                                          *)
(***************************************************************************)
EXTENDS IpcPingpong, TLAPS

\* Who may still take a step has a round to do.
InRange(w) == life[w] \notin {"exited", "killed"} => round[w] <= Total

TypeInv ==
    /\ TypeOK
    /\ \A w \in Workers : InRange(w)
    /\ main \in {"spawn", "wait"} => at < NrProcs
    /\ main = "spawn" => \A k \in at + 1 .. NrProcs : life[SpawnOrder[k]] = "none"

\* Consecutive numbers differ as words.
LEMMA Wraps ==
    ASSUME NEW n \in Nat
    PROVE  AsU32(n) # AsU32(n + 1)
  <1> DEFINE W == WordModulus
             a == n \div W
             b == (n + 1) \div W
  <1>1. W \in Int /\ W > 1
    BY WordAssumption
  <1>2. a \in Int /\ n = W * a + (n % W)
    BY <1>1
  <1>3. b \in Int /\ n + 1 = W * b + ((n + 1) % W)
    BY <1>1
  <1>4. ASSUME n % W = (n + 1) % W
        PROVE  FALSE
    <2>1. n % W \in Int /\ (n + 1) % W \in Int
      BY <1>1
    <2> HIDE DEF a, b, W
    <2>2. W * b - W * a = 1
      BY <1>1, <1>2, <1>3, <1>4, <2>1
    <2>3. W * (b - a) = 1 /\ b - a \in Int
      BY <1>1, <1>2, <1>3, <2>2
    <2>4. CASE b - a <= 0
      BY <1>1, <2>3, <2>4
    <2>5. CASE b - a >= 1
      BY <1>1, <2>3, <2>5
    <2> QED BY <2>3, <2>4, <2>5
  <1> QED BY <1>4 DEF AsU32

LEMMA WordType ==
    ASSUME NEW n \in Nat
    PROVE  AsU32(n) \in 0 .. WordModulus - 1
  BY WordAssumption DEF AsU32

\* The two workers of each pair, and nobody else.
LEMMA WorkerFacts ==
    /\ \A w \in Workers : \E i \in Pairs : w = Client(i) \/ w = Server(i)
    /\ \A i \in Pairs : /\ Client(i) \in Workers /\ Server(i) \in Workers
                        /\ Client(i)[1] = "client" /\ Server(i)[1] = "server"
                        /\ Client(i)[2] = i /\ Server(i)[2] = i
                        /\ Peer(Client(i)) = Server(i) /\ Peer(Server(i)) = Client(i)
    /\ \A i, j \in Pairs : /\ Client(i) # Server(j)
                           /\ Client(i) = Client(j) => i = j
                           /\ Server(i) = Server(j) => i = j
  BY DEF Workers, Client, Server, Peer

LEMMA Bounds ==
    /\ NrProcs \in Nat /\ NrSpinners \in Nat /\ NrSpinners < NrProcs /\ 0 < NrProcs
    /\ Total \in Nat /\ 1 <= Total /\ Lines \in Nat /\ 1 <= Lines
    /\ Iters \in Nat /\ Warmup \in Nat /\ Total = Warmup + Iters
    /\ MaxFaults \in Nat
  BY OptsAssumption DEF NrProcs, Total

-----------------------------------------------------------------------------
(* Types.                                                                   *)

Lives == {"none", "forked", "armed", "running", "exited", "killed"}
Steps == {"write", "store", "wake", "load", "futex", "asleep", "read"}

\* Every process has one place in the order.
LEMMA Places ==
    /\ \A k \in 1 .. NrProcs : SpawnOrder[k] \in Procs
    /\ \A k, l \in 1 .. NrProcs : SpawnOrder[k] = SpawnOrder[l] => k = l
  <1>1. ASSUME NEW k \in 1 .. NrProcs, k <= NrSpinners
        PROVE  SpawnOrder[k] = <<"spinner", k>> /\ SpawnOrder[k] \in Procs
    BY <1>1, Bounds DEF SpawnOrder, Procs, Spinners
  <1>2. ASSUME NEW k \in 1 .. NrProcs, k > NrSpinners
        PROVE  \E i \in Pairs :
                  \/ k = NrSpinners + 2 * i - 1 /\ SpawnOrder[k] = Server(i)
                  \/ k = NrSpinners + 2 * i /\ SpawnOrder[k] = Client(i)
    <2> DEFINE n == k - NrSpinners
    <2>1. n \in 1 .. 2 * NrPairs /\ (n + 1) \div 2 \in 1 .. NrPairs
      BY <1>2, OptsAssumption DEF NrProcs
    <2>2. SpawnOrder[k] = <<IF n % 2 = 1 THEN "server" ELSE "client", (n + 1) \div 2>>
      BY <1>2, <2>1, Bounds DEF SpawnOrder
    <2>3. CASE n % 2 = 1
      <3>1. SpawnOrder[k] = Server((n + 1) \div 2) /\ n = 2 * ((n + 1) \div 2) - 1
        BY <2>1, <2>2, <2>3 DEF Server
      <3> QED BY <2>1, <3>1, Bounds DEF Pairs
    <2>4. CASE n % 2 # 1
      <3>1. SpawnOrder[k] = Client((n + 1) \div 2) /\ n = 2 * ((n + 1) \div 2)
        BY <2>1, <2>2, <2>4 DEF Client
      <3> QED BY <2>1, <3>1, Bounds DEF Pairs
    <2> QED BY <2>3, <2>4
  <1>3. \A k \in 1 .. NrProcs : SpawnOrder[k] \in Procs
    BY <1>1, <1>2, WorkerFacts, Bounds DEF Procs
  <1>4. ASSUME NEW k \in 1 .. NrProcs, NEW l \in 1 .. NrProcs,
               SpawnOrder[k] = SpawnOrder[l]
        PROVE  k = l
    <2>1. CASE k <= NrSpinners /\ l <= NrSpinners
      BY <1>1, <1>4, <2>1
    <2>2. CASE k > NrSpinners /\ l > NrSpinners
      BY <1>2, <1>4, <2>2, WorkerFacts
    <2>3. ASSUME NEW x \in 1 .. NrProcs, NEW y \in 1 .. NrProcs,
                 x <= NrSpinners, y > NrSpinners
          PROVE  SpawnOrder[x] # SpawnOrder[y]
      <3>1. SpawnOrder[x][1] = "spinner"
        BY <1>1, <2>3
      <3>2. SpawnOrder[y][1] # "spinner"
        BY <1>2, <2>3, WorkerFacts
      <3> QED BY <3>1, <3>2
    <2> QED BY <1>4, <2>1, <2>2, <2>3, Bounds
  <1> QED BY <1>3, <1>4

LEMMA TypeInit == Init => TypeInv
  <1> SUFFICES ASSUME Init PROVE TypeInv
    OBVIOUS
  <1>1. TypeOK
    <2>1. [l \in 1 .. Lines |-> 0] \in [1 .. Lines -> Int]
      OBVIOUS
    <2>2. payload \in [Pairs -> [1 .. Lines -> Int]]
      BY <2>1 DEF Init
    <2>3. /\ pc \in [Workers -> Steps] /\ round \in [Workers -> 1 .. Total + 1]
          /\ off \in [Workers -> 0 .. Lines - 1]
      BY Bounds DEF Init, Start, Steps
    <2>4. /\ cur \in [Workers -> 0 .. WordModulus - 1]
          /\ word \in [Workers -> 0 .. WordModulus - 1]
      BY WordAssumption DEF Init
    <2>5. life \in [Procs -> {"none", "forked", "armed", "running", "exited", "killed"}]
      BY DEF Init
    <2>6. samples \in [Pairs -> SUBSET (0 .. Iters - 1)]
      BY DEF Init
    <2>7. /\ main \in {"spawn", "wait", "kill", "done", "failed", "gone"}
          /\ at \in 0 .. NrProcs /\ faults \in 0 .. MaxFaults
      BY Bounds DEF Init
    <2>8. failed \in BOOLEAN
      BY DEF Init
    <2> QED BY ONLY <2>2, <2>3, <2>4, <2>5, <2>6, <2>7, <2>8 DEF TypeOK, Steps
  <1>2. \A w \in Workers : InRange(w)
    BY Bounds DEF Init, InRange
  <1>3. \A k \in at + 1 .. NrProcs : life[SpawnOrder[k]] = "none"
    BY Places DEF Init
  <1> QED BY <1>1, <1>2, <1>3, Bounds DEF Init, TypeInv

\* The parent, the start of a child and the faults touch no worker's state, and
\* bring nobody back.
LEMMA OutsideStep ==
    ASSUME TypeInv, MainStep \/ Fault \/ \E p \in Procs : ChildStep(p)
    PROVE  TypeInv' /\ UNCHANGED <<locals, shared>>
  <1> DEFINE Kept == \A p \in Procs : /\ life[p] \in {"exited", "killed"} =>
                                           life'[p] \in {"exited", "killed"}
                                      /\ life'[p] = "none" => life[p] = "none"
             Typed == /\ main' \in {"spawn", "wait", "kill", "done", "failed", "gone"}
                      /\ at' \in 0 .. NrProcs /\ failed' \in BOOLEAN
                      /\ life' \in [Procs -> Lives] /\ faults' \in 0 .. MaxFaults
                      /\ main' \in {"spawn", "wait"} => at' < NrProcs
             Unspawned == main' = "spawn" =>
                             \A k \in at' + 1 .. NrProcs : life'[SpawnOrder[k]] = "none"
  <1>0. SUFFICES Kept /\ Typed /\ Unspawned /\ UNCHANGED <<locals, shared>>
    <2>1. TypeOK'
      BY <1>0 DEF TypeInv, TypeOK, Lives, locals, shared
    <2>2. \A w \in Workers : InRange(w)'
      BY <1>0 DEF TypeInv, InRange, locals, Procs
    <2> QED BY <1>0, <2>1, <2>2 DEF TypeInv
  <1>t. /\ main \in {"spawn", "wait", "kill", "done", "failed", "gone"}
        /\ at \in 0 .. NrProcs /\ failed \in BOOLEAN
        /\ life \in [Procs -> Lives] /\ faults \in 0 .. MaxFaults
        /\ main \in {"spawn", "wait"} => at < NrProcs
    BY DEF TypeInv, TypeOK, Lives
  <1>u. main = "spawn" => \A k \in at + 1 .. NrProcs : life[SpawnOrder[k]] = "none"
    BY DEF TypeInv
  <1>1. CASE Spawn
    <2>1. life[SpawnOrder[at + 1]] = "none" /\ at + 1 \in 1 .. NrProcs
      BY ONLY <1>t, <1>u, <1>1, Bounds DEF Spawn
    <2>2. /\ life' = [life EXCEPT ![SpawnOrder[at + 1]] = "forked"]
          /\ IF at + 1 = NrProcs THEN main' = "wait" /\ at' = NrSpinners
                                 ELSE main' = "spawn" /\ at' = at + 1
          /\ main = "spawn"
          /\ UNCHANGED <<failed, locals, shared, faults>>
      BY ONLY <1>1 DEF Spawn
    <2>3. Typed
      <3>1. life' \in [Procs -> Lives]
        BY ONLY <1>t, <2>2 DEF Lives
      <3>2. at' \in 0 .. NrProcs /\ at' < NrProcs /\ main' \in {"spawn", "wait"}
        BY ONLY <1>t, <2>1, <2>2, Bounds
      <3> QED BY ONLY <1>t, <2>2, <3>1, <3>2
    <2>4. Kept
      BY ONLY <1>t, <2>1, <2>2
    <2>5. Unspawned
      BY ONLY <1>t, <1>u, <2>1, <2>2, Places
    <2> QED BY ONLY <2>2, <2>3, <2>4, <2>5
  <1>2. CASE WaitWorker
    BY ONLY <1>t, <1>2, Bounds DEF WaitWorker
  <1>3. CASE KillSpinner
    <2>1. at + 1 \in 1 .. NrProcs /\ main # "spawn"
      BY ONLY <1>t, <1>3, Bounds DEF KillSpinner
    <2>2. /\ life' = [life EXCEPT ![SpawnOrder[at + 1]] = "killed"]
          /\ at' = at + 1 /\ main = "kill"
          /\ UNCHANGED <<main, failed, locals, shared, faults>>
      BY ONLY <1>3 DEF KillSpinner
    <2>3. Kept /\ life' \in [Procs -> Lives]
      BY ONLY <1>t, <2>2 DEF Lives
    <2>4. at' \in 0 .. NrProcs
      BY ONLY <1>t, <2>1, <2>2, Bounds
    <2> QED BY ONLY <1>t, <2>2, <2>3, <2>4
  <1>4. CASE Report
    BY ONLY <1>t, <1>4, Bounds DEF Report, Ends, Lives
  <1>5. CASE SpawnFails
    BY ONLY <1>t, <1>5, Bounds DEF SpawnFails, Ends, Lives
  <1>6. CASE KillParent
    BY ONLY <1>t, <1>6, Bounds DEF KillParent, Ends, Lives
  <1>7. CASE \E p \in Procs : KillChild(p)
    <2>1. PICK p \in Procs : KillChild(p)
      BY <1>7
    <2>2. Kept /\ Typed /\ UNCHANGED <<parent, locals, shared>>
      BY ONLY <1>t, <2>1, Bounds DEF KillChild, parent, Lives
    <2>3. Unspawned
      BY ONLY <1>t, <1>u, <2>1, <2>2, Places DEF KillChild, parent
    <2> QED BY ONLY <2>2, <2>3
  <1>8. CASE \E p \in Procs : ChildStep(p)
    <2>1. PICK p \in Procs : ChildStep(p)
      BY <1>8
    <2>2. /\ life[p] \in {"forked", "armed"}
          /\ \E l \in {"armed", "running", "exited"} : life' = [life EXCEPT ![p] = l]
          /\ UNCHANGED <<parent, locals, shared, faults>>
      BY ONLY <2>1 DEF ChildStep, SetPdeathsig, CheckParent
    <2>3. Kept /\ Typed
      BY ONLY <1>t, <2>2 DEF parent, Lives
    <2>4. Unspawned
      BY ONLY <1>t, <1>u, <2>2, Places DEF parent
    <2> QED BY ONLY <2>2, <2>3, <2>4
  <1> QED
    BY <1>1, <1>2, <1>3, <1>4, <1>5, <1>6, <1>7, <1>8 DEF MainStep, Fault

\* Walk moves within the lines, and to the next step after the last of them.
LEMMA WalkType ==
    ASSUME off \in [Workers -> 0 .. Lines - 1], pc \in [Workers -> Steps],
           NEW w \in Workers, NEW done \in Steps, Walk(w, done)
    PROVE  off' \in [Workers -> 0 .. Lines - 1] /\ pc' \in [Workers -> Steps]
  BY Bounds DEF Walk, Goto

\* EndRound keeps the round of whoever goes on within the total.
LEMMA EndRoundType ==
    ASSUME life \in [Procs -> Lives], round \in [Workers -> 1 .. Total + 1],
           \A v \in Workers : InRange(v),
           NEW w \in Workers, life[w] = "running", EndRound(w)
    PROVE  /\ life' \in [Procs -> Lives] /\ round' \in [Workers -> 1 .. Total + 1]
           /\ \A v \in Workers : InRange(v)'
           /\ \A p \in Procs : life[p] = "none" => life'[p] = "none"
  <1>1. w \in Procs /\ round[w] <= Total
    BY DEF InRange, Procs
  <1>2. life' \in [Procs -> Lives] /\ round' \in [Workers -> 1 .. Total + 1]
    BY <1>1, Bounds DEF EndRound, Lives
  <1>3. \A v \in Workers : InRange(v)'
    BY <1>1, Bounds DEF EndRound, InRange, Procs
  <1> QED BY <1>1, <1>2, <1>3 DEF EndRound

LEMMA WorkerTypes ==
    ASSUME TypeInv, NEW w \in Workers, WorkerStep(w) \/ SpuriousWakeup(w)
    PROVE  TypeInv'
  <1> DEFINE Lived == /\ life' \in [Procs -> Lives] /\ round' \in [Workers -> 1 .. Total + 1]
                      /\ \A v \in Workers : InRange(v)'
                      /\ \A p \in Procs : life[p] = "none" => life'[p] = "none"
             Typed == /\ pc' \in [Workers -> Steps] /\ off' \in [Workers -> 0 .. Lines - 1]
                      /\ cur' \in [Workers -> 0 .. WordModulus - 1]
                      /\ word' \in [Workers -> 0 .. WordModulus - 1]
                      /\ payload' \in [Pairs -> [1 .. Lines -> Int]]
                      /\ samples' \in [Pairs -> SUBSET (0 .. Iters - 1)]
  <1>t. /\ pc \in [Workers -> Steps] /\ off \in [Workers -> 0 .. Lines - 1]
        /\ cur \in [Workers -> 0 .. WordModulus - 1]
        /\ word \in [Workers -> 0 .. WordModulus - 1]
        /\ payload \in [Pairs -> [1 .. Lines -> Int]]
        /\ samples \in [Pairs -> SUBSET (0 .. Iters - 1)]
        /\ life \in [Procs -> Lives] /\ round \in [Workers -> 1 .. Total + 1]
        /\ \A v \in Workers : InRange(v)
    BY SMTT(30) DEF TypeInv, TypeOK, Lives, Steps
  <1>0. SUFFICES Lived /\ Typed /\ UNCHANGED <<parent, faults>>
    <2>1. TypeOK'
      BY <1>0 DEF TypeInv, TypeOK, Lives, Steps, parent
    <2>2. main' = "spawn" => \A k \in at' + 1 .. NrProcs : life'[SpawnOrder[k]] = "none"
      <3>1. at \in 0 .. NrProcs /\ UNCHANGED <<main, at>>
        BY <1>0 DEF TypeInv, TypeOK, parent
      <3>2. main = "spawn" => \A k \in at + 1 .. NrProcs : life[SpawnOrder[k]] = "none"
        BY DEF TypeInv
      <3>3. \A k \in at + 1 .. NrProcs : SpawnOrder[k] \in Procs
        BY ONLY <3>1, Places, Bounds
      <3>4. \A p \in Procs : life[p] = "none" => life'[p] = "none"
        BY ONLY <1>0
      <3> QED BY ONLY <3>1, <3>2, <3>3, <3>4
    <2> QED BY <1>0, <2>1, <2>2 DEF TypeInv, parent
  <1>w. w[2] \in Pairs /\ Peer(w) \in Workers
    BY WorkerFacts
  <1>s. ASSUME UNCHANGED <<life, round>> PROVE Lived
    BY <1>s, <1>t DEF InRange
  <1>1. CASE payload_write(w)
    <2>1. Walk(w, "store") /\ UNCHANGED <<parent, life, round, cur, word, samples, faults>>
      BY ONLY <1>1 DEF payload_write
    <2>2. payload' \in [Pairs -> [1 .. Lines -> Int]]
      <3>1. Stamp(w, round[w]) \in Int
        BY <1>t, Bounds DEF Stamp
      <3> QED BY ONLY <1>t, <1>w, <1>1, <3>1 DEF payload_write
    <2>3. Typed
      BY ONLY <1>t, <2>1, <2>2, w \in Workers, WalkType DEF Steps
    <2> QED BY <1>s, <2>1, <2>3
  <1>2. CASE Store(w)
    <2>1. AsU32(round[w]) \in 0 .. WordModulus - 1
      BY <1>t, WordType, Bounds
    <2>2. Typed /\ UNCHANGED <<parent, life, round, faults>>
      BY ONLY <1>t, <1>2, <2>1, w \in Workers DEF Store, Goto, Steps
    <2> QED BY <1>s, <2>2
  <1>3. CASE futex_wake(w)
    <2>1. Typed /\ UNCHANGED <<parent, faults>>
      BY ONLY <1>t, <1>w, <1>3, w \in Workers DEF futex_wake, Woken, Steps, shared
    <2>2. Lived
      <3>1. CASE w[1] = "server"
        BY ONLY <1>t, <1>3, <3>1, w \in Workers, EndRoundType DEF futex_wake, Running
      <3>2. CASE w[1] # "server"
        BY <1>s, <1>3, <3>2 DEF futex_wake
      <3> QED BY <3>1, <3>2
    <2> QED BY <2>1, <2>2
  <1>4. CASE Load(w)
    <2>1. Typed /\ UNCHANGED <<parent, life, round, faults>>
      BY ONLY <1>t, <1>w, <1>4, w \in Workers DEF Load, Goto, Steps, shared
    <2> QED BY <1>s, <2>1
  <1>5. CASE FutexWait(w) \/ SpuriousWakeup(w)
    <2>1. Typed /\ UNCHANGED <<parent, life, round, faults>>
      BY ONLY <1>t, <1>w, <1>5, w \in Workers DEF FutexWait, SpuriousWakeup, Goto, Steps, shared
    <2> QED BY <1>s, <2>1
  <1>6. CASE payload_read(w)
    <2>1. /\ Walk(w, "write") /\ UNCHANGED <<parent, cur, word, payload, faults>>
          /\ life[w] = "running"
      BY ONLY <1>6 DEF payload_read, Running
    <2>2. pc' \in [Workers -> Steps] /\ off' \in [Workers -> 0 .. Lines - 1]
      BY ONLY <1>t, <2>1, w \in Workers, WalkType DEF Steps
    <2>3. CASE w[1] = "client" /\ off[w] + 1 = Lines
      <3>1. EndRound(w) /\ samples' = Sampled(w)
        BY ONLY <1>6, <2>3 DEF payload_read
      <3>2. samples' \in [Pairs -> SUBSET (0 .. Iters - 1)]
        <4>1. round[w] \in Nat /\ round[w] <= Total
          <5>1. round[w] \in 1 .. Total + 1
            BY <1>t
          <5>2. InRange(w)
            BY <1>t
          <5> QED BY ONLY <2>1, <5>1, <5>2, Bounds DEF InRange
        <4>2. round[w] - Warmup - 1 >= 0 => round[w] - Warmup - 1 \in 0 .. Iters - 1
          BY <4>1, Bounds
        <4> QED BY ONLY <1>t, <1>w, <3>1, <4>2 DEF Sampled
      <3>3. Lived
        BY ONLY <1>t, <2>1, <3>1, w \in Workers, EndRoundType
      <3> QED BY ONLY <1>t, <2>1, <2>2, <3>2, <3>3
    <2>4. CASE ~(w[1] = "client" /\ off[w] + 1 = Lines)
      <3>1. UNCHANGED <<round, life, samples>>
        BY ONLY <1>6, <2>4 DEF payload_read
      <3> QED BY <1>s, <1>t, <2>1, <2>2, <3>1
    <2> QED BY <2>1, <2>3, <2>4
  <1> QED BY <1>1, <1>2, <1>3, <1>4, <1>5, <1>6 DEF WorkerStep

LEMMA TypeStep == TypeInv /\ [Next]_vars => TypeInv'
  <1> SUFFICES ASSUME TypeInv, [Next]_vars PROVE TypeInv'
    OBVIOUS
  <1>1. CASE MainStep \/ Fault \/ \E p \in Procs : ChildStep(p)
    BY ONLY <1>1, TypeInv, OutsideStep
  <1>2. CASE \E w \in Workers : WorkerStep(w) \/ SpuriousWakeup(w)
    BY ONLY <1>2, TypeInv, WorkerTypes
  <1>3. CASE UNCHANGED vars
    BY ONLY <1>3, TypeInv DEF vars, parent, locals, shared, TypeInv, TypeOK, InRange
  <1> QED BY ONLY <1>1, <1>2, <1>3, [Next]_vars DEF Next

\* Every variable keeps its type: no worker starts a round beyond the last or
\* walks past the buffer, and the parent's loops stay within the processes it
\* has spawned (main, run_server, run_client).
THEOREM TypeCorrect == Spec => []TypeOK
  <1>1. TypeInv => TypeOK
    BY DEF TypeInv
  <1> QED BY TypeInit, TypeStep, <1>1, PTL DEF Spec
=============================================================================
