---------------------------- MODULE DaemonProofs ----------------------------
(***************************************************************************)
(* Proofs about the life of the daemon, for any connections and any bounds.*)
(***************************************************************************)
EXTENDS Daemon, TLAPS

\* Types, by what they are about.  No counter is ahead of the events counted.
LifeTypes ==
  /\ pc \in {"init", "drop", "launch", "check", "recv", "left", "exited"}
  /\ shutdown \in BOOLEAN /\ privs \in BOOLEAN /\ link \in BOOLEAN /\ server \in BOOLEAN
  /\ due \in BOOLEAN
  /\ caps \subseteq Threads
  /\ uei \in Ends \cup {None}
  /\ exit \in {None, "ok", "err"}

LoopTypes ==
  /\ late \in Nat
  /\ lastView \in Ticks /\ lastTasks \in Ticks /\ spills \in Ticks
  /\ ejects \in Nat /\ faults \in Nat

ConnTypes ==
  /\ chan \in Clients \cup {None}
  /\ client \in [Clients -> {"closed", "opening", "open", "reading"}]

ReaderTypes ==
  /\ fired \in 0..MaxEvents
  /\ counters \in [Stats -> 0..fired]
  /\ prev \in [MetricsClients -> [Stats -> 0..MaxEvents]]
  /\ sound \in [MetricsClients -> BOOLEAN]
  /\ since \in [MetricsClients -> [Stats -> 0..fired]]

TypeInv == LifeTypes /\ LoopTypes /\ ConnTypes /\ ReaderTypes

\* Before the server runs main is the only thread there is, and from the drop
\* on it has no capabilities it could pass on.
CapsInv ==
  /\ ~server => caps \subseteq {"main"}
  /\ privs /\ pc = "launch" /\ ~server => caps = {}
  /\ pc = "exited" => ~server
  /\ NoCapsAfterDrop

\* A round that began before main was to stop is the only one it finishes.
LateInv ==
  /\ pc = "recv" => late = 0
  /\ pc = "check" /\ ~Stop => late = 0
  /\ StopsPromptly

\* Inside the loop the view, the tasks and the spills are those of one tick.
ViewInv ==
  /\ pc \in {"drop", "launch"} => lastTasks = 0 /\ spills = 0
  /\ pc \in {"check", "recv"} => lastView = lastTasks /\ lastTasks = spills

\* What the counters have advanced since a connection read them is what has
\* happened since; a reset only takes them back.
DeltaInv ==
  \A c \in MetricsClients :
    client[c] \in {"open", "reading"} /\ sound[c] =>
      \A k \in Stats : counters[k] <= prev[c][k] + since[c][k]

IInv == TypeInv /\ CapsInv /\ LateInv /\ ViewInv /\ DeltaInv

-----------------------------------------------------------------------------
(* Types.                                                                  *)

LEMMA TypesSuffice ==
    ASSUME TypeInv
    PROVE  TypeOK
  <1> USE BoundsAssumption
  <1>1. counters \in [Stats -> 0..MaxEvents]
    BY DEF TypeInv, ReaderTypes
  <1>2. since \in [MetricsClients -> [Stats -> 0..MaxEvents]]
    BY DEF TypeInv, ReaderTypes
  <1> QED BY <1>1, <1>2 DEF TypeInv, LifeTypes, LoopTypes, ConnTypes, ReaderTypes, TypeOK

\* The process has ended, however it came to that.
LEMMA ExitTypes ==
    ASSUME NEW status \in {"ok", "err"}, Exit(status), TypeInv,
           UNCHANGED <<shutdown, privs, uei, fired, ejects>>, faults' \in Nat
    PROVE  TypeInv'
  <1> USE BoundsAssumption DEF Exit
  <1>1. LifeTypes'
    BY Zenon DEF TypeInv, LifeTypes
  <1>2. LoopTypes'
    BY DEF TypeInv, LoopTypes, Ticks
  <1>3. ConnTypes'
    BY DEF ConnTypes
  <1>4. ReaderTypes'
    BY DEF TypeInv, ReaderTypes, Zero
  <1> QED BY <1>1, <1>2, <1>3, <1>4 DEF TypeInv

\* A step of main that leaves the connections and counters alone.
LEMMA MainTypes ==
    ASSUME TypeInv, InitSched \/ DropPrivileges \/ Launch \/ Check \/ Reinit
    PROVE  TypeInv'
  <1>1. LifeTypes'
    <2>1. CASE InitSched
      BY <2>1 DEF InitSched, TypeInv, LifeTypes
    <2>2. CASE DropPrivileges
      BY <2>2 DEF DropPrivileges, TypeInv, LifeTypes, loop
    <2>3. CASE Launch
      BY <2>3, Zenon DEF Launch, TypeInv, LifeTypes
    <2>4. CASE Check
      BY <2>4, Zenon DEF Check, TypeInv, LifeTypes, loop
    <2>5. CASE Reinit
      BY <2>5 DEF Reinit, TypeInv, LifeTypes, loop
    <2> QED BY <2>1, <2>2, <2>3, <2>4, <2>5
  <1>2. LoopTypes'
    BY DEF TypeInv, LoopTypes, Ticks, InitSched, DropPrivileges, Launch, Check, Reinit,
           loop, bounds
  <1>3. ConnTypes'
    BY DEF TypeInv, ConnTypes, InitSched, DropPrivileges, Launch, Check, Reinit, conns
  <1>4. ReaderTypes'
    <2>1. UNCHANGED <<fired, prev, sound, since>> /\ (counters' = counters \/ counters' = Zero)
      BY DEF InitSched, DropPrivileges, Launch, Check, Reinit, conns, readers
    <2> QED BY <2>1 DEF TypeInv, ReaderTypes, Zero
  <1> QED BY <1>1, <1>2, <1>3, <1>4 DEF TypeInv

\* A round of the loop.
LEMMA RoundTypes ==
    ASSUME TypeInv, AnswerMetrics \/ AnswerProcs \/ Tick
    PROVE  TypeInv'
  <1>1. LifeTypes'
    BY Zenon DEF TypeInv, LifeTypes, AnswerMetrics, AnswerProcs, Tick, Round
  <1>2. LoopTypes'
    <2>1. late' \in Nat
      BY DEF TypeInv, LoopTypes, AnswerMetrics, AnswerProcs, Tick, Round
    <2>2. faults' \in Nat /\ ejects' = ejects
      BY DEF TypeInv, LoopTypes, AnswerMetrics, AnswerProcs, Tick, Fault, bounds
    <2>3. CASE AnswerMetrics \/ AnswerProcs
      BY <2>1, <2>2, <2>3 DEF TypeInv, LoopTypes, AnswerMetrics, AnswerProcs
    <2>4. CASE Tick
      BY <2>1, <2>2, <2>4 DEF TypeInv, LoopTypes, Tick, NextTick, Ticks
    <2> QED BY <2>3, <2>4
  <1>3. ConnTypes'
    BY DEF TypeInv, ConnTypes, AnswerMetrics, AnswerProcs, Tick, conns
  <1>4. ReaderTypes'
    <2>1. CASE AnswerMetrics
      <3>1. /\ fired' = fired /\ counters' = counters
            /\ since' = [since EXCEPT ![chan] = Zero]
        BY <2>1 DEF AnswerMetrics
      <3>2. PICK ok \in BOOLEAN : /\ prev' = [prev EXCEPT ![chan] = IF ok THEN counters ELSE Zero]
                                  /\ sound' = [sound EXCEPT ![chan] = ok]
        BY <2>1, Zenon DEF AnswerMetrics
      <3>3. counters \in [Stats -> 0..MaxEvents] /\ Zero \in [Stats -> 0..fired]
            /\ Zero \in [Stats -> 0..MaxEvents]
        BY BoundsAssumption DEF TypeInv, ReaderTypes, Zero
      <3> QED BY <3>1, <3>2, <3>3, Zenon DEF TypeInv, ReaderTypes
    <2>2. CASE AnswerProcs \/ Tick
      BY <2>2 DEF TypeInv, ReaderTypes, AnswerProcs, Tick, readers, conns
    <2> QED BY <2>1, <2>2
  <1> QED BY <1>1, <1>2, <1>3, <1>4 DEF TypeInv

\* An event the scheduler counts.
LEMMA PlaceTypes ==
    ASSUME TypeInv, NEW k \in Stats, Place(k)
    PROVE  TypeInv'
  <1>1. LifeTypes' /\ LoopTypes' /\ ConnTypes'
    BY DEF TypeInv, LifeTypes, LoopTypes, ConnTypes, Place, life, loop, bounds
  <1>2. fired' \in 0..MaxEvents /\ fired' = fired + 1 /\ fired \in Nat
    BY BoundsAssumption DEF TypeInv, ReaderTypes, Place
  <1>3. counters' \in [Stats -> 0..fired']
    BY <1>2 DEF TypeInv, ReaderTypes, Place
  <1>4. since' \in [MetricsClients -> [Stats -> 0..fired']]
    <2> SUFFICES ASSUME NEW c \in MetricsClients PROVE since'[c] \in [Stats -> 0..fired']
      BY DEF Place
    <2>1. since[c] \in [Stats -> 0..fired]
      BY DEF TypeInv, ReaderTypes
    <2>2. since'[c] = [since[c] EXCEPT ![k] = @ + 1] \/ since'[c] = since[c]
      BY DEF Place
    <2> QED BY ONLY <1>2, <2>1, <2>2
  <1> QED BY <1>1, <1>2, <1>3, <1>4 DEF TypeInv, ReaderTypes, Place

LEMMA TypeStep ==
    ASSUME TypeInv, [Next]_vars
    PROVE  TypeInv'
  <1>1. CASE InitSched \/ DropPrivileges \/ Launch \/ Check \/ Reinit
    BY <1>1, MainTypes
  <1>2. CASE AnswerMetrics \/ AnswerProcs \/ Tick
    BY <1>2, RoundTypes
  <1>3. CASE Return \/ Bail
    BY <1>3, ExitTypes DEF Return, Bail, Status, bounds, TypeInv, LoopTypes
  <1>4. CASE Failures
    BY <1>4, ExitTypes DEF Failures, InitFails, DropFails, LaunchFails, TickFails, Fault,
                           TypeInv, LoopTypes
  <1>5. CASE OnSignal \/ Elapse \/ Restart \/ (\E k \in Ends : Eject(k)) \/ UNCHANGED vars
    <2>1. UNCHANGED <<fired, counters, conns>>
      BY <1>5 DEF OnSignal, Elapse, Restart, Eject, vars, conns
    <2>2. ConnTypes' /\ ReaderTypes'
      BY <2>1 DEF TypeInv, ConnTypes, ReaderTypes, conns, readers
    <2>3. LifeTypes'
      <3>1. CASE OnSignal
        BY <3>1, Zenon DEF OnSignal, TypeInv, LifeTypes, loop
      <3>2. CASE Elapse
        BY <3>2, Zenon DEF Elapse, TypeInv, LifeTypes, life
      <3>3. CASE Restart
        BY <3>3 DEF Restart, TypeInv, LifeTypes, loop, Threads
      <3>4. CASE \E k \in Ends : Eject(k)
        BY <3>4, Zenon DEF Eject, TypeInv, LifeTypes, loop
      <3>5. CASE UNCHANGED vars
        BY <3>5, ZenonT(60) DEF vars, TypeInv, LifeTypes, life, loop
      <3> QED BY <1>5, <3>1, <3>2, <3>3, <3>4, <3>5
    <2>4. LoopTypes'
      BY <1>5 DEF TypeInv, LoopTypes, OnSignal, Elapse, Restart, Eject, vars, loop, bounds
    <2> QED BY <2>2, <2>3, <2>4 DEF TypeInv
  <1>6. CASE \E k \in Counted : Place(k)
    BY <1>6, PlaceTypes, CountedAssumption
  <1>7. CASE \E c \in Clients : Ask(c) \/ Forward(c)
    <2>1. UNCHANGED <<life, loop, bounds, counters, fired, readers>>
      BY <1>7 DEF Ask, Forward
    <2>2. ConnTypes'
      BY <1>7 DEF TypeInv, ConnTypes, Ask, Forward
    <2> QED BY <2>1, <2>2 DEF TypeInv, LifeTypes, LoopTypes, ReaderTypes,
                              life, loop, bounds, readers
  <1> QED BY <1>1, <1>2, <1>3, <1>4, <1>5, <1>6, <1>7 DEF Next, Main, Stopped

LEMMA TypeInit == Init => TypeInv
  <1> SUFFICES ASSUME Init PROVE TypeInv
    OBVIOUS
  <1>1. LifeTypes
    BY Zenon DEF Init, LifeTypes, Threads
  <1>2. LoopTypes
    BY DEF Init, LoopTypes, Ticks
  <1>4. ConnTypes
    BY DEF Init, ConnTypes
  <1>3. ReaderTypes
    BY BoundsAssumption DEF Init, ReaderTypes, Zero
  <1> QED BY <1>1, <1>2, <1>3, <1>4 DEF TypeInv

\* The daemon's process, loop, counters and connections stay of their kind, for
\* any number of connections (main, Scheduler::run, stats.rs).
THEOREM TypeCorrect == Spec => []TypeOK
  BY TypeInit, TypeStep, TypesSuffice, PTL DEF Spec

-----------------------------------------------------------------------------
(* Capabilities.                                                           *)

\* What ends the process.
LEMMA Ended ==
    ASSUME Return \/ Bail \/ Failures
    PROVE  \E status \in {"ok", "err"} : Exit(status)
  BY DEF Return, Bail, Failures, InitFails, DropFails, LaunchFails, TickFails, Status

\* What goes on around main leaves it where it is, and its threads alone.
LEMMA Around ==
    ASSUME \/ AnswerMetrics \/ AnswerProcs \/ Tick
           \/ OnSignal \/ Elapse \/ (\E k \in Ends : Eject(k))
           \/ (\E k \in Counted : Place(k))
           \/ (\E c \in Clients : Ask(c) \/ Forward(c))
           \/ UNCHANGED vars
    PROVE  /\ UNCHANGED <<privs, caps, server>>
           /\ pc' = pc \/ pc' = "check"
  BY DEF AnswerMetrics, AnswerProcs, Tick, Round, OnSignal, Elapse, Eject, Place, Ask,
         Forward, vars, life

LEMMA CapsStep ==
    ASSUME TypeInv, CapsInv, [Next]_vars
    PROVE  CapsInv'
  <1> USE DEF CapsInv, NoCapsAfterDrop
  <1>1. CASE InitSched \/ Check \/ Reinit
    BY <1>1 DEF InitSched, Check, Reinit
  <1>2. CASE DropPrivileges
    BY <1>2 DEF DropPrivileges
  <1>3. CASE Launch
    BY <1>3 DEF Launch
  <1>4. CASE Return \/ Bail \/ Failures
    BY <1>4, Ended, Zenon DEF Exit
  <1>5. CASE Restart
    BY <1>5 DEF Restart
  <1>6. CASE \/ AnswerMetrics \/ AnswerProcs \/ Tick
             \/ OnSignal \/ Elapse \/ (\E k \in Ends : Eject(k))
             \/ (\E k \in Counted : Place(k))
             \/ (\E c \in Clients : Ask(c) \/ Forward(c))
             \/ UNCHANGED vars
    BY <1>6, Around
  <1> QED BY <1>1, <1>2, <1>3, <1>4, <1>5, <1>6 DEF Next, Main, Stopped

-----------------------------------------------------------------------------
(* The loop.                                                               *)

LEMMA LateStep ==
    ASSUME TypeInv, LateInv, [Next]_vars
    PROVE  LateInv'
  <1> USE DEF LateInv, StopsPromptly, Stop
  <1>1. CASE InitSched \/ DropPrivileges \/ Launch \/ Check \/ Reinit
    BY <1>1 DEF InitSched, DropPrivileges, Launch, Check, Reinit, loop
  <1>2. CASE AnswerMetrics \/ AnswerProcs \/ Tick
    BY <1>2 DEF AnswerMetrics, AnswerProcs, Tick, Round
  <1>3. CASE Return \/ Bail \/ Failures
    <2>1. pc' = "exited" /\ late' = 0
      BY <1>3, Ended, Zenon DEF Exit
    <2> QED BY <2>1
  <1>4. CASE OnSignal \/ (\E k \in Ends : Eject(k))
    BY <1>4 DEF OnSignal, Eject, Ends, None, loop
  <1>5. CASE Restart
    BY <1>5, SMTT(30) DEF Restart, loop
  <1>6. CASE \/ Elapse \/ (\E k \in Counted : Place(k))
             \/ (\E c \in Clients : Ask(c) \/ Forward(c)) \/ UNCHANGED vars
    BY <1>6, Zenon DEF Elapse, Place, Ask, Forward, vars, life, loop
  <1> QED BY <1>1, <1>2, <1>3, <1>4, <1>5, <1>6 DEF Next, Main, Stopped

LEMMA ViewStep ==
    ASSUME TypeInv, ViewInv, [Next]_vars
    PROVE  ViewInv'
  <1> USE DEF ViewInv
  <1>1. CASE InitSched \/ DropPrivileges \/ Launch \/ Check \/ Reinit
    BY <1>1 DEF InitSched, DropPrivileges, Launch, Check, Reinit, loop
  <1>2. CASE AnswerMetrics \/ AnswerProcs
    BY <1>2 DEF AnswerMetrics, AnswerProcs, Round
  <1>3. CASE Tick
    BY <1>3 DEF Tick, Round
  <1>4. CASE Return \/ Bail \/ Failures
    BY <1>4, Ended, Zenon DEF Exit
  <1>5. CASE Restart
    BY <1>5, SMTT(30) DEF Restart
  <1>6. CASE \/ OnSignal \/ Elapse \/ (\E k \in Ends : Eject(k))
             \/ (\E k \in Counted : Place(k))
             \/ (\E c \in Clients : Ask(c) \/ Forward(c)) \/ UNCHANGED vars
    BY <1>6 DEF OnSignal, Eject, Elapse, Place, Ask, Forward, vars, life, loop
  <1> QED BY <1>1, <1>2, <1>3, <1>4, <1>5, <1>6 DEF Next, Main, Stopped

-----------------------------------------------------------------------------
(* The counters.                                                           *)

LEMMA DeltaStep ==
    ASSUME TypeInv, DeltaInv, [Next]_vars
    PROVE  DeltaInv'
  <1> SUFFICES ASSUME NEW c \in MetricsClients, client'[c] \in {"open", "reading"}, sound'[c],
                      NEW k \in Stats
               PROVE  counters'[k] <= prev'[c][k] + since'[c][k]
    BY SMTT(30) DEF DeltaInv
  <1>0. /\ client[c] \in {"open", "reading"} /\ sound[c] => counters[k] <= prev[c][k] + since[c][k]
        /\ counters[k] \in Nat /\ prev[c][k] \in Nat /\ since[c][k] \in Nat
    BY BoundsAssumption, SMTT(30) DEF DeltaInv, TypeInv, ReaderTypes
  <1>1. CASE AnswerMetrics
    <2>1. /\ counters' = counters
          /\ client' = [client EXCEPT ![chan] = "open"]
          /\ since' = [since EXCEPT ![chan] = Zero]
      BY <1>1 DEF AnswerMetrics
    <2>2. PICK ok \in BOOLEAN : /\ prev' = [prev EXCEPT ![chan] = IF ok THEN counters ELSE Zero]
                                /\ sound' = [sound EXCEPT ![chan] = ok]
      BY <1>1, Zenon DEF AnswerMetrics
    <2>3. CASE c = chan
      <3>1. prev'[c] = counters /\ since'[c] = Zero
        BY <2>1, <2>2, <2>3 DEF TypeInv, ReaderTypes
      <3> QED BY <1>0, <2>1, <3>1 DEF Zero
    <2>4. CASE c # chan
      <3>1. prev'[c] = prev[c] /\ since'[c] = since[c] /\ sound'[c] = sound[c]
            /\ client'[c] = client[c]
        BY <2>1, <2>2, <2>4 DEF TypeInv, ReaderTypes, ConnTypes, Clients
      <3> QED BY <1>0, <2>1, <3>1
    <2> QED BY <2>3, <2>4
  <1>2. CASE InitSched
    BY <1>0, <1>2 DEF InitSched, conns, readers, Zero
  <1>3. CASE \E j \in Counted : Place(j)
    <2>1. PICK j \in Counted : Place(j)
      BY <1>3
    <2>2. client' = client /\ prev' = prev /\ sound' = sound
      BY <2>1 DEF Place
    <2>3. since'[c] = [since[c] EXCEPT ![j] = @ + 1]
      BY <2>1, <2>2 DEF Place
    <2>4. counters' = [counters EXCEPT ![j] = @ + 1]
      BY <2>1 DEF Place
    <2>5. since[c] \in [Stats -> 0..fired] /\ counters \in [Stats -> 0..fired]
      BY DEF TypeInv, ReaderTypes
    <2>6. since'[c][k] = (IF k = j THEN since[c][k] + 1 ELSE since[c][k])
          /\ counters'[k] = (IF k = j THEN counters[k] + 1 ELSE counters[k])
      BY <2>3, <2>4, <2>5
    <2> QED BY <1>0, <2>2, <2>6
  <1>4. CASE Return \/ Bail \/ Failures
    BY <1>4, Ended, Zenon DEF Exit, Clients
  <1>5. CASE \E d \in Clients : Ask(d)
    <2>1. PICK d \in Clients : Ask(d)
      BY <1>5
    <2>2. UNCHANGED <<counters, prev, sound, since>>
      BY <2>1 DEF Ask, readers
    <2>3. client[c] \in {"open", "reading"}
      BY <2>1 DEF Ask, Waiting, TypeInv, ConnTypes, Clients
    <2> QED BY <1>0, <2>2, <2>3
  <1>6. CASE \/ DropPrivileges \/ Launch \/ Check \/ Reinit \/ AnswerProcs \/ Tick \/ OnSignal
             \/ Elapse \/ (\E e \in Ends : Eject(e)) \/ (\E d \in Clients : Forward(d))
             \/ Restart \/ UNCHANGED vars
    <2>1. UNCHANGED <<counters, prev, sound, since>>
      BY <1>6 DEF DropPrivileges, Launch, Check, Reinit, AnswerProcs, Tick, OnSignal, Elapse,
                  Eject, Forward, Restart, vars, conns, readers
    <2>2. client'[c] = client[c]
      <3>1. CASE AnswerProcs
        BY <3>1, ClientsAssumption, SMTT(30) DEF AnswerProcs, TypeInv, ConnTypes, Clients
      <3>2. CASE ~AnswerProcs
        BY <1>6, <3>2, Zenon DEF DropPrivileges, Launch, Check, Reinit, Tick, OnSignal, Elapse,
                          Eject, Forward, Restart, vars, conns
      <3> QED BY <3>1, <3>2
    <2> QED BY <1>0, <2>1, <2>2, SMTT(30)
  <1> QED BY <1>1, <1>2, <1>3, <1>4, <1>5, <1>6, Zenon DEF Next, Main, Stopped

-----------------------------------------------------------------------------

LEMMA InvInit == Init => IInv
  <1> SUFFICES ASSUME Init PROVE IInv
    OBVIOUS
  <1>1. TypeInv
    BY TypeInit
  <1>2. CapsInv
    BY DEF Init, CapsInv, NoCapsAfterDrop
  <1>3. LateInv
    BY DEF Init, LateInv, StopsPromptly
  <1>4. ViewInv /\ DeltaInv
    BY DEF Init, ViewInv, DeltaInv, Clients
  <1> QED BY <1>1, <1>2, <1>3, <1>4 DEF IInv

LEMMA InvStep == IInv /\ [Next]_vars => IInv'
  BY TypeStep, CapsStep, LateStep, ViewStep, DeltaStep DEF IInv

\* Every behaviour is one of the inductive invariant.
LEMMA InvHolds == Spec => []IInv
  BY InvInit, InvStep, PTL DEF Spec

\* With --drop-privs no thread that the daemon has spawned holds a capability,
\* in whatever round of main and after however many restarts (main,
\* drop_all_capabilities).
THEOREM CapsDropped == Spec => []NoCapsAfterDrop
  <1>1. IInv => NoCapsAfterDrop
    BY Zenon DEF IInv, CapsInv
  <1> QED BY <1>1, InvHolds, PTL

\* However many requests are waiting, Scheduler::run ends at most one round of
\* its loop after the signal or the ejection.
THEOREM PromptStop == Spec => []StopsPromptly
  <1>1. IInv => StopsPromptly
    BY Zenon DEF IInv, LateInv
  <1> QED BY <1>1, InvHolds, PTL

\* A read of any connection is answered by the loop, in a round.
LEMMA ReadsInLoop ==
    ASSUME TypeInv, [Next]_vars, NEW c \in Clients, Reads(c)
    PROVE  pc = "recv" /\ c = chan /\ (AnswerMetrics \/ AnswerProcs)
  <1> USE DEF Reads
  <1>0. client \in [Clients -> {"closed", "opening", "open", "reading"}]
    BY DEF TypeInv, ConnTypes
  <1>1. CASE AnswerMetrics \/ AnswerProcs
    BY <1>0, <1>1 DEF AnswerMetrics, AnswerProcs
  <1>2. CASE Return \/ Bail \/ Failures
    BY <1>2, Ended, Zenon DEF Exit
  <1>3. CASE \E d \in Clients : Ask(d)
    BY <1>0, <1>3 DEF Ask
  <1>4. CASE \/ InitSched \/ DropPrivileges \/ Launch \/ Check \/ Reinit \/ Tick \/ OnSignal
             \/ Elapse \/ (\E e \in Ends : Eject(e)) \/ (\E k \in Counted : Place(k))
             \/ (\E d \in Clients : Forward(d)) \/ Restart \/ UNCHANGED vars
    <2>1. client' = client
      BY <1>4 DEF InitSched, DropPrivileges, Launch, Check, Reinit, Tick, OnSignal, Elapse,
                  Eject, Place, Forward, Restart, vars, conns
    <2> QED BY <2>1, SMTT(30)
  <1> QED BY <1>1, <1>2, <1>3, <1>4, Zenon DEF Next, Main, Stopped

\* What `scx_cohort top` is shown comes from one tick of one scheduler, for any
\* number of connections, ticks that fail and schedulers that replace each
\* other (procs_snapshot).
THEOREM TopCoherent == Spec => ProcsCoherent
  <1>1. IInv /\ [Next]_vars =>
          [\A c \in ProcsClients : Reads(c) => lastView = lastTasks /\ lastTasks = spills]_vars
    BY ReadsInLoop DEF IInv, ViewInv, Clients
  <1> QED BY <1>1, InvHolds, PTL DEF Spec, ProcsCoherent

\* The daemon shows no event twice: between two answers a connection is shown
\* at most what has been counted since the first (Metrics::delta).
THEOREM DeltaHonest == Spec => DeltaWithinInterval
  <1>1. ASSUME IInv, [Next]_vars, NEW c \in MetricsClients, Reads(c), sound[c], sound'[c],
               NEW k \in Stats
        PROVE  Shown(prev'[c], prev[c]).delta[k] <= since[c][k]
    <2>1. c = chan /\ AnswerMetrics
      BY <1>1, ReadsInLoop, ClientsAssumption DEF IInv, Clients, AnswerProcs
    <2>2. PICK ok \in BOOLEAN : /\ prev' = [prev EXCEPT ![chan] = IF ok THEN counters ELSE Zero]
                                /\ sound' = [sound EXCEPT ![chan] = ok]
      BY <2>1, Zenon DEF AnswerMetrics
    <2>3. prev'[c] = counters
      BY <1>1, <2>1, <2>2 DEF IInv, TypeInv, ReaderTypes
    <2>4. /\ counters[k] <= prev[c][k] + since[c][k]
          /\ counters[k] \in Nat /\ prev[c][k] \in Nat /\ since[c][k] \in Nat
      BY <1>1, BoundsAssumption DEF Reads, IInv, DeltaInv, TypeInv, ReaderTypes
    <2>5. Shown(prev'[c], prev[c]).delta[k] = SaturatingSub(counters[k], prev[c][k])
      BY <2>3, SMTT(30) DEF Shown
    <2> QED BY <2>4, <2>5, SMTT(30) DEF SaturatingSub
  <1>2. IInv /\ [Next]_vars =>
          [\A c \in MetricsClients :
             Reads(c) /\ sound[c] /\ sound'[c] =>
               \A k \in Stats : Shown(prev'[c], prev[c]).delta[k] <= since[c][k]]_vars
    BY <1>1
  <1> QED BY <1>2, InvHolds, PTL DEF Spec, DeltaWithinInterval

LEMMA Percentage ==
    ASSUME NEW a \in Nat, NEW b \in Nat, b > 0, a <= b
    PROVE  (a * 100) \div b \in 0..100
  <1> DEFINE q == (a * 100) \div b
  <1>1. q \in Int /\ b * q <= a * 100 /\ a * 100 < b * q + b
    OBVIOUS
  <1> QED BY <1>1

\* Whatever the counters are, the share of them that is shown is a percentage.
LEMMA PctOfAny ==
    ASSUME NEW cur \in [Stats -> Nat], NEW old \in [Stats -> Nat]
    PROVE  Shown(cur, old).pct \in 0..100
  <1> DEFINE d == [k \in Stats |-> SaturatingSub(cur[k], old[k])]
             home == SaturatingSub(d.direct + d.enq_home, d.steals)
             total == d.direct + d.enq_home + d.enq_spill
  <1>1. {"direct", "enq_home", "enq_spill", "steals"} \subseteq Stats
    BY DEF Stats
  <1>2. \A k \in Stats : d[k] \in Nat
    BY DEF SaturatingSub
  <1>3. d.direct \in Nat /\ d.enq_home \in Nat /\ d.enq_spill \in Nat /\ d.steals \in Nat
    BY <1>1, <1>2, SMTT(30)
  <1>4. Shown(cur, old).pct = IF total > 0 THEN (home * 100) \div total ELSE 100
    BY DEF Shown, AffinityPct
  <1> HIDE DEF d
  <1>5. home \in Nat /\ total \in Nat /\ home <= total
    BY <1>3 DEF SaturatingSub
  <1> HIDE DEF home, total
  <1> QED BY <1>4, <1>5, Percentage

\* The hit rate that --monitor shows is a percentage in every interval, however
\* the counters were counted, reset or misread (Metrics::affinity_pct).
THEOREM PercentShown == Spec => PercentInRange
  <1>1. ASSUME TypeInv, TypeInv', NEW c \in MetricsClients
        PROVE  Shown(prev'[c], prev[c]).pct \in 0..100
    <2>1. prev[c] \in [Stats -> Nat] /\ prev'[c] \in [Stats -> Nat]
      BY <1>1, BoundsAssumption DEF TypeInv, ReaderTypes
    <2> QED BY <2>1, PctOfAny, SMTT(30)
  <1>2. IInv /\ IInv' =>
          [\A c \in MetricsClients :
             Reads(c) => Shown(prev'[c], prev[c]).pct \in 0..100]_vars
    BY <1>1 DEF IInv
  <1> QED BY <1>2, InvHolds, PTL DEF PercentInRange
=============================================================================
