----------------------- MODULE IpcPingpongPairProofs ------------------------
(***************************************************************************)
(* The pairs of IpcPingpong, for any number of them and of rounds, lines   *)
(* and faults, and any word size: who owns the buffer, that no wakeup is   *)
(* lost, and that a pair implements RoundTrips.  Then the results: that    *)
(* what is reported is complete.                                           *)
(***************************************************************************)
EXTENDS IpcPingpongProofs, TLAPS

Wait == {"load", "futex", "asleep"}

\* Whose turn it is in pair i.
Turn(i) ==
    LET c == Client(i)  s == Server(i) IN
    \/ /\ pc[c] \in {"write", "store"}
       /\ \/ round[s] = round[c] /\ pc[s] \in Wait
          \/ round[s] = round[c] - 1 /\ pc[s] = "wake"
    \/ /\ pc[c] \in Wait \cup {"wake"}
       /\ \/ round[s] = round[c]
          \/ round[s] = round[c] - 1 /\ pc[s] = "wake"
          \/ round[s] = round[c] + 1 /\ pc[s] \in Wait
    \/ /\ pc[c] = "read"
       /\ \/ round[s] = round[c] /\ pc[s] = "wake"
          \/ round[s] = round[c] + 1 /\ pc[s] \in Wait

\* What line l of pair i holds: the request from the store on until the
\* server has read it, the reply from then on until the client has.
Line(i, l) ==
    LET c == Client(i)  s == Server(i) IN
    /\ pc[c] = "write" /\ l <= off[c] => payload[i][l] = round[c]
    /\ pc[c] = "store" => payload[i][l] = round[c]
    /\ (/\ pc[c] \in Wait \cup {"wake"}
        /\ \/ round[s] < round[c]
           \/ round[s] = round[c] /\ pc[s] \in Wait \cup {"read"})
       => payload[i][l] = round[c]
    /\ pc[s] = "write" /\ l <= off[s] => payload[i][l] = -round[s] - 1
    /\ pc[s] = "store" => payload[i][l] = -round[s] - 1
    /\ (/\ pc[c] \in Wait \cup {"wake"}
        /\ \/ round[s] = round[c] /\ pc[s] = "wake"
           \/ round[s] > round[c])
       => payload[i][l] = -round[c] - 1
    /\ pc[c] = "read" => payload[i][l] = -round[c] - 1

Message(i) == \A l \in 1 .. Lines : Line(i, l)

\* The words say what was posted, and a sleeper has seen another word than the
\* one it wants.
Words(i) ==
    /\ word[Client(i)] = AsU32(Posted(Client(i)))
    /\ word[Server(i)] = AsU32(Posted(Server(i)))

Sleepers(w) ==
    /\ pc[w] \in {"futex", "asleep"} => cur[w] # AsU32(round[w])
    /\ pc[w] = "asleep" /\ word[Peer(w)] = AsU32(round[w]) => pc[Peer(w)] = "wake"

PairInv(i) ==
    /\ Turn(i) /\ Message(i) /\ Words(i)
    /\ Sleepers(Client(i)) /\ Sleepers(Server(i))

IInv == TypeInv /\ \A i \in Pairs : PairInv(i)

-----------------------------------------------------------------------------
(* One pair: whose turn it is, what the buffer holds, who sleeps.           *)

\* A step that leaves a pair alone keeps what is known of it.
PairSame(i) ==
    /\ \A w \in {Client(i), Server(i)} :
          /\ pc'[w] = pc[w] /\ round'[w] = round[w] /\ off'[w] = off[w]
          /\ cur'[w] = cur[w] /\ word'[w] = word[w]
    /\ payload'[i] = payload[i]

LEMMA PairFrame ==
    ASSUME NEW i \in Pairs, PairInv(i), PairSame(i)
    PROVE  PairInv(i)'
  <1>1. /\ Peer(Client(i)) = Server(i) /\ Peer(Server(i)) = Client(i)
    BY WorkerFacts, Zenon
  <1>2. Turn(i)'
    BY Zenon DEF PairInv, PairSame, Turn
  <1>3. Message(i)'
    BY Zenon DEF PairInv, PairSame, Message, Line
  <1>4. Words(i)'
    BY Zenon DEF PairInv, PairSame, Words, Posted
  <1>5. Sleepers(Client(i))' /\ Sleepers(Server(i))'
    BY <1>1, Zenon DEF PairInv, PairSame, Sleepers
  <1> QED BY <1>2, <1>3, <1>4, <1>5, Zenon DEF PairInv

\* What was posted, by role.
LEMMA PostedIs ==
    ASSUME NEW i \in Pairs
    PROVE  /\ Posted(Client(i)) = IF pc[Client(i)] \in {"write", "store"}
                                  THEN round[Client(i)] - 1 ELSE round[Client(i)]
           /\ Posted(Server(i)) = IF pc[Server(i)] = "wake"
                                  THEN round[Server(i)] ELSE round[Server(i)] - 1
           /\ Posted(Client(i))' = IF pc'[Client(i)] \in {"write", "store"}
                                   THEN round'[Client(i)] - 1 ELSE round'[Client(i)]
           /\ Posted(Server(i))' = IF pc'[Server(i)] = "wake"
                                   THEN round'[Server(i)] ELSE round'[Server(i)] - 1
  BY WorkerFacts, Zenon DEF Posted

\* The types of a pair's state, and the numbers in it.
PairTypes(i) ==
    LET c == Client(i)  s == Server(i) IN
    /\ pc \in [Workers -> Steps] /\ round \in [Workers -> 1 .. Total + 1]
    /\ off \in [Workers -> 0 .. Lines - 1]
    /\ cur \in [Workers -> 0 .. WordModulus - 1]
    /\ word \in [Workers -> 0 .. WordModulus - 1]
    /\ payload \in [Pairs -> [1 .. Lines -> Int]] /\ i \in Pairs
    /\ c \in Workers /\ s \in Workers /\ c # s /\ Peer(c) = s /\ Peer(s) = c
    /\ c[1] = "client" /\ c[2] = i /\ s[1] = "server" /\ s[2] = i

PairNumbers(i) ==
    /\ round[Client(i)] \in Nat /\ 1 <= round[Client(i)]
    /\ round[Server(i)] \in Nat /\ 1 <= round[Server(i)]
    /\ off[Client(i)] \in 0 .. Lines - 1 /\ off[Server(i)] \in 0 .. Lines - 1
    /\ Lines \in Nat

LEMMA PairTyped ==
    ASSUME TypeInv, NEW i \in Pairs
    PROVE  PairTypes(i) /\ PairNumbers(i)
  <1>1. PairTypes(i)
    BY WorkerFacts, SMTT(30) DEF TypeInv, TypeOK, Steps, PairTypes
  <1>2. Total \in Nat /\ Lines \in Nat
    BY Bounds, Zenon
  <1>3. /\ round[Client(i)] \in 1 .. Total + 1 /\ round[Server(i)] \in 1 .. Total + 1
        /\ off[Client(i)] \in 0 .. Lines - 1 /\ off[Server(i)] \in 0 .. Lines - 1
    BY ONLY <1>1, Zenon DEF PairTypes
  <1>4. PairNumbers(i)
    BY ONLY <1>2, <1>3 DEF PairNumbers
  <1> QED BY ONLY <1>1, <1>4, Zenon

\* The steps that only move within futex_wait_until: the word wanted is there
\* exactly when the peer has posted this round.
LEMMA ClientWaits ==
    ASSUME TypeInv, NEW i \in Pairs, PairInv(i),
           Load(Client(i)) \/ FutexWait(Client(i)) \/ SpuriousWakeup(Client(i))
    PROVE  PairInv(i)'
  <1> DEFINE c == Client(i)
             s == Server(i)
  <1>t. PairTypes(i)
    BY PairTyped, Zenon
  <1>p. Peer(c) = s /\ Peer(s) = c
    BY ONLY <1>t, Zenon DEF PairTypes
  <1>i. Turn(i) /\ Message(i) /\ Words(i) /\ Sleepers(c) /\ Sleepers(s)
    BY Zenon DEF PairInv
  <1>n. PairNumbers(i)
    BY PairTyped, Zenon
  <1>f. /\ UNCHANGED <<round, off, word, payload>>
        /\ \E step \in Steps : pc' = [pc EXCEPT ![c] = step]
        /\ cur'[s] = cur[s]
    BY ONLY <1>t, Load(c) \/ FutexWait(c) \/ SpuriousWakeup(c), SMTT(30)
       DEF PairTypes, Load, FutexWait, SpuriousWakeup, Goto, shared, Steps
  <1>1. /\ pc[c] \in Wait /\ pc'[s] = pc[s]
        /\ pc'[c] \in Wait \cup {"read"}
        /\ pc'[c] = "read" => word[s] = AsU32(round[c])
        /\ pc'[c] = "futex" => cur'[c] = word[s] /\ word[s] # AsU32(round[c])
        /\ pc'[c] = "asleep" => cur'[c] = cur[c] /\ word[s] = cur[c] /\ pc[c] = "futex"
    BY ONLY <1>t, Load(c) \/ FutexWait(c) \/ SpuriousWakeup(c), SMTT(30)
       DEF PairTypes, Load, FutexWait, SpuriousWakeup, Goto, Wait
  <1>2. pc'[c] = "read" =>
           \/ round[s] = round[c] /\ pc[s] = "wake"
           \/ round[s] = round[c] + 1 /\ pc[s] \in Wait
    <2>1. /\ Posted(s) = IF pc[s] = "wake" THEN round[s] ELSE round[s] - 1
          /\ word[s] = AsU32(Posted(s))
      BY PostedIs, <1>i, Zenon DEF Words
    <2>2. /\ round[s] \in Nat /\ round[c] \in Nat /\ round[c] >= 1
      BY PairTyped, Zenon DEF PairNumbers
    <2>3. Posted(s) = round[c] - 1 =>  word[s] # AsU32(round[c])
      <3>1. AsU32(round[c] - 1) # AsU32(round[c] - 1 + 1)
        BY ONLY <2>2, Wraps
      <3> QED BY ONLY <2>1, <2>2, <3>1
    <2>4. \/ round[s] = round[c]
          \/ round[s] = round[c] - 1 /\ pc[s] = "wake"
          \/ round[s] = round[c] + 1 /\ pc[s] \in Wait
      BY ONLY <1>1, <1>i, Zenon DEF Turn, Wait
    <2> QED BY ONLY <1>1, <2>1, <2>2, <2>3, <2>4, Zenon DEF Wait
  <1>3. Turn(i)'
    BY ONLY <1>f, <1>1, <1>2, <1>i, SMTT(30) DEF Turn, Wait
  <1>4. Message(i)'
    <2> SUFFICES ASSUME NEW l \in 1 .. Lines PROVE Line(i, l)'
      BY Zenon DEF Message
    <2>1. Line(i, l) /\ Turn(i)
      BY ONLY <1>i, l \in 1 .. Lines, Zenon DEF Message
    <2> QED BY ONLY <1>n, <1>f, <1>1, <1>2, <2>1, l \in 1 .. Lines, SMTT(30)
            DEF PairNumbers, Turn, Line, Wait
  <1>5. Words(i)'
    <2>1. Posted(c)' = Posted(c) /\ Posted(s)' = Posted(s)
      BY ONLY <1>f, <1>1, PostedIs, i \in Pairs, Zenon DEF Wait
    <2> QED BY ONLY <1>f, <1>i, <2>1, Zenon DEF Words, AsU32
  <1>6. Sleepers(c)' /\ Sleepers(s)'
    BY ONLY <1>p, <1>f, <1>1, <1>i, SMTT(30) DEF Sleepers, AsU32, Wait
  <1> QED BY <1>3, <1>4, <1>5, <1>6, Zenon DEF PairInv

LEMMA ServerWaits ==
    ASSUME TypeInv, NEW i \in Pairs, PairInv(i),
           Load(Server(i)) \/ FutexWait(Server(i)) \/ SpuriousWakeup(Server(i))
    PROVE  PairInv(i)'
  <1> DEFINE c == Client(i)
             s == Server(i)
  <1>t. PairTypes(i)
    BY PairTyped, Zenon
  <1>p. Peer(c) = s /\ Peer(s) = c
    BY ONLY <1>t, Zenon DEF PairTypes
  <1>i. Turn(i) /\ Message(i) /\ Words(i) /\ Sleepers(c) /\ Sleepers(s)
    BY Zenon DEF PairInv
  <1>n. PairNumbers(i)
    BY PairTyped, Zenon
  <1>f. /\ UNCHANGED <<round, off, word, payload>>
        /\ \E step \in Steps : pc' = [pc EXCEPT ![s] = step]
        /\ cur'[c] = cur[c]
    BY ONLY <1>t, Load(s) \/ FutexWait(s) \/ SpuriousWakeup(s), SMTT(30)
       DEF PairTypes, Load, FutexWait, SpuriousWakeup, Goto, shared, Steps
  <1>1. /\ pc[s] \in Wait /\ pc'[c] = pc[c]
        /\ pc'[s] \in Wait \cup {"read"}
        /\ pc'[s] = "read" => word[c] = AsU32(round[s])
        /\ pc'[s] = "futex" => cur'[s] = word[c] /\ word[c] # AsU32(round[s])
        /\ pc'[s] = "asleep" => cur'[s] = cur[s] /\ word[c] = cur[s] /\ pc[s] = "futex"
    BY ONLY <1>t, Load(s) \/ FutexWait(s) \/ SpuriousWakeup(s), SMTT(30)
       DEF PairTypes, Load, FutexWait, SpuriousWakeup, Goto, Wait
  <1>2. pc'[s] = "read" => round[s] = round[c] /\ pc[c] \in Wait \cup {"wake"}
    <2>1. /\ Posted(c) = IF pc[c] \in {"write", "store"} THEN round[c] - 1 ELSE round[c]
          /\ word[c] = AsU32(Posted(c))
      BY PostedIs, <1>i, Zenon DEF Words
    <2>2. /\ round[s] \in Nat /\ round[c] \in Nat /\ round[s] >= 1
      BY PairTyped, Zenon DEF PairNumbers
    <2>3. Posted(c) = round[s] - 1 => word[c] # AsU32(round[s])
      <3>1. AsU32(round[s] - 1) # AsU32(round[s] - 1 + 1)
        BY ONLY <2>2, Wraps
      <3> QED BY ONLY <2>1, <2>2, <3>1
    <2> QED BY ONLY <1>1, <1>i, <2>1, <2>2, <2>3 DEF Turn, Wait
  <1>3. Turn(i)'
    BY ONLY <1>f, <1>1, <1>2, <1>i, SMTT(30) DEF Turn, Wait
  <1>4. Message(i)'
    <2> SUFFICES ASSUME NEW l \in 1 .. Lines PROVE Line(i, l)'
      BY Zenon DEF Message
    <2>1. Line(i, l) /\ Turn(i)
      BY ONLY <1>i, l \in 1 .. Lines, Zenon DEF Message
    <2> QED BY ONLY <1>n, <1>f, <1>1, <1>2, <2>1, l \in 1 .. Lines, SMTT(30)
            DEF PairNumbers, Turn, Line, Wait
  <1>5. Words(i)'
    <2>1. Posted(c)' = Posted(c) /\ Posted(s)' = Posted(s)
      BY ONLY <1>f, <1>1, PostedIs, i \in Pairs, Zenon DEF Wait
    <2> QED BY ONLY <1>f, <1>i, <2>1, Zenon DEF Words, AsU32
  <1>6. Sleepers(c)' /\ Sleepers(s)'
    BY ONLY <1>p, <1>f, <1>1, <1>i, SMTT(30) DEF Sleepers, AsU32, Wait
  <1> QED BY <1>3, <1>4, <1>5, <1>6, Zenon DEF PairInv

\* The other steps of a pair, one lemma each.
LEMMA ClientWrites ==
    ASSUME TypeInv, NEW i \in Pairs, PairInv(i), payload_write(Client(i))
    PROVE  PairInv(i)'
  <1> DEFINE c == Client(i)
             s == Server(i)
  <1>t. PairTypes(i)
    BY PairTyped, Zenon
  <1>p. Peer(c) = s /\ Peer(s) = c
    BY ONLY <1>t, Zenon DEF PairTypes
  <1>i. Turn(i) /\ Message(i) /\ Words(i) /\ Sleepers(c) /\ Sleepers(s)
    BY Zenon DEF PairInv
  <1>n. PairNumbers(i)
    BY PairTyped, Zenon
  <1>1. /\ pc[c] = "write" /\ pc'[s] = pc[s] /\ off'[s] = off[s]
        /\ UNCHANGED <<round, cur, word>>
        /\ \A l \in 1 .. Lines : payload'[i][l] = IF l = off[c] + 1 THEN round[c] ELSE payload[i][l]
        /\ \/ off[c] + 1 = Lines /\ off'[c] = 0 /\ pc'[c] = "store"
           \/ off[c] + 1 # Lines /\ off'[c] = off[c] + 1 /\ pc'[c] = "write"
    BY ONLY <1>t, <1>n, payload_write(c), SMTT(30)
       DEF PairTypes, PairNumbers, payload_write, Walk, Goto, Stamp
  <1>2. Turn(i)'
    BY ONLY <1>n, <1>1, <1>i, SMTT(30) DEF PairNumbers, Turn, Wait
  <1>3. Message(i)'
    <2> SUFFICES ASSUME NEW l \in 1 .. Lines PROVE Line(i, l)'
      BY Zenon DEF Message
    <2>1. Line(i, l) /\ Turn(i)
      BY ONLY <1>i, l \in 1 .. Lines, Zenon DEF Message
    <2> QED BY ONLY <1>n, <1>1, <2>1, l \in 1 .. Lines, SMTT(30)
            DEF PairNumbers, Turn, Line, Wait
  <1>4. Words(i)'
    <2>1. Posted(c)' = Posted(c) /\ Posted(s)' = Posted(s)
      BY ONLY <1>n, <1>1, <1>i, PostedIs, i \in Pairs, Zenon DEF PairNumbers, Turn, Wait
    <2> QED BY ONLY <1>1, <1>i, <2>1, Zenon DEF Words, AsU32
  <1>5. Sleepers(c)' /\ Sleepers(s)'
    BY ONLY <1>p, <1>1, <1>i, SMTT(30) DEF Sleepers, AsU32, Wait
  <1> QED BY <1>2, <1>3, <1>4, <1>5, Zenon DEF PairInv

LEMMA ServerWrites ==
    ASSUME TypeInv, NEW i \in Pairs, PairInv(i), payload_write(Server(i))
    PROVE  PairInv(i)'
  <1> DEFINE c == Client(i)
             s == Server(i)
  <1>t. PairTypes(i)
    BY PairTyped, Zenon
  <1>p. Peer(c) = s /\ Peer(s) = c
    BY ONLY <1>t, Zenon DEF PairTypes
  <1>i. Turn(i) /\ Message(i) /\ Words(i) /\ Sleepers(c) /\ Sleepers(s)
    BY Zenon DEF PairInv
  <1>n. PairNumbers(i)
    BY PairTyped, Zenon
  <1>1. /\ pc[s] = "write" /\ pc'[c] = pc[c] /\ off'[c] = off[c]
        /\ UNCHANGED <<round, cur, word>>
        /\ \A l \in 1 .. Lines : payload'[i][l] = IF l = off[s] + 1 THEN -round[s] - 1 ELSE payload[i][l]
        /\ \/ off[s] + 1 = Lines /\ off'[s] = 0 /\ pc'[s] = "store"
           \/ off[s] + 1 # Lines /\ off'[s] = off[s] + 1 /\ pc'[s] = "write"
    BY ONLY <1>t, <1>n, payload_write(s), SMTT(30)
       DEF PairTypes, PairNumbers, payload_write, Walk, Goto, Stamp
  <1>2. Turn(i)'
    BY ONLY <1>n, <1>1, <1>i, SMTT(30) DEF PairNumbers, Turn, Wait
  <1>3. Message(i)'
    <2> SUFFICES ASSUME NEW l \in 1 .. Lines PROVE Line(i, l)'
      BY Zenon DEF Message
    <2>1. Line(i, l) /\ Turn(i)
      BY ONLY <1>i, l \in 1 .. Lines, Zenon DEF Message
    <2> QED BY ONLY <1>n, <1>1, <2>1, l \in 1 .. Lines, SMTT(30)
            DEF PairNumbers, Turn, Line, Wait
  <1>4. Words(i)'
    <2>1. Posted(c)' = Posted(c) /\ Posted(s)' = Posted(s)
      BY ONLY <1>n, <1>1, <1>i, PostedIs, i \in Pairs, Zenon DEF PairNumbers, Turn, Wait
    <2> QED BY ONLY <1>1, <1>i, <2>1, Zenon DEF Words, AsU32
  <1>5. Sleepers(c)' /\ Sleepers(s)'
    BY ONLY <1>p, <1>1, <1>i, SMTT(30) DEF Sleepers, AsU32, Wait
  <1> QED BY <1>2, <1>3, <1>4, <1>5, Zenon DEF PairInv

LEMMA ClientStores ==
    ASSUME TypeInv, NEW i \in Pairs, PairInv(i), Store(Client(i))
    PROVE  PairInv(i)'
  <1> DEFINE c == Client(i)
             s == Server(i)
  <1>t. PairTypes(i)
    BY PairTyped, Zenon
  <1>p. Peer(c) = s /\ Peer(s) = c
    BY ONLY <1>t, Zenon DEF PairTypes
  <1>i. Turn(i) /\ Message(i) /\ Words(i) /\ Sleepers(c) /\ Sleepers(s)
    BY Zenon DEF PairInv
  <1>n. PairNumbers(i)
    BY PairTyped, Zenon
  <1>1. /\ pc[c] = "store" /\ pc'[c] = "wake" /\ pc'[s] = pc[s]
        /\ UNCHANGED <<round, off, cur, payload>>
        /\ word'[c] = AsU32(round[c]) /\ word'[s] = word[s]
    BY ONLY <1>t, Store(c), SMTT(30)
       DEF PairTypes, Store, Goto
  <1>2. Turn(i)'
    BY ONLY <1>n, <1>1, <1>i, SMTT(30) DEF PairNumbers, Turn, Wait
  <1>3. Message(i)'
    <2> SUFFICES ASSUME NEW l \in 1 .. Lines PROVE Line(i, l)'
      BY Zenon DEF Message
    <2>1. Line(i, l) /\ Turn(i)
      BY ONLY <1>i, l \in 1 .. Lines, Zenon DEF Message
    <2> QED BY ONLY <1>n, <1>1, <2>1, l \in 1 .. Lines, SMTT(30)
            DEF PairNumbers, Turn, Line, Wait
  <1>4. Words(i)'
    <2>1. Posted(c)' = round[c] /\ Posted(s)' = Posted(s)
      BY ONLY <1>n, <1>1, <1>i, PostedIs, i \in Pairs, Zenon DEF PairNumbers, Turn, Wait
    <2> QED BY ONLY <1>1, <1>i, <2>1, Zenon DEF Words, AsU32
  <1>5. Sleepers(c)' /\ Sleepers(s)'
    BY ONLY <1>p, <1>1, <1>i, SMTT(30) DEF Sleepers, AsU32, Wait
  <1> QED BY <1>2, <1>3, <1>4, <1>5, Zenon DEF PairInv

LEMMA ServerStores ==
    ASSUME TypeInv, NEW i \in Pairs, PairInv(i), Store(Server(i))
    PROVE  PairInv(i)'
  <1> DEFINE c == Client(i)
             s == Server(i)
  <1>t. PairTypes(i)
    BY PairTyped, Zenon
  <1>p. Peer(c) = s /\ Peer(s) = c
    BY ONLY <1>t, Zenon DEF PairTypes
  <1>i. Turn(i) /\ Message(i) /\ Words(i) /\ Sleepers(c) /\ Sleepers(s)
    BY Zenon DEF PairInv
  <1>n. PairNumbers(i)
    BY PairTyped, Zenon
  <1>1. /\ pc[s] = "store" /\ pc'[s] = "wake" /\ pc'[c] = pc[c]
        /\ UNCHANGED <<round, off, cur, payload>>
        /\ word'[s] = AsU32(round[s]) /\ word'[c] = word[c]
    BY ONLY <1>t, Store(s), SMTT(30)
       DEF PairTypes, Store, Goto
  <1>2. Turn(i)'
    BY ONLY <1>n, <1>1, <1>i, SMTT(30) DEF PairNumbers, Turn, Wait
  <1>3. Message(i)'
    <2> SUFFICES ASSUME NEW l \in 1 .. Lines PROVE Line(i, l)'
      BY Zenon DEF Message
    <2>1. Line(i, l) /\ Turn(i)
      BY ONLY <1>i, l \in 1 .. Lines, Zenon DEF Message
    <2> QED BY ONLY <1>n, <1>1, <2>1, l \in 1 .. Lines, SMTT(30)
            DEF PairNumbers, Turn, Line, Wait
  <1>4. Words(i)'
    <2>1. Posted(c)' = Posted(c) /\ Posted(s)' = round[s]
      BY ONLY <1>n, <1>1, <1>i, PostedIs, i \in Pairs, Zenon DEF PairNumbers, Turn, Wait
    <2> QED BY ONLY <1>1, <1>i, <2>1, Zenon DEF Words, AsU32
  <1>5. Sleepers(c)' /\ Sleepers(s)'
    BY ONLY <1>p, <1>1, <1>i, SMTT(30) DEF Sleepers, AsU32, Wait
  <1> QED BY <1>2, <1>3, <1>4, <1>5, Zenon DEF PairInv

LEMMA ClientWakes ==
    ASSUME TypeInv, NEW i \in Pairs, PairInv(i), futex_wake(Client(i))
    PROVE  PairInv(i)'
  <1> DEFINE c == Client(i)
             s == Server(i)
  <1>t. PairTypes(i)
    BY PairTyped, Zenon
  <1>p. Peer(c) = s /\ Peer(s) = c
    BY ONLY <1>t, Zenon DEF PairTypes
  <1>i. Turn(i) /\ Message(i) /\ Words(i) /\ Sleepers(c) /\ Sleepers(s)
    BY Zenon DEF PairInv
  <1>n. PairNumbers(i)
    BY PairTyped, Zenon
  <1>1. /\ pc[c] = "wake" /\ pc'[c] = "load"
        /\ pc'[s] = IF pc[s] = "asleep" THEN "load" ELSE pc[s]
        /\ UNCHANGED <<round, off, cur, word, payload>>
    BY ONLY <1>t, futex_wake(c), SMTT(30)
       DEF PairTypes, futex_wake, Woken, shared
  <1>2. Turn(i)'
    BY ONLY <1>n, <1>1, <1>i, SMTT(30) DEF PairNumbers, Turn, Wait
  <1>3. Message(i)'
    <2> SUFFICES ASSUME NEW l \in 1 .. Lines PROVE Line(i, l)'
      BY Zenon DEF Message
    <2>1. Line(i, l) /\ Turn(i)
      BY ONLY <1>i, l \in 1 .. Lines, Zenon DEF Message
    <2> QED BY ONLY <1>n, <1>1, <2>1, l \in 1 .. Lines, SMTT(30)
            DEF PairNumbers, Turn, Line, Wait
  <1>4. Words(i)'
    <2>1. Posted(c)' = Posted(c) /\ Posted(s)' = Posted(s)
      BY ONLY <1>n, <1>1, <1>i, PostedIs, i \in Pairs, Zenon DEF PairNumbers, Turn, Wait
    <2> QED BY ONLY <1>1, <1>i, <2>1, Zenon DEF Words, AsU32
  <1>5. Sleepers(c)' /\ Sleepers(s)'
    BY ONLY <1>p, <1>1, <1>i, SMTT(30) DEF Sleepers, AsU32, Wait
  <1> QED BY <1>2, <1>3, <1>4, <1>5, Zenon DEF PairInv

LEMMA ServerWakes ==
    ASSUME TypeInv, NEW i \in Pairs, PairInv(i), futex_wake(Server(i))
    PROVE  PairInv(i)'
  <1> DEFINE c == Client(i)
             s == Server(i)
  <1>t. PairTypes(i)
    BY PairTyped, Zenon
  <1>p. Peer(c) = s /\ Peer(s) = c
    BY ONLY <1>t, Zenon DEF PairTypes
  <1>i. Turn(i) /\ Message(i) /\ Words(i) /\ Sleepers(c) /\ Sleepers(s)
    BY Zenon DEF PairInv
  <1>n. PairNumbers(i)
    BY PairTyped, Zenon
  <1>1. /\ pc[s] = "wake" /\ pc'[s] = "load"
        /\ pc'[c] = IF pc[c] = "asleep" THEN "load" ELSE pc[c]
        /\ round'[s] = round[s] + 1 /\ round'[c] = round[c]
        /\ UNCHANGED <<off, cur, word, payload>>
    BY ONLY <1>t, futex_wake(s), SMTT(30)
       DEF PairTypes, futex_wake, Woken, EndRound, shared
  <1>2. Turn(i)'
    BY ONLY <1>n, <1>1, <1>i, SMTT(30) DEF PairNumbers, Turn, Wait
  <1>3. Message(i)'
    <2> SUFFICES ASSUME NEW l \in 1 .. Lines PROVE Line(i, l)'
      BY Zenon DEF Message
    <2>1. Line(i, l) /\ Turn(i)
      BY ONLY <1>i, l \in 1 .. Lines, Zenon DEF Message
    <2> QED BY ONLY <1>n, <1>1, <2>1, l \in 1 .. Lines, SMTT(30)
            DEF PairNumbers, Turn, Line, Wait
  <1>4. Words(i)'
    <2>1. Posted(c)' = Posted(c) /\ Posted(s)' = Posted(s)
      BY ONLY <1>n, <1>1, <1>i, PostedIs, i \in Pairs DEF PairNumbers, Turn, Wait
    <2> QED BY ONLY <1>1, <1>i, <2>1, Zenon DEF Words, AsU32
  <1>5. Sleepers(c)' /\ Sleepers(s)'
    BY ONLY <1>p, <1>1, <1>i, SMTT(30) DEF Sleepers, AsU32, Wait
  <1> QED BY <1>2, <1>3, <1>4, <1>5, Zenon DEF PairInv

LEMMA ClientReads ==
    ASSUME TypeInv, NEW i \in Pairs, PairInv(i), payload_read(Client(i))
    PROVE  PairInv(i)'
  <1> DEFINE c == Client(i)
             s == Server(i)
  <1>t. PairTypes(i)
    BY PairTyped, Zenon
  <1>p. Peer(c) = s /\ Peer(s) = c
    BY ONLY <1>t, Zenon DEF PairTypes
  <1>i. Turn(i) /\ Message(i) /\ Words(i) /\ Sleepers(c) /\ Sleepers(s)
    BY Zenon DEF PairInv
  <1>n. PairNumbers(i)
    BY PairTyped, Zenon
  <1>1. /\ pc[c] = "read" /\ pc'[s] = pc[s] /\ round'[s] = round[s] /\ off'[s] = off[s]
        /\ UNCHANGED <<cur, word, payload>>
        /\ \/ off'[c] = 0 /\ pc'[c] = "write" /\ round'[c] = round[c] + 1
           \/ pc'[c] = "read" /\ round'[c] = round[c]
    BY ONLY <1>t, payload_read(c), SMTT(30)
       DEF PairTypes, payload_read, Walk, Goto, EndRound
  <1>2. Turn(i)'
    BY ONLY <1>n, <1>1, <1>i, SMTT(30) DEF PairNumbers, Turn, Wait
  <1>3. Message(i)'
    <2> SUFFICES ASSUME NEW l \in 1 .. Lines PROVE Line(i, l)'
      BY Zenon DEF Message
    <2>1. Line(i, l) /\ Turn(i)
      BY ONLY <1>i, l \in 1 .. Lines, Zenon DEF Message
    <2> QED BY ONLY <1>n, <1>1, <2>1, l \in 1 .. Lines, SMTT(30)
            DEF PairNumbers, Turn, Line, Wait
  <1>4. Words(i)'
    <2>1. Posted(c)' = Posted(c) /\ Posted(s)' = Posted(s)
      BY ONLY <1>n, <1>1, <1>i, PostedIs, i \in Pairs DEF PairNumbers, Turn, Wait
    <2> QED BY ONLY <1>1, <1>i, <2>1, SMTT(30) DEF Words, AsU32
  <1>5. Sleepers(c)' /\ Sleepers(s)'
    BY ONLY <1>p, <1>1, <1>i, SMTT(30) DEF Sleepers, AsU32, Wait
  <1> QED BY <1>2, <1>3, <1>4, <1>5, Zenon DEF PairInv

LEMMA ServerReads ==
    ASSUME TypeInv, NEW i \in Pairs, PairInv(i), payload_read(Server(i))
    PROVE  PairInv(i)'
  <1> DEFINE c == Client(i)
             s == Server(i)
  <1>t. PairTypes(i)
    BY PairTyped, Zenon
  <1>p. Peer(c) = s /\ Peer(s) = c
    BY ONLY <1>t, Zenon DEF PairTypes
  <1>i. Turn(i) /\ Message(i) /\ Words(i) /\ Sleepers(c) /\ Sleepers(s)
    BY Zenon DEF PairInv
  <1>n. PairNumbers(i)
    BY PairTyped, Zenon
  <1>1. /\ pc[s] = "read" /\ pc'[c] = pc[c] /\ off'[c] = off[c]
        /\ UNCHANGED <<round, cur, word, payload>>
        /\ \/ off'[s] = 0 /\ pc'[s] = "write"
           \/ pc'[s] = "read"
    BY ONLY <1>t, payload_read(s), SMTT(30)
       DEF PairTypes, payload_read, Walk, Goto
  <1>2. Turn(i)'
    BY ONLY <1>n, <1>1, <1>i, SMTT(30) DEF PairNumbers, Turn, Wait
  <1>3. Message(i)'
    <2> SUFFICES ASSUME NEW l \in 1 .. Lines PROVE Line(i, l)'
      BY Zenon DEF Message
    <2>1. Line(i, l) /\ Turn(i)
      BY ONLY <1>i, l \in 1 .. Lines, Zenon DEF Message
    <2> QED BY ONLY <1>n, <1>1, <2>1, l \in 1 .. Lines, SMTT(30)
            DEF PairNumbers, Turn, Line, Wait
  <1>4. Words(i)'
    <2>1. Posted(c)' = Posted(c) /\ Posted(s)' = Posted(s)
      BY ONLY <1>n, <1>1, <1>i, PostedIs, i \in Pairs, Zenon DEF PairNumbers, Turn, Wait
    <2> QED BY ONLY <1>1, <1>i, <2>1, SMTT(30) DEF Words, AsU32
  <1>5. Sleepers(c)' /\ Sleepers(s)'
    BY ONLY <1>p, <1>1, <1>i, SMTT(30) DEF Sleepers, AsU32, Wait
  <1> QED BY <1>2, <1>3, <1>4, <1>5, Zenon DEF PairInv

\* A worker touches its own pair only.
LEMMA OtherPairs ==
    ASSUME TypeInv, NEW w \in Workers, WorkerStep(w) \/ SpuriousWakeup(w),
           NEW i \in Pairs, i # w[2]
    PROVE  PairSame(i)
  <1>t. /\ Client(i) \in Workers /\ Server(i) \in Workers /\ w[2] \in Pairs
        /\ w # Client(i) /\ w # Server(i)
        /\ Peer(w) # Client(i) /\ Peer(w) # Server(i)
    BY WorkerFacts
  <1>y. /\ pc \in [Workers -> Steps] /\ round \in [Workers -> 1 .. Total + 1]
        /\ off \in [Workers -> 0 .. Lines - 1]
        /\ cur \in [Workers -> 0 .. WordModulus - 1]
        /\ word \in [Workers -> 0 .. WordModulus - 1]
        /\ payload \in [Pairs -> [1 .. Lines -> Int]]
    BY Zenon DEF TypeInv, TypeOK, Steps
  <1>1. CASE payload_write(w) \/ Store(w)
    BY ONLY <1>t, <1>y, <1>1, i \in Pairs, i # w[2], SMTT(30)
       DEF payload_write, Store, Walk, Goto, PairSame
  <1>2. CASE futex_wake(w)
    BY ONLY <1>t, <1>y, <1>2, i \in Pairs, i # w[2], SMTT(30)
       DEF futex_wake, Woken, EndRound, shared, PairSame
  <1>3. CASE Load(w) \/ FutexWait(w) \/ SpuriousWakeup(w)
    BY ONLY <1>t, <1>y, <1>3, i \in Pairs, i # w[2], SMTT(30)
       DEF Load, FutexWait, SpuriousWakeup, Goto, shared, PairSame
  <1>4. CASE payload_read(w)
    BY ONLY <1>t, <1>y, <1>4, i \in Pairs, i # w[2], SMTT(30)
       DEF payload_read, Walk, Goto, EndRound, PairSame
  <1> QED BY <1>1, <1>2, <1>3, <1>4, Zenon DEF WorkerStep

LEMMA OwnPair ==
    ASSUME TypeInv, NEW i \in Pairs, PairInv(i),
           NEW w \in {Client(i), Server(i)}, WorkerStep(w) \/ SpuriousWakeup(w)
    PROVE  PairInv(i)'
  <1>1. CASE w = Client(i)
    BY <1>1, ClientWaits, ClientWrites, ClientStores, ClientWakes, ClientReads, Zenon
       DEF WorkerStep
  <1>2. CASE w = Server(i)
    BY <1>2, ServerWaits, ServerWrites, ServerStores, ServerWakes, ServerReads, Zenon
       DEF WorkerStep
  <1> QED BY <1>1, <1>2, Zenon

LEMMA PairInit == Init => \A i \in Pairs : PairInv(i)
  <1> SUFFICES ASSUME Init, NEW i \in Pairs PROVE PairInv(i)
    OBVIOUS
  <1>1. /\ pc[Client(i)] = "write" /\ pc[Server(i)] = "load"
        /\ round[Client(i)] = 1 /\ round[Server(i)] = 1
        /\ off[Client(i)] = 0 /\ off[Server(i)] = 0
        /\ word[Client(i)] = 0 /\ word[Server(i)] = 0
    BY WorkerFacts, Zenon DEF Init, Start
  <1>2. Words(i)
    BY <1>1, PostedIs, WordAssumption DEF Words, AsU32
  <1> QED BY <1>1, <1>2 DEF PairInv, Turn, Message, Line, Sleepers, Wait

LEMMA PairStep ==
    ASSUME TypeInv, \A i \in Pairs : PairInv(i), [Next]_vars
    PROVE  \A i \in Pairs : PairInv(i)'
  <1> SUFFICES ASSUME NEW i \in Pairs PROVE PairInv(i)'
    OBVIOUS
  <1>0. PairInv(i)
    OBVIOUS
  <1>1. CASE \E w \in Workers : WorkerStep(w) \/ SpuriousWakeup(w)
    <2>1. PICK w \in Workers : WorkerStep(w) \/ SpuriousWakeup(w)
      BY <1>1, Zenon
    <2>2. CASE w[2] = i
      BY <1>0, <2>1, <2>2, WorkerFacts, OwnPair
    <2>3. CASE w[2] # i
      BY <1>0, <2>1, <2>3, OtherPairs, PairFrame, Zenon
    <2> QED BY <2>2, <2>3, Zenon
  <1>2. CASE (MainStep \/ Fault \/ \E p \in Procs : ChildStep(p)) \/ UNCHANGED vars
    <2>1. UNCHANGED <<locals, shared>>
      BY ONLY <1>2, TypeInv, OutsideStep, Zenon DEF vars
    <2>2. PairSame(i)
      BY ONLY <2>1, Zenon DEF locals, shared, PairSame
    <2> QED BY <1>0, <2>2, PairFrame, Zenon
  <1> QED BY <1>1, <1>2, Zenon DEF Next

LEMMA Inductive == Spec => []IInv
  <1>1. Init => IInv
    BY TypeInit, PairInit, Zenon DEF IInv
  <1>2. IInv /\ [Next]_vars => IInv'
    BY TypeStep, PairStep, Zenon DEF IInv
  <1> QED BY <1>1, <1>2, PTL DEF Spec

-----------------------------------------------------------------------------
(* What follows from the invariant.                                         *)

\* The buffer belongs to one worker at a time, whatever the length of the run
\* and of the words: what a worker has still to read is its peer's message for
\* this round (run_server, run_client, payload_read).
THEOREM BufferIsIntact == Spec => []PayloadIntact
  <1>1. IInv => PayloadIntact
    <2> SUFFICES ASSUME IInv, NEW w \in Workers, pc[w] = "read",
                        NEW l \in off[w] + 1 .. Lines
                 PROVE  payload[w[2]][l] = Stamp(Peer(w), round[w])
      BY Zenon DEF PayloadIntact
    <2>1. PICK i \in Pairs : w = Client(i) \/ w = Server(i)
      BY WorkerFacts, Zenon
    <2>2. l \in 1 .. Lines
      BY Bounds, SMTT(30) DEF IInv, TypeInv, TypeOK
    <2>3. Turn(i) /\ Line(i, l)
      BY <2>2, Zenon DEF IInv, PairInv, Message
    <2>4. CASE w = Client(i)
      BY <2>3, <2>4, WorkerFacts, SMTT(30) DEF Line, Stamp
    <2>5. CASE w = Server(i)
      <3>1. round[Client(i)] = round[w] /\ payload[i][l] = round[w]
        BY <2>3, <2>5, SMTT(30) DEF Turn, Line, Wait
      <3> QED BY <2>5, <3>1, WorkerFacts, SMTT(30) DEF Stamp
    <2> QED BY <2>1, <2>4, <2>5, Zenon
  <1> QED BY <1>1, Inductive, PTL

\* No wakeup is lost, also when the words wrap: a worker sleeps on the word it
\* wants only while its peer is on the way to FUTEX_WAKE (futex_wait_until).
THEOREM NoWakeupLost == Spec => []NoLostWakeup
  <1>1. IInv => NoLostWakeup
    BY WorkerFacts DEF IInv, PairInv, Sleepers, NoLostWakeup
  <1> QED BY <1>1, Inductive, PTL

\* What a worker's step does to the counts of its pair.
SameCounts(i) ==
    /\ Posted(Client(i))' = Posted(Client(i)) /\ Posted(Server(i))' = Posted(Server(i))
    /\ round'[Client(i)] - 1 = round[Client(i)] - 1

OneSent(i) ==
    /\ round[Client(i)] - 1 = Posted(Client(i)) /\ Posted(Client(i)) < Total
    /\ Posted(Client(i))' = Posted(Client(i)) + 1
    /\ Posted(Server(i))' = Posted(Server(i))
    /\ round'[Client(i)] - 1 = round[Client(i)] - 1

OneAnswered(i) ==
    /\ Posted(Server(i)) < Posted(Client(i))
    /\ Posted(Client(i))' = Posted(Client(i))
    /\ Posted(Server(i))' = Posted(Server(i)) + 1
    /\ round'[Client(i)] - 1 = round[Client(i)] - 1

OneReceived(i) ==
    /\ round[Client(i)] - 1 < Posted(Server(i))
    /\ Posted(Client(i))' = Posted(Client(i)) /\ Posted(Server(i))' = Posted(Server(i))
    /\ round'[Client(i)] - 1 = (round[Client(i)] - 1) + 1

LEMMA Counts ==
    ASSUME TypeInv, NEW i \in Pairs, PairInv(i),
           NEW w \in {Client(i), Server(i)}, WorkerStep(w) \/ SpuriousWakeup(w)
    PROVE  SameCounts(i) \/ OneSent(i) \/ OneAnswered(i) \/ OneReceived(i)
  <1> DEFINE c == Client(i)
             s == Server(i)
  <1>t. PairTypes(i) /\ w \in {c, s}
    BY PairTyped, Zenon
  <1>n. /\ round[c] \in Nat /\ round[s] \in Nat /\ Total \in Nat /\ c # s
    BY ONLY <1>t, Bounds, SMTT(30) DEF PairTypes
  <1>q. /\ Posted(c) = IF pc[c] \in {"write", "store"} THEN round[c] - 1 ELSE round[c]
        /\ Posted(s) = IF pc[s] = "wake" THEN round[s] ELSE round[s] - 1
        /\ Posted(c)' = IF pc'[c] \in {"write", "store"} THEN round'[c] - 1 ELSE round'[c]
        /\ Posted(s)' = IF pc'[s] = "wake" THEN round'[s] ELSE round'[s] - 1
    BY PostedIs, Zenon
  <1>i. Turn(i) /\ (life[c] = "running" => round[c] <= Total)
    <2>1. Turn(i)
      BY Zenon DEF PairInv
    <2>2. c \in Workers
      BY ONLY <1>t, Zenon DEF PairTypes
    <2>3. life[c] = "running" => round[c] <= Total
      BY <2>2, Zenon DEF TypeInv, InRange
    <2> QED BY ONLY <2>1, <2>3, Zenon
  <1>1. CASE payload_write(w)
    <2>1. /\ round' = round /\ pc[w] = "write" /\ pc'[w] \in {"write", "store"}
          /\ \A v \in {c, s} : v # w => pc'[v] = pc[v]
      BY ONLY <1>t, <1>1, SMTT(30) DEF PairTypes, payload_write, Walk, Goto
    <2>2. /\ pc'[c] \in {"write", "store"} <=> pc[c] \in {"write", "store"}
          /\ pc'[s] = "wake" <=> pc[s] = "wake"
      BY ONLY <1>t, <2>1, Zenon
    <2>3. SameCounts(i)
      BY ONLY <1>q, <2>1, <2>2, Zenon DEF SameCounts
    <2> QED BY ONLY <2>3, Zenon
  <1>2. CASE Store(w)
    <2>1. /\ round' = round /\ pc[w] = "store" /\ pc'[w] = "wake" /\ life[w] = "running"
          /\ \A v \in {c, s} : v # w => pc'[v] = pc[v]
      BY ONLY <1>t, <1>2, SMTT(30) DEF PairTypes, Store, Goto, Running
    <2>2. CASE w = c
      <3>1. /\ Posted(c) = round[c] - 1 /\ Posted(c)' = round[c]
            /\ Posted(s)' = Posted(s) /\ round[c] <= Total
        BY ONLY <1>n, <1>q, <1>i, <2>1, <2>2, Zenon
      <3>2. OneSent(i)
        BY ONLY <1>n, <2>1, <3>1 DEF OneSent
      <3> QED BY ONLY <3>2, SMTT(30)
    <2>3. CASE w = s
      <3>1. /\ pc[c] \in Wait \cup {"wake"} /\ round[c] = round[s]
        BY ONLY <1>t, <1>i, <2>1, <2>3, Zenon DEF Turn, Wait
      <3>2. /\ Posted(s) = round[s] - 1 /\ Posted(s)' = round[s]
            /\ Posted(c)' = Posted(c)
        BY ONLY <1>n, <1>q, <2>1, <2>3, Zenon
      <3>3. Posted(c) = round[c]
        BY ONLY <1>q, <3>1, Zenon DEF Wait
      <3>4. OneAnswered(i)
        BY ONLY <1>n, <2>1, <3>1, <3>2, <3>3 DEF OneAnswered
      <3> QED BY ONLY <3>4, SMTT(30)
    <2> QED BY ONLY <1>t, <2>2, <2>3, Zenon
  <1>3. CASE futex_wake(w)
    <2>1. /\ pc[w] = "wake" /\ pc'[w] = "load"
          /\ w = c => round' = round
          /\ w = s => round'[s] = round[s] + 1 /\ round'[c] = round[c]
          /\ \A v \in {c, s} : v # w => pc'[v] = IF pc[v] = "asleep" THEN "load" ELSE pc[v]
      BY ONLY <1>t, <1>3, SMTT(30) DEF PairTypes, futex_wake, Woken, EndRound
    <2>2. CASE w = c
      <3>1. /\ pc'[c] \in {"write", "store"} <=> pc[c] \in {"write", "store"}
            /\ pc'[s] = "wake" <=> pc[s] = "wake"
        BY ONLY <1>n, <2>1, <2>2, Zenon
      <3>2. SameCounts(i)
        BY ONLY <1>q, <2>1, <2>2, <3>1, Zenon DEF SameCounts
      <3> QED BY ONLY <3>2, Zenon
    <2>3. CASE w = s
      <3>1. pc'[c] \in {"write", "store"} <=> pc[c] \in {"write", "store"}
        BY ONLY <1>n, <2>1, <2>3, Zenon
      <3>2. Posted(c)' = Posted(c)
        BY ONLY <1>q, <2>1, <2>3, <3>1
      <3>3. Posted(s) = round[s] /\ Posted(s)' = (round[s] + 1) - 1
        BY ONLY <1>q, <2>1, <2>3, Zenon
      <3>4. SameCounts(i)
        BY ONLY <1>n, <2>1, <2>3, <3>2, <3>3 DEF SameCounts
      <3> QED BY ONLY <3>4, Zenon
    <2> QED BY ONLY <1>t, <2>2, <2>3, Zenon
  <1>4. CASE Load(w) \/ FutexWait(w) \/ SpuriousWakeup(w)
    <2>1. /\ round' = round /\ pc[w] \in Wait /\ pc'[w] \in Wait \cup {"read"}
          /\ \A v \in {c, s} : v # w => pc'[v] = pc[v]
      BY ONLY <1>t, <1>4, SMTT(30) DEF PairTypes, Load, FutexWait, SpuriousWakeup, Goto, Wait
    <2>2. /\ pc'[c] \in {"write", "store"} <=> pc[c] \in {"write", "store"}
          /\ pc'[s] = "wake" <=> pc[s] = "wake"
      BY ONLY <1>t, <2>1, SMTT(30) DEF Wait
    <2>3. SameCounts(i)
      BY ONLY <1>q, <2>1, <2>2, Zenon DEF SameCounts
    <2> QED BY ONLY <2>3, Zenon
  <1>5. CASE payload_read(w)
    <2>1. /\ pc[w] = "read"
          /\ \/ pc'[w] = "read" /\ round' = round
             \/ pc'[w] = "write" /\ IF w = c THEN round'[c] = round[c] + 1 /\ round'[s] = round[s]
                                              ELSE round' = round
          /\ \A v \in {c, s} : v # w => pc'[v] = pc[v]
      BY ONLY <1>t, <1>5, SMTT(30) DEF PairTypes, payload_read, Walk, Goto, EndRound
    <2>2. CASE round' = round /\ (w = s \/ pc'[w] = "read")
      <3>1. /\ pc'[c] \in {"write", "store"} <=> pc[c] \in {"write", "store"}
            /\ pc'[s] = "wake" <=> pc[s] = "wake"
        BY ONLY <1>t, <1>n, <2>1, <2>2, Zenon
      <3>2. SameCounts(i)
        BY ONLY <1>q, <2>2, <3>1, Zenon DEF SameCounts
      <3> QED BY ONLY <3>2, Zenon
    <2>3. CASE /\ w = c /\ pc'[c] = "write"
               /\ round'[c] = round[c] + 1 /\ round'[s] = round[s]
      <3>1. pc[c] = "read" /\ pc'[s] = pc[s]
        BY ONLY <1>n, <2>1, <2>3, SMTT(30)
      <3>2. round[c] - 1 < Posted(s)
        BY ONLY <1>n, <1>q, <1>i, <3>1 DEF Turn, Wait
      <3>3. /\ Posted(c) = round[c] /\ Posted(c)' = (round[c] + 1) - 1
            /\ Posted(s)' = Posted(s)
        BY ONLY <1>q, <2>3, <3>1, Zenon
      <3>4. OneReceived(i)
        BY ONLY <1>n, <2>3, <3>2, <3>3, SMTT(30) DEF OneReceived
      <3> QED BY ONLY <3>4, Zenon
    <2>4. CASE w = c
      BY ONLY <2>1, <2>2, <2>3, <2>4, SMTT(30)
    <2>5. CASE w = s
      BY ONLY <1>n, <2>1, <2>2, <2>5, Zenon
    <2> QED BY ONLY <1>t, <2>4, <2>5, Zenon
  <1> QED BY <1>1, <1>2, <1>3, <1>4, <1>5, Zenon DEF WorkerStep

\* Every step of the processes is a step of the round trips of one pair, or none.
LEMMA MapsToStep ==
    ASSUME IInv, [Next]_vars
    PROVE  [RT!Next]_(RT!vars)
  <1> DEFINE Sent == [i \in Pairs |-> Posted(Client(i))]
             Answered == [i \in Pairs |-> Posted(Server(i))]
             Received == [i \in Pairs |-> round[Client(i)] - 1]
             SentN == [i \in Pairs |-> Posted(Client(i))']
             AnsweredN == [i \in Pairs |-> Posted(Server(i))']
             ReceivedN == [i \in Pairs |-> round'[Client(i)] - 1]
             Same(i) == /\ SentN[i] = Sent[i] /\ AnsweredN[i] = Answered[i]
                        /\ ReceivedN[i] = Received[i]
  <1>u. SentN = Sent /\ AnsweredN = Answered /\ ReceivedN = Received => UNCHANGED RT!vars
    BY ONLY DEF RT!vars
  <1>s. ASSUME NEW j \in Pairs, Received[j] = Sent[j], Sent[j] < Total,
               SentN = [Sent EXCEPT ![j] = Sent[j] + 1],
               AnsweredN = Answered, ReceivedN = Received
        PROVE  RT!Next
    <2>1. RT!Send(j)
      BY ONLY <1>s, Zenon DEF RT!Send
    <2> QED BY ONLY <2>1, j \in Pairs, Zenon DEF RT!Next
  <1>a. ASSUME NEW j \in Pairs, Answered[j] < Sent[j],
               AnsweredN = [Answered EXCEPT ![j] = Answered[j] + 1],
               SentN = Sent, ReceivedN = Received
        PROVE  RT!Next
    <2>1. RT!Answer(j)
      BY ONLY <1>a, Zenon DEF RT!Answer
    <2> QED BY ONLY <2>1, j \in Pairs, SMTT(30) DEF RT!Next
  <1>r. ASSUME NEW j \in Pairs, Received[j] < Answered[j],
               ReceivedN = [Received EXCEPT ![j] = Received[j] + 1],
               SentN = Sent, AnsweredN = Answered
        PROVE  RT!Next
    <2>1. RT!Receive(j)
      BY ONLY <1>r, Zenon DEF RT!Receive
    <2> QED BY ONLY <2>1, j \in Pairs, SMTT(30) DEF RT!Next
  <1>v. \A i \in Pairs :
            /\ Sent[i] = Posted(Client(i)) /\ SentN[i] = Posted(Client(i))'
            /\ Answered[i] = Posted(Server(i)) /\ AnsweredN[i] = Posted(Server(i))'
            /\ Received[i] = round[Client(i)] - 1 /\ ReceivedN[i] = round'[Client(i)] - 1
    BY ONLY TRUE, Zenon
  <1>d. /\ Sent = [i \in Pairs |-> Sent[i]] /\ SentN = [i \in Pairs |-> SentN[i]]
        /\ Answered = [i \in Pairs |-> Answered[i]] /\ AnsweredN = [i \in Pairs |-> AnsweredN[i]]
        /\ Received = [i \in Pairs |-> Received[i]] /\ ReceivedN = [i \in Pairs |-> ReceivedN[i]]
    BY ONLY TRUE, Zenon
  <1> HIDE DEF Sent, Answered, Received, SentN, AnsweredN, ReceivedN
  <1>1. ASSUME NEW i \in Pairs, PairSame(i) PROVE Same(i)
    <2>1. /\ pc'[Client(i)] = pc[Client(i)] /\ round'[Client(i)] = round[Client(i)]
          /\ pc'[Server(i)] = pc[Server(i)] /\ round'[Server(i)] = round[Server(i)]
      BY ONLY <1>1, SMTT(30) DEF PairSame
    <2>2. Posted(Client(i))' = Posted(Client(i)) /\ Posted(Server(i))' = Posted(Server(i))
      BY ONLY <2>1, PostedIs, i \in Pairs, Zenon
    <2> QED BY ONLY <1>v, <2>1, <2>2, i \in Pairs, Zenon
  <1>2. ASSUME \A i \in Pairs : Same(i)
        PROVE  UNCHANGED RT!vars
    <2>1. SentN = Sent /\ AnsweredN = Answered /\ ReceivedN = Received
      BY ONLY <1>2, <1>d, Zenon
    <2> QED BY ONLY <1>u, <2>1, Zenon
  <1>3. CASE (MainStep \/ Fault \/ \E p \in Procs : ChildStep(p)) \/ UNCHANGED vars
    <2>1. UNCHANGED <<locals, shared>>
      BY ONLY <1>3, IInv, OutsideStep, Zenon DEF vars, IInv
    <2>2. \A i \in Pairs : PairSame(i)
      BY ONLY <2>1, Zenon DEF locals, shared, PairSame
    <2>3. \A i \in Pairs : Same(i)
      BY ONLY <1>1, <2>2, Zenon
    <2> QED BY ONLY <1>2, <2>3, Zenon
  <1>4. CASE \E w \in Workers : WorkerStep(w) \/ SpuriousWakeup(w)
    <2>1. PICK w \in Workers : WorkerStep(w) \/ SpuriousWakeup(w)
      BY ONLY <1>4, Zenon
    <2>2. PICK j \in Pairs : w \in {Client(j), Server(j)} /\ w[2] = j
      BY WorkerFacts
    <2>i. TypeInv /\ PairInv(j)
      BY <2>2, Zenon DEF IInv
    <2>3. \A i \in Pairs : i # j => Same(i)
      <3>1. \A i \in Pairs : i # j => PairSame(i)
        BY <2>1, <2>2, <2>i, OtherPairs, Zenon
      <3> QED BY ONLY <1>1, <3>1, Zenon
    <2>4. SameCounts(j) \/ OneSent(j) \/ OneAnswered(j) \/ OneReceived(j)
      BY ONLY <2>1, <2>2, <2>i, Counts, Zenon
    <2>5. CASE SameCounts(j)
      <3>1. Same(j)
        BY ONLY <1>v, <2>5, j \in Pairs, Zenon DEF SameCounts
      <3>2. \A i \in Pairs : Same(i)
        BY ONLY <2>3, <3>1, Zenon
      <3> QED BY ONLY <1>2, <3>2, Zenon
    <2>6. CASE OneSent(j)
      <3>1. /\ Received[j] = Sent[j] /\ Sent[j] < Total /\ SentN[j] = Sent[j] + 1
            /\ AnsweredN[j] = Answered[j] /\ ReceivedN[j] = Received[j]
        BY ONLY <1>v, <2>6, j \in Pairs, Zenon DEF OneSent
      <3>2. /\ SentN = [Sent EXCEPT ![j] = Sent[j] + 1]
            /\ AnsweredN = Answered /\ ReceivedN = Received
        BY ONLY <1>d, <2>3, <3>1, j \in Pairs, Zenon
      <3> QED BY ONLY <1>s, <3>1, <3>2, j \in Pairs, Zenon
    <2>7. CASE OneAnswered(j)
      <3>1. /\ Answered[j] < Sent[j] /\ AnsweredN[j] = Answered[j] + 1
            /\ SentN[j] = Sent[j] /\ ReceivedN[j] = Received[j]
        BY ONLY <1>v, <2>7, j \in Pairs, Zenon DEF OneAnswered
      <3>2. /\ AnsweredN = [Answered EXCEPT ![j] = Answered[j] + 1]
            /\ SentN = Sent /\ ReceivedN = Received
        BY ONLY <1>d, <2>3, <3>1, j \in Pairs, Zenon
      <3> QED BY ONLY <1>a, <3>1, <3>2, j \in Pairs, Zenon
    <2>8. CASE OneReceived(j)
      <3>1. /\ Received[j] < Answered[j] /\ ReceivedN[j] = Received[j] + 1
            /\ SentN[j] = Sent[j] /\ AnsweredN[j] = Answered[j]
        BY ONLY <1>v, <2>8, j \in Pairs, Zenon DEF OneReceived
      <3>2. /\ ReceivedN = [Received EXCEPT ![j] = Received[j] + 1]
            /\ SentN = Sent /\ AnsweredN = Answered
        BY ONLY <1>d, <2>3, <3>1, j \in Pairs, Zenon
      <3> QED BY ONLY <1>r, <3>1, <3>2, j \in Pairs, Zenon
    <2> QED BY <2>4, <2>5, <2>6, <2>7, <2>8, Zenon
  <1> QED BY <1>3, <1>4, Zenon DEF Next

\* The futex words, the buffer and the processes around them implement
\* synchronous round trips, however many pairs and rounds there are, however
\* narrow the words and whatever process is killed (run_server, run_client).
THEOREM ImplementsRoundTrips == Spec => RoundTripsSpec
  <1>1. Init => RT!Init
    <2> SUFFICES ASSUME Init PROVE RT!Init
      OBVIOUS
    <2>1. \A i \in Pairs : /\ Posted(Client(i)) = 0 /\ Posted(Server(i)) = 0
                           /\ round[Client(i)] - 1 = 0
      BY WorkerFacts DEF Init, Start, Posted
    <2> QED BY <2>1, Zenon DEF RT!Init
  <1>2. IInv /\ [Next]_vars => [RT!Next]_(RT!vars)
    BY MapsToStep, Zenon
  <1> QED BY <1>1, <1>2, Inductive, PTL DEF Spec, RoundTripsSpec, RT!Spec

-----------------------------------------------------------------------------
(* The results.                                                             *)

INSTANCE FiniteSetTheorems

\* The samples of the measured rounds below n.
SamplesBelow(n) == {k \in 0 .. Iters - 1 : k % sample_stride = 0 /\ k < n}

\* A pair has the samples of the rounds it has finished.
Sampling == \A i \in Pairs : samples[i] = SamplesBelow(round[Client(i)] - Warmup - 1)

\* A worker exits by itself after its last round only, unless its parent is gone.
Finished(w) == life[w] = "exited" /\ round[w] = Total + 1
ExitsFinished == ~ParentGone => \A w \in Workers : life[w] = "exited" => Finished(w)

\* A worker that was waited for is gone; if main saw no failure, it has finished.
WaitedFor(k) ==
    /\ life[SpawnOrder[k]] \in {"exited", "killed"}
    /\ ~failed => life[SpawnOrder[k]] = "exited"
Waiting ==
    /\ main = "wait" => NrSpinners <= at /\ \A k \in NrSpinners + 1 .. at : WaitedFor(k)
    /\ main = "kill" => \A k \in NrSpinners + 1 .. NrProcs : WaitedFor(k)
    /\ main = "done" => \A w \in Workers : Finished(w)

ResultInv == TypeInv /\ Sampling /\ ExitsFinished /\ Waiting

\* The stride leaves room for a sample of every round it picks.
LEMMA Stride ==
    /\ sample_stride \in Nat /\ 1 <= sample_stride
    /\ Iters <= sample_stride * MaxSamples
    /\ Iters \in Nat /\ 1 <= Iters /\ MaxSamples \in Nat /\ 1 <= MaxSamples
  <1> DEFINE n == Iters + MaxSamples - 1
             q == n \div MaxSamples
  <1>1. Iters \in Nat /\ 1 <= Iters /\ MaxSamples \in Nat /\ 1 <= MaxSamples
    BY OptsAssumption
  <1>2. q \in Int /\ MaxSamples * q <= n /\ n < MaxSamples * q + MaxSamples
    BY <1>1
  <1> HIDE DEF q
  <1>3. Iters - 1 < MaxSamples * q
    BY <1>1, <1>2
  <1>4. 1 <= q
    BY <1>1, <1>2, <1>3
  <1> QED BY <1>1, <1>2, <1>3, <1>4 DEF q, sample_stride

\* Below the n-th multiple of the stride there are at most n samples.
LEMMA FewSamples ==
    ASSUME NEW n \in Nat, NEW m \in Int, m <= sample_stride * n
    PROVE  /\ IsFiniteSet(SamplesBelow(m))
           /\ Cardinality(SamplesBelow(m)) \in Nat /\ Cardinality(SamplesBelow(m)) <= n
  <1> DEFINE S == SamplesBelow(m)
             f == [k \in S |-> k \div sample_stride]
  <1>1. ASSUME NEW k \in S
        PROVE  /\ k \div sample_stride \in 0 .. n - 1
               /\ k = sample_stride * (k \div sample_stride)
    <2> DEFINE q == k \div sample_stride
    <2>1. k \in Nat /\ k < m /\ k % sample_stride = 0
      BY Stride DEF SamplesBelow
    <2>2. q \in Int /\ k = sample_stride * q + (k % sample_stride)
      BY <2>1, Stride
    <2> HIDE DEF q
    <2>3. k = sample_stride * q
      BY <2>1, <2>2, Stride
    <2>4. 0 <= q
      BY <2>1, <2>2, <2>3, Stride
    <2>5. q < n
      BY <2>1, <2>2, <2>3, Stride
    <2> QED BY <2>2, <2>3, <2>4, <2>5 DEF q
  <1>2. f \in Injection(S, 0 .. n - 1)
    <2>1. f \in [S -> 0 .. n - 1]
      BY <1>1, Zenon
    <2>2. ASSUME NEW a \in S, NEW b \in S, f[a] = f[b]
          PROVE  a = b
      BY <1>1, <2>2, Zenon
    <2> HIDE DEF f
    <2> QED BY <2>1, <2>2, Zenon DEF Injection, IsInjective
  <1>3. IsFiniteSet(0 .. n - 1) /\ Cardinality(0 .. n - 1) = n
    <2>1. 0 \in Int /\ n - 1 \in Int
      OBVIOUS
    <2>2. /\ IsFiniteSet(0 .. n - 1)
          /\ Cardinality(0 .. n - 1) = IF 0 > n - 1 THEN 0 ELSE (n - 1) - 0 + 1
      BY ONLY <2>1, FS_Interval, Zenon
    <2> QED BY ONLY <2>2, n \in Nat
  <1>4. IsFiniteSet(S) /\ Cardinality(S) <= Cardinality(0 .. n - 1)
    BY <1>2, <1>3, FS_Injection
  <1>5. Cardinality(S) \in Nat
    BY <1>4, FS_CardinalityType, Zenon
  <1> QED BY <1>3, <1>4, <1>5, Zenon

\* The next sample fits.
LEMMA NextSample ==
    ASSUME NEW k \in Int, k < Iters
    PROVE  /\ k >= 0 /\ k % sample_stride = 0 =>
                /\ SamplesBelow(k + 1) = SamplesBelow(k) \cup {k}
                /\ Cardinality(SamplesBelow(k)) < MaxSamples
           /\ ~(k >= 0 /\ k % sample_stride = 0) => SamplesBelow(k + 1) = SamplesBelow(k)
  <1>1. ASSUME k >= 0, k % sample_stride = 0
        PROVE  SamplesBelow(k + 1) = SamplesBelow(k) \cup {k}
    BY <1>1, Stride DEF SamplesBelow
  <1>2. ASSUME ~(k >= 0 /\ k % sample_stride = 0)
        PROVE  SamplesBelow(k + 1) = SamplesBelow(k)
    BY <1>2, Stride DEF SamplesBelow
  <1>3. ASSUME k >= 0, k % sample_stride = 0
        PROVE  Cardinality(SamplesBelow(k)) < MaxSamples
    <2> DEFINE q == k \div sample_stride
    <2>1. q \in Int /\ k = sample_stride * q + (k % sample_stride)
      BY Stride
    <2> HIDE DEF q
    <2>2. k = sample_stride * q
      BY <1>3, <2>1, Stride
    <2>3. 0 <= q
      BY <1>3, <2>1, <2>2, Stride, SMTT(30)
    <2>4. q < MaxSamples
      BY <1>3, <2>1, <2>2, Stride, SMTT(30)
    <2>5. Cardinality(SamplesBelow(k)) \in Nat /\ Cardinality(SamplesBelow(k)) <= q
      BY <2>1, <2>2, <2>3, FewSamples
    <2> QED BY <2>1, <2>4, <2>5, Stride
  <1> QED BY <1>1, <1>2, <1>3, Zenon

\* Which steps of a worker end a round, and what that does to the samples.
LEMMA RoundOrNot ==
    ASSUME TypeInv, NEW w \in Workers, WorkerStep(w) \/ SpuriousWakeup(w)
    PROVE  \/ UNCHANGED <<round, life, samples>>
           \/ w[1] = "server" /\ EndRound(w) /\ UNCHANGED samples
           \/ w[1] = "client" /\ EndRound(w) /\ samples' = Sampled(w)
  BY Zenon DEF WorkerStep, SpuriousWakeup, payload_write, Store, futex_wake, Load, FutexWait,
         payload_read, shared

LEMMA SamplingStep ==
    ASSUME TypeInv, Sampling, [Next]_vars
    PROVE  Sampling'
  <1>1. CASE UNCHANGED <<round, samples>>
    BY <1>1, Zenon DEF Sampling
  <1>2. CASE MainStep \/ Fault \/ (\E p \in Procs : ChildStep(p)) \/ UNCHANGED vars
    <2>1. UNCHANGED <<round, samples>>
      BY <1>2, OutsideStep, Zenon DEF locals, shared, vars
    <2> QED BY <1>1, <2>1, Zenon
  <1>3. ASSUME NEW w \in Workers, WorkerStep(w) \/ SpuriousWakeup(w)
        PROVE  Sampling'
    <2>0. /\ round \in [Workers -> 1 .. Total + 1] /\ samples \in [Pairs -> SUBSET (0 .. Iters - 1)]
          /\ InRange(w)
      BY Zenon DEF TypeInv, TypeOK
    <2>1. PICK j \in Pairs : w = Client(j) \/ w = Server(j)
      BY WorkerFacts, SMTT(30)
    <2>2. CASE w[1] = "server" /\ EndRound(w) /\ UNCHANGED samples
      <3>1. \A i \in Pairs : round'[Client(i)] = round[Client(i)]
        BY <2>0, <2>2, WorkerFacts, SMTT(30) DEF EndRound
      <3> QED BY <2>2, <3>1, SMTT(30) DEF Sampling
    <2>3. CASE w[1] = "client" /\ EndRound(w) /\ samples' = Sampled(w)
      <3> DEFINE k == round[w] - Warmup - 1
      <3>1. w = Client(j) /\ w[2] = j
        BY <2>1, <2>3, WorkerFacts, SMTT(30)
      <3>2. /\ round'[w] = round[w] + 1
            /\ \A i \in Pairs : i # j => round'[Client(i)] = round[Client(i)]
        BY <2>0, <2>3, <3>1, WorkerFacts, SMTT(30) DEF EndRound
      <3>3. round[w] <= Total
        <4>1. life[w] = "running"
          BY <1>3, <2>3, SMTT(30) DEF WorkerStep, SpuriousWakeup, payload_write, Store, futex_wake, Load,
                            FutexWait, payload_read, Running
        <4> QED BY <2>0, <4>1, SMTT(30) DEF InRange
      <3>4. k \in Int /\ k < Iters /\ round'[w] - Warmup - 1 = k + 1
        BY <2>0, <3>2, <3>3, Bounds, SMTT(30)
      <3>5. samples[j] = SamplesBelow(k)
        BY <3>1, SMTT(30) DEF Sampling
      <3>6. samples' = IF k >= 0 /\ k % sample_stride = 0 /\ Cardinality(samples[j]) < MaxSamples
                       THEN [samples EXCEPT ![j] = @ \cup {k}] ELSE samples
        BY <2>3, <3>1, SMTT(30) DEF Sampled
      <3> HIDE DEF k
      <3>7. samples'[j] = SamplesBelow(k + 1)
        BY ONLY <2>0, <3>4, <3>5, <3>6, NextSample, j \in Pairs, SMTT(30)
      <3>8. \A i \in Pairs : i # j => samples'[i] = samples[i]
        BY ONLY <2>0, <3>6, SMTT(30)
      <3> QED BY <3>1, <3>2, <3>4, <3>7, <3>8, SMTT(30) DEF Sampling
    <2> QED BY <1>1, <1>3, <2>2, <2>3, RoundOrNot, SMTT(30)
  <1> QED BY <1>2, <1>3, Zenon DEF Next

\* The workers are spawned after the spinners.
LEMMA WorkerPlaces ==
    /\ \A k \in NrSpinners + 1 .. NrProcs : SpawnOrder[k] \in Workers
    /\ \A w \in Workers : \E k \in NrSpinners + 1 .. NrProcs : SpawnOrder[k] = w
    /\ \A k \in 1 .. NrSpinners : SpawnOrder[k] \in Procs /\ SpawnOrder[k] \notin Workers
  <1>0. NrSpinners \in Nat /\ NrPairs \in Nat /\ NrProcs = NrSpinners + 2 * NrPairs
    BY OptsAssumption, Zenon DEF NrProcs
  <1>1. ASSUME NEW k \in NrSpinners + 1 .. NrProcs
        PROVE  SpawnOrder[k] \in Workers
    <2> DEFINE n == k - NrSpinners
    <2>1. (n + 1) \div 2 \in 1 .. NrPairs /\ k \in 1 .. NrProcs /\ ~(n <= 0)
      BY <1>0
    <2>2. SpawnOrder[k] = <<IF n % 2 = 1 THEN "server" ELSE "client", (n + 1) \div 2>>
      BY <2>1, Zenon DEF SpawnOrder
    <2> QED BY <2>1, <2>2 DEF Workers, Pairs
  <1>2. ASSUME NEW i \in Pairs
        PROVE  /\ NrSpinners + 2 * i - 1 \in NrSpinners + 1 .. NrProcs
               /\ NrSpinners + 2 * i \in NrSpinners + 1 .. NrProcs
               /\ SpawnOrder[NrSpinners + 2 * i - 1] = Server(i)
               /\ SpawnOrder[NrSpinners + 2 * i] = Client(i)
    <2>0. i \in Nat /\ 1 <= i /\ i <= NrPairs
      BY <1>0 DEF Pairs
    <2>1. NrSpinners + 2 * i - 1 \in 1 .. NrProcs /\ NrSpinners + 2 * i \in 1 .. NrProcs
      BY <1>0, <2>0
    <2>2. /\ (2 * i - 1) % 2 = 1 /\ (2 * i - 1 + 1) \div 2 = i
          /\ (2 * i) % 2 = 0 /\ (2 * i + 1) \div 2 = i
      BY <2>0
    <2>3. SpawnOrder[NrSpinners + 2 * i - 1] = Server(i)
      <3> DEFINE k == NrSpinners + 2 * i - 1
      <3>1. k - NrSpinners = 2 * i - 1 /\ ~(2 * i - 1 <= 0)
        BY <1>0, <2>0, SMTT(30)
      <3>2. SpawnOrder[k] = <<IF (2 * i - 1) % 2 = 1 THEN "server" ELSE "client",
                              (2 * i - 1 + 1) \div 2>>
        BY <2>1, <3>1, Zenon DEF SpawnOrder
      <3> QED BY <2>2, <3>2, Zenon DEF Server
    <2>4. SpawnOrder[NrSpinners + 2 * i] = Client(i)
      <3> DEFINE k == NrSpinners + 2 * i
      <3>1. k - NrSpinners = 2 * i /\ ~(2 * i <= 0)
        BY <1>0, <2>0, SMTT(30)
      <3>2. SpawnOrder[k] = <<IF (2 * i) % 2 = 1 THEN "server" ELSE "client",
                              (2 * i + 1) \div 2>>
        BY <2>1, <3>1, Zenon DEF SpawnOrder
      <3> QED BY <2>2, <3>2 DEF Client
    <2> QED BY <1>0, <2>0, <2>3, <2>4, SMTT(30)
  <1>3. ASSUME NEW k \in 1 .. NrSpinners
        PROVE  SpawnOrder[k] \in Procs /\ SpawnOrder[k] \notin Workers
    <2>1. SpawnOrder[k] = <<"spinner", k>>
      BY <1>0, <1>3, SMTT(30) DEF SpawnOrder
    <2> QED BY <2>1 DEF Procs, Spinners, Workers
  <1> QED BY <1>1, <1>2, <1>3, WorkerFacts, SMTT(30)

\* A worker that is gone stays as it was.
LEMMA GoneForGood ==
    ASSUME TypeInv, [Next]_vars, NEW v \in Workers, life[v] \in {"exited", "killed"}
    PROVE  life'[v] = life[v] /\ round'[v] = round[v]
  <1>0. /\ life \in [Procs -> Lives] /\ round \in [Workers -> 1 .. Total + 1] /\ v \in Procs
        /\ at \in 0 .. NrProcs
    BY Zenon DEF TypeInv, TypeOK, Lives, Procs
  <1>1. CASE \E w \in Workers : WorkerStep(w) \/ SpuriousWakeup(w)
    <2>1. PICK w \in Workers : WorkerStep(w) \/ SpuriousWakeup(w)
      BY <1>1, SMTT(30)
    <2>2. v # w
      BY <2>1, SMTT(30) DEF WorkerStep, SpuriousWakeup, payload_write, Store, futex_wake, Load, FutexWait,
                  payload_read, Running
    <2>3. UNCHANGED <<round, life>> \/ EndRound(w)
      BY <2>1, RoundOrNot, SMTT(30)
    <2> QED BY <1>0, <2>2, <2>3, Zenon DEF EndRound
  <1>2. CASE MainStep \/ Fault \/ \E p \in Procs : ChildStep(p)
    <2>0. round' = round
      BY <1>2, OutsideStep, SMTT(30) DEF locals
    <2>1. CASE Spawn
      <3>1. at + 1 \in 1 .. NrProcs /\ life[SpawnOrder[at + 1]] = "none"
        BY <1>0, <2>1, Bounds, SMTT(30) DEF Spawn, TypeInv
      <3>2. SpawnOrder[at + 1] # v
        BY <3>1, Zenon
      <3> QED BY <1>0, <2>0, <2>1, <3>2, SMTT(30) DEF Spawn
    <2>2. CASE KillSpinner
      <3>1. SpawnOrder[at + 1] # v
        BY <1>0, <2>2, WorkerPlaces, Bounds, SMTT(30) DEF KillSpinner
      <3> QED BY <1>0, <2>0, <2>2, <3>1, SMTT(30) DEF KillSpinner
    <2>3. CASE WaitWorker \/ Report \/ SpawnFails \/ KillParent
      BY <1>0, <2>0, <2>3, SMTT(30) DEF WaitWorker, Report, SpawnFails, KillParent, Ends
    <2>4. CASE \E p \in Procs : ChildStep(p) \/ KillChild(p)
      BY <1>0, <2>0, <2>4, SMTT(30) DEF ChildStep, SetPdeathsig, CheckParent, KillChild
    <2> QED BY <1>2, <2>1, <2>2, <2>3, <2>4, SMTT(30) DEF MainStep, Fault
  <1>3. CASE UNCHANGED vars
    BY <1>3, Zenon DEF vars, locals
  <1> QED BY <1>1, <1>2, <1>3, SMTT(30) DEF Next

LEMMA ExitsStep ==
    ASSUME ParentPid # 1, TypeInv, ExitsFinished, [Next]_vars
    PROVE  ExitsFinished'
  <1> SUFFICES ASSUME ~ParentGone', NEW v \in Workers, life'[v] = "exited"
               PROVE  round'[v] = Total + 1
    BY SMTT(30) DEF ExitsFinished, Finished
  <1>0. /\ life \in [Procs -> Lives] /\ round \in [Workers -> 1 .. Total + 1] /\ v \in Procs
    BY Zenon DEF TypeInv, TypeOK, Lives, Procs
  <1>g. ~ParentGone
    BY ZenonT(60) DEF ParentGone, Next, MainStep, Spawn, WaitWorker, KillSpinner, Report, Fault, SpawnFails,
           KillParent, KillChild, ChildStep, SetPdeathsig, CheckParent, WorkerStep,
           SpuriousWakeup, payload_write, Store, futex_wake, Load, FutexWait, payload_read,
           Ends, parent, vars
  <1>1. CASE life[v] = "exited"
    BY <1>g, <1>1, GoneForGood, SMTT(30) DEF ExitsFinished, Finished
  <1>2. CASE life[v] # "exited"
    <2>1. CASE \E w \in Workers : WorkerStep(w) \/ SpuriousWakeup(w)
      <3>1. PICK w \in Workers : WorkerStep(w) \/ SpuriousWakeup(w)
        BY <2>1, SMTT(30)
      <3>2. EndRound(w)
        BY <1>2, <3>1, RoundOrNot, SMTT(30)
      <3>3. w = v /\ round[w] = Total
        BY <1>0, <1>2, <3>2, SMTT(30) DEF EndRound
      <3> QED BY <1>0, <3>2, <3>3, Bounds, SMTT(30) DEF EndRound
    <2>2. CASE \E p \in Procs : ChildStep(p)
      BY <1>0, <1>2, <1>g, <2>2, SMTT(30) DEF ChildStep, SetPdeathsig, CheckParent
    <2>3. CASE MainStep \/ Fault \/ UNCHANGED vars
      BY <1>0, <1>2, <2>3, SMTT(30) DEF MainStep, Fault, Spawn, WaitWorker, KillSpinner, Report, SpawnFails,
                              KillParent, KillChild, Ends, vars
    <2> QED BY <2>1, <2>2, <2>3, SMTT(30) DEF Next
  <1> QED BY <1>1, <1>2, SMTT(30)

LEMMA WaitingStep ==
    ASSUME TypeInv, ExitsFinished, Waiting, [Next]_vars
    PROVE  Waiting'
  <1>0. /\ at \in 0 .. NrProcs /\ failed \in BOOLEAN
        /\ main \in {"wait", "spawn"} => at < NrProcs
    BY SMTT(30) DEF TypeInv, TypeOK
  \* Who was waited for before the step was waited for after it.
  <1>w. ASSUME NEW k \in NrSpinners + 1 .. NrProcs, WaitedFor(k), failed' = failed
        PROVE  WaitedFor(k)'
    <2>1. SpawnOrder[k] \in Workers
      BY WorkerPlaces, Zenon
    <2> QED BY <1>w, <2>1, GoneForGood, SMTT(30) DEF WaitedFor
  <1>f. ASSUME \A w \in Workers : Finished(w)
        PROVE  \A w \in Workers : Finished(w)'
    BY <1>f, GoneForGood, SMTT(30) DEF Finished
  <1>1. CASE UNCHANGED parent
    <2>1. main' = main /\ at' = at /\ failed' = failed
      BY <1>1, Zenon DEF parent
    <2>2. \A k \in NrSpinners + 1 .. at : k \in NrSpinners + 1 .. NrProcs
      BY <1>0, Bounds, SMTT(30)
    <2> QED BY <1>w, <1>f, <2>1, <2>2, SMTT(30) DEF Waiting
  <1>2. CASE Spawn
    BY <1>2, Bounds, SMTT(30) DEF Spawn, Waiting
  <1>3. CASE WaitWorker
    <2>0. PICK n \in Nat : n = at + 1
      BY <1>0, SMTT(30)
    <2>1. n \in NrSpinners + 1 .. NrProcs /\ \A k \in NrSpinners + 1 .. at : WaitedFor(k)
      BY <1>0, <1>3, <2>0, Bounds, SMTT(30) DEF WaitWorker, Waiting
    <2>2. /\ life' = life /\ life[SpawnOrder[n]] \in {"exited", "killed"}
          /\ failed' = (failed \/ life[SpawnOrder[n]] = "killed")
      BY <1>3, <2>0, SMTT(30) DEF WaitWorker
    <2>3. WaitedFor(n)'
      BY <2>2, Zenon DEF WaitedFor
    <2>4. \A k \in NrSpinners + 1 .. at : WaitedFor(k)'
      BY <2>1, <2>2, Zenon DEF WaitedFor
    <2>5. \A k \in NrSpinners + 1 .. n : k = n \/ k \in NrSpinners + 1 .. at
      BY <1>0, <2>0, Bounds
    <2>6. \A k \in NrSpinners + 1 .. n : WaitedFor(k)'
      BY <2>3, <2>4, <2>5, SMTT(30)
    <2>7. CASE n = NrProcs /\ main' = "kill"
      BY <2>6, <2>7, SMTT(30) DEF Waiting
    <2>8. CASE main' = "wait" /\ at' = n
      BY <2>1, <2>6, <2>8, Bounds, SMTT(30) DEF Waiting
    <2> QED BY <1>3, <2>0, <2>7, <2>8, SMTT(30) DEF WaitWorker
  <1>4. CASE KillSpinner
    <2>1. main = "kill" /\ main' = "kill" /\ failed' = failed
      BY <1>4, Zenon DEF KillSpinner
    <2> QED BY <1>w, <2>1, Zenon DEF Waiting
  <1>5. CASE Report
    <2>1. main = "kill" /\ main' = IF failed THEN "failed" ELSE "done"
      BY <1>5, Zenon DEF Report, Ends
    <2>2. CASE ~failed
      <3>1. \A w \in Workers : life[w] = "exited"
        BY <2>1, <2>2, WorkerPlaces, SMTT(30) DEF Waiting, WaitedFor
      <3>2. \A w \in Workers : Finished(w)
        BY <2>1, <3>1, SMTT(30) DEF ExitsFinished, ParentGone
      <3> QED BY <1>f, <2>1, <2>2, <3>2, SMTT(30) DEF Waiting
    <2> QED BY <2>1, <2>2, Zenon DEF Waiting
  <1>6. CASE SpawnFails \/ KillParent
    BY <1>6, Zenon DEF SpawnFails, KillParent, Ends, Waiting
  <1>7. CASE (\E p \in Procs : ChildStep(p) \/ KillChild(p)) \/ UNCHANGED vars
             \/ \E w \in Workers : WorkerStep(w) \/ SpuriousWakeup(w)
    BY <1>1, <1>7, ZenonT(60)
       DEF ChildStep, SetPdeathsig, CheckParent, KillChild, WorkerStep, SpuriousWakeup,
           payload_write, Store, futex_wake, Load, FutexWait, payload_read, vars
  <1> QED BY <1>2, <1>3, <1>4, <1>5, <1>6, <1>7, SMTT(30) DEF Next, MainStep, Fault

\* What the parent reports is complete: every pair has made all its round trips
\* and kept an even subsample of them, however many processes there are and
\* whoever is killed, as long as the parent is not process 1 itself, which its
\* children would take for an init that has adopted them (main, spawn).
THEOREM ReportsComplete ==
    ASSUME ParentPid # 1
    PROVE  Spec => []ResultsComplete
  <1>1. Init => ResultInv
    <2> SUFFICES ASSUME Init PROVE ResultInv
      OBVIOUS
    <2>1. Sampling
      <3>1. \A i \in Pairs : samples[i] = {} /\ round[Client(i)] = 1
        BY WorkerFacts, Zenon DEF Init
      <3>2. SamplesBelow(1 - Warmup - 1) = {}
        BY Bounds DEF SamplesBelow
      <3> QED BY <3>1, <3>2, SMTT(30) DEF Sampling
    <2>2. ExitsFinished /\ Waiting
      BY Zenon DEF Init, ExitsFinished, Waiting, Procs
    <2> QED BY <2>1, <2>2, TypeInit, Zenon DEF ResultInv
  <1>2. ResultInv /\ [Next]_vars => ResultInv'
    BY TypeStep, SamplingStep, ExitsStep, WaitingStep, SMTT(30) DEF ResultInv
  <1>3. ResultInv => ResultsComplete
    <2> SUFFICES ASSUME ResultInv, main = "done", NEW i \in Pairs
                 PROVE  /\ round[Client(i)] = Total + 1 /\ round[Server(i)] = Total + 1
                        /\ samples[i] = {k \in 0 .. Iters - 1 : k % sample_stride = 0}
                        /\ Cardinality(samples[i]) \in 1 .. MaxSamples
      BY SMTT(30) DEF ResultsComplete
    <2>1. round[Client(i)] = Total + 1 /\ round[Server(i)] = Total + 1
      BY WorkerFacts, Zenon DEF ResultInv, Waiting, Finished
    <2>2. samples[i] = SamplesBelow(Iters)
      <3>1. round[Client(i)] - Warmup - 1 = Iters
        BY <2>1, Bounds, SMTT(30)
      <3> QED BY <3>1, Zenon DEF ResultInv, Sampling
    <2>3. samples[i] = {k \in 0 .. Iters - 1 : k % sample_stride = 0}
      BY <2>2, Bounds, SMTT(30) DEF SamplesBelow
    <2>4. /\ IsFiniteSet(samples[i]) /\ Cardinality(samples[i]) \in Nat
          /\ Cardinality(samples[i]) <= MaxSamples
      BY <2>2, Stride, FewSamples, SMTT(30)
    <2>5. 0 \in samples[i]
      BY <2>3, Stride, SMTT(30)
    <2>6. Cardinality(samples[i]) # 0
      BY <2>4, <2>5, FS_EmptySet, Zenon
    <2> QED BY <2>1, <2>3, <2>4, <2>6, Stride, SMTT(30)
  <1> QED BY <1>1, <1>2, <1>3, PTL DEF Spec
=============================================================================
