----------------------------- MODULE RoundTrips -----------------------------
(***************************************************************************)
(* What a pair of ipc_pingpong promises: Total round trips, one at a time. *)
(* A message is answered after it is sent and received after it is         *)
(* answered, and the next one is sent after the last answer is in.         *)
(***************************************************************************)
EXTENDS Naturals

CONSTANTS Pairs, Total

VARIABLES sent, answered, received

vars == <<sent, answered, received>>

Init ==
    /\ sent = [i \in Pairs |-> 0]
    /\ answered = [i \in Pairs |-> 0]
    /\ received = [i \in Pairs |-> 0]

Send(i) ==
    /\ received[i] = sent[i]
    /\ sent[i] < Total
    /\ sent' = [sent EXCEPT ![i] = @ + 1]
    /\ UNCHANGED <<answered, received>>

Answer(i) ==
    /\ answered[i] < sent[i]
    /\ answered' = [answered EXCEPT ![i] = @ + 1]
    /\ UNCHANGED <<sent, received>>

Receive(i) ==
    /\ received[i] < answered[i]
    /\ received' = [received EXCEPT ![i] = @ + 1]
    /\ UNCHANGED <<sent, answered>>

Next == \E i \in Pairs : Send(i) \/ Answer(i) \/ Receive(i)

Spec == Init /\ [][Next]_vars
=============================================================================
