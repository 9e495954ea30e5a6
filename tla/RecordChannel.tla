--------------------------- MODULE RecordChannel ---------------------------
(***************************************************************************)
(* What a stream session of SPTPS promises to its two users, whatever      *)
(* handshakes run underneath: the application records of each direction    *)
(* arrive once each, unaltered and in the order they were sent.            *)
(***************************************************************************)
EXTENDS Integers, Sequences

CONSTANTS
    Peers,     \* the two ends
    Records    \* what can be sent

VARIABLE queue    \* queue[p]: application records on their way to p

Init == queue = [p \in Peers |-> <<>>]

Send(p, d) == queue' = [queue EXCEPT ![p] = Append(@, d)]

Receive(p) ==
    /\ queue[p] # <<>>
    /\ queue' = [queue EXCEPT ![p] = Tail(@)]

Next == \E p \in Peers : Receive(p) \/ \E d \in Records : Send(p, d)

\* Whoever waits for a record that was sent gets it.
Fairness == \A p \in Peers : WF_queue(Receive(p))

Spec == Init /\ [][Next]_queue /\ Fairness
=============================================================================
