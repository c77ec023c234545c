------------------------------ MODULE Channels ------------------------------
(* What the tasks of a connection may rely on: a message sent on a stream   *)
(* reaches the task at the other end, whole, once and in order; streams do  *)
(* not affect each other.                                                   *)
EXTENDS Sequences

CONSTANTS End, Stream, Message

VARIABLE transit    \* the messages under way from an end, per stream

Init == transit = [e \in End |-> [s \in Stream |-> <<>>]]

Send(e, s) ==
    LET sent == transit[e][s] IN
    /\ transit'[e][s] \in {Append(sent, m) : m \in Message}
    /\ transit' = [transit EXCEPT ![e][s] = transit'[e][s]]

Receive(e, s) ==
    /\ transit[e][s] # <<>>
    /\ transit' = [transit EXCEPT ![e][s] = Tail(@)]

Next == \E e \in End, s \in Stream : Send(e, s) \/ Receive(e, s)

Spec == Init /\ [][Next]_transit
=============================================================================
