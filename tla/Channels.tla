------------------------------ MODULE Channels ------------------------------
(***************************************************************************)
(* What the partitions of a cluster promise one another: between two of    *)
(* them there is a channel that loses, repeats and reorders nothing.       *)
(***************************************************************************)
EXTENDS Naturals, Sequences

CONSTANTS
    Target,     \* receivers, one channel to each
    Message

VARIABLES
    sent,       \* what was put into a channel
    received    \* what was taken out of it

channels == <<sent, received>>

Init ==
    /\ sent = [t \in Target |-> <<>>]
    /\ received = [t \in Target |-> <<>>]

Send(t) ==
    /\ \E m \in Message : sent' = [sent EXCEPT ![t] = Append(@, m)]
    /\ UNCHANGED received

Receive(t) ==
    /\ received[t] # sent[t]
    /\ received' = [received EXCEPT ![t] = Append(@, sent[t][Len(@) + 1])]
    /\ UNCHANGED sent

Next == \E t \in Target : Send(t) \/ Receive(t)

Spec == Init /\ [][Next]_channels
=============================================================================
