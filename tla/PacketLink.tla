----------------------------- MODULE PacketLink -----------------------------
(***************************************************************************)
(* What dirtpan promises the IP stacks on both sides of one direction of   *)
(* its link: a packet may be lost, but one that arrives is a packet that   *)
(* was sent, whole, and not older than the last one that arrived.  Only a  *)
(* packet that fits into one frame may arrive more than once.              *)
(***************************************************************************)
EXTENDS Naturals, Sequences

CONSTANTS Content, Repeatable(_)
VARIABLES sent, arrived
vars == <<sent, arrived>>

Init == sent = <<>> /\ arrived = <<>>

Send ==
    /\ \E c \in Content : sent' = Append(sent, c)
    /\ UNCHANGED arrived

\* "arrived" holds positions in "sent".
Last == IF arrived = <<>> THEN 0 ELSE arrived[Len(arrived)]

Arrive ==
    /\ \E i \in 1..Len(sent) :
           /\ i > Last \/ (i = Last /\ Repeatable(sent[i]))
           /\ arrived' = Append(arrived, i)
    /\ UNCHANGED sent

Next == Send \/ Arrive

Spec == Init /\ [][Next]_vars
=============================================================================
