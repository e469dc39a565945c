----------------------------- MODULE FramePipe -----------------------------
(***************************************************************************)
(* What the receive path of the HardMAC promises its host: a pipe of       *)
(* bounded capacity.  A frame the device has accepted is delivered whole,  *)
(* once, and in the order of acceptance; frames that find the pipe full    *)
(* are never accepted.                                                     *)
(***************************************************************************)
EXTENDS Naturals, Sequences

CONSTANTS Capacity, Content
VARIABLES accepted, delivered
vars == <<accepted, delivered>>

Init == accepted = <<>> /\ delivered = <<>>

Accept ==
    /\ Len(accepted) - Len(delivered) < Capacity
    /\ \E c \in Content : accepted' = Append(accepted, c)
    /\ UNCHANGED delivered

Deliver ==
    /\ Len(delivered) < Len(accepted)
    /\ delivered' = Append(delivered, accepted[Len(delivered) + 1])
    /\ UNCHANGED accepted

Next == Accept \/ Deliver

Spec == Init /\ [][Next]_vars
=============================================================================
