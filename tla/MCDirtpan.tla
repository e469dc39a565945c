----------------------------- MODULE MCDirtpan -----------------------------
(***************************************************************************)
(* Instances of Dirtpan for TLC.                                           *)
(***************************************************************************)
EXTENDS Dirtpan, TLC

\* One full frame, and three.
FullFrames == {113, 339}
\* One full frame, and three of which the last has one byte.
LastShort == {113, 227}

\* Enough packets for a sequence bit to come round after one was given up.
OneWay == (Peer1 :> 3) @@ (Peer2 :> 0)
\* Both sides send, and keep each other from sending.
BothWays == (Peer1 :> 2) @@ (Peer2 :> 1)
=============================================================================
