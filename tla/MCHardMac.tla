------------------------------ MODULE MCHardMac ------------------------------
(***************************************************************************)
(* Instances of HardMac for TLC.  A run bounds how often each event        *)
(* happens; Sizes holds a frame of one packet, one of 62 + 2 bytes, which  *)
(* fills a packet exactly and needs an empty one to end the transfer;      *)
(* MCRejectedSizes has one of two packets with data in both, so that parts *)
(* of two frames could mix, and a PHR that receive_frame() rejects.        *)
(***************************************************************************)
EXTENDS HardMac

MCSizes == {5, 62}
MCRejectedSizes == {100, 200}

Only(frame, tx, irq, rx_mode, rf_reset, bus_reset) ==
    [e \in Events |-> CASE e = "frame" -> frame
                        [] e = "tx" -> tx
                        [] e = "irq" -> irq
                        [] e = "rx_mode" -> rx_mode
                        [] e = "rf_reset" -> rf_reset
                        [] e = "bus_reset" -> bus_reset]

\* Everything that can happen.
Everything == Only(4, 1, 1, 2, 1, 1)
\* The receiver is switched on once; receptions, transmissions, bus resets.
Transfer == Only(5, 2, 0, 1, 0, 1)
\* ... and no bus reset.
NoReset == Only(4, 2, 0, 1, 0, 0)
\* One transmission, and interrupts that are not TRX_END.
Irqs == Only(1, 1, 2, 1, 0, 0)
=============================================================================
