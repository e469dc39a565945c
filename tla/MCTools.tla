------------------------------- MODULE MCTools -------------------------------
(***************************************************************************)
(* Instances of IrqPath, Sweep, TxRx and UsbWait for TLC: programs of the  *)
(* host.  A behaviour is one of "machine"; the others stay where they      *)
(* begin, in one state in which nothing has to happen.                     *)
(***************************************************************************)
EXTENDS IrqPath, Sweep, TxRx, UsbWait

VARIABLE machine
toolsVars == <<machine, irqVars, sweepVars, txrxVars, usbWaitVars>>

\* Nobody has opened the device, and the two stations' programs are over.
IrqIdle == driver = "atusb"
SweepIdle ==
    link = [chip |-> "231", driver |-> "ben"] /\ cont_tx = "both" /\ ~graphical /\ sweeps = 0
TxRxIdle ==
    /\ job = [s \in Stations |-> Job("cont_tx", FALSE, 1)]
    /\ pc = [s \in Stations |-> "over"]
    /\ station = [s \in Stations |-> NewStation(0)]
    /\ radio = [s \in Stations |-> OffRadio]

UsbWaitIdle ==
    /\ bus = [p \in PORTS |-> Empty] /\ plugs = PLUGS
    /\ dev_list = {} /\ restricted_path = NULL /\ need_removal = FALSE
    /\ usbwait_args = [path |-> CHOOSE p \in PORTS : TRUE, timeout |-> FALSE]
    /\ wait_at = "exit"

Init ==
    /\ machine \in {"irq", "sweep", "txrx", "usbwait"}
    /\ IrqInit /\ (machine = "irq" \/ IrqIdle)
    /\ SweepInit /\ (machine = "sweep" \/ SweepIdle)
    /\ IF machine = "txrx" THEN TxRxInit ELSE TxRxIdle
    /\ IF machine = "usbwait" THEN UsbWaitInit ELSE UsbWaitIdle

Next ==
    \/ machine = "irq" /\ IrqNext /\ UNCHANGED <<machine, sweepVars, txrxVars, usbWaitVars>>
    \/ machine = "sweep" /\ SweepNext /\ UNCHANGED <<machine, irqVars, txrxVars, usbWaitVars>>
    \/ machine = "txrx" /\ TxRxNext /\ UNCHANGED <<machine, irqVars, sweepVars, usbWaitVars>>
    \/ machine = "usbwait" /\ UsbWaitNext /\ UNCHANGED <<machine, irqVars, sweepVars, txrxVars>>

Spec == Init /\ [][Next]_toolsVars /\ IrqFairness /\ TxRxFairness /\ UsbWaitFairness
=============================================================================
