------------------------------- MODULE MCDevice -------------------------------
(***************************************************************************)
(* Instances of UsbDevice, HostMac, Timer and Counter for TLC: what the    *)
(* devices tell the programs that ask them.  A behaviour is one of         *)
(* "machine"; the others stay where they begin.                             *)
(***************************************************************************)
EXTENDS UsbDevice, HostMac, Timer, Counter

VARIABLE machine
deviceVars == <<machine, usbVars, hostMacVars, timerVars, counterVars>>

Init == /\ machine \in {"usb", "hostmac", "timer", "counter"}
        /\ UsbInit /\ HostMacInit /\ TimerInit /\ CounterInit
        /\ machine # "usb" => lib = "usb"

Next ==
    \/ machine = "usb" /\ UsbNext /\ UNCHANGED <<machine, hostMacVars, timerVars, counterVars>>
    \/ machine = "hostmac" /\ HostMacNext /\ UNCHANGED <<machine, usbVars, timerVars, counterVars>>
    \/ machine = "timer" /\ TimerNext /\ UNCHANGED <<machine, usbVars, hostMacVars, counterVars>>
    \/ machine = "counter" /\ CounterNext /\ UNCHANGED <<machine, usbVars, hostMacVars, timerVars>>

Spec == Init /\ [][Next]_deviceVars

\* The largest frame, and two whose data stage ends with a packet that is full, or
\* would be but for the PHR and LQI.
FrameLengths == {63, 64, 127}
=============================================================================
