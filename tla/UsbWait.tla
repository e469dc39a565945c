-------------------------------- MODULE UsbWait --------------------------------
(***************************************************************************)
(* usbwait waits until a USB device is there, or with -r until it has gone *)
(* and come back: make update has a device restart, and needs to know when *)
(* its boot loader is up.  It looks at the list libusb keeps of the        *)
(* devices (lib/usbopen.c), which is as old as the last scan, and then     *)
(* tries to open the device, which may have gone since.                    *)
(*                                                                         *)
(* External: the bus, and libusb.  A device is known by its number, which  *)
(* is new each time it is plugged in; libusb has a struct usb_device for   *)
(* it, which it frees when a scan finds the device gone.                   *)
(***************************************************************************)
EXTENDS Naturals, FiniteSets

CONSTANTS
    PORTS,
    POINTERS,   \* addresses of a struct usb_device
    PLUGS       \* bound: how many times a device is plugged in

ASSUME UsbWaitAssumption ==
    PLUGS \in Nat /\ IsFiniteSet(POINTERS) /\ Cardinality(POINTERS) >= 2 * Cardinality(PORTS)

VARIABLES
    bus,            \* what is plugged in at each port
    plugs,          \* devices plugged in so far
    dev_list,       \* libusb's list
    restricted_path,
    need_removal,
    usbwait_args,   \* -p, and whether there is -t
    wait_at         \* where the program is
usbWaitVars == <<bus, plugs, dev_list, restricted_path, need_removal, usbwait_args, wait_at>>

Empty == [num |-> 0, match |-> FALSE]
Device(num, match) == [num |-> num, match |-> match]
Present == {bus[p] : p \in PORTS} \ {Empty}
NULL == "NULL"
Nowhere == "anywhere"

\* "match" is whether vendor and product are those asked for.
UsbWaitInit ==
    /\ \E there \in SUBSET PORTS, m \in [PORTS -> BOOLEAN], n \in [PORTS -> 1..Cardinality(PORTS)] :
          /\ \A p, q \in PORTS : p # q => n[p] # n[q]
          /\ bus = [p \in PORTS |-> IF p \in there THEN Device(n[p], m[p]) ELSE Empty]
    /\ plugs = Cardinality(PORTS)
    /\ dev_list = {} /\ restricted_path = NULL
    /\ need_removal \in BOOLEAN
    /\ usbwait_args \in [path : PORTS \cup {Nowhere}, timeout : BOOLEAN]
    /\ wait_at = "main"

Plug(p) ==
    /\ bus[p] = Empty /\ plugs < PLUGS + Cardinality(PORTS)
    /\ plugs' = plugs + 1
    /\ \E match \in BOOLEAN : bus' = [bus EXCEPT ![p] = Device(plugs', match)]
    /\ UNCHANGED <<dev_list, restricted_path, need_removal, usbwait_args, wait_at>>

Unplug(p) ==
    /\ bus[p] # Empty
    /\ bus' = [bus EXCEPT ![p] = Empty]
    /\ UNCHANGED <<plugs, dev_list, restricted_path, need_removal, usbwait_args, wait_at>>
-----------------------------------------------------------------------------
\* usb_find_devices(): the devices it knows keep their place in memory.
FindDevices ==
    LET kept == {e \in dev_list : e.dev \in Present}
        new == Present \ {e.dev : e \in kept}
        free == POINTERS \ {e.ptr : e \in dev_list}
    IN  \E where \in [new -> free] :
          /\ \A d, e \in new : d # e => where[d] # where[e]
          /\ dev_list' = kept \cup {[dev |-> d, ptr |-> where[d]] : d \in new}

\* main(): restrict_usb_path() turns the path into the device that is there, and
\* exits if there is none.
RestrictPath ==
    /\ wait_at = "main"
    /\ IF usbwait_args.path = Nowhere
         THEN wait_at' = "scan" /\ UNCHANGED <<dev_list, restricted_path>>
         ELSE /\ FindDevices
              /\ \/ /\ bus[usbwait_args.path] = Empty
                    /\ wait_at' = "exit" /\ UNCHANGED restricted_path
                 \/ \E e \in dev_list' :
                       /\ e.dev = bus[usbwait_args.path]
                       /\ restricted_path' = e.ptr /\ wait_at' = "scan"
    /\ UNCHANGED <<bus, plugs, need_removal, usbwait_args>>

\* usb_rescan() and initialize().  The mutant scans once.
Scan_OnceMutant ==
    /\ wait_at = "scan"
    /\ IF dev_list = {} THEN FindDevices ELSE UNCHANGED dev_list
    /\ wait_at' = "open"
    /\ UNCHANGED <<bus, plugs, restricted_path, need_removal, usbwait_args>>

Scan ==
    /\ wait_at = "scan"
    /\ FindDevices
    /\ wait_at' = "open"
    /\ UNCHANGED <<bus, plugs, restricted_path, need_removal, usbwait_args>>

\* The loop of open_usb(), which takes the first that fits.
Fits(e) == e.dev.match /\ restricted_path \in {NULL, e.ptr}
CanOpen(e) == e.dev \in Present

OpenUsb ==
    /\ wait_at = "open"
    /\ \/ /\ \E e \in dev_list : Fits(e) /\ CanOpen(e)
          /\ wait_at' = IF need_removal THEN "poll" ELSE "found"
          /\ UNCHANGED need_removal
       \/ /\ \/ \E e \in dev_list : Fits(e) /\ ~CanOpen(e)
             \/ ~\E e \in dev_list : Fits(e)
          /\ need_removal' = FALSE /\ wait_at' = "poll"
    /\ UNCHANGED <<bus, plugs, dev_list, restricted_path, usbwait_args>>

\* The time, and usleep()
NotYet ==
    /\ wait_at = "poll"
    /\ \/ wait_at' = "scan"
       \/ usbwait_args.timeout /\ wait_at' = "exit"
    /\ UNCHANGED <<bus, plugs, dev_list, restricted_path, need_removal, usbwait_args>>

WaitForUsb == RestrictPath \/ Scan \/ OpenUsb \/ NotYet
UsbWaitNext == WaitForUsb \/ \E p \in PORTS : Plug(p) \/ Unplug(p)
UsbWaitFairness == WF_usbWaitVars(WaitForUsb)

UsbWaitSpec == UsbWaitInit /\ [][UsbWaitNext]_usbWaitVars /\ UsbWaitFairness
-----------------------------------------------------------------------------
(* Properties                                                              *)

\* Without a path and a timeout: a device that is there for good is found, however
\* often it and others have come and gone before, if with -r the program has seen
\* it gone.  (One that is away only while the program sleeps has not been gone.)
MatchThere == \E d \in Present : d.match
DeviceFound ==
    usbwait_args = [path |-> Nowhere, timeout |-> FALSE] =>
        (<>[](MatchThere /\ ~need_removal) => <>(wait_at = "found"))
=============================================================================
