-------------------------------- MODULE HostMac --------------------------------
(***************************************************************************)
(* The host's side of the HardMAC: atusb_rx_mode(), atusb_rx() and         *)
(* atusb_tx(), and the programs that use them, atrf-txrx -H and            *)
(* atrf-txrx -H -R.                                                        *)
(* What the device has to say comes as messages on EP1, in packets, and    *)
(* only a short packet tells where one ends: a received frame between its  *)
(* length and its LQI, the answer to a frame that was sent, 0, or the      *)
(* serial number of an interrupt, 128 or more, if it occurred before the   *)
(* HardMAC was on.  The host reads one message at a time and has to guess  *)
(* which kind it is.                                                       *)
(*                                                                         *)
(* External: the device, which modules HardMac and FramePipe are about.    *)
(***************************************************************************)
EXTENDS Naturals, Sequences, UsbEndpoint

CONSTANTS
    Pending,    \* bound: messages the device has for the host
    Messages    \* bound: messages in all

ASSUME HostMacAssumption == Pending \in Nat /\ Messages \in Nat

VARIABLES
    ep1_queue,  \* what the device will send on EP1, the first one partly sent
    answers,    \* answers it still owes
    messages,   \* for the bound
    task,       \* the program: "receive", "transmit", "rtt_slave" or "none"
    task_at,    \* where it is
    running,    \* run
    usb_error,  \* dsc->error
    data,       \* what a bulk transfer has read so far
    returned,   \* of atusb_rx()
    unsynced    \* history: no message has been read since one was cut short
hostMacVars == <<ep1_queue, answers, messages, task, task_at, running, usb_error, data, returned,
                 unsynced>>
deviceSide == <<ep1_queue, answers, messages>>
taskVars == <<task, running>>

Message(what, len) == [what |-> what, len |-> len, sent |-> 0]

\* Lengths of a PSDU.  With PHR and LQI: a short packet; one that is full, and so an
\* empty one after it; two that are full, and an empty one; the longest.
PSDU == 127
Sizes == {5, EP_SIZE - 2, PSDU - 1, PSDU}

NoData == [n |-> 0, whole |-> FALSE, what |-> "none"]
NoResult == [len |-> 0, whole |-> FALSE, unsynced |-> FALSE]

HostMacInit ==
    /\ ep1_queue = <<>> /\ answers = 0 /\ messages = 0
    /\ task = "none" /\ task_at = "exit" /\ running = FALSE /\ usb_error = FALSE
    /\ data = NoData /\ returned = NoResult /\ unsynced = FALSE
-----------------------------------------------------------------------------
(* The device                                                              *)

Says(m) ==
    /\ Len(ep1_queue) < Pending /\ messages < Messages
    /\ ep1_queue' = Append(ep1_queue, m)
    /\ messages' = messages + 1
    /\ UNCHANGED <<taskVars, task_at, usb_error, data, returned, unsynced>>

FrameReceived == (\E s \in Sizes : Says(Message("frame", s + 2))) /\ UNCHANGED answers
Serial == Says(Message("serial", 1)) /\ UNCHANGED answers
Answer == answers > 0 /\ answers' = answers - 1 /\ Says(Message("answer", 1))

\* A bus reset breaks off the message and the host's transfers.
DeviceReset ==
    /\ ep1_queue # <<>>
    /\ ep1_queue' = Tail(ep1_queue)
    /\ usb_error' = (usb_error \/ task # "none")
    /\ UNCHANGED <<answers, messages, taskVars, task_at, data, returned, unsynced>>
-----------------------------------------------------------------------------
(* The program                                                             *)

StartTask(which) ==
    /\ task = "none"
    /\ task' = which /\ running' = TRUE /\ task_at' = "rx_mode_on"
    /\ usb_error' = FALSE /\ data' = NoData /\ returned' = NoResult
    /\ UNCHANGED <<deviceSide, unsynced>>

\* atusb_rx_mode(), which may fail
SetRxMode ==
    /\ task_at \in {"rx_mode_on", "rx_mode_off"}
    /\ usb_error' \in {usb_error, TRUE}
    /\ IF task_at = "rx_mode_off" THEN task' = "none" /\ task_at' = "exit"
       ELSE task_at' = (IF task = "transmit" THEN "tx" ELSE "rx") /\ UNCHANGED task
    /\ UNCHANGED <<deviceSide, running, data, returned, unsynced>>

\* How much the host is ready to read: one byte for the answer, and for a frame its
\* PHR, the PSDU and the LQI, in one read.  The mutant forgets the LQI.
ReadSize_NoLqiMutant == IF task_at = "ack" THEN 1 ELSE PSDU + 1
ReadSize == IF task_at = "ack" THEN 1 ELSE PSDU + 2

\* The first byte, which atusb_rx() takes for the length of a frame.  In the middle
\* of a message, or if nothing has been read, it can be anything, of which these matter.
Invalid == PSDU + 1
AnyByte == {0, 1, 2, PSDU, Invalid}
FirstByte(d) ==
    IF ~d.whole \/ d.n = 0 THEN AnyByte
    ELSE IF d.what = "frame" THEN {d.n - 2} ELSE IF d.what = "answer" THEN {0} ELSE {Invalid}

\* What atusb_rx() returns: 0 if the length is invalid, or too big for what was read.
Length(len, res) == IF len = Invalid \/ len > res + 2 THEN 0 ELSE len

\* Where the program goes on
AfterRx == IF task = "receive" THEN "rx_mode_off" ELSE "tx"
AfterAck == IF task = "rtt_slave" /\ running THEN "rx" ELSE "rx_mode_off"

EndRead(d) ==
    /\ IF task_at = "ack" THEN task_at' = AfterAck /\ UNCHANGED returned
       ELSE /\ task_at' = AfterRx
            /\ \E len \in FirstByte(d) :
                  returned' = [len |-> Length(len, d.n), unsynced |-> unsynced,
                               whole |-> d.whole /\ d.what = "frame"]
    /\ data' = NoData /\ unsynced' = FALSE

\* The transfer fails, and so does one on a device that has been reset.
FailRead ==
    /\ usb_error' = TRUE
    /\ task_at' = IF task_at = "ack" THEN AfterAck ELSE AfterRx
    /\ returned' = NoResult /\ data' = NoData /\ unsynced' = TRUE

\* One packet.  A short one, or a full buffer, ends the transfer; one that the
\* buffer has no room for is an error.
Packet ==
    /\ task_at \in {"rx", "ack"} /\ ep1_queue # <<>>
    /\ LET m == Head(ep1_queue)
           left == m.len - m.sent
           n == IF left > EP_SIZE THEN EP_SIZE ELSE left
           d == [n |-> data.n + n, what |-> m.what,
                 whole |-> m.sent = data.n /\ (data.n = 0 \/ data.whole)]
           ends == n < EP_SIZE
       IN  /\ ep1_queue' = IF ends THEN Tail(ep1_queue)
                           ELSE [ep1_queue EXCEPT ![1].sent = @ + n]
           /\ \/ d.n > ReadSize /\ FailRead
              \/ /\ d.n <= ReadSize /\ (ends \/ d.n = ReadSize)
                 /\ EndRead([d EXCEPT !.whole = @ /\ m.sent + n = m.len])
                 /\ UNCHANGED usb_error
              \/ /\ d.n < ReadSize /\ ~ends
                 /\ data' = d /\ UNCHANGED <<task_at, usb_error, returned, unsynced>>
    /\ UNCHANGED <<answers, messages, taskVars>>

ReadFails ==
    /\ task_at \in {"rx", "ack"} /\ usb_error
    /\ FailRead
    /\ UNCHANGED <<deviceSide, taskVars>>

\* atusb_tx(): not after an error; if the request fails, it waits for an answer all
\* the same.  rtt_slave_hmac() sends what it has received, less the CRC: if that
\* is less than nothing, the request fails.
AtusbTx ==
    /\ task_at = "tx"
    /\ IF usb_error THEN task_at' = AfterAck /\ UNCHANGED <<answers, usb_error>>
       ELSE /\ task_at' = "ack"
            /\ \/ /\ task = "transmit" \/ returned.len >= 2
                  /\ answers' \in {answers, answers + 1} /\ answers' <= Pending
                  /\ UNCHANGED usb_error
               \/ usb_error' = TRUE /\ UNCHANGED answers
    /\ UNCHANGED <<ep1_queue, messages, taskVars, data, returned, unsynced>>

\* Ctrl-C stops rtt_slave_hmac(); the program may also be killed.
StopTask ==
    /\ running /\ task = "rtt_slave"
    /\ running' = FALSE
    /\ UNCHANGED <<deviceSide, task, task_at, usb_error, data, returned, unsynced>>
KillTask ==
    /\ task # "none"
    /\ task' = "none" /\ task_at' = "exit" /\ running' = FALSE
    /\ data' = NoData /\ returned' = NoResult /\ unsynced' = TRUE
    /\ UNCHANGED <<deviceSide, usb_error>>

HostMacNext ==
    \/ FrameReceived \/ Serial \/ Answer \/ DeviceReset
    \/ \E which \in {"receive", "transmit", "rtt_slave"} : StartTask(which)
    \/ SetRxMode \/ Packet \/ ReadFails \/ AtusbTx \/ StopTask \/ KillTask

HostMacSpec == HostMacInit /\ [][HostMacNext]_hostMacVars
-----------------------------------------------------------------------------
(* Properties                                                              *)

\* What atusb_rx() returns as a frame is one that was received, as a whole, though
\* answers and serial numbers come in between, and atusb_tx() takes the wrong
\* messages for its answer: until there is an error, and but for the first read after
\* one, or of a program whose predecessor was killed, which may get the rest of a
\* message.
RxWhole ==
    returned.len > 0 /\ ~usb_error /\ ~returned.unsynced => returned.whole
=============================================================================
