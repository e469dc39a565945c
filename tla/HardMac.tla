------------------------------ MODULE HardMac ------------------------------
(***************************************************************************)
(* The HardMAC of the atusb firmware (atusb/fw/mac.c) with the interrupt   *)
(* handlers that drive it: INT0 from the transceiver (board_app.c), the    *)
(* EP1 half of USB_COM and the bus reset of USB_GEN (usb/atu2.c), and the  *)
(* EP0 requests that reach the MAC (ep0.c).  The ATmega32U2 does not nest  *)
(* interrupts and the main loop is empty, so a handler is one atomic step; *)
(* what interleaves are the handlers, the host and the radio.              *)
(*                                                                         *)
(* C functions that other functions call are operators on "mac", the       *)
(* record of the variables they share; handlers are actions.               *)
(*                                                                         *)
(* External, modelled by how the code uses it: the transceiver (trx,       *)
(* irq_status, trx_buf), the INT0 latch, the bank of EP1 (fifo), and the   *)
(* host, which may issue any request at any time.  The transceiver is the  *)
(* AT86RF231 of the atusb board.                                           *)
(***************************************************************************)
EXTENDS UsbEndpoint, Sequences, FiniteSets

CONSTANTS
    RX_BUFS,    \* slots of the receive ring (3 in mac.c)
    Sizes,      \* PHR bytes that frames arrive with, invalid ones included
    HostWaits,  \* TRUE: no ATUSB_TX until the previous one was answered
    Limit       \* how often each kind of event happens in a behaviour

Events == {"frame", "tx", "irq", "rx_mode", "rf_reset", "bus_reset"}

ASSUME HardMacAssumption ==
    /\ RX_BUFS \in Nat \ {0}
    /\ Sizes \subseteq 0..255
    /\ HostWaits \in BOOLEAN
    /\ Limit \in [Events -> Nat]

VARIABLES
    mac,        \* statics of mac.c, irq_serial, eps[1]; see MacType
    mac_irq,    \* TRUE: the handler is installed (mac_irq = handle_irq)
    ep0_tx,     \* eps[0] waits for the data stage of an ATUSB_TX
    int0,       \* INTF0, the latched edge of the interrupt line
    trx,        \* state of the transceiver
    irq_status, \* its IRQ_STATUS register, cleared by reading it
    trx_buf,    \* its frame buffer
    fifo,       \* the bank of EP1: empty, or the packet the host collects
    partial,    \* what the host has of an unfinished transfer
    frames,     \* messages the host has received on EP1, in order: frames ...
    bytes,      \* ... and single bytes
    awaiting,   \* ack_seq of the ATUSB_TX the host waits for, or 0
    completed,  \* history: ack_seqs whose transmission has ended
    count       \* how often each event has happened

device == <<mac, mac_irq, ep0_tx, int0>>
radio  == <<trx, irq_status, trx_buf, completed>>
host   == <<partial, frames, bytes, awaiting>>
vars   == <<device, radio, fifo, host, count>>

-----------------------------------------------------------------------------
Slots == 0..(RX_BUFS - 1)
Frames == [id : Nat, size : 0..255]
NoFrame == [id |-> 0, size |-> 0]

\* What a transfer on EP1 reads from.
RxBuf(slot) == [mem |-> "rx_buf", slot |-> slot]
Byte(name)  == [mem |-> name, slot |-> 0]
Buffers == {RxBuf(i) : i \in Slots}
             \union {Byte(b) : b \in {"this_seq", "queued_seq", "irq_serial"}}

Endpoints == [state : {"EP_IDLE", "EP_TX"}, buf : Buffers, left : Nat,
              callback : {"rx_done", "tx_ack_done", "done"}]
IdleEp1 == Opened("EP_IDLE", Byte("irq_serial"), 0, "done")

NoPacket == <<>>
Packets == [val : Nat, n : 0..EP_SIZE]
Messages == [vals : SUBSET Nat, len : Nat]
NoMessage == [vals |-> {}, len |-> 0]

MacType ==
    [rx_in : Slots, rx_out : Slots, rx_buf : [Slots -> Frames],
     txing : BOOLEAN, queued_tx_ack : BOOLEAN,
     next_seq : Nat, this_seq : Nat, queued_seq : Nat, irq_serial : 0..255,
     ep1 : Endpoints, panicked : BOOLEAN,
     accepted : Seq(Frames)]   \* history: what receive_frame() has stored

-----------------------------------------------------------------------------
(* mac.c: functions on the shared state                                    *)

\* Mutant: the index is not wrapped.
NextBufNoWrap(index) == index + 1
NextBuf(index) == (index + 1) % RX_BUFS

\* usb_io() on EP1; BUG_ON(ep->state) ends in panic(), which never returns.
UsbSend(m, buf, size, callback) ==
    IF EpIdle(m.ep1)
    THEN [m EXCEPT !.ep1 = Opened("EP_TX", buf, size, callback)]
    ELSE [m EXCEPT !.panicked = TRUE]

SendFrame(m) ==
    IF m.rx_in # m.rx_out
    THEN UsbSend(m, RxBuf(m.rx_out), m.rx_buf[m.rx_out].size + 2, "rx_done")
    ELSE m

\* Mutant: a queued answer is never sent.
SendQueuedAckNever(m) == m
SendQueuedAck(m) ==
    LET n == UsbSend(m, Byte("queued_seq"), 1, "tx_ack_done")
    IN  IF ~m.queued_tx_ack \/ m.panicked THEN m
        ELSE IF n.panicked THEN n
        ELSE [n EXCEPT !.queued_tx_ack = FALSE]

UsbNext(m) == SendQueuedAck(SendFrame(m))

TxAckDone(m) == UsbNext(m)

\* Mutants: the slot is not released; the next frame is not sent.
RxDoneKeepsSlot(m) == UsbNext(m)
RxDoneNoNext(m) == [m EXCEPT !.rx_out = NextBuf(@)]
RxDone(m) == UsbNext([m EXCEPT !.rx_out = NextBuf(@)])

StoreFrame(m, frame) ==
    [m EXCEPT !.rx_buf[m.rx_in] = frame,
              !.rx_in = NextBuf(@),
              !.accepted = Append(@, frame)]

ReceiveFrame(m, frame) ==
    IF frame.size \notin 1..127 THEN m
    ELSE IF EpIdle(m.ep1) THEN UsbNext(StoreFrame(m, frame))
    ELSE StoreFrame(m, frame)

\* Mutant: txing stays set, and the next TRX_END is taken for another answer.
AnswerTxAgain(m) ==
    IF EpIdle(m.ep1) THEN UsbSend(m, Byte("this_seq"), 1, "tx_ack_done")
    ELSE [m EXCEPT !.queued_tx_ack = TRUE, !.queued_seq = m.this_seq]
\* TRX_END while txing: the answer to the ATUSB_TX, now or once EP1 is free.
AnswerTx(m) ==
    LET n == IF EpIdle(m.ep1)
             THEN UsbSend(m, Byte("this_seq"), 1, "tx_ack_done")
             ELSE [m EXCEPT !.queued_tx_ack = TRUE, !.queued_seq = m.this_seq]
    IN  [n EXCEPT !.txing = FALSE]

\* Mutant: a full ring goes unnoticed.
RingHasRoomAlways(m) == TRUE
\* An empty ring and a full one both have rx_in = rx_out; EP1 tells them apart.
RingHasRoom(m) == EpIdle(m.ep1) \/ m.rx_in # m.rx_out

HandleIrq(m, status, frame) ==
    IF "TRX_END" \notin status THEN m
    ELSE IF m.txing THEN AnswerTx(m)
    ELSE IF RingHasRoom(m) THEN ReceiveFrame(m, frame)
    ELSE m

\* do_tx() once the transceiver listens: what it does after its handle_irq().
StartTx(m) == [m EXCEPT !.txing = TRUE, !.this_seq = m.next_seq]

\* Mutant: the transfer under way is dropped in the middle of a frame.
MacResetIdlesEp1(m) ==
    [m EXCEPT !.txing = FALSE, !.queued_tx_ack = FALSE,
              !.rx_in = 0, !.rx_out = 0, !.ep1.state = "EP_IDLE"]
\* mac_reset(): EP1 is not touched.
MacReset(m) ==
    [m EXCEPT !.txing = FALSE, !.queued_tx_ack = FALSE,
              !.rx_in = 0, !.rx_out = 0,
              !.next_seq = 0, !.this_seq = 0, !.queued_seq = 0]

\* The rest of the INT0 handler when mac_irq is NULL.  The mutant does not look
\* whether EP1 still sends a frame received before the HardMAC was turned off.
NextSerial(s) == LET t == (s + 1) % 256 IN IF t < 128 THEN t + 128 ELSE t
SendSerialUnchecked(m) ==
    UsbSend([m EXCEPT !.irq_serial = NextSerial(@)], Byte("irq_serial"), 1, "done")
SendSerial(m) ==
    IF EpIdle(m.ep1)
    THEN UsbSend([m EXCEPT !.irq_serial = NextSerial(@)],
                 Byte("irq_serial"), 1, "done")
    ELSE m

\* What the buffer of the open transfer holds now.
Contents(m) ==
    CASE m.ep1.buf.mem = "rx_buf"     -> m.rx_buf[m.ep1.buf.slot].id
      [] m.ep1.buf.mem = "this_seq"   -> m.this_seq
      [] m.ep1.buf.mem = "queued_seq" -> m.queued_seq
      [] m.ep1.buf.mem = "irq_serial" -> m.irq_serial

Callback(m) ==
    CASE m.ep1.callback = "rx_done"     -> RxDone(m)
      [] m.ep1.callback = "tx_ack_done" -> TxAckDone(m)
      [] m.ep1.callback = "done"        -> m

-----------------------------------------------------------------------------
MacInit ==
    [rx_in |-> 0, rx_out |-> 0, rx_buf |-> [i \in Slots |-> NoFrame],
     txing |-> FALSE, queued_tx_ack |-> FALSE,
     next_seq |-> 0, this_seq |-> 0, queued_seq |-> 0, irq_serial |-> 0,
     ep1 |-> IdleEp1, panicked |-> FALSE, accepted |-> <<>>]

Init ==
    /\ mac = MacInit
    /\ mac_irq = FALSE /\ ep0_tx = FALSE /\ int0 = FALSE
    /\ trx = "TRX_OFF" /\ irq_status = {} /\ trx_buf = NoFrame
    /\ completed = {}
    /\ fifo = NoPacket
    /\ partial = NoMessage /\ frames = <<>> /\ bytes = <<>> /\ awaiting = 0
    /\ count = [e \in Events |-> 0]

Happens(event) ==
    /\ count[event] < Limit[event]
    /\ count' = [count EXCEPT ![event] = @ + 1]

-----------------------------------------------------------------------------
(* The radio                                                               *)

\* The line rises, and INT0 latches an edge, only if no interrupt is pending.
Raise(irq) ==
    /\ irq_status' = irq_status \union {irq}
    /\ int0' = (int0 \/ irq_status = {})

FrameArrives ==
    /\ trx = "RX_AACK_ON"
    /\ Happens("frame")
    /\ \E size \in Sizes : trx_buf' = [id |-> count["frame"] + 1, size |-> size]
    /\ Raise("TRX_END")
    /\ UNCHANGED <<mac, mac_irq, ep0_tx, trx, completed, fifo, host>>

TxEnds ==
    /\ trx = "BUSY_TX_ARET"
    /\ trx' = "RX_AACK_ON"
    /\ Raise("TRX_END")
    /\ completed' = completed \union {mac.this_seq}
    /\ UNCHANGED <<mac, mac_irq, ep0_tx, trx_buf, fifo, host, count>>

\* PLL_LOCK, RX_START, ...: whatever the host has enabled in IRQ_MASK.
OtherIrq ==
    /\ Happens("irq")
    /\ Raise("OTHER")
    /\ UNCHANGED <<mac, mac_irq, ep0_tx, trx, trx_buf, completed, fifo, host>>

-----------------------------------------------------------------------------
(* Interrupt handlers of the firmware                                      *)

Int0 ==
    /\ ~mac.panicked
    /\ int0
    /\ int0' = FALSE
    /\ IF mac_irq
       THEN /\ mac' = HandleIrq(mac, irq_status, trx_buf)
            /\ irq_status' = {}
       ELSE /\ mac' = SendSerial(mac)
            /\ UNCHANGED irq_status
    /\ UNCHANGED <<mac_irq, ep0_tx, trx, trx_buf, completed, fifo, host, count>>

\* TXINI on EP1: the bank is free and a transfer is open.
Ep1Tx ==
    /\ ~mac.panicked
    /\ mac.ep1.state = "EP_TX"
    /\ fifo = NoPacket
    /\ fifo' = <<[val |-> Contents(mac), n |-> PacketSize(mac.ep1)]>>
    /\ LET m == [mac EXCEPT !.ep1 = AfterPacket(@)]
       IN  mac' = IF EpIdle(m.ep1) THEN Callback(m) ELSE m
    /\ UNCHANGED <<mac_irq, ep0_tx, int0, radio, host, count>>

\* Every SETUP first idles EP0, dropping a data stage it was waiting for.
Setup == ~mac.panicked

RxModeOn ==
    /\ Setup
    /\ Happens("rx_mode")
    /\ mac_irq' = TRUE
    /\ irq_status' = {}
    /\ trx' = IF trx = "TRX_OFF" THEN "RX_AACK_ON" ELSE trx
    /\ ep0_tx' = FALSE
    /\ UNCHANGED <<mac, int0, trx_buf, completed, fifo, host>>

RxModeOff ==
    /\ Setup
    /\ Happens("rx_mode")
    /\ mac_irq' = FALSE
    /\ trx' = "TRX_OFF"
    /\ mac' = [mac EXCEPT !.txing = FALSE]
    /\ ep0_tx' = FALSE
    /\ awaiting' = 0
    /\ UNCHANGED <<int0, irq_status, trx_buf, completed, fifo, partial,
                   frames, bytes>>

RfReset ==
    /\ Setup
    /\ Happens("rf_reset")
    /\ mac_irq' = FALSE
    /\ mac' = MacReset(mac)
    /\ trx' = "TRX_OFF" /\ irq_status' = {}
    /\ ep0_tx' = FALSE
    /\ awaiting' = 0
    /\ UNCHANGED <<int0, trx_buf, completed, fifo, partial, frames, bytes>>

\* Any other request: ATUSB_REG_READ of IRQ_STATUS, which a host does only while
\* the HardMAC is off, or one that only drops the data stage EP0 waited for.
OtherRequest ==
    /\ Setup
    /\ \/ ep0_tx /\ UNCHANGED irq_status
       \/ ~mac_irq /\ irq_status # {} /\ irq_status' = {}
    /\ ep0_tx' = FALSE
    /\ awaiting' = IF ep0_tx THEN 0 ELSE awaiting
    /\ UNCHANGED <<mac, mac_irq, int0, trx, trx_buf, completed, fifo, partial,
                   frames, bytes, count>>

\* mac_tx(): the SETUP of ATUSB_TX.
TxRequest ==
    /\ Setup
    /\ HostWaits => awaiting = 0
    /\ Happens("tx")
    /\ mac' = [mac EXCEPT !.next_seq = count["tx"] + 1]
    /\ ep0_tx' = TRUE
    /\ awaiting' = count["tx"] + 1
    /\ UNCHANGED <<mac_irq, int0, radio, fifo, partial, frames, bytes>>

\* The data stage of ATUSB_TX is complete: do_tx().  It polls TRX_STATUS with
\* interrupts off until the transceiver listens (a transmission still on the air
\* ends meanwhile) and gives up on one that is off.
DoTx ==
    LET busy == trx = "BUSY_TX_ARET"
        status == IF busy THEN irq_status \union {"TRX_END"} ELSE irq_status
        m == HandleIrq(mac, status, trx_buf)
    IN  /\ trx # "TRX_OFF"
        /\ completed' = IF busy THEN completed \union {mac.this_seq}
                        ELSE completed
        /\ int0' = (int0 \/ (busy /\ irq_status = {}))
        /\ irq_status' = {}
        /\ IF m.panicked
           THEN mac' = m /\ trx' = "PLL_ON" /\ UNCHANGED trx_buf
           ELSE mac' = StartTx(m) /\ trx' = "BUSY_TX_ARET" /\ trx_buf' = NoFrame

TxData ==
    /\ ~mac.panicked
    /\ ep0_tx
    /\ ep0_tx' = FALSE
    /\ \/ DoTx
       \/ /\ trx = "TRX_OFF"
          /\ UNCHANGED <<mac, int0, radio>>
    /\ UNCHANGED <<mac_irq, fifo, host, count>>

\* USB_GEN: end of reset.  ep_init() idles the endpoints, calling nobody back.
BusReset ==
    /\ Setup
    /\ Happens("bus_reset")
    /\ mac' = [mac EXCEPT !.ep1.state = "EP_IDLE"]
    /\ ep0_tx' = FALSE
    /\ fifo' = NoPacket
    /\ partial' = NoMessage
    /\ UNCHANGED <<mac_irq, int0, radio, frames, bytes, awaiting>>

-----------------------------------------------------------------------------
(* The host collects a packet; a short one ends the message.               *)

HostIn ==
    /\ fifo # NoPacket
    /\ LET p == Head(fifo)
           m == [vals |-> IF p.n = 0 THEN partial.vals
                          ELSE partial.vals \union {p.val},
                 len  |-> partial.len + p.n]
       IN  \/ /\ p.n = EP_SIZE
              /\ partial' = m
              /\ UNCHANGED <<frames, bytes, awaiting>>
           \/ /\ p.n < EP_SIZE
              /\ partial' = NoMessage
              /\ IF m.len = 1
                 THEN bytes' = Append(bytes, p.val) /\ awaiting' = 0
                      /\ UNCHANGED frames
                 ELSE frames' = Append(frames, m) /\ UNCHANGED <<bytes, awaiting>>
    /\ fifo' = NoPacket
    /\ UNCHANGED <<device, radio, count>>

-----------------------------------------------------------------------------
Radio == FrameArrives \/ TxEnds \/ OtherIrq
Firmware == Int0 \/ Ep1Tx \/ TxData
Requests == RxModeOn \/ RxModeOff \/ RfReset \/ TxRequest \/ OtherRequest

Next == Radio \/ Firmware \/ Requests \/ BusReset \/ HostIn

Spec == Init /\ [][Next]_vars

\* Pending interrupts are served, a transmission ends, and the host both keeps
\* an IN request outstanding on EP1 and sends the data stage it announced.
Fairness ==
    /\ WF_vars(Int0) /\ WF_vars(Ep1Tx) /\ WF_vars(TxEnds)
    /\ WF_vars(TxData) /\ WF_vars(HostIn)

FairSpec == Spec /\ Fairness
-----------------------------------------------------------------------------
(* Properties                                                              *)

\* Every variable has its type; the ring indices and EP1's buffer stay inside
\* the ring, so no transfer reads past rx_buf.
TypeOK ==
    /\ mac \in MacType
    /\ mac_irq \in BOOLEAN /\ ep0_tx \in BOOLEAN /\ int0 \in BOOLEAN
    /\ trx \in {"TRX_OFF", "RX_AACK_ON", "BUSY_TX_ARET", "PLL_ON"}
    /\ irq_status \subseteq {"TRX_END", "OTHER"}
    /\ trx_buf \in Frames
    /\ completed \subseteq Nat
    /\ fifo \in Seq(Packets) /\ Len(fifo) <= 1
    /\ partial \in Messages
    /\ frames \in Seq(Messages) /\ bytes \in Seq(Nat) /\ awaiting \in Nat
    /\ count \in [Events -> Nat]

\* The BUG_ON of usb_io() never fires on EP1: nothing is sent on an endpoint
\* that is still sending.  mac.c breaks this once a frame and an answer wait
\* together.
NoPanic == ~mac.panicked

\* It does hold for a host that has only received so far, whatever the radio,
\* the mode changes and the resets did.
PanicNeedsTx == mac.panicked => count["tx"] > 0

\* While EP1 sends a slot of the ring, no reception writes to that slot, even
\* though a full ring and an empty one look alike and a reset moves the
\* indices under the transfer.
InFlightUntouched ==
    [][ mac.ep1.state = "EP_TX" /\ mac.ep1.buf.mem = "rx_buf" =>
            mac'.rx_buf[mac.ep1.buf.slot] = mac.rx_buf[mac.ep1.buf.slot] ]_vars

\* An idle EP1 leaves no frame behind in the ring: there is always a completion
\* to come that sends the next one.  (A bus reset takes the completion away, and
\* the ring then waits for the next reception.)
RingNotStranded ==
    count["bus_reset"] = 0 /\ EpIdle(mac.ep1) => mac.rx_in = mac.rx_out

MessageOf(frame) == [vals |-> {frame.id}, len |-> frame.size + 2]

\* Frames reach the host whole, in the order of reception and none twice, through
\* overruns of the ring and through bus resets: each message on EP1 is, with its
\* PHR and LQI, one frame the firmware accepted, never parts of two.
InOrder ==
    /\ \A i \in 1..Len(frames) :
          \E j \in 1..Len(mac.accepted) : frames[i] = MessageOf(mac.accepted[j])
    /\ \A i, j \in 1..Len(frames) : i < j =>
          \A a \in frames[i].vals, b \in frames[j].vals : a < b

\* An answer to ATUSB_TX carries the ack_seq of the one request the host waits
\* for, whose transmission has ended: not the next one's, not the last one's
\* again, and no other byte is mistaken for it.
AnswersMatch ==
    [][ bytes' # bytes =>
            /\ bytes'[Len(bytes')] = awaiting
            /\ awaiting \in completed ]_vars

\* Resets of the bus and the transceiver, whenever they fall into a transfer, do not
\* make the host join parts of two frames or take a part for a whole one: each
\* message is a frame that was accepted, or an empty slot, with its own length.
FramesWhole ==
    \A i \in 1..Len(frames) :
        \/ frames[i] = MessageOf(NoFrame)
        \/ \E j \in 1..Len(mac.accepted) : frames[i] = MessageOf(mac.accepted[j])

\* ATUSB_RF_RESET empties the ring but not EP1: the completion of a transfer it
\* interrupts moves rx_out away from rx_in, and the old slots of the ring are
\* sent, frames the host has had before or slots never filled.  That is all the
\* harm: they are whole, and one reset costs at most RX_BUFS - 1 of them.
Repeats ==
    {i \in 1..Len(frames) :
        \/ frames[i] = MessageOf(NoFrame)
        \/ \E j \in 1..(i - 1) : frames[j].vals = frames[i].vals}
RepeatsBounded ==
    /\ FramesWhole
    /\ Cardinality(Repeats) <= count["rf_reset"] * (RX_BUFS - 1)

\* The frames reach the host as if through a bounded pipe: those accepted are
\* delivered once, in order, none left out, and the device holds at most the
\* ring and the packet in the bank.
Pipe == INSTANCE FramePipe WITH
            Capacity <- RX_BUFS + 1,
            Content <- {MessageOf(f) : f \in [id : 1..Limit["frame"], size : Sizes]},
            accepted <- [i \in 1..Len(mac.accepted) |-> MessageOf(mac.accepted[i])],
            delivered <- frames
PipeSpec == Pipe!Spec

\* Each accepted frame is delivered, if the firmware does not panic.
FramesDelivered ==
    \A n \in 1..Limit["frame"] :
        Len(mac.accepted) >= n ~> Len(frames) >= n \/ mac.panicked

\* The host gets an answer for each transmission that ends, if the firmware
\* does not panic.
AnswersDelivered ==
    \A s \in 1..Limit["tx"] :
        s \in completed ~> (\E i \in 1..Len(bytes) : bytes[i] = s) \/ mac.panicked
=============================================================================
