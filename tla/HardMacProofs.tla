--------------------------- MODULE HardMacProofs ---------------------------
(***************************************************************************)
(* Proofs about HardMac for every ring size, every set of frame sizes and  *)
(* every bound on the events.  Each C function of mac.c is an operator on  *)
(* the record "mac", so a property of that record is first shown to be     *)
(* preserved by each function, then by each handler that calls them.       *)
(***************************************************************************)
EXTENDS HardMac, FiniteSetTheorems, TLAPS

-----------------------------------------------------------------------------
(* Types                                                                   *)

Callbacks == {"rx_done", "tx_ack_done", "done"}

\* Indices stay inside the ring.
LEMMA NextBufType ==
    ASSUME NEW i \in Slots PROVE NextBuf(i) \in Slots
BY HardMacAssumption DEF Slots, NextBuf

LEMMA ZeroSlot == 0 \in Slots
BY HardMacAssumption DEF Slots

\* Opening a transfer on EP1 keeps the record well typed.
LEMMA UsbSendType ==
    ASSUME NEW m \in MacType, NEW b \in Buffers, NEW size \in Nat,
           NEW cb \in Callbacks
    PROVE  UsbSend(m, b, size, cb) \in MacType
<1>1. Opened("EP_TX", b, size, cb) \in Endpoints
  BY DEF Opened, Endpoints, Callbacks
<1>2. ASSUME NEW e \in Endpoints PROVE [m EXCEPT !.ep1 = e] \in MacType
  BY DEF MacType
<1>3. [m EXCEPT !.panicked = TRUE] \in MacType
  BY DEF MacType
<1> QED BY <1>1, <1>2, <1>3 DEF UsbSend

LEMMA SendFrameType ==
    ASSUME NEW m \in MacType PROVE SendFrame(m) \in MacType
<1>1. RxBuf(m.rx_out) \in Buffers
  BY DEF MacType, Buffers
<1>2. m.rx_buf[m.rx_out].size + 2 \in Nat
  <2>1. m.rx_buf[m.rx_out] \in Frames
    BY DEF MacType
  <2> QED BY <2>1 DEF Frames
<1> QED BY <1>1, <1>2, UsbSendType DEF SendFrame, Callbacks

LEMMA SendQueuedAckType ==
    ASSUME NEW m \in MacType PROVE SendQueuedAck(m) \in MacType
<1> DEFINE s == UsbSend(m, Byte("queued_seq"), 1, "tx_ack_done")
<1>1. Byte("queued_seq") \in Buffers
  BY DEF Buffers
<1>2. s \in MacType
  BY <1>1, UsbSendType DEF Callbacks
<1>3. ASSUME NEW n \in MacType
      PROVE  [n EXCEPT !.queued_tx_ack = FALSE] \in MacType
  BY DEF MacType
<1> QED BY <1>2, <1>3 DEF SendQueuedAck

LEMMA UsbNextType ==
    ASSUME NEW m \in MacType PROVE UsbNext(m) \in MacType
BY SendFrameType, SendQueuedAckType DEF UsbNext

LEMMA RxDoneType ==
    ASSUME NEW m \in MacType PROVE RxDone(m) \in MacType
<1>1. NextBuf(m.rx_out) \in Slots
  BY NextBufType DEF MacType
<1>2. [m EXCEPT !.rx_out = NextBuf(@)] \in MacType
  BY <1>1 DEF MacType
<1> QED BY <1>2, UsbNextType DEF RxDone

LEMMA CallbackType ==
    ASSUME NEW m \in MacType PROVE Callback(m) \in MacType
<1>1. m.ep1.callback \in Callbacks
  BY DEF MacType, Endpoints, Callbacks
<1> QED BY <1>1, RxDoneType, UsbNextType DEF Callback, TxAckDone, Callbacks

LEMMA StoreFrameType ==
    ASSUME NEW m \in MacType, NEW f \in Frames PROVE StoreFrame(m, f) \in MacType
<1>1. NextBuf(m.rx_in) \in Slots
  BY NextBufType DEF MacType
<1>2. Append(m.accepted, f) \in Seq(Frames)
  BY DEF MacType
<1>3. [m.rx_buf EXCEPT ![m.rx_in] = f] \in [Slots -> Frames]
  BY DEF MacType
<1> QED BY <1>1, <1>2, <1>3 DEF MacType, StoreFrame

LEMMA ReceiveFrameType ==
    ASSUME NEW m \in MacType, NEW f \in Frames
    PROVE  ReceiveFrame(m, f) \in MacType
BY StoreFrameType, UsbNextType DEF ReceiveFrame

LEMMA AnswerTxType ==
    ASSUME NEW m \in MacType PROVE AnswerTx(m) \in MacType
<1>1. Byte("this_seq") \in Buffers
  BY DEF Buffers
<1>2. UsbSend(m, Byte("this_seq"), 1, "tx_ack_done") \in MacType
  BY <1>1, UsbSendType DEF Callbacks
<1>3. [m EXCEPT !.queued_tx_ack = TRUE, !.queued_seq = m.this_seq] \in MacType
  BY DEF MacType
<1>4. ASSUME NEW n \in MacType PROVE [n EXCEPT !.txing = FALSE] \in MacType
  BY DEF MacType
<1> QED BY <1>2, <1>3, <1>4 DEF AnswerTx

\* Whatever IRQ_STATUS and the frame buffer hold, the handler keeps the types.
LEMMA HandleIrqType ==
    ASSUME NEW m \in MacType, NEW status, NEW f \in Frames
    PROVE  HandleIrq(m, status, f) \in MacType
BY AnswerTxType, ReceiveFrameType DEF HandleIrq

LEMMA StartTxType ==
    ASSUME NEW m \in MacType PROVE StartTx(m) \in MacType
BY DEF MacType, StartTx

LEMMA MacResetType ==
    ASSUME NEW m \in MacType PROVE MacReset(m) \in MacType
BY ZeroSlot DEF MacType, MacReset

LEMMA SendSerialType ==
    ASSUME NEW m \in MacType PROVE SendSerial(m) \in MacType
<1> DEFINE n == [m EXCEPT !.irq_serial = NextSerial(@)]
<1>1. NextSerial(m.irq_serial) \in 0..255
  <2>1. m.irq_serial \in 0..255
    BY DEF MacType
  <2> QED BY <2>1 DEF NextSerial
<1>2. n \in MacType
  BY <1>1 DEF MacType
<1>3. Byte("irq_serial") \in Buffers
  BY DEF Buffers
<1>4. UsbSend(n, Byte("irq_serial"), 1, "done") \in MacType
  BY <1>2, <1>3, UsbSendType DEF Callbacks
<1> QED BY <1>4 DEF SendSerial

\* What ep_tx() leaves of a transfer, and the packet it makes.
LEMMA AfterPacketType ==
    ASSUME NEW e \in Endpoints
    PROVE  AfterPacket(e) \in Endpoints /\ PacketSize(e) \in 0..EP_SIZE
<1>1. e.left \in Nat
  BY DEF Endpoints
<1>2. PacketSize(e) \in 0..EP_SIZE /\ e.left - PacketSize(e) \in Nat
  BY <1>1 DEF PacketSize, EP_SIZE
<1> QED BY <1>2 DEF AfterPacket, Endpoints

LEMMA PacketSentType ==
    ASSUME NEW m \in MacType PROVE [m EXCEPT !.ep1 = AfterPacket(@)] \in MacType
<1>1. AfterPacket(m.ep1) \in Endpoints
  BY AfterPacketType DEF MacType
<1> QED BY <1>1 DEF MacType

LEMMA ContentsType ==
    ASSUME NEW m \in MacType PROVE Contents(m) \in Nat
<1>1. m.ep1.buf \in Buffers
  BY DEF MacType, Endpoints
<1>2. CASE \E slot \in Slots : m.ep1.buf = RxBuf(slot)
  <2>1. PICK slot \in Slots : m.ep1.buf = RxBuf(slot)
    BY <1>2
  <2>2. m.rx_buf[slot] \in Frames
    BY DEF MacType
  <2> QED BY <2>1, <2>2 DEF Contents, RxBuf, Frames
<1>3. CASE \E b \in {"this_seq", "queued_seq", "irq_serial"} : m.ep1.buf = Byte(b)
  <2>1. m.this_seq \in Nat /\ m.queued_seq \in Nat /\ m.irq_serial \in 0..255
    BY DEF MacType
  <2>2. m.irq_serial \in Nat
    BY <2>1
  <2> QED BY <1>3, <2>1, <2>2 DEF Contents, Byte
<1> QED BY <1>1, <1>2, <1>3 DEF Buffers

LEMMA PacketType ==
    ASSUME NEW p \in Packets PROVE p.val \in Nat /\ p.n \in Nat
<1>1. p.val \in Nat /\ p.n \in 0..64
  BY DEF Packets, EP_SIZE
<1> QED BY <1>1

LEMMA InitType == Init => TypeOK
<1> SUFFICES ASSUME Init PROVE TypeOK
  OBVIOUS
<1>1. MacInit \in MacType
  <2>1. IdleEp1 \in Endpoints
    BY DEF IdleEp1, Opened, Endpoints, Buffers
  <2>2. [i \in Slots |-> NoFrame] \in [Slots -> Frames]
    BY DEF NoFrame, Frames
  <2> QED BY <2>1, <2>2, ZeroSlot DEF MacInit, MacType
<1>2. NoFrame \in Frames /\ NoMessage \in Messages
  BY DEF NoFrame, Frames, NoMessage, Messages
<1>3. fifo \in Seq(Packets) /\ Len(fifo) <= 1
  BY DEF Init, NoPacket
<1>4. frames \in Seq(Messages) /\ bytes \in Seq(Nat)
  BY DEF Init
<1>5. count \in [Events -> Nat]
  BY DEF Init
<1> QED BY <1>1, <1>2, <1>3, <1>4, <1>5 DEF Init, TypeOK

LEMMA NextType == TypeOK /\ [Next]_vars => TypeOK'
<1> SUFFICES ASSUME TypeOK, [Next]_vars PROVE TypeOK'
  OBVIOUS
<1> USE DEF TypeOK
<1>a. \A e \in Events : Happens(e) => count' \in [Events -> Nat]
  BY DEF Happens
<1>1. CASE FrameArrives
  <2> PICK size \in Sizes : trx_buf' = [id |-> count["frame"] + 1, size |-> size]
    BY <1>1 DEF FrameArrives
  <2>1. trx_buf' \in Frames
    <3>1. size \in 0..255 /\ count["frame"] + 1 \in Nat
      BY HardMacAssumption DEF Events
    <3> QED BY <3>1 DEF Frames
  <2> QED BY <1>1, <1>a, <2>1 DEF FrameArrives, Raise, host, Events
<1>2. CASE TxEnds
  <2>1. mac.this_seq \in Nat
    BY DEF MacType
  <2> QED BY <1>2, <2>1 DEF TxEnds, Raise, host
<1>3. CASE OtherIrq
  BY <1>3, <1>a DEF OtherIrq, Raise, host, Events
<1>4. CASE Int0
  <2>1. mac' \in MacType
    BY <1>4, HandleIrqType, SendSerialType DEF Int0
  <2> QED BY <1>4, <2>1 DEF Int0, host
<1>5. CASE Ep1Tx
  <2> DEFINE m == [mac EXCEPT !.ep1 = AfterPacket(@)]
             p == [val |-> Contents(mac), n |-> PacketSize(mac.ep1)]
  <2>1. mac.ep1 \in Endpoints
    BY DEF MacType
  <2>2. m \in MacType
    BY PacketSentType
  <2>3. mac' \in MacType
    BY <1>5, <2>2, CallbackType DEF Ep1Tx
  <2>4. p \in Packets
    BY <2>1, AfterPacketType, ContentsType DEF Packets
  <2>5. fifo' = <<p>>
    BY <1>5 DEF Ep1Tx
  <2>6. fifo' \in Seq(Packets) /\ Len(fifo') <= 1
    BY <2>4, <2>5
  <2> QED BY <1>5, <2>3, <2>6 DEF Ep1Tx, host, radio
<1>6. CASE RxModeOn
  BY <1>6, <1>a DEF RxModeOn, host, Events
<1>7. CASE RxModeOff
  <2>1. [mac EXCEPT !.txing = FALSE] \in MacType
    BY DEF MacType
  <2> QED BY <1>7, <1>a, <2>1 DEF RxModeOff, Events
<1>8. CASE RfReset
  BY <1>8, <1>a, MacResetType DEF RfReset, Events
<1>9. CASE TxRequest
  <2>1. count["tx"] + 1 \in Nat
    BY DEF Events
  <2>2. [mac EXCEPT !.next_seq = count["tx"] + 1] \in MacType
    BY <2>1 DEF MacType
  <2> QED BY <1>9, <1>a, <2>1, <2>2 DEF TxRequest, radio, Events
<1>10. CASE OtherRequest
  BY <1>10 DEF OtherRequest
<1>11. CASE TxData
  <2>1. CASE DoTx
    <3>1. NoFrame \in Frames /\ mac.this_seq \in Nat
      BY DEF NoFrame, Frames, MacType
    <3>2. mac' \in MacType
      BY <2>1, HandleIrqType, StartTxType DEF DoTx
    <3> QED BY <1>11, <2>1, <3>1, <3>2 DEF TxData, DoTx, host
  <2>2. CASE UNCHANGED <<mac, int0, radio>>
    BY <1>11, <2>2 DEF TxData, host, radio
  <2> QED BY <1>11, <2>1, <2>2 DEF TxData
<1>12. CASE BusReset
  <2>1. [mac EXCEPT !.ep1.state = "EP_IDLE"] \in MacType
    BY DEF MacType, Endpoints
  <2>2. NoMessage \in Messages /\ NoPacket \in Seq(Packets) /\ Len(NoPacket) <= 1
    BY DEF NoMessage, Messages, NoPacket
  <2> QED BY <1>12, <1>a, <2>1, <2>2 DEF BusReset, radio, Events
<1>13. CASE HostIn
  <2> DEFINE p == Head(fifo)
             m == [vals |-> IF p.n = 0 THEN partial.vals
                            ELSE partial.vals \union {p.val},
                   len  |-> partial.len + p.n]
  <2>1. p \in Packets
    BY <1>13 DEF HostIn, NoPacket
  <2>2. p.val \in Nat /\ p.n \in Nat
    BY <2>1, PacketType
  <2>3. m \in Messages
    <3>1. partial.vals \in SUBSET Nat /\ partial.len \in Nat
      BY DEF Messages
    <3> QED BY <2>2, <3>1 DEF Messages
  <2>4. NoMessage \in Messages /\ NoPacket \in Seq(Packets) /\ Len(NoPacket) <= 1
    BY DEF NoMessage, Messages, NoPacket
  <2>5. Append(frames, m) \in Seq(Messages) /\ Append(bytes, p.val) \in Seq(Nat)
    BY <2>2, <2>3
  <2>6. partial' \in Messages
    BY <1>13, <2>3, <2>4 DEF HostIn
  <2>7. frames' \in Seq(Messages) /\ bytes' \in Seq(Nat) /\ awaiting' \in Nat
    <3>1. frames' = frames \/ frames' = Append(frames, m)
      BY <1>13 DEF HostIn
    <3>2. bytes' = bytes \/ bytes' = Append(bytes, p.val)
      BY <1>13 DEF HostIn
    <3>3. awaiting' = awaiting \/ awaiting' = 0
      BY <1>13 DEF HostIn
    <3> HIDE DEF p, m
    <3>4. frames' \in Seq(Messages)
      BY <2>5, <3>1
    <3>5. bytes' \in Seq(Nat)
      BY <2>5, <3>2
    <3>6. awaiting' \in Nat
      BY <3>3
    <3> QED BY <3>4, <3>5, <3>6
  <2> QED BY <1>13, <2>4, <2>6, <2>7 DEF HostIn, device, radio
<1>14. CASE UNCHANGED vars
  BY <1>14 DEF vars, device, radio, host
<1> QED BY <1>1, <1>2, <1>3, <1>4, <1>5, <1>6, <1>7, <1>8, <1>9, <1>10, <1>11,
           <1>12, <1>13, <1>14 DEF Next, Radio, Firmware, Requests

\* Type correctness: no event, in any number and any order, takes the ring
\* indices, or the buffer EP1 reads from, outside the ring.
THEOREM TypeCorrect == Spec => []TypeOK
BY InitType, NextType, PTL DEF Spec

-----------------------------------------------------------------------------
(* The slot in flight                                                      *)

\* Why no reception can hit the slot EP1 is sending.  While EP1 sends a slot,
\* either that slot is rx_out, and a reception writes only if rx_in differs; or
\* a reset has moved the indices, and then they are equal and nothing is stored
\* before the transfer completes.
SlotOK(m) ==
    m.ep1.state = "EP_TX" =>
        /\ m.ep1.callback = "rx_done" <=> m.ep1.buf.mem = "rx_buf"
        /\ m.ep1.buf.mem = "rx_buf" =>
               m.ep1.buf.slot = m.rx_out \/ m.rx_in = m.rx_out

\* usb_next() starts at most a transfer of slot rx_out.
LEMMA UsbNextSlot ==
    ASSUME NEW m \in MacType, SlotOK(m)
    PROVE  /\ SlotOK(UsbNext(m))
           /\ UsbNext(m).rx_buf = m.rx_buf
<1> DEFINE n == SendFrame(m)
<1>1. SlotOK(n) /\ n.rx_buf = m.rx_buf
  BY DEF SendFrame, UsbSend, Opened, RxBuf, SlotOK, EpIdle, MacType, Endpoints
<1>2. n \in MacType
  BY SendFrameType
<1> HIDE DEF n
<1>3. SlotOK(SendQueuedAck(n)) /\ SendQueuedAck(n).rx_buf = n.rx_buf
  BY <1>1, <1>2 DEF SendQueuedAck, UsbSend, Opened, Byte, SlotOK, EpIdle, MacType,
     Endpoints
<1> QED BY <1>1, <1>3 DEF UsbNext, n

LEMMA CallbackSlot ==
    ASSUME NEW m \in MacType, EpIdle(m.ep1)
    PROVE  SlotOK(Callback(m)) /\ Callback(m).rx_buf = m.rx_buf
<1>1. SlotOK(m)
  BY DEF SlotOK, EpIdle
<1>2. CASE m.ep1.callback = "rx_done"
  <2> DEFINE n == [m EXCEPT !.rx_out = NextBuf(@)]
  <2>1. n \in MacType
    <3>1. NextBuf(m.rx_out) \in Slots
      BY NextBufType DEF MacType
    <3> QED BY <3>1 DEF MacType
  <2>2. SlotOK(n) /\ n.rx_buf = m.rx_buf
    BY DEF SlotOK, EpIdle, MacType
  <2> QED BY <1>2, <2>1, <2>2, UsbNextSlot DEF Callback, RxDone
<1>3. CASE m.ep1.callback = "tx_ack_done"
  BY <1>1, <1>3, UsbNextSlot DEF Callback, TxAckDone
<1>4. CASE m.ep1.callback = "done"
  BY <1>1, <1>4 DEF Callback
<1>5. m.ep1.callback \in Callbacks
  BY DEF MacType, Endpoints, Callbacks
<1> QED BY <1>2, <1>3, <1>4, <1>5 DEF Callbacks

\* A slot other than the one in flight is all that handle_irq() writes.
Untouched(m, n) ==
    m.ep1.state = "EP_TX" /\ m.ep1.buf.mem = "rx_buf" =>
        n.rx_buf[m.ep1.buf.slot] = m.rx_buf[m.ep1.buf.slot]

LEMMA HandleIrqSlot ==
    ASSUME NEW m \in MacType, NEW status, NEW f \in Frames, SlotOK(m)
    PROVE  SlotOK(HandleIrq(m, status, f)) /\ Untouched(m, HandleIrq(m, status, f))
<1>1. SlotOK(AnswerTx(m)) /\ Untouched(m, AnswerTx(m))
  BY DEF AnswerTx, UsbSend, Opened, Byte, SlotOK, Untouched, EpIdle, MacType,
     Endpoints
<1>2. ASSUME RingHasRoom(m)
      PROVE  SlotOK(ReceiveFrame(m, f)) /\ Untouched(m, ReceiveFrame(m, f))
  <2> DEFINE n == StoreFrame(m, f)
  <2>1. n \in MacType
    BY StoreFrameType
  <2>2. n.ep1 = m.ep1 /\ n.rx_out = m.rx_out
    BY DEF StoreFrame, MacType
  <2>3. \A i : i # m.rx_in => n.rx_buf[i] = m.rx_buf[i]
    BY DEF StoreFrame, MacType
  <2>4. CASE EpIdle(m.ep1)
    <3> HIDE DEF n
    <3>1. SlotOK(n)
      BY <2>2, <2>4 DEF SlotOK, EpIdle
    <3>2. SlotOK(UsbNext(n))
      BY <2>1, <3>1, UsbNextSlot
    <3> QED BY <1>2, <2>4, <3>2 DEF ReceiveFrame, Untouched, EpIdle, n
  <2>5. CASE ~EpIdle(m.ep1)
    <3>1. m.rx_in # m.rx_out
      BY <1>2, <2>5 DEF RingHasRoom
    <3> HIDE DEF n
    <3>2. SlotOK(n) /\ Untouched(m, n)
      BY <2>2, <2>3, <3>1 DEF SlotOK, Untouched
    <3>3. SlotOK(m) /\ Untouched(m, m)
      BY DEF Untouched
    <3> QED BY <2>5, <3>2, <3>3 DEF ReceiveFrame, n
  <2> QED BY <2>4, <2>5
<1>3. Untouched(m, m)
  BY DEF Untouched
<1> QED BY <1>1, <1>2, <1>3 DEF HandleIrq

\* The steps that change the firmware's record.
LEMMA MacSteps ==
    ASSUME [Next]_vars
    PROVE  mac' = mac \/ Int0 \/ Ep1Tx \/ RxModeOff \/ RfReset \/ TxRequest
             \/ (TxData /\ DoTx) \/ BusReset
BY DEF Next, Radio, Firmware, Requests, FrameArrives, TxEnds, OtherIrq, RxModeOn,
   OtherRequest, TxData, HostIn, vars, device

LEMMA NextSlot ==
    ASSUME TypeOK, SlotOK(mac), [Next]_vars
    PROVE  SlotOK(mac') /\ Untouched(mac, mac')
<1>0. mac \in MacType /\ trx_buf \in Frames
  BY DEF TypeOK
<1>1. CASE mac' = mac
  BY <1>1 DEF Untouched
<1>2. CASE Int0
  <2>1. SlotOK(SendSerial(mac)) /\ Untouched(mac, SendSerial(mac))
    BY <1>0 DEF SendSerial, UsbSend, Opened, Byte, SlotOK, Untouched, EpIdle,
       MacType, Endpoints
  <2> QED BY <1>0, <1>2, <2>1, HandleIrqSlot DEF Int0
<1>3. CASE Ep1Tx
  <2> DEFINE m == [mac EXCEPT !.ep1 = AfterPacket(@)]
  <2>1. mac.ep1 \in Endpoints
    BY <1>0 DEF MacType
  <2>2. m \in MacType
    BY <1>0, PacketSentType
  <2>3. /\ m.rx_buf = mac.rx_buf /\ m.rx_in = mac.rx_in /\ m.rx_out = mac.rx_out
        /\ m.ep1.buf = mac.ep1.buf /\ m.ep1.callback = mac.ep1.callback
    BY <1>0, <2>1 DEF MacType, AfterPacket, Endpoints
  <2>4. mac' = IF EpIdle(m.ep1) THEN Callback(m) ELSE m
    BY <1>3 DEF Ep1Tx
  <2> HIDE DEF m
  <2>5. CASE EpIdle(m.ep1)
    BY <2>2, <2>3, <2>4, <2>5, CallbackSlot DEF Untouched
  <2>6. CASE ~EpIdle(m.ep1)
    <3>1. mac.ep1.state = "EP_TX"
      BY <1>3 DEF Ep1Tx
    <3> QED BY <2>3, <2>4, <2>6, <3>1 DEF SlotOK, Untouched
  <2> QED BY <2>5, <2>6
<1>4. CASE RxModeOff
  BY <1>0, <1>4 DEF RxModeOff, SlotOK, Untouched, MacType
<1>5. CASE RfReset
  BY <1>0, <1>5 DEF RfReset, MacReset, SlotOK, Untouched, MacType
<1>6. CASE TxRequest
  BY <1>0, <1>6 DEF TxRequest, SlotOK, Untouched, MacType
<1>7. CASE TxData /\ DoTx
  <2> PICK status : LET m == HandleIrq(mac, status, trx_buf)
                    IN  mac' = m \/ mac' = StartTx(m)
    BY <1>7 DEF DoTx
  <2> DEFINE m == HandleIrq(mac, status, trx_buf)
  <2>1. m \in MacType /\ SlotOK(m) /\ Untouched(mac, m)
    BY <1>0, HandleIrqType, HandleIrqSlot
  <2> HIDE DEF m
  <2>2. SlotOK(StartTx(m)) /\ StartTx(m).rx_buf = m.rx_buf
    BY <2>1 DEF StartTx, SlotOK, MacType
  <2> QED BY <2>1, <2>2 DEF Untouched, m
<1>8. CASE BusReset
  BY <1>0, <1>8 DEF BusReset, SlotOK, Untouched, MacType, Endpoints
<1> QED BY <1>1, <1>2, <1>3, <1>4, <1>5, <1>6, <1>7, <1>8, MacSteps

LEMMA InitSlot == Init => SlotOK(mac)
BY DEF Init, MacInit, IdleEp1, Opened, SlotOK

\* A frame EP1 is sending is not overwritten, for every ring size and any mix of
\* receptions, transmissions, mode changes, transceiver resets and bus resets.
THEOREM FrameInFlightIsSafe == Spec => InFlightUntouched
<1>1. TypeOK /\ SlotOK(mac) /\ [Next]_vars => TypeOK' /\ SlotOK(mac)'
  BY NextType, NextSlot
<1>2. TypeOK /\ SlotOK(mac) /\ [Next]_vars =>
        [ mac.ep1.state = "EP_TX" /\ mac.ep1.buf.mem = "rx_buf" =>
            mac'.rx_buf[mac.ep1.buf.slot] = mac.rx_buf[mac.ep1.buf.slot] ]_vars
  BY NextSlot DEF Untouched
<1> QED BY <1>1, <1>2, InitType, InitSlot, PTL DEF Spec, InFlightUntouched

-----------------------------------------------------------------------------
(* The ring drains                                                         *)

\* Why an idle EP1 leaves nothing in the ring: each transfer that may find the
\* ring filled when it completes calls usb_next().  The one that does not, the
\* irq_serial byte of INT0, starts on an empty ring, and nothing is stored while
\* it lasts.
Drains(m) ==
    EpIdle(m.ep1) \/ m.ep1.callback = "done" => m.rx_in = m.rx_out

LEMMA UsbNextDrains ==
    ASSUME NEW m \in MacType, EpIdle(m.ep1) \/ Drains(m) PROVE Drains(UsbNext(m))
<1> DEFINE n == SendFrame(m)
<1>1. CASE m.rx_in = m.rx_out
  BY <1>1 DEF UsbNext, SendFrame, SendQueuedAck, UsbSend, Opened, Drains, EpIdle,
     MacType, Endpoints
<1>2. CASE m.rx_in # m.rx_out
  <2>1. n \in MacType
    BY SendFrameType
  <2>2. ~EpIdle(n.ep1) /\ n.ep1.callback # "done"
    BY <1>2 DEF SendFrame, UsbSend, Opened, Drains, EpIdle, MacType, Endpoints
  <2> HIDE DEF n
  <2>3. SendQueuedAck(n).ep1 = n.ep1
    BY <2>1, <2>2 DEF SendQueuedAck, UsbSend, MacType
  <2> QED BY <2>2, <2>3 DEF UsbNext, Drains, n
<1> QED BY <1>1, <1>2

LEMMA CallbackDrains ==
    ASSUME NEW m \in MacType, EpIdle(m.ep1),
           m.ep1.callback = "done" => m.rx_in = m.rx_out
    PROVE  Drains(Callback(m))
<1>1. CASE m.ep1.callback = "rx_done"
  <2> DEFINE n == [m EXCEPT !.rx_out = NextBuf(@)]
  <2>1. NextBuf(m.rx_out) \in Slots
    BY NextBufType DEF MacType
  <2>2. n \in MacType /\ EpIdle(n.ep1)
    BY <2>1 DEF MacType, EpIdle
  <2> QED BY <1>1, <2>2, UsbNextDrains DEF Callback, RxDone
<1>2. CASE m.ep1.callback = "tx_ack_done"
  BY <1>2, UsbNextDrains DEF Callback, TxAckDone
<1>3. CASE m.ep1.callback = "done"
  BY <1>3 DEF Callback, Drains
<1>4. m.ep1.callback \in Callbacks
  BY DEF MacType, Endpoints, Callbacks
<1> QED BY <1>1, <1>2, <1>3, <1>4 DEF Callbacks

LEMMA HandleIrqDrains ==
    ASSUME NEW m \in MacType, NEW status, NEW f \in Frames, Drains(m)
    PROVE  Drains(HandleIrq(m, status, f))
<1>1. Drains(AnswerTx(m))
  BY DEF AnswerTx, UsbSend, Opened, Drains, EpIdle, MacType, Endpoints
<1>2. ASSUME RingHasRoom(m) PROVE Drains(ReceiveFrame(m, f))
  <2> DEFINE n == StoreFrame(m, f)
  <2>1. n \in MacType
    BY StoreFrameType
  <2>2. n.ep1 = m.ep1
    BY DEF StoreFrame, MacType
  <2> HIDE DEF n
  <2>3. CASE EpIdle(m.ep1)
    BY <2>1, <2>2, <2>3, UsbNextDrains DEF ReceiveFrame, n
  <2>4. CASE ~EpIdle(m.ep1)
    <3>1. m.ep1.callback # "done"
      BY <1>2, <2>4 DEF RingHasRoom, Drains
    <3> QED BY <2>2, <2>4, <3>1 DEF ReceiveFrame, Drains, n
  <2> QED BY <2>3, <2>4
<1> QED BY <1>1, <1>2 DEF HandleIrq

\* Events are counted up.
LEMMA CountGrows ==
    ASSUME TypeOK, [Next]_vars, NEW e \in Events, count'[e] = 0 PROVE count[e] = 0
<1>1. count \in [Events -> Nat]
  BY DEF TypeOK
<1>2. count' = count \/ \E f \in Events : count' = [count EXCEPT ![f] = @ + 1]
  BY DEF Next, Radio, Firmware, Requests, FrameArrives, TxEnds, OtherIrq, Int0,
     Ep1Tx, RxModeOn, RxModeOff, RfReset, TxRequest, OtherRequest, TxData, BusReset,
     HostIn, Happens, Events, vars
<1> QED BY <1>1, <1>2

LEMMA NextDrains ==
    ASSUME TypeOK, Drains(mac), [Next]_vars, count'["bus_reset"] = 0
    PROVE  Drains(mac')
<1>0. mac \in MacType /\ trx_buf \in Frames
  BY DEF TypeOK
<1>1. CASE mac' = mac
  BY <1>1
<1>2. CASE Int0
  <2>1. Drains(SendSerial(mac))
    BY <1>0 DEF SendSerial, UsbSend, Opened, Drains, EpIdle, MacType, Endpoints
  <2> QED BY <1>0, <1>2, <2>1, HandleIrqDrains DEF Int0
<1>3. CASE Ep1Tx
  <2> DEFINE m == [mac EXCEPT !.ep1 = AfterPacket(@)]
  <2>1. mac.ep1 \in Endpoints
    BY <1>0 DEF MacType
  <2>2. m \in MacType
    BY <1>0, PacketSentType
  <2>3. /\ m.rx_in = mac.rx_in /\ m.rx_out = mac.rx_out
        /\ m.ep1.callback = mac.ep1.callback
    BY <1>0, <2>1 DEF MacType, AfterPacket, Endpoints
  <2>4. mac' = IF EpIdle(m.ep1) THEN Callback(m) ELSE m
    BY <1>3 DEF Ep1Tx
  <2> HIDE DEF m
  <2>5. CASE EpIdle(m.ep1)
    BY <2>2, <2>3, <2>4, <2>5, CallbackDrains DEF Drains
  <2>6. CASE ~EpIdle(m.ep1)
    BY <2>3, <2>4, <2>6 DEF Drains
  <2> QED BY <2>5, <2>6
<1>4. CASE RxModeOff
  BY <1>0, <1>4 DEF RxModeOff, Drains, MacType
<1>5. CASE RfReset
  BY <1>0, <1>5 DEF RfReset, MacReset, Drains, MacType
<1>6. CASE TxRequest
  BY <1>0, <1>6 DEF TxRequest, Drains, MacType
<1>7. CASE TxData /\ DoTx
  <2> PICK status : LET m == HandleIrq(mac, status, trx_buf)
                    IN  mac' = m \/ mac' = StartTx(m)
    BY <1>7 DEF DoTx
  <2> DEFINE m == HandleIrq(mac, status, trx_buf)
  <2>1. m \in MacType /\ Drains(m)
    BY <1>0, HandleIrqType, HandleIrqDrains
  <2> HIDE DEF m
  <2>2. Drains(StartTx(m))
    BY <2>1 DEF StartTx, Drains, MacType
  <2> QED BY <2>1, <2>2 DEF m
<1>8. CASE BusReset
  <2>1. count \in [Events -> Nat] /\ "bus_reset" \in Events
    BY DEF TypeOK, Events
  <2>2. count'["bus_reset"] = count["bus_reset"] + 1
    BY <1>8, <2>1 DEF BusReset, Happens
  <2> QED BY <2>1, <2>2
<1> QED BY <1>1, <1>2, <1>3, <1>4, <1>5, <1>6, <1>7, <1>8, MacSteps

DrainsInv == count["bus_reset"] = 0 => Drains(mac)

\* Until the first bus reset, a frame in the ring always has a completion coming
\* that sends it on: reception never stalls until the next frame arrives.
THEOREM RingDrains == Spec => []RingNotStranded
<1>1. Init => DrainsInv
  BY DEF Init, MacInit, Drains, DrainsInv
<1>2. TypeOK /\ DrainsInv /\ [Next]_vars => TypeOK' /\ DrainsInv'
  BY NextType, NextDrains, CountGrows DEF DrainsInv, Events
<1>3. DrainsInv => RingNotStranded
  BY DEF Drains, DrainsInv, RingNotStranded
<1> QED BY <1>1, <1>2, <1>3, InitType, PTL DEF Spec

-----------------------------------------------------------------------------
(* A host that only receives                                               *)

\* No transmission means no answer that could compete with a frame for EP1.
Quiet(m) == ~m.txing /\ ~m.queued_tx_ack /\ ~m.panicked

LEMMA UsbNextQuiet ==
    ASSUME NEW m \in MacType, Quiet(m), EpIdle(m.ep1) PROVE Quiet(UsbNext(m))
BY DEF UsbNext, SendFrame, SendQueuedAck, UsbSend, Quiet, MacType

LEMMA CallbackQuiet ==
    ASSUME NEW m \in MacType, Quiet(m), EpIdle(m.ep1) PROVE Quiet(Callback(m))
<1> DEFINE n == [m EXCEPT !.rx_out = NextBuf(@)]
<1>1. NextBuf(m.rx_out) \in Slots
  BY NextBufType DEF MacType
<1>2. n \in MacType /\ EpIdle(n.ep1) /\ Quiet(n)
  BY <1>1 DEF MacType, EpIdle, Quiet
<1>3. Quiet(RxDone(m))
  BY <1>2, UsbNextQuiet DEF RxDone
<1>4. Quiet(TxAckDone(m))
  BY UsbNextQuiet DEF TxAckDone
<1>5. m.ep1.callback \in Callbacks
  BY DEF MacType, Endpoints, Callbacks
<1> QED BY <1>3, <1>4, <1>5 DEF Callback, Callbacks

LEMMA PacketSentQuiet ==
    ASSUME NEW m \in MacType, Quiet(m)
    PROVE  Quiet([m EXCEPT !.ep1 = AfterPacket(@)])
BY DEF Quiet, MacType

LEMMA HandleIrqQuiet ==
    ASSUME NEW m \in MacType, NEW status, NEW f \in Frames, Quiet(m)
    PROVE  Quiet(HandleIrq(m, status, f))
<1> DEFINE n == StoreFrame(m, f)
<1>1. n \in MacType
  BY StoreFrameType
<1>2. Quiet(n) /\ n.ep1 = m.ep1
  BY DEF StoreFrame, Quiet, MacType
<1> HIDE DEF n
<1>3. EpIdle(m.ep1) => Quiet(UsbNext(n))
  BY <1>1, <1>2, UsbNextQuiet
<1>4. Quiet(ReceiveFrame(m, f))
  BY <1>2, <1>3 DEF ReceiveFrame, n
<1> QED BY <1>4 DEF HandleIrq, Quiet

NeverTransmits == Quiet(mac) /\ ~ep0_tx

LEMMA NextQuiet ==
    ASSUME TypeOK, NeverTransmits, [Next]_vars, count'["tx"] = 0
    PROVE  NeverTransmits'
<1>0. mac \in MacType /\ trx_buf \in Frames
  BY DEF TypeOK
<1>1. ~TxRequest /\ ~TxData
  <2>1. count \in [Events -> Nat] /\ "tx" \in Events
    BY DEF TypeOK, Events
  <2>2. TxRequest => count'["tx"] = count["tx"] + 1
    BY <2>1 DEF TxRequest, Happens
  <2> QED BY <2>1, <2>2 DEF TxData, NeverTransmits
<1>2. ~ep0_tx'
  BY <1>1 DEF NeverTransmits, Next, Radio, Firmware, Requests, FrameArrives, TxEnds,
     OtherIrq, Int0, Ep1Tx, RxModeOn, RxModeOff, RfReset, OtherRequest, BusReset,
     HostIn, vars, device
<1>3. CASE mac' = mac
  BY <1>2, <1>3 DEF NeverTransmits
<1>4. CASE Int0
  <2>1. Quiet(SendSerial(mac))
    BY <1>0 DEF NeverTransmits, SendSerial, UsbSend, Quiet, MacType, EpIdle
  <2> QED BY <1>0, <1>2, <1>4, <2>1, HandleIrqQuiet DEF Int0, NeverTransmits
<1>5. CASE Ep1Tx
  <2> DEFINE m == [mac EXCEPT !.ep1 = AfterPacket(@)]
  <2>1. m \in MacType /\ Quiet(m)
    BY <1>0, PacketSentType, PacketSentQuiet DEF NeverTransmits
  <2>2. mac' = IF EpIdle(m.ep1) THEN Callback(m) ELSE m
    BY <1>5 DEF Ep1Tx
  <2> QED BY <1>2, <2>1, <2>2, CallbackQuiet DEF NeverTransmits
<1>6. CASE RxModeOff
  BY <1>0, <1>2, <1>6 DEF RxModeOff, NeverTransmits, Quiet, MacType
<1>7. CASE RfReset
  BY <1>0, <1>2, <1>7 DEF RfReset, MacReset, NeverTransmits, Quiet, MacType
<1>8. CASE BusReset
  BY <1>0, <1>2, <1>8 DEF BusReset, NeverTransmits, Quiet, MacType
<1> QED BY <1>1, <1>3, <1>4, <1>5, <1>6, <1>7, <1>8, MacSteps

QuietInv == count["tx"] = 0 => NeverTransmits

\* Until the host sends its first ATUSB_TX, the BUG_ON of usb_io() cannot fire on
\* EP1, whatever the radio, the resets and the mode changes do.  (After that it
\* can: the run hardmac_panic.)
THEOREM ReceiverNeverPanics == Spec => []PanicNeedsTx
<1>1. Init => QuietInv
  BY DEF Init, MacInit, Quiet, NeverTransmits, QuietInv
<1>2. TypeOK /\ QuietInv /\ [Next]_vars => TypeOK' /\ QuietInv'
  BY NextType, NextQuiet, CountGrows DEF QuietInv, Events
<1>3. TypeOK /\ QuietInv => PanicNeedsTx
  <2>1. TypeOK => count["tx"] \in Nat
    BY DEF TypeOK, Events
  <2> QED BY <2>1 DEF QuietInv, NeverTransmits, Quiet, PanicNeedsTx
<1> QED BY <1>1, <1>2, <1>3, InitType, PTL DEF Spec

-----------------------------------------------------------------------------
(* The order of the frames                                                 *)

\* Ring arithmetic: NextBuf() counts modulo RX_BUFS.
Wrap(x) == IF x >= RX_BUFS THEN x - RX_BUFS ELSE x

\* The first d of the accepted frames have left the ring, or were lost in a bus
\* reset; the others are in it, from rx_out on.
Held(m, d) == Len(m.accepted) - d

RingHolds(m, d) ==
    /\ d \in 0..Len(m.accepted) /\ Held(m, d) <= RX_BUFS
    /\ m.rx_in = Wrap(m.rx_out + Held(m, d))
    /\ \A k \in 0..(Held(m, d) - 1) :
          m.rx_buf[Wrap(m.rx_out + k)] = m.accepted[d + 1 + k]

SendsFrame(m) == m.ep1.state = "EP_TX" /\ m.ep1.callback = "rx_done"

\* What EP1 sends: the oldest frame, or one byte.
Ep1Sends(m, d) ==
    /\ SendsFrame(m) =>
          /\ m.ep1.buf = RxBuf(m.rx_out) /\ Held(m, d) > 0
          /\ m.ep1.left <= m.accepted[d + 1].size + 2
    /\ m.ep1.state = "EP_TX" /\ ~SendsFrame(m) =>
          m.ep1.buf.mem # "rx_buf" /\ m.ep1.left = 1

\* Without a bus reset, only a transfer of a frame leaves others behind it.
Drained(m, d) == ~SendsFrame(m) => Held(m, d) = 0

\* How much of the oldest frame has gone into the bank of EP1.
SentOf(m, d) == IF SendsFrame(m) THEN m.accepted[d + 1].size + 2 - m.ep1.left ELSE 0

\* Ids of what was accepted go up, also in the frame buffer of the transceiver.
Ascending(m) ==
    /\ \A i, j \in 1..Len(m.accepted) : i < j => m.accepted[i].id < m.accepted[j].id
    /\ \A i \in 1..Len(m.accepted) : m.accepted[i].size \in 1..127

Fresh ==
    /\ trx = "BUSY_TX_ARET" => trx_buf = NoFrame
    /\ "TRX_END" \in irq_status /\ trx_buf.size # 0 =>
          \A i \in 1..Len(mac.accepted) : mac.accepted[i].id < trx_buf.id
    /\ trx_buf = NoFrame \/ (trx_buf.id \in 1..count["frame"] /\ trx_buf.size \in Sizes)
    /\ \A i \in 1..Len(mac.accepted) : mac.accepted[i].id <= count["frame"]
    /\ count["frame"] <= Limit["frame"]

Calm == count["bus_reset"] = 0

\* The host has of the first e accepted frames what bus resets have left, in order.
HostHas(e) ==
    /\ \A i \in 1..Len(frames) : \E j \in 1..e : frames[i] = MessageOf(mac.accepted[j])
    /\ \A i, j \in 1..Len(frames) : i < j =>
          \A a \in frames[i].vals, b \in frames[j].vals : a < b
    /\ Calm => Len(frames) = e /\ \A i \in 1..e : frames[i] = MessageOf(mac.accepted[i])

\* The part of the oldest frame that the host has is of n bytes.
HostHasPart(d, n) ==
    /\ partial.len = n
    /\ partial.vals = IF n = 0 THEN {} ELSE {mac.accepted[d + 1].id}

\* The bank holds nothing, a part of the oldest frame, a byte, or the end of a frame.
BankEmpty(d) == fifo = <<>> /\ HostHasPart(d, SentOf(mac, d)) /\ HostHas(d)
BankFull(d, p) ==
    /\ p.n = EP_SIZE /\ p.val = mac.accepted[d + 1].id
    /\ SentOf(mac, d) >= EP_SIZE
    /\ HostHasPart(d, SentOf(mac, d) - EP_SIZE)
    /\ HostHas(d)
BankByte(d, p) == p.n = 1 /\ SentOf(mac, d) = 0 /\ partial = NoMessage /\ HostHas(d)
BankLast(d, p) ==
    /\ p.n < EP_SIZE /\ SentOf(mac, d) = 0
    /\ \E e \in 1..d :
          /\ Calm => e = d
          /\ partial.len + p.n = mac.accepted[e].size + 2
          /\ partial.vals \union (IF p.n = 0 THEN {} ELSE {p.val}) = {mac.accepted[e].id}
          /\ HostHas(e - 1)

Bank(d) ==
    \/ BankEmpty(d)
    \/ \E p \in Packets : fifo = <<p>> /\ (BankFull(d, p) \/ BankByte(d, p) \/ BankLast(d, p))

Transit(d) ==
    /\ RingHolds(mac, d) /\ Ep1Sends(mac, d)
    /\ Calm => Drained(mac, d)
    /\ Bank(d)

OrderInv ==
    /\ Ascending(mac) /\ Fresh
    /\ \E d \in 0..Len(mac.accepted) : Transit(d)

\* What a function of mac.c does to the ring and EP1: more may be accepted, and
\* frames may be lost, but what EP1 sends stays as it is.
Moves(m, d, n, e) ==
    /\ e \in d..Len(m.accepted)
    /\ e # d => SentOf(m, d) = 0 /\ ~Drained(m, d)
    /\ RingHolds(n, e) /\ Ep1Sends(n, e) /\ SentOf(n, e) = SentOf(m, d)
    /\ SendsFrame(m) => SendsFrame(n)
    /\ Drained(m, d) => Drained(n, e)
    /\ \/ n.accepted = m.accepted
       \/ /\ \E f \in Frames : n.accepted = Append(m.accepted, f)
          /\ Drained(m, d) => Held(m, d) < RX_BUFS

LEMMA NextBufWrap ==
    ASSUME NEW i \in Slots PROVE NextBuf(i) = Wrap(i + 1)
<1>1. CASE i + 1 < RX_BUFS
  BY <1>1, HardMacAssumption DEF Slots, NextBuf, Wrap
<1>2. CASE i + 1 = RX_BUFS
  BY <1>2, HardMacAssumption DEF Slots, NextBuf, Wrap
<1> QED BY <1>1, <1>2, HardMacAssumption DEF Slots

\* One step along the ring and then k more are k + 1 steps.
LEMMA WrapSteps ==
    ASSUME NEW out \in 0..(RX_BUFS - 1), NEW k \in 0..(RX_BUFS - 1)
    PROVE  /\ Wrap(Wrap(out + k) + 1) = Wrap(out + (k + 1))
           /\ Wrap(Wrap(out + 1) + k) = Wrap(out + (k + 1))
           /\ Wrap(out + k) \in 0..(RX_BUFS - 1)
BY HardMacAssumption, SMT DEF Wrap

LEMMA MacFacts ==
    ASSUME NEW m \in MacType
    PROVE  /\ m.rx_in \in 0..(RX_BUFS - 1) /\ m.rx_out \in 0..(RX_BUFS - 1)
           /\ RX_BUFS \in Nat \ {0}
           /\ m.rx_buf \in [0..(RX_BUFS - 1) -> Frames]
           /\ m.accepted \in Seq(Frames) /\ Len(m.accepted) \in Nat
           /\ m.ep1 \in Endpoints
BY HardMacAssumption DEF MacType, Slots

LEMMA StoreRing ==
    ASSUME NEW m \in MacType, NEW d, RingHolds(m, d), Held(m, d) < RX_BUFS, NEW f \in Frames
    PROVE  LET n == StoreFrame(m, f) IN
           /\ n \in MacType /\ RingHolds(n, d) /\ Held(n, d) = Held(m, d) + 1
           /\ n.accepted = Append(m.accepted, f) /\ n.ep1 = m.ep1
           /\ n.rx_out = m.rx_out
<1> DEFINE n == StoreFrame(m, f)
           h == Held(m, d)
<1>1. n \in MacType
  BY StoreFrameType
<1>2. /\ n.rx_in = NextBuf(m.rx_in) /\ n.rx_out = m.rx_out /\ n.ep1 = m.ep1
      /\ n.accepted = Append(m.accepted, f)
      /\ n.rx_buf = [m.rx_buf EXCEPT ![m.rx_in] = f]
  BY DEF StoreFrame, MacType
<1> HIDE DEF n
<1>3. Len(n.accepted) = Len(m.accepted) + 1 /\ n.accepted[Len(m.accepted) + 1] = f
  BY <1>2, MacFacts
<1>4. \A i \in 1..Len(m.accepted) : n.accepted[i] = m.accepted[i]
  BY <1>2, MacFacts
<1>5. h \in Nat /\ Held(n, d) = h + 1 /\ d \in Nat /\ d + h = Len(m.accepted)
  BY <1>3, MacFacts DEF RingHolds, Held
<1>6. n.rx_in = Wrap(n.rx_out + (h + 1))
  <2>1. NextBuf(m.rx_in) = Wrap(m.rx_in + 1)
    BY MacFacts, NextBufWrap DEF Slots
  <2>2. m.rx_in = Wrap(m.rx_out + h)
    BY DEF RingHolds
  <2>3. h \in 0..(RX_BUFS - 1)
    BY <1>5, MacFacts
  <2> HIDE DEF h
  <2>4. Wrap(Wrap(m.rx_out + h) + 1) = Wrap(m.rx_out + (h + 1))
    BY <2>3, MacFacts, WrapSteps
  <2> QED BY <1>2, <2>1, <2>2, <2>4
<1>7. ASSUME NEW k \in 0..h PROVE n.rx_buf[Wrap(n.rx_out + k)] = n.accepted[d + 1 + k]
  <2>1. m.rx_in = Wrap(m.rx_out + h)
    BY DEF RingHolds
  <2>2. k < h => m.rx_buf[Wrap(m.rx_out + k)] = m.accepted[d + 1 + k]
    BY <1>5 DEF RingHolds
  <2>3. h < RX_BUFS
    OBVIOUS
  <2> HIDE DEF h
  <2>4. CASE k = h
    <3>1. n.rx_buf[m.rx_in] = f
      BY <1>2, MacFacts
    <3> QED BY <1>2, <1>3, <1>5, <2>1, <2>4, <3>1
  <2>5. CASE k < h
    <3>1. Wrap(m.rx_out + k) # m.rx_in /\ Wrap(m.rx_out + k) \in 0..(RX_BUFS - 1)
      BY <1>5, <2>1, <2>3, <2>5, MacFacts DEF Wrap
    <3>2. n.rx_buf[Wrap(m.rx_out + k)] = m.rx_buf[Wrap(m.rx_out + k)]
      BY <1>2, <3>1, MacFacts
    <3>3. d + 1 + k \in 1..Len(m.accepted)
      BY <1>5, <2>5, MacFacts
    <3> QED BY <1>2, <1>4, <2>2, <2>5, <3>2, <3>3
  <2> QED BY <1>5, <2>4, <2>5
<1>8. RingHolds(n, d)
  BY <1>3, <1>5, <1>6, <1>7, MacFacts DEF RingHolds
<1> QED BY <1>1, <1>2, <1>5, <1>8 DEF n

LEMMA ReleaseRing ==
    ASSUME NEW m \in MacType, NEW d, RingHolds(m, d), Held(m, d) > 0
    PROVE  LET n == [m EXCEPT !.rx_out = NextBuf(@)] IN
           /\ n \in MacType /\ RingHolds(n, d + 1) /\ Held(n, d + 1) = Held(m, d) - 1
           /\ n.accepted = m.accepted /\ n.ep1 = m.ep1
<1> DEFINE n == [m EXCEPT !.rx_out = NextBuf(@)]
           h == Held(m, d)
<1>1. NextBuf(m.rx_out) = Wrap(m.rx_out + 1) /\ NextBuf(m.rx_out) \in Slots
  BY MacFacts, NextBufWrap, NextBufType DEF Slots
<1>2. /\ n \in MacType /\ n.rx_out = Wrap(m.rx_out + 1) /\ n.rx_in = m.rx_in
      /\ n.ep1 = m.ep1 /\ n.accepted = m.accepted /\ n.rx_buf = m.rx_buf
  BY <1>1 DEF MacType
<1> HIDE DEF n
<1>3. h \in Nat /\ h > 0 /\ h <= RX_BUFS /\ d \in Nat /\ d + h = Len(m.accepted)
      /\ Held(n, d + 1) = h - 1
  BY <1>2, MacFacts DEF RingHolds, Held
<1>4. n.rx_in = Wrap(n.rx_out + (h - 1))
  <2>1. m.rx_in = Wrap(m.rx_out + h)
    BY DEF RingHolds
  <2> HIDE DEF h
  <2>2. h - 1 \in 0..(RX_BUFS - 1) /\ (h - 1) + 1 = h
    BY <1>3, MacFacts
  <2>3. Wrap(Wrap(m.rx_out + 1) + (h - 1)) = Wrap(m.rx_out + ((h - 1) + 1))
    BY <2>2, MacFacts, WrapSteps
  <2> QED BY <1>2, <2>1, <2>2, <2>3
<1>5. ASSUME NEW k \in 0..(h - 2)
      PROVE  n.rx_buf[Wrap(n.rx_out + k)] = n.accepted[d + 2 + k]
  <2>1. k + 1 \in 0..(h - 1)
    BY <1>3
  <2>2. m.rx_buf[Wrap(m.rx_out + (k + 1))] = m.accepted[d + 1 + (k + 1)]
    BY <2>1 DEF RingHolds
  <2> HIDE DEF h
  <2>3. Wrap(n.rx_out + k) = Wrap(m.rx_out + (k + 1))
    <3>1. k \in 0..(RX_BUFS - 1)
      BY <1>3, MacFacts
    <3>2. Wrap(Wrap(m.rx_out + 1) + k) = Wrap(m.rx_out + (k + 1))
      BY <3>1, MacFacts, WrapSteps
    <3> QED BY <1>2, <3>2
  <2>4. d + 1 + (k + 1) = d + 2 + k
    BY <1>3
  <2> QED BY <1>2, <2>2, <2>3, <2>4
<1>6. RingHolds(n, d + 1)
  <2>1. d + 1 \in 0..Len(n.accepted) /\ Held(n, d + 1) <= RX_BUFS
    BY <1>2, <1>3, MacFacts
  <2>2. \A k \in 0..(h - 2) : d + 2 + k = (d + 1) + 1 + k
    BY <1>3
  <2>3. (h - 1) - 1 = h - 2
    BY <1>3
  <2> QED BY <1>3, <1>4, <1>5, <2>1, <2>2, <2>3 DEF RingHolds
<1> QED BY <1>2, <1>3, <1>6 DEF n

LEMMA RingTests ==
    ASSUME NEW m \in MacType, NEW d, RingHolds(m, d)
    PROVE  /\ m.rx_in # m.rx_out <=> 0 < Held(m, d) /\ Held(m, d) < RX_BUFS
           /\ Held(m, d) \in 0..RX_BUFS /\ d \in 0..Len(m.accepted)
           /\ Held(m, d) = Len(m.accepted) - d
           /\ Held(m, d) > 0 => /\ m.rx_buf[m.rx_out] = m.accepted[d + 1]
                                /\ d + 1 \in 1..Len(m.accepted)
                                /\ m.accepted[d + 1] \in Frames
<1> DEFINE h == Held(m, d)
<1>1. /\ h \in 0..RX_BUFS /\ d \in 0..Len(m.accepted) /\ h = Len(m.accepted) - d
      /\ m.rx_in = Wrap(m.rx_out + h)
  BY MacFacts DEF RingHolds, Held
<1>2. ASSUME h > 0 PROVE m.rx_buf[m.rx_out] = m.accepted[d + 1]
  <2>1. m.rx_buf[Wrap(m.rx_out + 0)] = m.accepted[d + 1 + 0]
    BY <1>1, <1>2 DEF RingHolds
  <2>2. Wrap(m.rx_out + 0) = m.rx_out /\ d + 1 + 0 = d + 1
    BY <1>1, MacFacts DEF Wrap
  <2> QED BY <2>1, <2>2
<1>3. h > 0 => d + 1 \in 1..Len(m.accepted)
  BY <1>1, MacFacts
<1>4. h > 0 => m.accepted[d + 1] \in Frames
  BY <1>3, MacFacts
<1> HIDE DEF h
<1>5. m.rx_in # m.rx_out <=> 0 < h /\ h < RX_BUFS
  BY <1>1, MacFacts DEF Wrap
<1> QED BY <1>1, <1>2, <1>3, <1>4, <1>5 DEF h

\* Frames that cannot be told from none are lost.
LEMMA LostRing ==
    ASSUME NEW m \in MacType, NEW d, RingHolds(m, d), Held(m, d) = RX_BUFS
    PROVE  RingHolds(m, Len(m.accepted)) /\ Held(m, Len(m.accepted)) = 0
<1>1. m.rx_in = m.rx_out
  BY RingTests, MacFacts
<1>2. Held(m, Len(m.accepted)) = 0
  BY MacFacts DEF Held
<1>3. m.rx_in = Wrap(m.rx_out + 0)
  BY <1>1, MacFacts DEF Wrap
<1> QED BY <1>2, <1>3, MacFacts DEF RingHolds

LEMMA RingSame ==
    ASSUME NEW m, NEW n, NEW d, RingHolds(m, d), n.rx_in = m.rx_in, n.rx_out = m.rx_out,
           n.rx_buf = m.rx_buf, n.accepted = m.accepted
    PROVE  RingHolds(n, d) /\ Held(n, d) = Held(m, d)
BY DEF RingHolds, Held

LEMMA MovesSame ==
    ASSUME NEW m \in MacType, NEW n \in MacType, NEW d, RingHolds(m, d), Ep1Sends(m, d),
           n.rx_in = m.rx_in, n.rx_out = m.rx_out, n.rx_buf = m.rx_buf,
           n.accepted = m.accepted, n.ep1 = m.ep1
    PROVE  Moves(m, d, n, d)
<1>1. RingHolds(n, d) /\ Held(n, d) = Held(m, d)
  BY RingSame
<1>2. d \in d..Len(m.accepted)
  BY MacFacts DEF RingHolds
<1>3. SendsFrame(n) = SendsFrame(m)
  BY DEF SendsFrame
<1>4. Ep1Sends(n, d)
  BY <1>1, <1>3 DEF Ep1Sends
<1> QED BY <1>1, <1>2, <1>3, <1>4 DEF Moves, SentOf, Drained

\* usb_next() on an idle EP1.
LEMMA UsbNextEp1 ==
    ASSUME NEW m \in MacType, EpIdle(m.ep1)
    PROVE  LET n == UsbNext(m) IN
           /\ n \in MacType
           /\ n.rx_in = m.rx_in /\ n.rx_out = m.rx_out /\ n.rx_buf = m.rx_buf
           /\ n.accepted = m.accepted
           /\ m.rx_in # m.rx_out =>
                 n.ep1 = Opened("EP_TX", RxBuf(m.rx_out),
                                m.rx_buf[m.rx_out].size + 2, "rx_done")
           /\ m.rx_in = m.rx_out =>
                 n.ep1 = m.ep1 \/ n.ep1 = Opened("EP_TX", Byte("queued_seq"), 1, "tx_ack_done")
<1> DEFINE s == SendFrame(m)
           n == SendQueuedAck(s)
<1>1. s \in MacType
  BY SendFrameType
<1>2. /\ s.rx_in = m.rx_in /\ s.rx_out = m.rx_out /\ s.rx_buf = m.rx_buf
      /\ s.accepted = m.accepted
      /\ m.rx_in # m.rx_out =>
            s.ep1 = Opened("EP_TX", RxBuf(m.rx_out), m.rx_buf[m.rx_out].size + 2, "rx_done")
      /\ m.rx_in = m.rx_out => s.ep1 = m.ep1
  BY DEF SendFrame, UsbSend, MacType
<1> HIDE DEF s
<1>3. /\ n.rx_in = s.rx_in /\ n.rx_out = s.rx_out /\ n.rx_buf = s.rx_buf
      /\ n.accepted = s.accepted
      /\ ~EpIdle(s.ep1) => n.ep1 = s.ep1
      /\ EpIdle(s.ep1) =>
            n.ep1 = s.ep1 \/ n.ep1 = Opened("EP_TX", Byte("queued_seq"), 1, "tx_ack_done")
  BY <1>1 DEF SendQueuedAck, UsbSend, MacType
<1>4. m.rx_in # m.rx_out => ~EpIdle(s.ep1)
  BY <1>2 DEF EpIdle, Opened
<1>5. UsbNext(m) = n /\ UsbNext(m) \in MacType
  BY UsbNextType DEF UsbNext, s
<1> HIDE DEF n
<1> QED BY <1>2, <1>3, <1>4, <1>5

LEMMA UsbNextRing ==
    ASSUME NEW m \in MacType, EpIdle(m.ep1), NEW d, RingHolds(m, d)
    PROVE  LET n == UsbNext(m) IN
           /\ n \in MacType /\ n.accepted = m.accepted
           /\ RingHolds(n, d) /\ Ep1Sends(n, d) /\ SentOf(n, d) = 0
           /\ Held(m, d) < RX_BUFS => Drained(n, d)
<1> DEFINE n == UsbNext(m)
<1>1. /\ n \in MacType
      /\ n.rx_in = m.rx_in /\ n.rx_out = m.rx_out /\ n.rx_buf = m.rx_buf
      /\ n.accepted = m.accepted
      /\ m.rx_in # m.rx_out =>
            n.ep1 = Opened("EP_TX", RxBuf(m.rx_out),
                           m.rx_buf[m.rx_out].size + 2, "rx_done")
      /\ m.rx_in = m.rx_out =>
            n.ep1 = m.ep1 \/ n.ep1 = Opened("EP_TX", Byte("queued_seq"), 1, "tx_ack_done")
  BY UsbNextEp1
<1> HIDE DEF n
<1>2. RingHolds(n, d) /\ Held(n, d) = Held(m, d)
  BY <1>1, RingSame
<1>3. CASE m.rx_in # m.rx_out
  <2>1. /\ n.ep1.state = "EP_TX" /\ n.ep1.callback = "rx_done"
        /\ n.ep1.buf = RxBuf(m.rx_out) /\ n.ep1.left = m.rx_buf[m.rx_out].size + 2
    BY <1>1, <1>3 DEF Opened
  <2>2. /\ Held(m, d) > 0 /\ m.rx_buf[m.rx_out] = m.accepted[d + 1]
        /\ m.accepted[d + 1] \in Frames
    BY <1>3, RingTests
  <2>3. m.accepted[d + 1].size \in Nat
    BY <2>2 DEF Frames
  <2>4. n.ep1.left = n.accepted[d + 1].size + 2 /\ n.ep1.left \in Nat
    BY <1>1, <2>1, <2>2, <2>3
  <2>5. SendsFrame(n)
    BY <2>1 DEF SendsFrame
  <2>6. Ep1Sends(n, d)
    BY <1>1, <1>2, <2>1, <2>2, <2>4, <2>5 DEF Ep1Sends
  <2>7. SentOf(n, d) = 0
    BY <1>1, <2>3, <2>4, <2>5 DEF SentOf
  <2> QED BY <1>1, <1>2, <2>5, <2>6, <2>7 DEF Drained, n
<1>4. CASE m.rx_in = m.rx_out
  <2>1. ~SendsFrame(n)
    BY <1>1, <1>4 DEF SendsFrame, Opened, EpIdle
  <2>2. n.ep1.state = "EP_TX" => n.ep1.buf.mem # "rx_buf" /\ n.ep1.left = 1
    BY <1>1, <1>4 DEF Opened, EpIdle, Byte
  <2>3. Held(m, d) < RX_BUFS => Held(m, d) = 0
    BY <1>4, RingTests, MacFacts
  <2>4. Ep1Sends(n, d)
    BY <2>1, <2>2 DEF Ep1Sends
  <2> QED BY <1>1, <1>2, <2>1, <2>3, <2>4 DEF Drained, SentOf, n
<1> QED BY <1>3, <1>4

LEMMA AnswerTxMoves ==
    ASSUME NEW m \in MacType, NEW d, RingHolds(m, d), Ep1Sends(m, d)
    PROVE  Moves(m, d, AnswerTx(m), d)
<1> DEFINE n == AnswerTx(m)
<1>1. /\ n \in MacType
      /\ n.rx_in = m.rx_in /\ n.rx_out = m.rx_out /\ n.rx_buf = m.rx_buf
      /\ n.accepted = m.accepted
      /\ ~EpIdle(m.ep1) => n.ep1 = m.ep1
      /\ EpIdle(m.ep1) => n.ep1 = Opened("EP_TX", Byte("this_seq"), 1, "tx_ack_done")
  <2>1. n \in MacType
    BY AnswerTxType
  <2> QED BY <2>1 DEF AnswerTx, UsbSend, MacType
<1> HIDE DEF n
<1>2. CASE ~EpIdle(m.ep1)
  BY <1>1, <1>2, MovesSame DEF n
<1>3. CASE EpIdle(m.ep1)
  <2>1. RingHolds(n, d) /\ Held(n, d) = Held(m, d)
    BY <1>1, RingSame
  <2>2. ~SendsFrame(n) /\ ~SendsFrame(m)
    BY <1>1, <1>3 DEF SendsFrame, Opened, EpIdle
  <2>3. Ep1Sends(n, d)
    BY <1>1, <1>3, <2>2 DEF Ep1Sends, Opened, Byte
  <2>4. d \in d..Len(m.accepted)
    BY MacFacts DEF RingHolds
  <2> QED BY <1>1, <2>1, <2>2, <2>3, <2>4 DEF Moves, SentOf, Drained, n
<1> QED BY <1>2, <1>3

LEMMA SendSerialMoves ==
    ASSUME NEW m \in MacType, NEW d, RingHolds(m, d), Ep1Sends(m, d)
    PROVE  Moves(m, d, SendSerial(m), d)
<1> DEFINE n == SendSerial(m)
<1>1. /\ n \in MacType
      /\ n.rx_in = m.rx_in /\ n.rx_out = m.rx_out /\ n.rx_buf = m.rx_buf
      /\ n.accepted = m.accepted
      /\ ~EpIdle(m.ep1) => n.ep1 = m.ep1
      /\ EpIdle(m.ep1) => n.ep1 = Opened("EP_TX", Byte("irq_serial"), 1, "done")
  <2>1. n \in MacType
    BY SendSerialType
  <2> QED BY <2>1 DEF SendSerial, UsbSend, MacType
<1> HIDE DEF n
<1>2. CASE ~EpIdle(m.ep1)
  BY <1>1, <1>2, MovesSame DEF n
<1>3. CASE EpIdle(m.ep1)
  <2>1. RingHolds(n, d) /\ Held(n, d) = Held(m, d)
    BY <1>1, RingSame
  <2>2. ~SendsFrame(n) /\ ~SendsFrame(m)
    BY <1>1, <1>3 DEF SendsFrame, Opened, EpIdle
  <2>3. Ep1Sends(n, d)
    BY <1>1, <1>3, <2>2 DEF Ep1Sends, Opened, Byte
  <2>4. d \in d..Len(m.accepted)
    BY MacFacts DEF RingHolds
  <2> QED BY <1>1, <2>1, <2>2, <2>3, <2>4 DEF Moves, SentOf, Drained, n
<1> QED BY <1>2, <1>3

\* A frame stored in a ring that has room for it.
LEMMA StoreMoves ==
    ASSUME NEW m \in MacType, NEW d, RingHolds(m, d), Held(m, d) < RX_BUFS,
           NEW f \in Frames, EpIdle(m.ep1)
    PROVE  LET n == UsbNext(StoreFrame(m, f)) IN
           /\ RingHolds(n, d) /\ Ep1Sends(n, d) /\ SentOf(n, d) = 0
           /\ n.accepted = Append(m.accepted, f)
           /\ Held(m, d) + 1 < RX_BUFS => Drained(n, d)
<1> DEFINE s == StoreFrame(m, f)
<1>1. /\ s \in MacType /\ RingHolds(s, d) /\ Held(s, d) = Held(m, d) + 1
      /\ s.accepted = Append(m.accepted, f) /\ s.ep1 = m.ep1
  BY StoreRing
<1> HIDE DEF s
<1>2. LET n == UsbNext(s) IN
      /\ n.accepted = s.accepted
      /\ RingHolds(n, d) /\ Ep1Sends(n, d) /\ SentOf(n, d) = 0
      /\ Held(s, d) < RX_BUFS => Drained(n, d)
  BY <1>1, UsbNextRing
<1> QED BY <1>1, <1>2 DEF s

LEMMA ReceiveMoves ==
    ASSUME NEW m \in MacType, NEW d, RingHolds(m, d), Ep1Sends(m, d), NEW f \in Frames,
           RingHasRoom(m), RX_BUFS > 1, f.size \in 1..127
    PROVE  \E e : Moves(m, d, ReceiveFrame(m, f), e)
<1> DEFINE n == ReceiveFrame(m, f)
<1>0. /\ Held(m, d) \in 0..RX_BUFS /\ d \in 0..Len(m.accepted) /\ RX_BUFS \in Nat
      /\ Held(m, d) = Len(m.accepted) - d /\ Len(m.accepted) \in Nat
      /\ d \in d..Len(m.accepted) /\ Len(m.accepted) \in d..Len(m.accepted)
  BY RingTests, MacFacts
<1>1. CASE EpIdle(m.ep1) /\ Held(m, d) < RX_BUFS
  <2>1. n = UsbNext(StoreFrame(m, f))
    BY <1>1 DEF ReceiveFrame
  <2> HIDE DEF n
  <2>2. /\ RingHolds(n, d) /\ Ep1Sends(n, d) /\ SentOf(n, d) = 0
        /\ n.accepted = Append(m.accepted, f)
        /\ Held(m, d) + 1 < RX_BUFS => Drained(n, d)
    BY <1>1, <2>1, StoreMoves
  <2>3. ~SendsFrame(m)
    BY <1>1 DEF SendsFrame, EpIdle
  <2>4. Drained(m, d) => Held(m, d) = 0
    BY <2>3 DEF Drained
  <2>5. Moves(m, d, n, d)
    BY <1>0, <1>1, <2>2, <2>3, <2>4 DEF Moves, SentOf
  <2> QED BY <2>5 DEF n
<1>2. CASE EpIdle(m.ep1) /\ Held(m, d) = RX_BUFS
  <2> DEFINE e == Len(m.accepted)
  <2>1. n = UsbNext(StoreFrame(m, f))
    BY <1>2 DEF ReceiveFrame
  <2> HIDE DEF n
  <2>2. RingHolds(m, e) /\ Held(m, e) = 0
    BY <1>2, LostRing
  <2>3. /\ RingHolds(n, e) /\ Ep1Sends(n, e) /\ SentOf(n, e) = 0
        /\ n.accepted = Append(m.accepted, f)
        /\ Held(m, e) + 1 < RX_BUFS => Drained(n, e)
    <3>1. Held(m, e) < RX_BUFS
      BY <1>0, <2>2
    <3> QED BY <1>2, <2>1, <2>2, <3>1, StoreMoves
  <2>4. ~SendsFrame(m)
    BY <1>2 DEF SendsFrame, EpIdle
  <2>5. ~Drained(m, d)
    BY <1>0, <1>2, <2>4 DEF Drained
  <2>6. Moves(m, d, n, e)
    BY <1>0, <2>3, <2>4, <2>5 DEF Moves, SentOf
  <2> QED BY <2>6 DEF n
<1>3. CASE ~EpIdle(m.ep1)
  <2>1. n = StoreFrame(m, f)
    BY <1>3 DEF ReceiveFrame
  <2>2. 0 < Held(m, d) /\ Held(m, d) < RX_BUFS
    BY <1>3, RingTests DEF RingHasRoom
  <2> HIDE DEF n
  <2>3. /\ n \in MacType /\ RingHolds(n, d) /\ Held(n, d) = Held(m, d) + 1
        /\ n.accepted = Append(m.accepted, f) /\ n.ep1 = m.ep1
        /\ n.rx_out = m.rx_out
    BY <2>1, <2>2, StoreRing
  <2>4. n.accepted[d + 1] = m.accepted[d + 1]
    <3>1. d + 1 \in 1..Len(m.accepted) /\ m.accepted \in Seq(Frames)
      BY <1>0, <2>2, MacFacts
    <3> QED BY <2>3, <3>1
  <2>5. SendsFrame(n) = SendsFrame(m)
    BY <2>3 DEF SendsFrame
  <2>6. Ep1Sends(n, d)
    BY <1>0, <2>2, <2>3, <2>4, <2>5 DEF Ep1Sends
  <2>7. SentOf(n, d) = SentOf(m, d)
    BY <2>3, <2>4, <2>5 DEF SentOf
  <2>8. Drained(m, d) => Drained(n, d)
    BY <1>0, <2>2, <2>5 DEF Drained
  <2>9. Moves(m, d, n, d)
    BY <1>0, <2>2, <2>3, <2>5, <2>6, <2>7, <2>8 DEF Moves
  <2> QED BY <2>9 DEF n
<1> QED BY <1>0, <1>1, <1>2, <1>3

\* handle_irq(): the frame is the only one accepted, if TRX_END is for it.
LEMMA HandleIrqMoves ==
    ASSUME NEW m \in MacType, NEW d, RingHolds(m, d), Ep1Sends(m, d), NEW f \in Frames,
           NEW status, RX_BUFS > 1
    PROVE  LET n == HandleIrq(m, status, f) IN
           /\ \E e : Moves(m, d, n, e)
           /\ \/ n.accepted = m.accepted
              \/ /\ n.accepted = Append(m.accepted, f)
                 /\ f.size \in 1..127 /\ "TRX_END" \in status
<1> DEFINE n == HandleIrq(m, status, f)
<1>1. CASE "TRX_END" \notin status \/ (~m.txing /\ (~RingHasRoom(m) \/ f.size \notin 1..127))
  <2>1. n = m
    BY <1>1 DEF HandleIrq, ReceiveFrame
  <2> HIDE DEF n
  <2>2. Moves(m, d, n, d)
    BY <2>1, MovesSame
  <2> QED BY <2>1, <2>2 DEF n
<1>2. CASE "TRX_END" \in status /\ m.txing
  <2>1. n = AnswerTx(m)
    BY <1>2 DEF HandleIrq
  <2>2. n.accepted = m.accepted
    BY <2>1 DEF AnswerTx, UsbSend, MacType
  <2> HIDE DEF n
  <2>3. Moves(m, d, n, d)
    BY <2>1, AnswerTxMoves
  <2> QED BY <2>2, <2>3 DEF n
<1>3. CASE "TRX_END" \in status /\ ~m.txing /\ RingHasRoom(m) /\ f.size \in 1..127
  <2>1. n = ReceiveFrame(m, f)
    BY <1>3 DEF HandleIrq
  <2>2. n.accepted = Append(m.accepted, f)
    <3> DEFINE s == StoreFrame(m, f)
    <3>1. s \in MacType /\ s.accepted = Append(m.accepted, f) /\ s.ep1 = m.ep1
      BY StoreFrameType DEF StoreFrame, MacType
    <3> HIDE DEF s
    <3>2. EpIdle(m.ep1) => UsbNext(s).accepted = s.accepted
      BY <3>1, UsbNextEp1
    <3> QED BY <1>3, <2>1, <3>1, <3>2 DEF ReceiveFrame, s
  <2> HIDE DEF n
  <2>3. \E e : Moves(m, d, n, e)
    BY <1>3, <2>1, ReceiveMoves
  <2> QED BY <1>3, <2>2, <2>3 DEF n
<1> QED BY <1>1, <1>2, <1>3
-----------------------------------------------------------------------------
(* From the ring to the host                                               *)

\* Accepting more frames takes nothing from what the host has.
LEMMA HostHasStays ==
    ASSUME NEW d \in Nat, HostHas(d), frames' = frames, Calm' => Calm,
           \A i \in 1..d : mac'.accepted[i] = mac.accepted[i]
    PROVE  HostHas(d)'
<1>1. \A i \in 1..d : MessageOf(mac'.accepted[i]) = MessageOf(mac.accepted[i])
  BY DEF MessageOf
<1> QED BY <1>1 DEF HostHas

\* Once a bus reset has lost something, the host may have had more.
LEMMA HostHasLess ==
    ASSUME NEW d \in Nat, NEW e \in Nat, e <= d, HostHas(e), frames' = frames, ~Calm',
           \A i \in 1..e : mac'.accepted[i] = mac.accepted[i]
    PROVE  HostHas(d)'
<1>1. \A i \in 1..e : MessageOf(mac'.accepted[i]) = MessageOf(mac.accepted[i])
  BY DEF MessageOf
<1>2. \A i \in 1..Len(frames) : \E j \in 1..d : frames[i] = MessageOf(mac'.accepted[j])
  <2> TAKE i \in 1..Len(frames)
  <2>1. PICK j \in 1..e : frames[i] = MessageOf(mac.accepted[j])
    BY DEF HostHas
  <2>2. j \in 1..d
    OBVIOUS
  <2> QED BY <1>1, <2>1, <2>2
<1> QED BY <1>2 DEF HostHas

\* What mac.c does between two packets leaves the bank and the host alone.
LEMMA MovesBank ==
    ASSUME TypeOK, NEW d \in 0..Len(mac.accepted), Transit(d), NEW e,
           Moves(mac, d, mac', e), UNCHANGED <<fifo, partial, frames>>, Calm' => Calm
    PROVE  e \in 0..Len(mac'.accepted) /\ Transit(e)'
<1>0. mac \in MacType /\ mac.accepted \in Seq(Frames) /\ Len(mac.accepted) \in Nat
  BY MacFacts DEF TypeOK
<1>1. /\ \A i \in 1..Len(mac.accepted) : mac'.accepted[i] = mac.accepted[i]
      /\ Len(mac.accepted) <= Len(mac'.accepted) /\ Len(mac'.accepted) \in Nat
  BY <1>0 DEF Moves
<1>2. e \in Nat /\ e \in d..Len(mac.accepted) /\ e \in 0..Len(mac'.accepted)
  BY <1>0, <1>1 DEF Moves
<1>3. RingHolds(mac', e) /\ Ep1Sends(mac', e) /\ SentOf(mac', e) = SentOf(mac, d)
  BY DEF Moves
<1>4. Calm' => Drained(mac', e) /\ e = d
  BY DEF Moves, Transit
<1>5. ASSUME HostHas(d) PROVE HostHas(e)'
  BY <1>0, <1>1, <1>2, <1>4, <1>5, HostHasStays, HostHasLess
<1>6. SentOf(mac, d) # 0 => SendsFrame(mac) /\ e = d /\ d < Len(mac.accepted)
  <2>1. SentOf(mac, d) # 0 => SendsFrame(mac)
    BY DEF SentOf
  <2>2. SendsFrame(mac) => Held(mac, d) > 0
    BY DEF Transit, Ep1Sends
  <2> QED BY <1>0, <2>1, <2>2 DEF Held, Moves
<1>7. ASSUME BankEmpty(d) PROVE Bank(e)'
  <2>1. SentOf(mac, d) = 0 \/ mac'.accepted[e + 1] = mac.accepted[d + 1]
    BY <1>0, <1>1, <1>6
  <2>2. HostHasPart(e, SentOf(mac, e))'
    BY <1>3, <1>7, <2>1 DEF BankEmpty, HostHasPart
  <2>3. BankEmpty(e)'
    BY <1>5, <1>7, <2>2 DEF BankEmpty
  <2> QED BY <2>3 DEF Bank
<1>8. ASSUME NEW p \in Packets, fifo = <<p>>, BankFull(d, p) PROVE Bank(e)'
  <2>1. SentOf(mac, d) # 0
    BY <1>8 DEF BankFull, EP_SIZE
  <2>2. mac'.accepted[e + 1] = mac.accepted[d + 1]
    BY <1>0, <1>1, <1>6, <2>1
  <2>3. BankFull(e, p)'
    BY <1>3, <1>5, <1>8, <2>2 DEF BankFull, HostHasPart
  <2> QED BY <1>8, <2>3 DEF Bank
<1>9. ASSUME NEW p \in Packets, fifo = <<p>>, BankByte(d, p) PROVE Bank(e)'
  <2>1. BankByte(e, p)'
    BY <1>3, <1>5, <1>9 DEF BankByte
  <2> QED BY <1>9, <2>1 DEF Bank
<1>10. ASSUME NEW p \in Packets, fifo = <<p>>, BankLast(d, p) PROVE Bank(e)'
  <2>1. PICK g \in 1..d :
          /\ Calm => g = d
          /\ partial.len + p.n = mac.accepted[g].size + 2
          /\ partial.vals \union (IF p.n = 0 THEN {} ELSE {p.val}) = {mac.accepted[g].id}
          /\ HostHas(g - 1)
    BY <1>10 DEF BankLast
  <2>2. mac'.accepted[g] = mac.accepted[g] /\ g \in 1..e /\ g - 1 \in Nat
    BY <1>0, <1>1, <1>2
  <2>3. HostHas(g - 1)'
    BY <1>0, <1>1, <2>1, <2>2, HostHasStays
  <2>4. BankLast(e, p)'
    BY <1>3, <1>4, <1>10, <2>1, <2>2, <2>3 DEF BankLast
  <2> QED BY <1>10, <2>4 DEF Bank
<1>11. Bank(e)'
  BY <1>7, <1>8, <1>9, <1>10 DEF Transit, Bank
<1> QED BY <1>2, <1>3, <1>4, <1>11 DEF Transit
\* A packet of a frame goes into the bank; the last one releases the slot.
\* One packet of a transfer.
LEMMA PacketSent ==
    ASSUME NEW m \in MacType
    PROVE  LET n == [m EXCEPT !.ep1 = AfterPacket(@)] IN
           /\ n.rx_in = m.rx_in /\ n.rx_out = m.rx_out /\ n.rx_buf = m.rx_buf
           /\ n.accepted = m.accepted /\ n.ep1.callback = m.ep1.callback
           /\ n.ep1.buf = m.ep1.buf /\ n.ep1.left = m.ep1.left - PacketSize(m.ep1)
           /\ n.ep1.state = IF PacketSize(m.ep1) = EP_SIZE THEN m.ep1.state ELSE "EP_IDLE"
<1> DEFINE a == AfterPacket(m.ep1)
<1>1. m.ep1 \in Endpoints
  BY DEF MacType
<1>2. /\ a.callback = m.ep1.callback /\ a.buf = m.ep1.buf
      /\ a.left = m.ep1.left - PacketSize(m.ep1)
      /\ a.state = IF PacketSize(m.ep1) = EP_SIZE THEN m.ep1.state ELSE "EP_IDLE"
  BY <1>1 DEF AfterPacket, Endpoints
<1> HIDE DEF a
<1>3. [m EXCEPT !.ep1 = AfterPacket(@)] = [m EXCEPT !.ep1 = a]
  BY DEF a
<1> QED BY <1>2, <1>3 DEF MacType

LEMMA FrameType ==
    ASSUME NEW f \in Frames PROVE f.size \in Nat /\ f.id \in Nat
<1>1. f.size \in 0..255 /\ f.id \in Nat
  BY DEF Frames
<1> QED BY <1>1

LEMMA FramePacket ==
    ASSUME TypeOK, TypeOK', NEW d \in 0..Len(mac.accepted), Transit(d), Ep1Tx,
           SendsFrame(mac), RX_BUFS > 1
    PROVE  /\ \E e \in 0..Len(mac'.accepted) : Transit(e)'
           /\ mac'.accepted = mac.accepted
<1> DEFINE m == [mac EXCEPT !.ep1 = AfterPacket(@)]
<1>0. /\ mac \in MacType /\ mac.ep1 \in Endpoints /\ mac.accepted \in Seq(Frames)
      /\ Len(mac.accepted) \in Nat /\ m \in MacType
  BY MacFacts, PacketSentType DEF TypeOK
<1>p. PICK p \in Packets : p = [val |-> Contents(mac), n |-> PacketSize(mac.ep1)]
  BY <1>0, AfterPacketType, ContentsType DEF Packets
<1>f. PICK f \in Frames : f = mac.accepted[d + 1]
  BY <1>0, RingTests DEF Transit, Ep1Sends
<1>1. /\ RingHolds(mac, d) /\ mac.ep1.buf = RxBuf(mac.rx_out) /\ Held(mac, d) > 0
      /\ mac.ep1.left <= f.size + 2 /\ mac.ep1.left \in Nat
      /\ mac.rx_buf[mac.rx_out] = f /\ f.size \in 0..255 /\ f.id \in Nat
      /\ d + 1 \in 1..Len(mac.accepted) /\ Held(mac, d) <= RX_BUFS
      /\ Held(mac, d) = Len(mac.accepted) - d
  <2>1. f.size \in 0..255 /\ f.id \in Nat
    BY DEF Frames
  <2> QED BY <1>0, <1>f, <2>1, RingTests, MacFacts DEF Transit, Ep1Sends, Endpoints, RingHolds
<1>s. PICK size \in Nat : size = f.size
  BY FrameType
<1>l. PICK left \in Nat : left = mac.ep1.left
  BY <1>1
<1>2. /\ fifo = <<>> /\ fifo' = <<p>> /\ p.val = f.id /\ p.n = PacketSize(mac.ep1)
      /\ partial' = partial /\ frames' = frames /\ count' = count
  <2>1. Contents(mac) = f.id
    BY <1>1 DEF Contents, RxBuf
  <2> QED BY <1>p, <2>1 DEF Ep1Tx, host, NoPacket
<1>3. /\ HostHas(d) /\ partial.len = size + 2 - left /\ left <= size + 2
      /\ partial.vals = IF partial.len = 0 THEN {} ELSE {f.id}
  <2>1. \A q : fifo # <<q>>
    BY <1>2
  <2> QED BY <1>f, <1>s, <1>l, <1>1, <2>1 DEF Transit, Bank, BankEmpty, HostHasPart, SentOf
<1>5. mac' = (IF EpIdle(m.ep1) THEN Callback(m) ELSE m) /\ SendsFrame(mac)
  BY DEF Ep1Tx
<1>6. /\ m.rx_in = mac.rx_in /\ m.rx_out = mac.rx_out /\ m.rx_buf = mac.rx_buf
      /\ m.accepted = mac.accepted /\ m.ep1.callback = "rx_done"
      /\ m.ep1.buf = mac.ep1.buf /\ m.ep1.left = mac.ep1.left - p.n
      /\ m.ep1.state = IF p.n = EP_SIZE THEN "EP_TX" ELSE "EP_IDLE"
  BY <1>0, <1>2, PacketSent DEF SendsFrame
<1>7. p.n = (IF left > 64 THEN 64 ELSE left) /\ EP_SIZE = 64
  BY <1>2, <1>l DEF PacketSize, EP_SIZE
<1>8. Calm' => Calm
  BY <1>2 DEF Calm
<1>9. ASSUME NEW g \in Nat, g <= d, HostHas(g), mac'.accepted = mac.accepted PROVE HostHas(g)'
  BY <1>2, <1>8, <1>9, HostHasStays
<1> HIDE DEF m
<1>10. CASE p.n = EP_SIZE
  <2>1. mac' = m
    BY <1>5, <1>6, <1>10 DEF EpIdle
  <2>0. /\ mac'.ep1.left = left - 64 /\ left >= 64
        /\ mac'.ep1.buf = RxBuf(mac'.rx_out) /\ mac'.ep1.state = "EP_TX"
        /\ mac'.ep1.callback = "rx_done" /\ mac'.accepted[d + 1] = f
    BY <1>f, <1>l, <1>1, <1>6, <1>7, <1>10, <2>1
  <2>2. RingHolds(mac', d) /\ Held(mac', d) = Held(mac, d)
    <3>1. RingHolds(m, d) /\ Held(m, d) = Held(mac, d)
      BY <1>1, <1>6, RingSame
    <3> QED BY <2>1, <3>1
  <2>3. SendsFrame(mac')
    BY <1>6, <1>10, <2>1 DEF SendsFrame
  <2>4. Ep1Sends(mac', d)
    BY <1>1, <1>s, <1>3, <2>0, <2>2, <2>3 DEF Ep1Sends
  <2>5. SentOf(mac', d) = size + 2 - (left - 64) /\ SentOf(mac', d) >= 64
    BY <1>s, <1>3, <2>0, <2>3 DEF SentOf
  <2>6. HostHasPart(d, SentOf(mac, d) - EP_SIZE)'
    <3>1. SentOf(mac', d) - EP_SIZE = size + 2 - left
      BY <1>7, <2>0, <2>5
    <3> QED BY <1>2, <1>3, <2>0, <3>1 DEF HostHasPart
  <2>7. BankFull(d, p)'
    BY <1>f, <1>0, <1>2, <1>3, <1>6, <1>7, <1>9, <1>10, <2>1, <2>5, <2>6 DEF BankFull
  <2>8. Bank(d)'
    BY <1>2, <2>7 DEF Bank
  <2>9. Transit(d)'
    BY <2>2, <2>3, <2>4, <2>8 DEF Transit, Drained
  <2> QED BY <1>6, <2>1, <2>9
<1>11. CASE p.n # EP_SIZE
  <2> DEFINE s == [m EXCEPT !.rx_out = NextBuf(@)]
             e == d + 1
  <2>1. EpIdle(m.ep1) /\ p.n < 64 /\ left = p.n
    BY <1>1, <1>6, <1>7, <1>11 DEF EpIdle
  <2>2. mac' = UsbNext(s)
    BY <1>5, <1>6, <2>1 DEF Callback, RxDone
  <2>3. RingHolds(m, d) /\ Held(m, d) = Held(mac, d)
    BY <1>1, <1>6, RingSame
  <2>4. /\ s \in MacType /\ RingHolds(s, e) /\ Held(s, e) = Held(mac, d) - 1
        /\ s.accepted = mac.accepted /\ EpIdle(s.ep1)
    BY <1>0, <1>1, <1>6, <2>1, <2>3, ReleaseRing
  <2> HIDE DEF s
  <2>5. /\ mac'.accepted = mac.accepted
        /\ RingHolds(mac', e) /\ Ep1Sends(mac', e) /\ SentOf(mac', e) = 0
        /\ Held(s, e) < RX_BUFS => Drained(mac', e)
    BY <2>2, <2>4, UsbNextRing
  <2>6. Held(s, e) < RX_BUFS
    BY <1>0, <1>1, <2>4, MacFacts
  <2>7. partial'.len + p.n = size + 2
    BY <1>2, <1>3, <2>1
  <2>8. partial'.vals \union (IF p.n = 0 THEN {} ELSE {p.val}) = {f.id}
    BY <1>2, <1>3, <2>1, <2>7
  <2>9. HostHas(e - 1)'
    BY <1>3, <1>9, <2>5
  <2>10. BankLast(e, p)'
    BY <1>f, <1>s, <1>1, <1>7, <2>1, <2>5, <2>7, <2>8, <2>9 DEF BankLast
  <2>11. Bank(e)'
    BY <1>2, <2>10 DEF Bank
  <2>12. Transit(e)'
    BY <2>5, <2>6, <2>11 DEF Transit
  <2>13. e \in 0..Len(mac'.accepted)
    BY <1>1, <2>5
  <2> QED BY <2>5, <2>12, <2>13
<1> QED BY <1>10, <1>11

\* So does a single byte, between two frames.
LEMMA BytePacket ==
    ASSUME TypeOK, TypeOK', NEW d \in 0..Len(mac.accepted), Transit(d), Ep1Tx,
           ~SendsFrame(mac), RX_BUFS > 1
    PROVE  /\ \E e \in 0..Len(mac'.accepted) : Transit(e)'
           /\ mac'.accepted = mac.accepted
<1> DEFINE m == [mac EXCEPT !.ep1 = AfterPacket(@)]
<1>0. /\ mac \in MacType /\ mac.ep1 \in Endpoints /\ Len(mac.accepted) \in Nat
      /\ m \in MacType /\ RX_BUFS \in Nat
  BY MacFacts, PacketSentType DEF TypeOK
<1>p. PICK p \in Packets : p = [val |-> Contents(mac), n |-> PacketSize(mac.ep1)]
  BY <1>0, AfterPacketType, ContentsType DEF Packets
<1>1. /\ RingHolds(mac, d) /\ mac.ep1.left = 1 /\ mac.ep1.callback # "rx_done"
      /\ SentOf(mac, d) = 0
  BY DEF Transit, Ep1Sends, Ep1Tx, SendsFrame, SentOf
<1>2. /\ fifo = <<>> /\ fifo' = <<p>> /\ p.n = 1 /\ PacketSize(mac.ep1) = 1
      /\ partial' = partial /\ frames' = frames /\ count' = count
  BY <1>1, <1>p DEF Ep1Tx, host, NoPacket, PacketSize, EP_SIZE
<1>3. HostHas(d) /\ partial = NoMessage
  <2>1. \A q : fifo # <<q>>
    BY <1>2
  <2>2. BankEmpty(d)
    BY <2>1 DEF Transit, Bank
  <2>3. partial \in Messages /\ partial.len = 0 /\ partial.vals = {}
    BY <1>1, <2>2 DEF BankEmpty, HostHasPart, TypeOK
  <2> QED BY <2>2, <2>3 DEF BankEmpty, Messages, NoMessage
<1>5. mac' = IF EpIdle(m.ep1) THEN Callback(m) ELSE m
  BY DEF Ep1Tx
<1>6. /\ m.rx_in = mac.rx_in /\ m.rx_out = mac.rx_out /\ m.rx_buf = mac.rx_buf
      /\ m.accepted = mac.accepted /\ m.ep1.callback = mac.ep1.callback /\ EpIdle(m.ep1)
  BY <1>0, <1>2, PacketSent DEF EpIdle, EP_SIZE
<1> HIDE DEF m
<1>7. RingHolds(m, d) /\ Held(m, d) = Held(mac, d)
  BY <1>1, <1>6, RingSame
<1>8. mac' = UsbNext(m) \/ mac' = m
  <2>1. mac.ep1.callback \in Callbacks
    BY <1>0 DEF Endpoints, Callbacks
  <2> QED BY <1>1, <1>5, <1>6, <2>1 DEF Callback, TxAckDone, Callbacks
<1>9. /\ mac'.accepted = mac.accepted /\ RingHolds(mac', d) /\ Ep1Sends(mac', d)
      /\ SentOf(mac', d) = 0 /\ Held(mac', d) = Held(mac, d)
      /\ Held(mac, d) = 0 => Drained(mac', d)
  <2>1. CASE mac' = UsbNext(m)
    BY <1>0, <1>6, <1>7, <2>1, UsbNextRing DEF Held
  <2>2. CASE mac' = m
    BY <1>6, <1>7, <2>2 DEF Ep1Sends, SentOf, SendsFrame, EpIdle, Drained
  <2> QED BY <1>8, <2>1, <2>2
<1>10. Calm' => Calm
  BY <1>2 DEF Calm
<1>11. HostHas(d)'
  BY <1>2, <1>3, <1>9, <1>10, HostHasStays
<1>12. BankByte(d, p)'
  BY <1>2, <1>3, <1>9, <1>11 DEF BankByte
<1>13. Bank(d)'
  BY <1>2, <1>12 DEF Bank
<1>14. Calm' => Drained(mac', d)
  BY <1>9, <1>10 DEF Transit, Drained
<1>15. Transit(d)'
  BY <1>9, <1>13, <1>14 DEF Transit
<1> QED BY <1>9, <1>15
\* The host appends the frame that follows those it has.
LEMMA HostHasNext ==
    ASSUME TypeOK, Ascending(mac), NEW e \in 1..Len(mac.accepted), HostHas(e - 1),
           frames' = Append(frames, MessageOf(mac.accepted[e])), mac' = mac, Calm' => Calm
    PROVE  HostHas(e)'
<1> DEFINE g == mac.accepted[e]
           L == Len(frames)
<1>0. /\ frames \in Seq(Messages) /\ L \in Nat /\ mac.accepted \in Seq(Frames)
      /\ Len(mac.accepted) \in Nat /\ e \in Nat
  BY MacFacts DEF TypeOK
<1>1. /\ Len(frames') = L + 1 /\ frames'[L + 1] = MessageOf(g)
      /\ \A i \in 1..L : frames'[i] = frames[i]
  BY <1>0
<1>2. \A i \in 1..L : \E j \in 1..(e - 1) : frames[i] = MessageOf(mac.accepted[j])
  BY DEF HostHas
<1>3. ASSUME NEW i \in 1..L, NEW a \in frames[i].vals, NEW b \in MessageOf(g).vals
      PROVE  a < b
  <2>1. PICK j \in 1..(e - 1) : frames[i] = MessageOf(mac.accepted[j])
    BY <1>2
  <2>2. a = mac.accepted[j].id /\ b = g.id
    BY <1>3, <2>1 DEF MessageOf
  <2>3. j \in 1..Len(mac.accepted) /\ j < e
    BY <1>0
  <2> QED BY <2>2, <2>3 DEF Ascending
<1> HIDE DEF g
<1>4. \A i \in 1..(L + 1) : \E j \in 1..e : frames'[i] = MessageOf(mac.accepted[j])
  <2> TAKE i \in 1..(L + 1)
  <2>1. CASE i = L + 1
    BY <1>0, <1>1, <2>1 DEF g
  <2>2. CASE i \in 1..L
    <3>1. PICK j \in 1..(e - 1) : frames[i] = MessageOf(mac.accepted[j])
      BY <1>2, <2>2
    <3>2. j \in 1..e
      BY <1>0
    <3> QED BY <1>1, <2>2, <3>1, <3>2
  <2> QED BY <1>0, <2>1, <2>2
<1>5. ASSUME NEW i \in 1..(L + 1), NEW j \in 1..(L + 1), i < j,
             NEW a \in frames'[i].vals, NEW b \in frames'[j].vals
      PROVE  a < b
  <2>1. i \in 1..L
    BY <1>0, <1>5
  <2>2. CASE j = L + 1
    BY <1>1, <1>3, <1>5, <2>1, <2>2
  <2>3. CASE j \in 1..L
    BY <1>1, <1>5, <2>1, <2>3 DEF HostHas
  <2> QED BY <1>0, <2>2, <2>3
<1>6. Calm => L = e - 1 /\ \A i \in 1..(e - 1) : frames[i] = MessageOf(mac.accepted[i])
  BY DEF HostHas
<1>7. ASSUME Calm, NEW i \in 1..e PROVE frames'[i] = MessageOf(mac.accepted[i])
  BY <1>0, <1>1, <1>6, <1>7 DEF g
<1>8. Calm => L + 1 = e
  BY <1>0, <1>6
<1> HIDE DEF L
<1> QED BY <1>1, <1>4, <1>5, <1>7, <1>8 DEF HostHas

\* HostIn: a full packet is kept, a short one completes a frame or is a byte.
LEMMA HostTakes ==
    ASSUME TypeOK, Ascending(mac), NEW d \in 0..Len(mac.accepted), Transit(d), HostIn
    PROVE  Transit(d)'
<1>0. /\ mac' = mac /\ mac \in MacType /\ Len(mac.accepted) \in Nat /\ d \in Nat
      /\ count' = count /\ fifo' = <<>>
  BY MacFacts DEF TypeOK, HostIn, device, NoPacket
<1>1. Calm' = Calm
  BY <1>0 DEF Calm
<1>2. SentOf(mac', d) = SentOf(mac, d)
  BY <1>0
<1>3. ASSUME NEW g \in Nat, g <= d, HostHas(g), frames' = frames PROVE HostHas(g)'
  BY <1>0, <1>1, <1>3, HostHasStays
<1>4. PICK p \in Packets : fifo = <<p>> /\ (BankFull(d, p) \/ BankByte(d, p) \/ BankLast(d, p))
  BY DEF HostIn, NoPacket, Transit, Bank, BankEmpty
<1>5. Head(fifo) = p /\ p.n \in Nat /\ p.val \in Nat /\ EP_SIZE = 64
  BY <1>4, PacketType DEF EP_SIZE
<1> DEFINE m == [vals |-> IF p.n = 0 THEN partial.vals ELSE partial.vals \union {p.val},
                 len  |-> partial.len + p.n]
<1>6. \/ p.n = 64 /\ partial' = m /\ frames' = frames
      \/ p.n < 64 /\ partial' = NoMessage /\ m.len = 1 /\ frames' = frames
      \/ p.n < 64 /\ partial' = NoMessage /\ m.len # 1 /\ frames' = Append(frames, m)
  BY <1>5 DEF HostIn
<1>7. CASE BankFull(d, p)
  <2>1. partial' = m /\ frames' = frames /\ p.n = 64 /\ p.val = mac.accepted[d + 1].id
    BY <1>5, <1>6, <1>7 DEF BankFull
  <2>2. PICK k \in Nat : k = SentOf(mac, d) - 64 /\ HostHasPart(d, k) /\ SentOf(mac, d) = k + 64
    <3>1. SentOf(mac, d) \in Nat
      <4>1. ASSUME SendsFrame(mac)
            PROVE  mac.ep1.left \in Nat /\ mac.ep1.left <= mac.accepted[d + 1].size + 2
                   /\ mac.accepted[d + 1].size \in Nat
        <5>1. mac.accepted[d + 1] \in Frames
          BY <1>0, <4>1, RingTests DEF Transit, Ep1Sends
        <5> QED BY <1>0, <4>1, <5>1, FrameType DEF Transit, Ep1Sends, MacType, Endpoints
      <4> QED BY <4>1 DEF SentOf
    <3> QED BY <1>5, <1>7, <3>1 DEF BankFull
  <2>3. m.len = k + 64 /\ m.vals = {mac.accepted[d + 1].id}
    BY <2>1, <2>2 DEF HostHasPart
  <2> HIDE DEF m
  <2>4. HostHasPart(d, SentOf(mac, d))'
    BY <1>0, <1>2, <2>1, <2>2, <2>3 DEF HostHasPart
  <2>5. HostHas(d)'
    BY <1>0, <1>3, <1>7, <2>1 DEF BankFull
  <2>6. BankEmpty(d)'
    BY <1>0, <2>4, <2>5 DEF BankEmpty
  <2> QED BY <1>0, <1>1, <2>6 DEF Transit, Bank
<1>8. CASE BankByte(d, p)
  <2>1. partial' = NoMessage /\ frames' = frames
    <3>1. p.n = 1 /\ m.len = 1
      BY <1>8 DEF BankByte, NoMessage
    <3> QED BY <1>6, <3>1
  <2>2. HostHasPart(d, SentOf(mac, d))'
    BY <1>0, <1>2, <1>8, <2>1 DEF BankByte, HostHasPart, NoMessage
  <2>3. HostHas(d)'
    BY <1>0, <1>3, <1>8, <2>1 DEF BankByte
  <2>4. BankEmpty(d)'
    BY <1>0, <2>2, <2>3 DEF BankEmpty
  <2> QED BY <1>0, <1>1, <2>4 DEF Transit, Bank
<1>9. CASE BankLast(d, p)
  <2>1. PICK e \in 1..d :
          /\ Calm => e = d
          /\ partial.len + p.n = mac.accepted[e].size + 2
          /\ partial.vals \union (IF p.n = 0 THEN {} ELSE {p.val}) = {mac.accepted[e].id}
          /\ HostHas(e - 1)
    BY <1>9 DEF BankLast
  <2>2. e \in 1..Len(mac.accepted) /\ e \in Nat /\ e <= d
    BY <1>0
  <2>3. mac.accepted[e].size \in Nat
    <3>1. mac.accepted[e] \in Frames
      BY <1>0, <2>2, MacFacts
    <3> QED BY <3>1, FrameType
  <2>4. p.n < 64 /\ SentOf(mac, d) = 0
    BY <1>5, <1>9 DEF BankLast
  <2>5. m = MessageOf(mac.accepted[e])
    BY <2>1 DEF MessageOf
  <2>6. m.len # 1
    BY <2>1, <2>3
  <2> HIDE DEF m
  <2>7. partial' = NoMessage /\ frames' = Append(frames, MessageOf(mac.accepted[e]))
    BY <1>5, <1>6, <2>4, <2>5, <2>6
  <2>8. HostHas(e)'
    BY <1>0, <1>1, <2>1, <2>2, <2>7, HostHasNext
  <2>9. HostHas(d)'
    <3>1. CASE e = d
      BY <2>8, <3>1
    <3>2. CASE ~Calm
      <4>1. \A i \in 1..Len(frames') : \E j \in 1..d : frames'[i] = MessageOf(mac'.accepted[j])
        <5>1. \A j \in 1..e : j \in 1..d
          BY <1>0, <2>2
        <5> QED BY <2>8, <5>1 DEF HostHas
      <4> QED BY <1>1, <2>8, <3>2, <4>1 DEF HostHas
    <3> QED BY <2>1, <3>1, <3>2
  <2>10. HostHasPart(d, SentOf(mac, d))'
    BY <1>0, <1>2, <2>4, <2>7 DEF HostHasPart, NoMessage
  <2>11. BankEmpty(d)'
    BY <1>0, <2>9, <2>10 DEF BankEmpty
  <2> QED BY <1>0, <1>1, <2>11 DEF Transit, Bank
<1> QED BY <1>4, <1>7, <1>8, <1>9

\* A bus reset loses what was on its way; nothing is sent twice or out of order.
LEMMA BusResetTransit ==
    ASSUME TypeOK, NEW d \in 0..Len(mac.accepted), Transit(d), BusReset
    PROVE  Transit(d)' /\ mac'.accepted = mac.accepted
<1>0. /\ mac \in MacType /\ Len(mac.accepted) \in Nat /\ d \in Nat
      /\ fifo' = <<>> /\ partial' = NoMessage /\ frames' = frames
      /\ mac' = [mac EXCEPT !.ep1.state = "EP_IDLE"]
  BY MacFacts DEF TypeOK, BusReset, NoPacket
<1>1. ~Calm'
  <2>1. count["bus_reset"] \in Nat
    BY DEF TypeOK, Events
  <2>2. count'["bus_reset"] = count["bus_reset"] + 1
    BY DEF BusReset, Happens, TypeOK, Events
  <2> QED BY <2>1, <2>2 DEF Calm
<1>2. /\ mac'.rx_in = mac.rx_in /\ mac'.rx_out = mac.rx_out /\ mac'.rx_buf = mac.rx_buf
      /\ mac'.accepted = mac.accepted /\ mac'.ep1.state = "EP_IDLE"
  BY <1>0 DEF MacType, Endpoints
<1>3. RingHolds(mac', d)
  BY <1>2, RingSame DEF Transit
<1>4. Ep1Sends(mac', d) /\ SentOf(mac', d) = 0
  BY <1>2 DEF Ep1Sends, SendsFrame, SentOf
<1>5. \E e \in 0..d : HostHas(e)
  <2>1. ASSUME NEW p, BankLast(d, p) PROVE \E e \in 0..d : HostHas(e)
    <3>1. PICK e \in 1..d : HostHas(e - 1)
      BY <2>1 DEF BankLast
    <3>2. e - 1 \in 0..d
      BY <1>0
    <3> QED BY <3>1, <3>2
  <2>2. d \in 0..d
    BY <1>0
  <2> QED BY <2>1, <2>2 DEF Transit, Bank, BankEmpty, BankFull, BankByte
<1>6. HostHas(d)'
  <2>1. PICK e \in 0..d : HostHas(e)
    BY <1>5
  <2>2. e \in Nat /\ e <= d
    BY <1>0
  <2> QED BY <1>0, <1>1, <1>2, <2>1, <2>2, HostHasLess
<1>7. HostHasPart(d, SentOf(mac, d))'
  BY <1>0, <1>4 DEF HostHasPart, NoMessage
<1>8. BankEmpty(d)'
  BY <1>0, <1>6, <1>7 DEF BankEmpty
<1> QED BY <1>1, <1>2, <1>3, <1>4, <1>8 DEF Transit, Bank
\* The steps of a transceiver that is not reset, with what they do to the ring.
LEMMA TransitNext ==
    ASSUME TypeOK, TypeOK', OrderInv, [Next]_vars, RX_BUFS > 1, Limit["rf_reset"] = 0
    PROVE  \E e \in 0..Len(mac'.accepted) : Transit(e)'
<1>0. mac \in MacType /\ mac' \in MacType /\ trx_buf \in Frames
  BY DEF TypeOK
<1>1. PICK d \in 0..Len(mac.accepted) : Transit(d)
  BY DEF OrderInv
<1>2. RingHolds(mac, d) /\ Ep1Sends(mac, d) /\ Ascending(mac)
  BY <1>1 DEF Transit, OrderInv
<1>3. Calm' => Calm
  BY CountGrows DEF Calm, Events
<1>4. ASSUME NEW e, Moves(mac, d, mac', e), UNCHANGED <<fifo, host>>
      PROVE  \E k \in 0..Len(mac'.accepted) : Transit(k)'
  <2>1. UNCHANGED <<fifo, partial, frames>>
    BY <1>4 DEF host
  <2> QED BY <1>1, <1>3, <1>4, <2>1, MovesBank
<1>5. ASSUME mac'.rx_in = mac.rx_in, mac'.rx_out = mac.rx_out, mac'.rx_buf = mac.rx_buf,
             mac'.accepted = mac.accepted, mac'.ep1 = mac.ep1,
             UNCHANGED <<fifo, partial, frames>>
      PROVE  \E k \in 0..Len(mac'.accepted) : Transit(k)'
  <2>1. Moves(mac, d, mac', d)
    BY <1>0, <1>2, <1>5, MovesSame
  <2> QED BY <1>1, <1>3, <1>5, <2>1, MovesBank
<1>6. CASE mac' = mac /\ ~HostIn /\ ~BusReset /\ ~Ep1Tx
  <2>1. UNCHANGED <<fifo, partial, frames>>
    BY <1>6 DEF Next, Radio, Firmware, Requests, FrameArrives, TxEnds, OtherIrq, Int0,
       RxModeOn, RxModeOff, RfReset, TxRequest, OtherRequest, TxData, vars, host
  <2> QED BY <1>5, <1>6, <2>1
<1>7. CASE Int0
  <2>1. \E e : Moves(mac, d, mac', e)
    BY <1>0, <1>2, <1>7, HandleIrqMoves, SendSerialMoves DEF Int0
  <2> QED BY <1>4, <1>7, <2>1 DEF Int0, host
<1>8. CASE Ep1Tx
  BY <1>1, <1>8, FramePacket, BytePacket
<1>9. CASE RxModeOff
  BY <1>0, <1>5, <1>9 DEF RxModeOff, MacType
<1>10. ~RfReset
  <2>1. count["rf_reset"] \in Nat
    BY DEF TypeOK, Events
  <2> QED BY <2>1 DEF RfReset, Happens
<1>11. CASE TxRequest
  BY <1>0, <1>5, <1>11 DEF TxRequest, MacType
<1>12. CASE TxData /\ DoTx
  <2> DEFINE status == IF trx = "BUSY_TX_ARET" THEN irq_status \union {"TRX_END"} ELSE irq_status
             m == HandleIrq(mac, status, trx_buf)
  <2>1. mac' = m \/ mac' = StartTx(m)
    BY <1>12 DEF DoTx
  <2>2. m \in MacType /\ \E e : Moves(mac, d, m, e)
    BY <1>0, <1>2, HandleIrqMoves, HandleIrqType
  <2> HIDE DEF m
  <2>3. PICK e : Moves(mac, d, m, e)
    BY <2>2
  <2>4. /\ StartTx(m).rx_in = m.rx_in /\ StartTx(m).rx_out = m.rx_out
        /\ StartTx(m).rx_buf = m.rx_buf /\ StartTx(m).accepted = m.accepted
        /\ StartTx(m).ep1 = m.ep1
    BY <2>2 DEF StartTx, MacType
  <2>5. Moves(mac, d, mac', e)
    <3>1. RingHolds(m, e)
      BY <2>3 DEF Moves
    <3>2. RingHolds(StartTx(m), e) /\ Held(StartTx(m), e) = Held(m, e)
      BY <2>4, <3>1, RingSame
    <3> QED BY <2>1, <2>3, <2>4, <3>2 DEF Moves, Ep1Sends, SentOf, Drained, SendsFrame
  <2> QED BY <1>4, <1>12, <2>5 DEF TxData
<1>13. CASE BusReset
  BY <1>1, <1>13, BusResetTransit
<1>14. CASE HostIn
  <2>1. mac' = mac
    BY <1>14 DEF HostIn, device
  <2> QED BY <1>1, <1>2, <1>14, <2>1, HostTakes
<1> QED BY <1>6, <1>7, <1>8, <1>9, <1>10, <1>11, <1>12, <1>13, <1>14, MacSteps

LEMMA NotEmpty ==
    ASSUME NEW f, f.size \in 1..127 PROVE f # NoFrame /\ f.size # 0
<1>1. f.size # 0
  OBVIOUS
<1> QED BY <1>1 DEF NoFrame

\* handle_irq() accepts at most the frame in the buffer of the transceiver.
LEMMA HandleIrqAccepts ==
    ASSUME NEW m \in MacType, NEW status, NEW f \in Frames
    PROVE  LET n == HandleIrq(m, status, f) IN
           \/ n.accepted = m.accepted
           \/ /\ n.accepted = Append(m.accepted, f)
              /\ f.size \in 1..127 /\ "TRX_END" \in status
<1>1. AnswerTx(m).accepted = m.accepted
  BY DEF AnswerTx, UsbSend, MacType
<1>2. StoreFrame(m, f) \in MacType /\ StoreFrame(m, f).accepted = Append(m.accepted, f)
      /\ StoreFrame(m, f).ep1 = m.ep1
  BY StoreFrameType DEF StoreFrame, MacType
<1>3. EpIdle(m.ep1) => UsbNext(StoreFrame(m, f)).accepted = Append(m.accepted, f)
  BY <1>2, UsbNextEp1
<1> QED BY <1>1, <1>2, <1>3 DEF HandleIrq, ReceiveFrame

LEMMA Ep1TxAccepts ==
    ASSUME TypeOK, Ep1Tx PROVE mac'.accepted = mac.accepted
<1> DEFINE m == [mac EXCEPT !.ep1 = AfterPacket(@)]
           s == [m EXCEPT !.rx_out = NextBuf(@)]
<1>1. mac \in MacType /\ m \in MacType /\ m.accepted = mac.accepted
  BY PacketSentType, PacketSent DEF TypeOK
<1>2. mac' = IF EpIdle(m.ep1) THEN Callback(m) ELSE m
  BY DEF Ep1Tx
<1> HIDE DEF m
<1>3. s \in MacType /\ s.accepted = m.accepted /\ s.ep1 = m.ep1
  <2>1. NextBuf(m.rx_out) \in Slots
    BY <1>1, NextBufType DEF MacType
  <2> QED BY <1>1, <2>1 DEF MacType
<1>4. m.ep1.callback \in Callbacks
  BY <1>1 DEF MacType, Endpoints, Callbacks
<1>5. ASSUME EpIdle(m.ep1) PROVE Callback(m).accepted = m.accepted
  <2>1. UsbNext(s).accepted = m.accepted /\ UsbNext(m).accepted = m.accepted
    BY <1>1, <1>3, <1>5, UsbNextEp1
  <2> QED BY <1>4, <2>1 DEF Callback, RxDone, TxAckDone, Callbacks
<1> QED BY <1>1, <1>2, <1>5

\* A frame is accepted once, by the handler that reads the TRX_END it came with.
LEMMA Accepts ==
    ASSUME TypeOK, Fresh, [Next]_vars
    PROVE  \/ mac'.accepted = mac.accepted
           \/ /\ mac'.accepted = Append(mac.accepted, trx_buf) /\ trx_buf.size \in 1..127
              /\ "TRX_END" \in irq_status /\ irq_status' = {}
              /\ trx' = "BUSY_TX_ARET" => trx_buf' = NoFrame
              /\ trx_buf' = trx_buf \/ trx_buf' = NoFrame
              /\ UNCHANGED <<count, fifo, frames, partial>>
<1>0. mac \in MacType /\ trx_buf \in Frames
  BY DEF TypeOK
<1>1. trx_buf.size \in 1..127 => trx # "BUSY_TX_ARET"
  BY NotEmpty DEF Fresh
<1>3. CASE Int0
  <2>1. CASE mac_irq
    <3>1. mac' = HandleIrq(mac, irq_status, trx_buf)
      BY <1>3, <2>1 DEF Int0
    <3>2. \/ mac'.accepted = mac.accepted
          \/ /\ mac'.accepted = Append(mac.accepted, trx_buf)
             /\ trx_buf.size \in 1..127 /\ "TRX_END" \in irq_status
      BY <1>0, <3>1, HandleIrqAccepts
    <3> QED BY <1>1, <1>3, <2>1, <3>2 DEF Int0, host
  <2>2. CASE ~mac_irq
    BY <1>0, <1>3, <2>2 DEF Int0, SendSerial, UsbSend, MacType
  <2> QED BY <2>1, <2>2
<1>4. CASE Ep1Tx
  BY <1>4, Ep1TxAccepts
<1>5. CASE RxModeOff
  BY <1>0, <1>5 DEF RxModeOff, MacType
<1>6. CASE RfReset
  BY <1>0, <1>6 DEF RfReset, MacReset, MacType
<1>7. CASE TxRequest
  BY <1>0, <1>7 DEF TxRequest, MacType
<1>8. CASE TxData /\ DoTx
  <2> DEFINE status == IF trx = "BUSY_TX_ARET" THEN irq_status \union {"TRX_END"} ELSE irq_status
             m == HandleIrq(mac, status, trx_buf)
  <2>1. mac' = m \/ mac' = StartTx(m)
    BY <1>8 DEF DoTx
  <2>2. /\ m \in MacType
        /\ \/ m.accepted = mac.accepted
           \/ /\ m.accepted = Append(mac.accepted, trx_buf)
              /\ trx_buf.size \in 1..127 /\ "TRX_END" \in status
    BY <1>0, HandleIrqAccepts, HandleIrqType
  <2>4. /\ irq_status' = {} /\ UNCHANGED <<count, fifo, frames, partial>>
        /\ trx' = "BUSY_TX_ARET" => trx_buf' = NoFrame
        /\ trx_buf' = trx_buf \/ trx_buf' = NoFrame
    BY <1>8 DEF TxData, DoTx, host
  <2> HIDE DEF m
  <2>5. StartTx(m).accepted = m.accepted
    BY <2>2 DEF StartTx, MacType
  <2> QED BY <1>1, <2>1, <2>2, <2>4, <2>5
<1>9. CASE BusReset
  BY <1>0, <1>9 DEF BusReset, MacType
<1> QED BY <1>3, <1>4, <1>5, <1>6, <1>7, <1>8, <1>9, MacSteps

\* Ids go up from the radio to the ring.
LEMMA FreshNext ==
    ASSUME TypeOK, TypeOK', Ascending(mac), Fresh, [Next]_vars
    PROVE  Ascending(mac') /\ Fresh'
<1>0. /\ mac.accepted \in Seq(Frames) /\ Len(mac.accepted) \in Nat /\ trx_buf \in Frames
      /\ trx_buf.id \in Nat /\ count \in [Events -> Nat] /\ count["frame"] \in Nat
      /\ Limit["frame"] \in Nat
      /\ Ascending(mac) /\ Fresh
  BY MacFacts, FrameType, HardMacAssumption DEF TypeOK, Events
<1>a. \A i \in 1..Len(mac.accepted) : mac.accepted[i].id \in Nat
  <2> TAKE i \in 1..Len(mac.accepted)
  <2>1. mac.accepted[i] \in Frames
    BY <1>0
  <2> QED BY <2>1, FrameType
<1>1. CASE mac'.accepted = mac.accepted
  <2>1. Ascending(mac')
    BY <1>0, <1>1 DEF Ascending
  <2>2. CASE FrameArrives
    <3>1. PICK size \in Sizes : trx_buf' = [id |-> count["frame"] + 1, size |-> size]
      BY <2>2 DEF FrameArrives
    <3>2. count'["frame"] = count["frame"] + 1 /\ count["frame"] < Limit["frame"]
      BY <1>0, <2>2 DEF FrameArrives, Happens, Events
    <3>3. trx_buf'.id = count["frame"] + 1 /\ trx_buf'.size \in Sizes /\ trx' # "BUSY_TX_ARET"
      BY <2>2, <3>1 DEF FrameArrives
    <3>4. \A i \in 1..Len(mac.accepted) : mac.accepted[i].id <= count["frame"]
      BY <1>0 DEF Fresh
    <3>5. Fresh'
      BY <1>0, <1>1, <1>a, <3>2, <3>3, <3>4 DEF Fresh
    <3> QED BY <2>1, <3>5
  <2>3. CASE ~FrameArrives
    <3>1. count'["frame"] = count["frame"]
      BY <1>0, <2>3 DEF Next, Radio, Firmware, Requests, TxEnds, OtherIrq, Int0,
         Ep1Tx, RxModeOn, RxModeOff, RfReset, TxRequest, OtherRequest, TxData, BusReset,
         HostIn, Happens, Events, vars
    <3>2. trx_buf' = trx_buf \/ trx_buf' = NoFrame
      BY <2>3 DEF Next, Radio, Firmware, Requests, TxEnds, OtherIrq, Int0,
         Ep1Tx, RxModeOn, RxModeOff, RfReset, TxRequest, OtherRequest, TxData, DoTx,
         BusReset, HostIn, vars, radio
    <3>3. trx' = "BUSY_TX_ARET" => trx_buf' = NoFrame
      BY <1>0, <2>3 DEF Fresh, Next, Radio, Firmware, Requests, TxEnds, OtherIrq, Int0,
         Ep1Tx, RxModeOn, RxModeOff, RfReset, TxRequest, OtherRequest, TxData, DoTx,
         BusReset, HostIn, vars, radio
    <3>4. "TRX_END" \in irq_status' /\ trx_buf'.size # 0 =>
            "TRX_END" \in irq_status /\ trx_buf' = trx_buf
      BY <1>0, <2>3, <3>2 DEF Fresh, Next, Radio, Firmware, Requests, TxEnds, OtherIrq, Int0,
         Ep1Tx, RxModeOn, RxModeOff, RfReset, TxRequest, OtherRequest, TxData, DoTx,
         BusReset, HostIn, vars, radio, Raise, NoFrame
    <3>5. Fresh'
      BY <1>0, <1>1, <3>1, <3>2, <3>3, <3>4 DEF Fresh
    <3> QED BY <2>1, <3>5
  <2> QED BY <2>2, <2>3
<1>2. CASE /\ mac'.accepted = Append(mac.accepted, trx_buf) /\ trx_buf.size \in 1..127
           /\ "TRX_END" \in irq_status /\ irq_status' = {}
           /\ trx' = "BUSY_TX_ARET" => trx_buf' = NoFrame
           /\ trx_buf' = trx_buf \/ trx_buf' = NoFrame
           /\ UNCHANGED <<count, fifo, frames, partial>>
  <2> DEFINE L == Len(mac.accepted)
  <2>1. /\ Len(mac'.accepted) = L + 1 /\ mac'.accepted[L + 1] = trx_buf
        /\ \A i \in 1..L : mac'.accepted[i] = mac.accepted[i]
    BY <1>0, <1>2
  <2>2. trx_buf.size # 0 /\ trx_buf # NoFrame
    BY <1>2, NotEmpty
  <2>3. \A i \in 1..L : mac.accepted[i].id < trx_buf.id
    BY <1>0, <1>2, <2>2 DEF Fresh
  <2>4. trx_buf.id <= count["frame"]
    BY <1>0, <2>2 DEF Fresh
  <2>5. \A i, j \in 1..L : i < j => mac.accepted[i].id < mac.accepted[j].id
    BY <1>0 DEF Ascending
  <2>6. \A i \in 1..L : mac.accepted[i].size \in 1..127 /\ mac.accepted[i].id <= count["frame"]
    BY <1>0 DEF Ascending, Fresh
  <2> HIDE DEF L
  <2>7. L \in Nat
    BY <1>0 DEF L
  <2>8. \A i \in 1..(L + 1) : i \in 1..L \/ i = L + 1
    BY <2>7
  <2>9. \A i \in 1..(L + 1) : mac'.accepted[i].size \in 1..127 /\ mac'.accepted[i].id <= count["frame"]
    BY <1>2, <2>1, <2>4, <2>6, <2>8
  <2>10. \A i, j \in 1..(L + 1) : i < j => mac'.accepted[i].id < mac'.accepted[j].id
    <3> TAKE i, j \in 1..(L + 1)
    <3> HAVE i < j
    <3>1. i \in 1..L
      BY <2>7
    <3> QED BY <2>1, <2>3, <2>5, <2>8, <3>1
  <2>11. Ascending(mac')
    BY <2>1, <2>9, <2>10 DEF Ascending
  <2>12. count' = count
    BY <1>2
  <2>13. Fresh'
    BY <1>0, <1>2, <2>1, <2>9, <2>12 DEF Fresh
  <2> QED BY <2>11, <2>13
<1> QED BY <1>1, <1>2, Accepts

LEMMA InitOrder == Init => OrderInv
<1> SUFFICES ASSUME Init PROVE OrderInv
  OBVIOUS
<1>1. /\ mac.accepted = <<>> /\ Len(mac.accepted) = 0 /\ mac.rx_in = 0 /\ mac.rx_out = 0
      /\ mac.ep1.state = "EP_IDLE" /\ count["frame"] = 0 /\ fifo = <<>>
      /\ partial = NoMessage /\ frames = <<>> /\ Len(frames) = 0 /\ irq_status = {}
      /\ trx_buf = NoFrame
  BY DEF Init, MacInit, IdleEp1, Opened, Events, NoPacket
<1>2. Ascending(mac) /\ Fresh
  BY <1>1, HardMacAssumption DEF Ascending, Fresh, NoFrame, Events
<1>3. RingHolds(mac, 0)
  BY <1>1, HardMacAssumption DEF RingHolds, Held, Wrap
<1>4. Ep1Sends(mac, 0) /\ Drained(mac, 0) /\ SentOf(mac, 0) = 0
  BY <1>1 DEF Ep1Sends, Drained, SentOf, SendsFrame, Held
<1>5. HostHas(0)
  BY <1>1 DEF HostHas
<1>6. BankEmpty(0)
  BY <1>1, <1>4, <1>5 DEF BankEmpty, HostHasPart, NoMessage
<1>7. 0 \in 0..Len(mac.accepted)
  BY <1>1
<1> QED BY <1>2, <1>3, <1>4, <1>6, <1>7 DEF OrderInv, Transit, Bank

LEMMA NextOrder ==
    ASSUME TypeOK, TypeOK', OrderInv, [Next]_vars, RX_BUFS > 1, Limit["rf_reset"] = 0
    PROVE  OrderInv'
BY TransitNext, FreshNext DEF OrderInv

\* What the host has at any time, up to the frame that is half way.
HostHasSome ==
    \E d \in 0..Len(mac.accepted) :
        \E e \in 0..d : HostHas(e) /\ RingHolds(mac, d) /\ (Calm => e + 1 >= d)

LEMMA SomeDelivered == TypeOK /\ OrderInv => HostHasSome
<1> SUFFICES ASSUME TypeOK, OrderInv PROVE HostHasSome
  OBVIOUS
<1>0. Len(mac.accepted) \in Nat
  BY MacFacts DEF TypeOK
<1>1. PICK d \in 0..Len(mac.accepted) : Transit(d)
  BY DEF OrderInv
<1>2. CASE HostHas(d)
  <2>1. d \in 0..d /\ d + 1 >= d
    BY <1>0
  <2> QED BY <1>1, <1>2, <2>1 DEF Transit, HostHasSome
<1>3. ASSUME NEW p, BankLast(d, p)
      PROVE  \E e \in 0..d : HostHas(e) /\ (Calm => e + 1 >= d)
  <2>1. PICK e \in 1..d : (Calm => e = d) /\ HostHas(e - 1)
    BY <1>3 DEF BankLast
  <2>2. e - 1 \in 0..d /\ (Calm => (e - 1) + 1 >= d)
    BY <1>0, <2>1
  <2> QED BY <2>1, <2>2
<1> QED BY <1>1, <1>2, <1>3 DEF Transit, Bank, BankEmpty, BankFull, BankByte,
       HostHasSome

LEMMA OrderedSoFar == TypeOK /\ OrderInv => InOrder
<1> SUFFICES ASSUME TypeOK, OrderInv PROVE InOrder
  OBVIOUS
<1>1. PICK d \in 0..Len(mac.accepted) : \E e \in 0..d : HostHas(e)
  BY SomeDelivered DEF HostHasSome
<1>2. PICK e \in 0..d : HostHas(e)
  BY <1>1
<1>3. Len(mac.accepted) \in Nat
  BY MacFacts DEF TypeOK
<1>4. \A j \in 1..e : j \in 1..Len(mac.accepted)
  BY <1>3
<1> QED BY <1>2, <1>4 DEF HostHas, InOrder

\* Frames reach the host whole, in order and once, for every ring of more than one
\* slot, through overruns, transmissions, mode changes and bus resets.  (A reset of
\* the transceiver is what breaks it: RepeatsBounded.)
THEOREM FramesInOrder ==
    ASSUME RX_BUFS > 1, Limit["rf_reset"] = 0 PROVE Spec => []InOrder
<1>1. TypeOK /\ OrderInv /\ [Next]_vars => TypeOK' /\ OrderInv'
  BY NextType, NextOrder
<1> QED BY <1>1, InitType, InitOrder, OrderedSoFar, PTL DEF Spec

-----------------------------------------------------------------------------
(* The pipe                                                                *)

AcceptedMessages == [i \in 1..Len(mac.accepted) |-> MessageOf(mac.accepted[i])]
PipeContent == {MessageOf(f) : f \in [id : 1..Limit["frame"], size : Sizes]}

LEMMA FramesGrow ==
    ASSUME [Next]_vars PROVE frames' = frames \/ \E x : frames' = Append(frames, x)
BY DEF Next, Radio, Firmware, Requests, FrameArrives, TxEnds, OtherIrq, Int0, Ep1Tx,
   RxModeOn, RxModeOff, RfReset, TxRequest, OtherRequest, TxData, BusReset, HostIn,
   vars, host

LEMMA PipeStep ==
    ASSUME TypeOK, TypeOK', OrderInv, [Next]_vars, RX_BUFS > 1, Limit["rf_reset"] = 0,
           HostHasSome, HostHasSome', Calm, Calm'
    PROVE  [Pipe!Next]_(Pipe!vars)
<1> DEFINE acc == AcceptedMessages
           L == Len(mac.accepted)
<1>0. /\ mac.accepted \in Seq(Frames) /\ L \in Nat /\ mac'.accepted \in Seq(Frames)
      /\ Len(mac'.accepted) \in Nat /\ RX_BUFS \in Nat
      /\ frames \in Seq(Messages) /\ Len(frames) \in Nat
      /\ frames' \in Seq(Messages) /\ Len(frames') \in Nat
  BY MacFacts DEF TypeOK
<1>1. Len(acc) = L /\ Len(acc)' = Len(mac'.accepted)
  BY <1>0 DEF AcceptedMessages
<1>2. PICK d \in 0..Len(mac.accepted) : \E e \in 0..d :
         HostHas(e) /\ RingHolds(mac, d) /\ e + 1 >= d
  BY DEF HostHasSome
<1>3. PICK e \in 0..d : HostHas(e) /\ e + 1 >= d
  BY <1>2
<1>4. Len(frames) = e /\ \A i \in 1..e : frames[i] = MessageOf(mac.accepted[i])
  BY <1>3 DEF HostHas
<1>5. PICK dd \in 0..Len(mac'.accepted) : \E ee \in 0..dd :
         HostHas(ee)' /\ RingHolds(mac', dd) /\ ee + 1 >= dd
  BY DEF HostHasSome
<1>6. PICK ee \in 0..dd : HostHas(ee)' /\ RingHolds(mac', dd) /\ ee + 1 >= dd
  BY <1>5
<1>7. Len(frames') = ee /\ \A i \in 1..ee : frames'[i] = MessageOf(mac'.accepted[i])
  BY <1>6 DEF HostHas
<1>8. CASE mac'.accepted = mac.accepted /\ frames' = frames
  <2>1. acc' = acc
    BY <1>8 DEF AcceptedMessages
  <2> QED BY <1>8, <2>1 DEF Pipe!vars, AcceptedMessages
<1>9. ASSUME mac'.accepted = mac.accepted, NEW x, frames' = Append(frames, x)
      PROVE  Pipe!Next
  <2>1. Len(frames') = e + 1 /\ ee = e + 1 /\ e < L
    BY <1>0, <1>4, <1>7, <1>9
  <2>2. x = acc[e + 1]
    <3>1. frames'[e + 1] = x
      BY <1>0, <1>4, <1>9
    <3>2. frames'[e + 1] = MessageOf(mac.accepted[e + 1]) /\ e + 1 \in 1..L
      BY <1>0, <1>7, <1>9, <2>1
    <3> QED BY <3>1, <3>2 DEF AcceptedMessages
  <2>3. acc' = acc
    BY <1>9 DEF AcceptedMessages
  <2>4. frames' = Append(frames, acc[Len(frames) + 1]) /\ Len(frames) < Len(acc)
    BY <1>1, <1>4, <1>9, <2>1, <2>2
  <2> QED BY <2>3, <2>4 DEF Pipe!Next, Pipe!Deliver, AcceptedMessages
<1>10. CASE mac'.accepted # mac.accepted
  <2>1. /\ mac'.accepted = Append(mac.accepted, trx_buf) /\ trx_buf.size \in 1..127
        /\ frames' = frames
    BY <1>10, Accepts DEF OrderInv
  <2>2. Len(mac'.accepted) = L + 1 /\ Len(mac'.accepted) - dd <= RX_BUFS
    BY <1>0, <1>6, <2>1 DEF RingHolds, Held
  <2>3. ee = e
    BY <1>4, <1>7, <2>1
  <2>4. L - Len(frames) < RX_BUFS + 1
    BY <1>0, <1>4, <1>6, <2>2, <2>3
  <2>5. MessageOf(trx_buf) \in PipeContent
    <3>1. trx_buf \in Frames /\ Fresh /\ trx_buf # NoFrame
      BY <2>1, NotEmpty DEF TypeOK, OrderInv
    <3>2. /\ trx_buf.id \in 1..count["frame"] /\ trx_buf.size \in Sizes
          /\ count["frame"] <= Limit["frame"]
      BY <3>1 DEF Fresh
    <3>3. count["frame"] \in Nat /\ Limit["frame"] \in Nat
      BY HardMacAssumption DEF TypeOK, Events
    <3>4. trx_buf.id \in 1..Limit["frame"]
      BY <3>2, <3>3
    <3>5. trx_buf \in [id : 1..Limit["frame"], size : Sizes]
      BY <3>1, <3>2, <3>4 DEF Frames
    <3> QED BY <3>5 DEF PipeContent
  <2>6. acc' = Append(acc, MessageOf(trx_buf))
    BY <1>0, <1>1, <2>1, <2>2 DEF AcceptedMessages
  <2> QED BY <1>1, <2>1, <2>4, <2>5, <2>6 DEF Pipe!Next, Pipe!Accept, AcceptedMessages,
         PipeContent
<1> QED BY <1>8, <1>9, <1>10, FramesGrow

\* Until the first bus reset the receive path is a pipe of RX_BUFS + 1 frames:
\* what is accepted is delivered, once, in order, with nothing left out.
THEOREM ImplementsPipe ==
    ASSUME RX_BUFS > 1, Limit["rf_reset"] = 0, Limit["bus_reset"] = 0
    PROVE  Spec => PipeSpec
<1>1. TypeOK /\ OrderInv /\ [Next]_vars => TypeOK' /\ OrderInv'
  BY NextType, NextOrder
<1>2. Init => Calm
  BY DEF Init, Calm, Events
<1>3. TypeOK /\ Calm /\ [Next]_vars => Calm'
  <2> SUFFICES ASSUME TypeOK, Calm, [Next]_vars PROVE Calm'
    OBVIOUS
  <2>1. ~BusReset
    BY DEF BusReset, Happens, Calm
  <2>2. count["bus_reset"] = 0 /\ count \in [Events -> Nat]
    BY DEF Calm, TypeOK
  <2> QED BY <2>1, <2>2 DEF Calm, Next, Radio, Firmware, Requests, FrameArrives, TxEnds,
       OtherIrq, Int0, Ep1Tx, RxModeOn, RxModeOff, RfReset, TxRequest, OtherRequest,
       TxData, HostIn, Happens, Events, vars
<1>4. Init => Pipe!Init
  BY DEF Init, MacInit, Pipe!Init
<1>5. /\ TypeOK /\ TypeOK' /\ OrderInv /\ [Next]_vars
      /\ HostHasSome /\ HostHasSome' /\ Calm /\ Calm'
      => [Pipe!Next]_(Pipe!vars)
  BY PipeStep
<1> QED BY <1>1, <1>2, <1>3, <1>4, <1>5, SomeDelivered, InitType, InitOrder, PTL
     DEF Spec, PipeSpec, Pipe!Spec

-----------------------------------------------------------------------------
(* The answers                                                             *)

\* Where an answer can be: due for the transmission on the air, queued, a byte that
\* EP1 sends, or the byte in the bank.
SendsByte(m) == m.ep1.state = "EP_TX" /\ m.ep1.callback # "rx_done"
ByteInBank == fifo # NoPacket /\ partial.len + Head(fifo).n = 1

\* At most one answer is under way in mac.c, and it is for ack_seq s.
OneAnswer(m, s, ended) ==
    /\ m.txing => ~m.queued_tx_ack /\ ~SendsByte(m) /\ m.this_seq = s
    /\ m.queued_tx_ack => ~SendsByte(m) /\ m.queued_seq = s /\ ended
    /\ SendsByte(m) =>
          /\ m.ep1.callback = "tx_ack_done" /\ m.ep1.left = 1
          /\ m.ep1.buf \in {Byte("this_seq"), Byte("queued_seq")}
          /\ Contents(m) = s /\ ended

NoAnswer(m) == ~m.txing /\ ~m.queued_tx_ack /\ ~SendsByte(m)

AnswerInv ==
    /\ OneAnswer(mac, awaiting, awaiting \in completed)
    /\ mac.txing => \/ trx = "BUSY_TX_ARET" /\ irq_status = {}
                    \/ awaiting \in completed
    /\ ByteInBank => NoAnswer(mac) /\ Head(fifo).val = awaiting /\ awaiting \in completed
    /\ ep0_tx => NoAnswer(mac) /\ ~ByteInBank /\ mac.next_seq = awaiting
    /\ awaiting = 0 => NoAnswer(mac) /\ ~ByteInBank /\ ~ep0_tx
    /\ count["rx_mode"] = 0 => ~mac_irq
    /\ ~mac_irq => /\ ~int0 /\ irq_status = {} /\ trx = "TRX_OFF"
                   /\ NoAnswer(mac) /\ EpIdle(mac.ep1) /\ fifo = NoPacket

\* usb_next() on an idle EP1 opens the transfer of a frame, or of the queued answer.
LEMMA UsbNextAnswer ==
    ASSUME NEW m \in MacType, EpIdle(m.ep1), NEW s, NEW ended \in BOOLEAN,
           OneAnswer(m, s, ended)
    PROVE  LET n == UsbNext(m) IN
           /\ OneAnswer(n, s, ended)
           /\ NoAnswer(m) => NoAnswer(n)
           /\ n.txing = m.txing /\ n.next_seq = m.next_seq
<1> DEFINE n == SendFrame(m)
           q == SendQueuedAck(n)
<1>1. n \in MacType
  BY SendFrameType
<1>2. /\ n.txing = m.txing /\ n.queued_tx_ack = m.queued_tx_ack /\ n.this_seq = m.this_seq
      /\ n.queued_seq = m.queued_seq /\ n.next_seq = m.next_seq /\ ~SendsByte(n)
  BY DEF SendFrame, UsbSend, Opened, SendsByte, EpIdle, MacType
<1> HIDE DEF n
<1>3. ~SendsByte(m) /\ UsbNext(m) = q
  BY DEF SendsByte, EpIdle, UsbNext, n
<1>4. CASE ~n.queued_tx_ack \/ n.panicked \/ ~EpIdle(n.ep1)
  <2>1. /\ q.txing = n.txing /\ q.queued_tx_ack = n.queued_tx_ack /\ q.this_seq = n.this_seq
        /\ q.queued_seq = n.queued_seq /\ q.next_seq = n.next_seq /\ q.ep1 = n.ep1
    BY <1>1, <1>4 DEF SendQueuedAck, UsbSend, MacType
  <2> HIDE DEF q
  <2>2. ~SendsByte(q)
    BY <1>2, <2>1 DEF SendsByte
  <2> QED BY <1>2, <1>3, <2>1, <2>2 DEF OneAnswer, NoAnswer
<1>5. CASE n.queued_tx_ack /\ ~n.panicked /\ EpIdle(n.ep1)
  <2>1. /\ q.txing = n.txing /\ q.queued_tx_ack = FALSE /\ q.this_seq = n.this_seq
        /\ q.queued_seq = n.queued_seq /\ q.next_seq = n.next_seq
        /\ q.ep1 = Opened("EP_TX", Byte("queued_seq"), 1, "tx_ack_done")
    BY <1>1, <1>5 DEF SendQueuedAck, UsbSend, MacType
  <2> HIDE DEF q
  <2>2. /\ q.ep1.callback = "tx_ack_done" /\ q.ep1.left = 1 /\ q.ep1.buf = Byte("queued_seq")
    BY <2>1 DEF Opened
  <2>3. Contents(q) = q.queued_seq
    BY <2>2 DEF Contents, Byte
  <2>4. ~m.txing /\ m.queued_seq = s /\ ended /\ m.queued_tx_ack
    BY <1>2, <1>5 DEF OneAnswer
  <2> QED BY <1>2, <1>3, <2>1, <2>2, <2>3, <2>4 DEF OneAnswer, NoAnswer
<1> QED BY <1>4, <1>5

LEMMA SameAnswer ==
    ASSUME NEW m, NEW n, NEW s, NEW ended, OneAnswer(m, s, ended),
           n.txing = m.txing, n.queued_tx_ack = m.queued_tx_ack, n.this_seq = m.this_seq,
           n.queued_seq = m.queued_seq, n.ep1 = m.ep1
    PROVE  OneAnswer(n, s, ended) /\ (NoAnswer(m) => NoAnswer(n))
<1>1. SendsByte(n) = SendsByte(m)
  BY DEF SendsByte
<1>2. SendsByte(m) => Contents(n) = Contents(m)
  BY DEF OneAnswer, Contents, Byte
<1> QED BY <1>1, <1>2 DEF OneAnswer, NoAnswer

LEMMA AnswerTxAnswer ==
    ASSUME NEW m \in MacType, NEW s, OneAnswer(m, s, TRUE), m.txing
    PROVE  LET n == AnswerTx(m) IN
           OneAnswer(n, s, TRUE) /\ ~n.txing /\ n.next_seq = m.next_seq
<1> DEFINE n == AnswerTx(m)
<1>1. /\ n.txing = FALSE /\ n.this_seq = m.this_seq /\ n.next_seq = m.next_seq
      /\ EpIdle(m.ep1) =>
            /\ n.ep1 = Opened("EP_TX", Byte("this_seq"), 1, "tx_ack_done")
            /\ n.queued_tx_ack = m.queued_tx_ack
      /\ ~EpIdle(m.ep1) => n.ep1 = m.ep1 /\ n.queued_seq = m.this_seq
  BY DEF AnswerTx, UsbSend, MacType
<1> HIDE DEF n
<1>2. m.this_seq = s /\ ~m.queued_tx_ack /\ ~SendsByte(m)
  BY DEF OneAnswer
<1>3. CASE EpIdle(m.ep1)
  <2>1. /\ n.ep1.callback = "tx_ack_done" /\ n.ep1.left = 1 /\ n.ep1.buf = Byte("this_seq")
    BY <1>1, <1>3 DEF Opened
  <2>2. Contents(n) = n.this_seq
    BY <2>1 DEF Contents, Byte
  <2> QED BY <1>1, <1>2, <1>3, <2>1, <2>2 DEF OneAnswer, n
<1>4. CASE ~EpIdle(m.ep1)
  <2>1. ~SendsByte(n)
    BY <1>1, <1>2, <1>4 DEF SendsByte
  <2> QED BY <1>1, <1>2, <1>4, <2>1 DEF OneAnswer, n
<1> QED BY <1>3, <1>4

LEMMA HandleIrqAnswer ==
    ASSUME NEW m \in MacType, NEW status, NEW f \in Frames, NEW s, NEW ended \in BOOLEAN,
           OneAnswer(m, s, ended), m.txing /\ "TRX_END" \in status => ended
    PROVE  LET n == HandleIrq(m, status, f) IN
           /\ OneAnswer(n, s, ended)
           /\ NoAnswer(m) => NoAnswer(n)
           /\ n.txing => m.txing
           /\ n.next_seq = m.next_seq
<1> DEFINE n == HandleIrq(m, status, f)
           t == StoreFrame(m, f)
<1>1. CASE n = m
  BY <1>1
<1>2. CASE "TRX_END" \in status /\ m.txing
  <2>1. ended /\ ended = TRUE
    BY <1>2
  <2>2. OneAnswer(AnswerTx(m), s, TRUE) /\ ~AnswerTx(m).txing /\ AnswerTx(m).next_seq = m.next_seq
    BY <1>2, <2>1, AnswerTxAnswer
  <2>3. n = AnswerTx(m)
    BY <1>2 DEF HandleIrq
  <2> HIDE DEF n
  <2> QED BY <1>2, <2>1, <2>2, <2>3 DEF n, NoAnswer
<1>3. CASE n # m /\ ~("TRX_END" \in status /\ m.txing)
  <2>1. /\ t \in MacType /\ t.ep1 = m.ep1 /\ t.txing = m.txing /\ t.this_seq = m.this_seq
        /\ t.queued_tx_ack = m.queued_tx_ack /\ t.queued_seq = m.queued_seq
        /\ t.next_seq = m.next_seq
    BY StoreFrameType DEF StoreFrame, MacType
  <2>2. n = t \/ (n = UsbNext(t) /\ EpIdle(m.ep1))
    BY <1>3 DEF HandleIrq, ReceiveFrame
  <2> HIDE DEF n, t
  <2>3. OneAnswer(t, s, ended) /\ (NoAnswer(m) => NoAnswer(t))
    BY <2>1, SameAnswer
  <2>4. CASE n = t
    BY <2>1, <2>3, <2>4 DEF n
  <2>5. CASE n = UsbNext(t) /\ EpIdle(m.ep1)
    <3>1. /\ OneAnswer(UsbNext(t), s, ended)
          /\ NoAnswer(t) => NoAnswer(UsbNext(t))
          /\ UsbNext(t).txing = t.txing /\ UsbNext(t).next_seq = t.next_seq
      BY <2>1, <2>3, <2>5, UsbNextAnswer
    <3> QED BY <2>1, <2>3, <2>5, <3>1 DEF n
  <2> QED BY <2>2, <2>4, <2>5
<1> QED BY <1>1, <1>2, <1>3

\* A packet of a frame is not taken for a byte.
LEMMA FrameNotByte ==
    ASSUME TypeOK, OrderInv, Ep1Tx, SendsFrame(mac) PROVE ~ByteInBank'
<1>1. PICK d \in 0..Len(mac.accepted) : Transit(d)
  BY DEF OrderInv
<1>2. fifo = <<>> /\ fifo'[1].n = PacketSize(mac.ep1) /\ Head(fifo') = fifo'[1] /\ partial' = partial
  BY DEF Ep1Tx, host, NoPacket
<1>3. mac.accepted[d + 1].size \in Nat /\ mac.accepted[d + 1].size > 0 /\ mac.ep1.left \in Nat
  <2>1. mac \in MacType
    BY DEF TypeOK
  <2>2. RingHolds(mac, d) /\ Held(mac, d) > 0
    BY <1>1 DEF Transit, Ep1Sends
  <2>3. mac.accepted[d + 1] \in Frames /\ d + 1 \in 1..Len(mac.accepted)
    BY <2>1, <2>2, RingTests
  <2>4. mac.accepted[d + 1].size \in 1..127
    BY <2>3 DEF OrderInv, Ascending
  <2>5. mac.accepted[d + 1].size # 0
    BY <2>4, NotEmpty
  <2>6. mac.ep1.left \in Nat
    BY <2>1 DEF MacType, Endpoints
  <2> QED BY <2>3, <2>5, <2>6, FrameType
<1>4. PICK size \in Nat, left \in Nat : size = mac.accepted[d + 1].size /\ left = mac.ep1.left
  BY <1>3
<1>5. partial.len = size + 2 - left /\ size > 0
  <2>1. \A q : fifo # <<q>>
    BY <1>2
  <2> QED BY <1>1, <1>3, <1>4, <2>1 DEF Transit, Bank, BankEmpty, HostHasPart, SentOf
<1>6. fifo'[1].n = IF left > 64 THEN 64 ELSE left
  BY <1>2, <1>4 DEF PacketSize, EP_SIZE
<1>7. partial.len + fifo'[1].n # 1
  <2>1. left <= size + 2
    BY <1>1, <1>4 DEF Transit, Ep1Sends
  <2> QED BY <1>5, <1>6, <2>1
<1> QED BY <1>2, <1>7 DEF ByteInBank

LEMMA InitAnswer == Init => AnswerInv
<1> SUFFICES ASSUME Init PROVE AnswerInv
  OBVIOUS
<1>1. NoAnswer(mac) /\ EpIdle(mac.ep1) /\ ~ByteInBank
  BY DEF Init, MacInit, NoAnswer, SendsByte, IdleEp1, Opened, EpIdle, ByteInBank, NoPacket
<1> QED BY <1>1 DEF Init, AnswerInv, OneAnswer, NoAnswer, MacInit
LEMMA NextAnswer ==
    ASSUME TypeOK, OrderInv, AnswerInv, [Next]_vars, HostWaits, Limit["irq"] = 0,
           Limit["rf_reset"] = 0, Limit["rx_mode"] <= 1
    PROVE  AnswerInv'
<1> DEFINE ended == awaiting \in completed
<1>0. /\ mac \in MacType /\ trx_buf \in Frames /\ count \in [Events -> Nat]
      /\ count["rx_mode"] \in Nat /\ count["irq"] \in Nat /\ count["rf_reset"] \in Nat
      /\ Limit["rx_mode"] \in Nat /\ ended \in BOOLEAN /\ OneAnswer(mac, awaiting, ended)
  BY HardMacAssumption DEF TypeOK, Events, AnswerInv
<1>1. ~OtherIrq /\ ~RfReset
  BY <1>0 DEF OtherIrq, RfReset, Happens
<1>2. RxModeOn \/ RxModeOff => /\ count["rx_mode"] = 0 /\ count'["rx_mode"] = 1 /\ ~mac_irq
  <2>1. RxModeOn \/ RxModeOff => Happens("rx_mode")
    BY DEF RxModeOn, RxModeOff
  <2>2. Happens("rx_mode") => count["rx_mode"] = 0 /\ count'["rx_mode"] = 1
    BY <1>0 DEF Happens, Events
  <2> QED BY <2>1, <2>2 DEF AnswerInv
<1>3. ~RxModeOn /\ ~RxModeOff => count'["rx_mode"] = count["rx_mode"]
  BY <1>0 DEF Next, Radio, Firmware, Requests, FrameArrives, TxEnds, OtherIrq, Int0, Ep1Tx,
     RfReset, TxRequest, OtherRequest, TxData, BusReset, HostIn, Happens, Events, vars
<1>4. CASE FrameArrives
  <2>1. UNCHANGED <<mac, mac_irq, ep0_tx, fifo, partial, awaiting, completed, trx>>
        /\ trx = "RX_AACK_ON"
    BY <1>4 DEF FrameArrives, host
  <2>2. ByteInBank' = ByteInBank
    BY <2>1 DEF ByteInBank
  <2>3. count'["rx_mode"] = count["rx_mode"] /\ mac_irq
    BY <1>0, <1>4, <2>1 DEF AnswerInv, FrameArrives, Happens, Events
  <2> QED BY <2>1, <2>2, <2>3 DEF AnswerInv
<1>5. CASE TxEnds
  <2>1. /\ UNCHANGED <<mac, mac_irq, ep0_tx, fifo, partial, awaiting, count>>
        /\ completed' = completed \union {mac.this_seq} /\ trx = "BUSY_TX_ARET"
    BY <1>5 DEF TxEnds, host
  <2>2. ByteInBank' = ByteInBank
    BY <2>1 DEF ByteInBank
  <2>3. mac.txing => mac.this_seq = awaiting
    BY <1>0 DEF OneAnswer
  <2>4. OneAnswer(mac, awaiting, awaiting \in completed)'
    BY <1>0, <2>1 DEF OneAnswer, Contents, SendsByte
  <2> QED BY <2>1, <2>2, <2>3, <2>4 DEF AnswerInv
<1>6. CASE Int0
  <2>1. mac_irq /\ mac' = HandleIrq(mac, irq_status, trx_buf) /\ irq_status' = {}
    BY <1>6 DEF Int0, AnswerInv
  <2>2. /\ UNCHANGED <<mac_irq, ep0_tx, fifo, partial, awaiting, completed, trx, count>>
        /\ ByteInBank' = ByteInBank
    BY <1>6 DEF Int0, host, ByteInBank
  <2>3. mac.txing /\ "TRX_END" \in irq_status => ended
    BY DEF AnswerInv
  <2> HIDE DEF ended
  <2>4. /\ OneAnswer(mac', awaiting, ended)
        /\ NoAnswer(mac) => NoAnswer(mac')
        /\ mac'.txing => mac.txing
        /\ mac'.next_seq = mac.next_seq
    BY <1>0, <2>1, <2>3, HandleIrqAnswer
  <2> QED BY <2>1, <2>2, <2>4 DEF AnswerInv, ended
<1>7. CASE Ep1Tx
  <2> DEFINE m == [mac EXCEPT !.ep1 = AfterPacket(@)]
  <2>1. m \in MacType
    BY <1>0, PacketSentType
  <2>2. /\ m.ep1.callback = mac.ep1.callback
        /\ m.ep1.state = IF PacketSize(mac.ep1) = EP_SIZE THEN mac.ep1.state ELSE "EP_IDLE"
    BY <1>0, PacketSent
  <2>3. /\ m.txing = mac.txing /\ m.queued_tx_ack = mac.queued_tx_ack
        /\ m.this_seq = mac.this_seq /\ m.queued_seq = mac.queued_seq
        /\ m.next_seq = mac.next_seq
    BY <1>0 DEF MacType
  <2>4. mac' = IF EpIdle(m.ep1) THEN Callback(m) ELSE m
    BY <1>7 DEF Ep1Tx
  <2>5. /\ UNCHANGED <<mac_irq, ep0_tx, int0, partial, awaiting, completed, trx, irq_status, count>>
        /\ fifo = NoPacket /\ mac.ep1.state = "EP_TX" /\ ~ByteInBank /\ mac_irq
    BY <1>7 DEF Ep1Tx, host, radio, ByteInBank, AnswerInv, EpIdle
  <2> HIDE DEF m
  <2>6. OneAnswer(m, awaiting, ended) /\ (NoAnswer(mac) => NoAnswer(m))
    <3>1. CASE ~SendsByte(m)
      BY <1>0, <2>3, <3>1 DEF OneAnswer, NoAnswer
    <3>2. CASE SendsByte(m)
      <4>1. SendsByte(mac)
        BY <2>2, <2>5, <3>2 DEF SendsByte
      <4>2. PacketSize(mac.ep1) = 1
        BY <1>0, <4>1 DEF OneAnswer, PacketSize, EP_SIZE
      <4> QED BY <2>2, <3>2, <4>2 DEF SendsByte, EP_SIZE
    <3> QED BY <3>1, <3>2
  <2>7. /\ OneAnswer(mac', awaiting, ended) /\ (NoAnswer(m) => NoAnswer(mac'))
        /\ mac'.txing = mac.txing /\ mac'.next_seq = mac.next_seq
    <3>1. CASE ~EpIdle(m.ep1)
      BY <2>3, <2>4, <2>6, <3>1
    <3>2. CASE EpIdle(m.ep1) /\ mac.ep1.callback = "rx_done"
      <4> DEFINE r == [m EXCEPT !.rx_out = NextBuf(@)]
      <4>1. NextBuf(m.rx_out) \in Slots
        BY <2>1, NextBufType DEF MacType
      <4>2. /\ r \in MacType /\ r.ep1 = m.ep1 /\ r.txing = m.txing
            /\ r.queued_tx_ack = m.queued_tx_ack /\ r.this_seq = m.this_seq
            /\ r.queued_seq = m.queued_seq /\ r.next_seq = m.next_seq
        BY <2>1, <4>1 DEF MacType
      <4>3. mac' = UsbNext(r)
        BY <2>2, <2>4, <3>2 DEF Callback, RxDone
      <4> HIDE DEF r
      <4>4. OneAnswer(r, awaiting, ended) /\ (NoAnswer(m) => NoAnswer(r))
        BY <2>6, <4>2, SameAnswer
      <4> QED BY <1>0, <2>3, <3>2, <4>2, <4>3, <4>4, UsbNextAnswer
    <3>3. CASE EpIdle(m.ep1) /\ mac.ep1.callback # "rx_done"
      <4>1. SendsByte(mac)
        BY <2>5, <3>3 DEF SendsByte
      <4>2. mac' = UsbNext(m)
        BY <1>0, <2>2, <2>4, <3>3, <4>1 DEF OneAnswer, Callback, TxAckDone
      <4> QED BY <1>0, <2>1, <2>3, <2>6, <3>3, <4>2, UsbNextAnswer
    <3> QED BY <3>1, <3>2, <3>3
  <2>8. ASSUME ByteInBank'
        PROVE  NoAnswer(mac') /\ Head(fifo').val = awaiting /\ ended /\ ~NoAnswer(mac)
    <3>1. SendsByte(mac)
      BY <1>7, <2>5, <2>8, FrameNotByte DEF SendsByte, SendsFrame
    <3>2. Head(fifo').val = Contents(mac)
      BY <1>7 DEF Ep1Tx
    <3>3. PacketSize(mac.ep1) = 1 /\ Contents(mac) = awaiting /\ ended
      BY <1>0, <3>1 DEF OneAnswer, PacketSize, EP_SIZE
    <3>4. NoAnswer(m)
      BY <1>0, <2>2, <2>3, <3>1, <3>3 DEF OneAnswer, NoAnswer, SendsByte, EP_SIZE
    <3> QED BY <2>7, <3>1, <3>2, <3>3, <3>4 DEF NoAnswer
  <2> QED BY <2>5, <2>6, <2>7, <2>8 DEF AnswerInv
<1>8. CASE RxModeOn
  <2>1. /\ UNCHANGED <<mac, fifo, partial, awaiting, completed>>
        /\ ~ep0_tx' /\ irq_status' = {} /\ mac_irq' = TRUE
    BY <1>8 DEF RxModeOn, host
  <2>2. ByteInBank' = ByteInBank
    BY <2>1 DEF ByteInBank
  <2>3. NoAnswer(mac)
    BY <1>2, <1>8 DEF AnswerInv
  <2> QED BY <1>2, <1>8, <2>1, <2>2, <2>3 DEF AnswerInv, NoAnswer
<1>9. CASE RxModeOff
  <2>1. /\ UNCHANGED <<int0, irq_status, completed, fifo, partial>> /\ trx' = "TRX_OFF"
        /\ mac' = [mac EXCEPT !.txing = FALSE] /\ ~ep0_tx' /\ awaiting' = 0 /\ ~mac_irq'
    BY <1>9 DEF RxModeOff
  <2>2. NoAnswer(mac) /\ EpIdle(mac.ep1) /\ fifo = NoPacket /\ ~int0 /\ irq_status = {}
    BY <1>2, <1>9 DEF AnswerInv
  <2>3. mac'.ep1 = mac.ep1 /\ mac'.txing = FALSE /\ mac'.queued_tx_ack = mac.queued_tx_ack
    BY <1>0, <2>1 DEF MacType
  <2>4. NoAnswer(mac') /\ EpIdle(mac'.ep1) /\ ~ByteInBank'
    BY <2>1, <2>2, <2>3 DEF NoAnswer, SendsByte, ByteInBank
  <2> QED BY <1>2, <1>9, <2>1, <2>2, <2>4 DEF AnswerInv, OneAnswer, NoAnswer
<1>10. CASE TxRequest
  <2>1. /\ UNCHANGED <<mac_irq, int0, trx, irq_status, completed, fifo, partial>>
        /\ mac' = [mac EXCEPT !.next_seq = count["tx"] + 1] /\ ep0_tx'
        /\ awaiting' = count["tx"] + 1 /\ awaiting = 0
    BY <1>10 DEF TxRequest, radio
  <2>2. NoAnswer(mac) /\ ~ByteInBank
    BY <2>1 DEF AnswerInv
  <2>3. /\ mac'.ep1 = mac.ep1 /\ mac'.txing = mac.txing
        /\ mac'.queued_tx_ack = mac.queued_tx_ack /\ mac'.next_seq = awaiting'
    BY <1>0, <2>1 DEF MacType
  <2>4. NoAnswer(mac') /\ ~ByteInBank'
    BY <2>1, <2>2, <2>3 DEF NoAnswer, SendsByte, ByteInBank
  <2>5. count["tx"] + 1 # 0
    <3>1. count["tx"] \in Nat
      BY <1>0 DEF Events
    <3> QED BY <3>1
  <2>6. count'["rx_mode"] = count["rx_mode"]
    BY <1>0, <1>10 DEF TxRequest, Happens, Events
  <2> QED BY <2>1, <2>3, <2>4, <2>5, <2>6 DEF AnswerInv, OneAnswer, NoAnswer
<1>11. CASE OtherRequest
  <2>1. /\ UNCHANGED <<mac, mac_irq, int0, trx, completed, fifo, partial, count>>
        /\ ~ep0_tx' /\ irq_status' \in {irq_status, {}}
        /\ awaiting' = IF ep0_tx THEN 0 ELSE awaiting
    BY <1>11 DEF OtherRequest
  <2>2. ByteInBank' = ByteInBank
    BY <2>1 DEF ByteInBank
  <2> QED BY <2>1, <2>2 DEF AnswerInv, OneAnswer, NoAnswer
<1>12. CASE TxData
  <2>1. ep0_tx /\ ~ep0_tx' /\ UNCHANGED <<mac_irq, fifo, partial, awaiting, count>>
        /\ ByteInBank' = ByteInBank
    BY <1>12 DEF TxData, host, ByteInBank
  <2>2. NoAnswer(mac) /\ ~ByteInBank /\ mac.next_seq = awaiting /\ awaiting # 0
    BY <2>1 DEF AnswerInv
  <2>3. CASE UNCHANGED <<mac, int0, radio>>
    BY <2>1, <2>2, <2>3 DEF AnswerInv, radio, NoAnswer
  <2>4. CASE DoTx
    <3> DEFINE status == IF trx = "BUSY_TX_ARET" THEN irq_status \union {"TRX_END"}
                         ELSE irq_status
               m == HandleIrq(mac, status, trx_buf)
    <3>1. mac' = m \/ (mac' = StartTx(m) /\ trx' = "BUSY_TX_ARET")
      BY <2>4 DEF DoTx
    <3>2. /\ m \in MacType /\ NoAnswer(m) /\ m.next_seq = mac.next_seq
      BY <1>0, <2>2, HandleIrqType, HandleIrqAnswer DEF NoAnswer
    <3>3. irq_status' = {} /\ mac_irq
      BY <2>4 DEF DoTx, AnswerInv
    <3> HIDE DEF m
    <3>4. /\ StartTx(m).ep1 = m.ep1 /\ StartTx(m).txing /\ StartTx(m).this_seq = m.next_seq
          /\ StartTx(m).queued_tx_ack = m.queued_tx_ack
      BY <3>2 DEF StartTx, MacType
    <3>5. CASE mac' = m
      BY <2>1, <2>2, <3>2, <3>3, <3>5 DEF AnswerInv, OneAnswer, NoAnswer
    <3>6. CASE mac' = StartTx(m) /\ trx' = "BUSY_TX_ARET"
      <4>1. ~SendsByte(mac') /\ ~mac'.queued_tx_ack /\ mac'.this_seq = awaiting
        BY <2>2, <3>2, <3>4, <3>6 DEF NoAnswer, SendsByte
      <4> QED BY <2>1, <2>2, <3>3, <3>6, <4>1 DEF AnswerInv, OneAnswer
    <3> QED BY <3>1, <3>5, <3>6
  <2> QED BY <1>12, <2>3, <2>4 DEF TxData
<1>13. CASE BusReset
  <2>1. /\ UNCHANGED <<mac_irq, int0, trx, irq_status, completed, awaiting>>
        /\ mac' = [mac EXCEPT !.ep1.state = "EP_IDLE"] /\ ~ep0_tx' /\ fifo' = NoPacket
    BY <1>13 DEF BusReset, radio
  <2>2. /\ mac'.ep1.state = "EP_IDLE" /\ mac'.txing = mac.txing
        /\ mac'.queued_tx_ack = mac.queued_tx_ack /\ mac'.this_seq = mac.this_seq
        /\ mac'.queued_seq = mac.queued_seq
    BY <1>0, <2>1 DEF MacType, Endpoints
  <2>3. ~SendsByte(mac') /\ ~ByteInBank' /\ EpIdle(mac'.ep1)
    BY <2>1, <2>2 DEF SendsByte, ByteInBank, EpIdle
  <2>4. count'["rx_mode"] = count["rx_mode"]
    BY <1>0, <1>13 DEF BusReset, Happens, Events
  <2>5. OneAnswer(mac', awaiting', awaiting' \in completed')
    BY <1>0, <2>1, <2>2, <2>3 DEF OneAnswer
  <2> QED BY <2>1, <2>2, <2>3, <2>4, <2>5 DEF AnswerInv, NoAnswer
<1>14. CASE HostIn
  <2>1. /\ UNCHANGED <<mac, mac_irq, ep0_tx, int0, trx, irq_status, completed, count>>
        /\ fifo' = NoPacket /\ ~ByteInBank'
    BY <1>14 DEF HostIn, device, radio, ByteInBank
  <2>2. awaiting' = awaiting \/ (ByteInBank /\ awaiting' = 0)
    BY <1>14 DEF HostIn, ByteInBank
  <2>3. fifo # NoPacket
    BY <1>14 DEF HostIn
  <2> QED BY <2>1, <2>2, <2>3 DEF AnswerInv, OneAnswer, NoAnswer
<1>15. CASE UNCHANGED vars
  <2>1. UNCHANGED <<mac, mac_irq, ep0_tx, int0, trx, irq_status, completed, count, fifo,
                    awaiting, partial>>
    BY <1>15 DEF vars, device, radio, host
  <2> QED BY <2>1 DEF AnswerInv, ByteInBank
<1> QED BY <1>1, <1>4, <1>5, <1>6, <1>7, <1>8, <1>9, <1>10, <1>11, <1>12, <1>13, <1>14,
           <1>15 DEF Next, Radio, Firmware, Requests

\* A host that waits for its answers, and leaves the mode and the other interrupts
\* alone, gets for each ATUSB_TX the ack_seq of that one and of no other, once its
\* transmission has ended, whatever bus resets drop and receptions delay.
THEOREM AnswersAreRight ==
    ASSUME HostWaits, RX_BUFS > 1, Limit["irq"] = 0, Limit["rf_reset"] = 0,
           Limit["rx_mode"] <= 1
    PROVE  Spec => AnswersMatch
<1>1. TypeOK /\ OrderInv /\ AnswerInv /\ [Next]_vars => TypeOK' /\ OrderInv' /\ AnswerInv'
  BY NextType, NextOrder, NextAnswer
<1>2. TypeOK /\ AnswerInv /\ [Next]_vars =>
         [ bytes' # bytes => /\ bytes'[Len(bytes')] = awaiting
                             /\ awaiting \in completed ]_vars
  <2> SUFFICES ASSUME TypeOK, AnswerInv, [Next]_vars, bytes' # bytes
               PROVE  bytes'[Len(bytes')] = awaiting /\ awaiting \in completed
    BY DEF vars, host
  <2>1. HostIn
    BY DEF Next, Radio, Firmware, Requests, FrameArrives, TxEnds, OtherIrq, Int0, Ep1Tx,
       RxModeOn, RxModeOff, RfReset, TxRequest, OtherRequest, TxData, BusReset, vars, host
  <2>2. bytes' = Append(bytes, Head(fifo).val) /\ ByteInBank
    BY <2>1 DEF HostIn, ByteInBank
  <2>3. bytes \in Seq(Nat)
    BY DEF TypeOK
  <2>4. bytes'[Len(bytes')] = Head(fifo).val
    BY <2>2, <2>3
  <2> QED BY <2>2, <2>4 DEF AnswerInv
<1> QED BY <1>1, <1>2, InitType, InitOrder, InitAnswer, PTL DEF Spec, AnswersMatch

-----------------------------------------------------------------------------
(* What a reset of the transceiver makes the host see again               *)

\* A line of items, each with the ids of what it holds, owes at most n repeats to
\* a host that has seen S: all but n of its items are new to the host, hold no
\* empty slot, and differ from each other.
NewItems(line, G, S) ==
    /\ \A k \in G : line[k] # {0} /\ line[k] \notin S
    /\ \A k, l \in G : k # l => line[k] # line[l]
Owes(line, S, n) ==
    \E D \in SUBSET DOMAIN line :
        Cardinality(D) <= n /\ NewItems(line, DOMAIN line \ D, S)

\* Moving items (item k of e was g[k] of h), dropping some, and adding one, j, that is
\* new leaves the debt.
Carries(h, e, g, j, S) ==
    /\ \A k \in DOMAIN e \ {j} : g[k] \in DOMAIN h /\ e[k] = h[g[k]]
    /\ \A k, l \in DOMAIN e \ {j} : g[k] = g[l] => k = l
    /\ j \in DOMAIN e => e[j] # {0} /\ e[j] \notin S /\ \A l \in DOMAIN h : h[l] # e[j]

LEMMA Carried ==
    ASSUME NEW N \in Nat, NEW h, DOMAIN h \in SUBSET (0..N), NEW e, NEW S, NEW T \in SUBSET S,
           NEW x \in Nat, Owes(h, S, x), NEW j, NEW g, Carries(h, e, g, j, S)
    PROVE  Owes(e, T, x)
<1> DEFINE A == DOMAIN h
           B == DOMAIN e
<1>0. /\ \A k \in B \ {j} : g[k] \in A /\ e[k] = h[g[k]]
      /\ \A k, l \in B \ {j} : g[k] = g[l] => k = l
      /\ j \in B => e[j] # {0} /\ e[j] \notin S /\ \A l \in A : h[l] # e[j]
  BY DEF Carries
<1>a. A \in SUBSET (0..N) /\ A = DOMAIN h /\ B = DOMAIN e
  OBVIOUS
<1> HIDE DEF A, B
<1>1. PICK D \in SUBSET A : Cardinality(D) <= x /\ NewItems(h, A \ D, S)
  BY <1>a DEF Owes
<1> DEFINE E == {k \in B \ {j} : g[k] \in D}
           f == [k \in E |-> g[k]]
<1>2. IsFiniteSet(D) /\ Cardinality(D) \in Nat
  <2>1. IsFiniteSet(0..N)
    BY FS_Interval
  <2>2. D \in SUBSET (0..N)
    BY <1>a
  <2>3. IsFiniteSet(D)
    BY <2>1, <2>2, FS_Subset
  <2> QED BY <2>3, FS_CardinalityType
<1>3. f \in Injection(E, D)
  <2>1. f \in [E -> D]
    OBVIOUS
  <2>2. \A k, l \in E : f[k] = f[l] => k = l
    BY <1>0
  <2> QED BY <2>1, <2>2 DEF Injection, IsInjective
<1>4. IsFiniteSet(E) /\ Cardinality(E) <= Cardinality(D)
  BY <1>2, <1>3, FS_Injection
<1>5. Cardinality(E) <= x
  <2>1. Cardinality(E) \in Nat
    BY <1>4, FS_CardinalityType
  <2> QED BY <1>1, <1>2, <1>4, <2>1
<1>6. \A k \in B \ E : k = j \/ (k \in B \ {j} /\ g[k] \in A \ D)
  BY <1>0
<1>7. E \in SUBSET B
  OBVIOUS
<1> HIDE DEF E, f
<1>8. \A k \in B \ E : e[k] # {0} /\ e[k] \notin T
  BY <1>0, <1>1, <1>6 DEF NewItems
<1>9. ASSUME NEW k \in B \ E, NEW l \in B \ E, k # l PROVE e[k] # e[l]
  <2>1. CASE k = j
    <3>1. l \in B \ {j} /\ g[l] \in A /\ e[l] = h[g[l]]
      BY <1>0, <1>6, <1>9, <2>1
    <3> QED BY <1>0, <2>1, <3>1
  <2>2. CASE l = j
    <3>1. k \in B \ {j} /\ g[k] \in A /\ e[k] = h[g[k]]
      BY <1>0, <1>6, <1>9, <2>2
    <3> QED BY <1>0, <2>2, <3>1
  <2>3. CASE k # j /\ l # j
    <3>1. k \in B \ {j} /\ l \in B \ {j} /\ g[k] \in A \ D /\ g[l] \in A \ D /\ g[k] # g[l]
      BY <1>0, <1>6, <1>9, <2>3
    <3>2. h[g[k]] # h[g[l]]
      BY <1>1, <3>1 DEF NewItems
    <3> QED BY <1>0, <3>1, <3>2
  <2> QED BY <2>1, <2>2, <2>3
<1>10. NewItems(e, B \ E, T)
  BY <1>8, <1>9 DEF NewItems
<1> QED BY <1>a, <1>5, <1>7, <1>10 DEF Owes

\* The slots that usb_next() would send one after the other: from rx_out to rx_in.
InRing(out, in, k) == IF out <= in THEN out <= k /\ k < in ELSE out <= k \/ k < in

\* What is left of them once the transfer in progress releases rx_out.  A ring with
\* rx_in = rx_out is then full, which it need not have been: a reset does that.
Queued(m) ==
    {k \in Slots : IF SendsFrame(m) THEN k # m.rx_out /\ (m.rx_in = m.rx_out \/ InRing(m.rx_out, m.rx_in, k))
                   ELSE InRing(m.rx_out, m.rx_in, k)}

Flight(m) == m.rx_buf[m.ep1.buf.slot]
SentPart(m) == IF SendsFrame(m) THEN Flight(m).size + 2 - m.ep1.left ELSE 0

\* On their way to the host: the queue, the frame on EP1, the message that the packet
\* in the bank ends (b, the ids in it).
OnEp1 == RX_BUFS
InBank == RX_BUFS + 1
Items(m, b) ==
    Queued(m) \union (IF SendsFrame(m) THEN {OnEp1} ELSE {})
              \union (IF b # {} THEN {InBank} ELSE {})
IdsOf(m, b, k) ==
    IF k = InBank THEN b ELSE IF k = OnEp1 THEN {Flight(m).id} ELSE {m.rx_buf[k].id}
Line(m, b) == [k \in Items(m, b) |-> IdsOf(m, b, k)]

\* The message that the packet p completes.
JoinedVals(p) == IF p.n = 0 THEN partial.vals ELSE partial.vals \union {p.val}
Ended == IF fifo # <<>> /\ Head(fifo).n < EP_SIZE /\ partial.len + Head(fifo).n # 1
         THEN JoinedVals(Head(fifo)) ELSE {}
Seen == {frames[i].vals : i \in 1..Len(frames)}

\* Empty slots and frames that were accepted are all that ever moves.
Stored(m) == {NoFrame} \union {m.accepted[i] : i \in 1..Len(m.accepted)}
RingKnown(m) == \A k \in Slots : m.rx_buf[k] \in Stored(m)
Known ==
    /\ RingKnown(mac)
    /\ \A i \in 1..Len(frames) : \E a \in Stored(mac) : frames[i] = MessageOf(a)

\* EP1 sends a slot of the ring, or one byte.
Ep1Frame(m) ==
    /\ SendsFrame(m) => m.ep1.left <= Flight(m).size + 2
    /\ m.ep1.state = "EP_TX" /\ ~SendsFrame(m) => m.ep1.left = 1

HasPart(n) ==
    partial.len = n /\ partial.vals = IF n = 0 THEN {} ELSE {Flight(mac).id}
PartFull(p) ==
    /\ p.n = EP_SIZE /\ SendsFrame(mac) /\ p.val = Flight(mac).id
    /\ SentPart(mac) >= EP_SIZE /\ HasPart(SentPart(mac) - EP_SIZE)
PartByte(p) == p.n = 1 /\ SentPart(mac) = 0 /\ partial = NoMessage
PartLast(p) ==
    /\ p.n < EP_SIZE /\ SentPart(mac) = 0 /\ partial.len + p.n > 1
    /\ \E a \in Stored(mac) : JoinedVals(p) = {a.id} /\ partial.len + p.n = a.size + 2
Parts ==
    \/ fifo = <<>> /\ HasPart(SentPart(mac))
    \/ \E p \in Packets : fifo = <<p>> /\ (PartFull(p) \/ PartByte(p) \/ PartLast(p))

\* What a function of mac.c leaves of the transfer: it goes on, or none was going.
Keeps(m, n) ==
    /\ Ep1Frame(n) /\ SentPart(n) = SentPart(m)
    /\ SendsFrame(m) => SendsFrame(n) /\ Flight(n) = Flight(m)

\* An id that is nowhere yet.
Unseen(m, b, S, a) ==
    /\ a # 0 /\ {a} \notin S /\ {a} # b
    /\ \A k \in Slots : m.rx_buf[k].id # a

LEMMA LineItems ==
    ASSUME NEW m, NEW b
    PROVE  /\ Queued(m) \in SUBSET (0..(RX_BUFS - 1))
           /\ Items(m, b) \in SUBSET (0..(RX_BUFS + 1))
           /\ DOMAIN Line(m, b) = Items(m, b)
           /\ \A k \in Items(m, b) : Line(m, b)[k] = IdsOf(m, b, k)
           /\ RX_BUFS \in Nat \ {0} /\ OnEp1 = RX_BUFS /\ InBank = RX_BUFS + 1
           /\ \A k \in Queued(m) : k \in Items(m, b) /\ IdsOf(m, b, k) = {m.rx_buf[k].id}
           /\ SendsFrame(m) <=> OnEp1 \in Items(m, b)
           /\ IdsOf(m, b, OnEp1) = {Flight(m).id}
           /\ InBank \in Items(m, b) <=> b # {}
           /\ IdsOf(m, b, InBank) = b
           /\ \A k \in Items(m, b) : k \in Queued(m) \/ k = OnEp1 \/ k = InBank
<1>1. RX_BUFS \in Nat \ {0}
  BY HardMacAssumption
<1>2. Queued(m) \in SUBSET (0..(RX_BUFS - 1))
  BY DEF Queued, Slots
<1>3. Items(m, b) \in SUBSET (0..(RX_BUFS + 1))
  BY <1>1, <1>2 DEF Items, OnEp1, InBank
<1>4. DOMAIN Line(m, b) = Items(m, b) /\ \A k \in Items(m, b) : Line(m, b)[k] = IdsOf(m, b, k)
  BY DEF Line
<1>5. \A k \in Queued(m) : k \in Items(m, b) /\ k # OnEp1 /\ k # InBank
  BY <1>1, <1>2 DEF Items, OnEp1, InBank
<1>6. \A k \in Queued(m) : IdsOf(m, b, k) = {m.rx_buf[k].id}
  BY <1>5 DEF IdsOf
<1>7. OnEp1 # InBank /\ OnEp1 \notin Queued(m) /\ InBank \notin Queued(m)
  BY <1>1, <1>2 DEF OnEp1, InBank
<1>8. /\ SendsFrame(m) <=> OnEp1 \in Items(m, b)
      /\ InBank \in Items(m, b) <=> b # {}
      /\ \A k \in Items(m, b) : k \in Queued(m) \/ k = OnEp1 \/ k = InBank
  BY <1>7 DEF Items
<1>9. IdsOf(m, b, OnEp1) = {Flight(m).id} /\ IdsOf(m, b, InBank) = b
  BY <1>7 DEF IdsOf
<1> QED BY <1>1, <1>2, <1>3, <1>4, <1>5, <1>6, <1>8, <1>9 DEF OnEp1, InBank

\* Nothing moves; slot j may have been filled with a new frame.
LEMMA LineStays ==
    ASSUME NEW m, NEW n, NEW b, NEW c \in {b, {}}, NEW S, NEW T \in SUBSET S,
           NEW x \in Nat, Owes(Line(m, b), S, x), NEW j, j \notin {OnEp1, InBank},
           \A k \in Queued(n) \ {j} : k \in Queued(m) /\ n.rx_buf[k].id = m.rx_buf[k].id,
           SendsFrame(n) => SendsFrame(m) /\ Flight(n).id = Flight(m).id,
           j \in Queued(n) =>
               /\ n.rx_buf[j].id # 0 /\ {n.rx_buf[j].id} \notin S
               /\ \A l \in Items(m, b) : IdsOf(m, b, l) # {n.rx_buf[j].id}
    PROVE  Owes(Line(n, c), T, x)
<1> DEFINE h == Line(m, b)
           e == Line(n, c)
           g == [k \in Items(n, c) |-> k]
<1>1. /\ RX_BUFS + 1 \in Nat /\ DOMAIN h \in SUBSET (0..(RX_BUFS + 1))
      /\ DOMAIN h = Items(m, b) /\ DOMAIN e = Items(n, c)
  BY LineItems
<1>2. ASSUME NEW k \in Items(n, c) \ {j}
      PROVE  k \in Items(m, b) /\ IdsOf(n, c, k) = IdsOf(m, b, k)
  <2>1. CASE k \in Queued(n)
    <3>1. k \in Queued(m) /\ n.rx_buf[k].id = m.rx_buf[k].id
      BY <2>1
    <3>2. IdsOf(n, c, k) = {n.rx_buf[k].id}
      BY <2>1, LineItems
    <3>3. k \in Items(m, b) /\ IdsOf(m, b, k) = {m.rx_buf[k].id}
      BY <3>1, LineItems
    <3> QED BY <3>1, <3>2, <3>3
  <2>2. CASE k = OnEp1
    <3>1. SendsFrame(n) /\ IdsOf(n, c, k) = {Flight(n).id}
      BY <2>2, LineItems
    <3>2. k \in Items(m, b) /\ IdsOf(m, b, k) = {Flight(m).id}
      BY <2>2, <3>1, LineItems
    <3> QED BY <3>1, <3>2
  <2>3. CASE k = InBank
    <3>1. c # {} /\ IdsOf(n, c, k) = c
      BY <2>3, LineItems
    <3>2. b # {} /\ c = b
      BY <3>1
    <3> QED BY <2>3, <3>1, <3>2, LineItems
  <2> QED BY <2>1, <2>2, <2>3, LineItems
<1>3. ASSUME NEW k \in Items(n, c) \ {j} PROVE g[k] = k /\ k \in DOMAIN h /\ e[k] = h[k]
  BY <1>1, <1>2, LineItems
<1>5. ASSUME j \in DOMAIN e
      PROVE  e[j] # {0} /\ e[j] \notin S /\ \A l \in DOMAIN h : h[l] # e[j]
  <2>1. j \in Queued(n)
    BY <1>1, <1>5, LineItems
  <2>2. e[j] = {n.rx_buf[j].id}
    BY <2>1, LineItems
  <2>3. \A l \in DOMAIN h : l \in Items(m, b) /\ h[l] = IdsOf(m, b, l)
    BY LineItems
  <2> HIDE DEF h, e
  <2>4. e[j] # {0} /\ e[j] \notin S
    BY <2>1, <2>2
  <2>5. \A l \in Items(m, b) : IdsOf(m, b, l) # e[j]
    BY <2>1, <2>2
  <2> QED BY <2>3, <2>4, <2>5
<1>6. Owes(h, S, x)
  OBVIOUS
<1> HIDE DEF h, e, g
<1>7. Carries(h, e, g, j, S)
  BY <1>1, <1>3, <1>5 DEF Carries
<1>8. Owes(e, T, x)
  BY <1>1, <1>6, <1>7, Carried
<1> QED BY <1>8 DEF e

\* usb_next() on an idle EP1 moves slot rx_out to EP1.
LEMMA UsbNextLine ==
    ASSUME NEW m \in MacType, EpIdle(m.ep1), NEW b, NEW S, NEW x \in Nat, Owes(Line(m, b), S, x)
    PROVE  LET n == UsbNext(m) IN
           Owes(Line(n, b), S, x) /\ Ep1Frame(n) /\ SentPart(n) = 0
<1> DEFINE n == UsbNext(m)
<1>1. /\ n \in MacType
      /\ n.rx_in = m.rx_in /\ n.rx_out = m.rx_out /\ n.rx_buf = m.rx_buf
      /\ m.rx_in # m.rx_out =>
            n.ep1 = Opened("EP_TX", RxBuf(m.rx_out), m.rx_buf[m.rx_out].size + 2, "rx_done")
      /\ m.rx_in = m.rx_out =>
            n.ep1 = m.ep1 \/ n.ep1 = Opened("EP_TX", Byte("queued_seq"), 1, "tx_ack_done")
  BY UsbNextEp1
<1>2. /\ m.rx_in \in Slots /\ m.rx_out \in Slots /\ m.rx_buf[m.rx_out].size \in Nat
      /\ ~SendsFrame(m)
  <2>1. m.rx_in \in Slots /\ m.rx_out \in Slots /\ m.rx_buf[m.rx_out] \in Frames
    BY DEF MacType
  <2> QED BY <2>1, FrameType DEF SendsFrame, EpIdle
<1> HIDE DEF n
<1>4. CASE m.rx_in = m.rx_out
  <2>1. ~SendsFrame(n) /\ Ep1Frame(n)
    BY <1>1, <1>4 DEF SendsFrame, EpIdle, Opened, Ep1Frame
  <2>2. Queued(n) = Queued(m)
    BY <1>1, <1>2, <2>1 DEF Queued
  <2>4. Owes(Line(n, b), S, x)
    <3> DEFINE j == RX_BUFS + 2
    <3>1. RX_BUFS \in Nat /\ Queued(n) \in SUBSET (0..(RX_BUFS - 1))
      BY LineItems
    <3>2. j \notin {OnEp1, InBank} /\ j \notin Queued(n)
      BY <3>1 DEF OnEp1, InBank
    <3> HIDE DEF j
    <3> QED BY <1>1, <2>1, <2>2, <3>2, LineStays
  <2> QED BY <2>1, <2>4 DEF SentPart, n
<1>5. CASE m.rx_in # m.rx_out
  <2>1. /\ SendsFrame(n) /\ Flight(n) = m.rx_buf[m.rx_out]
        /\ n.ep1.left = m.rx_buf[m.rx_out].size + 2
    BY <1>1, <1>5 DEF SendsFrame, Opened, Flight, RxBuf
  <2>2. Ep1Frame(n) /\ SentPart(n) = 0
    BY <1>2, <2>1 DEF Ep1Frame, SentPart
  <2>3. Queued(n) = Queued(m) \ {m.rx_out}
    BY <1>1, <1>2, <1>5, <2>1 DEF Queued
  <2>4. m.rx_out \in Queued(m)
    BY <1>2, <1>5 DEF Queued, InRing, Slots
  <2> DEFINE h == Line(m, b)
             e == Line(n, b)
             g == [k \in Items(n, b) |-> IF k = OnEp1 THEN m.rx_out ELSE k]
             j == RX_BUFS + 2
  <2>5. /\ RX_BUFS + 1 \in Nat /\ DOMAIN h \in SUBSET (0..(RX_BUFS + 1))
        /\ DOMAIN h = Items(m, b) /\ DOMAIN e = Items(n, b)
        /\ j \notin Items(n, b) /\ OnEp1 \notin Queued(n) /\ InBank # OnEp1
    BY LineItems
  <2>6. /\ \A k \in Items(n, b) : e[k] = IdsOf(n, b, k)
        /\ \A k \in Items(m, b) : h[k] = IdsOf(m, b, k)
    BY LineItems
  <2> HIDE DEF h, e
  <2>7. ASSUME NEW k \in Items(n, b) PROVE g[k] \in DOMAIN h /\ e[k] = h[g[k]]
    <3>1. CASE k \in Queued(n)
      <4>1. k # OnEp1 /\ k \in Queued(m) /\ g[k] = k
        BY <2>3, <2>5, <3>1
      <4>2. IdsOf(n, b, k) = {n.rx_buf[k].id}
        BY <3>1, LineItems
      <4>3. k \in Items(m, b) /\ IdsOf(m, b, k) = {m.rx_buf[k].id}
        BY <4>1, LineItems
      <4> QED BY <1>1, <2>5, <2>6, <4>1, <4>2, <4>3
    <3>2. CASE k = OnEp1
      <4>1. g[k] = m.rx_out
        BY <3>2
      <4>2. IdsOf(n, b, k) = {Flight(n).id}
        BY <3>2, LineItems
      <4>3. m.rx_out \in Items(m, b) /\ IdsOf(m, b, m.rx_out) = {m.rx_buf[m.rx_out].id}
        BY <2>4, LineItems
      <4> QED BY <2>1, <2>5, <2>6, <4>1, <4>2, <4>3
    <3>3. CASE k = InBank
      <4>1. g[k] = k
        BY <2>5, <3>3
      <4>2. InBank \in Items(m, b) /\ IdsOf(n, b, k) = b /\ IdsOf(m, b, InBank) = b
        BY <3>3, LineItems
      <4> QED BY <2>5, <2>6, <3>3, <4>1, <4>2
    <3> QED BY <3>1, <3>2, <3>3, LineItems
  <2>8. \A k, l \in Items(n, b) : g[k] = g[l] => k = l
    <3>1. m.rx_out \notin Items(n, b)
      BY <1>2, <2>3, LineItems DEF Slots
    <3> QED BY <3>1
  <2>9. Owes(h, S, x)
    BY DEF h
  <2> HIDE DEF g, j
  <2>10. Carries(h, e, g, j, S)
    BY <2>5, <2>7, <2>8 DEF Carries
  <2>11. Owes(e, S, x)
    BY <2>5, <2>9, <2>10, Carried
  <2> QED BY <2>2, <2>11 DEF e, n
<1> QED BY <1>4, <1>5

\* The slot that EP1 sends from is the head of the ring, unless a reset emptied it.
LEMMA FlightSlot ==
    ASSUME NEW m \in MacType, SlotOK(m), SendsFrame(m)
    PROVE  /\ m.ep1.buf.mem = "rx_buf" /\ m.ep1.buf.slot \in Slots
           /\ Flight(m) \in Frames /\ Flight(m) = m.rx_buf[m.ep1.buf.slot]
           /\ m.ep1.buf.slot = m.rx_out \/ m.rx_in = m.rx_out
           /\ m.ep1.left \in Nat
<1>1. /\ m.ep1.buf.mem = "rx_buf" /\ m.ep1.buf \in Buffers /\ m.ep1.left \in Nat
      /\ m.ep1.buf.slot = m.rx_out \/ m.rx_in = m.rx_out
  BY DEF SlotOK, SendsFrame, MacType, Endpoints
<1>2. m.ep1.buf.slot \in Slots
  BY <1>1 DEF Buffers, RxBuf, Byte
<1> QED BY <1>1, <1>2 DEF Flight, MacType

\* One more slot at the end of the ring, and one less at its beginning.
LEMMA RingGrows ==
    ASSUME NEW out \in 0..(RX_BUFS - 1), NEW in \in 0..(RX_BUFS - 1),
           NEW k \in 0..(RX_BUFS - 1), k # in
    PROVE  /\ InRing(out, Wrap(in + 1), k) => InRing(out, in, k)
           /\ in # out /\ Wrap(in + 1) = out => InRing(out, in, k)
BY HardMacAssumption DEF InRing, Wrap

LEMMA RingShrinks ==
    ASSUME NEW out \in 0..(RX_BUFS - 1), NEW in \in 0..(RX_BUFS - 1),
           NEW k \in 0..(RX_BUFS - 1), InRing(Wrap(out + 1), in, k)
    PROVE  k # out /\ (in = out \/ InRing(out, in, k))
BY HardMacAssumption DEF InRing, Wrap

\* What is unseen differs from all items.
LEMMA UnseenItem ==
    ASSUME NEW m \in MacType, SlotOK(m), NEW b, NEW S, NEW a, Unseen(m, b, S, a),
           NEW l \in Items(m, b)
    PROVE  IdsOf(m, b, l) # {a}
<1>1. CASE l \in Queued(m)
  <2>1. IdsOf(m, b, l) = {m.rx_buf[l].id} /\ l \in Slots
    BY <1>1, LineItems DEF Slots
  <2> QED BY <2>1 DEF Unseen
<1>2. CASE l = OnEp1
  <2>1. SendsFrame(m) /\ IdsOf(m, b, l) = {Flight(m).id}
    BY <1>2, LineItems
  <2>2. Flight(m) = m.rx_buf[m.ep1.buf.slot] /\ m.ep1.buf.slot \in Slots
    BY <2>1, FlightSlot
  <2> QED BY <2>1, <2>2 DEF Unseen
<1>3. CASE l = InBank
  <2>1. IdsOf(m, b, l) = b
    BY <1>3, LineItems
  <2> QED BY <2>1 DEF Unseen
<1> QED BY <1>1, <1>2, <1>3, LineItems

\* receive_frame() adds a new item at the end of the line.
LEMMA StoreLine ==
    ASSUME NEW m \in MacType, RingHasRoom(m), SlotOK(m), Ep1Frame(m), NEW f \in Frames,
           NEW b, NEW S, NEW x \in Nat, Owes(Line(m, b), S, x), Unseen(m, b, S, f.id)
    PROVE  LET n == StoreFrame(m, f) IN
           Owes(Line(n, b), S, x) /\ Keeps(m, n) /\ n.ep1 = m.ep1 /\ n \in MacType
<1> DEFINE n == StoreFrame(m, f)
<1>1. /\ n.rx_in = Wrap(m.rx_in + 1) /\ n.rx_out = m.rx_out /\ n.ep1 = m.ep1
      /\ n.rx_buf = [m.rx_buf EXCEPT ![m.rx_in] = f]
      /\ m.rx_in \in Slots /\ m.rx_out \in Slots /\ m.rx_buf \in [Slots -> Frames]
  BY NextBufWrap DEF StoreFrame, MacType
<1>2. n \in MacType
  BY StoreFrameType
<1> HIDE DEF n
<1>3. SendsFrame(n) <=> SendsFrame(m)
  BY <1>1 DEF SendsFrame
<1>4. \A k \in Slots : k # m.rx_in => n.rx_buf[k] = m.rx_buf[k]
  BY <1>1
<1>5. n.rx_buf[m.rx_in] = f
  BY <1>1
<1>6. ASSUME SendsFrame(m) PROVE m.rx_in # m.rx_out /\ Flight(n) = Flight(m)
  <2>1. m.rx_in # m.rx_out
    BY <1>6 DEF RingHasRoom, EpIdle, SendsFrame
  <2>2. m.ep1.buf.slot = m.rx_out /\ m.ep1.buf.slot \in Slots
    BY <1>6, <2>1, FlightSlot
  <2> QED BY <1>1, <1>4, <2>1, <2>2 DEF Flight
<1>7. ASSUME NEW k \in Queued(n), k # m.rx_in PROVE k \in Queued(m) /\ n.rx_buf[k] = m.rx_buf[k]
  <2>1. k \in Slots /\ IF SendsFrame(m) THEN k # m.rx_out /\ (n.rx_in = m.rx_out \/ InRing(m.rx_out, n.rx_in, k))
                       ELSE InRing(m.rx_out, n.rx_in, k)
    BY <1>1, <1>3, <1>7 DEF Queued
  <2>2. /\ InRing(m.rx_out, n.rx_in, k) => InRing(m.rx_out, m.rx_in, k)
        /\ m.rx_in # m.rx_out /\ n.rx_in = m.rx_out => InRing(m.rx_out, m.rx_in, k)
    BY <1>1, <1>7, <2>1, RingGrows DEF Slots
  <2> QED BY <1>4, <1>6, <1>7, <2>1, <2>2 DEF Queued
<1>8. Keeps(m, n)
  <2>1. Ep1Frame(n)
    BY <1>1, <1>3, <1>6 DEF Ep1Frame
  <2>2. SentPart(n) = SentPart(m)
    BY <1>1, <1>3, <1>6 DEF SentPart
  <2> QED BY <1>3, <1>6, <2>1, <2>2 DEF Keeps
<1>9. /\ n.rx_buf[m.rx_in].id # 0 /\ {n.rx_buf[m.rx_in].id} \notin S
      /\ \A l \in Items(m, b) : IdsOf(m, b, l) # {n.rx_buf[m.rx_in].id}
  BY <1>5, UnseenItem DEF Unseen
<1>10. m.rx_in \notin {OnEp1, InBank}
  BY <1>1, HardMacAssumption DEF Slots, OnEp1, InBank
<1>11. SendsFrame(n) => SendsFrame(m) /\ Flight(n).id = Flight(m).id
  BY <1>3, <1>6
<1>12. \A k \in Queued(n) \ {m.rx_in} : k \in Queued(m) /\ n.rx_buf[k].id = m.rx_buf[k].id
  BY <1>7
<1>13. Owes(Line(n, b), S, x)
  BY <1>9, <1>10, <1>11, <1>12, LineStays
<1> QED BY <1>1, <1>2, <1>8, <1>13 DEF n

\* The ring as it is, and EP1 too, or no frame on it before or after.
LEMMA SameLine ==
    ASSUME NEW m \in MacType, NEW n \in MacType, Ep1Frame(m),
           n.rx_in = m.rx_in, n.rx_out = m.rx_out, n.rx_buf = m.rx_buf,
           n.ep1 = m.ep1 \/ (~SendsFrame(m) /\ ~SendsFrame(n)
                             /\ (EpIdle(n.ep1) \/ n.ep1.left = 1)),
           NEW b, NEW c \in {b, {}}, NEW S, NEW T \in SUBSET S, NEW x \in Nat, Owes(Line(m, b), S, x)
    PROVE  Owes(Line(n, c), T, x) /\ Keeps(m, n)
<1>1. SendsFrame(n) <=> SendsFrame(m)
  BY DEF SendsFrame
<1>2. SendsFrame(m) => n.ep1 = m.ep1 /\ Flight(n) = Flight(m)
  BY DEF Flight
<1>3. Queued(n) = Queued(m)
  BY <1>1 DEF Queued
<1>4. Ep1Frame(n)
  BY <1>1, <1>2 DEF Ep1Frame, EpIdle
<1>5. Keeps(m, n)
  BY <1>1, <1>2, <1>4 DEF Keeps, SentPart
<1> DEFINE j == RX_BUFS + 2
<1>6. RX_BUFS \in Nat /\ Queued(n) \in SUBSET (0..(RX_BUFS - 1))
  BY LineItems
<1>7. j \notin {OnEp1, InBank} /\ j \notin Queued(n)
  BY <1>6 DEF OnEp1, InBank
<1> HIDE DEF j
<1>8. Owes(Line(n, c), T, x)
  BY <1>1, <1>2, <1>3, <1>7, LineStays
<1> QED BY <1>5, <1>8

\* An answer, or a serial number, takes the place of no frame.
LEMMA AnswerTxLine ==
    ASSUME NEW m \in MacType, Ep1Frame(m), NEW b, NEW S, NEW x \in Nat, Owes(Line(m, b), S, x)
    PROVE  LET n == AnswerTx(m) IN
           /\ Owes(Line(n, b), S, x) /\ Keeps(m, n)
           /\ n.rx_buf = m.rx_buf /\ n.accepted = m.accepted
<1> DEFINE n == AnswerTx(m)
<1>1. /\ n.rx_in = m.rx_in /\ n.rx_out = m.rx_out /\ n.rx_buf = m.rx_buf
      /\ n.accepted = m.accepted
      /\ n.ep1 = m.ep1 \/ (EpIdle(m.ep1) /\ n.ep1.left = 1 /\ n.ep1.callback # "rx_done")
  BY DEF AnswerTx, UsbSend, Opened, MacType
<1>2. n \in MacType
  BY AnswerTxType
<1> HIDE DEF n
<1>3. b \in {b, {}} /\ S \in SUBSET S
  OBVIOUS
<1>4. n.ep1 = m.ep1 \/ (~SendsFrame(m) /\ ~SendsFrame(n) /\ n.ep1.left = 1)
  BY <1>1 DEF SendsFrame, EpIdle
<1>5. Owes(Line(n, b), S, x) /\ Keeps(m, n)
  BY <1>1, <1>2, <1>3, <1>4, SameLine
<1> QED BY <1>1, <1>5 DEF n

LEMMA SendSerialLine ==
    ASSUME NEW m \in MacType, Ep1Frame(m), NEW b, NEW S, NEW x \in Nat, Owes(Line(m, b), S, x)
    PROVE  LET n == SendSerial(m) IN
           /\ Owes(Line(n, b), S, x) /\ Keeps(m, n)
           /\ n.rx_buf = m.rx_buf /\ n.accepted = m.accepted
<1> DEFINE n == SendSerial(m)
<1>1. /\ n.rx_in = m.rx_in /\ n.rx_out = m.rx_out /\ n.rx_buf = m.rx_buf
      /\ n.accepted = m.accepted
      /\ n.ep1 = m.ep1 \/ (EpIdle(m.ep1) /\ n.ep1.left = 1 /\ n.ep1.callback # "rx_done")
  BY DEF SendSerial, UsbSend, Opened, EpIdle, MacType
<1>2. n \in MacType
  BY SendSerialType
<1> HIDE DEF n
<1>3. b \in {b, {}} /\ S \in SUBSET S
  OBVIOUS
<1>4. n.ep1 = m.ep1 \/ (~SendsFrame(m) /\ ~SendsFrame(n) /\ n.ep1.left = 1)
  BY <1>1 DEF SendsFrame, EpIdle
<1>5. Owes(Line(n, b), S, x) /\ Keeps(m, n)
  BY <1>1, <1>2, <1>3, <1>4, SameLine
<1> QED BY <1>1, <1>5 DEF n

\* What the ring holds was accepted, also after a frame that is accepted.
LEMMA StoredGrows ==
    ASSUME NEW m \in MacType, NEW n \in MacType,
           n.accepted = m.accepted \/ \E f \in Frames : n.accepted = Append(m.accepted, f)
    PROVE  Stored(m) \subseteq Stored(n)
<1>1. m.accepted \in Seq(Frames) /\ n.accepted \in Seq(Frames)
  BY DEF MacType
<1>2. \A i \in 1..Len(m.accepted) : i \in 1..Len(n.accepted) /\ n.accepted[i] = m.accepted[i]
  BY <1>1
<1> QED BY <1>2 DEF Stored

\* The ring holds frames that were accepted, the new one included.
LEMMA StoreKnown ==
    ASSUME NEW m \in MacType, NEW f \in Frames, RingKnown(m)
    PROVE  RingKnown(StoreFrame(m, f))
<1> DEFINE n == StoreFrame(m, f)
<1>1. /\ n.accepted = Append(m.accepted, f) /\ m.accepted \in Seq(Frames)
      /\ \A k \in Slots : n.rx_buf[k] = m.rx_buf[k] \/ n.rx_buf[k] = f
  BY DEF StoreFrame, MacType
<1>2. n \in MacType
  BY StoreFrameType
<1> HIDE DEF n
<1>3. Stored(m) \subseteq Stored(n)
  BY <1>1, <1>2, StoredGrows
<1>4. f \in Stored(n)
  <2>1. Len(n.accepted) \in 1..Len(n.accepted) /\ n.accepted[Len(n.accepted)] = f
    BY <1>1
  <2> QED BY <2>1 DEF Stored
<1> QED BY <1>1, <1>3, <1>4 DEF RingKnown, n

\* The handler of the transceiver leaves the debt, the transfer, and the ring known.
LEMMA HandleIrqLine ==
    ASSUME NEW m \in MacType, NEW status, NEW f \in Frames, SlotOK(m), Ep1Frame(m), RingKnown(m),
           NEW b, NEW S, NEW x \in Nat, Owes(Line(m, b), S, x),
           "TRX_END" \in status /\ f.size \in 1..127 => Unseen(m, b, S, f.id)
    PROVE  LET n == HandleIrq(m, status, f) IN
           Owes(Line(n, b), S, x) /\ Keeps(m, n) /\ RingKnown(n)
<1>1. Owes(Line(AnswerTx(m), b), S, x) /\ Keeps(m, AnswerTx(m)) /\ RingKnown(AnswerTx(m))
  BY AnswerTxLine DEF RingKnown, Stored
<1>2. Keeps(m, m)
  BY DEF Keeps
<1>3. ASSUME RingHasRoom(m), "TRX_END" \in status, f.size \in 1..127
      PROVE  LET n == ReceiveFrame(m, f) IN
             Owes(Line(n, b), S, x) /\ Keeps(m, n) /\ RingKnown(n)
  <2> DEFINE s == StoreFrame(m, f)
             n == UsbNext(s)
  <2>1. Owes(Line(s, b), S, x) /\ Keeps(m, s) /\ s.ep1 = m.ep1 /\ s \in MacType
    BY <1>3, StoreLine
  <2>2. RingKnown(s)
    BY StoreKnown
  <2> HIDE DEF s
  <2>3. ASSUME EpIdle(m.ep1) PROVE Owes(Line(n, b), S, x) /\ Keeps(m, n) /\ RingKnown(n)
    <3>1. Owes(Line(n, b), S, x) /\ Ep1Frame(n) /\ SentPart(n) = 0
      BY <2>1, <2>3, UsbNextLine
    <3>2. n.rx_buf = s.rx_buf /\ n.accepted = s.accepted
      BY <2>1, <2>3, UsbNextEp1
    <3>3. ~SendsFrame(m) /\ SentPart(m) = 0
      BY <2>3 DEF SendsFrame, EpIdle, SentPart
    <3> HIDE DEF n
    <3> QED BY <2>2, <3>1, <3>2, <3>3 DEF Keeps, RingKnown, Stored
  <2> QED BY <1>3, <2>1, <2>2, <2>3 DEF ReceiveFrame, s
<1> QED BY <1>1, <1>2, <1>3 DEF HandleIrq, ReceiveFrame

-----------------------------------------------------------------------------
(* Steps of the firmware that leave EP1's bank and the host alone          *)

Allowance == count["rf_reset"] * (RX_BUFS - 1)
Debt ==
    \E n \in Nat : Cardinality(Repeats) + n <= Allowance /\ Owes(Line(mac, Ended), Seen, n)

DebtInv ==
    Ascending(mac) /\ Fresh /\ Known /\ SlotOK(mac) /\ Ep1Frame(mac) /\ Parts /\ Debt

\* The ids the host has, and the packet in the bank, are of frames accepted before.
LEMMA EndedKnown ==
    ASSUME TypeOK, Parts
    PROVE  Ended = {} \/ \E a \in Stored(mac) : Ended = {a.id}
<1>1. ASSUME NEW p \in Packets, fifo = <<p>>
      PROVE  Ended = IF p.n < EP_SIZE /\ partial.len + p.n # 1 THEN JoinedVals(p) ELSE {}
  BY <1>1 DEF Ended
<1>2. CASE fifo = <<>>
  BY <1>2 DEF Ended
<1>3. CASE \E p \in Packets : fifo = <<p>> /\ (PartFull(p) \/ PartByte(p) \/ PartLast(p))
  <2>1. PICK p \in Packets : fifo = <<p>> /\ (PartFull(p) \/ PartByte(p) \/ PartLast(p))
    BY <1>3
  <2>2. CASE PartFull(p)
    BY <1>1, <2>1, <2>2 DEF PartFull, EP_SIZE
  <2>3. CASE PartByte(p)
    BY <1>1, <2>1, <2>3 DEF PartByte, NoMessage
  <2>4. CASE PartLast(p)
    BY <1>1, <2>1, <2>4 DEF PartLast
  <2> QED BY <2>1, <2>2, <2>3, <2>4
<1> QED BY <1>2, <1>3 DEF Parts

\* The frame in the buffer of the transceiver is nowhere in the firmware or the host.
LEMMA FreshUnseen ==
    ASSUME TypeOK, Fresh, Known, Parts, "TRX_END" \in irq_status, trx_buf.size \in 1..127
    PROVE  Unseen(mac, Ended, Seen, trx_buf.id)
<1> DEFINE a == trx_buf.id
<1>1. \A c \in Stored(mac) : c.id # a
  <2>1. trx_buf.size # 0 /\ trx_buf # NoFrame
    BY NotEmpty
  <2>2. \A i \in 1..Len(mac.accepted) : mac.accepted[i].id < a
    BY <2>1 DEF Fresh
  <2>3. a \in 1..count["frame"]
    BY <2>1 DEF Fresh
  <2>4. \A i \in 1..Len(mac.accepted) : mac.accepted[i].id # a
    <3> TAKE i \in 1..Len(mac.accepted)
    <3>1. mac.accepted[i] \in Frames
      BY MacFacts DEF TypeOK
    <3> QED BY <2>2, <3>1, FrameType
  <2>5. a # 0
    BY <2>3
  <2> QED BY <2>4, <2>5 DEF Stored, NoFrame
<1>2. \A s \in Seen : \E c \in Stored(mac) : s = {c.id}
  <2>1. ASSUME NEW i \in 1..Len(frames) PROVE \E c \in Stored(mac) : frames[i].vals = {c.id}
    <3>1. PICK c \in Stored(mac) : frames[i] = MessageOf(c)
      BY DEF Known
    <3> QED BY <3>1 DEF MessageOf
  <2> QED BY <2>1 DEF Seen
<1>3. \A k \in Slots : mac.rx_buf[k] \in Stored(mac)
  BY DEF Known, RingKnown
<1> HIDE DEF a
<1>4. a # 0
  <2>1. NoFrame \in Stored(mac) /\ NoFrame.id = 0
    BY DEF Stored, NoFrame
  <2> QED BY <1>1, <2>1
<1>5. {a} \notin Seen /\ {a} # Ended
  BY <1>1, <1>2, EndedKnown
<1> QED BY <1>1, <1>3, <1>4, <1>5 DEF Unseen, a

\* A step that keeps the transfer leaves the parts of the message as they are.
LEMMA PartsKept ==
    ASSUME TypeOK, TypeOK', Parts, Keeps(mac, mac'), Stored(mac) \subseteq Stored(mac'),
           UNCHANGED <<fifo, partial, frames>>
    PROVE  Parts' /\ Ended' = Ended /\ Seen' = Seen
<1>1. Ended' = Ended /\ Seen' = Seen
  BY DEF Ended, JoinedVals, Seen
<1>2. SentPart(mac') = SentPart(mac) /\ (SendsFrame(mac) => SendsFrame(mac') /\ Flight(mac') = Flight(mac))
  BY DEF Keeps
<1>4. SendsFrame(mac) \/ SentPart(mac) = 0
  BY DEF SentPart
<1>5. CASE fifo = <<>> /\ HasPart(SentPart(mac))
  <2>1. partial'.len = SentPart(mac)
    BY <1>5 DEF HasPart
  <2>2. partial'.vals = IF SentPart(mac) = 0 THEN {} ELSE {Flight(mac').id}
    BY <1>2, <1>4, <1>5 DEF HasPart
  <2>3. HasPart(SentPart(mac))'
    BY <1>2, <2>1, <2>2 DEF HasPart
  <2> QED BY <1>1, <1>5, <2>3 DEF Parts
<1>6. CASE \E p \in Packets : fifo = <<p>> /\ (PartFull(p) \/ PartByte(p) \/ PartLast(p))
  <2>1. PICK p \in Packets : fifo = <<p>> /\ (PartFull(p) \/ PartByte(p) \/ PartLast(p))
    BY <1>6
  <2>2. ASSUME PartFull(p) PROVE PartFull(p)'
    BY <1>2, <2>2 DEF PartFull, HasPart
  <2>3. ASSUME PartByte(p) PROVE PartByte(p)'
    BY <1>2, <2>3 DEF PartByte
  <2>4. ASSUME PartLast(p) PROVE PartLast(p)'
    BY <1>2, <2>4 DEF PartLast, JoinedVals
  <2>5. fifo' = <<p>> /\ (PartFull(p)' \/ PartByte(p)' \/ PartLast(p)')
    BY <2>1, <2>2, <2>3, <2>4
  <2> QED BY <1>1, <2>5 DEF Parts
<1> QED BY <1>5, <1>6 DEF Parts

\* The steps of mac.c that neither finish a packet nor reset anything.
LEMMA MacStep ==
    ASSUME TypeOK, TypeOK', DebtInv,
           mac' = mac \/ Int0 \/ RxModeOff \/ TxRequest \/ (TxData /\ DoTx)
    PROVE  /\ Keeps(mac, mac') /\ RingKnown(mac')
           /\ \A x \in Nat : Owes(Line(mac, Ended), Seen, x) => Owes(Line(mac', Ended), Seen, x)
<1>0. /\ mac \in MacType /\ mac' \in MacType /\ trx_buf \in Frames
      /\ SlotOK(mac) /\ Ep1Frame(mac) /\ RingKnown(mac) /\ Fresh /\ Known /\ Parts
  BY DEF TypeOK, DebtInv, Known
<1>b. Ended \in {Ended, {}} /\ Seen \in SUBSET Seen
  OBVIOUS
<1>1. Keeps(mac, mac)
  BY <1>0 DEF Keeps
<1>2. ASSUME mac'.rx_in = mac.rx_in, mac'.rx_out = mac.rx_out, mac'.rx_buf = mac.rx_buf,
             mac'.ep1 = mac.ep1, mac'.accepted = mac.accepted
      PROVE  /\ Keeps(mac, mac') /\ RingKnown(mac')
             /\ \A x \in Nat : Owes(Line(mac, Ended), Seen, x) => Owes(Line(mac', Ended), Seen, x)
  <2>1. Keeps(mac, mac') /\ RingKnown(mac')
    BY <1>0, <1>2 DEF Keeps, Ep1Frame, SentPart, SendsFrame, Flight, RingKnown, Stored
  <2>2. Line(mac', Ended) = Line(mac, Ended)
    BY <1>2 DEF Line, Items, IdsOf, Queued, SendsFrame, Flight
  <2> QED BY <2>1, <2>2
<1>3. ASSUME NEW status, status = irq_status \/ trx = "BUSY_TX_ARET"
      PROVE  LET n == HandleIrq(mac, status, trx_buf) IN
             /\ Keeps(mac, n) /\ RingKnown(n)
             /\ \A x \in Nat : Owes(Line(mac, Ended), Seen, x) => Owes(Line(n, Ended), Seen, x)
  <2>1. "TRX_END" \in status /\ trx_buf.size \in 1..127 => Unseen(mac, Ended, Seen, trx_buf.id)
    <3>1. trx_buf.size \in 1..127 => trx # "BUSY_TX_ARET"
      BY <1>0, NotEmpty DEF Fresh
    <3> QED BY <1>0, <1>3, <3>1, FreshUnseen
  <2> DEFINE n == HandleIrq(mac, status, trx_buf)
  <2>2. ASSUME NEW x \in Nat, Owes(Line(mac, Ended), Seen, x)
        PROVE  Owes(Line(n, Ended), Seen, x) /\ Keeps(mac, n) /\ RingKnown(n)
    BY <1>0, <2>1, <2>2, HandleIrqLine
  <2>3. \E x \in Nat : Owes(Line(mac, Ended), Seen, x)
    BY DEF DebtInv, Debt
  <2> QED BY <2>2, <2>3
<1>4. CASE mac' = mac
  BY <1>2, <1>4
<1>5. CASE Int0
  <2>1. CASE mac_irq
    <3>1. mac' = HandleIrq(mac, irq_status, trx_buf)
      BY <1>5, <2>1 DEF Int0
    <3> QED BY <1>3, <3>1
  <2>2. CASE ~mac_irq
    <3>1. mac' = SendSerial(mac)
      BY <1>5, <2>2 DEF Int0
    <3>2. ASSUME NEW x \in Nat, Owes(Line(mac, Ended), Seen, x)
          PROVE  Owes(Line(mac', Ended), Seen, x) /\ Keeps(mac, mac') /\ RingKnown(mac')
      BY <1>0, <3>1, <3>2, SendSerialLine DEF RingKnown, Stored
    <3>3. \E x \in Nat : Owes(Line(mac, Ended), Seen, x)
      BY DEF DebtInv, Debt
    <3> QED BY <3>2, <3>3
  <2> QED BY <2>1, <2>2
<1>6. CASE RxModeOff
  BY <1>0, <1>2, <1>6 DEF RxModeOff, MacType
<1>7. CASE TxRequest
  BY <1>0, <1>2, <1>7 DEF TxRequest, MacType
<1>8. CASE TxData /\ DoTx
  <2> DEFINE status == IF trx = "BUSY_TX_ARET" THEN irq_status \union {"TRX_END"} ELSE irq_status
             m == HandleIrq(mac, status, trx_buf)
  <2>1. mac' = m \/ mac' = StartTx(m)
    BY <1>8 DEF DoTx
  <2>2. m \in MacType
    BY <1>0, HandleIrqType
  <2>3. /\ Keeps(mac, m) /\ RingKnown(m)
        /\ \A x \in Nat : Owes(Line(mac, Ended), Seen, x) => Owes(Line(m, Ended), Seen, x)
    BY <1>3
  <2> HIDE DEF m
  <2>4. /\ mac'.rx_in = m.rx_in /\ mac'.rx_out = m.rx_out /\ mac'.rx_buf = m.rx_buf
        /\ mac'.ep1 = m.ep1 /\ mac'.accepted = m.accepted
    BY <2>1, <2>2 DEF StartTx, MacType
  <2>5. Keeps(mac, mac') /\ RingKnown(mac')
    BY <2>3, <2>4 DEF Keeps, Ep1Frame, SentPart, SendsFrame, Flight, RingKnown, Stored
  <2>6. Line(mac', Ended) = Line(m, Ended)
    BY <2>4 DEF Line, Items, IdsOf, Queued, SendsFrame, Flight
  <2> QED BY <2>3, <2>5, <2>6
<1> QED BY <1>4, <1>5, <1>6, <1>7, <1>8

\* A reset leaves a transfer that ends with a ring of old slots: all but one of them.
LEMMA ResetLine ==
    ASSUME NEW m \in MacType, Ep1Frame(m), NEW b, NEW S, NEW x \in Nat, Owes(Line(m, b), S, x)
    PROVE  LET n == MacReset(m) IN
           /\ Owes(Line(n, b), S, x + (RX_BUFS - 1)) /\ Keeps(m, n)
           /\ n.rx_buf = m.rx_buf /\ n.accepted = m.accepted
<1> DEFINE n == MacReset(m)
<1>1. /\ n.rx_in = 0 /\ n.rx_out = 0 /\ n.rx_buf = m.rx_buf /\ n.ep1 = m.ep1
      /\ n.accepted = m.accepted
  BY DEF MacReset, MacType
<1> HIDE DEF n
<1>2. (SendsFrame(n) <=> SendsFrame(m)) /\ Flight(n) = Flight(m)
  BY <1>1 DEF SendsFrame, Flight
<1>3. Keeps(m, n)
  BY <1>1, <1>2 DEF Keeps, Ep1Frame, SentPart
<1>4. Queued(n) \in SUBSET (1..(RX_BUFS - 1))
  BY <1>1, HardMacAssumption DEF Queued, InRing, Slots
<1>5. IsFiniteSet(Queued(n)) /\ Cardinality(Queued(n)) <= RX_BUFS - 1 /\ Cardinality(Queued(n)) \in Nat
  <2>1. RX_BUFS - 1 \in Int /\ 1 \in Int /\ RX_BUFS - 1 >= 0
    BY HardMacAssumption
  <2>2. IsFiniteSet(1..(RX_BUFS - 1)) /\ Cardinality(1..(RX_BUFS - 1)) = RX_BUFS - 1
    BY <2>1, FS_Interval
  <2>3. IsFiniteSet(Queued(n)) /\ Cardinality(Queued(n)) <= RX_BUFS - 1
    BY <1>4, <2>2, FS_Subset
  <2> QED BY <2>3, FS_CardinalityType
<1> DEFINE h == Line(m, b)
           e == Line(n, b)
<1>6. PICK D \in SUBSET DOMAIN h : Cardinality(D) <= x /\ NewItems(h, DOMAIN h \ D, S)
  BY DEF Owes
<1>7. /\ DOMAIN h = Items(m, b) /\ DOMAIN e = Items(n, b) /\ RX_BUFS \in Nat \ {0}
      /\ Items(m, b) \in SUBSET (0..(RX_BUFS + 1)) /\ Items(n, b) \in SUBSET (0..(RX_BUFS + 1))
  BY LineItems
<1> DEFINE F == D \cap Items(n, b)
           E == Queued(n) \union F
<1>8. IsFiniteSet(F) /\ Cardinality(F) <= x /\ Cardinality(F) \in Nat
  <2>1. IsFiniteSet(0..(RX_BUFS + 1))
    BY <1>7, FS_Interval
  <2>2. D \in SUBSET (0..(RX_BUFS + 1)) /\ F \in SUBSET D
    BY <1>7
  <2>3. IsFiniteSet(D) /\ Cardinality(D) \in Nat
    BY <2>1, <2>2, FS_Subset, FS_CardinalityType
  <2>4. IsFiniteSet(F) /\ Cardinality(F) <= Cardinality(D)
    BY <2>2, <2>3, FS_Subset
  <2>5. Cardinality(F) \in Nat
    BY <2>4, FS_CardinalityType
  <2> QED BY <1>6, <2>3, <2>4, <2>5
<1>9. Cardinality(E) <= x + (RX_BUFS - 1)
  <2>1. IsFiniteSet(Queued(n) \cap F)
    BY <1>5, FS_Intersection
  <2>2. Cardinality(Queued(n) \cap F) \in Nat
    BY <2>1, FS_CardinalityType
  <2>3. Cardinality(E) = Cardinality(Queued(n)) + Cardinality(F) - Cardinality(Queued(n) \cap F)
    BY <1>5, <1>8, FS_Union
  <2> HIDE DEF E, F
  <2> QED BY <1>5, <1>7, <1>8, <2>2, <2>3
<1>10. E \in SUBSET DOMAIN e
  BY <1>7, LineItems
<1>11. ASSUME NEW k \in DOMAIN e \ E PROVE k \in DOMAIN h \ D /\ e[k] = h[k]
  <2>1. k \in Items(n, b) /\ k \notin Queued(n) /\ k \notin D
    BY <1>7
  <2>2. k = OnEp1 \/ k = InBank
    BY <2>1, LineItems
  <2>3. k \in Items(m, b) /\ IdsOf(n, b, k) = IdsOf(m, b, k)
    <3>1. CASE k = OnEp1
      <4>1. SendsFrame(m)
        BY <1>2, <2>1, <3>1, LineItems
      <4>2. k \in Items(m, b) /\ IdsOf(m, b, k) = {Flight(m).id}
        BY <3>1, <4>1, LineItems
      <4>3. IdsOf(n, b, k) = {Flight(n).id}
        BY <3>1, LineItems
      <4> QED BY <1>2, <4>2, <4>3
    <3>2. CASE k = InBank
      <4>1. b # {} /\ IdsOf(n, b, k) = b
        BY <2>1, <3>2, LineItems
      <4>2. k \in Items(m, b) /\ IdsOf(m, b, k) = b
        BY <3>2, <4>1, LineItems
      <4> QED BY <4>1, <4>2
    <3> QED BY <2>2, <3>1, <3>2
  <2>4. e[k] = IdsOf(n, b, k) /\ h[k] = IdsOf(m, b, k)
    BY <2>1, <2>3, LineItems
  <2> QED BY <1>7, <2>1, <2>3, <2>4
<1> HIDE DEF E, e, h
<1>12. NewItems(e, DOMAIN e \ E, S)
  BY <1>6, <1>11 DEF NewItems
<1>13. Owes(e, S, x + (RX_BUFS - 1))
  BY <1>9, <1>10, <1>12 DEF Owes
<1> QED BY <1>1, <1>3, <1>13 DEF n, e

-----------------------------------------------------------------------------
(* Packets of EP1                                                          *)

LEMMA EmptyBank ==
    ASSUME TypeOK, Parts, fifo = <<>>
    PROVE  HasPart(SentPart(mac)) /\ Ended = {}
BY DEF Parts, Ended

\* The byte is a message of its own, and EP1 goes on with the ring.
LEMMA ByteDebt ==
    ASSUME TypeOK, TypeOK', DebtInv, Ep1Tx, ~SendsFrame(mac)
    PROVE  /\ Ep1Frame(mac') /\ mac'.rx_buf = mac.rx_buf /\ Parts' /\ Ended' = {} /\ Ended = {}
           /\ \A x \in Nat : Owes(Line(mac, {}), Seen, x) => Owes(Line(mac', {}), Seen, x)
<1> DEFINE m == [mac EXCEPT !.ep1 = AfterPacket(@)]
<1>0. /\ mac \in MacType /\ m \in MacType /\ mac.ep1 \in Endpoints /\ Ep1Frame(mac) /\ Parts
  BY PacketSentType DEF TypeOK, DebtInv, MacType
<1>1. mac.ep1.state = "EP_TX" /\ mac.ep1.left = 1 /\ mac.ep1.callback # "rx_done"
  BY <1>0 DEF Ep1Tx, Ep1Frame, SendsFrame
<1>p. PICK p \in Packets : p = [val |-> Contents(mac), n |-> PacketSize(mac.ep1)]
  BY <1>0, AfterPacketType, ContentsType DEF Packets
<1>2. /\ fifo = <<>> /\ fifo' = <<p>> /\ p.n = 1 /\ PacketSize(mac.ep1) = 1
      /\ partial' = partial
  BY <1>1, <1>p DEF Ep1Tx, host, NoPacket, PacketSize, EP_SIZE
<1>3. Ended = {} /\ partial = NoMessage
  <2>1. HasPart(SentPart(mac)) /\ Ended = {}
    BY <1>0, <1>2, EmptyBank
  <2>2. SentPart(mac) = 0
    BY DEF SentPart
  <2>3. partial \in Messages /\ partial.len = 0 /\ partial.vals = {}
    BY <2>1, <2>2 DEF HasPart, TypeOK
  <2> QED BY <2>1, <2>3 DEF Messages, NoMessage
<1>4. Ended' = {}
  <2>1. Head(fifo') = p /\ partial'.len = 0
    BY <1>2, <1>3 DEF NoMessage
  <2> QED BY <1>2, <2>1 DEF Ended, EP_SIZE
<1>5. mac' = IF EpIdle(m.ep1) THEN Callback(m) ELSE m
  BY DEF Ep1Tx
<1>6. /\ m.rx_in = mac.rx_in /\ m.rx_out = mac.rx_out /\ m.rx_buf = mac.rx_buf
      /\ m.ep1.callback = mac.ep1.callback /\ EpIdle(m.ep1)
  BY <1>0, <1>2, PacketSent DEF EpIdle, EP_SIZE
<1> HIDE DEF m
<1>7. mac' = UsbNext(m) \/ mac' = m
  <2>1. mac.ep1.callback \in Callbacks
    BY <1>0 DEF Endpoints, Callbacks
  <2> QED BY <1>1, <1>5, <1>6, <2>1 DEF Callback, TxAckDone, Callbacks
<1>8. ~SendsFrame(m) /\ {} \in {{}, {}} /\ Seen \in SUBSET Seen
  BY <1>6 DEF SendsFrame, EpIdle
<1>9. ASSUME NEW x \in Nat, Owes(Line(mac, {}), Seen, x)
      PROVE  Owes(Line(m, {}), Seen, x) /\ Keeps(mac, m)
  BY <1>0, <1>6, <1>8, <1>9, SameLine
<1>10. ASSUME NEW x \in Nat, Owes(Line(mac, {}), Seen, x)
       PROVE  Owes(Line(mac', {}), Seen, x) /\ Ep1Frame(mac') /\ SentPart(mac') = 0
  <2>1. CASE mac' = UsbNext(m)
    BY <1>0, <1>6, <1>9, <1>10, <2>1, UsbNextLine
  <2>2. CASE mac' = m
    <3>1. SentPart(m) = 0
      BY <1>8 DEF SentPart
    <3> QED BY <1>9, <1>10, <2>2, <3>1 DEF Keeps
  <2> QED BY <1>7, <2>1, <2>2
<1>11. \E x \in Nat : Owes(Line(mac, {}), Seen, x)
  BY <1>3 DEF DebtInv, Debt
<1>12. mac'.rx_buf = mac.rx_buf
  BY <1>0, <1>6, <1>7, UsbNextEp1
<1>13. SentPart(mac') = 0 /\ Ep1Frame(mac')
  BY <1>10, <1>11
<1>14. PartByte(p)'
  BY <1>2, <1>3, <1>13 DEF PartByte
<1>15. Parts'
  BY <1>2, <1>14 DEF Parts
<1> QED BY <1>3, <1>4, <1>10, <1>12, <1>13, <1>15

\* The slot in flight becomes the message in the bank, and the ring moves on.
LEMMA ReleaseLine ==
    ASSUME NEW m \in MacType, NEW s \in MacType, SendsFrame(m), EpIdle(s.ep1),
           s.rx_in = m.rx_in, s.rx_out = Wrap(m.rx_out + 1), s.rx_buf = m.rx_buf,
           NEW S, NEW x \in Nat, Owes(Line(m, {}), S, x)
    PROVE  Owes(Line(s, {Flight(m).id}), S, x)
<1> DEFINE b == {Flight(m).id}
           h == Line(m, {})
           e == Line(s, b)
           g == [k \in Items(s, b) |-> IF k = InBank THEN OnEp1 ELSE k]
           j == RX_BUFS + 2
<1>1. /\ RX_BUFS + 1 \in Nat /\ DOMAIN h \in SUBSET (0..(RX_BUFS + 1))
      /\ DOMAIN h = Items(m, {}) /\ DOMAIN e = Items(s, b)
      /\ j \notin Items(s, b) /\ OnEp1 # InBank
      /\ Queued(s) \in SUBSET (0..(RX_BUFS - 1)) /\ RX_BUFS \in Nat
  <2>1. /\ RX_BUFS \in Nat /\ OnEp1 = RX_BUFS /\ InBank = RX_BUFS + 1
        /\ DOMAIN h = Items(m, {}) /\ DOMAIN e = Items(s, b)
        /\ Queued(s) \in SUBSET (0..(RX_BUFS - 1))
    BY LineItems
  <2>2. Items(m, {}) \in SUBSET (0..(RX_BUFS + 1))
    BY LineItems
  <2>3. Items(s, b) \in SUBSET (0..(RX_BUFS + 1))
    BY LineItems
  <2> HIDE DEF h, e, b
  <2> QED BY <2>1, <2>2, <2>3
<1>2. m.rx_in \in 0..(RX_BUFS - 1) /\ m.rx_out \in 0..(RX_BUFS - 1)
  BY MacFacts
<1>3. ~SendsFrame(s)
  BY DEF SendsFrame, EpIdle
<1>4. ASSUME NEW k \in Queued(s) PROVE k \in Queued(m)
  <2>1. k \in 0..(RX_BUFS - 1) /\ InRing(Wrap(m.rx_out + 1), m.rx_in, k) /\ k \in Slots
    BY <1>1, <1>3 DEF Queued
  <2>2. k # m.rx_out /\ (m.rx_in = m.rx_out \/ InRing(m.rx_out, m.rx_in, k))
    BY <1>2, <2>1, RingShrinks
  <2> QED BY <2>1, <2>2 DEF Queued
<1>5. /\ \A k \in Items(s, b) : e[k] = IdsOf(s, b, k)
      /\ \A k \in Items(m, {}) : h[k] = IdsOf(m, {}, k)
  BY LineItems
<1>6. OnEp1 \notin Items(s, b)
  BY <1>3, LineItems
<1>7. Owes(h, S, x)
  OBVIOUS
<1> HIDE DEF h, e
<1>8. ASSUME NEW k \in Items(s, b) PROVE g[k] \in DOMAIN h /\ e[k] = h[g[k]]
  <2>1. CASE k \in Queued(s)
    <3>1. k # InBank /\ k \in Queued(m) /\ g[k] = k
      BY <1>1, <1>4, <2>1 DEF InBank
    <3>2. IdsOf(s, b, k) = {s.rx_buf[k].id}
      BY <2>1, LineItems
    <3>3. k \in Items(m, {}) /\ IdsOf(m, {}, k) = {m.rx_buf[k].id}
      BY <3>1, LineItems
    <3> QED BY <1>1, <1>5, <3>1, <3>2, <3>3
  <2>2. CASE k = InBank
    <3>1. g[k] = OnEp1
      BY <2>2
    <3>2. IdsOf(s, b, k) = b
      BY <2>2, LineItems
    <3>3. OnEp1 \in Items(m, {}) /\ IdsOf(m, {}, OnEp1) = b
      BY LineItems
    <3> QED BY <1>1, <1>5, <3>1, <3>2, <3>3
  <2> QED BY <1>6, <2>1, <2>2, LineItems
<1>9. \A k, l \in Items(s, b) : g[k] = g[l] => k = l
  BY <1>6
<1> HIDE DEF g, j, b
<1>10. Carries(h, e, g, j, S)
  BY <1>1, <1>8, <1>9 DEF Carries
<1>11. S \in SUBSET S
  OBVIOUS
<1>12. Owes(e, S, x)
  BY <1>1, <1>7, <1>10, <1>11, Carried
<1> QED BY <1>12 DEF e, b

\* A packet of a frame goes into the bank; the last one completes a message.
LEMMA FrameDebt ==
    ASSUME TypeOK, TypeOK', DebtInv, Ep1Tx, SendsFrame(mac)
    PROVE  /\ Ep1Frame(mac') /\ mac'.rx_buf = mac.rx_buf /\ Parts' /\ Ended = {}
           /\ \A x \in Nat : Owes(Line(mac, {}), Seen, x) => Owes(Line(mac', Ended'), Seen, x)
<1> DEFINE m == [mac EXCEPT !.ep1 = AfterPacket(@)]
<1>0. /\ mac \in MacType /\ m \in MacType /\ mac' \in MacType /\ mac.ep1 \in Endpoints
      /\ SlotOK(mac) /\ Ep1Frame(mac) /\ RingKnown(mac) /\ Parts
  BY PacketSentType DEF TypeOK, DebtInv, Known, MacType
<1>p. PICK p \in Packets : p = [val |-> Contents(mac), n |-> PacketSize(mac.ep1)]
  BY <1>0, AfterPacketType, ContentsType DEF Packets
<1>f. PICK f \in Frames : f = Flight(mac) /\ mac.ep1.buf.mem = "rx_buf"
                          /\ f = mac.rx_buf[mac.ep1.buf.slot] /\ mac.ep1.buf.slot \in Slots
  BY <1>0, FlightSlot
<1>s. PICK size \in Nat : size = f.size
  BY FrameType
<1>l. PICK left \in Nat : left = mac.ep1.left
  BY <1>0, FlightSlot
<1>1. left <= size + 2 /\ SentPart(mac) = size + 2 - left
  BY <1>0, <1>f, <1>s, <1>l DEF Ep1Frame, SentPart
<1>2. /\ fifo = <<>> /\ fifo' = <<p>> /\ p.val = f.id /\ p.n = PacketSize(mac.ep1)
      /\ partial' = partial
  <2>1. Contents(mac) = f.id
    BY <1>f DEF Contents
  <2> QED BY <1>p, <2>1 DEF Ep1Tx, host, NoPacket
<1>3. /\ Ended = {} /\ partial.len = size + 2 - left
      /\ partial.vals = IF partial.len = 0 THEN {} ELSE {f.id}
  BY <1>0, <1>f, <1>1, <1>2, EmptyBank DEF HasPart
<1>4. p.n = (IF left > 64 THEN 64 ELSE left) /\ EP_SIZE = 64
  BY <1>2, <1>l DEF PacketSize, EP_SIZE
<1>5. mac' = (IF EpIdle(m.ep1) THEN Callback(m) ELSE m)
  BY DEF Ep1Tx
<1>6. /\ m.rx_in = mac.rx_in /\ m.rx_out = mac.rx_out /\ m.rx_buf = mac.rx_buf
      /\ m.ep1.callback = "rx_done" /\ m.ep1.buf = mac.ep1.buf /\ m.ep1.left = mac.ep1.left - p.n
      /\ m.ep1.state = IF p.n = EP_SIZE THEN "EP_TX" ELSE "EP_IDLE"
  BY <1>0, <1>2, PacketSent DEF SendsFrame
<1> HIDE DEF m
<1>7. CASE p.n = EP_SIZE
  <2>1. mac' = m /\ left >= 64 /\ m.ep1.left = left - 64
    <3>1. mac' = m
      BY <1>5, <1>6, <1>7 DEF EpIdle
    <3> QED BY <1>4, <1>6, <1>7, <1>l, <3>1
  <2>2. SendsFrame(m) /\ Flight(m) = f
    BY <1>f, <1>6, <1>7 DEF SendsFrame, Flight
  <2>3. Ep1Frame(m)
    BY <1>s, <1>1, <2>1, <2>2 DEF Ep1Frame
  <2>4. SentPart(m) = size + 2 - (left - 64) /\ SentPart(m) >= 64 /\ SentPart(m) - 64 = size + 2 - left
    <3>1. SentPart(m) = size + 2 - (left - 64)
      BY <1>s, <2>1, <2>2 DEF SentPart
    <3> QED BY <1>1, <3>1
  <2>5. Ended' = {}
    <3>1. Head(fifo') = p
      BY <1>2
    <3> QED BY <1>4, <1>7, <3>1 DEF Ended
  <2>6. PartFull(p)'
    <3>1. HasPart(SentPart(mac) - EP_SIZE)'
      BY <1>2, <1>3, <1>4, <2>1, <2>2, <2>4 DEF HasPart
    <3> QED BY <1>2, <1>4, <1>7, <2>1, <2>2, <2>4, <3>1 DEF PartFull
  <2>7. Parts'
    BY <1>2, <2>6 DEF Parts
  <2>8. Line(m, {}) = Line(mac, {})
    BY <1>f, <1>6, <2>2 DEF Line, Items, IdsOf, Queued
  <2> QED BY <1>3, <1>6, <2>1, <2>3, <2>5, <2>7, <2>8
<1>8. CASE p.n # EP_SIZE
  <2> DEFINE s == [m EXCEPT !.rx_out = NextBuf(@)]
  <2>1. EpIdle(m.ep1) /\ p.n < 64 /\ left = p.n
    BY <1>4, <1>6, <1>8 DEF EpIdle
  <2>2. mac' = UsbNext(s)
    BY <1>5, <1>6, <2>1 DEF Callback, RxDone
  <2>3. /\ s \in MacType /\ s.rx_in = mac.rx_in /\ s.rx_out = Wrap(mac.rx_out + 1)
        /\ s.rx_buf = mac.rx_buf /\ EpIdle(s.ep1)
    <3>1. m.rx_out \in Slots /\ NextBuf(m.rx_out) \in Slots
      BY <1>0, NextBufType DEF MacType
    <3> QED BY <1>0, <1>6, <2>1, <3>1, NextBufWrap DEF MacType
  <2> HIDE DEF s
  <2>4. Ended' = {f.id} /\ partial'.len + p.n = size + 2 /\ JoinedVals(p)' = {f.id}
    <3>1. Head(fifo') = p /\ partial'.len + p.n = size + 2
      BY <1>2, <1>3, <2>1
    <3>2. JoinedVals(p)' = {f.id}
      BY <1>2, <1>3, <2>1, <3>1 DEF JoinedVals
    <3> QED BY <1>2, <1>4, <2>1, <3>1, <3>2 DEF Ended
  <2>5. ASSUME NEW x \in Nat, Owes(Line(mac, {}), Seen, x)
        PROVE  Owes(Line(mac', {f.id}), Seen, x) /\ Ep1Frame(mac') /\ SentPart(mac') = 0
    <3>1. Owes(Line(s, {f.id}), Seen, x)
      BY <1>0, <1>f, <2>3, <2>5, ReleaseLine
    <3> QED BY <2>2, <2>3, <3>1, UsbNextLine
  <2>6. \E x \in Nat : Owes(Line(mac, {}), Seen, x)
    BY <1>3 DEF DebtInv, Debt
  <2>7. mac'.rx_buf = mac.rx_buf
    BY <2>2, <2>3, UsbNextEp1
  <2>8. SentPart(mac') = 0 /\ Ep1Frame(mac')
    BY <2>5, <2>6
  <2>9. f \in Stored(mac')
    <3>1. f \in Stored(mac)
      BY <1>0, <1>f DEF RingKnown
    <3> QED BY <3>1, Ep1TxAccepts DEF Stored
  <2>10. PartLast(p)'
    BY <1>s, <1>2, <1>4, <2>1, <2>4, <2>8, <2>9 DEF PartLast
  <2>11. Parts'
    BY <1>2, <2>10 DEF Parts
  <2> QED BY <1>3, <2>4, <2>5, <2>7, <2>8, <2>11
<1> QED BY <1>7, <1>8

\* A bus reset puts a frame that EP1 was sending back at the head of the ring.
LEMMA BusResetLine ==
    ASSUME NEW m \in MacType, NEW n \in MacType, SlotOK(m), n = [m EXCEPT !.ep1.state = "EP_IDLE"],
           NEW b, NEW S, NEW x \in Nat, Owes(Line(m, b), S, x)
    PROVE  /\ Owes(Line(n, {}), S, x) /\ Ep1Frame(n) /\ SentPart(n) = 0
           /\ n.rx_buf = m.rx_buf /\ n.accepted = m.accepted
<1>1. /\ n.rx_in = m.rx_in /\ n.rx_out = m.rx_out /\ n.rx_buf = m.rx_buf
      /\ n.accepted = m.accepted /\ n.ep1.state = "EP_IDLE"
      /\ m.rx_in \in Slots /\ m.rx_out \in Slots
  BY DEF MacType, Endpoints
<1>2. ~SendsFrame(n)
  BY <1>1 DEF SendsFrame
<1>3. Ep1Frame(n) /\ SentPart(n) = 0
  BY <1>1, <1>2 DEF Ep1Frame, SentPart
<1> DEFINE h == Line(m, b)
           e == Line(n, {})
           g == [k \in Items(n, {}) |-> IF SendsFrame(m) /\ k = m.rx_out THEN OnEp1 ELSE k]
           j == RX_BUFS + 2
<1>4. /\ RX_BUFS + 1 \in Nat /\ RX_BUFS \in Nat
      /\ DOMAIN h = Items(m, b) /\ DOMAIN e = Items(n, {})
      /\ Queued(n) \in SUBSET (0..(RX_BUFS - 1)) /\ OnEp1 = RX_BUFS
  <2>1. DOMAIN h = Items(m, b)
    BY LineItems
  <2>2. DOMAIN e = Items(n, {})
    BY LineItems
  <2>3. Queued(n) \in SUBSET (0..(RX_BUFS - 1)) /\ OnEp1 = RX_BUFS
    BY LineItems
  <2> QED BY <2>1, <2>2, <2>3, HardMacAssumption
<1>5. DOMAIN h \in SUBSET (0..(RX_BUFS + 1))
  BY LineItems
<1>6. Items(n, {}) = Queued(n)
  BY <1>2 DEF Items
<1>7. j \notin Items(n, {}) /\ OnEp1 \notin Items(n, {})
  BY <1>4, <1>6
<1>8. /\ \A k \in Items(n, {}) : e[k] = IdsOf(n, {}, k)
      /\ \A k \in Items(m, b) : h[k] = IdsOf(m, b, k)
  BY LineItems
<1>9. Owes(h, S, x)
  OBVIOUS
<1> HIDE DEF h, e
<1>10. ASSUME NEW k \in Queued(n) PROVE g[k] \in DOMAIN h /\ e[k] = h[g[k]]
  <2>1. IdsOf(n, {}, k) = {m.rx_buf[k].id} /\ k \in Items(n, {})
    <3>1. IdsOf(n, {}, k) = {n.rx_buf[k].id} /\ k \in Items(n, {})
      BY LineItems
    <3> QED BY <1>1, <3>1
  <2>2. k \in Slots /\ InRing(m.rx_out, m.rx_in, k)
    BY <1>1, <1>2 DEF Queued
  <2>3. CASE SendsFrame(m) /\ k = m.rx_out
    <3>1. g[k] = OnEp1
      BY <1>6, <2>3
    <3>2. m.rx_in # m.rx_out
      BY <1>1, <2>2, <2>3 DEF InRing, Slots
    <3>3. Flight(m) = m.rx_buf[m.rx_out]
      BY <2>3, <3>2, FlightSlot
    <3>4. OnEp1 \in Items(m, b) /\ IdsOf(m, b, OnEp1) = {Flight(m).id}
      BY <2>3, LineItems
    <3>5. e[k] = {m.rx_buf[m.rx_out].id}
      BY <1>8, <2>1, <2>3
    <3>6. h[OnEp1] = {m.rx_buf[m.rx_out].id}
      BY <1>8, <3>3, <3>4
    <3>7. OnEp1 \in DOMAIN h
      BY <1>4, <3>4
    <3> QED BY <3>1, <3>5, <3>6, <3>7
  <2>4. CASE ~(SendsFrame(m) /\ k = m.rx_out)
    <3>1. g[k] = k
      BY <1>6, <2>4
    <3>2. k \in Queued(m)
      BY <2>2, <2>4 DEF Queued
    <3>3. k \in Items(m, b) /\ IdsOf(m, b, k) = {m.rx_buf[k].id}
      BY <3>2, LineItems
    <3> QED BY <1>4, <1>8, <2>1, <3>1, <3>3
  <2> QED BY <2>3, <2>4
<1>11. \A k, l \in Items(n, {}) : g[k] = g[l] => k = l
  BY <1>7
<1> HIDE DEF g, j
<1>12. Carries(h, e, g, j, S)
  BY <1>4, <1>6, <1>7, <1>10, <1>11 DEF Carries
<1>13. S \in SUBSET S
  OBVIOUS
<1>14. Owes(e, S, x)
  BY <1>4, <1>5, <1>9, <1>12, <1>13, Carried
<1> QED BY <1>1, <1>3, <1>14 DEF e

-----------------------------------------------------------------------------
(* The host                                                                *)

\* Item z reaches the host: as a repeat, which pays for one, or as something new,
\* and then it may leave a second copy behind that owes in its place.
LEMMA Arrives ==
    ASSUME NEW N \in Nat, NEW h, DOMAIN h \in SUBSET (0..N), NEW z \in DOMAIN h,
           NEW e, DOMAIN e = DOMAIN h \ {z}, \A k \in DOMAIN e : e[k] = h[k],
           NEW S, NEW x \in Nat, Owes(h, S, x)
    PROVE  /\ h[z] \notin S /\ h[z] # {0} => Owes(e, S \union {h[z]}, x)
           /\ h[z] \in S \/ h[z] = {0} => x > 0 /\ Owes(e, S \union {h[z]}, x - 1)
<1> DEFINE T == S \union {h[z]}
<1>1. PICK D \in SUBSET DOMAIN h : Cardinality(D) <= x /\ NewItems(h, DOMAIN h \ D, S)
  BY DEF Owes
<1>2. IsFiniteSet(D) /\ Cardinality(D) \in Nat
  <2>1. IsFiniteSet(0..N) /\ D \in SUBSET (0..N)
    BY FS_Interval
  <2>2. IsFiniteSet(D)
    BY <2>1, FS_Subset
  <2> QED BY <2>2, FS_CardinalityType
<1> DEFINE C == D \ {z}
<1>3. /\ IsFiniteSet(C) /\ Cardinality(C) \in Nat
      /\ Cardinality(C) = IF z \in D THEN Cardinality(D) - 1 ELSE Cardinality(D)
  <2>1. IsFiniteSet(C) /\ Cardinality(C) = IF z \in D THEN Cardinality(D) - 1 ELSE Cardinality(D)
    BY <1>2, FS_RemoveElement
  <2> QED BY <2>1, FS_CardinalityType
<1>4. C \in SUBSET DOMAIN e /\ \A k \in DOMAIN e \ C : k \in DOMAIN h \ D /\ k # z /\ e[k] = h[k]
  OBVIOUS
<1>5. /\ \A k \in DOMAIN h \ D : h[k] # {0} /\ h[k] \notin S
      /\ \A k, l \in DOMAIN h \ D : k # l => h[k] # h[l]
  BY <1>1 DEF NewItems
<1>6. ASSUME \A k \in DOMAIN e \ C : e[k] # h[z] PROVE NewItems(e, DOMAIN e \ C, T)
  BY <1>4, <1>5, <1>6 DEF NewItems
<1>7. ASSUME h[z] \in S \/ h[z] = {0} PROVE x > 0 /\ Owes(e, T, x - 1)
  <2>1. z \in D
    BY <1>5, <1>7
  <2>2. Cardinality(C) <= x - 1 /\ x > 0
    BY <1>1, <1>2, <1>3, <2>1
  <2>3. \A k \in DOMAIN e \ C : e[k] # h[z]
    BY <1>4, <1>5, <1>7
  <2>4. NewItems(e, DOMAIN e \ C, T)
    BY <1>6, <2>3
  <2> HIDE DEF C, T
  <2> QED BY <1>4, <2>2, <2>4 DEF Owes
<1>8. ASSUME h[z] \notin S, h[z] # {0} PROVE Owes(e, T, x)
  <2>1. CASE \A k \in DOMAIN e \ C : e[k] # h[z]
    <3>1. NewItems(e, DOMAIN e \ C, T)
      BY <1>6, <2>1
    <3>2. Cardinality(C) <= x
      BY <1>1, <1>2, <1>3
    <3> HIDE DEF C, T
    <3> QED BY <1>4, <3>1, <3>2 DEF Owes
  <2>2. CASE \E k \in DOMAIN e \ C : e[k] = h[z]
    <3>1. PICK k \in DOMAIN e \ C : e[k] = h[z]
      BY <2>2
    <3>2. z \in D
      BY <1>4, <1>5, <3>1
    <3> DEFINE E == C \union {k}
    <3>3. Cardinality(E) = Cardinality(C) + 1
      BY <1>3, <3>1, FS_AddElement
    <3>4. Cardinality(E) <= x
      BY <1>1, <1>2, <1>3, <3>2, <3>3
    <3>5. \A l \in DOMAIN e \ E : e[l] # h[z]
      BY <1>4, <1>5, <3>1
    <3>6. NewItems(e, DOMAIN e \ E, T)
      BY <1>4, <1>5, <3>5 DEF NewItems
    <3>7. E \in SUBSET DOMAIN e
      BY <1>4, <3>1
    <3> HIDE DEF E, T
    <3> QED BY <3>4, <3>6, <3>7 DEF Owes
  <2> QED BY <2>1, <2>2
<1> QED BY <1>7, <1>8

LEMMA RepeatsFinite ==
    ASSUME TypeOK, TypeOK'
    PROVE  /\ IsFiniteSet(Repeats) /\ Cardinality(Repeats) \in Nat
           /\ Cardinality(Repeats') \in Nat
<1>1. ASSUME NEW L \in Nat, NEW R \in SUBSET (1..L)
      PROVE  IsFiniteSet(R) /\ Cardinality(R) \in Nat
  <2>1. IsFiniteSet(1..L)
    BY FS_Interval
  <2>2. IsFiniteSet(R)
    BY <2>1, FS_Subset
  <2> QED BY <2>2, FS_CardinalityType
<1>2. Len(frames) \in Nat /\ Repeats \in SUBSET (1..Len(frames))
  BY DEF TypeOK, Repeats
<1>3. Len(frames') \in Nat /\ Repeats' \in SUBSET (1..Len(frames'))
  BY DEF TypeOK, Repeats
<1> QED BY <1>1, <1>2, <1>3

\* One more frame is one more repeat, and not even that if it is new.
LEMMA RepeatsGrow ==
    ASSUME TypeOK, TypeOK', NEW m, frames' = Append(frames, m)
    PROVE  /\ Seen' = Seen \union {m.vals}
           /\ Cardinality(Repeats') <= Cardinality(Repeats) + 1
           /\ m.vals \notin Seen /\ m.vals # {0} => Cardinality(Repeats') = Cardinality(Repeats)
<1> DEFINE L == Len(frames)
<1>1. /\ frames \in Seq(Messages) /\ L \in Nat /\ Len(frames') = L + 1
      /\ frames'[L + 1] = m /\ \A i \in 1..L : frames'[i] = frames[i]
  BY DEF TypeOK
<1>2. \A i \in 1..(L + 1) : i \in 1..L \/ i = L + 1
  BY <1>1
<1>3. Seen' = Seen \union {m.vals}
  <2>1. Seen' = {frames'[i].vals : i \in 1..(L + 1)}
    BY <1>1 DEF Seen
  <2>2. 1..(L + 1) = (1..L) \union {L + 1}
    BY <1>1
  <2> QED BY <1>1, <2>1, <2>2 DEF Seen
<1>4. \A i \in 1..L : \A j \in 1..(i - 1) : j \in 1..L
  BY <1>1
<1>5. ASSUME NEW i \in 1..L PROVE i \in Repeats' <=> i \in Repeats
  <2>1. i \in 1..Len(frames') /\ frames'[i] = frames[i]
    BY <1>1
  <2>2. \A j \in 1..(i - 1) : frames'[j] = frames[j]
    BY <1>1, <1>4
  <2> QED BY <2>1, <2>2 DEF Repeats
<1>6. Repeats' \in SUBSET (1..(L + 1)) /\ Repeats \in SUBSET (1..L)
  BY <1>1 DEF Repeats
<1>7. Repeats' = Repeats \/ Repeats' = Repeats \union {L + 1}
  BY <1>2, <1>5, <1>6
<1>8. L + 1 \notin Repeats
  BY <1>1, <1>6
<1>9. IsFiniteSet(Repeats) /\ Cardinality(Repeats) \in Nat
  BY RepeatsFinite
<1>10. Cardinality(Repeats \union {L + 1}) = Cardinality(Repeats) + 1
  BY <1>8, <1>9, FS_AddElement
<1>11. ASSUME m.vals \notin Seen, m.vals # {0} PROVE L + 1 \notin Repeats'
  <2>1. m # MessageOf(NoFrame)
    BY <1>11 DEF MessageOf, NoFrame
  <2>2. \A j \in 1..((L + 1) - 1) : frames'[j].vals # m.vals
    BY <1>1, <1>11 DEF Seen
  <2> QED BY <1>1, <2>1, <2>2 DEF Repeats
<1> HIDE DEF L
<1>12. Cardinality(Repeats') <= Cardinality(Repeats) + 1
  <2>1. CASE Repeats' = Repeats
    BY <1>9, <2>1
  <2>2. CASE Repeats' = Repeats \union {L + 1}
    BY <1>9, <1>10, <2>2
  <2> QED BY <1>7, <2>1, <2>2
<1>13. m.vals \notin Seen /\ m.vals # {0} => Cardinality(Repeats') = Cardinality(Repeats)
  BY <1>7, <1>8, <1>11
<1> QED BY <1>3, <1>12, <1>13

\* A message that item z of the line makes costs one of what the line owed, or nothing.
LEMMA DebtTaken ==
    ASSUME NEW line, NEW e, NEW N \in Nat, DOMAIN line \in SUBSET (0..N), NEW z \in DOMAIN line,
           DOMAIN e = DOMAIN line \ {z}, \A k \in DOMAIN e : e[k] = line[k],
           NEW x \in Nat, Owes(line, Seen, x), TypeOK, TypeOK',
           NEW m, m.vals = line[z], frames' = Append(frames, m)
    PROVE  \E y \in Nat : /\ Owes(e, Seen', y)
                          /\ Cardinality(Repeats') + y <= Cardinality(Repeats) + x
<1>1. /\ Cardinality(Repeats) \in Nat /\ Cardinality(Repeats') \in Nat
      /\ Seen' = Seen \union {line[z]}
      /\ Cardinality(Repeats') <= Cardinality(Repeats) + 1
      /\ line[z] \notin Seen /\ line[z] # {0} => Cardinality(Repeats') = Cardinality(Repeats)
  <2>1. Cardinality(Repeats) \in Nat
    BY RepeatsFinite
  <2>2. Cardinality(Repeats') \in Nat
    BY RepeatsFinite
  <2> QED BY <2>1, <2>2, RepeatsGrow
<1>2. CASE line[z] \notin Seen /\ line[z] # {0}
  <2>1. Owes(e, Seen', x)
    BY <1>1, <1>2, Arrives
  <2>2. Cardinality(Repeats') + x <= Cardinality(Repeats) + x
    BY <1>1, <1>2
  <2> QED BY <2>1, <2>2
<1>3. CASE line[z] \in Seen \/ line[z] = {0}
  <2>1. x > 0 /\ Owes(e, Seen', x - 1)
    BY <1>1, <1>3, Arrives
  <2>2. x - 1 \in Nat /\ Cardinality(Repeats') + (x - 1) <= Cardinality(Repeats) + x
    BY <1>1, <2>1
  <2> QED BY <2>1, <2>2
<1> QED BY <1>2, <1>3

\* The host collects a packet.
LEMMA HostDebt ==
    ASSUME TypeOK, TypeOK', DebtInv, HostIn
    PROVE  Parts' /\ Known' /\ Debt'
<1>0. /\ mac' = mac /\ mac \in MacType /\ count' = count /\ fifo' = <<>>
      /\ Parts /\ Known /\ Debt /\ SlotOK(mac)
  BY DEF TypeOK, HostIn, device, NoPacket, DebtInv
<1>1. PICK p \in Packets : fifo = <<p>> /\ (PartFull(p) \/ PartByte(p) \/ PartLast(p))
  BY <1>0 DEF HostIn, NoPacket, Parts
<1>2. Head(fifo) = p /\ p.n \in Nat /\ p.val \in Nat /\ EP_SIZE = 64
  BY <1>1, PacketType DEF EP_SIZE
<1>t. /\ SentPart(mac') = SentPart(mac) /\ Stored(mac') = Stored(mac) /\ Allowance' = Allowance
      /\ RingKnown(mac') /\ Ended' = {}
  BY <1>0 DEF Allowance, Ended, Known
<1> DEFINE m == [vals |-> JoinedVals(p), len |-> partial.len + p.n]
<1>3. \/ p.n = 64 /\ partial' = m /\ frames' = frames
      \/ p.n < 64 /\ partial' = NoMessage /\ m.len = 1 /\ frames' = frames
      \/ p.n < 64 /\ partial' = NoMessage /\ m.len # 1 /\ frames' = Append(frames, m)
  BY <1>2 DEF HostIn, JoinedVals
<1>4. Ended = IF p.n < 64 /\ partial.len + p.n # 1 THEN JoinedVals(p) ELSE {}
  BY <1>1, <1>2 DEF Ended
<1>5. ASSUME frames' = frames, Ended = {} PROVE Known' /\ Debt'
  <2>1. Known'
    BY <1>0, <1>5 DEF Known
  <2>2. Seen' = Seen /\ Cardinality(Repeats') = Cardinality(Repeats)
    BY <1>5 DEF Seen, Repeats
  <2> DEFINE e == Line(mac', Ended')
  <2>3. e = Line(mac, Ended)
    BY <1>0, <1>t, <1>5
  <2> HIDE DEF m
  <2>4. PICK x \in Nat : Cardinality(Repeats) + x <= Allowance /\ Owes(Line(mac, Ended), Seen, x)
    BY <1>0 DEF Debt
  <2> HIDE DEF e
  <2>5. Cardinality(Repeats') + x <= Allowance' /\ Owes(e, Seen', x)
    BY <1>t, <2>2, <2>3, <2>4
  <2>6. Debt'
    BY <2>5 DEF Debt, e
  <2> QED BY <2>1, <2>6
<1>6. ASSUME partial' = NoMessage, SentPart(mac) = 0 PROVE Parts'
  <2>1. HasPart(SentPart(mac))'
    BY <1>t, <1>6 DEF HasPart, NoMessage
  <2> QED BY <1>0, <2>1 DEF Parts
<1>7. CASE PartFull(p)
  <2>1. p.n = 64 /\ partial' = m /\ frames' = frames /\ Ended = {} /\ p.val = Flight(mac).id
    BY <1>2, <1>3, <1>4, <1>7 DEF PartFull
  <2>2. PICK n \in Nat : n = SentPart(mac) - 64 /\ HasPart(n) /\ SentPart(mac) = n + 64
    <3>1. SendsFrame(mac) /\ SentPart(mac) >= 64 /\ HasPart(SentPart(mac) - 64)
      BY <1>2, <1>7 DEF PartFull
    <3>2. SentPart(mac) \in Int
      <4>1. mac.ep1.left \in Nat /\ Flight(mac).size \in Nat
        BY <1>0, <3>1, FlightSlot, FrameType
      <4> QED BY <3>1, <4>1 DEF SentPart
    <3> QED BY <3>1, <3>2
  <2>3. partial'.len = n + 64 /\ partial'.vals = {Flight(mac).id}
    BY <1>2, <2>1, <2>2 DEF HasPart, JoinedVals
  <2>4. HasPart(SentPart(mac))'
    BY <1>0, <2>2, <2>3 DEF HasPart
  <2>5. Parts'
    BY <1>0, <2>4 DEF Parts
  <2> QED BY <1>5, <2>1, <2>5
<1>8. CASE PartByte(p)
  <2>1. p.n < 64 /\ m.len = 1 /\ SentPart(mac) = 0
    BY <1>2, <1>8 DEF PartByte, NoMessage
  <2>2. partial' = NoMessage /\ frames' = frames /\ Ended = {}
    BY <1>3, <1>4, <2>1
  <2> QED BY <1>5, <1>6, <2>1, <2>2
<1>9. CASE PartLast(p)
  <2>1. p.n < 64 /\ partial.len + p.n > 1 /\ SentPart(mac) = 0
    BY <1>2, <1>9 DEF PartLast
  <2>2. partial.len + p.n \in Nat /\ frames \in Seq(Messages)
    BY <1>2 DEF TypeOK, Messages
  <2>3. partial' = NoMessage /\ frames' = Append(frames, m) /\ Ended = JoinedVals(p)
    BY <1>2, <1>3, <1>4, <2>1, <2>2
  <2>4. PICK f \in Stored(mac) : JoinedVals(p) = {f.id} /\ partial.len + p.n = f.size + 2
    BY <1>9 DEF PartLast
  <2> DEFINE a == f.id
  <2>5. m.vals = {a} /\ Ended = {a} /\ m = MessageOf(f)
    BY <2>3, <2>4 DEF MessageOf
  <2> HIDE DEF a
  <2> HIDE DEF m
  <2>6. Known'
    <3>1. \A i \in 1..Len(frames') : frames'[i] = m \/ (i \in 1..Len(frames) /\ frames'[i] = frames[i])
      BY <2>2, <2>3
    <3>2. \A i \in 1..Len(frames') : \E c \in Stored(mac) : frames'[i] = MessageOf(c)
      BY <1>0, <2>5, <3>1 DEF Known
    <3> QED BY <1>t, <3>2 DEF Known
  <2> DEFINE h == Line(mac, {a})
             e == Line(mac, {})
  <2>7. /\ DOMAIN h \in SUBSET (0..(RX_BUFS + 1)) /\ RX_BUFS + 1 \in Nat
        /\ InBank \in DOMAIN h /\ h[InBank] = {a}
        /\ DOMAIN e = DOMAIN h \ {InBank} /\ \A k \in DOMAIN e : e[k] = h[k]
    <3>1. DOMAIN h \in SUBSET (0..(RX_BUFS + 1)) /\ RX_BUFS + 1 \in Nat
      BY LineItems
    <3>2. Items(mac, {a}) = Items(mac, {}) \union {InBank}
      BY DEF Items
    <3>3. InBank \notin Items(mac, {})
      BY LineItems
    <3>4. DOMAIN e = Items(mac, {}) /\ DOMAIN h = Items(mac, {a})
      BY DEF Line
    <3>5. h[InBank] = {a}
      BY <3>2 DEF Line, IdsOf
    <3>6. ASSUME NEW k \in DOMAIN e PROVE e[k] = h[k]
      BY <3>2, <3>3, <3>4, <3>6 DEF Line, IdsOf
    <3> HIDE DEF h, e
    <3> QED BY <3>1, <3>2, <3>3, <3>4, <3>5, <3>6
  <2>8. PICK x \in Nat : Cardinality(Repeats) + x <= Allowance /\ Owes(h, Seen, x)
    BY <1>0, <2>5 DEF Debt
  <2>9. e = Line(mac', Ended')
    BY <1>0, <1>t
  <2> HIDE DEF h, e
  <2>10. \E y \in Nat : /\ Owes(e, Seen', y)
                        /\ Cardinality(Repeats') + y <= Cardinality(Repeats) + x
    BY <2>3, <2>5, <2>7, <2>8, DebtTaken
  <2>11. PICK y \in Nat : /\ Owes(e, Seen', y)
                          /\ Cardinality(Repeats') + y <= Cardinality(Repeats) + x
    BY <2>10
  <2>12. Cardinality(Repeats) \in Nat /\ Cardinality(Repeats') \in Nat /\ Allowance \in Int
    <3>1. Cardinality(Repeats) \in Nat
      BY RepeatsFinite
    <3>2. Cardinality(Repeats') \in Nat
      BY RepeatsFinite
    <3>3. count["rf_reset"] \in Nat /\ RX_BUFS - 1 \in Nat
      BY HardMacAssumption DEF TypeOK, Events
    <3> QED BY <3>1, <3>2, <3>3 DEF Allowance
  <2>13. Cardinality(Repeats') + y <= Allowance'
    BY <1>t, <2>8, <2>11, <2>12
  <2>14. Debt'
    BY <2>9, <2>11, <2>13 DEF Debt
  <2> QED BY <1>6, <2>1, <2>3, <2>6, <2>14
<1> QED BY <1>1, <1>7, <1>8, <1>9

-----------------------------------------------------------------------------
(* Every step                                                              *)

LEMMA OneMore ==
    ASSUME NEW c \in Nat, NEW b \in Nat
    PROVE  c * b \in Nat /\ (c + 1) * b = c * b + b
OBVIOUS

\* One reset allows RX_BUFS - 1 repeats more.
LEMMA Allows ==
    ASSUME TypeOK, TypeOK'
    PROVE  /\ Allowance \in Nat /\ RX_BUFS - 1 \in Nat
           /\ count'["rf_reset"] = count["rf_reset"] => Allowance' = Allowance
           /\ count'["rf_reset"] = count["rf_reset"] + 1 => Allowance' = Allowance + (RX_BUFS - 1)
<1> DEFINE c == count["rf_reset"]
           b == RX_BUFS - 1
<1>1. c \in Nat /\ b \in Nat
  BY HardMacAssumption DEF TypeOK, Events
<1>2. Allowance = c * b /\ Allowance' = count'["rf_reset"] * b
  BY DEF Allowance
<1> HIDE DEF c, b
<1>3. c * b \in Nat /\ (c + 1) * b = c * b + b
  BY <1>1, OneMore
<1> QED BY <1>1, <1>2, <1>3 DEF c, b

\* A reset of the transceiver owes no more than it allows.
LEMMA ResetDebt ==
    ASSUME TypeOK, TypeOK', DebtInv, RfReset
    PROVE  Ep1Frame(mac') /\ Parts' /\ Known' /\ Debt'
<1>0. /\ mac \in MacType /\ Ep1Frame(mac) /\ Parts /\ Known /\ Debt
      /\ mac' = MacReset(mac) /\ UNCHANGED <<fifo, partial, frames>>
      /\ count' = [count EXCEPT !["rf_reset"] = @ + 1] /\ count \in [Events -> Nat]
  BY DEF TypeOK, DebtInv, RfReset, Happens
<1>1. Allowance' = Allowance + (RX_BUFS - 1) /\ Allowance \in Nat /\ RX_BUFS - 1 \in Nat
  BY <1>0, Allows DEF Events
<1>2. PICK x \in Nat : Cardinality(Repeats) + x <= Allowance /\ Owes(Line(mac, Ended), Seen, x)
  BY <1>0 DEF Debt
<1> DEFINE e == Line(mac', Ended)
<1>3. /\ Owes(e, Seen, x + (RX_BUFS - 1)) /\ Keeps(mac, mac')
      /\ mac'.rx_buf = mac.rx_buf /\ mac'.accepted = mac.accepted
  BY <1>0, <1>2, ResetLine
<1>4. Stored(mac') = Stored(mac)
  BY <1>3 DEF Stored
<1>5. Parts' /\ Ended' = Ended /\ Seen' = Seen
  BY <1>0, <1>3, <1>4, PartsKept
<1>6. Known'
  BY <1>0, <1>3, <1>4 DEF Known, RingKnown
<1>7. Cardinality(Repeats') = Cardinality(Repeats)
  BY <1>0 DEF Repeats
<1>8. e = Line(mac', Ended')
  BY <1>5
<1> HIDE DEF e
<1>9. Cardinality(Repeats) \in Nat
  BY RepeatsFinite
<1>10. Cardinality(Repeats') + (x + (RX_BUFS - 1)) <= Allowance' /\ x + (RX_BUFS - 1) \in Nat
  BY <1>1, <1>2, <1>7, <1>9
<1>11. Debt'
  BY <1>3, <1>5, <1>8, <1>10 DEF Debt
<1> QED BY <1>3, <1>5, <1>6, <1>11 DEF Keeps

LEMMA BusResetDebt ==
    ASSUME TypeOK, TypeOK', DebtInv, BusReset
    PROVE  Ep1Frame(mac') /\ Parts' /\ Known' /\ Debt'
<1>0. /\ mac \in MacType /\ mac' \in MacType /\ SlotOK(mac) /\ Known /\ Debt
      /\ mac' = [mac EXCEPT !.ep1.state = "EP_IDLE"]
      /\ fifo' = <<>> /\ partial' = NoMessage /\ frames' = frames
      /\ count'["rf_reset"] = count["rf_reset"]
  BY DEF TypeOK, DebtInv, BusReset, Happens, Events, NoPacket
<1>1. Allowance' = Allowance
  BY <1>0, Allows
<1>2. PICK x \in Nat : Cardinality(Repeats) + x <= Allowance /\ Owes(Line(mac, Ended), Seen, x)
  BY <1>0 DEF Debt
<1> DEFINE e == Line(mac', {})
<1>3. /\ Owes(e, Seen, x) /\ Ep1Frame(mac') /\ SentPart(mac') = 0
      /\ mac'.rx_buf = mac.rx_buf /\ mac'.accepted = mac.accepted
  BY <1>0, <1>2, BusResetLine
<1>4. Ended' = {} /\ Seen' = Seen /\ Cardinality(Repeats') = Cardinality(Repeats)
  BY <1>0 DEF Ended, Seen, Repeats
<1>5. HasPart(SentPart(mac))'
  BY <1>0, <1>3 DEF HasPart, NoMessage
<1>6. Parts'
  BY <1>0, <1>5 DEF Parts
<1>7. Known'
  <2>1. Stored(mac') = Stored(mac)
    BY <1>3 DEF Stored
  <2>2. RingKnown(mac')
    BY <1>0, <1>3, <2>1 DEF Known, RingKnown
  <2> HIDE DEF e
  <2> QED BY <1>0, <2>1, <2>2 DEF Known
<1>8. e = Line(mac', Ended')
  BY <1>4
<1> HIDE DEF e
<1>9. Debt'
  BY <1>1, <1>2, <1>3, <1>4, <1>8 DEF Debt
<1> QED BY <1>3, <1>6, <1>7, <1>9

LEMMA Ep1TxDebt ==
    ASSUME TypeOK, TypeOK', DebtInv, Ep1Tx
    PROVE  Ep1Frame(mac') /\ Parts' /\ Known' /\ Debt'
<1>0. /\ Known /\ Debt /\ frames' = frames /\ count' = count /\ mac'.accepted = mac.accepted
  BY Ep1TxAccepts DEF DebtInv, Ep1Tx, host
<1>1. Allowance' = Allowance /\ Seen' = Seen /\ Cardinality(Repeats') = Cardinality(Repeats)
  BY <1>0 DEF Allowance, Seen, Repeats
<1>2. PICK x \in Nat : Cardinality(Repeats) + x <= Allowance /\ Owes(Line(mac, Ended), Seen, x)
  BY <1>0 DEF Debt
<1> DEFINE e == Line(mac', Ended')
<1>3. /\ Ep1Frame(mac') /\ mac'.rx_buf = mac.rx_buf /\ Parts'
      /\ Owes(e, Seen, x)
  <2>1. CASE SendsFrame(mac)
    BY <1>2, <2>1, FrameDebt
  <2>2. CASE ~SendsFrame(mac)
    BY <1>2, <2>2, ByteDebt
  <2> QED BY <2>1, <2>2
<1>4. Known'
  <2>1. Stored(mac') = Stored(mac)
    BY <1>0 DEF Stored
  <2>2. RingKnown(mac')
    BY <1>0, <1>3, <2>1 DEF Known, RingKnown
  <2> HIDE DEF e
  <2> QED BY <1>0, <2>1, <2>2 DEF Known
<1> HIDE DEF e
<1>5. Debt'
  BY <1>1, <1>2, <1>3 DEF Debt, e
<1> QED BY <1>3, <1>4, <1>5

\* All other steps, of the radio, mac.c and the requests.
LEMMA QuietDebt ==
    ASSUME TypeOK, TypeOK', DebtInv, [Next]_vars, ~HostIn, ~RfReset, ~BusReset, ~Ep1Tx
    PROVE  Ep1Frame(mac') /\ Parts' /\ Known' /\ Debt'
<1>0. /\ mac \in MacType /\ mac' \in MacType /\ Known /\ Debt /\ Parts /\ Fresh /\ Ascending(mac)
  BY DEF TypeOK, DebtInv
<1>1. UNCHANGED <<fifo, partial, frames>> /\ count'["rf_reset"] = count["rf_reset"]
  BY DEF TypeOK, Next, Radio, Firmware, Requests, FrameArrives, TxEnds, OtherIrq, Int0,
     RxModeOn, RxModeOff, TxRequest, OtherRequest, TxData, vars, host, Happens, Events
<1>2. Allowance' = Allowance
  BY <1>1, Allows
<1>3. mac' = mac \/ Int0 \/ RxModeOff \/ TxRequest \/ (TxData /\ DoTx)
  BY MacSteps
<1>4. PICK x \in Nat : Cardinality(Repeats) + x <= Allowance /\ Owes(Line(mac, Ended), Seen, x)
  BY <1>0 DEF Debt
<1> DEFINE e == Line(mac', Ended)
<1>5. Keeps(mac, mac') /\ RingKnown(mac') /\ Owes(e, Seen, x)
  BY <1>3, <1>4, MacStep
<1>6. Stored(mac) \subseteq Stored(mac')
  <2>1. mac'.accepted = mac.accepted \/ \E f \in Frames : mac'.accepted = Append(mac.accepted, f)
    BY <1>0, Accepts DEF TypeOK
  <2> QED BY <1>0, <2>1, StoredGrows
<1>7. Parts' /\ Ended' = Ended /\ Seen' = Seen
  BY <1>0, <1>1, <1>5, <1>6, PartsKept
<1>8. Known'
  BY <1>0, <1>1, <1>5, <1>6 DEF Known
<1>9. Cardinality(Repeats') = Cardinality(Repeats)
  BY <1>1 DEF Repeats
<1>10. e = Line(mac', Ended')
  BY <1>7
<1> HIDE DEF e
<1>11. Debt'
  BY <1>2, <1>4, <1>5, <1>7, <1>9, <1>10 DEF Debt
<1> QED BY <1>5, <1>7, <1>8, <1>11 DEF Keeps

LEMMA NextDebt ==
    ASSUME TypeOK, TypeOK', DebtInv, [Next]_vars PROVE DebtInv'
<1>1. Ascending(mac') /\ Fresh' /\ SlotOK(mac')
  BY FreshNext, NextSlot DEF DebtInv
<1>2. Ep1Frame(mac') /\ Parts' /\ Known' /\ Debt'
  <2>1. CASE HostIn
    <3>1. mac' = mac
      BY <2>1 DEF HostIn, device
    <3> QED BY <2>1, <3>1, HostDebt DEF DebtInv
  <2> QED BY <2>1, ResetDebt, BusResetDebt, Ep1TxDebt, QuietDebt
<1> QED BY <1>1, <1>2 DEF DebtInv

LEMMA InitDebt == Init => DebtInv
<1> SUFFICES ASSUME Init PROVE DebtInv
  OBVIOUS
<1>0. TypeOK
  BY InitType
<1>1. /\ mac.accepted = <<>> /\ Len(mac.accepted) = 0 /\ mac.rx_in = 0 /\ mac.rx_out = 0
      /\ mac.ep1.state = "EP_IDLE" /\ count["frame"] = 0 /\ count["rf_reset"] = 0 /\ fifo = <<>>
      /\ partial = NoMessage /\ frames = <<>> /\ Len(frames) = 0 /\ irq_status = {}
      /\ trx_buf = NoFrame /\ \A k \in Slots : mac.rx_buf[k] = NoFrame
  BY DEF Init, MacInit, IdleEp1, Opened, Events, NoPacket
<1>2. Ascending(mac) /\ Fresh
  BY <1>1, HardMacAssumption DEF Ascending, Fresh, NoFrame, Events
<1>3. SlotOK(mac)
  BY InitSlot
<1>4. ~SendsFrame(mac) /\ Ep1Frame(mac) /\ SentPart(mac) = 0
  BY <1>1 DEF SendsFrame, Ep1Frame, SentPart
<1>5. Known
  BY <1>1 DEF Known, RingKnown, Stored
<1>6. Parts
  BY <1>1, <1>4 DEF Parts, HasPart, NoMessage
<1>7. Ended = {} /\ Repeats = {}
  BY <1>1 DEF Ended, Repeats
<1>8. Line(mac, Ended) = [k \in {} |-> IdsOf(mac, {}, k)]
  <2>1. Queued(mac) = {}
    BY <1>1, <1>4, HardMacAssumption DEF Queued, InRing, Slots
  <2>2. Items(mac, {}) = {}
    BY <1>4, <2>1 DEF Items
  <2> QED BY <1>7, <2>2 DEF Line
<1>9. Cardinality({}) = 0
  BY FS_EmptySet
<1>10. Owes(Line(mac, Ended), Seen, 0)
  BY <1>8, <1>9 DEF Owes, NewItems
<1>11. Allowance = 0
  <2>1. RX_BUFS - 1 \in Int
    BY HardMacAssumption
  <2> QED BY <1>1, <2>1 DEF Allowance
<1>12. Debt
  BY <1>7, <1>9, <1>10, <1>11 DEF Debt
<1> QED BY <1>2, <1>3, <1>4, <1>5, <1>6, <1>12 DEF DebtInv

LEMMA WholeSoFar == DebtInv => FramesWhole
BY DEF DebtInv, Known, Stored, FramesWhole

LEMMA OwedSoFar == TypeOK /\ DebtInv => Cardinality(Repeats) <= count["rf_reset"] * (RX_BUFS - 1)
<1> SUFFICES ASSUME TypeOK, DebtInv PROVE Cardinality(Repeats) <= Allowance
  BY DEF Allowance
<1>1. PICK n \in Nat : Cardinality(Repeats) + n <= Allowance
  BY DEF DebtInv, Debt
<1>2. Cardinality(Repeats) \in Nat
  <2>1. Len(frames) \in Nat /\ Repeats \in SUBSET (1..Len(frames))
    BY DEF TypeOK, Repeats
  <2>2. IsFiniteSet(1..Len(frames))
    BY <2>1, FS_Interval
  <2>3. IsFiniteSet(Repeats)
    BY <2>1, <2>2, FS_Subset
  <2> QED BY <2>3, FS_CardinalityType
<1>3. Allowance \in Int
  <2>1. count["rf_reset"] \in Nat /\ RX_BUFS - 1 \in Nat
    BY HardMacAssumption DEF TypeOK, Events
  <2> QED BY <2>1 DEF Allowance
<1> QED BY <1>1, <1>2, <1>3

\* Whole frames, RX_BUFS - 1 repeats for each reset of the transceiver and not one
\* more, for every ring size, any sizes of frames, and any mix of receptions,
\* transmissions, mode changes, transceiver resets and bus resets.
THEOREM RepeatsAreBounded == Spec => []RepeatsBounded
<1>1. TypeOK /\ DebtInv /\ [Next]_vars => TypeOK' /\ DebtInv'
  BY NextType, NextDebt
<1>2. TypeOK /\ DebtInv => RepeatsBounded
  BY WholeSoFar, OwedSoFar DEF RepeatsBounded
<1> QED BY <1>1, <1>2, InitType, InitDebt, PTL DEF Spec
=============================================================================
