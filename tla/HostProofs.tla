----------------------------- MODULE HostProofs -----------------------------
(***************************************************************************)
(* Two libraries of the host that read EP1 of the device: an interrupt is  *)
(* not lost on its way to the program that waits for it (IrqPath), and what*)
(* atusb_rx() returns is a whole frame (HostMac), for any number of        *)
(* interrupts, messages and programs, in any order.                        *)
(***************************************************************************)
EXTENDS IrqPath, HostMac, Integers, TLAPS

-----------------------------------------------------------------------------
(* Interrupts: IrqPath                                                     *)

\* WakeupPending is inductive together with the types and with what a program that
\* uses HardMAC relies on: while no program has the device open, nothing is claimed,
\* and atusb_open() makes it true.
MacIsOn == host = "hardmac" /\ ~error => mac_irq
IrqInv == IrqTypeOK /\ WakeupPending /\ MacIsOn

LEMMA IrqInvInit == IrqInit => IrqInv
<1>1. IrqInit => IrqTypeOK
  <2>1. Flush \in Waits
    BY DEF Flush, Waits
  <2>2. 0 \in 0..Raises
    BY IrqAssumption
  <2>3. QED
    BY <2>1, <2>2 DEF IrqInit, IrqTypeOK
<1>2. IrqInit => WakeupPending
  BY DEF IrqInit, WakeupPending
<1>3. IrqInit => MacIsOn
  BY DEF IrqInit, MacIsOn
<1>4. QED
  BY <1>1, <1>2, <1>3 DEF IrqInv

LEMMA TypesKept == IrqTypeOK /\ [IrqNext]_irqVars => IrqTypeOK'
<1> SUFFICES ASSUME IrqTypeOK, [IrqNext]_irqVars PROVE IrqTypeOK'
  OBVIOUS
<1> USE IrqAssumption DEF IrqTypeOK, firmware, program
<1>1. CASE Raise
  <2>1. raises' \in 0..Raises
    BY <1>1 DEF Raise
  <2>2. irqs' \subseteq IRQS
    BY <1>1 DEF Raise
  <2>3. int0' \in BOOLEAN
    BY <1>1 DEF Raise
  <2>4. QED
    BY <1>1, <2>1, <2>2, <2>3 DEF Raise
<1>2. CASE ServeInt0
  <2>1. ep1' \in {"EP_IDLE", "serial", "frame", "answer"} /\ irqs' \subseteq IRQS
    BY <1>2 DEF ServeInt0, HandleIrq
  <2>2. int0' \in BOOLEAN
    BY <1>2 DEF ServeInt0
  <2>3. QED
    BY <1>2, <2>1, <2>2 DEF ServeInt0
<1>14. CASE ServeTx
  <2>1. ep1' \in {"EP_IDLE", "serial", "frame", "answer"}
    BY <1>14 DEF ServeTx
  <2>2. bank' \in {"empty", "byte", "frame"}
    BY <1>14 DEF ServeTx
  <2>3. QED
    BY <1>14, <2>1, <2>2 DEF ServeTx
<1>3. CASE BusReset \/ PowerUp
  BY <1>3 DEF BusReset, PowerUp
<1>4. CASE Open \/ ReadAtOpen \/ ResetRf \/ Gpio \/ Pattern \/ GpioCleanup
  BY <1>4 DEF Open, ReadAtOpen, ResetRf, Gpio, Pattern, GpioCleanup
<1>13. CASE RxModeOn \/ RxModeOff \/ MacReads \/ MacSends
  BY <1>13 DEF RxModeOn, RxModeOff, MacReads, MacSends, HandleIrq
<1>5. CASE Close
  BY <1>5 DEF Close, Waits, Flush
<1>6. CASE \E w \in Waits : Call(w)
  BY <1>6 DEF Call
<1>7. CASE Again \/ Bulk \/ NoByte
  BY <1>7 DEF Again, Bulk, BulkFrame, NoByte
<1>8. CASE ReadStatus \/ Poll
  BY <1>8 DEF ReadStatus, Poll
<1>9. CASE Got
  BY <1>9 DEF Got
<1>10. CASE SigInt
  BY <1>10 DEF SigInt
<1>11. CASE UNCHANGED irqVars
  BY <1>11 DEF irqVars
<1>12. QED
  BY <1>1, <1>2, <1>3, <1>4, <1>5, <1>6, <1>7, <1>8, <1>9, <1>10, <1>11, <1>13,
     <1>14 DEF IrqNext, InFirmware, InWait

LEMMA WakeupKept == IrqInv /\ [IrqNext]_irqVars => WakeupPending'
<1> SUFFICES ASSUME IrqInv, [IrqNext]_irqVars PROVE WakeupPending'
  OBVIOUS
<1> USE DEF IrqInv, WakeupPending, firmware, program
<1>1. CASE Raise
  BY <1>1 DEF Raise
<1>2. CASE ServeInt0
  <2>1. CASE mac_irq
    BY <1>2, <2>1 DEF ServeInt0, HandleIrq
  <2>2. CASE ~mac_irq
    BY <1>2, <2>2 DEF ServeInt0, IrqTypeOK
  <2>3. QED
    BY <2>1, <2>2
<1>14. CASE ServeTx
  BY <1>14 DEF ServeTx
<1>3. CASE BusReset \/ PowerUp
  BY <1>3 DEF BusReset, PowerUp
<1>4. CASE Open \/ ReadAtOpen \/ ResetRf \/ Gpio \/ Pattern \/ GpioCleanup
  BY <1>4 DEF Open, ReadAtOpen, ResetRf, Gpio, Pattern, GpioCleanup
<1>13. CASE RxModeOn \/ MacSends
  BY <1>13 DEF RxModeOn, MacSends, HandleIrq
<1>15. CASE RxModeOff
  BY <1>15 DEF RxModeOff
<1>16. CASE MacReads
  BY <1>16 DEF MacReads, MacIsOn
<1>5. CASE Close
  BY <1>5 DEF Close
<1>6. CASE \E w \in Waits : Call(w)
  BY <1>6 DEF Call
<1>7. CASE Again \/ Bulk \/ NoByte
  BY <1>7 DEF Again, Bulk, BulkFrame, NoByte
<1>8. CASE ReadStatus \/ Poll
  BY <1>8 DEF ReadStatus, Poll
<1>9. CASE Got
  BY <1>9 DEF Got
<1>10. CASE SigInt
  BY <1>10 DEF SigInt
<1>11. CASE UNCHANGED irqVars
  BY <1>11 DEF irqVars
<1>12. QED
  BY <1>1, <1>2, <1>3, <1>4, <1>5, <1>6, <1>7, <1>8, <1>9, <1>10, <1>11, <1>13,
     <1>14, <1>15, <1>16 DEF IrqNext, InFirmware, InWait

LEMMA MacIsOnKept == IrqInv /\ [IrqNext]_irqVars => MacIsOn'
<1> SUFFICES ASSUME IrqInv, [IrqNext]_irqVars PROVE MacIsOn'
  OBVIOUS
<1> USE DEF IrqInv, MacIsOn, firmware, program
<1>1. CASE Raise \/ ServeInt0 \/ ServeTx \/ BusReset \/ PowerUp
  BY <1>1 DEF Raise, ServeInt0, ServeTx, BusReset, PowerUp
<1>2. CASE Open \/ ReadAtOpen \/ ResetRf \/ Close
  BY <1>2 DEF Open, ReadAtOpen, ResetRf, Close
<1>3. CASE RxModeOn \/ RxModeOff \/ MacReads \/ MacSends
  BY <1>3 DEF RxModeOn, RxModeOff, MacReads, MacSends
<1>4. CASE Gpio \/ Pattern \/ GpioCleanup \/ SigInt
  BY <1>4 DEF Gpio, Pattern, GpioCleanup, SigInt
<1>5. CASE (\E w \in Waits : Call(w)) \/ Again \/ Bulk \/ NoByte
  BY <1>5 DEF Call, Again, Bulk, BulkFrame, NoByte
<1>6. CASE ReadStatus \/ Poll
  BY <1>6 DEF ReadStatus, Poll
<1>7. CASE Got
  BY <1>7 DEF Got
<1>8. CASE UNCHANGED irqVars
  BY <1>8 DEF irqVars
<1>9. QED
  BY <1>1, <1>2, <1>3, <1>4, <1>5, <1>6, <1>7, <1>8 DEF IrqNext, InFirmware, InWait

\* A transceiver whose line is high is never forgotten.
THEOREM NoWakeupIsLost == IrqSpec => []WakeupPending
<1>1. IrqInv /\ [IrqNext]_irqVars => IrqInv'
  BY TypesKept, WakeupKept, MacIsOnKept DEF IrqInv
<1>2. IrqInv => WakeupPending
  BY DEF IrqInv
<1>3. QED
  BY <1>1, <1>2, IrqInvInit, PTL DEF IrqSpec

-----------------------------------------------------------------------------
(* Frames: HostMac                                                         *)

(* What the variables are. *)

Kinds == {"frame", "serial", "answer"}
MessageType == [what : Kinds, len : 1..PSDU + 2, sent : {0, EP_SIZE, 2 * EP_SIZE}]
DataType == [n : {0, EP_SIZE, 2 * EP_SIZE}, whole : BOOLEAN, what : Kinds \cup {"none"}]
ResultType == [len : Int, whole : BOOLEAN, unsynced : BOOLEAN]
TaskSteps == {"exit", "rx_mode_on", "rx_mode_off", "rx", "ack", "tx"}

HostMacTypeOK ==
    /\ ep1_queue \in Seq(MessageType) /\ answers \in Nat /\ messages \in Nat
    /\ task \in {"receive", "transmit", "rtt_slave", "none"} /\ task_at \in TaskSteps
    /\ running \in BOOLEAN /\ usb_error \in BOOLEAN /\ unsynced \in BOOLEAN
    /\ data \in DataType /\ returned \in ResultType

\* Packets but the last are full; only the first message may have been sent in part.
OthersUnsent ==
    /\ \A i \in 1..Len(ep1_queue) : ep1_queue[i].sent <= ep1_queue[i].len
    /\ \A i \in 2..Len(ep1_queue) : ep1_queue[i].sent = 0

\* A read begins with a message unless the one before it ended with an error, and
\* goes on with the same message unless there has been an error since.
ReadInStep ==
    /\ task_at \notin {"rx", "ack"} => data.n = 0
    /\ task = "none" => task_at = "exit"
    /\ ~unsynced /\ data.n = 0 /\ ep1_queue # <<>> => ep1_queue[1].sent = 0
    /\ ~unsynced /\ data.n > 0 /\ ~usb_error =>
          ep1_queue # <<>> /\ ep1_queue[1].sent = data.n /\ data.whole

RxInv == HostMacTypeOK /\ OthersUnsent /\ ReadInStep /\ RxWhole

LEMMA NothingRead ==
    /\ NoData \in DataType /\ NoData.n = 0
    /\ NoResult \in ResultType /\ NoResult.len = 0
  BY DEF NoData, DataType, NoResult, ResultType

LEMMA RxInit == HostMacInit => RxInv
<1> SUFFICES ASSUME HostMacInit PROVE RxInv
  OBVIOUS
<1>1. ep1_queue = <<>> /\ Len(ep1_queue) = 0 /\ ep1_queue \in Seq(MessageType)
  BY DEF HostMacInit
<1>2. HostMacTypeOK
  BY <1>1, NothingRead DEF HostMacInit, HostMacTypeOK, TaskSteps
<1>3. OthersUnsent
  BY <1>1 DEF OthersUnsent
<1>4. ReadInStep /\ RxWhole
  BY <1>1 DEF HostMacInit, ReadInStep, RxWhole, NoData, NoResult
<1>5. QED
  BY <1>2, <1>3, <1>4 DEF RxInv

\* The queue after a message has been added, sent, or sent in part.
LEMMA QueueGrows ==
    ASSUME NEW q \in Seq(MessageType), NEW m \in MessageType
    PROVE  /\ Append(q, m) \in Seq(MessageType)
           /\ Len(Append(q, m)) = Len(q) + 1 /\ Append(q, m)[Len(q) + 1] = m
           /\ \A i \in 1..Len(q) : Append(q, m)[i] = q[i]
  OBVIOUS

LEMMA QueueShrinks ==
    ASSUME NEW q \in Seq(MessageType), q # <<>>
    PROVE  /\ Tail(q) \in Seq(MessageType) /\ Len(q) >= 1
           /\ Len(Tail(q)) = Len(q) - 1
           /\ \A i \in 1..Len(Tail(q)) : Tail(q)[i] = q[i + 1]
           /\ Head(q) = q[1] /\ q[1] \in MessageType
           /\ Tail(q) # <<>> => Tail(q)[1] = q[2] /\ Len(q) >= 2
  OBVIOUS

LEMMA SaysKeeps ==
    ASSUME RxInv, NEW m \in MessageType, m.sent = 0, Says(m), answers' \in Nat
    PROVE  RxInv'
<1> DEFINE q == Append(ep1_queue, m)
<1>1. ep1_queue' = q /\ messages' = messages + 1
      /\ UNCHANGED <<task, running, task_at, usb_error, data, returned, unsynced>>
  BY DEF Says, taskVars
<1>2. /\ q \in Seq(MessageType) /\ Len(q) = Len(ep1_queue) + 1 /\ q[Len(q)] = m
      /\ \A i \in 1..Len(ep1_queue) : q[i] = ep1_queue[i]
  BY QueueGrows DEF RxInv, HostMacTypeOK
<1>3. m.sent <= m.len
  BY DEF MessageType
<1>4. ep1_queue \in Seq(MessageType) /\ Len(ep1_queue) \in Nat /\ (ep1_queue = <<>> <=> Len(ep1_queue) = 0)
  BY DEF RxInv, HostMacTypeOK
<1>5. q # <<>>
  BY <1>2, <1>4
<1> HIDE DEF q
<1>6. HostMacTypeOK'
  BY <1>1, <1>2 DEF RxInv, HostMacTypeOK
<1>7. OthersUnsent'
  BY <1>1, <1>2, <1>3, <1>4 DEF RxInv, OthersUnsent
<1>8. ReadInStep'
  BY <1>1, <1>2, <1>4, <1>5 DEF RxInv, ReadInStep
<1>9. RxWhole'
  BY <1>1 DEF RxInv, RxWhole
<1>10. QED
  BY <1>6, <1>7, <1>8, <1>9 DEF RxInv

LEMMA DeviceKeeps ==
    ASSUME RxInv, FrameReceived \/ Serial \/ Answer
    PROVE  RxInv'
<1>1. ASSUME NEW s \in Sizes PROVE Message("frame", s + 2) \in MessageType
  BY DEF Sizes, EP_SIZE, PSDU, Message, MessageType, Kinds
<1>2. Message("serial", 1) \in MessageType /\ Message("answer", 1) \in MessageType
  BY DEF PSDU, Message, MessageType, Kinds
<1>3. answers' \in Nat
  BY DEF FrameReceived, Serial, Answer, RxInv, HostMacTypeOK
<1>4. ASSUME NEW what, NEW len PROVE Message(what, len).sent = 0
  BY DEF Message
<1>5. QED
  BY <1>1, <1>2, <1>3, <1>4, SaysKeeps DEF FrameReceived, Serial, Answer

LEMMA ResetKeeps == ASSUME RxInv, DeviceReset PROVE RxInv'
<1> DEFINE q == Tail(ep1_queue)
<1>1. /\ ep1_queue # <<>> /\ ep1_queue' = q /\ usb_error' = (usb_error \/ task # "none")
      /\ UNCHANGED <<answers, messages, task, running, task_at, data, returned, unsynced>>
  BY DEF DeviceReset, taskVars
<1>2. /\ q \in Seq(MessageType) /\ Len(q) = Len(ep1_queue) - 1 /\ Len(ep1_queue) >= 1
      /\ \A i \in 1..Len(q) : q[i] = ep1_queue[i + 1]
      /\ q # <<>> => q[1] = ep1_queue[2] /\ Len(ep1_queue) >= 2
  BY <1>1, QueueShrinks DEF RxInv, HostMacTypeOK
<1>3. Len(ep1_queue) \in Nat
  BY DEF RxInv, HostMacTypeOK
<1> HIDE DEF q
<1>4. HostMacTypeOK'
  BY <1>1, <1>2 DEF RxInv, HostMacTypeOK
<1>5. OthersUnsent'
  BY <1>1, <1>2, <1>3 DEF RxInv, OthersUnsent
<1>6. ReadInStep'
  <2>1. data.n \in Nat
    BY DEF RxInv, HostMacTypeOK, DataType, EP_SIZE
  <2>2. q # <<>> => q[1].sent = 0
    BY <1>2, <1>3 DEF RxInv, OthersUnsent
  <2>3. task = "none" => data.n = 0
    BY DEF RxInv, ReadInStep
  <2>4. usb_error \in BOOLEAN /\ unsynced \in BOOLEAN
    BY DEF RxInv, HostMacTypeOK
  <2>5. data.n = 0 \/ usb_error'
    BY <1>1, <2>3
  <2>6. QED
    BY <1>1, <2>1, <2>2, <2>4, <2>5 DEF RxInv, ReadInStep
<1>7. RxWhole'
  BY <1>1 DEF RxInv, RxWhole
<1>8. QED
  BY <1>4, <1>5, <1>6, <1>7 DEF RxInv

LEMMA PacketKeeps == ASSUME RxInv, Packet PROVE RxInv'
<1> DEFINE m == ep1_queue[1]
           left == m.len - m.sent
           n == IF left > EP_SIZE THEN EP_SIZE ELSE left
           d == [n |-> data.n + n, what |-> m.what,
                 whole |-> m.sent = data.n /\ (data.n = 0 \/ data.whole)]
           ends == n < EP_SIZE
           whole == d.whole /\ m.sent + n = m.len
           e == [d EXCEPT !.whole = whole]
           q == ep1_queue'
<1> USE DEF EP_SIZE, PSDU
<1>1. /\ ep1_queue # <<>> /\ ep1_queue \in Seq(MessageType) /\ m \in MessageType
      /\ Len(ep1_queue) >= 1 /\ Head(ep1_queue) = m
  BY QueueShrinks DEF RxInv, HostMacTypeOK, Packet
<1>2. /\ m.what \in Kinds /\ m.len \in 1..129 /\ m.sent \in {0, 64, 128} /\ m.sent <= m.len
      /\ data.n \in {0, 64, 128} /\ data.whole \in BOOLEAN
  BY <1>1 DEF RxInv, HostMacTypeOK, OthersUnsent, MessageType, DataType
<1>3. /\ n \in 0..64 /\ d.n = data.n + n /\ d.n \in Nat /\ d.what = m.what
      /\ d.whole \in BOOLEAN /\ (ends => m.sent + n = m.len)
      /\ (~ends => n = 64)
  BY <1>2
<1>4. /\ task_at \in {"rx", "ack"}
      /\ q = IF ends THEN Tail(ep1_queue) ELSE [ep1_queue EXCEPT ![1].sent = @ + n]
      /\ \/ d.n > ReadSize /\ FailRead
         \/ /\ d.n <= ReadSize /\ (ends \/ d.n = ReadSize)
            /\ EndRead(e)
            /\ UNCHANGED usb_error
         \/ /\ d.n < ReadSize /\ ~ends
            /\ data' = d /\ UNCHANGED <<task_at, usb_error, returned, unsynced>>
      /\ UNCHANGED <<answers, messages, task, running>>
  BY <1>1 DEF Packet, taskVars
<1>5. ReadSize \in {1, 129} /\ (task_at # "ack" => ReadSize = 129)
  BY DEF ReadSize
<1>6. /\ q \in Seq(MessageType)
      /\ \A i \in 1..Len(q) : q[i].sent <= q[i].len
      /\ \A i \in 2..Len(q) : q[i].sent = 0
      /\ ends /\ q # <<>> => q[1].sent = 0
      /\ ~ends => q # <<>> /\ q[1].sent = m.sent + 64
  <2>1. CASE ends
    <3>1. /\ q \in Seq(MessageType) /\ Len(q) = Len(ep1_queue) - 1
          /\ \A i \in 1..Len(q) : q[i] = ep1_queue[i + 1]
          /\ q # <<>> => q[1] = ep1_queue[2] /\ Len(ep1_queue) >= 2
      BY <1>1, <1>4, <2>1, QueueShrinks
    <3>2. Len(ep1_queue) \in Nat
      BY <1>1
    <3>3. \A i \in 1..Len(q) : i + 1 \in 2..Len(ep1_queue) /\ i + 1 \in 1..Len(ep1_queue)
      BY <3>1, <3>2
    <3> HIDE DEF m, n, left
    <3>4. \A i \in 1..Len(q) : q[i].sent = 0 /\ q[i].sent <= q[i].len
      BY <3>1, <3>3 DEF RxInv, OthersUnsent
    <3>5. q # <<>> => 1 \in 1..Len(q)
      BY <3>1, <3>2
    <3>6. \A i \in 2..Len(q) : i \in 1..Len(q)
      BY <3>1, <3>2
    <3>7. QED
      BY <2>1, <3>1, <3>4, <3>5, <3>6
  <2>2. CASE ~ends
    <3> DEFINE p == [m EXCEPT !.sent = @ + 64]
    <3>1. m.len - m.sent >= 64 /\ m.sent + 64 \in {64, 128} /\ m.sent + 64 <= m.len
      BY <1>2, <2>2
    <3>2. p \in MessageType /\ p.sent = m.sent + 64 /\ p.len = m.len
      <4> HIDE DEF m
      <4>1. m.sent + 64 \in {0, EP_SIZE, 2 * EP_SIZE}
        BY <3>1
      <4>2. QED
        BY <1>1, <4>1 DEF MessageType
    <3>3. q = [ep1_queue EXCEPT ![1] = p]
      BY <1>1, <1>3, <1>4, <2>2
    <3> HIDE DEF p
    <3>4. /\ q \in Seq(MessageType) /\ Len(q) = Len(ep1_queue) /\ q[1] = p
          /\ \A i \in 2..Len(q) : q[i] = ep1_queue[i]
      BY <1>1, <3>2, <3>3
    <3>5. q # <<>>
      BY <1>1, <3>4
    <3>6. QED
      BY <2>2, <3>1, <3>2, <3>4, <3>5 DEF RxInv, OthersUnsent
  <2>3. QED
    BY <2>1, <2>2
<1>7. OthersUnsent'
  BY <1>6 DEF OthersUnsent
<1>8. AfterAck \in {"rx", "rx_mode_off"} /\ AfterRx \in {"rx_mode_off", "tx"}
  BY DEF AfterAck, AfterRx
<1>9. task # "none"
  BY <1>4 DEF RxInv, ReadInStep
<1>10. CASE FailRead
  <2>1. HostMacTypeOK'
    BY <1>4, <1>6, <1>8, <1>10 DEF RxInv, HostMacTypeOK, FailRead, DataType, ResultType, NoResult, NoData, TaskSteps
  <2>2. ReadInStep' /\ RxWhole'
    BY <1>4, <1>8, <1>9, <1>10 DEF FailRead, NoResult, NoData, ReadInStep, RxWhole
  <2>3. QED
    BY <1>7, <2>1, <2>2 DEF RxInv
<1>11. CASE d.n <= ReadSize /\ (ends \/ d.n = ReadSize) /\ EndRead(e) /\ UNCHANGED usb_error
  <2>1. ends
    BY <1>2, <1>3, <1>5, <1>11
  <2>2. data' = NoData /\ unsynced' = FALSE
    BY <1>11 DEF EndRead
  <2>3. ReadInStep'
    BY <1>4, <1>6, <1>8, <1>9, <1>11, <2>1, <2>2 DEF EndRead, ReadInStep, NoData
  <2>4. CASE task_at = "ack"
    <3>1. task_at' = AfterAck /\ returned' = returned
      BY <1>11, <2>4 DEF EndRead
    <3>2. QED
      BY <1>4, <1>6, <1>7, <1>8, <1>11, <2>2, <2>3, <3>1
         DEF RxInv, HostMacTypeOK, RxWhole, DataType, NoData, TaskSteps
  <2>5. CASE task_at = "rx"
    <3>1. task_at' = AfterRx
      BY <1>11, <2>5 DEF EndRead
    <3>2. PICK len \in FirstByte(e) :
             returned' = [len |-> Length(len, e.n), unsynced |-> unsynced,
                          whole |-> e.whole /\ e.what = "frame"]
      BY <1>11, <2>5 DEF EndRead
    <3>3. e.n = d.n /\ e.what = d.what /\ e.whole = whole /\ whole \in BOOLEAN
      BY <1>3
    <3> HIDE DEF e
    <3>4. len \in Int /\ Length(len, e.n) \in Int
      BY <1>3, <3>3 DEF FirstByte, AnyByte, Invalid, Length
    <3>5. HostMacTypeOK'
      BY <1>4, <1>6, <1>8, <1>11, <2>2, <3>1, <3>2, <3>3, <3>4
         DEF RxInv, HostMacTypeOK, DataType, ResultType, NoData, TaskSteps
    <3>6. ASSUME ~unsynced, ~usb_error PROVE d.whole /\ d.n > 0
      <4>1. CASE data.n = 0
        <5>1. m.sent = 0
          BY <1>1, <3>6, <4>1 DEF RxInv, ReadInStep
        <5>2. d.whole
          BY <4>1, <5>1
        <5>3. n > 0
          BY <1>2, <5>1
        <5>4. QED
          BY <1>3, <4>1, <5>2, <5>3
      <4>2. CASE data.n > 0
        BY <1>2, <1>3, <3>6, <4>2 DEF RxInv, ReadInStep
      <4>3. QED
        BY <1>2, <4>1, <4>2
    <3>7. ASSUME ~unsynced, ~usb_error, m.what # "frame" PROVE Length(len, e.n) = 0
      BY <1>2, <1>3, <2>1, <3>3, <3>6, <3>7 DEF FirstByte, Length, Invalid, Kinds
    <3>8. RxWhole'
      BY <1>2, <1>3, <1>11, <2>1, <3>2, <3>3, <3>6, <3>7 DEF RxWhole
    <3>9. QED
      BY <1>7, <2>3, <3>5, <3>8 DEF RxInv
  <2>6. QED
    BY <1>4, <2>4, <2>5
<1>12. CASE d.n < ReadSize /\ ~ends /\ data' = d /\ UNCHANGED <<task_at, usb_error, returned, unsynced>>
  <2>1. d.n \in {64, 128} /\ d.n = data.n + 64
    BY <1>2, <1>3, <1>5, <1>12
  <2>2. HostMacTypeOK'
    BY <1>2, <1>3, <1>4, <1>6, <1>12, <2>1 DEF RxInv, HostMacTypeOK, DataType
  <2>3. ASSUME ~unsynced, ~usb_error PROVE d.whole /\ m.sent = data.n
    <3>1. data.n = 0 => m.sent = 0
      BY <1>1, <2>3 DEF RxInv, ReadInStep
    <3>2. data.n > 0 => m.sent = data.n /\ data.whole
      BY <1>1, <2>3 DEF RxInv, ReadInStep
    <3>3. m.sent = data.n /\ (data.n = 0 \/ data.whole)
      BY <1>2, <3>1, <3>2
    <3>4. QED
      BY <3>3
  <2>4. ReadInStep'
    BY <1>3, <1>4, <1>6, <1>9, <1>12, <2>1, <2>3 DEF ReadInStep
  <2>5. RxWhole'
    BY <1>12 DEF RxInv, RxWhole
  <2>6. QED
    BY <1>7, <2>2, <2>4, <2>5 DEF RxInv
<1>13. QED
  BY <1>4, <1>10, <1>11, <1>12

LEMMA TaskKeeps ==
    ASSUME RxInv,
           (\E which \in {"receive", "transmit", "rtt_slave"} : StartTask(which))
             \/ SetRxMode \/ ReadFails \/ AtusbTx \/ StopTask \/ KillTask
    PROVE  RxInv'
<1> USE NothingRead DEF RxInv, HostMacTypeOK, ReadInStep, RxWhole, deviceSide, taskVars, TaskSteps
<1>1. ep1_queue' = ep1_queue /\ OthersUnsent'
  BY DEF StartTask, SetRxMode, ReadFails, AtusbTx, StopTask, KillTask, OthersUnsent
<1>2. data.n \in Nat /\ returned.len \in Int
  BY DEF DataType, ResultType, EP_SIZE
<1>3. CASE \E which \in {"receive", "transmit", "rtt_slave"} : StartTask(which)
  <2>1. HostMacTypeOK'
    BY <1>1, <1>2, <1>3 DEF StartTask
  <2>2. ReadInStep'
    BY <1>1, <1>2, <1>3 DEF StartTask
  <2>3. RxWhole'
    BY <1>1, <1>2, <1>3 DEF StartTask
  <2>4. QED
    BY <1>1, <2>1, <2>2, <2>3
<1>4. CASE SetRxMode
  <2>1. HostMacTypeOK'
    BY <1>1, <1>2, <1>4 DEF SetRxMode
  <2>2. ReadInStep'
    BY <1>1, <1>2, <1>4 DEF SetRxMode
  <2>3. RxWhole'
    <3>1. returned' = returned /\ (usb_error' = usb_error \/ usb_error' = TRUE)
      BY <1>4 DEF SetRxMode
    <3>2. QED
      BY <3>1
  <2>4. QED
    BY <1>1, <2>1, <2>2, <2>3
<1>5. CASE ReadFails
  BY <1>1, <1>2, <1>5 DEF ReadFails, FailRead, AfterAck, AfterRx
<1>6. CASE AtusbTx
  <2>1. HostMacTypeOK'
    <3>1. /\ answers' = answers \/ answers' = answers + 1
          /\ usb_error' = usb_error \/ usb_error' = TRUE
      BY <1>6 DEF AtusbTx
    <3>2. task_at' \in TaskSteps
      BY <1>6 DEF AtusbTx, AfterAck
    <3>3. answers' \in Nat
      BY <3>1
    <3>4. usb_error' \in BOOLEAN
      BY <3>1
    <3>5. UNCHANGED <<messages, task, running, data, returned, unsynced>>
      BY <1>6 DEF AtusbTx
    <3>6. QED
      BY <1>1, <3>2, <3>3, <3>4, <3>5
  <2>2. ReadInStep'
    BY <1>1, <1>2, <1>6 DEF AtusbTx, AfterAck
  <2>3. RxWhole'
    BY <1>1, <1>2, <1>6 DEF AtusbTx, AfterAck
  <2>4. QED
    BY <1>1, <2>1, <2>2, <2>3
<1>7. CASE StopTask
  BY <1>1, <1>2, <1>7 DEF StopTask
<1>8. CASE KillTask
  <2>1. HostMacTypeOK'
    BY <1>1, <1>2, <1>8 DEF KillTask
  <2>2. ReadInStep'
    BY <1>1, <1>2, <1>8 DEF KillTask
  <2>3. RxWhole'
    BY <1>1, <1>2, <1>8 DEF KillTask
  <2>4. QED
    BY <1>1, <2>1, <2>2, <2>3
<1>9. QED
  BY <1>3, <1>4, <1>5, <1>6, <1>7, <1>8

LEMMA RxNext == RxInv /\ [HostMacNext]_hostMacVars => RxInv'
<1> SUFFICES ASSUME RxInv, [HostMacNext]_hostMacVars PROVE RxInv'
  OBVIOUS
<1>1. CASE UNCHANGED hostMacVars
  BY <1>1 DEF hostMacVars, RxInv, HostMacTypeOK, OthersUnsent, ReadInStep, RxWhole
<1>2. QED
  BY <1>1, DeviceKeeps, ResetKeeps, PacketKeeps, TaskKeeps DEF HostMacNext

\* For any number of messages, what atusb_rx() returns is a frame, and all of it.
THEOREM FramesAreWhole == HostMacSpec => []RxWhole
<1>1. RxInv => RxWhole
  BY DEF RxInv
<1>2. QED
  BY <1>1, RxInit, RxNext, PTL DEF HostMacSpec
=============================================================================
