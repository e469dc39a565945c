--------------------------- MODULE UsbDeviceProofs ---------------------------
(***************************************************************************)
(* EP0 never panics and never leaves its buffer, and a call that returns   *)
(* has done what it is for, for every set of frame lengths and of values,  *)
(* and any number of calls and resets.  The second part takes the first as *)
(* known: EffectInv says for each stage of the control transfer what is    *)
(* done, what is under way, and what is in the bank.                       *)
(***************************************************************************)
EXTENDS UsbDevice, FiniteSetTheorems, TLAPS

(* What the variables are; UsbTypeOK says it of each field. *)

States == {"EP_IDLE", "EP_RX", "EP_TX"}
Sources == {"buf", "zero", "id", "descriptor"}
Callbacks == {"none", "enable_addr", "do_buf_write", "do_eeprom_write"}
EpType == [state : States, buf : Sources, left : 0..255, callback : Callbacks]
UsbType == [ep : EpType, bank : Banks \cup {NoBank},
            cpu : {"runs", "address", "eeprom", "loops"}, udaddr : {0, 1}, addr : {0, 1}]
BufType == [cmd : Spaces, arg : Contents, val : Contents, n : Nat]
RamType == [buf : BufType, size : 0..255, user_setup : {"my_setup", "my_dfu_setup"},
            dfu : {"appIDLE", "appDETACH"}, i : 0..255, watchdog : BOOLEAN]
FrameType == [val : Contents, n : 0..255]
ChipType == [reg : Contents, sram : Contents, frame : FrameType, shown : FrameType,
             pulse : BOOLEAN]
Stages == {"idle", "setup", "in", "out", "status", "statusout", "stalled", "done"}

HostTypes ==
    /\ lib \in {"usb", "usb-spi"} /\ call \in CallSet \cup {NoCall}
    /\ stage \in Stages
    /\ reply \in [vals : SUBSET Contents, n : Nat]
    /\ address \in BOOLEAN /\ failed \in BOOLEAN
    /\ calls \in 0..Calls /\ faults \in 0..Faults
DeviceTypes ==
    /\ usb \in UsbType /\ ram \in RamType /\ chip \in ChipType
    /\ eeprom \in [Bytes0 -> Contents]

(* The strengthening. *)

\* What the driver asks for: how much data a request announces.
Addressed == {"reg", "sram", "frame"}
Announces(r) ==
    /\ r.name \in {"BUF_WRITE", "SRAM_WRITE"} => r.n \in 1..MAX_PSDU /\ r.cmd \in Addressed
    /\ r.name = "SPI_WRITE" => r.n \in 0..MAX_PSDU /\ r.cmd \in Addressed
    /\ r.name = "EUI64_WRITE" => r.n = EUI64_LEN
    /\ r.name \in {"REG_READ", "SRAM_READ", "BUF_READ", "SPI_READ1", "SPI_READ2"} =>
          r.n \in 1..SRAM_SIZE
    /\ r.name = "ID" => r.n = 3
    /\ r.name \in {"SET_ADDRESS", "SET_INTERFACE", "DFU_DETACH", "RF_RESET", "SLP_TR",
                   "REG_WRITE", "RESET", "TEST"} => r.n = 0
Names == FromDev \cup {"none", "REG_WRITE", "SRAM_WRITE", "BUF_WRITE", "SPI_WRITE", "EUI64_WRITE",
                      "RF_RESET", "SLP_TR", "RESET", "TEST",
                      "SET_ADDRESS", "SET_INTERFACE", "DFU_DETACH"}
RequestType == [name : Names, cmd : Spaces, val : Contents, n : 0..256]
RequestOK == request \in RequestType /\ Announces(request)

\* A data stage that is still to come belongs to the request the host has made,
\* and what do_buf_write() will look at is of that request, too.
DataStage ==
    stage = "out" =>
        /\ usb.ep.state = "EP_RX"
        /\ usb.cpu # "eeprom"
        /\ usb.ep.left = request.n - ram.buf.n
        /\ usb.ep.callback \in {"do_buf_write", "do_eeprom_write"}
        /\ usb.ep.callback = "do_buf_write" =>
              ram.buf.cmd \in Addressed /\ ram.size = request.n + 2

\* The buffer has room for what is to come, and holds what is to be sent.
Room == usb.ep.state = "EP_RX" => 2 + ram.buf.n + usb.ep.left <= BUF_SIZE
Held == usb.ep.state = "EP_TX" /\ usb.ep.buf = "buf" => ram.buf.n <= BUF_SIZE

IInv == HostTypes /\ DeviceTypes /\ RequestOK /\ DataStage /\ Room /\ Held
-----------------------------------------------------------------------------
LEMMA IInvIsSafe == IInv => Ep0Safe
<1> SUFFICES ASSUME IInv PROVE Ep0Safe
  OBVIOUS
<1>1. usb.ep \in EpType /\ usb.bank \in Banks \cup {NoBank}
      /\ usb.cpu \in {"runs", "address", "eeprom", "loops"} /\ usb.udaddr \in {0, 1}
      /\ usb.addr \in {0, 1}
  BY DEF IInv, DeviceTypes, UsbType
<1>2. usb.ep.state \in States /\ usb.ep.left \in 0..255 /\ usb.ep.buf \in Sources
      /\ usb.ep.callback \in Callbacks
  BY <1>1 DEF EpType
<1>3. ram.buf \in BufType /\ ram.size \in 0..255 /\ ram.i \in 0..255
      /\ ram.user_setup \in {"my_setup", "my_dfu_setup"}
      /\ ram.dfu \in {"appIDLE", "appDETACH"} /\ ram.watchdog \in BOOLEAN
  BY DEF IInv, DeviceTypes, RamType
<1>4. chip.reg \in Contents /\ chip.sram \in Contents /\ chip.pulse \in BOOLEAN
      /\ chip.frame \in FrameType /\ chip.shown \in FrameType
  BY DEF IInv, DeviceTypes, ChipType
<1>5. UsbTypeOK
  BY <1>1, <1>2, <1>3, <1>4
     DEF UsbTypeOK, IInv, HostTypes, DeviceTypes, States, Sources, Callbacks, BufType, FrameType,
         Stages
<1>6. QED
  BY <1>1, <1>5 DEF Ep0Safe, IInv, Room, Held

LEMMA Constants ==
    /\ "reset" \in Contents /\ "mix" \in Contents /\ "zero" \in Contents /\ "id" \in Contents
    /\ "build" \in Contents /\ "descriptor" \in Contents /\ Values \subseteq Contents
    /\ EUI64_LEN \in 1..8 /\ BUILD_LEN \in 1..63 /\ Lengths \subseteq 1..MAX_PSDU
    /\ EP_SIZE = 64 /\ MAX_PSDU = 127 /\ SRAM_SIZE = 128 /\ BUF_SIZE = 130 /\ DESCR_SIZE = 18
    /\ Calls \in Nat /\ Faults \in Nat
  BY UsbDeviceAssumption
     DEF Contents, EP_SIZE, MAX_PSDU, SRAM_SIZE, BUF_SIZE, DESCR_SIZE

LEMMA ResetTypes == UsbReset \in UsbType /\ FwReset \in RamType /\ NoBuf \in BufType
<1>1. IdleEp \in EpType
  BY DEF IdleEp, Opened, EpType, States, Sources, Callbacks
<1>2. NoBuf \in BufType
  BY Constants DEF NoBuf, BufType, Spaces
<1>3. QED
  BY <1>1, <1>2 DEF UsbReset, UsbType, FwReset, RamType

LEMMA ChipResetType == ChipReset \in ChipType
<1>1. NoFrame0 \in FrameType
  BY Constants DEF NoFrame0, FrameType
<1>2. QED
  BY <1>1, Constants DEF ChipReset, ChipType

LEMMA InvInit == UsbInit => IInv
<1> SUFFICES ASSUME UsbInit PROVE IInv
  OBVIOUS
<1>1. DeviceTypes
  <2>1. usb \in UsbType /\ ram \in RamType /\ chip \in ChipType
    BY ResetTypes, ChipResetType DEF UsbInit
  <2>2. eeprom \in [Bytes0 -> Contents]
    BY Constants DEF UsbInit
  <2>3. QED
    BY <2>1, <2>2 DEF DeviceTypes
<1>2. HostTypes
  <2>1. 0 \in 0..Calls /\ 0 \in 0..Faults
    BY Constants
  <2>2. NoReply \in [vals : SUBSET Contents, n : Nat]
    BY DEF NoReply
  <2>3. QED
    BY <2>1, <2>2 DEF UsbInit, HostTypes, Stages
<1>3. RequestOK
  <2>1. NoRequest \in RequestType
    BY Constants DEF RequestType, NoRequest, Spaces, Names
  <2>2. Announces(NoRequest)
    BY DEF Announces, NoRequest
  <2>3. QED
    BY <2>1, <2>2 DEF UsbInit, RequestOK
<1>4. usb.ep.state = "EP_IDLE"
  BY DEF UsbInit, UsbReset, IdleEp, Opened
<1>5. QED
  BY <1>1, <1>2, <1>3, <1>4 DEF IInv, DataStage, Room, Held, UsbInit
-----------------------------------------------------------------------------
(* The operators on EP0 *)

\* A packet: the transfer goes on or ends, and stays what it was.
LEMMA Packets ==
    ASSUME NEW ep \in EpType
    PROVE  /\ PacketSize(ep) \in 0..EP_SIZE
           /\ AfterPacket(ep) \in EpType
           /\ AfterPacket(ep).state \in {ep.state, "EP_IDLE"}
           /\ AfterPacket(ep).buf = ep.buf
<1>1. ep.left \in 0..255 /\ ep.state \in States
  BY DEF EpType
<1>2. PacketSize(ep) \in 0..EP_SIZE /\ ep.left - PacketSize(ep) \in 0..255
  BY <1>1 DEF PacketSize, EP_SIZE
<1>3. (IF PacketSize(ep) = EP_SIZE THEN ep.state ELSE "EP_IDLE") \in States
  BY <1>1 DEF States
<1>4. QED
  BY <1>2, <1>3 DEF AfterPacket, EpType

\* ep_tx() ends a transfer or lets it go on, and does nothing to one that receives.
LEMMA Transmits ==
    ASSUME NEW u \in UsbType, NEW val \in Contents
    PROVE  /\ EpTx(u, val) \in UsbType
           /\ EpTx(u, val).ep.state \in {u.ep.state, "EP_IDLE"}
           /\ EpTx(u, val).ep.buf = u.ep.buf
           /\ u.ep.state # "EP_TX" => EpTx(u, val) = u
<1>1. CASE u.cpu # "runs" \/ u.ep.state # "EP_TX" \/ u.bank # NoBank
  BY <1>1 DEF EpTx
<1>2. CASE ~(u.cpu # "runs" \/ u.ep.state # "EP_TX" \/ u.bank # NoBank)
  <2> DEFINE e == AfterPacket(u.ep)
             b == [val |-> IF u.ep.buf = "buf" THEN val ELSE u.ep.buf, n |-> PacketSize(u.ep)]
             c == IF EpIdle(e) /\ e.callback = "enable_addr" THEN "address" ELSE "runs"
  <2>1. u.ep \in EpType /\ u.ep.buf \in Sources
    BY DEF UsbType, EpType
  <2>2. e \in EpType /\ e.state \in {u.ep.state, "EP_IDLE"} /\ e.buf = u.ep.buf
        /\ PacketSize(u.ep) \in 0..EP_SIZE
    BY <2>1, Packets
  <2>3. b \in Banks
    BY <2>1, <2>2, Constants DEF Banks, Sources
  <2>4. EpTx(u, val) = [u EXCEPT !.ep = e, !.bank = b, !.cpu = c]
    BY <1>2 DEF EpTx
  <2>5. c \in {"runs", "address", "eeprom", "loops"}
    OBVIOUS
  <2>6. EpTx(u, val) \in UsbType /\ EpTx(u, val).ep = e
    <3> HIDE DEF e, b, c
    <3> QED
      BY <2>2, <2>3, <2>4, <2>5 DEF UsbType
  <2>7. QED
    BY <1>2, <2>2, <2>6
<1>3. QED
  BY <1>1, <1>2

\* A SETUP leaves EP0 idle, whatever it was doing.
LEMMA Cancels ==
    ASSUME NEW u \in UsbType
    PROVE  /\ Cancelled(u) \in UsbType
           /\ EpIdle(Cancelled(u).ep)
           /\ Cancelled(u).ep.state = "EP_IDLE"
           /\ Cancelled(u).cpu = u.cpu
<1>1. u.ep \in EpType
  BY DEF UsbType
<1>2. [u.ep EXCEPT !.state = "EP_IDLE"] \in EpType
  BY <1>1 DEF EpType, States
<1>3. Cancelled(u) = [u EXCEPT !.bank = NoBank, !.ep = [u.ep EXCEPT !.state = "EP_IDLE"]]
  BY DEF Cancelled, UsbType
<1>4. Cancelled(u) \in UsbType /\ Cancelled(u).cpu = u.cpu
      /\ Cancelled(u).ep = [u.ep EXCEPT !.state = "EP_IDLE"]
  BY <1>2, <1>3 DEF UsbType
<1>5. [u.ep EXCEPT !.state = "EP_IDLE"].state = "EP_IDLE"
  BY <1>1 DEF EpType
<1>6. QED
  BY <1>4, <1>5 DEF EpIdle

\* usb_io() on an idle endpoint opens what it is asked to.
LEMMA Opens ==
    ASSUME NEW u \in UsbType, EpIdle(u.ep), NEW state \in States, NEW from \in Sources,
           NEW n \in 0..255, NEW callback \in Callbacks
    PROVE  /\ UsbIo(u, state, from, n, callback) \in UsbType
           /\ UsbIo(u, state, from, n, callback).ep = Opened(state, from, n, callback)
<1>1. Opened(state, from, n, callback) \in EpType
  BY DEF Opened, EpType
<1>2. QED
  BY <1>1 DEF UsbIo, UsbType

-----------------------------------------------------------------------------
(* A request is accepted: what that makes of EP0 and of the transfer *)

LEMMA Accepts ==
    ASSUME NEW u \in UsbType, NEW val \in Contents, Accept(u, val)
    PROVE  /\ usb' \in UsbType
           /\ usb'.ep.state = "EP_RX" => usb' = u
           /\ usb'.ep.state = "EP_TX" /\ usb'.ep.buf = "buf" =>
                 u.ep.state = "EP_TX" /\ u.ep.buf = "buf"
           /\ stage' \in {"status", "in", "out"}
           /\ stage' = "out" => request.n # 0 /\ request.name \notin FromDev
           /\ UNCHANGED <<program0, reply, address, faults>>
<1> DEFINE w == UsbIo(u, "EP_TX", "zero", 0, "none")
           v == IF request.name \notin FromDev /\ EpIdle(u.ep) THEN w ELSE u
<1>1. usb' = EpTx(v, val)
  BY DEF Accept
<1>2. EpIdle(u.ep) => w \in UsbType /\ w.ep = Opened("EP_TX", "zero", 0, "none")
  <2>1. "EP_TX" \in States /\ "zero" \in Sources /\ 0 \in 0..255 /\ "none" \in Callbacks
    BY DEF States, Sources, Callbacks
  <2>2. QED
    BY <2>1, Opens
<1>3. EpIdle(u.ep) => w.ep.state = "EP_TX" /\ w.ep.buf = "zero"
  BY <1>2 DEF Opened
<1>4. v \in UsbType /\ (v = u \/ (v.ep.state = "EP_TX" /\ v.ep.buf = "zero"))
  <2> HIDE DEF w
  <2>1. v = u \/ (v = w /\ EpIdle(u.ep))
    OBVIOUS
  <2> HIDE DEF v
  <2>2. QED
    BY <1>2, <1>3, <2>1
<1> HIDE DEF v, w
<1>5. /\ usb' \in UsbType /\ usb'.ep.state \in {v.ep.state, "EP_IDLE"}
      /\ usb'.ep.buf = v.ep.buf /\ (v.ep.state # "EP_TX" => usb' = v)
  BY <1>1, <1>4, Transmits
<1>6. QED
  BY <1>4, <1>5 DEF Accept

\* usb_send() from elsewhere than buf, or of no more than buf has.
LEMMA Sends ==
    ASSUME usb \in UsbType, NEW from \in Sources, NEW n \in 0..255, NEW val \in Contents,
           UsbSend(from, n, val), request.name \in FromDev
    PROVE  /\ usb' \in UsbType /\ usb'.ep.state # "EP_RX"
           /\ usb'.ep.state = "EP_TX" /\ usb'.ep.buf = "buf" => from = "buf"
           /\ stage' \in {"status", "in"}
           /\ UNCHANGED <<program0, reply, address, faults>>
<1> DEFINE u == UsbIo(Cancelled(usb), "EP_TX", from, n, "none")
<1>1. u \in UsbType /\ u.ep = Opened("EP_TX", from, n, "none")
  BY Cancels, Opens DEF States, Callbacks
<1>2. u.ep.state = "EP_TX" /\ u.ep.buf = from
  BY <1>1 DEF Opened
<1>3. Accept(u, val)
  BY DEF UsbSend
<1> HIDE DEF u
<1>4. QED
  BY <1>1, <1>2, <1>3, Accepts

\* usb_recv() opens a transfer to buf.
LEMMA Receives ==
    ASSUME usb \in UsbType, NEW n \in 0..255, NEW callback \in Callbacks,
           UsbRecv(n, callback)
    PROVE  /\ usb' \in UsbType /\ usb'.cpu = usb.cpu
           /\ usb'.ep.state = "EP_RX" /\ usb'.ep.left = n /\ usb'.ep.callback = callback
           /\ stage' \in {"status", "in", "out"}
           /\ UNCHANGED <<program0, reply, address, faults>>
<1> DEFINE u == UsbIo(Cancelled(usb), "EP_RX", "buf", n, callback)
<1>1. u \in UsbType /\ u.ep = Opened("EP_RX", "buf", n, callback)
  <2>1. "EP_RX" \in States /\ "buf" \in Sources
    BY DEF States, Sources
  <2>2. Cancelled(usb) \in UsbType /\ EpIdle(Cancelled(usb).ep)
    BY Cancels
  <2>3. QED
    BY <2>1, <2>2, Opens
<1>2. u.ep.state = "EP_RX" /\ u.ep.left = n /\ u.ep.callback = callback /\ ~EpIdle(u.ep)
  BY <1>1 DEF Opened, EpIdle
<1>3. Accept(u, "zero")
  BY DEF UsbRecv
<1>4. usb' = EpTx(u, "zero")
  BY <1>2, <1>3 DEF Accept
<1> HIDE DEF u
<1>5. usb' = u
  BY <1>1, <1>2, <1>4, Transmits, Constants
<1>6. usb'.cpu = usb.cpu
  <2>1. Cancelled(usb) \in UsbType /\ EpIdle(Cancelled(usb).ep) /\ Cancelled(usb).cpu = usb.cpu
    BY Cancels
  <2>2. u = [Cancelled(usb) EXCEPT !.ep = Opened("EP_RX", "buf", n, callback)]
    BY <2>1 DEF u, UsbIo
  <2>3. QED
    BY <1>5, <2>1, <2>2 DEF UsbType
<1>7. QED
  BY <1>1, <1>2, <1>3, <1>5, <1>6, Accepts, Constants

\* A request without data is answered with an empty packet.
LEMMA Does ==
    ASSUME usb \in UsbType, Do
    PROVE  /\ usb' \in UsbType /\ usb'.ep.state # "EP_RX"
           /\ ~(usb'.ep.state = "EP_TX" /\ usb'.ep.buf = "buf")
           /\ stage' \in {"status", "in", "out"}
           /\ stage' = "out" => request.n # 0 /\ request.name \notin FromDev
           /\ UNCHANGED <<program0, reply, address, faults>>
<1> DEFINE u == Cancelled(usb)
<1>1. u \in UsbType /\ u.ep.state = "EP_IDLE"
  BY Cancels
<1>2. Accept(u, "zero")
  BY DEF Do
<1> HIDE DEF u
<1>3. QED
  BY <1>1, <1>2, Accepts, Constants

\* The end of a data stage leaves EP0 with the empty packet.
LEMMA Ends ==
    ASSUME NEW u \in UsbType
    PROVE  /\ Received(u) \in UsbType
           /\ Received(u).ep.state # "EP_RX"
           /\ Received(u).ep.buf = "zero"
<1> DEFINE e == [u.ep EXCEPT !.state = "EP_IDLE"]
           v == [u EXCEPT !.ep.state = "EP_IDLE"]
           w == UsbIo(v, "EP_TX", "zero", 0, "none")
<1>1. u.ep \in EpType
  BY DEF UsbType
<1>2. e \in EpType /\ e.state = "EP_IDLE"
  BY <1>1 DEF EpType, States
<1>3. v = [u EXCEPT !.ep = e]
  BY DEF UsbType
<1> HIDE DEF e
<1>4. v \in UsbType /\ EpIdle(v.ep)
  BY <1>2, <1>3 DEF UsbType, EpIdle
<1> HIDE DEF v
<1>5. "EP_TX" \in States /\ "zero" \in Sources /\ 0 \in 0..255 /\ "none" \in Callbacks
  BY DEF States, Sources, Callbacks
<1>6. w \in UsbType /\ w.ep = Opened("EP_TX", "zero", 0, "none")
  BY <1>4, <1>5, Opens
<1>7. w.ep.state = "EP_TX" /\ w.ep.buf = "zero"
  BY <1>6 DEF Opened
<1>8. Received(u) = EpTx(w, "zero")
  BY DEF Received, v
<1> HIDE DEF w
<1>9. "zero" \in Contents
  BY Constants
<1>10. /\ EpTx(w, "zero") \in UsbType /\ EpTx(w, "zero").ep.state \in {w.ep.state, "EP_IDLE"}
       /\ EpTx(w, "zero").ep.buf = w.ep.buf
  BY <1>6, <1>9, Transmits
<1>11. QED
  BY <1>7, <1>8, <1>10
-----------------------------------------------------------------------------
(* The host: what it asks for *)

LEMMA CallTypes ==
    ASSUME NEW c \in CallSet
    PROVE  /\ c.val \in Contents
           /\ c.op \in Plain \cup {"reg_write", "sram_write", "eui_write", "buf_write", "buf_read",
                                  "get_descriptor", "set_interface"}
           /\ c.op = "buf_write" => c.n \in 1..MAX_PSDU
           /\ c.op = "buf_read" => c.n \in 1..SRAM_SIZE
           /\ c.op = "get_descriptor" => c.n \in 0..255
<1>1. CASE c \in [op : Plain, val : {"zero"}, n : {0}]
  <2>1. c.op \in Plain /\ c.val = "zero"
    BY <1>1
  <2>2. c.op \notin {"buf_write", "buf_read", "get_descriptor"}
    BY <2>1 DEF Plain
  <2>3. QED
    BY <2>1, <2>2, Constants
<1>2. CASE c \in [op : {"reg_write", "sram_write", "eui_write"}, val : Values, n : {0}]
  BY <1>2, Constants
<1>3. CASE c \in [op : {"buf_write"}, val : Values, n : Lengths]
  BY <1>3, Constants
<1>4. CASE c \in [op : {"buf_read"}, val : {"zero"}, n : {64, MAX_PSDU + 1}]
  BY <1>4, Constants
<1>5. CASE c \in [op : {"get_descriptor"}, val : {"zero"}, n : {8, 255}]
  BY <1>5, Constants
<1>6. CASE c \in [op : {"set_interface"}, val : {"zero"}, n : {0, 1}]
  BY <1>6, Constants
<1>7. QED
  BY <1>1, <1>2, <1>3, <1>4, <1>5, <1>6 DEF CallSet

LEMMA RequestFits ==
    ASSUME NEW c \in CallSet
    PROVE  RequestOf(c) \in RequestType /\ Announces(RequestOf(c))
<1>1. c.val \in Contents
  BY CallTypes
<1>2. CASE c.op \in Access /\ lib = "usb"
  <2>1. RequestOf(c) = ByCommand(c)
    BY <1>2 DEF RequestOf, Access
  <2>2. CASE c.op = "reg_write"
    <3>1. RequestOf(c) = Setup0("REG_WRITE", "reg", c.val, 0)
      BY <2>1, <2>2 DEF ByCommand
    <3>2. RequestOf(c) \in RequestType
      BY <1>1, <2>2, <3>1, Constants DEF Setup0, RequestType, Names, FromDev, Spaces
    <3>3. Announces(RequestOf(c))
      BY <1>1, <2>2, <3>1, Constants DEF Setup0, Announces, Addressed
    <3>4. QED
      BY <3>2, <3>3
  <2>3. CASE c.op = "reg_read"
    <3>1. RequestOf(c) = Setup0("REG_READ", "reg", "zero", 1)
      BY <2>1, <2>3 DEF ByCommand
    <3>2. RequestOf(c) \in RequestType
      BY <1>1, <2>3, <3>1, Constants DEF Setup0, RequestType, Names, FromDev, Spaces
    <3>3. Announces(RequestOf(c))
      BY <1>1, <2>3, <3>1, Constants DEF Setup0, Announces, Addressed
    <3>4. QED
      BY <3>2, <3>3
  <2>4. CASE c.op = "sram_write"
    <3>1. RequestOf(c) = Setup0("SRAM_WRITE", "sram", "zero", 1)
      BY <2>1, <2>4 DEF ByCommand
    <3>2. RequestOf(c) \in RequestType
      BY <1>1, <2>4, <3>1, Constants DEF Setup0, RequestType, Names, FromDev, Spaces
    <3>3. Announces(RequestOf(c))
      BY <1>1, <2>4, <3>1, Constants DEF Setup0, Announces, Addressed
    <3>4. QED
      BY <3>2, <3>3
  <2>5. CASE c.op = "sram_read"
    <3>1. RequestOf(c) = Setup0("SRAM_READ", "sram", "zero", 1)
      BY <2>1, <2>5 DEF ByCommand
    <3>2. RequestOf(c) \in RequestType
      BY <1>1, <2>5, <3>1, Constants DEF Setup0, RequestType, Names, FromDev, Spaces
    <3>3. Announces(RequestOf(c))
      BY <1>1, <2>5, <3>1, Constants DEF Setup0, Announces, Addressed
    <3>4. QED
      BY <3>2, <3>3
  <2>6. CASE c.op = "buf_write"
    <3>1. RequestOf(c) = Setup0("BUF_WRITE", "frame", "zero", c.n)
      BY <2>1, <2>6 DEF ByCommand
    <3>2. RequestOf(c) \in RequestType
      BY <1>1, CallTypes, <2>6, <3>1, Constants DEF Setup0, RequestType, Names, FromDev, Spaces
    <3>3. Announces(RequestOf(c))
      BY <1>1, CallTypes, <2>6, <3>1, Constants DEF Setup0, Announces, Addressed
    <3>4. QED
      BY <3>2, <3>3
  <2>7. CASE c.op = "buf_read"
    <3>1. RequestOf(c) = Setup0("BUF_READ", "frame", "zero", c.n)
      BY <2>1, <2>7 DEF ByCommand
    <3>2. RequestOf(c) \in RequestType
      BY <1>1, CallTypes, <2>7, <3>1, Constants DEF Setup0, RequestType, Names, FromDev, Spaces
    <3>3. Announces(RequestOf(c))
      BY <1>1, CallTypes, <2>7, <3>1, Constants DEF Setup0, Announces, Addressed
    <3>4. QED
      BY <3>2, <3>3
  <2>8. QED
    BY <1>2, <2>2, <2>3, <2>4, <2>5, <2>6, <2>7 DEF Access
<1>3. CASE c.op \in Access /\ lib # "usb"
  <2>1. RequestOf(c) = BySpi(c)
    BY <1>3 DEF RequestOf, Access
  <2>2. CASE c.op = "reg_write"
    <3>1. RequestOf(c) = Setup0("SPI_WRITE", "reg", c.val, 0)
      BY <2>1, <2>2 DEF BySpi
    <3>2. RequestOf(c) \in RequestType
      BY <1>1, <2>2, <3>1, Constants DEF Setup0, RequestType, Names, FromDev, Spaces
    <3>3. Announces(RequestOf(c))
      BY <1>1, <2>2, <3>1, Constants DEF Setup0, Announces, Addressed
    <3>4. QED
      BY <3>2, <3>3
  <2>3. CASE c.op = "reg_read"
    <3>1. RequestOf(c) = Setup0("SPI_READ1", "reg", "zero", 1)
      BY <2>1, <2>3 DEF BySpi
    <3>2. RequestOf(c) \in RequestType
      BY <1>1, <2>3, <3>1, Constants DEF Setup0, RequestType, Names, FromDev, Spaces
    <3>3. Announces(RequestOf(c))
      BY <1>1, <2>3, <3>1, Constants DEF Setup0, Announces, Addressed
    <3>4. QED
      BY <3>2, <3>3
  <2>4. CASE c.op = "sram_write"
    <3>1. RequestOf(c) = Setup0("SPI_WRITE", "sram", "zero", 1)
      BY <2>1, <2>4 DEF BySpi
    <3>2. RequestOf(c) \in RequestType
      BY <1>1, <2>4, <3>1, Constants DEF Setup0, RequestType, Names, FromDev, Spaces
    <3>3. Announces(RequestOf(c))
      BY <1>1, <2>4, <3>1, Constants DEF Setup0, Announces, Addressed
    <3>4. QED
      BY <3>2, <3>3
  <2>5. CASE c.op = "sram_read"
    <3>1. RequestOf(c) = Setup0("SPI_READ2", "sram", "zero", 1)
      BY <2>1, <2>5 DEF BySpi
    <3>2. RequestOf(c) \in RequestType
      BY <1>1, <2>5, <3>1, Constants DEF Setup0, RequestType, Names, FromDev, Spaces
    <3>3. Announces(RequestOf(c))
      BY <1>1, <2>5, <3>1, Constants DEF Setup0, Announces, Addressed
    <3>4. QED
      BY <3>2, <3>3
  <2>6. CASE c.op = "buf_write"
    <3>1. RequestOf(c) = Setup0("SPI_WRITE", "frame", "zero", c.n)
      BY <2>1, <2>6 DEF BySpi
    <3>2. RequestOf(c) \in RequestType
      BY <1>1, CallTypes, <2>6, <3>1, Constants DEF Setup0, RequestType, Names, FromDev, Spaces
    <3>3. Announces(RequestOf(c))
      BY <1>1, CallTypes, <2>6, <3>1, Constants DEF Setup0, Announces, Addressed
    <3>4. QED
      BY <3>2, <3>3
  <2>7. CASE c.op = "buf_read"
    <3>1. RequestOf(c) = Setup0("SPI_READ1", "frame", "zero", SRAM_SIZE)
      BY <2>1, <2>7 DEF BySpi
    <3>2. RequestOf(c) \in RequestType
      BY <1>1, <2>7, <3>1, Constants DEF Setup0, RequestType, Names, FromDev, Spaces
    <3>3. Announces(RequestOf(c))
      BY <1>1, <2>7, <3>1, Constants DEF Setup0, Announces, Addressed
    <3>4. QED
      BY <3>2, <3>3
  <2>8. QED
    BY <1>3, <2>2, <2>3, <2>4, <2>5, <2>6, <2>7 DEF Access
<1>4. CASE c.op \in {"reset_rf", "slp_tr", "reset", "test_mode"}
  <2>1. RequestOf(c) = ByCommon(c)
    BY <1>4 DEF RequestOf, Access
  <2>2. CASE c.op = "reset_rf"
    <3>1. RequestOf(c) = Setup0("RF_RESET", "none", "zero", 0)
      BY <2>1, <2>2 DEF ByCommon
    <3>2. RequestOf(c) \in RequestType
      BY <1>1, <2>2, <3>1, Constants DEF Setup0, RequestType, Names, FromDev, Spaces
    <3>3. Announces(RequestOf(c))
      BY <1>1, <2>2, <3>1, Constants DEF Setup0, Announces, Addressed
    <3>4. QED
      BY <3>2, <3>3
  <2>3. CASE c.op = "slp_tr"
    <3>1. RequestOf(c) = Setup0("SLP_TR", "none", "zero", 0)
      BY <2>1, <2>3 DEF ByCommon
    <3>2. RequestOf(c) \in RequestType
      BY <1>1, <2>3, <3>1, Constants DEF Setup0, RequestType, Names, FromDev, Spaces
    <3>3. Announces(RequestOf(c))
      BY <1>1, <2>3, <3>1, Constants DEF Setup0, Announces, Addressed
    <3>4. QED
      BY <3>2, <3>3
  <2>4. CASE c.op = "reset"
    <3>1. RequestOf(c) = Setup0("RESET", "none", "zero", 0)
      BY <2>1, <2>4 DEF ByCommon
    <3>2. RequestOf(c) \in RequestType
      BY <1>1, <2>4, <3>1, Constants DEF Setup0, RequestType, Names, FromDev, Spaces
    <3>3. Announces(RequestOf(c))
      BY <1>1, <2>4, <3>1, Constants DEF Setup0, Announces, Addressed
    <3>4. QED
      BY <3>2, <3>3
  <2>5. CASE c.op = "test_mode"
    <3>1. RequestOf(c) = Setup0("TEST", "none", "zero", 0)
      BY <2>1, <2>5 DEF ByCommon
    <3>2. RequestOf(c) \in RequestType
      BY <1>1, <2>5, <3>1, Constants DEF Setup0, RequestType, Names, FromDev, Spaces
    <3>3. Announces(RequestOf(c))
      BY <1>1, <2>5, <3>1, Constants DEF Setup0, Announces, Addressed
    <3>4. QED
      BY <3>2, <3>3
  <2>6. QED
    BY <1>4, <2>2, <2>3, <2>4, <2>5
<1>5. CASE c.op \in {"set_clkm"}
  <2>1. RequestOf(c) = SetClkm(c)
    BY <1>5 DEF RequestOf, Access
  <2>2. CASE c.op = "set_clkm"
    <3>1. RequestOf(c) = Setup0("ID", "none", "zero", 3)
      BY <2>1, <2>2 DEF SetClkm
    <3>2. RequestOf(c) \in RequestType
      BY <1>1, <2>2, <3>1, Constants DEF Setup0, RequestType, Names, FromDev, Spaces
    <3>3. Announces(RequestOf(c))
      BY <1>1, <2>2, <3>1, Constants DEF Setup0, Announces, Addressed
    <3>4. QED
      BY <3>2, <3>3
  <2>3. QED
    BY <1>5, <2>2
<1>6. CASE c.op \in {"build", "eui_read", "eui_write"}
  <2>1. RequestOf(c) = ByTool(c)
    BY <1>6 DEF RequestOf, Access
  <2>2. CASE c.op = "build"
    <3>1. RequestOf(c) = Setup0("BUILD", "none", "zero", 256)
      BY <2>1, <2>2 DEF ByTool
    <3>2. RequestOf(c) \in RequestType
      BY <1>1, <2>2, <3>1, Constants DEF Setup0, RequestType, Names, FromDev, Spaces
    <3>3. Announces(RequestOf(c))
      BY <1>1, <2>2, <3>1, Constants DEF Setup0, Announces, Addressed
    <3>4. QED
      BY <3>2, <3>3
  <2>3. CASE c.op = "eui_read"
    <3>1. RequestOf(c) = Setup0("EUI64_READ", "none", "zero", EUI64_LEN)
      BY <2>1, <2>3 DEF ByTool
    <3>2. RequestOf(c) \in RequestType
      BY <1>1, <2>3, <3>1, Constants DEF Setup0, RequestType, Names, FromDev, Spaces
    <3>3. Announces(RequestOf(c))
      BY <1>1, <2>3, <3>1, Constants DEF Setup0, Announces, Addressed
    <3>4. QED
      BY <3>2, <3>3
  <2>4. CASE c.op = "eui_write"
    <3>1. RequestOf(c) = Setup0("EUI64_WRITE", "none", "zero", EUI64_LEN)
      BY <2>1, <2>4 DEF ByTool
    <3>2. RequestOf(c) \in RequestType
      BY <1>1, <2>4, <3>1, Constants DEF Setup0, RequestType, Names, FromDev, Spaces
    <3>3. Announces(RequestOf(c))
      BY <1>1, <2>4, <3>1, Constants DEF Setup0, Announces, Addressed
    <3>4. QED
      BY <3>2, <3>3
  <2>5. QED
    BY <1>6, <2>2, <2>3, <2>4
<1>7. CASE c.op \in {"detach", "set_address", "set_interface", "get_descriptor"}
  <2>1. RequestOf(c) = ByKernel(c)
    BY <1>7 DEF RequestOf, Access
  <2>2. CASE c.op = "detach"
    <3>1. RequestOf(c) = Setup0("DFU_DETACH", "none", "zero", 0)
      BY <2>1, <2>2 DEF ByKernel
    <3>2. RequestOf(c) \in RequestType
      BY <1>1, <2>2, <3>1, Constants DEF Setup0, RequestType, Names, FromDev, Spaces
    <3>3. Announces(RequestOf(c))
      BY <1>1, <2>2, <3>1, Constants DEF Setup0, Announces, Addressed
    <3>4. QED
      BY <3>2, <3>3
  <2>3. CASE c.op = "set_address"
    <3>1. RequestOf(c) = Setup0("SET_ADDRESS", "none", "zero", 0)
      BY <2>1, <2>3 DEF ByKernel
    <3>2. RequestOf(c) \in RequestType
      BY <1>1, <2>3, <3>1, Constants DEF Setup0, RequestType, Names, FromDev, Spaces
    <3>3. Announces(RequestOf(c))
      BY <1>1, <2>3, <3>1, Constants DEF Setup0, Announces, Addressed
    <3>4. QED
      BY <3>2, <3>3
  <2>4. CASE c.op = "set_interface"
    <3>1. RequestOf(c) = Setup0("SET_INTERFACE", "none", "zero", 0)
      BY <2>1, <2>4 DEF ByKernel
    <3>2. RequestOf(c) \in RequestType
      BY <1>1, <2>4, <3>1, Constants DEF Setup0, RequestType, Names, FromDev, Spaces
    <3>3. Announces(RequestOf(c))
      BY <1>1, <2>4, <3>1, Constants DEF Setup0, Announces, Addressed
    <3>4. QED
      BY <3>2, <3>3
  <2>5. CASE c.op = "get_descriptor"
    <3>1. RequestOf(c) = Setup0("GET_DESCRIPTOR", "none", "zero", c.n)
      BY <2>1, <2>5 DEF ByKernel
    <3>2. RequestOf(c) \in RequestType
      BY <1>1, CallTypes, <2>5, <3>1, Constants DEF Setup0, RequestType, Names, FromDev, Spaces
    <3>3. Announces(RequestOf(c))
      BY <1>1, CallTypes, <2>5, <3>1, Constants DEF Setup0, Announces, Addressed
    <3>4. QED
      BY <3>2, <3>3
  <2>6. QED
    BY <1>7, <2>2, <2>3, <2>4, <2>5
<1>8. c.op \in Plain \cup {"reg_write", "sram_write", "eui_write", "buf_write", "buf_read",
                         "get_descriptor", "set_interface"}
  BY CallTypes
<1>9. QED
  BY <1>2, <1>3, <1>4, <1>5, <1>6, <1>7, <1>8 DEF Access, Plain

\* A call is made.  It changes nothing in the device.
LEMMA BeginKeeps ==
    ASSUME IInv, NEW c \in CallSet, Begin(c)
    PROVE  IInv'
<1>1. RequestOK'
  BY RequestFits DEF Begin, RequestOK
<1>2. DeviceTypes'
  <2>1. chip' \in ChipType
    BY DEF Begin, IInv, DeviceTypes, ChipType
  <2>2. QED
    BY <2>1 DEF Begin, IInv, DeviceTypes
<1>3. HostTypes'
  <2>1. calls' \in 0..Calls
    BY Constants DEF Begin, IInv, HostTypes
  <2>2. NoReply \in [vals : SUBSET Contents, n : Nat]
    BY DEF NoReply
  <2>3. stage' \in Stages
    BY DEF Begin, Stages
  <2>4. QED
    BY <2>1, <2>2, <2>3 DEF Begin, IInv, HostTypes
<1>4. DataStage' /\ Room' /\ Held'
  BY DEF Begin, IInv, DataStage, Room, Held
<1>5. QED
  BY <1>1, <1>2, <1>3, <1>4 DEF IInv
-----------------------------------------------------------------------------
(* The firmware: a SETUP *)

\* What an action of the device leaves of the host.
LEMMA HostSame ==
    ASSUME IInv, UNCHANGED <<program0, reply, address, faults>>, stage' \in Stages
    PROVE  HostTypes' /\ RequestOK'
  BY DEF IInv, HostTypes, RequestOK, program0

\* A handler that leaves EP0 idle, or sending something that is not in buf.
LEMMA QuietKeeps ==
    ASSUME IInv, UNCHANGED <<program0, reply, address, faults>>,
           stage' \in Stages \ {"out"},
           usb' \in UsbType, usb'.ep.state # "EP_RX",
           ~(usb'.ep.state = "EP_TX" /\ usb'.ep.buf = "buf"),
           ram' \in RamType, chip' \in ChipType, eeprom' \in [Bytes0 -> Contents]
    PROVE  IInv'
  BY HostSame DEF IInv, DeviceTypes, DataStage, Room, Held

\* usb_send() of what has been put into buf.
LEMMA SendKeeps ==
    ASSUME IInv, NEW n \in 0..BUF_SIZE, NEW val \in Contents,
           UsbSend("buf", n, val), request.name \in FromDev,
           ram' \in RamType, ram'.buf.n = n,
           chip' \in ChipType, eeprom' \in [Bytes0 -> Contents]
    PROVE  IInv'
<1>1. usb \in UsbType /\ "buf" \in Sources /\ n \in 0..255
  BY Constants DEF IInv, DeviceTypes, Sources
<1>2. /\ usb' \in UsbType /\ usb'.ep.state # "EP_RX" /\ stage' \in {"status", "in"}
      /\ UNCHANGED <<program0, reply, address, faults>>
  BY <1>1, Sends
<1>3. HostTypes' /\ RequestOK'
  BY <1>2, HostSame DEF Stages
<1>4. DataStage' /\ Room' /\ Held'
  BY <1>2 DEF DataStage, Room, Held
<1>5. QED
  BY <1>2, <1>3, <1>4 DEF IInv, DeviceTypes

\* usb_send() of a constant.
LEMMA SendConstantKeeps ==
    ASSUME IInv, NEW from \in Sources \ {"buf"}, NEW n \in 0..255,
           UsbSend(from, n, "zero"), request.name \in FromDev,
           UNCHANGED <<ram, chip, eeprom>>
    PROVE  IInv'
<1>1. usb \in UsbType /\ "zero" \in Contents
  BY Constants DEF IInv, DeviceTypes
<1>2. /\ usb' \in UsbType /\ usb'.ep.state # "EP_RX" /\ stage' \in {"status", "in"}
      /\ ~(usb'.ep.state = "EP_TX" /\ usb'.ep.buf = "buf")
      /\ UNCHANGED <<program0, reply, address, faults>>
  BY <1>1, Sends
<1>3. QED
  BY <1>2, QuietKeeps DEF IInv, DeviceTypes, Stages

\* usb_recv() when there is room in buf for it.
LEMMA ReceiveKeeps ==
    ASSUME IInv, usb.cpu = "runs", NEW n \in 0..BUF_SIZE - 2, n = request.n,
           NEW callback \in {"do_buf_write", "do_eeprom_write"},
           UsbRecv(n, callback),
           ram' \in RamType, ram'.buf.n = 0,
           callback = "do_buf_write" => ram'.buf.cmd \in Addressed /\ ram'.size = request.n + 2,
           UNCHANGED <<chip, eeprom>>
    PROVE  IInv'
<1>1. usb \in UsbType /\ callback \in Callbacks /\ n \in 0..255
  BY Constants DEF IInv, DeviceTypes, Callbacks
<1>2. /\ usb' \in UsbType /\ usb'.cpu = usb.cpu
      /\ usb'.ep.state = "EP_RX" /\ usb'.ep.left = n /\ usb'.ep.callback = callback
      /\ stage' \in {"status", "in", "out"}
      /\ UNCHANGED <<program0, reply, address, faults>>
  BY <1>1, Receives
<1>3. HostTypes' /\ RequestOK'
  BY <1>2, HostSame DEF Stages
<1>4. request' = request
  BY <1>2 DEF program0
<1>5. DataStage'
  BY <1>2, <1>4 DEF DataStage
<1>6. Room' /\ Held'
  BY <1>2, Constants DEF Room, Held
<1>7. QED
  BY <1>2, <1>3, <1>5, <1>6 DEF IInv, DeviceTypes

\* A request without data.
LEMMA DoKeeps ==
    ASSUME IInv, Do, request.n = 0,
           ram' \in RamType, chip' \in ChipType, UNCHANGED eeprom
    PROVE  IInv'
<1>1. usb \in UsbType
  BY DEF IInv, DeviceTypes
<1>2. /\ usb' \in UsbType /\ usb'.ep.state # "EP_RX"
      /\ ~(usb'.ep.state = "EP_TX" /\ usb'.ep.buf = "buf")
      /\ stage' \in {"status", "in"}
      /\ UNCHANGED <<program0, reply, address, faults>>
  BY <1>1, Does
<1>3. QED
  BY <1>2, QuietKeeps DEF IInv, DeviceTypes, Stages

\* A request that is not accepted.
LEMMA RefuseKeeps ==
    ASSUME IInv, Refuse
    PROVE  IInv'
<1>1. usb' \in UsbType /\ usb'.ep.state = "EP_IDLE"
  BY Cancels DEF Refuse, IInv, DeviceTypes
<1>2. QED
  BY <1>1, QuietKeeps DEF Refuse, IInv, DeviceTypes, Stages
-----------------------------------------------------------------------------
(* The firmware: each request *)

LEMMA Filled ==
    ASSUME ram \in RamType, NEW b \in BufType
    PROVE  [ram EXCEPT !.buf = b] \in RamType /\ [ram EXCEPT !.buf = b].buf = b
  BY DEF RamType

LEMMA FilledToSize ==
    ASSUME ram \in RamType, NEW b \in BufType, NEW size \in 0..255
    PROVE  /\ [ram EXCEPT !.buf = b, !.size = size] \in RamType
           /\ [ram EXCEPT !.buf = b, !.size = size].buf = b
           /\ [ram EXCEPT !.buf = b, !.size = size].size = size
  BY DEF RamType

LEMMA Bufs ==
    ASSUME NEW val \in Contents, NEW n \in Nat
    PROVE  /\ [NoBuf EXCEPT !.val = val, !.n = n] \in BufType
           /\ [NoBuf EXCEPT !.val = val, !.n = n].n = n
  BY Constants DEF NoBuf, BufType, Spaces

LEMMA Commands ==
    ASSUME NEW val \in Contents, NEW cmd \in Spaces
    PROVE  /\ [NoBuf EXCEPT !.cmd = cmd] \in BufType
           /\ [NoBuf EXCEPT !.cmd = cmd].cmd = cmd
           /\ [NoBuf EXCEPT !.cmd = cmd].n = 0
           /\ [NoBuf EXCEPT !.cmd = cmd, !.arg = val] \in BufType
           /\ [NoBuf EXCEPT !.cmd = cmd, !.arg = val].cmd = cmd
           /\ [NoBuf EXCEPT !.cmd = cmd, !.arg = val].n = 0
  BY Constants DEF NoBuf, BufType, Spaces

\* usb.c and the DFU part of ep0.c
LEMMA StandardKeeps ==
    ASSUME IInv, SetAddress \/ GetDescriptor \/ SetInterface \/ DfuDetach
    PROVE  IInv'
<1>1. CASE SetAddress
  <2> DEFINE u == [Cancelled(usb) EXCEPT !.udaddr = 1]
             w == UsbIo(u, "EP_TX", "zero", 0, "enable_addr")
  <2>1. Cancelled(usb) \in UsbType /\ EpIdle(Cancelled(usb).ep)
    BY Cancels DEF IInv, DeviceTypes
  <2>2. u \in UsbType /\ EpIdle(u.ep)
    BY <2>1 DEF UsbType
  <2>3. "EP_TX" \in States /\ "zero" \in Sources /\ 0 \in 0..255 /\ "enable_addr" \in Callbacks
    BY DEF States, Sources, Callbacks
  <2>4. Accept(w, "zero")
    BY <1>1 DEF SetAddress
  <2> HIDE DEF u
  <2>5. w \in UsbType /\ w.ep = Opened("EP_TX", "zero", 0, "enable_addr")
    BY <2>2, <2>3, Opens
  <2>6. w.ep.state = "EP_TX" /\ w.ep.buf = "zero"
    BY <2>5 DEF Opened
  <2>7. request.n = 0
    BY <1>1 DEF SetAddress, Requested, IInv, RequestOK, Announces
  <2> HIDE DEF w
  <2>8. /\ usb' \in UsbType /\ usb'.ep.state # "EP_RX"
        /\ ~(usb'.ep.state = "EP_TX" /\ usb'.ep.buf = "buf")
        /\ stage' \in {"status", "in"}
        /\ UNCHANGED <<program0, reply, address, faults>>
    BY <2>4, <2>5, <2>6, <2>7, Accepts, Constants
  <2>9. ram' \in RamType /\ chip' \in ChipType /\ eeprom' \in [Bytes0 -> Contents]
    BY <1>1 DEF SetAddress, IInv, DeviceTypes
  <2>10. stage' \in Stages \ {"out"}
    BY <2>8 DEF Stages
  <2>11. QED
    BY <2>8, <2>9, <2>10, QuietKeeps
<1>2. CASE GetDescriptor
  <2>1. request.name \in FromDev /\ request.n \in 0..256
    BY <1>2 DEF GetDescriptor, Requested, FromDev, IInv, RequestOK, RequestType
  <2>2. Least(request.n, DESCR_SIZE) \in 0..255
    BY <2>1, Constants DEF Least
  <2>3. "descriptor" \in Sources \ {"buf"}
    BY DEF Sources
  <2>4. UsbSend("descriptor", Least(request.n, DESCR_SIZE), "zero") /\ UNCHANGED <<ram, chip, eeprom>>
    BY <1>2 DEF GetDescriptor
  <2>5. QED
    BY <2>1, <2>2, <2>3, <2>4, SendConstantKeeps
<1>3. CASE SetInterface \/ DfuDetach
  <2>1. request.n = 0
    BY <1>3 DEF SetInterface, DfuDetach, Requested, IInv, RequestOK, Announces
  <2>2. ram \in RamType /\ chip \in ChipType
    BY DEF IInv, DeviceTypes
  <2>3. ram' \in RamType
    <3>1. [ram EXCEPT !.user_setup = "my_dfu_setup", !.dfu = "appIDLE"] \in RamType
      BY <2>2 DEF RamType
    <3>2. [ram EXCEPT !.user_setup = "my_setup"] \in RamType
      BY <2>2 DEF RamType
    <3>3. [ram EXCEPT !.dfu = "appDETACH"] \in RamType
      BY <2>2 DEF RamType
    <3>4. QED
      BY <1>3, <3>1, <3>2, <3>3 DEF SetInterface, DfuDetach
  <2>4. Do /\ chip' \in ChipType /\ UNCHANGED eeprom
    BY <1>3, <2>2 DEF SetInterface, DfuDetach
  <2>5. QED
    BY <2>1, <2>3, <2>4, DoKeeps
<1>4. QED
  BY <1>1, <1>2, <1>3

\* Requests without data
LEMMA CommandKeeps ==
    ASSUME IInv, RfReset \/ SlpTr \/ RegWrite \/ ResetRequest
    PROVE  IInv'
<1>1. ram \in RamType /\ chip \in ChipType /\ usb \in UsbType /\ eeprom \in [Bytes0 -> Contents]
      /\ request \in RequestType /\ Announces(request)
  BY DEF IInv, DeviceTypes, RequestOK
<1>2. CASE RfReset \/ SlpTr \/ RegWrite
  <2>1. request.n = 0
    BY <1>1, <1>2 DEF RfReset, SlpTr, RegWrite, Mine, Requested, Announces
  <2>2. chip' \in ChipType
    <3>1. CASE RfReset
      BY <1>1, <3>1, ChipResetType DEF RfReset, ChipType
    <3>2. CASE SlpTr
      BY <1>1, <3>2 DEF SlpTr, ChipType
    <3>3. CASE RegWrite
      BY <1>1, <3>3 DEF RegWrite, ChipType, RequestType
    <3>4. QED
      BY <1>2, <3>1, <3>2, <3>3
  <2>3. Do /\ UNCHANGED <<ram, eeprom>>
    BY <1>2 DEF RfReset, SlpTr, RegWrite
  <2>4. QED
    BY <1>1, <2>1, <2>2, <2>3, DoKeeps
<1>3. CASE ResetRequest
  <2>1. Cancelled(usb) \in UsbType /\ Cancelled(usb).ep.state = "EP_IDLE"
    BY <1>1, Cancels
  <2>2. usb' \in UsbType /\ usb'.ep.state = "EP_IDLE"
    BY <1>3, <2>1 DEF ResetRequest, UsbType
  <2>3. ram' \in RamType
    BY <1>1, <1>3 DEF ResetRequest, RamType
  <2>4. stage' \in Stages \ {"out"}
    BY <1>3 DEF ResetRequest, Stages
  <2>5. UNCHANGED <<chip, eeprom, program0, reply, address, faults>>
    BY <1>3 DEF ResetRequest
  <2>6. QED
    BY <1>1, <2>2, <2>3, <2>4, <2>5, QuietKeeps
<1>4. QED
  BY <1>2, <1>3

\* Requests that return what is in the transceiver or in the EEPROM
LEMMA ReadDataKeeps ==
    ASSUME IInv, NEW val \in Contents, ReadData(val), request.n \in 1..SRAM_SIZE,
           request.name \in FromDev
    PROVE  IInv'
<1>1. ram \in RamType /\ chip \in ChipType /\ eeprom \in [Bytes0 -> Contents]
  BY DEF IInv, DeviceTypes
<1> DEFINE b == [NoBuf EXCEPT !.val = val, !.n = request.n]
<1>2. request.n \in Nat /\ request.n \in 0..BUF_SIZE
  BY Constants
<1>3. b \in BufType /\ b.n = request.n
  BY <1>2, Bufs
<1>4. ram' = [ram EXCEPT !.buf = b]
  BY DEF ReadData
<1> HIDE DEF b
<1>5. ram' \in RamType /\ ram'.buf.n = request.n
  BY <1>1, <1>3, <1>4, Filled
<1>6. UsbSend("buf", request.n, val) /\ UNCHANGED <<chip, eeprom>>
  BY DEF ReadData
<1>7. QED
  BY <1>1, <1>2, <1>5, <1>6, SendKeeps

LEMMA InEepromType ==
    ASSUME IInv
    PROVE  InEeprom \in Contents
<1>1. eeprom \in [Bytes0 -> Contents] /\ 0 \in Bytes0
  BY Constants DEF IInv, DeviceTypes, Bytes0
<1>2. QED
  BY <1>1, Constants DEF InEeprom

LEMMA ReadSizes ==
    ASSUME NEW phr \in 0..255, NEW len \in 1..SRAM_SIZE
    PROVE  BufReadSize(phr, len) \in 1..SRAM_SIZE
  BY DEF BufReadSize, Least, SRAM_SIZE

LEMMA ReadKeeps ==
    ASSUME IInv, \/ GetId \/ GetBuild \/ RegRead \/ SramRead \/ SpiRead
                 \/ BufRead \/ SpiBufRead \/ Eui64Read
    PROVE  IInv'
<1>1. /\ ram \in RamType /\ chip \in ChipType /\ eeprom \in [Bytes0 -> Contents]
      /\ request \in RequestType /\ Announces(request)
  BY DEF IInv, DeviceTypes, RequestOK
<1>2. chip.reg \in Contents /\ chip.sram \in Contents
      /\ chip.frame \in FrameType /\ chip.frame.val \in Contents /\ chip.frame.n \in 0..255
  BY <1>1 DEF ChipType, FrameType
<1>3. [chip EXCEPT !.shown = chip.frame] \in ChipType
  BY <1>1, <1>2 DEF ChipType
<1>4. CASE GetId
  <2>1. request.name \in FromDev /\ request.n \in 0..255
    BY <1>1, <1>4 DEF GetId, Mine, Requested, FromDev, Announces
  <2>2. "id" \in Sources \ {"buf"}
    BY DEF Sources
  <2>3. UsbSend("id", request.n, "zero") /\ UNCHANGED <<ram, chip, eeprom>>
    BY <1>4 DEF GetId
  <2>4. QED
    BY <2>1, <2>2, <2>3, SendConstantKeeps
<1>5. CASE GetBuild
  <2> DEFINE b == [NoBuf EXCEPT !.val = "build", !.n = BUILD_LEN]
  <2>1. b \in BufType /\ b.n = BUILD_LEN
    <3>1. "build" \in Contents /\ BUILD_LEN \in Nat
      BY Constants
    <3>2. QED
      BY <3>1, Bufs
  <2>2. ram' = [ram EXCEPT !.buf = b, !.size = BUILD_LEN]
    BY <1>5 DEF GetBuild
  <2> HIDE DEF b
  <2>3. BUILD_LEN \in 0..255 /\ BUILD_LEN \in 0..BUF_SIZE /\ "build" \in Contents
    BY Constants
  <2>4. ram' \in RamType /\ ram'.buf.n = BUILD_LEN
    BY <1>1, <2>1, <2>2, <2>3, FilledToSize
  <2>5. /\ UsbSend("buf", BUILD_LEN, "build") /\ request.name \in FromDev
        /\ chip' \in ChipType /\ eeprom' \in [Bytes0 -> Contents]
    BY <1>1, <1>5 DEF GetBuild, Mine, Requested, FromDev
  <2>6. QED
    BY <2>3, <2>4, <2>5, SendKeeps
<1>6. CASE RegRead \/ SramRead \/ SpiRead
  <2>1. request.name \in {"REG_READ", "SRAM_READ", "SPI_READ1", "SPI_READ2"}
    BY <1>6 DEF RegRead, SramRead, SpiRead, Mine, Requested
  <2>2. request.name \in FromDev /\ request.n \in 1..SRAM_SIZE
    BY <1>1, <2>1 DEF FromDev, Announces
  <2>3. PICK val \in Contents : ReadData(val)
    BY <1>2, <1>6 DEF RegRead, SramRead, SpiRead
  <2>4. QED
    BY <2>2, <2>3, ReadDataKeeps
<1>7. CASE BufRead
  <2> DEFINE n == BufReadSize(chip.frame.n, request.n)
             b == [NoBuf EXCEPT !.val = chip.frame.val, !.n = n]
  <2>1. request.name \in FromDev /\ request.n \in 1..SRAM_SIZE
    BY <1>1, <1>7 DEF BufRead, Mine, Requested, FromDev, Announces
  <2>2. n \in 1..SRAM_SIZE
    BY <1>2, <2>1, ReadSizes
  <2>3. n \in Nat /\ n \in 0..BUF_SIZE /\ n - 1 \in 0..255
    BY <2>2, Constants
  <2>4. /\ ram' = [ram EXCEPT !.buf = b, !.size = n - 1]
        /\ UsbSend("buf", n, chip.frame.val)
        /\ chip' = [chip EXCEPT !.shown = chip.frame] /\ UNCHANGED eeprom
    BY <1>7 DEF BufRead
  <2> HIDE DEF n
  <2>5. b \in BufType /\ b.n = n
    BY <1>2, <2>3, Bufs
  <2> HIDE DEF b
  <2>6. ram' \in RamType /\ ram'.buf.n = n
    BY <1>1, <2>3, <2>4, <2>5, FilledToSize
  <2>7. QED
    BY <1>1, <1>2, <1>3, <2>1, <2>3, <2>4, <2>6, SendKeeps
<1>8. CASE SpiBufRead
  <2> DEFINE b == [NoBuf EXCEPT !.val = chip.frame.val, !.n = request.n]
  <2>1. request.name \in FromDev /\ request.n \in 1..SRAM_SIZE
    BY <1>1, <1>8 DEF SpiBufRead, Mine, Requested, FromDev, Announces
  <2>2. request.n \in Nat /\ request.n \in 0..BUF_SIZE
    BY <2>1, Constants
  <2>3. /\ ram' = [ram EXCEPT !.buf = b]
        /\ UsbSend("buf", request.n, chip.frame.val)
        /\ chip' = [chip EXCEPT !.shown = chip.frame] /\ UNCHANGED eeprom
    BY <1>8 DEF SpiBufRead
  <2>4. b \in BufType /\ b.n = request.n
    BY <1>2, <2>2, Bufs
  <2> HIDE DEF b
  <2>5. ram' \in RamType /\ ram'.buf.n = request.n
    BY <1>1, <2>3, <2>4, Filled
  <2>6. QED
    BY <1>1, <1>2, <1>3, <2>1, <2>2, <2>3, <2>5, SendKeeps
<1>9. CASE Eui64Read
  <2> DEFINE b == [NoBuf EXCEPT !.val = InEeprom, !.n = EUI64_LEN]
  <2>1. InEeprom \in Contents /\ EUI64_LEN \in Nat /\ EUI64_LEN \in 0..BUF_SIZE
    BY InEepromType, Constants
  <2>2. b \in BufType /\ b.n = EUI64_LEN
    BY <2>1, Bufs
  <2>3. /\ ram' = [ram EXCEPT !.buf = b]
        /\ UsbSend("buf", EUI64_LEN, InEeprom) /\ UNCHANGED <<chip, eeprom>>
        /\ request.name \in FromDev
    BY <1>9 DEF Eui64Read, Mine, Requested, FromDev
  <2> HIDE DEF b
  <2>4. ram' \in RamType /\ ram'.buf.n = EUI64_LEN
    BY <1>1, <2>2, <2>3, Filled
  <2>5. QED
    BY <1>1, <2>1, <2>3, <2>4, SendKeeps
<1>10. QED
  BY <1>4, <1>5, <1>6, <1>7, <1>8, <1>9

\* The size that WriteData and SpiWrite compute does not wrap for what a driver sends.
LEMMA SizeIsExact ==
    ASSUME NEW n \in 0..MAX_PSDU
    PROVE  (n + 2) % 256 = n + 2 /\ n + 2 \in 0..255
  BY Constants

\* do_buf_write() of a buffer with a command and at least two bytes.
LEMMA Written ==
    ASSUME NEW c \in ChipType, NEW f \in RamType, f.buf.cmd \in Addressed, f.size \in 2..255
    PROVE  DoBufWrite(c, f) \in ChipType
<1>1. f.buf \in BufType
  BY DEF RamType
<1>2. f.buf.arg \in Contents /\ f.buf.val \in Contents
  BY <1>1 DEF BufType
<1>3. CASE f.buf.cmd = "reg"
  BY <1>2, <1>3 DEF DoBufWrite, ChipType
<1>4. CASE f.buf.cmd = "sram"
  BY <1>2, <1>4, Constants DEF DoBufWrite, ChipType
<1>5. CASE f.buf.cmd = "frame"
  <2> DEFINE g == [val |-> IF f.size = f.buf.n + 2 THEN f.buf.val ELSE "mix", n |-> f.size - 2]
  <2>1. f.size - 2 \in 0..255
    OBVIOUS
  <2>2. g \in FrameType
    BY <1>2, <2>1, Constants DEF FrameType
  <2>3. DoBufWrite(c, f) = [c EXCEPT !.frame = g]
    BY <1>5 DEF DoBufWrite
  <2> HIDE DEF g
  <2>4. QED
    BY <2>2, <2>3 DEF ChipType
<1>6. QED
  BY <1>3, <1>4, <1>5 DEF Addressed

LEMMA WriteKeeps ==
    ASSUME IInv, BufWrite \/ SramWrite \/ SpiWrite \/ Eui64Write
    PROVE  IInv'
<1>1. /\ ram \in RamType /\ chip \in ChipType /\ eeprom \in [Bytes0 -> Contents]
      /\ request \in RequestType /\ Announces(request)
  BY DEF IInv, DeviceTypes, RequestOK
<1>2. request.val \in Contents /\ usb.cpu = "runs"
  BY <1>1 DEF RequestType, BufWrite, SramWrite, SpiWrite, Eui64Write, Mine, Requested
<1>3. CASE BufWrite \/ SramWrite
  <2> DEFINE b == [NoBuf EXCEPT !.cmd = request.cmd]
             size == (request.n + 2) % 256
  <2>1. request.n \in 1..MAX_PSDU /\ request.cmd \in Addressed
    BY <1>1, <1>3 DEF BufWrite, SramWrite, Mine, Requested, Announces
  <2>2. request.n \in 0..MAX_PSDU /\ request.n \in 0..BUF_SIZE - 2 /\ request.cmd \in Spaces
    BY <2>1, Constants DEF Addressed, Spaces
  <2>3. size = request.n + 2 /\ size \in 0..255
    BY <2>2, SizeIsExact
  <2>4. ram' = [ram EXCEPT !.buf = b, !.size = size]
        /\ UsbRecv(request.n, "do_buf_write") /\ UNCHANGED <<chip, eeprom>>
    BY <1>3 DEF BufWrite, SramWrite, WriteData
  <2>5. b \in BufType /\ b.cmd = request.cmd /\ b.n = 0
    BY <1>2, <2>2, Commands
  <2> HIDE DEF b, size
  <2>6. ram' \in RamType /\ ram'.buf = b /\ ram'.size = size
    <3>1. b \in BufType /\ size \in 0..255
      BY <2>3, <2>5
    <3>2. QED
      BY <1>1, <2>4, <3>1, FilledToSize
  <2>7. QED
    BY <1>2, <2>1, <2>2, <2>3, <2>4, <2>5, <2>6, ReceiveKeeps
<1>4. CASE SpiWrite
  <2> DEFINE b == [NoBuf EXCEPT !.cmd = request.cmd, !.arg = request.val]
             size == (request.n + 2) % 256
             f == [ram EXCEPT !.buf = b, !.size = size]
  <2>1. request.n \in 0..MAX_PSDU /\ request.cmd \in Addressed
    BY <1>1, <1>4 DEF SpiWrite, Mine, Requested, Announces
  <2>2. request.n \in 0..BUF_SIZE - 2 /\ request.cmd \in Spaces
    BY <2>1, Constants DEF Addressed, Spaces
  <2>3. size = request.n + 2 /\ size \in 0..255
    BY <2>1, SizeIsExact
  <2>4. \/ Refuse
        \/ /\ ram' = f /\ request.n > 0 /\ UsbRecv(request.n, "do_buf_write")
           /\ UNCHANGED <<chip, eeprom>>
        \/ ram' = f /\ request.n = 0 /\ Do /\ chip' = DoBufWrite(chip, f) /\ UNCHANGED eeprom
    BY <1>4, <2>1 DEF SpiWrite
  <2>5. b \in BufType /\ b.cmd = request.cmd /\ b.n = 0
    BY <1>2, <2>2, Commands
  <2> HIDE DEF b, size
  <2>6. f \in RamType /\ f.buf = b /\ f.size = size
    <3>1. b \in BufType /\ size \in 0..255
      BY <2>3, <2>5
    <3>2. QED
      BY <1>1, <3>1, FilledToSize
  <2> HIDE DEF f
  <2>7. CASE Refuse
    BY <2>7, RefuseKeeps
  <2>8. CASE /\ ram' = f /\ request.n > 0 /\ UsbRecv(request.n, "do_buf_write")
             /\ UNCHANGED <<chip, eeprom>>
    BY <1>2, <2>1, <2>2, <2>3, <2>5, <2>6, <2>8, ReceiveKeeps
  <2>9. CASE ram' = f /\ request.n = 0 /\ Do /\ chip' = DoBufWrite(chip, f) /\ UNCHANGED eeprom
    <3>1. chip' \in ChipType
      BY <1>1, <2>1, <2>3, <2>5, <2>6, <2>9, Written
    <3>2. QED
      BY <2>6, <2>9, <3>1, DoKeeps
  <2>10. QED
    BY <2>4, <2>7, <2>8, <2>9
<1>5. CASE Eui64Write
  <2>1. request.n = EUI64_LEN /\ request.n \in 0..BUF_SIZE - 2
    BY <1>1, <1>5, Constants DEF Eui64Write, Mine, Requested, Announces
  <2>2. ram' \in RamType /\ ram'.buf = NoBuf
    BY <1>1, <1>5, ResetTypes DEF Eui64Write, RamType
  <2>3. ram'.buf.n = 0
    BY <2>2 DEF NoBuf
  <2>4. UsbRecv(request.n, "do_eeprom_write") /\ UNCHANGED <<chip, eeprom>>
    BY <1>5 DEF Eui64Write
  <2>5. QED
    BY <1>2, <2>1, <2>2, <2>3, <2>4, ReceiveKeeps
<1>6. QED
  BY <1>3, <1>4, <1>5

LEMMA SetupKeeps ==
    ASSUME IInv, HandleSetup
    PROVE  IInv'
<1>1. CASE Unrecognized
  BY <1>1, RefuseKeeps DEF Unrecognized
<1>2. CASE MySetup
  BY <1>2, CommandKeeps, ReadKeeps, WriteKeeps DEF MySetup
<1>3. QED
  BY <1>1, <1>2, StandardKeeps DEF HandleSetup
-----------------------------------------------------------------------------
(* The firmware: the other stages *)

LEMMA Less ==
    ASSUME NEW l \in 0..255, NEW k \in 0..l
    PROVE  l - k \in 0..255
  OBVIOUS

LEMMA Shortened ==
    ASSUME NEW ep \in EpType, NEW left \in 0..255
    PROVE  /\ [ep EXCEPT !.left = left] \in EpType
           /\ [ep EXCEPT !.left = left].left = left
           /\ [ep EXCEPT !.left = left].state = ep.state
           /\ [ep EXCEPT !.left = left].callback = ep.callback
  BY DEF EpType

\* A packet of data: what "left" loses, buf gains.
LEMMA EpRxKeeps ==
    ASSUME IInv, EpRx
    PROVE  IInv'
<1> DEFINE n == Least(EP_SIZE, request.n - ram.buf.n)
           left == usb.ep.left - n
           u == [usb EXCEPT !.ep.left = @ - n]
           b == [ram.buf EXCEPT !.val = call.val, !.n = @ + n]
           f == [ram EXCEPT !.buf.val = call.val, !.buf.n = @ + n, !.i = 0]
<1>1. /\ usb \in UsbType /\ ram \in RamType /\ chip \in ChipType /\ request \in RequestType
      /\ eeprom \in [Bytes0 -> Contents]
  BY DEF IInv, DeviceTypes, RequestOK
<1>2. /\ usb.ep \in EpType /\ usb.ep.left \in 0..255
      /\ ram.buf \in BufType /\ ram.buf.n \in Nat /\ request.n \in 0..256
  BY <1>1 DEF UsbType, EpType, RamType, BufType, RequestType
<1>3. /\ stage = "out" /\ usb.ep.state = "EP_RX" /\ usb.cpu = "runs"
      /\ usb.ep.left = request.n - ram.buf.n
      /\ usb.ep.callback \in {"do_buf_write", "do_eeprom_write"}
      /\ usb.ep.callback = "do_buf_write" =>
            ram.buf.cmd \in Addressed /\ ram.size = request.n + 2
      /\ 2 + ram.buf.n + usb.ep.left <= BUF_SIZE
  BY DEF EpRx, IInv, DataStage, Room
<1>4. n \in 0..usb.ep.left
  BY <1>2, <1>3, Constants DEF Least
<1>5. left \in 0..255 /\ ram.buf.n + n \in Nat /\ left = request.n - (ram.buf.n + n)
      /\ ram.buf.n + n + left = ram.buf.n + usb.ep.left
  <2> HIDE DEF n, u, b, f
  <2>1. usb.ep.left = request.n - ram.buf.n
    BY <1>3
  <2>2. usb.ep.left \in 0..255 /\ ram.buf.n \in Nat /\ request.n \in 0..256
    BY <1>2
  <2>3. usb.ep.left - n \in 0..255
    BY <1>4, <2>2, Less
  <2>4. ram.buf.n + n \in Nat
    BY <1>4, <2>2
  <2>5. usb.ep.left - n = request.n - (ram.buf.n + n)
    BY <1>4, <2>1, <2>2
  <2>6. ram.buf.n + n + (usb.ep.left - n) = ram.buf.n + usb.ep.left
    BY <1>4, <2>2
  <2>7. QED
    BY <2>3, <2>4, <2>5, <2>6
<1>6. call.val \in Contents
  <2>1. call \in CallSet \/ call = NoCall
    BY DEF IInv, HostTypes
  <2>2. QED
    BY <2>1, CallTypes, Constants DEF NoCall
<1> HIDE DEF n
<1>7. /\ ram' = f
      /\ stage' = IF f.buf.n = request.n THEN "status" ELSE "out"
      /\ IF u.ep.left > 0 THEN usb' = u /\ UNCHANGED chip
         ELSE IF u.ep.callback = "do_eeprom_write"
           THEN usb' = [u EXCEPT !.cpu = "eeprom"] /\ UNCHANGED chip
         ELSE usb' = Received(u) /\ chip' = DoBufWrite(chip, f)
      /\ UNCHANGED <<eeprom, program0, reply, address, faults>>
  BY DEF EpRx, n
<1>8. b \in BufType /\ b.n = ram.buf.n + n /\ b.cmd = ram.buf.cmd
  BY <1>2, <1>5, <1>6 DEF BufType
<1>9. f = [ram EXCEPT !.buf = b, !.i = 0]
  BY <1>1 DEF RamType
<1> HIDE DEF b, f
<1>10. f \in RamType /\ f.buf = b /\ f.size = ram.size
  <2>1. 0 \in 0..255
    OBVIOUS
  <2>2. QED
    BY <1>1, <1>8, <1>9, <2>1 DEF RamType
<1>11. u = [usb EXCEPT !.ep = [usb.ep EXCEPT !.left = left]]
  BY <1>1 DEF UsbType
<1>12. [usb.ep EXCEPT !.left = left] \in EpType
  <2> HIDE DEF left, n, u
  <2>1. QED
    BY <1>2, <1>5, Shortened
<1>13. /\ u \in UsbType /\ u.ep.left = left /\ u.ep.state = "EP_RX" /\ u.cpu = "runs"
       /\ u.ep.callback = usb.ep.callback
  <2> HIDE DEF u
  <2>1. u \in UsbType /\ u.ep = [usb.ep EXCEPT !.left = left] /\ u.cpu = usb.cpu
    BY <1>1, <1>11, <1>12 DEF UsbType
  <2>2. [usb.ep EXCEPT !.left = left].left = left
        /\ [usb.ep EXCEPT !.left = left].state = usb.ep.state
        /\ [usb.ep EXCEPT !.left = left].callback = usb.ep.callback
    BY <1>2, <1>5, Shortened
  <2>3. QED
    BY <1>3, <2>1, <2>2
<1> HIDE DEF u, left
<1>14. stage' \in {"status", "out"} /\ stage' \in Stages
  BY <1>7 DEF Stages
<1>15. HostTypes' /\ RequestOK' /\ request' = request
  BY <1>7, <1>14, HostSame DEF program0
<1>16. CASE left > 0
  <2>1. usb' = u /\ chip' = chip
    BY <1>7, <1>13, <1>16
  <2>2. DataStage'
    BY <1>3, <1>5, <1>7, <1>8, <1>10, <1>13, <1>15, <2>1 DEF DataStage
  <2>3. Room' /\ Held'
    BY <1>2, <1>3, <1>5, <1>7, <1>8, <1>10, <1>13, <2>1, Constants DEF Room, Held
  <2>4. DeviceTypes'
    BY <1>1, <1>7, <1>10, <1>13, <2>1 DEF DeviceTypes
  <2>5. QED
    BY <1>15, <2>2, <2>3, <2>4 DEF IInv
<1>17. CASE left = 0 /\ usb.ep.callback = "do_eeprom_write"
  <2> DEFINE v == [u EXCEPT !.cpu = "eeprom"]
  <2>1. usb' = v /\ chip' = chip
    BY <1>7, <1>13, <1>17
  <2>2. v \in UsbType /\ v.ep = u.ep
    BY <1>13 DEF UsbType
  <2> HIDE DEF v
  <2>3. stage' = "status"
    BY <1>2, <1>5, <1>7, <1>8, <1>10, <1>17
  <2>4. DataStage' /\ Room' /\ Held'
    BY <1>2, <1>3, <1>5, <1>7, <1>8, <1>10, <1>13, <2>1, <2>2, <2>3, Constants
       DEF DataStage, Room, Held
  <2>5. DeviceTypes'
    BY <1>1, <1>7, <1>10, <2>1, <2>2 DEF DeviceTypes
  <2>6. QED
    BY <1>15, <2>4, <2>5 DEF IInv
<1>18. CASE left = 0 /\ usb.ep.callback = "do_buf_write"
  <2>1. usb' = Received(u) /\ chip' = DoBufWrite(chip, f)
    BY <1>7, <1>13, <1>18
  <2>2. usb' \in UsbType /\ usb'.ep.state # "EP_RX" /\ usb'.ep.buf = "zero"
    BY <1>13, <2>1, Ends
  <2>3. stage' = "status"
    BY <1>2, <1>5, <1>7, <1>8, <1>10, <1>18
  <2>4. f.buf.cmd \in Addressed /\ f.size \in 2..255
    <3>1. f.size = request.n + 2 /\ f.size \in 0..255
      BY <1>1, <1>3, <1>10, <1>18 DEF RamType
    <3>2. QED
      BY <1>2, <1>3, <1>8, <1>10, <1>18, <3>1
  <2>5. chip' \in ChipType
    BY <1>1, <1>10, <2>1, <2>4, Written
  <2>6. ram' \in RamType /\ eeprom' \in [Bytes0 -> Contents]
    BY <1>1, <1>7, <1>10
  <2>7. stage' \in Stages \ {"out"}
    BY <2>3 DEF Stages
  <2>8. QED
    BY <1>7, <2>2, <2>5, <2>6, <2>7, QuietKeeps
<1>19. QED
  BY <1>3, <1>5, <1>16, <1>17, <1>18

\* do_eeprom_write() goes on, or ends and lets EP0 send.
LEMMA EepromKeeps ==
    ASSUME IInv, EepromByte
    PROVE  IInv'
<1>1. usb \in UsbType /\ ram \in RamType /\ chip \in ChipType /\ eeprom \in [Bytes0 -> Contents]
  BY DEF IInv, DeviceTypes
<1>2. ram.buf \in BufType /\ ram.buf.val \in Contents /\ ram.size \in 0..255 /\ ram.i \in 0..255
  BY <1>1 DEF RamType, BufType
<1>3. stage \in Stages \ {"out"} /\ UNCHANGED <<stage, chip, program0, reply, address, faults>>
  BY DEF EepromByte, IInv, HostTypes, DataStage
<1>4. CASE ram.i < ram.size
  <2>1. ram' = [ram EXCEPT !.i = ram.i + 1] /\ UNCHANGED usb
    BY <1>4 DEF EepromByte
  <2>2. ram.i + 1 \in 0..255
    BY <1>2, <1>4
  <2>3. ram' \in RamType /\ ram'.buf = ram.buf
    BY <1>1, <2>1, <2>2 DEF RamType
  <2>4. eeprom' \in [Bytes0 -> Contents]
    BY <1>1, <1>2, <1>4 DEF EepromByte
  <2>5. HostTypes' /\ RequestOK'
    BY <1>3, HostSame
  <2>6. DataStage' /\ Room' /\ Held'
    BY <1>3, <2>1, <2>3 DEF IInv, DataStage, Room, Held
  <2>7. QED
    BY <1>1, <1>3, <2>1, <2>3, <2>4, <2>5, <2>6 DEF IInv, DeviceTypes
<1>5. CASE ~(ram.i < ram.size)
  <2> DEFINE u == [usb EXCEPT !.cpu = "runs"]
  <2>1. usb' = Received(u) /\ UNCHANGED <<ram, eeprom>>
    BY <1>5 DEF EepromByte
  <2>2. u \in UsbType
    BY <1>1 DEF UsbType
  <2> HIDE DEF u
  <2>3. usb' \in UsbType /\ usb'.ep.state # "EP_RX" /\ usb'.ep.buf = "zero"
    BY <2>1, <2>2, Ends
  <2>4. QED
    BY <1>1, <1>3, <2>1, <2>3, QuietKeeps
<1>6. QED
  BY <1>4, <1>5

\* ep_tx() of the next packet
LEMMA EpTxKeeps ==
    ASSUME IInv, EpTxNext
    PROVE  IInv'
<1>1. usb \in UsbType /\ ram.buf.val \in Contents /\ stage \in Stages
  BY DEF IInv, DeviceTypes, HostTypes, RamType, BufType
<1>2. usb' = EpTx(usb, ram.buf.val) /\ usb.ep.state = "EP_TX"
      /\ UNCHANGED <<ram, chip, eeprom, program0, stage, reply, address, faults>>
  BY DEF EpTxNext
<1>3. /\ usb' \in UsbType /\ usb'.ep.state \in {"EP_TX", "EP_IDLE"} /\ usb'.ep.buf = usb.ep.buf
  BY <1>1, <1>2, Transmits
<1>4. HostTypes' /\ RequestOK'
  BY <1>1, <1>2, HostSame
<1>5. DataStage' /\ Room' /\ Held'
  BY <1>2, <1>3 DEF IInv, DataStage, Room, Held
<1>6. QED
  BY <1>2, <1>3, <1>4, <1>5 DEF IInv, DeviceTypes

\* The address, and the packets the host takes
LEMMA PacketKeeps ==
    ASSUME IInv, EnableAddr \/ InPacket \/ StatusOut \/ StatusIn
    PROVE  IInv'
<1>1. usb \in UsbType /\ ram \in RamType /\ chip \in ChipType /\ eeprom \in [Bytes0 -> Contents]
      /\ usb.ep \in EpType /\ usb.bank \in Banks \cup {NoBank} /\ usb.udaddr \in {0, 1}
  BY DEF IInv, DeviceTypes, UsbType
<1>2. UNCHANGED <<ram, chip, eeprom, program0, faults>>
  BY DEF EnableAddr, InPacket, StatusOut, StatusIn
<1>3. usb' \in UsbType /\ (usb'.ep = usb.ep \/ usb'.ep.state = "EP_IDLE")
  <2>1. CASE EnableAddr
    BY <1>1, <2>1 DEF EnableAddr, UsbType
  <2>2. CASE InPacket \/ StatusIn
    BY <1>1, <2>2 DEF InPacket, StatusIn, UsbType
  <2>3. CASE StatusOut
    <3> DEFINE e == [usb.ep EXCEPT !.state = "EP_IDLE"]
    <3>1. usb' = [usb EXCEPT !.ep = e]
      BY <1>1, <2>3 DEF StatusOut, UsbType
    <3>2. e \in EpType /\ e.state = "EP_IDLE"
      BY <1>1 DEF EpType, States
    <3> HIDE DEF e
    <3>3. QED
      BY <1>1, <3>1, <3>2 DEF UsbType
  <2>4. QED
    BY <2>1, <2>2, <2>3
<1>4. reply' \in [vals : SUBSET Contents, n : Nat]
  <2>1. reply \in [vals : SUBSET Contents, n : Nat]
    BY DEF IInv, HostTypes
  <2>2. CASE InPacket
    <3> DEFINE some == reply.vals \cup (IF usb.bank.n = 0 THEN {} ELSE {usb.bank.val})
               n == reply.n + usb.bank.n
    <3>1. usb.bank \in Banks
      BY <1>1, <2>2 DEF InPacket
    <3>2. usb.bank.val \in Contents /\ usb.bank.n \in 0..EP_SIZE
      BY <3>1 DEF Banks
    <3>3. reply.vals \subseteq Contents /\ reply.n \in Nat
      BY <2>1
    <3>4. some \in SUBSET Contents /\ n \in Nat
      BY <3>2, <3>3, Constants
    <3>5. reply' = [vals |-> some, n |-> n]
      BY <2>2 DEF InPacket
    <3> HIDE DEF some, n
    <3>6. QED
      BY <3>4, <3>5
  <2>3. CASE ~InPacket
    BY <2>1, <2>3 DEF EnableAddr, StatusOut, StatusIn
  <2>4. QED
    BY <2>2, <2>3
<1>5. stage' \in Stages /\ (stage' = "out" => stage = "out" /\ EnableAddr)
      /\ address' \in BOOLEAN
  BY DEF EnableAddr, InPacket, StatusOut, StatusIn, Stages, IInv, HostTypes
<1>6. HostTypes' /\ RequestOK'
  BY <1>2, <1>4, <1>5 DEF IInv, HostTypes, RequestOK, program0
<1>7. DataStage'
  <2>1. CASE EnableAddr
    <3>1. usb'.ep = usb.ep /\ usb'.cpu = "runs" /\ stage' = stage
      BY <1>1, <2>1 DEF EnableAddr, UsbType
    <3>2. QED
      BY <1>2, <3>1 DEF IInv, DataStage, program0
  <2>2. CASE ~EnableAddr
    BY <1>5, <2>2 DEF DataStage
  <2>3. QED
    BY <2>1, <2>2
<1>8. Room' /\ Held'
  BY <1>2, <1>3 DEF IInv, Room, Held
<1>9. QED
  BY <1>1, <1>2, <1>3, <1>6, <1>7, <1>8 DEF IInv, DeviceTypes
-----------------------------------------------------------------------------
(* What goes wrong *)

\* The host gives up, or another program begins: the device does not notice.
LEMMA HostGoesKeeps ==
    ASSUME IInv, Fail \/ ClearError \/ NewProgram
    PROVE  IInv'
<1>1. HostTypes' /\ (stage' # "out" \/ stage' = stage)
  BY DEF Fail, ClearError, NewProgram, IInv, HostTypes, Stages
<1>2. UNCHANGED <<usb, ram, chip, eeprom, request>>
  BY DEF Fail, ClearError, NewProgram
<1>3. QED
  BY <1>1, <1>2 DEF IInv, DeviceTypes, RequestOK, DataStage, Room, Held

LEMMA ResetKeeps ==
    ASSUME IInv, EndOfReset \/ Restart
    PROVE  IInv'
<1>1. ram \in RamType /\ chip \in ChipType /\ eeprom \in [Bytes0 -> Contents]
  BY DEF IInv, DeviceTypes
<1>2. usb' \in UsbType /\ usb'.ep.state = "EP_IDLE"
  <2>1. UsbReset.ep.state = "EP_IDLE"
    BY DEF UsbReset, IdleEp, Opened
  <2>2. QED
    BY <2>1, ResetTypes DEF EndOfReset, Restart
<1>3. ram' \in RamType
  <2>1. CASE EndOfReset
    BY <1>1, <2>1 DEF EndOfReset, RamType
  <2>2. CASE Restart
    BY <2>2, ResetTypes DEF Restart
  <2>3. QED
    BY <2>1, <2>2
<1>4. chip' \in ChipType
  <2>1. CASE EndOfReset
    BY <1>1, <2>1 DEF EndOfReset
  <2>2. CASE Restart
    BY <1>1, <2>2, ChipResetType DEF Restart, ChipType
  <2>3. QED
    BY <2>1, <2>2
<1>5. HostTypes'
  <2>1. faults' \in 0..Faults
    BY Constants DEF EndOfReset, Restart, IInv, HostTypes
  <2>2. stage' = "idle" /\ address' = FALSE /\ failed' \in BOOLEAN
        /\ UNCHANGED <<lib, call, reply, calls>>
    BY DEF EndOfReset, Restart, IInv, HostTypes
  <2>3. QED
    BY <2>1, <2>2 DEF IInv, HostTypes, Stages
<1>6. stage' = "idle" /\ request' = request /\ eeprom' = eeprom
  BY DEF EndOfReset, Restart
<1>7. RequestOK' /\ DataStage' /\ Room' /\ Held'
  BY <1>2, <1>6 DEF IInv, RequestOK, DataStage, Room, Held
<1>8. QED
  BY <1>1, <1>2, <1>3, <1>4, <1>5, <1>6, <1>7 DEF IInv, DeviceTypes

LEMMA ArrivalKeeps ==
    ASSUME IInv, FrameArrives
    PROVE  IInv'
<1>1. PICK n \in Lengths, val \in Values : chip' = [chip EXCEPT !.frame = [val |-> val, n |-> n]]
  BY DEF FrameArrives
<1>2. chip \in ChipType
  BY DEF IInv, DeviceTypes
<1>3. n \in 0..255 /\ val \in Contents
  BY Constants
<1>4. [val |-> val, n |-> n] \in FrameType
  BY <1>3 DEF FrameType
<1>5. chip' \in ChipType
  BY <1>1, <1>2, <1>4 DEF ChipType
<1>6. UNCHANGED <<usb, ram, eeprom, program0, stage, reply, address, faults>>
  BY DEF FrameArrives
<1>7. stage' \in Stages
  BY <1>6 DEF IInv, HostTypes
<1>8. HostTypes' /\ RequestOK'
  BY <1>6, <1>7, HostSame
<1>9. QED
  BY <1>5, <1>6, <1>8 DEF IInv, DeviceTypes, DataStage, Room, Held, program0

LEMMA InvNext == IInv /\ [UsbNext]_usbVars => IInv'
<1> SUFFICES ASSUME IInv, [UsbNext]_usbVars PROVE IInv'
  OBVIOUS
<1>1. CASE \E c \in CallSet : Begin(c)
  BY <1>1, BeginKeeps
<1>2. CASE HandleSetup
  BY <1>2, SetupKeeps
<1>3. CASE EpRx
  BY <1>3, EpRxKeeps
<1>4. CASE EepromByte
  BY <1>4, EepromKeeps
<1>5. CASE EpTxNext
  BY <1>5, EpTxKeeps
<1>6. CASE EnableAddr \/ InPacket \/ StatusOut \/ StatusIn
  BY <1>6, PacketKeeps
<1>7. CASE Fail \/ ClearError \/ NewProgram
  BY <1>7, HostGoesKeeps
<1>8. CASE EndOfReset \/ Restart
  BY <1>8, ResetKeeps
<1>9. CASE FrameArrives
  BY <1>9, ArrivalKeeps
<1>10. CASE UNCHANGED usbVars
  BY <1>10 DEF usbVars, program0, IInv, HostTypes, DeviceTypes, RequestOK, DataStage, Room, Held
<1>11. QED
  BY <1>1, <1>2, <1>3, <1>4, <1>5, <1>6, <1>7, <1>8, <1>9, <1>10 DEF UsbNext

\* usb_io() never finds EP0 busy, no transfer leaves the buffer, and every variable
\* keeps its type, wherever the last transfer was cut off.
THEOREM BufferIsSafe == UsbSpec => []Ep0Safe
<1>1. IInv => Ep0Safe
  BY IInvIsSafe
<1>2. QED
  BY <1>1, InvInit, InvNext, PTL DEF UsbSpec
-----------------------------------------------------------------------------
(* What a call has done when it returns: the strengthening of               *)
(* CallTookEffect, stage by stage of the control transfer                    *)

Reads == {"reg_read", "sram_read", "buf_read", "set_clkm", "build", "eui_read",
          "get_descriptor"}
Loads == {"sram_write", "buf_write", "eui_write"}

\* What a call that reads is for, and how much of it there is.
Value ==
    CASE call.op = "reg_read" -> chip.reg
      [] call.op = "sram_read" -> chip.sram
      [] call.op = "buf_read" -> chip.shown.val
      [] call.op = "set_clkm" -> "id"
      [] call.op = "build" -> "build"
      [] call.op = "eui_read" -> InEeprom
      [] call.op = "get_descriptor" -> "descriptor"
Amount ==
    CASE call.op \in {"reg_read", "sram_read"} -> 1
      [] call.op = "buf_read" ->
            IF lib = "usb" THEN Least(chip.shown.n + 1, call.n) ELSE SRAM_SIZE
      [] call.op = "set_clkm" -> 3
      [] call.op = "build" -> BUILD_LEN
      [] call.op = "eui_read" -> EUI64_LEN
      [] call.op = "get_descriptor" -> Least(call.n, DESCR_SIZE)

\* What the other calls but eui_write do once the firmware has all of their data.
Effect ==
    /\ call.op = "reg_write" => chip.reg = call.val
    /\ call.op = "sram_write" => chip.sram = call.val
    /\ call.op = "buf_write" => chip.frame = [val |-> call.val, n |-> call.n]
    /\ call.op = "reset_rf" => chip.reg = "reset"
    /\ call.op = "slp_tr" => chip.pulse
    /\ call.op = "set_address" => usb.udaddr = 1
    /\ call.op = "set_interface" =>
          ram.user_setup = (IF call.n = 1 THEN "my_dfu_setup" ELSE "my_setup")
    /\ call.op = "detach" => ram.dfu = "appDETACH"

\* The request is the one the driver makes of the call.
Asked ==
    InTransfer \/ stage = "done" => call \in CallSet /\ request = RequestOf(call)

\* An eeprom_write of an earlier transfer is over when EP0 takes the next SETUP.
Calm ==
    /\ stage \in {"in", "statusout", "done"} => usb.cpu # "eeprom"
    /\ stage = "status" /\ usb.cpu = "eeprom" => call.op = "eui_write"

\* do_eeprom_write() goes as far as "size", and nothing sets it for EUI64_WRITE: it is
\* what the BUILD before has left.
Sized ==
    \/ call.op = "eui_write" /\ stage \in {"setup", "out", "status"}
    \/ call.op = "build" /\ stage \in {"in", "statusout", "done"}
    => ram.size = BUILD_LEN

Unread == stage = "setup" => reply = NoReply

\* What the host has got, what is in the bank and what EP0 still has to send make up
\* the answer.
Source == IF usb.ep.buf = "buf" THEN ram.buf.val ELSE usb.ep.buf
ToCome == usb.bank.n + (IF usb.ep.state = "EP_TX" THEN usb.ep.left ELSE 0)
Coming ==
    stage = "in" =>
        /\ call.op \in Reads
        /\ usb.ep.state # "EP_RX"
        /\ Source = Value
        /\ usb.bank # NoBank =>
              /\ usb.bank.val = Value
              /\ usb.bank.n < EP_SIZE => usb.ep.state = "EP_IDLE"
        /\ reply.n + ToCome = Amount
        /\ reply.vals = IF reply.n = 0 THEN {} ELSE {Value}
Got == stage = "statusout" => call.op \in Reads /\ IsReply(Value, Amount)

\* The data goes where the call wants it.
Going ==
    stage = "out" =>
        /\ call.op \in Loads
        /\ usb.bank = NoBank
        /\ usb.ep.callback = IF call.op = "eui_write" THEN "do_eeprom_write" ELSE "do_buf_write"
        /\ call.op = "sram_write" => ram.buf.cmd = "sram"
        /\ call.op = "buf_write" => ram.buf.cmd = "frame"

\* The EEPROM has the first n bytes; all of them when EP0 may send the empty packet.
Burned(n) == \A b \in Bytes0 : b < n => eeprom[b] = call.val
Burning ==
    IF usb.cpu = "eeprom"
    THEN usb.bank = NoBank /\ ram.buf.val = call.val /\ Burned(ram.i)
    ELSE Burned(EUI64_LEN)

\* The empty packet may go: everything has been done.
Carried ==
    stage = "status" =>
        /\ call.op \notin Reads \cup {"test_mode"}
        /\ call.op = "reset" => usb.cpu = "loops" /\ usb.bank = NoBank
        /\ call.op = "eui_write" => Burning
        /\ Effect

EffectInv ==
    Asked /\ Calm /\ Sized /\ Unread /\ Coming /\ Got /\ Going /\ Carried /\ CallTookEffect
-----------------------------------------------------------------------------
(* The driver: which request a call becomes, and what it says *)

\* One line per call and driver.
Asks(c, r) ==
    \/ c.op = "reg_write" /\ r = Setup0("REG_WRITE", "reg", c.val, 0)
    \/ c.op = "reg_write" /\ r = Setup0("SPI_WRITE", "reg", c.val, 0)
    \/ c.op = "reg_read" /\ r = Setup0("REG_READ", "reg", "zero", 1)
    \/ c.op = "reg_read" /\ r = Setup0("SPI_READ1", "reg", "zero", 1)
    \/ c.op = "sram_write" /\ r = Setup0("SRAM_WRITE", "sram", "zero", 1)
    \/ c.op = "sram_write" /\ r = Setup0("SPI_WRITE", "sram", "zero", 1)
    \/ c.op = "sram_read" /\ r = Setup0("SRAM_READ", "sram", "zero", 1)
    \/ c.op = "sram_read" /\ r = Setup0("SPI_READ2", "sram", "zero", 1)
    \/ c.op = "buf_write" /\ r = Setup0("BUF_WRITE", "frame", "zero", c.n)
    \/ c.op = "buf_write" /\ r = Setup0("SPI_WRITE", "frame", "zero", c.n)
    \/ c.op = "buf_read" /\ lib = "usb" /\ r = Setup0("BUF_READ", "frame", "zero", c.n)
    \/ c.op = "buf_read" /\ lib # "usb" /\ r = Setup0("SPI_READ1", "frame", "zero", SRAM_SIZE)
    \/ c.op = "reset_rf" /\ r = Setup0("RF_RESET", "none", "zero", 0)
    \/ c.op = "slp_tr" /\ r = Setup0("SLP_TR", "none", "zero", 0)
    \/ c.op = "reset" /\ r = Setup0("RESET", "none", "zero", 0)
    \/ c.op = "test_mode" /\ r = Setup0("TEST", "none", "zero", 0)
    \/ c.op = "set_clkm" /\ r = Setup0("ID", "none", "zero", 3)
    \/ c.op = "build" /\ r = Setup0("BUILD", "none", "zero", 256)
    \/ c.op = "eui_read" /\ r = Setup0("EUI64_READ", "none", "zero", EUI64_LEN)
    \/ c.op = "eui_write" /\ r = Setup0("EUI64_WRITE", "none", "zero", EUI64_LEN)
    \/ c.op = "detach" /\ r = Setup0("DFU_DETACH", "none", "zero", 0)
    \/ c.op = "set_address" /\ r = Setup0("SET_ADDRESS", "none", "zero", 0)
    \/ c.op = "set_interface" /\ r = Setup0("SET_INTERFACE", "none", "zero", 0)
    \/ c.op = "get_descriptor" /\ r = Setup0("GET_DESCRIPTOR", "none", "zero", c.n)

LEMMA Requests ==
    ASSUME NEW c \in CallSet
    PROVE  Asks(c, RequestOf(c))
<1>1. CASE c.op \in Access /\ lib = "usb"
  <2>1. RequestOf(c) = ByCommand(c)
    BY <1>1 DEF RequestOf, Access
  <2>2. QED
    BY <1>1, <2>1 DEF Asks, ByCommand, Access
<1>2. CASE c.op \in Access /\ lib # "usb"
  <2>1. RequestOf(c) = BySpi(c)
    BY <1>2 DEF RequestOf, Access
  <2>2. QED
    BY <1>2, <2>1 DEF Asks, BySpi, Access
<1>3. CASE c.op \in {"reset_rf", "slp_tr", "reset", "test_mode"}
  <2>1. RequestOf(c) = ByCommon(c)
    BY <1>3 DEF RequestOf, Access
  <2>2. QED
    BY <1>3, <2>1 DEF Asks, ByCommon
<1>4. CASE c.op = "set_clkm"
  <2>1. RequestOf(c) = SetClkm(c)
    BY <1>4 DEF RequestOf, Access
  <2>2. QED
    BY <1>4, <2>1 DEF Asks, SetClkm
<1>5. CASE c.op \in {"build", "eui_read", "eui_write"}
  <2>1. RequestOf(c) = ByTool(c)
    BY <1>5 DEF RequestOf, Access
  <2>2. QED
    BY <1>5, <2>1 DEF Asks, ByTool
<1>6. CASE c.op \in {"detach", "set_address", "set_interface", "get_descriptor"}
  <2>1. RequestOf(c) = ByKernel(c)
    BY <1>6 DEF RequestOf, Access
  <2>2. QED
    BY <1>6, <2>1 DEF Asks, ByKernel
<1>7. c.op \in Plain \cup {"reg_write", "sram_write", "eui_write", "buf_write", "buf_read",
                         "get_descriptor", "set_interface"}
  BY CallTypes
<1>8. QED
  BY <1>1, <1>2, <1>3, <1>4, <1>5, <1>6, <1>7 DEF Access, Plain

\* What the firmware may conclude from the name of a request that reads,
LEMMA ReadMeans ==
    ASSUME NEW c, NEW r, Asks(c, r)
    PROVE  /\ r.name \in {"REG_READ"} => c.op = "reg_read" /\ r.n = 1
           /\ r.name \in {"SRAM_READ", "SPI_READ2"} => c.op = "sram_read" /\ r.n = 1
           /\ r.name = "SPI_READ1" /\ r.cmd = "reg" => c.op = "reg_read" /\ r.n = 1
           /\ r.name = "SPI_READ1" /\ r.cmd = "frame" =>
                 c.op = "buf_read" /\ lib # "usb" /\ r.n = SRAM_SIZE
           /\ r.name = "BUF_READ" => c.op = "buf_read" /\ lib = "usb" /\ r.n = c.n
           /\ r.name = "ID" => c.op = "set_clkm" /\ r.n = 3
           /\ r.name = "BUILD" => c.op = "build" /\ r.n = 256
           /\ r.name = "EUI64_READ" => c.op = "eui_read" /\ r.n = EUI64_LEN
           /\ r.name = "GET_DESCRIPTOR" => c.op = "get_descriptor" /\ r.n = c.n
  BY DEF Asks, Setup0

\* that writes,
LEMMA WriteMeans ==
    ASSUME NEW c, NEW r, Asks(c, r)
    PROVE  /\ r.name = "REG_WRITE" => c.op = "reg_write" /\ r.val = c.val /\ r.n = 0
           /\ r.name = "SRAM_WRITE" => c.op = "sram_write" /\ r.cmd = "sram" /\ r.n = 1
           /\ r.name = "BUF_WRITE" => c.op = "buf_write" /\ r.cmd = "frame" /\ r.n = c.n
           /\ r.name = "SPI_WRITE" =>
                 \/ c.op = "reg_write" /\ r.cmd = "reg" /\ r.val = c.val /\ r.n = 0
                 \/ c.op = "sram_write" /\ r.cmd = "sram" /\ r.n = 1
                 \/ c.op = "buf_write" /\ r.cmd = "frame" /\ r.n = c.n
           /\ r.name = "EUI64_WRITE" => c.op = "eui_write" /\ r.n = EUI64_LEN
           /\ c.op = "buf_write" => r.n = c.n
  BY DEF Asks, Setup0

\* and of one that has no data.
LEMMA CommandMeans ==
    ASSUME NEW c, NEW r, Asks(c, r)
    PROVE  /\ r.name = "RF_RESET" => c.op = "reset_rf" /\ r.n = 0
           /\ r.name = "SLP_TR" => c.op = "slp_tr" /\ r.n = 0
           /\ r.name = "RESET" => c.op = "reset"
           /\ r.name = "DFU_DETACH" => c.op = "detach" /\ r.n = 0
           /\ r.name = "SET_ADDRESS" => c.op = "set_address" /\ r.n = 0
           /\ r.name = "SET_INTERFACE" => c.op = "set_interface" /\ r.n = 0
  BY DEF Asks, Setup0

\* The host asks for something, and for no less than the answer.
LEMMA Enough ==
    ASSUME NEW c \in CallSet, c.op = "get_descriptor" \/ c.op = "buf_read"
    PROVE  c.n \in 1..255
<1>1. CASE c.op = "get_descriptor"
  BY <1>1 DEF CallSet, Plain
<1>2. CASE c.op = "buf_read"
  BY <1>2, Constants DEF CallSet, Plain
<1>3. QED
  BY <1>1, <1>2

LEMMA AmountFits ==
    ASSUME IInv, call \in CallSet, Asks(call, request), call.op \in Reads
    PROVE  Amount \in 1..request.n
<1>1. chip.shown.n \in 0..255
  BY DEF IInv, DeviceTypes, ChipType, FrameType
<1>2. CASE call.op \in {"reg_read", "sram_read", "set_clkm", "build", "eui_read"}
  <2>1. CASE call.op \in {"reg_read", "sram_read"}
    BY <2>1 DEF Amount, Asks, Setup0
  <2>2. CASE call.op = "set_clkm"
    BY <2>2 DEF Amount, Asks, Setup0
  <2>3. CASE call.op = "build"
    BY <2>3, Constants DEF Amount, Asks, Setup0
  <2>4. CASE call.op = "eui_read"
    BY <2>4, Constants DEF Amount, Asks, Setup0
  <2>5. QED
    BY <1>2, <2>1, <2>2, <2>3, <2>4
<1>3. CASE call.op = "buf_read"
  <2>1. call.n \in 1..255
    BY <1>3, Enough
  <2>2. Amount = IF lib = "usb" THEN Least(chip.shown.n + 1, call.n) ELSE SRAM_SIZE
    BY <1>3 DEF Amount
  <2>3. \/ lib = "usb" /\ request.n = call.n
        \/ lib # "usb" /\ request.n = SRAM_SIZE
    BY <1>3 DEF Asks, Setup0
  <2>4. QED
    BY <1>1, <2>1, <2>2, <2>3, Constants DEF Least
<1>4. CASE call.op = "get_descriptor"
  <2>1. call.n \in 1..255 /\ request.n = call.n
    <3>1. request.n = call.n
      BY <1>4 DEF Asks, Setup0
    <3>2. QED
      BY <1>4, <3>1, Enough
  <2>2. Amount = Least(call.n, DESCR_SIZE)
    BY <1>4 DEF Amount
  <2>3. QED
    BY <2>1, <2>2, Constants DEF Least
<1>5. QED
  BY <1>2, <1>3, <1>4 DEF Reads
-----------------------------------------------------------------------------
(* EP0 and the data: what each operation leaves in the bank and to send *)

\* ep_tx() with an empty bank: a packet of what is to be sent, and the rest.
LEMMA Loaded ==
    ASSUME NEW u \in UsbType, NEW val \in Contents,
           u.cpu = "runs", u.ep.state = "EP_TX", u.bank = NoBank
    PROVE  /\ EpTx(u, val).ep = AfterPacket(u.ep)
           /\ EpTx(u, val).bank = [val |-> IF u.ep.buf = "buf" THEN val ELSE u.ep.buf,
                                  n |-> PacketSize(u.ep)]
           /\ EpTx(u, val).cpu \in {"runs", "address"}
           /\ EpTx(u, val).udaddr = u.udaddr
<1> DEFINE e == AfterPacket(u.ep)
           b == [val |-> IF u.ep.buf = "buf" THEN val ELSE u.ep.buf, n |-> PacketSize(u.ep)]
           c == IF EpIdle(e) /\ e.callback = "enable_addr" THEN "address" ELSE "runs"
<1>1. EpTx(u, val) = [u EXCEPT !.ep = e, !.bank = b, !.cpu = c]
  BY DEF EpTx
<1>2. c \in {"runs", "address"}
  OBVIOUS
<1> HIDE DEF e, b, c
<1>3. /\ EpTx(u, val).ep = e /\ EpTx(u, val).bank = b /\ EpTx(u, val).cpu = c
      /\ EpTx(u, val).udaddr = u.udaddr
  BY <1>1 DEF UsbType
<1>4. QED
  BY <1>2, <1>3 DEF e, b

\* A packet that is short ends the transfer, and none is lost.
LEMMA Split ==
    ASSUME NEW ep \in EpType, ep.state = "EP_TX"
    PROVE  /\ AfterPacket(ep).state \in {"EP_TX", "EP_IDLE"}
           /\ PacketSize(ep) < EP_SIZE => AfterPacket(ep).state = "EP_IDLE"
           /\ AfterPacket(ep).buf = ep.buf
           /\ PacketSize(ep) + (IF AfterPacket(ep).state = "EP_TX" THEN AfterPacket(ep).left ELSE 0)
                 = ep.left
<1>1. ep.left \in 0..255
  BY DEF EpType
<1>2. AfterPacket(ep).left = ep.left - PacketSize(ep)
      /\ AfterPacket(ep).state = (IF PacketSize(ep) = EP_SIZE THEN ep.state ELSE "EP_IDLE")
      /\ AfterPacket(ep).buf = ep.buf
  BY DEF AfterPacket, EpType
<1>3. PacketSize(ep) = IF ep.left > 64 THEN 64 ELSE ep.left
  BY DEF PacketSize, EP_SIZE
<1>4. QED
  BY <1>1, <1>2, <1>3 DEF EP_SIZE

\* Whatever ep_tx() does, the CPU does not end in do_eeprom_write().
LEMMA StillRuns ==
    ASSUME NEW u \in UsbType, NEW val \in Contents, u.cpu = "runs"
    PROVE  EpTx(u, val).cpu \in {"runs", "address"} /\ EpTx(u, val).udaddr = u.udaddr
<1>1. CASE u.ep.state # "EP_TX" \/ u.bank # NoBank
  BY <1>1 DEF EpTx
<1>2. CASE ~(u.ep.state # "EP_TX" \/ u.bank # NoBank)
  BY <1>2, Loaded
<1>3. QED
  BY <1>1, <1>2

\* A SETUP leaves the bank empty and the rest of EP0 as it is.
LEMMA Empties ==
    ASSUME NEW u \in UsbType
    PROVE  Cancelled(u).bank = NoBank /\ Cancelled(u).udaddr = u.udaddr
<1> DEFINE e == [u.ep EXCEPT !.state = "EP_IDLE"]
<1>1. Cancelled(u) = [u EXCEPT !.bank = NoBank, !.ep = e]
  BY DEF Cancelled, UsbType
<1> HIDE DEF e
<1>2. QED
  BY <1>1 DEF UsbType

\* usb_io() changes nothing else.
LEMMA OpensOnly ==
    ASSUME NEW u \in UsbType, EpIdle(u.ep), NEW state \in States, NEW from \in Sources,
           NEW n \in 0..255, NEW callback \in Callbacks
    PROVE  /\ UsbIo(u, state, from, n, callback).bank = u.bank
           /\ UsbIo(u, state, from, n, callback).cpu = u.cpu
           /\ UsbIo(u, state, from, n, callback).udaddr = u.udaddr
  BY DEF UsbIo, UsbType

\* A request is accepted: the CPU goes on.
LEMMA AcceptRuns ==
    ASSUME NEW u \in UsbType, NEW val \in Contents, Accept(u, val), u.cpu = "runs"
    PROVE  usb'.cpu \in {"runs", "address"} /\ usb'.udaddr = u.udaddr
<1> DEFINE w == UsbIo(u, "EP_TX", "zero", 0, "none")
           v == IF request.name \notin FromDev /\ EpIdle(u.ep) THEN w ELSE u
<1>1. usb' = EpTx(v, val)
  BY DEF Accept
<1>2. EpIdle(u.ep) => w \in UsbType /\ w.cpu = "runs" /\ w.udaddr = u.udaddr
  <2>1. "EP_TX" \in States /\ "zero" \in Sources /\ 0 \in 0..255 /\ "none" \in Callbacks
    BY DEF States, Sources, Callbacks
  <2>2. QED
    BY <2>1, Opens, OpensOnly
<1>3. v = u \/ (v = w /\ EpIdle(u.ep))
  OBVIOUS
<1> HIDE DEF v, w
<1>4. v \in UsbType /\ v.cpu = "runs" /\ v.udaddr = u.udaddr
  BY <1>2, <1>3
<1>5. QED
  BY <1>1, <1>4, StillRuns

\* usb_send() puts the first packet of n bytes into the bank.
LEMMA SendLoads ==
    ASSUME usb \in UsbType, NEW from \in Sources, NEW n \in 0..255, NEW val \in Contents,
           UsbSend(from, n, val), usb.cpu = "runs", request.name \in FromDev, request.n # 0
    PROVE  /\ stage' = "in" /\ UNCHANGED <<program0, reply, address, faults>>
           /\ usb'.cpu \in {"runs", "address"}
           /\ usb'.ep.state \in {"EP_TX", "EP_IDLE"} /\ usb'.ep.buf = from
           /\ usb'.bank.val = IF from = "buf" THEN val ELSE from
           /\ usb'.bank.n < EP_SIZE => usb'.ep.state = "EP_IDLE"
           /\ ToCome' = n
<1> DEFINE v == Cancelled(usb)
           u == UsbIo(v, "EP_TX", from, n, "none")
<1>1. v \in UsbType /\ EpIdle(v.ep) /\ v.cpu = "runs" /\ v.bank = NoBank
  BY Cancels, Empties
<1>2. "EP_TX" \in States /\ "none" \in Callbacks
  BY DEF States, Callbacks
<1> HIDE DEF v
<1>3. /\ u \in UsbType /\ u.ep = Opened("EP_TX", from, n, "none")
      /\ u.cpu = "runs" /\ u.bank = NoBank
  <2>1. u \in UsbType /\ u.ep = Opened("EP_TX", from, n, "none")
    BY <1>1, <1>2, Opens
  <2>2. u.bank = v.bank /\ u.cpu = v.cpu
    BY <1>1, <1>2, OpensOnly
  <2> HIDE DEF u
  <2>3. QED
    BY <1>1, <2>1, <2>2
<1>4. Accept(u, val)
  BY DEF UsbSend, v
<1> HIDE DEF u
<1>5. u.ep.state = "EP_TX" /\ u.ep.buf = from /\ u.ep.left = n /\ u.ep \in EpType
  BY <1>3 DEF Opened, UsbType
<1>6. usb' = EpTx(u, val) /\ stage' = "in" /\ UNCHANGED <<program0, reply, address, faults>>
  BY <1>4, <1>5 DEF Accept, EpIdle
<1>7. /\ usb'.ep = AfterPacket(u.ep)
      /\ usb'.bank = [val |-> IF u.ep.buf = "buf" THEN val ELSE u.ep.buf, n |-> PacketSize(u.ep)]
      /\ usb'.cpu \in {"runs", "address"}
  BY <1>3, <1>5, <1>6, Loaded
<1>8. usb'.bank.n = PacketSize(u.ep) /\ usb'.bank.val = IF from = "buf" THEN val ELSE from
  BY <1>5, <1>7
<1>9. QED
  BY <1>5, <1>6, <1>7, <1>8, Split DEF ToCome

\* usb_recv() opens a transfer with an empty bank.
LEMMA ReceiveOpens ==
    ASSUME usb \in UsbType, NEW n \in 0..255, NEW callback \in Callbacks,
           UsbRecv(n, callback), request.n # 0, request.name \notin FromDev
    PROVE  /\ stage' = "out" /\ UNCHANGED <<program0, reply, address, faults>>
           /\ usb'.bank = NoBank /\ usb'.ep.callback = callback
<1> DEFINE v == Cancelled(usb)
           u == UsbIo(v, "EP_RX", "buf", n, callback)
<1>1. v \in UsbType /\ EpIdle(v.ep) /\ v.bank = NoBank
  BY Cancels, Empties
<1>2. "EP_RX" \in States /\ "buf" \in Sources
  BY DEF States, Sources
<1> HIDE DEF v
<1>3. u \in UsbType /\ u.ep = Opened("EP_RX", "buf", n, callback) /\ u.bank = NoBank
  BY <1>1, <1>2, Opens, OpensOnly
<1>4. Accept(u, "zero")
  BY DEF UsbRecv, v
<1> HIDE DEF u
<1>5. u.ep.state = "EP_RX" /\ u.ep.callback = callback /\ ~EpIdle(u.ep)
  BY <1>3 DEF Opened, EpIdle
<1>6. usb' = EpTx(u, "zero") /\ stage' = "out" /\ UNCHANGED <<program0, reply, address, faults>>
  BY <1>4, <1>5 DEF Accept
<1>7. usb' = u
  BY <1>3, <1>5, <1>6, Transmits, Constants
<1>8. QED
  BY <1>3, <1>5, <1>6, <1>7

\* After the last packet, too, the CPU goes on.
LEMMA ReceivedRuns ==
    ASSUME NEW u \in UsbType, u.cpu = "runs"
    PROVE  Received(u).cpu \in {"runs", "address"} /\ Received(u).udaddr = u.udaddr
<1> DEFINE e == [u.ep EXCEPT !.state = "EP_IDLE"]
           v == [u EXCEPT !.ep.state = "EP_IDLE"]
           w == UsbIo(v, "EP_TX", "zero", 0, "none")
<1>1. u.ep \in EpType
  BY DEF UsbType
<1>2. e \in EpType /\ e.state = "EP_IDLE"
  BY <1>1 DEF EpType, States
<1>3. v = [u EXCEPT !.ep = e]
  BY DEF UsbType
<1> HIDE DEF e
<1>4. v \in UsbType /\ EpIdle(v.ep) /\ v.cpu = "runs" /\ v.udaddr = u.udaddr
  BY <1>2, <1>3 DEF UsbType, EpIdle
<1> HIDE DEF v
<1>5. "EP_TX" \in States /\ "zero" \in Sources /\ 0 \in 0..255 /\ "none" \in Callbacks
  BY DEF States, Sources, Callbacks
<1>6. w \in UsbType /\ w.cpu = "runs" /\ w.udaddr = u.udaddr
  BY <1>4, <1>5, Opens, OpensOnly
<1>7. Received(u) = EpTx(w, "zero")
  BY DEF Received, v
<1> HIDE DEF w
<1>8. QED
  BY <1>6, <1>7, StillRuns, Constants
-----------------------------------------------------------------------------
(* How a SETUP goes into the next stage *)

\* What a handler changes only in EP0 and in buf leaves the answer what it is.
LEMMA SameAnswer ==
    ASSUME UNCHANGED <<call, lib, eeprom>>,
           chip'.reg = chip.reg, chip'.sram = chip.sram, chip'.shown = chip.shown
    PROVE  call.op \in Reads => Value' = Value /\ Amount' = Amount
<1>1. InEeprom' = InEeprom
  BY DEF InEeprom
<1>2. call.op \in Reads => Value' = Value
  BY <1>1 DEF Value, Reads
<1>3. call.op \in Reads => Amount' = Amount
  BY DEF Amount, Reads
<1>4. QED
  BY <1>2, <1>3

\* A handler leaves the host's call alone.
LEMMA StillAsked ==
    ASSUME Asked, InTransfer, UNCHANGED program0
    PROVE  Asked' /\ call' = call /\ request' = request /\ lib' = lib
<1>1. UNCHANGED <<call, request, lib>>
  BY DEF program0
<1>2. RequestOf(call)' = RequestOf(call)
  BY <1>1 DEF RequestOf, ByCommand, BySpi, ByCommon, SetClkm, ByTool, ByKernel
<1>3. call \in CallSet /\ request = RequestOf(call)
  BY DEF Asked
<1>4. QED
  BY <1>1, <1>2, <1>3 DEF Asked

\* A request that reads: EP0 sends what the call is for, and as much of it.
LEMMA AnswerComes ==
    ASSUME IInv, EffectInv, stage = "setup", usb.cpu = "runs",
           NEW from \in Sources, NEW n \in 0..255, NEW val \in Contents,
           UsbSend(from, n, val), request.name \in FromDev, request.n # 0,
           call.op \in Reads,
           (Value' = IF from = "buf" THEN val ELSE from), Amount' = n,
           from = "buf" => ram'.buf.val = val,
           call.op = "build" => ram'.size = BUILD_LEN
    PROVE  EffectInv'
<1>1. usb \in UsbType
  BY DEF IInv, DeviceTypes
<1>2. /\ stage' = "in" /\ UNCHANGED <<program0, reply, address, faults>>
      /\ usb'.cpu \in {"runs", "address"}
      /\ usb'.ep.state \in {"EP_TX", "EP_IDLE"} /\ usb'.ep.buf = from
      /\ usb'.bank.val = (IF from = "buf" THEN val ELSE from)
      /\ usb'.bank.n < EP_SIZE => usb'.ep.state = "EP_IDLE"
      /\ ToCome' = n
  BY <1>1, SendLoads
<1>3. Asked' /\ call' = call
  BY <1>2, StillAsked DEF EffectInv, InTransfer
<1>4. Source' = Value'
  BY <1>2 DEF Source
<1>5. reply' = NoReply
  BY <1>2 DEF EffectInv, Unread
<1>6. Coming'
  <2>1. reply'.n = 0 /\ reply'.vals = {}
    BY <1>5 DEF NoReply
  <2>2. reply'.n + ToCome' = Amount'
    BY <1>2, <2>1
  <2>3. QED
    BY <1>2, <1>3, <1>4, <2>1, <2>2 DEF Coming
<1>7. Calm' /\ Sized' /\ Unread' /\ Got' /\ Going' /\ Carried' /\ CallTookEffect'
  BY <1>2, <1>3 DEF Calm, Sized, Unread, Got, Going, Carried, CallTookEffect
<1>8. QED
  BY <1>3, <1>6, <1>7 DEF EffectInv

\* A request that writes: EP0 waits for the data of the call.
LEMMA DataGoes ==
    ASSUME IInv, EffectInv, stage = "setup",
           NEW n \in 0..255, NEW callback \in Callbacks,
           UsbRecv(n, callback), request.name \notin FromDev, request.n # 0,
           call.op \in Loads,
           callback = (IF call.op = "eui_write" THEN "do_eeprom_write" ELSE "do_buf_write"),
           call.op = "sram_write" => ram'.buf.cmd = "sram",
           call.op = "buf_write" => ram'.buf.cmd = "frame",
           call.op = "eui_write" => ram'.size = ram.size
    PROVE  EffectInv'
<1>1. usb \in UsbType
  BY DEF IInv, DeviceTypes
<1>2. /\ stage' = "out" /\ UNCHANGED <<program0, reply, address, faults>>
      /\ usb'.bank = NoBank /\ usb'.ep.callback = callback
  BY <1>1, ReceiveOpens
<1>3. Asked' /\ call' = call
  BY <1>2, StillAsked DEF EffectInv, InTransfer
<1>4. Going'
  BY <1>2, <1>3 DEF Going
<1>5. Sized'
  BY <1>2, <1>3 DEF EffectInv, Sized, Loads
<1>6. Calm' /\ Unread' /\ Coming' /\ Got' /\ Carried' /\ CallTookEffect'
  BY <1>2 DEF Calm, Unread, Coming, Got, Carried, CallTookEffect
<1>7. QED
  BY <1>3, <1>4, <1>5, <1>6 DEF EffectInv

\* A request without data has its effect before the empty packet goes.
LEMMA CommandDone ==
    ASSUME IInv, EffectInv, stage = "setup", usb.cpu = "runs", request.n = 0,
           NEW u \in UsbType, u.cpu = "runs", Accept(u, "zero"),
           call.op \notin Reads \cup {"test_mode", "reset", "eui_write"},
           usb'.udaddr = u.udaddr => Effect'
    PROVE  EffectInv'
<1>1. usb'.cpu \in {"runs", "address"} /\ usb'.udaddr = u.udaddr
  BY AcceptRuns, Constants
<1>2. stage' = "status" /\ UNCHANGED program0
  BY DEF Accept
<1>3. Asked' /\ call' = call
  BY <1>2, StillAsked DEF EffectInv, InTransfer
<1>4. Carried'
  BY <1>1, <1>2, <1>3 DEF Carried
<1>5. Calm' /\ Sized' /\ Unread' /\ Coming' /\ Got' /\ Going' /\ CallTookEffect'
  BY <1>1, <1>2, <1>3 DEF Calm, Sized, Unread, Coming, Got, Going, CallTookEffect, Reads
<1>6. QED
  BY <1>3, <1>4, <1>5 DEF EffectInv

\* After a failure there is nothing to hold.
LEMMA Failed ==
    ASSUME stage' \in {"idle", "stalled"}, (stage' = "stalled" => Asked')
    PROVE  EffectInv'
<1>1. Asked'
  BY DEF Asked, InTransfer
<1>2. Calm' /\ Sized' /\ Unread' /\ Coming' /\ Got' /\ Going' /\ Carried' /\ CallTookEffect'
  BY DEF Calm, Sized, Unread, Coming, Got, Going, Carried, CallTookEffect
<1>3. QED
  BY <1>1, <1>2 DEF EffectInv

LEMMA Refused ==
    ASSUME EffectInv, stage = "setup", Refuse
    PROVE  EffectInv'
<1>1. stage' = "stalled" /\ UNCHANGED program0
  BY DEF Refuse
<1>2. Asked'
  BY <1>1, StillAsked DEF EffectInv, InTransfer
<1>3. QED
  BY <1>1, <1>2, Failed
-----------------------------------------------------------------------------
(* Each SETUP *)

LEMMA AskedNow ==
    ASSUME EffectInv, stage = "setup"
    PROVE  call \in CallSet /\ Asks(call, request)
<1>1. call \in CallSet /\ request = RequestOf(call)
  BY DEF EffectInv, Asked, InTransfer
<1>2. QED
  BY <1>1, Requests

LEMMA BufHolds ==
    ASSUME NEW val, NEW n
    PROVE  [NoBuf EXCEPT !.val = val, !.n = n].val = val
  BY DEF NoBuf

\* Requests of usb.c and of the DFU interface
LEMMA StandardEffect ==
    ASSUME IInv, EffectInv, SetAddress \/ GetDescriptor \/ SetInterface \/ DfuDetach
    PROVE  EffectInv'
<1>1. stage = "setup" /\ usb.cpu = "runs"
  BY DEF SetAddress, GetDescriptor, SetInterface, DfuDetach, Requested
<1>2. call \in CallSet /\ Asks(call, request)
  BY <1>1, AskedNow
<1>3. usb \in UsbType /\ ram \in RamType /\ chip \in ChipType
  BY DEF IInv, DeviceTypes
<1>4. /\ Cancelled(usb) \in UsbType /\ EpIdle(Cancelled(usb).ep)
      /\ Cancelled(usb).cpu = "runs"
  BY <1>1, <1>3, Cancels
<1>5. CASE SetAddress
  <2> DEFINE u == [Cancelled(usb) EXCEPT !.udaddr = 1]
             w == UsbIo(u, "EP_TX", "zero", 0, "enable_addr")
  <2>1. call.op = "set_address" /\ request.n = 0
    BY <1>2, <1>5, CommandMeans DEF SetAddress, Requested
  <2>2. u \in UsbType /\ EpIdle(u.ep) /\ u.cpu = "runs" /\ u.udaddr = 1
    BY <1>4 DEF UsbType
  <2>3. "EP_TX" \in States /\ "zero" \in Sources /\ 0 \in 0..255 /\ "enable_addr" \in Callbacks
    BY DEF States, Sources, Callbacks
  <2>4. Accept(w, "zero")
    BY <1>5 DEF SetAddress
  <2> HIDE DEF u
  <2>5. w \in UsbType
    BY <2>2, <2>3, Opens
  <2>6. w.cpu = "runs" /\ w.udaddr = 1
    BY <2>2, <2>3, OpensOnly
  <2> HIDE DEF w
  <2>7. call' = call
    BY <2>4 DEF Accept, program0
  <2>8. usb'.udaddr = w.udaddr => Effect'
    BY <2>1, <2>6, <2>7 DEF Effect
  <2>9. call.op \notin Reads \cup {"test_mode", "reset", "eui_write"}
    BY <2>1 DEF Reads
  <2>10. QED
    BY <1>1, <2>1, <2>4, <2>5, <2>6, <2>8, <2>9, CommandDone
<1>6. CASE GetDescriptor
  <2> DEFINE n == Least(request.n, DESCR_SIZE)
  <2>1. call.op = "get_descriptor" /\ request.n = call.n /\ request.name \in FromDev
    BY <1>2, <1>6, ReadMeans DEF GetDescriptor, Requested, FromDev
  <2>2. call.op \in Reads
    BY <2>1 DEF Reads
  <2>3. call.n \in 1..255
    BY <1>2, <2>1, Enough
  <2>4. n \in 0..255 /\ request.n # 0
    BY <2>1, <2>3, Constants DEF Least
  <2>5. UsbSend("descriptor", n, "zero") /\ UNCHANGED <<ram, chip, eeprom>>
    BY <1>6 DEF GetDescriptor
  <2>6. "descriptor" \in Sources /\ "zero" \in Contents
    BY Constants DEF Sources
  <2>7. UNCHANGED <<call, lib, eeprom, chip>>
    BY <2>5 DEF UsbSend, Accept, program0
  <2>8. Value' = Value /\ Amount' = Amount
    BY <2>2, <2>7, SameAnswer
  <2>9. Value = "descriptor" /\ Amount = n
    BY <2>1 DEF Value, Amount
  <2> HIDE DEF n
  <2>10. call.op # "build"
    BY <2>1
  <2>11. QED
    BY <1>1, <2>1, <2>2, <2>4, <2>5, <2>6, <2>8, <2>9, <2>10, AnswerComes
<1>7. CASE SetInterface \/ DfuDetach
  <2>1. Do /\ Accept(Cancelled(usb), "zero")
    BY <1>7 DEF SetInterface, DfuDetach, Do
  <2>2. call' = call
    BY <2>1 DEF Accept, program0
  <2>3. call.op \in {"set_interface", "detach"} /\ request.n = 0
    BY <1>2, <1>7, CommandMeans DEF SetInterface, DfuDetach, Requested
  <2>4. Effect'
    <3>1. CASE SetInterface
      <4>1. call.op = "set_interface"
        BY <1>2, <3>1, CommandMeans DEF SetInterface, Requested
      <4>2. ram'.user_setup = IF call.n = 1 THEN "my_dfu_setup" ELSE "my_setup"
        BY <1>3, <3>1 DEF SetInterface, RamType
      <4>3. QED
        BY <2>2, <4>1, <4>2 DEF Effect
    <3>2. CASE DfuDetach
      <4>1. call.op = "detach"
        BY <1>2, <3>2, CommandMeans DEF DfuDetach, Requested
      <4>2. ram'.dfu = "appDETACH"
        BY <1>3, <3>2 DEF DfuDetach, RamType
      <4>3. QED
        BY <2>2, <4>1, <4>2 DEF Effect
    <3>3. QED
      BY <1>7, <3>1, <3>2
  <2>5. call.op \notin Reads \cup {"test_mode", "reset", "eui_write"}
    BY <2>3 DEF Reads
  <2>6. QED
    BY <1>1, <1>4, <2>1, <2>3, <2>4, <2>5, CommandDone
<1>8. QED
  BY <1>5, <1>6, <1>7

\* Requests without data
LEMMA CommandEffect ==
    ASSUME IInv, EffectInv, RfReset \/ SlpTr \/ RegWrite \/ ResetRequest
    PROVE  EffectInv'
<1>1. stage = "setup" /\ usb.cpu = "runs"
  BY DEF RfReset, SlpTr, RegWrite, ResetRequest, Mine, Requested
<1>2. call \in CallSet /\ Asks(call, request)
  BY <1>1, AskedNow
<1>3. usb \in UsbType /\ ram \in RamType /\ chip \in ChipType
  BY DEF IInv, DeviceTypes
<1>4. Cancelled(usb) \in UsbType /\ Cancelled(usb).cpu = "runs" /\ Cancelled(usb).bank = NoBank
  BY <1>1, <1>3, Cancels, Empties
<1>5. CASE RfReset \/ SlpTr \/ RegWrite
  <2>1. Do /\ Accept(Cancelled(usb), "zero")
    BY <1>5 DEF RfReset, SlpTr, RegWrite, Do
  <2>2. call' = call
    BY <2>1 DEF Accept, program0
  <2>3. /\ RfReset => call.op = "reset_rf"
        /\ SlpTr => call.op = "slp_tr"
        /\ RegWrite => call.op = "reg_write" /\ request.val = call.val
        /\ request.n = 0
    <3>1. request.name = "REG_WRITE" => call.op = "reg_write" /\ request.val = call.val /\ request.n = 0
      BY <1>2, WriteMeans
    <3>2. /\ request.name = "RF_RESET" => call.op = "reset_rf" /\ request.n = 0
          /\ request.name = "SLP_TR" => call.op = "slp_tr" /\ request.n = 0
      BY <1>2, CommandMeans
    <3>3. QED
      BY <1>5, <3>1, <3>2 DEF RfReset, SlpTr, RegWrite, Mine, Requested
  <2>4. Effect'
    <3>1. CASE RfReset
      <4>1. chip'.reg = "reset"
        BY <3>1 DEF RfReset, ChipReset
      <4>2. QED
        BY <2>2, <2>3, <3>1, <4>1 DEF Effect
    <3>2. CASE SlpTr
      <4>1. chip'.pulse
        BY <1>3, <3>2 DEF SlpTr, ChipType
      <4>2. QED
        BY <2>2, <2>3, <3>2, <4>1 DEF Effect
    <3>3. CASE RegWrite
      <4>1. chip'.reg = call.val
        BY <1>3, <2>3, <3>3 DEF RegWrite, ChipType
      <4>2. QED
        BY <2>2, <2>3, <3>3, <4>1 DEF Effect
    <3>4. QED
      BY <1>5, <3>1, <3>2, <3>3
  <2>5. call.op \notin Reads \cup {"test_mode", "reset", "eui_write"}
    BY <1>5, <2>3 DEF Reads
  <2>6. QED
    BY <1>1, <1>4, <2>1, <2>3, <2>4, <2>5, CommandDone
<1>6. CASE ResetRequest
  <2>1. call.op = "reset"
    BY <1>2, <1>6, CommandMeans DEF ResetRequest, Mine, Requested
  <2>2. stage' = "status" /\ UNCHANGED program0
    BY <1>6 DEF ResetRequest
  <2>3. usb'.cpu = "loops" /\ usb'.bank = NoBank
    BY <1>4, <1>6 DEF ResetRequest, UsbType
  <2>4. Asked' /\ call' = call
    BY <1>1, <2>2, StillAsked DEF EffectInv, InTransfer
  <2>5. Carried'
    BY <2>1, <2>3, <2>4 DEF Carried, Effect, Reads
  <2>6. Calm' /\ Sized' /\ Unread' /\ Coming' /\ Got' /\ Going' /\ CallTookEffect'
    BY <2>1, <2>2, <2>3, <2>4 DEF Calm, Sized, Unread, Coming, Got, Going, CallTookEffect
  <2>7. QED
    BY <2>4, <2>5, <2>6 DEF EffectInv
<1>7. QED
  BY <1>5, <1>6

\* Requests that return what is in the transceiver or in the EEPROM
LEMMA ReadDataEffect ==
    ASSUME IInv, EffectInv, stage = "setup", usb.cpu = "runs",
           NEW val \in Contents, ReadData(val), request.name \in FromDev, request.n = 1,
           call.op \in {"reg_read", "sram_read"}, Value = val
    PROVE  EffectInv'
<1> DEFINE b == [NoBuf EXCEPT !.val = val, !.n = request.n]
<1>1. ram' = [ram EXCEPT !.buf = b] /\ UsbSend("buf", request.n, val) /\ UNCHANGED <<chip, eeprom>>
  BY DEF ReadData
<1>2. b.val = val
  BY BufHolds
<1> HIDE DEF b
<1>3. ram'.buf.val = val
  BY <1>1, <1>2 DEF IInv, DeviceTypes, RamType
<1>4. UNCHANGED <<call, lib, eeprom, chip>>
  BY <1>1 DEF UsbSend, Accept, program0
<1>5. call.op \in Reads /\ call.op # "build"
  BY DEF Reads
<1>6. Value' = Value /\ Amount' = Amount
  BY <1>4, <1>5, SameAnswer
<1>7. Amount = 1
  BY DEF Amount
<1>8. "buf" \in Sources /\ request.n \in 0..255 /\ request.n # 0
  BY DEF Sources
<1>9. QED
  BY <1>1, <1>3, <1>5, <1>6, <1>7, <1>8, AnswerComes

\* A frame: what is shown is what goes into buf.
LEMMA FrameReadEffect ==
    ASSUME IInv, EffectInv, BufRead \/ SpiBufRead
    PROVE  EffectInv'
<1> DEFINE n == IF BufRead THEN BufReadSize(chip.frame.n, request.n) ELSE request.n
           b == [NoBuf EXCEPT !.val = chip.frame.val, !.n = n]
<1>1. stage = "setup" /\ usb.cpu = "runs" /\ request.name \in {"BUF_READ", "SPI_READ1"}
      /\ (request.name = "SPI_READ1" => request.cmd = "frame")
  BY DEF BufRead, SpiBufRead, Mine, Requested
<1>2. call \in CallSet /\ Asks(call, request)
  BY <1>1, AskedNow
<1>3. /\ call.op = "buf_read"
      /\ BufRead => lib = "usb" /\ request.n = call.n
      /\ ~BufRead => lib # "usb" /\ request.n = SRAM_SIZE
  BY <1>1, <1>2, ReadMeans DEF BufRead, SpiBufRead, Mine, Requested
<1>4. chip \in ChipType /\ chip.frame.val \in Contents /\ chip.frame.n \in 0..255
  BY DEF IInv, DeviceTypes, ChipType, FrameType
<1>5. call.n \in 1..255
  BY <1>2, <1>3, Enough
<1>6. request.n \in 1..SRAM_SIZE
  BY <1>1 DEF IInv, RequestOK, Announces
<1>7. n \in 1..SRAM_SIZE
  BY <1>4, <1>6, ReadSizes
<1>8. n \in 0..255 /\ request.n # 0
  BY <1>6, <1>7, Constants
<1>9. /\ ram'.buf = b
      /\ UsbSend("buf", n, chip.frame.val)
      /\ chip' = [chip EXCEPT !.shown = chip.frame] /\ UNCHANGED eeprom
  <2>1. CASE BufRead
    BY <2>1 DEF BufRead, IInv, DeviceTypes, RamType
  <2>2. CASE ~BufRead
    BY <2>2 DEF SpiBufRead, IInv, DeviceTypes, RamType
  <2>3. QED
    BY <2>1, <2>2
<1>10. b.val = chip.frame.val
  BY BufHolds
<1> HIDE DEF b
<1>11. UNCHANGED <<call, lib>>
  BY <1>9 DEF UsbSend, Accept, program0
<1>12. chip'.shown = chip.frame
  BY <1>4, <1>9 DEF ChipType
<1>13. Value' = chip.frame.val
  BY <1>3, <1>11, <1>12 DEF Value
<1>14. Amount' = n
  <2>1. Amount' = IF lib = "usb" THEN Least(chip.frame.n + 1, call.n) ELSE SRAM_SIZE
    BY <1>3, <1>11, <1>12 DEF Amount
  <2>2. QED
    BY <1>3, <2>1 DEF BufReadSize
<1> HIDE DEF n
<1>15. "buf" \in Sources /\ request.name \in FromDev /\ call.op \in Reads /\ call.op # "build"
  BY <1>1, <1>3 DEF Sources, FromDev, Reads
<1>16. ram'.buf.val = chip.frame.val
  BY <1>9, <1>10
<1>17. QED
  BY <1>1, <1>4, <1>8, <1>9, <1>13, <1>14, <1>15, <1>16, AnswerComes

LEMMA ReadEffect ==
    ASSUME IInv, EffectInv, GetId \/ GetBuild \/ RegRead \/ SramRead \/ SpiRead \/ Eui64Read
    PROVE  EffectInv'
<1>1. stage = "setup" /\ usb.cpu = "runs"
  BY DEF GetId, GetBuild, RegRead, SramRead, SpiRead, Eui64Read, Mine, Requested
<1>2. call \in CallSet /\ Asks(call, request)
  BY <1>1, AskedNow
<1>3. ram \in RamType /\ chip.reg \in Contents /\ chip.sram \in Contents
  BY DEF IInv, DeviceTypes, ChipType
<1>4. "buf" \in Sources /\ "id" \in Sources /\ "zero" \in Contents /\ "build" \in Contents
      /\ BUILD_LEN \in 0..255 /\ EUI64_LEN \in 1..255
  BY Constants DEF Sources
<1>5. CASE GetId
  <2>1. call.op = "set_clkm" /\ request.n = 3 /\ request.name \in FromDev
    BY <1>2, <1>5, ReadMeans DEF GetId, Mine, Requested, FromDev
  <2>2. UsbSend("id", request.n, "zero") /\ UNCHANGED <<ram, chip, eeprom>>
    BY <1>5 DEF GetId
  <2>3. UNCHANGED <<call, lib, eeprom, chip>>
    BY <2>2 DEF UsbSend, Accept, program0
  <2>4. call.op \in Reads /\ call.op # "build"
    BY <2>1 DEF Reads
  <2>5. Value' = "id" /\ Amount' = 3
    BY <2>1, <2>3 DEF Value, Amount
  <2>6. QED
    BY <1>1, <1>4, <2>1, <2>2, <2>4, <2>5, AnswerComes
<1>6. CASE GetBuild
  <2> DEFINE b == [NoBuf EXCEPT !.val = "build", !.n = BUILD_LEN]
  <2>1. call.op = "build" /\ request.n = 256 /\ request.name \in FromDev
    BY <1>2, <1>6, ReadMeans DEF GetBuild, Mine, Requested, FromDev
  <2>2. /\ ram' = [ram EXCEPT !.buf = b, !.size = BUILD_LEN]
        /\ UsbSend("buf", BUILD_LEN, "build") /\ UNCHANGED <<chip, eeprom>>
    BY <1>6 DEF GetBuild
  <2>3. b.val = "build"
    BY BufHolds
  <2> HIDE DEF b
  <2>4. ram'.buf.val = "build" /\ ram'.size = BUILD_LEN
    BY <1>3, <2>2, <2>3 DEF RamType
  <2>5. UNCHANGED <<call, lib, eeprom, chip>>
    BY <2>2 DEF UsbSend, Accept, program0
  <2>6. call.op \in Reads
    BY <2>1 DEF Reads
  <2>7. Value' = "build" /\ Amount' = BUILD_LEN
    BY <2>1, <2>5 DEF Value, Amount
  <2>8. QED
    BY <1>1, <1>4, <2>1, <2>2, <2>4, <2>6, <2>7, AnswerComes
<1>7. CASE RegRead \/ SramRead \/ SpiRead
  <2>1. CASE RegRead \/ (SpiRead /\ request.name = "SPI_READ1")
    <3>1. request.name = "REG_READ" \/ (request.name = "SPI_READ1" /\ request.cmd = "reg")
      BY <2>1 DEF RegRead, SpiRead, Mine, Requested
    <3>2. ReadData(chip.reg)
      BY <2>1 DEF RegRead, SpiRead, Mine, Requested
    <3>3. call.op = "reg_read" /\ request.n = 1
      BY <1>2, <3>1, ReadMeans
    <3>4. Value = chip.reg /\ request.name \in FromDev
      BY <3>1, <3>3 DEF Value, FromDev
    <3>5. QED
      BY <1>1, <1>3, <3>2, <3>3, <3>4, ReadDataEffect
  <2>2. CASE SramRead \/ (SpiRead /\ request.name # "SPI_READ1")
    <3>1. request.name \in {"SRAM_READ", "SPI_READ2"}
      BY <2>2 DEF SramRead, SpiRead, Mine, Requested
    <3>2. ReadData(chip.sram)
      BY <2>2 DEF SramRead, SpiRead, Mine, Requested
    <3>3. call.op = "sram_read" /\ request.n = 1
      BY <1>2, <3>1, ReadMeans
    <3>4. Value = chip.sram /\ request.name \in FromDev
      BY <3>1, <3>3 DEF Value, FromDev
    <3>5. QED
      BY <1>1, <1>3, <3>2, <3>3, <3>4, ReadDataEffect
  <2>3. QED
    BY <1>7, <2>1, <2>2
<1>8. CASE Eui64Read
  <2> DEFINE b == [NoBuf EXCEPT !.val = InEeprom, !.n = EUI64_LEN]
  <2>1. call.op = "eui_read" /\ request.n = EUI64_LEN /\ request.name \in FromDev
    BY <1>2, <1>8, ReadMeans DEF Eui64Read, Mine, Requested, FromDev
  <2>2. /\ ram' = [ram EXCEPT !.buf = b]
        /\ UsbSend("buf", EUI64_LEN, InEeprom) /\ UNCHANGED <<chip, eeprom>>
    BY <1>8 DEF Eui64Read
  <2>3. b.val = InEeprom /\ InEeprom \in Contents
    BY BufHolds, InEepromType
  <2> HIDE DEF b
  <2>4. ram'.buf.val = InEeprom
    BY <1>3, <2>2, <2>3 DEF RamType
  <2>5. UNCHANGED <<call, lib, eeprom, chip>>
    BY <2>2 DEF UsbSend, Accept, program0
  <2>6. call.op \in Reads /\ call.op # "build"
    BY <2>1 DEF Reads
  <2>7. Value' = Value /\ Amount' = Amount
    BY <2>5, <2>6, SameAnswer
  <2>8. Value = InEeprom /\ Amount = EUI64_LEN
    BY <2>1 DEF Value, Amount
  <2>9. Value' = InEeprom /\ Amount' = EUI64_LEN
    BY <2>7, <2>8
  <2>10. EUI64_LEN \in 0..255 /\ request.n # 0
    BY <1>4, <2>1
  <2>11. QED
    BY <1>1, <1>4, <2>1, <2>2, <2>3, <2>4, <2>6, <2>9, <2>10, AnswerComes
<1>9. QED
  BY <1>5, <1>6, <1>7, <1>8

\* Requests that send the transceiver or the EEPROM something
LEMMA WriteEffect ==
    ASSUME IInv, EffectInv, BufWrite \/ SramWrite \/ SpiWrite \/ Eui64Write
    PROVE  EffectInv'
<1>1. stage = "setup" /\ usb.cpu = "runs"
      /\ request.name \in {"BUF_WRITE", "SRAM_WRITE", "SPI_WRITE", "EUI64_WRITE"}
  BY DEF BufWrite, SramWrite, SpiWrite, Eui64Write, Mine, Requested
<1>2. call \in CallSet /\ Asks(call, request) /\ Announces(request)
  BY <1>1, AskedNow DEF IInv, RequestOK
<1>3. usb \in UsbType /\ ram \in RamType /\ chip \in ChipType
  BY DEF IInv, DeviceTypes
<1>4. request.name \notin FromDev /\ "do_buf_write" \in Callbacks
      /\ "do_eeprom_write" \in Callbacks
  BY <1>1 DEF FromDev, Callbacks
<1>5. CASE BufWrite \/ SramWrite
  <2> DEFINE b == [NoBuf EXCEPT !.cmd = request.cmd]
  <2>1. \/ call.op = "sram_write" /\ request.cmd = "sram"
        \/ call.op = "buf_write" /\ request.cmd = "frame"
    BY <1>2, <1>5, WriteMeans DEF BufWrite, SramWrite, Mine, Requested
  <2>2. request.n \in 0..255 /\ request.n # 0
    BY <1>2, <1>5, Constants DEF BufWrite, SramWrite, Mine, Requested, Announces
  <2>3. /\ ram' = [ram EXCEPT !.buf = b, !.size = (request.n + 2) % 256]
        /\ UsbRecv(request.n, "do_buf_write")
    BY <1>5 DEF BufWrite, SramWrite, WriteData
  <2>4. b.cmd = request.cmd
    BY DEF NoBuf
  <2> HIDE DEF b
  <2>5. ram'.buf.cmd = request.cmd
    BY <1>3, <2>3, <2>4 DEF RamType
  <2>6. call.op \in Loads
    BY <2>1 DEF Loads
  <2>7. QED
    BY <1>1, <1>4, <2>1, <2>2, <2>3, <2>5, <2>6, DataGoes
<1>6. CASE SpiWrite
  <2> DEFINE b == [NoBuf EXCEPT !.cmd = request.cmd, !.arg = request.val]
             f == [ram EXCEPT !.buf = b, !.size = (request.n + 2) % 256]
  <2>1. \/ call.op = "reg_write" /\ request.cmd = "reg" /\ request.val = call.val /\ request.n = 0
        \/ call.op = "sram_write" /\ request.cmd = "sram" /\ request.n = 1
        \/ call.op = "buf_write" /\ request.cmd = "frame" /\ request.n = call.n
    BY <1>2, <1>6, WriteMeans DEF SpiWrite, Mine, Requested
  <2>2. call.op = "buf_write" => call.n \in 1..MAX_PSDU
    BY <1>2, CallTypes
  <2>3. request.n \in 0..255
    BY <2>1, <2>2, Constants
  <2>4. \/ Refuse
        \/ ram' = f /\ request.n > 0 /\ UsbRecv(request.n, "do_buf_write")
        \/ ram' = f /\ ~(request.n > 0) /\ Do /\ chip' = DoBufWrite(chip, f)
    BY <1>6 DEF SpiWrite
  <2>5. b.cmd = request.cmd /\ b.arg = request.val
    BY DEF NoBuf
  <2> HIDE DEF b
  <2>6. f.buf = b
    BY <1>3 DEF RamType
  <2> HIDE DEF f
  <2>7. CASE Refuse
    BY <1>1, <2>7, Refused
  <2>8. CASE ram' = f /\ request.n > 0 /\ UsbRecv(request.n, "do_buf_write")
    <3>1. ram'.buf.cmd = request.cmd /\ request.n # 0
      BY <2>3, <2>5, <2>6, <2>8
    <3>2. \/ call.op = "sram_write" /\ request.cmd = "sram"
          \/ call.op = "buf_write" /\ request.cmd = "frame"
      BY <2>1, <3>1
    <3>3. call.op \in Loads
      BY <3>2 DEF Loads
    <3>4. QED
      BY <1>1, <1>4, <2>3, <2>8, <3>1, <3>2, <3>3, DataGoes
  <2>9. CASE ram' = f /\ ~(request.n > 0) /\ Do /\ chip' = DoBufWrite(chip, f)
    <3>1. call.op = "reg_write" /\ request.cmd = "reg" /\ request.val = call.val /\ request.n = 0
      BY <2>1, <2>2, <2>9, Constants
    <3>2. chip' = [chip EXCEPT !.reg = f.buf.arg]
      BY <2>5, <2>6, <2>9, <3>1 DEF DoBufWrite
    <3>3. chip'.reg = call.val
      BY <1>3, <2>5, <2>6, <3>1, <3>2 DEF ChipType
    <3>4. Accept(Cancelled(usb), "zero")
      BY <2>9 DEF Do
    <3>5. call' = call
      BY <3>4 DEF Accept, program0
    <3>6. Effect'
      BY <3>1, <3>3, <3>5 DEF Effect
    <3>7. call.op \notin Reads \cup {"test_mode", "reset", "eui_write"}
      BY <3>1 DEF Reads
    <3>8. Cancelled(usb) \in UsbType /\ Cancelled(usb).cpu = "runs"
      BY <1>1, <1>3, Cancels
    <3>9. QED
      BY <1>1, <3>1, <3>4, <3>6, <3>7, <3>8, CommandDone
  <2>10. QED
    BY <2>4, <2>7, <2>8, <2>9
<1>7. CASE Eui64Write
  <2>1. call.op = "eui_write" /\ request.n = EUI64_LEN
    BY <1>2, <1>7, WriteMeans DEF Eui64Write, Mine, Requested
  <2>2. UsbRecv(request.n, "do_eeprom_write")
    BY <1>7 DEF Eui64Write
  <2>3. ram'.size = ram.size
    BY <1>3, <1>7 DEF Eui64Write, RamType
  <2>4. request.n \in 0..255 /\ request.n # 0 /\ call.op \in Loads
    BY <2>1, Constants DEF Loads
  <2>5. QED
    BY <1>1, <1>4, <2>1, <2>2, <2>3, <2>4, DataGoes
<1>8. QED
  BY <1>5, <1>6, <1>7

LEMMA SetupEffect ==
    ASSUME IInv, EffectInv, HandleSetup
    PROVE  EffectInv'
<1>1. CASE Unrecognized
  <2>1. stage = "setup" /\ Refuse
    BY <1>1 DEF Unrecognized, Mine, Requested
  <2>2. QED
    BY <2>1, Refused
<1>2. CASE MySetup
  BY <1>2, CommandEffect, ReadEffect, FrameReadEffect, WriteEffect DEF MySetup
<1>3. QED
  BY <1>1, <1>2, StandardEffect DEF HandleSetup
-----------------------------------------------------------------------------
(* The other stages *)

\* A call is made.  That atusb-eui64 writes only after it has read the build is why
\* "size" is large enough.
LEMMA BeginEffect ==
    ASSUME EffectInv, NEW c \in CallSet, Begin(c)
    PROVE  EffectInv'
<1>1. stage' = "setup" /\ call' = c /\ request' = RequestOf(c) /\ reply' = NoReply
      /\ UNCHANGED <<ram, lib>>
  BY DEF Begin
<1>2. RequestOf(call)' = RequestOf(c)
  BY <1>1 DEF RequestOf, ByCommand, BySpi, ByCommon, SetClkm, ByTool, ByKernel
<1>3. Asked' /\ Unread'
  BY <1>1, <1>2 DEF Asked, Unread
<1>4. Sized'
  BY <1>1 DEF Begin, EffectInv, Sized
<1>5. Calm' /\ Coming' /\ Got' /\ Going' /\ Carried' /\ CallTookEffect'
  BY <1>1 DEF Calm, Coming, Got, Going, Carried, CallTookEffect
<1>6. QED
  BY <1>3, <1>4, <1>5 DEF EffectInv

\* do_buf_write() of all the data of the call does what the call is for.
LEMMA WrittenWhole ==
    ASSUME chip \in ChipType, NEW f \in RamType, f.size = f.buf.n + 2, f.buf.n = request.n,
           f.buf.n \in 0..255, f.buf.val = call.val, chip' = DoBufWrite(chip, f),
           \/ call.op = "sram_write" /\ f.buf.cmd = "sram"
           \/ call.op = "buf_write" /\ f.buf.cmd = "frame" /\ request.n = call.n,
           call' = call
    PROVE  Effect'
<1>1. CASE call.op = "sram_write" /\ f.buf.cmd = "sram"
  <2>1. chip'.sram = call.val
    BY <1>1 DEF DoBufWrite, ChipType
  <2>2. QED
    BY <1>1, <2>1 DEF Effect
<1>2. CASE call.op = "buf_write" /\ f.buf.cmd = "frame" /\ request.n = call.n
  <2> DEFINE g == [val |-> f.buf.val, n |-> f.size - 2]
  <2>1. chip' = [chip EXCEPT !.frame = g]
    BY <1>2 DEF DoBufWrite
  <2>2. f.size - 2 = call.n
    BY <1>2
  <2> HIDE DEF g
  <2>3. chip'.frame = g
    BY <2>1 DEF ChipType
  <2>4. QED
    BY <1>2, <2>2, <2>3 DEF Effect, g
<1>3. QED
  BY <1>1, <1>2

\* The packets of the data stage; after the last one, the callback
LEMMA EpRxEffect ==
    ASSUME IInv, EffectInv, EpRx
    PROVE  EffectInv'
<1> DEFINE n == Least(EP_SIZE, request.n - ram.buf.n)
           left == usb.ep.left - n
           e == [usb.ep EXCEPT !.left = left]
           u == [usb EXCEPT !.ep.left = @ - n]
           b == [ram.buf EXCEPT !.val = call.val, !.n = @ + n]
           f == [ram EXCEPT !.buf.val = call.val, !.buf.n = @ + n, !.i = 0]
<1>1. /\ usb \in UsbType /\ ram \in RamType /\ chip \in ChipType /\ request \in RequestType
      /\ Announces(request)
  BY DEF IInv, DeviceTypes, RequestOK
<1>2. /\ usb.ep \in EpType /\ usb.ep.left \in 0..255
      /\ ram.buf \in BufType /\ ram.buf.n \in Nat /\ request.n \in 0..256
  BY <1>1 DEF UsbType, EpType, RamType, BufType, RequestType
<1>3. /\ stage = "out" /\ usb.cpu = "runs" /\ usb.ep.left = request.n - ram.buf.n
      /\ usb.ep.callback = "do_buf_write" => ram.size = request.n + 2
  BY DEF EpRx, IInv, DataStage
<1>4. /\ call.op \in Loads /\ usb.bank = NoBank
      /\ usb.ep.callback = IF call.op = "eui_write" THEN "do_eeprom_write" ELSE "do_buf_write"
      /\ call.op = "sram_write" => ram.buf.cmd = "sram"
      /\ call.op = "buf_write" => ram.buf.cmd = "frame"
  BY <1>3 DEF EffectInv, Going
<1>5. call \in CallSet /\ Asks(call, request)
  <2>1. call \in CallSet /\ request = RequestOf(call)
    BY <1>3 DEF EffectInv, Asked, InTransfer
  <2>2. QED
    BY <2>1, Requests
<1>6. call.op = "buf_write" => request.n = call.n
  BY <1>5, WriteMeans
<1>7. n \in 0..usb.ep.left
  BY <1>2, <1>3, Constants DEF Least
<1> HIDE DEF n
<1>8. left \in 0..255 /\ ram.buf.n + n \in Nat /\ left = request.n - (ram.buf.n + n)
  <2>1. left \in 0..255
    BY <1>2, <1>7, Less
  <2>2. ram.buf.n + n \in Nat
    BY <1>2, <1>7
  <2>3. left = request.n - (ram.buf.n + n)
    BY ONLY <1>2, <1>3, <1>7
  <2>4. QED
    BY <2>1, <2>2, <2>3
<1>9. /\ ram' = f
      /\ stage' = IF f.buf.n = request.n THEN "status" ELSE "out"
      /\ IF u.ep.left > 0 THEN usb' = u /\ UNCHANGED chip
         ELSE IF u.ep.callback = "do_eeprom_write"
           THEN usb' = [u EXCEPT !.cpu = "eeprom"] /\ UNCHANGED chip
         ELSE usb' = Received(u) /\ chip' = DoBufWrite(chip, f)
      /\ UNCHANGED <<eeprom, program0, reply, address, faults>>
  BY DEF EpRx, n
<1>10. b.n = ram.buf.n + n /\ b.cmd = ram.buf.cmd /\ b.val = call.val /\ b \in BufType
  <2>1. call.val \in Contents
    BY <1>5, CallTypes
  <2>2. QED
    BY <1>2, <1>8, <2>1 DEF BufType
<1>11. f = [ram EXCEPT !.buf = b, !.i = 0]
  BY <1>1 DEF RamType
<1> HIDE DEF b, f
<1>12. f \in RamType /\ f.buf = b /\ f.size = ram.size /\ f.i = 0
  <2>1. 0 \in 0..255
    OBVIOUS
  <2>2. QED
    BY <1>1, <1>10, <1>11, <2>1 DEF RamType
<1> HIDE DEF left
<1>13. e \in EpType /\ e.left = left /\ e.callback = usb.ep.callback
  BY <1>2, <1>8, Shortened
<1>14. u = [usb EXCEPT !.ep = e]
  BY <1>1 DEF UsbType, left
<1> HIDE DEF e, u
<1>15. /\ u \in UsbType /\ u.ep.left = left /\ u.ep.callback = usb.ep.callback /\ u.cpu = "runs"
       /\ u.bank = NoBank
  BY <1>1, <1>3, <1>4, <1>13, <1>14 DEF UsbType
<1>16. Asked' /\ call' = call
  BY <1>3, <1>9, StillAsked DEF EffectInv, InTransfer
<1>17. Sized'
  BY <1>3, <1>9, <1>12, <1>16 DEF EffectInv, Sized, Loads
<1>18. Unread' /\ Coming' /\ Got' /\ CallTookEffect'
  BY <1>9 DEF Unread, Coming, Got, CallTookEffect
<1>19. CASE left > 0
  <2>1. usb' = u
    BY <1>9, <1>15, <1>19
  <2>2. stage' = "out"
    BY <1>2, <1>8, <1>9, <1>10, <1>12, <1>19
  <2>3. Going'
    BY <1>4, <1>9, <1>10, <1>12, <1>15, <1>16, <2>1 DEF Going
  <2>4. Calm' /\ Carried'
    BY <2>2 DEF Calm, Carried
  <2>5. QED
    BY <1>16, <1>17, <1>18, <2>3, <2>4 DEF EffectInv
<1>20. CASE left = 0
  <2>1. f.buf.n = request.n
    BY <1>2, <1>8, <1>10, <1>12, <1>20
  <2>2. stage' = "status"
    BY <1>9, <2>1
  <2>3. Going'
    BY <2>2 DEF Going
  <2>4. CASE call.op = "eui_write"
    <3>1. usb' = [u EXCEPT !.cpu = "eeprom"]
      BY <1>4, <1>9, <1>15, <1>20, <2>4
    <3>2. usb'.cpu = "eeprom" /\ usb'.bank = NoBank
      BY <1>15, <3>1 DEF UsbType
    <3>3. ram'.buf.val = call.val /\ ram'.i = 0
      BY <1>9, <1>10, <1>12
    <3>4. Burned(ram.i)'
      BY <3>3 DEF Burned, Bytes0
    <3>5. Burning'
      BY <1>16, <3>2, <3>3, <3>4 DEF Burning
    <3>6. Carried'
      BY <1>16, <2>4, <3>5 DEF Carried, Effect, Reads
    <3>7. Calm'
      BY <1>16, <2>2, <2>4 DEF Calm
    <3>8. QED
      BY <1>16, <1>17, <1>18, <2>3, <3>6, <3>7 DEF EffectInv
  <2>5. CASE call.op # "eui_write"
    <3>1. usb' = Received(u) /\ chip' = DoBufWrite(chip, f)
      BY <1>4, <1>9, <1>15, <1>20, <2>5
    <3>2. usb'.cpu # "eeprom"
      BY <1>15, <3>1, ReceivedRuns
    <3>3. f.size = f.buf.n + 2
      BY <1>3, <1>4, <1>12, <2>1, <2>5
    <3>4. f.buf.n \in 0..255
      <4>1. f.buf.n + 2 \in 0..255 /\ f.buf.n \in Nat
        BY <1>8, <1>10, <1>12, <3>3 DEF RamType
      <4>2. QED
        BY <4>1
    <3>5. \/ call.op = "sram_write" /\ f.buf.cmd = "sram"
          \/ call.op = "buf_write" /\ f.buf.cmd = "frame" /\ request.n = call.n
      BY <1>4, <1>6, <1>10, <1>12, <2>5 DEF Loads
    <3>6. Effect'
      BY <1>1, <1>10, <1>12, <1>16, <2>1, <3>1, <3>3, <3>4, <3>5, WrittenWhole
    <3>7. call.op \notin Reads \cup {"test_mode", "reset"}
      BY <3>5 DEF Reads
    <3>8. Carried'
      BY <1>16, <2>5, <3>6, <3>7 DEF Carried
    <3>9. Calm'
      BY <2>2, <3>2 DEF Calm
    <3>10. QED
      BY <1>16, <1>17, <1>18, <2>3, <3>8, <3>9 DEF EffectInv
  <2>6. QED
    BY <2>4, <2>5
<1>21. QED
  BY <1>8, <1>19, <1>20

\* A step that leaves alone what calls are about leaves what they have done.
LEMMA StillDone ==
    ASSUME IInv, UNCHANGED <<chip, ram, eeprom, program0, reply, stage>>, usb'.udaddr = usb.udaddr
    PROVE  /\ Effect => Effect'
           /\ CallTookEffect => CallTookEffect'
           /\ call.op \in Reads => Value' = Value /\ Amount' = Amount
           /\ Asked => Asked'
           /\ Sized => Sized'
<1>1. UNCHANGED <<call, request, lib>>
  BY DEF program0
<1>2. Effect => Effect'
  BY <1>1 DEF Effect
<1>3. CallTookEffect => CallTookEffect'
  <2>1. InEeprom' = InEeprom
    BY DEF InEeprom
  <2>2. QED
    BY <1>1, <2>1 DEF CallTookEffect, IsReply, BufReadReturns
<1>4. call.op \in Reads => Value' = Value /\ Amount' = Amount
  BY <1>1, SameAnswer
<1>5. Asked => Asked'
  <2>1. RequestOf(call)' = RequestOf(call)
    BY <1>1 DEF RequestOf, ByCommand, BySpi, ByCommon, SetClkm, ByTool, ByKernel
  <2>2. QED
    BY <1>1, <2>1 DEF Asked, InTransfer
<1>6. Sized => Sized'
  BY <1>1 DEF Sized
<1>7. QED
  BY <1>2, <1>3, <1>4, <1>5, <1>6

\* The next packet: what is left to send goes into the bank.
LEMMA EpTxEffect ==
    ASSUME IInv, EffectInv, EpTxNext
    PROVE  EffectInv'
<1>1. usb \in UsbType /\ usb.ep \in EpType /\ ram.buf.val \in Contents
  BY DEF IInv, DeviceTypes, UsbType, RamType, BufType
<1>2. /\ usb' = EpTx(usb, ram.buf.val) /\ usb.cpu = "runs" /\ usb.ep.state = "EP_TX"
      /\ usb.bank = NoBank
      /\ UNCHANGED <<ram, chip, eeprom, program0, stage, reply, address, faults>>
  BY DEF EpTxNext
<1>3. /\ usb'.ep = AfterPacket(usb.ep)
      /\ usb'.bank = [val |-> Source, n |-> PacketSize(usb.ep)]
      /\ usb'.cpu \in {"runs", "address"} /\ usb'.udaddr = usb.udaddr
  BY <1>1, <1>2, Loaded DEF Source
<1>4. call' = call
  BY <1>2 DEF program0
<1>5. Asked' /\ Sized' /\ CallTookEffect' /\ (Effect => Effect')
      /\ (call.op \in Reads => Value' = Value /\ Amount' = Amount)
  BY <1>2, <1>3, StillDone DEF EffectInv
<1>6. /\ usb'.ep.state \in {"EP_TX", "EP_IDLE"} /\ usb'.ep.buf = usb.ep.buf
      /\ usb'.bank.n < EP_SIZE => usb'.ep.state = "EP_IDLE"
      /\ ToCome' = usb.ep.left
  BY <1>1, <1>2, <1>3, Split DEF ToCome
<1>7. Coming'
  <2> SUFFICES ASSUME stage = "in" PROVE Coming'
    BY <1>2 DEF Coming
  <2>1. /\ call.op \in Reads /\ Source = Value
        /\ reply.n + ToCome = Amount
        /\ reply.vals = IF reply.n = 0 THEN {} ELSE {Value}
    BY DEF EffectInv, Coming
  <2>2. ToCome = usb.ep.left
    BY <1>1, <1>2 DEF ToCome, NoBank, EpType
  <2>3. Source' = Source
    BY <1>2, <1>6 DEF Source
  <2>4. usb'.bank.val = Source
    BY <1>3
  <2>5. QED
    BY <1>2, <1>4, <1>5, <1>6, <2>1, <2>2, <2>3, <2>4 DEF Coming
<1>8. Calm'
  BY <1>3 DEF Calm
<1>9. Unread' /\ Got'
  BY <1>2, <1>4, <1>5 DEF EffectInv, Unread, Got, IsReply
<1>10. Going'
  BY <1>2 DEF IInv, DataStage, Going
<1>11. Carried'
  <2> SUFFICES ASSUME stage = "status" PROVE Carried'
    BY <1>2 DEF Carried
  <2>1. call.op # "reset"
    BY <1>2 DEF EffectInv, Carried
  <2>2. call.op = "eui_write" => Burning'
    BY <1>2, <1>3, <1>4 DEF EffectInv, Carried, Burning, Burned
  <2>3. QED
    BY <1>4, <1>5, <2>1, <2>2 DEF EffectInv, Carried
<1>12. QED
  BY <1>5, <1>7, <1>8, <1>9, <1>10, <1>11 DEF EffectInv

\* The address is enabled: not while the EEPROM is written or the CPU is to be reset.
LEMMA AddressEffect ==
    ASSUME IInv, EffectInv, EnableAddr
    PROVE  EffectInv'
<1>1. /\ usb.cpu = "address" /\ usb' = [usb EXCEPT !.cpu = "runs", !.addr = usb.udaddr]
      /\ UNCHANGED <<ram, chip, eeprom, program0, stage, reply, address, faults>>
  BY DEF EnableAddr
<1>2. /\ usb'.cpu = "runs" /\ usb'.ep = usb.ep /\ usb'.bank = usb.bank
      /\ usb'.udaddr = usb.udaddr
  BY <1>1 DEF IInv, DeviceTypes, UsbType
<1>3. call' = call
  BY <1>1 DEF program0
<1>4. Asked' /\ Sized' /\ CallTookEffect' /\ (Effect => Effect')
      /\ (call.op \in Reads => Value' = Value /\ Amount' = Amount)
  BY <1>1, <1>2, StillDone DEF EffectInv
<1>5. Source' = Source /\ ToCome' = ToCome
  BY <1>1, <1>2 DEF Source, ToCome
<1>6. Coming'
  BY <1>1, <1>2, <1>3, <1>4, <1>5 DEF EffectInv, Coming
<1>7. Calm' /\ Unread' /\ Got' /\ Going'
  BY <1>1, <1>2, <1>3, <1>4 DEF EffectInv, Calm, Unread, Got, Going, IsReply
<1>8. Carried'
  <2> SUFFICES ASSUME stage = "status" PROVE Carried'
    BY <1>1 DEF Carried
  <2>1. call.op # "reset"
    BY <1>1 DEF EffectInv, Carried
  <2>2. call.op = "eui_write" => Burning'
    BY <1>1, <1>2, <1>3 DEF EffectInv, Carried, Burning, Burned
  <2>3. QED
    BY <1>3, <1>4, <2>1, <2>2 DEF EffectInv, Carried
<1>9. QED
  BY <1>4, <1>6, <1>7, <1>8 DEF EffectInv

\* A byte of the EEPROM, or the end of the loop: with the "size" it finds, the loop
\* has gone over all bytes.
LEMMA EepromEffect ==
    ASSUME IInv, EffectInv, EepromByte
    PROVE  EffectInv'
<1>1. usb \in UsbType /\ ram \in RamType /\ eeprom \in [Bytes0 -> Contents]
  BY DEF IInv, DeviceTypes
<1>2. /\ usb.cpu = "eeprom"
      /\ UNCHANGED <<chip, program0, stage, reply, address, faults>>
  BY DEF EepromByte
<1>3. stage \in {"idle", "setup", "stalled", "status"}
      /\ (stage = "status" => call.op = "eui_write" /\ Burning)
  BY <1>2 DEF IInv, HostTypes, Stages, DataStage, EffectInv, Calm, Carried
<1>4. UNCHANGED <<call, request, lib>>
  BY <1>2 DEF program0
<1>5. Asked'
  <2>1. RequestOf(call)' = RequestOf(call)
    BY <1>4 DEF RequestOf, ByCommand, BySpi, ByCommon, SetClkm, ByTool, ByKernel
  <2>2. QED
    BY <1>2, <1>4, <2>1 DEF EffectInv, Asked, InTransfer
<1>6. ram'.size = ram.size /\ ram'.buf = ram.buf
  BY <1>1 DEF EepromByte, RamType
<1>7. Sized' /\ Unread' /\ Coming' /\ Got' /\ Going' /\ CallTookEffect'
  BY <1>2, <1>3, <1>4, <1>6 DEF EffectInv, Sized, Unread, Coming, Got, Going, CallTookEffect
<1>8. Calm'
  BY <1>2, <1>3, <1>4 DEF Calm
<1>9. Carried'
  <2> SUFFICES ASSUME stage = "status" PROVE Carried'
    BY <1>2 DEF Carried
  <2>1. /\ call.op = "eui_write" /\ ram.size = BUILD_LEN
        /\ usb.bank = NoBank /\ ram.buf.val = call.val /\ Burned(ram.i)
    BY <1>2, <1>3 DEF EffectInv, Sized, Burning
  <2>2. Burning'
    <3>1. CASE ram.i < ram.size
      <4>1. ram' = [ram EXCEPT !.i = ram.i + 1] /\ usb' = usb
            /\ eeprom' = IF ram.i \in Bytes0 THEN [eeprom EXCEPT ![ram.i] = ram.buf.val] ELSE eeprom
        BY <3>1 DEF EepromByte
      <4>2. ram'.i = ram.i + 1 /\ ram.i \in Nat
        BY <1>1, <4>1 DEF RamType
      <4>3. ASSUME NEW b \in Bytes0, b < ram.i + 1 PROVE eeprom'[b] = call.val
        <5>1. b = ram.i \/ b < ram.i
          BY <4>2, <4>3, Constants DEF Bytes0
        <5>2. QED
          BY <1>1, <2>1, <4>1, <4>3, <5>1 DEF Burned
      <4>4. Burned(ram.i)'
        BY <1>4, <4>2, <4>3 DEF Burned, Bytes0
      <4>5. QED
        BY <1>2, <1>4, <1>6, <2>1, <4>1, <4>4 DEF Burning
    <3>2. CASE ~(ram.i < ram.size)
      <4> DEFINE u == [usb EXCEPT !.cpu = "runs"]
      <4>1. usb' = Received(u) /\ UNCHANGED <<ram, eeprom>>
        BY <3>2 DEF EepromByte
      <4>2. u \in UsbType /\ u.cpu = "runs"
        BY <1>1 DEF UsbType
      <4> HIDE DEF u
      <4>3. usb'.cpu # "eeprom"
        BY <4>1, <4>2, ReceivedRuns
      <4>4. Burned(EUI64_LEN)
        <5>1. ram.i \in Nat /\ BUILD_LEN \in EUI64_LEN..63 /\ EUI64_LEN \in 1..8
          BY <1>1, UsbDeviceAssumption DEF RamType
        <5>2. ram.i >= EUI64_LEN
          BY <2>1, <3>2, <5>1
        <5>3. QED
          BY <2>1, <5>1, <5>2 DEF Burned, Bytes0
      <4>5. Burned(EUI64_LEN)'
        BY <1>4, <4>1, <4>4 DEF Burned
      <4>6. QED
        BY <4>3, <4>5 DEF Burning
    <3>3. QED
      BY <3>1, <3>2
  <2>3. QED
    BY <1>4, <2>1, <2>2 DEF Carried, Effect, Reads
<1>10. QED
  BY <1>5, <1>7, <1>8, <1>9 DEF EffectInv

LEMMA Sums ==
    ASSUME NEW a \in Nat, NEW b \in Nat, NEW c \in Nat
    PROVE  a + (b + c) = (a + b) + c /\ a + b \in Nat
  OBVIOUS

\* The host takes a packet.  A short one, or one that brings it as much as it asked
\* for, has brought all there is.
LEMMA InPacketEffect ==
    ASSUME IInv, EffectInv, InPacket
    PROVE  EffectInv'
<1> DEFINE vals == reply.vals \cup (IF usb.bank.n = 0 THEN {} ELSE {usb.bank.val})
           n == reply.n + usb.bank.n
<1>1. usb \in UsbType /\ usb.bank \in Banks
  BY DEF InPacket, IInv, DeviceTypes, UsbType
<1>2. /\ stage = "in" /\ usb.bank # NoBank
      /\ reply' = [vals |-> vals, n |-> n]
      /\ stage' = (IF usb.bank.n < EP_SIZE \/ n = request.n THEN "statusout" ELSE "in")
      /\ usb' = [usb EXCEPT !.bank = NoBank]
      /\ UNCHANGED <<ram, chip, eeprom, program0>>
  BY DEF InPacket
<1>3. /\ call.op \in Reads /\ usb.ep.state # "EP_RX"
      /\ Source = Value /\ usb.bank.val = Value
      /\ usb.bank.n < EP_SIZE => usb.ep.state = "EP_IDLE"
      /\ reply.n + ToCome = Amount
      /\ reply.vals = IF reply.n = 0 THEN {} ELSE {Value}
  BY <1>2 DEF EffectInv, Coming
<1>4. usb.bank.n \in 0..64 /\ reply.n \in Nat /\ usb.ep.left \in 0..255
  BY <1>1 DEF Banks, EP_SIZE, IInv, HostTypes, UsbType, EpType
<1>5. usb'.bank = NoBank /\ usb'.ep = usb.ep /\ usb'.cpu = usb.cpu /\ reply'.vals = vals
      /\ reply'.n = n
  BY <1>1, <1>2 DEF UsbType
<1>6. Asked' /\ call' = call /\ lib' = lib
  <2>1. RequestOf(call)' = RequestOf(call)
    BY <1>2 DEF program0, RequestOf, ByCommand, BySpi, ByCommon, SetClkm, ByTool, ByKernel
  <2>2. QED
    BY <1>2, <2>1 DEF program0, EffectInv, Asked, InTransfer
<1>7. Value' = Value /\ Amount' = Amount
  BY <1>2, <1>3, <1>6, SameAnswer
<1>8. Amount \in 1..request.n
  <2>1. call \in CallSet /\ request = RequestOf(call)
    BY <1>2 DEF EffectInv, Asked, InTransfer
  <2>2. Asks(call, request)
    BY <2>1, Requests
  <2>3. QED
    BY <1>3, <2>1, <2>2, AmountFits
<1>9. vals = IF n = 0 THEN {} ELSE {Value}
  BY <1>3, <1>4
<1>10. ToCome = usb.bank.n + (IF usb.ep.state = "EP_TX" THEN usb.ep.left ELSE 0)
       /\ ToCome' = (IF usb.ep.state = "EP_TX" THEN usb.ep.left ELSE 0)
  BY <1>4, <1>5 DEF ToCome, NoBank
<1>11. n + ToCome' = Amount /\ n \in Nat
  <2>1. PICK m \in Nat : m = IF usb.ep.state = "EP_TX" THEN usb.ep.left ELSE 0
    BY <1>4
  <2>2. ToCome = usb.bank.n + m /\ ToCome' = m
    BY <1>10, <2>1
  <2>3. reply.n + (usb.bank.n + m) = (reply.n + usb.bank.n) + m /\ reply.n + usb.bank.n \in Nat
    <3>1. usb.bank.n \in Nat
      BY <1>4
    <3>2. QED
      BY <1>4, <2>1, <3>1, Sums
  <2>4. QED
    BY <1>3, <1>4, <2>2, <2>3
<1>12. Source' = Source
  BY <1>2, <1>5 DEF Source
<1>13. request.n \in 0..256
  BY DEF IInv, RequestOK, RequestType
<1>14. Coming'
  BY <1>3, <1>5, <1>6, <1>7, <1>9, <1>11, <1>12 DEF Coming
<1>15. Got'
  <2> SUFFICES ASSUME usb.bank.n < EP_SIZE \/ n = request.n PROVE Got'
    BY <1>2 DEF Got
  <2>1. n = Amount
    <3>1. CASE usb.bank.n < EP_SIZE
      BY <1>3, <1>4, <1>10, <1>11, <3>1
    <3>2. CASE n = request.n
      BY <1>4, <1>8, <1>10, <1>11, <1>13, <3>2
    <3>3. QED
      BY <3>1, <3>2
  <2>2. vals = {Value}
    BY <1>8, <1>9, <1>13, <2>1
  <2>3. reply' = [vals |-> {Value}, n |-> Amount]
    BY <1>2, <2>1, <2>2
  <2>4. QED
    BY <1>3, <1>6, <1>7, <2>3 DEF Got, IsReply
<1>16. stage' \in {"in", "statusout"}
  BY <1>2
<1>17. Calm' /\ Sized' /\ Unread' /\ Going' /\ Carried' /\ CallTookEffect'
  BY <1>2, <1>5, <1>6, <1>16 DEF EffectInv, Calm, Sized, Unread, Going, Carried, CallTookEffect
<1>18. QED
  BY <1>6, <1>14, <1>15, <1>17 DEF EffectInv

\* The host ends the transfer after the data,
LEMMA StatusOutEffect ==
    ASSUME IInv, EffectInv, StatusOut
    PROVE  EffectInv'
<1>1. /\ stage = "statusout" /\ usb.cpu = "runs" /\ stage' = "done"
      /\ usb' = [usb EXCEPT !.ep.state = "EP_IDLE"]
      /\ UNCHANGED <<ram, chip, eeprom, program0, reply, address, faults>>
  BY DEF StatusOut
<1>2. usb'.cpu = "runs"
  BY <1>1 DEF IInv, DeviceTypes, UsbType
<1>3. Asked' /\ call' = call /\ lib' = lib
  <2>1. InTransfer
    BY <1>1 DEF InTransfer
  <2>2. QED
    BY <1>1, <2>1, StillAsked DEF EffectInv
<1>4. call.op \in Reads /\ IsReply(Value, Amount)
  BY <1>1 DEF EffectInv, Got
<1>5. IsReply(Value, Amount)'
  <2>1. Value' = Value /\ Amount' = Amount
    BY <1>1, <1>3, <1>4, SameAnswer
  <2>2. QED
    BY <1>1, <1>4, <2>1 DEF IsReply
<1>6. CallTookEffect'
  <2> DEFINE got == chip.shown.n + 1
  <2>1. /\ chip'.shown = chip.shown /\ chip.shown.n \in 0..255
        /\ call.op = "buf_read" => call.n \in {64, MAX_PSDU + 1}
    <3>1. chip'.shown = chip.shown /\ chip.shown.n \in 0..255
      BY <1>1 DEF IInv, DeviceTypes, ChipType, FrameType
    <3>2. call \in CallSet \cup {NoCall}
      BY DEF IInv, HostTypes
    <3>3. call.op = "buf_read" => call.n \in {64, MAX_PSDU + 1}
      BY <3>2 DEF CallSet, NoCall, Plain
    <3>4. QED
      BY <3>1, <3>3
  <2>2. call.op = "buf_read" =>
          /\ IsReply(chip.shown.val, IF lib = "usb" THEN Least(got, call.n) ELSE SRAM_SIZE)'
          /\ reply'.n = IF lib = "usb" THEN Least(got, call.n) ELSE SRAM_SIZE
    BY <1>1, <1>3, <1>5, <2>1 DEF Value, Amount, IsReply
  <2>3. call.op = "buf_read" =>
          BufReadReturns' = IF got <= call.n /\ (lib = "usb-spi" => got <= MAX_PSDU)
                            THEN got
                            ELSE IF lib = "usb" THEN call.n ELSE -1
    BY <1>3, <2>1, <2>2 DEF BufReadReturns, Least, SRAM_SIZE, MAX_PSDU, IInv, HostTypes
  <2>4. call.op # "buf_read" => CallTookEffect'
    BY <1>1, <1>3, <1>4, <1>5 DEF CallTookEffect, Value, Amount, Reads
  <2>5. QED
    BY <1>1, <1>3, <2>1, <2>2, <2>3, <2>4 DEF CallTookEffect
<1>7. Calm' /\ Sized' /\ Unread' /\ Coming' /\ Got' /\ Going' /\ Carried'
  BY <1>1, <1>2, <1>3 DEF EffectInv, Calm, Sized, Unread, Coming, Got, Going, Carried
<1>8. QED
  BY <1>3, <1>6, <1>7 DEF EffectInv

LEMMA AllBurned ==
    ASSUME Burned(EUI64_LEN)
    PROVE  InEeprom = call.val
<1>1. 0 \in Bytes0 /\ \A b \in Bytes0 : eeprom[b] = call.val
  BY Constants DEF Burned, Bytes0
<1>2. {eeprom[b] : b \in Bytes0} = {call.val}
  BY <1>1
<1>3. Cardinality({eeprom[b] : b \in Bytes0}) = 1
  BY <1>2, FS_Singleton
<1>4. QED
  BY <1>1, <1>3 DEF InEeprom

\* and the device with an empty packet, which it sends when all is done.
LEMMA StatusInEffect ==
    ASSUME IInv, EffectInv, StatusIn
    PROVE  EffectInv'
<1>1. /\ stage = "status" /\ usb.bank # NoBank /\ stage' = "done"
      /\ usb' = [usb EXCEPT !.bank = NoBank]
      /\ UNCHANGED <<ram, chip, eeprom, program0, reply, faults>>
  BY DEF StatusIn
<1>2. usb'.cpu = usb.cpu /\ usb'.udaddr = usb.udaddr
  BY <1>1 DEF IInv, DeviceTypes, UsbType
<1>3. Asked' /\ call' = call /\ lib' = lib
  <2>1. InTransfer
    BY <1>1 DEF InTransfer
  <2>2. QED
    BY <1>1, <2>1, StillAsked DEF EffectInv
<1>4. call.op \notin Reads \cup {"test_mode", "reset"} /\ Effect
      /\ (call.op = "eui_write" => Burning)
  BY <1>1 DEF EffectInv, Carried
<1>5. usb.cpu # "eeprom" /\ (call.op = "eui_write" => Burned(EUI64_LEN))
  BY <1>1, <1>4 DEF EffectInv, Calm, Burning
<1>6. call.op = "eui_write" => InEeprom = call.val
  BY <1>5, AllBurned
<1>7. InEeprom' = InEeprom
  BY <1>1 DEF InEeprom
<1>8. CallTookEffect'
  BY <1>1, <1>2, <1>3, <1>4, <1>6, <1>7 DEF CallTookEffect, Effect, Reads
<1>9. Calm' /\ Sized' /\ Unread' /\ Coming' /\ Got' /\ Going' /\ Carried'
  BY <1>1, <1>2, <1>3, <1>4, <1>5
     DEF EffectInv, Calm, Sized, Unread, Coming, Got, Going, Carried, Reads
<1>10. QED
  BY <1>3, <1>8, <1>9 DEF EffectInv

\* A frame that comes during a call is not the one the call reads.
LEMMA ArrivalEffect ==
    ASSUME IInv, EffectInv, FrameArrives
    PROVE  EffectInv'
<1>1. /\ call.op = "buf_read" /\ InTransfer
      /\ UNCHANGED <<usb, ram, eeprom, program0, stage, reply, address, faults>>
  BY DEF FrameArrives
<1>2. chip'.shown = chip.shown /\ chip'.reg = chip.reg /\ chip'.sram = chip.sram
  BY DEF FrameArrives, IInv, DeviceTypes, ChipType
<1>3. Asked' /\ call' = call /\ lib' = lib
  BY <1>1, StillAsked DEF EffectInv
<1>4. Value' = Value /\ Amount' = Amount
  BY <1>1, <1>2, <1>3, SameAnswer DEF Reads
<1>5. Source' = Source /\ ToCome' = ToCome
  BY <1>1 DEF Source, ToCome
<1>6. Coming' /\ Got'
  BY <1>1, <1>3, <1>4, <1>5 DEF EffectInv, Coming, Got, IsReply
<1>7. Calm' /\ Sized' /\ Unread' /\ Going' /\ Carried'
  BY <1>1, <1>3 DEF EffectInv, Calm, Sized, Unread, Going, Carried, Reads
<1>8. stage' # "done"
  BY <1>1 DEF InTransfer
<1>9. QED
  BY <1>3, <1>6, <1>7, <1>8 DEF EffectInv, CallTookEffect

LEMMA EffectInit == UsbInit => EffectInv
<1> SUFFICES ASSUME UsbInit PROVE EffectInv
  OBVIOUS
<1>1. stage = "idle"
  BY DEF UsbInit
<1>2. QED
  BY <1>1
     DEF EffectInv, Asked, InTransfer, Calm, Sized, Unread, Coming, Got, Going, Carried,
         CallTookEffect

LEMMA EffectNext == IInv /\ EffectInv /\ [UsbNext]_usbVars => EffectInv'
<1> SUFFICES ASSUME IInv, EffectInv, [UsbNext]_usbVars PROVE EffectInv'
  OBVIOUS
<1>1. CASE \E c \in CallSet : Begin(c)
  BY <1>1, BeginEffect
<1>2. CASE HandleSetup
  BY <1>2, SetupEffect
<1>3. CASE EpRx \/ EepromByte \/ EpTxNext \/ EnableAddr
  BY <1>3, EpRxEffect, EepromEffect, EpTxEffect, AddressEffect
<1>4. CASE InPacket \/ StatusOut \/ StatusIn
  BY <1>4, InPacketEffect, StatusOutEffect, StatusInEffect
<1>5. CASE Fail \/ NewProgram \/ EndOfReset \/ Restart
  <2>1. stage' = "idle"
    BY <1>5 DEF Fail, NewProgram, EndOfReset, Restart
  <2>2. QED
    BY <2>1, Failed
<1>6. CASE FrameArrives
  BY <1>6, ArrivalEffect
<1>7. CASE ClearError \/ UNCHANGED usbVars
  <2>1. UNCHANGED <<usb, ram, chip, eeprom, lib, call, request, stage, reply>>
    BY <1>7 DEF ClearError, usbVars, program0
  <2>2. /\ RequestOf(call)' = RequestOf(call) /\ InEeprom' = InEeprom
        /\ Source' = Source /\ ToCome' = ToCome /\ InTransfer' = InTransfer
    BY <2>1 DEF RequestOf, ByCommand, BySpi, ByCommon, SetClkm, ByTool, ByKernel, InEeprom,
                Source, ToCome, InTransfer
  <2>3. call.op \in Reads => Value' = Value /\ Amount' = Amount
    BY <2>1, SameAnswer
  <2>4. Asked' /\ Calm' /\ Sized' /\ Unread' /\ Going'
    BY <2>1, <2>2 DEF EffectInv, Asked, Calm, Sized, Unread, Going
  <2>5. Coming' /\ Got'
    BY <2>1, <2>2, <2>3 DEF EffectInv, Coming, Got, IsReply
  <2>6. Carried'
    BY <2>1 DEF EffectInv, Carried, Effect, Burning, Burned
  <2>7. CallTookEffect'
    BY <2>1, <2>2 DEF EffectInv, CallTookEffect, IsReply, BufReadReturns
  <2>8. QED
    BY <2>4, <2>5, <2>6, <2>7 DEF EffectInv
<1>8. QED
  BY <1>1, <1>2, <1>3, <1>4, <1>5, <1>6, <1>7 DEF UsbNext

\* A call of either driver that returns without an error has done in the device what
\* it is for and returns what the device had, wherever in a transfer timeouts, new
\* programs, bus resets and restarts of the CPU have come before it.
THEOREM CallsTakeEffect == UsbSpec => []CallTookEffect
<1>1. EffectInv => CallTookEffect
  BY DEF EffectInv
<1>2. QED
  BY <1>1, InvInit, InvNext, EffectInit, EffectNext, PTL DEF UsbSpec
=============================================================================
