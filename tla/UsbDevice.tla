------------------------------ MODULE UsbDevice ------------------------------
(***************************************************************************)
(* A call of the transceiver library that uses atusb, all the way down:    *)
(* the driver (tools/lib/atusb.c or atusb-spi.c, which use different       *)
(* requests for the same thing, and atusb-common.c) makes a control        *)
(* transfer of it; the firmware's USB stack (usb/usb.c, usb/atu2.c) and    *)
(* its commands (ep0.c) handle the transfer packet by packet, with one     *)
(* buffer and one size for all commands.  Calls of atusb-eui64 and what    *)
(* the kernel does to enumerate the device go the same way.                *)
(*                                                                         *)
(* One interrupt is one step.  In between, a transfer can time out, the    *)
(* program can be killed and another one started, the bus and the CPU can  *)
(* be reset; whatever of the last transfer is left must not get into the   *)
(* next one.  do_eeprom_write() takes long enough for the watchdog to come *)
(* in between, and is one step per byte.                                   *)
(*                                                                         *)
(* External: the USB controller (a SETUP takes what is in the bank of EP0; *)
(* the status stage of one transfer is served before the SETUP of the      *)
(* next), the transceiver's registers, SRAM and frame buffer.              *)
(***************************************************************************)
EXTENDS UsbEndpoint, FiniteSets, Integers

CONSTANTS
    Values,         \* what a register can be set to and a frame can contain
    Lengths,        \* of frames
    EUI64_LEN,      \* bytes of an EUI-64 (8)
    BUILD_LEN,      \* bytes of the reply to ATUSB_BUILD (some 40)
    Calls, Faults   \* bounds: calls that are made, resets that happen

MAX_PSDU == 127
SRAM_SIZE == 128
BUF_SIZE == MAX_PSDU + 3
DESCR_SIZE == 18

ASSUME UsbDeviceAssumption ==
    /\ "reset" \notin Values /\ "mix" \notin Values /\ "zero" \notin Values
    /\ Lengths \subseteq 1..MAX_PSDU
    /\ EUI64_LEN \in 1..8 /\ BUILD_LEN \in EUI64_LEN..63
    /\ Calls \in Nat /\ Faults \in Nat

VARIABLES
    usb,        \* EP0 of the device: eps[0], its bank, the address, ...
    ram,        \* statics of ep0.c and dfu.c, and the watchdog
    chip,       \* the transceiver
    eeprom,
    lib,        \* the driver: "usb" or "usb-spi"
    call,       \* the call being made or made last
    request,    \* its SETUP packet
    stage,      \* of the control transfer; "idle" after a failure
    reply,      \* what the host has received of the data
    address,    \* the host has given the device one
    failed,     \* dsc->error
    calls, faults
program0 == <<lib, call, request, failed, calls>>
usbVars == <<usb, ram, chip, eeprom, program0, stage, reply, address, faults>>
-----------------------------------------------------------------------------
Least(a, b) == IF a < b THEN a ELSE b

Contents == Values \cup {"reset", "mix", "zero", "id", "build", "descriptor"}
Bytes0 == 0..(EUI64_LEN - 1)
Spaces == {"reg", "sram", "frame", "none"}

NoBank == [val |-> "none", n |-> 0]
Banks == [val : Contents, n : 0..EP_SIZE]

IdleEp == Opened("EP_IDLE", "zero", 0, "none")
UsbReset == [ep |-> IdleEp, bank |-> NoBank, cpu |-> "runs", udaddr |-> 0, addr |-> 0]

\* buf: its command, its second byte, and how many bytes of what have come after.
NoBuf == [cmd |-> "none", arg |-> "zero", val |-> "zero", n |-> 0]
FwReset == [buf |-> NoBuf, size |-> 0, user_setup |-> "my_setup", dfu |-> "appIDLE",
            i |-> 0, watchdog |-> FALSE]

NoFrame0 == [val |-> "reset", n |-> 1]
ChipReset == [reg |-> "reset", sram |-> "reset", frame |-> NoFrame0, shown |-> NoFrame0,
              pulse |-> FALSE]

NoCall == [op |-> "none", val |-> "zero", n |-> 0]
NoReply == [vals |-> {}, n |-> 0]
NoRequest == [name |-> "none", cmd |-> "none", val |-> "zero", n |-> 0]

\* What can be asked for.  atusb_slp_tr() makes a request only if the line is to be
\* pulsed high.
Plain == {"reg_read", "sram_read", "reset_rf", "slp_tr", "set_clkm", "reset", "test_mode",
          "build", "eui_read", "set_address", "detach"}
CallSet ==
    [op : Plain, val : {"zero"}, n : {0}]
        \cup [op : {"reg_write", "sram_write", "eui_write"}, val : Values, n : {0}]
        \cup [op : {"buf_write"}, val : Values, n : Lengths]
        \cup [op : {"buf_read"}, val : {"zero"}, n : {64, MAX_PSDU + 1}]
        \cup [op : {"get_descriptor"}, val : {"zero"}, n : {8, 255}]
        \cup [op : {"set_interface"}, val : {"zero"}, n : {0, 1}]

UsbInit ==
    /\ usb = UsbReset /\ ram = FwReset /\ chip = ChipReset
    /\ eeprom = [b \in Bytes0 |-> "reset"]
    /\ lib \in {"usb", "usb-spi"}
    /\ call = NoCall /\ request = NoRequest /\ stage = "idle" /\ reply = NoReply
    /\ address = FALSE /\ failed = FALSE
    /\ calls = 0 /\ faults = 0
-----------------------------------------------------------------------------
(* The host: which request a call makes                                    *)

Setup0(name, cmd, val, n) == [name |-> name, cmd |-> cmd, val |-> val, n |-> n]

\* atusb.c
ByCommand(c) ==
    CASE c.op = "reg_write"  -> Setup0("REG_WRITE", "reg", c.val, 0)
      [] c.op = "reg_read"   -> Setup0("REG_READ", "reg", "zero", 1)
      [] c.op = "sram_write" -> Setup0("SRAM_WRITE", "sram", "zero", 1)
      [] c.op = "sram_read"  -> Setup0("SRAM_READ", "sram", "zero", 1)
      [] c.op = "buf_write"  -> Setup0("BUF_WRITE", "frame", "zero", c.n)
      [] c.op = "buf_read"   -> Setup0("BUF_READ", "frame", "zero", c.n)

\* atusb-spi.c: a register is written with the two bytes in the SETUP packet.
BySpi(c) ==
    CASE c.op = "reg_write"  -> Setup0("SPI_WRITE", "reg", c.val, 0)
      [] c.op = "reg_read"   -> Setup0("SPI_READ1", "reg", "zero", 1)
      [] c.op = "sram_write" -> Setup0("SPI_WRITE", "sram", "zero", 1)
      [] c.op = "sram_read"  -> Setup0("SPI_READ2", "sram", "zero", 1)
      [] c.op = "buf_write"  -> Setup0("SPI_WRITE", "frame", "zero", c.n)
      [] c.op = "buf_read"   -> Setup0("SPI_READ1", "frame", "zero", SRAM_SIZE)

\* atusb-common.c; set_clkm() only asks which board it is.
ByCommon(c) ==
    CASE c.op = "reset_rf"  -> Setup0("RF_RESET", "none", "zero", 0)
      [] c.op = "slp_tr"    -> Setup0("SLP_TR", "none", "zero", 0)
      [] c.op = "reset"     -> Setup0("RESET", "none", "zero", 0)
      [] c.op = "test_mode" -> Setup0("TEST", "none", "zero", 0)
SetClkm(c) == Setup0("ID", "none", "zero", 3)

\* atusb-eui64.c
ByTool(c) ==
    CASE c.op = "build"     -> Setup0("BUILD", "none", "zero", 256)
      [] c.op = "eui_read"  -> Setup0("EUI64_READ", "none", "zero", EUI64_LEN)
      [] c.op = "eui_write" -> Setup0("EUI64_WRITE", "none", "zero", EUI64_LEN)

\* The kernel, and dfu-util
ByKernel(c) ==
    CASE c.op = "detach"         -> Setup0("DFU_DETACH", "none", "zero", 0)
      [] c.op = "set_address"    -> Setup0("SET_ADDRESS", "none", "zero", 0)
      [] c.op = "set_interface"  -> Setup0("SET_INTERFACE", "none", "zero", 0)
      [] c.op = "get_descriptor" -> Setup0("GET_DESCRIPTOR", "none", "zero", c.n)

Access == {"reg_write", "reg_read", "sram_write", "sram_read", "buf_write", "buf_read"}
RequestOf(c) ==
    CASE c.op \in Access -> IF lib = "usb" THEN ByCommand(c) ELSE BySpi(c)
      [] c.op \in {"reset_rf", "slp_tr", "reset", "test_mode"} -> ByCommon(c)
      [] c.op = "set_clkm" -> SetClkm(c)
      [] c.op \in {"build", "eui_read", "eui_write"} -> ByTool(c)
      [] OTHER -> ByKernel(c)

FromDev == {"REG_READ", "SRAM_READ", "BUF_READ", "SPI_READ1", "SPI_READ2", "ID", "BUILD",
            "EUI64_READ", "GET_DESCRIPTOR"}

InTransfer == stage \in {"setup", "in", "out", "status", "statusout", "stalled"}

\* A call is made; after an error all calls return at once.  atusb-spi has no
\* reset() and no test_mode(), and atusb-eui64 writes after it has read the build.
Begin(c) ==
    /\ ~InTransfer /\ ~failed
    /\ calls < Calls
    /\ calls' = IF c.op = "set_address" THEN calls ELSE calls + 1
    /\ c.op = "set_address" <=> ~address
    /\ lib = "usb-spi" => c.op \notin {"reset", "test_mode"}
    /\ c.op = "eui_write" => stage = "done" /\ call.op = "build"
    /\ call' = c /\ request' = RequestOf(c) /\ reply' = NoReply
    /\ stage' = "setup"
    /\ chip' = [chip EXCEPT !.pulse = FALSE]
    /\ UNCHANGED <<usb, ram, eeprom, lib, address, failed, faults>>
-----------------------------------------------------------------------------
(* The firmware: struct ep_descr and the SPI                               *)

\* usb_io(); BUG_ON(ep->state)
UsbIo(u, state, from, n, callback) ==
    IF EpIdle(u.ep) THEN [u EXCEPT !.ep = Opened(state, from, n, callback)]
    ELSE [u EXCEPT !.cpu = "panic"]

\* The TXINI part of handle_ep(): ep_tx(), and the callback, enable_addr().
EpTx(u, val) ==
    IF u.cpu # "runs" \/ u.ep.state # "EP_TX" \/ u.bank # NoBank THEN u
    ELSE LET e == AfterPacket(u.ep)
         IN  [u EXCEPT !.ep = e,
                       !.bank = [val |-> IF u.ep.buf = "buf" THEN val ELSE u.ep.buf,
                                 n |-> PacketSize(u.ep)],
                       !.cpu = IF EpIdle(e) /\ e.callback = "enable_addr"
                               THEN "address" ELSE "runs"]

\* What handle_ep() does first with a SETUP.  The mutant leaves EP0 as it is.
Cancelled_NotMutant(u) == [u EXCEPT !.bank = NoBank]
Cancelled(u) == [u EXCEPT !.bank = NoBank, !.ep.state = "EP_IDLE"]

\* do_buf_write(): "size" bytes from buf to the SPI.
DoBufWrite(c, f) ==
    CASE f.buf.cmd = "reg"   -> [c EXCEPT !.reg = f.buf.arg]
      [] f.buf.cmd = "sram"  -> [c EXCEPT !.sram = IF f.size = f.buf.n + 2 THEN f.buf.val
                                                   ELSE "mix"]
      [] f.buf.cmd = "frame" ->
            [c EXCEPT !.frame = [val |-> IF f.size = f.buf.n + 2 THEN f.buf.val ELSE "mix",
                                 n |-> f.size - 2]]

\* The SETUP of a request has arrived, at the address the host sent it to.
Requested(name) ==
    /\ stage = "setup" /\ request.name = name
    /\ usb.cpu = "runs" /\ usb.addr = (IF address THEN 1 ELSE 0)

\* ep_setup() when handle_setup() returns 1: an empty packet answers a request
\* that is done with.
Accept(u, val) ==
    /\ usb' = EpTx(IF request.name \notin FromDev /\ EpIdle(u.ep)
                   THEN UsbIo(u, "EP_TX", "zero", 0, "none") ELSE u, val)
    /\ stage' = IF request.n = 0 THEN "status"
                ELSE IF request.name \in FromDev THEN "in" ELSE "out"
    /\ UNCHANGED <<program0, reply, address, faults>>

\* handle_ep(), stall: request not accepted
Refuse ==
    /\ usb' = Cancelled(usb)
    /\ stage' = "stalled"
    /\ UNCHANGED <<ram, chip, eeprom, program0, reply, address, faults>>

UsbSend(from, n, val) == Accept(UsbIo(Cancelled(usb), "EP_TX", from, n, "none"), val)
UsbRecv(n, callback) == Accept(UsbIo(Cancelled(usb), "EP_RX", "buf", n, callback), "zero")
Do == Accept(Cancelled(usb), "zero")
-----------------------------------------------------------------------------
(* The firmware: requests of usb.c                                         *)

SetAddress ==
    /\ Requested("SET_ADDRESS")
    /\ Accept(UsbIo([Cancelled(usb) EXCEPT !.udaddr = 1], "EP_TX", "zero", 0, "enable_addr"),
              "zero")
    /\ UNCHANGED <<ram, chip, eeprom>>

GetDescriptor ==
    /\ Requested("GET_DESCRIPTOR")
    /\ UsbSend("descriptor", Least(request.n, DESCR_SIZE), "zero")
    /\ UNCHANGED <<ram, chip, eeprom>>

\* my_set_interface()
SetInterface ==
    /\ Requested("SET_INTERFACE")
    /\ ram' = IF call.n = 1
             THEN [ram EXCEPT !.user_setup = "my_dfu_setup", !.dfu = "appIDLE"]
             ELSE [ram EXCEPT !.user_setup = "my_setup"]
    /\ Do
    /\ UNCHANGED <<chip, eeprom>>

\* my_dfu_setup()
DfuDetach ==
    /\ Requested("DFU_DETACH") /\ ram.user_setup = "my_dfu_setup"
    /\ ram' = [ram EXCEPT !.dfu = "appDETACH"]
    /\ Do
    /\ UNCHANGED <<chip, eeprom>>

Standard == {"SET_ADDRESS", "GET_DESCRIPTOR", "SET_INTERFACE"}
Mine(name) == Requested(name) /\ ram.user_setup = "my_setup"

Unrecognized ==
    /\ \/ Mine("TEST") \/ Mine("DFU_DETACH")
       \/ ram.user_setup = "my_dfu_setup" /\ request.name \notin Standard \cup {"DFU_DETACH"}
          /\ Requested(request.name)
    /\ Refuse
-----------------------------------------------------------------------------
(* The firmware: my_setup()                                                *)

GetId ==
    /\ Mine("ID")
    /\ UsbSend("id", request.n, "zero")
    /\ UNCHANGED <<ram, chip, eeprom>>

\* The text is put together in buf; "size" is its length.
GetBuild ==
    /\ Mine("BUILD")
    /\ ram' = [ram EXCEPT !.buf = [NoBuf EXCEPT !.val = "build", !.n = BUILD_LEN],
                        !.size = BUILD_LEN]
    /\ UsbSend("buf", BUILD_LEN, "build")
    /\ UNCHANGED <<chip, eeprom>>

\* reset_cpu(), and the CPU waits for it with interrupts off.
ResetRequest ==
    /\ Mine("RESET")
    /\ ram' = [ram EXCEPT !.watchdog = TRUE]
    /\ usb' = [Cancelled(usb) EXCEPT !.cpu = "loops"]
    /\ stage' = "status"
    /\ UNCHANGED <<chip, eeprom, program0, reply, address, faults>>

RfReset ==
    /\ Mine("RF_RESET")
    /\ chip' = [ChipReset EXCEPT !.frame = chip.frame, !.shown = chip.shown, !.sram = chip.sram]
    /\ Do
    /\ UNCHANGED <<ram, eeprom>>

SlpTr ==
    /\ Mine("SLP_TR")
    /\ chip' = [chip EXCEPT !.pulse = TRUE]
    /\ Do
    /\ UNCHANGED <<ram, eeprom>>

RegWrite ==
    /\ Mine("REG_WRITE")
    /\ chip' = [chip EXCEPT !.reg = request.val]
    /\ Do
    /\ UNCHANGED <<ram, eeprom>>

\* Requests that return what is in the transceiver, and that send it something
ReadData(val) ==
    /\ ram' = [ram EXCEPT !.buf = [NoBuf EXCEPT !.val = val, !.n = request.n]]
    /\ UsbSend("buf", request.n, val)
    /\ UNCHANGED <<chip, eeprom>>

WriteData ==
    /\ ram' = [ram EXCEPT !.buf = [NoBuf EXCEPT !.cmd = request.cmd],
                          !.size = (request.n + 2) % 256]
    /\ UsbRecv(request.n, "do_buf_write")
    /\ UNCHANGED <<chip, eeprom>>

RegRead == Mine("REG_READ") /\ ReadData(chip.reg)
SramRead == Mine("SRAM_READ") /\ ReadData(chip.sram)
SpiRead ==
    \/ Mine("SPI_READ1") /\ request.cmd = "reg" /\ ReadData(chip.reg)
    \/ Mine("SPI_READ2") /\ ReadData(chip.sram)
BufWrite == Mine("BUF_WRITE") /\ WriteData
SramWrite == Mine("SRAM_WRITE") /\ WriteData

\* PHR tells how much follows; the host gets no more than it asked for.  The
\* mutant takes PHR for the length of all that follows.
BufReadSize_NoLqiMutant(phr, wLength) == Least(phr, wLength)
BufReadSize(phr, wLength) == Least(phr + 1, wLength)

BufRead ==
    /\ Mine("BUF_READ")
    /\ LET n == BufReadSize(chip.frame.n, request.n)
       IN  /\ ram' = [ram EXCEPT !.buf = [NoBuf EXCEPT !.val = chip.frame.val, !.n = n],
                               !.size = n - 1]
           /\ UsbSend("buf", n, chip.frame.val)
    /\ chip' = [chip EXCEPT !.shown = chip.frame]
    /\ UNCHANGED eeprom

\* SPI_READ1 of the frame buffer: PHR, and then whatever is there
SpiBufRead ==
    /\ Mine("SPI_READ1") /\ request.cmd = "frame"
    /\ ram' = [ram EXCEPT !.buf = [NoBuf EXCEPT !.val = chip.frame.val, !.n = request.n]]
    /\ UsbSend("buf", request.n, chip.frame.val)
    /\ chip' = [chip EXCEPT !.shown = chip.frame]
    /\ UNCHANGED eeprom

SpiWrite ==
    /\ Mine("SPI_WRITE")
    /\ LET size == (request.n + 2) % 256
           f == [ram EXCEPT !.buf = [NoBuf EXCEPT !.cmd = request.cmd, !.arg = request.val],
                           !.size = size]
       IN  IF size > BUF_SIZE THEN Refuse
           ELSE /\ ram' = f
                /\ IF request.n > 0 THEN UsbRecv(request.n, "do_buf_write") /\ UNCHANGED chip
                   ELSE Do /\ chip' = DoBufWrite(chip, f)
                /\ UNCHANGED eeprom

\* The interrupt ends 100 ms later, after reset_cpu(); the watchdog is running.
Eui64Write ==
    /\ Mine("EUI64_WRITE")
    /\ ram' = [ram EXCEPT !.buf = NoBuf, !.watchdog = TRUE]
    /\ UsbRecv(request.n, "do_eeprom_write")
    /\ UNCHANGED <<chip, eeprom>>

InEeprom == IF Cardinality({eeprom[b] : b \in Bytes0}) = 1 THEN eeprom[0] ELSE "mix"

Eui64Read ==
    /\ Mine("EUI64_READ")
    /\ ram' = [ram EXCEPT !.buf = [NoBuf EXCEPT !.val = InEeprom, !.n = EUI64_LEN]]
    /\ UsbSend("buf", EUI64_LEN, InEeprom)
    /\ UNCHANGED <<chip, eeprom>>

MySetup ==
    \/ GetId \/ GetBuild \/ ResetRequest \/ RfReset \/ SlpTr
    \/ RegWrite \/ RegRead \/ BufWrite \/ BufRead \/ SramWrite \/ SramRead
    \/ SpiWrite \/ SpiRead \/ SpiBufRead \/ Eui64Write \/ Eui64Read
HandleSetup ==
    SetAddress \/ GetDescriptor \/ SetInterface \/ DfuDetach \/ Unrecognized \/ MySetup
-----------------------------------------------------------------------------
(* Data and status stages                                                  *)

\* ep_rx() of the last packet: the callback, and an empty packet in return.
Received(u) == EpTx(UsbIo([u EXCEPT !.ep.state = "EP_IDLE"], "EP_TX", "zero", 0, "none"), "zero")

\* The host sends a packet, and handle_ep() has it.
EpRx ==
    /\ stage = "out" /\ usb.cpu = "runs"
    /\ usb.ep.state = "EP_RX"
    /\ LET n == Least(EP_SIZE, request.n - ram.buf.n)
           u == [usb EXCEPT !.ep.left = @ - n]
           f == [ram EXCEPT !.buf.val = call.val, !.buf.n = @ + n, !.i = 0]
       IN  /\ ram' = f
           /\ stage' = IF f.buf.n = request.n THEN "status" ELSE "out"
           /\ IF u.ep.left > 0 THEN usb' = u /\ UNCHANGED chip
              ELSE IF u.ep.callback = "do_eeprom_write"
                THEN usb' = [u EXCEPT !.cpu = "eeprom"] /\ UNCHANGED chip
              ELSE usb' = Received(u) /\ chip' = DoBufWrite(chip, f)
    /\ UNCHANGED <<eeprom, program0, reply, address, faults>>

\* do_eeprom_write(): a byte, or the end of the loop.
EepromByte ==
    /\ usb.cpu = "eeprom"
    /\ IF ram.i < ram.size
         THEN /\ ram' = [ram EXCEPT !.i = @ + 1]
              /\ eeprom' = IF ram.i \in Bytes0 THEN [eeprom EXCEPT ![ram.i] = ram.buf.val] ELSE eeprom
              /\ UNCHANGED usb
         ELSE usb' = Received([usb EXCEPT !.cpu = "runs"]) /\ UNCHANGED <<ram, eeprom>>
    /\ UNCHANGED <<chip, program0, stage, reply, address, faults>>

\* TXINI: the host has taken the last packet, and there is more to send.
EpTxNext ==
    /\ usb.cpu = "runs" /\ usb.ep.state = "EP_TX" /\ usb.bank = NoBank
    /\ usb' = EpTx(usb, ram.buf.val)
    /\ UNCHANGED <<ram, chip, eeprom, program0, stage, reply, address, faults>>

\* enable_addr(), called when the packet is in the bank, waits until it is not.
EnableAddr ==
    /\ usb.cpu = "address" /\ usb.bank = NoBank
    /\ usb' = [usb EXCEPT !.cpu = "runs", !.addr = usb.udaddr]
    /\ UNCHANGED <<ram, chip, eeprom, program0, stage, reply, address, faults>>

\* The host takes a packet of data; a short one is the last.
InPacket ==
    /\ stage = "in" /\ usb.bank # NoBank
    /\ reply' = [vals |-> reply.vals \cup (IF usb.bank.n = 0 THEN {} ELSE {usb.bank.val}),
                 n |-> reply.n + usb.bank.n]
    /\ stage' = IF usb.bank.n < EP_SIZE \/ reply'.n = request.n THEN "statusout" ELSE "in"
    /\ usb' = [usb EXCEPT !.bank = NoBank]
    /\ UNCHANGED <<ram, chip, eeprom, program0, address, faults>>

\* The host ends it with an empty packet, which handle_ep() stalls.
StatusOut ==
    /\ stage = "statusout" /\ usb.cpu = "runs"
    /\ stage' = "done"
    /\ usb' = [usb EXCEPT !.ep.state = "EP_IDLE"]
    /\ UNCHANGED <<ram, chip, eeprom, program0, reply, address, faults>>

\* The host takes the empty packet that ends a request to the device.
StatusIn ==
    /\ stage = "status" /\ usb.bank # NoBank
    /\ usb' = [usb EXCEPT !.bank = NoBank]
    /\ stage' = "done"
    /\ address' = (address \/ call.op = "set_address")
    /\ UNCHANGED <<ram, chip, eeprom, program0, reply, faults>>
-----------------------------------------------------------------------------
(* What goes wrong                                                         *)

\* usb_control_msg() fails: the device stalls, does not answer in time, or is gone.
Fail ==
    /\ InTransfer
    /\ stage' = "idle"
    /\ failed' = TRUE
    /\ UNCHANGED <<usb, ram, chip, eeprom, lib, call, request, reply, address, calls, faults>>

ClearError ==
    /\ failed
    /\ failed' = FALSE
    /\ UNCHANGED <<usb, ram, chip, eeprom, lib, call, request, stage, reply, address, calls, faults>>

\* The program ends, or is killed where it is, and another one is started.
NewProgram ==
    /\ stage' = "idle" /\ failed' = FALSE /\ call' = NoCall
    /\ lib' \in {"usb", "usb-spi"}
    /\ UNCHANGED <<usb, ram, chip, eeprom, request, reply, address, calls, faults>>

\* USB_GEN_vect: my_reset() and ep_init().  The controller forgets its address.
EndOfReset ==
    /\ faults < Faults /\ faults' = faults + 1
    /\ usb.cpu \in {"runs", "address"}
    /\ usb' = UsbReset
    /\ ram' = [ram EXCEPT !.watchdog = @ \/ ram.dfu = "appDETACH"]
    /\ address' = FALSE
    /\ stage' = "idle" /\ failed' = (failed \/ InTransfer)
    /\ UNCHANGED <<chip, eeprom, lib, call, request, reply, calls>>

\* The watchdog, or the user, resets the CPU: main() again.
Restart ==
    /\ \/ ram.watchdog /\ UNCHANGED faults
       \/ faults < Faults /\ faults' = faults + 1
    /\ usb' = UsbReset /\ ram' = FwReset
    /\ chip' = [ChipReset EXCEPT !.frame = chip.frame, !.shown = chip.shown, !.sram = chip.sram]
    /\ address' = FALSE
    /\ stage' = "idle" /\ failed' = (failed \/ InTransfer)
    /\ UNCHANGED <<eeprom, lib, call, request, reply, calls>>

\* A frame is received while the program reads the last one.
FrameArrives ==
    /\ InTransfer /\ call.op = "buf_read"
    /\ \E n \in Lengths, val \in Values : chip' = [chip EXCEPT !.frame = [val |-> val, n |-> n]]
    /\ UNCHANGED <<usb, ram, eeprom, program0, stage, reply, address, faults>>

UsbNext ==
    \/ \E c \in CallSet : Begin(c)
    \/ HandleSetup \/ EpRx \/ EepromByte \/ EpTxNext \/ EnableAddr
    \/ InPacket \/ StatusOut \/ StatusIn
    \/ Fail \/ ClearError \/ NewProgram \/ EndOfReset \/ Restart \/ FrameArrives

UsbSpec == UsbInit /\ [][UsbNext]_usbVars
-----------------------------------------------------------------------------
(* Properties                                                              *)

\* What EP0 and the program can hold: in the firmware, only uint8_t's and what the
\* commands put into buf.
UsbTypeOK ==
    /\ usb.ep.state \in {"EP_IDLE", "EP_RX", "EP_TX"} /\ usb.ep.left \in 0..255
    /\ usb.ep.buf \in {"buf", "zero", "id", "descriptor"}
    /\ usb.ep.callback \in {"none", "enable_addr", "do_buf_write", "do_eeprom_write"}
    /\ usb.bank \in Banks \cup {NoBank}
    /\ usb.cpu \in {"runs", "address", "eeprom", "loops", "panic"}
    /\ usb.udaddr \in {0, 1} /\ usb.addr \in {0, 1}
    /\ ram.buf \in [cmd : Spaces, arg : Contents, val : Contents, n : Nat]
    /\ ram.size \in 0..255 /\ ram.i \in 0..255
    /\ ram.user_setup \in {"my_setup", "my_dfu_setup"}
    /\ ram.dfu \in {"appIDLE", "appDETACH"} /\ ram.watchdog \in BOOLEAN
    /\ chip.reg \in Contents /\ chip.sram \in Contents /\ chip.pulse \in BOOLEAN
    /\ chip.frame \in [val : Contents, n : 0..255] /\ chip.shown \in [val : Contents, n : 0..255]
    /\ eeprom \in [Bytes0 -> Contents]
    /\ lib \in {"usb", "usb-spi"} /\ call \in CallSet \cup {NoCall}
    /\ stage \in {"idle", "setup", "in", "out", "status", "statusout", "stalled", "done"}
    /\ reply \in [vals : SUBSET Contents, n : Nat]
    /\ address \in BOOLEAN /\ failed \in BOOLEAN
    /\ calls \in 0..Calls /\ faults \in 0..Faults

\* EP0 and its one buffer: everything keeps its type, no BUG_ON fails, and no
\* transfer, coming or going, goes past the end of buf, whatever was going on when a
\* request came.
Ep0Safe ==
    /\ UsbTypeOK
    /\ usb.cpu # "panic"
    /\ usb.ep.state = "EP_RX" => 2 + ram.buf.n + usb.ep.left <= BUF_SIZE
    /\ usb.ep.state = "EP_TX" /\ usb.ep.buf = "buf" => ram.buf.n <= BUF_SIZE

\* What the host has got is all of it, and nothing else.
IsReply(val, n) == reply = [vals |-> {val}, n |-> n]

\* What buf_read() returns.  atusb_spi_buf_read() goes by PHR, which is the first
\* byte it has got, and returns -1 for a frame that does not fit; dsc->error is not
\* set then.
BufReadReturns ==
    LET got == chip.shown.n + 1
    IN  IF lib = "usb" THEN reply.n
        ELSE IF got >= reply.n \/ got > call.n THEN -1 ELSE got

\* A call that returns without an error has done in the device what it is for, and
\* returns what the device had: one value, one frame, whole.  So it is after
\* transfers that were cut off anywhere, with either driver, with data that fills
\* its packets exactly, and with the watchdog running.  A frame that is longer than
\* what buf_read() has room for is cut off there by atusb, and refused by atusb-spi,
\* which refuses the longest one always.
CallTookEffect ==
    stage = "done" =>
        /\ call.op = "reg_write" => chip.reg = call.val
        /\ call.op = "sram_write" => chip.sram = call.val
        /\ call.op = "buf_write" => chip.frame = [val |-> call.val, n |-> call.n]
        /\ call.op = "reg_read" => IsReply(chip.reg, 1)
        /\ call.op = "sram_read" => IsReply(chip.sram, 1)
        /\ call.op = "buf_read" =>
              LET got == chip.shown.n + 1
              IN  /\ IsReply(chip.shown.val, IF lib = "usb" THEN Least(got, call.n) ELSE SRAM_SIZE)
                  /\ BufReadReturns = IF got <= call.n /\ (lib = "usb-spi" => got <= MAX_PSDU)
                                      THEN got
                                      ELSE IF lib = "usb" THEN call.n ELSE -1
        /\ call.op = "reset_rf" => chip.reg = "reset"
        /\ call.op = "slp_tr" => chip.pulse
        /\ call.op = "set_clkm" => IsReply("id", 3)
        /\ call.op = "build" => IsReply("build", BUILD_LEN)
        /\ call.op = "eui_read" => IsReply(InEeprom, EUI64_LEN)
        /\ call.op = "eui_write" => InEeprom = call.val
        /\ call.op = "get_descriptor" => IsReply("descriptor", Least(call.n, DESCR_SIZE))
        /\ call.op = "set_address" => usb.udaddr = 1
        /\ call.op = "set_interface" =>
              ram.user_setup = (IF call.n = 1 THEN "my_dfu_setup" ELSE "my_setup")
        /\ call.op = "detach" => ram.dfu = "appDETACH"
        /\ call.op \notin {"reset", "test_mode"}
=============================================================================
