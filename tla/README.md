# atusb in TLA+

Models, model checking and proofs for the programs of the repository: the
firmware of the atusb IEEE 802.15.4 dongle, its boot loader, and the tools that
talk to it. Definitions are translated from the source; `PROJECT.json` gives
the lines of each under "map". Paths below are relative to `src/`.

## 1. The system

### Parts

| Part | State it keeps | Operations | What makes it correct |
|---|---|---|---|
| HardMAC, `atusb/fw/mac.c`, `board_app.c` | receive ring, `txing`, a queued answer and its sequence numbers, the endpoint EP1 | INT0 from the transceiver, completion of an EP1 packet, requests RX_MODE, TX, RF_RESET, bus reset | frames reach the host whole, in order, once; an answer per transmission; nothing overwritten while EP1 sends it; no panic |
| Clock and interrupt line, `board_app.c`, `board_atusb.c` | `timer_h`, INT0 and its mask, the interrupt byte on EP1 | overflow of timer 1, `timer_read()`, INT0 without HardMAC, GPIO requests | the time is that of one moment; a line that is high is not forgotten |
| EP0 protocol, `ep0.c`, `board*.c`, `spi.c` | one buffer, its size, one pending data stage | some 25 vendor requests | a data stage goes to the request that announced it; sizes fit the buffer |
| USB stack, `usb/usb.c`, `usb/atu2.c` | endpoint state, buffer, callback | SETUP, OUT, IN, bus reset | a transfer is opened on an idle endpoint only and ends once |
| DFU boot loader, `boot.c`, `usb/dfu*.c`, `flash.c` | `struct dfu`, `next_block`, `payload`, page buffer, Flash | DFU_DNLOAD, UPLOAD, ABORT, CLRSTATUS, time-out into the application | the Flash holds what was downloaded; the loader never touches itself; the application starts when, and only when, it should |
| dirtpan, `tools/dirtpan/dirtpan.c` | one packet being sent, one being reassembled, two timers, a sequence bit each way | frame or packet arrives, ack and reassembly timeouts | packets arrive whole and in order; asserts hold; both sides make progress |
| atrf-proxy, `tools/atrf-proxy`, `tools/lib/atnet.c`, `netio.c` | buffered TCP stream, error flag | a line of request, a line of reply | replies match requests; a failure is noticed |
| Host drivers, `tools/lib/atusb*.c`, `atben.c` | error flag, USB handle | register, SRAM and buffer access, TX, RX, wait for interrupt | a call that returns without an error did in the device what it is for; a frame is returned whole |
| Transceiver library, `tools/lib/atrf.c`, `misctxrx.c`, `cwtest.c` | the driver in use, what a constant wave needs to go on | `wait_for_interrupt()`, `cw_test_*()` | an interrupt that is there ends the wait; the wave is the one asked for, on any device |
| Counter, `cntr/fw`, `cntr/tools` | 16 bit hardware counter, 32 bit extension, 64 bit total | polling, measuring, counting of bursts | a sample is the count of one moment; no edge is lost between bursts |
| `atrf-txrx` | a sequence number, the frame buffer of the transceiver | a mode per run, several with a peer | what is sent is what was put together; ping-pong goes on when frames get lost |
| `atrf-path` | levels, whether one failed, the decision so far | sweeps over channels and offsets | the decision is that of all sweeps |
| `usbwait`, `tools/lib/usbopen.c` | libusb's list of devices | rescan and open, again and again | a device that comes is found |
| Other tools (`atrf-rssi`, `atrf-trim`, ...) | none beyond a run | straight sequences of accesses | - |
| `atusb-sil/`, `usrp/`, hardware, production, web | - | - | not modelled, see section 7 |

### How they interact

The transceiver raises INT0; `handle_irq()` reads it over SPI and gives frames
and answers to EP1. The host collects EP1 packet by packet and sends requests on
EP0, whose SETUP cancels whatever EP0 was doing. INT0, USB_COM and USB_GEN
share the statics of `mac.c` and `eps[]`; they do not nest, so what interleaves
are whole handlers, the radio and the host. SET_INTERFACE, DFU_DETACH and a bus
reset lead from the application to the boot loader, which runs the same USB
stack with other callbacks; a time-out leads back. Two dirtpan processes share
nothing but a radio link that loses frames. A tool reaches its transceiver
through a driver: atusb.c and atben.c use the device, atnet.c sends each call as
a line to atrf-proxy, which makes it on a driver of its own and answers with a
line. The proxy serves one TCP connection after the other.

### What is hard

One endpoint for frames, answers and interrupt bytes, with a callback deciding
what comes next; a ring in which full and empty look alike; answers sent by
reference to variables that change; resets that idle an endpoint under a
transfer. A write permitted in one interrupt and done in another; a state that
is overwritten after an error. Acknowledgements that are lost or late, told
apart by one bit; a packet resent that was received. A refused request of which
a part was not read, an answer of which a part was not read, and the next one
behind it; an error flag that stays set, looked at by some calls and not by
others. A control transfer cut off anywhere by a time-out, a reset or the end of
the program, and the next one behind it. An interrupt line of which the hardware
sees the edge only; a counter read in two halves while it counts; one frame buffer
for two directions; a list of devices that is old when it is used. "hazards" in
`PROJECT.json` lists these and others by line, with the property that is about
each, or the reason why there is none yet.

## 2. Modules

| Module | What it is |
|---|---|
| `UsbEndpoint` | an endpoint as usb.h and `ep_tx()` have it; used by HardMac, UsbDevice and HostMac |
| `HardMac` | the HardMAC with its interrupt handlers, the EP1 half of the USB stack, the radio and the host |
| `FramePipe` | what the receive path promises: a bounded pipe. HardMac implements it (`PipeSpec`) |
| `Dfu` | the boot loader, the Flash, and the application's way back into it |
| `Dirtpan` | two dirtpan peers and the link between them |
| `PacketLink` | what dirtpan promises the two IP stacks. Dirtpan implements it in each direction (`LinkSpec`) |
| `NetProxy` | clients with the network driver, atrf-proxy with a driver of its own, and the connections between them |
| `UsbDevice` | a control transfer all the way: the drivers of the host, EP0 of the USB stack, the commands of ep0.c, the EEPROM, and enumeration |
| `HostMac` | the host's side of the HardMAC: atusb_rx() and atusb_tx(), and the programs on them |
| `IrqPath` | an interrupt of the transceiver on its way to a program that drives the chip itself, on atusb and on atben |
| `Timer` | the firmware's clock, and `timer_read()` |
| `Counter` | the frequency counter: hardware, firmware and tool |
| `TxRx` | atrf-txrx on two stations that hear each other |
| `Sweep` | atrf-path with the constant waves of cwtest.c |
| `UsbWait` | usbwait on usbopen.c, while devices come and go |
| `MCHardMac`, `MCDfu`, `MCDirtpan`, `MCNetProxy` | instances for TLC |
| `MCDevice`, `MCTools` | instances of UsbDevice, HostMac, Timer and Counter, and of IrqPath, Sweep, TxRx and UsbWait. In a behaviour one of them runs, `machine`, and the others rest in their initial state, so that the modules share a run but nothing else |
| `HardMacProofs`, `DfuProofs`, `DirtpanProofs`, `NetProxyProofs`, `UsbDeviceProofs` | theorems about the module each is named after |
| `ClockProofs`, `HostProofs`, `ToolsProofs` | theorems about Timer and Counter, about IrqPath and HostMac, and about Sweep and TxRx |

A definition marked "Mutant" is a wrong version of the one that follows. It is
used by no specification; put in the place of the right one it makes TLC find a
violation, which shows that the property is not true by itself.

### HardMac

C functions that other functions call (`usb_next`, `rx_done`, `handle_irq`,
`receive_frame`, ...) are operators on the record `mac` of the variables they
share: the statics of mac.c, `irq_serial` and `eps[1]`. Handlers are actions:
`Int0`; `Ep1Tx` (TXINI on EP1, with the callback); the requests `RxModeOn`,
`RxModeOff`, `RfReset`, `TxRequest` and `OtherRequest`; `TxData` (the data stage
of a TX and all of `do_tx`); `BusReset`. External are the transceiver
(`FrameArrives`, `TxEnds`, `OtherIrq`), which keeps a frame in its buffer until
it is read out, the latch of INT0, and the host (`HostIn`), which joins packets
until a short one. A frame is its number and its PHR. The transceiver is the
AT86RF231; the `CHIP_RF230` branches are left out, and so are contents and SPI
transfers, which no interrupt can divide.

### Dfu

A SETUP is one step, the data stage another, and `flash_write()` goes byte by
byte, because that is where power may fail; nothing else can intervene. Requests
are `Dnload`, `Upload`, `Abort` (with CLRSTATUS) and `OtherRequest`, which, like
any SETUP, cancels a data stage that never came. `BootTimeout` leaves the loop
of `main()`; requests are still taken until `Leave`. In the application,
`SetInterface`, `Detach`, `ClrStatus` and `BusReset` are what ep0.c has of DFU.
The Flash controller is external: pages are erased to 0xff, writing an unerased
page gives garbage, erasing or writing closes the application's section until
`boot_rww_enable()`, and a word of the page buffer keeps its first value.
Block numbers wrap at `BLOCKS`. A byte is identified by the request it came with.

`dfu` is not volatile and is changed by an interrupt that the loop of `main()`
does not know of; the model is of a build that reads it in each iteration.

### Dirtpan

A peer is a record of the statics of dirtpan.c, with its timers as Booleans and
what it has written to the TUN interface. `TxPck`, `RxPck`, `AckTimeout` and
`ReassTimeout` are the four events of the select loop; `Lose` is the radio. An
assert that fails sets `failed`, and the peer stops: those of `start_timer()` and
`stop_timer()`, that of `tx_pck()` that no packet is being sent, and those of
`ack_timeout()` and `reass_timeout()` (dirtpan.c:209, 221, 440, 461, 476). The
asserts about what the TUN interface delivers (444, 445, 511) are left out, as is
a TUN interface that does not take a packet (`write_buf()` only reports it): the
packet counts as written. Time is abstract: a running
timer may expire. How often an ack timeout may come while the frame or its
acknowledgement is under way is the constant `Late`. This bound is sharp: with
`Late` greater than `MAX_TRIES` a late acknowledgement can match a frame two
packets on, and `AckedMeansWritten` is false. A late acknowledgement needs
T_ACK_MS to be too short for a round trip, so the program relies on that not
happening more than `MAX_TRIES` times in a row.

### NetProxy

A client is in a driver call (`pc`: it connects, still has to write the data of
a WRITE, expects a reply or the data behind the length of a frame), perhaps
within `wait_for_interrupt()` (`wait`), and has its `error` flag. `Call` and
`EnterWait` begin a call, numbered by `id`; `CallWriteData`, `AskIrq` (one turn
of the waiting loop), `TakeReply`, `TakeBody`, `HangUp` and `WaitFails` are what
it then does by itself. The proxy is in `session()`: `Accept`, one action per
command (`CmdSpec` ...), and `WriteData`, `ReadBody` and `WaitReturns` for the
commands with a second half. `Attempt` is a call of the driver below it, which
may be any: once one failed, its error flag makes the following ones fail. A
driver may also leave a request alone and not set its flag: `atusb_set_clkm()` and
`atrf_set_clkm_generic()` for a clock they do not have, `atusb_slp_tr()` for what
is not a pulse, and RESET and TEST where the driver has no function. The proxy
answers "+" (it tests for `< 0` what is 0 or 1), and `CmdUnchecked` has this
outcome. `undone` remembers only the requests at which the device failed, and
`EarlierDone` is about these: the others leave no error behind.

Requests that are treated alike are one: RESET is also RESET_RF, TEST and
SLP_TR, SET is also SETRAM, GET is also GETRAM. A message is written and arrives
as a whole: `netio_write()` is a single `write()` of some tens of bytes,
and a short one is not modelled. A message carries the id of its request, which
is what the properties are about. What left-over data looks like to who takes it
for a line is arbitrary. A client that ends closes its socket, or resets the
connection if it had not read everything; the second write into a connection
that is gone raises SIGPIPE, which nobody handles, and ends the writer.
`get_num()` returns -1 for the "WAIT -1" of a wait without poll delays, without
having set `*ret`; both values are admitted. All turns of a waiting loop have
the same id.

### UsbDevice

A call of the library (`Begin`) is turned into the SETUP packet its driver makes
of it (`ByCommand` for atusb.c, `BySpi` for atusb-spi.c, `ByCommon`, `ByTool` for
atusb-eui64, `ByKernel`); `stage` is the control transfer as the host sees it.
`HandleSetup` has an action for each request the tools and the kernel's
enumeration rely on, which, as any
SETUP does, first idles EP0 (`Cancelled`, the mutant of which is the bug to
fear). `EpRx`, `EpTxNext`, `EnableAddr` and `EepromByte` are the rest of
handle_ep() and its callbacks: a packet is one interrupt, one step, but for the
write of the EEPROM, which is one step per byte, because the watchdog that
EUI64_WRITE has set may end it. `Fail` (time-out or stall), `NewProgram`,
`EndOfReset` (the bus) and `Restart` (watchdog or power) come anywhere.
`FrameArrives` lets the transceiver receive over a frame that is being read.
Data are values of a small set; how many bytes there are, in buf, in `size` and
`left` with their 8 bits, and in each packet, is exact. `BufReadReturns` is what
`buf_read()` makes of the reply: atusb-spi.c checks PHR against what it got and
against the caller's buffer, and returns -1 without an error for a frame that does
not fit.

Of the requests of usb.c and ep0.c, UsbDevice has no GET_STATUS, CLEAR_FEATURE,
GET_CONFIGURATION and SET_CONFIGURATION, which change nothing, no POLL_INT and
SPI_WRITE2_SYNC, which no tool makes, and none of TIMER (in `Timer`), GPIO (in
`IrqPath`), RX_MODE and TX (in `HardMac`). `atusb_slp_tr()` makes no request for
what is not a pulse.

### HostMac

The device says frames, answers and serial numbers of interrupts, in any order;
HardMac says in which it may. `Packet` is one packet of a bulk transfer that
`atusb_rx()` (`task_at` = "rx") or `atusb_tx()` ("ack") waits for; only a short
packet or a full buffer ends it. `atusb_tx()` takes whatever message comes next
as its answer. `FirstByte` is what `atusb_rx()` takes for a length, which in the
middle of a message can be anything.

### IrqPath

The chip collects causes in IRQ_STATUS (`irqs`) and holds its line high until
it is read. atusb has INT0 on the edge (`ServeInt0`, `ServeTx`) and a byte on EP1;
`atusb_interrupt_wait()` takes the byte (`Bulk`), then reads IRQ_STATUS
(`ReadStatus`); atben polls the level (`Poll`). `Call`, `Again` and `Got` are
`wait_for_interrupt()` with its two loops, `flush_interrupts()` being the one
that waits for nothing. Programs come and go (`Open`, `ReadAtOpen`, `Close`) and
leave behind what they did not read; `Gpio`, `Pattern` and `GpioCleanup` are
atrf-gpio, which masks INT0. Others use HardMAC (`RxModeOn`, `RxModeOff`,
`MacReads`, `MacSends`): `mac_irq` is then set, INT0 reads IRQ_STATUS itself
(`HandleIrq`) and sends what HardMac says, here any frame or answer, or nothing.

A program that is killed leaves `mac_irq` set, and atusb_open() does not clear it.
The next one, if it has not called atrf_reset_rf(), then waits in vain: its
interrupt is read by INT0, which sends no byte. `WaitReturns` excludes this
state, since the wait does not return in it; `WakeupPending` does not, since
IRQ_STATUS is emptied. A frame left on EP1 is longer than the byte that
atusb_interrupt_wait() has room for, and an error (`BulkFrame`).

### Timer and Counter

In `Timer` a cycle may pass between any two reads of `timer_read()`, which has
`TestFlag`, `ReadHigh`, `ReadLow` and `Return`; `instant` is when it took TCNT1.
In `Counter` an `Edge` may come between any two steps of the firmware
(`ReadTH`, `ReadTL`, `Changed` or `Same`, `Poll`), and the tool asks for a sample
whenever the firmware polls. Counts are records of digits, so that widths are
parameters. An edge is only possible while the count is less than one round of
the 16 bits ahead of what the firmware, and one of the 32 bits ahead of what the
tool, has last seen: this is the premise of both extensions, and the guards of
`Edge` state it.

### TxRx, Sweep and UsbWait

`TxRx`: `pc` is where the main loop of each of two stations is; a mode takes the
actions its function makes calls of (`Load`, `Send0`, `RxOn`, `Listened`, ...).
A transceiver finishes what it does before it obeys (`next`), and has one frame
buffer for both directions. A frame arrives, damaged or not, or gets lost.
`Sweep`: `InitSender`, `PrepareWave`, `StartWave` and `StopWave` are what `init_tx()`
and cw_test_begin(), cw_test_resume() and cw_test_end() do on each chip and with
each driver of this host, usb, usb-spi and ben. Of these only usb has a test mode
for an AT86RF230, and with the others the program exits (`NoTestMode`), as it does
if an AT86RF231 cannot be read any more when it is prepared (`NotOff`). Between
the two actions it waits for PLL_LOCK without a timeout: if the sender fails there,
it stays in that wait, as `wait_for_interrupt()` does. A level is below the minimum, within the limits or above the maximum.
`UsbWait`: a device is known by its number, and to libusb by the address of a
`struct usb_device`, which may be used again.

## 3. Runs

| Run | Bounds | What it shows |
|---|---|---|
| `hardmac_all` | ring of 3 as in mac.c, 4 frames, valid (two packets) or not, 1 TX, 1 other interrupt, 2 RX_MODE, an RF_RESET, a bus reset | types; no panic of a device that only received; no write into the slot in flight; no message of parts of two frames; how many old frames a reset repeats |
| `hardmac_transfer` | ring of 3, 5 frames, 2 TX, a bus reset | whole frames, in order; none stranded in the ring; answers match |
| `hardmac_live` | ring of 3, 4 frames, 2 TX | the receive path implements `FramePipe`; frames and answers get to the host |
| `hardmac_panic` | the same | violated: `usb_next()` can panic the device |
| `hardmac_lost_answer` | 1 frame, 1 TX, 2 other interrupts | violated: an answer behind an interrupt byte is not sent |
| `dfu_loader` | 2 pages of 4 bytes, blocks of at most 3, 4 download requests, any number of uploads, 2 aborts, power losses or returns from the application | the Flash holds what was downloaded, an upload what is in the Flash; refusals are reported; the loader stays intact; the application starts when it should and only then |
| `dirtpan_one_way` | 3 packets of 1 or 3 frames, 2 tries, 2 late acks | `PacketLink` is implemented; what an acknowledgement and a sequence bit are taken for is so |
| `dirtpan_both_ways` | 2 packets against 1, 2 tries, 1 late ack | the asserts of the timers, of `tx_pck()` and of the timeouts hold; both sides get to send |
| `netproxy_session` | a client with 2 calls, another with 1 that has to wait for it, 1 failure of the device, 1 interrupt; clients end at any time | a call never takes another's answer; no access succeeds after a request at which the device failed; calls return; the proxy goes on to the next client, and is killed only in three situations |
| `netproxy_error_wait` | a client with 2 calls, 1 failure | violated: an error does not end a wait without timeout |
| `device` | UsbDevice: 3 calls, 1 bus or CPU reset beside those of the watchdog, any number of time-outs and programs, frames of 63, 64 and 127 bytes; HostMac: 4 messages, 2 at a time; Timer: rounds of 4 and 3, 14 cycles; Counter: three digits of 2 values, 1 wrap of all three | a call that succeeds did what it is for; EP0 keeps within its buffer; frames are returned whole; times and counts are exact; bursts add up |
| `tools` | IrqPath: 2 causes, 3 interrupts; Sweep: 2 channels, up to 2 sweeps; TxRx: sequence numbers modulo 2, up to 2 packets; UsbWait: 2 ports, each with a device or not, 1 more plugged in | wake-ups are not lost and waits return; waves and decisions are right; transceivers send what they were given, and ping-pong goes on; a device is found |

Why these bounds are enough: four frames are one more than the ring of 3 holds,
so that it wraps, fills and overruns, and the fifth is received after an overrun;
frames of 5 and 62 bytes end with a short and
with an empty packet, and one of 100 has data in both its packets. Two transmissions meet in `this_seq` and `queued_seq`.
Blocks of three bytes straddle words and pages; four requests fill the
application section, overrun it, and end. Three packets bring the sequence bit
round once after a packet was given up; three fragments have a first, a middle
and a last. The second call of a client meets what the first one left in the
connection, and a single failure sets an error flag for good. Three calls are one
that is cut off, one it could get into, and one that reads back what that did;
63, 64 and 127 bytes are, with PHR and LQI or two bytes of address, on both sides
of one packet and of two, and the most there is. Two messages are what is left of
one and the next. Fourteen cycles take the clock round both its halves. Two
channels are the first and one after it, which cwtest.c and `fail` treat
differently. Sequence numbers modulo 2 are enough since a station compares them
for being equal, and a repetition is at most one behind. With two ports a device
that fits can be hidden by one that does not, or has gone.

Deadlock is not checked: with the events used up, the host silent and nothing
queued, each of these systems rests; `panic()` and a failed assert stop it, and
programs end.

The three violations are findings about the code. (1) `usb_next()` sends a frame
and then the queued answer without looking at EP1 again, against the BUG_ON in
`usb_io()`. (2) an answer that waits behind the byte of INT0 is not sent, since
that transfer's callback does not call `usb_next()`, and `atusb_tx()` waits for
it without a timeout. (3) `wait_for_interrupt()` without a timeout looks at
`atrf_error()` only after its inner loop, and `interrupt_wait()` of a driver in
error returns 0 at once: the loop spins.

## 4. Fairness

`HardMac!Fairness`: a pending interrupt is served, the transceiver ends what it
began, and the host goes on reading EP1. The first two are the hardware; the
third is atusb_rx() and atusb_tx(), which keep a bulk read outstanding.
Requests, receptions and resets are not fair: they may never happen.
`Dfu!Fairness`: a write goes on; the loop of `main()` ends when it has counted,
and the code after it runs. The host is not fair. `Dirtpan!Fairness`: a peer's
select loop takes what is ready, a timer that runs expires, and a frame under
way arrives or is lost - it may be lost every time, and yet a transmission
ends, because tries are counted. `NetProxy!Fairness`: the proxy and the driver
code of each client run, the network delivers, and a timeout expires; no program
has to connect, to make a call or to end, and no interrupt has to come.
`IrqFairness`: interrupt handlers are served and the waiting program runs; it is
strong for `Bulk`, since a transfer that times out while a byte is there is
repeated at once, and cannot time out each time. `TxRxFairness`: both programs
run and frames end; of the pings B listens to, some arrive (strong, for a radio
that loses every frame refutes nothing about the program). `UsbWaitFairness`: the
loop of main() runs; nobody has to plug anything in, and `DeviceFound` is about
devices that stay. In `MCTools` the modules that rest do so in states where
nothing has to happen, so the fairness of one says nothing of another.

## 5. Proofs

Every theorem is for all values of the constants, under the assumptions named
in the modules (sizes are positive, the boot loader begins at a page boundary,
the peers are two). Three theorems about HardMac and three about Dirtpan assume
more, and say so in their statements; why is said below.

* `HardMacProofs`. `TypeCorrect`: ring indices and EP1's buffer stay inside the
  ring. `FrameInFlightIsSafe`: the invariant `SlotOK` says that a transfer from
  the ring is from slot `rx_out`, with `rx_done` as its callback, or the ring is
  such that the next store goes elsewhere; it is needed because `RF_RESET`
  moves `rx_out` under the transfer. `RingDrains`: from `Drains`, a busy EP1 has
  a callback to come that looks at the ring. `ReceiverNeverPanics`: without a TX
  `queued_tx_ack` is never set, so `usb_next()` sends once.

  `FramesInOrder` rests on `OrderInv`: of the frames accepted, the host has some
  of the first d, in order and none twice, and those after the d-th are, in order,
  in EP1 (`Transit`: in its bank, its buffer, or in what the host has joined so
  far) and in the ring. It is for rings of more than one slot, for one slot holds
  no frame, and for no `ATUSB_RF_RESET`, which forgets the transfer that is under
  way: what it makes of the order is `RepeatsBounded`, below. `ImplementsPipe` is the step
  simulation of `FramePipe` on the same invariant; there is no bus reset either,
  for that drops a frame, which a pipe does not. `AnswersAreRight` rests on
  `AnswerInv`: when the host waits for an answer, exactly one place has it or will
  have it (the data stage, the transmitter, `queued_tx_ack`, EP1's buffer, its
  bank), and when it does not wait, none has. The host waits for its answers, as
  atusb_tx() does (`HostWaits`), without other interrupts, whose byte on EP1 is
  taken for an answer, and does not reset the transceiver or turn the receiver off
  again, which abandon a transmission.

  `RepeatsAreBounded` assumes nothing: any ring size, resets of both kinds in any
  number and at any time. What the host has is no longer a stretch of the frames
  accepted, so the invariant, `DebtInv`, counts instead. `Line` is what the
  firmware would still send if nothing more happened: the message that the packet
  in the bank completes, the frame EP1 is sending, and the slots from `rx_out` to
  `rx_in`, all of the ring but one where a reset has left them equal under a
  transfer. The line owes n repeats if all but n of its items are new to the host,
  not empty and different from each other (`Owes`), and `Debt` says that the
  repeats the host has had and those the line still owes are together at most
  RX_BUFS - 1 for each reset. A reset of the transceiver puts RX_BUFS - 1 old slots
  into the line at most (`ResetLine`); a reception adds what nobody has seen, by
  `Fresh` and `Known`, every id in the ring and in the host is of a frame accepted
  before (`StoreLine`); releasing a slot and a bus reset move items or drop them
  (`ReleaseLine`, `BusResetLine`); and a message that reaches the host either is a
  repeat, which the debt has paid for, or is new, and then an equal one behind it
  owes in its place (`Arrives`). `Parts` is needed because a message is several
  packets: what the host has joined and what is in the bank are of the slot in
  flight, which `SlotOK` says nobody overwrites. TLC has checked `DebtInv` for
  rings of one, two and three slots. `FramesWhole`, the other half of
  `RepeatsBounded`, follows from `Known` and `Parts`: the last packet makes the
  message as long as the frame it began with.
* `DfuProofs`. `BootLoaderIsSafe` rests on `Pending`: while a data stage is
  awaited `payload + ep0` stays below `BOOT_ADDR`, while bytes are written so
  does `payload` plus what is left; and on a lemma of arithmetic, that a page
  which begins below the boot loader ends below it. `RefusalIsReported` and
  `NoHalfApp` rest on `Honest`: a half-written application implies a state
  other than dfuIDLE, and a data stage implies dfuDNLOAD_IDLE. `UploadsAreExact`
  rests on `Exact`: in an upload `payload` is the number of bytes read, and
  nothing is written meanwhile. `ImageIsWritten` rests on `Faithful`, which says
  where each byte of the download is: on a page that is written, in the page buffer
  (whose words are those of the current page up to `payload`), in `last`, the even
  half of a word that is not complete, or still to do.
* `DirtpanProofs`. `TypeCorrect` and `AssertsHold` rest on `PeerOK`: `t_ack`
  runs exactly while the peer sends, `t_reass` exactly while it receives, and every
  assert of the model, those of the timeouts among them, follows.

  `DiscardsAreRetransmissions`, `AcknowledgedIsWritten` and `ImplementsLink` rest on
  `LinkInv`, which is `Direction` for each direction: what one peer, the sender,
  relies on is not only its own state but what is under way and what the other has.
  `Wire`: with data behind the acks, those with the sender's present bit are the
  last under way; one with the other bit means that more timeouts were late than
  tries of this fragment, and there are at most `MAX_TRIES` of either. `InStep`:
  data with the present bit are the fragment being sent; and either the receiver
  has got it (`Got`: in a reassembly just so far, or in a packet written, or in one
  dropped), or it lacks it (`Lacks`), and then no ack has its bit and data with
  the other bit are one fragment, the one before or, after a packet was given up,
  one of that packet (`Before`). The lemma `FrameReceived` is the receiver's half:
  whatever it has, after a fragment it has got it, and has written a packet only
  if that is newer than the last or of one frame. `IsAcknowledged` is the sender's:
  an ack with its bit means that the fragment has been got. The three theorems
  assume `Late <= MAX_TRIES`, the bound discussed in section 2, without which
  `AckedMeansWritten` is false; `dirtpan_one_way` is at the bound.
* `NetProxyProofs`. `EachItsOwnReply` and `NothingAfterUndone` rest on `Sync`.
  For a client that is not in error, `InStep` lists what its connection may hold
  while its call is `Asked`, `AwaitsData`, `Refused`, `Waiting`, `Unanswered`,
  `Answered` or `Reading`, and that between calls it holds nothing; this is
  needed because an answer left over from one call would be taken by the next.
  `Doubtful` says that after a request at which the device failed, but that was
  answered "+", the session's driver stays in error, and that a reply to a checked
  request is a refusal. Requests refused without an error are not among these. `OnlyHalfWay` adds `Mortal`, which says what a
  client that ends leaves behind (`Doomed`): one that is not in error at most one
  request for the proxy to answer, and one that is in error only what the proxy
  may be killed for.
* `ClockProofs`. `ReadIsExact` rests on `Counted`, that an overflow is either in
  `timer_h` or shown by TOV1, and on `Halfway`, that the two parts `timer_read()`
  has so far are of one moment unless TOV1 is set, upon which it reads again.
  `CounterTypes`, `SamplesAreExact` and `NoBurstIsLost` rest on
  what `cntr` lacks of the count while the firmware is between its reads
  (`Behind`, `HalfRead`), and on `HighOf` and `HighOfTool`: the count has come
  round since the last sample exactly if its low digits are smaller now, which
  the lemma `OneMoreRound` shows for one edge. `EdgeKeeps`, `FirmwareKeeps` and
  `ToolKeeps` prove the invariant for each of the three actors. The arithmetic
  of products appears only in `BurstsAddUp`, where a sum telescopes.
* `UsbDeviceProofs`. `BufferIsSafe` rests on `Announces`, what the drivers ask
  for (a BUF_WRITE announces 1 to 127 bytes, by the assumption on `Lengths`);
  on `Room`, that `buf` has place for the rest of a data stage, and `Held`, that
  what is sent from it is in it; and on `DataStage`: a data stage to come belongs
  to the request the host has made, `left` is what that request lacks, and the
  `buf[0]` and `size` that `do_buf_write()` will use are that request's. The last
  is needed because a request cut off leaves its callback and its `size` behind.
  `CallsTakeEffect` takes these as known, and rests on `EffectInv`, which says for
  each stage of a transfer what is done, under way, and in the bank. `Coming`:
  what the host has, what is in the bank and what is left make up the answer.
  `Going`: the same for data on their way to the device. `Carried`: a request has
  done its work before the empty packet that says so. `Calm`: no
  `eeprom_write()` of an earlier request is under way while a later one is served.
  What atusb_spi_buf_read() returns then follows from the length of the answer.
  `Sized`: `size` fits the request; EUI64_WRITE sets none, and relies on the BUILD
  that the tool has read before.
* `HostProofs`. `NoWakeupIsLost` is inductive together with the types and with
  `MacIsOn`: while a program that uses HardMAC has had no error, it is on.
  `FramesAreWhole` rests on `OthersUnsent`, that only the first message of EP1 can
  be partly sent, and `ReadInStep`: what `atusb_rx()` has read so far is the
  beginning of that message, unless the program has started in its middle.
* `ToolsProofs`. `WaveIsRight` rests on `SenderReady`, what each chip needs to
  have been told before its wave is on, and `Measured`; its readings are those of the
  combinations of chip and driver that have a test mode; `DecisionIsRight` on what
  `fail` and the decision say of the sweeps so far (`FailsTell`, `DecisionTells`);
  `SendsAsAsked` on `Fine`, for each station: what its transceiver has been given
  at the program's place is what its mode asks for, and the frame in its buffer
  is the one put together, although a reception may overwrite the buffer.

Every safety property that a passing run checks is proved, under the hypotheses
named above. Only model-checked is
liveness (`FramesDelivered`, `AnswersDelivered`, `AppStarts`, `AllTaken`,
`CallReturns`, `NextClientServed`, `WaitReturns`, `PingGoesOn`, `DeviceFound`),
which is beyond the prover. The type invariants of Dfu and NetProxy are only
proved, not run.

## 6. Plan

1. Done: all modules of section 2, and the theorems of section 5.
2. Proofs next: the hypotheses of `AnswersAreRight`, one by one, as far as it stays
   true without them.
3. HostMac over HardMac's EP1 instead of an arbitrary device, so that `RxWhole`
   and `AnswersMatch` meet in one property.

## 7. Not modelled, and why

Serial number strings, the debug UART, board variants: constant data or hardware
access without state. `atusb-sil/`: superseded firmware whose USB stack is not in
the repository. `atrf-rssi`, `atrf-trim`, `atrf-id`, `atrf-reset`, `atrf-xmit`,
`usbperf`: sequential programs without state between accesses. The bit-banged SPI
of atben.c and the register headers: a transfer is a sequence of pin writes
nothing intervenes in. Levels of GPIO pins, and the comparison of patterns in
atrf-gpio; the drawing in gui.c; tables of powers and frequencies; the PCAP file;
parsing of command lines and profiles. `usrp/`: floating-point filters. dirtpan's
statistics, its set-up, frames that no dirtpan peer sends, and packets that are
not IPv4. The network driver in `Sweep`: atrf_usb_handle() is NULL for it, so that
an atusb board behind the proxy is not reset after a constant wave. Hardware, production, web, bill-of-material scripts: no program logic
of the system.

Seen while reading, and not in a model: `dfu` is not volatile, and nothing tells
the compiler that the loop of `main()` (`atusb/fw/boot.c:63`) sees an interrupt's
change of it. After an upload, `block_transmit()`'s dfuIDLE is overwritten
(`usb/dfu.c:230`). A bus reset leaves `my_dfu_setup()` installed
(`ep0.c:325`). atrf-proxy has a "-error" for a CLKM its driver does not set
(`tools/atrf-proxy/atrf-proxy.c:157`), but tests for a negative result where
`atrf_set_clkm()` returns 0: the client is told "+", and goes on with another clock.
`netio_write()` writes `len` bytes again after a short write
(`tools/lib/netio.c:127`). `atusb_tx()` waits for an answer even if its request
has failed (`atusb-common.c:354`); HostMac has this, and that a frame without
data makes rtt_slave_hmac() ask for a transmission of -2 bytes. `usbopen.c`
keeps the path it was restricted to as a pointer that a rescan may free; UsbWait
has it, and `DeviceFound` is therefore about programs without a path.
