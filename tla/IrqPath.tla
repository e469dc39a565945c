------------------------------- MODULE IrqPath -------------------------------
(***************************************************************************)
(* How a program learns of an interrupt of the transceiver when it drives  *)
(* the chip itself, without HardMAC.  The chip collects the causes in      *)
(* IRQ_STATUS and holds its line high until that is read.                  *)
(* atusb: the rising edge sets off INT0, whose handler puts a byte on EP1; *)
(* atusb_interrupt_wait() reads one, and then IRQ_STATUS.  An edge that    *)
(* gets lost on the way is the last there is.                              *)
(* atben: atben_interrupt_wait() looks at the level of the line.           *)
(*                                                                         *)
(* Programs that use HardMAC come and go on the same device.  While theirs *)
(* is on, INT0 reads IRQ_STATUS itself and sends frames and answers, or    *)
(* nothing; it stays on if they end without switching it off.  HardMac     *)
(* says which ones it sends: here, EP1 has any of them.                    *)
(***************************************************************************)
EXTENDS FiniteSets, Naturals

CONSTANTS
    IRQS,       \* causes of an interrupt
    Raises      \* bound: how many interrupts there are

ASSUME IrqAssumption == Raises \in Nat

VARIABLES
    driver,     \* "atusb" or "atben"
    irqs,       \* IRQ_STATUS; the line is high unless it is empty
    int0,       \* INTF0
    eimsk,      \* INT0 is enabled
    mac_irq,    \* HardMAC is on
    ep1,        \* what EP1 is sending, or "EP_IDLE"
    bank,       \* what its bank holds for the host: "byte", "frame", or "empty"
    host,       \* where the program is
    wait,       \* what it waits for: "for", and whether there is a timeout
    irq,        \* what atrf_interrupt_wait() has returned
    timedout, sigint,
    error,      \* dsc->error
    raises      \* interrupts so far, for the bound
irqVars == <<driver, irqs, int0, eimsk, mac_irq, ep1, bank, host, wait, irq, timedout, sigint,
             error, raises>>
firmware == <<int0, eimsk, mac_irq, ep1, bank>>
program == <<wait, irq, timedout, sigint, error>>

Flush == [for |-> {}, timeout |-> TRUE]
Waits == [for : SUBSET IRQS, timeout : BOOLEAN]

IrqInit ==
    /\ driver \in {"atusb", "atben"}
    /\ irqs = {} /\ int0 = FALSE /\ eimsk = TRUE /\ mac_irq = FALSE
    /\ ep1 = "EP_IDLE" /\ bank = "empty"
    /\ host = "closed" /\ wait = Flush /\ irq = {}
    /\ timedout = FALSE /\ sigint = FALSE /\ error = FALSE /\ raises = 0
-----------------------------------------------------------------------------
(* The transceiver and the firmware                                        *)

\* The chip has a reason to interrupt.  While a pattern of atrf-gpio drives the
\* line, its edge may not be seen.
Raise ==
    /\ raises < Raises
    /\ raises' = raises + 1
    /\ \E i \in IRQS : irqs' = irqs \cup {i}
    /\ \/ int0' = (int0 \/ (driver = "atusb" /\ irqs = {}))
       \/ host = "gpio" /\ int0' \in BOOLEAN
    /\ UNCHANGED <<driver, eimsk, mac_irq, ep1, bank, host, program>>

\* handle_irq(): IRQ_STATUS is read, and EP1, if it is idle, may begin to send.
HandleIrq ==
    /\ irqs' = {}
    /\ \/ UNCHANGED ep1
       \/ ep1 = "EP_IDLE" /\ irqs # {} /\ ep1' \in {"frame", "answer"}

\* INT0_vect, and what usb_io() does of it: nothing if something is on its way.
ServeInt0 ==
    /\ int0 /\ eimsk
    /\ int0' = FALSE
    /\ IF mac_irq THEN HandleIrq
       ELSE ep1' = (IF ep1 = "EP_IDLE" THEN "serial" ELSE ep1) /\ UNCHANGED irqs
    /\ UNCHANGED <<driver, eimsk, mac_irq, bank, host, program, raises>>

\* handle_ep(1), when the bank is free.  After a frame or an answer, usb_next() may
\* send what has been waiting.
ServeTx ==
    /\ ep1 # "EP_IDLE" /\ bank = "empty"
    /\ bank' = IF ep1 = "frame" THEN "frame" ELSE "byte"
    /\ ep1' \in {"EP_IDLE"} \cup (IF ep1 = "serial" THEN {} ELSE {"frame", "answer"})
    /\ UNCHANGED <<driver, irqs, int0, eimsk, mac_irq, host, program, raises>>

\* The USB controller is reset.  What was on its way is lost, and the program's
\* transfers fail from now on.
BusReset ==
    /\ driver = "atusb"
    /\ ep1' = "EP_IDLE" /\ bank' = "empty"
    /\ error' = (host # "closed")
    /\ UNCHANGED <<driver, irqs, int0, eimsk, mac_irq, host, wait, irq, timedout, sigint, raises>>

\* The device is plugged in again, or resets its CPU.
PowerUp ==
    /\ driver = "atusb"
    /\ irqs' = {} /\ int0' = FALSE /\ eimsk' = TRUE /\ mac_irq' = FALSE
    /\ ep1' = "EP_IDLE" /\ bank' = "empty"
    /\ error' = (host # "closed")
    /\ UNCHANGED <<driver, host, wait, irq, timedout, sigint, raises>>
-----------------------------------------------------------------------------
(* The program                                                             *)

\* atusb_open() and atben_open(); the latter cuts the chip's power for a while.
Open ==
    /\ host = "closed"
    /\ IF driver = "atusb"
         THEN host' = "opening" /\ UNCHANGED irqs
         ELSE host' = "idle" /\ irqs' = {}
    /\ error' = FALSE
    /\ UNCHANGED <<driver, firmware, wait, irq, timedout, sigint, raises>>

\* atusb_open() reads IRQ_STATUS, whatever its last user has left there.  The
\* mutant does not.
ReadAtOpen_NoReadMutant ==
    /\ host = "opening"
    /\ host' = "idle"
    /\ UNCHANGED <<driver, irqs, firmware, program, raises>>

ReadAtOpen ==
    /\ host = "opening"
    /\ host' = "idle"
    /\ irqs' = IF error THEN irqs ELSE {}
    /\ UNCHANGED <<driver, firmware, program, raises>>

\* The program ends, or is killed, wherever it is.
Close ==
    /\ host # "closed"
    /\ host' = "closed"
    /\ irq' = {} /\ timedout' = FALSE /\ sigint' = FALSE /\ error' = FALSE
    /\ wait' = Flush
    /\ UNCHANGED <<driver, irqs, firmware, raises>>

\* atrf_reset_rf(), and mac_reset() on atusb
ResetRf ==
    /\ host = "idle" /\ ~error
    /\ irqs' = {}
    /\ mac_irq' = FALSE
    /\ UNCHANGED <<driver, int0, eimsk, ep1, bank, host, program, raises>>

\* atrf_rx_mode(), and mac_rx(): a program uses HardMAC for a while.
RxModeOn ==
    /\ host = "idle" /\ driver = "atusb" /\ ~error
    /\ host' = "hardmac"
    /\ mac_irq' = TRUE
    /\ irqs' = {}
    /\ UNCHANGED <<driver, int0, eimsk, ep1, bank, program, raises>>

RxModeOff ==
    /\ host = "hardmac" /\ ~error
    /\ host' = "idle"
    /\ mac_irq' = FALSE
    /\ UNCHANGED <<driver, irqs, int0, eimsk, ep1, bank, program, raises>>

\* atusb_rx(), and the end of atusb_tx(), whose request makes do_tx() look for an
\* interrupt.
MacReads ==
    /\ host = "hardmac" /\ ~error
    /\ bank # "empty"
    /\ bank' = "empty"
    /\ UNCHANGED <<driver, irqs, int0, eimsk, mac_irq, ep1, host, program, raises>>

MacSends ==
    /\ host = "hardmac" /\ ~error
    /\ HandleIrq
    /\ UNCHANGED <<driver, int0, eimsk, mac_irq, bank, host, program, raises>>

\* atrf-gpio: the first ATUSB_GPIO request masks INT0.
Gpio ==
    /\ host = "idle" /\ driver = "atusb" /\ ~error
    /\ host' = "gpio"
    /\ eimsk' = FALSE
    /\ UNCHANGED <<driver, irqs, int0, mac_irq, ep1, bank, program, raises>>

\* do_atusb(): a pattern.  It may drive the interrupt line and the transceiver's reset.
Pattern ==
    /\ host = "gpio" /\ ~error
    /\ int0' \in {int0, TRUE}
    /\ irqs' \in {irqs, {}}
    /\ UNCHANGED <<driver, eimsk, mac_irq, ep1, bank, host, program, raises>>

\* restore_gpios(), also when a pattern was not read back as expected
GpioCleanup ==
    /\ host = "gpio" /\ ~error
    /\ eimsk' = TRUE
    /\ host' = "closed"
    /\ UNCHANGED <<driver, irqs, int0, mac_irq, ep1, bank, program, raises>>

\* wait_for_interrupt() is called, or flush_interrupts(), which waits once.
Call(w) ==
    /\ host = "idle"
    /\ wait' = w
    /\ irq' = {} /\ timedout' = (w = Flush)
    /\ host' = "wait"
    /\ UNCHANGED <<driver, irqs, firmware, sigint, error, raises>>

\* Its inner loop: the time that is left, and the call of atrf_interrupt_wait().
Again ==
    /\ host = "again"
    /\ host' = "wait"
    /\ timedout' \in IF wait.timeout THEN BOOLEAN ELSE {FALSE}
    /\ UNCHANGED <<driver, irqs, firmware, wait, irq, sigint, error, raises>>

\* atusb_interrupt_wait(): the byte.  A frame that has been left there is longer than
\* its buffer, an error.  The mutant does not look at IRQ_STATUS then.
BulkFrame ==
    /\ bank = "frame"
    /\ error' = TRUE /\ irq' = {}
    /\ host' = "got"

Bulk_NoStatusMutant ==
    /\ host = "wait" /\ driver = "atusb" /\ ~error
    /\ \/ BulkFrame
       \/ bank = "byte" /\ irq' = {} /\ host' = "got" /\ UNCHANGED error
    /\ bank' = "empty"
    /\ UNCHANGED <<driver, irqs, int0, eimsk, mac_irq, ep1, wait, timedout, sigint, raises>>

Bulk ==
    /\ host = "wait" /\ driver = "atusb" /\ ~error
    /\ \/ BulkFrame
       \/ bank = "byte" /\ host' = "status" /\ UNCHANGED <<irq, error>>
    /\ bank' = "empty"
    /\ UNCHANGED <<driver, irqs, int0, eimsk, mac_irq, ep1, wait, timedout, sigint, raises>>

\* No byte has come in time, or there has been an error.
NoByte ==
    /\ host = "wait" /\ driver = "atusb"
    /\ error \/ wait.timeout
    /\ irq' = {}
    /\ host' = "got"
    /\ UNCHANGED <<driver, irqs, firmware, wait, timedout, sigint, error, raises>>

\* atusb_reg_read(), which returns 0 after an error.
ReadStatus ==
    /\ host = "status"
    /\ irq' = IF error THEN {} ELSE irqs
    /\ irqs' = IF error THEN irqs ELSE {}
    /\ host' = "got"
    /\ UNCHANGED <<driver, firmware, wait, timedout, sigint, error, raises>>

\* atben_interrupt_wait(): once round its loop.
Poll ==
    /\ host = "wait" /\ driver = "atben"
    /\ IF irqs # {}
         THEN irq' = irqs /\ irqs' = {} /\ host' = "got"
         ELSE /\ UNCHANGED <<irqs, irq>>
              /\ host' \in IF wait.timeout THEN {"wait", "got"} ELSE {"wait"}
    /\ UNCHANGED <<driver, firmware, wait, timedout, sigint, error, raises>>

\* What wait_for_interrupt() makes of it.
LeavesInner == irq # {} \/ timedout \/ sigint
LeavesOuter == irq \cap wait.for # {} \/ timedout \/ sigint

Got ==
    /\ host = "got"
    /\ host' = IF ~LeavesInner THEN "again"
               ELSE IF error /\ wait # Flush THEN "closed"
               ELSE IF ~LeavesOuter THEN "again"
               ELSE IF sigint THEN "closed" ELSE "idle"
    /\ IF host' = "closed"
         THEN irq' = {} /\ timedout' = FALSE /\ sigint' = FALSE /\ error' = FALSE
         ELSE UNCHANGED <<irq, timedout, sigint, error>>
    /\ UNCHANGED <<driver, irqs, firmware, wait, raises>>

Waiting == host \in {"again", "wait", "status", "got"}

\* Ctrl-C: die()
SigInt ==
    /\ Waiting /\ wait # Flush
    /\ sigint' = TRUE
    /\ UNCHANGED <<driver, irqs, firmware, host, wait, irq, timedout, error, raises>>

InFirmware == ServeInt0 \/ ServeTx
InWait == Again \/ Bulk \/ NoByte \/ ReadStatus \/ Poll \/ Got
IrqNext ==
    \/ Raise \/ InFirmware \/ BusReset \/ PowerUp
    \/ Open \/ ReadAtOpen \/ Close \/ ResetRf
    \/ RxModeOn \/ RxModeOff \/ MacReads \/ MacSends
    \/ Gpio \/ Pattern \/ GpioCleanup
    \/ \E w \in Waits : Call(w)
    \/ InWait \/ SigInt

\* The interrupt handlers are served, and a waiting program runs: a byte that is
\* there is read before the next timeout, in the end.
IrqFairness ==
    /\ WF_irqVars(InFirmware)
    /\ WF_irqVars(Again \/ ReadStatus \/ Poll \/ Got)
    /\ SF_irqVars(Bulk)

IrqSpec == IrqInit /\ [][IrqNext]_irqVars /\ IrqFairness
-----------------------------------------------------------------------------
(* Properties                                                              *)

\* Every variable has its type.
IrqTypeOK ==
    /\ driver \in {"atusb", "atben"}
    /\ irqs \subseteq IRQS /\ irq \subseteq IRQS
    /\ int0 \in BOOLEAN /\ eimsk \in BOOLEAN /\ mac_irq \in BOOLEAN
    /\ timedout \in BOOLEAN /\ sigint \in BOOLEAN /\ error \in BOOLEAN
    /\ ep1 \in {"EP_IDLE", "serial", "frame", "answer"} /\ bank \in {"empty", "byte", "frame"}
    /\ host \in {"closed", "opening", "idle", "hardmac", "gpio", "again", "wait", "status", "got"}
    /\ wait \in Waits
    /\ raises \in 0..Raises

\* As long as the line is high there will be no other edge, so something must be
\* on its way that gets IRQ_STATUS read: the edge itself, which is enough for
\* HardMAC, or what makes a program read it, a transfer on EP1 or the program that
\* has had its byte.  It holds from the end of atusb_open() on, whatever state the
\* last program has left the device in, HardMAC included, until there is an error.
WakeupPending ==
    driver = "atusb" /\ irqs # {} /\ host \notin {"closed", "opening", "gpio"} /\ ~error
        => int0 \/ (~mac_irq /\ (ep1 # "EP_IDLE" \/ bank # "empty" \/ host = "status"))

\* A program that waits for an interrupt that is there stops waiting, with either
\* driver, with and without a timeout, whatever other interrupts there are and
\* whatever the last program has left on EP1.  It need not if the last one has left
\* HardMAC on, whose INT0 takes the interrupt away: atusb_open() does not switch it
\* off, only atrf_reset_rf() does, and atrf-path waits without having called it.
WaitReturns ==
    (Waiting /\ irqs \cap wait.for # {} /\ eimsk /\ ~mac_irq) ~> (~Waiting \/ error)
=============================================================================
