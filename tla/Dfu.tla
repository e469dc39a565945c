-------------------------------- MODULE Dfu --------------------------------
(***************************************************************************)
(* Firmware update over USB: the DFU boot loader (atusb/fw/boot.c,         *)
(* usb/dfu.c, usb/dfu_common.c, flash.c) and how the application gets back *)
(* into it (ep0.c).                                                        *)
(*                                                                         *)
(* A request is one step, the SETUP interrupt.  The data stage of a        *)
(* DFU_DNLOAD is another, which never comes if the host gives up: the next *)
(* SETUP cancels it.  The interrupt then runs flash_write(), one byte at a *)
(* time ("todo"), and nothing but a loss of power can come between.        *)
(*                                                                         *)
(* External: the host, which may issue any request at any time, the power, *)
(* and the Flash controller: erasing or writing a page closes the section  *)
(* the application is in ("rww") until boot_rww_enable(), reads from a     *)
(* closed section return garbage, and a word of the page buffer keeps the  *)
(* first value boot_page_fill() gives it until the buffer is erased.       *)
(* dfu is not volatile: the loop of main() is modelled as compiled without *)
(* keeping dfu.state in a register.                                        *)
(***************************************************************************)
EXTENDS Integers, Sequences

CONSTANTS
    EP0_SIZE,       \* largest block (64)
    SPM_PAGESIZE,   \* bytes per Flash page (128)
    BOOT_ADDR,      \* where the boot loader begins (0x7000)
    FLASH_SIZE,     \* FLASHEND+1 (0x8000)
    BLOCKS,         \* block numbers before next_block wraps (65536)
    DnloadLengths, UploadLengths,   \* values of wLength
    Limit           \* how many DFU_DNLOADs a behaviour has, and how many
                    \* of ABORT, power loss and SET_INTERFACE

Events == {"dnload", "other"}
Addresses == 0..(FLASH_SIZE - 1)
Offset(address) == address % SPM_PAGESIZE
PageOf(address) == {a \in Addresses :
    address - Offset(address) <= a /\ a < address - Offset(address) + SPM_PAGESIZE}

ASSUME DfuAssumption ==
    /\ EP0_SIZE \in Nat \ {0}
    /\ SPM_PAGESIZE \in Nat \ {0} /\ SPM_PAGESIZE % 2 = 0
    /\ BOOT_ADDR \in Nat \ {0} /\ BOOT_ADDR % SPM_PAGESIZE = 0
    /\ FLASH_SIZE \in Nat /\ BOOT_ADDR <= FLASH_SIZE
    /\ BLOCKS \in Nat \ {0, 1}
    /\ DnloadLengths \subseteq Nat /\ UploadLengths \subseteq Nat
    /\ Limit \in [Events -> Nat]

VARIABLES
    mode,       \* "boot", "leaving" (past the loop of main()), "app"
    dfu,        \* struct dfu: state and status
    next_block, \* of dfu.c
    ep0,        \* bytes EP0 waits for in a data stage, 0 if in none
    payload, last,  \* of flash.c
    todo,       \* what flash_write() has still to write
    fill,       \* the page buffer of the Flash controller
    flash, rww, \* its contents; TRUE: the application section can be read
    app_setup,  \* user_setup in the application
    download,   \* history: the download since the last start()
    uploaded,   \* history: the upload since the last start()
    count       \* how many there were

memory == <<last, todo, fill, flash, rww>>
history == <<download, uploaded>>
vars == <<mode, dfu, next_block, ep0, payload, memory, app_setup, history, count>>
-----------------------------------------------------------------------------
\* Bytes: <<n, i>> is byte i of the data of the n-th DFU_DNLOAD.
Byte == Nat \X Nat
Erased  == <<0, 0>>
Old     == <<0, 1>>     \* of the application before the first download
Loader  == <<0, 2>>
Garbage == <<0, 3>>

NoFill == [i \in 0..(SPM_PAGESIZE - 1) |-> Erased]

DfuStates == {"appIDLE", "appDETACH", "dfuIDLE", "dfuDNLOAD_IDLE",
              "dfuUPLOAD_IDLE", "dfuERROR"}
Statuses == {"OK", "errADDRESS", "errUNKNOWN"}
NewDfu == [state |-> "dfuIDLE", status |-> "OK"]

\* A download: the bytes received; whether a block was refused; whether it
\* started with an erased page buffer; and what it did to the application:
\* nothing yet, half of it written, all written and ended, or left half
\* written by an ABORT, a loss of power or the end of the boot loader.
Downloads == [image : Seq(Byte), refused : BOOLEAN, clean : BOOLEAN,
              app : {"untouched", "open", "whole", "cut"}]

\* What pgm_read_byte() returns.
ReadByte(address) ==
    IF rww \/ address >= BOOT_ADDR THEN flash[address] ELSE Garbage

Happens(event) ==
    /\ count[event] < Limit[event]
    /\ count' = [count EXCEPT ![event] = @ + 1]

Init ==
    /\ mode = "boot" /\ dfu = NewDfu /\ next_block = 0 /\ ep0 = 0
    /\ payload = 0 /\ last = Erased /\ todo = <<>> /\ fill = NoFill
    /\ \E first \in {Old, Erased} :
           flash = [a \in Addresses |-> IF a < BOOT_ADDR THEN first ELSE Loader]
    /\ rww = TRUE
    /\ app_setup = "my_setup"
    /\ download = [image |-> <<>>, refused |-> FALSE, clean |-> TRUE,
                   app |-> "untouched"]
    /\ uploaded = <<>>
    /\ count = [e \in Events |-> 0]

-----------------------------------------------------------------------------
(* flash.c                                                                 *)

\* Mutant: the size is left out.
CanWriteBegin(address, size) == address < BOOT_ADDR
CanWrite(address, size) == address + size <= BOOT_ADDR

\* The contents of the Flash with the page of an address set.
WithPage(address, bytes, contents) ==
    [a \in Addresses |-> IF a \in PageOf(address) THEN bytes[Offset(a)]
                                                  ELSE contents[a]]
\* boot_page_write() clears bits; without an erase that is not what was meant.
Written(address, bytes, contents) ==
    WithPage(address, [i \in 0..(SPM_PAGESIZE - 1) |->
        IF contents[address - Offset(address) + i] = Erased THEN bytes[i] ELSE Garbage],
        contents)

\* Mutant: pages are not erased.
PageEraseNever == flash
\* flash, after the erasing at the head of an iteration of flash_write().
PageErase ==
    IF Offset(payload) = 0 THEN WithPage(payload, NoFill, flash)
    ELSE flash

\* Mutant: the odd byte goes where the even one belongs.
PageFillSwapped(byte) ==
    IF payload % 2 = 1
    THEN [fill EXCEPT ![Offset(payload)] = last, ![Offset(payload) - 1] = byte]
    ELSE fill
\* fill, after boot_page_fill(): an even byte waits in "last" for the odd one.
PageFill(byte) ==
    IF payload % 2 = 1 /\ fill[Offset(payload)] = Erased
                       /\ fill[Offset(payload) - 1] = Erased
    THEN [fill EXCEPT ![Offset(payload)] = byte, ![Offset(payload) - 1] = last]
    ELSE fill

\* One iteration of the loop of flash_write().
WriteByte ==
    /\ todo # <<>>
    /\ LET byte == Head(todo)
           full == Offset(payload + 1) = 0
       IN  /\ last' = IF payload % 2 = 1 THEN last ELSE byte
           /\ flash' = IF full THEN Written(payload, PageFill(byte), PageErase)
                       ELSE PageErase
           /\ fill' = IF full THEN NoFill ELSE PageFill(byte)
           /\ rww' = (rww /\ Offset(payload) # 0 /\ ~full)
    /\ payload' = payload + 1
    /\ todo' = Tail(todo)
    /\ UNCHANGED <<mode, dfu, next_block, ep0, app_setup, history, count>>

\* Mutant: the last page is only written if it is full.
EndWriteFull(address) == fill' = NoFill /\ rww' = TRUE /\ UNCHANGED <<flash, last, todo>>
\* flash_end_write(); boot_rww_enable() erases the page buffer, too.
EndWrite(address) ==
    /\ flash' = IF Offset(address) = 0 THEN flash
                ELSE Written(address, fill, flash)
    /\ fill' = NoFill
    /\ rww' = TRUE
    /\ UNCHANGED <<last, todo>>

-----------------------------------------------------------------------------
(* dfu.c                                                                   *)

\* A SETUP packet is handled: the boot loader is there, and not writing.
Setup == mode \in {"boot", "leaving"} /\ todo = <<>>

\* From dfuIDLE, a request starts over: the host chooses the first block
\* number, and start() resets payload.
Starting == dfu.state = "dfuIDLE"
Expected(block) == Starting \/ block = next_block
Retransmitted(block) == ~Starting /\ block = (next_block - 1) % BLOCKS

\* Mutant: an upload does not start over.
FromKept == payload
From == IF Starting THEN 0 ELSE payload

StartDownload ==
    IF ~Starting THEN download
    ELSE [image |-> <<>>, refused |-> FALSE, clean |-> fill = NoFill,
          app |-> IF download.app = "cut" THEN "cut" ELSE "untouched"]
CutOff == [download EXCEPT !.app = IF @ = "open" THEN "cut" ELSE @]
StartUpload == IF Starting THEN <<>> ELSE uploaded

\* The conditions of block_receive().
Fits(length) == CanWrite(From, length) /\ length <= EP0_SIZE

\* Mutant: a refusal is not reported.
ReceiveUnreported(length) == "OK"
\* dfu.status after block_receive().
Receive(length) == IF Fits(length) THEN dfu.status
                   ELSE IF CanWrite(From, length) THEN "errUNKNOWN"
                   ELSE "errADDRESS"

\* A request that changes nothing, whether it is answered or stalled; like any
\* SETUP, it cancels a data stage.
Ignore ==
    /\ ep0' = 0
    /\ UNCHANGED <<mode, dfu, next_block, payload, memory, app_setup, history>>

\* The branches that end in dfuERROR.
BadBlock ==
    /\ dfu' = [state |-> "dfuERROR", status |-> "errUNKNOWN"]
    /\ ep0' = 0
    /\ UNCHANGED <<mode, next_block, payload, memory, app_setup, history>>

DnloadEnd(block) ==
    /\ next_block' = block
    /\ EndWrite(From)
    /\ dfu' = [dfu EXCEPT !.state = "dfuIDLE"]
    /\ payload' = From
    /\ ep0' = 0
    /\ download' = [StartDownload EXCEPT
           !.app = IF StartDownload.app = "open" THEN "whole" ELSE @]
    /\ uploaded' = <<>>
    /\ UNCHANGED <<mode, app_setup>>

\* Mutant: the state is not assigned, as in the branches with an error.
DnloadStateKept == dfu.state
\* block_receive() refuses or waits for the data; the state is the same.
DnloadState == "dfuDNLOAD_IDLE"

DnloadBlock(block, length) ==
    /\ next_block' = (block + 1) % BLOCKS
    /\ dfu' = [state |-> DnloadState, status |-> Receive(length)]
    /\ payload' = From
    /\ ep0' = IF Fits(length) THEN length ELSE 0
    /\ download' = [StartDownload EXCEPT !.refused = @ \/ ~Fits(length)]
    /\ uploaded' = <<>>
    /\ UNCHANGED <<mode, memory, app_setup>>

\* DFU_DNLOAD.  A retransmission is answered with success, but its data stage
\* meets an EP0 that does not receive.
Dnload(block, length) ==
    /\ Setup /\ Happens("dnload")
    /\ IF dfu.state \notin {"dfuIDLE", "dfuDNLOAD_IDLE"} THEN Ignore
       ELSE IF Retransmitted(block) THEN Ignore
       ELSE IF ~Expected(block) THEN BadBlock
       ELSE IF length = 0 THEN DnloadEnd(block)
       ELSE DnloadBlock(block, length)

\* The data stage of an accepted block: block_write() begins.
DataStage ==
    /\ mode \in {"boot", "leaving"} /\ ep0 # 0
    /\ LET data == [i \in 1..ep0 |-> <<count["dnload"], i>>]
       IN  /\ todo' = data
           /\ download' = [download EXCEPT !.image = @ \o data, !.app = "open"]
    /\ ep0' = 0
    /\ UNCHANGED <<mode, dfu, next_block, payload, last, fill, flash, rww,
                   app_setup, uploaded, count>>

\* block_transmit() of "got" bytes, those that are left at most.  Its dfuIDLE
\* after a short block does not survive.
Transmit(block, length) ==
    LET left == FLASH_SIZE - From
        got == IF length <= left THEN length ELSE left
    IN  IF length > EP0_SIZE
        THEN /\ dfu' = [state |-> "dfuUPLOAD_IDLE", status |-> "errUNKNOWN"]
             /\ payload' = From
             /\ uploaded' = StartUpload
        ELSE /\ dfu' = [dfu EXCEPT !.state = "dfuUPLOAD_IDLE"]
             /\ payload' = From + got
             /\ uploaded' = StartUpload \o [i \in 1..got |-> ReadByte(From + i - 1)]

\* DFU_UPLOAD
Upload(block, length) ==
    /\ Setup /\ UNCHANGED count
    /\ IF dfu.state \notin {"dfuIDLE", "dfuUPLOAD_IDLE"} THEN Ignore
       ELSE IF ~Expected(block) THEN BadBlock
       ELSE /\ Transmit(block, length)
            /\ next_block' = (block + 1) % BLOCKS
            /\ ep0' = 0
            /\ UNCHANGED <<mode, memory, app_setup, download>>

\* DFU_ABORT and DFU_CLRSTATUS
Abort ==
    /\ Setup /\ Happens("other")
    /\ dfu' = NewDfu
    /\ ep0' = 0
    /\ download' = CutOff
    /\ UNCHANGED <<mode, next_block, payload, memory, app_setup, uploaded>>

\* Any other request, or a bus reset: a data stage is cancelled.
OtherRequest ==
    /\ Setup
    /\ Ignore
    /\ UNCHANGED count

-----------------------------------------------------------------------------
(* boot.c                                                                  *)

\* A reset: main() of the boot loader, and a Flash controller at rest.
Reset ==
    /\ mode' = "boot" /\ dfu' = NewDfu /\ next_block' = 0 /\ ep0' = 0
    /\ payload' = 0 /\ last' = Erased /\ todo' = <<>> /\ fill' = NoFill
    /\ rww' = TRUE
    /\ app_setup' = "my_setup"
    /\ UNCHANGED <<flash, uploaded>>

PowerCycle ==
    /\ Happens("other")
    /\ Reset
    /\ download' = CutOff

\* Mutant: the test for an erased Flash is inverted.
MayLeaveErased == dfu.state = "dfuIDLE" /\ ReadByte(0) = Erased
\* The condition under which the loop of main() counts.
MayLeave == dfu.state = "dfuIDLE" /\ ReadByte(0) # Erased

\* The loop of main() has counted for 2.5 s without a break.
BootTimeout ==
    /\ mode = "boot" /\ todo = <<>>
    /\ MayLeave
    /\ mode' = "leaving"
    /\ UNCHANGED <<dfu, next_block, ep0, payload, memory, app_setup, history, count>>

\* cli(), usb_reset() and run_payload(): requests were handled until here.
Leave ==
    /\ mode = "leaving" /\ todo = <<>>
    /\ mode' = "app"
    /\ dfu' = NewDfu /\ ep0' = 0
    /\ app_setup' = "my_setup"
    /\ download' = CutOff
    /\ UNCHANGED <<next_block, payload, memory, uploaded, count>>

-----------------------------------------------------------------------------
(* ep0.c, in the application                                               *)

\* SET_INTERFACE, to the alternate setting that stands nth in the descriptor.
SetInterface(nth) ==
    /\ mode = "app" /\ Happens("other")
    /\ app_setup' = IF nth # 0 THEN "my_dfu_setup" ELSE "my_setup"
    /\ dfu' = IF nth # 0 THEN [dfu EXCEPT !.state = "appIDLE"] ELSE dfu
    /\ UNCHANGED <<mode, next_block, ep0, payload, memory, history>>

\* DFU_DETACH
Detach ==
    /\ mode = "app" /\ app_setup = "my_dfu_setup"
    /\ dfu' = [dfu EXCEPT !.state = "appDETACH"]
    /\ UNCHANGED <<mode, next_block, ep0, payload, memory, app_setup, history, count>>

\* DFU_CLRSTATUS
ClrStatus ==
    /\ mode = "app" /\ app_setup = "my_dfu_setup"
    /\ dfu' = NewDfu
    /\ UNCHANGED <<mode, next_block, ep0, payload, memory, app_setup, history, count>>

\* my_reset() of ep0.c
BusReset ==
    /\ mode = "app" /\ dfu.state = "appDETACH"
    /\ Reset
    /\ UNCHANGED <<download, count>>

-----------------------------------------------------------------------------
Request ==
    \/ \E block \in 0..(BLOCKS - 1) :
           \/ \E length \in DnloadLengths : Dnload(block, length)
           \/ \E length \in UploadLengths : Upload(block, length)
    \/ Abort \/ OtherRequest

App == (\E nth \in {0, 1} : SetInterface(nth)) \/ Detach \/ ClrStatus \/ BusReset

Next == \/ Request \/ DataStage \/ WriteByte
        \/ BootTimeout \/ Leave \/ PowerCycle \/ App

\* The CPU runs: interrupts end, and so does the loop once it counts.
Fairness == WF_vars(WriteByte) /\ WF_vars(BootTimeout) /\ WF_vars(Leave)

Spec == Init /\ [][Next]_vars
FairSpec == Spec /\ Fairness

-----------------------------------------------------------------------------
\* Types; a byte waits in "todo" only between requests of a download.
TypeOK ==
    /\ mode \in {"boot", "leaving", "app"}
    /\ dfu \in [state : DfuStates, status : Statuses]
    /\ next_block \in 0..(BLOCKS - 1)
    /\ ep0 \in 0..EP0_SIZE
    /\ payload \in 0..FLASH_SIZE
    /\ last \in Byte /\ todo \in Seq(Byte)
    /\ fill \in [0..(SPM_PAGESIZE - 1) -> Byte]
    /\ flash \in [Addresses -> Byte] /\ rww \in BOOLEAN
    /\ app_setup \in {"my_setup", "my_dfu_setup"}
    /\ download \in Downloads /\ uploaded \in Seq(Byte)
    /\ count \in [Events -> Nat]

\* No request, of any length and in any order, makes the boot loader erase or
\* write a page of its own: can_write() is asked when a block is announced,
\* and holds for the block that is written later (dfu.c:126, flash.c:35).
BootLoaderUntouched ==
    \A a \in Addresses : a >= BOOT_ADDR => flash[a] = Loader

\* When a download has ended, the Flash holds from address 0 what was received,
\* up to whole words: flash_end_write() loses an odd last byte (flash.c:66).
\* Only a download that starts with an erased page buffer is promised this
\* much: DFU_ABORT does not erase it (dfu.c:232).
FlashHoldsImage ==
    download.app = "whole" /\ download.clean =>
        \A i \in 1..(Len(download.image) - (Len(download.image) % 2)) :
            flash[i - 1] = download.image[i]

\* The state says dfuDNLOAD_IDLE after a refused block, too (dfu.c:204), and the
\* next one is taken; but the status tells the host that one is missing.
RefusedIsReported ==
    download.refused /\ dfu.state = "dfuDNLOAD_IDLE" => dfu.status # "OK"

\* The application is started with a download half written only if that was
\* broken off, or arrived after the loop of main() (boot.c:62-71).
AppIsWhole ==
    [][mode = "boot" /\ mode' = "leaving" => download.app # "open"]_vars

\* What an upload has read is the Flash from address 0 on, unless a download
\* was broken off that left the application section closed.
UploadFaithful ==
    \A i \in 1..Len(uploaded) :
        \/ uploaded[i] = flash[i - 1]
        \/ uploaded[i] = Garbage /\ download.app = "cut"

\* With an application in the Flash and no download, upload or error pending,
\* the application runs at last.
AppStarts ==
    (mode = "boot" /\ dfu.state = "dfuIDLE" /\ flash[0] # Erased /\ rww)
        ~> (mode = "app" \/ dfu.state # "dfuIDLE")
=============================================================================
