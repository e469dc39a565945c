----------------------------- MODULE DfuProofs -----------------------------
(***************************************************************************)
(* Proofs about Dfu, for every size of the Flash, its pages and blocks.    *)
(*                                                                         *)
(* can_write() is asked in one interrupt and the block written in another. *)
(* The invariant Pending says what its answer is worth in between: while a *)
(* data stage is awaited, and while its bytes are written, payload has not *)
(* moved but by those bytes.  Pages being whole below BOOT_ADDR, no erase  *)
(* or write then reaches the boot loader.                                  *)
(*                                                                         *)
(* Exact says why an upload has no gap: payload counts what was uploaded,  *)
(* and nothing is written in between.  Faithful says where each byte of a  *)
(* download is: in a page written, in the page buffer, in "last", or to do.*)
(***************************************************************************)
EXTENDS Dfu, TLAPS

Pending ==
    /\ ep0 # 0 => payload + ep0 <= BOOT_ADDR
    /\ todo # <<>> => ep0 = 0 /\ payload + Len(todo) <= BOOT_ADDR
    /\ mode # "app" /\ dfu.state = "dfuDNLOAD_IDLE" => payload <= BOOT_ADDR

Inv == TypeOK /\ Pending /\ BootLoaderUntouched

-----------------------------------------------------------------------------
(* Pages and bytes                                                         *)

LEMMA Bytes == Erased \in Byte /\ Old \in Byte /\ Loader \in Byte /\ Garbage \in Byte
BY DEF Erased, Old, Loader, Garbage, Byte

LEMMA OffsetType == \A a \in Nat : Offset(a) \in 0..(SPM_PAGESIZE - 1)
BY DfuAssumption DEF Offset

\* The boot loader begins with a page: one that begins below it ends below it.
LEMMA PageEndsBelow ==
    ASSUME NEW a \in Nat, a < BOOT_ADDR
    PROVE  a - Offset(a) + SPM_PAGESIZE <= BOOT_ADDR
<1> DEFINE P == SPM_PAGESIZE
           q == a \div P
           k == BOOT_ADDR \div P
<1>1. /\ P \in Nat \ {0} /\ BOOT_ADDR \in Nat
      /\ a = P * q + (a % P) /\ a % P \in 0..(P - 1) /\ q \in Int
      /\ BOOT_ADDR = P * k /\ k \in Int
  BY DfuAssumption, SMT
<1> HIDE DEF P, q, k
<1>2. P * q < P * k
  BY <1>1
<1>3. q < k
  BY <1>1, <1>2
<1>4. P * (q + 1) <= P * k /\ P * (q + 1) = P * q + P
  BY <1>1, <1>3
<1>5. a - (a % P) + P <= BOOT_ADDR
  BY <1>1, <1>4
<1> QED BY <1>5 DEF Offset, P

LEMMA PageBelow ==
    ASSUME NEW address \in Nat, address < BOOT_ADDR, NEW a \in PageOf(address)
    PROVE  a < BOOT_ADDR
<1>1. address - Offset(address) + SPM_PAGESIZE <= BOOT_ADDR
  BY PageEndsBelow
<1>2. /\ a \in Nat /\ a < address - Offset(address) + SPM_PAGESIZE
      /\ Offset(address) \in Nat /\ SPM_PAGESIZE \in Nat /\ BOOT_ADDR \in Nat
  BY OffsetType, DfuAssumption DEF PageOf, Addresses
<1> QED BY <1>1, <1>2

LEMMA NoFillType == NoFill \in [0..(SPM_PAGESIZE - 1) -> Byte]
BY Bytes DEF NoFill

LEMMA AddressesNat == \A a \in Addresses : a \in Nat
BY DEF Addresses

LEMMA WithPageType ==
    ASSUME NEW address, NEW bytes \in [0..(SPM_PAGESIZE - 1) -> Byte],
           NEW contents \in [Addresses -> Byte]
    PROVE  WithPage(address, bytes, contents) \in [Addresses -> Byte]
BY OffsetType, AddressesNat DEF WithPage

LEMMA WrittenType ==
    ASSUME NEW address, NEW bytes \in [0..(SPM_PAGESIZE - 1) -> Byte],
           NEW contents \in [Addresses -> Byte]
    PROVE  Written(address, bytes, contents) \in [Addresses -> Byte]
<1> DEFINE cleared == [i \in 0..(SPM_PAGESIZE - 1) |->
        IF contents[address - Offset(address) + i] = Erased THEN bytes[i] ELSE Garbage]
<1>1. cleared \in [0..(SPM_PAGESIZE - 1) -> Byte]
  BY Bytes
<1> QED BY <1>1, WithPageType DEF Written

\* A page that begins below the boot loader leaves the boot loader alone.
LEMMA WithPageKeeps ==
    ASSUME NEW address \in Nat, address < BOOT_ADDR, NEW bytes, NEW contents,
           NEW a \in Addresses, a >= BOOT_ADDR
    PROVE  WithPage(address, bytes, contents)[a] = contents[a]
<1>1. a \notin PageOf(address)
  BY PageBelow, AddressesNat, DfuAssumption
<1> QED BY <1>1 DEF WithPage

LEMMA WrittenKeeps ==
    ASSUME NEW address \in Nat, address < BOOT_ADDR, NEW bytes, NEW contents,
           NEW a \in Addresses, a >= BOOT_ADDR
    PROVE  Written(address, bytes, contents)[a] = contents[a]
BY WithPageKeeps DEF Written

-----------------------------------------------------------------------------
(* flash.c                                                                 *)

LEMMA InitInv == Init => Inv
<1> SUFFICES ASSUME Init PROVE Inv
  OBVIOUS
<1>1. flash \in [Addresses -> Byte] /\ BootLoaderUntouched
  <2>1. PICK first \in {Old, Erased} :
            flash = [a \in Addresses |-> IF a < BOOT_ADDR THEN first ELSE Loader]
    BY DEF Init
  <2> QED BY <2>1, Bytes, AddressesNat, DfuAssumption DEF BootLoaderUntouched
<1>2. dfu \in [state : DfuStates, status : Statuses] /\ dfu.state = "dfuIDLE"
  BY DEF Init, NewDfu, DfuStates, Statuses
<1>3. download \in Downloads /\ uploaded \in Seq(Byte) /\ todo \in Seq(Byte)
  BY DEF Init, Downloads
<1>4. count \in [Events -> Nat]
  BY DEF Init
<1>5. fill \in [0..(SPM_PAGESIZE - 1) -> Byte]
  BY NoFillType DEF Init
<1>6. TypeOK
  BY <1>1, <1>2, <1>3, <1>4, <1>5, Bytes, DfuAssumption DEF Init, TypeOK
<1> QED BY <1>1, <1>2, <1>6 DEF Init, Inv, Pending

LEMMA PageFillType ==
    ASSUME TypeOK, NEW byte \in Byte
    PROVE  PageFill(byte) \in [0..(SPM_PAGESIZE - 1) -> Byte]
BY DEF PageFill, TypeOK

\* One byte of a block that can_write() has allowed.
LEMMA WriteByteInv == Inv /\ WriteByte => Inv'
<1> SUFFICES ASSUME Inv, WriteByte PROVE Inv'
  OBVIOUS
<1> DEFINE byte == Head(todo)
           full == Offset(payload + 1) = 0
<1>0. TypeOK
  BY DEF Inv
<1>1. /\ todo \in Seq(Byte) /\ todo # <<>> /\ payload \in Nat /\ BOOT_ADDR \in Nat
      /\ FLASH_SIZE \in Nat /\ BOOT_ADDR <= FLASH_SIZE
  BY <1>0, DfuAssumption DEF TypeOK, WriteByte
<1>2. /\ byte \in Byte /\ Tail(todo) \in Seq(Byte)
      /\ Len(todo) \in Nat \ {0} /\ Len(Tail(todo)) = Len(todo) - 1
  BY <1>1
<1>3. ep0 = 0 /\ payload + Len(todo) <= BOOT_ADDR
  BY <1>1 DEF Inv, Pending
<1>4. payload < BOOT_ADDR /\ payload' = payload + 1 /\ todo' = Tail(todo)
  BY <1>1, <1>2, <1>3 DEF WriteByte
<1>5. PageErase \in [Addresses -> Byte]
  BY <1>0, WithPageType, NoFillType DEF PageErase, TypeOK
<1>6. \A a \in Addresses : a >= BOOT_ADDR => PageErase[a] = flash[a]
  BY <1>1, <1>4, WithPageKeeps DEF PageErase
<1>7. PageFill(byte) \in [0..(SPM_PAGESIZE - 1) -> Byte]
  BY <1>0, <1>2, PageFillType
<1>8. /\ flash' = IF full THEN Written(payload, PageFill(byte), PageErase)
                  ELSE PageErase
      /\ fill' = IF full THEN NoFill ELSE PageFill(byte)
      /\ last' = IF payload % 2 = 1 THEN last ELSE byte
      /\ rww' = (rww /\ Offset(payload) # 0 /\ ~full)
      /\ UNCHANGED <<mode, dfu, next_block, ep0, app_setup, history, count>>
  BY DEF WriteByte
<1> HIDE DEF byte, full
<1>9. flash' \in [Addresses -> Byte] /\ fill' \in [0..(SPM_PAGESIZE - 1) -> Byte]
  BY <1>5, <1>7, <1>8, WrittenType, NoFillType
<1>10. BootLoaderUntouched'
  <2> SUFFICES ASSUME NEW a \in Addresses, a >= BOOT_ADDR PROVE flash'[a] = Loader
    BY DEF BootLoaderUntouched
  <2>1. PageErase[a] = Loader
    BY <1>6 DEF Inv, BootLoaderUntouched
  <2>2. Written(payload, PageFill(byte), PageErase)[a] = PageErase[a]
    BY <1>1, <1>4, WrittenKeeps
  <2> QED BY <1>8, <2>1, <2>2
<1>11. Pending'
  BY <1>1, <1>2, <1>3, <1>4, <1>8 DEF Pending
<1>12. payload' \in 0..FLASH_SIZE
  BY <1>1, <1>4
<1>13. last' \in Byte /\ rww' \in BOOLEAN
  BY <1>0, <1>2, <1>8 DEF TypeOK
<1>14. TypeOK'
  BY <1>0, <1>2, <1>4, <1>8, <1>9, <1>12, <1>13 DEF TypeOK, history
<1> QED BY <1>10, <1>11, <1>14 DEF Inv

-----------------------------------------------------------------------------
(* dfu.c                                                                   *)

LEMMA DfuFields ==
    /\ \A s \in DfuStates, t \in Statuses :
           [state |-> s, status |-> t] \in [state : DfuStates, status : Statuses]
    /\ NewDfu \in [state : DfuStates, status : Statuses] /\ NewDfu.state = "dfuIDLE"
    /\ {"dfuIDLE", "dfuDNLOAD_IDLE", "dfuUPLOAD_IDLE", "dfuERROR", "appIDLE",
        "appDETACH"} = DfuStates
    /\ {"OK", "errADDRESS", "errUNKNOWN"} = Statuses
BY DEF NewDfu, DfuStates, Statuses

LEMMA FromType ==
    ASSUME TypeOK
    PROVE  /\ From \in Nat /\ From <= FLASH_SIZE
           /\ From = 0 \/ From = payload
BY DfuAssumption DEF From, TypeOK

\* A download goes on from below the boot loader.
LEMMA FromBelow ==
    ASSUME Inv, Setup, dfu.state \in {"dfuIDLE", "dfuDNLOAD_IDLE"}
    PROVE  From \in Nat /\ From <= BOOT_ADDR
<1>1. mode # "app"
  BY DEF Setup
<1>2. CASE dfu.state = "dfuIDLE"
  BY <1>2, DfuAssumption DEF From, Starting
<1>3. CASE dfu.state = "dfuDNLOAD_IDLE"
  BY <1>1, <1>3, FromType DEF From, Starting, Inv, Pending
<1> QED BY <1>2, <1>3

LEMMA StartDownloadType == TypeOK => StartDownload \in Downloads
<1> SUFFICES ASSUME TypeOK PROVE StartDownload \in Downloads
  OBVIOUS
<1>1. download \in Downloads
  BY DEF TypeOK
<1> DEFINE app == IF download.app = "cut" THEN "cut" ELSE "untouched"
<1>2. [image |-> <<>>, refused |-> FALSE, clean |-> fill = NoFill,
       app |-> app] \in Downloads
  BY DEF Downloads
<1> QED BY <1>1, <1>2 DEF StartDownload

LEMMA CutOffType == TypeOK => CutOff \in Downloads
BY DEF CutOff, TypeOK, Downloads

LEMMA BlockNumber == \A b \in 0..(BLOCKS - 1) : (b + 1) % BLOCKS \in 0..(BLOCKS - 1)
BY DfuAssumption, SMT

LEMMA HappensType ==
    ASSUME TypeOK, NEW event \in Events, Happens(event)
    PROVE  count' \in [Events -> Nat]
BY DEF Happens, TypeOK

\* No data stage is awaited once ep0 is cancelled, and nothing is written.
LEMMA IgnoreInv ==
    ASSUME Inv, Setup, Ignore, count' \in [Events -> Nat]
    PROVE  Inv'
<1>1. TypeOK'
  BY DfuAssumption DEF Inv, TypeOK, Ignore, memory, history
<1> QED BY <1>1, DfuAssumption DEF Inv, Pending, BootLoaderUntouched, Ignore, Setup, memory

LEMMA BadBlockInv ==
    ASSUME Inv, Setup, BadBlock, count' \in [Events -> Nat]
    PROVE  Inv'
<1>1. dfu' \in [state : DfuStates, status : Statuses] /\ dfu'.state = "dfuERROR"
  BY DfuFields DEF BadBlock
<1>2. TypeOK'
  BY <1>1, DfuAssumption DEF Inv, TypeOK, BadBlock, memory, history
<1> QED BY <1>1, <1>2, DfuAssumption
        DEF Inv, Pending, BootLoaderUntouched, BadBlock, Setup, memory

LEMMA DnloadEndInv ==
    ASSUME Inv, Setup, dfu.state \in {"dfuIDLE", "dfuDNLOAD_IDLE"},
           NEW block \in 0..(BLOCKS - 1), DnloadEnd(block), count' \in [Events -> Nat]
    PROVE  Inv'
<1>0. TypeOK
  BY DEF Inv
<1>1. From \in Nat /\ From <= BOOT_ADDR /\ BOOT_ADDR \in Nat /\ FLASH_SIZE \in Nat
      /\ BOOT_ADDR <= FLASH_SIZE
  BY FromBelow, DfuAssumption
<1>2. /\ flash' = IF Offset(From) = 0 THEN flash ELSE Written(From, fill, flash)
      /\ fill' = NoFill /\ rww' = TRUE /\ last' = last /\ todo' = todo
      /\ next_block' = block /\ payload' = From /\ ep0' = 0 /\ uploaded' = <<>>
      /\ mode' = mode /\ app_setup' = app_setup
      /\ dfu' = [dfu EXCEPT !.state = "dfuIDLE"]
      /\ download' = [StartDownload EXCEPT
             !.app = IF StartDownload.app = "open" THEN "whole" ELSE StartDownload.app]
  BY DEF DnloadEnd, EndWrite
<1>3. flash' \in [Addresses -> Byte]
  BY <1>0, <1>2, WrittenType DEF TypeOK
<1>4. Offset(From) # 0 => From < BOOT_ADDR
  BY <1>1, DfuAssumption DEF Offset
<1>5. BootLoaderUntouched'
  <2> SUFFICES ASSUME NEW a \in Addresses, a >= BOOT_ADDR PROVE flash'[a] = Loader
    BY DEF BootLoaderUntouched
  <2>1. flash[a] = Loader
    BY DEF Inv, BootLoaderUntouched
  <2>2. Offset(From) # 0 => Written(From, fill, flash)[a] = flash[a]
    BY <1>1, <1>4, WrittenKeeps
  <2> QED BY <1>2, <2>1, <2>2
<1>6. dfu' \in [state : DfuStates, status : Statuses] /\ dfu'.state = "dfuIDLE"
  BY <1>0, <1>2, DfuFields DEF TypeOK
<1>7. download' \in Downloads
  <2>1. StartDownload \in Downloads
    BY <1>0, StartDownloadType
  <2> HIDE DEF StartDownload
  <2> QED BY <1>2, <2>1 DEF Downloads
<1>8. todo' = <<>>
  BY <1>2 DEF Setup
<1>9. TypeOK'
  BY <1>0, <1>1, <1>2, <1>3, <1>6, <1>7, NoFillType, DfuAssumption DEF TypeOK
<1> QED BY <1>2, <1>5, <1>6, <1>8, <1>9 DEF Inv, Pending

LEMMA DnloadBlockInv ==
    ASSUME Inv, Setup, dfu.state \in {"dfuIDLE", "dfuDNLOAD_IDLE"},
           NEW block \in 0..(BLOCKS - 1), NEW length \in Nat,
           DnloadBlock(block, length), count' \in [Events -> Nat]
    PROVE  Inv'
<1>0. TypeOK
  BY DEF Inv
<1>1. From \in Nat /\ From <= BOOT_ADDR /\ BOOT_ADDR \in Nat /\ FLASH_SIZE \in Nat
      /\ BOOT_ADDR <= FLASH_SIZE /\ EP0_SIZE \in Nat
  BY FromBelow, DfuAssumption
<1>2. /\ next_block' = (block + 1) % BLOCKS /\ payload' = From
      /\ ep0' = IF Fits(length) THEN length ELSE 0
      /\ dfu' = [state |-> "dfuDNLOAD_IDLE", status |-> Receive(length)]
      /\ download' = [StartDownload EXCEPT
             !.refused = StartDownload.refused \/ ~Fits(length)]
      /\ uploaded' = <<>>
      /\ mode' = mode /\ app_setup' = app_setup
      /\ UNCHANGED <<last, todo, fill, flash, rww>>
  BY DEF DnloadBlock, DnloadState, memory
<1>3. Fits(length) => length <= EP0_SIZE /\ From + length <= BOOT_ADDR
  BY DEF Fits, CanWrite
<1>4. Receive(length) \in Statuses
  BY <1>0, DfuFields DEF Receive, TypeOK
<1>5. dfu' \in [state : DfuStates, status : Statuses]
  BY <1>2, <1>4, DfuFields
<1>6. download' \in Downloads
  <2>1. StartDownload \in Downloads
    BY <1>0, StartDownloadType
  <2>2. (StartDownload.refused \/ ~Fits(length)) \in BOOLEAN
    OBVIOUS
  <2> HIDE DEF StartDownload, Fits
  <2> QED BY <1>2, <2>1, <2>2 DEF Downloads
<1>7. ep0' \in 0..EP0_SIZE /\ (ep0' # 0 => payload' + ep0' <= BOOT_ADDR)
  BY <1>1, <1>2, <1>3
<1>8. todo' = <<>>
  BY <1>2 DEF Setup
<1>9. TypeOK'
  BY <1>0, <1>1, <1>2, <1>5, <1>6, <1>7, BlockNumber DEF TypeOK
<1>10. BootLoaderUntouched'
  BY <1>2 DEF Inv, BootLoaderUntouched
<1> QED BY <1>1, <1>2, <1>7, <1>8, <1>9, <1>10 DEF Inv, Pending

LEMMA DataStageInv == Inv /\ DataStage => Inv'
<1> SUFFICES ASSUME Inv, DataStage PROVE Inv'
  OBVIOUS
<1> DEFINE data == [i \in 1..ep0 |-> <<count["dnload"], i>>]
<1>0. TypeOK
  BY DEF Inv
<1>1. /\ todo' = data /\ ep0' = 0
      /\ download' = [download EXCEPT !.image = download.image \o data, !.app = "open"]
      /\ UNCHANGED <<mode, dfu, next_block, payload, last, fill, flash, rww,
                     app_setup, uploaded, count>>
      /\ ep0 # 0 /\ mode # "app"
  BY DEF DataStage
<1>2. ep0 \in Nat /\ count["dnload"] \in Nat
  BY <1>0, DfuAssumption DEF TypeOK, Events
<1>3. data \in Seq(Byte) /\ Len(data) = ep0
  BY <1>2 DEF Byte
<1> HIDE DEF data
<1>4. download' \in Downloads
  <2>1. download \in Downloads /\ download.image \o data \in Seq(Byte)
    BY <1>0, <1>3 DEF TypeOK, Downloads
  <2> QED BY <1>1, <2>1 DEF Downloads
<1>5. payload + ep0 <= BOOT_ADDR
  BY <1>1 DEF Inv, Pending
<1>6. TypeOK'
  BY <1>0, <1>1, <1>3, <1>4, DfuAssumption DEF TypeOK
<1>7. Pending'
  BY <1>1, <1>3, <1>5 DEF Inv, Pending
<1> QED BY <1>1, <1>6, <1>7 DEF Inv, BootLoaderUntouched

LEMMA UploadInv ==
    ASSUME Inv, NEW block \in 0..(BLOCKS - 1), NEW length \in UploadLengths,
           Upload(block, length)
    PROVE  Inv'
<1>0. TypeOK /\ Setup /\ count' \in [Events -> Nat] /\ length \in Nat
  BY DfuAssumption DEF Inv, Upload, TypeOK
<1>1. CASE Ignore
  BY <1>0, <1>1, IgnoreInv
<1>2. CASE BadBlock
  BY <1>0, <1>2, BadBlockInv
<1>3. CASE /\ Transmit(block, length)
           /\ next_block' = (block + 1) % BLOCKS
           /\ ep0' = 0
           /\ UNCHANGED <<mode, memory, app_setup, download>>
  <2> DEFINE left == FLASH_SIZE - From
             got == IF length <= left THEN length ELSE left
             bytes == [i \in 1..got |-> ReadByte(From + i - 1)]
  <2>1. From \in Nat /\ From <= FLASH_SIZE /\ FLASH_SIZE \in Nat
    BY <1>0, FromType, DfuAssumption
  <2>2. got \in Nat /\ From + got <= FLASH_SIZE
    BY <1>0, <2>1
  <2>3. bytes \in Seq(Byte)
    <3> SUFFICES ASSUME NEW i \in 1..got PROVE ReadByte(From + i - 1) \in Byte
      BY <2>2
    <3>1. From + i - 1 \in Addresses
      BY <2>1, <2>2 DEF Addresses
    <3> HIDE DEF got
    <3> QED BY <1>0, <3>1, Bytes DEF ReadByte, TypeOK
  <2>4. StartUpload \in Seq(Byte)
    BY <1>0 DEF StartUpload, TypeOK
  <2>5. dfu.status \in Statuses
    BY <1>0 DEF TypeOK
  <2>6. /\ \/ dfu' = [state |-> "dfuUPLOAD_IDLE", status |-> "errUNKNOWN"]
           \/ dfu' = [dfu EXCEPT !.state = "dfuUPLOAD_IDLE"]
        /\ payload' = From \/ payload' = From + got
        /\ uploaded' = StartUpload \/ uploaded' = StartUpload \o bytes
    BY <1>3 DEF Transmit
  <2> HIDE DEF bytes, got
  <2>7. dfu' \in [state : DfuStates, status : Statuses] /\ dfu'.state = "dfuUPLOAD_IDLE"
    BY <1>0, <2>6, DfuFields DEF TypeOK
  <2>8. uploaded' \in Seq(Byte)
    <3>1. StartUpload \o bytes \in Seq(Byte)
      BY <2>3, <2>4
    <3> QED BY <2>4, <2>6, <3>1
  <2>9. payload' \in 0..FLASH_SIZE
    BY <2>1, <2>2, <2>6
  <2>10. /\ mode' = mode /\ app_setup' = app_setup /\ download' = download
         /\ last' = last /\ todo' = todo /\ fill' = fill /\ flash' = flash /\ rww' = rww
    BY <1>3 DEF memory
  <2>11. next_block' \in 0..(BLOCKS - 1) /\ ep0' \in 0..EP0_SIZE /\ ep0' = 0
    BY <1>3, BlockNumber, DfuAssumption
  <2>12. TypeOK'
    BY <1>0, <2>7, <2>8, <2>9, <2>10, <2>11 DEF TypeOK
  <2> QED BY <1>0, <2>7, <2>10, <2>11, <2>12 DEF Inv, Pending, BootLoaderUntouched, Setup
<1> QED BY <1>1, <1>2, <1>3 DEF Upload

LEMMA DnloadInv ==
    ASSUME Inv, NEW block \in 0..(BLOCKS - 1), NEW length \in DnloadLengths,
           Dnload(block, length)
    PROVE  Inv'
<1>0. Setup /\ count' \in [Events -> Nat] /\ length \in Nat
  BY HappensType, DfuAssumption DEF Inv, Dnload, Events
<1>1. CASE dfu.state \notin {"dfuIDLE", "dfuDNLOAD_IDLE"} \/ Retransmitted(block)
  BY <1>0, <1>1, IgnoreInv DEF Dnload
<1>2. CASE /\ dfu.state \in {"dfuIDLE", "dfuDNLOAD_IDLE"} /\ ~Retransmitted(block)
           /\ ~Expected(block)
  BY <1>0, <1>2, BadBlockInv DEF Dnload
<1>3. CASE /\ dfu.state \in {"dfuIDLE", "dfuDNLOAD_IDLE"} /\ ~Retransmitted(block)
           /\ Expected(block)
  BY <1>0, <1>3, DnloadEndInv, DnloadBlockInv DEF Dnload
<1> QED BY <1>1, <1>2, <1>3

-----------------------------------------------------------------------------
(* The other requests, the loop of main(), and the application             *)

LEMMA AbortInv == Inv /\ Abort => Inv'
<1> SUFFICES ASSUME Inv, Abort PROVE Inv'
  OBVIOUS
<1>1. count' \in [Events -> Nat] /\ CutOff \in Downloads
  BY HappensType, CutOffType DEF Inv, Abort, Events
<1>2. dfu' \in [state : DfuStates, status : Statuses] /\ dfu'.state = "dfuIDLE"
  BY DfuFields DEF Abort
<1>3. TypeOK'
  BY <1>1, <1>2, DfuAssumption DEF Inv, TypeOK, Abort, memory
<1> QED BY <1>2, <1>3, DfuAssumption
        DEF Inv, Pending, BootLoaderUntouched, Abort, Setup, memory

LEMMA ResetInv ==
    ASSUME Inv, Reset, download' \in Downloads, count' \in [Events -> Nat]
    PROVE  Inv'
<1>1. dfu' \in [state : DfuStates, status : Statuses] /\ dfu'.state = "dfuIDLE"
  BY DfuFields DEF Reset
<1>2. todo' = <<>> /\ todo' \in Seq(Byte) /\ fill' \in [0..(SPM_PAGESIZE - 1) -> Byte]
  BY NoFillType DEF Reset
<1>3. TypeOK'
  BY <1>1, <1>2, Bytes, DfuAssumption DEF Inv, TypeOK, Reset
<1> QED BY <1>1, <1>2, <1>3, DfuAssumption DEF Inv, Pending, BootLoaderUntouched, Reset

LEMMA PowerCycleInv == Inv /\ PowerCycle => Inv'
<1> SUFFICES ASSUME Inv, PowerCycle PROVE Inv'
  OBVIOUS
<1>1. count' \in [Events -> Nat] /\ CutOff \in Downloads
  BY HappensType, CutOffType DEF Inv, PowerCycle, Events
<1> QED BY <1>1, ResetInv DEF PowerCycle

LEMMA BootTimeoutInv == Inv /\ BootTimeout => Inv'
<1> SUFFICES ASSUME Inv, BootTimeout PROVE Inv'
  OBVIOUS
<1>1. TypeOK'
  BY DEF Inv, TypeOK, BootTimeout, memory, history
<1> QED BY <1>1 DEF Inv, Pending, BootLoaderUntouched, BootTimeout, memory

LEMMA LeaveInv == Inv /\ Leave => Inv'
<1> SUFFICES ASSUME Inv, Leave PROVE Inv'
  OBVIOUS
<1>1. CutOff \in Downloads /\ dfu' \in [state : DfuStates, status : Statuses]
  BY CutOffType, DfuFields DEF Inv, Leave
<1>2. TypeOK'
  BY <1>1, DfuAssumption DEF Inv, TypeOK, Leave, memory
<1> QED BY <1>2, DfuAssumption DEF Inv, Pending, BootLoaderUntouched, Leave, memory

\* In the application nothing but dfu and user_setup changes.
LEMMA AppInv == Inv /\ App => Inv'
<1> SUFFICES ASSUME Inv, App PROVE Inv'
  OBVIOUS
<1>0. TypeOK
  BY DEF Inv
<1>1. CASE BusReset
  BY <1>0, <1>1, ResetInv DEF BusReset, TypeOK
<1>2. CASE ~BusReset
  <2>1. /\ UNCHANGED <<mode, next_block, ep0, payload, last, todo, fill, flash, rww,
                       download, uploaded>>
        /\ mode = "app"
        /\ app_setup' \in {"my_setup", "my_dfu_setup", app_setup}
    BY <1>2 DEF App, SetInterface, Detach, ClrStatus, memory, history
  <2>2. dfu' \in [state : DfuStates, status : Statuses]
    BY <1>0, <1>2, DfuFields DEF App, SetInterface, Detach, ClrStatus, TypeOK
  <2>3. count' \in [Events -> Nat]
    BY <1>0, <1>2, HappensType DEF App, SetInterface, Detach, ClrStatus, TypeOK, Events
  <2>4. TypeOK'
    BY <1>0, <2>1, <2>2, <2>3 DEF TypeOK
  <2> QED BY <2>1, <2>4 DEF Inv, Pending, BootLoaderUntouched
<1> QED BY <1>1, <1>2

LEMMA NextInv == Inv /\ [Next]_vars => Inv'
<1> SUFFICES ASSUME Inv, [Next]_vars PROVE Inv'
  OBVIOUS
<1>1. CASE Request
  <2>1. CASE OtherRequest
    <3>1. count' \in [Events -> Nat]
      BY <2>1 DEF OtherRequest, Inv, TypeOK
    <3> QED BY <2>1, <3>1, IgnoreInv DEF OtherRequest
  <2> QED BY <1>1, <2>1, DnloadInv, UploadInv, AbortInv DEF Request
<1>2. CASE UNCHANGED vars
  BY <1>2 DEF Inv, TypeOK, Pending, BootLoaderUntouched, vars, memory, history
<1> QED BY <1>1, <1>2, DataStageInv, WriteByteInv, BootTimeoutInv, LeaveInv,
           PowerCycleInv, AppInv DEF Next

LEMMA Invariance == Spec => []Inv
BY InitInv, NextInv, PTL DEF Spec

\* Every variable keeps its type: in particular, payload stays in the Flash,
\* and a data stage fits the buffer of EP0_SIZE bytes.
THEOREM TypeCorrect == Spec => []TypeOK
<1>1. Inv => TypeOK
  BY DEF Inv
<1> QED BY <1>1, Invariance, PTL

\* The boot loader never erases or writes a page of its own, whatever requests
\* come in whatever order, and wherever the power fails.
THEOREM BootLoaderIsSafe == Spec => []BootLoaderUntouched
<1>1. Inv => BootLoaderUntouched
  BY DEF Inv
<1> QED BY <1>1, Invariance, PTL

-----------------------------------------------------------------------------
(* What the host is told, and what is started                              *)

\* A half-written application is only there while the state keeps main() from
\* starting it; and a refused block leaves its mark on the status.
Honest ==
    /\ RefusedIsReported
    /\ download.app = "open" =>
           mode # "app" /\ dfu.state \in {"dfuDNLOAD_IDLE", "dfuERROR"}
    /\ ep0 # 0 => mode # "app" /\ dfu.state = "dfuDNLOAD_IDLE"

LEMMA HonestInit == Init => Honest
BY DEF Init, Honest, RefusedIsReported, NewDfu

LEMMA CutOffFields ==
    TypeOK => CutOff.app # "open" /\ CutOff.refused = download.refused
BY DEF CutOff, TypeOK, Downloads

LEMMA HonestRequest ==
    ASSUME Inv, Honest, Setup,
           NEW block \in 0..(BLOCKS - 1), NEW length \in Nat,
           Dnload(block, length) \/ Upload(block, length)
    PROVE  Honest'
<1>0. TypeOK /\ download \in Downloads
  BY DEF Inv, TypeOK
<1>1. CASE Ignore
  BY <1>1 DEF Honest, RefusedIsReported, Ignore, history
<1>2. CASE BadBlock
  BY <1>2 DEF Honest, RefusedIsReported, BadBlock, history, Setup
<1>3. CASE /\ DnloadEnd(block)
           /\ dfu.state \in {"dfuIDLE", "dfuDNLOAD_IDLE"}
  <2>1. StartDownload \in Downloads
    BY <1>0, StartDownloadType
  <2>2. /\ dfu'.state = "dfuIDLE" /\ ep0' = 0
        /\ download' = [StartDownload EXCEPT
               !.app = IF StartDownload.app = "open" THEN "whole" ELSE StartDownload.app]
    BY <1>0, <1>3 DEF DnloadEnd, TypeOK
  <2>3. download'.app # "open"
    <3> HIDE DEF StartDownload
    <3> QED BY <2>1, <2>2 DEF Downloads
  <2> QED BY <2>2, <2>3 DEF Honest, RefusedIsReported
<1>4. CASE /\ DnloadBlock(block, length)
           /\ dfu.state \in {"dfuIDLE", "dfuDNLOAD_IDLE"}
  <2>1. StartDownload \in Downloads
    BY <1>0, StartDownloadType
  <2>2. /\ dfu' = [state |-> "dfuDNLOAD_IDLE", status |-> Receive(length)]
        /\ download' = [StartDownload EXCEPT
               !.refused = StartDownload.refused \/ ~Fits(length)]
        /\ mode' = mode
    BY <1>4 DEF DnloadBlock, DnloadState
  <2>3. download'.refused => StartDownload.refused \/ ~Fits(length)
    BY <2>1, <2>2 DEF Downloads
  <2>4. StartDownload.refused => dfu.state # "dfuIDLE" /\ download.refused
    BY DEF StartDownload, Starting
  <2>5. ~Fits(length) => Receive(length) # "OK"
    BY DEF Receive
  <2>6. Fits(length) => Receive(length) = dfu.status
    BY DEF Receive
  <2> QED BY <1>4, <2>2, <2>3, <2>4, <2>5, <2>6 DEF Honest, RefusedIsReported, Setup
<1>5. CASE /\ Transmit(block, length) /\ ep0' = 0 /\ download' = download
           /\ dfu.state \in {"dfuIDLE", "dfuUPLOAD_IDLE"}
  <2>1. dfu'.state = "dfuUPLOAD_IDLE"
    BY <1>0, <1>5 DEF Transmit, TypeOK
  <2> QED BY <1>5, <2>1 DEF Honest, RefusedIsReported
<1> QED BY <1>1, <1>2, <1>3, <1>4, <1>5 DEF Dnload, Upload

LEMMA HonestNext == Inv /\ Honest /\ [Next]_vars => Honest'
<1> SUFFICES ASSUME Inv, Honest, [Next]_vars PROVE Honest'
  OBVIOUS
<1>0. TypeOK
  BY DEF Inv
<1>1. CASE Request
  <2>1. CASE Abort
    BY <1>0, <2>1, CutOffFields DEF Abort, Honest, RefusedIsReported, NewDfu
  <2>2. CASE OtherRequest
    BY <2>2 DEF OtherRequest, Ignore, Honest, RefusedIsReported, history
  <2>3. ASSUME NEW block \in 0..(BLOCKS - 1), NEW length \in Nat,
               Dnload(block, length) \/ Upload(block, length)
        PROVE  Honest'
    BY <2>3, HonestRequest DEF Dnload, Upload
  <2> QED BY <1>1, <2>1, <2>2, <2>3, DfuAssumption DEF Request
<1>2. CASE DataStage
  <2>1. /\ ep0 # 0 /\ ep0' = 0 /\ mode' = mode /\ dfu' = dfu
        /\ download'.refused = download.refused
    BY <1>0, <1>2 DEF DataStage, TypeOK, Downloads
  <2> QED BY <2>1 DEF Honest, RefusedIsReported
<1>3. CASE WriteByte
  BY <1>3 DEF WriteByte, Honest, RefusedIsReported, history
<1>4. CASE BootTimeout
  BY <1>4 DEF BootTimeout, Honest, RefusedIsReported, history
<1>5. CASE Leave
  BY <1>0, <1>5, CutOffFields DEF Leave, Honest, RefusedIsReported, NewDfu
<1>6. CASE PowerCycle
  BY <1>0, <1>6, CutOffFields DEF PowerCycle, Reset, Honest, RefusedIsReported, NewDfu
<1>7. CASE App
  <2> DEFINE Other == /\ mode = "app" /\ download' = download
                      /\ ep0' = 0 \/ ep0' = ep0
                      /\ dfu' = dfu \/ dfu'.state # "dfuDNLOAD_IDLE"
  <2>1. ASSUME BusReset \/ ClrStatus PROVE Other
    BY <2>1 DEF BusReset, Reset, ClrStatus, NewDfu, history
  <2>2. ASSUME Detach PROVE Other
    BY <1>0, <2>2 DEF Detach, TypeOK, history
  <2>3. ASSUME NEW nth \in {0, 1}, SetInterface(nth) PROVE Other
    BY <1>0, <2>3 DEF SetInterface, TypeOK, history
  <2>4. Other
    BY <1>7, <2>1, <2>2, <2>3 DEF App
  <2> QED BY <2>4 DEF Honest, RefusedIsReported
<1>8. CASE UNCHANGED vars
  BY <1>8 DEF vars, Honest, RefusedIsReported, history
<1> QED BY <1>1, <1>2, <1>3, <1>4, <1>5, <1>6, <1>7, <1>8 DEF Next

LEMMA AlwaysHonest == Spec => [](Inv /\ Honest)
<1>1. Init => Inv /\ Honest
  BY InitInv, HonestInit
<1>2. Inv /\ Honest /\ [Next]_vars => (Inv /\ Honest)'
  BY NextInv, HonestNext
<1> QED BY <1>1, <1>2, PTL DEF Spec

\* A host that asks for the status in a download learns of a refused block.
THEOREM RefusalIsReported == Spec => []RefusedIsReported
<1>1. Honest => RefusedIsReported
  BY DEF Honest
<1> QED BY <1>1, AlwaysHonest, PTL

\* main() never goes on to the application over a download that is under way.
THEOREM NoHalfApp == Spec => AppIsWhole
<1>1. Honest /\ [Next]_vars =>
          [mode = "boot" /\ mode' = "leaving" => download.app # "open"]_vars
  <2> SUFFICES ASSUME Honest, Next, mode = "boot", mode' = "leaving"
               PROVE  download.app # "open"
    OBVIOUS
  <2>1. BootTimeout
    BY DEF Next, Request, Dnload, Upload, DnloadEnd, DnloadBlock, BadBlock, Ignore,
           Abort, OtherRequest, DataStage, WriteByte, Leave, PowerCycle, Reset,
           App, SetInterface, Detach, ClrStatus, BusReset
  <2> QED BY <2>1 DEF BootTimeout, MayLeave, Honest
<1> QED BY <1>1, AlwaysHonest, PTL DEF Spec, AppIsWhole

-----------------------------------------------------------------------------
(* What an upload reads                                                    *)

\* An upload goes on where it stopped, in a Flash that nothing writes while it
\* lasts; and the application section is only closed by a download.
UploadExact ==
    /\ dfu.state = "dfuUPLOAD_IDLE" => payload = Len(uploaded)
    /\ uploaded # <<>> => ep0 = 0 /\ todo = <<>>
    /\ todo # <<>> => download.app = "open"
    /\ ~rww => download.app \in {"open", "cut"}

Exact == UploadExact /\ UploadFaithful

LEMMA NothingUploaded == uploaded = <<>> => UploadFaithful
BY DEF UploadFaithful

LEMMA ExactInit == Init => Exact
BY NothingUploaded DEF Init, Exact, UploadExact, NewDfu

LEMMA CutOffApp ==
    TypeOK => /\ download.app \in {"open", "cut"} => CutOff.app = "cut"
              /\ download.app \notin {"open", "cut"} => CutOff.app = download.app
BY DEF CutOff, TypeOK, Downloads

\* What has been uploaded stays true while the Flash stays as it is.
LEMMA StillFaithful ==
    UploadFaithful /\ flash' = flash /\ uploaded' = uploaded
        /\ (download.app = "cut" => download'.app = "cut") => UploadFaithful'
BY DEF UploadFaithful

LEMMA ExactTransmit ==
    ASSUME TypeOK, Honest, Exact, Setup, NEW block, NEW length \in Nat,
           Transmit(block, length), ep0' = 0,
           UNCHANGED <<mode, memory, app_setup, download>>,
           dfu.state \in {"dfuIDLE", "dfuUPLOAD_IDLE"}
    PROVE  Exact'
<1> DEFINE left == FLASH_SIZE - From
           got == IF length <= left THEN length ELSE left
           bytes == [i \in 1..got |-> ReadByte(From + i - 1)]
           begun == StartUpload
<1>1. From \in Nat /\ From <= FLASH_SIZE /\ FLASH_SIZE \in Nat
  BY FromType, DfuAssumption
<1>2. got \in Nat /\ From + got <= FLASH_SIZE
  BY <1>1
<1>3. begun \in Seq(Byte) /\ Len(begun) = From
  BY DEF StartUpload, From, Starting, TypeOK, Exact, UploadExact
<1>4. /\ flash' = flash /\ rww' = rww /\ todo' = todo /\ download' = download
      /\ todo = <<>>
  BY DEF memory, Setup
<1>5. \A i \in 1..Len(begun) :
          begun[i] = flash[i - 1] \/ (begun[i] = Garbage /\ download.app = "cut")
  BY DEF StartUpload, Exact, UploadFaithful
<1>6. ~rww => download.app = "cut"
  BY DEF Exact, UploadExact, Honest
<1>7. \A i \in 1..got :
          \/ bytes[i] = flash[From + i - 1]
          \/ bytes[i] = Garbage /\ download.app = "cut"
  BY <1>6 DEF ReadByte
<1>8. \/ /\ dfu' = [state |-> "dfuUPLOAD_IDLE", status |-> "errUNKNOWN"]
         /\ payload' = From /\ uploaded' = begun
      \/ /\ dfu' = [dfu EXCEPT !.state = "dfuUPLOAD_IDLE"]
         /\ payload' = From + got /\ uploaded' = begun \o bytes
  BY DEF Transmit
<1> HIDE DEF begun, got
<1>9. CASE payload' = From /\ uploaded' = begun
  <2>1. UploadFaithful'
    BY <1>4, <1>5, <1>9 DEF UploadFaithful
  <2> QED BY <1>3, <1>4, <1>6, <1>9, <2>1 DEF Exact, UploadExact
<1>10. CASE payload' = From + got /\ uploaded' = begun \o bytes
  <2>1. bytes \in Seq(Byte) /\ Len(bytes) = got
    <3> SUFFICES ASSUME NEW i \in 1..got PROVE ReadByte(From + i - 1) \in Byte
      BY <1>2 DEF got
    <3>1. From + i - 1 \in Addresses
      BY <1>1, <1>2 DEF Addresses
    <3> QED BY <3>1, Bytes DEF ReadByte, TypeOK
  <2> HIDE DEF bytes
  <2>2. /\ Len(begun \o bytes) = From + got
        /\ \A i \in 1..(From + got) : (begun \o bytes)[i] =
               IF i <= From THEN begun[i] ELSE bytes[i - From]
    BY <1>1, <1>2, <1>3, <2>1
  <2>3. UploadFaithful'
    <3> SUFFICES ASSUME NEW i \in 1..(From + got)
                 PROVE  \/ uploaded'[i] = flash[i - 1]
                        \/ uploaded'[i] = Garbage /\ download.app = "cut"
      BY <1>4, <1>10, <2>2 DEF UploadFaithful
    <3>1. CASE i <= From
      BY <1>1, <1>2, <1>3, <1>5, <1>10, <2>2, <3>1
    <3>2. CASE i > From
      <4>1. i - From \in 1..got /\ From + (i - From) - 1 = i - 1 /\ ~(i <= From)
        BY <1>1, <1>2, <3>2
      <4>2. uploaded'[i] = bytes[i - From]
        BY <1>10, <2>2, <4>1
      <4> HIDE DEF UploadFaithful
      <4>3. \/ bytes[i - From] = flash[From + (i - From) - 1]
            \/ bytes[i - From] = Garbage /\ download.app = "cut"
        BY <1>7, <4>1
      <4> QED BY <4>1, <4>2, <4>3
    <3> QED BY <1>1, <1>2, <3>1, <3>2
  <2> QED BY <1>3, <1>4, <1>6, <1>10, <2>2, <2>3 DEF Exact, UploadExact
<1> QED BY <1>8, <1>9, <1>10

LEMMA ExactRequest ==
    ASSUME TypeOK, Honest, Exact, NEW block \in 0..(BLOCKS - 1), NEW length \in Nat,
           Dnload(block, length) \/ Upload(block, length)
    PROVE  Exact'
<1>0. Setup /\ todo = <<>>
  BY DEF Dnload, Upload, Setup
<1>1. CASE Ignore
  BY <1>1, StillFaithful DEF Exact, UploadExact, Ignore, memory, history
<1>2. CASE BadBlock
  BY <1>2, StillFaithful DEF Exact, UploadExact, BadBlock, memory, history
<1>3. CASE DnloadEnd(block)
  <2>1. /\ dfu'.state = "dfuIDLE" /\ uploaded' = <<>> /\ todo' = <<>> /\ rww' = TRUE
    BY <1>0, <1>3 DEF DnloadEnd, EndWrite, TypeOK
  <2> QED BY <2>1 DEF Exact, UploadExact, UploadFaithful
<1>4. CASE DnloadBlock(block, length)
           /\ dfu.state \in {"dfuIDLE", "dfuDNLOAD_IDLE"}
  <2>1. StartDownload \in Downloads
    BY StartDownloadType
  <2>2. download' = [StartDownload EXCEPT
            !.refused = StartDownload.refused \/ ~Fits(length)]
    BY <1>4 DEF DnloadBlock
  <2>3. download'.app = StartDownload.app
    BY <2>1, <2>2 DEF Downloads
  <2>4. download.app = "cut" => StartDownload.app = "cut"
    BY DEF StartDownload
  <2>5. download.app = "open" => StartDownload.app = "open"
    BY <1>4 DEF StartDownload, Starting, Honest
  <2>6. /\ dfu'.state = "dfuDNLOAD_IDLE" /\ uploaded' = <<>> /\ todo' = <<>>
        /\ rww' = rww
    BY <1>0, <1>4 DEF DnloadBlock, DnloadState, memory
  <2> QED BY <2>3, <2>4, <2>5, <2>6 DEF Exact, UploadExact, UploadFaithful
<1>5. CASE /\ Transmit(block, length) /\ ep0' = 0
           /\ UNCHANGED <<mode, memory, app_setup, download>>
           /\ dfu.state \in {"dfuIDLE", "dfuUPLOAD_IDLE"}
  BY <1>0, <1>5, ExactTransmit
<1> QED BY <1>1, <1>2, <1>3, <1>4, <1>5 DEF Dnload, Upload

LEMMA ExactNext == Inv /\ Honest /\ Exact /\ [Next]_vars => Exact'
<1> SUFFICES ASSUME Inv, Honest, Exact, [Next]_vars PROVE Exact'
  OBVIOUS
<1>0. TypeOK
  BY DEF Inv
<1>1. CASE Request
  <2>1. CASE Abort
    <3>1. /\ dfu'.state = "dfuIDLE" /\ download' = CutOff
          /\ ep0' = 0 /\ flash' = flash /\ uploaded' = uploaded /\ todo' = todo
          /\ rww' = rww /\ todo = <<>>
      BY <2>1 DEF Abort, NewDfu, memory, Setup
    <3>2. UploadFaithful'
      BY <1>0, <3>1, CutOffApp, StillFaithful DEF Exact
    <3> QED BY <1>0, <3>1, <3>2, CutOffApp DEF Exact, UploadExact
  <2>2. CASE OtherRequest
    BY <2>2, StillFaithful DEF OtherRequest, Ignore, Exact, UploadExact, memory, history
  <2>3. ASSUME NEW block \in 0..(BLOCKS - 1), NEW length \in Nat,
               Dnload(block, length) \/ Upload(block, length)
        PROVE  Exact'
    BY <1>0, <2>3, ExactRequest
  <2> QED BY <1>1, <2>1, <2>2, <2>3, DfuAssumption DEF Request
<1>2. CASE DataStage
  <2>1. /\ ep0 # 0 /\ ep0' = 0 /\ dfu' = dfu /\ payload' = payload
        /\ uploaded' = uploaded /\ rww' = rww
        /\ download'.app = "open"
    BY <1>0, <1>2 DEF DataStage, TypeOK, Downloads
  <2>2. uploaded' = <<>>
    BY <2>1 DEF Exact, UploadExact
  <2>3. dfu'.state # "dfuUPLOAD_IDLE"
    BY <2>1 DEF Honest
  <2> QED BY <2>1, <2>2, <2>3 DEF Exact, UploadExact, UploadFaithful
<1>3. CASE WriteByte
  <2>1. /\ uploaded' = uploaded /\ download' = download /\ todo # <<>> /\ dfu' = dfu
    BY <1>3 DEF WriteByte, history
  <2>2. uploaded' = <<>> /\ download'.app = "open"
    BY <2>1 DEF Exact, UploadExact
  <2>3. dfu'.state # "dfuUPLOAD_IDLE"
    BY <2>1, <2>2 DEF Honest
  <2> QED BY <2>2, <2>3 DEF Exact, UploadExact, UploadFaithful
<1>4. CASE BootTimeout
  BY <1>4, StillFaithful DEF BootTimeout, Exact, UploadExact, memory, history
<1>5. CASE Leave
  <2>1. /\ dfu'.state = "dfuIDLE" /\ download' = CutOff
        /\ ep0' = 0 /\ flash' = flash /\ uploaded' = uploaded /\ todo' = todo
        /\ rww' = rww /\ todo = <<>>
    BY <1>5 DEF Leave, NewDfu, memory
  <2>2. UploadFaithful'
    BY <1>0, <2>1, CutOffApp, StillFaithful DEF Exact
  <2> QED BY <1>0, <2>1, <2>2, CutOffApp DEF Exact, UploadExact
<1>6. ASSUME Reset, download' \in {download, CutOff} PROVE Exact'
  <2>1. /\ dfu'.state = "dfuIDLE" /\ ep0' = 0 /\ flash' = flash
        /\ uploaded' = uploaded /\ todo' = <<>> /\ rww' = TRUE
    BY <1>6 DEF Reset, NewDfu
  <2>2. UploadFaithful'
    BY <1>0, <1>6, <2>1, CutOffApp, StillFaithful DEF Exact
  <2> QED BY <2>1, <2>2 DEF Exact, UploadExact
<1>7. CASE App
  <2>1. CASE BusReset
    BY <1>6, <2>1 DEF BusReset
  <2>2. CASE ~BusReset
    <3>1. UNCHANGED <<ep0, payload, todo, flash, rww, download, uploaded>>
      BY <1>7, <2>2 DEF App, SetInterface, Detach, ClrStatus, memory, history
    <3>2. dfu'.state = "dfuUPLOAD_IDLE" => dfu.state = "dfuUPLOAD_IDLE"
      BY <1>0, <1>7, <2>2 DEF App, SetInterface, Detach, ClrStatus, NewDfu, TypeOK
    <3> QED BY <3>1, <3>2, StillFaithful DEF Exact, UploadExact
  <2> QED BY <2>1, <2>2
<1>8. CASE UNCHANGED vars
  BY <1>8, StillFaithful DEF vars, Exact, UploadExact, memory, history
<1> QED BY <1>1, <1>2, <1>3, <1>4, <1>5, <1>6, <1>7, <1>8 DEF Next, PowerCycle

LEMMA AlwaysExact == Spec => []Exact
<1>1. Init => Exact
  BY ExactInit
<1>2. (Inv /\ Honest) /\ Exact /\ [Next]_vars => Exact'
  BY ExactNext
<1> QED BY <1>1, <1>2, AlwaysHonest, PTL DEF Spec

\* An upload of any number of blocks, of any length, after whatever came before,
\* reads the Flash from address 0 on without a gap or a repetition; it reads
\* garbage only if a download was broken off and left its section closed.
THEOREM UploadsAreExact == Spec => []UploadFaithful
<1>1. Exact => UploadFaithful
  BY DEF Exact
<1> QED BY <1>1, AlwaysExact, PTL

-----------------------------------------------------------------------------
(* What a download writes                                                  *)

\* Where the page of the next byte begins.
Begun(n) == n - Offset(n)

LEMMA DivMod ==
    ASSUME NEW n \in Nat
    PROVE  \E q \in Int : n = SPM_PAGESIZE * q + Offset(n)
<1>1. /\ n \div SPM_PAGESIZE \in Int
      /\ n = SPM_PAGESIZE * (n \div SPM_PAGESIZE) + (n % SPM_PAGESIZE)
  BY DfuAssumption, SMT
<1> QED BY <1>1 DEF Offset

\* The remainder is the only one.
LEMMA OffsetUnique ==
    ASSUME NEW q \in Int, NEW r \in 0..(SPM_PAGESIZE - 1), NEW n \in Nat,
           n = SPM_PAGESIZE * q + r
    PROVE  Offset(n) = r
<1> DEFINE P == SPM_PAGESIZE
<1>1. PICK k \in Int : n = P * k + Offset(n)
  BY DivMod
<1>2. P \in Nat \ {0} /\ Offset(n) \in 0..(P - 1) /\ r \in 0..(P - 1)
  BY DfuAssumption, OffsetType
<1>3. PICK o \in 0..(P - 1) : o = Offset(n)
  BY <1>2
<1> HIDE DEF P
<1>4. n = P * q + r /\ n = P * k + o
  BY <1>1, <1>3 DEF P
<1>5. CASE q = k
  BY <1>2, <1>3, <1>4, <1>5
<1>6. CASE q < k
  <2>1. P * (q + 1) <= P * k /\ P * (q + 1) = P * q + P
    BY <1>2, <1>6
  <2> QED BY <1>2, <1>3, <1>4, <2>1
<1>7. CASE q > k
  <2>1. P * (k + 1) <= P * q /\ P * (k + 1) = P * k + P
    BY <1>2, <1>7
  <2> QED BY <1>2, <1>3, <1>4, <2>1
<1> QED BY <1>5, <1>6, <1>7

\* The bytes of a page have the offsets 0, 1, ... from where it begins.
LEMMA OffsetWithin ==
    ASSUME NEW n \in Nat, NEW i \in 0..(SPM_PAGESIZE - 1)
    PROVE  Begun(n) \in Nat /\ Offset(Begun(n) + i) = i
<1>1. PICK q \in Int : n = SPM_PAGESIZE * q + Offset(n)
  BY DivMod
<1>2. PICK o \in 0..(SPM_PAGESIZE - 1) : o = Offset(n)
  BY OffsetType
<1>3. SPM_PAGESIZE \in Nat \ {0}
  BY DfuAssumption
<1>4. o <= n
  BY <1>2, <1>3, DfuAssumption, SMT DEF Offset
<1>5. Begun(n) = SPM_PAGESIZE * q /\ Begun(n) \in Nat
  BY <1>1, <1>2, <1>3, <1>4 DEF Begun
<1>6. PICK b \in Nat : b = Begun(n)
  BY <1>5
<1>7. b + i \in Nat /\ b + i = SPM_PAGESIZE * q + i
  BY <1>3, <1>5, <1>6
<1> QED BY <1>5, <1>6, <1>7, OffsetUnique

\* The next byte is in the same page, or begins the next one.
LEMMA OffsetNext ==
    ASSUME NEW n \in Nat
    PROVE  /\ Offset(n) # SPM_PAGESIZE - 1 =>
                  Offset(n + 1) = Offset(n) + 1 /\ Begun(n + 1) = Begun(n)
           /\ Offset(n) = SPM_PAGESIZE - 1 =>
                  Offset(n + 1) = 0 /\ Begun(n + 1) = Begun(n) + SPM_PAGESIZE
<1>1. PICK q \in Int : n = SPM_PAGESIZE * q + Offset(n)
  BY DivMod
<1>2. PICK o \in 0..(SPM_PAGESIZE - 1) : o = Offset(n)
  BY OffsetType
<1>3. SPM_PAGESIZE \in Nat \ {0}
  BY DfuAssumption
<1>4. CASE o # SPM_PAGESIZE - 1
  <2>1. o + 1 \in 0..(SPM_PAGESIZE - 1) /\ n + 1 = SPM_PAGESIZE * q + (o + 1)
    BY <1>1, <1>2, <1>3, <1>4
  <2>2. Offset(n + 1) = o + 1
    BY <2>1, OffsetUnique
  <2> QED BY <1>2, <1>3, <1>4, <2>2 DEF Begun
<1>5. CASE o = SPM_PAGESIZE - 1
  <2>1. q + 1 \in Int /\ n + 1 = SPM_PAGESIZE * (q + 1) + 0 /\ 0 \in 0..(SPM_PAGESIZE - 1)
    BY <1>1, <1>2, <1>3, <1>5
  <2>2. Offset(n + 1) = 0
    BY <2>1, OffsetUnique
  <2> QED BY <1>2, <1>3, <1>5, <2>2 DEF Begun
<1> QED BY <1>2, <1>4, <1>5

\* Pages are whole words.
LEMMA OffsetParity ==
    ASSUME NEW n \in Nat
    PROVE  n % 2 = Offset(n) % 2
<1>1. PICK q \in Int : n = SPM_PAGESIZE * q + Offset(n)
  BY DivMod
<1>2. PICK o \in 0..(SPM_PAGESIZE - 1) : o = Offset(n)
  BY OffsetType
<1>3. PICK h \in Nat : SPM_PAGESIZE = 2 * h
  <2>1. SPM_PAGESIZE \div 2 \in Nat /\ SPM_PAGESIZE = 2 * (SPM_PAGESIZE \div 2)
    BY DfuAssumption
  <2> QED BY <2>1
<1>4. PICK m \in Int : m = h * q
  BY <1>3
<1>5. n = 2 * m + o
  BY <1>1, <1>2, <1>3, <1>4
<1> QED BY <1>2, <1>5

\* What writing a page does to each address.
LEMMA WithPageAt ==
    ASSUME NEW n \in Nat, n < BOOT_ADDR, NEW bytes, NEW contents, NEW a \in Nat,
           a < BOOT_ADDR
    PROVE  WithPage(n, bytes, contents)[a] =
               IF Begun(n) <= a /\ a < Begun(n) + SPM_PAGESIZE
               THEN bytes[a - Begun(n)] ELSE contents[a]
<1>1. PICK b \in Nat : b = Begun(n)
  BY OffsetWithin, DfuAssumption
<1>2. a \in Addresses /\ SPM_PAGESIZE \in Nat \ {0}
  BY DfuAssumption DEF Addresses
<1>3. WithPage(n, bytes, contents)[a] =
          IF a \in PageOf(n) THEN bytes[Offset(a)] ELSE contents[a]
  BY <1>2 DEF WithPage
<1>4. a \in PageOf(n) <=> (b <= a /\ a < b + SPM_PAGESIZE)
  BY <1>1, <1>2 DEF PageOf, Begun
<1>5. CASE b <= a /\ a < b + SPM_PAGESIZE
  <2>1. a - b \in 0..(SPM_PAGESIZE - 1) /\ b + (a - b) = a
    BY <1>1, <1>2, <1>5
  <2>2. Offset(b + (a - b)) = a - b
    BY <1>1, <2>1, OffsetWithin
  <2>3. Offset(a) = a - b
    BY <2>1, <2>2
  <2> QED BY <1>1, <1>3, <1>4, <1>5, <2>3
<1> QED BY <1>1, <1>3, <1>4, <1>5

LEMMA WrittenAt ==
    ASSUME NEW n \in Nat, n < BOOT_ADDR, NEW bytes, NEW contents, NEW a \in Nat,
           a < BOOT_ADDR
    PROVE  Written(n, bytes, contents)[a] =
               IF Begun(n) <= a /\ a < Begun(n) + SPM_PAGESIZE
               THEN IF contents[a] = Erased THEN bytes[a - Begun(n)] ELSE Garbage
               ELSE contents[a]
<1> DEFINE cleared == [i \in 0..(SPM_PAGESIZE - 1) |->
        IF contents[Begun(n) + i] = Erased THEN bytes[i] ELSE Garbage]
<1>1. PICK b \in Nat : b = Begun(n)
  BY OffsetWithin, DfuAssumption
<1>2. Written(n, bytes, contents)[a] =
          IF b <= a /\ a < b + SPM_PAGESIZE THEN cleared[a - b] ELSE contents[a]
  <2>1. Written(n, bytes, contents) = WithPage(n, cleared, contents)
    BY DEF Written, Begun
  <2> HIDE DEF cleared
  <2> QED BY <1>1, <2>1, WithPageAt
<1>3. CASE b <= a /\ a < b + SPM_PAGESIZE
  <2>1. a - b \in 0..(SPM_PAGESIZE - 1) /\ b + (a - b) = a
    BY <1>1, <1>3, DfuAssumption
  <2>2. cleared[a - b] = IF contents[a] = Erased THEN bytes[a - b] ELSE Garbage
    BY <1>1, <2>1
  <2> QED BY <1>1, <1>2, <1>3, <2>2
<1> QED BY <1>1, <1>2, <1>3

\* n bytes of an image have gone to the Flash controller, and the rest has not:
\* the pages they fill are written, and the words they fill since then are in
\* the page buffer, for a page that is erased.
Placed(n, image, rest, contents, filled, held) ==
    /\ Len(image) = n + Len(rest)
    /\ \A k \in 1..Len(rest) : rest[k] = image[n + k]
    /\ \A a \in 0..(n - 1) : a < Begun(n) => contents[a] = image[a + 1]
    /\ \A j \in 0..(SPM_PAGESIZE - 1) :
           filled[j] = IF j < Offset(n) - (n % 2) THEN image[Begun(n) + j + 1]
                       ELSE Erased
    /\ n % 2 = 1 => held = image[n]
    /\ Offset(n) # 0 =>
           \A a \in Nat : Begun(n) <= a /\ a < Begun(n) + SPM_PAGESIZE =>
                              contents[a] = Erased

LEMMA Halves == \A n \in Nat : /\ n % 2 \in {0, 1}
                              /\ (n + 1) % 2 = 1 - (n % 2)
OBVIOUS

\* One byte more.
LEMMA PlacedNext ==
    ASSUME TypeOK, WriteByte, payload < BOOT_ADDR, NEW image \in Seq(Byte),
           Placed(payload, image, todo, flash, fill, last)
    PROVE  Placed(payload + 1, image, Tail(todo), flash', fill', last')
<1> DEFINE P == SPM_PAGESIZE
<1>1. PICK n \in Nat : n = payload
  BY DfuAssumption DEF TypeOK
<1>2. PICK o \in 0..(P - 1) : o = Offset(n)
  BY OffsetType
<1>3. PICK b \in Nat : b = Begun(n)
  BY OffsetWithin, DfuAssumption
<1>4. P \in Nat \ {0, 1} /\ P % 2 = 0 /\ BOOT_ADDR \in Nat /\ n < BOOT_ADDR
  BY <1>1, DfuAssumption
<1>5. n = b + o /\ n % 2 = o % 2 /\ b + P <= BOOT_ADDR
  BY <1>1, <1>2, <1>3, <1>4, OffsetParity, PageEndsBelow DEF Begun
<1>6. /\ o # P - 1 => Offset(n + 1) = o + 1 /\ Begun(n + 1) = b
      /\ o = P - 1 => Offset(n + 1) = 0 /\ Begun(n + 1) = b + P
  BY <1>2, <1>3, OffsetNext
<1>7. PICK byte \in Byte : byte = Head(todo)
  BY DEF TypeOK, WriteByte
<1>8. /\ todo \in Seq(Byte) /\ todo # <<>> /\ Len(todo) \in Nat \ {0}
      /\ Len(Tail(todo)) = Len(todo) - 1
      /\ \A k \in 1..(Len(todo) - 1) : Tail(todo)[k] = todo[k + 1]
      /\ byte = todo[1]
  BY <1>7 DEF TypeOK, WriteByte
<1>9. /\ Len(image) = n + Len(todo)
      /\ \A k \in 1..Len(todo) : todo[k] = image[n + k]
      /\ \A a \in 0..(n - 1) : a < b => flash[a] = image[a + 1]
      /\ \A j \in 0..(P - 1) :
             fill[j] = IF j < o - (n % 2) THEN image[b + j + 1] ELSE Erased
      /\ n % 2 = 1 => last = image[n]
      /\ o # 0 => \A a \in Nat : b <= a /\ a < b + P => flash[a] = Erased
  BY <1>1, <1>2, <1>3 DEF Placed
<1>10. byte = image[n + 1]
  BY <1>8, <1>9
<1>11. /\ flash' = IF Offset(n + 1) = 0 THEN Written(n, PageFill(byte), PageErase)
                   ELSE PageErase
       /\ fill' = IF Offset(n + 1) = 0 THEN NoFill ELSE PageFill(byte)
       /\ last' = IF n % 2 = 1 THEN last ELSE byte
  BY <1>1, <1>7 DEF WriteByte
<1>12. PageErase = IF o = 0 THEN WithPage(n, NoFill, flash) ELSE flash
  BY <1>1, <1>2 DEF PageErase
<1>13. fill \in [0..(P - 1) -> Byte] /\ \A j \in 0..(P - 1) : NoFill[j] = Erased
  BY DEF TypeOK, NoFill
<1>14. /\ Len(image) = n + 1 + Len(Tail(todo))
       /\ \A k \in 1..Len(Tail(todo)) : Tail(todo)[k] = image[n + 1 + k]
  <2> SUFFICES ASSUME NEW k \in 1..Len(Tail(todo))
               PROVE  Tail(todo)[k] = image[n + 1 + k]
    BY <1>8, <1>9
  <2>1. k + 1 \in 1..Len(todo) /\ n + (k + 1) = n + 1 + k
    BY <1>8
  <2> QED BY <1>8, <1>9, <2>1
<1> DEFINE Target(d, e, f, g, h) ==
      /\ \A a \in 0..n : a < d => f[a] = image[a + 1]
      /\ \A j \in 0..(P - 1) :
             g[j] = IF j < e - ((n + 1) % 2) THEN image[d + j + 1] ELSE Erased
      /\ (n + 1) % 2 = 1 => h = image[n + 1]
      /\ e # 0 => \A a \in Nat : d <= a /\ a < d + P => f[a] = Erased
<1>15. Target(Begun(n + 1), Offset(n + 1), flash', fill', last') =>
           Placed(n + 1, image, Tail(todo), flash', fill', last')
  <2> SUFFICES ASSUME Target(Begun(n + 1), Offset(n + 1), flash', fill', last')
               PROVE  Placed(n + 1, image, Tail(todo), flash', fill', last')
    OBVIOUS
  <2>1. 0..(n + 1 - 1) = 0..n
    OBVIOUS
  <2>2. /\ \A a \in 0..(n + 1 - 1) : a < Begun(n + 1) => flash'[a] = image[a + 1]
        /\ (n + 1) % 2 = 1 => last' = image[n + 1]
    BY <2>1
  <2>3. \A j \in 0..(SPM_PAGESIZE - 1) :
            fill'[j] = IF j < Offset(n + 1) - ((n + 1) % 2)
                       THEN image[Begun(n + 1) + j + 1] ELSE Erased
    OBVIOUS
  <2>4. Offset(n + 1) # 0 =>
            \A a \in Nat : Begun(n + 1) <= a /\ a < Begun(n + 1) + SPM_PAGESIZE =>
                               flash'[a] = Erased
    OBVIOUS
  <2> HIDE DEF Target
  <2> DEFINE rest == Tail(todo)
  <2>5. /\ Len(image) = n + 1 + Len(rest)
        /\ \A k \in 1..Len(rest) : rest[k] = image[n + 1 + k]
    BY <1>14
  <2> HIDE DEF rest
  <2>6. Placed(n + 1, image, rest, flash', fill', last')
    BY <2>2, <2>3, <2>4, <2>5 DEF Placed
  <2> QED BY <2>6 DEF rest
<1> HIDE DEF P
<1>16. CASE n % 2 = 0
  <2>1. o # P - 1 /\ (n + 1) % 2 = 1
    <3>1. (n + 1) % 2 = 1 /\ o % 2 = 0
      BY <1>5, <1>16, Halves
    <3>2. ASSUME o = P - 1 PROVE FALSE
      <4>1. o \in Nat /\ (o + 1) % 2 = 1
        BY <1>2, <1>4, <3>1, Halves
      <4>2. o + 1 = P
        BY <1>4, <3>2
      <4> QED BY <1>4, <4>1, <4>2
    <3> QED BY <3>1, <3>2
  <2>2. Offset(n + 1) = o + 1 /\ Begun(n + 1) = b /\ o + 1 # 0
    BY <1>2, <1>6, <2>1
  <2>3. PageFill(byte) = fill
    BY <1>1, <1>16 DEF PageFill
  <2>4. flash' = PageErase /\ fill' = fill /\ last' = byte
    BY <1>11, <1>16, <2>2, <2>3
  <2>5. \A a \in Nat : b <= a /\ a < b + P => flash'[a] = Erased
    <3> SUFFICES ASSUME NEW a \in Nat, b <= a, a < b + P PROVE flash'[a] = Erased
      OBVIOUS
    <3>1. CASE o = 0
      <4>1. a < BOOT_ADDR /\ a - b \in 0..(P - 1)
        BY <1>4, <1>5
      <4>2. flash'[a] = NoFill[a - b]
        BY <1>3, <1>4, <1>12, <2>4, <3>1, <4>1, WithPageAt DEF P
      <4> QED BY <1>13, <4>1, <4>2
    <3>2. CASE o # 0
      BY <1>9, <1>12, <2>4, <3>2
    <3> QED BY <3>1, <3>2
  <2>6. \A a \in 0..n : a < b => flash'[a] = image[a + 1]
    <3> SUFFICES ASSUME NEW a \in 0..n, a < b PROVE flash'[a] = image[a + 1]
      OBVIOUS
    <3>1. a \in Nat /\ a \in 0..(n - 1) /\ a < BOOT_ADDR /\ ~(b <= a)
      BY <1>2, <1>4, <1>5
    <3>2. PageErase[a] = flash[a]
      BY <1>3, <1>4, <1>12, <3>1, WithPageAt
    <3> QED BY <1>9, <2>4, <3>1, <3>2
  <2>7. \A j \in 0..(P - 1) :
            fill'[j] = IF j < o + 1 - 1 THEN image[b + j + 1] ELSE Erased
    <3> SUFFICES ASSUME NEW j \in 0..(P - 1)
                 PROVE  fill[j] = IF j < o + 1 - 1 THEN image[b + j + 1] ELSE Erased
      BY <2>4
    <3>1. o + 1 - 1 = o - (n % 2)
      BY <1>2, <1>4, <1>16
    <3> QED BY <1>9, <3>1
  <2>8. Target(b, o + 1, flash', fill', last')
    BY <1>10, <2>1, <2>4, <2>5, <2>6, <2>7
  <2> HIDE DEF Target
  <2> QED BY <1>1, <1>15, <2>2, <2>8
<1>17. CASE n % 2 = 1
  <2>1. o # 0 /\ (n + 1) % 2 = 0 /\ o - 1 \in 0..(P - 1) /\ o < P
        /\ o - (n % 2) = o - 1 /\ b + (o - 1) + 1 = n /\ b + o + 1 = n + 1
    <3>1. (n + 1) % 2 = 0 /\ o # 0
      BY <1>5, <1>17, Halves
    <3>2. o \in Nat /\ o < P /\ o - 1 \in 0..(P - 1)
      BY <1>2, <1>4, <3>1
    <3>3. b + (o - 1) + 1 = n /\ b + o + 1 = n + 1 /\ o - (n % 2) = o - 1
      BY <1>5, <1>17, <3>2
    <3> QED BY <3>1, <3>2, <3>3
  <2>2. PageErase = flash /\ last' = last /\ last = image[n]
    BY <1>9, <1>11, <1>12, <1>17, <2>1
  <2>3. fill[o] = Erased /\ fill[o - 1] = Erased
    <3>1. ~(o < o - (n % 2)) /\ ~(o - 1 < o - (n % 2))
      <4>1. o \in Nat
        BY <1>2, <1>4
      <4>2. ~(o < o - 1) /\ ~(o - 1 < o - 1)
        BY <4>1
      <4> QED BY <2>1, <4>2
    <3> QED BY <1>2, <1>9, <2>1, <3>1
  <2>4. PageFill(byte) = [fill EXCEPT ![o] = byte, ![o - 1] = last]
    BY <1>1, <1>2, <1>17, <2>3 DEF PageFill
  <2>5. \A j \in 0..(P - 1) : PageFill(byte)[j] =
            IF j <= o THEN image[b + j + 1] ELSE Erased
    <3> SUFFICES ASSUME NEW j \in 0..(P - 1)
                 PROVE  PageFill(byte)[j] = IF j <= o THEN image[b + j + 1] ELSE Erased
      OBVIOUS
    <3>1. CASE j = o
      <4>1. PageFill(byte)[j] = byte
        BY <1>2, <1>13, <2>1, <2>4, <3>1
      <4>2. image[b + j + 1] = image[n + 1]
        BY <2>1, <3>1
      <4> QED BY <1>2, <1>10, <3>1, <4>1, <4>2
    <3>2. CASE j = o - 1
      <4>1. PageFill(byte)[j] = last
        BY <1>2, <1>13, <2>1, <2>4, <3>2
      <4>2. image[b + j + 1] = image[n]
        BY <2>1, <3>2
      <4> QED BY <1>2, <2>2, <3>2, <4>1, <4>2
    <3>3. CASE j # o /\ j # o - 1
      <4>1. PageFill(byte)[j] = fill[j]
        BY <1>13, <2>4, <3>3
      <4>2. j <= o <=> j < o - (n % 2)
        <5>1. j \in Nat /\ o \in Nat
          BY <1>2, <1>4
        <5> QED BY <2>1, <3>3, <5>1
      <4> QED BY <1>9, <4>1, <4>2
    <3> QED BY <3>1, <3>2, <3>3
  <2>6. CASE o # P - 1
    <3>1. Offset(n + 1) = o + 1 /\ Begun(n + 1) = b /\ o + 1 # 0
      BY <1>2, <1>6, <2>6
    <3>2. flash' = flash /\ fill' = PageFill(byte)
      BY <1>11, <2>2, <3>1
    <3>3. \A j \in 0..(P - 1) :
              fill'[j] = IF j < o + 1 - 0 THEN image[b + j + 1] ELSE Erased
      <4> SUFFICES ASSUME NEW j \in 0..(P - 1)
                   PROVE  fill'[j] = IF j < o + 1 - 0 THEN image[b + j + 1] ELSE Erased
        OBVIOUS
      <4>1. j <= o <=> j < o + 1 - 0
        BY <1>2, <1>4
      <4> QED BY <2>5, <3>2, <4>1
    <3>4. \A a \in 0..n : a < b => flash'[a] = image[a + 1]
      <4> SUFFICES ASSUME NEW a \in 0..n, a < b PROVE flash'[a] = image[a + 1]
        OBVIOUS
      <4>1. a \in 0..(n - 1)
        BY <1>2, <1>4, <1>5
      <4> QED BY <1>9, <3>2, <4>1
    <3>5. \A a \in Nat : b <= a /\ a < b + P => flash'[a] = Erased
      BY <1>9, <2>1, <3>2
    <3>6. Target(b, o + 1, flash', fill', last')
      BY <2>1, <3>3, <3>4, <3>5
    <3> HIDE DEF Target
    <3> QED BY <1>1, <1>15, <3>1, <3>6
  <2>7. CASE o = P - 1
    <3>1. Offset(n + 1) = 0 /\ Begun(n + 1) = b + P /\ b + P = n + 1
      BY <1>2, <1>4, <1>5, <1>6, <2>7
    <3>2. flash' = Written(n, PageFill(byte), flash) /\ fill' = NoFill
      BY <1>11, <2>2, <3>1
    <3>3. \A j \in 0..(P - 1) :
              fill'[j] = IF j < 0 - 0 THEN image[b + P + j + 1] ELSE Erased
      BY <1>13, <3>2
    <3>4. \A a \in 0..n : a < b + P => flash'[a] = image[a + 1]
      <4> SUFFICES ASSUME NEW a \in 0..n PROVE flash'[a] = image[a + 1]
        OBVIOUS
      <4>1. a \in Nat /\ a < BOOT_ADDR /\ a < b + P
        BY <1>4, <1>5, <3>1
      <4>2. flash'[a] = IF b <= a
                        THEN IF flash[a] = Erased THEN PageFill(byte)[a - b] ELSE Garbage
                        ELSE flash[a]
        BY <1>3, <1>4, <3>2, <4>1, WrittenAt DEF P
      <4>3. CASE b <= a
        <5>1. a - b \in 0..(P - 1) /\ a - b <= o /\ b + (a - b) + 1 = a + 1
          BY <1>2, <1>4, <1>5, <4>1, <4>3
        <5>2. flash[a] = Erased
          BY <1>9, <2>1, <4>1, <4>3
        <5>3. PageFill(byte)[a - b] = image[b + (a - b) + 1]
          BY <2>5, <5>1
        <5> QED BY <4>2, <4>3, <5>1, <5>2, <5>3
      <4>4. CASE ~(b <= a)
        <5>1. a \in 0..(n - 1) /\ a < b
          BY <1>2, <1>4, <1>5, <4>1, <4>4
        <5> QED BY <1>9, <4>2, <4>4, <5>1
      <4> QED BY <4>3, <4>4
    <3>5. Target(b + P, 0, flash', fill', last')
      BY <2>1, <3>3, <3>4
    <3> HIDE DEF Target
    <3> QED BY <1>1, <1>15, <3>1, <3>5
  <2> QED BY <2>6, <2>7
<1> QED BY <1>1, <1>16, <1>17, Halves

\* The host is in the middle of a download.
Receiving == dfu.state = "dfuDNLOAD_IDLE" /\ mode # "app"

\* While it is, payload counts the bytes received and written; and what is
\* left to write is the end of them.
Faithful ==
    /\ todo # <<>> => Receiving
    /\ Receiving => download.app # "whole"
    /\ Receiving /\ download.clean =>
           Placed(payload, download.image, todo, flash, fill, last)
    /\ FlashHoldsImage

LEMMA FaithfulInit == Init => Faithful
BY DEF Init, Faithful, Receiving, NewDfu, FlashHoldsImage

LEMMA OffsetZero == Offset(0) = 0 /\ Begun(0) = 0
<1>1. SPM_PAGESIZE \in Nat \ {0} /\ 0 = SPM_PAGESIZE * 0 + 0
  BY DfuAssumption
<1>2. Offset(0) = 0
  BY <1>1, OffsetUnique
<1> QED BY <1>2 DEF Begun

\* A download that begins.
LEMMA PlacedNothing ==
    ASSUME NEW contents, NEW held
    PROVE  Placed(0, <<>>, <<>>, contents, NoFill, held)
BY OffsetZero, DfuAssumption DEF Placed, NoFill

\* A block comes in.
LEMMA PlacedBlock ==
    ASSUME NEW n \in Nat, NEW image \in Seq(Byte), NEW data \in Seq(Byte),
           NEW contents, NEW filled, NEW held,
           Placed(n, image, <<>>, contents, filled, held)
    PROVE  Placed(n, image \o data, data, contents, filled, held)
<1>1. PICK o \in 0..(SPM_PAGESIZE - 1) : o = Offset(n)
  BY OffsetType
<1>2. PICK b \in Nat : b = Begun(n)
  BY OffsetWithin, DfuAssumption
<1>3. SPM_PAGESIZE \in Nat \ {0} /\ n = b + o
  BY <1>1, <1>2, DfuAssumption DEF Begun
<1>4. Len(image) = n
  BY DEF Placed
<1>5. PICK all : all = image \o data
  OBVIOUS
<1>6. /\ Len(all) = n + Len(data)
      /\ \A k \in 1..n : all[k] = image[k]
      /\ \A k \in 1..Len(data) : data[k] = all[n + k]
  <2>1. /\ Len(all) = n + Len(data) /\ Len(data) \in Nat
        /\ \A k \in 1..(n + Len(data)) :
               all[k] = IF k <= n THEN image[k] ELSE data[k - n]
    BY <1>4, <1>5
  <2>2. \A k \in 1..n : k \in 1..(n + Len(data)) /\ k <= n
    BY <2>1
  <2>3. \A k \in 1..Len(data) :
            n + k \in 1..(n + Len(data)) /\ ~(n + k <= n) /\ (n + k) - n = k
    BY <2>1
  <2> QED BY <2>1, <2>2, <2>3
<1>7. /\ \A a \in 0..(n - 1) : a < b => contents[a] = image[a + 1]
      /\ \A j \in 0..(SPM_PAGESIZE - 1) :
             filled[j] = IF j < o - (n % 2) THEN image[b + j + 1] ELSE Erased
      /\ n % 2 = 1 => held = image[n]
      /\ o # 0 => \A a \in Nat : b <= a /\ a < b + SPM_PAGESIZE => contents[a] = Erased
  BY <1>1, <1>2 DEF Placed
<1>8. \A a \in 0..(n - 1) : a < b => contents[a] = all[a + 1]
  <2> SUFFICES ASSUME NEW a \in 0..(n - 1), a < b PROVE contents[a] = all[a + 1]
    OBVIOUS
  <2>1. a + 1 \in 1..n
    OBVIOUS
  <2> QED BY <1>6, <1>7, <2>1
<1>9. \A j \in 0..(SPM_PAGESIZE - 1) :
          filled[j] = IF j < o - (n % 2) THEN all[b + j + 1] ELSE Erased
  <2> SUFFICES ASSUME NEW j \in 0..(SPM_PAGESIZE - 1), j < o - (n % 2)
               PROVE  all[b + j + 1] = image[b + j + 1]
    BY <1>7
  <2>1. n % 2 \in {0, 1}
    BY Halves
  <2>2. j < o /\ j \in Nat
    BY <1>1, <1>3, <2>1
  <2>3. b + j + 1 \in 1..n
    BY <1>1, <1>3, <2>2
  <2> QED BY <1>6, <2>3
<1>10. n % 2 = 1 => held = all[n]
  <2> SUFFICES ASSUME n % 2 = 1 PROVE held = all[n]
    OBVIOUS
  <2>1. n \in 1..n
    OBVIOUS
  <2> QED BY <1>6, <1>7, <2>1
<1>11. Placed(n, all, data, contents, filled, held)
  BY <1>1, <1>2, <1>6, <1>7, <1>8, <1>9, <1>10 DEF Placed
<1> QED BY <1>5, <1>11

\* The download ends: the page that is not full is written.
LEMMA PlacedEnd ==
    ASSUME NEW n \in Nat, n <= BOOT_ADDR, NEW image \in Seq(Byte),
           NEW contents, NEW filled, NEW held,
           Placed(n, image, <<>>, contents, filled, held), NEW final,
           final = IF Offset(n) = 0 THEN contents ELSE Written(n, filled, contents)
    PROVE  \A i \in 1..(Len(image) - (Len(image) % 2)) : final[i - 1] = image[i]
<1>1. PICK o \in 0..(SPM_PAGESIZE - 1) : o = Offset(n)
  BY OffsetType
<1>2. PICK b \in Nat : b = Begun(n)
  BY OffsetWithin, DfuAssumption
<1>3. /\ SPM_PAGESIZE \in Nat \ {0} /\ n = b + o
      /\ BOOT_ADDR \in Nat
  BY <1>1, <1>2, DfuAssumption DEF Begun
<1>4. Len(image) = n
  BY DEF Placed
<1>5. /\ \A a \in 0..(n - 1) : a < b => contents[a] = image[a + 1]
      /\ \A j \in 0..(SPM_PAGESIZE - 1) :
             filled[j] = IF j < o - (n % 2) THEN image[b + j + 1] ELSE Erased
      /\ o # 0 => \A a \in Nat : b <= a /\ a < b + SPM_PAGESIZE => contents[a] = Erased
  BY <1>1, <1>2 DEF Placed
<1>6. n % 2 \in {0, 1}
  BY Halves
<1> SUFFICES ASSUME NEW i \in 1..(n - (n % 2))
             PROVE  final[i - 1] = image[i]
  BY <1>4
<1>6a. final = IF o = 0 THEN contents ELSE Written(n, filled, contents)
  BY <1>1
<1>7. PICK a \in 0..(n - 1) : a = i - 1
  <2>1. i - 1 \in 0..(n - 1)
    BY <1>6
  <2> QED BY <2>1
<1>8. i = a + 1 /\ a < n - (n % 2)
  BY <1>6, <1>7
<1>9. CASE o = 0
  <2>1. a < b
    BY <1>3, <1>9
  <2> QED BY <1>5, <1>6a, <1>7, <1>8, <1>9, <2>1
<1>10. CASE o # 0
  <2>1. n < BOOT_ADDR
    <3>1. n # BOOT_ADDR
      BY <1>1, <1>10, DfuAssumption DEF Offset
    <3> QED BY <1>3, <3>1
  <2>2. a \in Nat /\ a < BOOT_ADDR
    BY <1>3, <2>1
  <2>3. Written(n, filled, contents)[a] =
            IF b <= a /\ a < b + SPM_PAGESIZE
            THEN IF contents[a] = Erased THEN filled[a - b] ELSE Garbage
            ELSE contents[a]
    BY <1>2, <2>1, <2>2, WrittenAt
  <2>4. CASE a < b
    <3>1. ~(b <= a)
      BY <2>2, <2>4
    <3> QED BY <1>5, <1>6a, <1>7, <1>8, <1>10, <2>3, <2>4, <3>1
  <2>5. CASE ~(a < b)
    <3>1. b <= a /\ a < b + SPM_PAGESIZE /\ a - b \in 0..(SPM_PAGESIZE - 1)
          /\ b + (a - b) + 1 = a + 1
      <4>1. o < SPM_PAGESIZE /\ o \in Nat
        BY <1>1, <1>3
      <4>2. b <= a /\ a < n
        BY <1>7, <2>2, <2>5
      <4> QED BY <1>3, <2>2, <4>1, <4>2
    <3>2. a - b < o - (n % 2)
      <4>1. o \in Nat
        BY <1>1, <1>3
      <4>2. PICK m \in {0, 1} : m = n % 2
        BY <1>6
      <4>3. a < b + o - m
        BY <1>3, <1>8, <4>2
      <4> QED BY <2>2, <4>1, <4>2, <4>3
    <3>3. filled[a - b] = image[b + (a - b) + 1]
      BY <1>5, <3>1, <3>2
    <3>4. contents[a] = Erased
      BY <1>5, <1>10, <2>2, <3>1
    <3> QED BY <1>6a, <1>7, <1>8, <1>10, <2>3, <3>1, <3>3, <3>4
  <2> QED BY <2>4, <2>5
<1> QED BY <1>9, <1>10

\* A Flash and an image that stay leave a whole download whole.
LEMMA StillWhole ==
    FlashHoldsImage /\ flash' = flash /\ download'.image = download.image
        /\ download'.clean = download.clean
        /\ (download'.app = "whole" => download.app = "whole") => FlashHoldsImage'
BY DEF FlashHoldsImage

LEMMA CutOffImage ==
    TypeOK => /\ CutOff.image = download.image /\ CutOff.clean = download.clean
              /\ CutOff.app = "whole" => download.app = "whole"
BY DEF CutOff, TypeOK, Downloads

LEMMA FaithfulEnd ==
    ASSUME Inv, Honest, Faithful, Setup, NEW block, DnloadEnd(block),
           dfu.state \in {"dfuIDLE", "dfuDNLOAD_IDLE"}
    PROVE  Faithful'
<1>0. TypeOK /\ download \in Downloads
  BY DEF Inv, TypeOK
<1>1. StartDownload \in Downloads
  BY <1>0, StartDownloadType
<1>2. /\ dfu'.state = "dfuIDLE" /\ todo' = <<>> /\ todo = <<>>
      /\ flash' = IF Offset(From) = 0 THEN flash ELSE Written(From, fill, flash)
      /\ download' = [StartDownload EXCEPT
             !.app = IF StartDownload.app = "open" THEN "whole" ELSE StartDownload.app]
  BY <1>0 DEF DnloadEnd, EndWrite, Setup, TypeOK
<1>3. FlashHoldsImage'
  <2> SUFFICES ASSUME download'.app = "whole", download'.clean
               PROVE  \A i \in 1..(Len(download'.image) - (Len(download'.image) % 2)) :
                          flash'[i - 1] = download'.image[i]
    BY DEF FlashHoldsImage
  <2>1. StartDownload.app \in {"open", "whole"}
    <3> HIDE DEF StartDownload
    <3> QED BY <1>1, <1>2 DEF Downloads
  <2>2. ~Starting /\ StartDownload = download
    BY <2>1 DEF StartDownload
  <2>3. Receiving /\ From = payload
    BY <2>2 DEF Receiving, Starting, Setup, From
  <2>4. download'.image = download.image /\ download'.clean = download.clean
    BY <1>0, <1>2, <2>2 DEF Downloads
  <2>5. Placed(payload, download.image, <<>>, flash, fill, last)
    BY <1>2, <2>3, <2>4 DEF Faithful
  <2>6. payload \in Nat /\ payload <= BOOT_ADDR /\ download.image \in Seq(Byte)
    BY <1>0, <2>3, DfuAssumption DEF Inv, Pending, Receiving, TypeOK, Downloads
  <2>7. flash' = IF Offset(payload) = 0 THEN flash ELSE Written(payload, fill, flash)
    BY <1>2, <2>3
  <2>8. \A i \in 1..(Len(download.image) - (Len(download.image) % 2)) :
            flash'[i - 1] = download.image[i]
    <3>1. PICK n \in Nat : n = payload
      BY <2>6
    <3>2. PICK image \in Seq(Byte) : image = download.image
      BY <2>6
    <3>3. n <= BOOT_ADDR /\ Placed(n, image, <<>>, flash, fill, last)
      BY <2>5, <2>6, <3>1, <3>2
    <3>4. flash' = IF Offset(n) = 0 THEN flash ELSE Written(n, fill, flash)
      BY <2>7, <3>1
    <3>5. \A i \in 1..(Len(image) - (Len(image) % 2)) : flash'[i - 1] = image[i]
      BY ONLY <3>3, <3>4, PlacedEnd, DfuAssumption
    <3> QED BY <3>2, <3>5
  <2> QED BY <2>4, <2>8
<1> QED BY <1>2, <1>3 DEF Faithful, Receiving

LEMMA FaithfulBlock ==
    ASSUME Inv, Honest, Faithful, Setup, NEW block, NEW length,
           DnloadBlock(block, length), dfu.state \in {"dfuIDLE", "dfuDNLOAD_IDLE"}
    PROVE  Faithful'
<1>0. TypeOK /\ download \in Downloads
  BY DEF Inv, TypeOK
<1>1. StartDownload \in Downloads
  BY <1>0, StartDownloadType
<1>2. /\ dfu'.state = "dfuDNLOAD_IDLE" /\ payload' = From /\ mode' = mode
      /\ todo' = todo /\ todo = <<>> /\ flash' = flash /\ fill' = fill /\ last' = last
      /\ download' = [StartDownload EXCEPT
             !.refused = StartDownload.refused \/ ~Fits(length)]
  BY DEF DnloadBlock, DnloadState, Setup, memory
<1>3. /\ download'.app = StartDownload.app /\ download'.image = StartDownload.image
      /\ download'.clean = StartDownload.clean
  BY <1>1, <1>2 DEF Downloads
<1>4. CASE Starting
  <2>1. /\ StartDownload.image = <<>> /\ StartDownload.clean = (fill = NoFill)
        /\ StartDownload.app # "whole"
    BY <1>4 DEF StartDownload
  <2>2. payload' = 0
    BY <1>2, <1>4 DEF From
  <2>3. download'.clean => fill' = NoFill
    BY <1>2, <1>3, <2>1
  <2>4. FlashHoldsImage'
    BY <1>3, <2>1 DEF FlashHoldsImage
  <2> QED BY <1>2, <1>3, <2>1, <2>2, <2>3, <2>4, PlacedNothing DEF Faithful
<1>5. CASE ~Starting
  <2>1. Receiving /\ payload' = payload /\ StartDownload = download
    BY <1>2, <1>5 DEF Receiving, Starting, Setup, From, StartDownload
  <2>2. FlashHoldsImage'
    BY <1>2, <1>3, <2>1, StillWhole DEF Faithful
  <2> QED BY <1>2, <1>3, <2>1, <2>2 DEF Faithful
<1> QED BY <1>4, <1>5

LEMMA FaithfulDataStage == Inv /\ Honest /\ Faithful /\ DataStage => Faithful'
<1> SUFFICES ASSUME Inv, Honest, Faithful, DataStage PROVE Faithful'
  OBVIOUS
<1> DEFINE data == [i \in 1..ep0 |-> <<count["dnload"], i>>]
<1>0. TypeOK /\ download \in Downloads
  BY DEF Inv, TypeOK
<1>1. /\ todo' = data /\ ep0 # 0
      /\ download' = [download EXCEPT !.image = download.image \o data, !.app = "open"]
      /\ UNCHANGED <<mode, dfu, payload, last, fill, flash>>
  BY DEF DataStage
<1>2. ep0 \in Nat /\ count["dnload"] \in Nat
  BY <1>0, DfuAssumption DEF TypeOK, Events
<1>3. data \in Seq(Byte)
  BY <1>2 DEF Byte
<1> HIDE DEF data
<1>4. /\ download'.app = "open" /\ download'.clean = download.clean
      /\ download'.image = download.image \o data
  BY <1>0, <1>1 DEF Downloads
<1>5. Receiving /\ Receiving' /\ todo = <<>>
  BY <1>1 DEF Honest, Receiving, Inv, Pending
<1>6. download.clean =>
          Placed(payload, download.image \o data, data, flash, fill, last)
  <2> SUFFICES ASSUME download.clean
               PROVE  Placed(payload, download.image \o data, data, flash, fill, last)
    OBVIOUS
  <2>1. payload \in Nat /\ download.image \in Seq(Byte)
    BY <1>0, DfuAssumption DEF TypeOK, Downloads
  <2>2. Placed(payload, download.image, <<>>, flash, fill, last)
    BY <1>5 DEF Faithful
  <2> QED BY <1>3, <2>1, <2>2, PlacedBlock
<1> QED BY <1>1, <1>4, <1>5, <1>6 DEF Faithful, FlashHoldsImage

LEMMA FaithfulWriteByte == Inv /\ Exact /\ Faithful /\ WriteByte => Faithful'
<1> SUFFICES ASSUME Inv, Exact, Faithful, WriteByte PROVE Faithful'
  OBVIOUS
<1>0. TypeOK /\ download \in Downloads /\ payload \in Nat
  BY DfuAssumption DEF Inv, TypeOK
<1>1. /\ todo # <<>> /\ todo' = Tail(todo) /\ payload' = payload + 1
      /\ mode' = mode /\ dfu' = dfu /\ download' = download
  BY DEF WriteByte, history
<1>2. Receiving /\ Receiving' /\ download.app = "open"
  BY <1>1 DEF Faithful, Receiving, Exact, UploadExact
<1>3. payload < BOOT_ADDR
  <2>1. Len(todo) \in Nat \ {0} /\ payload + Len(todo) <= BOOT_ADDR
    BY <1>0, <1>1 DEF Inv, Pending, TypeOK
  <2> QED BY <1>0, <2>1, DfuAssumption
<1>4. download.image \in Seq(Byte)
  BY <1>0 DEF Downloads
<1>5. download.clean => Placed(payload', download'.image, todo', flash', fill', last')
  <2>1. download.clean =>
            Placed(payload + 1, download.image, Tail(todo), flash', fill', last')
    BY <1>0, <1>2, <1>3, <1>4, PlacedNext DEF Faithful
  <2> QED BY <1>1, <2>1
<1> QED BY <1>1, <1>2, <1>5 DEF Faithful, FlashHoldsImage

LEMMA FaithfulNext == Inv /\ Honest /\ Exact /\ Faithful /\ [Next]_vars => Faithful'
<1> SUFFICES ASSUME Inv, Honest, Exact, Faithful, [Next]_vars PROVE Faithful'
  OBVIOUS
<1>0. TypeOK
  BY DEF Inv
<1>1. ASSUME UNCHANGED <<mode, dfu, payload, memory, download>> PROVE Faithful'
  BY <1>1 DEF Faithful, Receiving, FlashHoldsImage, memory
<1>2. ASSUME Setup, flash' = flash, todo' = todo, download' \in {download, CutOff},
             dfu'.state # "dfuDNLOAD_IDLE"
      PROVE  Faithful'
  <2>1. FlashHoldsImage'
    BY <1>0, <1>2, CutOffImage, StillWhole DEF Faithful
  <2> QED BY <1>2, <2>1 DEF Faithful, Receiving, Setup
<1>3. CASE Request
  <2>1. CASE Abort
    BY <1>2, <2>1 DEF Abort, NewDfu, memory
  <2>2. CASE OtherRequest
    BY <1>1, <2>2 DEF OtherRequest, Ignore, history
  <2>3. ASSUME NEW block \in 0..(BLOCKS - 1), NEW length \in Nat,
               Dnload(block, length) \/ Upload(block, length)
        PROVE  Faithful'
    <3>0. Setup
      BY <2>3 DEF Dnload, Upload
    <3>1. CASE Ignore
      BY <1>1, <3>1 DEF Ignore, history
    <3>2. CASE BadBlock
      BY <1>2, <3>0, <3>2 DEF BadBlock, memory, history
    <3>3. CASE /\ Transmit(block, length)
               /\ UNCHANGED <<mode, memory, app_setup, download>>
      <4>1. dfu'.state = "dfuUPLOAD_IDLE"
        BY <1>0, <3>3 DEF Transmit, TypeOK
      <4> QED BY <1>2, <3>0, <3>3, <4>1 DEF memory
    <3> QED BY <2>3, <3>0, <3>1, <3>2, <3>3, FaithfulEnd, FaithfulBlock
            DEF Dnload, Upload
  <2> QED BY <1>3, <2>1, <2>2, <2>3, DfuAssumption DEF Request
<1>4. CASE BootTimeout
  <2>1. dfu.state = "dfuIDLE" /\ UNCHANGED <<dfu, payload, memory, download>>
    BY <1>4 DEF BootTimeout, MayLeave, history
  <2> QED BY <1>2, <1>4, <2>1 DEF BootTimeout, Setup, memory
<1>5. CASE Leave
  BY <1>2, <1>5 DEF Leave, Setup, NewDfu, memory
<1>6. ASSUME Reset, download' \in {download, CutOff} PROVE Faithful'
  <2>1. FlashHoldsImage'
    BY <1>0, <1>6, CutOffImage, StillWhole DEF Faithful, Reset
  <2> QED BY <1>6, <2>1 DEF Faithful, Receiving, Reset, NewDfu
<1>7. CASE App
  <2>1. CASE BusReset
    BY <1>6, <2>1 DEF BusReset
  <2>2. CASE ~BusReset
    <3>1. UNCHANGED <<todo, flash, download>> /\ mode = "app" /\ mode' = "app"
      BY <1>7, <2>2 DEF App, SetInterface, Detach, ClrStatus, memory, history
    <3>2. FlashHoldsImage'
      BY <3>1, StillWhole DEF Faithful
    <3> QED BY <3>1, <3>2 DEF Faithful, Receiving
  <2> QED BY <2>1, <2>2
<1>8. CASE UNCHANGED vars
  BY <1>1, <1>8 DEF vars, history
<1> QED BY <1>3, <1>4, <1>5, <1>6, <1>7, <1>8, FaithfulDataStage, FaithfulWriteByte
        DEF Next, PowerCycle

LEMMA AlwaysFaithful == Spec => []Faithful
<1>1. Init => Faithful
  BY FaithfulInit
<1>2. (Inv /\ Honest) /\ Exact /\ Faithful /\ [Next]_vars => Faithful'
  BY FaithfulNext
<1> QED BY <1>1, <1>2, AlwaysHonest, AlwaysExact, PTL DEF Spec

\* A download of blocks of any length, whole words and pages or not, with blocks
\* refused or sent twice, ends with the image in the Flash (but an odd last byte),
\* if the page buffer was erased when it began.
THEOREM ImageIsWritten == Spec => []FlashHoldsImage
<1>1. Faithful => FlashHoldsImage
  BY DEF Faithful
<1> QED BY <1>1, AlwaysFaithful, PTL
=============================================================================
