--------------------------- MODULE IapApplication ---------------------------
(***************************************************************************)
(* The firmware update of the ING20 EMI firmware: the application layer of *)
(* the IAP protocol (IAP/IAP_Application.c).  A host announces an image    *)
(* with START, sends it in blocks with FLASH_WRITE, and has it installed   *)
(* with SWITCH_APP, which after a delay programs the metadata that tells   *)
(* the second boot to copy the image, and resets.                          *)
(*                                                                         *)
(* A command is handled, whole, in the USB interrupt; the three delayed    *)
(* callbacks run in the task; the main loop enters the second boot.        *)
(* Variables carry the names of the fields of cmdCtl.  A byte of flash is  *)
(* a cell, which is erased, holds the byte of an image that belongs there, *)
(* or garbage; the CRC is taken to tell different contents apart.          *)
(* A definition marked "Slip" is a plausible mistake in the definition     *)
(* that follows it; no action uses it.                                     *)
(***************************************************************************)
EXTENDS Integers

CONSTANTS
  IAP_STORAGE_SIZE, FLASH_MIN_ERASE_UNIT, IAP_MIN_BLOCK_SIZE, IAP_MAX_BLOCK_SIZE,
  IAP_APP_MAX_BUFFER_SIZE,
  MaxDelay,          \* IAP_CMD_REBOOT_MAX_DELAY_MS, IAP_CMD_SWITCH_APP_MAX_DELAY_MS
  Images,            \* the images hosts build
  Headers,           \* the headers hosts send with START
  Writes,            \* the blocks hosts send with FLASH_WRITE
  ReadSizes,         \* readBytes of FLASH_READ
  Delays,            \* delay_ms of REBOOT, SWITCH_APP, SWITCH_BOOT
  Corruption,        \* environment: packets may arrive damaged
  FlashFails,        \* environment: erase and write may fail
  PowerFails,        \* environment: the power may fail
  PoliteHost         \* environment: SWITCH_APP is sent only for a verified image

IAP_APP_LAST_BLOCK == 65535
Uint16 == {n \in Nat : n < 65536}
Cells == 0 .. IAP_STORAGE_SIZE - 1

\* wellFormed says that the fields checked against constants, the length and
\* the CRC of the header pass; chk stands for the CRC of the image: which
\* image it was computed over, and over how many bytes.
Header == [wellFormed : BOOLEAN, chk : [img : Images, len : Nat],
           size : Uint16, num : Uint16, binSize : Nat]

\* IAP_BlockWrite_t, with the length of the payload that carries it.
Write == [blockNum : Uint16, offsetAddr : Nat, length : Uint16, img : Images]

ASSUME FlashAssumption ==
  /\ IAP_STORAGE_SIZE \in Nat /\ FLASH_MIN_ERASE_UNIT \in Nat \ {0}
  /\ IAP_MIN_BLOCK_SIZE \in Nat \ {0} /\ IAP_MAX_BLOCK_SIZE \in Nat /\ IAP_MAX_BLOCK_SIZE < 65530
  /\ IAP_APP_MAX_BUFFER_SIZE \in Nat
ASSUME ImagesAssumption == {"erased", "garbage"} \cap Images = {}
ASSUME CommandAssumption ==
  /\ Headers \subseteq Header /\ Writes \subseteq Write
  /\ ReadSizes \subseteq Nat /\ Delays \subseteq Nat /\ MaxDelay \in Nat
ASSUME EnvironmentAssumption == {Corruption, FlashFails, PowerFails, PoliteHost} \subseteq BOOLEAN

VARIABLES
  upgrade_state, nextBlockNum, nextOffsetAddr,
  header,            \* the header recorded by IAP_Fill_header_info
  payload_size,
  storage,           \* the cells of the storage area
  timers,            \* the delayed callbacks that are armed
  jump_boot_flag,
  ack,               \* how the last command was answered
  installed          \* the content the second boot copied last

upgrade == <<upgrade_state, nextBlockNum, nextOffsetAddr, header>>
vars == <<upgrade, payload_size, ack, storage, timers, jump_boot_flag, installed>>

Nothing == "nothing"
Erased == "erased"
Garbage == "garbage"
DelayedCommands == {"REBOOT", "SWITCH_APP", "SWITCH_BOOT"}
Commands == {"START", "FLASH_WRITE", "FLASH_READ"} \cup DelayedCommands
NoHeader == [size |-> 0, num |-> 0, binSize |-> 0]
NoImage == <<Nothing>>
NoAck == [cmd |-> Nothing, sent |-> TRUE, err |-> "NONE"]

(***************************************************************************)
(* The flash (external): erasing sets a cell to all ones, programming can  *)
(* only clear bits, and either may stop half way.                          *)
(***************************************************************************)
Program(old, new) == IF old \in {Erased, new} THEN new ELSE Garbage

\* IAP_Flash_Erase; IAP_CMD_Start_handler ignores its result.
SectorsOf(size) ==
  size \div FLASH_MIN_ERASE_UNIT + (IF size % FLASH_MIN_ERASE_UNIT = 0 THEN 0 ELSE 1)
EraseFlash(size) ==
  \E n \in 0 .. SectorsOf(size) :
    /\ n < SectorsOf(size) => FlashFails
    /\ storage' = [i \in Cells |-> IF i < n * FLASH_MIN_ERASE_UNIT THEN Erased ELSE storage[i]]

\* IAP_Flash_Write of size cells of an image.
WriteFlash(offset, size, img, ok) ==
  \E n \in 0 .. size :
    /\ IF ok THEN n = size ELSE FlashFails
    /\ storage' = [i \in Cells |-> IF offset <= i /\ i < offset + n
                                   THEN Program(storage[i], img) ELSE storage[i]]

\* Slip: the length is not compared, as if the CRC were taken over chk.len.
CrcMatchesPrefix(cells, len, chk) ==
  \A i \in Cells : i < len => cells[i] = chk.img

\* getCRC16 over the first len cells gives the CRC of chk.
CrcMatches(cells, len, chk) ==
  len = chk.len /\ \A i \in Cells : i < len => cells[i] = chk.img

(***************************************************************************)
(* Answering: IAP_APP_cmd_dispatch records the command, prepares an empty  *)
(* payload, and IAP_APP_SendACK sends only an answer without payload.      *)
(***************************************************************************)
SendACK(cmd, err) ==
  ack' = [cmd |-> cmd, sent |-> (payload_size' = 0), err |-> err]

Answer(cmd, err) == payload_size' = 0 /\ SendACK(cmd, err)

Refuse(cmd, err) ==
  Answer(cmd, err) /\ UNCHANGED <<upgrade, storage, timers, jump_boot_flag, installed>>

\* Refused before the payload is prepared: too short to be a command (rspCmd
\* still names the one before), or with a wrong CRC or length.
ReceiveRunt ==
  /\ Corruption
  /\ UNCHANGED <<payload_size, upgrade, storage, timers, jump_boot_flag, installed>>
  /\ SendACK(ack.cmd, "PARAM")

ReceiveCorrupt(cmd) ==
  /\ Corruption
  /\ UNCHANGED <<payload_size, upgrade, storage, timers, jump_boot_flag, installed>>
  /\ \E err \in {"CRC", "LENGTH"} : SendACK(cmd, err)

\* An unknown command, and a delayed command whose payload is not two bytes.
ReceiveUnknown == Refuse("UNKNOWN", "INVALID_CMD")
ReceiveOddLength == \E cmd \in DelayedCommands : Refuse(cmd, "LENGTH")

(***************************************************************************)
(* START.                                                                  *)
(***************************************************************************)
\* Slip: the size of all blocks is not compared with the storage area.
HeaderOKWithoutArea(h) ==
  /\ h.wellFormed
  /\ IAP_MIN_BLOCK_SIZE <= h.size /\ h.size <= IAP_MAX_BLOCK_SIZE
  /\ h.binSize <= IAP_STORAGE_SIZE

\* IAP_Header_Check
HeaderOK(h) ==
  /\ h.wellFormed
  /\ IAP_MIN_BLOCK_SIZE <= h.size /\ h.size <= IAP_MAX_BLOCK_SIZE
  /\ h.size * h.num <= IAP_STORAGE_SIZE
  /\ h.binSize <= IAP_STORAGE_SIZE

\* Slip: the state is not checked.
MayStartAlways == TRUE

MayStart == upgrade_state # "FINAL"

Start(h) ==
  \/ ~MayStart /\ Refuse("START", "STATE_NOT_SATISFIED")
  \/ MayStart /\ ~HeaderOK(h) /\ Refuse("START", "HEADER")
  \/ /\ MayStart /\ HeaderOK(h)
     /\ EraseFlash(h.size * h.num)
     /\ header' = h
     /\ upgrade_state' = "BUSY" /\ nextBlockNum' = 0 /\ nextOffsetAddr' = 0
     /\ payload_size' = 0    \* IAP_CtlInit: memset 0, rspCmd included
     /\ SendACK(Nothing, "NONE")
     /\ UNCHANGED <<timers, jump_boot_flag, installed>>

(***************************************************************************)
(* FLASH_WRITE.                                                            *)
(***************************************************************************)
IsLast(w) == w.blockNum = IAP_APP_LAST_BLOCK
BlockSize(w) == (w.length - 6) % 65536      \* uint16_t currBlockSize

BlockNumOK(w) ==
  IF nextBlockNum + 1 = header.num THEN IsLast(w)
  ELSE nextBlockNum + 1 < header.num /\ ~IsLast(w) /\ w.blockNum = nextBlockNum

BlockSizeOK(w) ==
  IF IsLast(w) THEN BlockSize(w) <= header.size ELSE BlockSize(w) = header.size

WriteError(w) ==
  IF upgrade_state # "BUSY" THEN "STATE_NOT_SATISFIED"
  ELSE IF ~BlockNumOK(w) THEN "BLOCK_NUM"
  ELSE IF w.offsetAddr # nextOffsetAddr THEN "WR_OFFSET_ADDR"
  ELSE IF ~BlockSizeOK(w) THEN "BLOCK_SIZE" ELSE "NONE"

Advance(w) ==
  /\ nextBlockNum' = nextBlockNum + 1
  /\ nextOffsetAddr' = nextOffsetAddr + BlockSize(w)
  /\ UNCHANGED <<upgrade_state, header>>

FlashWrite(w) ==
  \/ WriteError(w) # "NONE" /\ Refuse("FLASH_WRITE", WriteError(w))
  \/ /\ WriteError(w) = "NONE"
     /\ \/ /\ WriteFlash(w.offsetAddr, BlockSize(w), w.img, FALSE)
           /\ Answer("FLASH_WRITE", "FLASH_OPERATE_FAIL")
           /\ UNCHANGED upgrade
        \/ /\ ~IsLast(w)
           /\ WriteFlash(w.offsetAddr, BlockSize(w), w.img, TRUE)
           /\ Answer("FLASH_WRITE", "NONE")
           /\ Advance(w)
        \/ /\ IsLast(w)
           /\ WriteFlash(w.offsetAddr, BlockSize(w), w.img, TRUE)
           /\ IF CrcMatches(storage', nextOffsetAddr + BlockSize(w), header.chk)
              THEN upgrade_state' = "OVER" /\ Answer("FLASH_WRITE", "NONE")
              ELSE UNCHANGED upgrade_state /\ Answer("FLASH_WRITE", "CRC")
           /\ UNCHANGED <<nextBlockNum, nextOffsetAddr, header>>
     /\ UNCHANGED <<timers, jump_boot_flag, installed>>

(***************************************************************************)
(* FLASH_READ: the handler's outData is a copy, so no data ever reaches    *)
(* the answer, but its size does when it fits the buffer.                  *)
(***************************************************************************)
\* Slip: the size is not compared with the buffer.
ReadSizeUnchecked(n) == n

\* IAP_APP_AddPayloadData
ReadSize(n) == IF n + 7 > IAP_APP_MAX_BUFFER_SIZE THEN 0 ELSE n

FlashRead(n, inRange) ==
  \/ upgrade_state = "IDLE" /\ Refuse("FLASH_READ", "STATE_NOT_SATISFIED")
  \/ upgrade_state # "IDLE" /\ ~inRange /\ Refuse("FLASH_READ", "PARAM")
  \/ /\ upgrade_state # "IDLE" /\ inRange
     /\ payload_size' = ReadSize(n)
     /\ SendACK("FLASH_READ", "NONE")
     /\ UNCHANGED <<upgrade, storage, timers, jump_boot_flag, installed>>

(***************************************************************************)
(* REBOOT, SWITCH_APP, SWITCH_BOOT and their delayed callbacks.            *)
(***************************************************************************)
\* platform_set_timer(callback, delay_ms * 1000 / 625): zero clears the timer.
SetTimer(callback, d) ==
  timers' = IF (d * 1000) \div 625 = 0 THEN timers \ {callback} ELSE timers \cup {callback}

Reboot(d) ==
  \/ d > MaxDelay /\ Refuse("REBOOT", "PARAM")
  \/ /\ d <= MaxDelay
     /\ SetTimer("REBOOT", d) /\ Answer("REBOOT", "NONE")
     /\ UNCHANGED <<upgrade, storage, jump_boot_flag, installed>>

SwitchApp(d) ==
  /\ PoliteHost => upgrade_state \in {"OVER", "FINAL"}
  /\ \/ d > MaxDelay /\ Refuse("SWITCH_APP", "PARAM")
     \/ /\ d <= MaxDelay
        /\ upgrade_state' = "FINAL"
        /\ SetTimer("SWITCH_APP", d) /\ Answer("SWITCH_APP", "NONE")
        /\ UNCHANGED <<nextBlockNum, nextOffsetAddr, header, storage, jump_boot_flag, installed>>

SwitchBoot(d) ==
  \/ d > MaxDelay /\ Refuse("SWITCH_BOOT", "PARAM")
  \/ /\ d <= MaxDelay
     /\ SetTimer("SWITCH_BOOT", d) /\ Answer("SWITCH_BOOT", "NONE")
     /\ UNCHANGED <<upgrade, storage, jump_boot_flag, installed>>

\* A reset loses the RAM: cmdCtl as it is initialised, no timers.
Reset ==
  /\ upgrade_state' = "IDLE" /\ nextBlockNum' = 0 /\ nextOffsetAddr' = 0 /\ header' = NoHeader
  /\ payload_size' = 0 /\ ack' = NoAck
  /\ timers' = {} /\ jump_boot_flag' = FALSE
  /\ UNCHANGED storage

\* IAP_Reboot_Delay_Timeout_Callback
RebootTimeout == "REBOOT" \in timers /\ Reset /\ UNCHANGED installed

\* IAP_DoUpdate_Delay_Timeout_Callback: the metadata names binSize bytes of
\* the storage area; whether it was programmed is not looked at.  The second
\* boot (external) copies them when the metadata is there.
DoUpdateTimeout ==
  /\ "SWITCH_APP" \in timers /\ Reset
  /\ \/ installed' = [i \in 0 .. header.binSize - 1 |-> storage[i]]
     \/ FlashFails /\ UNCHANGED installed

\* IAP_JumpUsbBoot_Delay_Timeout_Callback, then app_main_loop.
JumpUsbBootTimeout ==
  /\ "SWITCH_BOOT" \in timers
  /\ timers' = timers \ {"SWITCH_BOOT"}
  /\ jump_boot_flag' = TRUE
  /\ UNCHANGED <<upgrade, payload_size, ack, storage, installed>>

EnterSecondBoot ==
  /\ jump_boot_flag
  /\ \/ Reset
     \/ /\ FlashFails
        /\ jump_boot_flag' = FALSE
        /\ UNCHANGED <<upgrade, payload_size, ack, storage, timers>>
  /\ UNCHANGED installed

PowerLoss == PowerFails /\ Reset /\ UNCHANGED installed

Init ==
  /\ upgrade_state = "IDLE" /\ nextBlockNum = 0 /\ nextOffsetAddr = 0 /\ header = NoHeader
  /\ payload_size = 0 /\ ack = NoAck
  /\ timers = {} /\ jump_boot_flag = FALSE
  /\ storage = [i \in Cells |-> Erased]
  /\ installed = NoImage

\* IAP_APP_recv_cmd_callback
ReceiveCommand ==
  \/ ReceiveRunt
  \/ \E cmd \in Commands \cup {"UNKNOWN"} : ReceiveCorrupt(cmd)
  \/ ReceiveUnknown
  \/ ReceiveOddLength
  \/ \E h \in Headers : Start(h)
  \/ \E w \in Writes : FlashWrite(w)
  \/ \E n \in ReadSizes, inRange \in BOOLEAN : FlashRead(n, inRange)
  \/ \E d \in Delays : Reboot(d) \/ SwitchApp(d) \/ SwitchBoot(d)

Timeouts == RebootTimeout \/ DoUpdateTimeout \/ JumpUsbBootTimeout

Next == ReceiveCommand \/ Timeouts \/ EnterSecondBoot \/ PowerLoss

Spec == Init /\ [][Next]_vars

\* Timers expire and the main loop goes round; hosts owe nothing.
FairSpec == Spec /\ WF_vars(DoUpdateTimeout) /\ WF_vars(RebootTimeout)
                 /\ WF_vars(JumpUsbBootTimeout) /\ WF_vars(EnterSecondBoot)

-----------------------------------------------------------------------------
(***************************************************************************)
(* Properties.                                                             *)
(***************************************************************************)
Errors == {"NONE", "INVALID_CMD", "LENGTH", "CRC", "BLOCK_NUM", "BLOCK_SIZE", "WR_OFFSET_ADDR",
           "PARAM", "FLASH_OPERATE_FAIL", "STATE_NOT_SATISFIED", "HEADER"}
Names == Commands \cup {"UNKNOWN", Nothing}
Values == {Erased, Garbage} \cup Images

\* Every field of cmdCtl keeps its type, the block number its width, and an
\* answer fits the buffer.
TypeOK ==
  /\ upgrade_state \in {"IDLE", "BUSY", "OVER", "FINAL"}
  /\ nextBlockNum \in Uint16 /\ nextOffsetAddr \in Nat
  /\ header \in Header \cup {NoHeader}
  /\ payload_size \in Nat /\ (payload_size > 0 => payload_size + 7 <= IAP_APP_MAX_BUFFER_SIZE)
  /\ storage \in [Cells -> Values]
  /\ timers \subseteq DelayedCommands /\ jump_boot_flag \in BOOLEAN
  /\ ack \in [cmd : Names, sent : BOOLEAN, err : Errors]

\* OVER, the state in which the device offers the image for installation, is
\* reached and kept only with the announced image, whole, in the storage area:
\* whatever blocks were refused, failed half way, were sent twice or came from
\* another image.
OverIsVerified ==
  upgrade_state = "OVER" => CrcMatches(storage, header.chk.len, header.chk)

\* The next block, of any size that is accepted, lies inside the storage area
\* and inside the area START erased: no sequence of accepted blocks walks into
\* the parameters stored behind it.
NextBlockFits ==
  upgrade_state = "BUSY" =>
    /\ header.size * header.num <= IAP_STORAGE_SIZE
    /\ nextOffsetAddr = nextBlockNum * header.size
    /\ nextBlockNum < header.num => nextOffsetAddr + header.size <= header.size * header.num

\* Every block the device has acknowledged has been programmed, also when the
\* erase or an earlier attempt to write it failed half way.
AcknowledgedIsProgrammed ==
  upgrade_state = "BUSY" => \A i \in Cells : i < nextOffsetAddr => storage[i] # Erased

\* What the host was told about its blocks is true of the storage area, in
\* the middle of an update and at its end.
StorageIsAsTold == OverIsVerified /\ AcknowledgedIsProgrammed

\* From SWITCH_APP to the reset that installs, neither the image nor the
\* header that describes it can change.
FinalFreezes ==
  [][upgrade_state = "FINAL" =>
       UNCHANGED storage /\ (UNCHANGED <<upgrade_state, header>> \/ upgrade_state' = "IDLE")]_vars

\* A SWITCH_APP that was accepted takes effect: the device does not stay in
\* FINAL, in which it refuses every further upgrade.
SwitchAppTakesEffect == upgrade_state = "FINAL" ~> upgrade_state = "IDLE"

\* After a whole command packet was handled a whole ACK is returned
\* (IAP_APP_recv_cmd_callback).
EveryCommandIsAnswered == ack.sent

\* Everything installed is a verified whole image (IapInstaller).
ContentOf(chk) == [i \in 0 .. chk.len - 1 |-> chk.img]
Installer == INSTANCE IapInstaller WITH
  Whole <- {ContentOf(h.chk) : h \in Headers},
  None <- NoImage,
  ready <- IF upgrade_state \in {"OVER", "FINAL"}
           THEN [i \in 0 .. header.chk.len - 1 |-> storage[i]] ELSE NoImage,
  installed <- installed
InstallsVerifiedOnly == Installer!Spec

=============================================================================
