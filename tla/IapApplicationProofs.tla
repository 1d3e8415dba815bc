------------------------ MODULE IapApplicationProofs ------------------------
(***************************************************************************)
(* Proofs about IapApplication, for every size of the storage area and of  *)
(* its sectors, every set of images, headers and blocks, and every choice  *)
(* of the environment switches: any host, failing flash, damaged packets;  *)
(* and about IapUpdate, which composes it with the metadata of the second  *)
(* boot, whatever the words of the metadata are.                           *)
(***************************************************************************)
EXTENDS IapUpdate, TLAPS

UpgradeTypes ==
  /\ upgrade_state \in {"IDLE", "BUSY", "OVER", "FINAL"}
  /\ nextBlockNum \in Uint16 /\ nextOffsetAddr \in Nat
  /\ header \in Header \cup {NoHeader}

StorageTypes == storage \in [Cells -> Values]

TimerTypes == timers \subseteq DelayedCommands /\ jump_boot_flag \in BOOLEAN

AnswerTypes ==
  /\ payload_size \in Nat /\ (payload_size > 0 => payload_size + 7 <= IAP_APP_MAX_BUFFER_SIZE)
  /\ ack \in [cmd : Names, sent : BOOLEAN, err : Errors]

\* An upgrade under way has a header that START has accepted.
BusyHasHeader == upgrade_state = "BUSY" => header \in Header

\* What is said of the image in the storage area.
UpgradeOK == BusyHasHeader /\ NextBlockFits /\ OverIsVerified /\ AcknowledgedIsProgrammed

IInv == UpgradeTypes /\ StorageTypes /\ TimerTypes /\ AnswerTypes /\ UpgradeOK

-----------------------------------------------------------------------------
(***************************************************************************)
(* The helpers.                                                            *)
(***************************************************************************)
LEMMA HeaderFields ==
  ASSUME NEW h \in Header
  PROVE  h.size \in Nat /\ h.num \in Nat /\ h.num \in Uint16
  <1>1. h.size \in Uint16 /\ h.num \in Uint16
    BY Zenon DEF Header
  <1>2. QED
    BY <1>1 DEF Uint16

LEMMA BlockSizeType ==
  ASSUME NEW w \in Write
  PROVE  BlockSize(w) \in Nat
  <1>1. w.length \in Uint16
    BY Zenon DEF Write
  <1>2. QED
    BY <1>1 DEF BlockSize, Uint16

\* One more block of the header's size fits as long as blocks are left.
LEMMA OneMoreBlock ==
  ASSUME NEW s \in Nat, NEW k \in Nat, NEW n \in Nat, k < n
  PROVE  /\ k * s + s <= s * n
         /\ (k + 1) * s = k * s + s
         /\ k + 1 < n => (k + 1) * s + s <= s * n
  <1>1. (k + 1) * s = k * s + s
    OBVIOUS
  <1>2. PICK d \in Nat : n = (k + 1) + d
    <2>1. n - (k + 1) \in Nat /\ n = (k + 1) + (n - (k + 1))
      OBVIOUS
    <2>2. QED
      BY <2>1
  <1>3. s * n = (k + 1) * s + d * s /\ d * s \in Nat
    BY <1>2
  <1>4. k + 1 < n => (k + 1) * s + s <= s * n
    <2> SUFFICES ASSUME k + 1 < n PROVE (k + 1) * s + s <= s * n
      OBVIOUS
    <2>1. PICK e \in Nat : d = 1 + e
      <3>1. d - 1 \in Nat /\ d = 1 + (d - 1)
        BY <1>2
      <3>2. QED
        BY <3>1
    <2>2. d * s = s + e * s /\ e * s \in Nat
      BY <2>1
    <2>3. QED
      BY <1>3, <2>2
  <1>5. QED
    BY <1>1, <1>3, <1>4

\* Programming a cell leaves it programmed, whatever it held.
LEMMA ProgramStep ==
  ASSUME NEW old \in Values, NEW img \in Images
  PROVE  Program(old, img) \in Values /\ Program(old, img) # Erased
  BY ImagesAssumption DEF Program, Values, Erased, Garbage

\* A write, whole or torn, stays in its cells; a whole one programs them all.
LEMMA WriteFlashStep ==
  ASSUME StorageTypes, NEW offset \in Nat, NEW size \in Nat, NEW img \in Images,
         NEW ok \in BOOLEAN, WriteFlash(offset, size, img, ok)
  PROVE  /\ StorageTypes'
         /\ \A i \in Cells : i < offset => storage'[i] = storage[i]
         /\ ok => \A i \in Cells : offset <= i /\ i < offset + size => storage'[i] # Erased
  <1>1. PICK n \in 0 .. size :
          /\ IF ok THEN n = size ELSE FlashFails
          /\ storage' = [i \in Cells |-> IF offset <= i /\ i < offset + n
                                         THEN Program(storage[i], img) ELSE storage[i]]
    BY DEF WriteFlash
  <1>2. Cells \subseteq Int
    BY FlashAssumption DEF Cells
  <1>3. \A i \in Cells : Program(storage[i], img) \in Values /\ Program(storage[i], img) # Erased
    BY ProgramStep DEF StorageTypes
  <1>4. StorageTypes'
    BY <1>1, <1>3 DEF StorageTypes
  <1>5. \A i \in Cells : i < offset => storage'[i] = storage[i]
    BY <1>1, <1>2
  <1>6. ok => \A i \in Cells : offset <= i /\ i < offset + size => storage'[i] # Erased
    BY <1>1, <1>2, <1>3
  <1>7. QED
    BY <1>4, <1>5, <1>6

LEMMA EraseFlashStep ==
  ASSUME StorageTypes, NEW size \in Nat, EraseFlash(size)
  PROVE  StorageTypes'
  BY DEF EraseFlash, StorageTypes, Values

LEMMA AnswerStep ==
  ASSUME NEW cmd \in Names, NEW err \in Errors, Answer(cmd, err)
  PROVE  AnswerTypes'
  <1>1. payload_size' = 0 /\ ack' = [cmd |-> cmd, sent |-> TRUE, err |-> err]
    BY DEF Answer, SendACK
  <1>2. QED
    BY <1>1 DEF AnswerTypes

\* A step that touches neither the upgrade nor the storage area.
LEMMA UpgradeUntouched ==
  ASSUME IInv, UNCHANGED <<upgrade, storage>>
  PROVE  UpgradeTypes' /\ StorageTypes' /\ UpgradeOK'
  BY DEF IInv, upgrade, UpgradeTypes, StorageTypes, UpgradeOK, BusyHasHeader, NextBlockFits,
         OverIsVerified, AcknowledgedIsProgrammed, CrcMatches

LEMMA RefuseStep ==
  ASSUME IInv, NEW cmd \in Names, NEW err \in Errors, Refuse(cmd, err)
  PROVE  IInv'
  <1>1. AnswerTypes'
    BY AnswerStep DEF Refuse
  <1>2. UpgradeTypes' /\ StorageTypes' /\ UpgradeOK'
    BY UpgradeUntouched DEF Refuse
  <1>3. TimerTypes'
    BY DEF Refuse, IInv, TimerTypes
  <1>4. QED
    BY <1>1, <1>2, <1>3 DEF IInv

LEMMA ResetStep ==
  ASSUME IInv, Reset
  PROVE  IInv'
  <1>1. UpgradeTypes' /\ StorageTypes' /\ TimerTypes'
    <2>1. UpgradeTypes'
      BY DEF Reset, UpgradeTypes, Uint16
    <2>2. StorageTypes'
      BY DEF Reset, IInv, StorageTypes
    <2>3. TimerTypes'
      BY DEF Reset, TimerTypes
    <2>4. QED
      BY <2>1, <2>2, <2>3
  <1>2. AnswerTypes'
    BY DEF Reset, AnswerTypes, NoAck, Names, Errors
  <1>3. UpgradeOK'
    BY DEF Reset, UpgradeOK, BusyHasHeader, NextBlockFits, OverIsVerified,
           AcknowledgedIsProgrammed
  <1>4. QED
    BY <1>1, <1>2, <1>3 DEF IInv

LEMMA SetTimerStep ==
  ASSUME TimerTypes, NEW c \in DelayedCommands, NEW d \in Delays, SetTimer(c, d)
  PROVE  timers' \subseteq DelayedCommands
  <1>1. timers' \subseteq timers \cup {c}
    BY DEF SetTimer
  <1>2. QED
    BY <1>1 DEF TimerTypes

-----------------------------------------------------------------------------
(***************************************************************************)
(* The commands.                                                           *)
(***************************************************************************)
LEMMA StartIInv ==
  ASSUME IInv, NEW h \in Headers, Start(h)
  PROVE  IInv'
  <1>1. CASE Refuse("START", "STATE_NOT_SATISFIED") \/ Refuse("START", "HEADER")
    BY <1>1, RefuseStep DEF Names, Commands, Errors
  <1>2. CASE /\ HeaderOK(h) /\ EraseFlash(h.size * h.num) /\ header' = h
             /\ upgrade_state' = "BUSY" /\ nextBlockNum' = 0 /\ nextOffsetAddr' = 0
             /\ payload_size' = 0 /\ SendACK(Nothing, "NONE")
             /\ UNCHANGED <<timers, jump_boot_flag, installed>>
    <2>1. h \in Header /\ h.size \in Nat /\ h.num \in Nat
      BY CommandAssumption, HeaderFields, Zenon
    <2>2. h.size * h.num \in Nat /\ h.size * h.num <= IAP_STORAGE_SIZE
      BY <1>2, <2>1 DEF HeaderOK
    <2>3. UpgradeTypes'
      BY <1>2, <2>1 DEF UpgradeTypes, Uint16
    <2>4. StorageTypes'
      BY <1>2, <2>2, EraseFlashStep DEF IInv
    <2>5. AnswerTypes' /\ TimerTypes'
      <3>1. AnswerTypes'
        BY <1>2 DEF SendACK, AnswerTypes, Names, Commands, Errors
      <3>2. TimerTypes'
        BY <1>2 DEF IInv, TimerTypes
      <3>3. QED
        BY <3>1, <3>2
    <2>6. NextBlockFits'
      <3>1. 0 = 0 * h.size /\ (0 < h.num => 0 + h.size <= h.size * h.num)
        BY <2>1, OneMoreBlock
      <3>2. QED
        BY <1>2, <2>2, <3>1 DEF NextBlockFits
    <2>7. AcknowledgedIsProgrammed'
      BY <1>2, FlashAssumption DEF AcknowledgedIsProgrammed, Cells
    <2>8. BusyHasHeader' /\ OverIsVerified'
      BY <1>2, <2>1 DEF BusyHasHeader, OverIsVerified
    <2>9. QED
      BY <2>3, <2>4, <2>5, <2>6, <2>7, <2>8 DEF IInv, UpgradeOK
  <1>3. QED
    BY <1>1, <1>2 DEF Start

\* An accepted block comes from the list of the host and fits the next place.
LEMMA AcceptedBlock ==
  ASSUME IInv, NEW w \in Writes, WriteError(w) = "NONE"
  PROVE  /\ w \in Write /\ w.img \in Images /\ w.offsetAddr = nextOffsetAddr
         /\ BlockSize(w) \in Nat /\ upgrade_state = "BUSY" /\ header \in Header
         /\ BlockNumOK(w) /\ BlockSizeOK(w)
  <1>1. w \in Write /\ w.img \in Images
    <2>1. w \in Write
      BY CommandAssumption
    <2>2. QED
      BY <2>1, Zenon DEF Write
  <1>2. upgrade_state = "BUSY" /\ w.offsetAddr = nextOffsetAddr /\ BlockNumOK(w) /\ BlockSizeOK(w)
    <2>1. upgrade_state = "BUSY"
      BY Zenon DEF WriteError
    <2>2. BlockNumOK(w)
      BY <2>1, Zenon DEF WriteError
    <2>3. w.offsetAddr = nextOffsetAddr
      BY <2>1, <2>2, Zenon DEF WriteError
    <2>4. BlockSizeOK(w)
      BY <2>1, <2>2, <2>3, Zenon DEF WriteError
    <2>5. QED
      BY <2>1, <2>2, <2>3, <2>4
  <1>3. header \in Header
    BY <1>2 DEF IInv, UpgradeOK, BusyHasHeader
  <1>4. QED
    BY <1>1, <1>2, <1>3, BlockSizeType

\* What programming a block, whole or torn, does to the cells.
LEMMA BlockStep ==
  ASSUME IInv, NEW w \in Writes, WriteError(w) = "NONE", NEW ok \in BOOLEAN,
         WriteFlash(w.offsetAddr, BlockSize(w), w.img, ok)
  PROVE  /\ StorageTypes'
         /\ \A i \in Cells : i < nextOffsetAddr => storage'[i] # Erased
         /\ ok => \A i \in Cells : i < nextOffsetAddr + BlockSize(w) => storage'[i] # Erased
  <1>1. /\ nextOffsetAddr \in Nat /\ StorageTypes
        /\ \A i \in Cells : i < nextOffsetAddr => storage[i] # Erased
    BY AcceptedBlock DEF IInv, UpgradeTypes, UpgradeOK, AcknowledgedIsProgrammed
  <1>2. /\ StorageTypes'
        /\ \A i \in Cells : i < nextOffsetAddr => storage'[i] = storage[i]
        /\ ok => \A i \in Cells : nextOffsetAddr <= i /\ i < nextOffsetAddr + BlockSize(w)
                                    => storage'[i] # Erased
    BY <1>1, AcceptedBlock, WriteFlashStep
  <1>3. Cells \subseteq Int
    BY FlashAssumption DEF Cells
  <1>4. \A i \in Cells : i < nextOffsetAddr => storage'[i] # Erased
    BY <1>1, <1>2
  <1>5. ok => \A i \in Cells : i < nextOffsetAddr + BlockSize(w) => storage'[i] # Erased
    BY <1>1, <1>2, <1>3, <1>4, AcceptedBlock
  <1>6. QED
    BY <1>2, <1>4, <1>5

LEMMA FlashWriteIInv ==
  ASSUME IInv, NEW w \in Writes, FlashWrite(w)
  PROVE  IInv'
  <1>1. CASE Refuse("FLASH_WRITE", WriteError(w))
    <2>1. WriteError(w) \in Errors
      BY DEF WriteError, Errors
    <2>2. QED
      BY <1>1, <2>1, RefuseStep DEF Names, Commands
  <1>2. ASSUME WriteError(w) = "NONE", UNCHANGED <<timers, jump_boot_flag, installed>>
        PROVE  TimerTypes'
    BY <1>2 DEF IInv, TimerTypes
  <1>3. ASSUME NEW err \in Errors, Answer("FLASH_WRITE", err)
        PROVE  AnswerTypes'
    BY <1>3, AnswerStep DEF Names, Commands
  <1>4. CASE /\ WriteError(w) = "NONE" /\ UNCHANGED <<timers, jump_boot_flag, installed>>
             /\ WriteFlash(w.offsetAddr, BlockSize(w), w.img, FALSE)
             /\ Answer("FLASH_WRITE", "FLASH_OPERATE_FAIL")
             /\ UNCHANGED upgrade
    <2>1. upgrade_state = "BUSY" /\ UpgradeTypes'
      BY <1>4, AcceptedBlock DEF IInv, upgrade, UpgradeTypes
    <2>2. StorageTypes' /\ AcknowledgedIsProgrammed'
      BY <1>4, BlockStep DEF upgrade, AcknowledgedIsProgrammed
    <2>3. BusyHasHeader' /\ NextBlockFits' /\ OverIsVerified'
      BY <1>4, <2>1 DEF upgrade, IInv, UpgradeOK, BusyHasHeader, NextBlockFits, OverIsVerified
    <2>4. QED
      BY <1>2, <1>3, <1>4, <2>1, <2>2, <2>3 DEF IInv, UpgradeOK, Errors
  <1>5. CASE /\ WriteError(w) = "NONE" /\ UNCHANGED <<timers, jump_boot_flag, installed>>
             /\ ~IsLast(w)
             /\ WriteFlash(w.offsetAddr, BlockSize(w), w.img, TRUE)
             /\ Answer("FLASH_WRITE", "NONE")
             /\ Advance(w)
    <2>1. header.size \in Nat /\ header.num \in Nat /\ header.num \in Uint16
      BY <1>5, AcceptedBlock, HeaderFields, Zenon
    <2>2. /\ nextBlockNum + 1 < header.num /\ BlockSize(w) = header.size
          /\ upgrade_state = "BUSY" /\ header \in Header
      BY <1>5, AcceptedBlock DEF BlockNumOK, BlockSizeOK
    <2>3. /\ nextBlockNum' = nextBlockNum + 1 /\ nextOffsetAddr' = nextOffsetAddr + header.size
          /\ upgrade_state' = upgrade_state /\ header' = header
      BY <1>5, <2>2 DEF Advance
    <2>4. nextBlockNum \in Nat /\ nextOffsetAddr \in Nat
      BY DEF IInv, UpgradeTypes, Uint16
    <2>5. UpgradeTypes'
      <3>1. nextBlockNum + 1 \in Uint16
        BY <2>1, <2>2, <2>4 DEF Uint16
      <3>2. nextOffsetAddr + header.size \in Nat
        BY <2>1, <2>4
      <3>3. QED
        BY <2>2, <2>3, <3>1, <3>2 DEF UpgradeTypes
    <2>6. StorageTypes' /\ AcknowledgedIsProgrammed'
      BY <1>5, <2>2, <2>3, BlockStep DEF AcknowledgedIsProgrammed
    <2>7. NextBlockFits'
      <3>1. /\ header.size * header.num <= IAP_STORAGE_SIZE
            /\ nextOffsetAddr = nextBlockNum * header.size
        BY <2>2 DEF IInv, UpgradeOK, NextBlockFits
      <3>2. nextBlockNum < header.num
        BY <2>1, <2>2, <2>4
      <3>3. /\ nextBlockNum * header.size + header.size = (nextBlockNum + 1) * header.size
            /\ (nextBlockNum + 1) * header.size + header.size <= header.size * header.num
        BY <2>1, <2>2, <2>4, <3>2, OneMoreBlock, Zenon
      <3>4. QED
        BY <2>3, <3>1, <3>3 DEF NextBlockFits
    <2>8. BusyHasHeader' /\ OverIsVerified'
      BY <2>2, <2>3 DEF BusyHasHeader, OverIsVerified
    <2>9. QED
      BY <1>2, <1>3, <1>5, <2>5, <2>6, <2>7, <2>8 DEF IInv, UpgradeOK, Errors
  <1>6. CASE /\ WriteError(w) = "NONE" /\ UNCHANGED <<timers, jump_boot_flag, installed>>
             /\ IsLast(w)
             /\ WriteFlash(w.offsetAddr, BlockSize(w), w.img, TRUE)
             /\ IF CrcMatches(storage', nextOffsetAddr + BlockSize(w), header.chk)
                THEN upgrade_state' = "OVER" /\ Answer("FLASH_WRITE", "NONE")
                ELSE UNCHANGED upgrade_state /\ Answer("FLASH_WRITE", "CRC")
             /\ UNCHANGED <<nextBlockNum, nextOffsetAddr, header>>
    <2>1. StorageTypes' /\ \A i \in Cells : i < nextOffsetAddr => storage'[i] # Erased
      BY <1>6, BlockStep
    <2>2. upgrade_state = "BUSY"
      BY <1>6, AcceptedBlock
    <2>3. upgrade_state' \in {"BUSY", "OVER"} /\ UpgradeTypes' /\ AnswerTypes'
      <3>1. upgrade_state' \in {"BUSY", "OVER"}
        BY <1>6, <2>2
      <3>2. UpgradeTypes'
        BY <1>6, <3>1 DEF IInv, UpgradeTypes
      <3>3. AnswerTypes'
        BY <1>3, <1>6 DEF Errors
      <3>4. QED
        BY <3>1, <3>2, <3>3
    <2>4. OverIsVerified'
      <3>1. SUFFICES ASSUME upgrade_state' = "OVER"
                     PROVE  CrcMatches(storage', header.chk.len, header.chk)
        BY <1>6 DEF OverIsVerified
      <3>2. CrcMatches(storage', nextOffsetAddr + BlockSize(w), header.chk)
        BY <1>6, <2>2, <3>1
      <3>3. QED
        BY <3>2 DEF CrcMatches
    <2>5. BusyHasHeader' /\ NextBlockFits' /\ AcknowledgedIsProgrammed'
      BY <1>6, <2>1, <2>2 DEF IInv, UpgradeOK, BusyHasHeader, NextBlockFits,
                              AcknowledgedIsProgrammed
    <2>6. QED
      BY <1>2, <1>6, <2>1, <2>3, <2>4, <2>5 DEF IInv, UpgradeOK
  <1>7. QED
    BY <1>1, <1>4, <1>5, <1>6 DEF FlashWrite

LEMMA FlashReadIInv ==
  ASSUME IInv, NEW n \in ReadSizes, NEW inRange \in BOOLEAN, FlashRead(n, inRange)
  PROVE  IInv'
  <1>1. CASE Refuse("FLASH_READ", "STATE_NOT_SATISFIED") \/ Refuse("FLASH_READ", "PARAM")
    BY <1>1, RefuseStep DEF Names, Commands, Errors
  <1>2. CASE /\ payload_size' = ReadSize(n) /\ SendACK("FLASH_READ", "NONE")
             /\ UNCHANGED <<upgrade, storage, timers, jump_boot_flag, installed>>
    <2>1. ReadSize(n) \in Nat /\ (ReadSize(n) > 0 => ReadSize(n) + 7 <= IAP_APP_MAX_BUFFER_SIZE)
      BY CommandAssumption, FlashAssumption DEF ReadSize
    <2>2. ack' \in [cmd : Names, sent : BOOLEAN, err : Errors]
      BY <1>2 DEF SendACK, Names, Commands, Errors
    <2>3. AnswerTypes'
      BY <1>2, <2>1, <2>2 DEF AnswerTypes
    <2>4. TimerTypes'
      BY <1>2 DEF IInv, TimerTypes
    <2>5. QED
      BY <1>2, <2>3, <2>4, UpgradeUntouched DEF IInv
  <1>3. QED
    BY <1>1, <1>2 DEF FlashRead

LEMMA RebootIInv ==
  ASSUME IInv, NEW d \in Delays, Reboot(d)
  PROVE  IInv'
  <1>1. CASE Refuse("REBOOT", "PARAM")
    BY <1>1, RefuseStep DEF Names, Commands, DelayedCommands, Errors
  <1>2. CASE /\ SetTimer("REBOOT", d) /\ Answer("REBOOT", "NONE")
             /\ UNCHANGED <<upgrade, storage, jump_boot_flag, installed>>
    <2>1. TimerTypes'
      BY <1>2, SetTimerStep DEF IInv, TimerTypes, DelayedCommands
    <2>2. AnswerTypes'
      BY <1>2, AnswerStep DEF Names, Commands, DelayedCommands, Errors
    <2>3. QED
      BY <1>2, <2>1, <2>2, UpgradeUntouched DEF IInv
  <1>3. QED
    BY <1>1, <1>2 DEF Reboot

LEMMA SwitchBootIInv ==
  ASSUME IInv, NEW d \in Delays, SwitchBoot(d)
  PROVE  IInv'
  <1>1. CASE Refuse("SWITCH_BOOT", "PARAM")
    BY <1>1, RefuseStep DEF Names, Commands, DelayedCommands, Errors
  <1>2. CASE /\ SetTimer("SWITCH_BOOT", d) /\ Answer("SWITCH_BOOT", "NONE")
             /\ UNCHANGED <<upgrade, storage, jump_boot_flag, installed>>
    <2>1. TimerTypes'
      BY <1>2, SetTimerStep DEF IInv, TimerTypes, DelayedCommands
    <2>2. AnswerTypes'
      BY <1>2, AnswerStep DEF Names, Commands, DelayedCommands, Errors
    <2>3. QED
      BY <1>2, <2>1, <2>2, UpgradeUntouched DEF IInv
  <1>3. QED
    BY <1>1, <1>2 DEF SwitchBoot

LEMMA SwitchAppIInv ==
  ASSUME IInv, NEW d \in Delays, SwitchApp(d)
  PROVE  IInv'
  <1>1. CASE Refuse("SWITCH_APP", "PARAM")
    BY <1>1, RefuseStep DEF Names, Commands, DelayedCommands, Errors
  <1>2. CASE /\ upgrade_state' = "FINAL"
             /\ SetTimer("SWITCH_APP", d) /\ Answer("SWITCH_APP", "NONE")
             /\ UNCHANGED <<nextBlockNum, nextOffsetAddr, header, storage, jump_boot_flag,
                            installed>>
    <2>1. TimerTypes'
      BY <1>2, SetTimerStep DEF IInv, TimerTypes, DelayedCommands
    <2>2. AnswerTypes'
      BY <1>2, AnswerStep DEF Names, Commands, DelayedCommands, Errors
    <2>3. UpgradeTypes' /\ StorageTypes'
      BY <1>2 DEF IInv, UpgradeTypes, StorageTypes
    <2>4. UpgradeOK'
      BY <1>2 DEF UpgradeOK, BusyHasHeader, NextBlockFits, OverIsVerified,
                  AcknowledgedIsProgrammed
    <2>5. QED
      BY <2>1, <2>2, <2>3, <2>4 DEF IInv
  <1>3. QED
    BY <1>1, <1>2 DEF SwitchApp

\* A packet that is refused before the payload is prepared.
LEMMA ReceiveDamagedIInv ==
  ASSUME IInv, ReceiveRunt \/ \E cmd \in Commands \cup {"UNKNOWN"} : ReceiveCorrupt(cmd)
  PROVE  IInv'
  <1>1. PICK cmd \in Names, err \in Errors :
          /\ SendACK(cmd, err)
          /\ UNCHANGED <<payload_size, upgrade, storage, timers, jump_boot_flag, installed>>
    <2>1. CASE ReceiveRunt
      BY <2>1 DEF ReceiveRunt, IInv, AnswerTypes, Names, Errors
    <2>2. CASE \E cmd \in Commands \cup {"UNKNOWN"} : ReceiveCorrupt(cmd)
      BY <2>2 DEF ReceiveCorrupt, Names, Errors
    <2>3. QED
      BY <2>1, <2>2
  <1>2. AnswerTypes'
    BY <1>1 DEF SendACK, IInv, AnswerTypes
  <1>3. TimerTypes'
    BY <1>1 DEF IInv, TimerTypes
  <1>4. QED
    BY <1>1, <1>2, <1>3, UpgradeUntouched DEF IInv

LEMMA ReceiveCommandIInv ==
  ASSUME IInv, ReceiveCommand
  PROVE  IInv'
  <1>1. CASE ReceiveRunt \/ \E cmd \in Commands \cup {"UNKNOWN"} : ReceiveCorrupt(cmd)
    BY <1>1, ReceiveDamagedIInv
  <1>2. CASE ReceiveUnknown \/ ReceiveOddLength
    BY <1>2, RefuseStep DEF ReceiveUnknown, ReceiveOddLength, Names, Commands, Errors
  <1>3. CASE \E h \in Headers : Start(h)
    BY <1>3, StartIInv
  <1>4. CASE \E w \in Writes : FlashWrite(w)
    BY <1>4, FlashWriteIInv
  <1>5. CASE \E n \in ReadSizes, inRange \in BOOLEAN : FlashRead(n, inRange)
    BY <1>5, FlashReadIInv
  <1>6. CASE \E d \in Delays : Reboot(d) \/ SwitchApp(d) \/ SwitchBoot(d)
    BY <1>6, RebootIInv, SwitchAppIInv, SwitchBootIInv
  <1>7. QED
    BY <1>1, <1>2, <1>3, <1>4, <1>5, <1>6 DEF ReceiveCommand

\* The flag and the timer of SWITCH_BOOT alone change.
LEMMA BootFlagStep ==
  ASSUME IInv, UNCHANGED <<upgrade, payload_size, ack, storage>>,
         timers' \subseteq timers, jump_boot_flag' \in BOOLEAN
  PROVE  IInv'
  <1>1. AnswerTypes'
    BY DEF IInv, AnswerTypes
  <1>2. TimerTypes'
    BY DEF IInv, TimerTypes
  <1>3. QED
    BY <1>1, <1>2, UpgradeUntouched DEF IInv

LEMMA NextIInv == IInv /\ [Next]_vars => IInv'
  <1> SUFFICES ASSUME IInv, [Next]_vars PROVE IInv'
    OBVIOUS
  <1>1. CASE ReceiveCommand
    BY <1>1, ReceiveCommandIInv
  <1>2. CASE RebootTimeout \/ DoUpdateTimeout \/ PowerLoss
    BY <1>2, ResetStep DEF RebootTimeout, DoUpdateTimeout, PowerLoss
  <1>3. CASE JumpUsbBootTimeout
    BY <1>3, BootFlagStep DEF JumpUsbBootTimeout
  <1>4. CASE EnterSecondBoot
    <2>1. CASE Reset
      BY <2>1, ResetStep
    <2>2. CASE /\ jump_boot_flag' = FALSE
               /\ UNCHANGED <<upgrade, payload_size, ack, storage, timers>>
      BY <2>2, BootFlagStep
    <2>3. QED
      BY <1>4, <2>1, <2>2 DEF EnterSecondBoot
  <1>5. CASE UNCHANGED vars
    <2>1. jump_boot_flag' \in BOOLEAN
      BY <1>5 DEF vars, IInv, TimerTypes
    <2>2. QED
      BY <1>5, <2>1, BootFlagStep DEF vars
  <1>6. QED
    BY <1>1, <1>2, <1>3, <1>4, <1>5 DEF Next, Timeouts

LEMMA InitIInv == Init => IInv
  <1> SUFFICES ASSUME Init PROVE IInv
    OBVIOUS
  <1>1. UpgradeTypes /\ StorageTypes /\ TimerTypes
    <2>1. UpgradeTypes
      BY DEF Init, UpgradeTypes, Uint16
    <2>2. StorageTypes
      BY DEF Init, StorageTypes, Values
    <2>3. TimerTypes
      BY DEF Init, TimerTypes
    <2>4. QED
      BY <2>1, <2>2, <2>3
  <1>2. AnswerTypes
    BY DEF Init, AnswerTypes, NoAck, Names, Errors
  <1>3. UpgradeOK
    BY DEF Init, UpgradeOK, BusyHasHeader, NextBlockFits, OverIsVerified,
           AcknowledgedIsProgrammed
  <1>4. QED
    BY <1>1, <1>2, <1>3 DEF IInv

-----------------------------------------------------------------------------
(***************************************************************************)
(* The theorems.                                                           *)
(***************************************************************************)
\* The inductive invariant holds in every reachable state.
THEOREM InductiveInvariant == Spec => []IInv
  BY InitIInv, NextIInv, PTL DEF Spec

\* Every field of cmdCtl keeps its type and width.
THEOREM TypeCorrectness == Spec => []TypeOK
  <1>1. IInv => TypeOK
    BY DEF IInv, UpgradeTypes, StorageTypes, TimerTypes, AnswerTypes, TypeOK
  <1>2. QED
    BY <1>1, InductiveInvariant, PTL

\* The device says OVER only when the announced image is whole in the storage
\* area, whatever the host sent and whatever the flash refused.
THEOREM OnlyVerifiedIsOver == Spec => []OverIsVerified
  <1>1. IInv => OverIsVerified
    BY DEF IInv, UpgradeOK
  <1>2. QED
    BY <1>1, InductiveInvariant, PTL

\* No sequence of accepted blocks leaves the storage area.
THEOREM BlocksStayInside == Spec => []NextBlockFits
  <1>1. IInv => NextBlockFits
    BY DEF IInv, UpgradeOK
  <1>2. QED
    BY <1>1, InductiveInvariant, PTL

\* What was acknowledged was programmed.
THEOREM AcknowledgedMeansProgrammed == Spec => []AcknowledgedIsProgrammed
  <1>1. IInv => AcknowledgedIsProgrammed
    BY DEF IInv, UpgradeOK
  <1>2. QED
    BY <1>1, InductiveInvariant, PTL

\* Both: what the host was told about its blocks is true of the storage area.
THEOREM HostIsToldTheTruth == Spec => []StorageIsAsTold
  <1>1. IInv => StorageIsAsTold
    BY DEF IInv, UpgradeOK, StorageIsAsTold
  <1>2. QED
    BY <1>1, InductiveInvariant, PTL

\* In FINAL no command can change the image or its header.
THEOREM FinalIsFrozen == Spec => FinalFreezes
  <1> DEFINE Frozen ==
        upgrade_state = "FINAL" =>
          UNCHANGED storage /\ (UNCHANGED <<upgrade_state, header>> \/ upgrade_state' = "IDLE")
  <1>1. Next => Frozen
    <2> SUFFICES ASSUME Next, upgrade_state = "FINAL"
                 PROVE  UNCHANGED storage
                        /\ (UNCHANGED <<upgrade_state, header>> \/ upgrade_state' = "IDLE")
      OBVIOUS
    <2>1. ASSUME NEW cmd, NEW err, Refuse(cmd, err)
          PROVE  UNCHANGED <<storage, upgrade_state, header>>
      BY <2>1 DEF Refuse, upgrade
    <2>2. CASE ReceiveRunt \/ \E cmd \in Commands \cup {"UNKNOWN"} : ReceiveCorrupt(cmd)
      BY <2>2 DEF ReceiveRunt, ReceiveCorrupt, upgrade
    <2>3. CASE ReceiveUnknown \/ ReceiveOddLength
      BY <2>1, <2>3 DEF ReceiveUnknown, ReceiveOddLength
    <2>4. CASE \E h \in Headers : Start(h)
      BY <2>1, <2>4 DEF Start, MayStart
    <2>5. ASSUME NEW w \in Writes, FlashWrite(w)
          PROVE  UNCHANGED <<storage, upgrade_state, header>>
      <3>1. WriteError(w) = "STATE_NOT_SATISFIED"
        BY DEF WriteError
      <3>2. QED
        BY <2>1, <2>5, <3>1 DEF FlashWrite
    <2>6. CASE \E n \in ReadSizes, inRange \in BOOLEAN : FlashRead(n, inRange)
      BY <2>1, <2>6 DEF FlashRead, upgrade
    <2>7. CASE \E d \in Delays : Reboot(d) \/ SwitchApp(d) \/ SwitchBoot(d)
      BY <2>1, <2>7 DEF Reboot, SwitchApp, SwitchBoot, upgrade
    <2>8. CASE Timeouts \/ EnterSecondBoot \/ PowerLoss
      BY <2>8 DEF Timeouts, RebootTimeout, DoUpdateTimeout, JumpUsbBootTimeout, EnterSecondBoot,
                  PowerLoss, Reset, upgrade
    <2>9. QED
      BY <2>2, <2>3, <2>4, <2>5, <2>6, <2>7, <2>8 DEF Next, ReceiveCommand
  <1>2. QED
    BY <1>1, PTL DEF Spec, FinalFreezes

-----------------------------------------------------------------------------
(***************************************************************************)
(* IapApplication implements IapInstaller, for a host that asks for the    *)
(* switch only after its last block was acknowledged, and whose headers    *)
(* take the CRC over the whole image. Packets may be damaged, the flash    *)
(* and the power may fail.                                                 *)
(***************************************************************************)
HonestHost == PoliteHost /\ \A h \in Headers : h.binSize = h.chk.len

Ready == upgrade_state \in {"OVER", "FINAL"}

\* The image that is ready has been verified and stays so until the reset,
\* and the timer of SWITCH_APP runs for such an image only.
PoliteOK ==
  /\ upgrade_state # "IDLE" => header \in Headers /\ HeaderOK(header)
  /\ Ready => CrcMatches(storage, header.chk.len, header.chk)
  /\ "SWITCH_APP" \in timers => upgrade_state = "FINAL"

PInv == IInv /\ PoliteOK

ReadyImage == IF Ready THEN [i \in 0 .. header.chk.len - 1 |-> storage[i]] ELSE NoImage

-----------------------------------------------------------------------------
(***************************************************************************)
(* The helpers.                                                            *)
(***************************************************************************)
LEMMA HeaderTypes ==
  ASSUME HonestHost, NEW h \in Headers
  PROVE  h \in Header /\ h.binSize \in Nat /\ h.chk.len = h.binSize
  <1>1. h \in Header
    BY CommandAssumption
  <1>2. h.binSize \in Nat
    BY <1>1, Zenon DEF Header
  <1>3. QED
    BY <1>1, <1>2 DEF HonestHost

\* Cells that match the CRC of an accepted header are the whole image.
LEMMA MatchingIsWhole ==
  ASSUME HonestHost, NEW h \in Headers, HeaderOK(h), NEW cells,
         CrcMatches(cells, h.chk.len, h.chk)
  PROVE  [i \in 0 .. h.chk.len - 1 |-> cells[i]] = ContentOf(h.chk)
  <1>1. h.binSize \in Nat /\ h.chk.len = h.binSize
    BY HeaderTypes
  <1>2. h.binSize <= IAP_STORAGE_SIZE
    BY DEF HeaderOK
  <1>3. \A i \in 0 .. h.chk.len - 1 : i \in Cells /\ i < h.chk.len
    BY <1>1, <1>2, FlashAssumption DEF Cells
  <1>4. \A i \in 0 .. h.chk.len - 1 : cells[i] = h.chk.img
    BY <1>3 DEF CrcMatches
  <1>5. QED
    BY <1>4 DEF ContentOf

\* What is ready is a whole image, the one its header announced.
LEMMA ReadyIsWhole ==
  ASSUME HonestHost, PoliteOK, Ready
  PROVE  /\ ReadyImage = ContentOf(header.chk)
         /\ ReadyImage = [i \in 0 .. header.binSize - 1 |-> storage[i]]
         /\ ReadyImage # NoImage
  <1>1. header \in Headers /\ HeaderOK(header) /\ CrcMatches(storage, header.chk.len, header.chk)
    BY DEF PoliteOK, Ready
  <1>2. header.binSize \in Nat /\ header.chk.len = header.binSize
    BY <1>1, HeaderTypes
  <1>3. ReadyImage = [i \in 0 .. header.chk.len - 1 |-> storage[i]]
    BY DEF ReadyImage
  <1>4. ReadyImage = ContentOf(header.chk)
    BY <1>1, <1>3, MatchingIsWhole
  <1>5. ReadyImage # NoImage
    <2>1. DOMAIN NoImage = 1 .. 1
      BY DEF NoImage
    <2>2. DOMAIN ReadyImage = 0 .. header.chk.len - 1
      BY <1>3
    <2>3. 0 .. header.chk.len - 1 # 1 .. 1
      <3>1. CASE header.chk.len = 0
        BY <3>1
      <3>2. CASE header.chk.len > 0
        <4>1. 0 \in 0 .. header.chk.len - 1 /\ 0 \notin 1 .. 1
          BY <1>2, <3>2
        <4>2. QED
          BY <4>1
      <3>3. QED
        BY <1>2, <3>1, <3>2
    <2>4. QED
      BY <2>1, <2>2, <2>3
  <1>6. QED
    BY <1>2, <1>3, <1>4, <1>5

\* The abstract steps, over ReadyImage.
Step == [Installer!Next]_(Installer!vars)

LEMMA Stutter ==
  ASSUME ReadyImage' = ReadyImage, installed' = installed
  PROVE  Step
  BY DEF Step, Installer!vars, ReadyImage, Ready

LEMMA GiveUp ==
  ASSUME ~Ready', installed' = installed
  PROVE  Step
  BY DEF Step, Installer!Next, Installer!GiveUp, ReadyImage, Ready

\* A step that keeps the upgrade, the storage area and what is installed, and
\* arms no timer of SWITCH_APP.
LEMMA KeepStep ==
  ASSUME PoliteOK, UNCHANGED <<upgrade, storage, installed>>,
         "SWITCH_APP" \in timers' => "SWITCH_APP" \in timers
  PROVE  PoliteOK' /\ Step
  <1>1. UNCHANGED <<upgrade_state, header, storage, installed>>
    BY DEF upgrade
  <1>2. PoliteOK'
    BY <1>1 DEF PoliteOK, Ready, HeaderOK, CrcMatches
  <1>3. ReadyImage' = ReadyImage
    BY <1>1 DEF ReadyImage, Ready
  <1>4. QED
    BY <1>1, <1>2, <1>3, Stutter

LEMMA RefuseKeeps ==
  ASSUME PoliteOK, NEW cmd, NEW err, Refuse(cmd, err)
  PROVE  PoliteOK' /\ Step
  BY KeepStep DEF Refuse

LEMMA ResetGivesUp ==
  ASSUME Reset, installed' = installed
  PROVE  PoliteOK' /\ Step
  <1>1. PoliteOK' /\ ~Ready'
    BY DEF Reset, PoliteOK, Ready
  <1>2. QED
    BY <1>1, GiveUp

-----------------------------------------------------------------------------
(***************************************************************************)
(* The steps.                                                              *)
(***************************************************************************)
LEMMA StartInstaller ==
  ASSUME PoliteOK, NEW h \in Headers, Start(h)
  PROVE  PoliteOK' /\ Step
  <1>1. CASE Refuse("START", "STATE_NOT_SATISFIED") \/ Refuse("START", "HEADER")
    BY <1>1, RefuseKeeps
  <1>2. CASE /\ MayStart /\ HeaderOK(h) /\ header' = h /\ upgrade_state' = "BUSY"
             /\ UNCHANGED <<timers, installed>>
    <2>1. "SWITCH_APP" \notin timers'
      BY <1>2 DEF PoliteOK, MayStart
    <2>2. PoliteOK' /\ ~Ready'
      BY <1>2, <2>1 DEF PoliteOK, Ready, HeaderOK
    <2>3. QED
      BY <1>2, <2>2, GiveUp
  <1>3. QED
    BY <1>1, <1>2 DEF Start

LEMMA FlashWriteInstaller ==
  ASSUME HonestHost, PInv, NEW w \in Writes, FlashWrite(w)
  PROVE  PoliteOK' /\ Step
  <1> PoliteOK
    BY DEF PInv
  <1>1. CASE Refuse("FLASH_WRITE", WriteError(w))
    BY <1>1, RefuseKeeps
  <1>2. CASE WriteError(w) = "NONE" /\ UNCHANGED <<timers, installed, header>>
             /\ upgrade_state' = "BUSY"
    <2>1. upgrade_state = "BUSY"
      BY <1>2, AcceptedBlock DEF PInv
    <2>2. PoliteOK' /\ ~Ready'
      BY <1>2, <2>1 DEF PoliteOK, Ready, HeaderOK
    <2>3. QED
      BY <1>2, <2>2, GiveUp
  <1>3. CASE WriteError(w) = "NONE" /\ UNCHANGED <<timers, installed, header>>
             /\ CrcMatches(storage', nextOffsetAddr + BlockSize(w), header.chk)
             /\ upgrade_state' = "OVER"
    <2>1. upgrade_state = "BUSY" /\ "SWITCH_APP" \notin timers'
      BY <1>3, AcceptedBlock DEF PInv, PoliteOK
    <2>2. CrcMatches(storage', header.chk.len, header.chk)
      BY <1>3 DEF CrcMatches
    <2>3. PoliteOK' /\ Ready' /\ ~Ready
      BY <1>3, <2>1, <2>2 DEF PoliteOK, Ready, HeaderOK
    <2>4. ReadyImage = NoImage
      BY <2>3 DEF ReadyImage
    <2>5. ReadyImage' = ContentOf(header.chk)
      <3>1. header \in Headers /\ HeaderOK(header)
        BY <2>1 DEF PoliteOK
      <3>2. [i \in 0 .. header.chk.len - 1 |-> storage'[i]] = ContentOf(header.chk)
        BY <2>2, <3>1, MatchingIsWhole
      <3>3. QED
        BY <1>3, <2>3, <3>2 DEF ReadyImage
    <2>6. header \in Headers
      BY <2>1 DEF PoliteOK
    <2>7. QED
      BY <1>3, <2>3, <2>4, <2>5, <2>6
      DEF Step, Installer!Next, Installer!Verify, ReadyImage, Ready
  <1>4. QED
    <2>1. SUFFICES ASSUME WriteError(w) = "NONE", UNCHANGED <<timers, installed>>,
                          UNCHANGED upgrade \/ Advance(w)
                          \/ /\ IF CrcMatches(storage', nextOffsetAddr + BlockSize(w), header.chk)
                                THEN upgrade_state' = "OVER" ELSE UNCHANGED upgrade_state
                             /\ UNCHANGED header
                   PROVE  PoliteOK' /\ Step
      BY <1>1 DEF FlashWrite
    <2>2. upgrade_state = "BUSY" /\ header' = header
      BY <2>1, AcceptedBlock DEF PInv, upgrade, Advance
    <2>3. CASE UNCHANGED upgrade_state
      BY <1>2, <2>1, <2>2, <2>3
    <2>4. CASE ~UNCHANGED upgrade_state
      BY <1>3, <2>1, <2>2, <2>4 DEF upgrade, Advance
    <2>5. QED
      BY <2>3, <2>4

LEMMA SwitchAppInstaller ==
  ASSUME HonestHost, PoliteOK, NEW d \in Delays, SwitchApp(d)
  PROVE  PoliteOK' /\ Step
  <1>1. CASE Refuse("SWITCH_APP", "PARAM")
    BY <1>1, RefuseKeeps
  <1>2. CASE /\ upgrade_state' = "FINAL" /\ UNCHANGED <<header, storage, installed>>
    <2>1. Ready /\ Ready'
      BY <1>2 DEF SwitchApp, HonestHost, Ready
    <2>2. PoliteOK'
      BY <1>2, <2>1 DEF PoliteOK, Ready, HeaderOK, CrcMatches
    <2>3. ReadyImage' = ReadyImage
      BY <1>2, <2>1 DEF ReadyImage, Ready
    <2>4. QED
      BY <1>2, <2>2, <2>3, Stutter
  <1>3. QED
    BY <1>1, <1>2 DEF SwitchApp

\* The timer of SWITCH_APP installs what is ready.
LEMMA DoUpdateInstaller ==
  ASSUME HonestHost, PoliteOK, DoUpdateTimeout
  PROVE  PoliteOK' /\ Step
  <1>1. CASE UNCHANGED installed
    BY <1>1, ResetGivesUp DEF DoUpdateTimeout
  <1>2. CASE installed' = [i \in 0 .. header.binSize - 1 |-> storage[i]]
    <2>1. Ready
      BY DEF DoUpdateTimeout, PoliteOK, Ready
    <2>2. installed' = ReadyImage /\ ReadyImage # NoImage
      BY <1>2, <2>1, ReadyIsWhole
    <2>3. PoliteOK' /\ ~Ready'
      BY DEF DoUpdateTimeout, Reset, PoliteOK, Ready
    <2>4. ReadyImage' = NoImage
      BY <2>3 DEF ReadyImage
    <2>5. QED
      BY <2>2, <2>3, <2>4 DEF Step, Installer!Next, Installer!Install, ReadyImage, Ready
  <1>3. QED
    BY <1>1, <1>2 DEF DoUpdateTimeout

LEMMA NextInstaller ==
  ASSUME HonestHost, PInv, [Next]_vars
  PROVE  PInv' /\ Step
  <1> PoliteOK
    BY DEF PInv
  <1> SUFFICES PoliteOK' /\ Step
    BY NextIInv DEF PInv
  <1>1. CASE ReceiveRunt \/ \E cmd \in Commands \cup {"UNKNOWN"} : ReceiveCorrupt(cmd)
    BY <1>1, KeepStep DEF ReceiveRunt, ReceiveCorrupt
  <1>2. CASE ReceiveUnknown \/ ReceiveOddLength
    BY <1>2, RefuseKeeps DEF ReceiveUnknown, ReceiveOddLength
  <1>3. CASE \E h \in Headers : Start(h)
    BY <1>3, StartInstaller
  <1>4. CASE \E w \in Writes : FlashWrite(w)
    BY <1>4, FlashWriteInstaller
  <1>5. CASE \E n \in ReadSizes, inRange \in BOOLEAN : FlashRead(n, inRange)
    BY <1>5, RefuseKeeps, KeepStep DEF FlashRead
  <1>6. CASE \E d \in Delays : Reboot(d) \/ SwitchBoot(d)
    <2>1. PICK d \in Delays : Reboot(d) \/ SwitchBoot(d)
      BY <1>6
    <2>2. ASSUME NEW c \in {"REBOOT", "SWITCH_BOOT"}, SetTimer(c, d)
          PROVE  "SWITCH_APP" \in timers' => "SWITCH_APP" \in timers
      BY <2>2 DEF SetTimer
    <2>3. QED
      BY <2>1, <2>2, RefuseKeeps, KeepStep DEF Reboot, SwitchBoot
  <1>7. CASE \E d \in Delays : SwitchApp(d)
    BY <1>7, SwitchAppInstaller
  <1>8. CASE RebootTimeout \/ PowerLoss
    BY <1>8, ResetGivesUp DEF RebootTimeout, PowerLoss
  <1>9. CASE DoUpdateTimeout
    BY <1>9, DoUpdateInstaller
  <1>10. CASE JumpUsbBootTimeout
    BY <1>10, KeepStep DEF JumpUsbBootTimeout
  <1>11. CASE EnterSecondBoot
    BY <1>11, ResetGivesUp, KeepStep DEF EnterSecondBoot
  <1>12. CASE UNCHANGED vars
    BY <1>12, KeepStep DEF vars
  <1>13. QED
    BY <1>1, <1>2, <1>3, <1>4, <1>5, <1>6, <1>7, <1>8, <1>9, <1>10, <1>11, <1>12
    DEF Next, ReceiveCommand, Timeouts

LEMMA InitInstaller == Init => PInv /\ Installer!Init
  <1> SUFFICES ASSUME Init PROVE PInv /\ Installer!Init
    OBVIOUS
  <1>1. PoliteOK /\ Installer!Init
    BY DEF Init, PoliteOK, Ready, Installer!Init
  <1>2. QED
    BY <1>1, InitIInv DEF PInv

\* For a host that asks for the switch only when the image is verified, all
\* that is ever installed is a whole image, unchanged since it was verified.
THEOREM OnlyVerifiedIsInstalled == ASSUME HonestHost PROVE Spec => InstallsVerifiedOnly
  <1>1. Init => PInv /\ Installer!Init
    BY InitInstaller
  <1>2. PInv /\ [Next]_vars => PInv' /\ [Installer!Next]_(Installer!vars)
    BY NextInstaller DEF Step
  <1>3. QED
    BY <1>1, <1>2, PTL DEF Spec, InstallsVerifiedOnly, Installer!Spec

-----------------------------------------------------------------------------
(***************************************************************************)
(* IapUpdate implements IapApplication: what the metadata of the second    *)
(* boot says, word after word, through failed writes and power failures.   *)
(* The second boot erases what it has installed, and writes may fail.      *)
(***************************************************************************)
Crc == flash["crc_value"]

\* No CRC in the sector: nothing is pending.
NoCrc == Crc \in {Blank, Torn}

\* The new words stand before addr, blank ones from there on.
MetaHalfWritten ==
  /\ flash["size"] = IF addr > 1 THEN blocks[1] ELSE Blank
  /\ flash["dst"]  = IF addr > 2 THEN blocks[2] ELSE Blank
  /\ flash["src"]  = IF addr > 3 THEN blocks[3] ELSE Blank
  /\ flash["need_firmware_replace"] = IF addr > 6 THEN DEF_FLAG ELSE Blank
  /\ flash["block_num"] = IF addr > 7 THEN 1 ELSE Blank
  /\ flash["crc_value"] = Blank

MetaTypes ==
  /\ flash = [w \in Boot!Words |-> flash[w]]
  /\ \A w \in Boot!InfoWords : flash[w] \in Boot!InfoValues
  /\ header \in Headers \cup {NoHeader}
  /\ pc \in Boot!Places /\ addr \in 1 .. 8

\* The timer of SWITCH_APP runs for a frozen image, the callback programs the
\* update of its header, and every reset has a reason.
ReasonsOK ==
  /\ "SWITCH_APP" \in timers => upgrade_state = "FINAL"
  /\ pc \in Updating => "SWITCH_APP" \in timers /\ blocks = UpdateOf(header)
  /\ pc \in Entering => jump_boot_flag
  /\ pc = "reset" => PowerFails \/ "SWITCH_APP" \in timers \/ jump_boot_flag

\* Where the firmware has looked, the sector is as it was found; a CRC is
\* there only between the last word and the reset.
SectorOK ==
  /\ pc = "check info" => Boot!SettingsBlank
  /\ pc = "write" => MetaHalfWritten
  /\ NoCrc \/ (pc = "reset" /\ "SWITCH_APP" \in timers /\ Pending = UpdateOf(header))

UInv == MetaTypes /\ ReasonsOK /\ SectorOK

\* The second boot erases what it has installed; a word may fail to program.
FailingFlash == BootClears /\ FlashFails

-----------------------------------------------------------------------------
(***************************************************************************)
(* The sector.                                                             *)
(***************************************************************************)
LEMMA UpdateIsInfo ==
  ASSUME NEW h \in Headers \cup {NoHeader}
  PROVE  /\ UpdateOf(h) \in Boot!Infos /\ UpdateOf(h) # NoUpdate
         /\ {h.binSize, LoadAddress, IAP_STORAGE_ADDR} \subseteq Boot!InfoValues
  <1>1. {UpdateOf(h)[1], UpdateOf(h)[2], UpdateOf(h)[3]} \subseteq Boot!InfoValues
    BY DEF Boot!InfoValues
  <1>2. /\ UpdateOf(h)[1] = h.binSize /\ UpdateOf(h)[2] = LoadAddress
        /\ UpdateOf(h)[3] = IAP_STORAGE_ADDR
    BY DEF UpdateOf
  <1>3. {h.binSize, LoadAddress, IAP_STORAGE_ADDR} \subseteq Boot!InfoValues
    BY <1>1, <1>2
  <1>4. UpdateOf(h) \in Boot!Infos
    BY <1>3 DEF Boot!Infos, UpdateOf
  <1>5. QED
    BY <1>3, <1>4, MetadataAssumption

\* Without a CRC nothing is pending.
LEMMA NothingIsPending ==
  ASSUME MetaTypes, NoCrc
  PROVE  Pending = NoUpdate
  <1>1. Boot!InfoOf(flash) \in Boot!Infos
    BY DEF MetaTypes, Boot!InfoOf, Boot!Infos, Boot!InfoWords
  <1>2. QED
    BY <1>1, MetadataAssumption DEF NoCrc, Crc, Pending, Boot!Pending

LEMMA BlankSector ==
  /\ \A w \in Boot!Words : Boot!Erased[w] = Blank
  /\ Boot!Erased = [w \in Boot!Words |-> Boot!Erased[w]]
  /\ Boot!InfoWords \subseteq Boot!Words /\ Boot!SettingsWords \subseteq Boot!Words
  /\ {Blank, Torn} \subseteq Boot!InfoValues
  BY DEF Boot!Erased, Boot!Words, Boot!InfoValues

\* What an erase, whole or torn, and a torn word leave is no CRC.
LEMMA SpoiltSector ==
  ASSUME MetaTypes, NoCrc, UNCHANGED header, pc' \in Boot!Places, addr' \in 1 .. 8,
         flash' = [w \in Boot!Words |-> flash'[w]],
         \A w \in Boot!InfoWords \cup {"crc_value"} : flash'[w] \in {flash[w], Blank, Torn}
  PROVE  MetaTypes' /\ NoCrc'
  <1>1. \A w \in Boot!InfoWords : flash'[w] \in Boot!InfoValues
    BY BlankSector DEF MetaTypes
  <1>2. NoCrc'
    BY DEF NoCrc, Crc
  <1>3. QED
    BY <1>1, <1>2 DEF MetaTypes

LEMMA OneWord ==
  ASSUME MetaTypes, NEW w \in Boot!Words, NEW new, flash' = [flash EXCEPT ![w] = new]
  PROVE  /\ flash' = [x \in Boot!Words |-> flash'[x]]
         /\ flash'[w] = new /\ \A x \in Boot!Words \ {w} : flash'[x] = flash[x]
  BY DEF MetaTypes

LEMMA OrderedWords ==
  ASSUME NEW a \in 1 .. 8
  PROVE  Boot!WriteOrder[a] \in Boot!Words
  BY DEF Boot!WriteOrder, Boot!Words, Boot!SettingsWords, Boot!InfoWords

LEMMA EraseClears ==
  ASSUME Boot!EraseSector
  PROVE  flash' = Boot!Erased
  BY DEF Boot!EraseSector

-----------------------------------------------------------------------------
(***************************************************************************)
(* The steps of the application.                                           *)
(***************************************************************************)
\* What the steps of this section leave to show: that the reasons hold on.
LEMMA SectorStays ==
  ASSUME UInv, UNCHANGED <<flash, pc, addr, blocks, result>>, ReasonsOK',
         header' \in Headers \cup {NoHeader},
         pc = "reset" => UNCHANGED <<timers, header>>
  PROVE  UInv'
  <1>1. MetaTypes'
    BY DEF UInv, MetaTypes
  <1>2. SectorOK'
    BY DEF UInv, SectorOK, Boot!SettingsBlank, MetaHalfWritten, NoCrc, Crc, Pending
  <1>3. QED
    BY <1>1, <1>2 DEF UInv

LEMMA SetOtherTimer ==
  ASSUME NEW d, SetTimer("SWITCH_BOOT", d), "SWITCH_APP" \in timers'
  PROVE  "SWITCH_APP" \in timers
  BY DEF SetTimer

\* Where commands come nothing is being programmed.
Quiet == /\ UInv /\ pc \in {"run"} \cup Entering
         /\ UNCHANGED <<flash, pc, addr, blocks, result>>

LEMMA QuietStep ==
  ASSUME Quiet, header' \in Headers \cup {NoHeader}, jump_boot_flag' = jump_boot_flag,
         "SWITCH_APP" \in timers' => upgrade_state' = "FINAL"
  PROVE  UInv'
  <1>1. /\ pc' = pc /\ pc \notin Updating \cup {"reset"}
        /\ pc \in Entering => jump_boot_flag
    BY DEF Quiet, Entering, Updating, UInv, ReasonsOK
  <1>2. pc' \in Entering => jump_boot_flag'
    BY <1>1, Zenon
  <1>3. ReasonsOK'
    BY <1>1, <1>2 DEF ReasonsOK
  <1>4. QED
    BY <1>1, <1>3, SectorStays DEF Quiet

LEMMA QuietReasons ==
  ASSUME Quiet
  PROVE  /\ "SWITCH_APP" \in timers => upgrade_state = "FINAL"
         /\ header \in Headers \cup {NoHeader}
  BY DEF Quiet, UInv, ReasonsOK, MetaTypes

LEMMA QuietRefusal ==
  ASSUME Quiet, NEW cmd, NEW err, Refuse(cmd, err)
  PROVE  UInv'
  <1>1. UNCHANGED <<upgrade_state, header, timers, jump_boot_flag>>
    BY DEF Refuse, upgrade
  <1>2. QED
    BY <1>1, QuietReasons, QuietStep

LEMMA CommandStep ==
  ASSUME UInv, Command
  PROVE  UInv' /\ Next
  <1>1. Quiet
    BY DEF Command, bootVars, Quiet
  <1>2. /\ "SWITCH_APP" \in timers => upgrade_state = "FINAL"
        /\ header \in Headers \cup {NoHeader}
    BY <1>1, QuietReasons
  <1>3. ASSUME NEW h \in Headers, Start(h)
        PROVE  UInv'
    <2>1. CASE Refuse("START", "STATE_NOT_SATISFIED") \/ Refuse("START", "HEADER")
      BY <1>1, <2>1, QuietRefusal
    <2>2. CASE MayStart /\ header' = h /\ UNCHANGED <<timers, jump_boot_flag>>
      <3>1. "SWITCH_APP" \notin timers'
        BY <1>2, <2>2 DEF MayStart
      <3>2. QED
        BY <1>1, <2>2, <3>1, QuietStep
    <2>3. QED
      BY <1>3, <2>1, <2>2 DEF Start
  <1>4. ASSUME NEW w \in Writes, FlashWrite(w)
        PROVE  UInv'
    <2>1. CASE Refuse("FLASH_WRITE", WriteError(w))
      BY <1>1, <2>1, QuietRefusal
    <2>2. CASE WriteError(w) = "NONE" /\ UNCHANGED <<timers, jump_boot_flag, header>>
      <3>1. "SWITCH_APP" \notin timers'
        BY <1>2, <2>2 DEF WriteError
      <3>2. QED
        BY <1>1, <1>2, <2>2, <3>1, QuietStep
    <2>3. QED
      BY <1>4, <2>1, <2>2 DEF FlashWrite, upgrade, Advance
  <1>5. ASSUME NEW d \in Delays, SwitchApp(d)
        PROVE  UInv'
    <2>1. CASE Refuse("SWITCH_APP", "PARAM")
      BY <1>1, <2>1, QuietRefusal
    <2>2. CASE upgrade_state' = "FINAL" /\ UNCHANGED <<jump_boot_flag, header>>
      BY <1>1, <1>2, <2>2, QuietStep
    <2>3. QED
      BY <1>5, <2>1, <2>2 DEF SwitchApp
  <1>6. ASSUME NEW d \in Delays, SwitchBoot(d)
        PROVE  UInv'
    <2>1. CASE Refuse("SWITCH_BOOT", "PARAM")
      BY <1>1, <2>1, QuietRefusal
    <2>2. CASE SetTimer("SWITCH_BOOT", d) /\ UNCHANGED <<upgrade, jump_boot_flag>>
      <3>1. UNCHANGED <<upgrade_state, header, jump_boot_flag>>
        BY <2>2 DEF upgrade
      <3>2. "SWITCH_APP" \in timers' => "SWITCH_APP" \in timers
        BY <2>2, SetOtherTimer
      <3>3. QED
        BY <1>1, <1>2, <3>1, <3>2, QuietStep
    <2>3. QED
      BY <1>6, <2>1, <2>2 DEF SwitchBoot
  <1>7. Next
    BY DEF Command, Next, ReceiveCommand
  <1>8. QED
    BY <1>3, <1>4, <1>5, <1>6, <1>7 DEF Command

LEMMA JumpTimeoutStep ==
  ASSUME UInv, JumpTimeout
  PROVE  UInv' /\ Next
  <1>1. /\ pc = "run" /\ UNCHANGED <<flash, pc, addr, blocks, result>>
        /\ timers' \subseteq timers /\ UNCHANGED <<upgrade_state, header>>
    BY DEF JumpTimeout, JumpUsbBootTimeout, bootVars, upgrade
  <1>2. ReasonsOK' /\ header' \in Headers \cup {NoHeader}
    BY <1>1 DEF UInv, ReasonsOK, Updating, Entering, MetaTypes
  <1>3. UInv'
    BY <1>1, <1>2, SectorStays
  <1>4. QED
    BY <1>3 DEF JumpTimeout, Next, Timeouts

-----------------------------------------------------------------------------
(***************************************************************************)
(* Programming the metadata.                                               *)
(***************************************************************************)
LEMMA VarsStay ==
  ASSUME UNCHANGED vars
  PROVE  UNCHANGED <<upgrade_state, header, storage, timers, jump_boot_flag, installed>>
  BY DEF vars, upgrade

LEMMA DoUpdateCallbackStep ==
  ASSUME UInv, DoUpdateCallback
  PROVE  UInv'
  <1>1. /\ UNCHANGED <<upgrade_state, header, timers, jump_boot_flag, flash, addr>>
        /\ "SWITCH_APP" \in timers /\ pc = "run" /\ pc' = "check settings"
        /\ blocks' = UpdateOf(header)
    BY VarsStay DEF DoUpdateCallback, Boot!ProgramFotaMetadata
  <1>2. MetaTypes'
    BY <1>1 DEF UInv, MetaTypes, Boot!Places
  <1>3. ReasonsOK'
    BY <1>1 DEF UInv, ReasonsOK, Updating, Entering, UpdateOf
  <1>4. SectorOK'
    BY <1>1 DEF UInv, SectorOK, NoCrc, Crc
  <1>5. QED
    BY <1>2, <1>3, <1>4 DEF UInv

\* The sector is found blank or erased before anything is written.
LEMMA CheckSectorStep ==
  ASSUME UInv, Boot!CheckSettings \/ Boot!CheckInfo, UNCHANGED vars
  PROVE  UInv'
  <1>1. /\ UNCHANGED <<upgrade_state, header, timers, jump_boot_flag, blocks>>
        /\ pc \in {"check settings", "check info"} /\ pc' \in {"check info", "write"}
        /\ pc' = "write" => pc = "check info" /\ addr' = 1
        /\ pc' \in Boot!Places /\ addr' \in 1 .. 8
    <2>1. pc' \in Boot!Places /\ addr' \in 1 .. 8
      <3>1. addr \in 1 .. 8 /\ addr' \in {addr, 1} /\ pc' \in {"check info", "write"}
        BY DEF Boot!CheckSettings, Boot!CheckInfo, UInv, MetaTypes
      <3>2. pc' \in Boot!Places
        BY <3>1 DEF Boot!Places
      <3>3. addr' \in 1 .. 8
        <4>1. addr' = addr \/ addr' = 1
          BY <3>1
        <4>2. CASE addr' = addr
          BY <3>1, <4>2, Zenon
        <4>3. CASE addr' = 1
          BY <4>3
        <4>4. QED
          BY <4>1, <4>2, <4>3
      <3>4. QED
        BY <3>2, <3>3
    <2>2. QED
      BY <2>1, VarsStay DEF Boot!CheckSettings, Boot!CheckInfo
  <1>2. MetaTypes /\ NoCrc
    BY <1>1 DEF UInv, SectorOK
  <1>3. \/ flash' = Boot!Erased
        \/ flash' = flash /\ pc = "check settings" /\ pc' = "check info" /\ Boot!SettingsBlank
        \/ flash' = flash /\ pc = "check info" /\ Boot!InfoBlank /\ Boot!SettingsBlank
    BY EraseClears DEF Boot!CheckSettings, Boot!CheckInfo, UInv, SectorOK
  <1>4. /\ flash' = [w \in Boot!Words |-> flash'[w]]
        /\ \A w \in Boot!InfoWords \cup {"crc_value"} : flash'[w] \in {flash[w], Blank, Torn}
    <2>1. CASE flash' = flash
      BY <1>2, <2>1 DEF MetaTypes
    <2>2. CASE flash' = Boot!Erased
      BY <2>2, BlankSector DEF Boot!Words, Boot!SettingsWords
    <2>3. QED
      BY <1>3, <2>1, <2>2
  <1>5. MetaTypes' /\ NoCrc'
    BY <1>1, <1>2, <1>4, SpoiltSector
  <1>6. ReasonsOK'
    BY <1>1 DEF UInv, ReasonsOK, Updating, Entering, UpdateOf
  <1>7. pc' = "check info" => Boot!SettingsBlank'
    BY <1>1, <1>3, BlankSector DEF Boot!SettingsBlank, Boot!SettingsWords
  <1>8. ASSUME pc' = "write"
        PROVE  MetaHalfWritten'
    <2>1. addr' = 1
      BY <1>1, <1>8
    <2>2. /\ flash'["size"] = Blank /\ flash'["dst"] = Blank /\ flash'["src"] = Blank
          /\ flash'["need_firmware_replace"] = Blank /\ flash'["block_num"] = Blank
          /\ flash'["crc_value"] = Blank
      BY <1>1, <1>3, <1>8, BlankSector
      DEF Boot!SettingsBlank, Boot!InfoBlank, Boot!SettingsWords, Boot!InfoWords
    <2>3. QED
      BY <2>1, <2>2 DEF MetaHalfWritten
  <1>9. QED
    BY <1>1, <1>5, <1>6, <1>7, <1>8 DEF UInv, SectorOK

\* The last word is the CRC: until it stands nothing is pending, and when it
\* stands the update is.
LEMMA WriteMetaWordStep ==
  ASSUME UInv, Boot!WriteWord, UNCHANGED vars
  PROVE  UInv'
  <1> DEFINE w == Boot!WriteOrder[addr]
             new == Boot!Program(flash[w], Boot!NewWord(w))
  <1>1. /\ UNCHANGED <<upgrade_state, header, timers, jump_boot_flag, blocks>>
        /\ pc = "write" /\ MetaTypes /\ MetaHalfWritten /\ addr \in 1 .. 8 /\ w \in Boot!Words
        /\ "SWITCH_APP" \in timers /\ blocks = UpdateOf(header)
        /\ header \in Headers \cup {NoHeader}
    BY VarsStay, OrderedWords
    DEF Boot!WriteWord, UInv, MetaTypes, SectorOK, ReasonsOK, Updating
  <1>2. /\ blocks[1] = header.binSize /\ blocks[2] = LoadAddress
        /\ blocks[3] = IAP_STORAGE_ADDR
        /\ {blocks[1], blocks[2], blocks[3]} \subseteq Boot!InfoValues
        /\ UpdateOf(header) = <<blocks[1], blocks[2], blocks[3]>>
    BY <1>1, UpdateIsInfo DEF UpdateOf
  <1>3. flash' = [flash EXCEPT ![w] = new]
    BY DEF Boot!WriteWord
  <1>4. /\ flash' = [x \in Boot!Words |-> flash'[x]]
        /\ flash'[w] = new /\ \A x \in Boot!Words \ {w} : flash'[x] = flash[x]
    BY <1>1, <1>3, OneWord
  <1>5. CASE addr \in 1 .. 7
    <2>1. /\ addr' = addr + 1 /\ pc' = "write" /\ addr' \in 1 .. 8
      BY <1>1, <1>5 DEF Boot!WriteWord
    <2>2. MetaHalfWritten'
      <3>1. CASE addr = 1
        BY <1>1, <1>4, <2>1, <3>1
        DEF MetaHalfWritten, Boot!WriteOrder, Boot!Words, Boot!InfoWords, Boot!SettingsWords,
            Boot!Program, Boot!NewWord
      <3>2. CASE addr = 2
        BY <1>1, <1>4, <2>1, <3>2
        DEF MetaHalfWritten, Boot!WriteOrder, Boot!Words, Boot!InfoWords, Boot!SettingsWords,
            Boot!Program, Boot!NewWord
      <3>3. CASE addr = 3
        BY <1>1, <1>4, <2>1, <3>3
        DEF MetaHalfWritten, Boot!WriteOrder, Boot!Words, Boot!InfoWords, Boot!SettingsWords,
            Boot!Program, Boot!NewWord
      <3>4. CASE addr = 4 \/ addr = 5
        BY <1>1, <1>4, <2>1, <3>4
        DEF MetaHalfWritten, Boot!WriteOrder, Boot!Words, Boot!InfoWords, Boot!SettingsWords
      <3>5. CASE addr = 6
        BY <1>1, <1>4, <2>1, <3>5
        DEF MetaHalfWritten, Boot!WriteOrder, Boot!Words, Boot!InfoWords, Boot!SettingsWords,
            Boot!Program, Boot!NewWord
      <3>6. CASE addr = 7
        BY <1>1, <1>4, <2>1, <3>6
        DEF MetaHalfWritten, Boot!WriteOrder, Boot!Words, Boot!InfoWords, Boot!SettingsWords,
            Boot!Program, Boot!NewWord
      <3>7. QED
        BY <1>5, <3>1, <3>2, <3>3, <3>4, <3>5, <3>6
    <2>3. \A x \in Boot!InfoWords : flash'[x] \in Boot!InfoValues
      BY <1>1, <1>2, <2>2, BlankSector DEF MetaHalfWritten, Boot!InfoWords
    <2>4. NoCrc'
      BY <2>2 DEF MetaHalfWritten, NoCrc, Crc
    <2>5. MetaTypes'
      BY <1>1, <1>4, <2>1, <2>3 DEF MetaTypes, Boot!Places
    <2>6. ReasonsOK'
      BY <1>1, <2>1 DEF UInv, ReasonsOK, Updating, Entering, UpdateOf
    <2>7. QED
      BY <2>1, <2>2, <2>4, <2>5, <2>6 DEF UInv, SectorOK
  <1>6. CASE addr = 8
    <2>1. w = "crc_value" /\ addr' = 8 /\ pc' = "reset"
      BY <1>6 DEF Boot!WriteWord, Boot!WriteOrder
    <2>2. /\ flash["size"] = blocks[1] /\ flash["dst"] = blocks[2] /\ flash["src"] = blocks[3]
          /\ flash["need_firmware_replace"] = DEF_FLAG /\ flash["block_num"] = 1
          /\ flash["crc_value"] = Blank
      BY <1>1, <1>6 DEF MetaHalfWritten
    <2>3. new = UpdateOf(header)
      BY <1>2, <2>1, <2>2 DEF Boot!Program, Boot!NewWord, Boot!InfoOf
    <2>4. \A x \in (Boot!InfoWords \cup {"need_firmware_replace", "block_num"}) : flash'[x] = flash[x]
      BY <1>4, <2>1 DEF Boot!InfoWords, Boot!Words, Boot!SettingsWords
    <2>5. Boot!InfoOf(flash') = UpdateOf(header)
      BY <1>2, <2>2, <2>4 DEF Boot!InfoOf, Boot!InfoWords
    <2>6. Pending' = UpdateOf(header')
      BY <1>1, <1>4, <2>1, <2>2, <2>3, <2>4, <2>5 DEF Pending, Boot!Pending
    <2>7. MetaTypes'
      BY <1>1, <1>4, <2>1, <2>4 DEF MetaTypes, Boot!Places
    <2>8. ReasonsOK'
      BY <1>1, <2>1 DEF UInv, ReasonsOK, Updating, Entering
    <2>9. QED
      BY <1>1, <2>1, <2>6, <2>7, <2>8 DEF UInv, SectorOK
  <1>7. QED
    BY <1>1, <1>5, <1>6

LEMMA WriteMetaFailsStep ==
  ASSUME UInv, Boot!WriteFails, UNCHANGED vars
  PROVE  UInv'
  <1> DEFINE w == Boot!WriteOrder[addr]
  <1>1. /\ UNCHANGED <<upgrade_state, header, timers, jump_boot_flag, blocks, addr>>
        /\ pc = "write" /\ pc' = "reset" /\ MetaTypes /\ NoCrc /\ addr \in 1 .. 8
        /\ w \in Boot!Words /\ "SWITCH_APP" \in timers
    BY VarsStay, OrderedWords
    DEF Boot!WriteFails, UInv, MetaTypes, SectorOK, ReasonsOK, Updating
  <1>2. PICK new \in {flash[w], Torn} : flash' = [flash EXCEPT ![w] = new]
    BY DEF Boot!WriteFails
  <1>3. /\ flash' = [x \in Boot!Words |-> flash'[x]]
        /\ flash'[w] = new /\ \A x \in Boot!Words \ {w} : flash'[x] = flash[x]
    BY <1>1, <1>2, OneWord
  <1>4. \A x \in Boot!InfoWords \cup {"crc_value"} : flash'[x] \in {flash[x], Blank, Torn}
    BY <1>2, <1>3 DEF Boot!Words, Boot!SettingsWords
  <1>5. MetaTypes' /\ NoCrc'
    BY <1>1, <1>3, <1>4, SpoiltSector DEF Boot!Places
  <1>6. ReasonsOK'
    BY <1>1 DEF UInv, ReasonsOK, Updating, Entering
  <1>7. QED
    BY <1>1, <1>5, <1>6 DEF UInv, SectorOK

LEMMA ProgramMetadataStep ==
  ASSUME UInv, ProgramMetadata
  PROVE  UInv'
  BY CheckSectorStep, WriteMetaWordStep, WriteMetaFailsStep DEF ProgramMetadata

-----------------------------------------------------------------------------
(***************************************************************************)
(* Entering the second boot.                                               *)
(***************************************************************************)
LEMMA JumpToBootStep ==
  ASSUME UInv, JumpToBoot
  PROVE  UInv'
  <1>1. /\ UNCHANGED <<upgrade_state, header, timers, flash, addr>>
        /\ pc = "run" /\ pc' = "erase flag"
    BY VarsStay DEF JumpToBoot, Boot!SetEnterSecondBoot
  <1>2. jump_boot_flag'
    BY VarsStay, Zenon DEF JumpToBoot
  <1>3. MetaTypes'
    BY <1>1 DEF UInv, MetaTypes, Boot!Places
  <1>4. ReasonsOK'
    BY <1>1, <1>2 DEF UInv, ReasonsOK, Updating, Entering
  <1>5. SectorOK'
    BY <1>1 DEF UInv, SectorOK, NoCrc, Crc
  <1>6. QED
    BY <1>3, <1>4, <1>5 DEF UInv

LEMMA ProgramFlagStep ==
  ASSUME UInv, ProgramFlag
  PROVE  UInv'
  <1>1. /\ UNCHANGED <<upgrade_state, header, timers, addr>>
        /\ pc = "erase flag" /\ pc' = "write flag" /\ flash' = Boot!Erased
        /\ MetaTypes /\ NoCrc /\ addr \in 1 .. 8
    BY VarsStay, EraseClears DEF ProgramFlag, Boot!EraseFlag, UInv, SectorOK, MetaTypes
  <1>2. jump_boot_flag'
    <2>1. jump_boot_flag
      BY <1>1 DEF UInv, ReasonsOK, Entering
    <2>2. QED
      BY <2>1, VarsStay, Zenon DEF ProgramFlag
  <1>3. MetaTypes' /\ NoCrc'
    <2>1. /\ flash' = [w \in Boot!Words |-> flash'[w]]
          /\ \A w \in Boot!InfoWords \cup {"crc_value"} : flash'[w] \in {flash[w], Blank, Torn}
      BY <1>1, BlankSector DEF Boot!Words, Boot!SettingsWords
    <2>2. QED
      BY <1>1, <2>1, SpoiltSector DEF Boot!Places
  <1>4. ReasonsOK'
    BY <1>1, <1>2 DEF UInv, ReasonsOK, Updating, Entering
  <1>5. QED
    BY <1>1, <1>3, <1>4 DEF UInv, SectorOK

\* The flag is written and a reset follows, or the jump is given up.
LEMMA FlagWrittenStep ==
  ASSUME FailingFlash, UInv, FlagWritten
  PROVE  UInv' /\ [Next]_vars
  <1>1. /\ pc = "write flag" /\ MetaTypes /\ NoCrc /\ addr' = addr /\ addr \in 1 .. 8
        /\ "SWITCH_APP" \in timers => upgrade_state = "FINAL"
        /\ UNCHANGED <<upgrade_state, header, timers>>
    BY VarsStay DEF FlagWritten, Boot!WriteFlag, UInv, SectorOK, MetaTypes, ReasonsOK, upgrade
  <1>2. jump_boot_flag
    BY <1>1 DEF UInv, ReasonsOK, Entering
  <1>3. PICK new : flash' = [flash EXCEPT !["enter_secondary_boot"] = new]
    <2>1. \/ flash' = [flash EXCEPT !["enter_secondary_boot"] =
                         Boot!Program(flash["enter_secondary_boot"], DEF_FLAG)]
          \/ flash' = [flash EXCEPT !["enter_secondary_boot"] = Torn]
      BY DEF FlagWritten, Boot!WriteFlag
    <2>2. QED
      BY <2>1
  <1>4. "enter_secondary_boot" \in Boot!Words
    BY DEF Boot!Words, Boot!SettingsWords
  <1>5. /\ flash' = [x \in Boot!Words |-> flash'[x]]
        /\ \A x \in Boot!Words \ {"enter_secondary_boot"} : flash'[x] = flash[x]
    BY <1>1, <1>3, <1>4, OneWord
  <1>6. \A x \in Boot!InfoWords \cup {"crc_value"} : flash'[x] \in {flash[x], Blank, Torn}
    BY <1>5 DEF Boot!Words, Boot!SettingsWords, Boot!InfoWords
  <1>7. CASE pc' = "reset" /\ UNCHANGED vars
    <2>1. MetaTypes' /\ NoCrc'
      BY <1>1, <1>5, <1>6, <1>7, SpoiltSector DEF Boot!Places
    <2>2. jump_boot_flag'
      BY <1>2, <1>7, VarsStay, Zenon
    <2>3. ReasonsOK'
      BY <1>1, <1>7, <2>2 DEF ReasonsOK, Updating, Entering
    <2>4. QED
      BY <1>7, <2>1, <2>3 DEF UInv, SectorOK
  <1>8. CASE /\ pc' = "run" /\ jump_boot_flag' = FALSE
             /\ UNCHANGED <<upgrade, payload_size, ack, storage, timers, installed>>
    <2>1. MetaTypes' /\ NoCrc'
      BY <1>1, <1>5, <1>6, <1>8, SpoiltSector DEF Boot!Places
    <2>2. ReasonsOK'
      BY <1>1, <1>8 DEF ReasonsOK, Updating, Entering
    <2>3. EnterSecondBoot
      BY <1>2, <1>8 DEF EnterSecondBoot, FailingFlash
    <2>4. QED
      BY <1>8, <2>1, <2>2, <2>3 DEF UInv, SectorOK, Next
  <1>9. QED
    BY <1>7, <1>8 DEF FlagWritten, Boot!WriteFlag

-----------------------------------------------------------------------------
(***************************************************************************)
(* Resets.                                                                 *)
(***************************************************************************)
\* The power fails: what was complete stays pending, the rest loses its CRC.
LEMMA UnpoweredStep ==
  ASSUME UInv, Unpowered
  PROVE  UInv'
  <1>1. /\ UNCHANGED <<upgrade_state, header, timers, jump_boot_flag, addr>>
        /\ pc' = "reset" /\ PowerFails /\ MetaTypes /\ addr \in 1 .. 8
    BY VarsStay DEF Unpowered, Boot!PowerLoss, UInv, MetaTypes
  <1>2. ReasonsOK'
    BY <1>1 DEF UInv, ReasonsOK, Updating, Entering
  <1>3. CASE UNCHANGED flash
    <2>1. MetaTypes'
      BY <1>1, <1>3 DEF MetaTypes, Boot!Places
    <2>2. SectorOK'
      BY <1>1, <1>3 DEF UInv, SectorOK, NoCrc, Crc, Pending
    <2>3. QED
      BY <1>2, <2>1, <2>2 DEF UInv
  <1>4. CASE flash' # flash
    <2>1. NoCrc
      <3>1. pc # "reset"
        BY <1>4 DEF Unpowered, Boot!PowerLoss
      <3>2. QED
        BY <3>1 DEF UInv, SectorOK
    <2>2. /\ flash' = [x \in Boot!Words |-> flash'[x]]
          /\ \A x \in Boot!InfoWords \cup {"crc_value"} : flash'[x] \in {flash[x], Blank, Torn}
      <3>1. CASE pc \in {"check settings", "check info", "erase flag"}
        <4>1. flash' = [w \in Boot!Words |-> Torn]
          <5>1. Boot!TornErase
            BY <1>4, <3>1 DEF Unpowered, Boot!PowerLoss
          <5>2. PICK garbled \in BOOLEAN :
                  flash' = [w \in Boot!Words |-> IF garbled THEN Torn ELSE flash[w]]
            BY <5>1 DEF Boot!TornErase
          <5>3. flash = [w \in Boot!Words |-> flash[w]]
            BY <1>1 DEF MetaTypes
          <5>4. garbled
            BY <1>4, <5>2, <5>3
          <5>5. QED
            BY <5>2, <5>4
        <4>2. QED
          BY <4>1, BlankSector DEF Boot!SettingsWords
      <3>2. CASE pc = "write"
        <4> DEFINE w == Boot!WriteOrder[addr]
        <4>1. w \in Boot!Words
          BY <1>1, OrderedWords
        <4>2. flash' = [flash EXCEPT ![w] = Torn]
          BY <1>4, <3>2 DEF Unpowered, Boot!PowerLoss
        <4> HIDE DEF w
        <4>3. QED
          BY <1>1, <4>1, <4>2, OneWord DEF Boot!Words, Boot!SettingsWords
      <3>3. CASE pc = "write flag"
        <4>1. flash' = [flash EXCEPT !["enter_secondary_boot"] = Torn]
          BY <1>4, <3>3 DEF Unpowered, Boot!PowerLoss
        <4>2. "enter_secondary_boot" \in Boot!Words
          BY DEF Boot!Words, Boot!SettingsWords
        <4>3. QED
          BY <1>1, <4>1, <4>2, OneWord DEF Boot!Words, Boot!SettingsWords
      <3>4. QED
        BY <1>4, <3>1, <3>2, <3>3 DEF Unpowered, Boot!PowerLoss
    <2>3. MetaTypes' /\ NoCrc'
      BY <1>1, <2>1, <2>2, SpoiltSector DEF Boot!Places
    <2>4. QED
      BY <1>1, <1>2, <2>3 DEF UInv, SectorOK
  <1>5. QED
    BY <1>3, <1>4

\* The second boot installs what is pending, which is what DoUpdateTimeout
\* installs; without an update the reset is one that IapApplication knows.
LEMMA RestartStep ==
  ASSUME FailingFlash, UInv, Restart
  PROVE  UInv' /\ Next
  <1>1. /\ pc = "reset" /\ pc' = "run" /\ Reset /\ addr' = 1 /\ MetaTypes
        /\ timers' = {} /\ header' = NoHeader
        /\ NoCrc \/ ("SWITCH_APP" \in timers /\ Pending = UpdateOf(header))
        /\ PowerFails \/ "SWITCH_APP" \in timers \/ jump_boot_flag
    BY DEF Restart, Reset, UInv, SectorOK, ReasonsOK
  <1>2. CASE Pending = NoUpdate
    <2>1. NoCrc
      BY <1>1, <1>2, UpdateIsInfo DEF MetaTypes
    <2>2. flash' \in {flash, Boot!Erased} /\ UNCHANGED installed
      BY <1>2 DEF Restart
    <2>3. MetaTypes' /\ NoCrc'
      BY <1>1, <2>1, <2>2, BlankSector
      DEF MetaTypes, NoCrc, Crc, Boot!Places, Boot!Words, Boot!SettingsWords
    <2>4. Next
      BY <1>1, <2>2 DEF Next, PowerLoss, Timeouts, DoUpdateTimeout, EnterSecondBoot, FailingFlash
    <2>5. QED
      BY <1>1, <2>3, <2>4 DEF UInv, ReasonsOK, SectorOK, Updating, Entering
  <1>3. CASE Pending # NoUpdate
    <2>1. "SWITCH_APP" \in timers /\ Pending = UpdateOf(header)
      BY <1>1, <1>3, NothingIsPending
    <2>2. /\ installed' = [i \in 0 .. Pending[1] - 1 |-> storage[i]]
          /\ flash' = Boot!Erased
      BY <1>3 DEF Restart, FailingFlash
    <2>3. Pending[1] = header.binSize
      BY <2>1 DEF UpdateOf
    <2>4. DoUpdateTimeout
      BY <1>1, <2>1, <2>2, <2>3 DEF DoUpdateTimeout
    <2>5. MetaTypes' /\ NoCrc'
      <3>1. \A w \in Boot!InfoWords \cup {"crc_value"} : flash'[w] = Blank
        BY <2>2, BlankSector DEF Boot!Words, Boot!SettingsWords
      <3>2. flash' = [w \in Boot!Words |-> flash'[w]]
        BY <2>2, BlankSector
      <3>3. NoCrc'
        BY <3>1 DEF NoCrc, Crc
      <3>4. QED
        BY <1>1, <3>1, <3>2, <3>3, BlankSector DEF MetaTypes, Boot!Places
    <2>6. QED
      BY <1>1, <2>4, <2>5 DEF UInv, ReasonsOK, SectorOK, Updating, Entering, Next, Timeouts
  <1>4. QED
    BY <1>2, <1>3

LEMMA UpdateStep ==
  ASSUME FailingFlash, UInv, [UpdateNext]_allVars
  PROVE  UInv' /\ [Next]_vars
  <1>1. CASE Command \/ JumpTimeout
    BY <1>1, CommandStep, JumpTimeoutStep
  <1>2. CASE DoUpdateCallback
    BY <1>2, DoUpdateCallbackStep DEF DoUpdateCallback
  <1>3. CASE ProgramMetadata
    BY <1>3, ProgramMetadataStep DEF ProgramMetadata
  <1>4. CASE JumpToBoot
    BY <1>4, JumpToBootStep DEF JumpToBoot
  <1>5. CASE ProgramFlag
    BY <1>5, ProgramFlagStep DEF ProgramFlag
  <1>6. CASE FlagWritten
    BY <1>6, FlagWrittenStep
  <1>7. CASE Unpowered
    BY <1>7, UnpoweredStep DEF Unpowered
  <1>8. CASE Restart
    BY <1>8, RestartStep
  <1>9. CASE UNCHANGED allVars
    <2>1. UNCHANGED vars /\ UNCHANGED <<flash, pc, addr, blocks, result>>
      BY <1>9 DEF allVars, bootVars
    <2>2. UNCHANGED <<upgrade_state, header, timers, jump_boot_flag>>
      BY <2>1, VarsStay
    <2>3. UInv'
      BY <2>1, <2>2
      DEF UInv, MetaTypes, ReasonsOK, SectorOK, Boot!SettingsBlank, MetaHalfWritten, NoCrc, Crc,
          Pending
    <2>4. QED
      BY <2>1, <2>3
  <1>10. QED
    BY <1>1, <1>2, <1>3, <1>4, <1>5, <1>6, <1>7, <1>8, <1>9 DEF UpdateNext

LEMMA InitUpdate == UpdateInit => UInv /\ Init
  <1> SUFFICES ASSUME UpdateInit PROVE UInv
    BY DEF UpdateInit
  <1>1. /\ flash = Boot!Erased /\ pc = "run" /\ addr = 1 /\ timers = {} /\ header = NoHeader
    BY DEF UpdateInit, Boot!Init, Init
  <1>2. MetaTypes /\ NoCrc
    BY <1>1, BlankSector
    DEF MetaTypes, NoCrc, Crc, Boot!Places, Boot!Words, Boot!SettingsWords
  <1>3. QED
    BY <1>1, <1>2 DEF UInv, ReasonsOK, SectorOK, Updating, Entering

\* With resets between any two words, an update is pending only between the
\* SWITCH_APP that asked for it and the reset that installs it, and it is the
\* one its header describes.
THEOREM PendingUpdateIsTheOneAskedFor ==
  ASSUME FailingFlash
  PROVE  UpdateSpec => []PendingIsTheUpdate
  <1>1. UInv => PendingIsTheUpdate
    BY NothingIsPending DEF UInv, SectorOK, ReasonsOK, PendingIsTheUpdate, Entering
  <1>2. UInv /\ [UpdateNext]_allVars => UInv'
    BY UpdateStep
  <1>3. QED
    BY <1>1, <1>2, InitUpdate, PTL DEF UpdateSpec

\* The update that is programmed word after word, with power failures and
\* failed writes anywhere, does what IapApplication does in one step.
THEOREM UpdateImplementsApplication ==
  ASSUME FailingFlash
  PROVE  UpdateSpec => ImplementsApplication
  <1>1. UInv /\ [UpdateNext]_allVars => UInv' /\ [Next]_vars
    BY UpdateStep
  <1>2. QED
    BY <1>1, InitUpdate, PTL DEF UpdateSpec, ImplementsApplication, Spec

\* So what is proved of the application holds of the device with its second
\* boot: all that is ever installed, through any number of power failures, is
\* a whole image, unchanged since it was verified.
THEOREM UpdateInstallsVerifiedOnly ==
  ASSUME FailingFlash, HonestHost
  PROVE  UpdateSpec => InstallsVerifiedOnly
  <1>1. UpdateSpec => Spec
    BY UpdateImplementsApplication DEF ImplementsApplication
  <1>2. QED
    BY <1>1, OnlyVerifiedIsInstalled, PTL
=============================================================================
