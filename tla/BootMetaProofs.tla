--------------------------- MODULE BootMetaProofs ---------------------------
(***************************************************************************)
(* Proofs about BootMeta, for every set of updates and whatever words they *)
(* are made of: an update is pending whole or not at all, whenever the     *)
(* power fails, and also where erases fail, but for the words an erase of  *)
(* the running call left behind.                                           *)
(***************************************************************************)
EXTENDS BootMeta, TLAPS

\* The first word not yet programmed is addr: those before it hold the new
\* values, the others are blank. The two flags that are copied do not matter.
HalfWritten ==
  /\ flash["size"] = IF addr > 1 THEN blocks[1] ELSE Blank
  /\ flash["dst"]  = IF addr > 2 THEN blocks[2] ELSE Blank
  /\ flash["src"]  = IF addr > 3 THEN blocks[3] ELSE Blank
  /\ flash["need_firmware_replace"] = IF addr > 6 THEN DEF_FLAG ELSE Blank
  /\ flash["block_num"] = IF addr > 7 THEN 1 ELSE Blank
  /\ flash["crc_value"] = Blank

\* The words of the block info that come before addr are programmed.
Started ==
  /\ addr > 1 => flash["size"] # Blank
  /\ addr > 2 => flash["dst"] # Blank
  /\ addr > 3 => flash["src"] # Blank

\* The block infos without an erased word.
Whole == {i \in Infos : Blank \notin {i[1], i[2], i[3]}}

\* A CRC in the flash was computed over words that were all programmed, so an
\* erase that stops half way cannot turn what is left into another update.
FlashOK ==
  /\ flash = [w \in Words |-> flash[w]]
  /\ \A w \in {"enter_secondary_boot", "entered_secondary_boot", "need_firmware_replace"} :
       flash[w] \in {Blank, Garbage, DEF_FLAG}
  /\ flash["block_num"] \in {Blank, Garbage, 1}
  /\ \A w \in InfoWords : flash[w] \in InfoValues
  /\ flash["crc_value"] \in {Blank, Garbage} \cup Whole

ControlOK ==
  /\ pc \in Places /\ addr \in 1 .. 8
  /\ blocks \in Updates \cup {None}
  /\ result \in {"none", "ok", "failed", "entering"}
  /\ leftovers \in BOOLEAN /\ (leftovers => EraseFails)
  /\ pc \in {"check settings", "check info", "write"} => blocks \in Updates
  /\ result \in {"ok", "entering"} => pc = "reset"

\* What the firmware knows of the sector at each place.
PlaceOK ==
  /\ pc = "check info" => leftovers \/ SettingsBlank
  /\ pc = "write" => Started /\ (leftovers \/ HalfWritten)
  /\ pc = "write flag" => leftovers \/ flash = Erased

IInv == FlashOK /\ ControlOK /\ PlaceOK /\ SuccessIsPending /\ EnteringDropsUpdate

-----------------------------------------------------------------------------
(***************************************************************************)
(* The helpers.                                                            *)
(***************************************************************************)
\* An update is a block info of words that are neither blank nor garbage.
LEMMA UpdateWords ==
  ASSUME NEW u \in Updates
  PROVE  /\ u = <<u[1], u[2], u[3]>> /\ u \in Infos
         /\ {u[1], u[2], u[3]} \subseteq InfoValues
         /\ {u[1], u[2], u[3]} \cap {Blank, Garbage} = {}
         /\ u # Blank /\ u # Garbage /\ u # None
         /\ u \in Whole
  <1>1. u = <<u[1], u[2], u[3]>> /\ {u[1], u[2], u[3]} \cap {Blank, Garbage} = {}
    BY UpdateAssumption
  <1>2. {u[1], u[2], u[3]} \subseteq InfoValues
    BY DEF InfoValues
  <1>3. u \in Infos
    BY <1>1, <1>2 DEF Infos
  <1>4. u \in Whole
    BY <1>1, <1>3 DEF Whole
  <1>5. QED
    BY <1>1, <1>2, <1>3, <1>4, WordAssumption

\* The block info in the flash is never mistaken for an erased word.
LEMMA InfoOfFlash ==
  ASSUME FlashOK
  PROVE  /\ InfoOf(flash) \in Infos /\ InfoOf(flash) # Blank /\ InfoOf(flash) # Garbage
         /\ Pending(flash) \in Infos \cup {None}
  <1>1. InfoOf(flash) \in Infos
    BY DEF FlashOK, InfoOf, Infos, InfoWords
  <1>2. QED
    BY <1>1, WordAssumption DEF Pending

\* Nothing is pending in a sector whose CRC or flag is missing.
LEMMA NothingPending ==
  ASSUME FlashOK,
         \/ flash["crc_value"] \in {Blank, Garbage}
         \/ flash["need_firmware_replace"] # DEF_FLAG
  PROVE  Pending(flash) = None
  BY InfoOfFlash DEF Pending

LEMMA ErasedSector ==
  /\ \A w \in Words : Erased[w] = Blank
  /\ Pending(Erased) = None
  /\ flash' = Erased => FlashOK'
  <1>1. \A w \in Words : Erased[w] = Blank
    BY DEF Erased
  <1>2. Pending(Erased) = None
    BY <1>1, WordAssumption DEF Pending, Words, SettingsWords
  <1>3. flash' = Erased => FlashOK'
    BY <1>1 DEF FlashOK, Erased, Words, SettingsWords, InfoWords, InfoValues
  <1>4. QED
    BY <1>1, <1>2, <1>3

\* An erase that stops half way leaves what was pending, or nothing.
LEMMA TornEraseStep ==
  ASSUME FlashOK, TornErase
  PROVE  FlashOK' /\ Pending(flash)' \in {Pending(flash), None}
  <1>1. PICK done \in Stops, garbled \in BOOLEAN :
          flash' = [w \in Words |-> IF w \in done THEN Blank
                                    ELSE IF garbled THEN Garbage ELSE flash[w]]
    BY DEF TornErase
  <1>2. \A w \in Words : flash'[w] \in {Blank, Garbage, flash[w]}
    BY <1>1
  <1>3. flash' = [w \in Words |-> flash'[w]]
    BY <1>1
  <1>4. FlashOK'
    BY <1>2, <1>3 DEF FlashOK, Words, SettingsWords, InfoWords, InfoValues
  <1>5. CASE /\ flash'["need_firmware_replace"] = DEF_FLAG
             /\ flash'["block_num"] = 1
             /\ flash'["crc_value"] = InfoOf(flash')
    <2>1. ~garbled /\ "need_firmware_replace" \notin done
      BY <1>1, <1>5, WordAssumption DEF Words, SettingsWords
    <2>2. \A w \in Words : flash'[w] \in {Blank, flash[w]}
      BY <1>1, <2>1
    <2>3. flash'["crc_value"] \in Whole
      BY <1>4, <1>5, WordAssumption DEF FlashOK, InfoOf, Infos, InfoWords
    <2>4. \A w \in InfoWords : flash'[w] # Blank
      BY <2>3, <1>5 DEF Whole, InfoOf, InfoWords
    <2>5. InfoOf(flash') = InfoOf(flash)
      BY <2>2, <2>4 DEF InfoOf, InfoWords, Words
    <2>6. /\ flash["need_firmware_replace"] = DEF_FLAG /\ flash["block_num"] = 1
          /\ flash["crc_value"] = flash'["crc_value"]
      BY <1>5, <2>2, <2>3, WordAssumption DEF Whole, Words, SettingsWords
    <2>7. QED
      BY <1>4, <1>5, <2>5, <2>6 DEF Pending
  <1>6. QED
    BY <1>4, <1>5 DEF Pending

\* erase_flash_sector clears the sector, or fails, leaving what was pending or
\* nothing.
LEMMA EraseStep ==
  ASSUME FlashOK, EraseSector
  PROVE  /\ FlashOK' /\ Pending(flash)' \in {Pending(flash), None}
         /\ leftovers' \in BOOLEAN /\ (leftovers' => EraseFails)
         /\ leftovers' \/ flash' = Erased
  <1>1. leftovers' = (flash' # Erased)
    BY DEF EraseSector
  <1>2. CASE flash' = Erased
    BY <1>1, <1>2, ErasedSector
  <1>3. CASE flash' # Erased
    <2>1. EraseFails /\ TornErase
      BY <1>3 DEF EraseSector
    <2>2. QED
      BY <1>1, <1>3, <2>1, TornEraseStep
  <1>4. QED
    BY <1>2, <1>3

\* Programming one of the two flags the boot reads for itself disturbs nothing.
LEMMA FlagStep ==
  ASSUME FlashOK, NEW w \in {"enter_secondary_boot", "entered_secondary_boot"},
         NEW new \in {Blank, Garbage, DEF_FLAG}, flash' = [flash EXCEPT ![w] = new]
  PROVE  FlashOK' /\ Pending(flash)' = Pending(flash)
  <1>1. \A x \in Words \ {w} : flash'[x] = flash[x]
    BY DEF FlashOK
  <1>2. flash' = [x \in Words |-> flash'[x]] /\ flash'[w] = new
    BY DEF FlashOK, Words, SettingsWords
  <1>3. FlashOK'
    BY <1>1, <1>2 DEF FlashOK, Words, SettingsWords, InfoWords
  <1>4. QED
    BY <1>1, <1>3 DEF Pending, InfoOf, Words, SettingsWords, InfoWords

\* A word that is spoilt keeps the sector well formed.
LEMMA SpoilStep ==
  ASSUME FlashOK, NEW w \in Words, NEW new \in {flash[w], Garbage},
         flash' = [flash EXCEPT ![w] = new]
  PROVE  FlashOK'
  <1>1. \A x \in Words : flash'[x] \in {flash[x], Garbage}
    BY DEF FlashOK
  <1>2. flash' = [x \in Words |-> flash'[x]]
    BY DEF FlashOK
  <1>3. QED
    BY <1>1, <1>2 DEF FlashOK, Words, SettingsWords, InfoWords, InfoValues

LEMMA WriteOrderWords ==
  ASSUME NEW a \in 1 .. 8
  PROVE  WriteOrder[a] \in Words
  BY DEF WriteOrder, Words, SettingsWords, InfoWords

-----------------------------------------------------------------------------
(***************************************************************************)
(* The steps.                                                              *)
(***************************************************************************)
\* An invariant step that also is a step of AtomicUpdate, or a stutter.
Good == IInv' /\ [Atomic!Next]_(Atomic!vars)

LEMMA DropStep ==
  ASSUME IInv', UNCHANGED blocks,
         Pending(flash)' \in {Pending(flash), None}
  PROVE  Good
  BY DEF Good, IInv, ControlOK, Atomic!Next, Atomic!Erase

\* What is written over the words an erase left behind may be anything.
LEMMA MixStep ==
  ASSUME IInv', UNCHANGED <<blocks, leftovers>>, leftovers
  PROVE  Good
  <1>1. Pending(flash)' \in Infos \cup {None}
    <2>1. FlashOK'
      BY DEF IInv
    <2>2. InfoOf(flash') \in Infos
      BY <2>1 DEF FlashOK, InfoOf, Infos, InfoWords
    <2>3. QED
      BY <2>2 DEF Pending
  <1>2. CASE Pending(flash)' = None
    BY <1>2, DropStep
  <1>3. CASE Pending(flash)' \in Infos
    BY <1>3 DEF Good, Atomic!Next, Atomic!Mix
  <1>4. QED
    BY <1>1, <1>2, <1>3

LEMMA ProgramFotaMetadataGood ==
  ASSUME IInv, NEW u \in Updates, ProgramFotaMetadata(u)
  PROVE  Good
  <1>1. IInv'
    BY DEF ProgramFotaMetadata, IInv, FlashOK, ControlOK, PlaceOK, SuccessIsPending,
           EnteringDropsUpdate, Places
  <1>2. QED
    BY <1>1 DEF ProgramFotaMetadata, Good, Atomic!Next, Atomic!Ask

LEMMA CheckSettingsGood ==
  ASSUME IInv, CheckSettings
  PROVE  Good
  <1>1. /\ FlashOK' /\ Pending(flash)' \in {Pending(flash), None}
        /\ leftovers' \in BOOLEAN /\ (leftovers' => EraseFails)
        /\ leftovers' \/ SettingsBlank'
    <2>1. CASE UNCHANGED <<flash, leftovers>> /\ SettingsBlank
      BY <2>1 DEF IInv, ControlOK, FlashOK, SettingsBlank
    <2>2. CASE EraseSector
      <3>1. flash' = Erased => SettingsBlank'
        BY ErasedSector DEF SettingsBlank, Words, SettingsWords
      <3>2. QED
        BY <2>2, <3>1, EraseStep DEF IInv
    <2>3. QED
      BY <2>1, <2>2 DEF CheckSettings
  <1>2. ControlOK' /\ PlaceOK' /\ result' \notin {"ok", "entering"}
    BY <1>1 DEF CheckSettings, IInv, ControlOK, PlaceOK, Places
  <1>3. IInv' /\ UNCHANGED blocks
    BY <1>1, <1>2 DEF CheckSettings, IInv, SuccessIsPending, EnteringDropsUpdate
  <1>4. QED
    BY <1>1, <1>3, DropStep

LEMMA CheckInfoGood ==
  ASSUME IInv, CheckInfo
  PROVE  Good
  <1> pc' = "write" /\ addr' = 1 /\ blocks' = blocks /\ result' = result
    BY DEF CheckInfo
  <1>1. /\ FlashOK' /\ Pending(flash)' \in {Pending(flash), None}
        /\ leftovers' \in BOOLEAN /\ (leftovers' => EraseFails)
        /\ leftovers' \/ (SettingsBlank' /\ InfoBlank')
    <2>1. CASE UNCHANGED <<flash, leftovers>> /\ InfoBlank
      <3>1. leftovers \/ SettingsBlank
        BY Zenon DEF CheckInfo, IInv, PlaceOK
      <3>2. QED
        BY <2>1, <3>1 DEF IInv, ControlOK, FlashOK, SettingsBlank, InfoBlank
    <2>2. CASE EraseSector
      <3>1. flash' = Erased => SettingsBlank' /\ InfoBlank'
        BY ErasedSector DEF SettingsBlank, InfoBlank, Words, SettingsWords, InfoWords
      <3>2. QED
        BY <2>2, <3>1, EraseStep DEF IInv
    <2>3. QED
      BY <2>1, <2>2 DEF CheckInfo
  <1>2. Started' /\ (leftovers' \/ HalfWritten')
    <2>1. ~(addr' > 1) /\ ~(addr' > 2) /\ ~(addr' > 3) /\ ~(addr' > 6) /\ ~(addr' > 7)
      OBVIOUS
    <2>2. QED
      BY <1>1, <2>1, Zenon DEF Started, HalfWritten, SettingsBlank, InfoBlank, InfoWords
  <1>3. ControlOK' /\ PlaceOK' /\ result' \notin {"ok", "entering"}
    <2>1. ControlOK' /\ result' \notin {"ok", "entering"}
      <3>1. pc = "check info"
        BY Zenon DEF CheckInfo
      <3>2. ControlOK
        BY Zenon DEF IInv
      <3>3. addr' \in 1 .. 8
        OBVIOUS
      <3>4. QED
        BY <1>1, <3>1, <3>2, <3>3, Zenon DEF ControlOK, Places
    <2>2. PlaceOK'
      BY <1>2 DEF PlaceOK
    <2>3. QED
      BY <2>1, <2>2
  <1>4. IInv' /\ UNCHANGED blocks
    BY <1>1, <1>3 DEF IInv, SuccessIsPending, EnteringDropsUpdate
  <1>5. QED
    BY <1>1, <1>4, DropStep

\* The word at addr is blank, or one of the two flags, which are rewritten
\* with what they hold; afterwards the sector is written up to addr.
LEMMA WriteBlankGood ==
  ASSUME IInv, WriteWord, ~leftovers
  PROVE  Good
  <1> DEFINE w == WriteOrder[addr]
  <1>1. /\ FlashOK /\ ControlOK /\ HalfWritten /\ pc = "write" /\ blocks \in Updates
        /\ addr \in 1 .. 8 /\ blocks' = blocks /\ w \in Words
        /\ result \notin {"ok", "entering"} /\ leftovers' = leftovers
    BY WriteOrderWords DEF WriteWord, IInv, ControlOK, PlaceOK
  <1>2. flash' = [flash EXCEPT ![w] = NewWord(w)]
    <2>1. CASE addr \in {4, 5}
      <3>1. w \in {"enter_secondary_boot", "entered_secondary_boot"}
        BY <2>1 DEF WriteOrder
      <3>2. Program(flash[w], NewWord(w)) = NewWord(w)
        BY <3>1 DEF Program, NewWord
      <3>3. QED
        BY <3>2 DEF WriteWord
    <2>2. CASE addr \in {1, 2, 3}
      BY <2>2, <1>1 DEF WriteWord, WriteOrder, Program, NewWord, HalfWritten
    <2>3. CASE addr \in {6, 7, 8}
      BY <2>3, <1>1 DEF WriteWord, WriteOrder, Program, NewWord, HalfWritten
    <2>4. QED
      BY <1>1, <2>1, <2>2, <2>3
  <1>3. /\ flash' = [x \in Words |-> flash'[x]] /\ flash'[w] = NewWord(w)
        /\ \A x \in Words : x # w => flash'[x] = flash[x]
    BY <1>1, <1>2 DEF FlashOK
  <1>4. Pending(flash) = None
    BY <1>1, NothingPending DEF HalfWritten
  <1>5. CASE addr < 8
    <2>1. pc' = "write" /\ addr' = addr + 1 /\ addr + 1 \in 1 .. 8 /\ result' = result
      BY <1>1, <1>5 DEF WriteWord
    <2>2. FlashOK' /\ HalfWritten'
      <3>1. CASE addr \in {1, 2, 3}
        BY <3>1, <1>1, <1>3, <2>1, UpdateWords
        DEF FlashOK, HalfWritten, WriteOrder, NewWord, Words, InfoWords, SettingsWords
      <3>2. CASE addr \in {4, 5}
        BY <3>2, <1>1, <1>3, <2>1
        DEF FlashOK, HalfWritten, WriteOrder, NewWord, Words, InfoWords, SettingsWords
      <3>3. CASE addr \in {6, 7}
        BY <3>3, <1>1, <1>3, <2>1
        DEF FlashOK, HalfWritten, WriteOrder, NewWord, Words, InfoWords, SettingsWords
      <3>4. QED
        BY <1>1, <1>5, <3>1, <3>2, <3>3
    <2>3. ControlOK' /\ PlaceOK'
      <3>1. Started'
        BY <1>1, <2>1, <2>2, UpdateWords DEF HalfWritten, Started
      <3>2. QED
        BY <1>1, <2>1, <2>2, <3>1 DEF ControlOK, PlaceOK
    <2>4. SuccessIsPending' /\ EnteringDropsUpdate'
      BY <1>1, <2>1 DEF SuccessIsPending, EnteringDropsUpdate
    <2>5. Pending(flash)' = None
      BY <2>2, NothingPending, WordAssumption DEF Pending, InfoOf, HalfWritten, FlashOK, Infos, InfoWords
    <2>6. QED
      BY <2>2, <2>3, <2>4, <2>5, <1>1, <1>4, DropStep DEF IInv
  <1>6. CASE addr = 8
    <2>1. w = "crc_value" /\ pc' = "reset" /\ addr' = addr /\ result' = "ok"
      BY <1>1, <1>6 DEF WriteWord, WriteOrder
    <2>2. InfoOf(flash) = blocks
      BY <1>1, <1>6, UpdateWords DEF HalfWritten, InfoOf
    <2>3. FlashOK' /\ InfoOf(flash') = blocks /\ flash'["crc_value"] = blocks
          /\ flash'["need_firmware_replace"] = DEF_FLAG /\ flash'["block_num"] = 1
      <3>1. blocks \in Whole
        BY <1>1, UpdateWords
      <3>2. flash'["crc_value"] = blocks
        BY <1>3, <2>1, <2>2 DEF NewWord
      <3>3. \A x \in Words : x # "crc_value" => flash'[x] = flash[x]
        BY <1>3, <2>1
      <3>4. FlashOK'
        BY <1>1, <1>3, <3>1, <3>2, <3>3 DEF FlashOK, Words, InfoWords, SettingsWords
      <3>5. QED
        BY <1>1, <1>6, <2>2, <3>2, <3>3, <3>4
        DEF HalfWritten, InfoOf, Words, InfoWords, SettingsWords
    <2>4. Pending(flash)' = blocks
      BY <2>3 DEF Pending, InfoOf
    <2>5. ControlOK' /\ PlaceOK'
      BY <1>1, <2>1 DEF ControlOK, PlaceOK, Places
    <2>6. IInv'
      BY <1>1, <2>1, <2>3, <2>4, <2>5 DEF IInv, SuccessIsPending, EnteringDropsUpdate
    <2>7. QED
      BY <1>1, <2>4, <2>6 DEF Good, Atomic!Next, Atomic!Commit
  <1>7. QED
    BY <1>1, <1>5, <1>6

\* Over the words an erase left behind, the new ones become garbage or take
\* their place, and none is blank any more.
LEMMA WriteOverGood ==
  ASSUME IInv, WriteWord, leftovers
  PROVE  Good
  <1> DEFINE w == WriteOrder[addr]
  <1>1. /\ FlashOK /\ ControlOK /\ Started /\ pc = "write" /\ blocks \in Updates
        /\ addr \in 1 .. 8 /\ blocks' = blocks /\ w \in Words
        /\ result \notin {"ok", "entering"} /\ leftovers' = leftovers
    BY WriteOrderWords DEF WriteWord, IInv, ControlOK, PlaceOK
  <1>2. /\ flash' = [x \in Words |-> flash'[x]] /\ flash'[w] \in {NewWord(w), Garbage}
        /\ \A x \in Words : x # w => flash'[x] = flash[x]
    BY <1>1 DEF WriteWord, Program, FlashOK
  <1>3. FlashOK'
    <2>1. CASE addr \in {1, 2, 3}
      <3>1. w \in InfoWords /\ NewWord(w) \in InfoValues
        BY <2>1, <1>1, UpdateWords DEF WriteOrder, NewWord, InfoWords
      <3>2. QED
        BY <1>1, <1>2, <3>1 DEF FlashOK, InfoValues, InfoWords, Words, SettingsWords
    <2>2. CASE addr \in {4, 5, 6, 7}
      BY <2>2, <1>1, <1>2 DEF FlashOK, WriteOrder, NewWord, InfoWords, Words, SettingsWords
    <2>3. CASE addr = 8
      <3>1. InfoOf(flash) \in Whole
        BY <2>3, <1>1, InfoOfFlash DEF Whole, Started, InfoOf
      <3>2. w = "crc_value" /\ NewWord(w) = InfoOf(flash)
        BY <2>3 DEF WriteOrder, NewWord
      <3>3. QED
        BY <1>1, <1>2, <3>1, <3>2 DEF FlashOK, InfoWords, Words, SettingsWords
    <2>4. QED
      BY <1>1, <2>1, <2>2, <2>3
  <1>4. ControlOK' /\ PlaceOK'
    <2>1. CASE addr < 8
      <3>1. pc' = "write" /\ addr' = addr + 1 /\ addr + 1 \in 1 .. 8 /\ result' = result
        BY <1>1, <2>1 DEF WriteWord
      <3>2. Started'
        <4>1. addr \in {1, 2, 3} => flash'[w] # Blank
          <5>1. Blank \notin {blocks[1], blocks[2], blocks[3]} /\ Blank # Garbage
            BY <1>1, UpdateWords, WordAssumption
          <5>2. addr \in {1, 2, 3} => NewWord(w) \in {blocks[1], blocks[2], blocks[3]}
            BY DEF WriteOrder, NewWord
          <5>3. QED
            BY <1>2, <5>1, <5>2
        <4>2. QED
          BY <1>1, <1>2, <3>1, <4>1 DEF Started, WriteOrder, Words, InfoWords
      <3>3. QED
        BY <1>1, <3>1, <3>2 DEF ControlOK, PlaceOK
    <2>2. CASE addr = 8
      BY <1>1, <2>2 DEF WriteWord, ControlOK, PlaceOK, Places
    <2>3. QED
      BY <1>1, <2>1, <2>2
  <1>5. SuccessIsPending' /\ EnteringDropsUpdate'
    BY <1>1 DEF SuccessIsPending, EnteringDropsUpdate
  <1>6. IInv'
    BY <1>3, <1>4, <1>5 DEF IInv
  <1>7. QED
    BY <1>1, <1>6, MixStep

LEMMA WriteWordGood ==
  ASSUME IInv, WriteWord
  PROVE  Good
  BY WriteBlankGood, WriteOverGood

\* A word that is spoilt while the metadata is written.
LEMMA SpoilGood ==
  ASSUME IInv, pc = "write", pc' = "reset", result' \in {"none", "failed"},
         UNCHANGED <<addr, blocks, leftovers>>,
         NEW new \in {flash[WriteOrder[addr]], Garbage},
         flash' = [flash EXCEPT ![WriteOrder[addr]] = new]
  PROVE  Good
  <1>1. /\ FlashOK /\ ControlOK /\ addr \in 1 .. 8 /\ WriteOrder[addr] \in Words
        /\ leftovers \/ HalfWritten
    BY WriteOrderWords DEF IInv, ControlOK, PlaceOK
  <1>2. FlashOK'
    BY <1>1, SpoilStep
  <1>3. IInv'
    <2>1. ControlOK' /\ PlaceOK'
      BY <1>1 DEF ControlOK, PlaceOK, Places
    <2>2. QED
      BY <1>2, <2>1 DEF IInv, SuccessIsPending, EnteringDropsUpdate
  <1>4. CASE leftovers
    BY <1>3, <1>4, MixStep
  <1>5. CASE HalfWritten
    <2>1. flash["crc_value"] = Blank
      BY <1>5 DEF HalfWritten
    <2>2. flash'["crc_value"] \in {flash["crc_value"], Garbage}
      BY <1>1 DEF FlashOK, Words, SettingsWords
    <2>3. Pending(flash)' = None
      BY <1>2, <2>1, <2>2, WordAssumption DEF Pending, InfoOf, FlashOK, Infos, InfoWords
    <2>4. QED
      BY <1>3, <2>3, DropStep
  <1>6. QED
    BY <1>1, <1>4, <1>5

LEMMA WriteFailsGood ==
  ASSUME IInv, WriteFails
  PROVE  Good
  BY SpoilGood DEF WriteFails

LEMMA SetEnterSecondBootGood ==
  ASSUME IInv, SetEnterSecondBoot
  PROVE  Good
  <1>1. IInv'
    BY DEF SetEnterSecondBoot, IInv, FlashOK, ControlOK, PlaceOK, SuccessIsPending,
           EnteringDropsUpdate, Places
  <1>2. QED
    BY <1>1, DropStep DEF SetEnterSecondBoot

LEMMA EraseFlagGood ==
  ASSUME IInv, EraseFlag
  PROVE  Good
  <1>1. /\ FlashOK' /\ Pending(flash)' \in {Pending(flash), None}
        /\ leftovers' \in BOOLEAN /\ (leftovers' => EraseFails)
        /\ leftovers' \/ flash' = Erased
    BY EraseStep DEF EraseFlag, IInv
  <1>2. IInv' /\ UNCHANGED blocks
    BY <1>1 DEF EraseFlag, IInv, ControlOK, PlaceOK, SuccessIsPending, EnteringDropsUpdate, Places
  <1>3. QED
    BY <1>1, <1>2, DropStep

LEMMA WriteFlagGood ==
  ASSUME IInv, WriteFlag
  PROVE  Good
  <1>1. /\ FlashOK /\ ControlOK /\ (leftovers \/ flash = Erased)
        /\ UNCHANGED <<addr, blocks, leftovers>>
    BY DEF WriteFlag, IInv, PlaceOK
  <1>2. PICK new \in {Garbage, DEF_FLAG} :
          /\ flash' = [flash EXCEPT !["enter_secondary_boot"] = new]
          /\ \/ pc' = "reset" /\ result' = "entering"
                /\ new = Program(flash["enter_secondary_boot"], DEF_FLAG)
             \/ pc' = "run" /\ result' = "failed"
    <2>1. Program(flash["enter_secondary_boot"], DEF_FLAG) \in {Garbage, DEF_FLAG}
      BY DEF Program
    <2>2. QED
      BY <2>1 DEF WriteFlag
  <1>3. FlashOK' /\ Pending(flash)' = Pending(flash)
    BY <1>1, <1>2, FlagStep
  <1>4. ControlOK' /\ PlaceOK'
    BY <1>1, <1>2 DEF ControlOK, PlaceOK, Places
  <1>5. result' = "entering" /\ ~leftovers' =>
          flash'["enter_secondary_boot"] = DEF_FLAG /\ Pending(flash)' = None
    <2> SUFFICES ASSUME result' = "entering", ~leftovers'
                 PROVE  flash'["enter_secondary_boot"] = DEF_FLAG /\ Pending(flash)' = None
      OBVIOUS
    <2>1. flash = Erased
      BY <1>1
    <2>2. new = DEF_FLAG
      BY <1>2, <2>1, ErasedSector DEF Program, Words, SettingsWords
    <2>3. flash'["enter_secondary_boot"] = DEF_FLAG
      BY <1>1, <1>2, <2>2 DEF FlashOK, Words, SettingsWords
    <2>4. QED
      BY <1>3, <2>1, <2>3, ErasedSector
  <1>6. IInv'
    BY <1>2, <1>3, <1>4, <1>5 DEF IInv, SuccessIsPending, EnteringDropsUpdate
  <1>7. QED
    BY <1>1, <1>3, <1>6, DropStep

LEMMA SecondBootGood ==
  ASSUME IInv, SecondBoot
  PROVE  Good
  <1> FlashOK /\ ControlOK
    BY DEF IInv
  <1>1. FlashOK' /\ Pending(flash)' \in {Pending(flash), None}
    <2>1. CASE UNCHANGED flash
      BY <2>1 DEF FlashOK
    <2>2. CASE flash' = Erased
      BY <2>2, ErasedSector
    <2>3. CASE flash' = [flash EXCEPT !["entered_secondary_boot"] = Program(@, DEF_FLAG)]
      <3>1. Program(flash["entered_secondary_boot"], DEF_FLAG) \in {Garbage, DEF_FLAG}
        BY DEF Program
      <3>2. QED
        BY <2>3, <3>1, FlagStep
    <2>4. QED
      BY <2>1, <2>2, <2>3 DEF SecondBoot
  <1>2. IInv' /\ UNCHANGED blocks
    BY <1>1 DEF SecondBoot, IInv, ControlOK, PlaceOK, SuccessIsPending, EnteringDropsUpdate, Places
  <1>3. QED
    BY <1>1, <1>2, DropStep

\* The power fails: between two steps, in an erase, or in the middle of a word.
LEMMA PowerLossGood ==
  ASSUME IInv, PowerLoss
  PROVE  Good
  <1> FlashOK /\ ControlOK /\ pc' = "reset" /\ result' = "none"
      /\ UNCHANGED <<addr, blocks, leftovers>>
    BY DEF IInv, PowerLoss
  <1>1. CASE pc = "write" /\ flash' = [flash EXCEPT ![WriteOrder[addr]] = Garbage]
    BY <1>1, SpoilGood
  <1>2. ASSUME FlashOK', Pending(flash)' \in {Pending(flash), None}
        PROVE  Good
    <2>1. IInv'
      BY <1>2 DEF IInv, ControlOK, PlaceOK, SuccessIsPending, EnteringDropsUpdate, Places
    <2>2. QED
      BY <1>2, <2>1, DropStep
  <1>3. CASE UNCHANGED flash
    BY <1>2, <1>3 DEF FlashOK
  <1>4. CASE TornErase
    BY <1>2, <1>4, TornEraseStep
  <1>5. CASE flash' = [flash EXCEPT !["enter_secondary_boot"] = Garbage]
    BY <1>2, <1>5, FlagStep
  <1>6. QED
    BY <1>1, <1>3, <1>4, <1>5 DEF PowerLoss

LEMMA NextGood ==
  ASSUME IInv, [Next]_vars
  PROVE  Good
  <1>1. CASE UNCHANGED vars
    <2>1. IInv'
      BY <1>1 DEF vars, IInv, FlashOK, ControlOK, PlaceOK, HalfWritten, Started, SettingsBlank,
                  SuccessIsPending, EnteringDropsUpdate, Pending, InfoOf
    <2>2. QED
      BY <1>1, <2>1, DropStep DEF vars
  <1>2. CASE Next
    BY <1>2, ProgramFotaMetadataGood, CheckSettingsGood, CheckInfoGood, WriteWordGood,
       WriteFailsGood, SetEnterSecondBootGood, EraseFlagGood, WriteFlagGood, SecondBootGood,
       PowerLossGood DEF Next
  <1>3. QED
    BY <1>1, <1>2

LEMMA InitGood == Init => IInv /\ Atomic!Init
  <1> SUFFICES ASSUME Init PROVE IInv /\ Atomic!Init
    OBVIOUS
  <1>1. FlashOK /\ Pending(flash) = None
    BY ErasedSector DEF Init, FlashOK, Erased, Words, SettingsWords, InfoWords, InfoValues
  <1>2. ControlOK
    <2>1. addr \in 1 .. 8
      BY DEF Init
    <2>2. QED
      BY <2>1, Zenon DEF Init, ControlOK, Places
  <1>3. PlaceOK
    BY DEF Init, PlaceOK
  <1>4. SuccessIsPending /\ EnteringDropsUpdate /\ ~leftovers /\ blocks = None
    BY DEF Init, SuccessIsPending, EnteringDropsUpdate
  <1>5. QED
    BY <1>1, <1>2, <1>3, <1>4, Zenon DEF IInv, Atomic!Init

-----------------------------------------------------------------------------
(***************************************************************************)
(* The theorems.                                                           *)
(***************************************************************************)
\* The strengthening holds in every reachable state.
THEOREM InductiveInvariant == Spec => []IInv
  <1>1. Init => IInv
    BY InitGood
  <1>2. IInv /\ [Next]_vars => IInv'
    BY NextGood DEF Good
  <1>3. QED
    BY <1>1, <1>2, PTL DEF Spec

\* Every word of the sector holds a value the code writes there, or none.
THEOREM TypeCorrectness == Spec => []TypeOK
  <1>1. Whole \subseteq Infos
    BY DEF Whole
  <1>2. IInv => TypeOK
    BY <1>1, Zenon DEF IInv, FlashOK, ControlOK, TypeOK
  <1>3. QED
    BY <1>2, InductiveInvariant, PTL

\* program_fota_metadata returns 0 only when the second boot will find the
\* update it was called for, unless its own last erase left words behind.
THEOREM SuccessTellsTheTruth == Spec => []SuccessIsPending
  <1>1. IInv => SuccessIsPending
    BY DEF IInv
  <1>2. QED
    BY <1>1, InductiveInvariant, PTL

\* set_enter_second_boot leaves no update behind, unless its own erase failed.
THEOREM EnteringTakesBack == Spec => []EnteringDropsUpdate
  <1>1. IInv => EnteringDropsUpdate
    BY DEF IInv
  <1>2. QED
    BY <1>1, InductiveInvariant, PTL

\* Whatever failed erases, failed writes and crashes of earlier calls left in
\* the sector, what program_fota_metadata and set_enter_second_boot report is
\* what the second boot finds; only an erase of the very call that leaves words
\* behind, whose result the firmware drops, can make the report untrue.
THEOREM ReportsAreTrue == Spec => []BootFindsWhatWasReported
  <1>1. IInv => BootFindsWhatWasReported
    BY DEF IInv, BootFindsWhatWasReported
  <1>2. QED
    BY <1>1, InductiveInvariant, PTL

\* Whenever the power fails, the update that is pending is the one asked for,
\* the one that was pending before, or none; a mixture only comes of words
\* written over those an erase of the same call left behind.
THEOREM CrashAtomicity == Spec => CommitsAtomically
  <1>1. Init => Atomic!Init
    BY InitGood
  <1>2. IInv /\ [Next]_vars => [Atomic!Next]_(Atomic!vars)
    BY NextGood DEF Good
  <1>3. QED
    BY <1>1, <1>2, InductiveInvariant, PTL DEF Spec, CommitsAtomically, Atomic!Spec

=============================================================================
