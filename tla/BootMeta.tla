------------------------------ MODULE BootMeta ------------------------------
(***************************************************************************)
(* The metadata sector of the second boot (IAP/IAP_Bootloader.c): one      *)
(* block_info_t, and behind it the boot_settings_t.  The firmware programs *)
(* it word after word, to have an update installed or to stay in the       *)
(* second boot, and then resets.  The power may fail between two words and *)
(* half way through an erase, and a write may fail.                        *)
(*                                                                         *)
(* block_num is always 1, as in the only call.  The CRC over the block     *)
(* info is taken to tell different contents apart: the crc_value word      *)
(* holds the words it was computed over.                                   *)
(* A definition marked "Slip" is a plausible mistake in the definition     *)
(* that follows it; no action uses it.                                     *)
(***************************************************************************)
EXTENDS Integers

CONSTANTS
  Updates,           \* the block infos <<size, dst, src>> that are programmed
  DEF_FLAG,
  Blank, Garbage,    \* an erased word; a word erased or programmed half way
  None,
  EraseFails,        \* environment: erase_flash_sector may fail, and say so
  Stops              \* environment: the sets of words blanked where an erase stops

\* What the three words of a block info may hold.
InfoValues == {Blank, Garbage} \cup UNION {{u[1], u[2], u[3]} : u \in Updates}
Infos == InfoValues \X InfoValues \X InfoValues

ASSUME WordAssumption ==
  /\ Blank # Garbage /\ {DEF_FLAG, 1} \cap {Blank, Garbage} = {}
  /\ {Blank, Garbage, None} \cap Infos = {}
ASSUME UpdateAssumption ==
  \A u \in Updates : u = <<u[1], u[2], u[3]>> /\ {u[1], u[2], u[3]} \cap {Blank, Garbage} = {}

VARIABLES
  flash,     \* the words of the sector
  pc,        \* where the firmware is in program_fota_metadata, set_enter_second_boot
  addr,      \* the next word to write, as an index of WriteOrder
  blocks,    \* the block info to program
  result,    \* how the last operation returned
  leftovers  \* history: the last erase of the operation left words behind

vars == <<flash, pc, addr, blocks, result, leftovers>>

InfoWords == {"size", "dst", "src"}
SettingsWords == {"enter_secondary_boot", "entered_secondary_boot", "need_firmware_replace",
                  "block_num", "crc_value"}
Words == InfoWords \cup SettingsWords

ASSUME EnvironmentAssumption == EraseFails \in BOOLEAN /\ Stops \subseteq SUBSET Words

\* The order in which program_fota_metadata programs the words.
WriteOrder == <<"size", "dst", "src", "enter_secondary_boot", "entered_secondary_boot",
                "need_firmware_replace", "block_num", "crc_value">>
Places == {"run", "check settings", "check info", "write", "erase flag", "write flag", "reset"}

InfoOf(f) == <<f["size"], f["dst"], f["src"]>>

\* What the second boot (external) makes of the sector.
Pending(f) ==
  IF /\ f["need_firmware_replace"] = DEF_FLAG
     /\ f["block_num"] = 1
     /\ f["crc_value"] = InfoOf(f)
  THEN InfoOf(f) ELSE None

(***************************************************************************)
(* The flash (external).                                                   *)
(***************************************************************************)
\* Programming can only clear bits.
Program(old, new) == IF old = Blank \/ old = new THEN new ELSE Garbage

Erased == [w \in Words |-> Blank]

\* An erase that stopped half way.
TornErase ==
  \E done \in Stops, garbled \in BOOLEAN :
    flash' = [w \in Words |-> IF w \in done THEN Blank
                              ELSE IF garbled THEN Garbage ELSE flash[w]]

\* erase_flash_sector; no caller looks at the result.
EraseSector ==
  /\ flash' = Erased \/ (EraseFails /\ TornErase)
  /\ leftovers' = (flash' # Erased)

(***************************************************************************)
(* program_fota_metadata.                                                  *)
(***************************************************************************)
\* Called by IAP_DoUpdate_Delay_Timeout_Callback.
ProgramFotaMetadata(u) ==
  /\ pc = "run"
  /\ blocks' = u /\ pc' = "check settings" /\ leftovers' = FALSE
  /\ UNCHANGED <<flash, addr, result>>

SettingsBlank ==
  \A w \in {"need_firmware_replace", "block_num", "crc_value"} : flash[w] = Blank

CheckSettings ==
  /\ pc = "check settings"
  /\ IF SettingsBlank THEN UNCHANGED <<flash, leftovers>> ELSE EraseSector
  /\ pc' = "check info"
  /\ UNCHANGED <<addr, blocks, result>>

\* Slip: the place of the block info is not looked at.
InfoBlankAssumed == TRUE

InfoBlank == \A w \in InfoWords : flash[w] = Blank

CheckInfo ==
  /\ pc = "check info"
  /\ IF InfoBlank THEN UNCHANGED <<flash, leftovers>> ELSE EraseSector
  /\ pc' = "write" /\ addr' = 1
  /\ UNCHANGED <<blocks, result>>

\* The words of block_info and new_settings.  The first two settings are
\* copied from the flash, and the CRC is computed over the flash.
NewWord(w) ==
  CASE w = "size" -> blocks[1]
    [] w = "dst"  -> blocks[2]
    [] w = "src"  -> blocks[3]
    [] w = "need_firmware_replace" -> DEF_FLAG
    [] w = "block_num" -> 1
    [] w = "crc_value" -> InfoOf(flash)
    [] OTHER -> flash[w]

\* Slip: one word too many is written.
WriteWordBeyond ==
  /\ pc = "write"
  /\ flash' = [flash EXCEPT ![WriteOrder[addr]] = Program(@, NewWord(WriteOrder[addr]))]
  /\ addr' = addr + 1
  /\ UNCHANGED <<pc, blocks, result, leftovers>>

\* write_flash, word by word; a failed one ends the operation.
WriteWord ==
  /\ pc = "write"
  /\ flash' = [flash EXCEPT ![WriteOrder[addr]] = Program(@, NewWord(WriteOrder[addr]))]
  /\ IF addr = 8 THEN pc' = "reset" /\ result' = "ok" /\ UNCHANGED addr
     ELSE addr' = addr + 1 /\ UNCHANGED <<pc, result>>
  /\ UNCHANGED <<blocks, leftovers>>

WriteFails ==
  /\ pc = "write"
  /\ pc' = "reset" /\ result' = "failed"
  /\ \E new \in {flash[WriteOrder[addr]], Garbage} : flash' = [flash EXCEPT ![WriteOrder[addr]] = new]
  /\ UNCHANGED <<addr, blocks, leftovers>>

(***************************************************************************)
(* set_enter_second_boot: called by app_main_loop, which resets if it      *)
(* succeeds.                                                               *)
(***************************************************************************)
SetEnterSecondBoot ==
  /\ pc = "run"
  /\ pc' = "erase flag" /\ leftovers' = FALSE
  /\ UNCHANGED <<flash, addr, blocks, result>>

\* Slip: the sector is erased only if the flag was programmed before.
EraseFlagIfSet ==
  /\ pc = "erase flag"
  /\ IF flash["enter_secondary_boot"] = Blank THEN UNCHANGED <<flash, leftovers>>
     ELSE EraseSector
  /\ pc' = "write flag"
  /\ UNCHANGED <<addr, blocks, result>>

EraseFlag ==
  /\ pc = "erase flag"
  /\ EraseSector
  /\ pc' = "write flag"
  /\ UNCHANGED <<addr, blocks, result>>

WriteFlag ==
  /\ pc = "write flag"
  /\ \/ /\ flash' = [flash EXCEPT !["enter_secondary_boot"] = Program(@, DEF_FLAG)]
        /\ pc' = "reset" /\ result' = "entering"
     \/ /\ flash' = [flash EXCEPT !["enter_secondary_boot"] = Garbage]
        /\ pc' = "run" /\ result' = "failed"
  /\ UNCHANGED <<addr, blocks, leftovers>>

(***************************************************************************)
(* Resets.                                                                 *)
(***************************************************************************)
\* The second boot (external) installs what is pending, and may leave the
\* sector alone, erase it, or note that it was entered.
SecondBoot ==
  /\ pc = "reset"
  /\ pc' = "run" /\ result' = "none"
  /\ \/ UNCHANGED flash
     \/ flash' = Erased
     \/ flash' = [flash EXCEPT !["entered_secondary_boot"] = Program(@, DEF_FLAG)]
  /\ UNCHANGED <<addr, blocks, leftovers>>

\* The power fails between two words or in the middle of an erase.
PowerLoss ==
  /\ pc' = "reset" /\ result' = "none"
  /\ \/ UNCHANGED flash
     \/ pc \in {"check settings", "check info", "erase flag"} /\ TornErase
     \/ pc = "write" /\ flash' = [flash EXCEPT ![WriteOrder[addr]] = Garbage]
     \/ pc = "write flag" /\ flash' = [flash EXCEPT !["enter_secondary_boot"] = Garbage]
  /\ UNCHANGED <<addr, blocks, leftovers>>

Init ==
  /\ flash = Erased /\ pc = "run" /\ addr = 1 /\ blocks = None /\ result = "none"
  /\ leftovers = FALSE

Next ==
  \/ \E u \in Updates : ProgramFotaMetadata(u)
  \/ CheckSettings \/ CheckInfo \/ WriteWord \/ WriteFails
  \/ SetEnterSecondBoot \/ EraseFlag \/ WriteFlag
  \/ SecondBoot \/ PowerLoss

Spec == Init /\ [][Next]_vars

-----------------------------------------------------------------------------
(***************************************************************************)
(* Properties.                                                             *)
(***************************************************************************)
\* Every word holds one of the values the code writes there, or none.
TypeOK ==
  /\ DOMAIN flash = Words
  /\ pc \in Places /\ addr \in 1 .. 8
  /\ blocks \in Updates \cup {None}
  /\ result \in {"none", "ok", "failed", "entering"} /\ leftovers \in BOOLEAN
  /\ \A w \in {"enter_secondary_boot", "entered_secondary_boot", "need_firmware_replace"} :
       flash[w] \in {Blank, Garbage, DEF_FLAG}
  /\ flash["block_num"] \in {Blank, Garbage, 1}
  /\ \A w \in InfoWords : flash[w] \in InfoValues
  /\ flash["crc_value"] \in {Blank, Garbage} \cup Infos

\* A crash or a failed write between any two words leaves the update pending
\* that was asked for, the one that was pending before, or none: never a
\* mixture of two, and never half of one. Only after an erase that left words
\* behind, which the firmware does not notice, is a mixture possible
\* (AtomicUpdate).
Atomic == INSTANCE AtomicUpdate WITH
  Mixtures <- Infos, EraseFails <- EraseFails, Updates <- Updates, None <- None,
  asked <- blocks, pending <- Pending(flash), leftovers <- leftovers
CommitsAtomically == Atomic!Spec

\* program_fota_metadata returns 0 only if the second boot will find the
\* update (IAP_Bootloader.h:30, "0 if successful else non-0"), unless the last
\* erase of that very call failed. Failed erases and crashes of earlier calls
\* do not matter.
SuccessIsPending == result = "ok" /\ ~leftovers => Pending(flash) = blocks

\* Entering the second boot gives up the update that was pending, unless the
\* erase of that very call failed: the boot never finds both an update and the
\* wish to stay in it.
EnteringDropsUpdate ==
  result = "entering" /\ ~leftovers =>
    flash["enter_secondary_boot"] = DEF_FLAG /\ Pending(flash) = None

\* What either function reports is what the second boot finds in the sector,
\* over whatever failed erases, failed writes and crashes of earlier calls
\* left there.
BootFindsWhatWasReported == SuccessIsPending /\ EnteringDropsUpdate

=============================================================================
