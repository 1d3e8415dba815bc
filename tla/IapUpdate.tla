------------------------------ MODULE IapUpdate ------------------------------
(***************************************************************************)
(* The firmware update composed with the metadata of the second boot: what *)
(* IapApplication takes as one step (the callback of SWITCH_APP programs   *)
(* the metadata, the device resets and the second boot copies the image)   *)
(* happens here word after word (BootMeta), with resets in between.        *)
(*                                                                         *)
(* The callback and app_main_loop run in one thread.  The callback closes  *)
(* the USB device before it starts, so no command comes while it programs; *)
(* while app_main_loop programs enter_secondary_boot commands do come.  A  *)
(* timer counts as armed, and jump_boot_flag as set, until the call it     *)
(* started has returned or reset the device: nothing reads them before.    *)
(* The RAM is shown as lost when the second boot has done its work.        *)
(* A definition marked "Slip" is a plausible mistake in the definition     *)
(* that follows it; no action uses it.                                     *)
(***************************************************************************)
EXTENDS IapApplication

CONSTANTS
  DEF_FLAG, Blank, Torn, NoUpdate,       \* of BootMeta
  LoadAddress, IAP_STORAGE_ADDR,
  BootClears         \* environment: the second boot erases what it installed

ASSUME BootAssumption == BootClears \in BOOLEAN

VARIABLES flash, pc, addr, blocks, result, leftovers

bootVars == <<flash, pc, addr, blocks, result, leftovers>>
allVars == <<vars, bootVars>>

\* ota_meta: the header says how much of the storage area is copied where.
UpdateOf(h) == <<h.binSize, LoadAddress, IAP_STORAGE_ADDR>>

Boot == INSTANCE BootMeta WITH
  Updates <- {UpdateOf(h) : h \in Headers \cup {NoHeader}},
  Garbage <- Torn, None <- NoUpdate, EraseFails <- FALSE, Stops <- {{}}

\* What BootMeta assumes of its words, for the updates of this module.
ASSUME MetadataAssumption ==
  /\ Blank # Torn /\ {DEF_FLAG, 1} \cap {Blank, Torn} = {}
  /\ {Blank, Torn, NoUpdate} \cap Boot!Infos = {}
  /\ \A h \in Headers \cup {NoHeader} :
       {h.binSize, LoadAddress, IAP_STORAGE_ADDR} \cap {Blank, Torn} = {}

Pending == Boot!Pending(flash)

\* Where IAP_DoUpdate_Delay_Timeout_Callback has closed the USB device, and
\* where set_enter_second_boot leaves it open.
Updating == {"check settings", "check info", "write"}
Entering == {"erase flag", "write flag"}

(***************************************************************************)
(* The steps of the application, while the metadata stays as it is.        *)
(***************************************************************************)
\* FLASH_READ and what is refused as no command at all change only the
\* answer, and REBOOT is one more reset: they are left to IapApplication.
Command ==
  /\ pc \in {"run"} \cup Entering
  /\ \/ \E h \in Headers : Start(h)
     \/ \E w \in Writes : FlashWrite(w)
     \/ \E d \in Delays : SwitchApp(d) \/ SwitchBoot(d)
  /\ UNCHANGED bootVars

JumpTimeout == pc = "run" /\ JumpUsbBootTimeout /\ UNCHANGED bootVars

(***************************************************************************)
(* Programming the metadata.                                               *)
(***************************************************************************)
\* Slip: the size is what nextOffsetAddr counts, which leaves out the last
\* block.
DoUpdateWithoutLast ==
  /\ "SWITCH_APP" \in timers
  /\ Boot!ProgramFotaMetadata(<<nextOffsetAddr, LoadAddress, IAP_STORAGE_ADDR>>)
  /\ UNCHANGED vars

\* IAP_DoUpdate_Delay_Timeout_Callback.
DoUpdateCallback ==
  /\ "SWITCH_APP" \in timers
  /\ Boot!ProgramFotaMetadata(UpdateOf(header))
  /\ UNCHANGED vars

\* Slip: a failed write ends the callback without the reset.
ProgramGivingUp ==
  \/ (Boot!CheckSettings \/ Boot!CheckInfo \/ Boot!WriteWord) /\ UNCHANGED vars
  \/ /\ pc = "write"
     /\ pc' = "run" /\ result' = "failed" /\ timers' = timers \ {"SWITCH_APP"}
     /\ UNCHANGED <<upgrade, payload_size, ack, storage, jump_boot_flag, installed>>
     /\ UNCHANGED <<flash, addr, blocks, leftovers>>

\* program_fota_metadata; the reset follows whatever it returns.
ProgramMetadata ==
  /\ Boot!CheckSettings \/ Boot!CheckInfo \/ Boot!WriteWord \/ Boot!WriteFails
  /\ UNCHANGED vars

\* app_main_loop, up to the last word set_enter_second_boot writes.
JumpToBoot == jump_boot_flag /\ Boot!SetEnterSecondBoot /\ UNCHANGED vars

ProgramFlag == Boot!EraseFlag /\ UNCHANGED vars

FlagWritten ==
  /\ Boot!WriteFlag
  /\ IF pc' = "reset" THEN UNCHANGED vars
     ELSE jump_boot_flag' = FALSE
          /\ UNCHANGED <<upgrade, payload_size, ack, storage, timers, installed>>

(***************************************************************************)
(* Resets.                                                                 *)
(***************************************************************************)
\* BootMeta explores erases that stop anywhere; with Stops <- {{}} one leaves
\* the old words or garbage everywhere.
Unpowered == PowerFails /\ Boot!PowerLoss /\ UNCHANGED vars

\* The second boot (external) copies what is pending; a sector without an
\* update it may erase or leave alone.
Restart ==
  /\ pc = "reset" /\ pc' = "run"
  /\ Reset
  /\ addr' = 1 /\ blocks' = NoUpdate /\ result' = "none" /\ leftovers' = FALSE
  /\ IF Pending = NoUpdate THEN flash' \in {flash, Boot!Erased} /\ UNCHANGED installed
     ELSE /\ installed' = [i \in 0 .. Pending[1] - 1 |-> storage[i]]
          /\ flash' = IF BootClears THEN Boot!Erased ELSE flash

UpdateInit == Init /\ Boot!Init

UpdateNext ==
  \/ Command \/ JumpTimeout
  \/ DoUpdateCallback \/ ProgramMetadata
  \/ JumpToBoot \/ ProgramFlag \/ FlagWritten
  \/ Unpowered \/ Restart

UpdateSpec == UpdateInit /\ [][UpdateNext]_allVars

\* The thread goes on, and the expired timer of SWITCH_APP is served when the
\* thread next comes to it, which other calls delay but do not prevent.
FairUpdateSpec ==
  /\ UpdateSpec
  /\ WF_allVars(ProgramMetadata \/ ProgramFlag \/ FlagWritten \/ Restart)
  /\ SF_allVars(DoUpdateCallback)

-----------------------------------------------------------------------------
(***************************************************************************)
(* Properties.                                                             *)
(***************************************************************************)
\* Word by word, with a power failure anywhere, the update does what
\* IapApplication says it does in one step: the image that is installed is
\* the one in the storage area when SWITCH_APP was due, or nothing is.
ImplementsApplication == Spec

\* An update is pending only until the reset that follows the SWITCH_APP that
\* asked for it, and it is the one the recorded header describes: no command
\* can change the storage area under an update that is to be installed.
PendingIsTheUpdate ==
  Pending # NoUpdate =>
    pc \notin {"run"} \cup Entering /\ upgrade_state = "FINAL" /\ Pending = UpdateOf(header)

=============================================================================
