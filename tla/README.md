# TLA+ models of the INGCHIPS HID tools

This directory holds TLA+ specifications of the firmware in this repository, the TLC
configurations that model-check them on small instances, and theorems about them with
proofs checked by TLAPS. `PROJECT.json` lists components, runs, mutants, the source lines
each definition models, findings, hazards and theorems.

In what follows `E` is `src/EMI_tool/code/EMI_ING20_ROM/src` and `D` is `src/Ble_dongle/src`.

## 1. The system

The repository holds two firmwares and the host side of their tools.

* **EMI firmware** (`E`): runs on an ING20 chip, is driven over USB by a host tool, and
  makes the radio emit: carriers, packets and frequency sweeps, for RF certification. It
  updates itself over the same USB cable (IAP, in-application programming).
* **BLE dongle** (`D`): a BLE central that connects to a HID peripheral and passes its
  notifications on as USB HID reports.
* **Host tools**: Windows executables, without source. They are the environment.

### Execution

The EMI firmware has no operating system threads: NOOS (`E/noos_impl.c`) runs one loop that
takes the messages of the BLE stack, then calls `app_main_loop` (`E/app_main.c`), which calls
`ucm_loop` and `emi_loop`. HCI events, and callbacks of `platform_set_timer`, run inside
that loop. Two things interrupt it: the USB interrupt, in which received reports are
parsed (UCM commands, IAP messages), and TIMER1, which drives the sweeps.

### Components

| component | state | operations | how it interacts | what makes it correct |
|---|---|---|---|---|
| EMI test controller, `E/Ctrl/ctrl_emi.c` | a ring of requests, three nested processes (start, stop, forward) with their phases, test and sweep state, a 200 ms timeout, `g_cmd` | `EMI_Dispatch`, `emi_loop`, `TIMER1_IrqHandler`, HCI completion | USB interrupt and TIMER1 put requests, the loop takes them; HCI commands to the stack and command-complete events back | the processes never meet a state of each other they do not expect; every request is answered; idle means silent; sweep and timer go together |
| UCM packaging, `E/Ctrl/ctrl.c` | the package being collected | `UCM_Packaging_Dispatch`, `ucm_loop` | fed by USB reports, calls `EMI_Dispatch` | a command is dispatched from its own bytes |
| IAP transport, `E/IAP/IAP_Transport.c` | reassembly state, buffer | `IAP_Transport_Dispatch`, replies | fed by USB reports, calls the IAP application | only whole messages are handed over; retries get through |
| IAP application, `E/IAP/IAP_Application.c` | upgrade state, block counter, header, timers | START, FLASH_WRITE, FLASH_READ, REBOOT, SWITCH_APP, SWITCH_BOOT and their timers | writes flash; on SWITCH_APP writes the bootloader metadata and resets | OVER means verified; only verified images are installed |
| Bootloader metadata, `E/IAP/IAP_Bootloader.c` | a settings sector | `program_fota_metadata`, `set_enter_second_boot` | read by the second boot after a reset | an update is pending whole or not at all, whatever crashes |
| USB HID driver of the EMI firmware, `E/IAP_BSP/bsp_usb_hid_iap.c` on `peripheral_usb.c` | the flags of two interfaces (HOST for UCM and EMI, CTL for IAP), one receive and one send buffer for both, the state of endpoint 0 | send from the interrupt and from the main loop, receive, enumeration, bus reset, suspend, resume | calls UCM, EMI and IAP in the interrupt; EMI answers from the main loop | no interface goes deaf, no flag stays behind, the answer is that of the command |
| USB HID driver of the dongle, `D/USB_BSP/...` | endpoint buffers, `sendBusy` flags | send, suspend, resume | interrupts | a report is never blocked for ever, and sent whole |
| NOOS layer, `E/noos_impl.c` | message queues, software timers | used by the stack library only | calls `app_main_loop` for ever | |
| Dongle profile, `D/profile.c` | `Ble_State`, GATT handles | scan, connect, discover, pair, forward notifications | stack events, USB | notifications reach USB, a lost peer is found again |
| Dongle LED, `D/main.c` | blink counter | TMR2 interrupt | reads `Ble_State` | shows the state |
| HCI dispatch `E/profile.c`, CRC-16, start-up, flash map, IAP init | | | | |

`E/IAP/IAP_Flash_WP.c` is never reached: its only call is commented out (`E/IAP/IAP.c:36`).

Hard to test, and therefore what the models are for: interrupts between the iterations of
a request that spans many calls of `emi_loop`; completions that come after their timeout;
power loss between two flash words, while commands still come; two interfaces that share their
buffers, and a main loop that sends what the interrupt sends too; a sweep that is replaced while a step
of it is queued; frames lost, repeated or left off; hosts that are
stopped and started again; state that survives from one command to the next. The list,
line by line, is under `hazards` in `PROJECT.json`.

## 2. Modules

| module | models | state and actions |
|---|---|---|
| `EmiControl` | the EMI controller, whole | variables keep the names of the statics of `ctrl_emi.c`. `EmiLoop` is one call of `emi_loop`; `StartProcess`, `StopProcess`, `ForwardProcess`, `StartATest`, `StopATest` are the functions of these names, each returning through the primed phase. `EmiDispatch` (USB interrupt), `TimerIrq`, `HciCommandComplete`, `TimeoutExpires`, `EmiEnable` are the other actions. `hci` and `air` are the controller: commands under way and what the radio emits. Of the host, `HostWindow` says how many of its commands may be unanswered at a time, `HostCommands` which it sends. |
| `EmiService` | abstract: a service of requests | `EmiControl` implements it (`ServesRequests`): one request at a time is picked from those queued, is answered once, and what is on the air changes only on behalf of a request |
| `EmiFifo` | abstract: a queue | the ring of `EmiControl` implements it (`RingIsFifo`) while it is not overrun |
| `EmiSweep` | the channels of the five sweeps: `start_sweep_...`, `iteration_dif_case`, with the contexts they share | serving a request is one step (`ServeSweep`, `ServeForward`, ...), when it was picked another: what `EmiControl` shows of the order of requests is assumed. `round` and `completed` are histories of the channels a round has tested, and of those whose test did not start (which only channels of `MayFail` do) |
| `IapApplication` | the IAP commands, `IAP_APP_cmd_dispatch`, the delayed callbacks and the entry into the second boot from `app_main_loop` | one action per command (`Start`, `FlashWrite`, `FlashRead`, `Reboot`, `SwitchApp`, `SwitchBoot`) with its error paths as disjuncts, and one per timer; the flash is an array of cells that hold which image they were written from |
| `IapInstaller` | abstract: verify, then install | `IapApplication` implements it for a polite host (`InstallsVerifiedOnly`) |
| `BootMeta` | `program_fota_metadata`, `set_enter_second_boot` | a program counter walks through the flash operations, one word per step; `PowerLoss` may come between any two, and in the middle of an erase; an erase may fail (`EraseFails`), which the firmware does not notice. `leftovers` is a history: the last erase of the running call left words behind |
| `IapUpdate` | the composition of the two: `IapApplication` with the metadata of `BootMeta` word by word (`Boot == INSTANCE BootMeta WITH ...`) and the second boot | commands are still taken between the words of `set_enter_second_boot`, but not in those of `program_fota_metadata`, before which the callback closes the USB device; `ImplementsApplication` says that the reset, the metadata and the copy of the image are what `IapApplication` takes as one step |
| `AtomicUpdate` | abstract: an update is pending or not, or, after an erase that left words behind, perhaps a mixture | `BootMeta` implements it (`CommitsAtomically`) |
| `IapTransport` | both directions of the transport, with the host program | one frame is one step: `Receive` is `IAP_Transport_Dispatch` with its replies; host actions send, repeat, give up, time out |
| `MessageChannel` | abstract: whole messages | `IapTransport` implements it (`DeliversWholeMessages`) |
| `UcmPackaging` | `UCM_Packaging_Dispatch` and its replies | one packet is one step |
| `EmiUsb` | the USB driver of the EMI firmware, with the part of `peripheral_usb.c` that arms and ends transfers | an interrupt is one step (`ReceiveEnd`, `TransmitEnd`, `DeviceReset`, `GetReportDescriptor`, ...), for UCM and IAP with the answer it sends; the four steps of `bsp_usb_hid_host_send` in the main loop (`LoopTest` to `LoopArm`) come one by one. The DMA and the host are the environment |
| `UsbHid` | the USB driver of the dongle: both senders, and the USB events that change their flags | the senders go step by step (flag, copy, arm), because the interrupt, the USB controller and the host come in between; the DMA reads a buffer at a time of its own. One action per event of `bsp_usb_event_handler` |
| `Dongle` | `D/profile.c` and the TMR2 interrupt, with `UsbHid` | `events` is the queue of the BLE stack; each handler is one action, except that the disconnection handler enables the timer in a step of its own. Radio, link, discovery and pairing are the environment |
| `MC...` | | the constants of the runs |
| `EmiControlProofs`, `EmiSweepProofs`, `EmiUsbProofs`, `IapTransportProofs`, `BootMetaProofs`, `UcmPackagingProofs`, `DongleProofs` | | theorems about the module of the same name, its abstract specifications included |
| `IapApplicationProofs` | | theorems about `IapApplication`, `IapInstaller` and `IapUpdate` |

The components meet at narrow interfaces, and the models follow them. The USB driver hands over
what one report holds (`KeepsListening`, `AnswersTheCommand`); the transport makes whole messages
of them (`DeliversWholeMessages` is what `IapApplication` assumes of its input). What the application assumes of
`program_fota_metadata` and of the reset is not assumed but shown, by `IapUpdate`. The packaging hands
a command to `EMI_Dispatch` (`EmiDispatch` takes any command of the host), and `EmiControl` serves requests one
by one, as `EmiSweep` has them. `Dongle` extends `UsbHid`: a notification is handled by the first
step of a send, and no event is handled until the send is over.

### What is abstracted

* The parameters of an RF test are one abstract command; a frequency is not modelled.
* Flash contents are model values: erased, garbage or "of image a". Programming can only
  clear bits: writing over anything but erased cells or the same value gives garbage.
* A CRC-16 is taken to tell apart the contents the models tell apart. In `BootMeta` the
  CRC of a half-written sector never matches by accident.
* In `UsbHid`, keyboard reports have no content, the VIA interface (on which nothing is sent),
  endpoint halts and remote wake-up are left out. What is sent on the control endpoint is not
  followed any more after an echo (`bsp_usb_hid_iap.c:797`).
* In `EmiUsb` a message is a service and a datum, and an answer repeats those of its command. The
  endpoint of the keyboard is left out (nothing in the EMI firmware sends on it), as are endpoint halts and
  the zero-length packets that end a control transfer, whose stages count as idle. After a bus reset no endpoint
  accepts a transfer (`configured = FALSE` in `USB_ClrConfig`): that is the hardware's doing, since `USB_DisableEp`
  leaves the active bit alone that `USB_SendData` tests.
* In `EmiSweep` a packet is the sweep and its two ends, and a test of a channel starts or fails.
* In `IapUpdate`, FLASH_READ, REBOOT and packets that are refused as no command are left to `IapApplication`,
  erases do not fail, and one that stops half way leaves the old words or garbage everywhere (`Stops <- {{}}`); `BootMeta` has
  the mixtures.
* In `Dongle`, a connection takes longer than the task needs to drain the advertising reports
  that were queued when scanning stopped. Otherwise a report could be handled after the
  connection is up, and `Ble_State` would fall back to CONNECT.
* Logging and the layout of replies are left out. One consequence: `bsp_usb_send_failed`
  (`ctrl_emi.c:476`) answers with `UCM_CODE_SUCCESS`, so a host cannot tell a failure by
  the code. Which command an ACK names is modelled: the ACK of a START names none, because
  `IAP_CtlInit` (`IAP_Application.c:494`) clears `rspCmd` while it is served, and the refusal of a
  packet too short to be parsed names the command before it (`:764`).
* The `gap_` functions may refuse a command or accept it; a completion may come at any time
  or never (`PromptController = FALSE`), or before the timeout (`TRUE`).
* A definition marked "Slip" is a plausible mistake in the definition after it. No action
  uses it; substituting it shows that a property can fail (`mutants`).

## 3. Runs

| run | question | environment and bounds |
|---|---|---|
| `emi_free` | do the three nested processes stay consistent and implement `EmiService`, with everything allowed? | host and timer queue at any time (`HostWindow` larger than the ring), late and missing completions, refusals; ring of 2 (one request fits besides the one in service, so overrun and emptiness both happen), 2 HCI commands under way |
| `emi_hci_tests` | when the firmware believes the radio idle, is it? | tests that one HCI command stops; completions before the timeout |
| `emi_full_ring` | is the ring a FIFO up to its last slot, and is everything in it served in the end? | a host with two commands unanswered, sweeps and their stops, and the FORWARD of a sweep, slower than its request: three requests in a ring of 4, which has three usable slots; late and missing completions; fairness |
| `emi_wrong_stop` | the same as `emi_hci_tests`, for carriers and 2.4G payloads | violated, see Findings |
| `emi_usb` | does every interface keep listening, is no flag left behind, and does the host get the answer to its command? | hosts that use one service and wait, with bus resets and suspends at any time and two data (so that an old answer differs from the new); hosts that use two services and do not wait, with the unasked answers of a sweep. One EMI answer due. The bus may really stay silent, hence no deadlock check |
| `emi_sweep` | does a sweep stay within its channels, and does a round try each of them, leaving untested only those whose own test does not start? | all channels of every sweep, of which the test may fail on four, in the middle of bands and at their ends; ranges whose ends differ by an odd number, the wrong way round, and with an end at 255; two sweeps a host alternates between, single tests and stops, two requests in the ring, so that a late FORWARD meets the next sweep |
| `iap_any_host` | is OVER verified, does every block fit, is an acknowledged block programmed, does FINAL freeze the image? | any command in any order, malformed headers, wrong blocks, short payloads, damaged packets, failing flash, power loss; 4 cells, sectors of 2, images of 3 and 2 cells |
| `iap_update` | are only verified images installed, and does SWITCH_APP take effect, word by word? | SWITCH_APP only in OVER/FINAL and with a delay, SWITCH_BOOT at any time; failing flash, power loss between any two words; two cells, an image of two blocks and one of a single block; fairness |
| `boot_crash` | is an update pending whole or not at all? | power loss between any two words or in an erase, failing writes and erases, two updates, re-runs over the leftovers; an erase stops after none or all of the words, before or after the first or the last, or between block info and settings (the theorems have any set of words) |
| `iap_transport` | whole messages only, and do retries get through? | three environments: one damaged and one lost frame and a host that keeps to the protocol; host programs stopped at any time, damaged frames, missing answers; a host that does not wait. Frame numbers modulo 4 (256 in the code), messages of 1 to 6 frames, so both the wrap and the full buffer occur |
| `ucm_short` | is a command dispatched from its own bytes? | damaged, repeated, refused, left-off packets; commands that fit the position counter |
| `dongle` | does the state of the dongle match what its controller does, is the LED timer never lost, are reports sent whole and not blocked? | two environments, chosen at the start: the link comes and goes while the bus only enumerates, or the link stays once it is subscribed and the host resets, suspends and asks at any time. Two queued events (plus the two of a lost link), two report contents, two handles; symmetry of both |

**Fairness.** `emi_full_ring`: the main loop runs for ever (`while(1)` in NOOS), the
200 ms timeout expires, as `platform_get_us_time` advances. No fairness on the controller, the
host or TIMER1: completions may never come. `iap_update`: the thread that runs the callbacks and
`app_main_loop` goes on (weak), and an expired timer of SWITCH_APP is served when the thread comes to it; it is
a strong fairness because a command that writes the flash, a SWITCH_BOOT or a power loss takes the thread away
from it for a while. `emi_usb`: the main loop goes round, each pending interrupt is served, the DMA
works, the host resumes a bus it suspended (weak), and polls an IN endpoint (strong, since suspends
interrupt its polling). No fairness on commands, resets or enumeration.
`iap_transport`: the host program continues what it began; it may be stopped where the
environment says so, and nothing is promised then.

**Why the bounds are enough.** The processes of the controller hold one request at a time
and look at the ring only to take the next, so a ring with one and with three usable slots
shows every interplay of a request in service, one that waits and one that overruns. The
IAP models need a last block, one before it, a partial block, a header that does not fit and a
second image to be mixed up with; the transport needs a message as long as the number
space, one longer than the buffer and a different one to be mixed up with. The USB driver needs two
interfaces, because they share buffers, and two commands that differ; a second answer due would only wait
behind the first. A sweep needs one FORWARD of the sweep before and one request that replaces it.

## 4. Findings

* **The wrong test is stopped** (`emi_wrong_stop`). `running_task` names the new test before
  the old one is stopped, so `emi_test_stop_hci_test` chooses the stop command by the kind of the
  new test: a payload test replaced by a carrier (or a carrier by a payload test) goes on
  emitting although it was reported stopped (`ctrl_emi.c:1428`, `:643`).

Statements the code does not keep, which are not among the runs. FLASH_READ is never answered
(`EveryCommandIsAnswered` of `IapApplication`): `IAP_APP_SendACK` returns early when the answer has a payload
(`IAP_Application.c:201`). Commands longer than the buffer are dispatched (`LongCommandsAreRefused` of
`UcmPackaging`): `pos` is a `uint8_t` compared with 300 (`ctrl.c:186`). When an erase fails,
`program_fota_metadata` and `set_enter_second_boot` drop the result (`IAP_Bootloader.c:19`, `:27`, `:67`) and report
success over what is left: `SuccessIsPending` without its `~leftovers`. The CRC is computed over
what is then in the flash, so the second boot may even accept a mixture (`Mix` of `AtomicUpdate`). Two more in `EmiControl` are
`IdleIsSilentNow` (stopping a carrier sends two HCI commands and waits for one completion; the
second completes the next wait) and `TimerOnlyForSweep` (a single test
that replaces a sweep leaves TIMER1 queueing FORWARD requests, `ctrl_emi.c:1127`). `RingIsFifo`
holds only for a host with no more commands unanswered than the ring has slots to spare: the ring has no
test for being full (`ctrl_emi.c:293`). `StartUsesItsOwnCommand` does not hold: the USB interrupt parses
into `g_cmd` while a START still reads it (`ctrl_emi.c:1484`); only a host that sends nothing
before its answer avoids it, and then by its own doing. A FORWARD may run with the context of another
sweep; what follows is in `EmiSweep`, below.

Known edges outside the checked environments: SWITCH_APP has no state check, so an impolite
host installs whatever is in storage; with delay 0 it clears its own timer and the device
stays in FINAL. The transport can mix two messages if a host program is stopped in the
middle of one, a frame of the next is lost and the numbers coincide; the CRC of the application
then refuses it.

Known edges of the sweeps, which their properties leave room for (`OwnRules`): a FORWARD of a custom sweep
that was queued while another one was being started walks over the new context (`ctrl_emi.c:596`); one
of the BLE sweep takes a carrier sweep to channel 1, below its band, and it comes up through all channels
from there. Channel 255 is followed by channel 0, since `channel_current` of `SWEEP_TX_V4` has
8 bits: a sweep with an end there goes on from 0 (`:848`). A FORWARD whose test does not start goes on to the next
channel all the same.

Known edges of the update: nothing in this repository erases the metadata of an update at the next START or after
its installation. If the second boot does not either (`BootClears = FALSE`), `PendingIsTheUpdate` is
violated: the update stays pending, and every reset installs what is then in the storage area, a
half-written next image included.

Known edges of the USB driver of the EMI firmware: if two services are used at once, a command
may be cleared by the arming of the other interface (`bsp_usb_hid_iap.c:165`), and an answer overwritten in
the send buffer before the DMA has read it (`:187`); `AnswersTheCommand` is about a host that uses one service
at a time. `sendBusy` of HOST stays set for ever after a bus reset with a report under way (`:283`; CTL is
released by the next enumeration). An EMI answer that is due while the bus is suspended is dropped,
and one that was due at a bus reset may be the first thing the next host gets.

Known edges of the dongle, which its properties leave room for: a bus reset while a control report
is under way leaves its `sendBusy` set for ever (`ControlIsReleased` names this case, only the
keyboard is released by the enumeration); a resume leaves the control interface not ready until
the host sends something; a discovery that fails is not followed by a disconnection, so the
dongle stays in CONNECT (`profile.c:218`), and the branch at `:234` is dead because the first
handle of the service is never the invalid one; a notification that finds its endpoint busy is dropped,
a key release too (`:153`); notifications are not enabled when a bonded peer re-establishes its
security (`:411`).

## 5. Proofs

Eight modules hold proofs, all checked to the last leaf. They hold for every value of the
constants that meets the named assumptions.

**`EmiControlProofs`** (assumes `CommandsAssumption`, `DepthAssumption`: a ring of at least two
slots, and `SwitchAssumption`). The properties are not inductive by themselves: that
the loop never meets an unexpected state depends on the phases of the three nested
processes fitting together. `IInv` adds what each phase promises the next:
`StopPhaseOK`, `StartPhaseOK` and `ForwardPhaseOK` say which test and sweep state each phase
of a process may meet, `ServingOK` which process runs for which request, and `RingHoldsRequests`
that an occupied slot holds a request. For each function of the C code there is a lemma about
what it leaves behind (`StopATestStep`, `StartATestStep`, ...), and the actions that call it
cite the lemma. Proved from it: `TypeOK`, `NoUnexpectedOccurence`, `NothingIsLeftHalfWay` (whose
parts are `SettledBetweenRequests` and `SweepHasTimer`) and, with one more induction, `StoppedIsAtRest`. There is no assumption on the
host, on completions or on the depth of the ring: overruns and late completions are included.

*The service.* `Spec => ServesRequests`, step by step: picking a request maps to `Pick`, the
last step of a service to an answer, everything else to a stutter; `IInv` supplies that the answer
agrees with the state of the test.

*The ring* (hypothesis `RoomyRing`: the ring has two slots more than the host may have commands
unanswered, and the timer waits for its FORWARD; with the 8 slots of the source, a host with up to six
commands unanswered). The ring has no test for being full, so its order is a matter of who puts
requests into it. `RingInv` counts: the occupied slots are those of the host and those of the timer
(`OccupiedByKind`), the first, with the command being served, at most `HostWindow`, the second at most one.
So a writer finds a slot to write and one to spare (`WriterFindsRoom`), and the index arithmetic of the ring, wrap
included, is that of a queue (`EnqueueIsPut`, `PickIsTake`), which gives `RingIsFifo`. Without the
hypothesis it is false.

*Idle and silent* (hypothesis `HciOnly`: the tests the host starts are those one HCI command
starts and one stops, BLE payload sweeps and RX, and completions come before the timeout). `AirOK`
pairs every state of the test with what is under way in the controller and on the air: one command until its
own completion is seen, none when nobody waits. From it `IdleMeansSilent`, for a ring of any depth and any
order of commands. For a mixture of tests it is false: that is the finding of `emi_wrong_stop`.

**`IapApplicationProofs`** (assumes `FlashAssumption`, `ImagesAssumption`, `CommandAssumption`): for
any host, any flash geometry and with a flash that may fail, `TypeOK`, `StorageIsAsTold` (whose parts are
`OverIsVerified` and `AcknowledgedIsProgrammed`), `NextBlockFits` and `FinalFreezes`. The invariants are nearly inductive together: `IInv`
adds that an upgrade under way has a header START accepted. What is to be shown is arithmetic: if
`k` blocks of `s` bytes are written and `k < n`, then `(k + 1) * s <= s * n` (`OneMoreBlock`), and a
block is written with the same 16-bit size that `BlockSizeOK` has compared with the header.

*The installer* (hypothesis `HonestHost`: SWITCH_APP is sent for a verified image, and the
header's `binSize` is the length its CRC was taken over): `Spec => InstallsVerifiedOnly`. `PoliteOK` adds
that the timer of SWITCH_APP runs in FINAL only, and that an image in OVER or FINAL still matches
its header; `ReadyIsWhole` turns the match of a CRC into the whole image. The power may fail,
packets may be damaged and the flash may refuse.

*The update* (`MetadataAssumption`: the words of an update are told apart from blank and
torn ones; hypothesis `FailingFlash`: the second boot erases what it has installed, and a word may fail to
program, which is only what the abstraction must allow, not what has to happen). `UInv` says why each
reset comes (`ReasonsOK`), and that a CRC is in the sector only between the last word and the reset
(`SectorOK`). Each word is a stutter of `IapApplication`, the reset is the step that installs the image, and so
`ImplementsApplication` and `PendingIsTheUpdate`. Together with the installer: `UpdateSpec =>
InstallsVerifiedOnly`, so the device with its metadata, word by word and through any number of power failures,
installs verified images only. The facts about the sector that `BootMetaProofs` has are shown again here, for
the instance, because the prover does not see the theorems of an instantiated module. This
composition has the erase of the sector succeed; `BootMetaProofs` has it fail as well.

**`IapTransportProofs`** (assumes `MessagesAssumption`, `EnvironmentAssumption`). For any messages, any number of damaged frames and any environment of `OrderlyLines`:
`HandsOverWholeMessages` and `DeliversWholeMessages`. An environment is orderly if no frame is lost, or if the
host does not leave a message half sent and then either waits for its answers or loses one frame at
most. Outside of it the property is false: frames carry no number of their message, so a message whose last
frame was lost and one whose first frame was lost make a whole one. `Tracks` says what the device has collected:
the first `k` frames of the message the host is at (`Holds(k)`), or what is left where a frame was lost
(`AwaitsLostFrame`) or the answer was (`IsOneAhead`). `FinishesMessages` and `AsksInTurn` say the same of the
frames and answers under way. `FaultsCostFewTries` needs one hypothesis more, `BufferFitsNumbers`: the frames of
a message that fits the buffer are told apart by their numbers (143 frames and 256 numbers in the
source). It is an account: `Owed` is what the tries will still grow by for the faults there have been, and `Budget` that
the tries with what is owed never exceed one for a damaged frame and two for a lost one
(`RejectedForLeftovers`: an undamaged frame is refused only for what a lost one left behind).
`TypeOK` needs none of the hypotheses.

**`UcmPackagingProofs`** (assumes `CommandsAssumption` and, for the property, `PositionsFit`: each packet of a
command begins below the 256 positions the 8-bit counter has): `TypeOK` and `DispatchesOwnBytes`. The
buffer below the write position holds the first packets of the command the host is at (`Holds(k)`); the
lengths of the packets are added up by `BytesBefore`, a sum over a finite set of places. Longer commands
overwrite their own beginning (see Findings), which is why the hypothesis is there.

**`BootMetaProofs`** (assumes `WordAssumption`, `UpdateAssumption`, `EnvironmentAssumption`; erases may stop after
any set of words, and may fail). `IInv` knows how far the sector is written at
each address (`HalfWritten`), unless the last erase of the call left words behind, and that a CRC in the flash was
computed over words that were all programmed (`Whole`, in `FlashOK`), which `Started` gives also where they are
programmed over others. The latter is what makes an erase that stops half way harmless for what comes after
(`TornEraseStep`): the CRC that is left names words that are not blank, so if it still
matches, no word of the block info was lost. What is written over words that were left may be pending as a
mixture (`MixStep`), until the next call. Each action is proved to keep `IInv`
and to be a step of `AtomicUpdate`; hence `CommitsAtomically`, `BootFindsWhatWasReported` (whose parts are
`SuccessIsPending` and `EnteringDropsUpdate`) and `TypeOK`.

**`EmiUsbProofs`**: for every set of commands and environments, `TypeOK`, `KeepsListening` and `ReportsAreReleased`, the
two facts that need no well-behaved host. They are inductive together with one more: a report descriptor was
read from a configured device only (`read # {} => configured`), which is why arming an OUT endpoint
in `Listen` and `Ep0TransmitEnd` cannot be refused. A send by the interrupt is one lemma (`SendNowKeeps`), as is
arming again (`ListenTypes`); the cases of `LoopArm` and `SendNow` are those of an endpoint that is active or not.

`AnswersTheCommand` is about a host that uses one service at a time and waits, and has that condition in its
statement. Its invariant `OneCommand` says that the command of such a host is in exactly one place: not
there, received and not yet served, due as an EMI answer, with the main loop at one of its four
steps, or in the send buffer. As there is one command only, the two interfaces cannot overwrite each
other's buffers, whatever resets and suspends the bus has.

**`EmiSweepProofs`** (assumes `HostsAssumption`): for every set of sweeps with any ends, `TypeOK` and `StaysInBand`. The
strengthening `InRange` says for each kind what its steps preserve: the ends of the two ranges are small
enough that no 16-bit addition wraps, the carrier keeps the parity of its first channel, and the BLE sweep has
two passes (with a third, `NextBle` would leave the band). `SetUpInRange` and `IterateInRange` show it for
one context, `OneContextChanges` for the three that exist, of which one is shared.

`RoundsAreComplete` needs an induction over the channels of a round, and that is `RoundInv`: what the round has
tried, tested or with a test that did not start, is all that lies between its first channel and the present one in
the order of its kind (`Passed`), which for the carrier and for the BLE sweep are two passes or more. `SweepGoesOn` shows that one call of
`iteration_dif_case` adds the one channel that comes next, or ends the round with the whole band. There is no
hypothesis: sweeps that are started over by another command in the middle of a round are included, and any channel may
be one whose test fails.

**`DongleProofs`** (assumes `DongleAssumption`): for any number of handles, queued events and contents of a
report, `TypeOK`, `StateMatchesController`, `NotifiesOnPairedLink`, `BlinksUntilItCommunicates` and, of the
driver below, `ReportsAreReleased` and `SendsWhatWasAccepted`. Two invariants carry the proof. `BufferOK` ties
`sendBusy` to the steps of a send and to the DMA. `QueueOK` is about the events that wait: `Fits` says what each
of them tells about the controller as it is now, `MayFollow` which may wait behind which; with the two, what an event
announces is still so when its handler runs, or the event that ended it is in the queue behind it. `Taken` and `Posted`
say what happens to the queue, `TakeInv` and `PostInv` what follows when little else changes, and each handler has its
lemma. The handlers of `profile.c` look at no clock and compare few handles, so nothing else is assumed of the
peer than what `Dongle` has it do.

Every property of a passing run is stated by one of these theorems, except liveness: `EveryRequestIsServed`,
`SwitchAppTakesEffect`, `EveryMessageArrives` and `EveryCommandIsAnswered` are only model-checked, because the
prover handles neither fairness nor ENABLED. Where a theorem has a hypothesis about the host, the line or the
flash, the run of the same property has an environment that meets it; what happens without is said with the theorem
or under Findings.

## 6. Plan

The order follows what matters most to someone who uses these tools.

1. *EMI controller* (done): model, service, FIFO, proofs.
2. *Update* (done): application, metadata, transport, the composition of application and metadata, and proofs of
   all of them. Open: the composition of application and metadata with an erase that may fail, whose mixtures the second
   boot would have to interpret.
3. *UCM* and *dongle* (done), with proofs.
4. *Sweeps* and the *USB driver of the EMI firmware* (done), with proofs.
5. *What liveness rests on*: the safety halves of the four liveness properties, as step lemmas that can be proved
   without fairness: that the measure by which a request, a message, an update or an answer comes closer to its end never
   grows but by a fault. `Budget` is one of them.
6. *Weaker hypotheses*: `RingIsFifo` for as many requests as the ring has slots to spare (done), and
   `IdleMeansSilent` for tests that are stopped by a STOP before one of another kind starts.

### Not modelled

* *Host tools*: executables without source; they are the environment, and where a property needs a
  host that waits or keeps to a protocol the run says so.
* *Vendor SDK and BLE stack*: nearly all lines of the repository are drivers, headers and tables of the chip
  and of third parties, present twice (once for each firmware), of which the firmwares call little, and
  libraries without source. `peripheral_usb.c` is modelled as far as the USB driver depends on it; of the rest, the models
  take the functions that are called as their environment. For this reason the share of the
  repository's lines that `map` covers is small, although it covers nearly all that
  the firmwares themselves decide.
* *Flash write protection*: not reached. *Initialisation and start-up*: straight lines of calls, whose result is `Init`.
* *NOOS*: its queues and software timers are called only by the stack library; `app_main_loop` returns 1 on
  every path, so the loop never sleeps. What the models take from it is that it goes on.
* *CRC-16*: a table; the models use it as a function that tells apart what they distinguish.
* *Keyboard and VIA endpoints, endpoint halts, remote wake-up*: see "What is abstracted".
