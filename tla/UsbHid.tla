------------------------------- MODULE UsbHid -------------------------------
(***************************************************************************)
(* The USB HID driver of the dongle, USB_BSP/bsp_usb_hid_iap.c: two IN     *)
(* endpoints with a sendBusy flag each, the readiness of the control       *)
(* interface, and the events of the USB interrupt that change them.        *)
(*                                                                         *)
(* Reports are sent from the task of the BLE stack, one at a time; each    *)
(* step of a send is a step here, and the interrupt, the controller and    *)
(* the host may come between any two of them. The VIA interface is left    *)
(* out: nothing in the dongle sends on it or reads its readiness. So is    *)
(* the content of keyboard reports; that of control reports is not, since  *)
(* a property is about it.                                                 *)
(*                                                                         *)
(* A definition marked "Slip" is a plausible mistake in the definition     *)
(* after it; no action uses it.                                            *)
(***************************************************************************)
EXTENDS Integers, Sequences

CONSTANT Payloads    \* contents of control reports

VARIABLES
  KeybReport,     \* [sendBusy, kb_led_state_recving]
  CtlReport,      \* [preReady, ready, sendBusy]
  DataSendBuf,    \* what the control endpoint sends: [id, data]
  task,           \* where the task of the stack is: [pc, report]
  active,         \* the endpoints are active (SET_CONFIGURATION)
  suspended,      \* the bus is suspended
  ep0,            \* the control transfer under way
  in,             \* IN endpoints: "FREE", "ARMED", or "LOADED" by the DMA
  completed,      \* IN endpoints whose TRANSMIT_END interrupt is pending
  sending,        \* what the DMA has read for the control endpoint
  accepted,       \* history: the control report accepted, until TRANSMIT_END
  dropped,        \* history: endpoints whose transfer a bus reset ended
  echoed          \* history: an OUT report 0xAA was echoed

usbVars == <<KeybReport, CtlReport, DataSendBuf, task, active, suspended, ep0, in,
             completed, sending, accepted, dropped, echoed>>
bus == <<active, suspended, ep0>>

Endpoints == {"KB", "CTL"}
Reports == [id : {"KB_REPORT_ID", "MOUSE_REPORT_ID"}, data : Payloads]
Nothing == [id |-> "NONE", data |-> "NONE"]
SendSteps == {"IDLE", "KB_ARM", "CTL_ID", "CTL_DATA", "CTL_ARM"}

UsbInit ==
  /\ KeybReport = [sendBusy |-> FALSE, kb_led_state_recving |-> FALSE]
  /\ CtlReport = [preReady |-> FALSE, ready |-> FALSE, sendBusy |-> FALSE]
  /\ DataSendBuf = Nothing /\ sending = Nothing /\ accepted = Nothing
  /\ task = [pc |-> "IDLE", report |-> Nothing]
  /\ active = FALSE /\ suspended = FALSE /\ ep0 = "IDLE"
  /\ in = [e \in Endpoints |-> "FREE"] /\ completed = {}
  /\ dropped = {} /\ echoed = FALSE

\* After a restart of the chip, which the host sees as a new device.
UsbRestart ==
  /\ KeybReport' = [sendBusy |-> FALSE, kb_led_state_recving |-> FALSE]
  /\ CtlReport' = [preReady |-> FALSE, ready |-> FALSE, sendBusy |-> FALSE]
  /\ DataSendBuf' = Nothing /\ sending' = Nothing /\ accepted' = Nothing
  /\ task' = [pc |-> "IDLE", report |-> Nothing]
  /\ active' = FALSE /\ suspended' = FALSE /\ ep0' = "IDLE"
  /\ in' = [e \in Endpoints |-> "FREE"] /\ completed' = {}
  /\ dropped' = {} /\ echoed' = FALSE

-----------------------------------------------------------------------------
(***************************************************************************)
(* Sending, in the task of the stack.                                      *)
(***************************************************************************)
At(pc) == task.pc = pc
Goto(pc) == task' = [task EXCEPT !.pc = pc]
\* Slip: the task remembers the report it has sent.
FinishSlip == Goto("IDLE")
Finish == task' = [pc |-> "IDLE", report |-> Nothing]

\* USB_SendData: an endpoint that is not active refuses.
Arm(e) == in' = IF active THEN [in EXCEPT ![e] = "ARMED"] ELSE in

\* The entry of bsp_usb_hid_keyboard_basic_report_start.
BasicReportStart ==
  /\ IF KeybReport.sendBusy
       THEN UNCHANGED <<KeybReport, task>>
       ELSE /\ KeybReport' = [KeybReport EXCEPT !.sendBusy = TRUE]
            /\ Goto("KB_ARM")
  /\ UNCHANGED <<CtlReport, DataSendBuf, bus, in, completed, sending, accepted, dropped,
                 echoed>>

\* Its USB_SendData, with the flag taken back when it is refused.
BasicReportArm ==
  /\ At("KB_ARM")
  /\ Arm("KB")
  /\ KeybReport' = [KeybReport EXCEPT !.sendBusy = @ /\ active]
  /\ Finish
  /\ UNCHANGED <<CtlReport, DataSendBuf, bus, completed, sending, accepted, dropped, echoed>>

\* Slip: the flag is not looked at.
CtlReportFreeSlip == CtlReport.ready
CtlReportFree == CtlReport.ready /\ ~CtlReport.sendBusy

\* The entry of bsp_usb_hid_report_send.
ReportSend(reportID) ==
  /\ IF CtlReportFree
       THEN /\ CtlReport' = [CtlReport EXCEPT !.sendBusy = TRUE]
            /\ \E d \in Payloads : accepted' = [id |-> reportID, data |-> d]
            /\ task' = [pc |-> "CTL_ID", report |-> accepted']
       ELSE UNCHANGED <<CtlReport, task, accepted>>
  /\ UNCHANGED <<KeybReport, DataSendBuf, bus, in, completed, sending, dropped, echoed>>

\* bsp_usp_hid_ctl_tx_data_trigger: the report id, then the data ...
ReportCopy ==
  /\ \/ At("CTL_ID") /\ DataSendBuf' = [DataSendBuf EXCEPT !.id = task.report.id] /\ Goto("CTL_DATA")
     \/ At("CTL_DATA") /\ DataSendBuf' = [DataSendBuf EXCEPT !.data = task.report.data] /\ Goto("CTL_ARM")
  /\ UNCHANGED <<KeybReport, CtlReport, bus, in, completed, sending, accepted, dropped, echoed>>

\* Slip: the flag stays when the endpoint refuses.
ReportArmSlip ==
  /\ At("CTL_ARM") /\ Arm("CTL") /\ Finish
  /\ UNCHANGED <<KeybReport, CtlReport, DataSendBuf, bus, completed, sending, accepted, dropped,
                 echoed>>

\* ... and its USB_SendData, whose status decides about the flag.
ReportArm ==
  /\ At("CTL_ARM") /\ Arm("CTL") /\ Finish
  /\ CtlReport' = [CtlReport EXCEPT !.sendBusy = @ /\ active]
  /\ UNCHANGED <<KeybReport, DataSendBuf, bus, completed, sending, accepted, dropped, echoed>>

-----------------------------------------------------------------------------
(***************************************************************************)
(* The controller (external): the DMA reads the buffer of an armed endpoint*)
(* at some time before the host takes the report. After an echo the content*)
(* is not followed any more.                                               *)
(***************************************************************************)
DmaReads(e) ==
  /\ in[e] = "ARMED"
  /\ in' = [in EXCEPT ![e] = "LOADED"]
  /\ sending' = IF e = "KB" THEN sending ELSE IF echoed THEN Nothing ELSE DataSendBuf
  /\ UNCHANGED <<KeybReport, CtlReport, DataSendBuf, task, bus, completed, accepted, dropped,
                 echoed>>

HostPolls(e) ==
  /\ in[e] = "LOADED" /\ ~suspended
  /\ in' = [in EXCEPT ![e] = "FREE"] /\ completed' = completed \cup {e}
  /\ sending' = IF e = "CTL" THEN Nothing ELSE sending
  /\ UNCHANGED <<KeybReport, CtlReport, DataSendBuf, task, bus, accepted, dropped, echoed>>

-----------------------------------------------------------------------------
(***************************************************************************)
(* bsp_usb_event_handler, in the USB interrupt.                            *)
(***************************************************************************)
TransmitEnd(e) ==
  /\ e \in completed /\ completed' = completed \ {e}
  /\ IF e = "KB"
       THEN KeybReport' = [KeybReport EXCEPT !.sendBusy = FALSE] /\ UNCHANGED CtlReport
       ELSE CtlReport' = [CtlReport EXCEPT !.sendBusy = FALSE] /\ UNCHANGED KeybReport
  /\ dropped' = dropped \ {e}
  /\ accepted' = IF e = "CTL" THEN Nothing ELSE accepted
  /\ UNCHANGED <<DataSendBuf, task, bus, in, sending, echoed>>

\* USB_EVENT_DEVICE_RESET, after USB_ReInit has flushed and disabled the
\* endpoints. No flag of a report is touched.
DeviceReset ==
  /\ active' = FALSE /\ suspended' = FALSE /\ ep0' = "IDLE"
  /\ in' = [e \in Endpoints |-> "FREE"] /\ completed' = {}
  /\ sending' = Nothing
  /\ dropped' = dropped \cup {e \in Endpoints : in[e] # "FREE" \/ e \in completed}
  /\ UNCHANGED <<KeybReport, CtlReport, DataSendBuf, task, accepted, echoed>>

\* USB_EVENT_DEVICE_SUSPEND and USB_EVENT_DEVICE_RESUME.
DeviceSuspendResume ==
  /\ suspended' = ~suspended
  /\ CtlReport' = [CtlReport EXCEPT !.ready = FALSE]
  /\ UNCHANGED <<KeybReport, DataSendBuf, task, active, ep0, in, completed, sending, accepted,
                 dropped, echoed>>

\* USB_REQUEST_DEVICE_SET_CONFIGURATION.
SetConfiguration ==
  /\ ~suspended /\ ep0 = "IDLE" /\ active' = TRUE
  /\ UNCHANGED <<KeybReport, CtlReport, DataSendBuf, task, suspended, ep0, in, completed, sending,
                 accepted, dropped, echoed>>

ReleasedKeyboard(interface) ==
  IF interface = "KB" THEN [KeybReport EXCEPT !.sendBusy = FALSE] ELSE KeybReport

\* A descriptor or state is asked for: of the device, of the keyboard
\* interface (which releases the keyboard) or of the control interface.
GetDescriptor(interface) ==
  /\ ~suspended /\ ep0 = "IDLE" /\ (interface = "DEVICE" \/ active)
  /\ ep0' = "IN_DATA"
  /\ KeybReport' = ReleasedKeyboard(interface)
  /\ CtlReport' = [CtlReport EXCEPT !.preReady = @ \/ interface = "CTL"]
  /\ dropped' = dropped \ ({"KB"} \cap {interface})
  /\ UNCHANGED <<DataSendBuf, task, active, suspended, in, completed, sending, accepted, echoed>>

\* TRANSMIT_END of endpoint 0.
Ep0TransmitEnd ==
  /\ ~suspended /\ ep0 = "IN_DATA" /\ ep0' = "IDLE"
  /\ CtlReport' = [CtlReport EXCEPT !.preReady = FALSE, !.ready = @ \/ CtlReport.preReady]
  /\ UNCHANGED <<KeybReport, DataSendBuf, task, active, suspended, in, completed, sending, accepted,
                 dropped, echoed>>

\* SET_REPORT of the keyboard: the host is going to send the state of the LEDs.
SetReport ==
  /\ ~suspended /\ active /\ ep0 = "IDLE" /\ ep0' = "OUT_DATA"
  /\ KeybReport' = [KeybReport EXCEPT !.kb_led_state_recving = TRUE]
  /\ UNCHANGED <<CtlReport, DataSendBuf, task, active, suspended, in, completed, sending, accepted,
                 dropped, echoed>>

\* RECEIVE_END of endpoint 0.
Ep0ReceiveEnd ==
  /\ ~suspended /\ ep0 = "OUT_DATA" /\ ep0' = "IDLE"
  /\ CtlReport' = [CtlReport EXCEPT !.ready = @ \/ KeybReport.kb_led_state_recving]
  /\ KeybReport' = [KeybReport EXCEPT !.kb_led_state_recving = FALSE]
  /\ UNCHANGED <<DataSendBuf, task, active, suspended, in, completed, sending, accepted, dropped,
                 echoed>>

\* RECEIVE_END of EP_CTL_OUT (the endpoint is taken to listen once it is
\* active): a report 0xAA is sent back, from the buffer of
\* received data, whatever the endpoint is doing.
CtlReceiveEnd(echo) ==
  /\ ~suspended /\ active
  /\ CtlReport' = [CtlReport EXCEPT !.ready = TRUE]
  /\ IF echo THEN Arm("CTL") ELSE UNCHANGED in
  /\ echoed' = (echoed \/ echo)
  /\ UNCHANGED <<KeybReport, DataSendBuf, task, bus, completed, sending, accepted, dropped>>

UsbTransfer == \E e \in Endpoints : TransmitEnd(e)

\* What every host does until the control interface is ready, and what it
\* may do at any time.
UsbEnumeration ==
  /\ ~CtlReport.ready
  /\ SetConfiguration \/ GetDescriptor("CTL") \/ Ep0TransmitEnd

UsbHost ==
  \/ DeviceReset \/ DeviceSuspendResume \/ SetConfiguration
  \/ \E i \in {"DEVICE", "KB", "CTL"} : GetDescriptor(i)
  \/ Ep0TransmitEnd \/ SetReport \/ Ep0ReceiveEnd
  \/ \E echo \in BOOLEAN : CtlReceiveEnd(echo)

UsbSend == BasicReportArm \/ ReportCopy \/ ReportArm
UsbController == \E e \in Endpoints : DmaReads(e) \/ HostPolls(e)

-----------------------------------------------------------------------------
(***************************************************************************)
(* Properties.                                                             *)
(***************************************************************************)
UsbTypeOK ==
  /\ KeybReport \in [sendBusy : BOOLEAN, kb_led_state_recving : BOOLEAN]
  /\ CtlReport \in [preReady : BOOLEAN, ready : BOOLEAN, sendBusy : BOOLEAN]
  /\ \A b \in {DataSendBuf, sending} :
       b \in [id : {"KB_REPORT_ID", "MOUSE_REPORT_ID", "NONE"}, data : Payloads \cup {"NONE"}]
  /\ task.pc \in SendSteps \cup {"TMR_ENABLE"} /\ task.report \in Reports \cup {Nothing}
  /\ task.report \in Reports <=> task.pc \in {"CTL_ID", "CTL_DATA", "CTL_ARM"}
  /\ active \in BOOLEAN /\ suspended \in BOOLEAN /\ echoed \in BOOLEAN
  /\ ep0 \in {"IDLE", "IN_DATA", "OUT_DATA"}
  /\ in \in [Endpoints -> {"FREE", "ARMED", "LOADED"}]
  /\ completed \subseteq Endpoints /\ dropped \subseteq Endpoints
  /\ accepted \in Reports \cup {Nothing}

UnderWay(e) == in[e] # "FREE" \/ e \in completed

\* A keyboard report blocks the next one only while it is under way or about
\* to be armed; one that a bus reset has ended blocks until the host has
\* asked for the report descriptor, and not longer.
KeyboardIsReleased ==
  KeybReport.sendBusy => UnderWay("KB") \/ At("KB_ARM") \/ "KB" \in dropped

\* The same for the control endpoint, except that what a bus reset has ended
\* blocks for ever: nothing but TRANSMIT_END clears this flag.
ControlIsReleased ==
  CtlReport.sendBusy =>
    UnderWay("CTL") \/ task.pc \in {"CTL_ID", "CTL_DATA", "CTL_ARM"} \/ "CTL" \in dropped

\* Neither endpoint is blocked by a report that is no longer under way, but
\* for what a bus reset has ended.
ReportsAreReleased == KeyboardIsReleased /\ ControlIsReleased

\* What the host is sent on the control endpoint is the report accepted
\* last, never a mixture of two: no report is copied into the buffer while
\* the one before may still be read from it (unless an echo has interfered).
SendsWhatWasAccepted ==
  in["CTL"] = "LOADED" /\ ~echoed => sending = accepted
=============================================================================
