---------------------------- MODULE DongleProofs ----------------------------
(***************************************************************************)
(* Proofs about Dongle, for every number of handles and queued events and  *)
(* every content of a report.                                              *)
(*                                                                         *)
(* UsbInv relates the flags of the USB driver to the steps of a send.      *)
(* QueueOK says of every event that waits what it tells about the          *)
(* controller (Fits), and of every two of them which may come first        *)
(* (MayFollow): an event that is handled was true when it was posted, and  *)
(* what has changed since is in the queue behind it.                       *)
(***************************************************************************)
EXTENDS Dongle, TLAPS

(***************************************************************************)
(* USB.                                                                    *)
(***************************************************************************)
Sends == {"CTL_ID", "CTL_DATA", "CTL_ARM"}
Keyb == [sendBusy : BOOLEAN, kb_led_state_recving : BOOLEAN]
Ctl == [preReady : BOOLEAN, ready : BOOLEAN, sendBusy : BOOLEAN]
Buffer == [id : {"KB_REPORT_ID", "MOUSE_REPORT_ID", "NONE"}, data : Payloads \cup {"NONE"}]
Task == [pc : SendSteps \cup {"TMR_ENABLE"}, report : Reports \cup {Nothing}]

\* UsbTypeOK, and that the task is a record.
UsbTypes ==
  /\ KeybReport \in Keyb /\ CtlReport \in Ctl /\ DataSendBuf \in Buffer /\ sending \in Buffer
  /\ task \in Task /\ (task.report \in Reports <=> task.pc \in Sends)
  /\ active \in BOOLEAN /\ suspended \in BOOLEAN /\ echoed \in BOOLEAN
  /\ ep0 \in {"IDLE", "IN_DATA", "OUT_DATA"}
  /\ in \in [Endpoints -> {"FREE", "ARMED", "LOADED"}]
  /\ completed \subseteq Endpoints /\ dropped \subseteq Endpoints
  /\ accepted \in Reports \cup {Nothing}

\* Until an echo interferes, sendBusy is what keeps a report from being copied
\* over the one before.
BufferOK ==
  ~echoed =>
    /\ UnderWay("CTL") => CtlReport.sendBusy /\ task.pc \notin Sends
    /\ ~(in["CTL"] # "FREE" /\ "CTL" \in completed)
    /\ task.pc \in Sends => CtlReport.sendBusy /\ accepted = task.report
    /\ At("CTL_DATA") => DataSendBuf.id = task.report.id
    /\ At("CTL_ARM") => DataSendBuf = task.report
    /\ in["CTL"] = "ARMED" => DataSendBuf = accepted
    /\ in["CTL"] = "LOADED" => sending = accepted

UsbInv == UsbTypes /\ ReportsAreReleased /\ BufferOK

LEMMA UsbTypesAreTypes == UsbTypes => UsbTypeOK
  BY DEF UsbTypes, UsbTypeOK, Keyb, Ctl, Buffer, Task, Sends

\* The flags change one at a time.
LEMMA KeybFlags ==
  ASSUME NEW r \in Keyb, NEW p \in BOOLEAN
  PROVE  /\ [r EXCEPT !.sendBusy = p] \in Keyb /\ [r EXCEPT !.sendBusy = p].sendBusy = p
         /\ [r EXCEPT !.kb_led_state_recving = p] \in Keyb
         /\ [r EXCEPT !.kb_led_state_recving = p].sendBusy = r.sendBusy
  BY DEF Keyb

LEMMA CtlFlags ==
  ASSUME NEW r \in Ctl, NEW p \in BOOLEAN
  PROVE  /\ [r EXCEPT !.sendBusy = p] \in Ctl /\ [r EXCEPT !.sendBusy = p].sendBusy = p
         /\ [r EXCEPT !.ready = p] \in Ctl /\ [r EXCEPT !.ready = p].sendBusy = r.sendBusy
         /\ [r EXCEPT !.preReady = p] \in Ctl /\ [r EXCEPT !.preReady = p].sendBusy = r.sendBusy
  BY DEF Ctl

LEMMA NothingIsNoReport == Nothing \notin Reports /\ Nothing \in Buffer /\ Reports \subseteq Buffer
  BY DEF Nothing, Reports, Buffer

LEMMA TaskSteps ==
  ASSUME NEW t \in Task, NEW pc \in SendSteps \cup {"TMR_ENABLE"}
  PROVE  /\ [t EXCEPT !.pc = pc] \in Task
         /\ [t EXCEPT !.pc = pc].pc = pc /\ [t EXCEPT !.pc = pc].report = t.report
  BY DEF Task

LEMMA FinishedTask ==
  ASSUME Finish
  PROVE  task' \in Task /\ task'.pc = "IDLE" /\ task'.report = Nothing
  BY DEF Finish, Task, SendSteps

LEMMA UsbInitInv == UsbInit => UsbInv
  <1> SUFFICES ASSUME UsbInit PROVE UsbInv
    OBVIOUS
  <1>1. UsbTypes
    BY NothingIsNoReport DEF UsbInit, UsbTypes, Keyb, Ctl, Task, SendSteps, Sends
  <1>2. ReportsAreReleased
    BY DEF UsbInit, ReportsAreReleased, KeyboardIsReleased, ControlIsReleased
  <1>3. BufferOK
    BY DEF UsbInit, BufferOK, UnderWay, Endpoints, At, Sends
  <1>4. QED
    BY <1>1, <1>2, <1>3 DEF UsbInv

LEMMA UsbRestartInv == UsbRestart => UsbInv'
  <1> SUFFICES ASSUME UsbRestart PROVE UsbInv'
    OBVIOUS
  <1>1. UsbTypes'
    BY NothingIsNoReport DEF UsbRestart, UsbTypes, Keyb, Ctl, Task, SendSteps, Sends
  <1>2. ReportsAreReleased'
    BY DEF UsbRestart, ReportsAreReleased, KeyboardIsReleased, ControlIsReleased
  <1>3. BufferOK'
    BY DEF UsbRestart, BufferOK, UnderWay, Endpoints, At, Sends
  <1>4. QED
    BY <1>1, <1>2, <1>3 DEF UsbInv

LEMMA UsbUnchangedInv == UsbInv /\ UNCHANGED usbVars => UsbInv'
  <1> SUFFICES ASSUME UsbInv, UNCHANGED usbVars PROVE UsbInv'
    OBVIOUS
  <1>1. UsbTypes'
    BY DEF UsbInv, usbVars, bus, UsbTypes
  <1>2. ReportsAreReleased'
    BY DEF UsbInv, usbVars, ReportsAreReleased, KeyboardIsReleased, ControlIsReleased, UnderWay, At
  <1>3. BufferOK'
    BY DEF UsbInv, usbVars, BufferOK, UnderWay, At
  <1>4. QED
    BY <1>1, <1>2, <1>3 DEF UsbInv

(***************************************************************************)
(* Sending.                                                                *)
(***************************************************************************)
LEMMA BasicReportStartInv ==
  ASSUME UsbInv, At("IDLE"), BasicReportStart
  PROVE  UsbInv'
  <1>0. UsbTypes /\ ReportsAreReleased /\ BufferOK
    BY DEF UsbInv
  <1>1. CASE KeybReport.sendBusy
    <2>1. UNCHANGED usbVars
      BY <1>1 DEF BasicReportStart, usbVars, bus
    <2>2. QED
      BY <2>1, UsbUnchangedInv
  <1>2. CASE ~KeybReport.sendBusy
    <2>1. /\ KeybReport' = [KeybReport EXCEPT !.sendBusy = TRUE]
          /\ task' = [task EXCEPT !.pc = "KB_ARM"]
          /\ UNCHANGED <<CtlReport, DataSendBuf, bus, in, completed, sending, accepted, dropped,
                         echoed>>
      BY <1>2 DEF BasicReportStart, Goto
    <2>2. KeybReport' \in Keyb
      BY <1>0, <2>1, KeybFlags DEF UsbTypes
    <2>3. task' \in Task /\ task'.pc = "KB_ARM" /\ task'.report = task.report /\ task.pc = "IDLE"
      BY <1>0, <2>1, TaskSteps DEF UsbTypes, SendSteps, At
    <2>4. UsbTypes'
      BY <1>0, <2>1, <2>2, <2>3 DEF UsbTypes, bus, Sends
    <2>5. ReportsAreReleased'
      BY <1>0, <2>1, <2>3 DEF ReportsAreReleased, KeyboardIsReleased, ControlIsReleased, UnderWay, At
    <2>6. BufferOK'
      BY <1>0, <2>1, <2>3 DEF BufferOK, UnderWay, At, Sends
    <2>7. QED
      BY <2>4, <2>5, <2>6 DEF UsbInv
  <1>3. QED
    BY <1>1, <1>2

\* An endpoint that is armed is under way.
LEMMA ArmFacts ==
  ASSUME UsbTypes, NEW e \in Endpoints, Arm(e)
  PROVE  /\ in' \in [Endpoints -> {"FREE", "ARMED", "LOADED"}]
         /\ active => in'[e] = "ARMED"
         /\ ~active => in' = in
         /\ \A f \in Endpoints : f # e => in'[f] = in[f]
  BY DEF UsbTypes, Arm

LEMMA BasicReportArmInv == UsbInv /\ BasicReportArm => UsbInv'
  <1> SUFFICES ASSUME UsbInv, BasicReportArm PROVE UsbInv'
    OBVIOUS
  <1> DEFINE p == KeybReport.sendBusy /\ active
  <1>0. UsbTypes /\ ReportsAreReleased /\ BufferOK
    BY DEF UsbInv
  <1>1. /\ task.pc = "KB_ARM" /\ KeybReport' = [KeybReport EXCEPT !.sendBusy = p]
        /\ UNCHANGED <<CtlReport, DataSendBuf, bus, completed, sending, accepted, dropped, echoed>>
    BY DEF BasicReportArm, At
  <1>2. /\ in' \in [Endpoints -> {"FREE", "ARMED", "LOADED"}] /\ in'["CTL"] = in["CTL"]
        /\ p => in'["KB"] = "ARMED"
    BY <1>0, ArmFacts DEF BasicReportArm, Endpoints
  <1>3. KeybReport' \in Keyb /\ KeybReport'.sendBusy = p
    <2>1. p \in BOOLEAN
      BY <1>0 DEF UsbTypes, Keyb
    <2> HIDE DEF p
    <2>2. QED
      BY <1>0, <1>1, <2>1, KeybFlags DEF UsbTypes
  <1> HIDE DEF p
  <1>4. task' \in Task /\ task'.pc = "IDLE" /\ task'.report = Nothing
    BY FinishedTask DEF BasicReportArm
  <1>5. UsbTypes'
    BY <1>0, <1>1, <1>2, <1>3, <1>4, NothingIsNoReport DEF UsbTypes, bus, Sends
  <1>6. ReportsAreReleased'
    <2>1. KeyboardIsReleased'
      BY <1>2, <1>3 DEF KeyboardIsReleased, UnderWay
    <2>2. ControlIsReleased'
      BY <1>0, <1>1, <1>2, <1>4 DEF ReportsAreReleased, ControlIsReleased, UnderWay
    <2>3. QED
      BY <2>1, <2>2 DEF ReportsAreReleased
  <1>7. BufferOK'
    BY <1>0, <1>1, <1>2, <1>4 DEF BufferOK, UnderWay, At, Sends
  <1>8. QED
    BY <1>5, <1>6, <1>7 DEF UsbInv

\* No report is accepted while one is under way, unless an echo is.
LEMMA ReportSendInv ==
  ASSUME UsbInv, At("IDLE"), NEW reportID \in {"KB_REPORT_ID", "MOUSE_REPORT_ID"},
         ReportSend(reportID)
  PROVE  UsbInv'
  <1>0. UsbTypes /\ ReportsAreReleased /\ BufferOK
    BY DEF UsbInv
  <1>1. CASE ~CtlReportFree
    <2>1. UNCHANGED usbVars
      BY <1>1 DEF ReportSend, usbVars, bus
    <2>2. QED
      BY <2>1, UsbUnchangedInv
  <1>2. CASE CtlReportFree
    <2>1. PICK d \in Payloads : accepted' = [id |-> reportID, data |-> d]
      BY <1>2 DEF ReportSend
    <2>2. /\ ~CtlReport.sendBusy /\ CtlReport' = [CtlReport EXCEPT !.sendBusy = TRUE]
          /\ task' = [pc |-> "CTL_ID", report |-> accepted']
          /\ UNCHANGED <<KeybReport, DataSendBuf, bus, in, completed, sending, dropped, echoed>>
      BY <1>2 DEF ReportSend, CtlReportFree
    <2>3. accepted' \in Reports
      BY <2>1 DEF Reports
    <2>4. CtlReport' \in Ctl /\ CtlReport'.sendBusy = TRUE
      BY <1>0, <2>2, CtlFlags DEF UsbTypes
    <2>5. task' \in Task /\ task'.pc = "CTL_ID" /\ task'.report = accepted' /\ task.pc = "IDLE"
      BY <2>2, <2>3 DEF Task, SendSteps, At
    <2>6. UsbTypes'
      BY <1>0, <2>2, <2>3, <2>4, <2>5 DEF UsbTypes, bus, Sends
    <2>7. ReportsAreReleased'
      BY <1>0, <2>2, <2>5 DEF ReportsAreReleased, KeyboardIsReleased, ControlIsReleased, UnderWay, At
    <2>8. ~echoed => ~UnderWay("CTL") /\ in["CTL"] = "FREE"
      BY <1>0, <2>2 DEF BufferOK, UnderWay
    <2>9. BufferOK'
      BY <1>0, <2>2, <2>4, <2>5, <2>8 DEF BufferOK, UnderWay, At, Sends
    <2>10. QED
      BY <2>6, <2>7, <2>9 DEF UsbInv
  <1>3. QED
    BY <1>1, <1>2

LEMMA ReportCopyInv == UsbInv /\ ReportCopy => UsbInv'
  <1> SUFFICES ASSUME UsbInv, ReportCopy PROVE UsbInv'
    OBVIOUS
  <1>0. UsbTypes /\ ReportsAreReleased /\ BufferOK
    BY DEF UsbInv
  <1>1. UNCHANGED <<KeybReport, CtlReport, bus, in, completed, sending, accepted, dropped, echoed>>
    BY DEF ReportCopy
  <1>2. task.pc \in Sends /\ task.report \in Reports /\ task.report.id \in {"KB_REPORT_ID", "MOUSE_REPORT_ID"}
        /\ task.report.data \in Payloads
    <2>1. task.pc \in Sends
      BY DEF ReportCopy, At, Sends
    <2>2. task.report \in Reports
      BY <1>0, <2>1 DEF UsbTypes
    <2>3. QED
      BY <2>1, <2>2 DEF Reports
  <1>3. CASE /\ At("CTL_ID") /\ DataSendBuf' = [DataSendBuf EXCEPT !.id = task.report.id]
             /\ Goto("CTL_DATA")
    <2>1. task' \in Task /\ task'.pc = "CTL_DATA" /\ task'.report = task.report
      BY <1>0, <1>3, TaskSteps DEF UsbTypes, Goto, SendSteps
    <2>2. DataSendBuf' \in Buffer /\ DataSendBuf'.id = task.report.id
      BY <1>0, <1>2, <1>3 DEF UsbTypes, Buffer
    <2>3. UsbTypes'
      BY <1>0, <1>1, <1>2, <2>1, <2>2 DEF UsbTypes, bus, Sends
    <2>4. ReportsAreReleased'
      BY <1>0, <1>1, <1>2, <2>1 DEF ReportsAreReleased, KeyboardIsReleased, ControlIsReleased,
         UnderWay, At, Sends
    <2>5. BufferOK'
      BY <1>0, <1>1, <1>2, <2>1, <2>2 DEF BufferOK, UnderWay, At, Sends
    <2>6. QED
      BY <2>3, <2>4, <2>5 DEF UsbInv
  <1>4. CASE /\ At("CTL_DATA") /\ DataSendBuf' = [DataSendBuf EXCEPT !.data = task.report.data]
             /\ Goto("CTL_ARM")
    <2>1. task' \in Task /\ task'.pc = "CTL_ARM" /\ task'.report = task.report
      BY <1>0, <1>4, TaskSteps DEF UsbTypes, Goto, SendSteps
    <2>2. DataSendBuf' \in Buffer /\ (DataSendBuf.id = task.report.id => DataSendBuf' = task.report)
      BY <1>0, <1>2, <1>4 DEF UsbTypes, Buffer, Reports
    <2>3. UsbTypes'
      BY <1>0, <1>1, <1>2, <2>1, <2>2 DEF UsbTypes, bus, Sends
    <2>4. ReportsAreReleased'
      BY <1>0, <1>1, <1>2, <2>1 DEF ReportsAreReleased, KeyboardIsReleased, ControlIsReleased,
         UnderWay, At, Sends
    <2>5. BufferOK'
      BY <1>0, <1>1, <1>2, <1>4, <2>1, <2>2 DEF BufferOK, UnderWay, At, Sends
    <2>6. QED
      BY <2>3, <2>4, <2>5 DEF UsbInv
  <1>5. QED
    BY <1>3, <1>4 DEF ReportCopy

LEMMA ReportArmInv == UsbInv /\ ReportArm => UsbInv'
  <1> SUFFICES ASSUME UsbInv, ReportArm PROVE UsbInv'
    OBVIOUS
  <1> DEFINE p == CtlReport.sendBusy /\ active
  <1>0. UsbTypes /\ ReportsAreReleased /\ BufferOK
    BY DEF UsbInv
  <1>1. /\ task.pc = "CTL_ARM" /\ CtlReport' = [CtlReport EXCEPT !.sendBusy = p]
        /\ UNCHANGED <<KeybReport, DataSendBuf, bus, completed, sending, accepted, dropped, echoed>>
    BY DEF ReportArm, At
  <1>2. /\ in' \in [Endpoints -> {"FREE", "ARMED", "LOADED"}] /\ in'["KB"] = in["KB"]
        /\ active => in'["CTL"] = "ARMED"
        /\ ~active => in' = in
    BY <1>0, ArmFacts DEF ReportArm, Endpoints
  <1>3. CtlReport' \in Ctl /\ CtlReport'.sendBusy = p
    <2>1. p \in BOOLEAN
      BY <1>0 DEF UsbTypes, Ctl
    <2> HIDE DEF p
    <2>2. QED
      BY <1>0, <1>1, <2>1, CtlFlags DEF UsbTypes
  <1>4. task' \in Task /\ task'.pc = "IDLE" /\ task'.report = Nothing
    BY FinishedTask DEF ReportArm
  <1>5. UsbTypes'
    BY <1>0, <1>1, <1>2, <1>3, <1>4, NothingIsNoReport DEF UsbTypes, bus, Sends
  <1>6. ReportsAreReleased'
    <2>1. KeyboardIsReleased'
      BY <1>0, <1>1, <1>2, <1>4 DEF ReportsAreReleased, KeyboardIsReleased, UnderWay, At
    <2>2. ControlIsReleased'
      BY <1>2, <1>3 DEF ControlIsReleased, UnderWay
    <2>3. QED
      BY <2>1, <2>2 DEF ReportsAreReleased
  <1>7. BufferOK'
    <2>1. ~echoed => /\ CtlReport.sendBusy /\ DataSendBuf = accepted
                     /\ in["CTL"] = "FREE" /\ "CTL" \notin completed
      BY <1>0, <1>1 DEF BufferOK, UnderWay, At, Sends
    <2>2. QED
      BY <1>1, <1>2, <1>3, <1>4, <2>1 DEF BufferOK, UnderWay, At, Sends
  <1>8. QED
    BY <1>5, <1>6, <1>7 DEF UsbInv

(***************************************************************************)
(* The controller and the USB interrupt.                                   *)
(***************************************************************************)
LEMMA ControllerInv == UsbInv /\ UsbController => UsbInv'
  <1> SUFFICES ASSUME UsbInv, NEW e \in Endpoints, DmaReads(e) \/ HostPolls(e) PROVE UsbInv'
    BY DEF UsbController
  <1>0. /\ UsbTypes /\ ReportsAreReleased /\ BufferOK
        /\ Nothing \in Buffer /\ "KB" \in Endpoints /\ "CTL" \in Endpoints
    BY NothingIsNoReport DEF UsbInv, Endpoints
  <1>1. CASE DmaReads(e)
    <2>1. /\ in[e] = "ARMED" /\ in' = [in EXCEPT ![e] = "LOADED"]
          /\ sending' = IF e = "KB" THEN sending ELSE IF echoed THEN Nothing ELSE DataSendBuf
          /\ UNCHANGED <<KeybReport, CtlReport, DataSendBuf, task, bus, completed, accepted, dropped,
                         echoed>>
      BY <1>1 DEF DmaReads
    <2>2. /\ in' \in [Endpoints -> {"FREE", "ARMED", "LOADED"}]
          /\ \A f \in Endpoints : in'[f] = "FREE" <=> in[f] = "FREE"
          /\ \A f \in Endpoints : f # e => in'[f] = in[f]
          /\ in'[e] = "LOADED"
      BY <1>0, <2>1 DEF UsbTypes
    <2>3. UsbTypes'
      BY <1>0, <2>1, <2>2 DEF UsbTypes, bus
    <2>4. ReportsAreReleased'
      BY <1>0, <2>1, <2>2 DEF ReportsAreReleased, KeyboardIsReleased, ControlIsReleased, UnderWay, At
    <2>5. BufferOK'
      BY <1>0, <2>1, <2>2 DEF BufferOK, UnderWay, At, Endpoints
    <2>6. QED
      BY <2>3, <2>4, <2>5 DEF UsbInv
  <1>2. CASE HostPolls(e)
    <2>1. /\ in[e] = "LOADED" /\ in' = [in EXCEPT ![e] = "FREE"] /\ completed' = completed \cup {e}
          /\ sending' = IF e = "CTL" THEN Nothing ELSE sending
          /\ UNCHANGED <<KeybReport, CtlReport, DataSendBuf, task, bus, accepted, dropped, echoed>>
      BY <1>2 DEF HostPolls
    <2>2. /\ in' \in [Endpoints -> {"FREE", "ARMED", "LOADED"}] /\ in'[e] = "FREE"
          /\ \A f \in Endpoints : f # e => in'[f] = in[f]
      BY <1>0, <2>1 DEF UsbTypes
    <2>3. UsbTypes'
      BY <1>0, <2>1, <2>2 DEF UsbTypes, bus
    <2>4. ReportsAreReleased'
      BY <1>0, <2>1, <2>2 DEF ReportsAreReleased, KeyboardIsReleased, ControlIsReleased, UnderWay, At
    <2>5. BufferOK'
      BY <1>0, <2>1, <2>2 DEF BufferOK, UnderWay, At, Endpoints
    <2>6. QED
      BY <2>3, <2>4, <2>5 DEF UsbInv
  <1>3. QED
    BY <1>1, <1>2

LEMMA TransmitEndInv == UsbInv /\ UsbTransfer => UsbInv'
  <1> SUFFICES ASSUME UsbInv, NEW e \in Endpoints, TransmitEnd(e) PROVE UsbInv'
    BY DEF UsbTransfer
  <1>0. UsbTypes /\ ReportsAreReleased /\ BufferOK
    BY DEF UsbInv
  <1>1. /\ e \in completed /\ completed' = completed \ {e} /\ dropped' = dropped \ {e}
        /\ UNCHANGED <<DataSendBuf, task, bus, in, sending, echoed>>
    BY DEF TransmitEnd
  <1>2. CASE e = "KB"
    <2>1. KeybReport' = [KeybReport EXCEPT !.sendBusy = FALSE] /\ UNCHANGED <<CtlReport, accepted>>
      BY <1>2 DEF TransmitEnd
    <2>2. KeybReport' \in Keyb /\ KeybReport'.sendBusy = FALSE
      BY <1>0, <2>1, KeybFlags DEF UsbTypes
    <2>3. UsbTypes'
      BY <1>0, <1>1, <2>1, <2>2 DEF UsbTypes, bus
    <2>4. ReportsAreReleased'
      BY <1>0, <1>1, <1>2, <2>1, <2>2 DEF ReportsAreReleased, KeyboardIsReleased, ControlIsReleased,
         UnderWay, At
    <2>5. BufferOK'
      BY <1>0, <1>1, <1>2, <2>1 DEF BufferOK, UnderWay, At
    <2>6. QED
      BY <2>3, <2>4, <2>5 DEF UsbInv
  <1>3. CASE e = "CTL"
    <2>1. /\ CtlReport' = [CtlReport EXCEPT !.sendBusy = FALSE] /\ accepted' = Nothing
          /\ UNCHANGED KeybReport
      BY <1>3 DEF TransmitEnd
    <2>2. CtlReport' \in Ctl /\ CtlReport'.sendBusy = FALSE
      BY <1>0, <2>1, CtlFlags DEF UsbTypes
    <2>3. UsbTypes'
      BY <1>0, <1>1, <2>1, <2>2 DEF UsbTypes, bus
    <2>4. ReportsAreReleased'
      BY <1>0, <1>1, <1>3, <2>1, <2>2 DEF ReportsAreReleased, KeyboardIsReleased, ControlIsReleased,
         UnderWay, At
    <2>5. ~echoed => in["CTL"] = "FREE" /\ task.pc \notin Sends
      BY <1>0, <1>1, <1>3 DEF BufferOK, UnderWay
    <2>6. BufferOK'
      BY <1>1, <1>3, <2>1, <2>5 DEF BufferOK, UnderWay, At, Sends
    <2>7. QED
      BY <2>3, <2>4, <2>6 DEF UsbInv
  <1>4. QED
    BY <1>2, <1>3 DEF Endpoints

LEMMA DeviceResetInv == UsbInv /\ DeviceReset => UsbInv'
  <1> SUFFICES ASSUME UsbInv, DeviceReset PROVE UsbInv'
    OBVIOUS
  <1>0. UsbTypes /\ ReportsAreReleased /\ BufferOK
    BY DEF UsbInv
  <1>1. /\ active' = FALSE /\ suspended' = FALSE /\ ep0' = "IDLE"
        /\ completed' = {} /\ sending' = Nothing
        /\ UNCHANGED <<KeybReport, CtlReport, DataSendBuf, task, accepted, echoed>>
    BY DEF DeviceReset
  <1>2. /\ in' \in [Endpoints -> {"FREE", "ARMED", "LOADED"}]
        /\ \A e \in Endpoints : in'[e] = "FREE"
        /\ dropped' = dropped \cup {e \in Endpoints : UnderWay(e)}
    BY DEF DeviceReset, UnderWay
  <1>3. UsbTypes'
    BY <1>0, <1>1, <1>2, NothingIsNoReport DEF UsbTypes
  <1>4. ReportsAreReleased'
    <2>1. "KB" \in Endpoints /\ "CTL" \in Endpoints
      BY DEF Endpoints
    <2>2. /\ UnderWay("KB") \/ "KB" \in dropped => "KB" \in dropped'
          /\ UnderWay("CTL") \/ "CTL" \in dropped => "CTL" \in dropped'
      BY <1>2, <2>1
    <2>3. QED
      BY <1>0, <1>1, <2>2 DEF ReportsAreReleased, KeyboardIsReleased, ControlIsReleased, At
  <1>5. BufferOK'
    BY <1>0, <1>1, <1>2 DEF BufferOK, UnderWay, At, Endpoints
  <1>6. QED
    BY <1>3, <1>4, <1>5 DEF UsbInv

\* What changes only the readiness of the control interface and the bus.
LEMMA ReadinessInv ==
  ASSUME UsbInv, CtlReport' \in Ctl, CtlReport'.sendBusy = CtlReport.sendBusy,
         KeybReport' \in Keyb, KeybReport'.sendBusy => KeybReport.sendBusy,
         active' \in BOOLEAN, suspended' \in BOOLEAN, ep0' \in {"IDLE", "IN_DATA", "OUT_DATA"},
         dropped' = dropped \/ (dropped' = dropped \ {"KB"} /\ ~KeybReport'.sendBusy),
         UNCHANGED <<DataSendBuf, task, in, completed, sending, accepted, echoed>>
  PROVE  UsbInv'
  <1>0. UsbTypes /\ ReportsAreReleased /\ BufferOK
    BY DEF UsbInv
  <1>1. UsbTypes'
    BY <1>0 DEF UsbTypes
  <1>2. ReportsAreReleased'
    BY <1>0 DEF ReportsAreReleased, KeyboardIsReleased, ControlIsReleased, UnderWay, At
  <1>3. BufferOK'
    BY <1>0 DEF BufferOK, UnderWay, At
  <1>4. QED
    BY <1>1, <1>2, <1>3 DEF UsbInv

LEMMA DeviceSuspendResumeInv == UsbInv /\ DeviceSuspendResume => UsbInv'
  <1> SUFFICES ASSUME UsbInv, DeviceSuspendResume PROVE UsbInv'
    OBVIOUS
  <1>0. UsbTypes
    BY DEF UsbInv
  <1>1. /\ CtlReport' = [CtlReport EXCEPT !.ready = FALSE] /\ suspended' = ~suspended
        /\ UNCHANGED <<KeybReport, DataSendBuf, task, active, ep0, in, completed, sending, accepted,
                       dropped, echoed>>
    BY DEF DeviceSuspendResume
  <1>2. CtlReport' \in Ctl /\ CtlReport'.sendBusy = CtlReport.sendBusy
    BY <1>0, <1>1, CtlFlags DEF UsbTypes
  <1>3. suspended' \in BOOLEAN
    BY <1>1
  <1>4. QED
    BY <1>0, <1>1, <1>2, <1>3, ReadinessInv DEF UsbTypes

LEMMA SetConfigurationInv == UsbInv /\ SetConfiguration => UsbInv'
  <1> SUFFICES ASSUME UsbInv, SetConfiguration PROVE UsbInv'
    OBVIOUS
  <1>0. UsbTypes
    BY DEF UsbInv
  <1>1. /\ active' = TRUE
        /\ UNCHANGED <<KeybReport, CtlReport, DataSendBuf, task, suspended, ep0, in, completed,
                       sending, accepted, dropped, echoed>>
    BY DEF SetConfiguration
  <1>2. QED
    BY <1>0, <1>1, ReadinessInv DEF UsbTypes

LEMMA GetDescriptorInv ==
  ASSUME UsbInv, NEW i \in {"DEVICE", "KB", "CTL"}, GetDescriptor(i)
  PROVE  UsbInv'
  <1> DEFINE p == CtlReport.preReady \/ i = "CTL"
  <1>0. UsbTypes
    BY DEF UsbInv
  <1>1. /\ ep0' = "IN_DATA" /\ CtlReport' = [CtlReport EXCEPT !.preReady = p]
        /\ KeybReport' = IF i = "KB" THEN [KeybReport EXCEPT !.sendBusy = FALSE] ELSE KeybReport
        /\ dropped' = dropped \ ({"KB"} \cap {i})
        /\ UNCHANGED <<DataSendBuf, task, active, suspended, in, completed, sending, accepted, echoed>>
    BY DEF GetDescriptor, ReleasedKeyboard
  <1>2. CtlReport' \in Ctl /\ CtlReport'.sendBusy = CtlReport.sendBusy
    <2>1. p \in BOOLEAN
      BY <1>0 DEF UsbTypes, Ctl
    <2> HIDE DEF p
    <2>2. QED
      BY <1>0, <1>1, <2>1, CtlFlags DEF UsbTypes
  <1> HIDE DEF p
  <1>3. CASE i = "KB"
    <2>1. KeybReport' \in Keyb /\ KeybReport'.sendBusy = FALSE /\ dropped' = dropped \ {"KB"}
      BY <1>0, <1>1, <1>3, KeybFlags DEF UsbTypes
    <2>2. QED
      BY <1>0, <1>1, <1>2, <2>1, ReadinessInv DEF UsbTypes
  <1>4. CASE i # "KB"
    <2>1. KeybReport' = KeybReport /\ dropped' = dropped
      BY <1>1, <1>4
    <2>2. QED
      BY <1>0, <1>1, <1>2, <2>1, ReadinessInv DEF UsbTypes
  <1>5. QED
    BY <1>3, <1>4

LEMMA Ep0TransmitEndInv == UsbInv /\ Ep0TransmitEnd => UsbInv'
  <1> SUFFICES ASSUME UsbInv, Ep0TransmitEnd PROVE UsbInv'
    OBVIOUS
  <1> DEFINE p == CtlReport.ready \/ CtlReport.preReady
  <1>0. UsbTypes
    BY DEF UsbInv
  <1>1. /\ ep0' = "IDLE" /\ CtlReport' = [CtlReport EXCEPT !.preReady = FALSE, !.ready = p]
        /\ UNCHANGED <<KeybReport, DataSendBuf, task, active, suspended, in, completed, sending,
                       accepted, dropped, echoed>>
    BY <1>0 DEF Ep0TransmitEnd, UsbTypes, Ctl
  <1>2. p \in BOOLEAN
    BY <1>0 DEF UsbTypes, Ctl
  <1> HIDE DEF p
  <1>3. CtlReport' \in Ctl /\ CtlReport'.sendBusy = CtlReport.sendBusy
    BY <1>0, <1>1, <1>2 DEF UsbTypes, Ctl
  <1>4. QED
    BY <1>0, <1>1, <1>3, ReadinessInv DEF UsbTypes

LEMMA SetReportInv == UsbInv /\ SetReport => UsbInv'
  <1> SUFFICES ASSUME UsbInv, SetReport PROVE UsbInv'
    OBVIOUS
  <1>0. UsbTypes
    BY DEF UsbInv
  <1>1. /\ ep0' = "OUT_DATA" /\ KeybReport' = [KeybReport EXCEPT !.kb_led_state_recving = TRUE]
        /\ UNCHANGED <<CtlReport, DataSendBuf, task, active, suspended, in, completed, sending,
                       accepted, dropped, echoed>>
    BY DEF SetReport
  <1>2. KeybReport' \in Keyb /\ KeybReport'.sendBusy = KeybReport.sendBusy
    BY <1>0, <1>1, KeybFlags DEF UsbTypes
  <1>3. QED
    BY <1>0, <1>1, <1>2, ReadinessInv DEF UsbTypes

LEMMA Ep0ReceiveEndInv == UsbInv /\ Ep0ReceiveEnd => UsbInv'
  <1> SUFFICES ASSUME UsbInv, Ep0ReceiveEnd PROVE UsbInv'
    OBVIOUS
  <1> DEFINE p == CtlReport.ready \/ KeybReport.kb_led_state_recving
  <1>0. UsbTypes
    BY DEF UsbInv
  <1>1. /\ ep0' = "IDLE" /\ CtlReport' = [CtlReport EXCEPT !.ready = p]
        /\ KeybReport' = [KeybReport EXCEPT !.kb_led_state_recving = FALSE]
        /\ UNCHANGED <<DataSendBuf, task, active, suspended, in, completed, sending, accepted,
                       dropped, echoed>>
    BY DEF Ep0ReceiveEnd
  <1>2. CtlReport' \in Ctl /\ CtlReport'.sendBusy = CtlReport.sendBusy
    <2>1. p \in BOOLEAN
      BY <1>0 DEF UsbTypes, Ctl, Keyb
    <2> HIDE DEF p
    <2>2. QED
      BY <1>0, <1>1, <2>1, CtlFlags DEF UsbTypes
  <1>3. KeybReport' \in Keyb /\ KeybReport'.sendBusy = KeybReport.sendBusy
    BY <1>0, <1>1, KeybFlags DEF UsbTypes
  <1>4. QED
    BY <1>0, <1>1, <1>2, <1>3, ReadinessInv DEF UsbTypes

LEMMA CtlReceiveEndInv ==
  ASSUME UsbInv, NEW echo \in BOOLEAN, CtlReceiveEnd(echo)
  PROVE  UsbInv'
  <1>0. UsbTypes /\ ReportsAreReleased /\ BufferOK
    BY DEF UsbInv
  <1>1. /\ active /\ CtlReport' = [CtlReport EXCEPT !.ready = TRUE]
        /\ UNCHANGED <<KeybReport, DataSendBuf, task, bus, completed, sending, accepted, dropped>>
    BY DEF CtlReceiveEnd
  <1>2. CtlReport' \in Ctl /\ CtlReport'.sendBusy = CtlReport.sendBusy
    BY <1>0, <1>1, CtlFlags DEF UsbTypes
  <1>3. CASE echo = TRUE
    <2>1. echoed' = TRUE /\ Arm("CTL")
      BY <1>3 DEF CtlReceiveEnd
    <2>2. /\ in' \in [Endpoints -> {"FREE", "ARMED", "LOADED"}] /\ in'["KB"] = in["KB"]
          /\ in'["CTL"] = "ARMED"
      BY <1>0, <1>1, <2>1, ArmFacts DEF Endpoints
    <2>3. UsbTypes'
      BY <1>0, <1>1, <1>2, <2>1, <2>2 DEF UsbTypes, bus
    <2>4. ReportsAreReleased'
      BY <1>0, <1>1, <1>2, <2>2 DEF ReportsAreReleased, KeyboardIsReleased, ControlIsReleased,
         UnderWay, At
    <2>5. BufferOK'
      BY <2>1 DEF BufferOK
    <2>6. QED
      BY <2>3, <2>4, <2>5 DEF UsbInv
  <1>4. CASE echo = FALSE
    <2>1. in' = in /\ echoed' = echoed
      BY <1>0, <1>4 DEF CtlReceiveEnd, UsbTypes
    <2>2. QED
      BY <1>0, <1>1, <1>2, <2>1, ReadinessInv DEF UsbTypes, bus
  <1>5. QED
    BY <1>3, <1>4

LEMMA UsbInterruptInv == UsbInv /\ (UsbTransfer \/ UsbEnumeration \/ UsbHost) => UsbInv'
  <1> SUFFICES ASSUME UsbInv, UsbTransfer \/ UsbEnumeration \/ UsbHost PROVE UsbInv'
    OBVIOUS
  <1>1. CASE UsbTransfer
    BY <1>1, TransmitEndInv
  <1>2. CASE UsbEnumeration
    BY <1>2, SetConfigurationInv, GetDescriptorInv, Ep0TransmitEndInv DEF UsbEnumeration
  <1>3. CASE UsbHost
    BY <1>3, DeviceResetInv, DeviceSuspendResumeInv, SetConfigurationInv, GetDescriptorInv,
       Ep0TransmitEndInv, SetReportInv, Ep0ReceiveEndInv, CtlReceiveEndInv DEF UsbHost
  <1>4. QED
    BY <1>1, <1>2, <1>3

LEMMA UsbSendInv == UsbInv /\ UsbSend => UsbInv' /\ task.pc \in {"KB_ARM"} \cup Sends
  BY BasicReportArmInv, ReportCopyInv, ReportArmInv
  DEF UsbSend, BasicReportArm, ReportCopy, ReportArm, At, Sends


(***************************************************************************)
(* Events.                                                                 *)
(***************************************************************************)
PlainTypes ==
  {"STATE_WORKING", "SM_PAIRED", "SM_REESTABLISHED", "SM_FINAL_FAIL", "USER_MSG",
   "DISCONNECTION_COMPLETE"}
Events ==
  {Event(type) : type \in PlainTypes} \cup {AdvReport(wanted) : wanted \in BOOLEAN}
  \cup {ConnectionComplete(0, h) : h \in Handles} \cup {ConnectionComplete(1, INVALID_HANDLE)}
  \cup {QueryComplete(status) : status \in {0, 1}}
  \cup {Notification(kind, h) : kind \in NotificationKinds, h \in Handles}

Elements(s) == {s[i] : i \in DOMAIN s}
Waiting == Elements(events)

Found(e) == e.type = "QUERY_COMPLETE" /\ e.status = 0
Refused(e) == e.type = "CONNECTION_COMPLETE" /\ e.status # 0

\* What an event that waits says of the controller and the link.
Fits(e) ==
  /\ e.type = "STATE_WORKING" => radio = "OFF"
  /\ e.type = "ADV_REPORT" => radio \in {"SCANNING", "INITIATING"}
  /\ e.type = "CONNECTION_COMPLETE" =>
       /\ radio = "STANDBY"
       /\ Linked => e.status = 0 /\ e.handle = link /\ security = "NONE" /\ ~discovering
  /\ Found(e) => radio = "STANDBY" /\ ~discovering /\ security = "NONE"
  /\ e.type = "DISCONNECTION_COMPLETE" => radio = "STANDBY" /\ ~Linked
  /\ e.type = "SM_PAIRED" => radio = "STANDBY" /\ (Linked => security = "PAIRED")
  /\ e.type = "USER_MSG" => radio \in {"STANDBY", "SCANNING"} /\ (Linked => security = "PAIRED")

\* Which event may wait behind which other one.
MayFollow(x, y) ==
  /\ x.type # "STATE_WORKING" /\ y.type # "STATE_WORKING"
  /\ x.type = "ADV_REPORT" => y.type # "USER_MSG"
  /\ x.type = "CONNECTION_COMPLETE" =>
       y.type \notin {"CONNECTION_COMPLETE", "SM_PAIRED", "USER_MSG"} /\ ~Found(y)
  /\ Found(x) => y.type # "CONNECTION_COMPLETE" /\ ~Found(y)
  /\ x.type = "DISCONNECTION_COMPLETE" =>
       y.type \notin {"DISCONNECTION_COMPLETE", "CONNECTION_COMPLETE", "SM_PAIRED"} /\ ~Found(y)
  /\ x.type \in {"SM_PAIRED", "USER_MSG"} => y.type # "CONNECTION_COMPLETE"

Ordered(s) == \A i, j \in DOMAIN s : i < j => MayFollow(s[i], s[j])

\* TypeOK without UsbTypeOK.
BleTypes ==
  /\ Ble_State \in {"SCAN", "CONNECT", "COMMUNICATING"}
  /\ {conn_handle, link, listening} \subseteq Handles \cup {INVALID_HANDLE}
  /\ Len(events) <= MaxEvents + 2
  /\ timer_on \in BOOLEAN /\ led_on \in BOOLEAN /\ led_sta \in BOOLEAN
  /\ radio \in {"OFF", "SCANNING", "INITIATING", "STANDBY"}
  /\ security \in {"NONE", "PAIRING", "PAIRED"}
  /\ discovering \in BOOLEAN /\ subscribed \in BOOLEAN

QueueOK ==
  /\ events \in Seq(Events) /\ Ordered(events) /\ \A e \in Waiting : Fits(e)
  /\ Linked => Len(events) <= MaxEvents

LinkOK ==
  /\ Linked => radio = "STANDBY"
  /\ discovering => Linked /\ security = "NONE"
  /\ security # "NONE" \/ subscribed => Linked
  /\ radio # "STANDBY" => conn_handle = INVALID_HANDLE
  /\ Linked /\ ~Pending("CONNECTION_COMPLETE") => conn_handle = link
  /\ radio = "STANDBY" =>
       Linked \/ Pending("DISCONNECTION_COMPLETE") \/ \E e \in Waiting : Refused(e)
  /\ radio = "OFF" => Pending("STATE_WORKING")

StateOK ==
  /\ Ble_State = "SCAN" => radio \in {"OFF", "SCANNING"}
  /\ Ble_State = "CONNECT" => radio \in {"INITIATING", "STANDBY"}
  /\ Ble_State = "COMMUNICATING" => radio = "STANDBY" /\ ~Pending("CONNECTION_COMPLETE")

BleOK == BleTypes /\ QueueOK /\ LinkOK /\ StateOK

IInv == UsbInv /\ BleOK /\ BlinksUntilItCommunicates

LEMMA EventFacts ==
  ASSUME NEW e \in Events
  PROVE  /\ e.type = "CONNECTION_COMPLETE" /\ e.status = 0 => e.handle \in Handles
         /\ e.type = "NOTIFICATION" => e.kind \in NotificationKinds
  BY DEF Events, PlainTypes, Event, AdvReport, ConnectionComplete, QueryComplete, Notification

LEMMA NewEvents ==
  /\ \A t \in PlainTypes : Event(t) \in Events /\ Event(t).type = t
  /\ \A w \in BOOLEAN : AdvReport(w) \in Events /\ AdvReport(w).type = "ADV_REPORT"
  /\ \A h \in Handles :
       /\ ConnectionComplete(0, h) \in Events
       /\ ConnectionComplete(0, h).type = "CONNECTION_COMPLETE"
       /\ ConnectionComplete(0, h).status = 0 /\ ConnectionComplete(0, h).handle = h
  /\ ConnectionComplete(1, INVALID_HANDLE) \in Events
  /\ ConnectionComplete(1, INVALID_HANDLE).type = "CONNECTION_COMPLETE"
  /\ ConnectionComplete(1, INVALID_HANDLE).status = 1
  /\ \A s \in {0, 1} :
       /\ QueryComplete(s) \in Events
       /\ QueryComplete(s).type = "QUERY_COMPLETE" /\ QueryComplete(s).status = s
  /\ \A k \in NotificationKinds, h \in Handles :
       Notification(k, h) \in Events /\ Notification(k, h).type = "NOTIFICATION"
  <1>1. ASSUME NEW t \in PlainTypes PROVE Event(t) \in Events /\ Event(t).type = t
    BY DEF Events, Event
  <1>2. ASSUME NEW w \in BOOLEAN
        PROVE  AdvReport(w) \in Events /\ AdvReport(w).type = "ADV_REPORT"
    BY DEF Events, AdvReport
  <1>3. ASSUME NEW h \in Handles
        PROVE  /\ ConnectionComplete(0, h) \in Events
               /\ ConnectionComplete(0, h).type = "CONNECTION_COMPLETE"
               /\ ConnectionComplete(0, h).status = 0 /\ ConnectionComplete(0, h).handle = h
    BY DEF Events, ConnectionComplete
  <1>4. /\ ConnectionComplete(1, INVALID_HANDLE) \in Events
        /\ ConnectionComplete(1, INVALID_HANDLE).type = "CONNECTION_COMPLETE"
        /\ ConnectionComplete(1, INVALID_HANDLE).status = 1
    BY DEF Events, ConnectionComplete
  <1>5. ASSUME NEW s \in {0, 1}
        PROVE  /\ QueryComplete(s) \in Events
               /\ QueryComplete(s).type = "QUERY_COMPLETE" /\ QueryComplete(s).status = s
    BY DEF Events, QueryComplete
  <1>6. ASSUME NEW k \in NotificationKinds, NEW h \in Handles
        PROVE  Notification(k, h) \in Events /\ Notification(k, h).type = "NOTIFICATION"
    BY DEF Events, Notification
  <1>7. QED
    BY <1>1, <1>2, <1>3, <1>4, <1>5, <1>6

LEMMA PendingWaits ==
  /\ \A t : Pending(t) <=> \E e \in Waiting : e.type = t
  /\ \A t : Pending(t)' <=> \E e \in Waiting' : e.type = t
  BY DEF Pending, Types, Waiting, Elements

LEMMA QueueTail ==
  ASSUME NEW s \in Seq(Events), s # <<>>, Ordered(s)
  PROVE  /\ Head(s) \in Events /\ Tail(s) \in Seq(Events) /\ Ordered(Tail(s))
         /\ Len(Tail(s)) = Len(s) - 1
         /\ Elements(s) = {Head(s)} \cup Elements(Tail(s))
         /\ \A y \in Elements(Tail(s)) : MayFollow(Head(s), y)
  <1>1. /\ Len(s) \in Nat \ {0} /\ DOMAIN s = 1 .. Len(s) /\ Head(s) = s[1]
        /\ Tail(s) \in Seq(Events) /\ Len(Tail(s)) = Len(s) - 1
        /\ DOMAIN Tail(s) = 1 .. Len(s) - 1
        /\ \A i \in 1 .. Len(s) - 1 : Tail(s)[i] = s[i + 1]
    OBVIOUS
  <1>2. Head(s) \in Events
    BY <1>1
  <1>3. Ordered(Tail(s))
    <2> SUFFICES ASSUME NEW i \in 1 .. Len(s) - 1, NEW j \in 1 .. Len(s) - 1, i < j
                 PROVE  MayFollow(s[i + 1], s[j + 1])
      BY <1>1 DEF Ordered
    <2>1. i + 1 \in DOMAIN s /\ j + 1 \in DOMAIN s /\ i + 1 < j + 1
      BY <1>1
    <2>2. QED
      BY <2>1 DEF Ordered
  <1>4. \A i \in DOMAIN s : i = 1 \/ (i - 1 \in DOMAIN Tail(s) /\ s[i] = Tail(s)[i - 1])
    BY <1>1
  <1>5. \A i \in DOMAIN Tail(s) : i + 1 \in DOMAIN s /\ 1 < i + 1 /\ Tail(s)[i] = s[i + 1]
    BY <1>1
  <1>6. 1 \in DOMAIN s
    BY <1>1
  <1>7. Elements(s) = {Head(s)} \cup Elements(Tail(s))
    BY <1>1, <1>4, <1>5, <1>6 DEF Elements
  <1>8. \A y \in Elements(Tail(s)) : MayFollow(Head(s), y)
    BY <1>1, <1>5, <1>6 DEF Elements, Ordered
  <1>9. QED
    BY <1>1, <1>2, <1>3, <1>7, <1>8

LEMMA QueueAppend ==
  ASSUME NEW s \in Seq(Events), NEW e \in Events, Ordered(s),
         \A x \in Elements(s) : MayFollow(x, e)
  PROVE  /\ Append(s, e) \in Seq(Events) /\ Ordered(Append(s, e))
         /\ Len(Append(s, e)) = Len(s) + 1
         /\ Elements(Append(s, e)) = Elements(s) \cup {e}
  <1> DEFINE t == Append(s, e)
  <1>1. /\ Len(s) \in Nat /\ DOMAIN s = 1 .. Len(s)
        /\ t \in Seq(Events) /\ Len(t) = Len(s) + 1
        /\ DOMAIN t = 1 .. Len(s) + 1 /\ t[Len(s) + 1] = e
        /\ \A i \in 1 .. Len(s) : t[i] = s[i]
    OBVIOUS
  <1> HIDE DEF t
  <1>2. Elements(t) = Elements(s) \cup {e}
    <2>1. \A i \in DOMAIN t : i = Len(s) + 1 \/ i \in DOMAIN s
      BY <1>1
    <2>2. Len(s) + 1 \in DOMAIN t /\ \A i \in DOMAIN s : i \in DOMAIN t
      BY <1>1
    <2>3. QED
      BY <1>1, <2>1, <2>2 DEF Elements
  <1>3. Ordered(t)
    <2> SUFFICES ASSUME NEW i \in DOMAIN t, NEW j \in DOMAIN t, i < j PROVE MayFollow(t[i], t[j])
      BY DEF Ordered
    <2>1. i \in DOMAIN s /\ t[i] = s[i]
      BY <1>1
    <2>2. CASE j = Len(s) + 1
      BY <1>1, <2>1, <2>2 DEF Elements
    <2>3. CASE j # Len(s) + 1
      <3>1. j \in DOMAIN s /\ t[j] = s[j]
        BY <1>1, <2>3
      <3>2. QED
        BY <2>1, <3>1 DEF Ordered
    <2>4. QED
      BY <2>2, <2>3
  <1>4. QED
    BY <1>1, <1>2, <1>3 DEF t

\* What the task takes from the queue, and what stays.
LEMMA Taken ==
  ASSUME BleOK, NEW type, Take(type)
  PROVE  /\ Head(events) \in Events /\ Head(events).type = type
         /\ Head(events) \in Waiting /\ Fits(Head(events))
         /\ Waiting = {Head(events)} \cup Waiting'
         /\ events' \in Seq(Events) /\ Ordered(events')
         /\ \A y \in Waiting' : y \in Waiting /\ Fits(y) /\ MayFollow(Head(events), y)
         /\ Len(events) \in Nat /\ Len(events') \in Nat /\ Len(events') < Len(events)
  <1>1. /\ events \in Seq(Events) /\ events # <<>> /\ Ordered(events)
        /\ Head(events).type = type /\ events' = Tail(events) /\ \A e \in Waiting : Fits(e)
    BY DEF BleOK, QueueOK, Take, IsNext
  <1>2. /\ Head(events) \in Events /\ Tail(events) \in Seq(Events) /\ Ordered(Tail(events))
        /\ Len(Tail(events)) = Len(events) - 1
        /\ Waiting = {Head(events)} \cup Elements(Tail(events))
        /\ \A y \in Elements(Tail(events)) : MayFollow(Head(events), y)
    BY <1>1, QueueTail DEF Waiting
  <1>3. Waiting' = Elements(Tail(events))
    BY <1>1 DEF Waiting
  <1>4. Len(events) \in Nat /\ Len(events') \in Nat /\ Len(events') < Len(events)
    BY <1>1, <1>2
  <1>5. QED
    BY <1>1, <1>2, <1>3, <1>4

\* What is posted comes last.
LEMMA Posted ==
  ASSUME BleOK, NEW e \in Events, Post(e), \A x \in Waiting : MayFollow(x, e)
  PROVE  /\ events' \in Seq(Events) /\ Ordered(events') /\ Waiting' = Waiting \cup {e}
         /\ Len(events) \in Nat /\ Len(events') = Len(events) + 1
         /\ Room => Len(events') <= MaxEvents /\ Len(events') <= MaxEvents + 2
  <1>1. events \in Seq(Events) /\ Ordered(events) /\ events' = Append(events, e)
    BY DEF BleOK, QueueOK, Post
  <1>2. /\ events' \in Seq(Events) /\ Ordered(events') /\ Len(events') = Len(events) + 1
        /\ Waiting' = Waiting \cup {e}
    BY <1>1, QueueAppend DEF Waiting
  <1>3. Len(events) \in Nat
    BY <1>1
  <1>4. QED
    BY <1>2, <1>3, DongleAssumption DEF Room

\* An event is taken and nothing that the invariant speaks of changes.
LEMMA TakeInv ==
  ASSUME BleOK, NEW type, Take(type),
         type \notin {"STATE_WORKING", "CONNECTION_COMPLETE", "DISCONNECTION_COMPLETE"},
         UNCHANGED <<Ble_State, conn_handle, radio, link, discovering, listening, security, led>>,
         subscribed' \in BOOLEAN, subscribed' => Linked
  PROVE  BleOK'
  <1> DEFINE h == Head(events)
  <1>1. /\ h.type = type /\ Waiting = {h} \cup Waiting'
        /\ events' \in Seq(Events) /\ Ordered(events') /\ \A y \in Waiting' : Fits(y)
        /\ Len(events) \in Nat /\ Len(events') \in Nat /\ Len(events') < Len(events)
    BY Taken
  <1> HIDE DEF h
  <1>2. BleTypes /\ QueueOK /\ LinkOK /\ StateOK /\ MaxEvents \in Nat
    BY DongleAssumption DEF BleOK
  <1>3. Linked' = Linked
    BY DEF Linked
  <1>4. BleTypes'
    BY <1>1, <1>2 DEF BleTypes, led
  <1>5. QueueOK'
    <2>1. \A y \in Waiting' : Fits(y)'
      BY <1>1, <1>3 DEF Fits
    <2>2. Linked' => Len(events') <= MaxEvents
      BY <1>1, <1>2, <1>3 DEF QueueOK
    <2>3. QED
      BY <1>1, <2>1, <2>2 DEF QueueOK
  <1>6. /\ \A t : t # type => (Pending(t)' <=> Pending(t))
        /\ (\E e \in Waiting' : Refused(e)) <=> (\E e \in Waiting : Refused(e))
    BY <1>1, PendingWaits DEF Refused
  <1>7. LinkOK'
    BY <1>2, <1>3, <1>6 DEF LinkOK
  <1>8. StateOK'
    BY <1>2, <1>6 DEF StateOK
  <1>9. QED
    BY <1>4, <1>5, <1>7, <1>8 DEF BleOK

\* An event is posted with what it says being so.
LEMMA PostInv ==
  ASSUME BleOK, NEW e \in Events, Post(e), Room,
         e.type # "CONNECTION_COMPLETE",
         \A x \in Waiting : MayFollow(x, e) /\ Fits(x)', Fits(e)',
         UNCHANGED <<Ble_State, conn_handle, radio, link, listening, led>>,
         discovering' \in BOOLEAN, discovering' => Linked /\ security' = "NONE",
         security' \in {"NONE", "PAIRING", "PAIRED"}, subscribed' \in BOOLEAN,
         security' # "NONE" \/ subscribed' => Linked
  PROVE  BleOK'
  <1>1. /\ events' \in Seq(Events) /\ Ordered(events') /\ Waiting' = Waiting \cup {e}
        /\ Len(events') <= MaxEvents /\ Len(events') <= MaxEvents + 2
    BY Posted
  <1>2. BleTypes /\ QueueOK /\ LinkOK /\ StateOK
    BY DEF BleOK
  <1>3. Linked' = Linked
    BY DEF Linked
  <1>4. BleTypes'
    BY <1>1, <1>2 DEF BleTypes, led
  <1>5. QueueOK'
    BY <1>1 DEF QueueOK
  <1>6. /\ Pending("CONNECTION_COMPLETE")' <=> Pending("CONNECTION_COMPLETE")
        /\ Pending("DISCONNECTION_COMPLETE") => Pending("DISCONNECTION_COMPLETE")'
        /\ Pending("STATE_WORKING") => Pending("STATE_WORKING")'
        /\ (\E x \in Waiting : Refused(x)) => (\E x \in Waiting' : Refused(x))
    BY <1>1, PendingWaits
  <1>7. LinkOK'
    BY <1>2, <1>3, <1>6 DEF LinkOK
  <1>8. StateOK'
    BY <1>2, <1>6 DEF StateOK
  <1>9. QED
    BY <1>4, <1>5, <1>7, <1>8 DEF BleOK

LEMMA BlinksKept ==
  ASSUME BlinksUntilItCommunicates, UNCHANGED <<timer_on, led_on>>,
         Ble_State = "COMMUNICATING" => Ble_State' = "COMMUNICATING",
         At("TMR_ENABLE") => At("TMR_ENABLE")'
  PROVE  BlinksUntilItCommunicates'
  BY DEF BlinksUntilItCommunicates

(***************************************************************************)
(* The controller and the peer.                                            *)
(***************************************************************************)
LEMMA AdvertiseInv == IInv /\ Advertise => IInv'
  <1> SUFFICES ASSUME IInv, NEW w \in BOOLEAN, Post(AdvReport(w)), Advertise PROVE IInv'
    BY DEF Advertise
  <1> DEFINE e == AdvReport(w)
  <1>1. /\ radio = "SCANNING" /\ Room
        /\ UNCHANGED <<usbVars, Ble_State, conn_handle, led, radio, peer, listening>>
    BY DEF Advertise
  <1>2. UsbInv /\ BleOK /\ BleTypes /\ QueueOK /\ LinkOK /\ BlinksUntilItCommunicates
    BY DEF IInv, BleOK
  <1>3. e \in Events /\ e.type = "ADV_REPORT" /\ Post(e)
    BY NewEvents
  <1> HIDE DEF e
  <1>4. \A x \in Waiting : MayFollow(x, e) /\ Fits(x)'
    BY <1>1, <1>2, <1>3 DEF QueueOK, Fits, MayFollow, Found, Linked, peer
  <1>5. Fits(e)'
    BY <1>1, <1>3 DEF Fits, Found
  <1>6. BleOK'
    BY <1>1, <1>2, <1>3, <1>4, <1>5, PostInv DEF BleTypes, LinkOK, peer, led
  <1>7. UsbInv' /\ BlinksUntilItCommunicates'
    BY <1>1, <1>2, UsbUnchangedInv, BlinksKept DEF led, usbVars, At
  <1>8. QED
    BY <1>6, <1>7 DEF IInv

LEMMA NotifyInv == IInv /\ Notify => IInv'
  <1> SUFFICES ASSUME IInv, Notify PROVE IInv'
    OBVIOUS
  <1>1. /\ subscribed /\ Room /\ \E k \in NotificationKinds : Post(Notification(k, link))
        /\ UNCHANGED <<usbVars, Ble_State, conn_handle, led, radio, peer, listening>>
    BY DEF Notify
  <1>2. UsbInv /\ BleOK /\ BleTypes /\ QueueOK /\ LinkOK /\ BlinksUntilItCommunicates
    BY DEF IInv, BleOK
  <1>3. Linked /\ radio = "STANDBY"
    BY <1>1, <1>2 DEF LinkOK
  <1>4. PICK e \in Events : e.type = "NOTIFICATION" /\ Post(e)
    BY <1>1, <1>3, NewEvents DEF Linked
  <1>5. \A x \in Waiting : MayFollow(x, e) /\ Fits(x)'
    BY <1>1, <1>2, <1>3, <1>4 DEF QueueOK, Fits, MayFollow, Found, Linked, peer
  <1>6. Fits(e)'
    BY <1>4 DEF Fits, Found
  <1>7. BleOK'
    BY <1>1, <1>2, <1>4, <1>5, <1>6, PostInv DEF BleTypes, LinkOK, peer, led
  <1>8. UsbInv' /\ BlinksUntilItCommunicates'
    BY <1>1, <1>2, UsbUnchangedInv, BlinksKept DEF led, usbVars, At
  <1>9. QED
    BY <1>7, <1>8 DEF IInv

LEMMA DiscoveryEndsInv == IInv /\ DiscoveryEnds => IInv'
  <1> SUFFICES ASSUME IInv, NEW s \in {0, 1}, Post(QueryComplete(s)), DiscoveryEnds PROVE IInv'
    BY DEF DiscoveryEnds
  <1> DEFINE e == QueryComplete(s)
  <1>1. /\ discovering /\ discovering' = FALSE /\ Room
        /\ UNCHANGED <<usbVars, Ble_State, conn_handle, led, radio, env, link, listening, security,
                       subscribed>>
    BY DEF DiscoveryEnds
  <1>2. UsbInv /\ BleOK /\ BleTypes /\ QueueOK /\ LinkOK /\ BlinksUntilItCommunicates
    BY DEF IInv, BleOK
  <1>3. Linked /\ radio = "STANDBY" /\ security = "NONE"
    BY <1>1, <1>2 DEF LinkOK
  <1>4. e \in Events /\ e.type = "QUERY_COMPLETE" /\ Post(e)
    BY NewEvents
  <1> HIDE DEF e
  <1>5. \A x \in Waiting : MayFollow(x, e) /\ Fits(x)'
    BY <1>1, <1>2, <1>3, <1>4 DEF QueueOK, Fits, MayFollow, Found, Linked
  <1>6. Fits(e)'
    BY <1>1, <1>3, <1>4 DEF Fits, Found
  <1>7. BleOK'
    BY <1>1, <1>2, <1>3, <1>4, <1>5, <1>6, PostInv DEF BleTypes, LinkOK, led
  <1>8. UsbInv' /\ BlinksUntilItCommunicates'
    BY <1>1, <1>2, UsbUnchangedInv, BlinksKept DEF led, usbVars, At
  <1>9. QED
    BY <1>7, <1>8 DEF IInv

LEMMA SecurityEndsInv == IInv /\ SecurityEnds => IInv'
  <1> SUFFICES ASSUME IInv, SecurityEnds PROVE IInv'
    OBVIOUS
  <1>1. /\ security = "PAIRING" /\ Room
        /\ UNCHANGED <<usbVars, Ble_State, conn_handle, led, radio, env, link, discovering, listening>>
    BY DEF SecurityEnds
  <1>2. UsbInv /\ BleOK /\ BleTypes /\ QueueOK /\ LinkOK /\ BlinksUntilItCommunicates
    BY DEF IInv, BleOK
  <1>3. Linked /\ radio = "STANDBY" /\ discovering = FALSE
    BY <1>1, <1>2 DEF LinkOK, BleTypes
  <1>4. PICK t \in {"SM_PAIRED", "SM_REESTABLISHED", "SM_FINAL_FAIL"} :
          /\ Post(Event(t)) /\ subscribed' \in BOOLEAN /\ security' \in {"NONE", "PAIRED"}
          /\ t = "SM_PAIRED" => security' = "PAIRED"
    BY <1>2 DEF SecurityEnds, BleTypes
  <1> DEFINE e == Event(t)
  <1>5. e \in Events /\ e.type = t /\ Post(e)
    BY <1>4, NewEvents DEF PlainTypes
  <1> HIDE DEF e
  <1>6. \A x \in Waiting : MayFollow(x, e) /\ Fits(x)'
    BY <1>1, <1>2, <1>3, <1>4, <1>5 DEF QueueOK, Fits, MayFollow, Found, Linked
  <1>7. Fits(e)'
    <2>1. /\ radio' = "STANDBY" /\ e.type \in {"SM_PAIRED", "SM_REESTABLISHED", "SM_FINAL_FAIL"}
          /\ e.type = "SM_PAIRED" => security' = "PAIRED"
      BY <1>1, <1>3, <1>4, <1>5
    <2>2. QED
      BY <2>1 DEF Fits, Found
  <1>8. BleOK'
    <2>1. /\ discovering' = FALSE /\ security' \in {"NONE", "PAIRING", "PAIRED"}
          /\ subscribed' \in BOOLEAN /\ e.type # "CONNECTION_COMPLETE"
      BY <1>1, <1>3, <1>4, <1>5
    <2>2. QED
      BY <1>1, <1>2, <1>3, <1>5, <1>6, <1>7, <2>1, PostInv
  <1>9. UsbInv' /\ BlinksUntilItCommunicates'
    BY <1>1, <1>2, UsbUnchangedInv, BlinksKept DEF led, usbVars, At
  <1>10. QED
    BY <1>8, <1>9 DEF IInv

LEMMA ConnectInv == IInv /\ Connect => IInv'
  <1> SUFFICES ASSUME IInv, Connect PROVE IInv'
    OBVIOUS
  <1>1. /\ radio = "INITIATING" /\ "ADV_REPORT" \notin Types /\ Room /\ radio' = "STANDBY"
        /\ discovering' = FALSE /\ security' = "NONE" /\ subscribed' = FALSE
        /\ UNCHANGED <<usbVars, Ble_State, conn_handle, led, env, listening>>
    BY DEF Connect
  <1>2. /\ UsbInv /\ BleOK /\ BleTypes /\ QueueOK /\ LinkOK /\ StateOK
        /\ BlinksUntilItCommunicates /\ MaxEvents \in Nat
    BY DongleAssumption DEF IInv, BleOK
  <1>3. ~Linked /\ Ble_State = "CONNECT" /\ link = INVALID_HANDLE
    BY <1>1, <1>2 DEF LinkOK, StateOK, BleTypes, Linked
  <1>4. PICK e \in Events :
          /\ e.type = "CONNECTION_COMPLETE" /\ Post(e)
          /\ \/ e.status = 0 /\ e.handle = link' /\ link' \in Handles
             \/ e.status # 0 /\ link' = INVALID_HANDLE
    <2>1. CASE \E h \in Handles : link' = h /\ Post(ConnectionComplete(0, h))
      BY <2>1, NewEvents
    <2>2. CASE link' = link /\ Post(ConnectionComplete(1, INVALID_HANDLE))
      BY <1>3, <2>2, NewEvents
    <2>3. QED
      BY <2>1, <2>2 DEF Connect
  <1>5. /\ (e.status = 0 /\ e.handle = link' /\ Linked') \/ (Refused(e) /\ ~Linked')
        /\ link' \in Handles \cup {INVALID_HANDLE}
    BY <1>4, DongleAssumption DEF Linked, Refused
  <1>6. \A x \in Waiting :
          x.type \notin {"STATE_WORKING", "ADV_REPORT", "CONNECTION_COMPLETE", "SM_PAIRED",
                         "USER_MSG", "DISCONNECTION_COMPLETE"} /\ ~Found(x)
    <2>1. \A x \in Waiting : x.type # "ADV_REPORT"
      BY <1>1, PendingWaits DEF Pending
    <2>2. QED
      BY <1>1, <1>2, <2>1 DEF QueueOK, Fits
  <1>7. \A x \in Waiting : MayFollow(x, e) /\ Fits(x)'
    BY <1>4, <1>6 DEF MayFollow, Fits, Found
  <1>8. Fits(e)'
    BY <1>1, <1>4, <1>5 DEF Fits, Found
  <1>9. /\ events' \in Seq(Events) /\ Ordered(events') /\ Waiting' = Waiting \cup {e}
        /\ Len(events') <= MaxEvents /\ Len(events') <= MaxEvents + 2
    BY <1>1, <1>2, <1>4, <1>7, Posted
  <1>10. BleTypes'
    BY <1>1, <1>2, <1>5, <1>9 DEF BleTypes, led
  <1>11. QueueOK'
    BY <1>7, <1>8, <1>9 DEF QueueOK
  <1>12. Pending("CONNECTION_COMPLETE")'
    BY <1>4, <1>9, PendingWaits
  <1>13. LinkOK'
    BY <1>1, <1>5, <1>9, <1>12 DEF LinkOK
  <1>14. StateOK'
    BY <1>1, <1>3 DEF StateOK
  <1>15. UsbInv' /\ BlinksUntilItCommunicates'
    BY <1>1, <1>2, UsbUnchangedInv, BlinksKept DEF led, usbVars, At
  <1>16. QED
    BY <1>10, <1>11, <1>13, <1>14, <1>15 DEF IInv, BleOK

LEMMA QueueAppendTwo ==
  ASSUME NEW s \in Seq(Events), NEW a \in Events, NEW b \in Events, Ordered(s), MayFollow(a, b),
         \A x \in Elements(s) : MayFollow(x, a) /\ MayFollow(x, b)
  PROVE  /\ s \o <<a, b>> \in Seq(Events) /\ Ordered(s \o <<a, b>>)
         /\ Len(s \o <<a, b>>) = Len(s) + 2
         /\ Elements(s \o <<a, b>>) = Elements(s) \cup {a, b}
  <1> DEFINE t == Append(s, a)
  <1>1. s \o <<a, b>> = Append(t, b)
    OBVIOUS
  <1>2. /\ t \in Seq(Events) /\ Ordered(t) /\ Len(t) = Len(s) + 1 /\ Len(s) \in Nat
        /\ Elements(t) = Elements(s) \cup {a}
    BY QueueAppend
  <1> HIDE DEF t
  <1>3. /\ Append(t, b) \in Seq(Events) /\ Ordered(Append(t, b)) /\ Len(Append(t, b)) = Len(t) + 1
        /\ Elements(Append(t, b)) = Elements(t) \cup {b}
    BY <1>2, QueueAppend
  <1>4. Elements(Append(t, b)) = Elements(s) \cup {a, b}
    BY <1>2, <1>3
  <1>5. Len(Append(t, b)) = Len(s) + 2
    BY <1>2, <1>3
  <1>6. QED
    BY <1>1, <1>3, <1>4, <1>5, Zenon

LEMMA LoseLinkInv == IInv /\ LoseLink => IInv'
  <1> SUFFICES ASSUME IInv, LoseLink PROVE IInv'
    OBVIOUS
  <1> DEFINE lost == Event("DISCONNECTION_COMPLETE")
             failed == QueryComplete(1)
  <1>1. /\ Linked /\ link' = INVALID_HANDLE
        /\ discovering' = FALSE /\ security' = "NONE" /\ subscribed' = FALSE
        /\ UNCHANGED <<usbVars, Ble_State, conn_handle, led, radio, env, listening>>
    BY DEF LoseLink, Linked
  <1>2. /\ UsbInv /\ BleOK /\ BleTypes /\ QueueOK /\ LinkOK /\ StateOK
        /\ BlinksUntilItCommunicates /\ MaxEvents \in Nat
    BY DongleAssumption DEF IInv, BleOK
  <1>3. radio = "STANDBY" /\ radio' = "STANDBY" /\ ~Linked'
    BY <1>1, <1>2, DongleAssumption DEF LinkOK, Linked
  <1>4. /\ lost \in Events /\ lost.type = "DISCONNECTION_COMPLETE"
        /\ failed \in Events /\ failed.type = "QUERY_COMPLETE" /\ failed.status = 1
    BY NewEvents DEF PlainTypes
  <1>5. \/ events' = events \o <<failed, lost>> \/ events' = events \o <<lost, failed>>
        \/ Post(lost)
    BY DEF LoseLink
  <1> HIDE DEF lost, failed
  <1>6. \A x \in Waiting : x.type # "STATE_WORKING" /\ x.type # "DISCONNECTION_COMPLETE"
    BY <1>1, <1>2, <1>3 DEF QueueOK, Fits
  <1>7. /\ \A x \in Waiting : MayFollow(x, lost) /\ MayFollow(x, failed)
        /\ MayFollow(lost, failed) /\ MayFollow(failed, lost)
    BY <1>4, <1>6 DEF MayFollow, Found
  <1>8. /\ events' \in Seq(Events) /\ Ordered(events') /\ Len(events') <= MaxEvents + 2
        /\ Waiting' \in {Waiting \cup {lost}, Waiting \cup {lost, failed}}
    <2>1. /\ events \in Seq(Events) /\ Ordered(events) /\ Waiting = Elements(events)
          /\ Waiting' = Elements(events') /\ Len(events) \in Nat /\ Len(events) <= MaxEvents
      BY <1>1, <1>2 DEF QueueOK, Waiting
    <2>2. CASE events' = events \o <<failed, lost>>
      BY <1>2, <1>4, <1>7, <2>1, <2>2, QueueAppendTwo
    <2>3. CASE events' = events \o <<lost, failed>>
      BY <1>2, <1>4, <1>7, <2>1, <2>3, QueueAppendTwo
    <2>4. CASE Post(lost)
      BY <1>2, <1>4, <1>7, <2>1, <2>4, QueueAppend DEF Post
    <2>5. QED
      BY <1>5, <2>2, <2>3, <2>4
  <1>9. BleTypes'
    BY <1>1, <1>2, <1>8 DEF BleTypes, led
  <1>10. QueueOK'
    <2>1. \A x \in Waiting : Fits(x)'
      BY <1>1, <1>2, <1>3 DEF QueueOK, Fits
    <2>2. lost' = lost /\ failed' = failed
      BY DEF lost, failed
    <2>3. \A x \in {lost, failed} : Fits(x)'
      BY <1>3, <1>4 DEF Fits, Found
    <2>4. QED
      BY <1>3, <1>8, <2>1, <2>3 DEF QueueOK
  <1>11. /\ Pending("DISCONNECTION_COMPLETE")'
         /\ Pending("CONNECTION_COMPLETE")' <=> Pending("CONNECTION_COMPLETE")
    BY <1>4, <1>8, PendingWaits
  <1>12. LinkOK'
    BY <1>1, <1>3, <1>11 DEF LinkOK
  <1>13. StateOK'
    BY <1>1, <1>2, <1>11 DEF StateOK
  <1>14. UsbInv' /\ BlinksUntilItCommunicates'
    BY <1>1, <1>2, UsbUnchangedInv, BlinksKept DEF led, usbVars, At
  <1>15. QED
    BY <1>9, <1>10, <1>12, <1>13, <1>14 DEF IInv, BleOK

(***************************************************************************)
(* The handlers.                                                           *)
(***************************************************************************)
LEMMA StateWorkingInv == IInv /\ StateWorking => IInv'
  <1> SUFFICES ASSUME IInv, StateWorking PROVE IInv'
    OBVIOUS
  <1>1. /\ Take("STATE_WORKING") /\ radio' = "SCANNING" /\ At("IDLE")
        /\ UNCHANGED <<usbVars, Ble_State, conn_handle, led, peer, listening>>
    BY DEF StateWorking, Take, IsNext
  <1>2. /\ UsbInv /\ BleOK /\ BleTypes /\ QueueOK /\ LinkOK /\ StateOK
        /\ BlinksUntilItCommunicates /\ MaxEvents \in Nat
    BY DongleAssumption DEF IInv, BleOK
  <1> DEFINE h == Head(events)
  <1>3. /\ h.type = "STATE_WORKING" /\ Fits(h) /\ \A y \in Waiting' : MayFollow(h, y)
        /\ events' \in Seq(Events) /\ Ordered(events')
        /\ Len(events) \in Nat /\ Len(events') \in Nat /\ Len(events') < Len(events)
    BY <1>1, <1>2, Taken
  <1> HIDE DEF h
  <1>4. radio = "OFF" /\ Waiting' = {}
    BY <1>3 DEF Fits, MayFollow
  <1>5. ~Linked /\ ~Linked' /\ conn_handle = INVALID_HANDLE /\ Ble_State = "SCAN"
    BY <1>1, <1>2, <1>4 DEF LinkOK, StateOK, BleTypes, Linked, peer
  <1>6. BleTypes'
    BY <1>1, <1>2, <1>3 DEF BleTypes, led, peer
  <1>7. QueueOK' /\ StateOK'
    BY <1>1, <1>3, <1>4, <1>5 DEF QueueOK, StateOK
  <1>8. LinkOK'
    BY <1>1, <1>2, <1>5 DEF LinkOK, peer
  <1>9. UsbInv' /\ BlinksUntilItCommunicates'
    BY <1>1, <1>2, UsbUnchangedInv, BlinksKept DEF led, usbVars, At
  <1>10. QED
    BY <1>6, <1>7, <1>8, <1>9 DEF IInv, BleOK

LEMMA ExtendedAdvertisingReportInv == IInv /\ ExtendedAdvertisingReport => IInv'
  <1> SUFFICES ASSUME IInv, ExtendedAdvertisingReport PROVE IInv'
    OBVIOUS
  <1>1. /\ Take("ADV_REPORT")
        /\ UNCHANGED <<usbVars, conn_handle, led, peer, listening>>
    BY DEF ExtendedAdvertisingReport
  <1>2. /\ UsbInv /\ BleOK /\ BleTypes /\ QueueOK /\ LinkOK /\ StateOK
        /\ BlinksUntilItCommunicates /\ MaxEvents \in Nat
    BY DongleAssumption DEF IInv, BleOK
  <1> DEFINE h == Head(events)
  <1>3. /\ h.type = "ADV_REPORT" /\ Fits(h)
        /\ \A y \in Waiting' : Fits(y) /\ MayFollow(h, y)
        /\ events' \in Seq(Events) /\ Ordered(events')
        /\ Len(events) \in Nat /\ Len(events') \in Nat /\ Len(events') < Len(events)
    BY <1>1, <1>2, Taken
  <1> HIDE DEF h
  <1>4. radio \in {"SCANNING", "INITIATING"}
    BY <1>3 DEF Fits
  <1>5. Ble_State # "COMMUNICATING"
    BY <1>2, <1>4 DEF StateOK
  <1>6. UsbInv' /\ BlinksUntilItCommunicates'
    BY <1>1, <1>2, <1>5, UsbUnchangedInv, BlinksKept DEF led, usbVars, At
  <1>7. CASE Head(events).wanted
    <2>1. Ble_State' = "CONNECT" /\ radio' = "INITIATING"
      BY <1>7 DEF ExtendedAdvertisingReport
    <2>2. ~Linked /\ ~Linked' /\ conn_handle = INVALID_HANDLE
      BY <1>1, <1>2, <1>4 DEF LinkOK, Linked, peer
    <2>3. BleTypes'
      BY <1>1, <1>2, <1>3, <2>1 DEF BleTypes, led, peer
    <2>4. \A y \in Waiting' : Fits(y)'
      BY <1>3, <1>4, <2>1, <2>2 DEF Fits, MayFollow
    <2>5. QueueOK' /\ StateOK'
      BY <1>3, <2>1, <2>2, <2>4 DEF QueueOK, StateOK
    <2>6. LinkOK'
      BY <1>1, <1>2, <2>1, <2>2 DEF LinkOK, peer
    <2>7. QED
      BY <1>6, <2>3, <2>5, <2>6 DEF IInv, BleOK
  <1>8. CASE ~Head(events).wanted
    <2>1. UNCHANGED <<Ble_State, radio>>
      BY <1>8 DEF ExtendedAdvertisingReport
    <2>2. subscribed' \in BOOLEAN /\ (subscribed' => Linked)
      BY <1>1, <1>2 DEF BleTypes, LinkOK, peer
    <2>3. BleOK'
      BY <1>1, <1>2, <2>1, <2>2, TakeInv DEF peer
    <2>4. QED
      BY <1>6, <2>3 DEF IInv
  <1>9. QED
    BY <1>7, <1>8

LEMMA ConnectedInv == IInv /\ Connected => IInv'
  <1> SUFFICES ASSUME IInv, Connected PROVE IInv'
    OBVIOUS
  <1> DEFINE h == Head(events)
  <1>1. /\ Take("CONNECTION_COMPLETE") /\ h.status = 0 /\ conn_handle' = h.handle
        /\ discovering' = (link = h.handle)
        /\ UNCHANGED <<usbVars, Ble_State, led, radio, env, link, security, subscribed, listening>>
    BY DEF Connected
  <1>2. /\ UsbInv /\ BleOK /\ BleTypes /\ QueueOK /\ LinkOK /\ StateOK
        /\ BlinksUntilItCommunicates /\ MaxEvents \in Nat
    BY DongleAssumption DEF IInv, BleOK
  <1>3. /\ h \in Events /\ h.type = "CONNECTION_COMPLETE" /\ h \in Waiting /\ Fits(h)
        /\ Waiting = {h} \cup Waiting'
        /\ \A y \in Waiting' : Fits(y) /\ MayFollow(h, y)
        /\ events' \in Seq(Events) /\ Ordered(events')
        /\ Len(events) \in Nat /\ Len(events') \in Nat /\ Len(events') < Len(events)
    BY <1>1, <1>2, Taken
  <1>4. h.handle \in Handles
    BY <1>1, <1>3, EventFacts
  <1> HIDE DEF h
  <1>5. /\ radio = "STANDBY" /\ Linked' = Linked
        /\ Linked => h.handle = link /\ security = "NONE"
    BY <1>1, <1>3 DEF Fits, Linked
  <1>6. discovering' \in BOOLEAN /\ discovering' = Linked
    BY <1>1, <1>4, <1>5 DEF Linked
  <1>7. BleTypes'
    BY <1>1, <1>2, <1>3, <1>4, <1>6 DEF BleTypes, led
  <1>8. \A y \in Waiting' : Fits(y)'
    BY <1>1, <1>3, <1>5 DEF Fits, MayFollow
  <1>9. QueueOK'
    BY <1>2, <1>3, <1>5, <1>8 DEF QueueOK
  <1>10. /\ Pending("DISCONNECTION_COMPLETE")' <=> Pending("DISCONNECTION_COMPLETE")
         /\ (\E y \in Waiting' : Refused(y)) <=> (\E y \in Waiting : Refused(y))
         /\ Pending("CONNECTION_COMPLETE")
    BY <1>1, <1>3, PendingWaits DEF Refused
  <1>11. LinkOK'
    BY <1>1, <1>2, <1>5, <1>6, <1>10 DEF LinkOK
  <1>12. StateOK'
    BY <1>1, <1>2, <1>10 DEF StateOK
  <1>13. UsbInv' /\ BlinksUntilItCommunicates'
    BY <1>1, <1>2, UsbUnchangedInv, BlinksKept DEF led, usbVars, At
  <1>14. QED
    BY <1>7, <1>9, <1>11, <1>12, <1>13 DEF IInv, BleOK

LEMMA PlatformResetInv == IInv /\ PlatformReset => IInv'
  <1> SUFFICES ASSUME IInv, PlatformReset PROVE IInv'
    OBVIOUS
  <1> DEFINE e == Event("STATE_WORKING")
  <1>1. /\ Ble_State' = "SCAN" /\ conn_handle' = INVALID_HANDLE /\ events' = <<e>>
        /\ timer_on' = TRUE /\ led_on' = TRUE /\ led_sta' = FALSE
        /\ radio' = "OFF" /\ link' = INVALID_HANDLE
        /\ discovering' = FALSE /\ listening' = INVALID_HANDLE
        /\ security' = "NONE" /\ subscribed' = FALSE
    BY DEF PlatformReset
  <1>2. e \in Events /\ e.type = "STATE_WORKING" /\ MaxEvents \in Nat
    BY NewEvents, DongleAssumption DEF PlainTypes
  <1> HIDE DEF e
  <1>3. events' \in Seq(Events) /\ Len(events') = 1 /\ Ordered(events') /\ Waiting' = {e}
    BY <1>1, <1>2 DEF Ordered, Waiting, Elements
  <1>4. ~Linked'
    BY <1>1, DongleAssumption DEF Linked
  <1>5. BleTypes'
    <2>1. Len(events') <= MaxEvents + 2
      BY <1>2, <1>3
    <2>2. {conn_handle', link', listening'} \subseteq Handles \cup {INVALID_HANDLE}
      BY <1>1
    <2>3. QED
      BY <1>1, <2>1, <2>2 DEF BleTypes
  <1>6. QueueOK'
    BY <1>1, <1>2, <1>3, <1>4 DEF QueueOK, Fits, Found
  <1>7. Pending("STATE_WORKING")'
    BY <1>2, <1>3, PendingWaits
  <1>8. LinkOK' /\ StateOK' /\ BlinksUntilItCommunicates'
    BY <1>1, <1>4, <1>7 DEF LinkOK, StateOK, BlinksUntilItCommunicates
  <1>9. UsbInv'
    BY UsbRestartInv DEF PlatformReset
  <1>10. QED
    BY <1>5, <1>6, <1>8, <1>9 DEF IInv, BleOK

LEMMA ServiceDiscoveryCallbackInv == IInv /\ ServiceDiscoveryCallback => IInv'
  <1> SUFFICES ASSUME IInv, ServiceDiscoveryCallback PROVE IInv'
    OBVIOUS
  <1> DEFINE h == Head(events)
  <1>1. /\ Take("QUERY_COMPLETE")
        /\ UNCHANGED <<usbVars, conn_handle, led, radio, env, link, discovering, subscribed>>
    BY DEF ServiceDiscoveryCallback
  <1>2. /\ UsbInv /\ BleOK /\ BleTypes /\ QueueOK /\ LinkOK /\ StateOK
        /\ BlinksUntilItCommunicates /\ MaxEvents \in Nat
    BY DongleAssumption DEF IInv, BleOK
  <1>3. CASE h.status = 0
    <2>1. /\ listening' = conn_handle /\ Ble_State' = "COMMUNICATING"
          /\ security' = IF link = conn_handle /\ link \in Handles THEN "PAIRING" ELSE security
      BY <1>3 DEF ServiceDiscoveryCallback, QueryCompleteOk
    <2>2. /\ h.type = "QUERY_COMPLETE" /\ h \in Waiting /\ Fits(h)
          /\ Waiting = {h} \cup Waiting'
          /\ \A y \in Waiting' : Fits(y) /\ MayFollow(h, y)
          /\ events' \in Seq(Events) /\ Ordered(events')
          /\ Len(events) \in Nat /\ Len(events') \in Nat /\ Len(events') < Len(events)
      BY <1>1, <1>2, Taken
    <2>3. Found(h)
      BY <1>3, <2>2 DEF Found
    <2> HIDE DEF h
    <2>4. radio = "STANDBY" /\ discovering = FALSE /\ security = "NONE" /\ Linked' = Linked
      BY <1>1, <1>2, <2>2, <2>3 DEF Fits, Linked, BleTypes
    <2>5. security' \in {"NONE", "PAIRING", "PAIRED"} /\ (security' # "NONE" => Linked)
      BY <2>1, <2>4 DEF Linked
    <2>6. BleTypes'
      BY <1>1, <1>2, <2>1, <2>2, <2>5 DEF BleTypes, led
    <2>7. \A y \in Waiting' : Fits(y)'
      BY <1>1, <2>2, <2>3, <2>4 DEF Fits, MayFollow
    <2>8. QueueOK'
      BY <1>2, <2>2, <2>4, <2>7 DEF QueueOK
    <2>9. /\ Pending("DISCONNECTION_COMPLETE")' <=> Pending("DISCONNECTION_COMPLETE")
          /\ Pending("CONNECTION_COMPLETE")' <=> Pending("CONNECTION_COMPLETE")
          /\ (\E y \in Waiting' : Refused(y)) <=> (\E y \in Waiting : Refused(y))
          /\ ~Pending("CONNECTION_COMPLETE")
      BY <2>2, <2>3, PendingWaits DEF Refused, MayFollow
    <2>10. LinkOK'
      BY <1>1, <1>2, <2>4, <2>5, <2>9 DEF LinkOK
    <2>11. StateOK'
      BY <1>1, <2>1, <2>4, <2>9 DEF StateOK
    <2>12. UsbInv' /\ BlinksUntilItCommunicates'
      BY <1>1, <1>2, <2>1, UsbUnchangedInv, BlinksKept DEF led, usbVars, At
    <2>13. QED
      BY <2>6, <2>8, <2>10, <2>11, <2>12 DEF IInv, BleOK
  <1>4. CASE h.status # 0
    <2>1. UNCHANGED <<listening, Ble_State, security>>
      BY <1>4 DEF ServiceDiscoveryCallback, QueryCompleteOk
    <2>2. subscribed' \in BOOLEAN /\ (subscribed' => Linked)
      BY <1>1, <1>2 DEF BleTypes, LinkOK
    <2>3. BleOK'
      BY <1>1, <1>2, <2>1, <2>2, TakeInv
    <2>4. UsbInv' /\ BlinksUntilItCommunicates'
      BY <1>1, <1>2, <2>1, UsbUnchangedInv, BlinksKept DEF led, usbVars, At
    <2>5. QED
      BY <2>3, <2>4 DEF IInv
  <1>5. QED
    BY <1>3, <1>4

LEMMA SmStateChangedInv == IInv /\ SmStateChanged => IInv'
  <1> SUFFICES ASSUME IInv, NEW t \in {"SM_REESTABLISHED", "SM_FINAL_FAIL"}, Take(t),
                      SmStateChanged
               PROVE  IInv'
    BY DEF SmStateChanged
  <1>1. UNCHANGED <<usbVars, Ble_State, conn_handle, led, radio, peer, listening>>
    BY DEF SmStateChanged
  <1>2. UsbInv /\ BleOK /\ BleTypes /\ LinkOK /\ BlinksUntilItCommunicates
    BY DEF IInv, BleOK
  <1>3. subscribed' \in BOOLEAN /\ (subscribed' => Linked)
    BY <1>1, <1>2 DEF BleTypes, LinkOK, peer
  <1>4. BleOK'
    BY <1>1, <1>2, <1>3, TakeInv DEF peer
  <1>5. UsbInv' /\ BlinksUntilItCommunicates'
    BY <1>1, <1>2, UsbUnchangedInv, BlinksKept DEF led, usbVars, At
  <1>6. QED
    BY <1>4, <1>5 DEF IInv

LEMMA UserMsgHandlerInv == IInv /\ UserMsgHandler => IInv'
  <1> SUFFICES ASSUME IInv, UserMsgHandler PROVE IInv'
    OBVIOUS
  <1>1. /\ Take("USER_MSG") /\ subscribed' = (subscribed \/ (conn_handle = link /\ Linked))
        /\ UNCHANGED <<usbVars, Ble_State, conn_handle, led, radio, env, link, discovering,
                       security, listening>>
    BY DEF UserMsgHandler, Linked
  <1>2. UsbInv /\ BleOK /\ BleTypes /\ LinkOK /\ BlinksUntilItCommunicates
    BY DEF IInv, BleOK
  <1>3. subscribed' \in BOOLEAN
    BY <1>1, <1>2 DEF BleTypes
  <1>4. subscribed' => Linked
    BY <1>1, <1>2 DEF LinkOK
  <1>5. BleOK'
    BY <1>1, <1>2, <1>3, <1>4, TakeInv
  <1>6. UsbInv' /\ BlinksUntilItCommunicates'
    BY <1>1, <1>2, UsbUnchangedInv, BlinksKept DEF led, usbVars, At
  <1>7. QED
    BY <1>5, <1>6 DEF IInv

LEMMA SmPairedInv == IInv /\ SmPaired => IInv'
  <1> SUFFICES ASSUME IInv, SmPaired PROVE IInv'
    OBVIOUS
  <1> DEFINE h == Head(events)
             s == Tail(events)
             e == Event("USER_MSG")
  <1>1. /\ h.type = "SM_PAIRED" /\ events # <<>> /\ events' = Append(s, e)
        /\ UNCHANGED <<usbVars, Ble_State, conn_handle, led, radio, peer, listening>>
    BY DEF SmPaired, IsNext
  <1>2. /\ UsbInv /\ BleOK /\ BleTypes /\ QueueOK /\ LinkOK /\ StateOK
        /\ BlinksUntilItCommunicates
    BY DEF IInv, BleOK
  <1>3. /\ h \in Events /\ s \in Seq(Events) /\ Ordered(s) /\ Len(s) = Len(events) - 1
        /\ Waiting = {h} \cup Elements(s) /\ \A y \in Elements(s) : MayFollow(h, y)
    BY <1>1, <1>2, QueueTail DEF QueueOK, Waiting
  <1>4. e \in Events /\ e.type = "USER_MSG"
    BY NewEvents DEF PlainTypes
  <1> HIDE DEF h, e
  <1>5. \A x \in Waiting : Fits(x) /\ Fits(x)'
    BY <1>1, <1>2 DEF QueueOK, Fits, Linked, peer
  <1>6. radio = "STANDBY" /\ (Linked => security = "PAIRED") /\ Linked' = Linked
    BY <1>1, <1>3, <1>5 DEF Fits, Linked, peer
  <1>7. \A y \in Elements(s) : MayFollow(y, e)
    BY <1>1, <1>3, <1>4, <1>5, <1>6 DEF MayFollow, Fits, Found
  <1>8. /\ events' \in Seq(Events) /\ Ordered(events') /\ Waiting' = Elements(s) \cup {e}
        /\ Len(events') = Len(s) + 1
    BY <1>1, <1>3, <1>4, <1>7, QueueAppend DEF Waiting
  <1>9. Len(events') = Len(events)
    BY <1>2, <1>3, <1>8 DEF QueueOK
  <1> HIDE DEF s
  <1>10. Fits(e)'
    <2>1. e' = e
      BY DEF e
    <2>2. radio' = "STANDBY" /\ (Linked' => security' = "PAIRED")
      BY <1>1, <1>6 DEF peer
    <2>3. QED
      BY <1>4, <2>2 DEF Fits, Found
  <1>11. BleTypes'
    BY <1>1, <1>2, <1>9 DEF BleTypes, led, peer
  <1>12. QueueOK'
    BY <1>2, <1>3, <1>5, <1>6, <1>8, <1>9, <1>10 DEF QueueOK
  <1>13. /\ \A t \in {"DISCONNECTION_COMPLETE", "CONNECTION_COMPLETE", "STATE_WORKING"} :
              Pending(t)' <=> Pending(t)
         /\ (\E y \in Waiting' : Refused(y)) <=> (\E y \in Waiting : Refused(y))
    BY <1>1, <1>3, <1>4, <1>8, PendingWaits DEF Refused
  <1>14. LinkOK'
    BY <1>1, <1>2, <1>6, <1>13 DEF LinkOK, peer
  <1>15. StateOK'
    BY <1>1, <1>2, <1>13 DEF StateOK
  <1>16. UsbInv' /\ BlinksUntilItCommunicates'
    BY <1>1, <1>2, UsbUnchangedInv, BlinksKept DEF led, usbVars, At
  <1>17. QED
    BY <1>11, <1>12, <1>14, <1>15, <1>16 DEF IInv, BleOK

LEMMA NotificationHandlerInv == IInv /\ NotificationHandler => IInv'
  <1> SUFFICES ASSUME IInv, NotificationHandler PROVE IInv'
    OBVIOUS
  <1> DEFINE h == Head(events)
  <1>1. /\ Take("NOTIFICATION") /\ At("IDLE")
        /\ UNCHANGED <<Ble_State, conn_handle, led, radio, peer, listening>>
    BY DEF NotificationHandler, Take, IsNext
  <1>2. UsbInv /\ BleOK /\ BleTypes /\ LinkOK /\ BlinksUntilItCommunicates
    BY DEF IInv, BleOK
  <1>3. h \in Events /\ h.type = "NOTIFICATION"
    BY <1>1, <1>2, Taken
  <1>4. h.kind \in {"basic", "extend", "mouse", "short_mouse"}
    BY <1>3, EventFacts DEF NotificationKinds
  <1>5. \/ UNCHANGED usbVars \/ BasicReportStart
        \/ ReportSend("KB_REPORT_ID") \/ ReportSend("MOUSE_REPORT_ID")
    BY <1>4 DEF NotificationHandler
  <1>6. UsbInv'
    BY <1>1, <1>2, <1>5, UsbUnchangedInv, BasicReportStartInv, ReportSendInv
  <1>7. subscribed' \in BOOLEAN /\ (subscribed' => Linked)
    BY <1>1, <1>2 DEF BleTypes, LinkOK, peer
  <1>8. BleOK'
    BY <1>1, <1>2, <1>7, TakeInv DEF peer
  <1>9. BlinksUntilItCommunicates'
    BY <1>1, <1>2, BlinksKept DEF led, At
  <1>10. QED
    BY <1>6, <1>8, <1>9 DEF IInv

\* The step of the task is all that changes in the driver.
LEMMA TaskInv ==
  ASSUME UsbInv, task.pc \in {"IDLE", "TMR_ENABLE"},
         task' \in Task, task'.report = task.report, task'.pc \in {"IDLE", "TMR_ENABLE"},
         UNCHANGED <<KeybReport, CtlReport, DataSendBuf, bus, in, completed, sending, accepted,
                     dropped, echoed>>
  PROVE  UsbInv'
  <1>0. UsbTypes /\ ReportsAreReleased /\ BufferOK
    BY DEF UsbInv
  <1>1. UsbTypes'
    BY <1>0 DEF UsbTypes, bus, Sends
  <1>2. ReportsAreReleased'
    BY <1>0 DEF ReportsAreReleased, KeyboardIsReleased, ControlIsReleased, UnderWay, At
  <1>3. BufferOK'
    BY <1>0 DEF BufferOK, UnderWay, At, Sends
  <1>4. QED
    BY <1>1, <1>2, <1>3 DEF UsbInv

LEMMA DisconnectionCompleteInv == IInv /\ DisconnectionComplete => IInv'
  <1> SUFFICES ASSUME IInv, DisconnectionComplete PROVE IInv'
    OBVIOUS
  <1> DEFINE h == Head(events)
  <1>1. /\ Take("DISCONNECTION_COMPLETE") /\ task.pc = "IDLE" /\ conn_handle' = INVALID_HANDLE
        /\ radio' = "SCANNING" /\ Ble_State' = "SCAN" /\ task' = [task EXCEPT !.pc = "TMR_ENABLE"]
        /\ UNCHANGED <<KeybReport, CtlReport, DataSendBuf, bus, in, completed, sending, accepted,
                       dropped, echoed, led, peer, listening>>
    BY DEF DisconnectionComplete, Take, IsNext, At, HandleAfterDisconnection, ResumedScan
  <1>2. /\ UsbInv /\ UsbTypes /\ BleOK /\ BleTypes /\ QueueOK /\ LinkOK
        /\ BlinksUntilItCommunicates /\ MaxEvents \in Nat
    BY DongleAssumption DEF IInv, BleOK, UsbInv
  <1>3. /\ h.type = "DISCONNECTION_COMPLETE" /\ Fits(h)
        /\ \A y \in Waiting' : Fits(y) /\ MayFollow(h, y)
        /\ events' \in Seq(Events) /\ Ordered(events')
        /\ Len(events) \in Nat /\ Len(events') \in Nat /\ Len(events') < Len(events)
    BY <1>1, <1>2, Taken
  <1> HIDE DEF h
  <1>4. radio = "STANDBY" /\ ~Linked /\ ~Linked'
    BY <1>1, <1>3 DEF Fits, Linked, peer
  <1>5. task' \in Task /\ task'.pc = "TMR_ENABLE" /\ task'.report = task.report
    BY <1>1, <1>2, TaskSteps DEF UsbTypes
  <1>6. UsbInv'
    BY <1>1, <1>2, <1>5, TaskInv
  <1>7. BleTypes'
    BY <1>1, <1>2, <1>3 DEF BleTypes, led, peer
  <1>8. \A y \in Waiting' : Fits(y)'
    BY <1>1, <1>3, <1>4 DEF Fits, MayFollow
  <1>9. QueueOK'
    BY <1>3, <1>4, <1>8 DEF QueueOK
  <1>10. LinkOK' /\ StateOK'
    BY <1>1, <1>2, <1>4 DEF LinkOK, StateOK, peer
  <1>11. BlinksUntilItCommunicates'
    BY <1>1, <1>2, <1>5 DEF BlinksUntilItCommunicates, led, At
  <1>12. QED
    BY <1>6, <1>7, <1>9, <1>10, <1>11 DEF IInv, BleOK

\* Steps that leave the events and the controller alone.
LEMMA BleUnchanged ==
  ASSUME BleOK, UNCHANGED <<Ble_State, conn_handle, events, radio, peer, listening>>,
         timer_on' \in BOOLEAN, led_on' \in BOOLEAN, led_sta' \in BOOLEAN
  PROVE  BleOK'
  <1>1. BleTypes /\ QueueOK /\ LinkOK /\ StateOK
    BY DEF BleOK
  <1>2. Linked' = Linked /\ Waiting' = Waiting
    BY DEF Linked, Waiting, peer
  <1>3. \A t : Pending(t)' <=> Pending(t)
    BY <1>2, PendingWaits
  <1>4. BleTypes'
    BY <1>1 DEF BleTypes, peer
  <1>5. QueueOK'
    BY <1>1, <1>2 DEF QueueOK, Fits, peer
  <1>6. LinkOK' /\ StateOK'
    BY <1>1, <1>2, <1>3 DEF LinkOK, StateOK, peer
  <1>7. QED
    BY <1>4, <1>5, <1>6 DEF BleOK

LEMMA EnableTimerInv == IInv /\ EnableTimer => IInv'
  <1> SUFFICES ASSUME IInv, EnableTimer PROVE IInv'
    OBVIOUS
  <1>1. /\ task.pc = "TMR_ENABLE" /\ Finish /\ timer_on' = TRUE
        /\ UNCHANGED <<KeybReport, CtlReport, DataSendBuf, bus, in, completed, sending, accepted,
                       dropped, echoed>>
        /\ UNCHANGED <<Ble_State, conn_handle, events, led_on, led_sta, radio, peer, listening>>
    BY DEF EnableTimer, At
  <1>2. UsbInv /\ UsbTypes /\ BleOK /\ BleTypes
    BY DEF IInv, BleOK, UsbInv
  <1>3. task.report = Nothing
    BY <1>1, <1>2 DEF UsbTypes, Sends, Task
  <1>4. task' \in Task /\ task'.pc = "IDLE" /\ task'.report = Nothing
    BY <1>1, FinishedTask
  <1>5. UsbInv'
    BY <1>1, <1>2, <1>3, <1>4, TaskInv
  <1>6. timer_on' \in BOOLEAN /\ led_on' \in BOOLEAN /\ led_sta' \in BOOLEAN
    BY <1>1, <1>2 DEF BleTypes
  <1>7. BleOK'
    BY <1>1, <1>2, <1>6, BleUnchanged
  <1>8. BlinksUntilItCommunicates'
    BY <1>1 DEF BlinksUntilItCommunicates
  <1>9. QED
    BY <1>5, <1>7, <1>8 DEF IInv

LEMMA TimerInterruptInv == IInv /\ TimerInterrupt => IInv'
  <1> SUFFICES ASSUME IInv, TimerInterrupt PROVE IInv'
    OBVIOUS
  <1>1. UNCHANGED usbVars /\ UNCHANGED <<Ble_State, conn_handle, events, radio, peer, listening>>
    BY DEF TimerInterrupt
  <1>2. UsbInv /\ BleOK
    BY DEF IInv
  <1>3. timer_on' \in BOOLEAN /\ led_on' \in BOOLEAN /\ led_sta' \in BOOLEAN
    BY DEF TimerInterrupt
  <1>4. BleOK'
    BY <1>1, <1>2, <1>3, BleUnchanged
  <1>5. BlinksUntilItCommunicates'
    <2>1. CASE Ble_State = "COMMUNICATING"
      BY <1>1, <2>1 DEF TimerInterrupt, BlinksUntilItCommunicates
    <2>2. CASE Ble_State # "COMMUNICATING"
      BY <2>2 DEF TimerInterrupt, BlinksUntilItCommunicates
    <2>3. QED
      BY <2>1, <2>2
  <1>6. QED
    BY <1>1, <1>2, <1>4, <1>5, UsbUnchangedInv DEF IInv

LEMMA UsbStepInv ==
  ASSUME IInv, UNCHANGED bleVars, UsbInv', At("TMR_ENABLE") => At("TMR_ENABLE")'
  PROVE  IInv'
  <1>1. BleOK /\ BleTypes /\ BlinksUntilItCommunicates
    BY DEF IInv, BleOK
  <1>2. /\ UNCHANGED <<timer_on, led_on>>
        /\ UNCHANGED <<Ble_State, conn_handle, events, radio, peer, listening>>
        /\ timer_on' \in BOOLEAN /\ led_on' \in BOOLEAN /\ led_sta' \in BOOLEAN
    BY <1>1 DEF bleVars, peer, BleTypes
  <1>3. BleOK'
    BY <1>1, <1>2, BleUnchanged
  <1>4. BlinksUntilItCommunicates'
    BY <1>1, <1>2, BlinksKept
  <1>5. QED
    BY <1>3, <1>4 DEF IInv

LEMMA InitInv == Init => IInv
  <1> SUFFICES ASSUME Init PROVE IInv
    OBVIOUS
  <1> DEFINE e == Event("STATE_WORKING")
  <1>1. /\ Ble_State = "SCAN" /\ conn_handle = INVALID_HANDLE /\ events = <<e>>
        /\ timer_on = TRUE /\ led_on = TRUE /\ led_sta = FALSE
        /\ radio = "OFF" /\ link = INVALID_HANDLE
        /\ discovering = FALSE /\ listening = INVALID_HANDLE
        /\ security = "NONE" /\ subscribed = FALSE
    BY DEF Init, BleInit
  <1>2. e \in Events /\ e.type = "STATE_WORKING" /\ MaxEvents \in Nat
    BY NewEvents, DongleAssumption DEF PlainTypes
  <1> HIDE DEF e
  <1>3. events \in Seq(Events) /\ Len(events) = 1 /\ Ordered(events) /\ Waiting = {e}
    BY <1>1, <1>2 DEF Ordered, Waiting, Elements
  <1>4. ~Linked
    BY <1>1, DongleAssumption DEF Linked
  <1>5. BleTypes
    <2>1. Len(events) <= MaxEvents + 2
      BY <1>2, <1>3
    <2>2. {conn_handle, link, listening} \subseteq Handles \cup {INVALID_HANDLE}
      BY <1>1
    <2>3. QED
      BY <1>1, <2>1, <2>2 DEF BleTypes
  <1>6. QueueOK
    BY <1>1, <1>2, <1>3, <1>4 DEF QueueOK, Fits, Found
  <1>7. Pending("STATE_WORKING")
    BY <1>2, <1>3, PendingWaits
  <1>8. LinkOK /\ StateOK /\ BlinksUntilItCommunicates
    BY <1>1, <1>4, <1>7 DEF LinkOK, StateOK, BlinksUntilItCommunicates
  <1>9. QED
    BY <1>5, <1>6, <1>8, UsbInitInv DEF Init, IInv, BleOK

LEMMA NextInv == IInv /\ [Next]_vars => IInv'
  <1> SUFFICES ASSUME IInv, [Next]_vars PROVE IInv'
    OBVIOUS
  <1>1. UsbInv
    BY DEF IInv
  <1>2. CASE UNCHANGED vars
    <2>1. UNCHANGED usbVars /\ UNCHANGED bleVars /\ (At("TMR_ENABLE") => At("TMR_ENABLE")')
      BY <1>2 DEF vars, usbVars, At
    <2>2. QED
      BY <1>1, <2>1, UsbUnchangedInv, UsbStepInv
  <1>3. CASE Handle
    <2>1. CASE UsbSend /\ UNCHANGED bleVars
      BY <1>1, <2>1, UsbSendInv, UsbStepInv DEF At, Sends
    <2>2. QED
      BY <1>3, <2>1, StateWorkingInv, ExtendedAdvertisingReportInv, ConnectedInv, PlatformResetInv,
         ServiceDiscoveryCallbackInv, SmStateChangedInv, SmPairedInv, UserMsgHandlerInv,
         NotificationHandlerInv, DisconnectionCompleteInv, EnableTimerInv
      DEF Handle
  <1>4. CASE Environment
    <2>1. CASE UsbController /\ UNCHANGED bleVars
      <3>1. task' = task
        BY <2>1 DEF UsbController, DmaReads, HostPolls
      <3>2. QED
        BY <1>1, <2>1, <3>1, ControllerInv, UsbStepInv DEF At
    <2>2. QED
      BY <1>4, <2>1, AdvertiseInv, ConnectInv, DiscoveryEndsInv, SecurityEndsInv, NotifyInv,
         LoseLinkInv
      DEF Environment
  <1>5. CASE Interrupt
    <2>1. CASE (UsbTransfer \/ UsbEnumeration \/ UsbHost) /\ UNCHANGED bleVars
      <3>1. task' = task
        BY <2>1 DEF UsbTransfer, TransmitEnd, UsbEnumeration, UsbHost, DeviceReset,
           DeviceSuspendResume, SetConfiguration, GetDescriptor, Ep0TransmitEnd, SetReport,
           Ep0ReceiveEnd, CtlReceiveEnd
      <3>2. QED
        BY <1>1, <2>1, <3>1, UsbInterruptInv, UsbStepInv DEF At
    <2>2. QED
      BY <1>5, <2>1, TimerInterruptInv DEF Interrupt
  <1>6. QED
    BY <1>2, <1>3, <1>4, <1>5 DEF Next

(***************************************************************************)
(* Theorems.                                                               *)
(***************************************************************************)
\* The invariant: the queue tells the truth about the controller, and the
\* flags of the driver about the reports under way.
THEOREM InductiveInvariant == Spec => []IInv
  BY InitInv, NextInv, PTL DEF Spec

\* The variables of the profile and of the USB driver have their types, and
\* no more than two events of a lost link exceed the bound on the queue.
THEOREM TypeCorrectness == Spec => []TypeOK
  <1>1. IInv => TypeOK
    BY UsbTypesAreTypes DEF IInv, UsbInv, BleOK, BleTypes, TypeOK
  <1>2. QED
    BY <1>1, InductiveInvariant, PTL

\* sendBusy is not left set: each flag of bsp_usb_hid_iap.c stands for a
\* report that is about to be armed, under way, or ended by a bus reset.
THEOREM FlagsAreReleased == Spec => []ReportsAreReleased
  <1>1. IInv => ReportsAreReleased
    BY DEF IInv, UsbInv
  <1>2. QED
    BY <1>1, InductiveInvariant, PTL

\* What the DMA has read from the buffer of the control endpoint is the report
\* that bsp_usb_hid_report_send accepted, whatever the interrupts do meanwhile.
THEOREM SentIsAccepted == Spec => []SendsWhatWasAccepted
  <1>1. IInv => SendsWhatWasAccepted
    BY DEF IInv, UsbInv, BufferOK, SendsWhatWasAccepted
  <1>2. QED
    BY <1>1, InductiveInvariant, PTL

\* Ble_State of profile.c agrees with what the controller does, or an event that
\* changes it already waits: the profile never takes itself to be scanning,
\* connecting or communicating when nothing of the kind is going on.
THEOREM StateAgrees == Spec => []StateMatchesController
  <1>1. IInv => StateMatchesController
    <2> SUFFICES ASSUME IInv PROVE StateMatchesController
      OBVIOUS
    <2>1. LinkOK /\ StateOK /\ Ble_State \in {"SCAN", "CONNECT", "COMMUNICATING"}
          /\ radio \in {"OFF", "SCANNING", "INITIATING", "STANDBY"}
      BY DEF IInv, BleOK, BleTypes
    <2>2. (\E e \in Waiting : Refused(e)) => Pending("CONNECTION_COMPLETE")
      BY PendingWaits DEF Refused
    <2>3. QED
      BY <2>1, <2>2 DEF LinkOK, StateOK, StateMatchesController
  <1>2. QED
    BY <1>1, InductiveInvariant, PTL

\* The handler of the queued message enables the notifications of the link
\* that was paired, unless the end of that link waits behind the message.
THEOREM MessageReachesPairedLink == Spec => []NotifiesOnPairedLink
  <1>1. IInv => NotifiesOnPairedLink
    <2> SUFFICES ASSUME IInv, IsNext("USER_MSG"), ~Pending("DISCONNECTION_COMPLETE")
                 PROVE  conn_handle \in {INVALID_HANDLE, link} /\ (Linked => security = "PAIRED")
      BY DEF NotifiesOnPairedLink
    <2> DEFINE h == Head(events)
    <2>1. QueueOK /\ LinkOK
      BY DEF IInv, BleOK
    <2>2. /\ h.type = "USER_MSG" /\ Waiting = {h} \cup Elements(Tail(events))
          /\ \A y \in Elements(Tail(events)) : MayFollow(h, y)
      BY <2>1, QueueTail DEF QueueOK, IsNext, Waiting
    <2> HIDE DEF h
    <2>3. radio \in {"STANDBY", "SCANNING"} /\ (Linked => security = "PAIRED")
      BY <2>1, <2>2 DEF QueueOK, Fits
    <2>4. \A y \in Waiting : y.type # "CONNECTION_COMPLETE"
      BY <2>2 DEF MayFollow
    <2>5. ~Pending("CONNECTION_COMPLETE") /\ ~(\E y \in Waiting : Refused(y))
      BY <2>4, PendingWaits DEF Refused
    <2>6. QED
      BY <2>1, <2>3, <2>5 DEF LinkOK
  <1>2. QED
    BY <1>1, InductiveInvariant, PTL

\* The timer that the TIMER2 interrupt stops is running again in every state
\* that blinks, although the interrupt may come in the middle of the handler
\* that changes the state.
THEOREM TimerIsNotLost == Spec => []BlinksUntilItCommunicates
  <1>1. IInv => BlinksUntilItCommunicates
    BY DEF IInv
  <1>2. QED
    BY <1>1, InductiveInvariant, PTL
=============================================================================
