------------------------------- MODULE EmiUsb -------------------------------
(***************************************************************************)
(* The USB driver of the EMI firmware: IAP_BSP/bsp_usb_hid_iap.c on        *)
(* FWlib/peripheral_usb.c.  Two HID interfaces share one buffer for what   *)
(* is received and one for what is sent: HOST, on which the EMI test and   *)
(* the UCM commands travel, and CTL, on which the firmware update does.    *)
(*                                                                         *)
(* What runs in the USB interrupt is one step per event: commands are      *)
(* received, and those of UCM and IAP answered, there.  EMI commands are   *)
(* answered from the main loop, whose sending takes the four steps the     *)
(* interrupt may come between.  The keyboard endpoint is left out, since   *)
(* nothing in this firmware sends on it.  A message is told from others by *)
(* its service and a datum, and an answer repeats those of its command.    *)
(*                                                                         *)
(* A definition marked "Slip" is a plausible mistake in the definition     *)
(* after it; no action uses it.                                            *)
(***************************************************************************)
EXTENDS Integers, Sequences

CONSTANTS
  Data,         \* what tells one command of a service from another
  Environments, \* what hosts may do, below
  MaxDue        \* bound on the EMI answers that are due

Interfaces == {"HOST", "CTL"}
Services == {"UCM", "EMI", "IAP"}
Faults == {"RESET", "SUSPEND"}

\* The services hosts use, the commands they give them, whether there is one
\* host, that waits for each answer and first reads both report descriptors, or
\* several that do not, and what may happen to the bus.
ASSUME EnvironmentAssumption ==
  Environments \subseteq
    [services : SUBSET Services, data : SUBSET Data, polite : BOOLEAN, faults : SUBSET Faults]
ASSUME DueAssumption == MaxDue \in Nat \ {0}

VARIABLES
  report,         \* UcmReport of HOST, CtlReport of CTL: [preReady, ready, sendBusy]
  kb_led_state_recving,
  DataRecvBuf, DataSendBuf,   \* the message in the buffer, or Zeros
  configured,     \* the endpoints are active (SET_CONFIGURATION)
  suspended,
  Ep0State,
  out,            \* OUT endpoints: "IDLE", "ARMED", or "DONE", their interrupt pending
  in,             \* IN endpoints: the same, and "LOADED" by the DMA
  loaded,         \* what the DMA has read for an IN endpoint
  loop,           \* where the main loop is in bsp_usb_hid_host_send: [pc, message]
  due,            \* the EMI answers the main loop is going to send
  env,            \* the environment, chosen once
  asked,          \* the command the host waits for an answer to, or Zeros
  read,           \* interfaces whose report descriptor was read since the reset
  dropped         \* history: IN endpoints a bus reset ended a transfer of

buffers == <<DataRecvBuf, DataSendBuf>>
bus == <<configured, suspended, Ep0State, kb_led_state_recving>>
main == <<loop, due>>
vars == <<report, buffers, bus, out, in, loaded, main, env, asked, read,
          dropped>>

Messages == [service : Services, data : Data]
Zeros == [service |-> "NONE", data |-> "NONE"]
InterfaceOf(service) == IF service = "IAP" THEN "CTL" ELSE "HOST"
Idle == [pc |-> "IDLE", message |-> Zeros]
Polite == env.polite

Init ==
  /\ report = [i \in Interfaces |-> [preReady |-> FALSE, ready |-> FALSE, sendBusy |-> FALSE]]
  /\ DataRecvBuf = Zeros /\ DataSendBuf = Zeros
  /\ configured = FALSE /\ suspended = FALSE /\ Ep0State = "EP0_IDLE" /\ kb_led_state_recving = FALSE
  /\ out = [i \in Interfaces |-> "IDLE"] /\ in = [i \in Interfaces |-> "IDLE"]
  /\ loaded = [i \in Interfaces |-> Zeros]
  /\ loop = Idle /\ due = <<>>
  /\ env \in Environments
  /\ asked = Zeros /\ read = {} /\ dropped = {}

-----------------------------------------------------------------------------
(***************************************************************************)
(* Sending.                                                                *)
(***************************************************************************)
\* USB_SendData: an endpoint that is not active refuses.
Arm(i) == in' = IF configured THEN [in EXCEPT ![i] = "ARMED"] ELSE in

Sendable(r) == r.ready /\ ~r.sendBusy

\* bsp_usb_hid_iap_send, and bsp_usb_hid_host_send for an answer of UCM, both
\* in the interrupt: whole.  The flag is taken back when the endpoint refuses.
SendNow(i, m, r) ==
  IF Sendable(r)
    THEN /\ DataSendBuf' = m /\ Arm(i)
         /\ report' = [report EXCEPT ![i] = [r EXCEPT !.sendBusy = configured]]
    ELSE report' = [report EXCEPT ![i] = r] /\ UNCHANGED <<DataSendBuf, in>>

\* bsp_usb_hid_host_send in the main loop, for an answer of EMI: the flags are
\* tested ...
LoopTest ==
  /\ loop.pc = "IDLE" /\ due # <<>> /\ due' = Tail(due)
  /\ loop' = IF Sendable(report["HOST"]) THEN [pc |-> "SET", message |-> Head(due)] ELSE Idle
  /\ UNCHANGED <<report, buffers, bus, out, in, loaded, env, asked, read,
                 dropped>>

\* ... sendBusy is set ...
LoopSetBusy ==
  /\ loop.pc = "SET" /\ loop' = [loop EXCEPT !.pc = "COPY"]
  /\ report' = [report EXCEPT !["HOST"].sendBusy = TRUE]
  /\ UNCHANGED <<buffers, bus, out, in, loaded, due, env, asked, read, dropped>>

\* ... the answer is copied ...
LoopCopy ==
  /\ loop.pc = "COPY" /\ loop' = [loop EXCEPT !.pc = "ARM"]
  /\ DataSendBuf' = loop.message
  /\ UNCHANGED <<report, DataRecvBuf, bus, out, in, loaded, due, env, asked,
                 read, dropped>>

\* Slip: the status of USB_SendData is not looked at.
LoopArmSlip ==
  /\ loop.pc = "ARM" /\ loop' = Idle /\ Arm("HOST")
  /\ UNCHANGED <<report, buffers, bus, out, loaded, due, env, asked, read,
                 dropped>>

\* ... and USB_SendData arms the endpoint or refuses.
LoopArm ==
  /\ loop.pc = "ARM" /\ loop' = Idle /\ Arm("HOST")
  /\ report' = [report EXCEPT !["HOST"].sendBusy = @ /\ configured]
  /\ UNCHANGED <<buffers, bus, out, loaded, due, env, asked, read, dropped>>

\* A sweep makes the main loop answer each of its steps, unasked.
SweepStep(d) ==
  /\ ~Polite /\ "EMI" \in env.services /\ d \in env.data /\ Len(due) < MaxDue
  /\ due' = Append(due, [service |-> "EMI", data |-> d])
  /\ UNCHANGED <<report, buffers, bus, out, in, loaded, loop, env, asked,
                 read, dropped>>

MainLoop == LoopTest \/ LoopSetBusy \/ LoopCopy \/ LoopArm

-----------------------------------------------------------------------------
(***************************************************************************)
(* The controller (external).  The DMA reads the buffer of an armed IN     *)
(* endpoint at some time before the host takes the report, and writes a    *)
(* report that comes to an armed OUT endpoint into its buffer.             *)
(***************************************************************************)
DmaReads(i) ==
  /\ in[i] = "ARMED" /\ in' = [in EXCEPT ![i] = "LOADED"]
  /\ loaded' = [loaded EXCEPT ![i] = DataSendBuf]
  /\ UNCHANGED <<report, buffers, bus, out, main, env, asked, read, dropped>>

\* A host that waits for an answer takes what it gets for one.
HostPolls(i) ==
  /\ in[i] = "LOADED" /\ ~suspended /\ in' = [in EXCEPT ![i] = "DONE"]
  /\ loaded' = [loaded EXCEPT ![i] = Zeros]
  /\ asked' = IF InterfaceOf(asked.service) = i THEN Zeros ELSE asked
  /\ UNCHANGED <<report, buffers, bus, out, main, env, read, dropped>>

HostSends(m) ==
  LET i == InterfaceOf(m.service)
  IN /\ m.service \in env.services /\ m.data \in env.data /\ ~suspended /\ out[i] = "ARMED"
     /\ Polite => asked = Zeros /\ read = Interfaces
     /\ m.service = "EMI" => Len(due) < MaxDue
     /\ out' = [out EXCEPT ![i] = "DONE"] /\ DataRecvBuf' = m
     /\ asked' = IF Polite THEN m ELSE asked
     /\ UNCHANGED <<report, DataSendBuf, bus, in, loaded, main, env, read,
                    dropped>>

-----------------------------------------------------------------------------
(***************************************************************************)
(* bsp_usb_event_handler, in the USB interrupt: data endpoints.            *)
(***************************************************************************)
\* bsp_usp_hid_ctl_rx_data_trigger, bsp_usp_hid_host_rx_data_trigger: the
\* shared buffer is cleared, and the endpoint armed if it is active.
Listen(i) ==
  /\ DataRecvBuf' = Zeros
  /\ out' = [out EXCEPT ![i] = IF configured THEN "ARMED" ELSE "IDLE"]

\* Slip: the endpoint is armed again only after a report of its service.
ListenAgainSlip(i) ==
  IF InterfaceOf(DataRecvBuf.service) = i THEN Listen(i)
  ELSE out' = [out EXCEPT ![i] = "IDLE"] /\ UNCHANGED DataRecvBuf
ListenAgain(i) == Listen(i)

\* Slip: the OUT endpoints are served whatever the IN endpoints wait for.
InServedSlip == TRUE
\* USB_IrqHandler serves the IN endpoints first.
InServed == \A i \in Interfaces : in[i] # "DONE"

\* Slip: the commands of UCM are queued as well.
ForEmiSlip(m, i) == m # Zeros /\ i = "HOST"
ForEmi(m, i) == m.service = "EMI" /\ i = "HOST"

\* RECEIVE_END: what the buffer holds is handed to the service it is for, which
\* answers at once, or for EMI queues its request; the rest is ignored.
ReceiveEnd(i) ==
  LET m == DataRecvBuf
      r == [report[i] EXCEPT !.ready = TRUE]
  IN /\ out[i] = "DONE" /\ InServed /\ ListenAgain(i)
     /\ \/ /\ m.service \in {"UCM", "IAP"} /\ InterfaceOf(m.service) = i
           /\ SendNow(i, m, r) /\ UNCHANGED due
        \/ /\ ForEmi(m, i) /\ due' = Append(due, m)
           /\ report' = [report EXCEPT ![i] = r] /\ UNCHANGED <<DataSendBuf, in>>
        \/ /\ m = Zeros \/ InterfaceOf(m.service) # i
           /\ report' = [report EXCEPT ![i] = r] /\ UNCHANGED <<DataSendBuf, in, due>>
     /\ UNCHANGED <<bus, loaded, loop, env, asked, read, dropped>>

Release(i) == [report[i] EXCEPT !.sendBusy = FALSE]

TransmitEnd(i) ==
  /\ in[i] = "DONE" /\ in' = [in EXCEPT ![i] = "IDLE"]
  /\ report' = [report EXCEPT ![i] = Release(i)]
  /\ dropped' = dropped \ {i}
  /\ UNCHANGED <<buffers, bus, out, loaded, main, env, asked, read>>

-----------------------------------------------------------------------------
(***************************************************************************)
(* Bus events and control transfers.                                       *)
(***************************************************************************)
\* Slip: the IN endpoints keep their transfers.
USB_ReInitSlip ==
  /\ configured' = FALSE /\ out' = [i \in Interfaces |-> "IDLE"]
  /\ UNCHANGED <<in, loaded>>

\* USB_DisableEp cancels the transfer of every endpoint. It does not clear the
\* active bit that USB_SendData tests: the hardware does, at the reset.
USB_ClrConfig ==
  /\ configured' = FALSE
  /\ out' = [i \in Interfaces |-> "IDLE"] /\ in' = [i \in Interfaces |-> "IDLE"]

\* The FIFOs are flushed as well.
USB_ReInit == USB_ClrConfig /\ loaded' = [i \in Interfaces |-> Zeros]

\* USB_EVENT_DEVICE_RESET: no flag of a report is touched.
DeviceReset ==
  /\ "RESET" \in env.faults
  /\ USB_ReInit /\ suspended' = FALSE /\ Ep0State' = "EP0_IDLE"
  /\ dropped' = dropped \cup {i \in Interfaces : in[i] # "IDLE"}
  /\ asked' = Zeros /\ read' = {}
  /\ UNCHANGED <<report, kb_led_state_recving, buffers, main, env>>

DeviceSuspend ==
  /\ "SUSPEND" \in env.faults /\ ~suspended /\ suspended' = TRUE
  /\ report' = [i \in Interfaces |-> [report[i] EXCEPT !.ready = FALSE]]
  /\ UNCHANGED <<buffers, configured, Ep0State, kb_led_state_recving, out, in, loaded, main, env,
                 asked, read, dropped>>

\* The control interface is released, too, whatever its endpoint is doing.
DeviceResume ==
  /\ suspended /\ suspended' = FALSE
  /\ report' = [report EXCEPT !["HOST"].ready = TRUE, !["CTL"].ready = TRUE,
                              !["CTL"].sendBusy = FALSE]
  /\ UNCHANGED <<buffers, configured, Ep0State, kb_led_state_recving, out, in, loaded, main, env,
                 asked, read, dropped>>

\* A SETUP packet starts a control transfer, whatever became of the last one.
\* The status stages, and the stall of a request that is not supported, change
\* nothing else, and count as EP0_IDLE.
Setup == ~suspended
NoData == Ep0State' = "EP0_IDLE"
DataIn == Ep0State' = "EP0_IN_DATA_PHASE"
DataOut == Ep0State' = "EP0_OUT_DATA_PHASE"

\* USB_REQUEST_DEVICE_SET_CONFIGURATION
SetConfiguration ==
  /\ Setup /\ NoData /\ configured' = TRUE
  /\ UNCHANGED <<report, buffers, kb_led_state_recving, suspended, out, in, loaded, main, env,
                 asked, read, dropped>>

\* USB_REQUEST_HID_CLASS_DESCRIPTOR_REPORT of an interface; every interface is
\* there once the device is configured.
GetReportDescriptor(i) ==
  /\ Setup /\ DataIn /\ configured
  /\ Polite => i \notin read
  /\ report' = [report EXCEPT ![i].preReady = TRUE]
  /\ UNCHANGED <<buffers, configured, suspended, kb_led_state_recving, out, in, loaded, main, env,
                 asked, read, dropped>>

\* USB_REQUEST_HID_CLASS_REQUEST_SET_REPORT: the LEDs of the keyboard, or
\* another report with data to the device, which is ignored.
SetReport(leds) ==
  /\ Setup /\ DataOut /\ kb_led_state_recving' = (leds \/ kb_led_state_recving)
  /\ UNCHANGED <<report, buffers, configured, suspended, out, in, loaded, main, env, asked, read,
                 dropped>>

\* The other requests: they send a descriptor or a state, have no data, or are
\* not supported.
OtherRequest ==
  /\ Setup /\ (DataIn \/ NoData)
  /\ UNCHANGED <<report, buffers, configured, suspended, kb_led_state_recving, out, in, loaded, main,
                 env, asked, read, dropped>>

PreReady == {i \in Interfaces : report[i].preReady}

\* TRANSMIT_END of endpoint 0: an interface whose report descriptor was asked
\* for listens, and is ready; CTL is released, too.
Ep0TransmitEnd ==
  /\ ~suspended /\ Ep0State = "EP0_IN_DATA_PHASE" /\ NoData
  /\ report' = [i \in Interfaces |->
                  IF i \in PreReady
                    THEN [preReady |-> FALSE, ready |-> TRUE,
                          sendBusy |-> report[i].sendBusy /\ i = "HOST"]
                    ELSE report[i]]
  /\ DataRecvBuf' = IF PreReady = {} THEN DataRecvBuf ELSE Zeros
  /\ out' = [i \in Interfaces |->
               IF i \in PreReady THEN IF configured THEN "ARMED" ELSE "IDLE" ELSE out[i]]
  /\ read' = IF configured THEN read \cup PreReady ELSE read
  /\ UNCHANGED <<DataSendBuf, configured, suspended, kb_led_state_recving, in, loaded, main, env,
                 asked, dropped>>

\* RECEIVE_END of endpoint 0: the state of the LEDs makes CTL ready.
Ep0ReceiveEnd ==
  /\ ~suspended /\ Ep0State = "EP0_OUT_DATA_PHASE" /\ NoData
  /\ kb_led_state_recving' = FALSE
  /\ report' = [report EXCEPT !["CTL"].ready = @ \/ kb_led_state_recving]
  /\ UNCHANGED <<buffers, configured, suspended, out, in, loaded, main, env, asked, read, dropped>>

Interrupt == \E i \in Interfaces : ReceiveEnd(i) \/ TransmitEnd(i)

Host ==
  \/ \E m \in Messages : HostSends(m)
  \/ DeviceReset \/ DeviceSuspend \/ DeviceResume
  \/ SetConfiguration \/ OtherRequest \/ \E leds \in BOOLEAN : SetReport(leds)
  \/ \E i \in Interfaces : GetReportDescriptor(i)
  \/ Ep0TransmitEnd \/ Ep0ReceiveEnd

Next ==
  \/ MainLoop \/ Interrupt \/ Host
  \/ \E d \in Data : SweepStep(d)
  \/ \E i \in Interfaces : DmaReads(i) \/ HostPolls(i)

Spec == Init /\ [][Next]_vars

\* The main loop goes round, the interrupt is served, the controller works, a
\* host polls the endpoints, however often the bus is suspended, and resumes it.
FairSpec ==
  /\ Spec /\ WF_vars(MainLoop) /\ WF_vars(DeviceResume)
  /\ \A i \in Interfaces :
       WF_vars(ReceiveEnd(i)) /\ WF_vars(TransmitEnd(i)) /\ WF_vars(DmaReads(i))
       /\ SF_vars(HostPolls(i))

-----------------------------------------------------------------------------
(***************************************************************************)
(* Properties.                                                             *)
(***************************************************************************)
TypeOK ==
  /\ report \in [Interfaces -> [preReady : BOOLEAN, ready : BOOLEAN, sendBusy : BOOLEAN]]
  /\ DataRecvBuf \in Messages \cup {Zeros} /\ DataSendBuf \in Messages \cup {Zeros}
  /\ configured \in BOOLEAN /\ suspended \in BOOLEAN
  /\ Ep0State \in {"EP0_IDLE", "EP0_IN_DATA_PHASE", "EP0_OUT_DATA_PHASE"}
  /\ kb_led_state_recving \in BOOLEAN
  /\ out \in [Interfaces -> {"IDLE", "ARMED", "DONE"}]
  /\ in \in [Interfaces -> {"IDLE", "ARMED", "LOADED", "DONE"}]
  /\ loaded \in [Interfaces -> Messages \cup {Zeros}]
  /\ loop \in [pc : {"IDLE", "SET", "COPY", "ARM"}, message : Messages \cup {Zeros}]
  /\ due \in Seq({m \in Messages : m.service = "EMI"})
  /\ env \in Environments
  /\ asked \in Messages \cup {Zeros} /\ read \in SUBSET Interfaces
  /\ dropped \in SUBSET Interfaces

\* An interface refuses to send only while a report is under way or about to
\* be armed, or for ever after a bus reset ended one (CTL: until its report
\* descriptor is read): no other path leaves sendBusy behind.
ReportsAreReleased ==
  \A i \in Interfaces :
    report[i].sendBusy =>
      \/ in[i] # "IDLE" \/ i \in dropped
      \/ i = "HOST" /\ loop.pc \in {"COPY", "ARM"}

\* Whenever an interface has been enumerated, and until the next reset, its OUT
\* endpoint is armed or about to be armed again: no report, foreign or its own,
\* no suspend and no second enumeration makes it deaf.
KeepsListening == \A i \in read : out[i] # "IDLE"

\* A host that waits gets, as its answer, the answer to the command it asked,
\* although the interfaces share their buffers; if it uses EMI, only without a
\* bus reset, after which the answer to an earlier command may come.
AnswersTheCommand ==
  Polite /\ ("EMI" \in env.services => "RESET" \notin env.faults) =>
    \A i \in Interfaces : in[i] = "LOADED" => loaded[i] = asked

\* Such a host is answered: no flag, buffer or endpoint is left in a state that
\* loses its command or the answer.  Excepted are HOST after a bus reset ended
\* its report, and EMI if the bus is suspended when its answer is due.
EveryCommandIsAnswered ==
  (asked # Zeros /\ ~(asked.service # "IAP" /\ "HOST" \in dropped)
                 /\ ~(asked.service = "EMI" /\ "SUSPEND" \in env.faults))
    ~> asked = Zeros

=============================================================================
