------------------------------- MODULE Dongle -------------------------------
(***************************************************************************)
(* The BLE dongle: profile.c, the TIMER2 interrupt of main.c and, through  *)
(* UsbHid, the reports that notifications become.                          *)
(*                                                                         *)
(* Events of the stack are handled one at a time by its task, in their     *)
(* order. A handler is one step, except where the order of its effects     *)
(* matters to an interrupt: the disconnection handler enables the timer in *)
(* a step of its own, and the sending of a report takes the steps of       *)
(* UsbHid. The controller, the peer and the two interrupts come in between.*)
(***************************************************************************)
EXTENDS UsbHid, FiniteSets

CONSTANTS
  Handles,        \* connection handles
  INVALID_HANDLE,
  MaxEvents       \* bound on the events that wait for the stack's task

ASSUME DongleAssumption ==
  /\ INVALID_HANDLE \notin Handles
  /\ MaxEvents \in Nat \ {0}

VARIABLES
  Ble_State,      \* "SCAN", "CONNECT", "COMMUNICATING"
  conn_handle,    \* slave.conn_handle
  events,         \* events that wait for the task of the stack
  timer_on,       \* TMR2 is enabled
  led_on,         \* LED_3
  led_sta,        \* the static of the interrupt handler
  radio,          \* the controller: "OFF", "SCANNING", "INITIATING", "STANDBY"
  env,            \* what is free to happen: "LINK" or "BUS", chosen once
  link,           \* the connection there is, or INVALID_HANDLE
  discovering,    \* a service discovery is under way
  listening,      \* the handle notifications are listened for on
  security,       \* of the link: "NONE", "PAIRING", "PAIRED"
  subscribed      \* the peer sends notifications on the link

bleVars == <<Ble_State, conn_handle, events, timer_on, led_on, led_sta, radio, env, link, discovering,
             listening, security, subscribed>>
vars == <<usbVars, bleVars>>
led == <<timer_on, led_on, led_sta>>
peer == <<env, link, discovering, security, subscribed>>

NotificationKinds == {"basic", "extend", "mouse", "short_mouse"}
Event(type) == [type |-> type]
AdvReport(wanted) == [type |-> "ADV_REPORT", wanted |-> wanted]
ConnectionComplete(status, h) == [type |-> "CONNECTION_COMPLETE", status |-> status, handle |-> h]
QueryComplete(status) == [type |-> "QUERY_COMPLETE", status |-> status]
Notification(kind, h) == [type |-> "NOTIFICATION", kind |-> kind, handle |-> h]

Types == {events[i].type : i \in DOMAIN events}

\* The static initial values, and the timer as setup_peripherals leaves it.
BleInit ==
  /\ Ble_State = "SCAN" /\ conn_handle = INVALID_HANDLE
  /\ events = <<Event("STATE_WORKING")>>
  /\ timer_on = TRUE /\ led_on = TRUE /\ led_sta = FALSE
  /\ radio = "OFF" /\ link = INVALID_HANDLE
  /\ discovering = FALSE /\ listening = INVALID_HANDLE
  /\ security = "NONE" /\ subscribed = FALSE

Init == UsbInit /\ BleInit /\ env \in {"LINK", "BUS"}

-----------------------------------------------------------------------------
(***************************************************************************)
(* The handlers of the stack's events.                                     *)
(***************************************************************************)
IsNext(type) == At("IDLE") /\ events # <<>> /\ Head(events).type = type
Take(type) == IsNext(type) /\ events' = Tail(events)

\* user_packet_handler, BTSTACK_EVENT_STATE.
StateWorking ==
  /\ Take("STATE_WORKING")
  /\ radio' = "SCANNING"
  /\ UNCHANGED <<usbVars, Ble_State, conn_handle, led, peer, listening>>

\* An advertising report: of a keyboard or mouse that is near enough, or not.
ExtendedAdvertisingReport ==
  /\ Take("ADV_REPORT")
  /\ IF Head(events).wanted
       THEN Ble_State' = "CONNECT" /\ radio' = "INITIATING"
       ELSE UNCHANGED <<Ble_State, radio>>
  /\ UNCHANGED <<usbVars, conn_handle, led, peer, listening>>

\* HCI_SUBEVENT_LE_ENHANCED_CONNECTION_COMPLETE. A failure resets the
\* platform, and everything begins anew.
Connected ==
  /\ Take("CONNECTION_COMPLETE") /\ Head(events).status = 0
  /\ conn_handle' = Head(events).handle
  /\ discovering' = (link = Head(events).handle)
  /\ UNCHANGED <<usbVars, Ble_State, led, radio, env, link, security, subscribed, listening>>

PlatformReset ==
  /\ IsNext("CONNECTION_COMPLETE") /\ Head(events).status # 0
  /\ UsbRestart
  /\ Ble_State' = "SCAN" /\ conn_handle' = INVALID_HANDLE
  /\ events' = <<Event("STATE_WORKING")>>
  /\ timer_on' = TRUE /\ led_on' = TRUE /\ led_sta' = FALSE
  /\ radio' = "OFF" /\ env' = env /\ link' = INVALID_HANDLE
  /\ discovering' = FALSE /\ listening' = INVALID_HANDLE
  /\ security' = "NONE" /\ subscribed' = FALSE

\* Slip: the status of the query is not looked at.
QueryCompleteOkSlip(e) == TRUE
QueryCompleteOk(e) == e.status = 0

\* service_discovery_callback, GATT_EVENT_QUERY_COMPLETE. The first handle of
\* the service is never INVALID_HANDLE: it is 0 until a service was found.
ServiceDiscoveryCallback ==
  /\ Take("QUERY_COMPLETE")
  /\ IF QueryCompleteOk(Head(events))
       THEN /\ listening' = conn_handle
            /\ Ble_State' = "COMMUNICATING"
            /\ security' = IF link = conn_handle /\ link \in Handles THEN "PAIRING" ELSE security
       ELSE UNCHANGED <<listening, Ble_State, security>>
  /\ UNCHANGED <<usbVars, conn_handle, led, radio, env, link, discovering, subscribed>>

\* sm_packet_handler: only a pairing, not a security that is re-established,
\* leads to the message that enables notifications.
SmStateChanged ==
  /\ Take("SM_REESTABLISHED") \/ Take("SM_FINAL_FAIL")
  /\ UNCHANGED <<usbVars, Ble_State, conn_handle, led, radio, peer, listening>>

SmPaired ==
  /\ IsNext("SM_PAIRED")
  /\ events' = Append(Tail(events), Event("USER_MSG"))
  /\ UNCHANGED <<usbVars, Ble_State, conn_handle, led, radio, peer, listening>>

\* user_msg_handler, USER_MSG_NOTIFY_ENABLE.
UserMsgHandler ==
  /\ Take("USER_MSG")
  /\ subscribed' = (subscribed \/ (conn_handle = link /\ link \in Handles))
  /\ UNCHANGED <<usbVars, Ble_State, conn_handle, led, radio, env, link, discovering, security, listening>>

\* The three notification handlers. A mouse report that is too short is
\* dropped, and so is every report that the driver does not take.
NotificationHandler ==
  /\ Take("NOTIFICATION")
  /\ LET n == Head(events) IN
       IF n.handle # listening THEN UNCHANGED usbVars
       ELSE CASE n.kind = "basic" -> BasicReportStart
              [] n.kind = "extend" -> ReportSend("KB_REPORT_ID")
              [] n.kind = "mouse" -> ReportSend("MOUSE_REPORT_ID")
              [] n.kind = "short_mouse" -> UNCHANGED usbVars
  /\ UNCHANGED <<Ble_State, conn_handle, led, radio, peer, listening>>

\* Slip: the handle of the connection is kept.
HandleAfterDisconnectionSlip == conn_handle
HandleAfterDisconnection == INVALID_HANDLE

ResumedScan == "SCANNING"

\* HCI_EVENT_DISCONNECTION_COMPLETE up to the change of state ...
DisconnectionComplete ==
  /\ Take("DISCONNECTION_COMPLETE")
  /\ conn_handle' = HandleAfterDisconnection
  /\ radio' = ResumedScan
  /\ Ble_State' = "SCAN"
  /\ task' = [task EXCEPT !.pc = "TMR_ENABLE"]
  /\ UNCHANGED <<KeybReport, CtlReport, DataSendBuf, bus, in, completed, sending, accepted, dropped,
                 echoed, led, peer, listening>>

\* Slip: the timer is taken to run still.
EnableTimerSlip ==
  /\ At("TMR_ENABLE") /\ Finish
  /\ UNCHANGED <<KeybReport, CtlReport, DataSendBuf, bus, in, completed, sending, accepted, dropped,
                 echoed, bleVars>>

\* ... and the timer.
EnableTimer ==
  /\ At("TMR_ENABLE") /\ Finish
  /\ timer_on' = TRUE
  /\ UNCHANGED <<KeybReport, CtlReport, DataSendBuf, bus, in, completed, sending, accepted, dropped,
                 echoed, Ble_State, conn_handle, events, led_on, led_sta, radio, peer, listening>>

\* IRQHandler_TIMER2_INT: the LED is toggled, then the timer goes on or the
\* LED stays on.
TimerInterrupt ==
  /\ timer_on
  /\ led_sta' = ~led_sta
  /\ timer_on' = (Ble_State # "COMMUNICATING")
  /\ led_on' = (Ble_State = "COMMUNICATING" \/ ~led_sta)
  /\ UNCHANGED <<usbVars, Ble_State, conn_handle, events, radio, peer, listening>>

-----------------------------------------------------------------------------
(***************************************************************************)
(* The controller and the peer (external).                                 *)
(***************************************************************************)
Room == Len(events) < MaxEvents
Post(e) == events' = Append(events, e)

Advertise ==
  /\ radio = "SCANNING" /\ Room
  /\ \E wanted \in BOOLEAN : Post(AdvReport(wanted))
  /\ UNCHANGED <<usbVars, Ble_State, conn_handle, led, radio, peer, listening>>

\* A connection takes longer than it takes the task to drain the reports that
\* were queued when scanning stopped.
Connect ==
  /\ radio = "INITIATING" /\ "ADV_REPORT" \notin Types /\ Room
  /\ radio' = "STANDBY"
  /\ \/ \E h \in Handles : link' = h /\ Post(ConnectionComplete(0, h))
     \/ link' = link /\ Post(ConnectionComplete(1, INVALID_HANDLE))
  /\ discovering' = FALSE /\ security' = "NONE" /\ subscribed' = FALSE
  /\ UNCHANGED <<usbVars, Ble_State, conn_handle, led, env, listening>>

\* The discovery ends well, or with an error while the link is still there.
DiscoveryEnds ==
  /\ discovering /\ discovering' = FALSE /\ Room
  /\ \E status \in {0, 1} : Post(QueryComplete(status))
  /\ UNCHANGED <<usbVars, Ble_State, conn_handle, led, radio, env, link, listening, security, subscribed>>

\* A bonded peer may remember that its notifications are enabled.
SecurityEnds ==
  /\ security = "PAIRING" /\ Room
  /\ \/ security' = "PAIRED" /\ Post(Event("SM_PAIRED"))
        /\ UNCHANGED subscribed
     \/ security' = "PAIRED" /\ Post(Event("SM_REESTABLISHED")) /\ subscribed' \in BOOLEAN
     \/ security' = "NONE" /\ Post(Event("SM_FINAL_FAIL")) /\ UNCHANGED subscribed
  /\ UNCHANGED <<usbVars, Ble_State, conn_handle, led, radio, env, link, discovering, listening>>

Notify ==
  /\ subscribed /\ Room /\ "NOTIFICATION" \notin Types
  /\ \E kind \in NotificationKinds : Post(Notification(kind, link))
  /\ UNCHANGED <<usbVars, Ble_State, conn_handle, led, radio, peer, listening>>

\* The link is lost; a discovery under way fails, before or after the event.
LoseLink ==
  /\ env = "LINK" \/ ~subscribed
  /\ link \in Handles /\ link' = INVALID_HANDLE
  /\ discovering' = FALSE /\ security' = "NONE" /\ subscribed' = FALSE
  /\ LET lost == Event("DISCONNECTION_COMPLETE") IN
       IF discovering
         THEN \/ events' = events \o <<QueryComplete(1), lost>>
              \/ events' = events \o <<lost, QueryComplete(1)>>
         ELSE Post(lost)
  /\ UNCHANGED <<usbVars, Ble_State, conn_handle, led, radio, env, listening>>

-----------------------------------------------------------------------------
Handle ==
  \/ StateWorking \/ ExtendedAdvertisingReport \/ Connected \/ PlatformReset
  \/ ServiceDiscoveryCallback \/ SmStateChanged \/ SmPaired \/ UserMsgHandler
  \/ NotificationHandler \/ DisconnectionComplete \/ EnableTimer
  \/ UsbSend /\ UNCHANGED bleVars

Environment ==
  \/ Advertise \/ Connect \/ DiscoveryEnds \/ SecurityEnds \/ Notify \/ LoseLink
  \/ UsbController /\ UNCHANGED bleVars

Interrupt ==
  \/ TimerInterrupt
  \/ (UsbTransfer \/ UsbEnumeration \/ (env = "BUS" /\ subscribed /\ ~timer_on /\ UsbHost)) /\ UNCHANGED bleVars

Next == Handle \/ Environment \/ Interrupt

Spec == Init /\ [][Next]_vars

-----------------------------------------------------------------------------
(***************************************************************************)
(* Properties.                                                             *)
(***************************************************************************)
TypeOK ==
  /\ UsbTypeOK
  /\ Ble_State \in {"SCAN", "CONNECT", "COMMUNICATING"}
  /\ {conn_handle, link, listening} \subseteq Handles \cup {INVALID_HANDLE}
  /\ Len(events) <= MaxEvents + 2
  /\ timer_on \in BOOLEAN /\ led_on \in BOOLEAN /\ led_sta \in BOOLEAN
  /\ radio \in {"OFF", "SCANNING", "INITIATING", "STANDBY"}
  /\ security \in {"NONE", "PAIRING", "PAIRED"}
  /\ discovering \in BOOLEAN /\ subscribed \in BOOLEAN

Linked == link \in Handles
Pending(type) == type \in Types

\* Each state of the profile stands for something in the controller, or an
\* event that ends it is already waiting: SCAN scans, CONNECT is on its way
\* to a connection or has one, COMMUNICATING has the connection it uses.
\* Otherwise the dongle waits for a peer that nobody looks for.
StateMatchesController ==
  CASE Ble_State = "SCAN" -> ~Linked /\ (radio = "SCANNING" \/ Pending("STATE_WORKING"))
    [] Ble_State = "CONNECT" ->
         radio = "INITIATING" \/ Linked \/ Pending("CONNECTION_COMPLETE")
         \/ Pending("DISCONNECTION_COMPLETE")
    [] Ble_State = "COMMUNICATING" ->
         (Linked /\ conn_handle = link) \/ Pending("DISCONNECTION_COMPLETE")

\* The message that enables notifications is queued behind other events:
\* when it is handled, it goes to the link that was paired, or to nobody.
NotifiesOnPairedLink ==
  IsNext("USER_MSG") /\ ~Pending("DISCONNECTION_COMPLETE") =>
    conn_handle \in {INVALID_HANDLE, link} /\ (Linked => security = "PAIRED")

\* The one-shot timer of the LED is lost in no state that blinks: it is off
\* only while the dongle communicates, with the LED on, or is about to be
\* enabled by the disconnection handler.
BlinksUntilItCommunicates ==
  timer_on \/ (led_on /\ (Ble_State = "COMMUNICATING" \/ At("TMR_ENABLE")))
=============================================================================
