----------------------------- MODULE EmiControl -----------------------------
(***************************************************************************)
(* The EMI test controller of the ING20 firmware (Ctrl/ctrl_emi.c).        *)
(*                                                                         *)
(* Three actors share its static variables:                                *)
(*   - the main loop, which calls emi_loop() for ever (one step here is    *)
(*     one call of emi_loop) and in which HCI command-complete events are  *)
(*     delivered between two calls;                                        *)
(*   - the USB interrupt, whose receive callback runs EMI_Dispatch;        *)
(*   - the TIMER1 interrupt, whose handler runs the sweep callback.        *)
(* Variables carry the names of the source.  The radio and the HCI command *)
(* queue of the Bluetooth controller are the external part of the model.   *)
(* A definition marked "Slip" is a plausible mistake in the definition     *)
(* that follows it; no action uses it, it shows what the properties notice.*)
(***************************************************************************)
EXTENDS Integers, Sequences, FiniteSets

CONSTANTS
  HostCommands,        \* the usb_rf_cmd_t packets the host may send
  REQUEST_QUEUE_DEPTH, \* slots of the request ring (8 in the source)
  EMI_RX_ENABLE,       \* the compile-time switch (FALSE in the source)
  HciSlots,            \* HCI commands the stack accepts before gap_* fails
  HostWindow,          \* environment: commands the host may have unanswered
  SlowTimer,           \* environment: no sweep tick while one is unserved
  PromptController     \* environment: completions beat the 200 ms timeout

\* A command packet: is it a start, of what mode, sweep type and wave form.
\* The fields that only parameterise the test are one value, par.
Command == [is_start : BOOLEAN, is_rx : BOOLEAN,
            mode : {"SINGLE", "SWEEP", "OTHER_SWEEP", "UNKNOWN"},
            type : {"BLE", "24G"}, wave : {"CARRIER", "PAYLOAD"}, par : Nat]

ASSUME CommandsAssumption == HostCommands \subseteq Command
ASSUME DepthAssumption == REQUEST_QUEUE_DEPTH \in Nat \ {0, 1}
ASSUME SwitchAssumption ==
  /\ HciSlots \in Nat /\ HostWindow \in Nat
  /\ {EMI_RX_ENABLE, SlowTimer, PromptController} \subseteq BOOLEAN

VARIABLES
  g_active_flag,         \* set when the BT stack is working
  g_req, g_cmd,          \* the request being served, the latest command packet
  g_state_request,       \* is a request being served?
  g_state,               \* the radio test as the firmware believes it to be
  g_sweep_state,         \* "SWEEP" while the sweep timer drives the tests
  g_stop_process_state, g_start_process_state, g_forward_process_state,
  running_task,          \* the kind of test, decides how to stop it
  command_completed,     \* an HCI command-complete event came in
  expired,               \* current_time >= timeout_timepoint
  timer_on,              \* TIMER1 is counting
  emi_sweep_timer_cb,    \* the FORWARD request its callback queues
  custom_ctx,            \* which sweep custom_sweep_task_ctx was set up for
  queue, queue_rp, queue_wp,  \* the ring of requests
  reply,                 \* the last UCM reply and whether it meant success
  hung,                  \* EMI_Unexpected_Occurence() was reached: while(1)
  hci,                   \* HCI commands sent and not yet executed
  air                    \* what the radio emits

ring == <<queue, queue_rp, queue_wp>>
radio == <<hci, air>>
test == <<g_state, command_completed, expired>>
timer == <<timer_on, emi_sweep_timer_cb, custom_ctx>>
phases == <<g_stop_process_state, g_start_process_state, g_forward_process_state>>
request == <<g_req, g_cmd, g_state_request>>
vars == <<g_active_flag, g_sweep_state, running_task, reply, hung,
          ring, radio, test, timer, phases, request>>

(***************************************************************************)
(* Requests and tasks.                                                     *)
(***************************************************************************)
SingleStarts == {"START_TX_SINGLE_CARRIER", "START_TX_SINGLE_PAYLOAD", "START_RX"}
SweepStarts == {"START_TX_SWEEP_CARRIER", "START_TX_SWEEP_PAYLOAD",
                "START_TX_SWEEP_PAYLOAD_V2", "START_TX_SWEEP_24G_PAYLOAD",
                "START_TX_SWEEP_24G_CARRIER"}
Starts == SingleStarts \cup SweepStarts
CustomForwards == {"CUS_SWEEP_BLE_TX_V4_FORWARD", "CUS_SWEEP_24G_TX_V4_FORWARD",
                   "CUS_SWEEP_24G_CARRIER_FORWARD"}
Forwards == {"SWEEP_TX_V4_FORWARD", "SWEEP_CARRIER_FORWARD"} \cup CustomForwards
Requests == Starts \cup Forwards \cup {"STOP_TEST"}

CwTasks == {"CW", "SWEEP_CW", "CUS_SWEEP_24G_CW"}
LleTasks == {"TX_V4", "CUS_SWEEP_24G_TX_V4"}
Tasks == CwTasks \cup LleTasks \cup {"NONE", "RX_V2", "SWEEP_TX_V4", "CUS_SWEEP_TX_V4"}

NoCmd == [is_start |-> FALSE, is_rx |-> FALSE, mode |-> "SINGLE",
          type |-> "BLE", wave |-> "CARRIER", par |-> 0]   \* memset 0
Nothing == "NONE"

\* The request EMI_Dispatch queues for a packet; a start of an unknown mode
\* queues nothing.
RequestOf(c) ==
  CASE ~c.is_start -> "STOP_TEST"
    [] c.is_start /\ c.is_rx -> IF EMI_RX_ENABLE THEN "START_RX" ELSE "STOP_TEST"
    [] c.is_start /\ ~c.is_rx /\ c.mode = "SINGLE" ->
         IF c.wave = "CARRIER" THEN "START_TX_SINGLE_CARRIER" ELSE "START_TX_SINGLE_PAYLOAD"
    [] c.is_start /\ ~c.is_rx /\ c.mode = "SWEEP" ->
         IF c.wave = "CARRIER" THEN "START_TX_SWEEP_CARRIER" ELSE "START_TX_SWEEP_PAYLOAD"
    [] c.is_start /\ ~c.is_rx /\ c.mode = "OTHER_SWEEP" /\ c.type = "BLE" ->
         IF c.wave = "CARRIER" THEN "START_TX_SWEEP_CARRIER" ELSE "START_TX_SWEEP_PAYLOAD_V2"
    [] c.is_start /\ ~c.is_rx /\ c.mode = "OTHER_SWEEP" /\ c.type = "24G" ->
         IF c.wave = "CARRIER" THEN "START_TX_SWEEP_24G_CARRIER" ELSE "START_TX_SWEEP_24G_PAYLOAD"
    [] OTHER -> Nothing

\* Slip: A copy-and-paste slip in update_running_task_flag.
TaskOfMixedUp(req) ==
  CASE req \in {"START_TX_SWEEP_PAYLOAD_V2", "START_TX_SWEEP_24G_PAYLOAD"} -> "CUS_SWEEP_24G_TX_V4"
    [] req = "START_TX_SWEEP_PAYLOAD" -> "SWEEP_TX_V4"
    [] OTHER -> "NONE"

\* update_running_task_flag(); a FORWARD request would reach its default branch.
TaskOf(req) ==
  CASE req = "START_TX_SINGLE_CARRIER" -> "CW"
    [] req = "START_TX_SINGLE_PAYLOAD" -> "TX_V4"
    [] req = "START_TX_SWEEP_CARRIER" -> "SWEEP_CW"
    [] req = "START_TX_SWEEP_PAYLOAD" -> "SWEEP_TX_V4"
    [] req = "START_RX" -> "RX_V2"
    [] req = "STOP_TEST" -> "NONE"
    [] req = "START_TX_SWEEP_PAYLOAD_V2" -> "CUS_SWEEP_TX_V4"
    [] req = "START_TX_SWEEP_24G_PAYLOAD" -> "CUS_SWEEP_24G_TX_V4"
    [] req = "START_TX_SWEEP_24G_CARRIER" -> "CUS_SWEEP_24G_CW"
    [] OTHER -> "UNEXPECTED"

UpdateRunningTaskFlag(req) ==
  IF TaskOf(req) = "UNEXPECTED"
  THEN hung' = TRUE /\ UNCHANGED running_task
  ELSE running_task' = TaskOf(req) /\ UNCHANGED hung

\* The callback a sweep start installs, as the FORWARD request it queues.
ForwardOf(req) ==
  CASE req = "START_TX_SWEEP_CARRIER" -> "SWEEP_CARRIER_FORWARD"
    [] req = "START_TX_SWEEP_PAYLOAD" -> "SWEEP_TX_V4_FORWARD"
    [] req = "START_TX_SWEEP_PAYLOAD_V2" -> "CUS_SWEEP_BLE_TX_V4_FORWARD"
    [] req = "START_TX_SWEEP_24G_PAYLOAD" -> "CUS_SWEEP_24G_TX_V4_FORWARD"
    [] req = "START_TX_SWEEP_24G_CARRIER" -> "CUS_SWEEP_24G_CARRIER_FORWARD"

(***************************************************************************)
(* The request ring.  inqueue_request has no test for a full ring: when    *)
(* queue_wp catches up with queue_rp the ring reads as empty.              *)
(***************************************************************************)
Slots == 0 .. REQUEST_QUEUE_DEPTH - 1
\* Slip: the index is not wrapped.
NextSlotNoWrap(i) == i + 1

NextSlot(i) == IF i + 1 >= REQUEST_QUEUE_DEPTH THEN 0 ELSE i + 1
QueueEmpty == queue_wp = queue_rp
Occupied(i) == IF queue_rp <= queue_wp
               THEN queue_rp <= i /\ i < queue_wp
               ELSE queue_rp <= i \/ i < queue_wp

Front == queue[queue_rp]

\* Slip: the index is advanced before the slot is written.
EnqueuePreIncrement(req, content) ==
  /\ queue' = [queue EXCEPT ![NextSlot(queue_wp)] = [req |-> req, content |-> content]]
  /\ queue_wp' = NextSlot(queue_wp)
  /\ UNCHANGED queue_rp

Enqueue(req, content) ==
  /\ queue' = [queue EXCEPT ![queue_wp] = [req |-> req, content |-> content]]
  /\ queue_wp' = NextSlot(queue_wp)
  /\ UNCHANGED queue_rp

(***************************************************************************)
(* The controller behind the gap_* calls (external): commands are executed *)
(* in order, each raises one command-complete event.  gap_* reports an     *)
(* error when it cannot send; the LLE calls act at once and report nothing.*)
(***************************************************************************)
CanSend(n) == Len(hci) + n <= HciSlots

Emitted(on, cmd) ==
  CASE cmd = "CW_ON" -> on \cup {"CW"}
    [] cmd = "CW_OFF" -> on \ {"CW"}
    [] cmd \in {"TX_TEST", "RX_TEST"} -> on \cup {"TEST"}
    [] cmd = "TEST_END" -> on \ {"TEST"}

GapSend(cmds) == CanSend(Len(cmds)) /\ hci' = hci \o cmds /\ UNCHANGED air

\* The event reaches EMI_on_hci_cmd_complete_*: which command it answers is
\* not looked at.
HciCommandComplete ==
  /\ hci # << >>
  /\ air' = Emitted(air, Head(hci))
  /\ hci' = Tail(hci)
  /\ command_completed' = TRUE
  /\ UNCHANGED <<g_active_flag, g_sweep_state, running_task, reply, hung,
                 ring, g_state, expired, timer, phases, request>>

\* 200 ms have passed since emi_test_set_timeout.
TimeoutExpires ==
  /\ g_state \in {"STARTUP", "SHUTDOWN"}
  /\ ~expired
  /\ PromptController => hci = << >>
  /\ expired' = TRUE
  /\ UNCHANGED <<g_active_flag, g_sweep_state, running_task, reply, hung,
                 ring, radio, g_state, command_completed, timer, phases, request>>

(***************************************************************************)
(* Stopping a test.                                                        *)
(***************************************************************************)
\* emi_test_stop_hci_test(): the running_task decides what is sent.  A carrier
\* is switched off and the test ended; if only the first call succeeds the
\* function reports an error with the carrier already being switched off.
StopHciTest(ok) ==
  \/ /\ ok /\ running_task \in LleTasks
     /\ air' = air \ {"LLE"}
     /\ UNCHANGED hci
  \/ ok /\ running_task \in CwTasks /\ GapSend(<<"CW_OFF", "TEST_END">>)
  \/ ~ok /\ running_task \in CwTasks /\ (GapSend(<<"CW_OFF">>) \/ UNCHANGED radio)
  \/ ok /\ running_task \notin LleTasks \cup CwTasks /\ GapSend(<<"TEST_END">>)
  \/ ~ok /\ running_task \notin LleTasks \cup CwTasks /\ UNCHANGED radio

\* Slip: The timeout branch forgets setState().
AwaitCompletionKeepsState(done, whenCompleted, whenTimedOut) ==
  /\ command_completed' = (command_completed \/ running_task \in LleTasks)
  /\ \/ done /\ command_completed' /\ g_state' = whenCompleted
     \/ done /\ ~command_completed' /\ expired /\ UNCHANGED g_state
     \/ ~done /\ ~command_completed' /\ ~expired /\ UNCHANGED g_state
  /\ UNCHANGED <<radio, expired, hung>>

\* Slip: The wait has no timeout.
AwaitCompletionForEver(done, whenCompleted, whenTimedOut) ==
  /\ command_completed' = (command_completed \/ running_task \in LleTasks)
  /\ \/ done /\ command_completed' /\ g_state' = whenCompleted
     \/ ~done /\ ~command_completed' /\ UNCHANGED g_state
  /\ UNCHANGED <<radio, expired, hung>>

\* The wait at the end of emi_stop_a_test and emi_star_a_test: the LLE tests
\* have no completion event and count as completed at once.
AwaitCompletion(done, whenCompleted, whenTimedOut) ==
  /\ command_completed' = (command_completed \/ running_task \in LleTasks)
  /\ \/ done /\ command_completed' /\ g_state' = whenCompleted
     \/ done /\ ~command_completed' /\ expired /\ g_state' = whenTimedOut
     \/ ~done /\ ~command_completed' /\ ~expired /\ UNCHANGED g_state
  /\ UNCHANGED <<radio, expired, hung>>

BeginWait(transient) ==
  /\ g_state' = transient
  /\ command_completed' = FALSE
  /\ expired' = FALSE
  /\ UNCHANGED hung

\* Slip: the timer is left counting.
EmiTimerStopForgotten == UNCHANGED timer_on

EmiTimerStop == timer_on' = FALSE

\* emi_stop_a_test(), returning done.
StopATest(done) ==
  \/ /\ g_state = "IDLE" /\ done
     /\ UNCHANGED <<test, radio, hung>>
  \/ /\ g_state = "IN_PROGRESS"
     /\ \/ ~done /\ StopHciTest(TRUE) /\ BeginWait("SHUTDOWN")
        \/ done /\ StopHciTest(FALSE) /\ UNCHANGED <<test, hung>>
  \/ g_state = "SHUTDOWN" /\ AwaitCompletion(done, "IDLE", "IN_PROGRESS")
  \/ /\ g_state = "STARTUP" /\ ~done
     /\ hung' = TRUE
     /\ UNCHANGED <<test, radio>>

\* Slip: STATE_STOP_SWEEP does not reset g_sweep_state.
StopProcessKeepsSweep(done) ==
  \/ /\ g_stop_process_state = "STOP_BEGIN" /\ ~done
     /\ g_stop_process_state' = "STOP_SWEEP"
     /\ UNCHANGED <<test, radio, g_sweep_state, hung>>
  \/ /\ g_stop_process_state \in {"STOP_SWEEP", "STOP_STOPING_RUNNING_TEST"}
     /\ StopATest(done)
     /\ g_stop_process_state' = IF ~done THEN "STOP_STOPING_RUNNING_TEST"
                                ELSE IF g_state' = "IDLE" THEN "STOP_END" ELSE "STOP_BEGIN"
     /\ UNCHANGED g_sweep_state

\* emi_stop_process(), returning done.
StopProcess(done) ==
  \/ /\ g_stop_process_state = "STOP_BEGIN" /\ ~done
     /\ g_stop_process_state' = IF g_sweep_state = "NORMAL"
                                THEN "STOP_STOPING_RUNNING_TEST" ELSE "STOP_SWEEP"
     /\ UNCHANGED <<test, radio, g_sweep_state, hung>>
  \/ /\ g_stop_process_state \in {"STOP_SWEEP", "STOP_STOPING_RUNNING_TEST"}
     /\ g_sweep_state' = IF g_stop_process_state = "STOP_SWEEP" THEN "NORMAL" ELSE g_sweep_state
     /\ StopATest(done)
     /\ g_stop_process_state' = IF ~done THEN "STOP_STOPING_RUNNING_TEST"
                                ELSE IF g_state' = "IDLE" THEN "STOP_END" ELSE "STOP_BEGIN"
  \/ /\ g_stop_process_state = "STOP_END" /\ done
     /\ UNCHANGED <<test, radio, g_sweep_state, g_stop_process_state, hung>>

(***************************************************************************)
(* Starting a test.                                                        *)
(***************************************************************************)
\* start_test_dif_case(): a sweep start only arms the timer and its context,
\* every other request switches the radio on.  The parameters come from g_cmd
\* for a START and from the sweep context for a FORWARD.
StartTestDifCase(ok) ==
  \/ /\ g_req \in SweepStarts /\ ok
     /\ timer_on' = TRUE
     /\ emi_sweep_timer_cb' = ForwardOf(g_req)
     /\ custom_ctx' = IF ForwardOf(g_req) \in CustomForwards THEN ForwardOf(g_req) ELSE custom_ctx
     /\ g_sweep_state' = "SWEEP"
     /\ UNCHANGED radio
  \/ /\ g_req \in {"START_TX_SINGLE_PAYLOAD", "CUS_SWEEP_24G_TX_V4_FORWARD"} /\ ok
     /\ air' = air \cup {"LLE"}
     /\ UNCHANGED <<hci, timer, g_sweep_state>>
  \/ /\ \/ ok /\ g_req \in {"START_TX_SINGLE_CARRIER", "SWEEP_CARRIER_FORWARD",
                            "CUS_SWEEP_24G_CARRIER_FORWARD"} /\ GapSend(<<"CW_ON">>)
        \/ ok /\ g_req \in {"SWEEP_TX_V4_FORWARD", "CUS_SWEEP_BLE_TX_V4_FORWARD"}
              /\ GapSend(<<"TX_TEST">>)
        \/ ok /\ g_req = "START_RX" /\ GapSend(<<"RX_TEST">>)
        \/ /\ ~ok /\ UNCHANGED radio
           /\ g_req \notin SweepStarts \cup {"START_TX_SINGLE_PAYLOAD", "CUS_SWEEP_24G_TX_V4_FORWARD"}
     /\ UNCHANGED <<timer, g_sweep_state>>

\* emi_star_a_test(), returning done.
StartATest(done) ==
  \/ /\ g_state = "IN_PROGRESS" /\ done
     /\ UNCHANGED <<test, radio, timer, g_sweep_state, hung>>
  \/ /\ g_state = "IDLE"
     /\ \/ ~done /\ StartTestDifCase(TRUE) /\ BeginWait("STARTUP")
        \/ done /\ StartTestDifCase(FALSE) /\ UNCHANGED <<test, hung>>
  \/ /\ g_state = "STARTUP"
     /\ AwaitCompletion(done, "IN_PROGRESS", "IDLE")
     /\ UNCHANGED <<timer, g_sweep_state>>
  \/ /\ g_state = "SHUTDOWN" /\ ~done
     /\ hung' = TRUE
     /\ UNCHANGED <<test, radio, timer, g_sweep_state>>

EmiStateBusy == g_sweep_state = "SWEEP" \/ g_state # "IDLE"
HasRunningTestOrTask == g_sweep_state = "SWEEP" \/ g_state = "IN_PROGRESS"

\* Slip: One sweep request is missing from the list of emi_start_process.
StartPhaseForgetsCarrier(req) ==
  IF req \in SweepStarts \ {"START_TX_SWEEP_CARRIER"} THEN "START_SWEEP_TIMER" ELSE "STARTING"

StartPhaseOf(req) == IF req \in SweepStarts THEN "START_SWEEP_TIMER" ELSE "STARTING"

\* emi_start_process(), returning done.
StartProcess(done) ==
  \/ /\ g_start_process_state = "BEGIN" /\ ~done
     /\ IF EmiStateBusy
        THEN /\ g_stop_process_state' = "STOP_BEGIN"
             /\ g_start_process_state' = "STOPING"
        ELSE /\ g_start_process_state' = StartPhaseOf(g_req)
             /\ UNCHANGED g_stop_process_state
     /\ UNCHANGED <<test, radio, timer, g_sweep_state, hung>>
  \/ /\ g_start_process_state = "STOPING"
     /\ \E stopped \in BOOLEAN :
          /\ StopProcess(stopped)
          /\ g_start_process_state' =
               IF ~stopped THEN "STOPING"
               ELSE IF g_stop_process_state' = "STOP_END" THEN StartPhaseOf(g_req) ELSE "BEGIN"
          /\ done = (stopped /\ g_stop_process_state' # "STOP_END")
     /\ UNCHANGED timer
  \/ /\ g_start_process_state = "STARTING"
     /\ StartATest(done)
     /\ g_start_process_state' = IF ~done THEN "STARTING"
                                 ELSE IF HasRunningTestOrTask' THEN "END" ELSE "BEGIN"
     /\ UNCHANGED g_stop_process_state
  \/ /\ g_start_process_state = "START_SWEEP_TIMER"
     /\ \/ /\ done /\ StartTestDifCase(TRUE)
           /\ g_start_process_state' = "END"
           /\ UNCHANGED hung
        \/ /\ ~done /\ StartTestDifCase(FALSE)
           /\ hung' = TRUE
           /\ UNCHANGED g_start_process_state
     /\ UNCHANGED <<test, g_stop_process_state>>
  \/ /\ g_start_process_state = "END" /\ done
     /\ UNCHANGED <<test, radio, timer, g_sweep_state, hung, g_start_process_state,
                    g_stop_process_state>>

\* emi_forward_process(), returning done.
ForwardProcess(done) ==
  \/ /\ g_forward_process_state = "FORWARD_BEGIN" /\ ~done
     /\ IF g_state # "IDLE"
        THEN /\ g_stop_process_state' = "STOP_BEGIN"
             /\ g_forward_process_state' = "FORWARD_STOPING"
        ELSE /\ g_forward_process_state' = "FORWARD_STARTING"
             /\ UNCHANGED g_stop_process_state
     /\ UNCHANGED <<test, radio, timer, g_sweep_state, hung>>
  \/ /\ g_forward_process_state = "FORWARD_STOPING"
     /\ \E stopped \in BOOLEAN :
          /\ StopATest(stopped)
          /\ g_forward_process_state' = IF ~stopped THEN "FORWARD_STOPING"
                                        ELSE IF g_state' = "IDLE" THEN "FORWARD_STARTING"
                                        ELSE "FORWARD_BEGIN"
          /\ done = (stopped /\ g_state' # "IDLE")
     /\ UNCHANGED <<timer, g_sweep_state, g_stop_process_state>>
  \/ /\ g_forward_process_state = "FORWARD_STARTING"
     /\ \E started \in BOOLEAN :
          /\ StartATest(started)
          /\ g_forward_process_state' = IF ~started THEN "FORWARD_STARTING"
                                        ELSE IF HasRunningTestOrTask' THEN "FORWARD_ITERATION"
                                        ELSE "FORWARD_BEGIN"
          /\ done = (started /\ ~HasRunningTestOrTask')
     /\ UNCHANGED g_stop_process_state
  \/ /\ g_forward_process_state = "FORWARD_ITERATION" /\ done = (g_req \in Forwards)
     /\ g_forward_process_state' = IF done THEN "FORWARD_END" ELSE "FORWARD_ITERATION"
     /\ hung' = (hung \/ ~done)      \* iteration_dif_case: default branch
     /\ UNCHANGED <<test, radio, timer, g_sweep_state, g_stop_process_state>>
  \/ /\ g_forward_process_state = "FORWARD_END" /\ done
     /\ UNCHANGED <<test, radio, timer, g_sweep_state, hung, g_forward_process_state,
                    g_stop_process_state>>

(***************************************************************************)
(* emi_loop().                                                             *)
(***************************************************************************)
\* bsp_usb_send_success and bsp_usb_send_failed: both put UCM_CODE_SUCCESS
\* into the packet, so the code does not depend on ok.
SendReply(ok) == reply' = [req |-> g_req, ok |-> ok]

LoopRuns == g_active_flag /\ ~hung

PickRequest ==
  /\ LoopRuns /\ g_state_request = "IDLE" /\ ~QueueEmpty
  /\ queue_rp' = NextSlot(queue_rp)
  /\ g_req' = Front.req
  /\ g_cmd' = Front.content
  /\ g_state_request' = "IN_PROGRESS"
  /\ \/ /\ g_req' = "STOP_TEST"
        /\ g_stop_process_state' = "STOP_BEGIN"
        /\ UNCHANGED <<g_start_process_state, g_forward_process_state, running_task, hung>>
     \/ /\ g_req' \in Forwards
        /\ g_forward_process_state' = "FORWARD_BEGIN"
        /\ UNCHANGED <<g_start_process_state, g_stop_process_state, running_task, hung>>
     \/ /\ g_req' \notin Forwards \cup {"STOP_TEST"}
        /\ g_start_process_state' = "BEGIN"
        /\ UpdateRunningTaskFlag(g_req')
        /\ UNCHANGED <<g_stop_process_state, g_forward_process_state>>
  /\ UNCHANGED <<g_active_flag, g_sweep_state, reply, queue, queue_wp, radio, test, timer>>

\* What every call of emi_loop leaves alone while a request is served.
ServeFrame == UNCHANGED <<g_active_flag, ring, g_req, g_cmd>>

KeepServing == UNCHANGED <<g_state_request, running_task, reply>>

ServeStop ==
  /\ LoopRuns /\ g_state_request = "IN_PROGRESS" /\ g_req = "STOP_TEST"
  /\ \/ StopProcess(FALSE) /\ KeepServing /\ UNCHANGED <<timer_on>>
     \/ /\ StopProcess(TRUE)
        /\ g_state_request' = "IDLE"
        /\ SendReply(g_stop_process_state' = "STOP_END")
        /\ IF g_stop_process_state' = "STOP_END"
           THEN running_task' = TaskOf(g_req) /\ EmiTimerStop
           ELSE UNCHANGED <<running_task, timer_on>>
  /\ ServeFrame
  /\ UNCHANGED <<emi_sweep_timer_cb, custom_ctx, g_start_process_state, g_forward_process_state>>

ServeForward ==
  /\ LoopRuns /\ g_state_request = "IN_PROGRESS" /\ g_req \in Forwards
  /\ \/ ForwardProcess(FALSE) /\ KeepServing
     \/ /\ ForwardProcess(TRUE)
        /\ g_state_request' = "IDLE"
        /\ SendReply(g_forward_process_state' = "FORWARD_END")
        /\ UNCHANGED running_task
  /\ ServeFrame
  /\ UNCHANGED g_start_process_state

ServeStart ==
  /\ LoopRuns /\ g_state_request = "IN_PROGRESS" /\ g_req \notin Forwards \cup {"STOP_TEST"}
  /\ \/ StartProcess(FALSE) /\ KeepServing
     \/ /\ StartProcess(TRUE)
        /\ g_state_request' = "IDLE"
        /\ SendReply(g_start_process_state' = "END")
        \* update_running_task_flag() again; PickRequest has ruled out its default
        /\ running_task' = IF g_start_process_state' = "END" THEN TaskOf(g_req) ELSE running_task
  /\ ServeFrame
  /\ UNCHANGED g_forward_process_state

EmiLoop == PickRequest \/ ServeStop \/ ServeForward \/ ServeStart

(***************************************************************************)
(* The interrupts and the enabling of the controller.                      *)
(***************************************************************************)
HostSlots == {i \in Slots : Occupied(i) /\ queue[i].req \notin Forwards}
ForwardSlots == {i \in Slots : Occupied(i) /\ queue[i].req \in Forwards}

\* The commands of the host that are not answered yet, queued or being served.
Unanswered ==
  Cardinality(HostSlots)
    + IF g_state_request = "IN_PROGRESS" /\ g_req \notin Forwards THEN 1 ELSE 0

ForwardPending ==
  ForwardSlots # {} \/ (g_state_request = "IN_PROGRESS" /\ g_req \in Forwards)

\* EMI_Dispatch, in the USB interrupt: the packet is parsed in g_cmd itself,
\* whatever the main loop is doing with it.
EmiDispatch(c) ==
  /\ Unanswered < HostWindow
  /\ g_cmd' = c
  /\ IF RequestOf(c) = Nothing THEN UNCHANGED ring ELSE Enqueue(RequestOf(c), c)
  /\ UNCHANGED <<g_active_flag, g_sweep_state, running_task, reply, hung, radio, test,
                 timer, phases, g_req, g_state_request>>

\* TIMER1_IrqHandler: the sweep callback queues its FORWARD request.
TimerIrq ==
  /\ timer_on /\ emi_sweep_timer_cb # Nothing
  /\ SlowTimer => ~ForwardPending
  /\ Enqueue(emi_sweep_timer_cb, NoCmd)
  /\ UNCHANGED <<g_active_flag, g_sweep_state, running_task, reply, hung, radio, test,
                 timer, phases, request>>

\* emi_enable(true), when the BT stack reports that it is working.
EmiEnable ==
  /\ ~g_active_flag
  /\ g_active_flag' = TRUE
  /\ UNCHANGED <<g_sweep_state, running_task, reply, hung, ring, radio, test, timer,
                 phases, request>>

Init ==
  /\ g_active_flag = FALSE
  /\ g_req = Nothing /\ g_cmd = NoCmd /\ g_state_request = "IDLE"
  /\ g_state = "IDLE" /\ g_sweep_state = "NORMAL"
  /\ g_stop_process_state = "STOP_BEGIN"
  /\ g_start_process_state = "BEGIN"
  /\ g_forward_process_state = "FORWARD_BEGIN"
  /\ running_task = "NONE" /\ command_completed = FALSE /\ expired = FALSE
  /\ timer_on = FALSE /\ emi_sweep_timer_cb = Nothing /\ custom_ctx = Nothing
  /\ queue = [i \in Slots |-> [req |-> Nothing, content |-> NoCmd]]
  /\ queue_rp = 0 /\ queue_wp = 0
  /\ reply = [req |-> Nothing, ok |-> TRUE]
  /\ hung = FALSE /\ hci = << >> /\ air = {}

Next ==
  \/ EmiLoop
  \/ HciCommandComplete
  \/ TimeoutExpires
  \/ \E c \in HostCommands : EmiDispatch(c)
  \/ TimerIrq
  \/ EmiEnable

Spec == Init /\ [][Next]_vars

\* The main loop never returns and time passes; hosts, interrupts and the
\* controller owe nothing, except that a prompt controller answers.
Fairness ==
  /\ WF_vars(EmiLoop) /\ WF_vars(EmiEnable) /\ WF_vars(TimeoutExpires)
  /\ WF_vars(PromptController /\ HciCommandComplete)

FairSpec == Spec /\ Fairness

-----------------------------------------------------------------------------
(***************************************************************************)
(* Properties.                                                             *)
(***************************************************************************)
Entry == [req : Requests \cup {Nothing}, content : Command]

\* Every static variable of ctrl_emi.c stays in the range of its enum.
TypeOK ==
  /\ g_active_flag \in BOOLEAN /\ hung \in BOOLEAN
  /\ g_req \in Requests \cup {Nothing} /\ g_cmd \in Command
  /\ g_state_request \in {"IDLE", "IN_PROGRESS"}
  /\ g_state \in {"IDLE", "STARTUP", "IN_PROGRESS", "SHUTDOWN"}
  /\ g_sweep_state \in {"NORMAL", "SWEEP"}
  /\ g_stop_process_state \in
       {"STOP_BEGIN", "STOP_SWEEP", "STOP_STOPING_RUNNING_TEST", "STOP_END"}
  /\ g_start_process_state \in {"BEGIN", "STOPING", "STARTING", "START_SWEEP_TIMER", "END"}
  /\ g_forward_process_state \in {"FORWARD_BEGIN", "FORWARD_STOPING", "FORWARD_STARTING",
                                  "FORWARD_ITERATION", "FORWARD_END"}
  /\ running_task \in Tasks
  /\ command_completed \in BOOLEAN /\ expired \in BOOLEAN /\ timer_on \in BOOLEAN
  /\ emi_sweep_timer_cb \in Forwards \cup {Nothing}
  /\ custom_ctx \in CustomForwards \cup {Nothing}
  /\ queue \in [Slots -> Entry] /\ queue_rp \in Slots /\ queue_wp \in Slots
  /\ reply \in [req : Requests \cup {Nothing}, ok : BOOLEAN]
  /\ hci \in Seq({"CW_ON", "CW_OFF", "TX_TEST", "RX_TEST", "TEST_END"})
  /\ air \subseteq {"CW", "TEST", "LLE"}

\* No order of requests, ticks, completions and timeouts takes the loop to
\* EMI_Unexpected_Occurence(), a while(1): the three processes share g_state,
\* and the stop process must never find STARTUP, nor the start process
\* SHUTDOWN, nor the loop a slot that was never written.
NoUnexpectedOccurence == ~hung

\* Between two requests no test is half started or half stopped: whatever
\* failed or timed out, the next request finds IDLE or IN_PROGRESS.
SettledBetweenRequests ==
  g_state_request = "IDLE" => g_state \in {"IDLE", "IN_PROGRESS"}

\* A sweep always has its timer counting and its callback installed: no STOP,
\* failed stop or replaced sweep leaves g_sweep_state at SWEEP with nothing
\* to drive it.
SweepHasTimer ==
  g_sweep_state = "SWEEP" => timer_on /\ emi_sweep_timer_cb # Nothing

\* Between requests the test is settled and what is believed to be a sweep is
\* driven: no failure or timeout leaves the next request a state that nothing
\* would ever leave.
NothingIsLeftHalfWay == SettledBetweenRequests /\ SweepHasTimer

\* A STOP acknowledged as done has left every part of the controller at rest:
\* sweep, sweep timer, test state and task kind.
StoppedIsAtRest ==
  g_state_request = "IDLE" /\ reply.req = "STOP_TEST" /\ reply.ok =>
    /\ g_state = "IDLE" /\ g_sweep_state = "NORMAL"
    /\ ~timer_on /\ running_task = "NONE"

\* What the radio emits once the commands already sent have been executed.
OnAfter(signal, on, off) ==
  LET about == {i \in 1 .. Len(hci) : hci[i] \in on \cup off}
  IN  IF about = {} THEN signal \in air
      ELSE hci[CHOOSE i \in about : \A j \in about : j <= i] \in on
WillEmit ==
  \/ OnAfter("CW", {"CW_ON"}, {"CW_OFF"})
  \/ OnAfter("TEST", {"TX_TEST", "RX_TEST"}, {"TEST_END"})
  \/ "LLE" \in air

\* When the firmware believes that no test runs, none does, nor will one when
\* the commands under way are executed: "true if the test is successfully
\* stopped" (emi_test_stop_hci_test).
IdleMeansSilent == g_state = "IDLE" => ~WillEmit

\* The same, of what is on the air at this moment: "if the command is
\* completed, it transitions to STATE_IDLE" (emi_stop_a_test).
IdleIsSilentNow == g_state = "IDLE" => air = {}

\* The packet a START is about to be executed with is the one it was queued
\* with (the slot it was read from still holds it while the ring has not
\* wrapped): the USB interrupt has not overwritten g_cmd in between.
LastSlot == IF queue_rp = 0 THEN REQUEST_QUEUE_DEPTH - 1 ELSE queue_rp - 1
StartUsesItsOwnCommand ==
  /\ g_state_request = "IN_PROGRESS" /\ g_req \in Starts
  /\ g_start_process_state \in {"STARTING", "START_SWEEP_TIMER"} /\ g_state = "IDLE"
  => g_cmd = queue[LastSlot].content

\* A FORWARD is executed with a sweep context that was set up for its sweep.
ForwardUsesItsOwnContext ==
  /\ g_state_request = "IN_PROGRESS" /\ g_req \in CustomForwards
  /\ g_forward_process_state = "FORWARD_STARTING" /\ g_state = "IDLE"
  => custom_ctx = g_req

\* The sweep timer runs only for a sweep: a request that replaced or stopped
\* a sweep leaves no timer behind that would switch frequencies on its own.
TimerOnlyForSweep ==
  g_state_request = "IDLE" /\ timer_on => g_sweep_state = "SWEEP"

\* A request that was picked is answered: no wait for the controller, no
\* alternation of stop and start lasts for ever.
EveryRequestFinishes == g_state_request = "IN_PROGRESS" ~> g_state_request = "IDLE"

\* A slot that holds a request is eventually read.
EverySlotIsServed == \A i \in Slots : Occupied(i) ~> ~Occupied(i)

\* Every request is served to its end, and so are the ones queued behind it.
EveryRequestIsServed == EverySlotIsServed /\ EveryRequestFinishes

\* The strengthening that makes the invariants above inductive: in which test
\* states each phase of each process may be, and that the ring holds requests
\* only.  A stop process under way has cleared the sweep before it waits.
StopPhaseOK ==
  /\ g_state # "STARTUP" /\ g_stop_process_state # "STOP_END"
  /\ g_state = "SHUTDOWN" => g_stop_process_state = "STOP_STOPING_RUNNING_TEST"
  /\ g_stop_process_state = "STOP_STOPING_RUNNING_TEST" => g_sweep_state = "NORMAL"

StartPhaseOK ==
  \/ g_start_process_state = "BEGIN" /\ g_state \in {"IDLE", "IN_PROGRESS"}
  \/ g_start_process_state = "STOPING" /\ StopPhaseOK
  \/ /\ g_start_process_state = "STARTING" /\ g_req \notin SweepStarts
     /\ g_state \in {"IDLE", "STARTUP"} /\ g_sweep_state = "NORMAL"
  \/ /\ g_start_process_state = "START_SWEEP_TIMER" /\ g_req \in SweepStarts
     /\ g_state = "IDLE" /\ g_sweep_state = "NORMAL"

ForwardPhaseOK ==
  \/ g_forward_process_state = "FORWARD_BEGIN" /\ g_state \in {"IDLE", "IN_PROGRESS"}
  \/ g_forward_process_state = "FORWARD_STOPING" /\ g_state \in {"IN_PROGRESS", "SHUTDOWN"}
  \/ g_forward_process_state = "FORWARD_STARTING" /\ g_state \in {"IDLE", "STARTUP"}
  \/ /\ g_forward_process_state = "FORWARD_ITERATION"
     /\ g_state = "IN_PROGRESS" \/ (g_state = "IDLE" /\ g_sweep_state = "SWEEP")

ServingOK ==
  g_state_request = "IN_PROGRESS" =>
    \/ g_req = "STOP_TEST" /\ StopPhaseOK
    \/ g_req \in Starts /\ StartPhaseOK
    \/ g_req \in Forwards /\ ForwardPhaseOK

RingHoldsRequests == \A i \in Slots : Occupied(i) => queue[i].req \in Requests

IInv ==
  /\ TypeOK /\ NoUnexpectedOccurence
  /\ SettledBetweenRequests /\ ServingOK
  /\ SweepHasTimer
  /\ RingHoldsRequests

-----------------------------------------------------------------------------
(***************************************************************************)
(* The promises, as refinements.                                           *)
(***************************************************************************)
\* The requests between the read and the write index, oldest first.
Count == IF queue_rp <= queue_wp THEN queue_wp - queue_rp
         ELSE queue_wp - queue_rp + REQUEST_QUEUE_DEPTH
SlotAt(k) == IF queue_rp + k < REQUEST_QUEUE_DEPTH THEN queue_rp + k
             ELSE queue_rp + k - REQUEST_QUEUE_DEPTH
Pending == [k \in 1 .. Count |-> queue[SlotAt(k - 1)]]

Fifo == INSTANCE EmiFifo WITH Entries <- [req : Requests, content : Command],
                           pending <- Pending
\* The ring is a FIFO queue: nothing queued is lost or overtaken, up to the
\* last slot a write may take, although inqueue_request never looks for one.
RingIsFifo == Fifo!Spec

Service == INSTANCE EmiService WITH
  StartReqs <- Starts, ForwardReqs <- Forwards, StopReq <- "STOP_TEST", NoReq <- Nothing,
  serving <- IF g_state_request = "IDLE" THEN Nothing ELSE g_req,
  running <- g_sweep_state = "SWEEP" \/ g_state \in {"IN_PROGRESS", "SHUTDOWN"},
  outcome <- <<reply.req, reply.ok>>
\* Every request is served on its own and its outcome tells the truth about
\* the test the firmware believes in (EmiService).
ServesRequests == Service!Spec

=============================================================================
