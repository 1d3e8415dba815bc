-------------------------- MODULE EmiControlProofs --------------------------
(***************************************************************************)
(* Proofs about EmiControl, for every set of host packets, every depth of  *)
(* the ring, every number of HCI slots and every choice of the environment *)
(* switches.                                                               *)
(***************************************************************************)
EXTENDS EmiControl, FiniteSetTheorems, SequenceTheorems, TLAPS

HciCommands == {"CW_ON", "CW_OFF", "TX_TEST", "RX_TEST", "TEST_END"}

\* The tables of requests, needed wherever two requests are told apart.
TestTypes ==
  /\ g_state \in {"IDLE", "STARTUP", "IN_PROGRESS", "SHUTDOWN"}
  /\ command_completed \in BOOLEAN /\ expired \in BOOLEAN
  /\ hci \in Seq(HciCommands)
  /\ air \subseteq {"CW", "TEST", "LLE"}

-----------------------------------------------------------------------------
(***************************************************************************)
(* The helpers.                                                            *)
(***************************************************************************)
\* The index of the ring stays in range.
LEMMA NextSlotInRange ==
  ASSUME NEW i \in Slots
  PROVE  NextSlot(i) \in Slots
  BY DepthAssumption DEF NextSlot, Slots

\* A packet queues a request the loop knows, or none.
LEMMA RequestOfKnown ==
  ASSUME NEW c \in HostCommands
  PROVE  c \in Command /\ RequestOf(c) \in Requests \cup {Nothing}
  <1>1. c \in Command
    BY CommandsAssumption
  <1>2. QED
    BY <1>1, SwitchAssumption
    DEF Command, RequestOf, Requests, Starts, SingleStarts, SweepStarts, Nothing

\* update_running_task_flag knows every request but the FORWARDs.
LEMMA TaskOfKnown ==
  ASSUME NEW r \in Starts \cup {"STOP_TEST"}
  PROVE  TaskOf(r) \in Tasks /\ TaskOf(r) # "UNEXPECTED"
  BY DEF Starts, SingleStarts, SweepStarts, TaskOf, Tasks, CwTasks, LleTasks

\* The callback installed by a sweep start queues a FORWARD.
LEMMA ForwardOfKnown ==
  ASSUME NEW r \in SweepStarts
  PROVE  ForwardOf(r) \in Forwards
  BY DEF SweepStarts, ForwardOf, Forwards, CustomForwards

\* STOP_TEST, the starts and the forwards are distinct, and all there is.
LEMMA RequestKinds ==
  /\ Requests = Starts \cup Forwards \cup {"STOP_TEST"}
  /\ Starts \cap Forwards = {} /\ "STOP_TEST" \notin Starts \cup Forwards
  /\ SweepStarts \subseteq Starts /\ Nothing \notin Requests
  BY DEF Requests, Starts, SingleStarts, SweepStarts, Forwards, CustomForwards, Nothing

\* An HCI command changes the signals on the air and no others.
LEMMA EmittedSignals ==
  ASSUME NEW on \in SUBSET {"CW", "TEST", "LLE"}, NEW cmd \in HciCommands
  PROVE  Emitted(on, cmd) \in SUBSET {"CW", "TEST", "LLE"}
  BY DEF Emitted, HciCommands

LEMMA GapSendTypes ==
  ASSUME TestTypes, NEW cmds \in Seq(HciCommands), GapSend(cmds)
  PROVE  hci' \in Seq(HciCommands) /\ air' = air
  BY DEF TestTypes, GapSend

-----------------------------------------------------------------------------
(***************************************************************************)
(* What one call of the nested processes may do to the test.               *)
(***************************************************************************)
LEMMA StopHciTestTypes ==
  ASSUME TestTypes, NEW ok \in BOOLEAN, StopHciTest(ok)
  PROVE  hci' \in Seq(HciCommands) /\ air' \subseteq {"CW", "TEST", "LLE"}
  <1>1. /\ <<"CW_OFF", "TEST_END">> \in Seq(HciCommands)
        /\ <<"CW_OFF">> \in Seq(HciCommands) /\ <<"TEST_END">> \in Seq(HciCommands)
    BY DEF HciCommands
  <1>2. QED
    BY <1>1, GapSendTypes DEF StopHciTest, TestTypes, radio

\* emi_stop_a_test ends in IDLE or IN_PROGRESS, waits in SHUTDOWN, and hangs
\* only if called in STARTUP.
LEMMA StopATestStep ==
  ASSUME TestTypes, hung = FALSE, g_state # "STARTUP",
         NEW done \in BOOLEAN, StopATest(done)
  PROVE  /\ TestTypes' /\ hung' = FALSE
         /\ done => g_state' \in {"IDLE", "IN_PROGRESS"}
         /\ ~done => g_state' = "SHUTDOWN" /\ g_state \in {"IN_PROGRESS", "SHUTDOWN"}
         /\ g_state' = "IN_PROGRESS" => g_state \in {"IN_PROGRESS", "SHUTDOWN"}
  <1>1. CASE g_state = "IDLE"
    BY <1>1 DEF StopATest, TestTypes, test, radio
  <1>2. CASE g_state = "IN_PROGRESS"
    <2>1. CASE ~done /\ StopHciTest(TRUE) /\ BeginWait("SHUTDOWN")
      BY <1>2, <2>1, StopHciTestTypes DEF BeginWait, TestTypes
    <2>2. CASE done /\ StopHciTest(FALSE) /\ UNCHANGED <<test, hung>>
      BY <1>2, <2>2, StopHciTestTypes DEF TestTypes, test
    <2>3. QED
      BY <1>2, <2>1, <2>2 DEF StopATest
  <1>3. CASE g_state = "SHUTDOWN"
    <2>1. AwaitCompletion(done, "IDLE", "IN_PROGRESS")
      BY <1>3 DEF StopATest
    <2>2. QED
      BY <1>3, <2>1 DEF AwaitCompletion, TestTypes, radio
  <1>4. QED
    BY <1>1, <1>2, <1>3 DEF TestTypes

\* emi_star_a_test ends in IDLE or IN_PROGRESS, waits in STARTUP, and hangs
\* only if called in SHUTDOWN.
LEMMA StartTestDifCaseTypes ==
  ASSUME TestTypes, NEW ok \in BOOLEAN, StartTestDifCase(ok)
  PROVE  hci' \in Seq(HciCommands) /\ air' \subseteq {"CW", "TEST", "LLE"}
  <1>1. /\ <<"CW_ON">> \in Seq(HciCommands) /\ <<"TX_TEST">> \in Seq(HciCommands)
        /\ <<"RX_TEST">> \in Seq(HciCommands)
    BY DEF HciCommands
  <1>2. QED
    BY <1>1, GapSendTypes DEF StartTestDifCase, TestTypes, radio

LEMMA StartATestStep ==
  ASSUME TestTypes, hung = FALSE, g_state \in {"IDLE", "STARTUP"}, g_req \notin SweepStarts,
         NEW done \in BOOLEAN, StartATest(done)
  PROVE  /\ TestTypes' /\ hung' = FALSE
         /\ done => g_state' \in {"IDLE", "IN_PROGRESS"}
         /\ ~done => g_state' = "STARTUP"
         /\ UNCHANGED <<timer, g_sweep_state>>
  <1>1. CASE g_state = "IDLE"
    <2>1. CASE ~done /\ StartTestDifCase(TRUE) /\ BeginWait("STARTUP")
      BY <1>1, <2>1, StartTestDifCaseTypes DEF BeginWait, TestTypes, StartTestDifCase
    <2>2. CASE done /\ StartTestDifCase(FALSE) /\ UNCHANGED <<test, hung>>
      BY <1>1, <2>2, StartTestDifCaseTypes DEF TestTypes, test, StartTestDifCase
    <2>3. QED
      BY <1>1, <2>1, <2>2 DEF StartATest
  <1>2. CASE g_state = "STARTUP"
    <2>1. AwaitCompletion(done, "IN_PROGRESS", "IDLE") /\ UNCHANGED <<timer, g_sweep_state>>
      BY <1>2 DEF StartATest
    <2>2. QED
      BY <1>2, <2>1 DEF AwaitCompletion, TestTypes, radio
  <1>3. QED
    BY <1>1, <1>2

\* The variable running of EmiService.
Running == g_sweep_state = "SWEEP" \/ g_state \in {"IN_PROGRESS", "SHUTDOWN"}

StopPhases == {"STOP_BEGIN", "STOP_SWEEP", "STOP_STOPING_RUNNING_TEST", "STOP_END"}
StartPhases == {"BEGIN", "STOPING", "STARTING", "START_SWEEP_TIMER", "END"}
ForwardPhases == {"FORWARD_BEGIN", "FORWARD_STOPING", "FORWARD_STARTING",
                  "FORWARD_ITERATION", "FORWARD_END"}

\* emi_stop_process ends with everything stopped or with the test still on.
LEMMA StopProcessStep ==
  ASSUME TestTypes, hung = FALSE, StopPhaseOK, g_sweep_state \in {"NORMAL", "SWEEP"},
         g_stop_process_state \in StopPhases,
         NEW done \in BOOLEAN, StopProcess(done)
  PROVE  /\ TestTypes' /\ hung' = FALSE
         /\ g_stop_process_state' \in StopPhases
         /\ g_sweep_state' = g_sweep_state \/ g_sweep_state' = "NORMAL"
         /\ ~done => StopPhaseOK'
         /\ Running' => Running
         /\ done => \/ /\ g_stop_process_state' = "STOP_END"
                       /\ g_state' = "IDLE" /\ g_sweep_state' = "NORMAL"
                    \/ /\ g_stop_process_state' = "STOP_BEGIN"
                       /\ g_state' = "IN_PROGRESS" /\ g_state \in {"IN_PROGRESS", "SHUTDOWN"}
  <1>1. CASE g_stop_process_state = "STOP_BEGIN"
    BY <1>1 DEF StopProcess, StopPhaseOK, StopPhases, TestTypes, Running, test, radio
  <1>2. CASE g_stop_process_state \in {"STOP_SWEEP", "STOP_STOPING_RUNNING_TEST"}
    <2>1. /\ StopATest(done)
          /\ g_sweep_state' = "NORMAL"
          /\ g_stop_process_state' = IF ~done THEN "STOP_STOPING_RUNNING_TEST"
                                     ELSE IF g_state' = "IDLE" THEN "STOP_END" ELSE "STOP_BEGIN"
      BY <1>2 DEF StopProcess, StopPhaseOK
    <2>2. g_state # "STARTUP"
      BY DEF StopPhaseOK
    <2>3. QED
      BY <2>1, <2>2, StopATestStep DEF StopPhaseOK, StopPhases, Running
  <1>3. QED
    BY <1>1, <1>2 DEF StopPhases, StopPhaseOK

-----------------------------------------------------------------------------
(***************************************************************************)
(* The ring.                                                               *)
(***************************************************************************)
RingTypes == queue \in [Slots -> Entry] /\ queue_rp \in Slots /\ queue_wp \in Slots

\* A write keeps the ring full of requests, even the write that overflows it.
LEMMA EnqueueStep ==
  ASSUME RingTypes, RingHoldsRequests, NEW r \in Requests, NEW c \in Command, Enqueue(r, c)
  PROVE  RingTypes' /\ RingHoldsRequests'
  <1>1. [req |-> r, content |-> c] \in Entry
    BY DEF Entry
  <1>2. RingTypes'
    BY <1>1, NextSlotInRange DEF RingTypes, Enqueue
  <1>3. ASSUME NEW i \in Slots, Occupied(i)'
        PROVE  queue'[i].req \in Requests
    <2>1. CASE i = queue_wp
      BY <2>1 DEF Enqueue, RingTypes
    <2>2. CASE i # queue_wp
      <3>1. Occupied(i)
        BY <1>3, <2>2, DepthAssumption DEF Occupied, Enqueue, NextSlot, RingTypes, Slots
      <3>2. QED
        BY <2>2, <3>1 DEF Enqueue, RingTypes, RingHoldsRequests
    <2>3. QED
      BY <2>1, <2>2
  <1>4. QED
    BY <1>2, <1>3 DEF RingHoldsRequests

\* A read returns a request, never a slot that was not written.
LEMMA DequeueStep ==
  ASSUME RingTypes, RingHoldsRequests, ~QueueEmpty,
         queue_rp' = NextSlot(queue_rp), UNCHANGED <<queue, queue_wp>>
  PROVE  /\ RingTypes' /\ RingHoldsRequests'
         /\ queue[queue_rp].req \in Requests /\ queue[queue_rp].content \in Command
  <1>1. Occupied(queue_rp)
    BY DEF Occupied, QueueEmpty, RingTypes, Slots
  <1>2. queue[queue_rp].req \in Requests /\ queue[queue_rp].content \in Command
    BY <1>1 DEF RingHoldsRequests, RingTypes, Entry
  <1>3. RingTypes'
    BY NextSlotInRange DEF RingTypes
  <1>4. ASSUME NEW i \in Slots, Occupied(i)'
        PROVE  Occupied(i)
    BY <1>4, DepthAssumption DEF Occupied, QueueEmpty, NextSlot, RingTypes, Slots
  <1>5. QED
    BY <1>2, <1>3, <1>4 DEF RingHoldsRequests

-----------------------------------------------------------------------------
(***************************************************************************)
(* The inductive invariant.                                                *)
(***************************************************************************)
LEMMA InitIInv == Init => IInv
  <1> SUFFICES ASSUME Init PROVE IInv
    OBVIOUS
  <1>1. 0 \in Slots
    BY DepthAssumption DEF Slots
  <1>2. NoCmd \in Command
    BY DEF NoCmd, Command
  <1>3. queue \in [Slots -> Entry]
    BY <1>2 DEF Init, Entry
  <1>4. hci \in Seq({"CW_ON", "CW_OFF", "TX_TEST", "RX_TEST", "TEST_END"})
        /\ air \subseteq {"CW", "TEST", "LLE"}
    BY DEF Init
  <1>5. reply \in [req : Requests \cup {Nothing}, ok : BOOLEAN]
    BY DEF Init
  <1>6. TypeOK
    BY <1>1, <1>2, <1>3, <1>4, <1>5 DEF Init, TypeOK, Tasks
  <1>7. RingHoldsRequests
    BY <1>1 DEF Init, RingHoldsRequests, Occupied, Slots
  <1>8. QED
    BY <1>6, <1>7 DEF Init, IInv, NoUnexpectedOccurence, SettledBetweenRequests, ServingOK,
                      SweepHasTimer

LEMMA PickRequestIInv == IInv /\ PickRequest => IInv'
  <1> SUFFICES ASSUME IInv, PickRequest PROVE IInv'
    OBVIOUS
  <1>1. RingTypes /\ RingHoldsRequests /\ TypeOK
    BY DEF IInv, TypeOK, RingTypes
  <1>2. RingTypes' /\ RingHoldsRequests' /\ g_req' \in Requests /\ g_cmd' \in Command
    BY <1>1, DequeueStep DEF PickRequest, Front
  <1>3. g_state \in {"IDLE", "IN_PROGRESS"} /\ hung = FALSE /\ ~hung
    BY DEF IInv, PickRequest, SettledBetweenRequests, NoUnexpectedOccurence, TypeOK
  <1>4. /\ UNCHANGED <<g_active_flag, g_sweep_state, reply, radio, test, timer>>
        /\ g_state_request' = "IN_PROGRESS"
    BY DEF PickRequest
  <1>5. CASE g_req' = "STOP_TEST" /\ g_stop_process_state' = "STOP_BEGIN"
             /\ UNCHANGED <<g_start_process_state, g_forward_process_state, running_task, hung>>
    <2>1. TypeOK'
      BY <1>1, <1>2, <1>4, <1>5 DEF TypeOK, RingTypes, radio, test, timer
    <2>2. ServingOK'
      BY <1>3, <1>4, <1>5 DEF ServingOK, StopPhaseOK, test
    <2>3. QED
      BY <1>2, <1>3, <1>4, <1>5, <2>1, <2>2
      DEF IInv, NoUnexpectedOccurence, SettledBetweenRequests, SweepHasTimer, timer
  <1>6. CASE g_req' \in Forwards /\ g_forward_process_state' = "FORWARD_BEGIN"
             /\ UNCHANGED <<g_start_process_state, g_stop_process_state, running_task, hung>>
    <2>1. TypeOK'
      BY <1>1, <1>2, <1>4, <1>6 DEF TypeOK, RingTypes, radio, test, timer
    <2>2. ServingOK'
      BY <1>3, <1>4, <1>6 DEF ServingOK, ForwardPhaseOK, test
    <2>3. QED
      BY <1>2, <1>3, <1>4, <1>6, <2>1, <2>2
      DEF IInv, NoUnexpectedOccurence, SettledBetweenRequests, SweepHasTimer, timer
  <1>7. CASE g_req' \notin Forwards \cup {"STOP_TEST"} /\ g_start_process_state' = "BEGIN"
             /\ UpdateRunningTaskFlag(g_req')
             /\ UNCHANGED <<g_stop_process_state, g_forward_process_state>>
    <2>1. g_req' \in Starts
      BY <1>2, <1>7, RequestKinds
    <2>2. running_task' \in Tasks /\ UNCHANGED hung
      BY <1>7, <2>1, TaskOfKnown DEF UpdateRunningTaskFlag
    <2>3. TypeOK'
      BY <1>1, <1>2, <1>4, <1>7, <2>2 DEF TypeOK, RingTypes, radio, test, timer
    <2>4. ServingOK'
      BY <1>3, <1>4, <1>7, <2>1 DEF ServingOK, StartPhaseOK, test
    <2>5. QED
      BY <1>2, <1>3, <1>4, <2>2, <2>3, <2>4
      DEF IInv, NoUnexpectedOccurence, SettledBetweenRequests, SweepHasTimer, timer
  <1>8. QED
    BY <1>5, <1>6, <1>7 DEF PickRequest

LEMMA ServeStopIInv == IInv /\ ServeStop => IInv'
  <1> SUFFICES ASSUME IInv, ServeStop PROVE IInv'
    OBVIOUS
  <1>1. /\ TypeOK /\ TestTypes /\ hung = FALSE /\ StopPhaseOK /\ RingHoldsRequests
        /\ g_req = "STOP_TEST" /\ g_stop_process_state \in StopPhases
        /\ g_sweep_state \in {"NORMAL", "SWEEP"}
    BY RequestKinds DEF IInv, TypeOK, TestTypes, HciCommands, ServeStop, ServingOK, StopPhases,
                        NoUnexpectedOccurence
  <1>2. /\ UNCHANGED <<g_active_flag, ring, g_req, g_cmd>>
        /\ UNCHANGED <<emi_sweep_timer_cb, custom_ctx, g_start_process_state,
                       g_forward_process_state>>
    BY DEF ServeStop, ServeFrame
  <1>3. RingHoldsRequests'
    BY <1>1, <1>2 DEF RingHoldsRequests, Occupied, ring
  <1>4. CASE StopProcess(FALSE) /\ KeepServing /\ UNCHANGED timer_on
    <2>1. /\ TestTypes' /\ hung' = FALSE /\ g_stop_process_state' \in StopPhases
          /\ g_sweep_state' = g_sweep_state \/ g_sweep_state' = "NORMAL"
          /\ StopPhaseOK'
      BY <1>1, <1>4, StopProcessStep
    <2>6. /\ g_state_request' \in {"IDLE", "IN_PROGRESS"} /\ running_task' \in Tasks
          /\ timer_on' \in BOOLEAN
          /\ reply' \in [req : Requests \cup {Nothing}, ok : BOOLEAN]
      BY <1>1, <1>4 DEF KeepServing, TypeOK
    <2>2. TypeOK'
      BY <1>1, <1>2, <2>6, <2>1
      DEF TypeOK, TestTypes, HciCommands, StopPhases, ring
    <2>3. g_state_request' = "IN_PROGRESS" /\ g_req' = "STOP_TEST"
      BY <1>1, <1>2, <1>4 DEF ServeStop, KeepServing
    <2>4. SweepHasTimer'
      BY <1>2, <1>4, <2>1 DEF IInv, SweepHasTimer
    <2>5. QED
      BY <1>3, <2>1, <2>2, <2>3, <2>4
      DEF IInv, NoUnexpectedOccurence, SettledBetweenRequests, ServingOK
  <1>5. CASE StopProcess(TRUE) /\ g_state_request' = "IDLE"
             /\ SendReply(g_stop_process_state' = "STOP_END")
             /\ IF g_stop_process_state' = "STOP_END"
                THEN running_task' = TaskOf(g_req) /\ EmiTimerStop
                ELSE UNCHANGED <<running_task, timer_on>>
    <2>1. /\ TestTypes' /\ hung' = FALSE /\ g_stop_process_state' \in StopPhases
          /\ g_sweep_state' = g_sweep_state \/ g_sweep_state' = "NORMAL"
          /\ \/ /\ g_stop_process_state' = "STOP_END"
                /\ g_state' = "IDLE" /\ g_sweep_state' = "NORMAL"
             \/ /\ g_stop_process_state' = "STOP_BEGIN" /\ g_state' = "IN_PROGRESS"
      BY <1>1, <1>5, StopProcessStep
    <2>2. running_task' \in Tasks /\ timer_on' \in BOOLEAN
      <3>1. TaskOf(g_req) \in Tasks
        BY <1>1, TaskOfKnown
      <3>2. CASE g_stop_process_state' = "STOP_END"
        BY <1>5, <3>1, <3>2 DEF EmiTimerStop
      <3>3. CASE g_stop_process_state' # "STOP_END"
        BY <1>1, <1>5, <3>3 DEF TypeOK
      <3>4. QED
        BY <3>2, <3>3
    <2>3. reply' \in [req : Requests \cup {Nothing}, ok : BOOLEAN]
      BY <1>1, <1>5 DEF SendReply, TypeOK
    <2>4. TypeOK'
      BY <1>1, <1>2, <1>5, <2>1, <2>2, <2>3
      DEF TypeOK, TestTypes, HciCommands, StopPhases, ring
    <2>5. SweepHasTimer'
      BY <1>2, <1>5, <2>1 DEF IInv, SweepHasTimer
    <2>6. QED
      BY <1>3, <1>5, <2>1, <2>4, <2>5
      DEF IInv, NoUnexpectedOccurence, SettledBetweenRequests, ServingOK
  <1>6. QED
    BY <1>4, <1>5 DEF ServeStop

TimerTypes ==
  /\ timer_on \in BOOLEAN
  /\ emi_sweep_timer_cb \in Forwards \cup {Nothing}
  /\ custom_ctx \in CustomForwards \cup {Nothing}

\* emi_forward_process ends with the test settled.
LEMMA ForwardProcessStep ==
  ASSUME TestTypes, hung = FALSE, ForwardPhaseOK, g_req \in Forwards,
         g_stop_process_state \in StopPhases,
         NEW done \in BOOLEAN, ForwardProcess(done)
  PROVE  /\ TestTypes' /\ hung' = FALSE /\ UNCHANGED <<timer, g_sweep_state>>
         /\ g_stop_process_state' \in StopPhases
         /\ g_forward_process_state' \in ForwardPhases
         /\ ~done => ForwardPhaseOK'
         /\ done => g_state' \in {"IDLE", "IN_PROGRESS"}
         /\ done /\ g_forward_process_state' = "FORWARD_END" => Running'
         /\ done /\ g_forward_process_state' # "FORWARD_END" => (Running' => Running)
  <1>1. CASE g_forward_process_state = "FORWARD_BEGIN"
    BY <1>1 DEF ForwardProcess, ForwardPhaseOK, ForwardPhases, StopPhases, TestTypes, test, radio
  <1>2. CASE g_forward_process_state = "FORWARD_STOPING"
    <2>1. PICK stopped \in BOOLEAN :
            /\ StopATest(stopped)
            /\ g_forward_process_state' = IF ~stopped THEN "FORWARD_STOPING"
                                          ELSE IF g_state' = "IDLE" THEN "FORWARD_STARTING"
                                          ELSE "FORWARD_BEGIN"
            /\ done = (stopped /\ g_state' # "IDLE")
      BY <1>2 DEF ForwardProcess
    <2>2. UNCHANGED <<timer, g_sweep_state, g_stop_process_state>>
      BY <1>2 DEF ForwardProcess
    <2>3. g_state \in {"IN_PROGRESS", "SHUTDOWN"}
      BY <1>2 DEF ForwardPhaseOK
    <2>4. /\ TestTypes' /\ hung' = FALSE
          /\ stopped => g_state' \in {"IDLE", "IN_PROGRESS"}
          /\ ~stopped => g_state' = "SHUTDOWN"
      BY <2>1, <2>3, StopATestStep
    <2>5. QED
      BY <2>1, <2>2, <2>3, <2>4 DEF ForwardPhaseOK, ForwardPhases, Running
  <1>3. CASE g_forward_process_state = "FORWARD_STARTING"
    <2>1. PICK started \in BOOLEAN :
            /\ StartATest(started)
            /\ g_forward_process_state' = IF ~started THEN "FORWARD_STARTING"
                                          ELSE IF HasRunningTestOrTask' THEN "FORWARD_ITERATION"
                                          ELSE "FORWARD_BEGIN"
            /\ done = (started /\ ~HasRunningTestOrTask')
      BY <1>3 DEF ForwardProcess
    <2>2. UNCHANGED g_stop_process_state
      BY <1>3 DEF ForwardProcess
    <2>3. g_state \in {"IDLE", "STARTUP"} /\ g_req \notin SweepStarts
      BY <1>3, RequestKinds DEF ForwardPhaseOK
    <2>4. /\ TestTypes' /\ hung' = FALSE /\ UNCHANGED <<timer, g_sweep_state>>
          /\ started => g_state' \in {"IDLE", "IN_PROGRESS"}
          /\ ~started => g_state' = "STARTUP"
      BY <2>1, <2>3, StartATestStep
    <2>5. QED
      BY <2>1, <2>2, <2>4 DEF ForwardPhaseOK, ForwardPhases, HasRunningTestOrTask, Running
  <1>4. CASE g_forward_process_state = "FORWARD_ITERATION"
    BY <1>4
    DEF ForwardProcess, ForwardPhaseOK, ForwardPhases, TestTypes, Running, test, radio
  <1>5. QED
    BY <1>1, <1>2, <1>3, <1>4 DEF ForwardPhaseOK

\* emi_start_process ends with the test settled, and a sweep it starts has its
\* timer.
LEMMA StartProcessStep ==
  ASSUME TestTypes, TimerTypes, hung = FALSE, StartPhaseOK, SweepHasTimer, g_req \in Starts,
         g_req' = g_req, g_sweep_state \in {"NORMAL", "SWEEP"},
         g_stop_process_state \in StopPhases,
         NEW done \in BOOLEAN, StartProcess(done)
  PROVE  /\ TestTypes' /\ TimerTypes' /\ hung' = FALSE /\ SweepHasTimer'
         /\ g_sweep_state' \in {"NORMAL", "SWEEP"}
         /\ g_stop_process_state' \in StopPhases
         /\ g_start_process_state' \in StartPhases
         /\ ~done => StartPhaseOK'
         /\ done => g_state' \in {"IDLE", "IN_PROGRESS"}
         /\ done /\ g_start_process_state' = "END" => Running'
         /\ ~done \/ g_start_process_state' # "END" => (Running' => Running)
  <1>1. CASE g_start_process_state = "BEGIN"
    <2>1. UNCHANGED <<test, radio, timer, g_sweep_state, hung>> /\ ~done
      BY <1>1 DEF StartProcess
    <2>2. TestTypes' /\ TimerTypes' /\ SweepHasTimer'
      BY <2>1 DEF TestTypes, TimerTypes, SweepHasTimer, test, radio, timer
    <2>3. g_state \in {"IDLE", "IN_PROGRESS"}
      BY <1>1 DEF StartPhaseOK
    <2>4. CASE EmiStateBusy
      BY <1>1, <2>1, <2>2, <2>3, <2>4
      DEF StartProcess, StartPhaseOK, StopPhaseOK, StopPhases, StartPhases, Running, test
    <2>5. CASE ~EmiStateBusy
      BY <1>1, <2>1, <2>2, <2>3, <2>5
      DEF StartProcess, StartPhaseOK, EmiStateBusy, StartPhaseOf, StartPhases, Running, test
    <2>6. QED
      BY <2>4, <2>5
  <1>2. CASE g_start_process_state = "STOPING"
    <2>1. PICK stopped \in BOOLEAN :
            /\ StopProcess(stopped)
            /\ g_start_process_state' =
                 IF ~stopped THEN "STOPING"
                 ELSE IF g_stop_process_state' = "STOP_END" THEN StartPhaseOf(g_req) ELSE "BEGIN"
            /\ done = (stopped /\ g_stop_process_state' # "STOP_END")
      BY <1>2 DEF StartProcess
    <2>2. UNCHANGED timer
      BY <1>2 DEF StartProcess
    <2>3. StopPhaseOK
      BY <1>2 DEF StartPhaseOK
    <2>4. /\ TestTypes' /\ hung' = FALSE /\ g_stop_process_state' \in StopPhases
          /\ g_sweep_state' = g_sweep_state \/ g_sweep_state' = "NORMAL"
          /\ ~stopped => StopPhaseOK'
          /\ Running' => Running
          /\ stopped => \/ /\ g_stop_process_state' = "STOP_END"
                           /\ g_state' = "IDLE" /\ g_sweep_state' = "NORMAL"
                        \/ g_stop_process_state' = "STOP_BEGIN" /\ g_state' = "IN_PROGRESS"
      BY <2>1, <2>3, StopProcessStep
    <2>5. TimerTypes' /\ SweepHasTimer'
      BY <2>2, <2>4 DEF TimerTypes, SweepHasTimer, timer
    <2>6. QED
      BY <2>1, <2>4, <2>5 DEF StartPhaseOK, StartPhaseOf, StartPhases
  <1>3. CASE g_start_process_state = "STARTING"
    <2>1. /\ StartATest(done)
          /\ g_start_process_state' = IF ~done THEN "STARTING"
                                      ELSE IF HasRunningTestOrTask' THEN "END" ELSE "BEGIN"
          /\ UNCHANGED g_stop_process_state
      BY <1>3 DEF StartProcess
    <2>2. g_state \in {"IDLE", "STARTUP"} /\ g_req \notin SweepStarts /\ g_sweep_state = "NORMAL"
      BY <1>3 DEF StartPhaseOK
    <2>3. /\ TestTypes' /\ hung' = FALSE /\ UNCHANGED <<timer, g_sweep_state>>
          /\ done => g_state' \in {"IDLE", "IN_PROGRESS"}
          /\ ~done => g_state' = "STARTUP"
      BY <2>1, <2>2, StartATestStep
    <2>4. TimerTypes' /\ SweepHasTimer'
      BY <2>2, <2>3 DEF TimerTypes, SweepHasTimer, timer
    <2>5. QED
      BY <2>1, <2>2, <2>3, <2>4 DEF StartPhaseOK, StartPhases, HasRunningTestOrTask, Running
  <1>4. CASE g_start_process_state = "START_SWEEP_TIMER"
    <2>1. g_req \in SweepStarts /\ g_state = "IDLE"
      BY <1>4 DEF StartPhaseOK
    <2>2. /\ done /\ StartTestDifCase(TRUE) /\ g_start_process_state' = "END"
          /\ UNCHANGED <<hung, test, g_stop_process_state>>
      BY <1>4, <2>1, RequestKinds DEF StartProcess, StartTestDifCase, SweepStarts
    <2>3. /\ timer_on' = TRUE /\ emi_sweep_timer_cb' = ForwardOf(g_req)
          /\ custom_ctx' = IF ForwardOf(g_req) \in CustomForwards THEN ForwardOf(g_req)
                           ELSE custom_ctx
          /\ g_sweep_state' = "SWEEP" /\ UNCHANGED radio
      BY <2>1, <2>2 DEF StartTestDifCase, SweepStarts
    <2>4. ForwardOf(g_req) \in Forwards /\ Nothing \notin Forwards
      BY <2>1, ForwardOfKnown, RequestKinds
    <2>5. TestTypes' /\ TimerTypes' /\ SweepHasTimer'
      BY <2>2, <2>3, <2>4 DEF TestTypes, TimerTypes, SweepHasTimer, test, radio
    <2>6. QED
      BY <2>1, <2>2, <2>3, <2>5 DEF StartPhases, Running, test
  <1>5. QED
    BY <1>1, <1>2, <1>3, <1>4 DEF StartPhaseOK

\* The part of IInv that a step of emi_loop serving a request relies on.
ServingTypes ==
  /\ TypeOK /\ TestTypes /\ TimerTypes /\ hung = FALSE /\ RingHoldsRequests /\ SweepHasTimer
  /\ g_stop_process_state \in StopPhases /\ g_sweep_state \in {"NORMAL", "SWEEP"}

ReplyTypes == [req : Requests \cup {Nothing}, ok : BOOLEAN]

LEMMA IInvServingTypes == IInv => ServingTypes
  BY DEF IInv, ServingTypes, TypeOK, TestTypes, TimerTypes, HciCommands, StopPhases,
         NoUnexpectedOccurence

LEMMA ServeForwardIInv == IInv /\ ServeForward => IInv'
  <1> SUFFICES ASSUME IInv, ServeForward PROVE IInv'
    OBVIOUS
  <1>1. ServingTypes /\ g_req \in Forwards /\ ForwardPhaseOK
    BY IInvServingTypes, RequestKinds DEF IInv, ServeForward, ServingOK
  <1>2. UNCHANGED <<g_active_flag, ring, g_req, g_cmd>> /\ UNCHANGED g_start_process_state
    BY DEF ServeForward, ServeFrame
  <1>3. RingHoldsRequests'
    BY <1>1, <1>2 DEF ServingTypes, RingHoldsRequests, Occupied, ring
  <1>4. ASSUME NEW done \in BOOLEAN, ForwardProcess(done)
        PROVE  /\ TestTypes' /\ hung' = FALSE /\ UNCHANGED <<timer, g_sweep_state>>
               /\ g_stop_process_state' \in StopPhases
               /\ g_forward_process_state' \in ForwardPhases
               /\ ~done => ForwardPhaseOK'
               /\ done => g_state' \in {"IDLE", "IN_PROGRESS"}
    BY <1>1, <1>4, ForwardProcessStep DEF ServingTypes
  <1>5. ASSUME NEW done \in BOOLEAN, ForwardProcess(done), UNCHANGED running_task,
               g_state_request' = (IF done THEN "IDLE" ELSE "IN_PROGRESS"),
               reply' \in ReplyTypes
        PROVE  IInv'
    <2>1. running_task' \in Tasks /\ TimerTypes' /\ SweepHasTimer'
      BY <1>1, <1>4, <1>5 DEF ServingTypes, TypeOK, TimerTypes, SweepHasTimer, timer
    <2>2. TypeOK'
      BY <1>1, <1>2, <1>4, <1>5, <2>1
      DEF ServingTypes, TypeOK, TestTypes, TimerTypes, ReplyTypes, HciCommands, StopPhases,
          ForwardPhases, ring
    <2>3. ServingOK' /\ SettledBetweenRequests'
      BY <1>1, <1>2, <1>4, <1>5 DEF ServingOK, SettledBetweenRequests
    <2>4. QED
      BY <1>3, <1>4, <1>5, <2>1, <2>2, <2>3 DEF IInv, NoUnexpectedOccurence
  <1>6. CASE ForwardProcess(FALSE) /\ KeepServing
    <2>1. reply' \in ReplyTypes /\ g_state_request' = "IN_PROGRESS" /\ UNCHANGED running_task
      BY <1>1, <1>6 DEF KeepServing, ServeForward, ServingTypes, TypeOK, ReplyTypes
    <2>2. QED
      BY <1>5, <1>6, <2>1
  <1>7. CASE ForwardProcess(TRUE) /\ g_state_request' = "IDLE" /\ UNCHANGED running_task
             /\ SendReply(g_forward_process_state' = "FORWARD_END")
    <2>1. reply' \in ReplyTypes
      BY <1>1, <1>7 DEF SendReply, ServingTypes, TypeOK, ReplyTypes
    <2>2. QED
      BY <1>5, <1>7, <2>1
  <1>8. QED
    BY <1>6, <1>7 DEF ServeForward

LEMMA ServeStartIInv == IInv /\ ServeStart => IInv'
  <1> SUFFICES ASSUME IInv, ServeStart PROVE IInv'
    OBVIOUS
  <1>1. ServingTypes /\ g_req \in Starts /\ StartPhaseOK
    BY IInvServingTypes, RequestKinds DEF IInv, ServeStart, ServingOK
  <1>2. UNCHANGED <<g_active_flag, ring, g_req, g_cmd>> /\ UNCHANGED g_forward_process_state
    BY DEF ServeStart, ServeFrame
  <1>3. RingHoldsRequests'
    BY <1>1, <1>2 DEF ServingTypes, RingHoldsRequests, Occupied, ring
  <1>4. ASSUME NEW done \in BOOLEAN, StartProcess(done)
        PROVE  /\ TestTypes' /\ TimerTypes' /\ hung' = FALSE /\ SweepHasTimer'
               /\ g_sweep_state' \in {"NORMAL", "SWEEP"}
               /\ g_stop_process_state' \in StopPhases
               /\ g_start_process_state' \in StartPhases
               /\ ~done => StartPhaseOK'
               /\ done => g_state' \in {"IDLE", "IN_PROGRESS"}
    BY <1>1, <1>2, <1>4, StartProcessStep DEF ServingTypes
  <1>5. ASSUME NEW done \in BOOLEAN, StartProcess(done), running_task' \in Tasks,
               g_state_request' = (IF done THEN "IDLE" ELSE "IN_PROGRESS"),
               reply' \in ReplyTypes
        PROVE  IInv'
    <2>1. TypeOK'
      BY <1>1, <1>2, <1>4, <1>5
      DEF ServingTypes, TypeOK, TestTypes, TimerTypes, ReplyTypes, HciCommands, StopPhases,
          StartPhases, ring
    <2>2. ServingOK' /\ SettledBetweenRequests'
      BY <1>1, <1>2, <1>4, <1>5 DEF ServingOK, SettledBetweenRequests
    <2>3. QED
      BY <1>3, <1>4, <1>5, <2>1, <2>2 DEF IInv, NoUnexpectedOccurence
  <1>6. CASE StartProcess(FALSE) /\ KeepServing
    <2>1. /\ reply' \in ReplyTypes /\ g_state_request' = "IN_PROGRESS"
          /\ running_task' \in Tasks
      BY <1>1, <1>6 DEF KeepServing, ServeStart, ServingTypes, TypeOK, ReplyTypes
    <2>2. QED
      BY <1>5, <1>6, <2>1
  <1>7. CASE /\ StartProcess(TRUE) /\ g_state_request' = "IDLE"
             /\ SendReply(g_start_process_state' = "END")
             /\ running_task' = IF g_start_process_state' = "END" THEN TaskOf(g_req)
                                ELSE running_task
    <2>1. reply' \in ReplyTypes
      BY <1>1, <1>7 DEF SendReply, ServingTypes, TypeOK, ReplyTypes
    <2>2. running_task' \in Tasks
      BY <1>1, <1>7, TaskOfKnown DEF ServingTypes, TypeOK
    <2>3. QED
      BY <1>5, <1>7, <2>1, <2>2
  <1>8. QED
    BY <1>6, <1>7 DEF ServeStart

LEMMA HciCommandCompleteIInv == IInv /\ HciCommandComplete => IInv'
  <1> SUFFICES ASSUME IInv, HciCommandComplete PROVE IInv'
    OBVIOUS
  <1>1. /\ UNCHANGED <<g_active_flag, g_sweep_state, running_task, reply, hung,
                       ring, g_state, expired, timer, phases, request>>
        /\ command_completed' = TRUE
    BY DEF HciCommandComplete
  <1>2. hci' \in Seq(HciCommands) /\ air' \in SUBSET {"CW", "TEST", "LLE"}
    <2>1. /\ hci \in Seq(HciCommands) /\ hci # << >> /\ hci' = Tail(hci)
          /\ air \in SUBSET {"CW", "TEST", "LLE"} /\ air' = Emitted(air, Head(hci))
      BY DEF IInv, TypeOK, HciCommandComplete, HciCommands
    <2>2. Head(hci) \in HciCommands
      BY <2>1
    <2>3. QED
      BY <2>1, <2>2, EmittedSignals
  <1>3. TypeOK'
    BY <1>1, <1>2 DEF IInv, TypeOK, HciCommands, ring, timer, phases, request
  <1>4. QED
    BY <1>1, <1>3
    DEF IInv, NoUnexpectedOccurence, SettledBetweenRequests, ServingOK, StopPhaseOK,
        StartPhaseOK, ForwardPhaseOK, SweepHasTimer, RingHoldsRequests, Occupied,
        ring, timer, phases, request

LEMMA TimeoutExpiresIInv == IInv /\ TimeoutExpires => IInv'
  BY DEF IInv, TimeoutExpires, TypeOK, NoUnexpectedOccurence, SettledBetweenRequests, ServingOK,
         StopPhaseOK, StartPhaseOK, ForwardPhaseOK, SweepHasTimer, RingHoldsRequests, Occupied,
         ring, radio, timer, phases, request

\* What the interrupts do: they touch the ring and g_cmd only.
LEMMA InterruptIInv ==
  ASSUME IInv, RingTypes', RingHoldsRequests', g_cmd' \in Command,
         UNCHANGED <<g_active_flag, g_sweep_state, running_task, reply, hung, radio, test,
                     timer, phases, g_req, g_state_request>>
  PROVE  IInv'
  <1>1. TypeOK'
    BY DEF IInv, TypeOK, RingTypes, radio, test, timer, phases
  <1>2. QED
    BY <1>1
    DEF IInv, NoUnexpectedOccurence, SettledBetweenRequests, ServingOK, StopPhaseOK,
        StartPhaseOK, ForwardPhaseOK, SweepHasTimer, test, timer, phases

LEMMA EmiDispatchIInv ==
  ASSUME IInv, NEW c \in HostCommands, EmiDispatch(c)
  PROVE  IInv'
  <1>1. /\ c \in Command /\ RequestOf(c) \in Requests \cup {Nothing}
        /\ RingTypes /\ RingHoldsRequests
    BY RequestOfKnown DEF IInv, TypeOK, RingTypes
  <1>2. /\ g_cmd' = c
        /\ IF RequestOf(c) = Nothing THEN UNCHANGED ring ELSE Enqueue(RequestOf(c), c)
        /\ UNCHANGED <<g_active_flag, g_sweep_state, running_task, reply, hung, radio, test,
                       timer, phases, g_req, g_state_request>>
    BY DEF EmiDispatch
  <1>3. RingTypes' /\ RingHoldsRequests'
    <2>1. CASE RequestOf(c) = Nothing
      BY <1>1, <1>2, <2>1 DEF RingTypes, RingHoldsRequests, Occupied, ring
    <2>2. CASE RequestOf(c) # Nothing
      BY <1>1, <1>2, <2>2, EnqueueStep
    <2>3. QED
      BY <2>1, <2>2
  <1>4. QED
    BY <1>1, <1>2, <1>3, InterruptIInv

LEMMA TimerIrqIInv == IInv /\ TimerIrq => IInv'
  <1> SUFFICES ASSUME IInv, TimerIrq PROVE IInv'
    OBVIOUS
  <1>1. RingTypes /\ RingHoldsRequests /\ emi_sweep_timer_cb \in Requests /\ g_cmd \in Command
    BY RequestKinds DEF IInv, TypeOK, RingTypes, TimerIrq
  <1>2. NoCmd \in Command
    BY DEF NoCmd, Command
  <1>3. /\ Enqueue(emi_sweep_timer_cb, NoCmd)
        /\ UNCHANGED <<g_active_flag, g_sweep_state, running_task, reply, hung, radio, test,
                       timer, phases, request>>
    BY DEF TimerIrq
  <1>4. RingTypes' /\ RingHoldsRequests'
    BY <1>1, <1>2, <1>3, EnqueueStep
  <1>5. QED
    BY <1>1, <1>3, <1>4, InterruptIInv DEF request

\* IInv is inductive: it holds initially and every step preserves it.
LEMMA NextIInv == IInv /\ [Next]_vars => IInv'
  <1> SUFFICES ASSUME IInv, [Next]_vars PROVE IInv'
    OBVIOUS
  <1>1. CASE EmiLoop
    BY <1>1, PickRequestIInv, ServeStopIInv, ServeForwardIInv, ServeStartIInv DEF EmiLoop
  <1>2. CASE HciCommandComplete
    BY <1>2, HciCommandCompleteIInv
  <1>3. CASE TimeoutExpires
    BY <1>3, TimeoutExpiresIInv
  <1>4. CASE \E c \in HostCommands : EmiDispatch(c)
    BY <1>4, EmiDispatchIInv
  <1>5. CASE TimerIrq
    BY <1>5, TimerIrqIInv
  <1>6. CASE EmiEnable
    <2>1. g_cmd' \in Command /\ RingTypes' /\ RingHoldsRequests'
      BY <1>6 DEF EmiEnable, IInv, TypeOK, RingTypes, RingHoldsRequests, Occupied, ring, request
    <2>2. g_active_flag' \in BOOLEAN
      BY <1>6 DEF EmiEnable
    <2>3. UNCHANGED <<g_sweep_state, running_task, reply, hung, radio, test,
                      timer, phases, ring, request>>
      BY <1>6 DEF EmiEnable
    <2>4. TypeOK'
      BY <2>2, <2>3 DEF IInv, TypeOK, ring, request, radio, test, timer, phases
    <2>5. QED
      BY <2>1, <2>3, <2>4
      DEF IInv, NoUnexpectedOccurence, SettledBetweenRequests, ServingOK, StopPhaseOK,
          StartPhaseOK, ForwardPhaseOK, SweepHasTimer, test, timer, phases, request
  <1>7. CASE UNCHANGED vars
    BY <1>7
    DEF IInv, TypeOK, NoUnexpectedOccurence, SettledBetweenRequests, ServingOK, StopPhaseOK,
        StartPhaseOK, ForwardPhaseOK, SweepHasTimer, RingHoldsRequests, Occupied,
        vars, ring, radio, test, timer, phases, request
  <1>8. QED
    BY <1>1, <1>2, <1>3, <1>4, <1>5, <1>6, <1>7 DEF Next

\* The inductive invariant holds in every reachable state.
THEOREM InductiveInvariant == Spec => []IInv
  BY InitIInv, NextIInv, PTL DEF Spec

\* Every variable keeps the range of its enum or type, whatever packets,
\* interrupts, completions and timeouts arrive in whatever order.
THEOREM TypeCorrectness == Spec => []TypeOK
  <1>1. IInv => TypeOK
    BY DEF IInv
  <1>2. QED
    BY <1>1, InductiveInvariant, PTL

\* The loop never reaches the while(1) of EMI_Unexpected_Occurence.
THEOREM NeverHangs == Spec => []NoUnexpectedOccurence
  <1>1. IInv => NoUnexpectedOccurence
    BY DEF IInv
  <1>2. QED
    BY <1>1, InductiveInvariant, PTL

\* Between two requests the test is settled, in IDLE or IN_PROGRESS.
THEOREM RequestsLeaveTheTestSettled == Spec => []SettledBetweenRequests
  <1>1. IInv => SettledBetweenRequests
    BY DEF IInv
  <1>2. QED
    BY <1>1, InductiveInvariant, PTL

\* A sweep is never without a counting timer and a callback to drive it.
THEOREM SweepsAreDriven == Spec => []SweepHasTimer
  <1>1. IInv => SweepHasTimer
    BY DEF IInv
  <1>2. QED
    BY <1>1, InductiveInvariant, PTL

\* No failure, timeout or replaced request leaves a test half started or half
\* stopped for the next request, nor a sweep without its timer.
THEOREM RequestsLeaveNothingHalfWay == Spec => []NothingIsLeftHalfWay
  <1>1. IInv => NothingIsLeftHalfWay
    BY DEF IInv, NothingIsLeftHalfWay
  <1>2. QED
    BY <1>1, InductiveInvariant, PTL

\* A step keeps StoppedIsAtRest: only a STOP that was done can make it due.
LEMMA NextStoppedIsAtRest == IInv /\ StoppedIsAtRest /\ [Next]_vars => StoppedIsAtRest'
  <1> SUFFICES ASSUME IInv, StoppedIsAtRest, [Next]_vars PROVE StoppedIsAtRest'
    OBVIOUS
  <1>1. CASE PickRequest
    BY <1>1 DEF PickRequest, StoppedIsAtRest
  <1>2. CASE ServeStop
    <2>1. ServingTypes /\ StopPhaseOK /\ g_req = "STOP_TEST"
      BY <1>2, IInvServingTypes, RequestKinds DEF IInv, ServeStop, ServingOK
    <2>2. CASE StopProcess(FALSE) /\ KeepServing
      BY <1>2, <2>2 DEF ServeStop, KeepServing, StoppedIsAtRest
    <2>3. CASE /\ StopProcess(TRUE) /\ SendReply(g_stop_process_state' = "STOP_END")
               /\ IF g_stop_process_state' = "STOP_END"
                  THEN running_task' = TaskOf(g_req) /\ EmiTimerStop
                  ELSE UNCHANGED <<running_task, timer_on>>
      <3>1. g_stop_process_state' = "STOP_END" => g_state' = "IDLE" /\ g_sweep_state' = "NORMAL"
        BY <2>1, <2>3, StopProcessStep DEF ServingTypes
      <3>2. CASE g_stop_process_state' = "STOP_END"
        <4>1. running_task' = "NONE" /\ timer_on' = FALSE
          BY <2>1, <2>3, <3>2 DEF TaskOf, EmiTimerStop
        <4>2. QED
          BY <3>1, <3>2, <4>1 DEF StoppedIsAtRest
      <3>3. CASE g_stop_process_state' # "STOP_END"
        <4>1. reply'.ok = FALSE
          BY <2>3, <3>3 DEF SendReply
        <4>2. QED
          BY <4>1 DEF StoppedIsAtRest
      <3>4. QED
        BY <3>2, <3>3
    <2>4. QED
      BY <1>2, <2>2, <2>3 DEF ServeStop
  <1>3. CASE ServeForward
    <2>1. reply'.req # "STOP_TEST" \/ g_state_request' = "IN_PROGRESS"
      <3>1. CASE KeepServing
        BY <1>3, <3>1 DEF ServeForward, KeepServing
      <3>2. CASE SendReply(g_forward_process_state' = "FORWARD_END")
        <4>1. reply'.req = g_req
          BY <3>2, Zenon DEF SendReply
        <4>2. QED
          BY <1>3, <4>1, RequestKinds DEF ServeForward
      <3>3. QED
        BY <1>3, <3>1, <3>2 DEF ServeForward
    <2>2. QED
      BY <2>1 DEF StoppedIsAtRest
  <1>4. CASE ServeStart
    <2>1. reply'.req # "STOP_TEST" \/ g_state_request' = "IN_PROGRESS"
      <3>1. CASE KeepServing
        BY <1>4, <3>1 DEF ServeStart, KeepServing
      <3>2. CASE SendReply(g_start_process_state' = "END")
        <4>1. reply'.req = g_req
          BY <3>2, Zenon DEF SendReply
        <4>2. QED
          BY <1>4, <4>1, RequestKinds DEF ServeStart
      <3>3. QED
        BY <1>4, <3>1, <3>2 DEF ServeStart
    <2>2. QED
      BY <2>1 DEF StoppedIsAtRest
  <1>5. CASE HciCommandComplete
    BY <1>5 DEF HciCommandComplete, StoppedIsAtRest, timer, request
  <1>6. CASE TimeoutExpires
    BY <1>6 DEF TimeoutExpires, StoppedIsAtRest, timer, request
  <1>7. CASE \E c \in HostCommands : EmiDispatch(c)
    BY <1>7 DEF EmiDispatch, StoppedIsAtRest, timer, test
  <1>8. CASE TimerIrq
    BY <1>8 DEF TimerIrq, StoppedIsAtRest, timer, test, request
  <1>9. CASE EmiEnable
    BY <1>9 DEF EmiEnable, StoppedIsAtRest, timer, test, request
  <1>10. CASE UNCHANGED vars
    BY <1>10 DEF vars, StoppedIsAtRest, timer, test, request
  <1>11. QED
    BY <1>1, <1>2, <1>3, <1>4, <1>5, <1>6, <1>7, <1>8, <1>9, <1>10 DEF Next, EmiLoop

\* A STOP acknowledged as done has left sweep, timer, test state and task kind
\* at rest.
THEOREM StopLeavesAllAtRest == Spec => []StoppedIsAtRest
  <1>1. Init => StoppedIsAtRest
    BY DEF Init, StoppedIsAtRest, Nothing
  <1>2. QED
    BY <1>1, InductiveInvariant, NextStoppedIsAtRest, PTL DEF Spec

-----------------------------------------------------------------------------
(***************************************************************************)
(* The EMI test controller implements the request service of EmiService:   *)
(* the initial state maps to its initial state, and every step, in a state *)
(* of the inductive invariant, to one of its steps or to a stutter.        *)
(***************************************************************************)
LEMMA InitService == Init => Service!Init
  BY DEF Init, Service!Init

\* A step that keeps what the mapping reads is a stutter of the service.
LEMMA StutterService ==
  ASSUME UNCHANGED <<g_state_request, g_req, g_sweep_state, g_state, reply>>
  PROVE  UNCHANGED Service!vars
  BY DEF Service!vars

LEMMA PickRequestService == IInv /\ PickRequest => Service!Next
  <1> SUFFICES ASSUME IInv, PickRequest PROVE Service!Next
    OBVIOUS
  <1>1. g_req' \in Requests
    BY DequeueStep DEF IInv, TypeOK, RingTypes, PickRequest, Front
  <1>2. Service!Take(g_req')
    BY DEF PickRequest, Service!Take, test
  <1>3. g_req' \in Service!Reqs
    BY <1>1, RequestKinds DEF Service!Reqs
  <1>4. QED
    BY <1>2, <1>3 DEF Service!Next

LEMMA ServeStopService == IInv /\ ServeStop => [Service!Next]_(Service!vars)
  <1> SUFFICES ASSUME IInv, ServeStop PROVE [Service!Next]_(Service!vars)
    OBVIOUS
  <1>1. /\ TestTypes /\ hung = FALSE /\ StopPhaseOK /\ g_stop_process_state \in StopPhases
        /\ g_sweep_state \in {"NORMAL", "SWEEP"}
        /\ g_state_request = "IN_PROGRESS" /\ g_req = "STOP_TEST" /\ g_req' = g_req
    BY IInvServingTypes, RequestKinds
    DEF IInv, ServingTypes, ServeStop, ServeFrame, ServingOK
  <1>2. CASE StopProcess(FALSE) /\ KeepServing
    <2>1. Running' => Running
      BY <1>1, <1>2, StopProcessStep
    <2>2. g_state_request' = g_state_request /\ reply' = reply
      BY <1>2 DEF KeepServing
    <2>3. CASE Running' = Running
      BY <1>1, <2>2, <2>3 DEF Service!vars, Running
    <2>4. CASE Running' # Running
      <3>1. Service!Halt
        BY <1>1, <2>1, <2>2, <2>4 DEF Service!Halt, Running, Nothing
      <3>2. QED
        BY <3>1 DEF Service!Next
    <2>5. QED
      BY <2>3, <2>4
  <1>3. CASE StopProcess(TRUE) /\ g_state_request' = "IDLE"
             /\ SendReply(g_stop_process_state' = "STOP_END")
    <2>1. /\ Running' => Running
          /\ \/ /\ g_stop_process_state' = "STOP_END"
                /\ g_state' = "IDLE" /\ g_sweep_state' = "NORMAL"
             \/ /\ g_stop_process_state' = "STOP_BEGIN" /\ g_state' = "IN_PROGRESS"
      BY <1>1, <1>3, StopProcessStep
    <2>2. CASE g_stop_process_state' = "STOP_END"
      <3>1. reply'.req = g_req /\ reply'.ok = TRUE
        BY <1>3, <2>2 DEF SendReply
      <3>2. Service!FinishStop(TRUE)
        BY <1>1, <1>3, <2>1, <2>2, <3>1
        DEF Service!FinishStop, Service!Finished, Running, Nothing
      <3>3. QED
        BY <3>2 DEF Service!Next
    <2>3. CASE g_stop_process_state' = "STOP_BEGIN"
      <3>1. reply'.req = g_req /\ reply'.ok = FALSE
        BY <1>3, <2>3 DEF SendReply
      <3>2. Service!FinishStop(FALSE)
        BY <1>1, <1>3, <2>1, <2>3, <3>1
        DEF Service!FinishStop, Service!Finished, Running, Nothing
      <3>3. QED
        BY <3>2 DEF Service!Next
    <2>4. QED
      BY <2>1, <2>2, <2>3
  <1>4. QED
    BY <1>2, <1>3 DEF ServeStop

LEMMA ServeForwardService == IInv /\ ServeForward => [Service!Next]_(Service!vars)
  <1> SUFFICES ASSUME IInv, ServeForward PROVE [Service!Next]_(Service!vars)
    OBVIOUS
  <1>1. /\ TestTypes /\ hung = FALSE /\ ForwardPhaseOK /\ g_stop_process_state \in StopPhases
        /\ g_state_request = "IN_PROGRESS" /\ g_req \in Forwards /\ g_req' = g_req
        /\ g_req # Nothing
    BY IInvServingTypes, RequestKinds
    DEF IInv, ServingTypes, ServeForward, ServeFrame, ServingOK
  <1>2. CASE ForwardProcess(FALSE) /\ KeepServing
    <2>1. g_state_request' = g_state_request /\ reply' = reply
      BY <1>2 DEF KeepServing
    <2>2. CASE Running' = Running
      BY <1>1, <2>1, <2>2 DEF Service!vars, Running
    <2>3. CASE Running' # Running
      <3>1. Service!Halt \/ Service!Launch
        BY <1>1, <2>1, <2>3 DEF Service!Halt, Service!Launch, Running
      <3>2. QED
        BY <3>1 DEF Service!Next
    <2>4. QED
      BY <2>2, <2>3
  <1>3. CASE ForwardProcess(TRUE) /\ g_state_request' = "IDLE"
             /\ SendReply(g_forward_process_state' = "FORWARD_END")
    <2>1. /\ g_forward_process_state' = "FORWARD_END" => Running'
          /\ g_forward_process_state' # "FORWARD_END" => (Running' => Running)
      BY <1>1, <1>3, ForwardProcessStep
    <2>2. CASE g_forward_process_state' = "FORWARD_END"
      <3>1. reply'.req = g_req /\ reply'.ok = TRUE
        BY <1>3, <2>2 DEF SendReply
      <3>2. Service!FinishForward(TRUE)
        BY <1>1, <1>3, <2>1, <2>2, <3>1
        DEF Service!FinishForward, Service!Finished, Running, Nothing
      <3>3. QED
        BY <3>2 DEF Service!Next
    <2>3. CASE g_forward_process_state' # "FORWARD_END"
      <3>1. reply'.req = g_req /\ reply'.ok = FALSE
        BY <1>3, <2>3 DEF SendReply
      <3>2. Service!FinishForward(FALSE)
        BY <1>1, <1>3, <2>1, <2>3, <3>1
        DEF Service!FinishForward, Service!Finished, Running, Nothing
      <3>3. QED
        BY <3>2 DEF Service!Next
    <2>4. QED
      BY <2>2, <2>3
  <1>4. QED
    BY <1>2, <1>3 DEF ServeForward

LEMMA ServeStartService == IInv /\ ServeStart => [Service!Next]_(Service!vars)
  <1> SUFFICES ASSUME IInv, ServeStart PROVE [Service!Next]_(Service!vars)
    OBVIOUS
  <1>1. /\ TestTypes /\ TimerTypes /\ hung = FALSE /\ StartPhaseOK /\ SweepHasTimer
        /\ g_stop_process_state \in StopPhases /\ g_sweep_state \in {"NORMAL", "SWEEP"}
        /\ g_state_request = "IN_PROGRESS" /\ g_req \in Starts /\ g_req' = g_req
        /\ g_req # Nothing
    BY IInvServingTypes, RequestKinds
    DEF IInv, ServingTypes, ServeStart, ServeFrame, ServingOK
  <1>2. CASE StartProcess(FALSE) /\ KeepServing
    <2>1. Running' => Running
      BY <1>1, <1>2, StartProcessStep
    <2>2. g_state_request' = g_state_request /\ reply' = reply
      BY <1>2 DEF KeepServing
    <2>3. CASE Running' = Running
      BY <1>1, <2>2, <2>3 DEF Service!vars, Running
    <2>4. CASE Running' # Running
      <3>1. Service!Halt
        BY <1>1, <2>1, <2>2, <2>4 DEF Service!Halt, Running
      <3>2. QED
        BY <3>1 DEF Service!Next
    <2>5. QED
      BY <2>3, <2>4
  <1>3. CASE StartProcess(TRUE) /\ g_state_request' = "IDLE"
             /\ SendReply(g_start_process_state' = "END")
    <2>1. /\ g_start_process_state' = "END" => Running'
          /\ g_start_process_state' # "END" => (Running' => Running)
      BY <1>1, <1>3, StartProcessStep
    <2>2. CASE g_start_process_state' = "END"
      <3>1. reply'.req = g_req /\ reply'.ok = TRUE
        BY <1>3, <2>2 DEF SendReply
      <3>2. Service!FinishStart(TRUE)
        BY <1>1, <1>3, <2>1, <2>2, <3>1
        DEF Service!FinishStart, Service!Finished, Running, Nothing
      <3>3. QED
        BY <3>2 DEF Service!Next
    <2>3. CASE g_start_process_state' # "END"
      <3>1. reply'.req = g_req /\ reply'.ok = FALSE
        BY <1>3, <2>3 DEF SendReply
      <3>2. Service!FinishStart(FALSE)
        BY <1>1, <1>3, <2>1, <2>3, <3>1
        DEF Service!FinishStart, Service!Finished, Running, Nothing
      <3>3. QED
        BY <3>2 DEF Service!Next
    <2>4. QED
      BY <2>2, <2>3
  <1>4. QED
    BY <1>2, <1>3 DEF ServeStart

LEMMA NextService == IInv /\ [Next]_vars => [Service!Next]_(Service!vars)
  <1> SUFFICES ASSUME IInv, [Next]_vars PROVE [Service!Next]_(Service!vars)
    OBVIOUS
  <1>1. CASE EmiLoop
    BY <1>1, PickRequestService, ServeStopService, ServeForwardService, ServeStartService
    DEF EmiLoop
  <1>2. CASE HciCommandComplete
    BY <1>2, StutterService DEF HciCommandComplete, request
  <1>3. CASE TimeoutExpires
    BY <1>3, StutterService DEF TimeoutExpires, request
  <1>4. CASE \E c \in HostCommands : EmiDispatch(c)
    BY <1>4, StutterService DEF EmiDispatch, test
  <1>5. CASE TimerIrq
    BY <1>5, StutterService DEF TimerIrq, request, test
  <1>6. CASE EmiEnable
    BY <1>6, StutterService DEF EmiEnable, request, test
  <1>7. CASE UNCHANGED vars
    BY <1>7, StutterService DEF vars, request, test
  <1>8. QED
    BY <1>1, <1>2, <1>3, <1>4, <1>5, <1>6, <1>7 DEF Next

\* The controller implements the request service: requests are served one at
\* a time, and each outcome tells the truth about the test that runs.
THEOREM ImplementsService == Spec => ServesRequests
  BY InitService, NextService, InductiveInvariant, PTL DEF Spec, ServesRequests, Service!Spec

-----------------------------------------------------------------------------
(***************************************************************************)
(* A host with at most HostWindow commands unanswered, and a timer that    *)
(* waits for its FORWARD: a ring with a slot for each of them, and the one *)
(* slot more that tells a full ring from an empty one, never overflows.    *)
(***************************************************************************)
RoomyRing == SlowTimer /\ REQUEST_QUEUE_DEPTH >= HostWindow + 2

OccupiedSlots == {i \in Slots : Occupied(i)}

\* Inductive together with IInv, for such a ring: what is unanswered is within
\* the window, and the timer has one FORWARD, in the ring or being served.
RingInv ==
  /\ Unanswered <= HostWindow
  /\ Cardinality(ForwardSlots) <= 1
  /\ g_state_request = "IN_PROGRESS" /\ g_req \in Forwards => ForwardSlots = {}

LEMMA FiniteSlots ==
  /\ IsFiniteSet(Slots) /\ Cardinality(Slots) = REQUEST_QUEUE_DEPTH
  /\ \A S \in SUBSET Slots : IsFiniteSet(S) /\ Cardinality(S) \in Nat
  <1>1. IsFiniteSet(Slots) /\ Cardinality(Slots) = REQUEST_QUEUE_DEPTH
    BY FS_Interval, DepthAssumption DEF Slots
  <1>2. QED
    BY <1>1, FS_Subset, FS_CardinalityType

\* The kinds of request share the ring.
LEMMA OccupiedByKind ==
  /\ HostSlots \subseteq Slots /\ ForwardSlots \subseteq Slots
  /\ Cardinality(OccupiedSlots) <= Cardinality(HostSlots) + Cardinality(ForwardSlots)
  <1>1. HostSlots \subseteq Slots /\ ForwardSlots \subseteq Slots
    BY DEF HostSlots, ForwardSlots
  <1>2. OccupiedSlots = HostSlots \cup ForwardSlots
    BY DEF OccupiedSlots, HostSlots, ForwardSlots
  <1>3. /\ IsFiniteSet(HostSlots) /\ Cardinality(HostSlots) \in Nat
        /\ IsFiniteSet(ForwardSlots) /\ Cardinality(ForwardSlots) \in Nat
        /\ Cardinality(HostSlots \cap ForwardSlots) \in Nat
    BY <1>1, FiniteSlots
  <1>4. Cardinality(HostSlots \cup ForwardSlots) =
          Cardinality(HostSlots) + Cardinality(ForwardSlots)
            - Cardinality(HostSlots \cap ForwardSlots)
    BY <1>3, FS_Union
  <1>5. QED
    BY <1>1, <1>2, <1>3, <1>4

\* A ring whose next write would make it read as empty is full.
LEMMA LastWrite ==
  ASSUME RingTypes, NextSlot(queue_wp) = queue_rp
  PROVE  Cardinality(OccupiedSlots) = REQUEST_QUEUE_DEPTH - 1
  <1>1. \A i \in Slots : Occupied(i) <=> i # queue_wp
    BY DepthAssumption DEF RingTypes, Occupied, NextSlot, Slots
  <1>2. OccupiedSlots = Slots \ {queue_wp} /\ queue_wp \in Slots
    BY <1>1 DEF OccupiedSlots, RingTypes
  <1>3. QED
    BY <1>2, FiniteSlots, FS_RemoveElement

\* A write into a ring with room occupies one more slot.
Room == NextSlot(queue_wp) # queue_rp

LEMMA EnqueueOccupies ==
  ASSUME RingTypes, Room, NEW r, NEW c, Enqueue(r, c)
  PROVE  /\ ~Occupied(queue_wp) /\ queue_wp \in Slots
         /\ \A i \in Slots : Occupied(i)' <=> Occupied(i) \/ i = queue_wp
         /\ queue'[queue_wp] = [req |-> r, content |-> c]
         /\ \A i \in Slots : i # queue_wp => queue'[i] = queue[i]
  <1>1. queue_wp' = NextSlot(queue_wp) /\ queue_rp' = queue_rp
    BY DEF Enqueue
  <1>2. ~Occupied(queue_wp) /\ queue_wp \in Slots
    BY DepthAssumption DEF RingTypes, Occupied, Slots
  <1>3. \A i \in Slots : Occupied(i)' <=> Occupied(i) \/ i = queue_wp
    BY <1>1, DepthAssumption DEF RingTypes, Room, Occupied, NextSlot, Slots
  <1>4. /\ queue'[queue_wp] = [req |-> r, content |-> c]
        /\ \A i \in Slots : i # queue_wp => queue'[i] = queue[i]
    BY DEF Enqueue, RingTypes
  <1>5. QED
    BY <1>2, <1>3, <1>4

\* A read frees the front and no other slot.
LEMMA DequeueFrees ==
  ASSUME RingTypes, ~QueueEmpty, queue_rp' = NextSlot(queue_rp), UNCHANGED queue_wp
  PROVE  /\ Occupied(queue_rp) /\ queue_rp \in Slots
         /\ \A i \in Slots : Occupied(i)' <=> Occupied(i) /\ i # queue_rp
  <1>1. Occupied(queue_rp) /\ queue_rp \in Slots
    BY DEF Occupied, QueueEmpty, RingTypes, Slots
  <1>2. \A i \in Slots : Occupied(i)' <=> Occupied(i) /\ i # queue_rp
    BY DepthAssumption DEF Occupied, QueueEmpty, NextSlot, RingTypes, Slots
  <1>3. QED
    BY <1>1, <1>2

\* Who may write: a host within its window, a timer without a FORWARD.
MayWrite(r) == IF r \in Forwards THEN ~ForwardPending ELSE Unanswered < HostWindow

\* The window, the one FORWARD and the writer's guard leave a slot to write and
\* one to spare.
LEMMA WriterFindsRoom ==
  ASSUME RoomyRing, RingTypes, RingInv, NEW r, MayWrite(r)
  PROVE  Room
  <1>1. Cardinality(HostSlots) \in Nat /\ Cardinality(ForwardSlots) \in Nat
    BY OccupiedByKind, FiniteSlots
  <1>2. Cardinality(HostSlots) <= Unanswered /\ Unanswered \in Nat
    BY <1>1 DEF Unanswered
  <1>3. Cardinality(HostSlots) + Cardinality(ForwardSlots) <= HostWindow
    <2>1. CASE r \in Forwards
      <3>1. Cardinality(ForwardSlots) = 0
        BY <2>1, FS_EmptySet DEF MayWrite, ForwardPending
      <3>2. QED
        BY <1>1, <1>2, <3>1, SwitchAssumption DEF RingInv
    <2>2. CASE r \notin Forwards
      BY <1>1, <1>2, <2>2, SwitchAssumption DEF RingInv, MayWrite
    <2>3. QED
      BY <2>1, <2>2
  <1>4. Cardinality(OccupiedSlots) \in Nat /\ Cardinality(OccupiedSlots) <= HostWindow
    <2>1. OccupiedSlots \subseteq Slots
      BY DEF OccupiedSlots
    <2>2. Cardinality(OccupiedSlots) \in Nat
      BY <2>1, FiniteSlots
    <2>3. QED
      BY <1>1, <1>3, <2>2, OccupiedByKind, SwitchAssumption
  <1>5. QED
    BY <1>4, LastWrite, SwitchAssumption, DepthAssumption DEF Room, RoomyRing

LEMMA InitRingInv == Init => RingInv
  <1> SUFFICES ASSUME Init PROVE RingInv
    OBVIOUS
  <1>1. \A i \in Slots : ~Occupied(i)
    BY DEF Init, Occupied, Slots
  <1>2. HostSlots = {} /\ ForwardSlots = {}
    BY <1>1 DEF HostSlots, ForwardSlots
  <1>3. Cardinality({}) = 0
    BY FS_EmptySet
  <1>4. QED
    BY <1>2, <1>3, SwitchAssumption DEF Init, RingInv, Unanswered

\* A write keeps the invariant: the slot is new, of a kind that has room.
LEMMA EnqueueRingInv ==
  ASSUME RoomyRing, RingTypes, RingInv, NEW r, NEW c, Enqueue(r, c), MayWrite(r),
         UNCHANGED <<g_req, g_state_request>>
  PROVE  RingInv'
  <1>1. /\ ~Occupied(queue_wp) /\ queue_wp \in Slots
        /\ \A i \in Slots : Occupied(i)' <=> Occupied(i) \/ i = queue_wp
        /\ queue'[queue_wp] = [req |-> r, content |-> c]
        /\ \A i \in Slots : i # queue_wp => queue'[i] = queue[i]
    BY WriterFindsRoom, EnqueueOccupies
  <1>2. queue'[queue_wp].req = r
    BY <1>1
  <1>3. /\ IsFiniteSet(HostSlots) /\ Cardinality(HostSlots) \in Nat
        /\ IsFiniteSet(ForwardSlots) /\ Cardinality(ForwardSlots) \in Nat
        /\ queue_wp \notin HostSlots /\ queue_wp \notin ForwardSlots
    BY <1>1, OccupiedByKind, FiniteSlots DEF HostSlots, ForwardSlots
  <1>4. CASE r \in Forwards
    <2>1. HostSlots' = HostSlots /\ ForwardSlots' = ForwardSlots \cup {queue_wp}
      BY <1>1, <1>2, <1>4 DEF HostSlots, ForwardSlots, Slots
    <2>2. ForwardSlots = {} /\ ~(g_state_request = "IN_PROGRESS" /\ g_req \in Forwards)
      BY <1>4 DEF MayWrite, ForwardPending
    <2>3. Cardinality(ForwardSlots') = 1
      BY <2>1, <2>2, FS_Singleton
    <2>4. QED
      BY <2>1, <2>2, <2>3 DEF RingInv, Unanswered
  <1>5. CASE r \notin Forwards
    <2>1. HostSlots' = HostSlots \cup {queue_wp} /\ ForwardSlots' = ForwardSlots
      BY <1>1, <1>2, <1>5 DEF HostSlots, ForwardSlots, Slots
    <2>2. Cardinality(HostSlots') = Cardinality(HostSlots) + 1
      BY <1>3, <2>1, FS_AddElement
    <2>3. Unanswered < HostWindow
      BY <1>5 DEF MayWrite
    <2>4. Unanswered' = Unanswered + 1
      BY <1>3, <2>2 DEF Unanswered
    <2>5. Unanswered \in Nat
      BY <1>3 DEF Unanswered
    <2>6. QED
      BY <2>1, <2>3, <2>4, <2>5, SwitchAssumption DEF RingInv
  <1>6. QED
    BY <1>4, <1>5

\* A pick takes a request from the ring and serves it: what is unanswered stays.
LEMMA PickRequestRingInv == IInv /\ RingInv /\ PickRequest => RingInv'
  <1> SUFFICES ASSUME IInv, RingInv, PickRequest PROVE RingInv'
    OBVIOUS
  <1>1. RingTypes
    BY DEF IInv, TypeOK, RingTypes
  <1>2. /\ ~QueueEmpty /\ queue_rp' = NextSlot(queue_rp) /\ UNCHANGED <<queue, queue_wp>>
        /\ g_req' = queue[queue_rp].req /\ g_state_request = "IDLE"
        /\ g_state_request' = "IN_PROGRESS"
    BY DEF PickRequest, Front
  <1>3. /\ Occupied(queue_rp) /\ queue_rp \in Slots
        /\ \A i \in Slots : Occupied(i)' <=> Occupied(i) /\ i # queue_rp
    BY <1>1, <1>2, DequeueFrees
  <1>4. HostSlots' = HostSlots \ {queue_rp} /\ ForwardSlots' = ForwardSlots \ {queue_rp}
    BY <1>2, <1>3 DEF HostSlots, ForwardSlots, Slots
  <1>5. /\ IsFiniteSet(HostSlots) /\ Cardinality(HostSlots) \in Nat
        /\ IsFiniteSet(ForwardSlots) /\ Cardinality(ForwardSlots) \in Nat
    BY OccupiedByKind, FiniteSlots
  <1>6. CASE g_req' \in Forwards
    <2>1. queue_rp \in ForwardSlots /\ queue_rp \notin HostSlots
      BY <1>2, <1>3, <1>6 DEF HostSlots, ForwardSlots
    <2>2. HostSlots' = HostSlots /\ Cardinality(ForwardSlots') = Cardinality(ForwardSlots) - 1
      <3>1. Cardinality(ForwardSlots \ {queue_rp}) = Cardinality(ForwardSlots) - 1
        BY <1>5, <2>1, FS_RemoveElement
      <3>2. HostSlots \ {queue_rp} = HostSlots
        BY <2>1
      <3>3. QED
        BY <1>4, <3>1, <3>2
    <2>3. Cardinality(ForwardSlots') = 0 /\ IsFiniteSet(ForwardSlots')
      <3>1. IsFiniteSet(ForwardSlots') /\ Cardinality(ForwardSlots') \in Nat
        BY <1>4, <1>5, FS_RemoveElement, FS_CardinalityType
      <3>2. QED
        BY <1>5, <2>2, <3>1 DEF RingInv
    <2>4. ForwardSlots' = {}
      BY <2>3, FS_EmptySet
    <2>5. Unanswered = Cardinality(HostSlots) + 0
      BY <1>2 DEF Unanswered
    <2>6. Unanswered' = Cardinality(HostSlots') + 0
      BY <1>6 DEF Unanswered
    <2>7. QED
      BY <2>2, <2>3, <2>4, <2>5, <2>6 DEF RingInv
  <1>7. CASE g_req' \notin Forwards
    <2>1. queue_rp \in HostSlots /\ queue_rp \notin ForwardSlots
      BY <1>2, <1>3, <1>7 DEF HostSlots, ForwardSlots
    <2>2. ForwardSlots' = ForwardSlots /\ Cardinality(HostSlots') = Cardinality(HostSlots) - 1
      <3>1. Cardinality(HostSlots \ {queue_rp}) = Cardinality(HostSlots) - 1
        BY <1>5, <2>1, FS_RemoveElement
      <3>2. ForwardSlots \ {queue_rp} = ForwardSlots
        BY <2>1
      <3>3. QED
        BY <1>4, <3>1, <3>2
    <2>3. Unanswered = Cardinality(HostSlots) + 0
      BY <1>2 DEF Unanswered
    <2>4. Unanswered' = Cardinality(HostSlots') + 1
      BY <1>2, <1>7 DEF Unanswered
    <2>5. QED
      BY <1>5, <1>7, <2>2, <2>3, <2>4 DEF RingInv
  <1>8. QED
    BY <1>6, <1>7

\* What neither reads nor writes the ring may at most end the request.
LEMMA ServingRingInv ==
  ASSUME RingInv, UNCHANGED <<ring, g_req>>,
         g_state_request' \in {g_state_request, "IDLE"}
  PROVE  RingInv'
  <1>1. HostSlots' = HostSlots /\ ForwardSlots' = ForwardSlots
    BY DEF HostSlots, ForwardSlots, Occupied, Slots, ring
  <1>2. Cardinality(HostSlots) \in Nat
    BY OccupiedByKind, FiniteSlots
  <1>3. Unanswered' <= Unanswered /\ Unanswered \in Nat /\ Unanswered' \in Nat
    BY <1>1, <1>2 DEF Unanswered
  <1>4. QED
    BY <1>1, <1>3, SwitchAssumption DEF RingInv

\* What EMI_Dispatch and the timer write is a request, and one their guards
\* allow.
LEMMA DispatchWrites ==
  ASSUME NEW c \in HostCommands, EmiDispatch(c)
  PROVE  /\ UNCHANGED <<g_req, g_state_request>>
         /\ \/ UNCHANGED ring
            \/ /\ Enqueue(RequestOf(c), c) /\ MayWrite(RequestOf(c))
               /\ RequestOf(c) \in Requests /\ c \in Command
  <1>1. CASE RequestOf(c) = Nothing
    BY <1>1 DEF EmiDispatch
  <1>2. CASE RequestOf(c) # Nothing
    <2>1. RequestOf(c) \in Requests /\ c \in Command
      BY <1>2, RequestOfKnown
    <2>2. RequestOf(c) \notin Forwards
      BY RequestKinds, SwitchAssumption DEF RequestOf, Forwards, CustomForwards, Nothing
    <2>3. QED
      BY <1>2, <2>1, <2>2 DEF EmiDispatch, MayWrite
  <1>3. QED
    BY <1>1, <1>2

LEMMA TimerWrites ==
  ASSUME SlowTimer, IInv, TimerIrq
  PROVE  /\ UNCHANGED <<g_req, g_state_request>>
         /\ Enqueue(emi_sweep_timer_cb, NoCmd) /\ MayWrite(emi_sweep_timer_cb)
         /\ emi_sweep_timer_cb \in Requests /\ NoCmd \in Command
  <1>1. emi_sweep_timer_cb \in Forwards /\ emi_sweep_timer_cb \in Requests /\ NoCmd \in Command
    BY RequestKinds DEF TimerIrq, IInv, TypeOK, NoCmd, Command
  <1>2. QED
    BY <1>1 DEF TimerIrq, MayWrite, request

LEMMA NextRingInv ==
  ASSUME RoomyRing, IInv, RingInv, [Next]_vars
  PROVE  RingInv'
  <1>1. SlowTimer /\ RingTypes
    BY DEF RoomyRing, IInv, TypeOK, RingTypes
  <1>2. CASE PickRequest
    BY <1>2, PickRequestRingInv
  <1>3. CASE ServeStop
    BY <1>3, ServingRingInv DEF ServeStop, ServeFrame, KeepServing
  <1>4. CASE ServeForward
    BY <1>4, ServingRingInv DEF ServeForward, ServeFrame, KeepServing
  <1>5. CASE ServeStart
    BY <1>5, ServingRingInv DEF ServeStart, ServeFrame, KeepServing
  <1>6. CASE HciCommandComplete
    BY <1>6, ServingRingInv DEF HciCommandComplete, request
  <1>7. CASE TimeoutExpires
    BY <1>7, ServingRingInv DEF TimeoutExpires, request
  <1>8. ASSUME NEW c \in HostCommands, EmiDispatch(c)
        PROVE  RingInv'
    BY <1>1, <1>8, DispatchWrites, EnqueueRingInv, ServingRingInv
  <1>9. CASE TimerIrq
    BY <1>1, <1>9, TimerWrites, EnqueueRingInv
  <1>10. CASE EmiEnable
    BY <1>10, ServingRingInv DEF EmiEnable, request
  <1>11. CASE UNCHANGED vars
    BY <1>11, ServingRingInv DEF vars, request
  <1>12. QED
    BY <1>2, <1>3, <1>4, <1>5, <1>6, <1>7, <1>8, <1>9, <1>10, <1>11 DEF Next, EmiLoop

(***************************************************************************)
(* The ring as a queue.                                                    *)
(***************************************************************************)
QueuedEntries == [req : Requests, content : Command]

LEMMA PendingIsASequence ==
  ASSUME RingTypes
  PROVE  /\ Count \in Nat /\ Pending \in Seq(Entry) /\ Len(Pending) = Count
         /\ \A k \in 1 .. Count : Pending[k] = queue[SlotAt(k - 1)]
  <1>1. Count \in Nat
    BY DepthAssumption DEF Count, RingTypes, Slots
  <1>2. \A k \in 1 .. Count : SlotAt(k - 1) \in Slots
    BY DepthAssumption DEF Count, SlotAt, RingTypes, Slots
  <1>3. \A k \in 1 .. Count : queue[SlotAt(k - 1)] \in Entry
    BY <1>2 DEF RingTypes
  <1>4. Pending \in Seq(Entry)
    BY <1>1, <1>3, IsASeq DEF Pending
  <1>5. QED
    BY <1>1, <1>4 DEF Pending

\* The same of the ring after a step.
LEMMA PendingNext ==
  RingTypes' =>
    /\ Count' \in Nat /\ Pending' \in Seq(Entry) /\ Len(Pending') = Count'
    /\ \A k \in 1 .. Count' : Pending'[k] = queue'[SlotAt(k - 1)']
  <1>1. RingTypes => /\ Count \in Nat /\ Pending \in Seq(Entry) /\ Len(Pending) = Count
                     /\ \A k \in 1 .. Count : Pending[k] = queue[SlotAt(k - 1)]
    BY PendingIsASequence
  <1>2. (RingTypes => /\ Count \in Nat /\ Pending \in Seq(Entry) /\ Len(Pending) = Count
                      /\ \A k \in 1 .. Count : Pending[k] = queue[SlotAt(k - 1)])'
    BY <1>1, PTL
  <1>3. QED
    BY <1>2 DEF Entry

LEMMA EnqueueIsPut ==
  ASSUME RingTypes, Room, NEW r \in Requests, NEW c \in Command, Enqueue(r, c)
  PROVE  Fifo!Put
  <1> DEFINE e == [req |-> r, content |-> c]
  <1>1. /\ queue_wp' = NextSlot(queue_wp) /\ queue_rp' = queue_rp
        /\ queue'[queue_wp] = e /\ \A i \in Slots : i # queue_wp => queue'[i] = queue[i]
    BY DEF Enqueue, RingTypes
  <1>2. RingTypes' /\ e \in QueuedEntries /\ e \in Entry
    <2>1. e \in Entry /\ e \in QueuedEntries
      BY DEF Entry, QueuedEntries
    <2>2. QED
      BY <2>1, NextSlotInRange DEF RingTypes, Enqueue
  <1> HIDE DEF e
  <1>3. Count \in Nat /\ Count' = Count + 1 /\ SlotAt(Count) = queue_wp
    BY <1>1, DepthAssumption DEF Count, SlotAt, Room, NextSlot, RingTypes, Slots
  <1>4. \A k \in 1 .. Count : SlotAt(k - 1) \in Slots /\ SlotAt(k - 1) # queue_wp
    BY DepthAssumption DEF Count, SlotAt, RingTypes, Slots
  <1>5. \A k \in 1 .. Count + 1 : SlotAt(k - 1)' = SlotAt(k - 1)
    BY <1>1 DEF SlotAt
  <1>6. /\ Pending \in Seq(Entry) /\ Len(Pending) = Count
        /\ Pending' \in Seq(Entry) /\ Len(Pending') = Count + 1
    BY <1>2, <1>3, PendingIsASequence, PendingNext
  <1>7. \A k \in 1 .. Count : Pending'[k] = Pending[k]
    BY <1>1, <1>2, <1>3, <1>4, <1>5, PendingIsASequence, PendingNext
  <1>8. Pending'[Count + 1] = e
    BY <1>1, <1>2, <1>3, <1>5, PendingNext
  <1>9. Pending' = Append(Pending, e)
    <2>1. /\ Append(Pending, e) \in Seq(Entry) /\ Len(Append(Pending, e)) = Count + 1
          /\ \A k \in 1 .. Count : Append(Pending, e)[k] = Pending[k]
          /\ Append(Pending, e)[Count + 1] = e
      BY <1>2, <1>6, AppendProperties
    <2>2. \A k \in 1 .. Count + 1 : Pending'[k] = Append(Pending, e)[k]
      BY <1>3, <1>7, <1>8, <2>1
    <2>3. QED
      BY <1>6, <2>1, <2>2, SeqEqual
  <1>10. Pending' # << >>
    BY <1>3, <1>6
  <1>11. Pending'[Len(Pending')] = e
    BY <1>6, <1>8
  <1>12. QED
    BY <1>2, <1>9, <1>10, <1>11 DEF Fifo!Put, QueuedEntries

LEMMA PickIsTake ==
  ASSUME RingTypes, ~QueueEmpty, queue_rp' = NextSlot(queue_rp), UNCHANGED <<queue, queue_wp>>
  PROVE  Fifo!Take
  <1>1. RingTypes'
    BY NextSlotInRange DEF RingTypes
  <1>2. Count \in Nat \ {0} /\ Count' = Count - 1
    BY DepthAssumption DEF Count, QueueEmpty, NextSlot, RingTypes, Slots
  <1>3. \A k \in 1 .. Count - 1 : SlotAt(k - 1)' = SlotAt(k)
    BY DepthAssumption DEF Count, SlotAt, QueueEmpty, NextSlot, RingTypes, Slots
  <1>4. /\ Pending \in Seq(Entry) /\ Len(Pending) = Count
        /\ Pending' \in Seq(Entry) /\ Len(Pending') = Count - 1
    BY <1>1, <1>2, PendingIsASequence, PendingNext
  <1>5. Pending # << >>
    BY <1>2, <1>4
  <1>6. \A k \in 1 .. Count - 1 : Pending'[k] = Pending[k + 1]
    <2>1. TAKE k \in 1 .. Count - 1
    <2>2. k \in 1 .. Count' /\ k + 1 \in 1 .. Count /\ (k + 1) - 1 = k
      BY <1>2
    <2>3. Pending'[k] = queue[SlotAt(k)]
      BY <1>1, <1>3, <2>2, PendingNext
    <2>4. Pending[k + 1] = queue[SlotAt((k + 1) - 1)]
      BY <2>2, PendingIsASequence
    <2>5. QED
      BY <2>2, <2>3, <2>4
  <1>7. Pending' = Tail(Pending)
    <2>1. /\ Tail(Pending) \in Seq(Entry) /\ Len(Tail(Pending)) = Count - 1
          /\ \A k \in 1 .. Len(Tail(Pending)) : Tail(Pending)[k] = Pending[k + 1]
      BY <1>4, <1>5, HeadTailProperties
    <2>2. \A k \in 1 .. Count - 1 : Pending'[k] = Tail(Pending)[k]
      BY <1>6, <2>1
    <2>3. QED
      BY <1>4, <2>1, <2>2, SeqEqual
  <1>8. QED
    BY <1>5, <1>7 DEF Fifo!Take

LEMMA RingStays ==
  ASSUME UNCHANGED ring
  PROVE  UNCHANGED Pending
  BY DEF Pending, Count, SlotAt, ring

LEMMA NextFifo ==
  ASSUME RoomyRing, IInv, RingInv, [Next]_vars
  PROVE  [Fifo!Next]_Pending
  <1>1. SlowTimer /\ RingTypes
    BY DEF RoomyRing, IInv, TypeOK, RingTypes
  <1>2. CASE PickRequest
    BY <1>1, <1>2, PickIsTake DEF PickRequest, Fifo!Next
  <1>3. CASE ServeStop \/ ServeForward \/ ServeStart
    BY <1>3, RingStays DEF ServeStop, ServeForward, ServeStart, ServeFrame
  <1>4. CASE HciCommandComplete \/ TimeoutExpires \/ EmiEnable \/ UNCHANGED vars
    BY <1>4, RingStays DEF HciCommandComplete, TimeoutExpires, EmiEnable, vars
  <1>5. ASSUME NEW c \in HostCommands, EmiDispatch(c)
        PROVE  [Fifo!Next]_Pending
    <2>1. CASE UNCHANGED ring
      BY <2>1, RingStays
    <2>2. CASE /\ Enqueue(RequestOf(c), c) /\ MayWrite(RequestOf(c))
               /\ RequestOf(c) \in Requests /\ c \in Command
      <3>1. Fifo!Put
        BY <1>1, <2>2, WriterFindsRoom, EnqueueIsPut
      <3>2. QED
        BY <3>1 DEF Fifo!Next
    <2>3. QED
      BY <1>5, <2>1, <2>2, DispatchWrites
  <1>6. CASE TimerIrq
    <2>1. Fifo!Put
      BY <1>1, <1>6, TimerWrites, WriterFindsRoom, EnqueueIsPut
    <2>2. QED
      BY <2>1 DEF Fifo!Next
  <1>7. QED
    BY <1>2, <1>3, <1>4, <1>5, <1>6 DEF Next, EmiLoop

LEMMA InitFifo == Init => Fifo!Init
  <1> SUFFICES ASSUME Init PROVE Fifo!Init
    OBVIOUS
  <1>1. RingTypes
    BY InitIInv DEF IInv, TypeOK, RingTypes
  <1>2. Count = 0
    BY DEF Init, Count
  <1>3. Pending = << >>
    BY <1>1, <1>2, PendingIsASequence
  <1>4. QED
    BY <1>3 DEF Fifo!Init

\* The ring is the FIFO queue its comment promises, for a host with any number
\* of commands unanswered, if the ring has two slots more than that: up to the
\* last slot a write may take, no request is overwritten, lost or served out of
\* turn, and none is served twice, although no write tests for a full ring.
THEOREM RingKeepsItsOrder ==
  ASSUME RoomyRing
  PROVE  Spec => RingIsFifo
  <1>1. Init => IInv /\ RingInv
    BY InitIInv, InitRingInv
  <1>2. (IInv /\ RingInv) /\ [Next]_vars => (IInv /\ RingInv)'
    BY NextIInv, NextRingInv
  <1>3. IInv /\ RingInv /\ [Next]_vars => [Fifo!Next]_Pending
    BY NextFifo
  <1>4. QED
    BY <1>1, <1>2, <1>3, InitFifo, PTL DEF Spec, RingIsFifo, Fifo!Spec

-----------------------------------------------------------------------------
(***************************************************************************)
(* A host whose tests are all started and stopped by one HCI command each, *)
(* and a controller that answers before the 200 ms are over: any ring, any *)
(* order and number of commands, and a HCI queue that may be full.         *)
(***************************************************************************)
HciRequests == {"START_RX", "START_TX_SWEEP_PAYLOAD", "START_TX_SWEEP_PAYLOAD_V2", "STOP_TEST"}
HciForwards == {"SWEEP_TX_V4_FORWARD", "CUS_SWEEP_BLE_TX_V4_FORWARD"}
HciTasks == {"NONE", "RX_V2", "SWEEP_TX_V4", "CUS_SWEEP_TX_V4"}
HciOnly ==
  /\ PromptController
  /\ \A c \in HostCommands : RequestOf(c) \in HciRequests \cup {Nothing}

\* Only such tests are queued, served, driven by the timer and running.
TestsOK ==
  /\ \A i \in Slots : queue[i].req \in HciRequests \cup HciForwards \cup {Nothing}
  /\ g_req \in HciRequests \cup HciForwards \cup {Nothing}
  /\ emi_sweep_timer_cb \in HciForwards \cup {Nothing}
  /\ running_task \in HciTasks

\* What the radio does in each state of the test: one command is under way
\* until its own completion has been seen, and none when nobody waits.
AirOK ==
  \/ g_state = "IDLE" /\ hci = << >> /\ air = {}
  \/ g_state = "IN_PROGRESS" /\ hci = << >> /\ air = {"TEST"}
  \/ /\ g_state = "STARTUP" /\ hci \in {<<"TX_TEST">>, <<"RX_TEST">>} /\ air = {}
     /\ command_completed = FALSE /\ expired = FALSE
  \/ g_state = "STARTUP" /\ hci = << >> /\ air = {"TEST"} /\ command_completed = TRUE
  \/ /\ g_state = "SHUTDOWN" /\ hci = <<"TEST_END">> /\ air = {"TEST"}
     /\ command_completed = FALSE /\ expired = FALSE
  \/ g_state = "SHUTDOWN" /\ hci = << >> /\ air = {} /\ command_completed = TRUE

SilentInv == TestsOK /\ AirOK

LEMMA OneCommand ==
  ASSUME NEW x
  PROVE  /\ << >> \o <<x>> = <<x>> /\ Head(<<x>>) = x /\ Tail(<<x>>) = << >>
         /\ <<x>> # << >>
  <1>1. << >> \o <<x>> = <<x>>
    <2>1. <<x>> \in Seq({x})
      OBVIOUS
    <2>2. QED
      BY <2>1, ConcatEmptySeq, Zenon
  <1>2. QED
    BY <1>1

\* These tests are of one kind for the code that stops them.
LEMMA HciTables ==
  /\ HciTasks \cap (LleTasks \cup CwTasks) = {} /\ HciTasks \subseteq Tasks
  /\ \A r \in HciRequests : TaskOf(r) \in HciTasks
  /\ \A r \in HciRequests \cap SweepStarts : ForwardOf(r) \in HciForwards
  /\ HciForwards \subseteq Forwards /\ HciRequests \cap Forwards = {}
  /\ Nothing \notin HciRequests \cup HciForwards
  <1>1. HciTasks \cap (LleTasks \cup CwTasks) = {} /\ HciTasks \subseteq Tasks
    BY DEF HciTasks, LleTasks, CwTasks, Tasks
  <1>2. \A r \in HciRequests : TaskOf(r) \in HciTasks
    BY DEF HciRequests, TaskOf, HciTasks
  <1>3. \A r \in HciRequests \cap SweepStarts : ForwardOf(r) \in HciForwards
    BY DEF HciRequests, SweepStarts, ForwardOf, HciForwards
  <1>4. /\ HciForwards \subseteq Forwards /\ HciRequests \cap Forwards = {}
        /\ Nothing \notin HciRequests \cup HciForwards
    BY DEF HciRequests, HciForwards, Forwards, CustomForwards, Nothing
  <1>5. QED
    BY <1>1, <1>2, <1>3, <1>4

\* Ending a wait: the completion that came in is the one that is awaited.
LEMMA AwaitAir ==
  ASSUME AirOK, running_task \in HciTasks, g_state \in {"STARTUP", "SHUTDOWN"},
         NEW done \in BOOLEAN, NEW other,
         AwaitCompletion(done, IF g_state = "STARTUP" THEN "IN_PROGRESS" ELSE "IDLE", other)
  PROVE  AirOK'
  <1>1. running_task \notin LleTasks
    BY HciTables
  <1>2. /\ hci' = hci /\ air' = air /\ expired' = expired
        /\ command_completed' = (command_completed \/ running_task \in LleTasks)
    BY DEF AwaitCompletion, radio
  <1>3. command_completed \in BOOLEAN /\ expired \in BOOLEAN => command_completed' = command_completed
    BY <1>1, <1>2
  <1>4. CASE command_completed = TRUE /\ hci = << >>
    <2>1. command_completed' = TRUE
      BY <1>2, <1>4, Zenon
    <2>2. g_state' = IF g_state = "STARTUP" THEN "IN_PROGRESS" ELSE "IDLE"
      BY <2>1 DEF AwaitCompletion
    <2>3. air = IF g_state = "STARTUP" THEN {"TEST"} ELSE {}
      BY <1>4, OneCommand DEF AirOK
    <2>4. QED
      BY <1>2, <1>4, <2>2, <2>3 DEF AirOK
  <1>5. CASE command_completed = FALSE /\ expired = FALSE
    <2>1. command_completed' = FALSE
      BY <1>1, <1>2, <1>5, Zenon
    <2>2. g_state' = g_state
      BY <1>5, <2>1 DEF AwaitCompletion
    <2>3. QED
      BY <1>2, <1>5, <2>1, <2>2 DEF AirOK
  <1>6. QED
    BY <1>4, <1>5 DEF AirOK

LEMMA StopATestAir ==
  ASSUME AirOK, running_task \in HciTasks, g_state # "STARTUP",
         NEW done \in BOOLEAN, StopATest(done)
  PROVE  AirOK'
  <1>1. CASE g_state = "IDLE"
    BY <1>1 DEF StopATest, test, radio, AirOK
  <1>2. CASE g_state = "IN_PROGRESS"
    <2>1. hci = << >> /\ air = {"TEST"}
      BY <1>2 DEF AirOK
    <2>2. running_task \notin LleTasks \cup CwTasks
      BY HciTables
    <2>3. CASE StopHciTest(TRUE) /\ BeginWait("SHUTDOWN")
      <3>1. GapSend(<<"TEST_END">>)
        BY <2>2, <2>3 DEF StopHciTest
      <3>2. hci' = <<"TEST_END">> /\ air' = {"TEST"}
        BY <2>1, <3>1, OneCommand DEF GapSend
      <3>3. QED
        BY <2>3, <3>2 DEF BeginWait, AirOK
    <2>4. CASE StopHciTest(FALSE) /\ UNCHANGED test
      <3>1. UNCHANGED radio
        BY <2>2, <2>4 DEF StopHciTest
      <3>2. QED
        BY <1>2, <2>1, <2>4, <3>1 DEF AirOK, radio, test
    <2>5. QED
      BY <1>2, <2>3, <2>4 DEF StopATest
  <1>3. CASE g_state = "SHUTDOWN"
    <2>1. AwaitCompletion(done, "IDLE", "IN_PROGRESS")
      BY <1>3 DEF StopATest
    <2>2. QED
      BY <1>3, <2>1, AwaitAir
  <1>4. QED
    BY <1>1, <1>2, <1>3 DEF AirOK

LEMMA StartATestAir ==
  ASSUME AirOK, TestsOK, g_state \in {"IDLE", "STARTUP"}, g_req \notin SweepStarts,
         NEW done \in BOOLEAN, StartATest(done)
  PROVE  AirOK'
  <1>1. CASE g_state = "IDLE"
    <2>1. hci = << >> /\ air = {}
      BY <1>1 DEF AirOK
    <2>2. g_req \in HciRequests \cup HciForwards \cup {Nothing}
      BY DEF TestsOK
    <2>3. CASE StartTestDifCase(TRUE) /\ BeginWait("STARTUP")
      <3>1. GapSend(<<"TX_TEST">>) \/ GapSend(<<"RX_TEST">>)
        BY <2>2, <2>3 DEF StartTestDifCase, HciRequests, HciForwards, Nothing
      <3>2. hci' \in {<<"TX_TEST">>, <<"RX_TEST">>} /\ air' = {}
        BY <2>1, <3>1, OneCommand DEF GapSend
      <3>3. QED
        BY <2>3, <3>2 DEF BeginWait, AirOK
    <2>4. CASE StartTestDifCase(FALSE) /\ UNCHANGED test
      <3>1. UNCHANGED radio
        BY <2>4 DEF StartTestDifCase
      <3>2. QED
        BY <1>1, <2>1, <2>4, <3>1 DEF AirOK, radio, test
    <2>5. QED
      BY <1>1, <2>3, <2>4 DEF StartATest
  <1>2. CASE g_state = "STARTUP"
    <2>1. AwaitCompletion(done, "IN_PROGRESS", "IDLE")
      BY <1>2 DEF StartATest
    <2>2. QED
      BY <1>2, <2>1, AwaitAir DEF TestsOK
  <1>3. QED
    BY <1>1, <1>2

\* A step that leaves test and radio alone leaves what is said of them true.
LEMMA AirStays ==
  ASSUME AirOK, UNCHANGED <<g_state, command_completed, expired, hci, air>>
  PROVE  AirOK'
  BY DEF AirOK

LEMMA StopProcessAir ==
  ASSUME AirOK, running_task \in HciTasks, StopPhaseOK, NEW done \in BOOLEAN, StopProcess(done)
  PROVE  AirOK'
  <1>1. g_state # "STARTUP"
    BY DEF StopPhaseOK
  <1>2. CASE StopATest(done)
    BY <1>1, <1>2, StopATestAir
  <1>3. CASE UNCHANGED <<test, radio>>
    BY <1>3, AirStays DEF test, radio
  <1>4. QED
    BY <1>2, <1>3 DEF StopProcess

\* Which callback a process installs, if any: one of these sweeps.
CallbackOK == emi_sweep_timer_cb \in HciForwards \cup {Nothing}

LEMMA StartATestCallback ==
  ASSUME CallbackOK, g_req \notin SweepStarts, g_state \in {"IDLE", "STARTUP"},
         NEW done \in BOOLEAN, StartATest(done)
  PROVE  CallbackOK'
  BY DEF CallbackOK, StartATest, StartTestDifCase, timer

LEMMA StartProcessAir ==
  ASSUME AirOK, TestsOK, g_req \in Starts, StartPhaseOK, NEW done \in BOOLEAN, StartProcess(done)
  PROVE  AirOK' /\ CallbackOK'
  <1>1. CallbackOK /\ running_task \in HciTasks
    BY DEF TestsOK, CallbackOK
  <1>2. CASE g_start_process_state = "BEGIN"
    BY <1>1, <1>2, AirStays DEF StartProcess, test, radio, timer, CallbackOK
  <1>3. CASE g_start_process_state = "STOPING"
    <2>1. StopPhaseOK
      BY <1>3 DEF StartPhaseOK
    <2>2. PICK stopped \in BOOLEAN : StopProcess(stopped)
      BY <1>3 DEF StartProcess
    <2>3. AirOK'
      BY <1>1, <2>1, <2>2, StopProcessAir
    <2>4. QED
      BY <1>1, <1>3, <2>3 DEF StartProcess, timer, CallbackOK
  <1>4. CASE g_start_process_state = "STARTING"
    <2>1. g_req \notin SweepStarts /\ g_state \in {"IDLE", "STARTUP"} /\ StartATest(done)
      BY <1>4 DEF StartPhaseOK, StartProcess
    <2>2. QED
      BY <1>1, <2>1, StartATestAir, StartATestCallback
  <1>5. CASE g_start_process_state = "START_SWEEP_TIMER"
    <2>1. g_req \in SweepStarts /\ g_req \in HciRequests
      BY <1>5, HciTables, RequestKinds DEF StartPhaseOK, TestsOK
    <2>2. StartTestDifCase(TRUE) /\ UNCHANGED test
      BY <1>5, <2>1 DEF StartProcess, StartTestDifCase
    <2>3. UNCHANGED radio /\ emi_sweep_timer_cb' = ForwardOf(g_req)
      BY <2>1, <2>2 DEF StartTestDifCase, SweepStarts
    <2>4. QED
      BY <2>1, <2>2, <2>3, HciTables, AirStays DEF test, radio, CallbackOK
  <1>6. QED
    BY <1>2, <1>3, <1>4, <1>5 DEF StartPhaseOK

LEMMA ForwardProcessAir ==
  ASSUME AirOK, TestsOK, g_req \in Forwards, ForwardPhaseOK,
         NEW done \in BOOLEAN, ForwardProcess(done)
  PROVE  AirOK' /\ CallbackOK'
  <1>1. CallbackOK /\ running_task \in HciTasks
    BY DEF TestsOK, CallbackOK
  <1>2. CASE g_forward_process_state \in {"FORWARD_BEGIN", "FORWARD_ITERATION"}
    <2>1. UNCHANGED <<test, radio, timer>>
      BY <1>2 DEF ForwardProcess
    <2>2. QED
      BY <1>1, <2>1, AirStays DEF test, radio, timer, CallbackOK
  <1>3. CASE g_forward_process_state = "FORWARD_STOPING"
    <2>1. g_state # "STARTUP"
      BY <1>3 DEF ForwardPhaseOK
    <2>2. PICK stopped \in BOOLEAN : StopATest(stopped)
      BY <1>3 DEF ForwardProcess
    <2>3. AirOK'
      BY <1>1, <2>1, <2>2, StopATestAir
    <2>4. QED
      BY <1>1, <1>3, <2>3 DEF ForwardProcess, timer, CallbackOK
  <1>4. CASE g_forward_process_state = "FORWARD_STARTING"
    <2>1. g_req \notin SweepStarts /\ g_state \in {"IDLE", "STARTUP"}
      BY <1>4, RequestKinds DEF ForwardPhaseOK
    <2>2. PICK started \in BOOLEAN : StartATest(started)
      BY <1>4 DEF ForwardProcess
    <2>3. QED
      BY <1>1, <2>1, <2>2, StartATestAir, StartATestCallback
  <1>5. QED
    BY <1>2, <1>3, <1>4 DEF ForwardPhaseOK

-----------------------------------------------------------------------------
(***************************************************************************)
(* The steps.                                                              *)
(***************************************************************************)
LEMMA InitSilent == Init => SilentInv
  BY DEF Init, SilentInv, TestsOK, AirOK, HciTasks

\* Serving a request leaves the ring and the request as they are.
LEMMA ServedTests ==
  ASSUME TestsOK, ServeFrame, CallbackOK', running_task' \in HciTasks
  PROVE  TestsOK'
  BY DEF TestsOK, CallbackOK, ServeFrame, ring

LEMMA PickSilent ==
  ASSUME IInv, SilentInv, PickRequest
  PROVE  SilentInv'
  <1>1. /\ queue_rp \in Slots /\ g_req' = queue[queue_rp].req /\ UNCHANGED <<queue, timer>>
        /\ UNCHANGED <<test, radio>>
    BY DEF IInv, TypeOK, PickRequest, Front
  <1>2. g_req' \in HciRequests \cup HciForwards \cup {Nothing}
    BY <1>1 DEF SilentInv, TestsOK
  <1>3. g_req' \in Requests
    BY PickRequestIInv, RequestKinds DEF IInv, ServingOK, PickRequest
  <1>4. running_task' \in HciTasks
    <2>1. CASE UNCHANGED running_task
      BY <2>1 DEF SilentInv, TestsOK
    <2>2. CASE g_req' \notin Forwards \cup {"STOP_TEST"} /\ UpdateRunningTaskFlag(g_req')
      <3>1. g_req' \in HciRequests
        BY <1>2, <1>3, <2>2, HciTables, RequestKinds
      <3>2. TaskOf(g_req') \in HciTasks
        BY <3>1, HciTables
      <3>3. QED
        BY <3>2, <2>1, <2>2 DEF UpdateRunningTaskFlag
    <2>3. QED
      BY <2>1, <2>2 DEF PickRequest
  <1>5. TestsOK'
    BY <1>1, <1>2, <1>4 DEF SilentInv, TestsOK, timer
  <1>6. AirOK'
    BY <1>1, AirStays DEF SilentInv, test, radio
  <1>7. QED
    BY <1>5, <1>6 DEF SilentInv

LEMMA ServeStopSilent ==
  ASSUME IInv, SilentInv, ServeStop
  PROVE  SilentInv'
  <1>1. /\ AirOK /\ TestsOK /\ running_task \in HciTasks /\ StopPhaseOK
        /\ ServeFrame /\ emi_sweep_timer_cb' = emi_sweep_timer_cb
        /\ g_req \in HciRequests
    BY RequestKinds DEF SilentInv, TestsOK, IInv, ServingOK, ServeStop, HciRequests
  <1>2. PICK done \in BOOLEAN : StopProcess(done)
    BY DEF ServeStop
  <1>3. AirOK'
    BY <1>1, <1>2, StopProcessAir
  <1>4. running_task' \in HciTasks
    BY <1>1, HciTables DEF ServeStop, KeepServing
  <1>5. CallbackOK'
    BY <1>1 DEF TestsOK, CallbackOK
  <1>6. QED
    BY <1>1, <1>3, <1>4, <1>5, ServedTests DEF SilentInv

LEMMA ServeForwardSilent ==
  ASSUME IInv, SilentInv, ServeForward
  PROVE  SilentInv'
  <1>1. /\ AirOK /\ TestsOK /\ running_task \in HciTasks /\ ForwardPhaseOK
        /\ ServeFrame /\ g_req \in Forwards
    BY RequestKinds DEF SilentInv, TestsOK, IInv, ServingOK, ServeForward
  <1>2. PICK done \in BOOLEAN : ForwardProcess(done)
    BY DEF ServeForward
  <1>3. AirOK' /\ CallbackOK'
    BY <1>1, <1>2, ForwardProcessAir
  <1>4. running_task' \in HciTasks
    BY <1>1 DEF ServeForward, KeepServing
  <1>5. QED
    BY <1>1, <1>3, <1>4, ServedTests DEF SilentInv

LEMMA ServeStartSilent ==
  ASSUME IInv, SilentInv, ServeStart
  PROVE  SilentInv'
  <1>1. /\ AirOK /\ TestsOK /\ running_task \in HciTasks /\ StartPhaseOK
        /\ ServeFrame /\ g_req \in Starts
    BY RequestKinds DEF SilentInv, TestsOK, IInv, ServingOK, ServeStart
  <1>2. PICK done \in BOOLEAN : StartProcess(done)
    BY DEF ServeStart
  <1>3. AirOK' /\ CallbackOK'
    BY <1>1, <1>2, StartProcessAir
  <1>4. TaskOf(g_req) \in HciTasks
    BY <1>1, HciTables, RequestKinds DEF TestsOK
  <1>5. running_task' \in HciTasks
    BY <1>1, <1>4 DEF ServeStart, KeepServing
  <1>6. QED
    BY <1>1, <1>3, <1>5, ServedTests DEF SilentInv

\* The one command under way is executed, and its completion comes in.
LEMMA CompletionSilent ==
  ASSUME IInv, SilentInv, HciCommandComplete
  PROVE  SilentInv'
  <1>1. /\ hci # << >> /\ air' = Emitted(air, Head(hci)) /\ hci' = Tail(hci)
        /\ command_completed' = TRUE /\ g_state' = g_state
    BY DEF HciCommandComplete
  <1>2. CASE g_state = "STARTUP" /\ hci \in {<<"TX_TEST">>, <<"RX_TEST">>} /\ air = {}
    <2>1. air' = {"TEST"} /\ hci' = << >>
      BY <1>1, <1>2, OneCommand DEF Emitted
    <2>2. QED
      BY <1>1, <1>2, <2>1 DEF SilentInv, TestsOK, AirOK, HciCommandComplete, ring, timer, request
  <1>3. CASE g_state = "SHUTDOWN" /\ hci = <<"TEST_END">> /\ air = {"TEST"}
    <2>1. air' = {} /\ hci' = << >>
      BY <1>1, <1>3, OneCommand DEF Emitted
    <2>2. QED
      BY <1>1, <1>3, <2>1 DEF SilentInv, TestsOK, AirOK, HciCommandComplete, ring, timer, request
  <1>4. QED
    BY <1>1, <1>2, <1>3 DEF SilentInv, AirOK

\* A controller that is prompt leaves the timeout nothing to cut short.
LEMMA TimeoutSilent ==
  ASSUME HciOnly, SilentInv, TimeoutExpires
  PROVE  SilentInv'
  <1>1. /\ hci = << >> /\ UNCHANGED <<hci, air, g_state, command_completed>>
    BY DEF TimeoutExpires, HciOnly, radio
  <1>2. AirOK'
    BY <1>1, OneCommand DEF SilentInv, AirOK
  <1>3. TestsOK'
    BY DEF SilentInv, TestsOK, TimeoutExpires, ring, timer, request
  <1>4. QED
    BY <1>2, <1>3 DEF SilentInv

\* The interrupts queue requests of these tests and touch no radio.
LEMMA InterruptSilent ==
  ASSUME IInv, SilentInv, NEW r \in HciRequests \cup HciForwards, NEW c, Enqueue(r, c),
         UNCHANGED <<g_req, running_task, timer, test, radio>>
  PROVE  SilentInv'
  <1>1. queue' = [queue EXCEPT ![queue_wp] = [req |-> r, content |-> c]]
    BY DEF Enqueue
  <1>2. queue \in [Slots -> Entry]
    BY DEF IInv, TypeOK
  <1>3. \A i \in Slots : queue'[i].req \in HciRequests \cup HciForwards \cup {Nothing}
    BY <1>1, <1>2 DEF SilentInv, TestsOK
  <1>4. TestsOK'
    BY <1>3 DEF SilentInv, TestsOK, timer
  <1>5. QED
    BY <1>4, AirStays DEF SilentInv, test, radio

LEMMA NothingQueuedSilent ==
  ASSUME SilentInv, UNCHANGED <<queue, g_req, running_task, timer, test, radio>>
  PROVE  SilentInv'
  BY DEF SilentInv, TestsOK, AirOK, timer, test, radio

LEMMA NextSilent ==
  ASSUME HciOnly, IInv, SilentInv, [Next]_vars
  PROVE  SilentInv'
  <1>1. CASE PickRequest
    BY <1>1, PickSilent
  <1>2. CASE ServeStop \/ ServeForward \/ ServeStart
    BY <1>2, ServeStopSilent, ServeForwardSilent, ServeStartSilent
  <1>3. CASE HciCommandComplete \/ TimeoutExpires
    BY <1>3, CompletionSilent, TimeoutSilent
  <1>4. ASSUME NEW c \in HostCommands, EmiDispatch(c)
        PROVE  SilentInv'
    <2>1. /\ UNCHANGED <<g_req, running_task, timer, test, radio>>
          /\ RequestOf(c) \in HciRequests \cup {Nothing}
      BY <1>4 DEF EmiDispatch, HciOnly
    <2>2. CASE RequestOf(c) = Nothing
      BY <1>4, <2>1, <2>2, NothingQueuedSilent DEF EmiDispatch, ring
    <2>3. CASE RequestOf(c) # Nothing
      BY <1>4, <2>1, <2>3, InterruptSilent DEF EmiDispatch
    <2>4. QED
      BY <2>2, <2>3
  <1>5. CASE TimerIrq
    <2>1. emi_sweep_timer_cb \in HciForwards /\ Enqueue(emi_sweep_timer_cb, NoCmd)
          /\ UNCHANGED <<g_req, running_task, timer, test, radio>>
      BY <1>5 DEF TimerIrq, SilentInv, TestsOK, request
    <2>2. QED
      BY <2>1, InterruptSilent
  <1>6. CASE EmiEnable \/ UNCHANGED vars
    BY <1>6, NothingQueuedSilent DEF EmiEnable, vars, ring, request
  <1>7. QED
    BY <1>1, <1>2, <1>3, <1>4, <1>5, <1>6 DEF Next, EmiLoop

\* For tests that one HCI command starts and another stops, and a controller
\* that answers in time: when the firmware believes that no test runs, none
\* does, and none will, whatever order commands, sweep ticks, completions and
\* refused calls come in, and although the ring may overflow.
THEOREM IdleIsSilent ==
  ASSUME HciOnly
  PROVE  Spec => []IdleMeansSilent
  <1>1. Init => IInv /\ SilentInv
    BY InitIInv, InitSilent
  <1>2. (IInv /\ SilentInv) /\ [Next]_vars => (IInv /\ SilentInv)'
    BY NextIInv, NextSilent
  <1>3. SilentInv => IdleMeansSilent
    <2> SUFFICES ASSUME SilentInv, g_state = "IDLE" PROVE ~WillEmit
      BY DEF IdleMeansSilent
    <2>1. hci = << >> /\ air = {}
      BY DEF SilentInv, AirOK
    <2>2. Len(hci) = 0 /\ 1 .. Len(hci) = {}
      BY <2>1
    <2>3. ASSUME NEW signal, NEW on, NEW off
          PROVE  ~OnAfter(signal, on, off)
      <3>1. {i \in 1 .. Len(hci) : hci[i] \in on \cup off} = {}
        BY <2>2
      <3>2. QED
        BY <2>1, <3>1 DEF OnAfter
    <2>4. QED
      BY <2>1, <2>3 DEF WillEmit
  <1>4. QED
    BY <1>1, <1>2, <1>3, PTL DEF Spec
=============================================================================
