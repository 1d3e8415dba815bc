------------------------------ MODULE EmiSweep ------------------------------
(***************************************************************************)
(* The sweeps of Ctrl/ctrl_emi.c: which channels a sweep visits.           *)
(*                                                                         *)
(* A START sets up the context of its sweep and the timer; every tick of   *)
(* the timer queues a FORWARD, which tests the current channel and goes on *)
(* to the next.  The three custom sweeps share custom_sweep_task_ctx.  That*)
(* requests are served one after the other, in the order of the ring, is   *)
(* what EmiControl shows; here serving one is a step, and when it was      *)
(* picked another, since the timer of the last sweep ticks until the new   *)
(* one is started.                                                         *)
(***************************************************************************)
EXTENDS Integers, Sequences

CONSTANTS
  Hosts,        \* the sets of sweeps hosts start, below
  MayFail,      \* environment: the channels whose test may not start
  MaxPending    \* bound on the requests in the ring

Kinds == {"SWEEP_TX_V4", "SWEEP_CARRIER", "CUS_SWEEP_BLE_TX_V4", "CUS_SWEEP_24G_TX_V4",
          "CUS_SWEEP_24G_CARRIER"}
Byte == {n \in Nat : n < 256}
Word == {n \in Nat : n < 65536}

\* A sweep and the first and last channel of the packet (unused by the custom ones).
Sweeps == [kind : Kinds, channel_min : Byte, channel_max : Byte]
ASSUME HostsAssumption == Hosts \subseteq SUBSET Sweeps
ASSUME FailureAssumption == MayFail \subseteq Word
ASSUME PendingAssumption == MaxPending \in Nat \ {0}

VARIABLES
  ctx,        \* the three contexts: [min, max, current, step]
  callback,   \* the kind of FORWARD the timer queues, or "NONE"
  timer_on,
  sweeping,   \* g_sweep_state = STATE_SWEEP
  running,    \* g_state = STATE_IN_PROGRESS
  pending,    \* the ring: STARTs, FORWARDs, and "SINGLE" and "STOP_TEST"
  serving,    \* the request picked, or Nothing
  set_up,     \* history: the custom sweep custom_sweep_task_ctx was set up for
  mixed,      \* history: a FORWARD of another custom sweep has used it since
  round,      \* history: the channels this round tested, and failed to test, ...
  completed,  \* ... and those of the last one it completed
  sweeps      \* environment: the sweeps the host starts

history == <<set_up, mixed, round, completed>>
vars == <<ctx, callback, timer_on, sweeping, running, pending, serving, history, sweeps>>

Start(s) == [op |-> "START", sweep |-> s]
Forward(kind) ==
  [op |-> "FORWARD", sweep |-> [kind |-> kind, channel_min |-> 0, channel_max |-> 0]]
Other(op) ==
  [op |-> op, sweep |-> [kind |-> "SWEEP_TX_V4", channel_min |-> 0, channel_max |-> 0]]
Nothing == Other("NONE")
Requests == [op : {"START", "FORWARD", "SINGLE", "STOP_TEST", "NONE"}, sweep : Sweeps]

Contexts == {"sweep_tx_v4", "sweep_carrier", "custom"}
ContextOf(kind) ==
  CASE kind = "SWEEP_TX_V4" -> "sweep_tx_v4"
    [] kind = "SWEEP_CARRIER" -> "sweep_carrier"
    [] OTHER -> "custom"
Custom == {kind \in Kinds : ContextOf(kind) = "custom"}

NoRound == [tested |-> {}, failed |-> {}]

-----------------------------------------------------------------------------
(***************************************************************************)
(* The channels of a sweep.                                                *)
(***************************************************************************)
FREQ_TO_TEST4(v) == ((v \div 2) - 1) % 256
FREQ_TO_CW(v) == 2400 + v

Context(min, max, first) == [min |-> min, max |-> max, current |-> first, step |-> 0]

\* start_sweep_tx_v4, start_sweep_carrier, start_custom_sweep_...
SetUp(s) ==
  CASE s.kind = "SWEEP_TX_V4" ->
         Context(FREQ_TO_TEST4(s.channel_min), FREQ_TO_TEST4(s.channel_max),
                 FREQ_TO_TEST4(s.channel_min))
    [] s.kind = "SWEEP_CARRIER" ->
         Context(FREQ_TO_CW(s.channel_min), FREQ_TO_CW(s.channel_max),
                 FREQ_TO_CW(s.channel_min))
    [] s.kind = "CUS_SWEEP_BLE_TX_V4" -> Context(0, 0, 0)
    [] s.kind = "CUS_SWEEP_24G_TX_V4" -> Context(0, 0, 2)
    [] s.kind = "CUS_SWEEP_24G_CARRIER" -> Context(0, 0, 2402)

Advance(c, n) == [c EXCEPT !.current = IF n > c.max THEN c.min ELSE n]

\* Slip: the last channel counts as passed.
PassedBleSlip(n) == n >= 39
PassedBle(n) == n > 39

\* The even channels, then the odd ones.
NextBle(c) ==
  LET n == (c.current + 2) % 65536
  IN IF PassedBle(n)
     THEN [c EXCEPT !.current = IF c.step = 0 THEN 1 ELSE IF c.step = 1 THEN 0 ELSE n,
                    !.step = (c.step + 1) % 2]
     ELSE [c EXCEPT !.current = n]

\* Slip: the steps are not counted modulo 4.
StepAfterSlip(step) == (step + 1) % 256
StepAfter(step) == (step + 1) % 4

\* Slip: the first channel of a pass has the number of its step.
FirstOfSlip(step) == step
\* 3, 4, 5 and 2
FirstOf(step) == IF step = 3 THEN 2 ELSE step + 3

\* Every fourth channel, in four passes.
Next24G(c) ==
  LET n == (c.current + 4) % 65536
  IN IF n > 80
     THEN [c EXCEPT !.current = IF c.step < 4 THEN FirstOf(c.step) ELSE n,
                    !.step = StepAfter(c.step)]
     ELSE [c EXCEPT !.current = n]

Next24GCarrier(c) ==
  LET n == (c.current + 1) % 65536 IN [c EXCEPT !.current = IF n > 2480 THEN 2402 ELSE n]

\* iteration_dif_case: channel_current of SWEEP_TX_V4 has 8 bits, the others 16.
Iterate(kind, c) ==
  CASE kind = "SWEEP_TX_V4" -> Advance(c, (c.current + 1) % 256)
    [] kind = "SWEEP_CARRIER" -> Advance(c, (c.current + 2) % 65536)
    [] kind = "CUS_SWEEP_BLE_TX_V4" -> NextBle(c)
    [] kind = "CUS_SWEEP_24G_TX_V4" -> Next24G(c)
    [] kind = "CUS_SWEEP_24G_CARRIER" -> Next24GCarrier(c)

-----------------------------------------------------------------------------
(***************************************************************************)
(* Requests.                                                               *)
(***************************************************************************)
Init ==
  /\ ctx = [x \in Contexts |-> Context(0, 0, 0)]
  /\ callback = "NONE" /\ timer_on = FALSE /\ sweeping = FALSE /\ running = FALSE
  /\ pending = <<>> /\ serving = Nothing
  /\ set_up = "NONE" /\ mixed = FALSE /\ round = NoRound /\ completed = NoRound
  /\ sweeps \in Hosts

Enqueue(r) == Len(pending) < MaxPending /\ pending' = Append(pending, r)

\* EMI_Dispatch
HostRequests ==
  /\ \E r \in {Start(s) : s \in sweeps} \cup {Other("SINGLE"), Other("STOP_TEST")} : Enqueue(r)
  /\ UNCHANGED <<ctx, callback, timer_on, sweeping, running, serving, history, sweeps>>

\* TIMER1_IrqHandler
Tick ==
  /\ timer_on /\ callback # "NONE" /\ Enqueue(Forward(callback))
  /\ UNCHANGED <<ctx, callback, timer_on, sweeping, running, serving, history, sweeps>>

Pick ==
  /\ serving = Nothing /\ pending # <<>>
  /\ serving' = Head(pending) /\ pending' = Tail(pending)
  /\ UNCHANGED <<ctx, callback, timer_on, sweeping, running, history, sweeps>>

Served(op) == serving.op = op /\ serving' = Nothing

\* A sweep is started once what runs has been stopped.
ServeSweep ==
  LET s == serving.sweep
  IN /\ Served("START")
     /\ ctx' = [ctx EXCEPT ![ContextOf(s.kind)] = SetUp(s)]
     /\ callback' = s.kind /\ timer_on' = TRUE /\ sweeping' = TRUE /\ running' = FALSE
     /\ set_up' = IF s.kind \in Custom THEN s.kind ELSE set_up
     /\ mixed' = (mixed /\ s.kind \notin Custom)
     /\ round' = NoRound /\ completed' = NoRound
     /\ UNCHANGED <<pending, sweeps>>

\* A single test replaces a sweep, and leaves its timer on; it may not start.
ServeSingle ==
  /\ Served("SINGLE") /\ sweeping' = FALSE /\ running' \in BOOLEAN
  /\ UNCHANGED <<ctx, callback, timer_on, pending, history, sweeps>>

ServeStop ==
  /\ Served("STOP_TEST") /\ sweeping' = FALSE /\ timer_on' = FALSE /\ running' = FALSE
  /\ UNCHANGED <<ctx, callback, pending, history, sweeps>>

\* The running test cannot be stopped: the sweep it was part of has ended, but
\* its timer goes on, and the request fails.
StopFails ==
  /\ running /\ serving.op \in {"START", "SINGLE", "STOP_TEST"} /\ serving' = Nothing
  /\ sweeping' = FALSE
  /\ UNCHANGED <<ctx, callback, timer_on, running, pending, history, sweeps>>

\* Nor does a FORWARD then test or change a channel.
ForwardFails ==
  /\ running /\ Served("FORWARD")
  /\ UNCHANGED <<ctx, callback, timer_on, sweeping, running, pending, history, sweeps>>

\* A FORWARD tests its channel, or fails to start the test.  Then a sweep goes
\* on to the next channel nevertheless, and what is left of a sweep that was
\* replaced stays.
ServeForward(started) ==
  LET kind == serving.sweep.kind
      x == ContextOf(kind)
      next == Iterate(kind, ctx[x])
      tried == IF started THEN [round EXCEPT !.tested = @ \cup {ctx[x].current}]
               ELSE [round EXCEPT !.failed = @ \cup {ctx[x].current}]
      first == IF kind \in Custom THEN SetUp(serving.sweep)
               ELSE [ctx[x] EXCEPT !.current = ctx[x].min]
  IN /\ Served("FORWARD") /\ running' = started
     /\ started \/ ctx[x].current \in MayFail
     /\ IF started \/ sweeping
        THEN /\ ctx' = [ctx EXCEPT ![x] = next]
             /\ mixed' = (mixed \/ (kind \in Custom /\ kind # set_up))
             /\ IF kind # callback \/ mixed' THEN UNCHANGED <<round, completed>>
                ELSE IF next = first THEN round' = NoRound /\ completed' = tried
                ELSE round' = tried /\ UNCHANGED completed
        ELSE UNCHANGED <<ctx, mixed, round, completed>>
     /\ UNCHANGED <<callback, timer_on, sweeping, pending, set_up, sweeps>>

Next ==
  \/ HostRequests \/ Tick \/ Pick
  \/ ServeSweep \/ ServeSingle \/ ServeStop \/ StopFails \/ ForwardFails
  \/ \E started \in BOOLEAN : ServeForward(started)

Spec == Init /\ [][Next]_vars

-----------------------------------------------------------------------------
(***************************************************************************)
(* Properties.                                                             *)
(***************************************************************************)
TypeOK ==
  /\ ctx \in [Contexts -> [min : Word, max : Word, current : Word, step : {0, 1, 2, 3}]]
  /\ callback \in Kinds \cup {"NONE"}
  /\ {timer_on, sweeping, running, mixed} \subseteq BOOLEAN
  /\ pending \in Seq(Requests) /\ serving \in Requests
  /\ set_up \in Custom \cup {"NONE"}
  /\ {round, completed} \subseteq [tested : SUBSET Word, failed : SUBSET Word]
  /\ sweeps \in Hosts

UpTo(min, max) == (min .. max) \cup {min}

\* The channels of a sweep, given its context.
Band(kind, c) ==
  CASE kind = "SWEEP_TX_V4" -> UpTo(c.min, c.max)
    [] kind = "SWEEP_CARRIER" -> {f \in UpTo(c.min, c.max) : (f - c.min) % 2 = 0}
    [] kind = "CUS_SWEEP_BLE_TX_V4" -> 0 .. 39
    [] kind = "CUS_SWEEP_24G_TX_V4" -> 2 .. 80
    [] kind = "CUS_SWEEP_24G_CARRIER" -> 2402 .. 2480

\* The sweep whose context is c goes by its own rules: no FORWARD of another
\* custom sweep, queued while this one was being started, has used its context,
\* and no packet has made one of its ends channel 255, which 8 bits pass
\* without a carry.
OwnRules(kind, c) ==
  /\ kind \in Custom => kind = set_up /\ ~mixed
  /\ kind = "SWEEP_TX_V4" => 255 \notin {c.min, c.max}

\* No sweep leaves its channels, whatever ran before, was replaced, ticked late
\* or failed, as long as it goes by its own rules: the ends of the range are
\* compared with only after the step, and the three custom sweeps share their
\* context.
StaysInBand ==
  \A kind \in Kinds :
    LET c == ctx[ContextOf(kind)] IN OwnRules(kind, c) => c.current \in Band(kind, c)

\* The round r has tried the channels of S: all of them are tested, but those
\* whose own test did not start.
Tried(r, S) == r.failed \subseteq S /\ r.tested = S \ r.failed

\* A round of a sweep passes over none of its channels, although it goes through
\* them in two or four passes, or by two, a test may fail to start, and a late
\* FORWARD of the sweep before counts for this one: the channels it has not
\* tested are those whose test did not start, and it goes back to none.
RoundsAreComplete ==
  callback # "NONE" /\ completed # NoRound =>
    LET c == ctx[ContextOf(callback)]
    IN OwnRules(callback, c) => Tried(completed, Band(callback, c))

=============================================================================
