--------------------------- MODULE EmiSweepProofs ---------------------------
(***************************************************************************)
(* Proofs about EmiSweep, for every set of sweeps and depth of the ring:   *)
(* the types and widths of the contexts, that no sweep leaves its band and *)
(* that a round tries all of it.  The first strengthening bounds the ends  *)
(* of the two ranges and says that the BLE sweep has two passes; the second*)
(* says what a round has tried so far.                                     *)
(***************************************************************************)
EXTENDS EmiSweep, TLAPS

Step == {0, 1, 2, 3}
ContextType == [min : Word, max : Word, current : Word, step : Step]

\* What the steps of a sweep preserve of its context, if it uses it alone.
TxRange(c) ==
  /\ c.min < 256 /\ c.max < 256
  /\ (c.min # 255 /\ c.max # 255) => c.current = c.min \/ (c.min <= c.current /\ c.current <= c.max)
CarrierRange(c) ==
  /\ c.min < 2656 /\ c.max < 2656 /\ (c.current - c.min) % 2 = 0
  /\ c.current = c.min \/ (c.min <= c.current /\ c.current <= c.max)
InRange(kind, c) ==
  /\ kind = "SWEEP_TX_V4" => TxRange(c)
  /\ kind = "SWEEP_CARRIER" => CarrierRange(c)
  /\ kind = "CUS_SWEEP_BLE_TX_V4" => c.current <= 39 /\ c.step \in {0, 1}
  /\ kind = "CUS_SWEEP_24G_TX_V4" => 2 <= c.current /\ c.current <= 80
  /\ kind = "CUS_SWEEP_24G_CARRIER" => 2402 <= c.current /\ c.current <= 2480

IInv ==
  /\ TypeOK
  /\ InRange("SWEEP_TX_V4", ctx["sweep_tx_v4"])
  /\ InRange("SWEEP_CARRIER", ctx["sweep_carrier"])
  /\ set_up # "NONE" /\ ~mixed => InRange(set_up, ctx["custom"])

(***************************************************************************)
(* The channels.                                                           *)
(***************************************************************************)
LEMMA ContextFields ==
  ASSUME NEW min \in Word, NEW max \in Word, NEW first \in Word
  PROVE  /\ Context(min, max, first) \in ContextType
         /\ Context(min, max, first).min = min /\ Context(min, max, first).max = max
         /\ Context(min, max, first).current = first /\ Context(min, max, first).step = 0
  BY DEF Context, ContextType, Step

\* What a sweep is set up with fits its context, and is in its range.
LEMMA SetUpInRange ==
  ASSUME NEW s \in Sweeps
  PROVE  SetUp(s) \in ContextType /\ InRange(s.kind, SetUp(s))
  <1> DEFINE min == s.channel_min
             max == s.channel_max
  <1>0. s.kind \in Kinds /\ min \in Byte /\ max \in Byte
    BY DEF Sweeps
  <1>1. CASE s.kind = "SWEEP_TX_V4"
    <2> DEFINE a == FREQ_TO_TEST4(min)
               b == FREQ_TO_TEST4(max)
    <2>1. a \in Word /\ b \in Word /\ a < 256 /\ b < 256
      BY <1>0 DEF FREQ_TO_TEST4, Byte, Word
    <2>2. SetUp(s) = Context(a, b, a)
      BY <1>1 DEF SetUp
    <2> HIDE DEF a, b
    <2>3. SetUp(s) \in ContextType /\ TxRange(SetUp(s))
      BY <2>1, <2>2, ContextFields DEF TxRange
    <2>4. QED
      BY <1>1, <2>3 DEF InRange
  <1>2. CASE s.kind = "SWEEP_CARRIER"
    <2> DEFINE a == FREQ_TO_CW(min)
               b == FREQ_TO_CW(max)
    <2>1. a \in Word /\ b \in Word /\ a < 2656 /\ b < 2656 /\ (a - a) % 2 = 0
      BY <1>0 DEF FREQ_TO_CW, Byte, Word
    <2>2. SetUp(s) = Context(a, b, a)
      BY <1>2 DEF SetUp
    <2> HIDE DEF a, b
    <2>3. SetUp(s) \in ContextType /\ CarrierRange(SetUp(s))
      BY <2>1, <2>2, ContextFields DEF CarrierRange
    <2>4. QED
      BY <1>2, <2>3 DEF InRange
  <1>3. CASE s.kind \in Custom
    <2>1. 0 \in Word /\ 2 \in Word /\ 2402 \in Word
      BY DEF Word
    <2>2. CASE s.kind = "CUS_SWEEP_BLE_TX_V4"
      <3>1. SetUp(s) = Context(0, 0, 0)
        BY <2>2 DEF SetUp
      <3>2. QED
        BY <2>1, <2>2, <3>1, ContextFields DEF InRange
    <2>3. CASE s.kind = "CUS_SWEEP_24G_TX_V4"
      <3>1. SetUp(s) = Context(0, 0, 2)
        BY <2>3 DEF SetUp
      <3>2. QED
        BY <2>1, <2>3, <3>1, ContextFields DEF InRange
    <2>4. CASE s.kind = "CUS_SWEEP_24G_CARRIER"
      <3>1. SetUp(s) = Context(0, 0, 2402)
        BY <2>4 DEF SetUp
      <3>2. QED
        BY <2>1, <2>4, <3>1, ContextFields DEF InRange
    <2>5. QED
      BY <1>0, <1>3, <2>2, <2>3, <2>4 DEF Custom, ContextOf, Kinds
  <1>4. QED
    BY <1>0, <1>1, <1>2, <1>3 DEF Kinds, Custom, ContextOf

\* A context whose current channel changes is one, and keeps the rest.
LEMMA CurrentChanges ==
  ASSUME NEW c \in ContextType, NEW n \in Word, NEW d, d = [c EXCEPT !.current = n]
  PROVE  /\ d \in ContextType
         /\ d.min = c.min /\ d.max = c.max /\ d.current = n /\ d.step = c.step
  BY DEF ContextType

\* The step of a sweep keeps the widths of any context, and the range of its own.
LEMMA IterateInRange ==
  ASSUME NEW kind \in Kinds, NEW c \in ContextType
  PROVE  /\ Iterate(kind, c) \in ContextType
         /\ InRange(kind, c) => InRange(kind, Iterate(kind, c))
  <1>0. /\ c.min \in Word /\ c.max \in Word /\ c.current \in Word /\ c.step \in Step
    BY DEF ContextType
  <1> DEFINE d == Iterate(kind, c)
  <1>1. CASE kind = "SWEEP_TX_V4"
    <2> DEFINE n == (c.current + 1) % 256
               next == IF n > c.max THEN c.min ELSE n
    <2>1. d = [c EXCEPT !.current = next]
      BY <1>1 DEF Iterate, Advance
    <2>2. next \in Word
      BY <1>0 DEF Word
    <2>3. TxRange(c) /\ c.min # 255 /\ c.max # 255 =>
            next = c.min \/ (c.min <= next /\ next <= c.max)
      BY <1>0 DEF TxRange, Word
    <2> HIDE DEF next, d
    <2>4. d \in ContextType /\ d.min = c.min /\ d.max = c.max /\ d.current = next
      BY <2>1, <2>2, CurrentChanges
    <2>5. TxRange(c) => TxRange(d)
      BY <2>3, <2>4 DEF TxRange
    <2>6. d \in ContextType /\ (InRange(kind, c) => InRange(kind, d))
      BY <1>1, <2>4, <2>5 DEF InRange
    <2>7. QED
      BY <2>6 DEF d
  <1>2. CASE kind = "SWEEP_CARRIER"
    <2> DEFINE n == (c.current + 2) % 65536
               next == IF n > c.max THEN c.min ELSE n
    <2>1. d = [c EXCEPT !.current = next]
      BY <1>2 DEF Iterate, Advance
    <2>2. next \in Word
      BY <1>0 DEF Word
    <2>3. CarrierRange(c) =>
            (next - c.min) % 2 = 0 /\ (next = c.min \/ (c.min <= next /\ next <= c.max))
      BY <1>0 DEF CarrierRange, Word
    <2> HIDE DEF next, d
    <2>4. d \in ContextType /\ d.min = c.min /\ d.max = c.max /\ d.current = next
      BY <2>1, <2>2, CurrentChanges
    <2>5. CarrierRange(c) => CarrierRange(d)
      BY <2>3, <2>4 DEF CarrierRange
    <2>6. d \in ContextType /\ (InRange(kind, c) => InRange(kind, d))
      BY <1>2, <2>4, <2>5 DEF InRange
    <2>7. QED
      BY <2>6 DEF d
  <1>3. CASE kind = "CUS_SWEEP_BLE_TX_V4"
    <2> DEFINE n == (c.current + 2) % 65536
               first == IF c.step = 0 THEN 1 ELSE IF c.step = 1 THEN 0 ELSE n
               pass == (c.step + 1) % 2
    <2>1. n \in Word /\ first \in Word /\ pass \in {0, 1} /\ pass \in Step
      BY <1>0 DEF Word, Step
    <2>2. c.step \in {0, 1} => first <= 39
      OBVIOUS
    <2>3. /\ n > 39 => d = [c EXCEPT !.current = first, !.step = pass]
          /\ ~(n > 39) => d = [c EXCEPT !.current = n]
      BY <1>3 DEF Iterate, NextBle, PassedBle
    <2> HIDE DEF n, first, pass, d
    <2>4. CASE n > 39
      <3>1. d \in ContextType /\ d.current = first /\ d.step = pass
        <4>1. d = [c EXCEPT !.current = first, !.step = pass]
          BY <2>3, <2>4
        <4>2. QED
          BY <2>1, <4>1 DEF ContextType
      <3>2. c.step \in {0, 1} => d.current <= 39 /\ d.step \in {0, 1}
        BY <2>1, <2>2, <3>1
      <3>3. d \in ContextType /\ (InRange(kind, c) => InRange(kind, d))
        BY <1>3, <3>1, <3>2 DEF InRange
      <3>4. QED
        BY <3>3 DEF d
    <2>5. CASE ~(n > 39)
      <3>1. d \in ContextType /\ d.current = n /\ d.step = c.step /\ n <= 39
        <4>1. d \in ContextType /\ d.current = n /\ d.step = c.step
          BY <2>1, <2>3, <2>5, CurrentChanges
        <4>2. QED
          BY <2>1, <2>5, <4>1 DEF Word
      <3>2. d \in ContextType /\ (InRange(kind, c) => InRange(kind, d))
        BY <1>3, <3>1 DEF InRange
      <3>3. QED
        BY <3>2 DEF d
    <2>6. QED
      BY <2>4, <2>5
  <1>4. CASE kind = "CUS_SWEEP_24G_TX_V4"
    <2> DEFINE n == (c.current + 4) % 65536
               first == IF c.step < 4 THEN FirstOf(c.step) ELSE n
               pass == StepAfter(c.step)
    <2>1. n \in Word /\ first \in Word /\ 2 <= first /\ first <= 5 /\ pass \in Step
      BY <1>0 DEF Word, Step, FirstOf, StepAfter
    <2>2. c.current <= 80 => n >= 2
      BY <1>0 DEF Word
    <2>3. /\ n > 80 => d = [c EXCEPT !.current = first, !.step = pass]
          /\ ~(n > 80) => d = [c EXCEPT !.current = n]
      BY <1>4 DEF Iterate, Next24G
    <2> HIDE DEF n, first, pass, d
    <2>4. CASE n > 80
      <3>1. d \in ContextType /\ d.current = first
        <4>1. d = [c EXCEPT !.current = first, !.step = pass]
          BY <2>3, <2>4
        <4>2. QED
          BY <2>1, <4>1 DEF ContextType
      <3>2. 2 <= d.current /\ d.current <= 80
        BY <2>1, <3>1 DEF Word
      <3>3. d \in ContextType /\ (InRange(kind, c) => InRange(kind, d))
        BY <1>4, <3>1, <3>2 DEF InRange
      <3>4. QED
        BY <3>3 DEF d
    <2>5. CASE ~(n > 80)
      <3>1. d \in ContextType /\ d.current = n /\ n <= 80
        <4>1. d \in ContextType /\ d.current = n
          BY <2>1, <2>3, <2>5, CurrentChanges
        <4>2. QED
          BY <2>1, <2>5, <4>1 DEF Word
      <3>2. d \in ContextType /\ (InRange(kind, c) => InRange(kind, d))
        BY <1>0, <1>4, <2>1, <2>2, <3>1 DEF InRange, Word
      <3>3. QED
        BY <3>2 DEF d
    <2>6. QED
      BY <2>4, <2>5
  <1>5. CASE kind = "CUS_SWEEP_24G_CARRIER"
    <2> DEFINE n == (c.current + 1) % 65536
               next == IF n > 2480 THEN 2402 ELSE n
    <2>1. d = [c EXCEPT !.current = next]
      BY <1>5 DEF Iterate, Next24GCarrier
    <2>2. next \in Word /\ (2402 <= c.current /\ c.current <= 2480 => 2402 <= next /\ next <= 2480)
      BY <1>0 DEF Word
    <2> HIDE DEF next, d
    <2>3. d \in ContextType /\ d.current = next
      BY <2>1, <2>2, CurrentChanges
    <2>4. d \in ContextType /\ (InRange(kind, c) => InRange(kind, d))
      BY <1>5, <2>2, <2>3 DEF InRange
    <2>5. QED
      BY <2>4 DEF d
  <1>6. QED
    BY <1>1, <1>2, <1>3, <1>4, <1>5 DEF Kinds

\* The range of a sweep that goes by its own rules is its band.
LEMMA InRangeIsInBand ==
  ASSUME NEW kind \in Kinds, NEW c \in ContextType, InRange(kind, c), OwnRules(kind, c)
  PROVE  c.current \in Band(kind, c)
  <1>0. c.min \in Nat /\ c.max \in Nat /\ c.current \in Nat
    BY DEF ContextType, Word
  <1>1. CASE kind = "SWEEP_TX_V4"
    <2>1. c.min # 255 /\ c.max # 255
      BY <1>1 DEF OwnRules
    <2>2. c.current = c.min \/ (c.min <= c.current /\ c.current <= c.max)
      BY <1>1, <2>1 DEF InRange, TxRange
    <2>3. c.current \in UpTo(c.min, c.max)
      BY <1>0, <2>2 DEF UpTo
    <2>4. QED
      BY <1>1, <2>3 DEF Band
  <1>2. CASE kind = "SWEEP_CARRIER"
    <2>1. /\ (c.current - c.min) % 2 = 0
          /\ c.current = c.min \/ (c.min <= c.current /\ c.current <= c.max)
      BY <1>2 DEF InRange, CarrierRange
    <2>2. c.current \in UpTo(c.min, c.max)
      BY <1>0, <2>1 DEF UpTo
    <2>3. QED
      BY <1>2, <2>1, <2>2 DEF Band
  <1>3. CASE kind = "CUS_SWEEP_BLE_TX_V4"
    <2>1. c.current \in 0 .. 39
      BY <1>0, <1>3 DEF InRange
    <2>2. QED
      BY <1>3, <2>1 DEF Band
  <1>4. CASE kind = "CUS_SWEEP_24G_TX_V4"
    <2>1. c.current \in 2 .. 80
      BY <1>0, <1>4 DEF InRange
    <2>2. QED
      BY <1>4, <2>1 DEF Band
  <1>5. CASE kind = "CUS_SWEEP_24G_CARRIER"
    <2>1. c.current \in 2402 .. 2480
      BY <1>0, <1>5 DEF InRange
    <2>2. QED
      BY <1>5, <2>1 DEF Band
  <1>6. QED
    BY <1>1, <1>2, <1>3, <1>4, <1>5 DEF Kinds

(***************************************************************************)
(* The steps.                                                              *)
(***************************************************************************)
LEMMA RequestFields ==
  ASSUME NEW r \in Requests
  PROVE  r.sweep \in Sweeps /\ r.sweep.kind \in Kinds
  BY DEF Requests, Sweeps

LEMMA MadeRequests ==
  /\ \A s \in Sweeps : Start(s) \in Requests
  /\ \A kind \in Kinds : Forward(kind) \in Requests
  /\ \A op \in {"SINGLE", "STOP_TEST", "NONE"} : Other(op) \in Requests
  BY DEF Start, Forward, Other, Requests, Sweeps, Kinds, Byte

Round == [tested : SUBSET Word, failed : SUBSET Word]

\* A round that has tried one channel more, whose test started or not.
Try(r, f, started) ==
  IF started THEN [r EXCEPT !.tested = @ \cup {f}] ELSE [r EXCEPT !.failed = @ \cup {f}]

LEMMA RoundTypes ==
  /\ NoRound \in Round
  /\ \A r \in Round, f \in Word, started \in BOOLEAN : Try(r, f, started) \in Round
  BY DEF NoRound, Round, Try

\* A channel that was not tried is tried once.
LEMMA TryTries ==
  ASSUME NEW r \in Round, NEW S, NEW f, NEW started \in BOOLEAN, Tried(r, S), f \notin S
  PROVE  Tried(Try(r, f, started), S \cup {f})
  <1>1. CASE started
    <2>1. Try(r, f, started).tested = r.tested \cup {f} /\ Try(r, f, started).failed = r.failed
      BY <1>1 DEF Try, Round
    <2>2. QED
      BY <2>1 DEF Tried
  <1>2. CASE ~started
    <2>1. Try(r, f, started).tested = r.tested /\ Try(r, f, started).failed = r.failed \cup {f}
      BY <1>2 DEF Try, Round
    <2>2. QED
      BY <2>1 DEF Tried
  <1>3. QED
    BY <1>1, <1>2

LEMMA NoneTried == Tried(NoRound, {})
  BY DEF Tried, NoRound

LEMMA TypeOKParts ==
  ASSUME TypeOK
  PROVE  /\ ctx \in [Contexts -> ContextType] /\ serving \in Requests /\ pending \in Seq(Requests)
         /\ timer_on \in BOOLEAN /\ sweeping \in BOOLEAN /\ running \in BOOLEAN
         /\ mixed \in BOOLEAN /\ round \in Round /\ completed \in Round
  <1>1. {timer_on, sweeping, running, mixed} \subseteq BOOLEAN
    BY DEF TypeOK
  <1>2. timer_on \in BOOLEAN /\ sweeping \in BOOLEAN /\ running \in BOOLEAN /\ mixed \in BOOLEAN
    BY <1>1
  <1>3. ctx \in [Contexts -> ContextType] /\ serving \in Requests /\ pending \in Seq(Requests)
    BY DEF TypeOK, ContextType, Step
  <1>4. round \in Round /\ completed \in Round
    <2>1. {round, completed} \subseteq Round
      BY DEF TypeOK, Round
    <2>2. QED
      BY <2>1
  <1>5. QED
    BY <1>2, <1>3, <1>4

LEMMA InitIInv == Init => IInv
  <1> SUFFICES ASSUME Init PROVE IInv
    OBVIOUS
  <1>0. 0 \in Word
    BY DEF Word
  <1>1. Context(0, 0, 0) \in ContextType
    BY <1>0, ContextFields
  <1>2. ctx \in [Contexts -> ContextType] /\ \A x \in Contexts : ctx[x] = Context(0, 0, 0)
    BY <1>1 DEF Init
  <1>3. TypeOK
    <2>1. {timer_on, sweeping, running, mixed} \subseteq BOOLEAN
      BY DEF Init
    <2>2. pending \in Seq(Requests) /\ serving \in Requests
      BY MadeRequests DEF Init, Nothing
    <2>3. ctx \in [Contexts -> [min : Word, max : Word, current : Word, step : {0, 1, 2, 3}]]
      BY <1>2 DEF ContextType, Step
    <2>4. {round, completed} \subseteq [tested : SUBSET Word, failed : SUBSET Word]
      BY RoundTypes DEF Init, Round
    <2>5. QED
      BY <2>1, <2>2, <2>3, <2>4 DEF Init, TypeOK
  <1>4. InRange("SWEEP_TX_V4", Context(0, 0, 0)) /\ InRange("SWEEP_CARRIER", Context(0, 0, 0))
    <2>1. TxRange(Context(0, 0, 0)) /\ CarrierRange(Context(0, 0, 0))
      BY <1>0, ContextFields DEF TxRange, CarrierRange
    <2>2. QED
      BY <2>1 DEF InRange
  <1>5. QED
    BY <1>2, <1>3, <1>4 DEF IInv, Init, Contexts

\* A context that is set up, or moved by its own sweep, keeps the range of
\* every sweep the context still has.
LEMMA OneContextChanges ==
  ASSUME IInv, NEW kind \in Kinds, NEW d \in ContextType,
         ctx' = [ctx EXCEPT ![ContextOf(kind)] = d],
         kind \notin Custom => InRange(kind, d),
         kind \in Custom /\ set_up' # "NONE" /\ ~mixed' => InRange(set_up', d),
         kind \notin Custom => UNCHANGED <<set_up, mixed>>
  PROVE  /\ ctx' \in [Contexts -> ContextType]
         /\ InRange("SWEEP_TX_V4", ctx'["sweep_tx_v4"])
         /\ InRange("SWEEP_CARRIER", ctx'["sweep_carrier"])
         /\ set_up' # "NONE" /\ ~mixed' => InRange(set_up', ctx'["custom"])
  <1>0. ctx \in [Contexts -> ContextType]
    BY TypeOKParts DEF IInv
  <1>1. /\ InRange("SWEEP_TX_V4", ctx["sweep_tx_v4"]) /\ InRange("SWEEP_CARRIER", ctx["sweep_carrier"])
        /\ set_up # "NONE" /\ ~mixed => InRange(set_up, ctx["custom"])
    BY DEF IInv
  <1>2. CASE kind = "SWEEP_TX_V4"
    <2>1. ContextOf(kind) = "sweep_tx_v4" /\ kind \notin Custom
      BY <1>2 DEF ContextOf, Custom
    <2>2. /\ ctx' \in [Contexts -> ContextType] /\ ctx'["sweep_tx_v4"] = d
          /\ ctx'["sweep_carrier"] = ctx["sweep_carrier"] /\ ctx'["custom"] = ctx["custom"]
      BY <1>0, <2>1 DEF Contexts
    <2>3. QED
      BY <1>1, <1>2, <2>1, <2>2
  <1>3. CASE kind = "SWEEP_CARRIER"
    <2>1. ContextOf(kind) = "sweep_carrier" /\ kind \notin Custom
      BY <1>3 DEF ContextOf, Custom
    <2>2. /\ ctx' \in [Contexts -> ContextType] /\ ctx'["sweep_carrier"] = d
          /\ ctx'["sweep_tx_v4"] = ctx["sweep_tx_v4"] /\ ctx'["custom"] = ctx["custom"]
      BY <1>0, <2>1 DEF Contexts
    <2>3. QED
      BY <1>1, <1>3, <2>1, <2>2
  <1>4. CASE kind \notin {"SWEEP_TX_V4", "SWEEP_CARRIER"}
    <2>1. ContextOf(kind) = "custom" /\ kind \in Custom
      BY <1>4 DEF ContextOf, Custom, Kinds
    <2>2. /\ ctx' \in [Contexts -> ContextType] /\ ctx'["custom"] = d
          /\ ctx'["sweep_carrier"] = ctx["sweep_carrier"]
          /\ ctx'["sweep_tx_v4"] = ctx["sweep_tx_v4"]
      BY <1>0, <2>1 DEF Contexts
    <2>3. QED
      BY <1>1, <2>1, <2>2
  <1>5. QED
    BY <1>2, <1>3, <1>4

LEMMA ServeSweepIInv == IInv /\ ServeSweep => IInv'
  <1> SUFFICES ASSUME IInv, ServeSweep PROVE IInv'
    OBVIOUS
  <1> DEFINE s == serving.sweep
             d == SetUp(s)
  <1>0. TypeOK /\ serving \in Requests
    BY TypeOKParts DEF IInv
  <1>1. s \in Sweeps /\ s.kind \in Kinds
    BY <1>0, RequestFields
  <1>2. d \in ContextType /\ InRange(s.kind, d)
    BY <1>1, SetUpInRange
  <1>3. /\ ctx' = [ctx EXCEPT ![ContextOf(s.kind)] = d]
        /\ callback' = s.kind /\ timer_on' = TRUE /\ sweeping' = TRUE /\ running' = FALSE
        /\ set_up' = IF s.kind \in Custom THEN s.kind ELSE set_up
        /\ mixed' = (mixed /\ s.kind \notin Custom)
        /\ round' = NoRound /\ completed' = NoRound /\ serving' = Nothing
        /\ UNCHANGED <<pending, sweeps>>
    BY DEF ServeSweep, Served
  <1> HIDE DEF s, d
  <1>4. /\ s.kind \in Custom => set_up' = s.kind
        /\ s.kind \notin Custom => UNCHANGED <<set_up, mixed>>
    <2>1. s.kind \notin Custom => mixed' = mixed
      BY <1>0, <1>3, TypeOKParts
    <2>2. QED
      BY <1>3, <2>1
  <1>5. /\ ctx' \in [Contexts -> ContextType]
        /\ InRange("SWEEP_TX_V4", ctx'["sweep_tx_v4"])
        /\ InRange("SWEEP_CARRIER", ctx'["sweep_carrier"])
        /\ set_up' # "NONE" /\ ~mixed' => InRange(set_up', ctx'["custom"])
    BY <1>1, <1>2, <1>3, <1>4, OneContextChanges
  <1>6. TypeOK'
    <2>1. ctx' \in [Contexts -> [min : Word, max : Word, current : Word, step : {0, 1, 2, 3}]]
      BY <1>5 DEF ContextType, Step
    <2>2. mixed' \in BOOLEAN
      BY <1>3
    <2>3. {timer_on', sweeping', running', mixed'} \subseteq BOOLEAN
      BY <1>3, <2>2
    <2>4. set_up' \in Custom \cup {"NONE"}
      BY <1>0, <1>3 DEF TypeOK
    <2>5. serving' \in Requests
      BY <1>3, MadeRequests DEF Nothing
    <2>6. /\ callback' \in Kinds \cup {"NONE"}
          /\ {round', completed'} \subseteq [tested : SUBSET Word, failed : SUBSET Word]
      BY <1>1, <1>3, RoundTypes DEF Round
    <2>7. QED
      BY <1>0, <1>3, <2>1, <2>3, <2>4, <2>5, <2>6 DEF TypeOK
  <1>7. QED
    BY <1>5, <1>6 DEF IInv

LEMMA ServeForwardIInv ==
  ASSUME IInv, NEW started \in BOOLEAN, ServeForward(started)
  PROVE  IInv'
  <1> DEFINE kind == serving.sweep.kind
             x == ContextOf(kind)
             d == Iterate(kind, ctx[x])
             tried == Try(round, ctx[x].current, started)
  <1>0. /\ TypeOK /\ serving \in Requests /\ ctx \in [Contexts -> ContextType]
        /\ InRange("SWEEP_TX_V4", ctx["sweep_tx_v4"])
        /\ InRange("SWEEP_CARRIER", ctx["sweep_carrier"])
        /\ set_up # "NONE" /\ ~mixed => InRange(set_up, ctx["custom"])
    BY TypeOKParts DEF IInv
  <1>1. kind \in Kinds /\ x \in Contexts
    BY <1>0, RequestFields DEF ContextOf, Contexts, Kinds
  <1>2. ctx[x] \in ContextType
    BY <1>0, <1>1
  <1>3. d \in ContextType /\ (InRange(kind, ctx[x]) => InRange(kind, d))
    BY <1>1, <1>2, IterateInRange
  <1>4. /\ serving' = Nothing /\ running' = started
        /\ UNCHANGED <<callback, timer_on, sweeping, pending, set_up, sweeps>>
    BY DEF ServeForward, Served
  <1>5. /\ mixed' \in BOOLEAN
        /\ round' \in {round, NoRound, tried} /\ completed' \in {completed, tried}
        /\ \/ /\ ctx' = [ctx EXCEPT ![x] = d]
              /\ mixed' = (mixed \/ (kind \in Custom /\ kind # set_up))
           \/ UNCHANGED <<ctx, mixed>>
    <2>1. mixed \in BOOLEAN
      BY <1>0, TypeOKParts
    <2>2. QED
      BY <2>1 DEF ServeForward, Try
  <1>6. tried \in Round /\ round \in Round /\ completed \in Round
    BY <1>0, <1>2, TypeOKParts, RoundTypes DEF ContextType
  <1>7. /\ kind = "SWEEP_TX_V4" => x = "sweep_tx_v4"
        /\ kind = "SWEEP_CARRIER" => x = "sweep_carrier"
        /\ kind \in Custom => x = "custom"
        /\ kind \notin Custom => kind \in {"SWEEP_TX_V4", "SWEEP_CARRIER"}
    BY <1>1 DEF ContextOf, Custom, Kinds
  <1> HIDE DEF kind, x, d, tried
  <1>8. /\ ctx' \in [Contexts -> ContextType]
        /\ InRange("SWEEP_TX_V4", ctx'["sweep_tx_v4"])
        /\ InRange("SWEEP_CARRIER", ctx'["sweep_carrier"])
        /\ set_up' # "NONE" /\ ~mixed' => InRange(set_up', ctx'["custom"])
    <2>1. CASE UNCHANGED <<ctx, mixed>>
      BY <1>0, <1>4, <2>1
    <2>2. CASE /\ ctx' = [ctx EXCEPT ![x] = d]
               /\ mixed' = (mixed \/ (kind \in Custom /\ kind # set_up))
      <3>1. ctx' = [ctx EXCEPT ![ContextOf(kind)] = d]
        BY <2>2 DEF x
      <3>2. kind \notin Custom => InRange(kind, d)
        BY <1>0, <1>3, <1>7
      <3>3. kind \in Custom /\ set_up' # "NONE" /\ ~mixed' => InRange(set_up', d)
        BY <1>0, <1>3, <1>4, <1>7, <2>2
      <3>4. kind \notin Custom => UNCHANGED <<set_up, mixed>>
        <4>1. mixed \in BOOLEAN
          BY <1>0, TypeOKParts
        <4>2. QED
          BY <1>4, <2>2, <4>1
      <3>5. QED
        BY <1>1, <1>3, <3>1, <3>2, <3>3, <3>4, OneContextChanges
    <2>3. QED
      BY <1>5, <2>1, <2>2
  <1>9. TypeOK'
    <2>1. ctx' \in [Contexts -> [min : Word, max : Word, current : Word, step : {0, 1, 2, 3}]]
      BY <1>8 DEF ContextType, Step
    <2>2. timer_on' \in BOOLEAN /\ sweeping' \in BOOLEAN /\ running' \in BOOLEAN
      BY <1>0, <1>4, TypeOKParts
    <2>3. {timer_on', sweeping', running', mixed'} \subseteq BOOLEAN
      BY <1>5, <2>2
    <2>4. serving' \in Requests
      BY <1>4, MadeRequests DEF Nothing
    <2>5. {round', completed'} \subseteq [tested : SUBSET Word, failed : SUBSET Word]
      BY <1>5, <1>6, RoundTypes DEF Round
    <2>6. QED
      BY <1>0, <1>4, <2>1, <2>3, <2>4, <2>5 DEF TypeOK
  <1>10. QED
    BY <1>8, <1>9 DEF IInv

\* The other steps change no context, nor what it was set up for.
LEMMA OtherStepsIInv ==
  ASSUME IInv, UNCHANGED <<ctx, set_up, mixed, sweeps>>,
         callback' = callback, round' = round, completed' = completed,
         timer_on' \in BOOLEAN, sweeping' \in BOOLEAN, running' \in BOOLEAN,
         pending' \in Seq(Requests), serving' \in Requests
  PROVE  IInv'
  <1>1. TypeOK /\ mixed' \in BOOLEAN
    BY TypeOKParts DEF IInv
  <1>2. {timer_on', sweeping', running', mixed'} \subseteq BOOLEAN
    BY <1>1
  <1>3. TypeOK'
    BY <1>1, <1>2 DEF TypeOK
  <1>4. QED
    BY <1>3 DEF IInv

LEMMA NextIInv == IInv /\ [Next]_vars => IInv'
  <1> SUFFICES ASSUME IInv, [Next]_vars PROVE IInv'
    OBVIOUS
  <1>0. /\ TypeOK /\ pending \in Seq(Requests) /\ serving \in Requests
        /\ timer_on \in BOOLEAN /\ sweeping \in BOOLEAN /\ running \in BOOLEAN
    BY TypeOKParts DEF IInv
  <1>1. CASE HostRequests
    <2>1. PICK r \in {Start(s) : s \in sweeps} \cup {Other("SINGLE"), Other("STOP_TEST")} :
            pending' = Append(pending, r)
      BY <1>1 DEF HostRequests, Enqueue
    <2>2. sweeps \subseteq Sweeps
      BY <1>0, HostsAssumption DEF TypeOK
    <2>3. r \in Requests
      BY <2>2, MadeRequests
    <2>4. pending' \in Seq(Requests)
      BY <1>0, <2>1, <2>3
    <2>5. UNCHANGED <<ctx, callback, timer_on, sweeping, running, serving, history, sweeps>>
      BY <1>1 DEF HostRequests
    <2>6. QED
      BY <1>0, <2>4, <2>5, OtherStepsIInv DEF history
  <1>2. CASE Tick
    <2>1. callback \in Kinds /\ pending' = Append(pending, Forward(callback))
          /\ UNCHANGED <<ctx, callback, timer_on, sweeping, running, serving, history, sweeps>>
      BY <1>0, <1>2 DEF Tick, Enqueue, TypeOK
    <2>2. Forward(callback) \in Requests
      BY <2>1, MadeRequests
    <2>3. pending' \in Seq(Requests)
      BY <1>0, <2>1, <2>2
    <2>4. QED
      BY <1>0, <2>1, <2>3, OtherStepsIInv DEF history
  <1>3. CASE Pick
    <2>1. /\ pending # <<>> /\ serving' = Head(pending) /\ pending' = Tail(pending)
          /\ UNCHANGED <<ctx, callback, timer_on, sweeping, running, history, sweeps>>
      BY <1>3 DEF Pick
    <2>2. serving' \in Requests /\ pending' \in Seq(Requests)
      BY <1>0, <2>1
    <2>3. QED
      BY <1>0, <2>1, <2>2, OtherStepsIInv DEF history
  <1>4. CASE ServeSweep
    BY <1>4, ServeSweepIInv
  <1>5. CASE ServeSingle \/ ServeStop \/ StopFails \/ ForwardFails
    <2>1. /\ UNCHANGED <<ctx, callback, pending, history, sweeps>> /\ serving' = Nothing
          /\ timer_on' \in {timer_on, FALSE} /\ sweeping' \in {sweeping, FALSE}
      BY <1>5 DEF ServeSingle, ServeStop, StopFails, ForwardFails, Served
    <2>2. running' \in BOOLEAN
      BY <1>0, <1>5 DEF ServeSingle, ServeStop, StopFails, ForwardFails
    <2>3. serving' \in Requests
      BY <2>1, MadeRequests DEF Nothing
    <2>4. timer_on' \in BOOLEAN /\ sweeping' \in BOOLEAN
      BY <1>0, <2>1
    <2>5. QED
      BY <1>0, <2>1, <2>2, <2>3, <2>4, OtherStepsIInv DEF history
  <1>6. CASE \E started \in BOOLEAN : ServeForward(started)
    BY <1>6, ServeForwardIInv
  <1>7. CASE UNCHANGED vars
    <2>1. UNCHANGED <<ctx, callback, timer_on, sweeping, running, pending, serving, history, sweeps>>
      BY <1>7 DEF vars
    <2>2. QED
      BY <1>0, <2>1, OtherStepsIInv DEF history
  <1>8. QED
    BY <1>1, <1>2, <1>3, <1>4, <1>5, <1>6, <1>7 DEF Next

(***************************************************************************)
(* Theorems.                                                               *)
(***************************************************************************)
\* The contexts keep their widths and ranges in every reachable state.
THEOREM InductiveInvariant == Spec => []IInv
  BY InitIInv, NextIInv, PTL DEF Spec

\* Every field of the three contexts keeps its width, and the step of the
\* custom sweeps is the number of a pass.
THEOREM TypeCorrectness == Spec => []TypeOK
  <1>1. IInv => TypeOK
    BY DEF IInv
  <1>2. QED
    BY <1>1, InductiveInvariant, PTL

\* However sweeps of any range replace each other, tick late and fail, none
\* tests a channel outside its band, as long as it goes by its own rules
\* (iteration_dif_case): a late FORWARD of another custom sweep and an end at
\* channel 255 are the only ways out.
THEOREM NoSweepLeavesItsBand == Spec => []StaysInBand
  <1>1. IInv => StaysInBand
    <2> SUFFICES ASSUME IInv, NEW kind \in Kinds, OwnRules(kind, ctx[ContextOf(kind)])
                 PROVE  ctx[ContextOf(kind)].current \in Band(kind, ctx[ContextOf(kind)])
      BY DEF StaysInBand
    <2>0. /\ ctx \in [Contexts -> ContextType]
          /\ InRange("SWEEP_TX_V4", ctx["sweep_tx_v4"])
          /\ InRange("SWEEP_CARRIER", ctx["sweep_carrier"])
          /\ set_up # "NONE" /\ ~mixed => InRange(set_up, ctx["custom"])
      BY TypeOKParts DEF IInv
    <2>1. ContextOf(kind) \in Contexts
      BY DEF ContextOf, Contexts, Kinds
    <2>2. InRange(kind, ctx[ContextOf(kind)])
      <3>1. CASE kind = "SWEEP_TX_V4"
        BY <2>0, <3>1 DEF ContextOf
      <3>2. CASE kind = "SWEEP_CARRIER"
        BY <2>0, <3>2 DEF ContextOf
      <3>3. CASE kind \in Custom
        <4>1. kind = set_up /\ ~mixed /\ kind # "NONE"
          BY <3>3 DEF OwnRules, Kinds
        <4>2. ContextOf(kind) = "custom"
          BY <3>3 DEF Custom
        <4>3. QED
          BY <2>0, <4>1, <4>2
      <3>4. QED
        BY <3>1, <3>2, <3>3 DEF Kinds, Custom, ContextOf
    <2>3. ctx[ContextOf(kind)] \in ContextType
      BY <2>0, <2>1
    <2>4. QED
      BY <2>2, <2>3, InRangeIsInBand
  <1>2. QED
    BY <1>1, InductiveInvariant, PTL

(***************************************************************************)
(* Rounds.                                                                 *)
(***************************************************************************)
\* The pass of a custom sweep that channel f belongs to.
PassOf(kind, f) ==
  CASE kind = "CUS_SWEEP_BLE_TX_V4" -> f % 2
    [] kind = "CUS_SWEEP_24G_TX_V4" -> (f + 2) % 4
    [] OTHER -> 0

\* The current channel belongs to the current pass.
Aligned(kind, c) == kind \in Custom => c.step = PassOf(kind, c.current)

\* The channels of the band that the sweep whose context is c has done.
Passed(kind, c) ==
  {f \in Band(kind, c) :
     IF kind \in Custom
     THEN PassOf(kind, f) < c.step \/ (PassOf(kind, f) = c.step /\ f < c.current)
     ELSE f < c.current}

\* The channel a round starts with.
FirstOfRound(kind, c) ==
  CASE kind = "CUS_SWEEP_BLE_TX_V4" -> Context(0, 0, 0)
    [] kind = "CUS_SWEEP_24G_TX_V4" -> Context(0, 0, 2)
    [] kind = "CUS_SWEEP_24G_CARRIER" -> Context(0, 0, 2402)
    [] OTHER -> [c EXCEPT !.current = c.min]

\* No end of the range is one that 8 bits pass without a carry.
EndsFit(kind, c) == kind = "SWEEP_TX_V4" => 255 \notin {c.min, c.max}

\* The sweep the timer is on for has tried what lies before its current channel,
\* and no custom sweep has a range.
RoundInv ==
  /\ ctx["custom"].min = 0 /\ ctx["custom"].max = 0
  /\ callback \in Custom => set_up = callback
  /\ callback # "NONE" =>
       LET c == ctx[ContextOf(callback)]
       IN EndsFit(callback, c) =>
            /\ completed = NoRound \/ Tried(completed, Band(callback, c))
            /\ ~mixed => Aligned(callback, c) /\ Tried(round, Passed(callback, c))

LEMMA Intervals ==
  ASSUME NEW a \in Int, NEW b \in Int, NEW f
  PROVE  f \in a .. b <=> f \in Int /\ a <= f /\ f <= b
  OBVIOUS

\* The bands, channel by channel.
LEMMA BandMembers ==
  ASSUME NEW c \in ContextType, NEW f
  PROVE  /\ f \in Band("SWEEP_TX_V4", c) <=>
              f \in Nat /\ (f = c.min \/ (c.min <= f /\ f <= c.max))
         /\ f \in Band("SWEEP_CARRIER", c) <=>
              f \in Nat /\ (f = c.min \/ (c.min <= f /\ f <= c.max)) /\ (f - c.min) % 2 = 0
         /\ f \in Band("CUS_SWEEP_BLE_TX_V4", c) <=> f \in Nat /\ 0 <= f /\ f <= 39
         /\ f \in Band("CUS_SWEEP_24G_TX_V4", c) <=> f \in Nat /\ 2 <= f /\ f <= 80
         /\ f \in Band("CUS_SWEEP_24G_CARRIER", c) <=> f \in Nat /\ 2402 <= f /\ f <= 2480
  <1>0. c.min \in Nat /\ c.max \in Nat
    BY DEF ContextType, Word
  <1>1. f \in UpTo(c.min, c.max) <=> f \in Nat /\ (f = c.min \/ (c.min <= f /\ f <= c.max))
    BY <1>0 DEF UpTo
  <1>2. Band("SWEEP_TX_V4", c) = UpTo(c.min, c.max)
    BY DEF Band
  <1>3. Band("SWEEP_CARRIER", c) = {g \in UpTo(c.min, c.max) : (g - c.min) % 2 = 0}
    BY DEF Band
  <1>4. f \in Band("CUS_SWEEP_BLE_TX_V4", c) <=> f \in Int /\ 0 <= f /\ f <= 39
    <2>1. f \in Band("CUS_SWEEP_BLE_TX_V4", c) <=> f \in 0 .. 39
      BY DEF Band
    <2>2. f \in 0 .. 39 <=> f \in Int /\ 0 <= f /\ f <= 39
      BY Intervals
    <2>3. QED
      BY <2>1, <2>2
  <1>5. f \in Band("CUS_SWEEP_24G_TX_V4", c) <=> f \in Int /\ 2 <= f /\ f <= 80
    <2>1. f \in Band("CUS_SWEEP_24G_TX_V4", c) <=> f \in 2 .. 80
      BY DEF Band
    <2>2. f \in 2 .. 80 <=> f \in Int /\ 2 <= f /\ f <= 80
      BY Intervals
    <2>3. QED
      BY <2>1, <2>2
  <1>6. f \in Band("CUS_SWEEP_24G_CARRIER", c) <=> f \in Int /\ 2402 <= f /\ f <= 2480
    <2>1. f \in Band("CUS_SWEEP_24G_CARRIER", c) <=> f \in 2402 .. 2480
      BY DEF Band
    <2>2. f \in 2402 .. 2480 <=> f \in Int /\ 2402 <= f /\ f <= 2480
      BY Intervals
    <2>3. QED
      BY <2>1, <2>2
  <1>7. QED
    BY <1>1, <1>2, <1>3, <1>4, <1>5, <1>6

\* A channel is passed if its pass is over, or it comes first in the current one.
LEMMA PassedMembers ==
  ASSUME NEW kind \in Kinds, NEW c, NEW f
  PROVE  /\ kind \notin Custom => (f \in Passed(kind, c) <=> f \in Band(kind, c) /\ f < c.current)
         /\ kind \in Custom =>
              (f \in Passed(kind, c) <=>
                 /\ f \in Band(kind, c)
                 /\ PassOf(kind, f) < c.step \/ (PassOf(kind, f) = c.step /\ f < c.current))
  BY DEF Passed

\* The current channel is not among them.
LEMMA CurrentNotPassed ==
  ASSUME NEW kind \in Kinds, NEW c \in ContextType, Aligned(kind, c)
  PROVE  c.current \notin Passed(kind, c)
  <1>1. c.current \in Nat
    BY DEF ContextType, Word
  <1>2. CASE kind \in Custom
    <2>1. PassOf(kind, c.current) = c.step /\ c.step \in Nat
      BY <1>2 DEF Aligned, ContextType, Step
    <2>2. QED
      BY <1>1, <1>2, <2>1, PassedMembers
  <1>3. CASE kind \notin Custom
    BY <1>1, <1>3, PassedMembers
  <1>4. QED
    BY <1>2, <1>3

\* What the round does when the sweep goes on: it closes, with every channel,
\* or has the current channel more.
RoundGoesOn(kind, c, d) ==
  IF d = FirstOfRound(kind, c)
  THEN Passed(kind, c) \cup {c.current} = Band(kind, c) /\ Passed(kind, d) = {}
  ELSE Passed(kind, d) = Passed(kind, c) \cup {c.current}

\* The sweep of every second channel of a range or of every one.
LEMMA RangeSweepGoesOn ==
  ASSUME NEW kind \in Kinds \ Custom, NEW c \in ContextType, InRange(kind, c), EndsFit(kind, c)
  PROVE  RoundGoesOn(kind, c, Iterate(kind, c))
  <1> DEFINE d == Iterate(kind, c)
             gap == IF kind = "SWEEP_TX_V4" THEN 1 ELSE 2
             n == c.current + gap
             next == IF n > c.max THEN c.min ELSE n
  <1>0. /\ c.min \in Nat /\ c.max \in Nat /\ c.current \in Nat /\ gap \in {1, 2}
        /\ kind \in {"SWEEP_TX_V4", "SWEEP_CARRIER"} /\ n \in Nat /\ next \in Nat /\ next \in Word
    <2>1. kind \in {"SWEEP_TX_V4", "SWEEP_CARRIER"}
      BY DEF Kinds, Custom, ContextOf
    <2>2. c.min \in Word /\ c.max \in Word /\ c.current \in Word
      BY DEF ContextType
    <2>3. next \in Word
      <3>1. CASE n > c.max
        BY <2>2, <3>1
      <3>2. CASE ~(n > c.max)
        BY <2>2, <3>2 DEF Word
      <3>3. QED
        BY <3>1, <3>2
    <2>4. QED
      BY <2>1, <2>2, <2>3 DEF Word
  <1>1. c.current = c.min \/ (c.min <= c.current /\ c.current <= c.max)
    BY <1>0 DEF InRange, TxRange, CarrierRange, EndsFit
  <1>2. d = [c EXCEPT !.current = next]
    <2>1. CASE kind = "SWEEP_TX_V4"
      <3>1. c.current < 255
        BY <1>0, <1>1, <2>1 DEF InRange, TxRange, EndsFit
      <3>2. (c.current + 1) % 256 = n
        BY <1>0, <2>1, <3>1
      <3>3. d = Advance(c, n)
        BY <2>1, <3>2 DEF Iterate
      <3>4. QED
        BY <3>3 DEF Advance
    <2>2. CASE kind = "SWEEP_CARRIER"
      <3>1. c.current < 2656
        BY <1>0, <1>1, <2>2 DEF InRange, CarrierRange
      <3>2. (c.current + 2) % 65536 = n
        BY <1>0, <2>2, <3>1
      <3>3. d = Advance(c, n)
        BY <2>2, <3>2 DEF Iterate
      <3>4. QED
        BY <3>3 DEF Advance
    <2>3. QED
      BY <1>0, <2>1, <2>2
  <1>3. kind = "SWEEP_CARRIER" => (c.current - c.min) % 2 = 0
    BY DEF InRange, CarrierRange
  <1>4. FirstOfRound(kind, c) = [c EXCEPT !.current = c.min]
    BY <1>0 DEF FirstOfRound
  <1> DEFINE In(f) == f \in Nat /\ (f = c.min \/ (c.min <= f /\ f <= c.max))
                      /\ (kind = "SWEEP_CARRIER" => (f - c.min) % 2 = 0)
  <1> HIDE DEF d
  <1>5. /\ d \in ContextType /\ d.min = c.min /\ d.max = c.max /\ d.current = next
    BY <1>0, <1>2, CurrentChanges
  <1>6. /\ \A f : f \in Band(kind, c) <=> In(f)
        /\ \A f : f \in Passed(kind, c) <=> In(f) /\ f < c.current
        /\ \A f : f \in Passed(kind, d) <=> In(f) /\ f < next
    <2>1. \A f : (f \in Band(kind, c) <=> In(f)) /\ (f \in Band(kind, d) <=> In(f))
      BY <1>0, <1>5, BandMembers
    <2>2. \A f : /\ f \in Passed(kind, c) <=> f \in Band(kind, c) /\ f < c.current
                 /\ f \in Passed(kind, d) <=> f \in Band(kind, d) /\ f < d.current
      BY PassedMembers
    <2> HIDE DEF In, next
    <2>3. QED
      BY <1>5, <2>1, <2>2
  <1>7. CASE n > c.max
    <2>1. next = c.min /\ d = FirstOfRound(kind, c)
      BY <1>2, <1>4, <1>7
    <2>2. \A f : In(f) <=> (In(f) /\ f < c.current) \/ f = c.current
      <3>1. In(c.current)
        BY <1>0, <1>1, <1>3
      <3>2. ASSUME NEW f, In(f) PROVE f < c.current \/ f = c.current
        BY <1>0, <1>1, <1>3, <1>7, <3>2
      <3>3. QED
        BY <3>1, <3>2
    <2>3. \A f : ~(In(f) /\ f < c.min)
      BY <1>0
    <2> HIDE DEF In, next
    <2>4. Passed(kind, c) \cup {c.current} = Band(kind, c)
      BY <1>6, <2>2
    <2>5. Passed(kind, d) = {}
      BY <1>6, <2>1, <2>3
    <2>6. RoundGoesOn(kind, c, d)
      BY <2>1, <2>4, <2>5 DEF RoundGoesOn
    <2>7. QED
      BY <2>6 DEF d
  <1>8. CASE ~(n > c.max)
    <2>1. next = n
      BY <1>8
    <2>2. d # FirstOfRound(kind, c)
      <3>1. d.current # c.min
        BY <1>0, <1>1, <1>5, <2>1
      <3>2. FirstOfRound(kind, c).current = c.min
        BY <1>4 DEF ContextType
      <3>3. QED
        BY <3>1, <3>2
    <2>3. \A f : (In(f) /\ f < n) <=> (In(f) /\ f < c.current) \/ f = c.current
      <3>1. In(c.current) /\ c.current < n
        BY <1>0, <1>1, <1>3
      <3>2. ASSUME NEW f, In(f), f < n, ~(f < c.current) PROVE f = c.current
        BY <1>0, <1>1, <1>3, <3>2
      <3>3. ASSUME NEW f, In(f), f < c.current PROVE f < n
        BY <1>0, <3>3
      <3>4. QED
        BY <3>1, <3>2, <3>3
    <2> HIDE DEF In, next, n
    <2>4. Passed(kind, d) = Passed(kind, c) \cup {c.current}
      BY <1>6, <2>1, <2>3
    <2>5. RoundGoesOn(kind, c, d)
      BY <2>2, <2>4 DEF RoundGoesOn
    <2>6. QED
      BY <2>5 DEF d
  <1>9. QED
    BY <1>7, <1>8

\* The custom sweeps, given the step to the next channel.
LEMMA CustomMembers ==
  ASSUME NEW kind \in Custom, NEW c \in ContextType, NEW f
  PROVE  /\ kind = "CUS_SWEEP_BLE_TX_V4" =>
              (f \in Passed(kind, c) <=>
                 f \in Nat /\ f <= 39 /\ (f % 2 < c.step \/ (f % 2 = c.step /\ f < c.current)))
         /\ kind = "CUS_SWEEP_24G_TX_V4" =>
              (f \in Passed(kind, c) <=>
                 /\ f \in Nat /\ 2 <= f /\ f <= 80
                 /\ (f + 2) % 4 < c.step \/ ((f + 2) % 4 = c.step /\ f < c.current))
         /\ kind = "CUS_SWEEP_24G_CARRIER" =>
              (f \in Passed(kind, c) <=>
                 f \in Nat /\ 2402 <= f /\ f <= 2480 /\ (0 < c.step \/ (0 = c.step /\ f < c.current)))
  <1>0. kind \in Kinds
    BY DEF Custom
  <1>1. f \in Passed(kind, c) <=>
          /\ f \in Band(kind, c)
          /\ PassOf(kind, f) < c.step \/ (PassOf(kind, f) = c.step /\ f < c.current)
    BY <1>0, PassedMembers
  <1>2. CASE kind = "CUS_SWEEP_BLE_TX_V4"
    <2>1. PassOf(kind, f) = f % 2
      BY <1>2 DEF PassOf
    <2>2. f \in Band(kind, c) <=> f \in Nat /\ 0 <= f /\ f <= 39
      BY <1>2, BandMembers
    <2>3. QED
      BY <1>1, <1>2, <2>1, <2>2
  <1>3. CASE kind = "CUS_SWEEP_24G_TX_V4"
    <2>1. PassOf(kind, f) = (f + 2) % 4
      BY <1>3 DEF PassOf
    <2>2. f \in Band(kind, c) <=> f \in Nat /\ 2 <= f /\ f <= 80
      BY <1>3, BandMembers
    <2>3. QED
      BY <1>1, <1>3, <2>1, <2>2
  <1>4. CASE kind = "CUS_SWEEP_24G_CARRIER"
    <2>1. PassOf(kind, f) = 0
      BY <1>4 DEF PassOf
    <2>2. f \in Band(kind, c) <=> f \in Nat /\ 2402 <= f /\ f <= 2480
      BY <1>4, BandMembers
    <2>3. QED
      BY <1>1, <1>4, <2>1, <2>2
  <1>5. QED
    BY <1>0, <1>2, <1>3, <1>4 DEF Kinds, Custom, ContextOf

\* The first channel of a round, and no other context without a range, is what
\* a custom sweep starts with.
LEMMA FirstOfCustomRound ==
  ASSUME NEW kind \in Custom, NEW d \in ContextType, d.min = 0, d.max = 0
  PROVE  d = FirstOfRound(kind, d) <=>
           /\ d.step = 0
           /\ d.current = CASE kind = "CUS_SWEEP_BLE_TX_V4" -> 0
                            [] kind = "CUS_SWEEP_24G_TX_V4" -> 2
                            [] kind = "CUS_SWEEP_24G_CARRIER" -> 2402
  <1>0. kind \in {"CUS_SWEEP_BLE_TX_V4", "CUS_SWEEP_24G_TX_V4", "CUS_SWEEP_24G_CARRIER"}
    BY DEF Custom, Kinds, ContextOf
  <1> DEFINE first == CASE kind = "CUS_SWEEP_BLE_TX_V4" -> 0
                        [] kind = "CUS_SWEEP_24G_TX_V4" -> 2
                        [] kind = "CUS_SWEEP_24G_CARRIER" -> 2402
  <1>1. FirstOfRound(kind, d) = Context(0, 0, first)
    BY <1>0 DEF FirstOfRound
  <1> HIDE DEF first
  <1>2. d = [min |-> d.min, max |-> d.max, current |-> d.current, step |-> d.step]
    BY DEF ContextType
  <1>3. d = Context(0, 0, first) <=> d.step = 0 /\ d.current = first
    BY <1>2 DEF Context
  <1>4. d = FirstOfRound(kind, d) <=> d.step = 0 /\ d.current = first
    BY <1>1, <1>3
  <1>5. QED
    BY <1>4 DEF first

\* The even channels, then the odd ones.
LEMMA BleSweepGoesOn ==
  ASSUME NEW c \in ContextType, c.min = 0, c.max = 0, InRange("CUS_SWEEP_BLE_TX_V4", c),
         Aligned("CUS_SWEEP_BLE_TX_V4", c)
  PROVE  /\ RoundGoesOn("CUS_SWEEP_BLE_TX_V4", c, NextBle(c))
         /\ Aligned("CUS_SWEEP_BLE_TX_V4", NextBle(c))
  <1> DEFINE kind == "CUS_SWEEP_BLE_TX_V4"
             d == NextBle(c)
             n == c.current + 2
  <1>0. kind \in Custom /\ c.current \in Nat /\ c.current <= 39 /\ c.step \in {0, 1} /\ n \in Nat
    BY DEF Custom, Kinds, ContextOf, ContextType, InRange, Word
  <1>1. c.step = c.current % 2
    BY <1>0 DEF Aligned, PassOf
  <1>2. (c.current + 2) % 65536 = n
    BY <1>0
  <1>3. d \in ContextType /\ d.min = 0 /\ d.max = 0
    <2>1. d = Iterate(kind, c)
      BY DEF Iterate
    <2>2. d \in ContextType
      BY <1>0, <2>1, IterateInRange DEF Custom
    <2>3. d.min = 0 /\ d.max = 0
      BY DEF NextBle, ContextType
    <2>4. QED
      BY <2>2, <2>3
  <1>4. /\ n > 39 => d.step = 1 - c.step /\ d.current = 1 - c.step
        /\ ~(n > 39) => d.step = c.step /\ d.current = n
    BY <1>0, <1>2 DEF NextBle, PassedBle, ContextType
  <1>5. Aligned(kind, d)
    <2>1. d.step = d.current % 2
      BY <1>0, <1>1, <1>4
    <2>2. QED
      BY <2>1 DEF Aligned, PassOf
  <1> HIDE DEF d
  <1>6. \A f : /\ f \in Band(kind, c) <=> f \in Nat /\ f <= 39
               /\ f \in Passed(kind, c) <=>
                    f \in Nat /\ f <= 39 /\ (f % 2 < c.step \/ (f % 2 = c.step /\ f < c.current))
               /\ f \in Passed(kind, d) <=>
                    f \in Nat /\ f <= 39 /\ (f % 2 < d.step \/ (f % 2 = d.step /\ f < d.current))
    BY <1>0, <1>3, BandMembers, CustomMembers
  <1>7. d = FirstOfRound(kind, c) <=> d.step = 0 /\ d.current = 0
    <2>1. FirstOfRound(kind, c) = FirstOfRound(kind, d)
      BY DEF FirstOfRound
    <2>2. QED
      BY <1>0, <1>3, <2>1, FirstOfCustomRound
  <1>8. CASE n > 39 /\ c.step = 1
    <2>1. d.step = 0 /\ d.current = 0 /\ c.current = 39
      BY <1>0, <1>1, <1>4, <1>8
    <2>2. Passed(kind, c) \cup {c.current} = Band(kind, c)
      BY <1>6, <1>8, <2>1
    <2>3. Passed(kind, d) = {}
      BY <1>6, <2>1
    <2>4. QED
      BY <1>5, <1>7, <2>1, <2>2, <2>3 DEF RoundGoesOn, d
  <1>9. CASE ~(n > 39 /\ c.step = 1)
    <2>1. d # FirstOfRound(kind, c)
      BY <1>0, <1>4, <1>7, <1>9
    <2>2. Passed(kind, d) = Passed(kind, c) \cup {c.current}
      <3>1. CASE n > 39
        <4>1. c.current = 38 /\ c.step = 0 /\ d.step = 1 /\ d.current = 1
          BY <1>0, <1>1, <1>4, <1>9, <3>1
        <4>2. QED
          BY <1>6, <4>1
      <3>2. CASE ~(n > 39)
        <4>1. d.step = c.step /\ d.current = c.current + 2
          BY <1>4, <3>2
        <4>2. ASSUME NEW f \in Nat PROVE f % 2 = c.step /\ f < n <=>
                                          (f % 2 = c.step /\ f < c.current) \/ f = c.current
          BY <1>0, <1>1
        <4>3. \A f : f \in Passed(kind, d) <=> f \in Passed(kind, c) \/ f = c.current
          BY <1>0, <1>1, <1>6, <4>1, <4>2
        <4>4. QED
          BY <4>3
      <3>3. QED
        BY <3>1, <3>2
    <2>3. QED
      BY <1>5, <2>1, <2>2 DEF RoundGoesOn, d
  <1>10. QED
    BY <1>8, <1>9

\* Four passes, of every fourth channel.
LEMMA TwentyFourGSweepGoesOn ==
  ASSUME NEW c \in ContextType, c.min = 0, c.max = 0, InRange("CUS_SWEEP_24G_TX_V4", c),
         Aligned("CUS_SWEEP_24G_TX_V4", c)
  PROVE  /\ RoundGoesOn("CUS_SWEEP_24G_TX_V4", c, Next24G(c))
         /\ Aligned("CUS_SWEEP_24G_TX_V4", Next24G(c))
  <1> DEFINE kind == "CUS_SWEEP_24G_TX_V4"
             d == Next24G(c)
             n == c.current + 4
  <1>0. /\ kind \in Custom /\ c.current \in Nat /\ 2 <= c.current /\ c.current <= 80
        /\ c.step \in {0, 1, 2, 3} /\ n \in Nat
    BY DEF Custom, Kinds, ContextOf, ContextType, InRange, Word, Step
  <1>1. c.step = (c.current + 2) % 4
    BY <1>0 DEF Aligned, PassOf
  <1>2. (c.current + 4) % 65536 = n
    BY <1>0
  <1>3. d \in ContextType /\ d.min = 0 /\ d.max = 0
    <2>1. d = Iterate(kind, c)
      BY DEF Iterate
    <2>2. d \in ContextType
      BY <1>0, <2>1, IterateInRange DEF Custom
    <2>3. d.min = 0 /\ d.max = 0
      BY DEF Next24G, ContextType
    <2>4. QED
      BY <2>2, <2>3
  <1>4. /\ n > 80 => d.step = StepAfter(c.step) /\ d.current = FirstOf(c.step)
        /\ ~(n > 80) => d.step = c.step /\ d.current = n
    BY <1>0, <1>2 DEF Next24G, ContextType
  <1>5. Aligned(kind, d)
    <2>1. d.step = (d.current + 2) % 4
      BY <1>0, <1>1, <1>4 DEF StepAfter, FirstOf
    <2>2. QED
      BY <2>1 DEF Aligned, PassOf
  <1> HIDE DEF d
  <1>6. \A f : /\ f \in Band(kind, c) <=> f \in Nat /\ 2 <= f /\ f <= 80
               /\ f \in Passed(kind, c) <=>
                    /\ f \in Nat /\ 2 <= f /\ f <= 80
                    /\ (f + 2) % 4 < c.step \/ ((f + 2) % 4 = c.step /\ f < c.current)
               /\ f \in Passed(kind, d) <=>
                    /\ f \in Nat /\ 2 <= f /\ f <= 80
                    /\ (f + 2) % 4 < d.step \/ ((f + 2) % 4 = d.step /\ f < d.current)
    BY <1>0, <1>3, BandMembers, CustomMembers
  <1>7. d = FirstOfRound(kind, c) <=> d.step = 0 /\ d.current = 2
    <2>1. FirstOfRound(kind, c) = FirstOfRound(kind, d)
      BY DEF FirstOfRound
    <2>2. QED
      BY <1>0, <1>3, <2>1, FirstOfCustomRound
  <1>8. CASE n > 80 /\ c.step = 3
    <2>1. d.step = 0 /\ d.current = 2 /\ c.current = 77
      BY <1>0, <1>1, <1>4, <1>8 DEF StepAfter, FirstOf
    <2>2. Passed(kind, c) \cup {c.current} = Band(kind, c)
      BY <1>6, <1>8, <2>1
    <2>3. Passed(kind, d) = {}
      BY <1>6, <2>1
    <2>4. QED
      BY <1>5, <1>7, <2>1, <2>2, <2>3 DEF RoundGoesOn, d
  <1>9. CASE ~(n > 80 /\ c.step = 3)
    <2>1. d # FirstOfRound(kind, c)
      BY <1>0, <1>4, <1>7, <1>9 DEF StepAfter, FirstOf
    <2>2. Passed(kind, d) = Passed(kind, c) \cup {c.current}
      <3>1. CASE n > 80
        <4>0. c.step \in {0, 1, 2} /\ c.current \in {77, 78, 79, 80}
          BY <1>0, <1>9, <3>1
        <4>1. c.current = 78 + c.step
          BY <1>1, <4>0
        <4>2. d.step = c.step + 1 /\ d.current = c.step + 3
          BY <1>4, <3>1, <4>0 DEF StepAfter, FirstOf
        <4>3. ASSUME NEW f \in Nat, 2 <= f, f <= 80
              PROVE  f \in Passed(kind, d) <=> f \in Passed(kind, c) \/ f = c.current
          <5> DEFINE pass == (f + 2) % 4
          <5>1. pass \in {0, 1, 2, 3}
            OBVIOUS
          <5>2. pass = 0 => f <= 78
            BY <4>3
          <5>3. pass = 1 => f <= 79 /\ f >= 3
            BY <4>3
          <5>4. pass = 2 => f >= 4
            BY <4>3
          <5>5. pass = 3 => f >= 5
            BY <4>3
          <5>6. (c.current + 2) % 4 = c.step
            BY <1>1
          <5>7. /\ f \in Passed(kind, c) <=> pass < c.step \/ (pass = c.step /\ f < c.current)
                /\ f \in Passed(kind, d) <=> pass < d.step \/ (pass = d.step /\ f < d.current)
            BY <1>6, <4>3
          <5>8. f = c.current => pass = c.step
            BY <5>6
          <5> HIDE DEF pass
          <5>9. pass = c.step => f <= c.current
            BY <4>0, <4>1, <4>3, <5>2, <5>3
          <5>10. ~(pass = d.step /\ f < d.current)
            BY <4>0, <4>2, <4>3, <5>3, <5>4, <5>5
          <5>11. QED
            BY <4>0, <4>1, <4>2, <5>1, <5>7, <5>8, <5>9, <5>10
        <4>4. \A f : f \in Passed(kind, d) <=> f \in Passed(kind, c) \/ f = c.current
          BY <1>0, <1>6, <4>3
        <4>5. QED
          BY <4>4
      <3>2. CASE ~(n > 80)
        <4>1. d.step = c.step /\ d.current = c.current + 4
          BY <1>4, <3>2
        <4>2. ASSUME NEW f \in Nat PROVE (f + 2) % 4 = c.step /\ f < n <=>
                                          ((f + 2) % 4 = c.step /\ f < c.current) \/ f = c.current
          BY <1>0, <1>1
        <4>3. \A f : f \in Passed(kind, d) <=> f \in Passed(kind, c) \/ f = c.current
          BY <1>0, <1>1, <1>6, <4>1, <4>2
        <4>4. QED
          BY <4>3
      <3>3. QED
        BY <3>1, <3>2
    <2>3. QED
      BY <1>5, <2>1, <2>2 DEF RoundGoesOn, d
  <1>10. QED
    BY <1>8, <1>9

\* One pass, of every channel.
LEMMA TwentyFourGCarrierGoesOn ==
  ASSUME NEW c \in ContextType, c.min = 0, c.max = 0, InRange("CUS_SWEEP_24G_CARRIER", c),
         Aligned("CUS_SWEEP_24G_CARRIER", c)
  PROVE  /\ RoundGoesOn("CUS_SWEEP_24G_CARRIER", c, Next24GCarrier(c))
         /\ Aligned("CUS_SWEEP_24G_CARRIER", Next24GCarrier(c))
  <1> DEFINE kind == "CUS_SWEEP_24G_CARRIER"
             d == Next24GCarrier(c)
             n == c.current + 1
  <1>0. /\ kind \in Custom /\ c.current \in Nat /\ 2402 <= c.current /\ c.current <= 2480
        /\ c.step = 0 /\ n \in Nat
    BY DEF Custom, Kinds, ContextOf, ContextType, InRange, Word, Aligned, PassOf
  <1>1. (c.current + 1) % 65536 = n
    BY <1>0
  <1>2. d \in ContextType /\ d.min = 0 /\ d.max = 0
    <2>1. d = Iterate(kind, c)
      BY DEF Iterate
    <2>2. d \in ContextType
      BY <1>0, <2>1, IterateInRange DEF Custom
    <2>3. d.min = 0 /\ d.max = 0
      BY DEF Next24GCarrier, ContextType
    <2>4. QED
      BY <2>2, <2>3
  <1>3. d.step = 0 /\ d.current = IF n > 2480 THEN 2402 ELSE n
    BY <1>0, <1>1 DEF Next24GCarrier, ContextType
  <1>4. Aligned(kind, d)
    BY <1>3 DEF Aligned, PassOf
  <1> HIDE DEF d
  <1>5. \A f : /\ f \in Band(kind, c) <=> f \in Nat /\ 2402 <= f /\ f <= 2480
               /\ f \in Passed(kind, c) <=> f \in Nat /\ 2402 <= f /\ f <= 2480 /\ f < c.current
               /\ f \in Passed(kind, d) <=> f \in Nat /\ 2402 <= f /\ f <= 2480 /\ f < d.current
    BY <1>0, <1>2, <1>3, BandMembers, CustomMembers
  <1>6. d = FirstOfRound(kind, c) <=> d.step = 0 /\ d.current = 2402
    <2>1. FirstOfRound(kind, c) = FirstOfRound(kind, d)
      BY DEF FirstOfRound
    <2>2. QED
      BY <1>0, <1>2, <2>1, FirstOfCustomRound
  <1>7. CASE n > 2480
    <2>1. d.current = 2402 /\ c.current = 2480
      BY <1>0, <1>3, <1>7
    <2>2. Passed(kind, c) \cup {c.current} = Band(kind, c)
      BY <1>5, <2>1
    <2>3. Passed(kind, d) = {}
      BY <1>5, <2>1
    <2>4. QED
      BY <1>3, <1>4, <1>6, <2>1, <2>2, <2>3 DEF RoundGoesOn, d
  <1>8. CASE ~(n > 2480)
    <2>1. d # FirstOfRound(kind, c)
      BY <1>0, <1>3, <1>6, <1>8
    <2>2. Passed(kind, d) = Passed(kind, c) \cup {c.current}
      BY <1>0, <1>3, <1>5, <1>8
    <2>3. QED
      BY <1>4, <2>1, <2>2 DEF RoundGoesOn, d
  <1>9. QED
    BY <1>7, <1>8

\* Every sweep that goes by its own rules.
LEMMA SweepGoesOn ==
  ASSUME NEW kind \in Kinds, NEW c \in ContextType, InRange(kind, c), EndsFit(kind, c),
         Aligned(kind, c), kind \in Custom => c.min = 0 /\ c.max = 0
  PROVE  RoundGoesOn(kind, c, Iterate(kind, c)) /\ Aligned(kind, Iterate(kind, c))
  <1>1. CASE kind \notin Custom
    BY <1>1, RangeSweepGoesOn DEF Aligned
  <1>2. CASE kind = "CUS_SWEEP_BLE_TX_V4"
    <2>1. Iterate(kind, c) = NextBle(c) /\ kind \in Custom
      BY <1>2 DEF Iterate, Custom, ContextOf, Kinds
    <2>2. QED
      BY <1>2, <2>1, BleSweepGoesOn
  <1>3. CASE kind = "CUS_SWEEP_24G_TX_V4"
    <2>1. Iterate(kind, c) = Next24G(c) /\ kind \in Custom
      BY <1>3 DEF Iterate, Custom, ContextOf, Kinds
    <2>2. QED
      BY <1>3, <2>1, TwentyFourGSweepGoesOn
  <1>4. CASE kind = "CUS_SWEEP_24G_CARRIER"
    <2>1. Iterate(kind, c) = Next24GCarrier(c) /\ kind \in Custom
      BY <1>4 DEF Iterate, Custom, ContextOf, Kinds
    <2>2. QED
      BY <1>4, <2>1, TwentyFourGCarrierGoesOn
  <1>5. QED
    BY <1>1, <1>2, <1>3, <1>4 DEF Kinds, Custom, ContextOf

\* A sweep keeps the ends of its range.
LEMMA IterateKeepsEnds ==
  ASSUME NEW kind \in Kinds, NEW c \in ContextType
  PROVE  Iterate(kind, c).min = c.min /\ Iterate(kind, c).max = c.max
  <1>1. CASE kind \in {"SWEEP_TX_V4", "SWEEP_CARRIER"}
    <2>1. PICK n : Iterate(kind, c) = Advance(c, n)
      BY <1>1 DEF Iterate
    <2>2. QED
      BY <2>1 DEF Advance, ContextType
  <1>2. CASE kind = "CUS_SWEEP_BLE_TX_V4"
    BY <1>2 DEF Iterate, NextBle, ContextType
  <1>3. CASE kind = "CUS_SWEEP_24G_TX_V4"
    BY <1>3 DEF Iterate, Next24G, ContextType
  <1>4. CASE kind = "CUS_SWEEP_24G_CARRIER"
    BY <1>4 DEF Iterate, Next24GCarrier, ContextType
  <1>5. QED
    BY <1>1, <1>2, <1>3, <1>4 DEF Kinds

\* The band of a sweep depends on the ends of its range only.
LEMMA EndsMakeBand ==
  ASSUME NEW kind \in Kinds, NEW c \in ContextType, NEW d \in ContextType,
         d.min = c.min, d.max = c.max
  PROVE  Band(kind, d) = Band(kind, c) /\ (EndsFit(kind, d) <=> EndsFit(kind, c))
  <1>1. \A f : f \in Band(kind, d) <=> f \in Band(kind, c)
    BY BandMembers DEF Kinds
  <1>2. QED
    BY <1>1 DEF EndsFit

\* A sweep that was just set up has passed no channel.
LEMMA SetUpStartsRound ==
  ASSUME NEW s \in Sweeps
  PROVE  /\ Passed(s.kind, SetUp(s)) = {} /\ Aligned(s.kind, SetUp(s))
         /\ s.kind \in Custom => SetUp(s).min = 0 /\ SetUp(s).max = 0
  <1> DEFINE kind == s.kind
             d == SetUp(s)
  <1>0. kind \in Kinds /\ d \in ContextType /\ InRange(kind, d)
    BY SetUpInRange DEF Sweeps
  <1>1. CASE kind \notin Custom
    <2>1. d.current = d.min /\ d.min \in Nat
      <3>1. kind \in {"SWEEP_TX_V4", "SWEEP_CARRIER"}
        BY <1>0, <1>1 DEF Kinds, Custom, ContextOf
      <3>2. d.current = d.min
        BY <3>1 DEF SetUp, Context
      <3>3. QED
        BY <1>0, <3>2 DEF ContextType, Word
    <2> HIDE DEF kind, d
    <2>2. \A f : f \in Band(kind, d) => ~(f < d.current)
      <3>1. kind \in {"SWEEP_TX_V4", "SWEEP_CARRIER"}
        BY <1>0, <1>1 DEF Kinds, Custom, ContextOf
      <3>2. \A f : f \in Band(kind, d) => f \in Nat /\ (f = d.min \/ d.min <= f)
        BY <1>0, <3>1, BandMembers
      <3>3. QED
        BY <2>1, <3>2
    <2>3. Passed(kind, d) = {}
      BY <1>0, <1>1, <2>2, PassedMembers
    <2>4. Aligned(kind, d)
      BY <1>1 DEF Aligned
    <2>5. QED
      BY <1>1, <2>3, <2>4 DEF kind, d
  <1>2. CASE kind \in Custom
    <2>1. d = FirstOfRound(kind, d) /\ d.min = 0 /\ d.max = 0
      <3>1. kind \in {"CUS_SWEEP_BLE_TX_V4", "CUS_SWEEP_24G_TX_V4", "CUS_SWEEP_24G_CARRIER"}
        BY <1>0, <1>2 DEF Kinds, Custom, ContextOf
      <3>2. QED
        BY <3>1 DEF FirstOfRound, SetUp, Context
    <2> HIDE DEF d, kind
    <2>2. /\ d.step = 0
          /\ kind = "CUS_SWEEP_BLE_TX_V4" => d.current = 0
          /\ kind = "CUS_SWEEP_24G_TX_V4" => d.current = 2
          /\ kind = "CUS_SWEEP_24G_CARRIER" => d.current = 2402
      BY <1>0, <1>2, <2>1, FirstOfCustomRound
    <2>3. CASE kind = "CUS_SWEEP_BLE_TX_V4"
      <3>1. PassOf(kind, d.current) = 0
        BY <2>2, <2>3 DEF PassOf
      <3>2. \A f : f \notin Passed(kind, d)
        BY <1>0, <1>2, <2>2, <2>3, CustomMembers
      <3>3. QED
        BY <1>2, <2>1, <2>2, <3>1, <3>2 DEF Aligned, d, kind
    <2>4. CASE kind = "CUS_SWEEP_24G_TX_V4"
      <3>1. PassOf(kind, d.current) = 0
        BY <2>2, <2>4 DEF PassOf
      <3>2. \A f : f \notin Passed(kind, d)
        BY <1>0, <1>2, <2>2, <2>4, CustomMembers
      <3>3. QED
        BY <1>2, <2>1, <2>2, <3>1, <3>2 DEF Aligned, d, kind
    <2>5. CASE kind = "CUS_SWEEP_24G_CARRIER"
      <3>1. PassOf(kind, d.current) = 0
        BY <2>2, <2>5 DEF PassOf
      <3>2. \A f : f \notin Passed(kind, d)
        BY <1>0, <1>2, <2>2, <2>5, CustomMembers
      <3>3. QED
        BY <1>2, <2>1, <2>2, <3>1, <3>2 DEF Aligned, d, kind
    <2>6. QED
      BY <1>0, <1>2, <2>3, <2>4, <2>5 DEF Kinds, Custom, ContextOf
  <1>3. QED
    BY <1>1, <1>2

\* What RoundInv says of the sweep with a timer.
RoundOf(kind, c, m, last, r) ==
  EndsFit(kind, c) =>
    /\ last = NoRound \/ Tried(last, Band(kind, c))
    /\ ~m => Aligned(kind, c) /\ Tried(r, Passed(kind, c))

LEMMA RoundInvParts ==
  /\ RoundInv <=>
       /\ ctx["custom"].min = 0 /\ ctx["custom"].max = 0
       /\ callback \in Custom => set_up = callback
       /\ callback # "NONE" => RoundOf(callback, ctx[ContextOf(callback)], mixed, completed, round)
  /\ RoundInv' <=>
       /\ ctx'["custom"].min = 0 /\ ctx'["custom"].max = 0
       /\ callback' \in Custom => set_up' = callback'
       /\ callback' # "NONE" =>
            RoundOf(callback', ctx'[ContextOf(callback')], mixed', completed', round')
  BY DEF RoundInv, RoundOf

LEMMA InitRoundInv == Init => RoundInv
  <1> SUFFICES ASSUME Init PROVE RoundInv
    OBVIOUS
  <1>1. ctx["custom"] = Context(0, 0, 0)
    BY DEF Init, Contexts
  <1>2. ctx["custom"].min = 0 /\ ctx["custom"].max = 0
    BY <1>1 DEF Context
  <1>3. callback = "NONE" /\ callback \notin Custom
    BY DEF Init, Custom, Kinds
  <1>4. QED
    BY <1>2, <1>3 DEF RoundInv

LEMMA ServeSweepRoundInv == ASSUME IInv, RoundInv, ServeSweep PROVE RoundInv'
  <1> DEFINE s == serving.sweep
             d == SetUp(s)
  <1>1. s \in Sweeps /\ s.kind \in Kinds /\ ctx \in [Contexts -> ContextType]
    BY TypeOKParts, RequestFields DEF IInv
  <1>2. /\ ctx' = [ctx EXCEPT ![ContextOf(s.kind)] = d]
        /\ callback' = s.kind /\ set_up' = IF s.kind \in Custom THEN s.kind ELSE set_up
        /\ round' = NoRound /\ completed' = NoRound
    BY DEF ServeSweep, Served
  <1>3. /\ Passed(s.kind, d) = {} /\ Aligned(s.kind, d)
        /\ s.kind \in Custom => d.min = 0 /\ d.max = 0
    BY <1>1, SetUpStartsRound
  <1>4. ContextOf(s.kind) \in Contexts /\ (s.kind \in Custom <=> ContextOf(s.kind) = "custom")
    BY <1>1 DEF ContextOf, Contexts, Kinds, Custom
  <1> HIDE DEF s, d
  <1>5. ctx'[ContextOf(s.kind)] = d
    BY <1>1, <1>2, <1>4
  <1>6. ctx'["custom"].min = 0 /\ ctx'["custom"].max = 0
    <2>1. ctx["custom"].min = 0 /\ ctx["custom"].max = 0
      BY DEF RoundInv
    <2>2. CASE s.kind \in Custom
      BY <1>3, <1>4, <1>5, <2>2
    <2>3. CASE s.kind \notin Custom
      <3>1. ctx'["custom"] = ctx["custom"]
        BY <1>1, <1>2, <1>4, <2>3 DEF Contexts
      <3>2. QED
        BY <2>1, <3>1
    <2>4. QED
      BY <2>2, <2>3
  <1>7. RoundOf(s.kind, d, mixed', completed', round')
    BY <1>2, <1>3, NoneTried DEF RoundOf
  <1>8. QED
    BY <1>2, <1>5, <1>6, <1>7, RoundInvParts

LEMMA ServeForwardRoundInv ==
  ASSUME IInv, RoundInv, NEW started \in BOOLEAN, ServeForward(started)
  PROVE  RoundInv'
  <1> DEFINE kind == serving.sweep.kind
             x == ContextOf(kind)
             c == ctx[x]
             d == Iterate(kind, c)
             tried == Try(round, c.current, started)
             first == IF kind \in Custom THEN SetUp(serving.sweep)
                      ELSE [c EXCEPT !.current = c.min]
             b == ContextOf(callback)
  <1>0. /\ serving \in Requests /\ ctx \in [Contexts -> ContextType]
        /\ InRange("SWEEP_TX_V4", ctx["sweep_tx_v4"])
        /\ InRange("SWEEP_CARRIER", ctx["sweep_carrier"])
        /\ set_up # "NONE" /\ ~mixed => InRange(set_up, ctx["custom"])
        /\ callback \in Kinds \cup {"NONE"} /\ mixed \in BOOLEAN /\ round \in Round
    BY TypeOKParts DEF IInv, TypeOK
  <1>1. /\ ctx["custom"].min = 0 /\ ctx["custom"].max = 0
        /\ callback \in Custom => set_up = callback
        /\ callback # "NONE" => RoundOf(callback, ctx[b], mixed, completed, round)
    BY RoundInvParts
  <1>2. kind \in Kinds /\ x \in Contexts /\ c \in ContextType
    BY <1>0, RequestFields DEF ContextOf, Contexts, Kinds
  <1>3. d \in ContextType /\ d.min = c.min /\ d.max = c.max
    BY <1>2, IterateInRange, IterateKeepsEnds
  <1>4. UNCHANGED <<callback, set_up>>
    BY DEF ServeForward
  <1>5. \/ UNCHANGED <<ctx, mixed, round, completed>>
        \/ /\ ctx' = [ctx EXCEPT ![x] = d]
           /\ mixed' = (mixed \/ (kind \in Custom /\ kind # set_up))
           /\ IF kind # callback \/ mixed' THEN UNCHANGED <<round, completed>>
              ELSE IF d = first THEN round' = NoRound /\ completed' = tried
              ELSE round' = tried /\ UNCHANGED completed
    BY DEF ServeForward, Try
  <1>6. first = FirstOfRound(kind, c)
    BY <1>2 DEF FirstOfRound, SetUp, Kinds, Custom, ContextOf
  <1>7. /\ kind = "SWEEP_TX_V4" => x = "sweep_tx_v4"
        /\ kind = "SWEEP_CARRIER" => x = "sweep_carrier"
        /\ kind \in Custom <=> x = "custom"
        /\ kind \notin Custom => kind \in {"SWEEP_TX_V4", "SWEEP_CARRIER"}
        /\ kind # callback /\ x = b /\ callback # "NONE" => kind \in Custom /\ callback \in Custom
    BY <1>0, <1>2 DEF ContextOf, Custom, Kinds
  <1>8. callback # "NONE" => callback \in Kinds /\ b \in Contexts
    BY <1>0 DEF ContextOf, Contexts, Kinds
  <1> HIDE DEF kind, x, c, d, tried, first, b
  <1>9. CASE UNCHANGED <<ctx, mixed, round, completed>>
    BY <1>4, <1>9 DEF RoundInv
  <1>10. CASE /\ ctx' = [ctx EXCEPT ![x] = d]
              /\ mixed' = (mixed \/ (kind \in Custom /\ kind # set_up))
              /\ IF kind # callback \/ mixed' THEN UNCHANGED <<round, completed>>
                 ELSE IF d = first THEN round' = NoRound /\ completed' = tried
                 ELSE round' = tried /\ UNCHANGED completed
    <2>1. ctx'[x] = d /\ \A y \in Contexts \ {x} : ctx'[y] = ctx[y]
      BY <1>0, <1>2, <1>10
    <2>2. ctx'["custom"].min = 0 /\ ctx'["custom"].max = 0
      <3>1. CASE x = "custom"
        BY <1>1, <1>3, <2>1, <3>1 DEF c
      <3>2. CASE x # "custom"
        BY <1>1, <2>1, <3>2 DEF Contexts
      <3>3. QED
        BY <3>1, <3>2
    <2>3. mixed' \in BOOLEAN /\ (~mixed' => ~mixed)
      BY <1>0, <1>10
    <2>4. ASSUME callback # "NONE"
          PROVE  RoundOf(callback, ctx'[b], mixed', completed', round')
      <3>0. RoundOf(callback, ctx[b], mixed, completed, round)
        BY <1>1, <2>4
      <3>1. CASE b # x
        <4>1. kind # callback /\ ctx'[b] = ctx[b]
          BY <1>8, <2>1, <2>4, <3>1 DEF b, x
        <4>2. round' = round /\ completed' = completed
          BY <1>10, <4>1
        <4>3. QED
          BY <2>3, <3>0, <4>1, <4>2 DEF RoundOf
      <3>2. CASE b = x
        <4>1. ctx'[b] = d /\ ctx[b] = c
          BY <2>1, <3>2 DEF c
        <4>2. Band(callback, d) = Band(callback, c) /\ (EndsFit(callback, d) <=> EndsFit(callback, c))
          BY <1>2, <1>3, <1>8, <2>4, EndsMakeBand
        <4>3. CASE kind # callback \/ mixed'
          <5>1. round' = round /\ completed' = completed
            BY <1>10, <4>3
          <5>2. mixed'
            BY <1>1, <1>7, <1>10, <2>4, <3>2, <4>3
          <5>3. QED
            BY <3>0, <4>1, <4>2, <5>1, <5>2 DEF RoundOf
        <4>4. CASE ~(kind # callback \/ mixed')
          <5>1. kind = callback /\ ~mixed
            BY <2>3, <4>4
          <5>2. InRange(kind, c)
            <6>1. CASE kind \notin Custom
              BY <1>0, <1>7, <6>1 DEF c
            <6>2. CASE kind \in Custom
              BY <1>0, <1>1, <1>7, <2>4, <5>1, <6>2 DEF c
            <6>3. QED
              BY <6>1, <6>2
          <5>3. ASSUME EndsFit(kind, c)
                PROVE  /\ completed' = NoRound \/ Tried(completed', Band(kind, d))
                       /\ Aligned(kind, d) /\ Tried(round', Passed(kind, d))
            <6>1. /\ completed = NoRound \/ Tried(completed, Band(kind, c))
                  /\ Aligned(kind, c) /\ Tried(round, Passed(kind, c))
              BY <3>0, <4>1, <5>1, <5>3 DEF RoundOf
            <6>2. kind \in Custom => c.min = 0 /\ c.max = 0
              BY <1>1, <1>7 DEF c
            <6>3. RoundGoesOn(kind, c, d) /\ Aligned(kind, d)
              BY <1>2, <5>2, <5>3, <6>1, <6>2, SweepGoesOn DEF d
            <6>4. Tried(tried, Passed(kind, c) \cup {c.current})
              BY <1>0, <1>2, <6>1, CurrentNotPassed, TryTries DEF tried
            <6>5. CASE d = first
              <7>1. Tried(tried, Band(kind, c)) /\ Passed(kind, d) = {}
                BY <1>6, <6>3, <6>4, <6>5 DEF RoundGoesOn
              <7>2. round' = NoRound /\ completed' = tried
                BY <1>10, <4>4, <6>5
              <7>3. QED
                BY <4>2, <5>1, <6>3, <7>1, <7>2, NoneTried
            <6>6. CASE d # first
              <7>1. Passed(kind, d) = Passed(kind, c) \cup {c.current}
                BY <1>6, <6>3, <6>6 DEF RoundGoesOn
              <7>2. round' = tried /\ completed' = completed
                BY <1>10, <4>4, <6>6
              <7>3. QED
                BY <4>2, <5>1, <6>1, <6>3, <6>4, <7>1, <7>2
            <6>7. QED
              BY <6>5, <6>6
          <5>4. QED
            BY <4>1, <4>2, <5>1, <5>3 DEF RoundOf
        <4>5. QED
          BY <4>3, <4>4
      <3>3. QED
        BY <3>1, <3>2
    <2>5. QED
      BY <1>1, <1>4, <2>2, <2>4, RoundInvParts DEF b
  <1>11. QED
    BY <1>5, <1>9, <1>10

LEMMA NextRoundInv == IInv /\ RoundInv /\ [Next]_vars => RoundInv'
  <1> SUFFICES ASSUME IInv, RoundInv, [Next]_vars PROVE RoundInv'
    OBVIOUS
  <1>1. CASE HostRequests \/ Tick \/ Pick \/ ServeSingle \/ ServeStop \/ StopFails \/ ForwardFails
             \/ UNCHANGED vars
    <2>1. UNCHANGED <<ctx, callback, set_up, mixed, round, completed>>
      BY <1>1 DEF HostRequests, Tick, Pick, ServeSingle, ServeStop, StopFails, ForwardFails,
                  history, vars
    <2>2. QED
      BY <2>1 DEF RoundInv
  <1>2. CASE ServeSweep
    BY <1>2, ServeSweepRoundInv
  <1>3. CASE \E started \in BOOLEAN : ServeForward(started)
    BY <1>3, ServeForwardRoundInv
  <1>4. QED
    BY <1>1, <1>2, <1>3 DEF Next

\* A round that a sweep closes has tried every channel of its band once, and no
\* other: the ones it has not tested are those whose test did not start.  Neither
\* these, nor what was started or replaced between, nor the late FORWARDs of the
\* sweep before, which count for this one, make it skip a channel of its two or
\* four passes or close a round early (iteration_dif_case).
THEOREM EveryRoundTriesTheBand == Spec => []RoundsAreComplete
  <1>1. IInv /\ RoundInv => RoundsAreComplete
    <2> SUFFICES ASSUME IInv, RoundInv, callback # "NONE", completed # NoRound,
                        OwnRules(callback, ctx[ContextOf(callback)])
                 PROVE  Tried(completed, Band(callback, ctx[ContextOf(callback)]))
      BY DEF RoundsAreComplete
    <2>1. EndsFit(callback, ctx[ContextOf(callback)])
      BY DEF OwnRules, EndsFit
    <2>2. QED
      BY <2>1 DEF RoundInv
  <1>2. Spec => []RoundInv
    BY InitRoundInv, NextRoundInv, InductiveInvariant, PTL DEF Spec
  <1>3. QED
    BY <1>1, <1>2, InductiveInvariant, PTL

=============================================================================
