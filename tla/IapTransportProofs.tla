-------------------------- MODULE IapTransportProofs --------------------------
(***************************************************************************)
(* Proofs about IapTransport, for every set of messages, every size of the *)
(* buffer and every modulus of the frame numbers.                          *)
(*                                                                         *)
(* A frame says where it stands in its message, but not in which message:  *)
(* a device that missed the last frame of one message and the first frame  *)
(* of the next would take the rest of the second for that of the first.    *)
(* The theorems are about lines on which that does not happen: no frame is *)
(* lost without a trace, or only while a host waits for its answer, or a   *)
(* host that does not wait loses one.                                      *)
(***************************************************************************)
EXTENDS IapTransport, TLAPS

Orderly(e) == e.losses = 0 \/ (~e.abandons /\ (e.waits \/ e.losses <= 1))
OrderlyLines == \A e \in Environments : Orderly(e)

\* The numbers of the frames of any message that fits are told apart: with 57
\* bytes in a frame the 8100 bytes of the buffer hold 143 frames, numbered
\* modulo 256.
BufferFitsNumbers == IAP_APP_MAX_BUFFER_SIZE <= PackNumModulus + 1

-----------------------------------------------------------------------------
(***************************************************************************)
(* The inductive invariant.                                                *)
(***************************************************************************)
Frame == STRING \X Nat
DataTypes == buffer \in Seq(Frame) /\ handed \in Seq(Frame)

\* The number the device expects when it holds the first k frames of m.
Expected(m, k) ==
  IF k = 1 THEN (((m.size - 1) % PackNumModulus) - 1) % PackNumModulus ELSE m.size - k - 1

\* The device holds the first k frames of the message, and waits for the next.
Holds(k) ==
  /\ state = "RECVING" /\ k \in 1 .. message.size - 1
  /\ buffer = SubSeq(Content(message), 1, k)
  /\ next_pack_num = Expected(message, k)
  /\ k > 1 => message.size <= PackNumModulus + 1

\* The host waits for the answer to a frame that did not arrive.
AwaitsLostFrame == env.waits /\ waiting /\ reply = NoReply /\ losses > 0

\* A host that does not wait is one frame ahead of the device.
IsOneAhead == ~env.waits /\ losses > 0 /\ position > 2 /\ Holds(position - 2)

\* What the device collects is the message the host is at, as far as it has
\* sent it, unless a frame was lost.
Tracks ==
  message # NoMessage /\ position > 1 /\ state = "RECVING"
    => Holds(position - 1) \/ AwaitsLostFrame \/ IsOneAhead

\* Until a host that does not wait loses a frame, it never leaves one message
\* unfinished for another.
FinishesMessages ==
  ~env.waits /\ env.losses > 0 /\ losses = 0 /\ state = "RECVING"
    => message # NoMessage /\ position > 1

\* Only a host that waits has a question open, and one that does not abandon
\* its messages takes the answer for the right one.
AsksInTurn ==
  /\ waiting => env.waits
  /\ env.waits /\ ~env.abandons =>
       /\ reply # NoReply => waiting
       /\ waiting => message # NoMessage /\ position > 1
       /\ reply = "answer" => handed = Content(message)

IInv == TypeOK /\ DataTypes /\ Tracks /\ FinishesMessages /\ AsksInTurn

\* What the line has already cost, or will cost at the next frame.
Owed ==
  IF waiting /\ reply = NoReply THEN IF state = "RECVING" THEN 2 ELSE 1
  ELSE IF reply = "error" \/ (position = 1 /\ state = "RECVING") THEN 1 ELSE 0

\* For a host that keeps to the protocol: the state of the device shows in its
\* answer, leftovers in it mean that a frame was lost, and the starts of a
\* message that fits are paid for.
Budget ==
  env.waits /\ ~env.abandons /\ ~env.silent =>
    /\ reply = "dummy" => state = "RECVING"
    /\ reply \in {"error", "answer"} => state = "IDLE"
    /\ message # NoMessage /\ position > 1 /\ ~waiting => state = "RECVING"
    /\ state = "RECVING" /\ (message = NoMessage \/ position = 1) => losses > 0
    /\ waiting /\ reply = NoReply => losses > 0
    /\ message # NoMessage /\ message.size <= IAP_APP_MAX_BUFFER_SIZE
         => tries + Owed <= damage + 2 * losses

-----------------------------------------------------------------------------
(***************************************************************************)
(* Messages and the numbers of their frames.                               *)
(***************************************************************************)
LEMMA MessageTypes ==
  ASSUME NEW m \in Messages
  PROVE  m.name \in STRING /\ m.size \in Nat \ {0} /\ m # NoMessage
  BY MessagesAssumption DEF NoMessage

LEMMA ContentSeq ==
  ASSUME NEW m \in Messages
  PROVE  /\ Content(m) \in Seq(Frame)
         /\ Len(Content(m)) = m.size
         /\ \A i \in 1 .. m.size : Content(m)[i] = <<m.name, i>>
  BY MessageTypes DEF Content, Frame

\* The frame at position k extends the first k - 1 frames to the first k.
LEMMA ContentPrefix ==
  ASSUME NEW m \in Messages, NEW k \in 1 .. m.size
  PROVE  Append(SubSeq(Content(m), 1, k - 1), <<m.name, k>>) = SubSeq(Content(m), 1, k)
  <1> DEFINE c == Content(m)
  <1>1. c \in Seq(Frame) /\ Len(c) = m.size /\ c[k] = <<m.name, k>> /\ m.size \in Nat
    BY ContentSeq, MessageTypes
  <1> HIDE DEF c
  <1>2. /\ SubSeq(c, 1, k) \in Seq(Frame) /\ Len(SubSeq(c, 1, k)) = k
        /\ \A i \in 1 .. k : SubSeq(c, 1, k)[i] = c[i]
    BY <1>1
  <1>3. /\ SubSeq(c, 1, k - 1) \in Seq(Frame) /\ Len(SubSeq(c, 1, k - 1)) = k - 1
        /\ \A i \in 1 .. k - 1 : SubSeq(c, 1, k - 1)[i] = c[i]
    BY <1>1
  <1>4. c[k] \in Frame
    BY <1>1
  <1> DEFINE s == Append(SubSeq(c, 1, k - 1), c[k])
  <1>5. s \in Seq(Frame) /\ Len(s) = k /\ \A i \in 1 .. k : s[i] = c[i]
    BY <1>1, <1>3, <1>4
  <1>6. s = SubSeq(c, 1, k)
    <2> HIDE DEF s
    <2>1. QED
      BY <1>2, <1>5
  <1>7. QED
    BY <1>1, <1>6 DEF c

LEMMA ContentWhole ==
  ASSUME NEW m \in Messages
  PROVE  SubSeq(Content(m), 1, m.size) = Content(m)
  <1> DEFINE c == Content(m)
  <1>1. c \in Seq(Frame) /\ Len(c) = m.size
    BY ContentSeq
  <1> HIDE DEF c
  <1>2. SubSeq(c, 1, Len(c)) = c
    BY <1>1
  <1>3. QED
    BY <1>1, <1>2 DEF c

LEMMA Modulo ==
  ASSUME NEW n \in Int
  PROVE  /\ n % PackNumModulus \in 0 .. PackNumModulus - 1
         /\ n \in 0 .. PackNumModulus - 1 => n % PackNumModulus = n
         /\ n = PackNumModulus => n % PackNumModulus = 0
         /\ n = PackNumModulus + 1 => n % PackNumModulus = 1
         /\ n = -1 => n % PackNumModulus = PackNumModulus - 1
  BY MessagesAssumption

LEMMA ExpectedRange ==
  ASSUME NEW m \in Messages, NEW k \in 1 .. m.size - 1, k > 1 => m.size <= PackNumModulus + 1
  PROVE  Expected(m, k) \in 0 .. PackNumModulus - 1
  BY MessageTypes, MessagesAssumption, Modulo DEF Expected

\* Of a message with few enough frames the next one is expected.
LEMMA ExpectsNext ==
  ASSUME NEW m \in Messages, NEW k \in 1 .. m.size - 1, m.size <= PackNumModulus + 1
  PROVE  Expected(m, k) = m.size - k - 1
  <1>1. m.size \in Nat \ {0} /\ PackNumModulus \in Nat \ {0, 1}
    BY MessageTypes, MessagesAssumption
  <1>2. CASE k > 1
    BY <1>1, <1>2 DEF Expected
  <1>3. CASE k = 1 /\ m.size - 1 < PackNumModulus
    BY <1>1, <1>3, Modulo DEF Expected
  <1>4. CASE k = 1 /\ m.size - 1 = PackNumModulus
    <2>1. (m.size - 1) % PackNumModulus = 0
      BY <1>1, <1>4, Modulo
    <2>2. (0 - 1) % PackNumModulus = PackNumModulus - 1
      BY Modulo
    <2>3. QED
      BY <1>1, <1>4, <2>1, <2>2 DEF Expected
  <1>5. QED
    BY <1>1, <1>2, <1>3, <1>4

\* A frame with the number the device expects is the next one of the message,
\* not the one after it, and of a message with few enough frames.
LEMMA ExpectedIsNext ==
  ASSUME NEW m \in Messages, NEW k \in 1 .. m.size - 1, NEW p \in {k + 1, k + 2},
         p <= m.size, k > 1 => m.size <= PackNumModulus + 1,
         m.size - p = Expected(m, k)
  PROVE  p = k + 1 /\ m.size <= PackNumModulus + 1
  <1>1. m.size \in Nat \ {0} /\ PackNumModulus \in Nat \ {0, 1}
    BY MessageTypes, MessagesAssumption
  <1>2. CASE m.size <= PackNumModulus + 1
    BY <1>1, <1>2, ExpectsNext
  <1>3. CASE m.size = PackNumModulus + 2
    <2>1. (m.size - 1) % PackNumModulus = 1 /\ (1 - 1) % PackNumModulus = 0
      BY <1>1, <1>3, Modulo
    <2>2. QED
      BY <1>1, <1>3, <2>1 DEF Expected
  <1>4. CASE m.size > PackNumModulus + 2
    <2>1. Expected(m, k) \in 0 .. PackNumModulus - 1
      BY ExpectedRange
    <2>2. QED
      BY <1>1, <1>4, <2>1
  <1>5. QED
    BY <1>1, <1>2, <1>3, <1>4

LEMMA FrameTypes ==
  ASSUME NEW m \in Messages, NEW i \in Nat \ {0}, i <= m.size
  PROVE  /\ FrameAt(m, i).payload \in Frame /\ FrameAt(m, i).payload = <<m.name, i>>
         /\ FrameAt(m, i).num = m.size - i /\ FrameAt(m, i).num \in Nat
         /\ FrameAt(m, i).first = (i = 1) /\ FrameAt(m, i).fault = "NONE"
         /\ \A x \in Faults :
              /\ [FrameAt(m, i) EXCEPT !.fault = x].payload = <<m.name, i>>
              /\ [FrameAt(m, i) EXCEPT !.fault = x].num = m.size - i
              /\ [FrameAt(m, i) EXCEPT !.fault = x].fault = x /\ x # "NONE"
  BY MessageTypes DEF FrameAt, Frame, Faults

-----------------------------------------------------------------------------
(***************************************************************************)
(* Types.                                                                  *)
(***************************************************************************)
DeviceTypes ==
  /\ state \in {"IDLE", "RECVING"} /\ next_pack_num \in 0 .. PackNumModulus - 1
  /\ Len(buffer) <= IAP_APP_MAX_BUFFER_SIZE
  /\ (state = "IDLE") = (buffer = <<>>)
  /\ Len(handed) <= IAP_APP_MAX_BUFFER_SIZE
  /\ reply \in {NoReply, "dummy", "error", "answer"}

LEMMA SendTypes ==
  ASSUME NEW r \in {"dummy", "error", "answer"},
         reply \in {NoReply, "dummy", "error", "answer"}, Send(r)
  PROVE  reply' \in {NoReply, "dummy", "error", "answer"}
  BY DEF Send

\* Whatever frame comes, the device keeps to its buffer and to its counters.
LEMMA ReceiveTypes ==
  ASSUME DeviceTypes, DataTypes, NEW f, f.payload \in Frame, f.num \in Nat, Receive(f)
  PROVE  DeviceTypes' /\ DataTypes'
  <1>1. IAP_APP_MAX_BUFFER_SIZE \in Nat /\ PackNumModulus \in Nat \ {0, 1}
    BY MessagesAssumption
  <1>2. CASE Reject(f)
    <2>1. reply' \in {NoReply, "dummy", "error", "answer"}
      BY <1>2, SendTypes DEF DeviceTypes, Reject
    <2>2. QED
      BY <1>1, <1>2, <2>1 DEF DeviceTypes, DataTypes, Reject, GotoIdle
  <1>3. CASE Collect(f)
    <2>1. reply' \in {NoReply, "dummy", "error", "answer"}
      BY <1>3, SendTypes DEF DeviceTypes, Collect
    <2>2. Len(buffer) + 1 <= IAP_APP_MAX_BUFFER_SIZE
      BY <1>1, <1>3 DEF Collect, DispatchError, DataTypes
    <2>3. buffer' \in Seq(Frame) /\ Len(buffer') = Len(buffer) + 1 /\ buffer' # <<>>
      BY <1>3 DEF Collect, DataTypes
    <2>4. next_pack_num' \in 0 .. PackNumModulus - 1
      <3>1. f.num % PackNumModulus \in 0 .. PackNumModulus - 1
        BY Modulo
      <3>2. ((f.num % PackNumModulus) - 1) % PackNumModulus \in 0 .. PackNumModulus - 1
        BY <3>1, <1>1, Modulo
      <3>3. QED
        BY <1>1, <1>3, <3>2 DEF Collect, NumberAfter, DeviceTypes
    <2>5. QED
      BY <1>1, <1>3, <2>1, <2>2, <2>3, <2>4 DEF DeviceTypes, DataTypes, Collect
  <1>4. CASE HandOver(f)
    <2>1. reply' \in {NoReply, "dummy", "error", "answer"}
      BY <1>4, SendTypes DEF DeviceTypes, HandOver
    <2>2. Len(buffer) + 1 <= IAP_APP_MAX_BUFFER_SIZE
      BY <1>1, <1>4 DEF HandOver, DispatchError, DataTypes
    <2>3. handed' \in Seq(Frame) /\ Len(handed') = Len(buffer) + 1
      BY <1>4 DEF HandOver, DataTypes
    <2>4. QED
      BY <1>1, <1>4, <2>1, <2>2, <2>3 DEF DeviceTypes, DataTypes, HandOver, GotoIdle
  <1>5. QED
    BY <1>2, <1>3, <1>4 DEF Receive

HostTypes ==
  /\ message \in Messages \cup {NoMessage} /\ position \in Nat \ {0}
  /\ waiting \in BOOLEAN /\ tries \in 0 .. RetryNum

LineTypes == env \in Environments /\ damage \in 0 .. env.damage /\ losses \in 0 .. env.losses

LEMMA TypeParts == TypeOK <=> DeviceTypes /\ HostTypes /\ LineTypes
  BY DEF TypeOK, DeviceTypes, HostTypes, LineTypes

LEMMA EnvTypes ==
  ASSUME NEW e \in Environments
  PROVE  /\ e.waits \in BOOLEAN /\ e.abandons \in BOOLEAN /\ e.silent \in BOOLEAN
         /\ e.damage \in Nat /\ e.losses \in Nat
  BY EnvironmentAssumption DEF Environment

LEMMA StartAgainTypes ==
  ASSUME message \in Messages \cup {NoMessage}, position \in Nat \ {0}, tries \in 0 .. RetryNum, StartAgain
  PROVE  message' \in Messages \cup {NoMessage} /\ position' \in Nat \ {0} /\ tries' \in 0 .. RetryNum
  BY EnvironmentAssumption DEF StartAgain

LEMMA NextTypeOK == TypeOK /\ DataTypes /\ [Next]_vars => TypeOK' /\ DataTypes'
  <1> SUFFICES ASSUME TypeOK, DataTypes, [Next]_vars PROVE TypeOK' /\ DataTypes'
    OBVIOUS
  <1> USE DEF device, host
  <1>1. DeviceTypes /\ HostTypes /\ LineTypes
    BY TypeParts
  <1>2. env.damage \in Nat /\ env.losses \in Nat /\ env.waits \in BOOLEAN
    BY <1>1, EnvTypes DEF LineTypes
  <1>3. CASE SendFrame
    <2>1. message \in Messages /\ position \in Nat \ {0} /\ position <= message.size
      BY <1>1, <1>3 DEF SendFrame, HostTypes
    <2>2. HostTypes'
      BY <1>1, <1>2, <1>3, <2>1 DEF SendFrame, HostTypes
    <2>3. LineTypes'
      BY <1>1, <1>2, <1>3 DEF SendFrame, LineTypes
    <2>4. DeviceTypes' /\ DataTypes'
      <3>1. CASE Receive(FrameAt(message, position))
        BY <1>1, <2>1, <3>1, FrameTypes, ReceiveTypes
      <3>2. ASSUME NEW x \in Faults,
                   Receive([FrameAt(message, position) EXCEPT !.fault = x])
            PROVE  DeviceTypes' /\ DataTypes'
        <4>1. <<message.name, position>> \in Frame /\ message.size - position \in Nat
          BY <2>1, FrameTypes
        <4> DEFINE f == [FrameAt(message, position) EXCEPT !.fault = x]
        <4>2. f.payload \in Frame /\ f.num \in Nat
          BY <2>1, <4>1, FrameTypes
        <4> HIDE DEF f
        <4>3. Receive(f)
          BY <3>2 DEF f
        <4>4. QED
          BY <1>1, <4>2, <4>3, ReceiveTypes
      <3>3. CASE UNCHANGED <<device, reply>>
        BY <1>1, <3>3 DEF DeviceTypes, DataTypes
      <3>4. QED
        BY <1>3, <3>1, <3>2, <3>3 DEF SendFrame
    <2>5. QED
      BY <2>2, <2>3, <2>4, TypeParts DEF TypeOK, DeviceTypes, HostTypes, LineTypes
  <1>4. CASE TakeReply
    <2>1. HostTypes'
      BY <1>1, <1>4, StartAgainTypes DEF TakeReply, HostTypes
    <2>2. DeviceTypes' /\ DataTypes' /\ LineTypes'
      BY <1>1, <1>4 DEF TakeReply, DeviceTypes, DataTypes, LineTypes, NoReply
    <2>3. QED
      BY <2>1, <2>2 DEF TypeOK, DeviceTypes, HostTypes, LineTypes
  <1>5. CASE ReadTimeout
    <2>1. HostTypes'
      BY <1>1, <1>5, StartAgainTypes DEF ReadTimeout, HostTypes
    <2>2. DeviceTypes' /\ DataTypes' /\ LineTypes'
      BY <1>1, <1>5 DEF ReadTimeout, DeviceTypes, DataTypes, LineTypes
    <2>3. QED
      BY <2>1, <2>2 DEF TypeOK, DeviceTypes, HostTypes, LineTypes
  <1>6. CASE Abandon
    BY <1>1, <1>6 DEF Abandon, TypeOK, DataTypes
  <1>7. ASSUME NEW m \in Messages, Begin(m) PROVE TypeOK' /\ DataTypes'
    BY <1>1, <1>7, EnvironmentAssumption DEF Begin, TypeOK, DataTypes
  <1>8. CASE UNCHANGED vars
    BY <1>8 DEF vars, TypeOK, DataTypes
  <1>9. QED
    BY <1>3, <1>4, <1>5, <1>6, <1>7, <1>8 DEF Next

-----------------------------------------------------------------------------
(***************************************************************************)
(* The frame that arrives.                                                 *)
(***************************************************************************)
Arrival == FrameAt(message, position)

CanSend == message # NoMessage /\ ~waiting /\ position <= message.size

LEMMA SenderTypes ==
  ASSUME TypeOK, CanSend
  PROVE  /\ message \in Messages /\ position \in 1 .. message.size
         /\ message.size \in Nat \ {0}
         /\ Arrival.payload = <<message.name, position>> /\ Arrival.num = message.size - position
         /\ Arrival.first = (position = 1) /\ Arrival.fault = "NONE"
  <1>1. message \in Messages /\ position \in Nat \ {0}
    BY DEF TypeOK, CanSend
  <1>2. message.size \in Nat \ {0} /\ position <= message.size
    BY <1>1, MessageTypes DEF CanSend
  <1>3. QED
    BY <1>1, <1>2, FrameTypes DEF Arrival

\* A damaged frame is rejected, whatever the device waits for.
LEMMA DamagedIsRejected ==
  ASSUME NEW x \in Faults, Receive([Arrival EXCEPT !.fault = x])
  PROVE  Reject([Arrival EXCEPT !.fault = x])
  <1>1. [Arrival EXCEPT !.fault = x].fault = x /\ x # "NONE"
    BY DEF Arrival, FrameAt, Faults
  <1> DEFINE f == [Arrival EXCEPT !.fault = x]
  <1> HIDE DEF f
  <1>2. f.fault # "NONE" /\ Receive(f)
    BY <1>1 DEF f
  <1>3. Reject(f)
    BY <1>2 DEF Receive, Collect, HandOver, DispatchError
  <1>4. QED
    BY <1>3 DEF f

\* An accepted frame is the first one of the message, or the one after those
\* the device holds.
LEMMA AcceptedIsNext ==
  ASSUME IInv, CanSend, DispatchError(Arrival) = "NONE"
  PROVE  \/ state = "IDLE" /\ buffer = <<>> /\ position = 1
         \/ /\ state = "RECVING" /\ position > 1 /\ Holds(position - 1)
            /\ message.size <= PackNumModulus + 1
  <1> USE DEF IInv
  <1>1. /\ message \in Messages /\ position \in 1 .. message.size /\ message.size \in Nat \ {0}
        /\ Arrival.num = message.size - position /\ Arrival.first = (position = 1)
    BY SenderTypes
  <1>2. NumberOK(Arrival)
    BY DEF DispatchError
  <1>3. CASE state = "IDLE"
    BY <1>1, <1>2, <1>3 DEF NumberOK, TypeOK
  <1>4. CASE state = "RECVING"
    <2>1. position > 1 /\ message.size - position = next_pack_num
      <3>1. ~Arrival.first /\ Arrival.num = next_pack_num
        BY <1>2, <1>4, Zenon DEF NumberOK
      <3>2. position # 1
        BY <1>1, <3>1, Zenon
      <3>3. QED
        BY <1>1, <3>1, <3>2
    <2>2. CASE Holds(position - 1)
      <3>1. /\ position - 1 \in 1 .. message.size - 1 /\ next_pack_num = Expected(message, position - 1)
            /\ position - 1 > 1 => message.size <= PackNumModulus + 1
        BY <2>2 DEF Holds
      <3>2. position \in {(position - 1) + 1, (position - 1) + 2} /\ position <= message.size
        BY <1>1
      <3>3. message.size <= PackNumModulus + 1
        BY <1>1, <2>1, <3>1, <3>2, ExpectedIsNext
      <3>4. QED
        BY <1>4, <2>1, <2>2, <3>3
    <2>3. CASE IsOneAhead
      <3>1. /\ position - 2 \in 1 .. message.size - 1 /\ next_pack_num = Expected(message, position - 2)
            /\ position - 2 > 1 => message.size <= PackNumModulus + 1
        BY <2>3 DEF Holds, IsOneAhead
      <3>2. position \in {(position - 2) + 1, (position - 2) + 2} /\ position <= message.size
        BY <1>1
      <3>3. position = (position - 2) + 1
        BY <1>1, <2>1, <3>1, <3>2, ExpectedIsNext
      <3>4. QED
        BY <1>1, <3>3
    <2>4. QED
      BY <1>1, <1>4, <2>1, <2>2, <2>3 DEF Tracks, CanSend, AwaitsLostFrame
  <1>5. QED
    BY <1>3, <1>4 DEF TypeOK

LEMMA CollectHolds ==
  ASSUME IInv, CanSend, Collect(Arrival)
  PROVE  /\ state' = "RECVING" /\ position \in 1 .. message.size - 1
         /\ buffer = SubSeq(Content(message), 1, position - 1)
         /\ buffer' = SubSeq(Content(message), 1, position)
         /\ next_pack_num' = Expected(message, position)
         /\ position > 1 => message.size <= PackNumModulus + 1
  <1>1. /\ message \in Messages /\ position \in 1 .. message.size /\ message.size \in Nat \ {0}
        /\ Arrival.num = message.size - position
        /\ Arrival.payload = <<message.name, position>>
    BY SenderTypes DEF IInv
  <1>2. /\ DispatchError(Arrival) = "NONE" /\ Arrival.num # 0
        /\ buffer' = Append(buffer, Arrival.payload)
        /\ state' = "RECVING" /\ next_pack_num' = NumberAfter(Arrival)
    BY DEF Collect
  <1>3. Content(message) \in Seq(Frame)
    BY <1>1, ContentSeq
  <1>4. Append(SubSeq(Content(message), 1, position - 1), <<message.name, position>>)
          = SubSeq(Content(message), 1, position)
    BY <1>1, ContentPrefix
  <1>5. CASE state = "IDLE" /\ buffer = <<>> /\ position = 1
    <2>1. SubSeq(Content(message), 1, position - 1) = <<>>
      BY <1>3, <1>5
    <2>2. next_pack_num' = Expected(message, position)
      BY <1>1, <1>2, <1>5 DEF NumberAfter, Expected
    <2>3. QED
      BY <1>1, <1>2, <1>4, <1>5, <2>1, <2>2
  <1>6. CASE /\ state = "RECVING" /\ position > 1 /\ Holds(position - 1)
             /\ message.size <= PackNumModulus + 1
    <2>1. next_pack_num = message.size - position
      <3>1. position - 1 \in 1 .. message.size - 1 /\ next_pack_num = Expected(message, position - 1)
        BY <1>6 DEF Holds
      <3>2. Expected(message, position - 1) = message.size - (position - 1) - 1
        BY <1>1, <1>6, <3>1, ExpectsNext
      <3>3. QED
        BY <1>1, <3>1, <3>2
    <2>2. next_pack_num' = message.size - position - 1
      BY <1>1, <1>2, <1>6, <2>1 DEF NumberAfter
    <2>3. Expected(message, position) = message.size - position - 1
      BY <1>1, <1>6 DEF Expected
    <2>4. buffer = SubSeq(Content(message), 1, position - 1)
      BY <1>6 DEF Holds
    <2>5. position \in 1 .. message.size - 1
      BY <1>1, <1>2
    <2>6. QED
      BY <1>1, <1>2, <1>4, <1>6, <2>2, <2>3, <2>4, <2>5
  <1>7. QED
    BY <1>2, <1>5, <1>6, AcceptedIsNext

LEMMA HandOverIsWhole ==
  ASSUME IInv, CanSend, HandOver(Arrival)
  PROVE  /\ handed' = Content(message)
         /\ buffer = SubSeq(Content(message), 1, message.size - 1)
         /\ position = message.size
  <1>1. /\ message \in Messages /\ position \in 1 .. message.size /\ message.size \in Nat \ {0}
        /\ Arrival.num = message.size - position
        /\ Arrival.payload = <<message.name, position>>
    BY SenderTypes DEF IInv
  <1>2. /\ DispatchError(Arrival) = "NONE" /\ Arrival.num = 0
        /\ handed' = Append(buffer, Arrival.payload)
    BY DEF HandOver
  <1>3. position = message.size
    BY <1>1, <1>2
  <1>4. buffer = SubSeq(Content(message), 1, position - 1)
    <2>1. Content(message) \in Seq(Frame)
      BY <1>1, ContentSeq
    <2>2. position = 1 => SubSeq(Content(message), 1, position - 1) = <<>>
      BY <2>1
    <2>3. QED
      BY <1>2, <2>2, AcceptedIsNext DEF Holds
  <1>5. Append(SubSeq(Content(message), 1, position - 1), <<message.name, position>>)
          = SubSeq(Content(message), 1, position)
    BY <1>1, ContentPrefix
  <1>6. SubSeq(Content(message), 1, message.size) = Content(message)
    BY <1>1, ContentWhole
  <1>7. QED
    BY <1>1, <1>2, <1>3, <1>4, <1>5, <1>6

-----------------------------------------------------------------------------
(***************************************************************************)
(* The invariant is preserved.                                             *)
(***************************************************************************)
Grip == Tracks /\ FinishesMessages /\ AsksInTurn

LEMMA SendFrameGrip == IInv /\ OrderlyLines /\ SendFrame => Grip'
  <1> SUFFICES ASSUME IInv, OrderlyLines, SendFrame PROVE Grip'
    OBVIOUS
  <1> USE DEF IInv
  <1>1. CanSend
    BY DEF SendFrame, CanSend
  <1>2. /\ message \in Messages /\ position \in 1 .. message.size /\ message.size \in Nat \ {0}
        /\ message # NoMessage
    BY <1>1, SenderTypes DEF CanSend
  <1>3. /\ message' = message /\ position' = position + 1 /\ waiting' = env.waits /\ env' = env
        /\ message' # NoMessage /\ position' > 1
    BY <1>2 DEF SendFrame
  <1>4. /\ env.waits \in BOOLEAN /\ env.abandons \in BOOLEAN /\ Orderly(env)
        /\ env.losses \in Nat /\ losses \in Nat
    BY EnvTypes DEF TypeOK, OrderlyLines
  <1>5. env.waits /\ ~env.abandons => reply = NoReply
    BY <1>1 DEF AsksInTurn, CanSend
  <1>6. ASSUME NEW f, Reject(f) PROVE Grip'
    <2>1. state' = "IDLE" /\ (reply = NoReply => reply' = "error")
      BY <1>6 DEF Reject, GotoIdle, Send
    <2>2. QED
      BY <1>3, <1>4, <1>5, <2>1 DEF Grip, Tracks, FinishesMessages, AsksInTurn
  <1>7. CASE Collect(Arrival)
    <2>1. reply = NoReply => reply' = "dummy"
      BY <1>7 DEF Collect, Send
    <2>2. Holds(position - 1)'
      <3>1. position' - 1 = position
        BY <1>2, <1>3
      <3>2. QED
        BY <1>1, <1>3, <1>7, <3>1, CollectHolds DEF Holds, Expected, Content
    <2>3. QED
      BY <1>3, <1>4, <1>5, <2>1, <2>2 DEF Grip, Tracks, FinishesMessages, AsksInTurn
  <1>8. CASE HandOver(Arrival)
    <2>1. /\ state' = "IDLE" /\ handed' = Content(message)
          /\ reply = NoReply => reply' \in {"answer", NoReply}
      BY <1>1, <1>8, HandOverIsWhole DEF HandOver, GotoIdle, Send
    <2>2. Content(message') = Content(message)
      BY <1>3
    <2>3. QED
      BY <1>3, <1>4, <1>5, <2>1, <2>2 DEF Grip, Tracks, FinishesMessages, AsksInTurn
  <1>9. CASE losses < env.losses /\ losses' = losses + 1 /\ UNCHANGED <<device, reply>>
    <2>1. losses' > 0 /\ ~env.abandons /\ (env.waits \/ losses = 0)
      BY <1>4, <1>9 DEF Orderly
    <2>2. CASE env.waits
      <3>1. AwaitsLostFrame'
        BY <1>3, <1>5, <1>9, <2>1, <2>2 DEF AwaitsLostFrame
      <3>2. QED
        BY <1>3, <1>5, <1>9, <2>1, <2>2, <3>1
        DEF Grip, Tracks, FinishesMessages, AsksInTurn, NoReply
    <2>3. CASE ~env.waits
      <3>1. ASSUME state' = "RECVING" PROVE IsOneAhead'
        <4>1. state = "RECVING" /\ losses = 0 /\ env.losses > 0
          BY <1>4, <1>9, <2>1, <2>3, <3>1 DEF device
        <4>2. position > 1 /\ Holds(position - 1)
          BY <1>1, <1>2, <2>3, <4>1 DEF FinishesMessages, Tracks, CanSend, AwaitsLostFrame, IsOneAhead
        <4>3. position' - 2 = position - 1 /\ position' > 2
          BY <1>2, <1>3, <4>2
        <4>4. QED
          BY <1>3, <1>9, <2>1, <2>3, <4>2, <4>3 DEF IsOneAhead, Holds, device, Expected, Content
      <3>2. QED
        BY <1>3, <1>4, <2>1, <2>3, <3>1 DEF Grip, Tracks, FinishesMessages, AsksInTurn
    <2>4. QED
      BY <1>4, <2>2, <2>3
  <1>10. QED
    BY <1>6, <1>7, <1>8, <1>9, DamagedIsRejected DEF SendFrame, Receive, Arrival

LEMMA StartAgainEnds == StartAgain => message' = NoMessage \/ (message' = message /\ position' = 1)
  BY DEF StartAgain

\* What the device holds is kept by a step of the host that keeps the message.
LEMMA HoldsKept ==
  ASSUME NEW k, Holds(k), UNCHANGED <<device, message>>
  PROVE  /\ state' = "RECVING" /\ k \in 1 .. message'.size - 1
         /\ buffer' = SubSeq(Content(message'), 1, k)
         /\ next_pack_num' = Expected(message', k)
         /\ k > 1 => message'.size <= PackNumModulus + 1
  BY DEF Holds, device

LEMMA TakeReplyGrip == IInv /\ OrderlyLines /\ TakeReply => Grip'
  <1> SUFFICES ASSUME IInv, OrderlyLines, TakeReply PROVE Grip'
    OBVIOUS
  <1> USE DEF IInv
  <1>1. /\ env.waits \in BOOLEAN /\ env.abandons \in BOOLEAN /\ waiting \in BOOLEAN
    BY EnvTypes DEF TypeOK
  <1>2. /\ reply # NoReply /\ reply' = NoReply /\ waiting' = FALSE
        /\ UNCHANGED <<device, losses, env>>
    BY DEF TakeReply
  <1>3. AsksInTurn'
    BY <1>1, <1>2 DEF AsksInTurn, NoReply
  <1>4. CASE UNCHANGED <<message, position, tries>>
    <2>1. Tracks'
      <3> SUFFICES ASSUME (message # NoMessage)', (position > 1)', (state = "RECVING")'
                   PROVE  Holds(position - 1)' \/ IsOneAhead'
        BY DEF Tracks
      <3>1. Holds(position - 1) \/ IsOneAhead
        BY <1>2, <1>4 DEF Tracks, AwaitsLostFrame, device
      <3>2. CASE Holds(position - 1)
        BY <1>2, <1>4, <3>2, HoldsKept DEF Holds
      <3>3. CASE IsOneAhead
        BY <1>2, <1>4, <3>3, HoldsKept DEF Holds, IsOneAhead
      <3>4. QED
        BY <3>1, <3>2, <3>3
    <2>2. FinishesMessages'
      BY <1>2, <1>4 DEF FinishesMessages, device
    <2>3. QED
      BY <1>3, <2>1, <2>2 DEF Grip
  <1>5. CASE waiting /\ (message' = NoMessage \/ (message' = message /\ position' = 1))
    BY <1>1, <1>2, <1>3, <1>5 DEF Grip, Tracks, FinishesMessages, AsksInTurn
  <1>6. QED
    BY <1>1, <1>4, <1>5, StartAgainEnds DEF TakeReply

LEMMA ReadTimeoutGrip == IInv /\ OrderlyLines /\ ReadTimeout => Grip'
  <1> SUFFICES ASSUME IInv, OrderlyLines, ReadTimeout PROVE Grip'
    OBVIOUS
  <1> USE DEF IInv
  <1>1. env.waits \in BOOLEAN /\ env.abandons \in BOOLEAN /\ waiting
    BY EnvTypes DEF TypeOK, ReadTimeout
  <1>2. message' = NoMessage \/ (message' = message /\ position' = 1)
    BY StartAgainEnds DEF ReadTimeout
  <1>3. reply = NoReply /\ waiting' = FALSE /\ UNCHANGED <<device, reply, losses, env>>
    BY DEF ReadTimeout
  <1>4. QED
    BY <1>1, <1>2, <1>3 DEF Grip, Tracks, FinishesMessages, AsksInTurn, NoReply

LEMMA AbandonGrip == IInv /\ OrderlyLines /\ Abandon => Grip'
  <1> SUFFICES ASSUME IInv, OrderlyLines, Abandon PROVE Grip'
    OBVIOUS
  <1> USE DEF IInv
  <1>1. env.abandons /\ env.losses \in Nat /\ Orderly(env)
    BY EnvTypes DEF TypeOK, Abandon, OrderlyLines
  <1>2. env.losses = 0
    BY <1>1 DEF Orderly
  <1>3. message' = NoMessage /\ waiting' = FALSE /\ env' = env
    BY DEF Abandon
  <1>4. QED
    BY <1>1, <1>2, <1>3 DEF Grip, Tracks, FinishesMessages, AsksInTurn

LEMMA BeginGrip == ASSUME NEW m \in Messages PROVE IInv /\ OrderlyLines /\ Begin(m) => Grip'
  <1> SUFFICES ASSUME IInv, OrderlyLines, Begin(m) PROVE Grip'
    OBVIOUS
  <1> USE DEF IInv
  <1>1. /\ env.waits \in BOOLEAN /\ env.abandons \in BOOLEAN
        /\ waiting \in BOOLEAN /\ message \in Messages \cup {NoMessage} /\ position \in Nat \ {0}
    BY EnvTypes DEF TypeOK
  <1>2. /\ message = NoMessage \/ (~env.waits /\ position > message.size)
        /\ message' = m /\ position' = 1 /\ UNCHANGED <<device, reply, waiting, losses, env>>
    BY DEF Begin
  <1>3. Tracks'
    BY <1>2 DEF Tracks
  <1>4. FinishesMessages'
    <2> SUFFICES ASSUME ~env.waits, env.losses > 0, losses = 0, state = "RECVING" PROVE FALSE
      BY <1>2 DEF FinishesMessages, device
    <2>1. message # NoMessage /\ position > 1
      BY DEF FinishesMessages
    <2>2. Holds(position - 1)
      BY <2>1 DEF Tracks, AwaitsLostFrame, IsOneAhead
    <2>3. message.size \in Nat
      BY <1>1, <2>1, MessageTypes
    <2>4. QED
      BY <1>1, <1>2, <2>1, <2>2, <2>3 DEF Holds
  <1>5. AsksInTurn'
    <2>1. env.waits /\ ~env.abandons => ~waiting /\ reply = NoReply
      BY <1>1, <1>2 DEF AsksInTurn
    <2>2. waiting' = waiting /\ reply' = reply /\ env' = env
      BY <1>2
    <2>3. QED
      BY <1>1, <2>1, <2>2 DEF AsksInTurn, NoReply
  <1>6. QED
    BY <1>3, <1>4, <1>5 DEF Grip

LEMMA NextIInv == IInv /\ OrderlyLines /\ [Next]_vars => IInv'
  <1> SUFFICES ASSUME IInv, OrderlyLines, [Next]_vars PROVE IInv'
    OBVIOUS
  <1>1. TypeOK' /\ DataTypes'
    BY NextTypeOK DEF IInv
  <1>2. ASSUME UNCHANGED vars PROVE Grip'
    BY <1>2 DEF IInv, Grip, vars, device, host, Tracks, FinishesMessages, AsksInTurn, Holds,
                AwaitsLostFrame, IsOneAhead
  <1>3. Grip'
    BY <1>2, SendFrameGrip, TakeReplyGrip, ReadTimeoutGrip, AbandonGrip, BeginGrip DEF Next
  <1>4. QED
    BY <1>1, <1>3 DEF IInv, Grip

LEMMA InitIInv == Init => IInv
  <1> SUFFICES ASSUME Init PROVE IInv
    OBVIOUS
  <1>1. env.damage \in Nat /\ env.losses \in Nat
    BY EnvTypes DEF Init
  <1>2. TypeOK
    <2>1. state = "IDLE" /\ buffer = <<>> /\ Len(buffer) = 0 /\ Len(handed) = 0
      BY DEF Init
    <2>2. DeviceTypes
      BY <2>1, MessagesAssumption DEF Init, DeviceTypes
    <2>3. LineTypes
      BY <1>1 DEF Init, LineTypes
    <2>4. HostTypes
      <3>1. RetryNum \in Nat
        BY EnvironmentAssumption
      <3>2. waiting \in BOOLEAN
        BY DEF Init
      <3>3. tries \in 0 .. RetryNum /\ position \in Nat \ {0}
        BY <3>1 DEF Init
      <3>4. QED
        BY <3>2, <3>3 DEF Init, HostTypes
    <2>5. QED
      BY <2>2, <2>3, <2>4, TypeParts
  <1>3. DataTypes
    BY DEF Init, DataTypes
  <1>4. QED
    BY <1>2, <1>3 DEF Init, IInv, Tracks, FinishesMessages, AsksInTurn, NoReply

-----------------------------------------------------------------------------
(***************************************************************************)
(* What the transport promises.                                            *)
(***************************************************************************)
\* Whatever the hosts and the line do, the reassembly stays inside the buffer
\* of the application, and it is empty exactly when the device waits for a
\* first frame.
THEOREM TypeCorrectness == Spec => []TypeOK
  <1>1. Init => TypeOK /\ DataTypes
    BY InitIInv DEF IInv
  <1>2. (TypeOK /\ DataTypes) /\ [Next]_vars => (TypeOK /\ DataTypes)'
    BY NextTypeOK
  <1>3. QED
    BY <1>1, <1>2, PTL DEF Spec

\* On an orderly line the device holds the beginning of the message the host
\* is at, exactly as far as it was sent, or the next frame is rejected.
THEOREM InductiveInvariant == ASSUME OrderlyLines PROVE Spec => []IInv
  <1>1. IInv /\ [Next]_vars => IInv'
    BY NextIInv
  <1>2. QED
    BY <1>1, InitIInv, PTL DEF Spec

LEMMA InitChannel == Init => Channel!Init
  BY DEF Init, Channel!Init

\* Every step of the transport is a step of the channel, or none.
LEMMA NextChannel == IInv /\ [Next]_vars => [Channel!Next]_(Channel!vars)
  <1> SUFFICES ASSUME IInv, [Next]_vars PROVE [Channel!Next]_(Channel!vars)
    OBVIOUS
  <1> USE DEF device, host
  <1>1. ASSUME NEW f, Reject(f) PROVE Channel!Next
    BY <1>1 DEF Reject, GotoIdle, Channel!GiveUp, Channel!Next
  <1>2. ASSUME CanSend, Collect(Arrival) PROVE Channel!Next
    <2>1. message \in Messages
      BY <1>2, SenderTypes DEF IInv
    <2>2. Content(message) \in Seq(Frame) /\ Len(Content(message)) = message.size
      BY <2>1, ContentSeq
    <2> DEFINE c == Content(message)
    <2>3. /\ position \in 1 .. Len(c) - 1 /\ buffer = SubSeq(c, 1, position - 1)
          /\ buffer' = SubSeq(c, 1, position)
      BY <1>2, <2>2, CollectHolds
    <2>4. c \in {Content(m) : m \in Messages}
      BY <2>1
    <2>5. handed' = handed
      BY <1>2 DEF Collect
    <2> HIDE DEF c
    <2>6. c \in Seq(Frame)
      BY <2>2 DEF c
    <2>7. Len(buffer) = position - 1
      BY <2>3, <2>6
    <2>8. Len(buffer) + 1 = position
      BY <2>3, <2>6, <2>7
    <2>9. /\ Len(buffer) + 1 < Len(c) /\ buffer' = SubSeq(c, 1, Len(buffer) + 1)
          /\ buffer = SubSeq(c, 1, Len(buffer))
      BY <2>3, <2>6, <2>7, <2>8
    <2>10. Channel!Extend
      BY <2>4, <2>5, <2>9 DEF Channel!Extend
    <2>11. QED
      BY <2>10 DEF Channel!Next
  <1>3. ASSUME CanSend, HandOver(Arrival) PROVE Channel!Next
    <2>1. message \in Messages
      BY <1>3, SenderTypes DEF IInv
    <2>2. Len(Content(message)) = message.size
      BY <2>1, ContentSeq
    <2>3. /\ buffer = SubSeq(Content(message), 1, Len(Content(message)) - 1)
          /\ handed' = Content(message) /\ buffer' = <<>>
      BY <1>3, <2>2, HandOverIsWhole DEF HandOver, GotoIdle
    <2>4. Channel!HandOver
      BY <2>1, <2>3 DEF Channel!HandOver
    <2>5. QED
      BY <2>4 DEF Channel!Next
  <1>4. CASE SendFrame
    <2>1. CanSend
      BY <1>4 DEF SendFrame, CanSend
    <2>2. CASE Receive(Arrival)
      BY <1>1, <1>2, <1>3, <2>1, <2>2 DEF Receive
    <2>3. ASSUME NEW x \in Faults, Receive([Arrival EXCEPT !.fault = x]) PROVE Channel!Next
      BY <1>1, <2>3, DamagedIsRejected
    <2>4. CASE UNCHANGED <<device, reply>>
      BY <2>4 DEF Channel!vars
    <2>5. QED
      BY <1>4, <2>2, <2>3, <2>4 DEF SendFrame, Arrival
  <1>5. CASE UNCHANGED device
    BY <1>5 DEF Channel!vars
  <1>6. QED
    BY <1>4, <1>5 DEF Next, TakeReply, ReadTimeout, Abandon, Begin, vars

\* The application is only called with whole messages: the transport
\* implements MessageChannel, whatever is damaged, left off and started again.
THEOREM OnlyWholeMessages == ASSUME OrderlyLines PROVE Spec => HandsOverWholeMessages
  <1>1. IInv /\ [Next]_vars => [Channel!Next]_(Channel!vars)
    BY NextChannel
  <1>2. QED
    BY <1>1, InitChannel, InductiveInvariant, PTL DEF Spec, HandsOverWholeMessages, Channel!Spec

\* Both ends of the promise: whole messages are handed over, and a host that
\* keeps to the protocol takes an answer for the message it belongs to.
THEOREM WholeMessagesAreAnswered == ASSUME OrderlyLines PROVE Spec => DeliversWholeMessages
  <1>1. IInv /\ [Next]_vars =>
          [Reliable(message) /\ waiting /\ reply = "answer" /\ reply' = NoReply
             => handed = Content(message)]_vars
    BY DEF IInv, AsksInTurn, Reliable
  <1>2. Spec => AnswerIsForMessage
    BY <1>1, InductiveInvariant, PTL DEF Spec, AnswerIsForMessage
  <1>3. QED
    BY <1>2, OnlyWholeMessages DEF DeliversWholeMessages

-----------------------------------------------------------------------------
(***************************************************************************)
(* What a fault costs.                                                     *)
(***************************************************************************)
\* An undamaged frame of a message that fits is only rejected for leftovers.
LEMMA RejectedForLeftovers ==
  ASSUME IInv, Budget, BufferFitsNumbers, CanSend, Reject(Arrival),
         env.waits, ~env.abandons, ~env.silent, message.size <= IAP_APP_MAX_BUFFER_SIZE
  PROVE  position = 1 /\ state = "RECVING"
  <1>1. /\ message \in Messages /\ position \in 1 .. message.size /\ message.size \in Nat \ {0}
        /\ Arrival.num = message.size - position /\ Arrival.fault = "NONE"
    BY SenderTypes DEF IInv
  <1>2. Arrival.first = (position = 1)
    BY SenderTypes DEF IInv
  <1>3. /\ IAP_APP_MAX_BUFFER_SIZE \in Nat /\ PackNumModulus \in Nat
        /\ message.size <= PackNumModulus + 1
    BY <1>1, MessagesAssumption DEF BufferFitsNumbers
  <1>4. ~NumberOK(Arrival) \/ Len(buffer) + 1 > IAP_APP_MAX_BUFFER_SIZE
    BY <1>1 DEF Reject, DispatchError
  <1>5. ASSUME position > 1 PROVE FALSE
    <2>1. state = "RECVING" /\ ~waiting
      BY <1>5 DEF Budget, CanSend
    <2>2. Holds(position - 1)
      BY <1>5, <2>1 DEF IInv, Tracks, CanSend, AwaitsLostFrame, IsOneAhead
    <2>3. /\ position - 1 \in 1 .. message.size - 1 /\ next_pack_num = Expected(message, position - 1)
          /\ buffer = SubSeq(Content(message), 1, position - 1)
      BY <2>2 DEF Holds
    <2>4. next_pack_num = message.size - (position - 1) - 1
      BY <1>1, <1>3, <2>3, ExpectsNext
    <2>5. Arrival.num = next_pack_num
      BY <1>1, <2>4
    <2>6. ~Arrival.first
      <3>1. position # 1
        BY <1>5
      <3>2. QED
        BY <1>2, <3>1, Zenon
    <2>7. NumberOK(Arrival)
      BY <2>1, <2>5, <2>6, Zenon DEF NumberOK
    <2> DEFINE c == Content(message)
    <2>8. c \in Seq(Frame) /\ Len(c) = message.size
      BY <1>1, ContentSeq
    <2> HIDE DEF c
    <2>9. Len(SubSeq(c, 1, position - 1)) = position - 1
      BY <1>1, <2>3, <2>8
    <2>10. Len(buffer) = position - 1
      BY <2>3, <2>9 DEF c
    <2>11. QED
      BY <1>1, <1>3, <1>4, <2>7, <2>10
  <1>6. position = 1
    BY <1>1, <1>5
  <1>7. ASSUME state = "IDLE" PROVE FALSE
    <2>1. NumberOK(Arrival)
      BY <1>2, <1>6, <1>7, Zenon DEF NumberOK
    <2>2. Len(buffer) = 0
      BY <1>7 DEF IInv, TypeOK
    <2>3. QED
      BY <1>1, <1>3, <1>4, <2>1, <2>2
  <1>8. QED
    BY <1>6, <1>7 DEF IInv, TypeOK

LEMMA SendFrameBudget == IInv /\ Budget /\ BufferFitsNumbers /\ SendFrame => Budget'
  <1> SUFFICES ASSUME IInv, Budget, BufferFitsNumbers, SendFrame,
                      env.waits, ~env.abandons, ~env.silent
               PROVE  Budget'
    BY DEF Budget, SendFrame
  <1>1. CanSend
    BY DEF SendFrame, CanSend
  <1>2. /\ message \in Messages /\ position \in 1 .. message.size /\ message.size \in Nat \ {0}
        /\ message # NoMessage /\ waiting = FALSE
    BY <1>1, SenderTypes DEF IInv, CanSend, TypeOK
  <1>3. /\ message' = message /\ position' = position + 1 /\ waiting' /\ tries' = tries
        /\ position' > 1 /\ position' # 1
    BY <1>2 DEF SendFrame
  <1>4. reply = NoReply
    BY <1>2 DEF IInv, AsksInTurn
  <1>5. tries \in Nat /\ damage \in Nat /\ losses \in Nat
    <2>1. env.damage \in Nat /\ env.losses \in Nat /\ RetryNum \in Nat
      BY EnvTypes, EnvironmentAssumption DEF IInv, TypeOK
    <2>2. QED
      BY <2>1 DEF IInv, TypeOK
  <1>6. ASSUME message.size <= IAP_APP_MAX_BUFFER_SIZE
        PROVE  /\ tries <= damage + 2 * losses
               /\ position = 1 /\ state = "RECVING" => tries + 1 <= damage + 2 * losses
    BY <1>2, <1>4, <1>5, <1>6 DEF Budget, Owed, NoReply
  <1>7. ASSUME NEW f, Reject(f), losses' = losses, damage' \in Nat,
               message.size <= IAP_APP_MAX_BUFFER_SIZE => tries + 1 <= damage' + 2 * losses
        PROVE  Budget'
    <2>1. state' = "IDLE" /\ reply' = "error"
      BY <1>4, <1>7 DEF Reject, GotoIdle, Send
    <2>2. Owed' = 1
      BY <2>1 DEF Owed, NoReply
    <2>3. QED
      BY <1>3, <1>7, <2>1, <2>2 DEF Budget, NoReply
  <1>8. ASSUME Receive(Arrival), UNCHANGED <<damage, losses>> PROVE Budget'
    <2>1. CASE Reject(Arrival)
      BY <1>1, <1>5, <1>6, <1>7, <1>8, <2>1, RejectedForLeftovers
    <2>2. CASE Collect(Arrival)
      <3>1. state' = "RECVING" /\ reply' = "dummy"
        BY <1>4, <2>2 DEF Collect, Send
      <3>2. Owed' = 0
        BY <1>3, <3>1 DEF Owed, NoReply
      <3>3. message.size <= IAP_APP_MAX_BUFFER_SIZE => tries' + Owed' <= damage' + 2 * losses'
        BY <1>3, <1>5, <1>6, <1>8, <3>2
      <3>4. QED
        BY <1>2, <1>3, <3>1, <3>3 DEF Budget, NoReply
    <2>3. CASE HandOver(Arrival)
      <3>1. state' = "IDLE" /\ reply' = "answer"
        BY <1>4, <2>3 DEF HandOver, GotoIdle, Send
      <3>2. Owed' = 0
        BY <3>1 DEF Owed, NoReply
      <3>3. message.size <= IAP_APP_MAX_BUFFER_SIZE => tries' + Owed' <= damage' + 2 * losses'
        BY <1>3, <1>5, <1>6, <1>8, <3>2
      <3>4. QED
        BY <1>3, <3>1, <3>3 DEF Budget, NoReply
    <2>4. QED
      BY <1>8, <2>1, <2>2, <2>3 DEF Receive
  <1>9. ASSUME damage' = damage + 1, losses' = losses,
               NEW x \in Faults, Receive([Arrival EXCEPT !.fault = x])
        PROVE  Budget'
    <2>1. Reject([Arrival EXCEPT !.fault = x])
      BY <1>9, DamagedIsRejected
    <2>2. damage' \in Nat /\ (message.size <= IAP_APP_MAX_BUFFER_SIZE => tries + 1 <= damage' + 2 * losses)
      BY <1>5, <1>6, <1>9
    <2>3. QED
      BY <1>7, <1>9, <2>1, <2>2
  <1>10. ASSUME losses' = losses + 1, UNCHANGED <<device, reply, damage>> PROVE Budget'
    <2>1. state' = state /\ reply' = NoReply /\ losses' > 0 /\ damage' = damage
      BY <1>4, <1>5, <1>10 DEF device
    <2>2. Owed' = IF state = "RECVING" THEN 2 ELSE 1
      BY <1>3, <2>1 DEF Owed
    <2>3. message.size <= IAP_APP_MAX_BUFFER_SIZE => tries + 2 <= damage + 2 * (losses + 1)
      BY <1>5, <1>6
    <2>4. QED
      BY <1>3, <1>5, <1>10, <2>1, <2>2, <2>3 DEF Budget, NoReply
  <1>11. QED
    BY <1>8, <1>9, <1>10 DEF SendFrame, Arrival

LEMMA TakeReplyBudget == IInv /\ Budget /\ TakeReply => Budget'
  <1> SUFFICES ASSUME IInv, Budget, TakeReply, env.waits, ~env.abandons, ~env.silent
               PROVE  Budget'
    BY DEF Budget, TakeReply
  <1>1. /\ reply \in {"dummy", "error", "answer"} /\ waiting /\ message # NoMessage
    BY DEF TakeReply, IInv, TypeOK, AsksInTurn
  <1>2. /\ reply' = NoReply /\ ~waiting' /\ state' = state /\ UNCHANGED <<damage, losses, env>>
    BY DEF TakeReply, device
  <1>3. tries \in Nat /\ damage \in Nat /\ losses \in Nat /\ position > 1
    <2>1. env.damage \in Nat /\ env.losses \in Nat /\ RetryNum \in Nat
      BY EnvTypes, EnvironmentAssumption DEF IInv, TypeOK
    <2>2. QED
      BY <1>1, <2>1 DEF IInv, TypeOK, AsksInTurn
  <1>4. CASE reply = "dummy"
    <2>1. UNCHANGED <<message, position, tries>> /\ state = "RECVING"
      BY <1>1, <1>4 DEF TakeReply, Budget
    <2>2. Owed' = 0 /\ Owed = 0
      BY <1>1, <1>2, <1>3, <1>4, <2>1 DEF Owed, NoReply
    <2>3. QED
      BY <1>1, <1>2, <1>3, <2>1, <2>2 DEF Budget, NoReply
  <1>5. CASE reply = "error"
    <2>1. state = "IDLE" /\ StartAgain
      BY <1>1, <1>5 DEF TakeReply, Budget
    <2>2. Owed = 1 /\ Owed' = 0
      BY <1>2, <1>5, <2>1 DEF Owed, NoReply
    <2>3. \/ message' = NoMessage
          \/ message' = message /\ tries' = tries + 1 /\ position' = 1
      BY <2>1 DEF StartAgain
    <2>4. QED
      BY <1>1, <1>2, <1>3, <2>1, <2>2, <2>3 DEF Budget, NoReply
  <1>6. CASE reply = "answer"
    <2>1. state = "IDLE" /\ message' = NoMessage
      BY <1>1, <1>6 DEF TakeReply, Budget
    <2>2. QED
      BY <1>2, <2>1 DEF Budget, NoReply
  <1>7. QED
    BY <1>1, <1>4, <1>5, <1>6

LEMMA ReadTimeoutBudget == IInv /\ Budget /\ ReadTimeout => Budget'
  <1> SUFFICES ASSUME IInv, Budget, ReadTimeout, env.waits, ~env.abandons, ~env.silent
               PROVE  Budget'
    BY DEF Budget, ReadTimeout
  <1>1. /\ reply = NoReply /\ waiting /\ message # NoMessage /\ losses > 0
    BY DEF ReadTimeout, IInv, AsksInTurn, Budget
  <1>2. /\ reply' = NoReply /\ ~waiting' /\ state' = state /\ UNCHANGED <<damage, losses, env>>
    BY <1>1 DEF ReadTimeout, device
  <1>3. tries \in Nat /\ damage \in Nat /\ losses \in Nat
    <2>1. env.damage \in Nat /\ env.losses \in Nat /\ RetryNum \in Nat
      BY EnvTypes, EnvironmentAssumption DEF IInv, TypeOK
    <2>2. QED
      BY <2>1 DEF IInv, TypeOK
  <1>4. \/ message' = NoMessage
        \/ message' = message /\ tries' = tries + 1 /\ position' = 1
    BY DEF ReadTimeout, StartAgain
  <1>5. Owed = (IF state = "RECVING" THEN 2 ELSE 1)
    BY <1>1 DEF Owed
  <1>6. position' = 1 => Owed' = (IF state = "RECVING" THEN 1 ELSE 0)
    BY <1>2 DEF Owed, NoReply
  <1>7. QED
    BY <1>1, <1>2, <1>3, <1>4, <1>5, <1>6 DEF Budget, NoReply

LEMMA BeginBudget == ASSUME NEW m \in Messages PROVE IInv /\ Budget /\ Begin(m) => Budget'
  <1> SUFFICES ASSUME IInv, Budget, Begin(m), env.waits, ~env.abandons, ~env.silent
               PROVE  Budget'
    BY DEF Budget, Begin
  <1>1. /\ message = NoMessage /\ message' = m /\ position' = 1 /\ tries' = 0
        /\ UNCHANGED <<reply, waiting, damage, losses, env>> /\ state' = state
    BY DEF Begin, device
  <1>2. waiting = FALSE /\ reply = NoReply
    <2>1. waiting \in BOOLEAN /\ ~waiting
      BY <1>1 DEF IInv, AsksInTurn, TypeOK
    <2>2. QED
      BY <2>1 DEF IInv, AsksInTurn
  <1>3. damage \in Nat /\ losses \in Nat
    <2>1. env.damage \in Nat /\ env.losses \in Nat
      BY EnvTypes DEF IInv, TypeOK
    <2>2. QED
      BY <2>1 DEF IInv, TypeOK
  <1>4. state = "RECVING" => losses > 0
    BY <1>1 DEF Budget
  <1>5. Owed' = (IF state = "RECVING" THEN 1 ELSE 0)
    BY <1>1, <1>2 DEF Owed, NoReply
  <1>6. QED
    BY <1>1, <1>2, <1>3, <1>4, <1>5 DEF Budget, NoReply

LEMMA NextBudget == IInv /\ Budget /\ BufferFitsNumbers /\ [Next]_vars => Budget'
  <1> SUFFICES ASSUME IInv, Budget, BufferFitsNumbers, [Next]_vars PROVE Budget'
    OBVIOUS
  <1>1. CASE Abandon
    BY <1>1 DEF Abandon, Budget
  <1>2. CASE UNCHANGED vars
    BY <1>2 DEF vars, device, host, Budget, Owed
  <1>3. QED
    BY <1>1, <1>2, SendFrameBudget, TakeReplyBudget, ReadTimeoutBudget, BeginBudget DEF Next

LEMMA InitBudget == Init => Budget
  BY EnvTypes DEF Init, Budget, Owed, NoReply

\* A damaged frame costs a host that keeps to the protocol one start of its
\* message, a lost frame two, however faults and messages follow each other.
THEOREM RetriesArePaidFor ==
  ASSUME OrderlyLines, BufferFitsNumbers PROVE Spec => []FaultsCostFewTries
  <1>1. IInv /\ Budget /\ [Next]_vars => Budget'
    BY NextBudget
  <1>2. IInv /\ Budget => FaultsCostFewTries
    <2> SUFFICES ASSUME IInv, Budget, message # NoMessage, Reliable(message)
                 PROVE  tries <= damage + 2 * losses
      BY DEF FaultsCostFewTries
    <2>1. tries + Owed <= damage + 2 * losses
      BY DEF Budget, Reliable
    <2>2. Owed \in {0, 1, 2}
      BY DEF Owed
    <2>3. tries \in Nat /\ damage \in Nat /\ losses \in Nat
      <3>1. env.damage \in Nat /\ env.losses \in Nat /\ RetryNum \in Nat
        BY EnvTypes, EnvironmentAssumption DEF IInv, TypeOK
      <3>2. QED
        BY <3>1 DEF IInv, TypeOK
    <2>4. QED
      BY <2>1, <2>2, <2>3
  <1>3. QED
    BY <1>1, <1>2, InitBudget, InductiveInvariant, PTL DEF Spec

=============================================================================
