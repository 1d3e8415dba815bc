---------------------------- MODULE IapTransport ----------------------------
(***************************************************************************)
(* The transport of the IAP protocol (IAP/IAP_Transport.c), between the    *)
(* host and the application layer.  A message is cut into frames, numbered *)
(* down to 0, that are collected in the buffer of the application; every   *)
(* frame is answered, with a dummy, an error or, the last one, by the      *)
(* application.  A frame is handled, whole, in the USB interrupt.          *)
(*                                                                         *)
(* The host is not part of the repository: it is modelled as a program     *)
(* that sends a frame, waits for the answer, and starts the message again  *)
(* after an error or a timeout (retryNum, readAckTimeout).                 *)
(* A frame carries one unit of a message, and the buffer has room for      *)
(* IAP_APP_MAX_BUFFER_SIZE units.                                          *)
(* A definition marked "Slip" is a plausible mistake in the definition     *)
(* that follows it; no action uses it.                                     *)
(***************************************************************************)
EXTENDS Integers, Sequences

CONSTANTS
  Messages,            \* the messages hosts send, records of name and size
  PackNumModulus,      \* total_pack_num and next_pack_num are counted modulo this
  IAP_APP_MAX_BUFFER_SIZE,
  RetryNum,            \* how often the host starts a message again
  Environments         \* the environments the device may find itself in, see Environment

ASSUME MessagesAssumption ==
  /\ Messages \subseteq [name : STRING, size : Nat \ {0}]
  /\ IAP_APP_MAX_BUFFER_SIZE \in Nat /\ PackNumModulus \in Nat \ {0, 1}

\* Whether the host waits for the answer to a frame; whether the host program
\* may be stopped at any time; whether the application may leave a message
\* unanswered; and, as bounds, how many frames arrive damaged or do not arrive.
Environment ==
  [waits : BOOLEAN, abandons : BOOLEAN, silent : BOOLEAN, damage : Nat, losses : Nat]

ASSUME EnvironmentAssumption == Environments \subseteq Environment /\ RetryNum \in Nat

VARIABLES
  state, next_pack_num,    \* TransportRecvCtl
  buffer,                  \* TransportRecvData
  handed,                  \* the message the application was called with last
  reply,                   \* the report in the IN endpoint: sendBusy while there is one
  message, position,       \* host: the message it sends, and the next frame of it
  waiting, tries,          \* host: it waits for an answer; how often it started again
  damage, losses,          \* how many frames were damaged, and lost
  env                      \* the environment of this behaviour

device == <<state, next_pack_num, buffer, handed>>
host == <<message, position, waiting, tries>>
vars == <<device, reply, host, damage, losses, env>>

NoMessage == [name |-> "none", size |-> 0]
NoReply == "none"
Faults == {"LENGTH", "HEADER", "DIRECTION", "PACK_TYPE", "BCC"}

\* The frame at a position of a message, and the content of the message.
FrameAt(m, i) ==
  [first |-> i = 1, num |-> m.size - i, payload |-> <<m.name, i>>, fault |-> "NONE"]
Content(m) == [i \in 1 .. m.size |-> <<m.name, i>>]

(***************************************************************************)
(* The device: IAP_Transport_Dispatch and bsp_usb_hid_iap_recv_callback.   *)
(***************************************************************************)
\* bsp_usb_hid_iap_send: while the endpoint is busy the report is dropped.
Send(r) == reply' = IF reply = NoReply THEN r ELSE reply

\* Slip: what was collected stays in the buffer.
GotoIdleKeepingData == state' = "IDLE" /\ next_pack_num' = 0 /\ UNCHANGED buffer

\* IAP_TransportRecvGotoIdle
GotoIdle == state' = "IDLE" /\ next_pack_num' = 0 /\ buffer' = <<>>

\* Slip: the number of a frame is not compared with the next one.
NumberOKUnchecked(f) == f.first = (state = "IDLE")

NumberOK(f) ==
  IF state = "IDLE" THEN f.first ELSE ~f.first /\ f.num = next_pack_num

DispatchError(f) ==
  IF f.fault # "NONE" THEN f.fault
  ELSE IF ~NumberOK(f) THEN "PACK_NUM"
  ELSE IF Len(buffer) + 1 > IAP_APP_MAX_BUFFER_SIZE THEN "BUFFER_OVERFLOW" ELSE "NONE"

\* Slip: an error is reported, but the reassembly goes on.
RejectKeepingState(f) ==
  /\ DispatchError(f) # "NONE"
  /\ UNCHANGED device
  /\ Send("error")

Reject(f) ==
  /\ DispatchError(f) # "NONE"
  /\ GotoIdle /\ UNCHANGED handed
  /\ Send("error")

\* Slip: the first number is taken for the number of the next frame.
NumberAfterSame(f) ==
  IF state = "IDLE" THEN f.num % PackNumModulus
  ELSE IF next_pack_num = 0 THEN 0 ELSE next_pack_num - 1

\* The number of the frame after f.
NumberAfter(f) ==
  IF state = "IDLE" THEN ((f.num % PackNumModulus) - 1) % PackNumModulus
  ELSE IF next_pack_num = 0 THEN 0 ELSE next_pack_num - 1

Collect(f) ==
  /\ DispatchError(f) = "NONE" /\ f.num # 0
  /\ buffer' = Append(buffer, f.payload)
  /\ state' = "RECVING" /\ next_pack_num' = NumberAfter(f)
  /\ UNCHANGED handed
  /\ Send("dummy")

\* The last frame: iap_transport_recv_cmd_callback, which answers.
HandOver(f) ==
  /\ DispatchError(f) = "NONE" /\ f.num = 0
  /\ handed' = Append(buffer, f.payload)
  /\ GotoIdle
  /\ Send("answer") \/ (env.silent /\ UNCHANGED reply)

Receive(f) == Reject(f) \/ Collect(f) \/ HandOver(f)

(***************************************************************************)
(* The host (external).                                                    *)
(***************************************************************************)
Begin(m) ==
  /\ message = NoMessage \/ (~env.waits /\ position > message.size)
  /\ message' = m /\ position' = 1 /\ tries' = 0
  /\ UNCHANGED <<device, reply, waiting, damage, losses, env>>

\* The next frame arrives, arrives damaged, or is lost.
SendFrame ==
  /\ message # NoMessage /\ ~waiting /\ position <= message.size
  /\ position' = position + 1 /\ waiting' = env.waits
  /\ UNCHANGED <<message, tries, env>>
  /\ \/ Receive(FrameAt(message, position)) /\ UNCHANGED <<damage, losses>>
     \/ /\ damage < env.damage /\ damage' = damage + 1
        /\ \E fault \in Faults : Receive([FrameAt(message, position) EXCEPT !.fault = fault])
        /\ UNCHANGED losses
     \/ /\ losses < env.losses /\ losses' = losses + 1
        /\ UNCHANGED <<device, reply, damage>>

StartAgain ==
  \/ tries < RetryNum /\ tries' = tries + 1 /\ position' = 1 /\ UNCHANGED message
  \/ tries = RetryNum /\ message' = NoMessage /\ UNCHANGED <<position, tries>>

\* The host takes the report, which frees the endpoint (TRANSMIT_END).
TakeReply ==
  /\ reply # NoReply /\ reply' = NoReply
  /\ UNCHANGED <<device, damage, losses, env>>
  /\ waiting' = FALSE
  /\ \/ ~waiting /\ UNCHANGED <<message, position, tries>>
     \/ waiting /\ reply = "dummy" /\ UNCHANGED <<message, position, tries>>
     \/ waiting /\ reply = "error" /\ StartAgain
     \/ waiting /\ reply = "answer" /\ message' = NoMessage /\ UNCHANGED <<position, tries>>

\* readAckTimeout, which is longer than any report takes.
ReadTimeout ==
  /\ waiting /\ reply = NoReply
  /\ waiting' = FALSE /\ StartAgain
  /\ UNCHANGED <<device, reply, damage, losses, env>>

Abandon ==
  /\ env.abandons /\ message # NoMessage
  /\ message' = NoMessage /\ waiting' = FALSE
  /\ UNCHANGED <<device, reply, position, tries, damage, losses, env>>

Init ==
  /\ state = "IDLE" /\ next_pack_num = 0 /\ buffer = <<>> /\ handed = <<>>
  /\ reply = NoReply
  /\ message = NoMessage /\ position = 1 /\ waiting = FALSE /\ tries = 0
  /\ damage = 0 /\ losses = 0
  /\ env \in Environments

Next ==
  SendFrame \/ TakeReply \/ ReadTimeout \/ Abandon \/ \E m \in Messages : Begin(m)

Spec == Init /\ [][Next]_vars

FairSpec == Spec /\ WF_vars(SendFrame) /\ WF_vars(TakeReply) /\ WF_vars(ReadTimeout)

-----------------------------------------------------------------------------
(***************************************************************************)
(* Properties.                                                             *)
(***************************************************************************)
\* The reassembly stays inside the buffer and its numbers inside their width.
TypeOK ==
  /\ state \in {"IDLE", "RECVING"} /\ next_pack_num \in 0 .. PackNumModulus - 1
  /\ Len(buffer) <= IAP_APP_MAX_BUFFER_SIZE
  /\ (state = "IDLE") = (buffer = <<>>)
  /\ Len(handed) <= IAP_APP_MAX_BUFFER_SIZE
  /\ reply \in {NoReply, "dummy", "error", "answer"}
  /\ message \in Messages \cup {NoMessage} /\ position \in Nat \ {0}
  /\ waiting \in BOOLEAN /\ tries \in 0 .. RetryNum
  /\ env \in Environments /\ damage \in 0 .. env.damage /\ losses \in 0 .. env.losses

\* Whatever is damaged, left off and started again, the application is only
\* called with a whole message of the host: never with the beginning of one
\* and the end of another, nor with leftovers in front (MessageChannel).
Channel == INSTANCE MessageChannel WITH
  Contents <- {Content(m) : m \in Messages}, received <- buffer, handed <- handed
HandsOverWholeMessages == Channel!Spec

\* The host and the application keep to the protocol, for a message that fits.
Reliable(m) ==
  env.waits /\ ~env.abandons /\ ~env.silent /\ m.size <= IAP_APP_MAX_BUFFER_SIZE

\* Such a host believes a message done only if it is the one that was handed
\* over last.
AnswerIsForMessage ==
  [][Reliable(message) /\ waiting /\ reply = "answer" /\ reply' = NoReply
       => handed = Content(message)]_vars

\* Both ends: what is handed over is a whole message, and the message the host
\* believes done is the one.
DeliversWholeMessages == HandsOverWholeMessages /\ AnswerIsForMessage

\* A damaged frame costs the host one start, a lost one two: the device is
\* ready for the message again after one rejected frame.
FaultsCostFewTries ==
  message # NoMessage /\ Reliable(message) => tries <= damage + 2 * losses

\* With few enough faults for retryNum every message that fits gets through.
EveryMessageArrives ==
  \A m \in Messages :
    message = m /\ Reliable(m) /\ env.damage + 2 * env.losses <= RetryNum
      ~> message = NoMessage /\ handed = Content(m)

=============================================================================
