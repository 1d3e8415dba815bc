---------------------------- MODULE UcmPackaging ----------------------------
(***************************************************************************)
(* The UCM commands of the ING20 EMI firmware (Ctrl/ctrl.c): a command is  *)
(* cut into packets, numbered down to 0, whose payloads are put together   *)
(* in package.buffer; with the last one the command is dispatched from     *)
(* there.  A packet is handled, whole, in the USB interrupt.               *)
(*                                                                         *)
(* A host goes on with the next packet after a success; otherwise, and     *)
(* whenever it likes, it repeats the packet or begins with a command.      *)
(* A definition marked "Slip" is a plausible mistake in the definition     *)
(* that follows it; no action uses it.                                     *)
(***************************************************************************)
EXTENDS Integers, Sequences, FiniteSets

CONSTANTS
  Commands,              \* the commands hosts send: sequences of payloads, sequences of bytes
  Known,                 \* those UCM_Command_Dispatch knows
  PACKAEG_BUFFER_SIZE,
  PosModulus             \* pos, a uint8_t, is counted modulo this

ASSUME CommandsAssumption ==
  /\ Commands \subseteq Seq(Seq(STRING)) \ {<<>>} /\ Known \subseteq Commands
  /\ PACKAEG_BUFFER_SIZE \in Nat \ {0} /\ PosModulus \in Nat \ {0}

VARIABLES
  state, pos, number, buffer,    \* package
  command, next,                 \* host: the command it sends, and the next packet of it
  reply,                         \* the answer to the last packet
  dispatched                     \* what the last command was dispatched from

package == <<state, pos, number, buffer>>
vars == <<package, command, next, reply, dispatched>>

NoByte == "none"
\* How many bytes of a command are in the packets before packet i.
BytesBefore(c, i) == Cardinality(UNION {{k} \X (1 .. Len(c[k])) : k \in 1 .. i - 1})
PacketAt(c, i) == [first |-> i = 1, number |-> Len(c) - i, payload |-> c[i]]

\* Slip: the position is not reset.
SetIdleKeepingPos == state' = "IDLE" /\ number' = 0 /\ UNCHANGED pos

\* UCM_Packaging_Set_Idle
SetIdle == state' = "IDLE" /\ pos' = 0 /\ number' = 0

Refuse(result) == reply' = result /\ UNCHANGED dispatched

\* A packet with a wrong checksum changes nothing.
ReceiveDamaged == Refuse("CHECKSUM_MISMATCH") /\ UNCHANGED package

UnexpectedPackage(p) ==
  /\ IF state = "IDLE" THEN ~p.first ELSE p.first \/ number # p.number + 1
  /\ Refuse("UNEXPECTED_PACKAGE")
  /\ IF state = "IDLE" THEN UNCHANGED package ELSE SetIdle /\ UNCHANGED buffer

Overflows(p) == state = "IN_PROGRESS" /\ pos + Len(p.payload) >= PACKAEG_BUFFER_SIZE

BufferOverflow(p) ==
  /\ state = "IN_PROGRESS" /\ ~p.first /\ number = p.number + 1 /\ Overflows(p)
  /\ Refuse("BUFFER_OVERFLOW") /\ SetIdle /\ UNCHANGED buffer

\* Where the payload goes: the first packet starts the package.
Start == IF state = "IDLE" THEN 0 ELSE pos

Save(p) ==
  buffer' = [i \in 1 .. PACKAEG_BUFFER_SIZE |->
               IF Start < i /\ i <= Start + Len(p.payload) THEN p.payload[i - Start] ELSE buffer[i]]

\* Slip: the number is not compared with the last one.
ExpectedUnnumbered(p) == IF state = "IDLE" THEN p.first ELSE ~p.first /\ ~Overflows(p)

Expected(p) ==
  IF state = "IDLE" THEN p.first ELSE ~p.first /\ number = p.number + 1 /\ ~Overflows(p)

Collect(p) ==
  /\ Expected(p) /\ p.number # 0
  /\ Save(p)
  /\ state' = "IN_PROGRESS" /\ number' = p.number
  /\ pos' = (Start + Len(p.payload)) % PosModulus
  /\ reply' = "SUCCESS" /\ UNCHANGED dispatched

\* The last packet: UCM_Command_Dispatch.  What it returns for a command it
\* does not know is dropped, and UCM_Dispatch takes the command for answered.
Process(p, c) ==
  /\ Expected(p) /\ p.number = 0
  /\ Save(p) /\ SetIdle
  /\ dispatched' = buffer'
  /\ reply' = IF c \in Known THEN "RESULT" ELSE "NONE"

Receive(p) ==
  \/ ReceiveDamaged \/ UnexpectedPackage(p) \/ BufferOverflow(p) \/ Collect(p)
  \/ Process(p, command')

\* The host (external).
Send(c, i) ==
  /\ command' = c /\ next' = i + 1
  /\ Receive(PacketAt(c, i))

GoOn == next <= Len(command) /\ reply = "SUCCESS" /\ Send(command, next)
Repeat == next > 1 /\ Send(command, next - 1)

Init ==
  /\ state = "IDLE" /\ pos = 0 /\ number = 0
  /\ buffer = [i \in 1 .. PACKAEG_BUFFER_SIZE |-> NoByte]
  /\ command = <<>> /\ next = 1 /\ reply = "NONE" /\ dispatched = buffer

Next == GoOn \/ Repeat \/ \E c \in Commands : Send(c, 1)

Spec == Init /\ [][Next]_vars

-----------------------------------------------------------------------------
(***************************************************************************)
(* Properties.                                                             *)
(***************************************************************************)
\* Between commands the package is empty, and its position fits a uint8_t.
TypeOK ==
  /\ state \in {"IDLE", "IN_PROGRESS"} /\ pos \in 0 .. PosModulus - 1 /\ number \in Nat
  /\ state = "IDLE" => pos = 0 /\ number = 0
  /\ DOMAIN buffer = 1 .. PACKAEG_BUFFER_SIZE /\ DOMAIN dispatched = DOMAIN buffer
  /\ command \in Commands \cup {<<>>} /\ next \in Nat
  /\ reply \in {"NONE", "SUCCESS", "RESULT", "CHECKSUM_MISMATCH", "UNEXPECTED_PACKAGE",
                "BUFFER_OVERFLOW"}

\* The bytes of a command are the first ones of a buffer.
StartsWith(b, c) ==
  /\ BytesBefore(c, Len(c) + 1) <= PACKAEG_BUFFER_SIZE
  /\ \A i \in 1 .. Len(c) : \A j \in 1 .. Len(c[i]) : b[BytesBefore(c, i) + j] = c[i][j]

\* A command is dispatched from its own bytes, from the first to the last,
\* whatever was refused, repeated or left off before.
DispatchesOwnBytes ==
  [][reply' \in {"RESULT", "NONE"} => StartsWith(dispatched', command')]_vars

\* "Check buffer overflow" (UCM_Packaging_Dispatch): a command longer than the
\* buffer is not dispatched.
LongCommandsAreRefused ==
  [][reply' \in {"RESULT", "NONE"} =>
       BytesBefore(command', Len(command') + 1) <= PACKAEG_BUFFER_SIZE]_vars

=============================================================================
