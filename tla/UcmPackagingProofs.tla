-------------------------- MODULE UcmPackagingProofs --------------------------
(***************************************************************************)
(* Proofs about UcmPackaging, for every set of commands, every size of the *)
(* buffer and every modulus of the position.                               *)
(***************************************************************************)
EXTENDS UcmPackaging, FiniteSetTheorems, TLAPS

\* The commands for which the uint8_t position is the place in the buffer:
\* every packet of a command, the last one too, begins below its modulus. A
\* packet alone fits: it holds 26 bytes at most, and the buffer 300.
PositionsFit ==
  \A c \in Commands :
    /\ BytesBefore(c, Len(c)) < PosModulus
    /\ \A i \in 1 .. Len(c) : Len(c[i]) <= PACKAEG_BUFFER_SIZE

-----------------------------------------------------------------------------
(***************************************************************************)
(* The inductive invariant.                                                *)
(***************************************************************************)
\* The first k packets are in the buffer, one after the other.
Stored(b, c, k) ==
  \A i \in 1 .. k : \A j \in 1 .. Len(c[i]) : b[BytesBefore(c, i) + j] = c[i][j]

\* The device holds the first k packets of the command, and waits for the next.
Holds(k) ==
  /\ k \in 1 .. Len(command) - 1
  /\ number = Len(command) - k /\ pos = BytesBefore(command, k + 1)
  /\ Stored(buffer, command, k)

\* What the device collects is the command the host is at: all that was sent,
\* or all but a packet that came damaged. A first packet that came damaged
\* leaves something else there, which the first packet throws away.
Tracks ==
  state = "IN_PROGRESS" =>
    /\ command \in Commands
    /\ \/ Holds(next - 1)
       \/ next > 2 /\ reply # "SUCCESS" /\ Holds(next - 2)
       \/ next = 2 /\ reply # "SUCCESS"

\* Packets are sent of commands only, and none after the last.
SendsPackets ==
  \/ command = <<>> /\ next = 1
  \/ command \in Commands /\ next \in 2 .. Len(command) + 1

IInv == TypeOK /\ SendsPackets /\ Tracks

-----------------------------------------------------------------------------
(***************************************************************************)
(* Where the packets of a command begin.                                   *)
(***************************************************************************)
LEMMA CommandTypes ==
  ASSUME NEW c \in Commands
  PROVE  /\ c \in Seq(Seq(STRING)) /\ c # <<>> /\ Len(c) \in Nat \ {0}
         /\ \A i \in 1 .. Len(c) : c[i] \in Seq(STRING) /\ Len(c[i]) \in Nat
  <1>1. c \in Seq(Seq(STRING)) /\ c # <<>>
    BY CommandsAssumption
  <1>2. Len(c) \in Nat \ {0}
    BY <1>1
  <1>3. \A i \in 1 .. Len(c) : c[i] \in Seq(STRING)
    BY <1>1
  <1>4. \A i \in 1 .. Len(c) : Len(c[i]) \in Nat
    BY <1>3
  <1>5. QED
    BY <1>1, <1>2, <1>3, <1>4

Places(c, i) == UNION {{k} \X (1 .. Len(c[k])) : k \in 1 .. i - 1}

LEMMA PlacesFinite ==
  ASSUME PositionsFit, NEW c \in Commands, NEW i \in 1 .. Len(c) + 1
  PROVE  IsFiniteSet(Places(c, i))
  <1>1. Len(c) \in Nat /\ PACKAEG_BUFFER_SIZE \in Nat
    BY CommandTypes, CommandsAssumption
  <1> DEFINE S == (1 .. Len(c)) \X (1 .. PACKAEG_BUFFER_SIZE)
  <1>2. IsFiniteSet(S)
    <2>1. IsFiniteSet(1 .. Len(c)) /\ IsFiniteSet(1 .. PACKAEG_BUFFER_SIZE)
      BY <1>1, FS_Interval
    <2>2. QED
      BY <2>1, FS_Product
  <1>3. Places(c, i) \subseteq S
    <2> SUFFICES ASSUME NEW k \in 1 .. i - 1, NEW x \in {k} \X (1 .. Len(c[k])) PROVE x \in S
      BY DEF Places
    <2>1. k \in 1 .. Len(c)
      BY <1>1
    <2>2. Len(c[k]) \in Nat /\ Len(c[k]) <= PACKAEG_BUFFER_SIZE
      BY <2>1, CommandTypes DEF PositionsFit
    <2>3. 1 .. Len(c[k]) \subseteq 1 .. PACKAEG_BUFFER_SIZE
      BY <1>1, <2>2
    <2>4. QED
      BY <2>1, <2>3
  <1>4. Places(c, i) \in SUBSET S
    BY <1>3
  <1>5. QED
    BY <1>2, <1>4, FS_Subset

LEMMA BytesBeforeFirst ==
  ASSUME NEW c
  PROVE  BytesBefore(c, 1) = 0
  <1>1. 1 .. 1 - 1 = {}
    OBVIOUS
  <1>2. UNION {{k} \X (1 .. Len(c[k])) : k \in 1 .. 1 - 1} = {}
    BY <1>1
  <1>3. QED
    BY <1>2, FS_EmptySet DEF BytesBefore

\* Packet i + 1 begins where packet i ends.
LEMMA BytesBeforeNext ==
  ASSUME PositionsFit, NEW c \in Commands, NEW i \in 1 .. Len(c)
  PROVE  BytesBefore(c, i + 1) = BytesBefore(c, i) + Len(c[i])
  <1>1. Len(c) \in Nat /\ Len(c[i]) \in Nat /\ i \in Nat \ {0}
    BY CommandTypes
  <1> DEFINE T == {i} \X (1 .. Len(c[i]))
  <1>2. Places(c, i + 1) = Places(c, i) \cup T
    <2>1. 1 .. (i + 1) - 1 = (1 .. i - 1) \cup {i}
      BY <1>1
    <2>2. QED
      BY <2>1 DEF Places
  <1>3. Places(c, i) \cap T = {}
    <2>1. i \notin 1 .. i - 1
      BY <1>1
    <2>2. QED
      BY <2>1 DEF Places
  <1>4. IsFiniteSet(T) /\ Cardinality(T) = Len(c[i])
    <2>1. IsFiniteSet({i}) /\ Cardinality({i}) = 1
      <3>1. {i} = {} \cup {i} /\ i \notin {}
        OBVIOUS
      <3>2. IsFiniteSet({}) /\ Cardinality({}) = 0
        BY FS_EmptySet
      <3>3. /\ IsFiniteSet({} \cup {i})
            /\ Cardinality({} \cup {i}) = IF i \in {} THEN Cardinality({}) ELSE Cardinality({}) + 1
        BY <3>2, FS_AddElement, Zenon
      <3>4. Cardinality({} \cup {i}) = 0 + 1
        BY <3>1, <3>2, <3>3, Zenon
      <3>5. Cardinality({i}) = 0 + 1
        BY <3>1, <3>4, Zenon
      <3>6. QED
        BY <3>1, <3>3, <3>5
    <2>2. IsFiniteSet(1 .. Len(c[i])) /\ Cardinality(1 .. Len(c[i])) = Len(c[i])
      <3> DEFINE n == Len(c[i])
      <3>1. n \in Nat
        BY <1>1
      <3> HIDE DEF n
      <3>2. IsFiniteSet(1 .. n) /\ Cardinality(1 .. n) = IF 1 > n THEN 0 ELSE n - 1 + 1
        BY <3>1, FS_Interval
      <3>3. QED
        BY <3>1, <3>2 DEF n
    <2>3. IsFiniteSet(T) /\ Cardinality(T) = 1 * Len(c[i])
      BY <2>1, <2>2, FS_Product
    <2>4. QED
      BY <1>1, <2>3
  <1>5. IsFiniteSet(Places(c, i))
    BY <1>1, PlacesFinite
  <1> HIDE DEF T
  <1>6. Cardinality(Places(c, i) \cup T)
          = Cardinality(Places(c, i)) + Cardinality(T) - Cardinality(Places(c, i) \cap T)
    BY <1>4, <1>5, FS_Union
  <1>7. Cardinality(Places(c, i)) \in Nat
    BY <1>5, FS_CardinalityType
  <1>8. Cardinality(Places(c, i + 1)) = Cardinality(Places(c, i)) + Len(c[i])
    <2>1. Cardinality(Places(c, i) \cap T) = 0
      BY <1>3, FS_EmptySet
    <2>2. Cardinality(Places(c, i + 1)) = Cardinality(Places(c, i)) + Len(c[i]) - 0
      BY <1>2, <1>4, <1>6, <2>1, Zenon
    <2>3. QED
      BY <1>1, <1>7, <2>2
  <1>9. QED
    BY <1>8 DEF BytesBefore, Places

LEMMA BytesBeforeGrows ==
  ASSUME PositionsFit, NEW c \in Commands, NEW j \in 1 .. Len(c) + 1, NEW i \in 1 .. j
  PROVE  BytesBefore(c, i) \in Nat /\ BytesBefore(c, i) <= BytesBefore(c, j)
  <1>1. Len(c) \in Nat
    BY CommandTypes
  <1>2. IsFiniteSet(Places(c, j)) /\ IsFiniteSet(Places(c, i))
    BY <1>1, PlacesFinite
  <1>3. 1 .. i - 1 \subseteq 1 .. j - 1
    BY <1>1
  <1>4. Places(c, i) \in SUBSET Places(c, j)
    BY <1>3 DEF Places
  <1>5. Cardinality(Places(c, i)) \in Nat /\ Cardinality(Places(c, i)) <= Cardinality(Places(c, j))
    BY <1>2, <1>4, FS_Subset, FS_CardinalityType
  <1>6. QED
    BY <1>5 DEF BytesBefore, Places

-----------------------------------------------------------------------------
(***************************************************************************)
(* Types.                                                                  *)
(***************************************************************************)
LEMMA PacketTypes ==
  ASSUME NEW c \in Commands, NEW i \in 1 .. Len(c)
  PROVE  /\ PacketAt(c, i).first = (i = 1) /\ PacketAt(c, i).number = Len(c) - i
         /\ PacketAt(c, i).number \in Nat
         /\ PacketAt(c, i).payload = c[i] /\ Len(PacketAt(c, i).payload) \in Nat
  BY CommandTypes DEF PacketAt

\* The package, and what was dispatched from it last.
PackageTypes ==
  /\ state \in {"IDLE", "IN_PROGRESS"} /\ pos \in 0 .. PosModulus - 1 /\ number \in Nat
  /\ state = "IDLE" => pos = 0 /\ number = 0
  /\ DOMAIN buffer = 1 .. PACKAEG_BUFFER_SIZE /\ DOMAIN dispatched = DOMAIN buffer
  /\ reply \in {"NONE", "SUCCESS", "RESULT", "CHECKSUM_MISMATCH", "UNEXPECTED_PACKAGE",
                "BUFFER_OVERFLOW"}

LEMMA ReceiveTypes ==
  ASSUME PackageTypes, NEW p, p.number \in Nat, Len(p.payload) \in Nat, Receive(p)
  PROVE  PackageTypes'
  <1>1. PosModulus \in Nat \ {0}
    BY CommandsAssumption
  <1> USE DEF package
  <1>2. CASE ReceiveDamaged
    BY <1>2 DEF ReceiveDamaged, Refuse, PackageTypes
  <1>3. CASE UnexpectedPackage(p)
    BY <1>1, <1>3 DEF UnexpectedPackage, SetIdle, Refuse, PackageTypes
  <1>4. CASE BufferOverflow(p)
    BY <1>1, <1>4 DEF BufferOverflow, SetIdle, Refuse, PackageTypes
  <1>5. CASE Collect(p)
    <2>1. Start \in Nat
      BY <1>1 DEF Start, PackageTypes
    <2>2. (Start + Len(p.payload)) % PosModulus \in 0 .. PosModulus - 1
      <3> DEFINE n == Start + Len(p.payload)
      <3>1. n \in Nat
        BY <2>1
      <3> HIDE DEF n
      <3>2. n % PosModulus \in 0 .. PosModulus - 1
        BY <1>1, <3>1
      <3>3. QED
        BY <3>2 DEF n
    <2>3. DOMAIN buffer' = 1 .. PACKAEG_BUFFER_SIZE /\ DOMAIN dispatched' = DOMAIN dispatched
      BY <1>5 DEF Collect, Save
    <2>4. QED
      BY <1>5, <2>2, <2>3 DEF Collect, PackageTypes
  <1>6. CASE Process(p, command')
    <2>1. DOMAIN buffer' = 1 .. PACKAEG_BUFFER_SIZE /\ dispatched' = buffer'
      BY <1>6 DEF Process, Save
    <2>2. reply' \in {"RESULT", "NONE"}
      BY <1>6 DEF Process
    <2>3. QED
      BY <1>1, <1>6, <2>1, <2>2 DEF Process, SetIdle, PackageTypes
  <1>7. QED
    BY <1>2, <1>3, <1>4, <1>5, <1>6 DEF Receive

\* The packet a host sends: the first one of a command, the next one of the
\* command it is at after a success, or the last one once more.
Picks(c, i) ==
  i = 1 \/ (c = command /\ (i = next - 1 \/ (i = next /\ reply = "SUCCESS")))

LEMMA NextSends ==
  ASSUME TypeOK, SendsPackets, Next
  PROVE  \E c \in Commands : \E i \in 1 .. Len(c) : Send(c, i) /\ Picks(c, i)
  <1>1. CASE GoOn
    <2>1. command \in Commands /\ next \in 1 .. Len(command)
      <3>1. Len(<<>>) = 0
        OBVIOUS
      <3>2. command \in Commands
        BY <1>1, <3>1 DEF GoOn, SendsPackets
      <3>3. QED
        BY <1>1, <3>2, CommandTypes DEF GoOn, SendsPackets
    <2>2. QED
      BY <1>1, <2>1 DEF GoOn, Picks
  <1>2. CASE Repeat
    <2>1. command \in Commands /\ next - 1 \in 1 .. Len(command)
      BY <1>2, CommandTypes DEF Repeat, TypeOK, SendsPackets
    <2>2. QED
      BY <1>2, <2>1 DEF Repeat, Picks
  <1>3. ASSUME NEW c \in Commands, Send(c, 1)
        PROVE  \E d \in Commands : \E i \in 1 .. Len(d) : Send(d, i) /\ Picks(d, i)
    <2>1. 1 \in 1 .. Len(c)
      BY CommandTypes
    <2>2. QED
      BY <1>3, <2>1 DEF Picks
  <1>4. QED
    BY <1>1, <1>2, <1>3 DEF Next

LEMMA SendTypes ==
  ASSUME TypeOK, NEW c \in Commands, NEW i \in 1 .. Len(c), Send(c, i)
  PROVE  TypeOK' /\ SendsPackets'
  <1>1. PackageTypes'
    BY PacketTypes, ReceiveTypes DEF TypeOK, PackageTypes, Send
  <1>2. command' = c /\ next' = i + 1 /\ Len(c) \in Nat \ {0} /\ c # <<>>
    BY CommandTypes DEF Send
  <1>3. next' \in 2 .. Len(command') + 1 /\ next' \in Nat
    BY <1>2
  <1>4. QED
    BY <1>1, <1>2, <1>3 DEF TypeOK, PackageTypes, SendsPackets

-----------------------------------------------------------------------------
(***************************************************************************)
(* The packet that arrives.                                                *)
(***************************************************************************)
\* An expected packet is the first of its command, or the one after those the
\* device holds; in the buffer its bytes follow theirs.
LEMMA ExpectedIsNext ==
  ASSUME IInv, PositionsFit, NEW c \in Commands, NEW i \in 1 .. Len(c), Picks(c, i),
         Expected(PacketAt(c, i))
  PROVE  /\ Start = BytesBefore(c, i) /\ Stored(buffer, c, i - 1)
         /\ Start + Len(c[i]) <= PACKAEG_BUFFER_SIZE
  <1>1. /\ Len(c) \in Nat \ {0} /\ i \in Nat \ {0} /\ Len(c[i]) \in Nat
        /\ PACKAEG_BUFFER_SIZE \in Nat
    BY CommandTypes, CommandsAssumption
  <1>2. /\ PacketAt(c, i).first = (i = 1) /\ PacketAt(c, i).number = Len(c) - i
        /\ PacketAt(c, i).payload = c[i]
    BY PacketTypes
  <1>3. CASE state = "IDLE"
    <2>1. i = 1
      BY <1>2, <1>3, Zenon DEF Expected
    <2>2. Stored(buffer, c, 1 - 1)
      BY DEF Stored
    <2>3. Len(c[i]) <= PACKAEG_BUFFER_SIZE
      BY DEF PositionsFit
    <2>4. QED
      BY <1>1, <1>3, <2>1, <2>2, <2>3, BytesBeforeFirst DEF Start
  <1>4. CASE state = "IN_PROGRESS"
    <2>1. i # 1
      BY <1>2, <1>4, Zenon DEF Expected
    <2>2. number = PacketAt(c, i).number + 1 /\ ~Overflows(PacketAt(c, i))
      BY <1>4, Zenon DEF Expected
    <2>3. number = Len(c) - i + 1 /\ pos + Len(c[i]) < PACKAEG_BUFFER_SIZE
      <3>1. pos \in Nat
        BY CommandsAssumption DEF IInv, TypeOK
      <3>2. QED
        BY <1>1, <1>2, <1>4, <2>2, <3>1 DEF Overflows
    <2>4. c = command /\ (i = next - 1 \/ (i = next /\ reply = "SUCCESS")) /\ next \in Nat
      BY <2>1 DEF Picks, IInv, TypeOK
    <2>5. Holds(i - 1)
      <3>1. CASE Holds(next - 1)
        <4>1. number = Len(c) - (next - 1)
          BY <2>4, <3>1 DEF Holds
        <4>2. i = next
          BY <1>1, <2>3, <2>4, <4>1
        <4>3. QED
          BY <3>1, <4>2
      <3>2. CASE reply # "SUCCESS" /\ Holds(next - 2)
        <4>1. i = next - 1
          BY <2>4, <3>2
        <4>2. i - 1 = next - 2
          BY <1>1, <2>4, <4>1
        <4>3. QED
          BY <3>2, <4>2
      <3>3. CASE next = 2 /\ reply # "SUCCESS"
        BY <2>1, <2>4, <3>3
      <3>4. QED
        BY <1>4, <3>1, <3>2, <3>3 DEF IInv, Tracks
    <2>6. (i - 1) + 1 = i
      BY <1>1
    <2>7. pos = BytesBefore(c, i) /\ Stored(buffer, c, i - 1)
      BY <2>4, <2>5, <2>6 DEF Holds
    <2>8. pos + Len(c[i]) <= PACKAEG_BUFFER_SIZE
      <3>1. pos \in Nat
        BY CommandsAssumption DEF IInv, TypeOK
      <3>2. QED
        BY <1>1, <2>3, <3>1
    <2>9. QED
      BY <1>4, <2>7, <2>8 DEF Start
  <1>5. QED
    BY <1>3, <1>4 DEF IInv, TypeOK

\* Saving a packet behind those before it leaves them in place.
LEMMA SaveStores ==
  ASSUME PositionsFit, NEW c \in Commands, NEW i \in 1 .. Len(c),
         Start = BytesBefore(c, i), Stored(buffer, c, i - 1),
         Start + Len(c[i]) <= PACKAEG_BUFFER_SIZE, Save(PacketAt(c, i))
  PROVE  Stored(buffer', c, i)
  <1>1. Len(c) \in Nat \ {0} /\ i \in Nat \ {0} /\ PACKAEG_BUFFER_SIZE \in Nat
    BY CommandTypes, CommandsAssumption
  <1>2. buffer' = [n \in 1 .. PACKAEG_BUFFER_SIZE |->
                     IF Start < n /\ n <= Start + Len(c[i]) THEN c[i][n - Start] ELSE buffer[n]]
    BY PacketTypes DEF Save
  <1>3. i \in 1 .. Len(c) + 1 /\ Start \in Nat
    <2>1. i \in 1 .. Len(c) + 1 /\ i \in 1 .. i
      BY <1>1
    <2>2. QED
      BY <2>1, BytesBeforeGrows
  <1> SUFFICES ASSUME NEW k \in 1 .. i, NEW j \in 1 .. Len(c[k])
               PROVE  buffer'[BytesBefore(c, k) + j] = c[k][j]
    BY DEF Stored
  <1>4. k \in 1 .. Len(c) /\ Len(c[k]) \in Nat /\ Len(c[i]) \in Nat
    BY <1>1, CommandTypes
  <1>5. CASE k = i
    <2>1. BytesBefore(c, k) + j = Start + j /\ Start + j - Start = j
      BY <1>3, <1>4, <1>5
    <2>2. Start + j \in 1 .. PACKAEG_BUFFER_SIZE /\ Start < Start + j /\ Start + j <= Start + Len(c[i])
      BY <1>1, <1>3, <1>4, <1>5
    <2>3. buffer'[Start + j] = c[i][j]
      <3> DEFINE n == Start + j
      <3>1. n \in 1 .. PACKAEG_BUFFER_SIZE /\ Start < n /\ n <= Start + Len(c[i])
        BY <2>2
      <3> HIDE DEF n
      <3>2. buffer'[n] = c[i][n - Start]
        BY <1>2, <3>1
      <3>3. n - Start = j
        BY <1>3, <1>4 DEF n
      <3>4. buffer'[n] = c[i][j]
        BY <3>2, <3>3
      <3>5. QED
        BY <3>4 DEF n
    <2>4. QED
      BY <1>5, <2>1, <2>3
  <1>6. CASE k < i
    <2>1. k \in 1 .. i - 1 /\ k + 1 \in 1 .. i /\ k \in 1 .. i
      BY <1>1, <1>6
    <2>2. BytesBefore(c, k) \in Nat /\ BytesBefore(c, k) + Len(c[k]) <= Start
      <3>1. BytesBefore(c, k + 1) = BytesBefore(c, k) + Len(c[k])
        BY <1>4, BytesBeforeNext
      <3>2. BytesBefore(c, k + 1) <= BytesBefore(c, i) /\ BytesBefore(c, k) \in Nat
        BY <1>3, <2>1, BytesBeforeGrows
      <3>3. QED
        BY <3>1, <3>2
    <2> DEFINE n == BytesBefore(c, k) + j
    <2>3. n \in 1 .. PACKAEG_BUFFER_SIZE /\ ~(Start < n)
      BY <1>1, <1>3, <1>4, <2>2
    <2>4. buffer[n] = c[k][j]
      BY <2>1 DEF Stored
    <2> HIDE DEF n
    <2>5. buffer'[n] = buffer[n]
      BY <1>2, <2>3
    <2>6. QED
      BY <2>4, <2>5 DEF n
  <1>7. QED
    BY <1>1, <1>5, <1>6

-----------------------------------------------------------------------------
(***************************************************************************)
(* The invariant is preserved, and a command is dispatched from its bytes. *)
(***************************************************************************)
LEMMA SendGrip ==
  ASSUME IInv, PositionsFit, NEW c \in Commands, NEW i \in 1 .. Len(c), Send(c, i), Picks(c, i)
  PROVE  Tracks' /\ (reply' \in {"RESULT", "NONE"} => StartsWith(dispatched', c))
  <1> DEFINE p == PacketAt(c, i)
  <1>1. /\ Len(c) \in Nat \ {0} /\ i \in Nat \ {0} /\ Len(c[i]) \in Nat
        /\ PACKAEG_BUFFER_SIZE \in Nat /\ PosModulus \in Nat \ {0}
    BY CommandTypes, CommandsAssumption
  <1>2. p.first = (i = 1) /\ p.number = Len(c) - i /\ p.payload = c[i]
    BY PacketTypes
  <1>3. command' = c /\ next' = i + 1 /\ Receive(p)
    BY DEF Send
  <1> HIDE DEF p
  <1>4. CASE ReceiveDamaged
    <2>1. reply' = "CHECKSUM_MISMATCH" /\ UNCHANGED package
      BY <1>4 DEF ReceiveDamaged, Refuse
    <2> SUFFICES ASSUME state = "IN_PROGRESS"
                 PROVE  Holds(next - 1)' \/ ((next > 2)' /\ Holds(next - 2)') \/ (next = 2)'
      BY <1>3, <2>1 DEF Tracks, package
    <2>2. CASE i = 1
      BY <1>3, <2>2
    <2>3. CASE c = command /\ i = next /\ reply = "SUCCESS"
      <3>1. Holds(next - 1) /\ next \in Nat
        BY <2>3 DEF IInv, Tracks, TypeOK
      <3>2. next' - 2 = next - 1 /\ next' > 2
        BY <1>1, <1>3, <2>3, <3>1 DEF Holds
      <3>3. Holds(next - 2)'
        BY <1>3, <2>1, <2>3, <3>1, <3>2 DEF Holds, package, Stored, BytesBefore
      <3>4. QED
        BY <3>2, <3>3
    <2>4. CASE c = command /\ i = next - 1
      <3>1. next' = next /\ next \in Nat
        BY <1>1, <1>3, <2>4 DEF IInv, TypeOK
      <3>2. CASE Holds(next - 1)
        <4>1. Holds(next - 1)'
          BY <1>3, <2>1, <2>4, <3>1, <3>2 DEF Holds, package, Stored, BytesBefore
        <4>2. QED
          BY <4>1
      <3>3. CASE next > 2 /\ Holds(next - 2)
        <4>1. Holds(next - 2)'
          BY <1>3, <2>1, <2>4, <3>1, <3>3 DEF Holds, package, Stored, BytesBefore
        <4>2. QED
          BY <3>1, <3>3, <4>1
      <3>4. CASE next = 2
        BY <3>1, <3>4
      <3>5. QED
        BY <3>2, <3>3, <3>4 DEF IInv, Tracks
    <2>5. QED
      BY <2>2, <2>3, <2>4 DEF Picks
  <1>5. CASE UnexpectedPackage(p) \/ BufferOverflow(p)
    <2>1. state' = "IDLE" /\ reply' \notin {"RESULT", "NONE"}
      BY <1>5 DEF UnexpectedPackage, BufferOverflow, Refuse, SetIdle, package, IInv, TypeOK
    <2>2. QED
      BY <2>1 DEF Tracks
  <1>6. ASSUME Expected(p), Save(p)
        PROVE  /\ Stored(buffer', c, i) /\ Start + Len(c[i]) = BytesBefore(c, i + 1)
               /\ Start + Len(c[i]) <= PACKAEG_BUFFER_SIZE
    <2>1. /\ Start = BytesBefore(c, i) /\ Stored(buffer, c, i - 1)
          /\ Start + Len(c[i]) <= PACKAEG_BUFFER_SIZE
      BY <1>6, ExpectedIsNext DEF p
    <2>2. Stored(buffer', c, i)
      BY <1>6, <2>1, SaveStores DEF p
    <2>3. QED
      BY <2>1, <2>2, BytesBeforeNext
  <1>7. CASE Collect(p)
    <2>1. /\ Expected(p) /\ Save(p) /\ p.number # 0 /\ number' = p.number
          /\ pos' = (Start + Len(p.payload)) % PosModulus /\ reply' = "SUCCESS"
      BY <1>7 DEF Collect
    <2>2. Stored(buffer', c, i) /\ Start + Len(c[i]) = BytesBefore(c, i + 1)
      BY <1>6, <2>1
    <2>3. i \in 1 .. Len(c) - 1 /\ i + 1 \in 1 .. Len(c) /\ Len(c) \in 1 .. Len(c) + 1
      BY <1>1, <1>2, <2>1
    <2>4. BytesBefore(c, i + 1) \in 0 .. PosModulus - 1
      <3>1. /\ BytesBefore(c, i + 1) \in Nat /\ BytesBefore(c, i + 1) <= BytesBefore(c, Len(c))
            /\ BytesBefore(c, Len(c)) \in Nat
        BY <2>3, BytesBeforeGrows
      <3>2. BytesBefore(c, Len(c)) < PosModulus
        BY DEF PositionsFit
      <3>3. QED
        BY <1>1, <3>1, <3>2
    <2>5. pos' = BytesBefore(c, i + 1)
      <3> DEFINE n == BytesBefore(c, i + 1)
      <3>1. pos' = n % PosModulus /\ n \in 0 .. PosModulus - 1
        BY <1>2, <2>1, <2>2, <2>4
      <3> HIDE DEF n
      <3>2. n % PosModulus = n
        BY <1>1, <3>1
      <3>3. QED
        BY <3>1, <3>2 DEF n
    <2>6. number' = Len(c) - i
      BY <1>2, <2>1
    <2>7. next' - 1 = i
      BY <1>1, <1>3
    <2>8. Holds(next - 1)'
      BY <1>3, <2>2, <2>3, <2>5, <2>6, <2>7 DEF Holds, Stored, BytesBefore
    <2>9. QED
      BY <1>3, <2>1, <2>8 DEF Tracks
  <1>8. CASE Process(p, command')
    <2>1. Expected(p) /\ Save(p) /\ p.number = 0 /\ state' = "IDLE" /\ dispatched' = buffer'
      BY <1>8 DEF Process, SetIdle
    <2>2. i = Len(c)
      BY <1>1, <1>2, <2>1
    <2>3. /\ Stored(buffer', c, i)
          /\ BytesBefore(c, i + 1) <= PACKAEG_BUFFER_SIZE
      BY <1>6, <2>1
    <2>4. StartsWith(dispatched', c)
      BY <2>1, <2>2, <2>3 DEF StartsWith, Stored
    <2>5. QED
      BY <2>1, <2>4 DEF Tracks
  <1>9. QED
    BY <1>3, <1>4, <1>5, <1>7, <1>8 DEF Receive

LEMMA NextIInv ==
  ASSUME IInv, PositionsFit, [Next]_vars
  PROVE  IInv' /\ (Next /\ reply' \in {"RESULT", "NONE"} => StartsWith(dispatched', command'))
  <1>1. CASE Next
    <2>1. PICK c \in Commands : \E i \in 1 .. Len(c) : Send(c, i) /\ Picks(c, i)
      BY <1>1, NextSends DEF IInv
    <2>2. PICK i \in 1 .. Len(c) : Send(c, i) /\ Picks(c, i)
      BY <2>1
    <2>3. command' = c
      BY <2>2 DEF Send
    <2>4. TypeOK' /\ SendsPackets'
      BY <2>2, SendTypes DEF IInv
    <2>5. Tracks' /\ (reply' \in {"RESULT", "NONE"} => StartsWith(dispatched', c))
      BY <2>2, SendGrip
    <2>6. QED
      BY <2>3, <2>4, <2>5 DEF IInv
  <1>2. CASE ~Next /\ UNCHANGED vars
    <2>1. TypeOK' /\ SendsPackets'
      BY <1>2 DEF vars, package, IInv, TypeOK, SendsPackets
    <2>2. Tracks'
      BY <1>2 DEF vars, package, IInv, Tracks, Holds, Stored, BytesBefore
    <2>3. QED
      BY <1>2, <2>1, <2>2 DEF IInv
  <1>3. QED
    BY <1>1, <1>2

LEMMA InitIInv == Init => IInv
  <1> SUFFICES ASSUME Init PROVE IInv
    OBVIOUS
  <1>1. PosModulus \in Nat \ {0}
    BY CommandsAssumption
  <1>2. pos \in 0 .. PosModulus - 1
    BY <1>1 DEF Init
  <1>3. TypeOK
    BY <1>2 DEF Init, TypeOK
  <1>4. QED
    BY <1>3 DEF Init, IInv, SendsPackets, Tracks

-----------------------------------------------------------------------------
(***************************************************************************)
(* What the packaging promises.                                            *)
(***************************************************************************)
\* The package is empty between commands, and its position keeps its width,
\* for commands of any length.
THEOREM TypeCorrectness == Spec => []TypeOK
  <1>1. Init => TypeOK /\ SendsPackets
    BY InitIInv DEF IInv
  <1>2. (TypeOK /\ SendsPackets) /\ [Next]_vars => (TypeOK /\ SendsPackets)'
    <2> SUFFICES ASSUME TypeOK, SendsPackets, [Next]_vars PROVE TypeOK' /\ SendsPackets'
      OBVIOUS
    <2>1. CASE Next
      BY <2>1, NextSends, SendTypes
    <2>2. CASE UNCHANGED vars
      BY <2>2 DEF vars, package, TypeOK, SendsPackets
    <2>3. QED
      BY <2>1, <2>2
  <1>3. QED
    BY <1>1, <1>2, PTL DEF Spec

\* While a command is collected the buffer holds exactly the packets the host
\* has been told were taken, each behind the ones before it.
THEOREM InductiveInvariant == ASSUME PositionsFit PROVE Spec => []IInv
  <1>1. IInv /\ [Next]_vars => IInv'
    BY NextIInv
  <1>2. QED
    BY <1>1, InitIInv, PTL DEF Spec

\* A command is dispatched from its own bytes, whatever was damaged, refused,
\* repeated or left off before, for all commands the position can count.
THEOREM DispatchedBytesAreOwn == ASSUME PositionsFit PROVE Spec => DispatchesOwnBytes
  <1>1. IInv /\ [Next]_vars =>
          [reply' \in {"RESULT", "NONE"} => StartsWith(dispatched', command')]_vars
    BY NextIInv
  <1>2. QED
    BY <1>1, InductiveInvariant, PTL DEF Spec, DispatchesOwnBytes

=============================================================================
