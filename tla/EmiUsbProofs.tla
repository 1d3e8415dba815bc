---------------------------- MODULE EmiUsbProofs ----------------------------
(***************************************************************************)
(* Proofs about EmiUsb, for every set of data, environments and bound: the *)
(* types, that no interface goes deaf, that no flag stays set but by a bus *)
(* reset, and that a host that waits is answered the command it asked.  The*)
(* first strengthening is only that a report descriptor was read from a    *)
(* configured device; the second, that such a host has one command in the  *)
(* device, says where that can be.                                         *)
(***************************************************************************)
EXTENDS EmiUsb, TLAPS

Report == [preReady : BOOLEAN, ready : BOOLEAN, sendBusy : BOOLEAN]
EmiMessages == {m \in Messages : m.service = "EMI"}

IInv ==
  /\ TypeOK
  /\ read # {} => configured
  /\ KeepsListening
  /\ ReportsAreReleased

\* The flags of a report change one at a time.
LEMMA Flags ==
  ASSUME NEW r \in Report, NEW b \in BOOLEAN
  PROVE  /\ [r EXCEPT !.preReady = b] \in Report /\ [r EXCEPT !.ready = b] \in Report
         /\ [r EXCEPT !.sendBusy = b] \in Report
         /\ [r EXCEPT !.preReady = b].sendBusy = r.sendBusy
         /\ [r EXCEPT !.ready = b].sendBusy = r.sendBusy
         /\ [r EXCEPT !.sendBusy = b].sendBusy = b
  BY DEF Report

LEMMA InitIInv == Init => IInv
  <1> SUFFICES ASSUME Init PROVE IInv
    OBVIOUS
  <1>1. report \in [Interfaces -> Report] /\ \A i \in Interfaces : report[i].sendBusy = FALSE
    BY DEF Init, Report
  <1>2. due = <<>> /\ <<>> \in Seq(EmiMessages)
    BY DEF Init
  <1>3. TypeOK
    BY <1>1, <1>2 DEF Init, TypeOK, Report, EmiMessages, Idle, Zeros
  <1>4. ReportsAreReleased
    BY <1>1 DEF ReportsAreReleased
  <1>5. KeepsListening /\ (read # {} => configured)
    BY DEF Init, KeepsListening
  <1>6. QED
    BY <1>3, <1>4, <1>5 DEF IInv

(***************************************************************************)
(* The main loop.                                                          *)
(***************************************************************************)
LEMMA MainLoopIInv == IInv /\ MainLoop => IInv'
  <1> SUFFICES ASSUME IInv, MainLoop PROVE IInv'
    OBVIOUS
  <1>0. /\ TypeOK /\ KeepsListening /\ ReportsAreReleased
        /\ read # {} => configured
    BY DEF IInv
  <1>r. report \in [Interfaces -> Report] /\ due \in Seq(EmiMessages)
    BY <1>0 DEF TypeOK, Report, EmiMessages
  <1>1. CASE LoopTest
    <2>1. due # <<>> /\ Head(due) \in EmiMessages /\ Tail(due) \in Seq(EmiMessages)
      BY <1>1, <1>r DEF LoopTest
    <2>2. loop' \in [pc : {"IDLE", "SET", "COPY", "ARM"}, message : Messages \cup {Zeros}]
          /\ loop.pc = "IDLE"
      BY <1>1, <2>1 DEF LoopTest, Idle, EmiMessages
    <2>3. TypeOK'
      BY <1>1, <2>1, <2>2, <1>0 DEF LoopTest, TypeOK, EmiMessages, buffers, bus
    <2>4. ReportsAreReleased'
      BY <1>1, <2>2, <1>0 DEF LoopTest, ReportsAreReleased
    <2>5. QED
      BY <1>1, <1>0, <2>3, <2>4 DEF LoopTest, IInv, KeepsListening, bus
  <1>2. CASE LoopSetBusy
    <2>1. report' \in [Interfaces -> Report]
          /\ \A i \in Interfaces : i # "HOST" => report'[i] = report[i]
      BY <1>2, <1>r DEF LoopSetBusy, Report, Interfaces
    <2>2. loop' \in [pc : {"IDLE", "SET", "COPY", "ARM"}, message : Messages \cup {Zeros}]
          /\ loop'.pc = "COPY" /\ loop.pc = "SET"
      BY <1>2, <1>0 DEF LoopSetBusy, TypeOK
    <2>3. TypeOK'
      BY <1>2, <2>1, <2>2, <1>0 DEF LoopSetBusy, TypeOK, Report, buffers, bus
    <2>4. ReportsAreReleased'
      BY <1>2, <2>1, <2>2, <1>0 DEF LoopSetBusy, ReportsAreReleased
    <2>5. QED
      BY <1>2, <1>0, <2>3, <2>4 DEF LoopSetBusy, IInv, KeepsListening, bus
  <1>3. CASE LoopCopy
    <2>2. loop' \in [pc : {"IDLE", "SET", "COPY", "ARM"}, message : Messages \cup {Zeros}]
          /\ loop'.pc = "ARM" /\ loop.pc = "COPY" /\ loop.message \in Messages \cup {Zeros}
      BY <1>3, <1>0 DEF LoopCopy, TypeOK
    <2>3. TypeOK'
      BY <1>3, <2>2, <1>0 DEF LoopCopy, TypeOK, bus
    <2>4. ReportsAreReleased'
      BY <1>3, <2>2, <1>0 DEF LoopCopy, ReportsAreReleased
    <2>5. QED
      BY <1>3, <1>0, <2>3, <2>4 DEF LoopCopy, IInv, KeepsListening, bus
  <1>4. CASE LoopArm
    <2>1. loop' = Idle /\ loop'.pc = "IDLE" /\ loop.pc = "ARM"
          /\ Idle \in [pc : {"IDLE", "SET", "COPY", "ARM"}, message : Messages \cup {Zeros}]
      BY <1>4 DEF LoopArm, Idle
    <2>2. \A i \in Interfaces : i # "HOST" => report'[i] = report[i] /\ in'[i] = in[i]
      BY <1>4, <1>r, <1>0 DEF LoopArm, Arm, TypeOK
    <2>3. CASE configured
      <3>1. in' = [in EXCEPT !["HOST"] = "ARMED"] /\ in'["HOST"] # "IDLE"
        BY <1>4, <2>3, <1>0 DEF LoopArm, Arm, TypeOK, Interfaces
      <3>2. report' \in [Interfaces -> Report]
        BY <1>4, <2>3, <1>r DEF LoopArm, Report
      <3>3. TypeOK'
        BY <1>4, <2>1, <3>1, <3>2, <1>0 DEF LoopArm, TypeOK, Report, buffers, bus
      <3>4. ReportsAreReleased'
        BY <1>4, <2>1, <2>2, <3>1, <1>0 DEF LoopArm, ReportsAreReleased
      <3>5. QED
        BY <1>4, <1>0, <3>3, <3>4 DEF LoopArm, IInv, KeepsListening, bus
    <2>4. CASE ~configured
      <3>1. in' = in
        BY <1>4, <2>4 DEF LoopArm, Arm
      <3>2. report' \in [Interfaces -> Report] /\ report'["HOST"].sendBusy = FALSE
        BY <1>4, <2>4, <1>r DEF LoopArm, Report, Interfaces
      <3>3. TypeOK'
        BY <1>4, <2>1, <3>1, <3>2, <1>0 DEF LoopArm, TypeOK, Report, buffers, bus
      <3>4. ReportsAreReleased'
        BY <1>4, <2>1, <2>2, <3>1, <3>2, <1>0 DEF LoopArm, ReportsAreReleased
      <3>5. QED
        BY <1>4, <1>0, <3>3, <3>4 DEF LoopArm, IInv, KeepsListening, bus
    <2>5. QED
      BY <2>3, <2>4
  <1>5. QED
    BY <1>1, <1>2, <1>3, <1>4 DEF MainLoop

(***************************************************************************)
(* The controller and the hosts.                                           *)
(***************************************************************************)
LEMMA ControllerIInv ==
  ASSUME IInv, NEW i \in Interfaces, DmaReads(i) \/ HostPolls(i)
  PROVE  IInv'
  <1>0. /\ TypeOK /\ KeepsListening /\ ReportsAreReleased
        /\ read # {} => configured
    BY DEF IInv
  <1>1. CASE DmaReads(i)
    <2>1. /\ in' \in [Interfaces -> {"IDLE", "ARMED", "LOADED", "DONE"}]
          /\ loaded' \in [Interfaces -> Messages \cup {Zeros}]
          /\ \A j \in Interfaces : in[j] # "IDLE" => in'[j] # "IDLE"
      BY <1>1, <1>0 DEF DmaReads, TypeOK
    <2>2. TypeOK'
      BY <1>1, <2>1, <1>0 DEF DmaReads, TypeOK, buffers, bus, main
    <2>3. ReportsAreReleased'
      BY <1>1, <2>1, <1>0 DEF DmaReads, ReportsAreReleased, main
    <2>4. QED
      BY <1>1, <1>0, <2>2, <2>3 DEF DmaReads, IInv, KeepsListening, bus
  <1>2. CASE HostPolls(i)
    <2>1. /\ in' \in [Interfaces -> {"IDLE", "ARMED", "LOADED", "DONE"}]
          /\ loaded' \in [Interfaces -> Messages \cup {Zeros}]
          /\ \A j \in Interfaces : in[j] # "IDLE" => in'[j] # "IDLE"
          /\ asked' \in Messages \cup {Zeros}
      BY <1>2, <1>0 DEF HostPolls, TypeOK
    <2>2. TypeOK'
      BY <1>2, <2>1, <1>0 DEF HostPolls, TypeOK, buffers, bus, main
    <2>3. ReportsAreReleased'
      BY <1>2, <2>1, <1>0 DEF HostPolls, ReportsAreReleased, main
    <2>4. QED
      BY <1>2, <1>0, <2>2, <2>3 DEF HostPolls, IInv, KeepsListening, bus
  <1>3. QED
    BY <1>1, <1>2

LEMMA HostSendsIInv ==
  ASSUME IInv, NEW m \in Messages, HostSends(m)
  PROVE  IInv'
  <1>0. /\ TypeOK /\ KeepsListening /\ ReportsAreReleased
        /\ read # {} => configured
    BY DEF IInv
  <1>1. InterfaceOf(m.service) \in Interfaces
    BY DEF InterfaceOf, Interfaces
  <1>2. /\ out' \in [Interfaces -> {"IDLE", "ARMED", "DONE"}]
        /\ \A i \in Interfaces : out[i] # "IDLE" => out'[i] # "IDLE"
        /\ asked' \in Messages \cup {Zeros} /\ DataRecvBuf' = m
    BY <1>0, <1>1 DEF HostSends, TypeOK
  <1>3. UNCHANGED <<report, DataSendBuf, bus, in, loaded, main, env, read, dropped>>
    BY DEF HostSends
  <1>4. TypeOK'
    BY <1>0, <1>2, <1>3 DEF TypeOK, bus, main
  <1>5. ReportsAreReleased'
    BY <1>0, <1>3 DEF ReportsAreReleased, main
  <1>6. KeepsListening' /\ (read' # {} => configured')
    <2>1. read' = read /\ configured' = configured /\ read \subseteq Interfaces
      BY <1>0, <1>3 DEF TypeOK, bus
    <2>2. QED
      BY <1>0, <1>2, <2>1 DEF KeepsListening
  <1>7. QED
    BY <1>4, <1>5, <1>6 DEF IInv

LEMMA SweepStepIInv ==
  ASSUME IInv, NEW d \in Data, SweepStep(d)
  PROVE  IInv'
  <1>0. /\ TypeOK /\ KeepsListening /\ ReportsAreReleased
        /\ read # {} => configured
    BY DEF IInv
  <1>1. due' \in Seq({m \in Messages : m.service = "EMI"})
    <2> DEFINE answer == [service |-> "EMI", data |-> d]
    <2>1. answer \in EmiMessages
      BY DEF EmiMessages, Messages, Services
    <2>2. due \in Seq(EmiMessages)
      BY <1>0 DEF TypeOK, EmiMessages
    <2>3. due' = Append(due, answer)
      BY DEF SweepStep
    <2> HIDE DEF answer
    <2>4. due' \in Seq(EmiMessages)
      BY <2>1, <2>2, <2>3
    <2>5. QED
      BY <2>4 DEF EmiMessages
  <1>2. TypeOK'
    BY <1>0, <1>1 DEF SweepStep, TypeOK, buffers, bus
  <1>3. ReportsAreReleased'
    BY <1>0 DEF SweepStep, ReportsAreReleased
  <1>4. QED
    BY <1>0, <1>2, <1>3 DEF SweepStep, IInv, KeepsListening, bus

(***************************************************************************)
(* The USB interrupt: data endpoints.                                      *)
(***************************************************************************)
\* The interface listens again if it is active; the others are not touched.
LEMMA ListenTypes ==
  ASSUME TypeOK, KeepsListening, read # {} => configured,
         NEW i \in Interfaces, Listen(i), read' = read
  PROVE  /\ out' \in [Interfaces -> {"IDLE", "ARMED", "DONE"}] /\ KeepsListening'
         /\ DataRecvBuf' = Zeros
  <1>1. out' = [out EXCEPT ![i] = IF configured THEN "ARMED" ELSE "IDLE"] /\ DataRecvBuf' = Zeros
    BY DEF Listen
  <1>2. out \in [Interfaces -> {"IDLE", "ARMED", "DONE"}] /\ read \in SUBSET Interfaces
    BY DEF TypeOK
  <1>3. CASE configured
    BY <1>1, <1>2, <1>3 DEF KeepsListening
  <1>4. CASE ~configured
    <2>1. read = {}
      BY <1>4
    <2>2. QED
      BY <1>1, <1>2, <1>4, <2>1 DEF KeepsListening
  <1>5. QED
    BY <1>3, <1>4

LEMMA SendNowKeeps ==
  ASSUME TypeOK, ReportsAreReleased, NEW i \in Interfaces, NEW m \in Messages, NEW r \in Report,
         r.sendBusy = report[i].sendBusy, SendNow(i, m, r), UNCHANGED <<loop, dropped>>
  PROVE  /\ report' \in [Interfaces -> Report] /\ DataSendBuf' \in Messages \cup {Zeros}
         /\ in' \in [Interfaces -> {"IDLE", "ARMED", "LOADED", "DONE"}]
         /\ ReportsAreReleased'
  <1>0. /\ report \in [Interfaces -> Report] /\ DataSendBuf \in Messages \cup {Zeros}
        /\ in \in [Interfaces -> {"IDLE", "ARMED", "LOADED", "DONE"}] /\ configured \in BOOLEAN
    BY DEF TypeOK, Report
  <1>1. CASE Sendable(r)
    <2>1. /\ DataSendBuf' = m /\ Arm(i)
          /\ report' = [report EXCEPT ![i] = [r EXCEPT !.sendBusy = configured]]
      BY <1>1 DEF SendNow
    <2> DEFINE s == [r EXCEPT !.sendBusy = configured]
    <2>2. s \in Report /\ s.sendBusy = configured
      BY <1>0, Flags
    <2>3. report' = [report EXCEPT ![i] = s]
      BY <2>1
    <2> HIDE DEF s
    <2>4. report' \in [Interfaces -> Report] /\ report'[i] = s
          /\ \A j \in Interfaces : j # i => report'[j] = report[j]
      BY <1>0, <2>2, <2>3
    <2>5. CASE configured
      <3>1. in' = [in EXCEPT ![i] = "ARMED"]
        BY <2>1, <2>5 DEF Arm
      <3>2. QED
        BY <1>0, <2>1, <2>4, <3>1 DEF ReportsAreReleased
    <2>6. CASE ~configured
      <3>1. in' = in
        BY <2>1, <2>6 DEF Arm
      <3>2. QED
        BY <1>0, <2>1, <2>2, <2>4, <2>6, <3>1 DEF ReportsAreReleased
    <2>7. QED
      BY <2>5, <2>6
  <1>2. CASE ~Sendable(r)
    <2>1. report' = [report EXCEPT ![i] = r] /\ UNCHANGED <<DataSendBuf, in>>
      BY <1>2 DEF SendNow
    <2>2. report' \in [Interfaces -> Report]
          /\ \A j \in Interfaces : report'[j].sendBusy = report[j].sendBusy
      BY <1>0, <2>1
    <2>3. QED
      BY <1>0, <2>1, <2>2 DEF ReportsAreReleased
  <1>3. QED
    BY <1>1, <1>2

LEMMA ReceiveEndIInv ==
  ASSUME IInv, NEW i \in Interfaces, ReceiveEnd(i)
  PROVE  IInv'
  <1> DEFINE m == DataRecvBuf
             r == [report[i] EXCEPT !.ready = TRUE]
  <1>0. /\ TypeOK /\ KeepsListening /\ ReportsAreReleased
        /\ read # {} => configured
    BY DEF IInv
  <1>1. /\ report \in [Interfaces -> Report] /\ due \in Seq(EmiMessages) /\ m \in Messages \cup {Zeros}
        /\ DataSendBuf \in Messages \cup {Zeros}
        /\ in \in [Interfaces -> {"IDLE", "ARMED", "LOADED", "DONE"}]
    BY <1>0 DEF TypeOK, Report, EmiMessages
  <1>2. r \in Report /\ r.sendBusy = report[i].sendBusy
    BY <1>1, Flags
  <1>3. UNCHANGED <<bus, loaded, loop, env, asked, read, dropped>> /\ Listen(i)
    BY DEF ReceiveEnd, ListenAgain
  <1>4. \/ m.service \in {"UCM", "IAP"} /\ SendNow(i, m, r) /\ UNCHANGED due
        \/ /\ ForEmi(m, i) /\ due' = Append(due, m)
           /\ report' = [report EXCEPT ![i] = r] /\ UNCHANGED <<DataSendBuf, in>>
        \/ report' = [report EXCEPT ![i] = r] /\ UNCHANGED <<DataSendBuf, in, due>>
    BY DEF ReceiveEnd
  <1> HIDE DEF m, r
  <1>5. /\ out' \in [Interfaces -> {"IDLE", "ARMED", "DONE"}] /\ KeepsListening' /\ DataRecvBuf' = Zeros
    BY <1>0, <1>3, ListenTypes
  <1>6. /\ report' \in [Interfaces -> Report] /\ DataSendBuf' \in Messages \cup {Zeros}
        /\ in' \in [Interfaces -> {"IDLE", "ARMED", "LOADED", "DONE"}]
        /\ ReportsAreReleased' /\ due' \in Seq(EmiMessages)
    <2>1. CASE m.service \in {"UCM", "IAP"} /\ SendNow(i, m, r) /\ UNCHANGED due
      <3>1. m \in Messages
        BY <1>1, <2>1 DEF Zeros
      <3>2. QED
        BY <1>0, <1>1, <1>2, <1>3, <2>1, <3>1, SendNowKeeps
    <2>2. CASE report' = [report EXCEPT ![i] = r] /\ UNCHANGED <<DataSendBuf, in>>
      <3>1. report' \in [Interfaces -> Report]
            /\ \A j \in Interfaces : report'[j].sendBusy = report[j].sendBusy
        BY <1>1, <1>2, <2>2
      <3>2. ReportsAreReleased'
        BY <1>0, <1>3, <2>2, <3>1 DEF ReportsAreReleased
      <3>3. due' \in Seq(EmiMessages)
        <4>1. CASE due' = due
          BY <1>1, <4>1
        <4>2. CASE ForEmi(m, i) /\ due' = Append(due, m)
          <5>1. m \in EmiMessages
            BY <1>1, <4>2 DEF ForEmi, EmiMessages, Zeros
          <5>2. QED
            BY <1>1, <4>2, <5>1
        <4>3. QED
          BY <1>4, <4>1, <4>2
      <3>4. QED
        BY <1>1, <2>2, <3>1, <3>2, <3>3
    <2>3. QED
      BY <1>4, <2>1, <2>2
  <1>7. TypeOK'
    BY <1>0, <1>3, <1>5, <1>6 DEF TypeOK, Report, EmiMessages, bus
  <1>8. QED
    BY <1>0, <1>3, <1>5, <1>6, <1>7 DEF IInv, bus

LEMMA TransmitEndIInv ==
  ASSUME IInv, NEW i \in Interfaces, TransmitEnd(i)
  PROVE  IInv'
  <1>0. /\ TypeOK /\ KeepsListening /\ ReportsAreReleased
        /\ read # {} => configured
    BY DEF IInv
  <1>1. /\ report \in [Interfaces -> Report] /\ dropped \in SUBSET Interfaces
        /\ in \in [Interfaces -> {"IDLE", "ARMED", "LOADED", "DONE"}]
    BY <1>0 DEF TypeOK, Report
  <1> DEFINE r == [report[i] EXCEPT !.sendBusy = FALSE]
  <1>2. r \in Report /\ r.sendBusy = FALSE
    BY <1>1, Flags
  <1>3. /\ in' = [in EXCEPT ![i] = "IDLE"] /\ report' = [report EXCEPT ![i] = r]
        /\ dropped' = dropped \ {i}
        /\ UNCHANGED <<buffers, bus, out, loaded, main, env, asked, read>>
    BY DEF TransmitEnd, Release
  <1> HIDE DEF r
  <1>4. /\ report' \in [Interfaces -> Report] /\ report'[i].sendBusy = FALSE
        /\ in' \in [Interfaces -> {"IDLE", "ARMED", "LOADED", "DONE"}]
        /\ \A j \in Interfaces : j # i => report'[j] = report[j] /\ in'[j] = in[j]
    BY <1>1, <1>2, <1>3
  <1>5. TypeOK'
    BY <1>0, <1>3, <1>4 DEF TypeOK, Report, buffers, bus, main
  <1>6. ReportsAreReleased'
    BY <1>0, <1>3, <1>4 DEF ReportsAreReleased, main
  <1>7. QED
    BY <1>0, <1>3, <1>5, <1>6 DEF IInv, KeepsListening, bus

(***************************************************************************)
(* Bus events and control transfers.                                       *)
(***************************************************************************)
LEMMA DeviceResetIInv == IInv /\ DeviceReset => IInv'
  <1> SUFFICES ASSUME IInv, DeviceReset PROVE IInv'
    OBVIOUS
  <1>0. TypeOK /\ ReportsAreReleased
    BY DEF IInv
  <1>1. /\ out' \in [Interfaces -> {"IDLE", "ARMED", "DONE"}]
        /\ in' \in [Interfaces -> {"IDLE", "ARMED", "LOADED", "DONE"}]
        /\ loaded' \in [Interfaces -> Messages \cup {Zeros}]
        /\ configured' = FALSE /\ suspended' = FALSE /\ Ep0State' = "EP0_IDLE"
        /\ read' = {} /\ asked' = Zeros
        /\ UNCHANGED <<report, kb_led_state_recving, buffers, main, env>>
    BY DEF DeviceReset, USB_ReInit, USB_ClrConfig
  <1>2. /\ dropped' = dropped \cup {i \in Interfaces : in[i] # "IDLE"}
        /\ dropped' \in SUBSET Interfaces
    BY <1>0 DEF DeviceReset, TypeOK
  <1>3. TypeOK'
    BY <1>0, <1>1, <1>2 DEF TypeOK, buffers, main
  <1>4. ReportsAreReleased'
    BY <1>0, <1>1, <1>2 DEF ReportsAreReleased, main
  <1>5. QED
    BY <1>1, <1>3, <1>4 DEF IInv, KeepsListening

LEMMA DeviceSuspendIInv == IInv /\ DeviceSuspend => IInv'
  <1> SUFFICES ASSUME IInv, DeviceSuspend PROVE IInv'
    OBVIOUS
  <1>0. TypeOK /\ KeepsListening /\ ReportsAreReleased /\ (read # {} => configured)
    BY DEF IInv
  <1>1. report \in [Interfaces -> Report]
    BY <1>0 DEF TypeOK, Report
  <1>2. /\ report' = [i \in Interfaces |-> [report[i] EXCEPT !.ready = FALSE]]
        /\ suspended' = TRUE
        /\ UNCHANGED <<buffers, configured, Ep0State, kb_led_state_recving, out, in, loaded, main,
                       env, asked, read, dropped>>
    BY DEF DeviceSuspend
  <1>3. /\ report' \in [Interfaces -> Report]
        /\ \A i \in Interfaces : report'[i].sendBusy = report[i].sendBusy
    <2>1. \A i \in Interfaces :
            /\ [report[i] EXCEPT !.ready = FALSE] \in Report
            /\ [report[i] EXCEPT !.ready = FALSE].sendBusy = report[i].sendBusy
      BY <1>1, Flags
    <2>2. QED
      BY <1>2, <2>1
  <1>4. TypeOK'
    BY <1>0, <1>2, <1>3 DEF TypeOK, Report, buffers, main
  <1>5. ReportsAreReleased'
    BY <1>0, <1>2, <1>3 DEF ReportsAreReleased, main
  <1>6. QED
    BY <1>0, <1>2, <1>4, <1>5 DEF IInv, KeepsListening

LEMMA DeviceResumeIInv == IInv /\ DeviceResume => IInv'
  <1> SUFFICES ASSUME IInv, DeviceResume PROVE IInv'
    OBVIOUS
  <1>0. TypeOK /\ KeepsListening /\ ReportsAreReleased /\ (read # {} => configured)
    BY DEF IInv
  <1>1. report \in [Interfaces -> Report] /\ {"HOST", "CTL"} = Interfaces
    BY <1>0 DEF TypeOK, Report, Interfaces
  <1> DEFINE h == [report["HOST"] EXCEPT !.ready = TRUE]
             c == [report["CTL"] EXCEPT !.ready = TRUE]
             f == [c EXCEPT !.sendBusy = FALSE]
  <1>2. /\ report' = [report EXCEPT !["HOST"].ready = TRUE, !["CTL"].ready = TRUE,
                                    !["CTL"].sendBusy = FALSE]
        /\ suspended' = FALSE
        /\ UNCHANGED <<buffers, configured, Ep0State, kb_led_state_recving, out, in, loaded, main,
                       env, asked, read, dropped>>
    BY DEF DeviceResume
  <1>3. h \in Report /\ h.sendBusy = report["HOST"].sendBusy /\ f \in Report /\ f.sendBusy = FALSE
    <2>1. h \in Report /\ h.sendBusy = report["HOST"].sendBusy /\ c \in Report
      BY <1>1, Flags
    <2> HIDE DEF c
    <2>2. f \in Report /\ f.sendBusy = FALSE
      BY <2>1, Flags
    <2>3. QED
      BY <2>1, <2>2
  <1>4. report' = [report EXCEPT !["HOST"] = h, !["CTL"] = f]
    BY <1>1, <1>2 DEF Interfaces
  <1> HIDE DEF h, c, f
  <1>5. /\ report' \in [Interfaces -> Report]
        /\ \A i \in Interfaces : report'[i].sendBusy => report[i].sendBusy
    BY <1>1, <1>3, <1>4 DEF Interfaces
  <1>6. TypeOK'
    BY <1>0, <1>2, <1>5 DEF TypeOK, Report, buffers, main
  <1>7. ReportsAreReleased'
    BY <1>0, <1>2, <1>5 DEF ReportsAreReleased, main
  <1>8. QED
    BY <1>0, <1>2, <1>6, <1>7 DEF IInv, KeepsListening

\* These touch no flag.
LEMMA RequestsIInv ==
  ASSUME IInv, SetConfiguration \/ OtherRequest \/ \E leds \in BOOLEAN : SetReport(leds)
  PROVE  IInv'
  <1>0. TypeOK /\ KeepsListening /\ ReportsAreReleased /\ (read # {} => configured)
    BY DEF IInv
  <1>1. /\ UNCHANGED <<report, buffers, suspended, out, in, loaded, main, env, asked, read, dropped>>
        /\ configured' = TRUE \/ configured' = configured
    BY DEF SetConfiguration, OtherRequest, SetReport
  <1>2. Ep0State' \in {"EP0_IDLE", "EP0_IN_DATA_PHASE", "EP0_OUT_DATA_PHASE"}
    BY DEF SetConfiguration, OtherRequest, SetReport, NoData, DataIn, DataOut
  <1>3. kb_led_state_recving' \in BOOLEAN
    <2>1. CASE SetConfiguration
      BY <1>0, <2>1 DEF SetConfiguration, TypeOK
    <2>2. CASE OtherRequest
      BY <1>0, <2>2 DEF OtherRequest, TypeOK
    <2>3. CASE \E leds \in BOOLEAN : SetReport(leds)
      BY <1>0, <2>3 DEF SetReport, TypeOK
    <2>4. QED
      BY <2>1, <2>2, <2>3
  <1>4. configured' \in BOOLEAN
    <2>1. CASE configured' = TRUE
      BY <2>1
    <2>2. CASE configured' = configured
      BY <1>0, <2>2 DEF TypeOK
    <2>3. QED
      BY <1>1, <2>1, <2>2
  <1>5. TypeOK'
    BY <1>0, <1>1, <1>2, <1>3, <1>4 DEF TypeOK, buffers, main
  <1>6. ReportsAreReleased'
    BY <1>0, <1>1 DEF ReportsAreReleased, main
  <1>7. read' # {} => configured'
    BY <1>0, <1>1
  <1>8. QED
    BY <1>0, <1>1, <1>5, <1>6, <1>7 DEF IInv, KeepsListening

LEMMA GetReportDescriptorIInv ==
  ASSUME IInv, NEW i \in Interfaces, GetReportDescriptor(i)
  PROVE  IInv'
  <1>0. TypeOK /\ KeepsListening /\ ReportsAreReleased /\ (read # {} => configured)
    BY DEF IInv
  <1>1. report \in [Interfaces -> Report]
    BY <1>0 DEF TypeOK, Report
  <1> DEFINE r == [report[i] EXCEPT !.preReady = TRUE]
  <1>2. r \in Report /\ r.sendBusy = report[i].sendBusy
    BY <1>1, Flags
  <1>3. /\ report' = [report EXCEPT ![i] = r] /\ Ep0State' = "EP0_IN_DATA_PHASE"
        /\ UNCHANGED <<buffers, configured, suspended, kb_led_state_recving, out, in, loaded, main,
                       env, asked, read, dropped>>
    BY DEF GetReportDescriptor, DataIn
  <1> HIDE DEF r
  <1>4. /\ report' \in [Interfaces -> Report]
        /\ \A j \in Interfaces : report'[j].sendBusy = report[j].sendBusy
    BY <1>1, <1>2, <1>3
  <1>5. TypeOK'
    BY <1>0, <1>3, <1>4 DEF TypeOK, Report, buffers, main
  <1>6. ReportsAreReleased'
    BY <1>0, <1>3, <1>4 DEF ReportsAreReleased, main
  <1>7. QED
    BY <1>0, <1>3, <1>5, <1>6 DEF IInv, KeepsListening

\* An enumerated interface is armed, and CTL loses its flag: none is set here.
LEMMA Ep0TransmitEndIInv == IInv /\ Ep0TransmitEnd => IInv'
  <1> SUFFICES ASSUME IInv, Ep0TransmitEnd PROVE IInv'
    OBVIOUS
  <1>0. TypeOK /\ KeepsListening /\ ReportsAreReleased /\ (read # {} => configured)
    BY DEF IInv
  <1>1. /\ report \in [Interfaces -> Report] /\ out \in [Interfaces -> {"IDLE", "ARMED", "DONE"}]
        /\ DataRecvBuf \in Messages \cup {Zeros} /\ read \in SUBSET Interfaces
        /\ PreReady \subseteq Interfaces
    BY <1>0 DEF TypeOK, Report, PreReady
  <1>2. /\ DataRecvBuf' = IF PreReady = {} THEN DataRecvBuf ELSE Zeros
        /\ out' = [i \in Interfaces |->
                     IF i \in PreReady THEN IF configured THEN "ARMED" ELSE "IDLE" ELSE out[i]]
        /\ read' = IF configured THEN read \cup PreReady ELSE read
        /\ Ep0State' = "EP0_IDLE"
        /\ UNCHANGED <<DataSendBuf, configured, suspended, kb_led_state_recving, in, loaded, main,
                       env, asked, dropped>>
    BY DEF Ep0TransmitEnd, NoData
  <1>3. /\ report' \in [Interfaces -> Report]
        /\ \A i \in Interfaces : report'[i].sendBusy => report[i].sendBusy
    <2> DEFINE e(i) == [preReady |-> FALSE, ready |-> TRUE,
                        sendBusy |-> report[i].sendBusy /\ i = "HOST"]
    <2>1. \A i \in Interfaces : e(i) \in Report /\ (e(i).sendBusy => report[i].sendBusy)
      BY DEF Report
    <2>2. report' = [i \in Interfaces |-> IF i \in PreReady THEN e(i) ELSE report[i]]
      BY DEF Ep0TransmitEnd
    <2> HIDE DEF e
    <2>3. QED
      BY <1>1, <2>1, <2>2
  <1>4. /\ out' \in [Interfaces -> {"IDLE", "ARMED", "DONE"}] /\ read' \in SUBSET Interfaces
        /\ DataRecvBuf' \in Messages \cup {Zeros}
    BY <1>1, <1>2
  <1>5. TypeOK'
    BY <1>0, <1>2, <1>3, <1>4 DEF TypeOK, Report, main
  <1>6. ReportsAreReleased'
    BY <1>0, <1>2, <1>3 DEF ReportsAreReleased, main
  <1>7. KeepsListening' /\ (read' # {} => configured')
    <2>1. CASE configured
      BY <1>0, <1>1, <1>2, <2>1 DEF KeepsListening
    <2>2. CASE ~configured
      <3>1. read' = {}
        BY <1>0, <1>2, <2>2
      <3>2. QED
        BY <3>1 DEF KeepsListening
    <2>3. QED
      BY <2>1, <2>2
  <1>8. QED
    BY <1>5, <1>6, <1>7 DEF IInv

LEMMA Ep0ReceiveEndIInv == IInv /\ Ep0ReceiveEnd => IInv'
  <1> SUFFICES ASSUME IInv, Ep0ReceiveEnd PROVE IInv'
    OBVIOUS
  <1>0. TypeOK /\ KeepsListening /\ ReportsAreReleased /\ (read # {} => configured)
    BY DEF IInv
  <1>1. report \in [Interfaces -> Report] /\ "CTL" \in Interfaces
    BY <1>0 DEF TypeOK, Report, Interfaces
  <1> DEFINE b == report["CTL"].ready \/ kb_led_state_recving
             r == [report["CTL"] EXCEPT !.ready = b]
  <1>2. r \in Report /\ r.sendBusy = report["CTL"].sendBusy
    <2>1. b \in BOOLEAN
      OBVIOUS
    <2> HIDE DEF b
    <2>2. QED
      BY <1>1, <2>1, Flags
  <1>3. /\ report' = [report EXCEPT !["CTL"] = r] /\ Ep0State' = "EP0_IDLE"
        /\ kb_led_state_recving' = FALSE
        /\ UNCHANGED <<buffers, configured, suspended, out, in, loaded, main, env, asked, read,
                       dropped>>
    BY DEF Ep0ReceiveEnd, NoData
  <1> HIDE DEF r
  <1>4. /\ report' \in [Interfaces -> Report]
        /\ \A j \in Interfaces : report'[j].sendBusy = report[j].sendBusy
    BY <1>1, <1>2, <1>3
  <1>5. TypeOK'
    BY <1>0, <1>3, <1>4 DEF TypeOK, Report, buffers, main
  <1>6. ReportsAreReleased'
    BY <1>0, <1>3, <1>4 DEF ReportsAreReleased, main
  <1>7. QED
    BY <1>0, <1>3, <1>5, <1>6 DEF IInv, KeepsListening

LEMMA NextIInv == IInv /\ [Next]_vars => IInv'
  <1> SUFFICES ASSUME IInv, [Next]_vars PROVE IInv'
    OBVIOUS
  <1>1. CASE MainLoop
    BY <1>1, MainLoopIInv
  <1>2. CASE Interrupt
    <2>1. PICK i \in Interfaces : ReceiveEnd(i) \/ TransmitEnd(i)
      BY <1>2 DEF Interrupt
    <2>2. QED
      BY <2>1, ReceiveEndIInv, TransmitEndIInv
  <1>3. CASE Host
    <2>1. CASE \E m \in Messages : HostSends(m)
      BY <2>1, HostSendsIInv
    <2>2. CASE \E i \in Interfaces : GetReportDescriptor(i)
      BY <2>2, GetReportDescriptorIInv
    <2>3. CASE SetConfiguration \/ OtherRequest \/ \E leds \in BOOLEAN : SetReport(leds)
      BY <2>3, RequestsIInv
    <2>4. CASE DeviceReset \/ DeviceSuspend \/ DeviceResume \/ Ep0TransmitEnd \/ Ep0ReceiveEnd
      BY <2>4, DeviceResetIInv, DeviceSuspendIInv, DeviceResumeIInv, Ep0TransmitEndIInv,
         Ep0ReceiveEndIInv
    <2>5. QED
      BY <1>3, <2>1, <2>2, <2>3, <2>4 DEF Host
  <1>4. CASE \E d \in Data : SweepStep(d)
    BY <1>4, SweepStepIInv
  <1>5. CASE \E i \in Interfaces : DmaReads(i) \/ HostPolls(i)
    BY <1>5, ControllerIInv
  <1>6. CASE UNCHANGED vars
    <2>1. TypeOK /\ KeepsListening /\ ReportsAreReleased /\ (read # {} => configured)
      BY DEF IInv
    <2>2. TypeOK'
      BY <1>6, <2>1 DEF vars, buffers, bus, main, TypeOK
    <2>3. QED
      BY <1>6, <2>1, <2>2 DEF vars, bus, main, IInv, KeepsListening, ReportsAreReleased
  <1>7. QED
    BY <1>1, <1>2, <1>3, <1>4, <1>5, <1>6 DEF Next

(***************************************************************************)
(* Theorems.                                                               *)
(***************************************************************************)
\* The four facts hold together in every reachable state of the driver.
THEOREM InductiveInvariant == Spec => []IInv
  BY InitIInv, NextIInv, PTL DEF Spec

\* Every flag, endpoint, buffer and queue of the driver keeps its type.
THEOREM TypeCorrectness == Spec => []TypeOK
  <1>1. IInv => TypeOK
    BY DEF IInv
  <1>2. QED
    BY <1>1, InductiveInvariant, PTL

\* Whatever the hosts send and the bus does, an interface whose report
\* descriptor was read since the last bus reset has its OUT endpoint armed, or
\* its interrupt pending (RECEIVE_END, and TRANSMIT_END of endpoint 0).
THEOREM NoInterfaceGoesDeaf == Spec => []KeepsListening
  <1>1. IInv => KeepsListening
    BY DEF IInv
  <1>2. QED
    BY <1>1, InductiveInvariant, PTL

\* A sendBusy that is set is about to be used by the main loop, belongs to a
\* transfer under way, or was left by a bus reset: the refusals of
\* USB_SendData and the second enumeration leave none behind.
THEOREM NoFlagIsLeftBehind == Spec => []ReportsAreReleased
  <1>1. IInv => ReportsAreReleased
    BY DEF IInv
  <1>2. QED
    BY <1>1, InductiveInvariant, PTL

(***************************************************************************)
(* A host that waits.                                                      *)
(***************************************************************************)
Orderly == Polite /\ ("EMI" \in env.services => "RESET" \notin env.faults)
Asked == InterfaceOf(asked.service)

NoneReceived == \A i \in Interfaces : out[i] # "DONE"
NoneToSend == \A i \in Interfaces : in[i] \in {"IDLE", "DONE"}
LoopIdle == due = <<>> /\ loop.pc = "IDLE"

\* Where the command, and then its answer, is: nowhere, ...
Absent == NoneReceived /\ NoneToSend /\ LoopIdle
\* ... in the buffer of what is received, ...
Received ==
  /\ NoneToSend /\ LoopIdle /\ DataRecvBuf = asked
  /\ \A i \in Interfaces : out[i] = "DONE" => i = Asked
\* ... with the main loop, ...
Due == NoneReceived /\ NoneToSend /\ due = <<asked>> /\ loop.pc = "IDLE"
Looping ==
  /\ NoneReceived /\ NoneToSend /\ due = <<>> /\ loop.pc # "IDLE" /\ loop.message = asked
  /\ loop.pc = "ARM" => DataSendBuf = asked
\* ... or in the buffer of what is sent, or the controller.
Sending ==
  /\ NoneReceived /\ LoopIdle
  /\ \A i \in Interfaces :
       /\ in[i] \in {"ARMED", "LOADED"} => i = Asked
       /\ in[i] = "ARMED" => DataSendBuf = asked
       /\ in[i] = "LOADED" => loaded[i] = asked

\* A host that waits has one command in the device.
OneCommand ==
  /\ \A i \in Interfaces : report[i].preReady => i \notin read
  /\ "EMI" \notin env.services => LoopIdle
  /\ asked # Zeros => read = Interfaces /\ asked.service \in env.services
  /\ \/ Absent
     \/ /\ asked # Zeros
        /\ \/ Received \/ Sending
           \/ asked.service = "EMI" /\ (Due \/ Looping)

PoliteInv == Orderly => OneCommand

LEMMA PartsOfTypeOK ==
  ASSUME TypeOK
  PROVE  /\ report \in [Interfaces -> Report] /\ due \in Seq(EmiMessages)
         /\ DataRecvBuf \in Messages \cup {Zeros} /\ DataSendBuf \in Messages \cup {Zeros}
         /\ out \in [Interfaces -> {"IDLE", "ARMED", "DONE"}]
         /\ in \in [Interfaces -> {"IDLE", "ARMED", "LOADED", "DONE"}]
         /\ loaded \in [Interfaces -> Messages \cup {Zeros}]
         /\ loop \in [pc : {"IDLE", "SET", "COPY", "ARM"}, message : Messages \cup {Zeros}]
         /\ asked \in Messages \cup {Zeros} /\ read \in SUBSET Interfaces
  BY DEF TypeOK, Report, EmiMessages

LEMMA AskedIsAnInterface == Asked \in Interfaces
  BY DEF Asked, InterfaceOf, Interfaces

\* What a step does to the flags, apart from the command.
FlagsKeep ==
  /\ \A i \in Interfaces : report'[i].preReady => i \notin read'
  /\ env' = env /\ (asked' # Zeros => read' = Interfaces /\ asked'.service \in env'.services)

\* The command stays where it is if nothing moves it.
LEMMA NothingMoves ==
  ASSUME OneCommand, FlagsKeep,
         UNCHANGED <<in, out, loaded, due, loop, asked, DataSendBuf, DataRecvBuf>>
  PROVE  OneCommand'
  BY DEF OneCommand, FlagsKeep, Absent, Received, Due, Looping, Sending, NoneReceived, NoneToSend,
         LoopIdle, Asked

LEMMA InitPolite == Init => PoliteInv
  <1> SUFFICES ASSUME Init PROVE OneCommand
    BY DEF PoliteInv
  <1>1. /\ \A i \in Interfaces : ~report[i].preReady /\ out[i] = "IDLE" /\ in[i] = "IDLE"
        /\ due = <<>> /\ loop.pc = "IDLE" /\ asked = Zeros
    BY DEF Init, Idle
  <1>2. QED
    BY <1>1 DEF OneCommand, Absent, NoneReceived, NoneToSend, LoopIdle

LEMMA MainLoopPolite == ASSUME IInv, Orderly, OneCommand, MainLoop PROVE OneCommand'
  <1>0. /\ report \in [Interfaces -> Report] /\ due \in Seq(EmiMessages)
        /\ in \in [Interfaces -> {"IDLE", "ARMED", "LOADED", "DONE"}]
        /\ loop \in [pc : {"IDLE", "SET", "COPY", "ARM"}, message : Messages \cup {Zeros}]
    BY PartsOfTypeOK DEF IInv
  <1>1. UNCHANGED <<DataRecvBuf, out, loaded, env, asked, read>> /\ ~LoopIdle
    BY DEF MainLoop, LoopTest, LoopSetBusy, LoopCopy, LoopArm, LoopIdle, buffers
  <1>2. FlagsKeep
    <2>1. \A i \in Interfaces : report'[i].preReady = report[i].preReady
      <3>1. CASE LoopTest \/ LoopCopy
        BY <3>1 DEF LoopTest, LoopCopy
      <3>2. CASE LoopSetBusy
        BY <1>0, <3>2 DEF LoopSetBusy, Report
      <3>3. CASE LoopArm
        BY <1>0, <3>3 DEF LoopArm, Report
      <3>4. QED
        BY <3>1, <3>2, <3>3 DEF MainLoop
    <2>2. QED
      BY <1>1, <2>1 DEF OneCommand, FlagsKeep
  <1>3. "EMI" \in env.services
    BY <1>1 DEF OneCommand
  <1>4. NoneReceived /\ NoneToSend /\ NoneReceived'
    BY <1>1 DEF OneCommand, Absent, Received, Due, Looping, Sending, NoneReceived
  <1>5. asked # Zeros /\ asked.service = "EMI" /\ (Due \/ Looping)
    BY <1>1 DEF OneCommand, Absent, Received, Sending
  <1>6. Asked = "HOST" /\ Asked' = Asked
    BY <1>1, <1>5 DEF Asked, InterfaceOf
  <1>7. Absent' \/ Looping' \/ Sending'
    <2>1. CASE LoopTest
      <3>1. Due /\ NoneToSend'
        BY <1>4, <1>5, <2>1 DEF LoopTest, Looping, NoneToSend
      <3>2. Head(due) = asked /\ Tail(due) = <<>>
        BY <3>1 DEF Due
      <3>3. due' = <<>>
        BY <2>1, <3>2 DEF LoopTest
      <3>4. CASE loop' = [pc |-> "SET", message |-> Head(due)]
        BY <1>1, <1>4, <3>1, <3>2, <3>3, <3>4 DEF Looping
      <3>5. CASE loop' = Idle
        BY <1>4, <3>1, <3>3, <3>5 DEF Absent, LoopIdle, Idle
      <3>6. QED
        BY <2>1, <3>4, <3>5 DEF LoopTest
    <2>2. CASE LoopSetBusy
      <3>1. Looping /\ loop'.pc = "COPY" /\ loop'.message = loop.message /\ in' = in /\ due' = due
        BY <1>0, <1>5, <2>2 DEF LoopSetBusy, Due
      <3>2. QED
        BY <1>1, <1>4, <3>1 DEF Looping, NoneToSend
    <2>3. CASE LoopCopy
      <3>1. /\ Looping /\ loop'.pc = "ARM" /\ loop'.message = loop.message /\ in' = in /\ due' = due
            /\ DataSendBuf' = loop.message
        BY <1>0, <1>5, <2>3 DEF LoopCopy, Due
      <3>2. QED
        BY <1>1, <1>4, <3>1 DEF Looping, NoneToSend
    <2>4. CASE LoopArm
      <3>1. Looping /\ loop.pc = "ARM" /\ loop' = Idle /\ due' = due /\ DataSendBuf' = DataSendBuf
        BY <1>0, <1>5, <2>4 DEF LoopArm, Due, buffers
      <3>2. LoopIdle' /\ DataSendBuf' = asked'
        BY <1>1, <3>1 DEF Looping, LoopIdle, Idle
      <3>3. \A i \in Interfaces :
              /\ in'[i] \in {"IDLE", "DONE"} \/ (in'[i] = "ARMED" /\ i = "HOST")
        BY <1>0, <1>4, <2>4 DEF LoopArm, Arm, NoneToSend
      <3>4. QED
        BY <1>4, <1>6, <3>2, <3>3 DEF Sending
    <2>5. QED
      BY <2>1, <2>2, <2>3, <2>4 DEF MainLoop
  <1>8. QED
    BY <1>1, <1>2, <1>3, <1>5, <1>7 DEF OneCommand, FlagsKeep

LEMMA DmaReadsPolite ==
  ASSUME IInv, Orderly, OneCommand, NEW i \in Interfaces, DmaReads(i)
  PROVE  OneCommand'
  <1>0. /\ in \in [Interfaces -> {"IDLE", "ARMED", "LOADED", "DONE"}]
        /\ loaded \in [Interfaces -> Messages \cup {Zeros}]
    BY PartsOfTypeOK DEF IInv
  <1>1. /\ in[i] = "ARMED" /\ in' = [in EXCEPT ![i] = "LOADED"]
        /\ loaded' = [loaded EXCEPT ![i] = DataSendBuf]
        /\ UNCHANGED <<report, DataSendBuf, out, due, loop, env, asked, read>>
    BY DEF DmaReads, buffers, main
  <1>2. asked # Zeros /\ Sending
    BY <1>1 DEF OneCommand, Absent, Received, Due, Looping, NoneToSend
  <1>3. Sending'
    BY <1>0, <1>1, <1>2 DEF Sending, NoneReceived, LoopIdle, Asked
  <1>4. FlagsKeep
    BY <1>1 DEF OneCommand, FlagsKeep
  <1>5. QED
    BY <1>1, <1>2, <1>3, <1>4 DEF OneCommand, FlagsKeep, LoopIdle

LEMMA HostPollsPolite ==
  ASSUME IInv, Orderly, OneCommand, NEW i \in Interfaces, HostPolls(i)
  PROVE  OneCommand'
  <1>0. in \in [Interfaces -> {"IDLE", "ARMED", "LOADED", "DONE"}]
    BY PartsOfTypeOK DEF IInv
  <1>1. /\ in[i] = "LOADED" /\ in' = [in EXCEPT ![i] = "DONE"]
        /\ asked' = IF Asked = i THEN Zeros ELSE asked
        /\ UNCHANGED <<report, out, due, loop, env, read>>
    BY DEF HostPolls, main, Asked
  <1>2. Sending
    BY <1>1 DEF OneCommand, Absent, Received, Due, Looping, NoneToSend
  <1>3. Absent' /\ asked' = Zeros
    BY <1>0, <1>1, <1>2 DEF Sending, Absent, NoneReceived, NoneToSend, LoopIdle
  <1>4. FlagsKeep
    BY <1>1, <1>3 DEF OneCommand, FlagsKeep
  <1>5. QED
    BY <1>1, <1>3, <1>4 DEF OneCommand, FlagsKeep, LoopIdle

LEMMA HostSendsPolite ==
  ASSUME IInv, Orderly, OneCommand, NEW m \in Messages, HostSends(m)
  PROVE  OneCommand'
  <1> DEFINE i == InterfaceOf(m.service)
  <1>0. out \in [Interfaces -> {"IDLE", "ARMED", "DONE"}]
    BY PartsOfTypeOK DEF IInv
  <1>1. /\ asked = Zeros /\ read = Interfaces /\ m.service \in env.services
        /\ out' = [out EXCEPT ![i] = "DONE"] /\ DataRecvBuf' = m /\ asked' = m
        /\ UNCHANGED <<report, in, due, loop, env, read>>
    BY DEF HostSends, Orderly, main
  <1>2. Absent /\ m # Zeros
    BY <1>1 DEF OneCommand, Messages, Services, Zeros
  <1>3. Received'
    BY <1>0, <1>1, <1>2 DEF Absent, Received, NoneReceived, NoneToSend, LoopIdle, Asked
  <1>4. FlagsKeep
    BY <1>1 DEF OneCommand, FlagsKeep
  <1>5. QED
    BY <1>1, <1>2, <1>3, <1>4 DEF OneCommand, FlagsKeep, LoopIdle

\* A command that was received is answered or ignored at once, or is due.
LEMMA ReceiveEndPolite ==
  ASSUME IInv, Orderly, OneCommand, NEW i \in Interfaces, ReceiveEnd(i)
  PROVE  OneCommand'
  <1> DEFINE m == DataRecvBuf
             r == [report[i] EXCEPT !.ready = TRUE]
  <1>0. /\ report \in [Interfaces -> Report] /\ due \in Seq(EmiMessages)
        /\ out \in [Interfaces -> {"IDLE", "ARMED", "DONE"}]
        /\ in \in [Interfaces -> {"IDLE", "ARMED", "LOADED", "DONE"}]
    BY PartsOfTypeOK DEF IInv
  <1>1. /\ out[i] = "DONE" /\ out' = [out EXCEPT ![i] = IF configured THEN "ARMED" ELSE "IDLE"]
        /\ UNCHANGED <<loop, env, asked, read>>
    BY DEF ReceiveEnd, ListenAgain, Listen
  <1>2. /\ asked # Zeros /\ Received /\ i = Asked /\ m = asked
    BY <1>1 DEF OneCommand, Absent, Due, Looping, Sending, NoneReceived, Received
  <1>3. NoneReceived' /\ Asked' = Asked
    BY <1>0, <1>1, <1>2 DEF Received, NoneReceived, Asked
  <1>4. r \in Report /\ r.preReady = report[i].preReady
    BY <1>0 DEF Report
  <1>5. \/ SendNow(i, m, r) /\ UNCHANGED due
        \/ /\ ForEmi(m, i) /\ due' = Append(due, m)
           /\ report' = [report EXCEPT ![i] = r] /\ UNCHANGED <<DataSendBuf, in>>
        \/ report' = [report EXCEPT ![i] = r] /\ UNCHANGED <<DataSendBuf, in, due>>
    BY DEF ReceiveEnd
  <1> HIDE DEF m, r
  <1>6. FlagsKeep
    <2>1. \A j \in Interfaces : report'[j].preReady = report[j].preReady
      <3>1. report' = [report EXCEPT ![i] = r] \/ report' = [report EXCEPT ![i] = [r EXCEPT !.sendBusy = configured]]
        BY <1>5 DEF SendNow
      <3> DEFINE s == [r EXCEPT !.sendBusy = configured]
      <3>2. s.preReady = r.preReady
        BY <1>4 DEF Report
      <3> HIDE DEF s
      <3>3. report' = [report EXCEPT ![i] = r] \/ report' = [report EXCEPT ![i] = s]
        BY <3>1 DEF s
      <3>4. QED
        BY <1>0, <1>4, <3>2, <3>3
    <2>2. QED
      BY <1>1, <2>1 DEF OneCommand, FlagsKeep
  <1>7. /\ Absent' \/ Sending' \/ (asked.service = "EMI" /\ Due')
        /\ "EMI" \notin env.services => LoopIdle'
    <2>0. NoneToSend /\ LoopIdle
      BY <1>2 DEF Received
    <2>1. CASE SendNow(i, m, r) /\ UNCHANGED due
      <3>1. LoopIdle'
        BY <1>1, <2>0, <2>1 DEF LoopIdle
      <3>2. CASE in' = [in EXCEPT ![i] = "ARMED"] /\ DataSendBuf' = m
        BY <1>0, <1>1, <1>2, <1>3, <2>0, <3>1, <3>2 DEF Sending, NoneToSend
      <3>3. CASE in' = in
        BY <1>3, <2>0, <3>1, <3>3 DEF Absent, NoneToSend
      <3>4. QED
        BY <2>1, <3>1, <3>2, <3>3 DEF SendNow, Arm
    <2>2. CASE ForEmi(m, i) /\ due' = Append(due, m) /\ UNCHANGED <<DataSendBuf, in>>
      <3>1. due = <<>> /\ loop.pc = "IDLE" /\ m.service = "EMI"
        BY <2>0, <2>2 DEF LoopIdle, ForEmi
      <3>2. due' = <<m>>
        BY <2>2, <3>1
      <3>3. NoneToSend'
        BY <2>0, <2>2 DEF NoneToSend
      <3>4. asked.service = "EMI" /\ "EMI" \in env.services
        BY <1>2, <3>1 DEF OneCommand
      <3>5. QED
        BY <1>1, <1>2, <1>3, <3>1, <3>2, <3>3, <3>4 DEF Due
    <2>3. CASE UNCHANGED <<in, due>>
      BY <1>1, <1>3, <2>0, <2>3 DEF Absent, NoneToSend, LoopIdle
    <2>4. QED
      BY <1>5, <2>1, <2>2, <2>3
  <1>8. QED
    BY <1>1, <1>2, <1>6, <1>7 DEF OneCommand, FlagsKeep

LEMMA TransmitEndPolite ==
  ASSUME IInv, Orderly, OneCommand, NEW i \in Interfaces, TransmitEnd(i)
  PROVE  OneCommand'
  <1>0. /\ report \in [Interfaces -> Report]
        /\ in \in [Interfaces -> {"IDLE", "ARMED", "LOADED", "DONE"}]
    BY PartsOfTypeOK DEF IInv
  <1>1. /\ in[i] = "DONE" /\ in' = [in EXCEPT ![i] = "IDLE"]
        /\ report' = [report EXCEPT ![i] = Release(i)]
        /\ UNCHANGED <<DataRecvBuf, DataSendBuf, out, loaded, due, loop, env, asked, read>>
    BY DEF TransmitEnd, buffers, main
  <1>2. Release(i).preReady = report[i].preReady
    BY <1>0 DEF Release, Report
  <1>3. FlagsKeep
    BY <1>0, <1>1, <1>2 DEF OneCommand, FlagsKeep
  <1>4. \A j \in Interfaces : in'[j] = in[j] \/ (in[j] = "DONE" /\ in'[j] = "IDLE")
    BY <1>0, <1>1
  <1>5. NoneToSend => NoneToSend'
    BY <1>4 DEF NoneToSend
  <1>6. /\ Absent => Absent'
        /\ Received => Received'
        /\ Due => Due'
        /\ Looping => Looping'
    BY <1>1, <1>5 DEF Absent, Received, Due, Looping, NoneReceived, LoopIdle, Asked
  <1>7. Sending => Sending'
    BY <1>1, <1>4 DEF Sending, NoneReceived, LoopIdle, Asked
  <1>8. QED
    BY <1>1, <1>3, <1>6, <1>7 DEF OneCommand, FlagsKeep, LoopIdle

\* A bus reset ends what the interrupt does, and nothing is in the main loop.
LEMMA DeviceResetPolite == ASSUME IInv, Orderly, OneCommand, DeviceReset PROVE OneCommand'
  <1>1. /\ "RESET" \in env.faults
        /\ \A i \in Interfaces : out'[i] = "IDLE" /\ in'[i] = "IDLE"
        /\ asked' = Zeros /\ read' = {} /\ UNCHANGED <<due, loop, env>>
    BY DEF DeviceReset, USB_ReInit, USB_ClrConfig, main
  <1>2. LoopIdle
    BY <1>1 DEF Orderly, OneCommand
  <1>3. Absent'
    BY <1>1, <1>2 DEF Absent, NoneReceived, NoneToSend, LoopIdle
  <1>4. QED
    BY <1>1, <1>3 DEF OneCommand, Absent

\* The bus events and control transfers do not touch a command: a report
\* descriptor is read before the first.
LEMMA BusPolite ==
  ASSUME IInv, Orderly, OneCommand,
         \/ DeviceSuspend \/ DeviceResume \/ SetConfiguration \/ OtherRequest \/ Ep0ReceiveEnd
         \/ \E leds \in BOOLEAN : SetReport(leds)
  PROVE  OneCommand'
  <1>0. report \in [Interfaces -> Report]
    BY PartsOfTypeOK DEF IInv
  <1>1. UNCHANGED <<in, out, loaded, due, loop, asked, DataSendBuf, DataRecvBuf, env, read>>
    BY DEF DeviceSuspend, DeviceResume, SetConfiguration, OtherRequest, Ep0ReceiveEnd, SetReport,
           buffers, main
  <1>2. \A i \in Interfaces : report'[i].preReady = report[i].preReady
    <2>1. CASE DeviceSuspend
      BY <1>0, <2>1 DEF DeviceSuspend, Report
    <2>2. CASE DeviceResume
      BY <1>0, <2>2 DEF DeviceResume, Report, Interfaces
    <2>3. CASE SetConfiguration \/ OtherRequest \/ \E leds \in BOOLEAN : SetReport(leds)
      BY <2>3 DEF SetConfiguration, OtherRequest, SetReport
    <2>4. CASE Ep0ReceiveEnd
      BY <1>0, <2>4 DEF Ep0ReceiveEnd, Report
    <2>5. QED
      BY <2>1, <2>2, <2>3, <2>4
  <1>3. FlagsKeep
    BY <1>1, <1>2 DEF OneCommand, FlagsKeep
  <1>4. QED
    BY <1>1, <1>3, NothingMoves

LEMMA GetReportDescriptorPolite ==
  ASSUME IInv, Orderly, OneCommand, NEW i \in Interfaces, GetReportDescriptor(i)
  PROVE  OneCommand'
  <1>0. report \in [Interfaces -> Report]
    BY PartsOfTypeOK DEF IInv
  <1>1. /\ i \notin read /\ report' = [report EXCEPT ![i].preReady = TRUE]
        /\ UNCHANGED <<in, out, loaded, due, loop, asked, DataSendBuf, DataRecvBuf, env, read>>
    BY DEF GetReportDescriptor, Orderly, buffers, main
  <1>2. \A j \in Interfaces : j # i => report'[j] = report[j]
    BY <1>0, <1>1
  <1>3. FlagsKeep
    BY <1>1, <1>2 DEF OneCommand, FlagsKeep
  <1>4. QED
    BY <1>1, <1>3, NothingMoves

LEMMA Ep0TransmitEndPolite == ASSUME IInv, Orderly, OneCommand, Ep0TransmitEnd PROVE OneCommand'
  <1>0. /\ report \in [Interfaces -> Report] /\ read \in SUBSET Interfaces
        /\ out \in [Interfaces -> {"IDLE", "ARMED", "DONE"}]
    BY PartsOfTypeOK DEF IInv
  <1>1. /\ DataRecvBuf' = IF PreReady = {} THEN DataRecvBuf ELSE Zeros
        /\ out' = [i \in Interfaces |->
                     IF i \in PreReady THEN IF configured THEN "ARMED" ELSE "IDLE" ELSE out[i]]
        /\ read' = IF configured THEN read \cup PreReady ELSE read
        /\ UNCHANGED <<DataSendBuf, in, loaded, due, loop, env, asked>>
    BY DEF Ep0TransmitEnd, main
  <1>2. \A i \in Interfaces : ~report'[i].preReady
    <2>1. \A i \in Interfaces :
            IF i \in PreReady THEN report'[i].preReady = FALSE ELSE report'[i] = report[i]
      BY DEF Ep0TransmitEnd
    <2>2. QED
      BY <2>1 DEF PreReady
  <1>3. read' \in SUBSET Interfaces /\ read \subseteq read'
    BY <1>0, <1>1 DEF PreReady
  <1>4. FlagsKeep
    BY <1>1, <1>2, <1>3 DEF OneCommand, FlagsKeep
  <1>5. CASE PreReady = {}
    <2>1. out' = out /\ DataRecvBuf' = DataRecvBuf
      BY <1>0, <1>1, <1>5
    <2>2. QED
      BY <1>1, <1>4, <2>1, NothingMoves
  <1>6. CASE PreReady # {}
    <2>1. asked = Zeros
      BY <1>6 DEF OneCommand, PreReady
    <2>2. Absent
      BY <2>1 DEF OneCommand
    <2>3. \A i \in Interfaces : out'[i] = "DONE" => out[i] = "DONE"
      BY <1>1
    <2>4. Absent'
      BY <1>1, <2>2, <2>3 DEF Absent, NoneReceived, NoneToSend, LoopIdle
    <2>5. QED
      BY <1>1, <1>4, <2>1, <2>4 DEF OneCommand, FlagsKeep, Absent
  <1>7. QED
    BY <1>5, <1>6

LEMMA NextPolite == IInv /\ PoliteInv /\ [Next]_vars => PoliteInv'
  <1> SUFFICES ASSUME IInv, PoliteInv, [Next]_vars, Orderly' PROVE OneCommand'
    BY DEF PoliteInv
  <1>0. env' = env
    BY DEF Next, MainLoop, LoopTest, LoopSetBusy, LoopCopy, LoopArm, Interrupt, ReceiveEnd,
           TransmitEnd, Host, HostSends, DeviceReset, DeviceSuspend, DeviceResume,
           SetConfiguration, OtherRequest, SetReport, GetReportDescriptor, Ep0TransmitEnd,
           Ep0ReceiveEnd, SweepStep, DmaReads, HostPolls, vars
  <1>1. Orderly /\ OneCommand
    BY <1>0 DEF PoliteInv, Orderly, Polite
  <1>2. CASE MainLoop
    BY <1>1, <1>2, MainLoopPolite
  <1>3. CASE Interrupt
    BY <1>1, <1>3, ReceiveEndPolite, TransmitEndPolite DEF Interrupt
  <1>4. CASE Host
    <2>1. CASE \E m \in Messages : HostSends(m)
      BY <1>1, <2>1, HostSendsPolite
    <2>2. CASE DeviceReset
      BY <1>1, <2>2, DeviceResetPolite
    <2>3. CASE \/ DeviceSuspend \/ DeviceResume \/ SetConfiguration \/ OtherRequest
               \/ Ep0ReceiveEnd \/ \E leds \in BOOLEAN : SetReport(leds)
      BY <1>1, <2>3, BusPolite
    <2>4. CASE \E i \in Interfaces : GetReportDescriptor(i)
      BY <1>1, <2>4, GetReportDescriptorPolite
    <2>5. CASE Ep0TransmitEnd
      BY <1>1, <2>5, Ep0TransmitEndPolite
    <2>6. QED
      BY <1>4, <2>1, <2>2, <2>3, <2>4, <2>5 DEF Host
  <1>5. CASE \E d \in Data : SweepStep(d)
    BY <1>1, <1>5 DEF SweepStep, Orderly
  <1>6. CASE \E i \in Interfaces : DmaReads(i) \/ HostPolls(i)
    BY <1>1, <1>6, DmaReadsPolite, HostPollsPolite
  <1>7. CASE UNCHANGED vars
    <2>1. UNCHANGED <<in, out, loaded, due, loop, asked, DataSendBuf, DataRecvBuf, env, read, report>>
      BY <1>7 DEF vars, buffers, main
    <2>2. FlagsKeep
      BY <1>1, <2>1 DEF OneCommand, FlagsKeep
    <2>3. QED
      BY <1>1, <2>1, <2>2, NothingMoves
  <1>8. QED
    BY <1>2, <1>3, <1>4, <1>5, <1>6, <1>7 DEF Next

\* A host that waits for its answers, whichever services it uses, reads the
\* answer to the command it asked last, although the interfaces share one
\* buffer for what they receive and one for what they send: it has one command
\* in the device, whatever the bus does; a bus reset takes it away unless it is
\* an EMI command, which the main loop would answer after the reset.
THEOREM AnswersBelongToCommands == Spec => []AnswersTheCommand
  <1>1. IInv /\ PoliteInv => AnswersTheCommand
    <2> SUFFICES ASSUME PoliteInv, Orderly, NEW i \in Interfaces, in[i] = "LOADED"
                 PROVE  loaded[i] = asked
      BY DEF AnswersTheCommand, Orderly
    <2>1. Sending
      BY DEF PoliteInv, OneCommand, Absent, Received, Due, Looping, NoneToSend
    <2>2. QED
      BY <2>1 DEF Sending
  <1>2. Spec => []PoliteInv
    BY InitPolite, NextPolite, InductiveInvariant, PTL DEF Spec
  <1>3. QED
    BY <1>1, <1>2, InductiveInvariant, PTL

=============================================================================
