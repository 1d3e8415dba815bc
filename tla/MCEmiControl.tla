---------------------------- MODULE MCEmiControl ----------------------------
(***************************************************************************)
(* Instances of EmiControl for TLC: the packets the host may send.         *)
(***************************************************************************)
EXTENDS EmiControl

StartCmd(mode, type, wave) ==
  [is_start |-> TRUE, is_rx |-> FALSE, mode |-> mode, type |-> type, wave |-> wave, par |-> 1]

Stop == [NoCmd EXCEPT !.par = 1]
Rx == [StartCmd("SINGLE", "BLE", "CARRIER") EXCEPT !.is_rx = TRUE]
Unknown == StartCmd("UNKNOWN", "BLE", "CARRIER")
Carrier == StartCmd("SINGLE", "BLE", "CARRIER")
Payload == StartCmd("SINGLE", "BLE", "PAYLOAD")
SweepCarrier == StartCmd("SWEEP", "BLE", "CARRIER")
SweepPayload == StartCmd("SWEEP", "BLE", "PAYLOAD")
SweepBle == StartCmd("OTHER_SWEEP", "BLE", "PAYLOAD")
Sweep24gCarrier == StartCmd("OTHER_SWEEP", "24G", "CARRIER")
Sweep24gPayload == StartCmd("OTHER_SWEEP", "24G", "PAYLOAD")

\* The tests whose stop is a single HCI command.
HciTests == {SweepPayload, SweepBle, Stop}
CarrierAndStop == {Carrier, Stop}
PayloadAndStop == {Payload, Stop}
SweepAndStop == {SweepCarrier, Stop}
Mixed == {Payload, SweepCarrier, Stop}
Singles == {Carrier, Payload, Stop}
Custom24g == {Sweep24gCarrier, Sweep24gPayload, Stop}
AllPackets == {Stop, Rx, Unknown, Carrier, Payload, SweepCarrier, SweepPayload, SweepBle,
               Sweep24gCarrier, Sweep24gPayload}

=============================================================================
