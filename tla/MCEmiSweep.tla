----------------------------- MODULE MCEmiSweep -----------------------------
(***************************************************************************)
(* EmiSweep for TLC: pairs of the custom sweeps, which share a context,    *)
(* and the two sweeps with a range: all channels, ends that differ by an   *)
(* odd number, the wrong way round, and an end at 255.                     *)
(***************************************************************************)
EXTENDS EmiSweep

CustomSweep(kind) == [kind |-> kind, channel_min |-> 0, channel_max |-> 0]
TxV4(min, max) == [kind |-> "SWEEP_TX_V4", channel_min |-> min, channel_max |-> max]
Carrier(min, max) == [kind |-> "SWEEP_CARRIER", channel_min |-> min, channel_max |-> max]

MCHosts ==
  {{CustomSweep("CUS_SWEEP_24G_TX_V4"), CustomSweep(kind)} :
     kind \in {"CUS_SWEEP_BLE_TX_V4", "CUS_SWEEP_24G_CARRIER"}}
  \cup {{TxV4(2, 80), TxV4(30, 20)}, {Carrier(2, 80), Carrier(10, 21)},
        {TxV4(1, 10), Carrier(40, 44)}}

\* Channels in the middle of the bands, and at their ends.
MCMayFail == {2, 38, 2442, 2480}
=============================================================================
