------------------------------ MODULE MCEmiUsb ------------------------------
(***************************************************************************)
(* EmiUsb for TLC: a host of one service that waits for its answers, with  *)
(* two data to tell an answer from the one before it, under every fault;   *)
(* and hosts of two services that do not wait, with one datum, since no    *)
(* property asks which answer they get.                                    *)
(***************************************************************************)
EXTENDS EmiUsb, FiniteSets

CONSTANTS a, b
MCData == {a, b}

OneHost ==
  [services : {{"UCM"}, {"EMI"}, {"IAP"}}, data : {MCData}, polite : {TRUE}, faults : SUBSET Faults]
AllHosts ==
  [services : {S \in SUBSET Services : Cardinality(S) = 2}, data : {{a}}, polite : {FALSE}, faults : {{"RESET"}, {"SUSPEND"}}]
MCEnvironments == OneHost \cup AllHosts
=============================================================================
