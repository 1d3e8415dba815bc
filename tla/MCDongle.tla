------------------------------ MODULE MCDongle ------------------------------
(* Dongle for TLC: two contents of a report, to tell one report from the   *)
(* next, and two handles, to tell a connection from the one before it.     *)
EXTENDS Dongle, TLC

CONSTANTS a, b, h1, h2

MCPayloads == {a, b}
MCHandles == {h1, h2}
Symmetry == Permutations(MCPayloads) \cup Permutations(MCHandles)
=============================================================================
