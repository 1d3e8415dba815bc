------------------------------ MODULE EmiFifo ------------------------------
(***************************************************************************)
(* What the request ring of ctrl_emi.c promises ("requests queued in a     *)
(* FIFO queue", emi_loop): requests are taken in the order in which they   *)
(* were put, none is lost, none is served twice.                           *)
(***************************************************************************)
EXTENDS Sequences

CONSTANT Entries    \* what is queued

VARIABLE pending    \* the requests put and not yet taken, oldest first

Init == pending = << >>

\* Some entry is put at the end (stated on the result, for Entries may be infinite).
Put ==
  /\ pending' # << >>
  /\ pending'[Len(pending')] \in Entries
  /\ pending' = Append(pending, pending'[Len(pending')])

Take == pending # << >> /\ pending' = Tail(pending)

Next == Take \/ Put

Spec == Init /\ [][Next]_pending

=============================================================================
