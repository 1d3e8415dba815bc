---------------------------- MODULE AtomicUpdate ----------------------------
(***************************************************************************)
(* What the metadata of the second boot promises: an update is pending as  *)
(* a whole or not at all, and it is the one that was asked for last or the *)
(* one that was pending before. What an erase left behind may mix with     *)
(* what is written over it, but only until the next call.                  *)
(***************************************************************************)
CONSTANTS
  Updates, None,
  Mixtures,      \* what words of several updates, or spoilt ones, may make
  EraseFails     \* environment: an erase may leave words behind

VARIABLES asked, pending, leftovers

vars == <<asked, pending, leftovers>>

Init == asked = None /\ pending = None /\ ~leftovers

Ask(u) == asked' = u /\ ~leftovers' /\ UNCHANGED pending

Erase ==
  /\ pending' \in {pending, None}
  /\ leftovers' => EraseFails
  /\ UNCHANGED asked

Commit == asked \in Updates /\ pending' = asked /\ UNCHANGED <<asked, leftovers>>

Mix == leftovers /\ pending' \in Mixtures /\ UNCHANGED <<asked, leftovers>>

Next == Erase \/ Commit \/ Mix \/ \E u \in Updates : Ask(u)

Spec == Init /\ [][Next]_vars

=============================================================================
