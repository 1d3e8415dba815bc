---------------------------- MODULE IapInstaller ----------------------------
(***************************************************************************)
(* What the firmware update promises: what is installed is a whole image   *)
(* that was verified in the storage area, unchanged since it was verified. *)
(***************************************************************************)
CONSTANTS
  Whole,       \* the contents that are a whole image
  None

VARIABLES
  ready,       \* the verified content of the storage area, or None
  installed    \* what was installed last, or None

vars == <<ready, installed>>

Init == ready = None /\ installed = None

\* The last block completed the image, and its check succeeded.
Verify(content) == ready = None /\ ready' = content /\ UNCHANGED installed

\* A new upgrade, a reset or a failure gives the image up.
GiveUp == ready' = None /\ UNCHANGED installed

Install == ready # None /\ installed' = ready /\ ready' = None

Next == GiveUp \/ Install \/ \E content \in Whole : Verify(content)

Spec == Init /\ [][Next]_vars

=============================================================================
