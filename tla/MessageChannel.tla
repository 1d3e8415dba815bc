--------------------------- MODULE MessageChannel ---------------------------
(***************************************************************************)
(* What the transport promises the application: it is handed whole         *)
(* messages of the host, each from its first frame to its last.            *)
(***************************************************************************)
EXTENDS Naturals, Sequences

CONSTANT Contents      \* the contents of the messages the host sends

VARIABLES
  received,            \* the frames of the next message, so far
  handed               \* the message that was handed over last

vars == <<received, handed>>

Init == received = <<>> /\ handed = <<>>

Extend ==
  \E c \in Contents :
    /\ Len(received) + 1 < Len(c)
    /\ received' = SubSeq(c, 1, Len(received) + 1)
    /\ received = SubSeq(c, 1, Len(received))
    /\ UNCHANGED handed

GiveUp == received' = <<>> /\ UNCHANGED handed

HandOver ==
  \E c \in Contents :
    /\ received = SubSeq(c, 1, Len(c) - 1)
    /\ handed' = c /\ received' = <<>>

Next == Extend \/ GiveUp \/ HandOver

Spec == Init /\ [][Next]_vars

=============================================================================
