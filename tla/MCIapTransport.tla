--------------------------- MODULE MCIapTransport ---------------------------
(***************************************************************************)
(* IapTransport for TLC: numbers are counted modulo 4, and the messages    *)
(* fill up to one more frame than that, or more than the buffer holds.     *)
(***************************************************************************)
EXTENDS IapTransport

SomeMessages == {[name |-> "a", size |-> 1], [name |-> "b", size |-> 3],
                 [name |-> "c", size |-> 5], [name |-> "d", size |-> 6]}

\* A host that keeps to the protocol over a lossy line; host programs that are
\* stopped and started again, damaged frames and missing answers; a host that
\* does not wait for its answers.
Lossy == [waits |-> TRUE, abandons |-> FALSE, silent |-> FALSE, damage |-> 1, losses |-> 1]
Restarted == [waits |-> TRUE, abandons |-> TRUE, silent |-> TRUE, damage |-> 2, losses |-> 0]
Pipelined == [waits |-> FALSE, abandons |-> FALSE, silent |-> TRUE, damage |-> 2, losses |-> 1]
SomeEnvironments == {Lossy, Restarted, Pipelined}

=============================================================================
