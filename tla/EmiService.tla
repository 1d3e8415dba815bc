----------------------------- MODULE EmiService -----------------------------
(***************************************************************************)
(* What the EMI test controller promises, one request at a time: a request *)
(* is taken, the test that is running may end, and the request finishes    *)
(* with an outcome that tells the truth about the test.                    *)
(*                                                                         *)
(* running means that a test or a sweep is on as far as the firmware       *)
(* knows; a test being stopped counts until the controller confirms it.    *)
(***************************************************************************)
EXTENDS Integers

CONSTANTS StartReqs, ForwardReqs, StopReq, NoReq

Reqs == StartReqs \cup ForwardReqs \cup {StopReq}

VARIABLES serving, running, outcome

vars == <<serving, running, outcome>>

Init == serving = NoReq /\ running = FALSE /\ outcome = <<NoReq, TRUE>>

Take(r) ==
  /\ serving = NoReq
  /\ serving' = r
  /\ UNCHANGED <<running, outcome>>

\* The old test ends on the way.
Halt == serving # NoReq /\ running' = FALSE /\ UNCHANGED <<serving, outcome>>

\* A FORWARD switches the next channel on before it finishes.
Launch ==
  /\ serving \in ForwardReqs
  /\ running' = TRUE
  /\ UNCHANGED <<serving, outcome>>

Finished(ok) == serving' = NoReq /\ outcome' = <<serving, ok>>

\* A STOP is done if and only if nothing runs, and never starts anything.
FinishStop(ok) ==
  /\ serving = StopReq /\ Finished(ok)
  /\ ok = ~running'
  /\ running' => running

\* A START is done only with a test or a sweep running; one that failed has
\* started nothing.
FinishStart(ok) ==
  /\ serving \in StartReqs /\ Finished(ok)
  /\ IF ok THEN running' = TRUE ELSE running' => running

\* A FORWARD that is done leaves its test or sweep running.
FinishForward(ok) ==
  /\ serving \in ForwardReqs /\ Finished(ok)
  /\ IF ok THEN running' = TRUE ELSE running' => running

Next ==
  \/ \E r \in Reqs : Take(r)
  \/ Halt
  \/ Launch
  \/ \E ok \in BOOLEAN : FinishStop(ok) \/ FinishStart(ok) \/ FinishForward(ok)

Spec == Init /\ [][Next]_vars

=============================================================================
