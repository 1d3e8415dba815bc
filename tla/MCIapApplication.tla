-------------------------- MODULE MCIapApplication --------------------------
(***************************************************************************)
(* Instances of IapApplication for TLC: four cells of storage in two       *)
(* sectors, two images of which one ends in a partial block.               *)
(***************************************************************************)
EXTENDS IapApplication

Announce(img, len, size, num) ==
  [wellFormed |-> TRUE, chk |-> [img |-> img, len |-> len], size |-> size, num |-> num,
   binSize |-> len]

\* Headers that are refused: malformed, too small, too large a block,
\* more blocks or a larger image than the storage area holds.
RefusedHeaders ==
  {[Announce("a", 3, 2, 2) EXCEPT !.wellFormed = FALSE], Announce("a", 3, 0, 2),
   Announce("a", 4, 4, 1), Announce("a", 3, 2, 3), Announce("a", 5, 2, 2)}
\* A header without blocks is accepted, and one whose binSize is not the
\* length the CRC was taken over.
SomeHeaders ==
  {[Announce("a", 3, 2, n) EXCEPT !.binSize = 1] : n \in {0, 2}} \cup RefusedHeaders

\* The blocks of "a", the two expected also with the bytes of "b", and two that are
\* empty or too short.
SomeWrites ==
  [blockNum : {0, 1, IAP_APP_LAST_BLOCK}, offsetAddr : {0, 2}, length : {7, 8}, img : {"a"}] \cup
  [blockNum : {0}, offsetAddr : {0, 2}, length : {8}, img : {"b"}] \cup
  [blockNum : {IAP_APP_LAST_BLOCK}, offsetAddr : {0, 2}, length : {7}, img : {"b"}] \cup
  [blockNum : {IAP_APP_LAST_BLOCK}, offsetAddr : {0, 2}, length : {5, 6}, img : {"a"}]

=============================================================================
