----------------------------- MODULE MCIapUpdate -----------------------------
(***************************************************************************)
(* IapUpdate for TLC: two cells of storage in two sectors, an image of     *)
(* both in two blocks and one of the first in a single block.              *)
(***************************************************************************)
EXTENDS IapUpdate

Announce(img, len) ==
  [wellFormed |-> TRUE, chk |-> [img |-> img, len |-> len], size |-> 1, num |-> len,
   binSize |-> len]

HonestHeaders == {Announce("a", 2), Announce("b", 1)}

Block(num, offset, img) == [blockNum |-> num, offsetAddr |-> offset, length |-> 7, img |-> img]

SomeWrites ==
  {Block(0, 0, "a"), Block(IAP_APP_LAST_BLOCK, 1, "a"), Block(IAP_APP_LAST_BLOCK, 0, "b")}

=============================================================================
