----------------------------- MODULE MCBootMeta -----------------------------
(***************************************************************************)
(* BootMeta for TLC: two updates that agree in the source and differ in    *)
(* the size and the destination. An erase stops after none or all of the   *)
(* words, before or after the first or the last, or between the block info *)
(* and the settings.                                                       *)
(***************************************************************************)
EXTENDS BootMeta

TwoUpdates == {<<"size 1", "dst 1", "storage">>, <<"size 2", "dst 2", "storage">>}

SomeStops ==
  {{}, Words, InfoWords, SettingsWords}
    \cup UNION {{{w}, Words \ {w}} : w \in {"size", "crc_value"}}

=============================================================================
