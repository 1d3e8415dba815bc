--------------------------- MODULE MCUcmPackaging ---------------------------
(***************************************************************************)
(* UcmPackaging for TLC: a packet holds two bytes, pos is counted modulo 4 *)
(* and the buffer holds six bytes: as 26, 256 and 300 in the code, no      *)
(* position and packet together exceed the buffer.                         *)
(***************************************************************************)
EXTENDS UcmPackaging

\* Commands of one to four packets and bytes; the last packet of "n" has a size
\* field, which nothing checks, that is larger than the payload, ...
Short == {<<<<"a">>>>, <<<<"b", "c">>, <<"d">>>>, <<<<"e">>, <<"f">>, <<"g", "h">>>>,
          <<<<"i">>, <<"j">>, <<"k">>, <<"l">>>>,
          <<<<"n">>, <<"o">>, <<"p">>, <<"q", "r", "s">>>>}
\* ... and one that is longer than the buffer.
WithLong == Short \cup {<<<<"t", "u">>, <<"v", "w">>, <<"x", "y">>, <<"z">>>>}
KnownCommands == Short \ {<<<<"a">>>>}

=============================================================================
