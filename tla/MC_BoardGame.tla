---------------------------- MODULE MC_BoardGame ----------------------------
(* The board game instantiated for TLC: -d values of a valid size, a zero  *)
(* size and one that does not scan.                                        *)
EXTENDS BoardGame

MCGenFlags == {<<2, 5>>, <<0, 2>>, BadHeader}
=============================================================================
