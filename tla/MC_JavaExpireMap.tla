------------------------- MODULE MC_JavaExpireMap --------------------------
(* Small instances of JavaExpireMap: one or two keys as model values.      *)
EXTENDS JavaExpireMap

CONSTANTS k1, k2

MCKeys == {k1, k2}
MCOneKey == {k1}
=============================================================================
