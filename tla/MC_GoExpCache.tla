--------------------------- MODULE MC_GoExpCache ---------------------------
(* Small instances of GoExpCache: two keys, one or two client goroutines,  *)
(* timeouts of one and two clock ticks.                                    *)
EXTENDS GoExpCache

CONSTANTS k1, k2, c1, c2

MCKeys == {k1, k2}
MCClients == {c1, c2}
MCOneClient == {c1}
=============================================================================
