--------------------------- MODULE MC_DebugAttach ---------------------------
(* A small port range: the requested port, the next one, and the last      *)
(* port, so that the retry can step past it.                               *)
EXTENDS DebugAttach

MC_Options == {0, 2, MaxPort}
=============================================================================
