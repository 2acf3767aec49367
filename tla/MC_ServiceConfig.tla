------------------------- MODULE MC_ServiceConfig --------------------------
(* TLC instance of ServiceConfig: one setting of every kind.               *)
EXTENDS ServiceConfig

CONSTANTS address, web, console, port, s1, p8443, p9000, junk, pg, other

(* The fallbacks of lines 88-91: "0.0.0.0", "false", "false", "8443".      *)
MC_Builtin == [k \in Keys |-> IF k = address THEN s1
                              ELSE IF k = port THEN p8443 ELSE "false"]

MC_Numeral == [p \in {p8443, p9000} |-> IF p = p8443 THEN 8443 ELSE 9000]
=============================================================================
