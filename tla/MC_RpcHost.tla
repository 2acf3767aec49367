---------------------------- MODULE MC_RpcHost ----------------------------
(* Instances of RpcHost for TLC.                                          *)
EXTENDS RpcHost, TLC

(* Connections are interchangeable: no property names one. *)
MC_ConnSymmetry == Permutations(Conns)

(* The scripting service registers SCRIPT_AS_REQUEST, the workspace       *)
(* service a notification; the other services own no method of the model. *)
MC_Owns == [s \in Services |->
              CASE s = "scripting" -> {ScriptAs}
                [] s = "workspace" -> {NotifyM}
                [] OTHER           -> {}]
=============================================================================
