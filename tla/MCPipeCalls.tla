---------------------------- MODULE MCPipeCalls ----------------------------
(* PipeCalls for TLC: one installer and one executor. *)
EXTENDS PipeCalls

CONSTANTS i1, e1

OneInstaller == {i1}
OneExecutor  == {e1}
=============================================================================
