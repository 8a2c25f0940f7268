----------------------------- MODULE MCHostLife -----------------------------
(* HostLife for TLC. *)
EXTENDS HostLife

CONSTANTS p1, p2, s1, s2

OneProc     == {p1}
TwoProcs    == {p1, p2}
OneStopper  == {s1}
TwoStoppers == {s1, s2}
=============================================================================
