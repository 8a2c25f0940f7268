---------------------------- MODULE MCJobProtocol ----------------------------
(* JobProtocol for TLC: one or two handles, and the worker that owns the slot. *)
EXTENDS JobProtocol

CONSTANTS h1, h2, w1

OneHandle  == {h1}
TwoHandles == {h1, h2}
OneWorker  == {w1}
=============================================================================
