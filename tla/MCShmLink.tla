------------------------------ MODULE MCShmLink ------------------------------
(* ShmLink for TLC. *)
EXTENDS ShmLink

CONSTANTS h1, h2, h3

OneHandle    == {h1}
TwoHandles   == {h1, h2}
ThreeHandles == {h1, h2, h3}
=============================================================================
