----------------------------- MODULE MCPageCache -----------------------------
(* PageCache for TLC. *)
EXTENDS PageCache

CONSTANTS h1, h2, h3, s1, s2, s3, p1, p2

ThreeHandles == {h1, h2, h3}
ThreeSlots   == {s1, s2, s3}
TwoPages     == {p1, p2}
=============================================================================
