----------------------------- MODULE MCJobRing -----------------------------
(* JobRing for TLC: threads as model values. *)
EXTENDS JobRing

CONSTANTS h1, h2, h3, w1, w2

TwoHandles   == {h1, h2}
ThreeHandles == {h1, h2, h3}
OneWorker    == {w1}
TwoWorkers   == {w1, w2}
=============================================================================
