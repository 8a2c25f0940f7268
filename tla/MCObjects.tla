------------------------------ MODULE MCObjects ------------------------------
(* Small instances of Objects for TLC. *)
EXTENDS Objects

CONSTANTS w1, w2

W2 == {w1, w2}

\* The straits of the chapter are in no order in the file.
Scattered == <<5, 2, 7>>
=============================================================================
