----------------------------- MODULE MCBuffers -----------------------------
(* Small instances of Buffers for TLC. *)
EXTENDS Buffers

Within   == 0 .. bcount
AllUInts == 0 .. UIntMod - 1
=============================================================================
