------------------------------ MODULE MCVolume ------------------------------
(* Small instances of Volume for TLC. *)
EXTENDS VolumeRefines, TLC

CONSTANTS w1, w2, r1

W2   == {w1, w2}
W2R1 == {w1, w2, r1}

Perms2 == Permutations(W2)

\* BlocksPerGroup = 2: blocks 0 and 1 on pages 1 and 2, blocks 2 and 3 on
\* pages 4 and 5, descriptors on pages 0 and 3.
Overlapping == {<<0, 2>>, <<1, 2>>}
\* MaxPages = 5: the third range needs a page more than the file can have.
Growing == {<<0, 1>>, <<1, 2>>, <<2, 2>>}

EmptyFile == {0}
FullFile  == {5}
=============================================================================
