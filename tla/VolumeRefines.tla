---------------------------- MODULE VolumeRefines ----------------------------
(***************************************************************************)
(* Volume implements VersionedBlocks: a commit takes effect when it writes *)
(* its last version, a checkout when it copies its last group.             *)
(***************************************************************************)
EXTENDS VolumeInv

\* A checkout that has not come to its end, or ended badly
Filling(p) == op[p].kind = "checkout" /\ pc[p] # "unlock"
Filled(p)  == op[p].kind = "checkout" /\ pc[p] = "unlock" /\ ret[p] = "OK"

ViewOf(p) ==
    IF Filling(p) THEN [state |-> "busy", data |-> << >>, ver |-> << >>]
    ELSE [state |-> IF Filled(p) THEN "got" ELSE "free",
          data |-> udata[p], ver |-> uver[p]]

Promise == INSTANCE VersionedBlocks WITH
    store <- committed, view <- [p \in Procs |-> ViewOf(p)], lockfail <- deadlkSeen

\* Refinement: whatever the interleaving of their file accesses and locks, and
\* wherever processes are killed, checkouts and commits of ranges behave as if each
\* took place at one moment.
ActsAtOnce == Promise!Spec
=============================================================================
