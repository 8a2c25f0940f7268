--------------------------- MODULE VersionedBlocks ---------------------------
(***************************************************************************)
(* What odbb_checkout and odbb_commit promise the processes that share a   *)
(* volume: blocks with versions, read and replaced a range at a time, each *)
(* call taking effect at one moment between its start and its return.      *)
(*                                                                         *)
(* Two things the library does not promise are part of the specification:  *)
(* a range whose writer was killed is torn until it is written again, and  *)
(* nothing holds after a lock call has failed.                             *)
(***************************************************************************)
EXTENDS Integers

CONSTANTS
    Procs, Blocks, Slots, Data, Zero, VerMod,
    Ranges      \* the <<first block, count>> pairs of the calls

VARIABLES
    store,      \* block -> its content and version
    torn,       \* blocks a killed process was replacing
    view,       \* process -> the buffer it sees, and the state of its checkout
    lockfail    \* a lock call has failed

vars == <<store, torn, view, lockfail>>

\* The blocks of a range, and the slot a block of it has in a buffer
Range(r)   == { b \in Blocks : r[1] <= b /\ b < r[1] + r[2] }
Slot(r, b) == b - r[1]
Fits(r)    == \A b \in Range(r) : Slot(r, b) \in Slots

\* The buffer of a process while a checkout may be filling it
Hidden == [state |-> "busy", data |-> <<>>, ver |-> <<>>]
FreshBuffer == [state |-> "free", data |-> [i \in Slots |-> Zero], ver |-> [i \in Slots |-> 0]]

Init ==
    /\ store = [b \in Blocks |-> [data |-> Zero, ver |-> 0]]
    /\ torn = {}
    /\ view = [p \in Procs |-> FreshBuffer]
    /\ lockfail = FALSE

\* Only p's buffer changes.
Own(p) == \A q \in Procs \ {p} : view'[q] = view[q]

\* A checkout starts ...
Begin(p) ==
    /\ view[p].state # "busy" /\ view'[p] = Hidden
    /\ Own(p)
    /\ UNCHANGED <<store, torn>>

\* ... and succeeds: the buffer is a snapshot of the range.
Snapshot(p, r) ==
    /\ view[p] = Hidden /\ view'[p].state = "got"
    /\ Fits(r)
    /\ \A b \in Range(r) \ torn :
         /\ view'[p].data[Slot(r, b)] = store[b].data
         /\ view'[p].ver[Slot(r, b)]  = store[b].ver
    /\ Own(p)
    /\ UNCHANGED <<store, torn>>

\* A checkout fails, or has returned, and the user edits the buffer.
Edit(p) ==
    /\ view'[p].state = "free"
    /\ Own(p)
    /\ UNCHANGED <<store, torn>>

\* A commit succeeds: the range is replaced as a whole, from the versions the
\* buffer has.
Commit(p, r) ==
    /\ view[p].state = "free"
    /\ Fits(r)
    /\ \A b \in Range(r) \ torn : store[b].ver = view[p].ver[Slot(r, b)]
    /\ store' = [b \in Blocks |->
         IF b \in Range(r)
         THEN [data |-> view[p].data[Slot(r, b)],
               ver  |-> (view[p].ver[Slot(r, b)] + 1) % VerMod]
         ELSE store[b]]
    /\ torn' = torn \ Range(r)
    /\ UNCHANGED view

\* A process is killed, perhaps while it replaces a range, and starts anew.
Restart(p) ==
    /\ view'[p] = FreshBuffer
    /\ Own(p)
    /\ \/ UNCHANGED torn
       \/ \E r \in Ranges : torn' = torn \cup Range(r)
    /\ UNCHANGED store

Act(p) ==
    \/ Begin(p) \/ Edit(p) \/ Restart(p)
    \/ \E r \in Ranges : Snapshot(p, r) \/ Commit(p, r)

Next == lockfail' \/ \E p \in Procs : Act(p)

Spec == Init /\ [][Next]_vars
=============================================================================
