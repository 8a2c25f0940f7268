----------------------------- MODULE PageSupply -----------------------------
(***************************************************************************)
(* What edbd_add and edbd_del of liboidadb-alpha promise their callers:    *)
(* straits of pages nobody else has, taken back when their user is done.   *)
(* The allocator may keep pages to itself; those it never hands out.       *)
(***************************************************************************)
EXTENDS Integers

CONSTANTS
    Pids,       \* pages of the file
    Straits     \* how many pages a caller may ask for

VARIABLES
    user,       \* page -> how many callers believe it theirs
    kept        \* pages the allocator keeps

Strait(id, n) == id .. id + n - 1

Init == user = [p \in Pids |-> 0] /\ kept = {}

\* A caller gets n pages in a row.
Give(id, n) ==
    /\ Strait(id, n) \subseteq Pids \ kept
    /\ \A p \in Strait(id, n) : user[p] = 0
    /\ user' = [p \in Pids |-> IF p \in Strait(id, n) THEN 1 ELSE user[p]]
    /\ UNCHANGED kept

\* A caller returns n pages in a row; the allocator may keep one more page that
\* nobody uses, one of these included.
TakeBack(id, n) ==
    /\ Strait(id, n) \subseteq Pids
    /\ \A p \in Strait(id, n) : user[p] = 1
    /\ user' = [p \in Pids |-> IF p \in Strait(id, n) THEN 0 ELSE user[p]]
    /\ \/ UNCHANGED kept
       \/ \E k \in Pids \ kept : user'[k] = 0 /\ kept' = kept \cup {k}

Next == \E id \in Pids, n \in Straits : Give(id, n) \/ TakeBack(id, n)

Spec == Init /\ [][Next]_<<user, kept>>
=============================================================================
