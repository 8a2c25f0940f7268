------------------------------ MODULE PageCache ------------------------------
(***************************************************************************)
(* The page cache of a v0 host (liboidadb-alpha/edbp.c): the slots that    *)
(* map pages of the file into memory, and the workers' handles that pin a  *)
(* page, use it and let it go.                                             *)
(*                                                                         *)
(* A slot's id and its pins are only touched under mutexpagelock, so each  *)
(* such section is one step.  The swap itself (munmap, mmap) and the wait  *)
(* of those who want the same page run outside it, on futex_swap.          *)
(*                                                                         *)
(* The replacement score and the hints that weigh it (edbp_mod) are a      *)
(* heuristic that changes no result: the victim is any unpinned slot.      *)
(***************************************************************************)
EXTENDS Integers, FiniteSets

CONSTANTS
    Handles,    \* the handles workers may create
    Slots,      \* the slots: slot_count is their number
    Pids,       \* pages of the file
    Null        \* pid 0, a null pointer, no slot (-1)

ASSUME PageCacheAssumption ==
    /\ IsFiniteSet(Handles)
    /\ IsFiniteSet(Slots) /\ Slots # {}
    /\ Null \notin Pids \cup Slots

VARIABLES
    id,          \* slot -> id
    locks,       \* slot -> locks
    page,        \* slot -> the page its pointer maps, Null, or "unmapped"
    futex_swap,  \* slot -> 0 ready, 1 swapping, 2 failed, 3 out of memory
    handles,     \* handles: how many the cache believes it has
    lockedslotv, \* handle -> its slot
    want,        \* handle -> the page it started
    pc           \* handle -> its place in the code

slotvars == <<id, locks, page, futex_swap>>
vars == <<slotvars, handles, lockedslotv, want, pc>>

Goto(h, l) == pc' = [pc EXCEPT ![h] = l]
-----------------------------------------------------------------------------
(* Handles *)

\* "slot_count < handles + 1" is ODB_ENOSPACE.
RoomFor(n) == Cardinality(Slots) >= n + 1

edbp_handle_init(h) ==
    /\ pc[h] = "none"
    /\ RoomFor(handles)
    /\ handles' = handles + 1
    /\ Goto(h, "idle")
    /\ UNCHANGED <<slotvars, lockedslotv, want>>

\* malloc fails: the handle has been counted all the same.
HandleNoMem(h) ==
    /\ pc[h] = "none"
    /\ RoomFor(handles)
    /\ handles' = handles + 1
    /\ UNCHANGED <<slotvars, lockedslotv, want, pc>>

\* edbp_handle_free, after its edbp_finish
edbp_handle_free(h) ==
    /\ pc[h] = "idle"
    /\ handles' = handles - 1
    /\ Goto(h, "none")
    /\ UNCHANGED <<slotvars, lockedslotv, want>>
-----------------------------------------------------------------------------
(* lockpages, under the mutex *)

Cached(p) == { s \in Slots : id[s] = p }

\* Mutant: the search takes a slot whatever its pins.
AnySlot == Slots
\* slotswap: a slot without pins.  With none, the variable is never assigned.
Victims ==
    LET free == { s \in Slots : locks[s] = 0 }
    IN  IF free = {} THEN Slots ELSE free

\* The page is there: pin it.
Hit(h, p) ==
    /\ pc[h] = "idle"
    /\ \E s \in Cached(p) :
         /\ locks' = [locks EXCEPT ![s] = @ + 1]
         /\ lockedslotv' = [lockedslotv EXCEPT ![h] = s]
    /\ want' = [want EXCEPT ![h] = p]
    /\ Goto(h, "wait")
    /\ UNCHANGED <<id, page, futex_swap, handles>>

\* Mutant: whoever finds the page meanwhile is not told of the swap.
TakeQuietly(s, p) ==
    /\ id' = [id EXCEPT ![s] = p]
    /\ locks' = [locks EXCEPT ![s] = 1]
    /\ UNCHANGED futex_swap
\* The slot is given to the new page, pinned, and marked as swapping.
Take(s, p) ==
    /\ id' = [id EXCEPT ![s] = p]
    /\ locks' = [locks EXCEPT ![s] = 1]
    /\ futex_swap' = [futex_swap EXCEPT ![s] = 1]

Fault(h, p) ==
    /\ pc[h] = "idle"
    /\ Cached(p) = {}
    /\ \E s \in Victims :
         /\ Take(s, p)
         /\ lockedslotv' = [lockedslotv EXCEPT ![h] = s]
    /\ want' = [want EXCEPT ![h] = p]
    /\ Goto(h, "unmap")
    /\ UNCHANGED <<page, handles>>

\* edbp_start; the page ids workers pass are not 0.
edbp_start(h, p) == Hit(h, p) \/ Fault(h, p)
-----------------------------------------------------------------------------
(* lockpages, outside the mutex *)

\* A page that is already mapped: FUTEX_WAIT while futex_swap = 1.
FutexWait(h) ==
    /\ pc[h] = "wait"
    /\ Goto(h, IF futex_swap[lockedslotv[h]] = 1 THEN "asleep" ELSE "woken")
    /\ UNCHANGED <<slotvars, handles, lockedslotv, want>>

\* How the other handle's swap ended.
FutexResult(h) ==
    /\ pc[h] = "woken"
    /\ Goto(h, IF futex_swap[lockedslotv[h]] \in {2, 3} THEN "failed" ELSE "open")
    /\ UNCHANGED <<slotvars, handles, lockedslotv, want>>

\* msync and munmap of what the slot held.  The pointer stays.
Unmap(h) ==
    LET s == lockedslotv[h] IN
    /\ pc[h] = "unmap"
    /\ page' = [page EXCEPT ![s] = IF @ = Null THEN @ ELSE "unmapped"]
    /\ Goto(h, "map")
    /\ UNCHANGED <<id, locks, futex_swap, handles, lockedslotv, want>>

Asleep(s) == { g \in Handles : pc[g] = "asleep" /\ lockedslotv[g] = s }

\* FUTEX_WAKE of everyone on slot s, while h goes to l
WakeAll(h, s, l) ==
    pc' = [g \in Handles |-> IF g = h THEN l
                             ELSE IF g \in Asleep(s) THEN "woken" ELSE pc[g]]

Map(h) ==
    LET s == lockedslotv[h] IN
    /\ pc[h] = "map"
    /\ page' = [page EXCEPT ![s] = want[h]]
    /\ Goto(h, "ready")
    /\ UNCHANGED <<id, locks, futex_swap, handles, lockedslotv, want>>

\* Mutant: the error path leaves the slot as it is.
StillSwapping(s, err) == UNCHANGED <<page, futex_swap>>
\* The failure is left in the slot for those who wait.
SwapFailed(s, err) ==
    /\ page' = [page EXCEPT ![s] = Null]
    /\ futex_swap' = [futex_swap EXCEPT ![s] = err]

\* mmap fails: 3 for ENOMEM, 2 for anything else; the slot stays pinned and
\* the handle keeps it.
MapFails(h) ==
    LET s == lockedslotv[h] IN
    /\ pc[h] = "map"
    /\ \E err \in {2, 3} : SwapFailed(s, err)
    /\ WakeAll(h, s, "failed")
    /\ UNCHANGED <<id, locks, handles, lockedslotv, want>>

\* futex_swap = 0, then the wake
Ready(h) ==
    /\ pc[h] = "ready"
    /\ futex_swap' = [futex_swap EXCEPT ![lockedslotv[h]] = 0]
    /\ Goto(h, "wake")
    /\ UNCHANGED <<id, locks, page, handles, lockedslotv, want>>

Wake(h) ==
    /\ pc[h] = "wake"
    /\ WakeAll(h, lockedslotv[h], "open")
    /\ UNCHANGED <<slotvars, handles, lockedslotv, want>>
-----------------------------------------------------------------------------
(* The page is in use. *)

\* Mutant: whoever is done with a page takes every pin along.
Unpinned(n) == 0
\* unlockpage: locks--
Unpin(n) == IF n = 0 THEN 0 ELSE n - 1

\* edbp_finish, from the page in use or after a failed edbp_start: the pin goes
\* under the mutex ...
edbp_finish(h) ==
    /\ pc[h] \in {"open", "failed"}
    /\ locks' = [locks EXCEPT ![lockedslotv[h]] = Unpin(@)]
    /\ Goto(h, "finish")
    /\ UNCHANGED <<id, page, futex_swap, handles, lockedslotv, want>>

\* ... and lockedslotv is reset after it (the telemetry in between reads the
\* id of a slot that is no longer pinned).
FinishReset(h) ==
    /\ pc[h] = "finish"
    /\ lockedslotv' = [lockedslotv EXCEPT ![h] = Null]
    /\ want' = [want EXCEPT ![h] = Null]
    /\ Goto(h, "idle")
    /\ UNCHANGED <<slotvars, handles>>

\* edbp_cache_free, once the workers' handles are gone
edbp_cache_free ==
    /\ \A h \in Handles : pc[h] = "none"
    /\ page' = [s \in Slots |-> Null]
    /\ pc' = [h \in Handles |-> "freed"]
    /\ UNCHANGED <<id, locks, futex_swap, handles, lockedslotv, want>>
-----------------------------------------------------------------------------
\* edbp_cache_init and edbp_cache_config: slots of zeros
Init ==
    /\ id = [s \in Slots |-> Null]
    /\ locks = [s \in Slots |-> 0]
    /\ page = [s \in Slots |-> Null]
    /\ futex_swap = [s \in Slots |-> 0]
    /\ handles = 0
    /\ lockedslotv = [h \in Handles |-> Null]
    /\ want = [h \in Handles |-> Null]
    /\ pc = [h \in Handles |-> "none"]

\* The steps of edbp_start after its search
Starting(h) ==
    \/ FutexWait(h) \/ FutexResult(h)
    \/ Unmap(h) \/ Map(h) \/ MapFails(h) \/ Ready(h) \/ Wake(h)

Next ==
    \/ \E h \in Handles :
         \/ edbp_handle_init(h) \/ HandleNoMem(h) \/ edbp_handle_free(h)
         \/ \E p \in Pids : edbp_start(h, p)
         \/ Starting(h)
         \/ edbp_finish(h) \/ FinishReset(h)
    \/ edbp_cache_free

Spec == Init /\ [][Next]_vars

\* A worker that is inside edbp_start is scheduled; nobody must finish a page.
FairSpec == Spec /\ \A h \in Handles : WF_vars(Starting(h))
-----------------------------------------------------------------------------
\* Where a handle counts in its slot's pins
Pinning(h) == pc[h] \in {"wait", "asleep", "woken", "unmap", "map", "ready", "wake",
                         "open", "failed"}
\* Where it is the one that swaps the slot's page
Swapping(h) == pc[h] \in {"unmap", "map", "ready"}

\* The variables have their types.
TypeOK ==
    /\ id \in [Slots -> Pids \cup {Null}]
    /\ locks \in [Slots -> Nat]
    /\ page \in [Slots -> Pids \cup {Null, "unmapped"}]
    /\ futex_swap \in [Slots -> 0 .. 3]
    /\ handles \in 0 .. Cardinality(Slots)
    /\ lockedslotv \in [Handles -> Slots \cup {Null}]
    /\ want \in [Handles -> Pids \cup {Null}]
    /\ pc \in [Handles -> {"none", "idle", "wait", "asleep", "woken", "unmap", "map",
                            "ready", "wake", "open", "failed", "finish", "freed"}]

\* edbp_start and edbp_finish "ensure operations are performed to their
\* completeness without having the page kicked out of cache": from the moment
\* edbp_start returns, whoever did the swap, and until edbp_finish, the slot of
\* the handle maps the very page it asked for; and edbp_start only fails when
\* nothing is mapped ("they will all return at once with the same result").
PinnedPage ==
    \A h \in Handles :
      /\ pc[h] = "open" => page[lockedslotv[h]] = want[h]
      /\ pc[h] = "failed" => page[lockedslotv[h]] = Null

\* A page has one mapping: two slots never hold the same page, and a slot's swap
\* is in one handle's hands.
OneSlotPerPage ==
    /\ \A s, t \in Slots : s # t /\ id[s] # Null => id[s] # id[t]
    /\ \A g, h \in Handles :
         g # h /\ Swapping(g) /\ Swapping(h) => lockedslotv[g] # lockedslotv[h]

\* "there should never be a circumstance where all slots are locked": a slot's
\* count is the number of handles on it, so a handle that is about to search has
\* a victim.
VictimFound ==
    /\ \A s \in Slots :
         locks[s] = Cardinality({h \in Handles : Pinning(h) /\ lockedslotv[h] = s})
    /\ \A h \in Handles : pc[h] = "idle" => \E s \in Slots : locks[s] = 0

\* edbp_start returns to everyone who called it, also to those who sleep on a swap
\* another handle does, and also when that swap fails.
StartsReturn ==
    \A h \in Handles :
      pc[h] \in {"wait", "unmap"} ~> pc[h] \in {"open", "failed"}
=============================================================================
