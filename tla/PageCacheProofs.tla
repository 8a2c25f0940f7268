--------------------------- MODULE PageCacheProofs ---------------------------
(***************************************************************************)
(* Theorems about PageCache: for any number of handles, slots and pages,   *)
(* and with any mmap failing.                                              *)
(***************************************************************************)
EXTENDS PageCache, FiniteSetTheorems, TLAPS

USE PageCacheAssumption
-----------------------------------------------------------------------------
(* The inductive invariant *)

\* The handles that count in slot s
Pinners(s) == { h \in Handles : Pinning(h) /\ lockedslotv[h] = s }

\* The handles that exist
Live == { h \in Handles : pc[h] \notin {"none", "freed"} }

\* A slot's pins are its handles, and no handle is missing in the cache's count
\* (one whose malloc failed may be counted for ever).
Counts ==
    /\ \A s \in Slots : locks[s] = Cardinality(Pinners(s))
    /\ handles >= Cardinality(Live)

\* A pinned slot still has the page its handles asked for.
Holding ==
    \A h \in Handles : Pinning(h) =>
      /\ lockedslotv[h] \in Slots
      /\ want[h] \in Pids
      /\ id[lockedslotv[h]] = want[h]

\* What a handle knows of its slot's swap at each place of lockpages
Swap(h) ==
    /\ Swapping(h) => futex_swap[lockedslotv[h]] = 1
    /\ pc[h] = "ready" => page[lockedslotv[h]] = want[h]
    /\ pc[h] = "woken" => futex_swap[lockedslotv[h]] # 1
    /\ pc[h] \in {"wake", "open"} => futex_swap[lockedslotv[h]] = 0
    /\ pc[h] = "failed" => futex_swap[lockedslotv[h]] \in {2, 3}

\* What futex_swap says of a slot, pinned or not, while the cache exists
Mapped ==
    (\E h \in Handles : pc[h] # "freed") =>
      \A s \in Slots :
        /\ futex_swap[s] = 0 /\ id[s] # Null => page[s] = id[s]
        /\ futex_swap[s] \in {2, 3} => page[s] = Null

\* The cache is freed for everyone.
Freed ==
    (\E h \in Handles : pc[h] = "freed") => \A h \in Handles : pc[h] = "freed"

IInv ==
    /\ TypeOK
    /\ Counts
    /\ Holding
    /\ OneSlotPerPage
    /\ \A h \in Handles : Swap(h)
    /\ Mapped
    /\ Freed
-----------------------------------------------------------------------------
(* Counting *)

LEMMA Finite ==
    /\ \A s : IsFiniteSet(Pinners(s)) /\ Cardinality(Pinners(s)) \in Nat
    /\ IsFiniteSet(Live) /\ Cardinality(Live) \in Nat
    /\ Cardinality(Slots) \in Nat
    /\ \A s : IsFiniteSet(Pinners(s)') /\ Cardinality(Pinners(s)') \in Nat
    /\ IsFiniteSet(Live') /\ Cardinality(Live') \in Nat
<1>1. \A s : Pinners(s) \in SUBSET Handles /\ Pinners(s)' \in SUBSET Handles
   BY DEF Pinners
<1>2. Live \in SUBSET Handles /\ Live' \in SUBSET Handles  BY DEF Live
<1>3. \A S \in SUBSET Handles : IsFiniteSet(S)  BY FS_Subset
<1>4. \A S \in SUBSET Handles : Cardinality(S) \in Nat  BY <1>3, FS_CardinalityType
<1> QED  BY <1>1, <1>2, <1>3, <1>4, FS_CardinalityType

\* The pigeonhole argument of the comment in slotswap: every handle pins one slot
\* at most, and the one that searches pins none.
LEMMA FreeSlot ==
    ASSUME IInv, NEW h \in Handles, pc[h] = "idle"
    PROVE  \E s \in Slots : locks[s] = 0
<1> SUFFICES ASSUME \A s \in Slots : locks[s] # 0  PROVE FALSE  OBVIOUS
<1> DEFINE P == { g \in Handles : Pinning(g) }
           f == [g \in P |-> lockedslotv[g]]
<1>1. P \in SUBSET (Live \ {h})  BY DEF Pinning, Live
<1>2. IsFiniteSet(Live \ {h}) /\ Cardinality(Live \ {h}) = Cardinality(Live) - 1
  <2>1. h \in Live  BY DEF Live
  <2> QED  BY <2>1, Finite, FS_RemoveElement
<1>3. IsFiniteSet(P) /\ Cardinality(P) <= Cardinality(Live) - 1  BY <1>1, <1>2, FS_Subset
<1>4. f \in Surjection(P, Slots)
  <2>1. f \in [P -> Slots]  BY DEF IInv, Holding
  <2>2. ASSUME NEW s \in Slots  PROVE \E g \in P : f[g] = s
    <3>1. Pinners(s) # {}  BY Finite, FS_EmptySet DEF IInv, Counts
    <3> QED  BY <3>1 DEF Pinners
  <2> QED  BY <2>1, <2>2 DEF Surjection
<1>5. Cardinality(Slots) <= Cardinality(P)  BY <1>3, <1>4, FS_Surjection
<1>6. Cardinality(P) \in Nat  BY <1>3, FS_CardinalityType
<1>7. handles <= Cardinality(Slots) /\ handles \in Int /\ handles >= Cardinality(Live)
   BY Finite DEF IInv, TypeOK, Counts
<1> HIDE DEF P
<1> QED  BY <1>3, <1>5, <1>6, <1>7, Finite

\* So the search of slotswap only ever takes a slot nobody is on.
LEMMA VictimUnpinned ==
    ASSUME IInv, NEW h \in Handles, pc[h] = "idle", NEW s \in Victims
    PROVE  s \in Slots /\ locks[s] = 0 /\ Pinners(s) = {}
<1>1. s \in Slots /\ locks[s] = 0  BY FreeSlot DEF Victims
<1>2. Cardinality(Pinners(s)) = 0  BY <1>1 DEF IInv, Counts
<1> QED  BY <1>1, <1>2, Finite, FS_EmptySet
-----------------------------------------------------------------------------
(* One lemma for each part of the invariant *)

\* Steps of one handle
Step(h) ==
    \/ edbp_handle_init(h) \/ HandleNoMem(h) \/ edbp_handle_free(h)
    \/ \E p \in Pids : edbp_start(h, p)
    \/ Starting(h)
    \/ edbp_finish(h) \/ FinishReset(h)

LEMMA TypeStep ==
    ASSUME IInv, Next  PROVE TypeOK'
<1> USE DEF Goto, TypeOK, slotvars
<1>0. TypeOK  BY DEF IInv
<1>1. CASE edbp_cache_free  BY <1>0, <1>1 DEF edbp_cache_free
<1>2. ASSUME NEW h \in Handles, Step(h)  PROVE TypeOK'
  <2>1. CASE edbp_handle_init(h) \/ HandleNoMem(h)
     BY <1>0, <2>1, Finite DEF edbp_handle_init, HandleNoMem, RoomFor
  <2>2. CASE edbp_handle_free(h)
    <3>1. Live # {}  BY <2>2 DEF edbp_handle_free, Live
    <3>2. handles >= 1  BY <3>1, Finite, FS_EmptySet DEF IInv, Counts
    <3> QED  BY <1>0, <2>2, <3>2, Finite DEF edbp_handle_free
  <2>3. ASSUME NEW p \in Pids, Hit(h, p)  PROVE TypeOK'
     BY <1>0, <2>3 DEF Hit, Cached
  <2>4. ASSUME NEW p \in Pids, Fault(h, p)  PROVE TypeOK'
    <3>1. PICK s \in Victims : /\ Take(s, p)
                               /\ lockedslotv' = [lockedslotv EXCEPT ![h] = s]
       BY <2>4 DEF Fault
    <3>2. s \in Slots  BY DEF Victims
    <3> QED  BY <1>0, <2>4, <3>1, <3>2 DEF Fault, Take
  <2>5. CASE FutexWait(h) \/ FutexResult(h)  BY <1>0, <2>5 DEF FutexWait, FutexResult
  <2>0. Pinning(h) => lockedslotv[h] \in Slots  BY DEF IInv, Holding
  <2>6. CASE Unmap(h)  BY <1>0, <2>6 DEF Unmap
  <2>7. CASE Map(h)  BY <1>0, <2>7 DEF Map
  <2>8. CASE MapFails(h)
    <3>1. PICK err \in {2, 3} : SwapFailed(lockedslotv[h], err)  BY <2>8 DEF MapFails
    <3>2. lockedslotv[h] \in Slots  BY <2>0, <2>8 DEF MapFails, Pinning
    <3>3. page' \in [Slots -> Pids \cup {Null, "unmapped"}] /\ futex_swap' \in [Slots -> 0 .. 3]
       BY <1>0, <3>1, <3>2 DEF SwapFailed
    <3> QED  BY <1>0, <2>8, <3>3 DEF MapFails, WakeAll
  <2>9. CASE Ready(h)  BY <1>0, <2>0, <2>9 DEF Ready, Pinning
  <2>10. CASE Wake(h)  BY <1>0, <2>10 DEF Wake, WakeAll
  <2>11. CASE edbp_finish(h)
    <3>1. lockedslotv[h] \in Slots  BY <2>0, <2>11 DEF edbp_finish, Pinning
    <3>2. Unpin(locks[lockedslotv[h]]) \in Nat  BY <1>0, <3>1 DEF Unpin
    <3> QED  BY <1>0, <2>11, <3>1, <3>2 DEF edbp_finish
  <2>12. CASE FinishReset(h)  BY <1>0, <2>12 DEF FinishReset
  <2> QED  BY <1>2, <2>1, <2>2, <2>3, <2>4, <2>5, <2>6, <2>7, <2>8, <2>9, <2>10, <2>11,
              <2>12 DEF Step, Starting, edbp_start
<1> QED  BY <1>1, <1>2 DEF Next, Step

\* The pins of every slot are counted.
LEMMA PinsStep ==
    ASSUME IInv, Next, NEW s \in Slots
    PROVE  locks'[s] = Cardinality(Pinners(s)')
<1> USE DEF Goto, slotvars
<1>0. TypeOK /\ locks[s] = Cardinality(Pinners(s)) /\ locks[s] \in Nat
   BY DEF IInv, Counts, TypeOK
\* a step that moves nobody in or out
<1>a. ASSUME locks' = locks, Pinners(s)' = Pinners(s)
      PROVE  locks'[s] = Cardinality(Pinners(s)')
   BY <1>0, <1>a
<1>1. CASE edbp_cache_free
  <2>1. Pinners(s)' = Pinners(s)
     BY <1>1 DEF edbp_cache_free, Pinners, Pinning
  <2> QED  BY <1>1, <2>1, <1>a DEF edbp_cache_free
<1>2. ASSUME NEW h \in Handles, Step(h)  PROVE locks'[s] = Cardinality(Pinners(s)')
  <2> USE DEF TypeOK
  <2>1. CASE edbp_handle_init(h) \/ HandleNoMem(h) \/ edbp_handle_free(h)
    <3>1. Pinners(s)' = Pinners(s)
       BY <1>0, <2>1 DEF edbp_handle_init, HandleNoMem, edbp_handle_free, Pinners, Pinning
    <3> QED  BY <2>1, <3>1, <1>a DEF edbp_handle_init, HandleNoMem, edbp_handle_free
  <2>2. ASSUME NEW p \in Pids, Hit(h, p)  PROVE locks'[s] = Cardinality(Pinners(s)')
    <3>1. PICK t \in Slots : /\ locks' = [locks EXCEPT ![t] = @ + 1]
                             /\ lockedslotv' = [lockedslotv EXCEPT ![h] = t]
       BY <2>2 DEF Hit, Cached
    <3>2. h \notin Pinners(s)  BY <2>2 DEF Hit, Pinners, Pinning
    <3>3. CASE t = s
      <4>1. Pinners(s)' = Pinners(s) \cup {h}
         BY <1>0, <2>2, <3>1, <3>3 DEF Hit, Pinners, Pinning
      <4>2. Cardinality(Pinners(s)') = Cardinality(Pinners(s)) + 1
         BY <3>2, <4>1, Finite, FS_AddElement
      <4> QED  BY <1>0, <3>1, <3>3, <4>2
    <3>4. CASE t # s
      <4>1. Pinners(s)' = Pinners(s)
         BY <1>0, <2>2, <3>1, <3>4 DEF Hit, Pinners, Pinning
      <4> QED  BY <1>0, <3>1, <3>4, <4>1
    <3> QED  BY <3>3, <3>4
  <2>3. ASSUME NEW p \in Pids, Fault(h, p)  PROVE locks'[s] = Cardinality(Pinners(s)')
    <3>1. PICK t \in Victims : /\ Take(t, p)
                               /\ lockedslotv' = [lockedslotv EXCEPT ![h] = t]
       BY <2>3 DEF Fault
    <3>2. pc[h] = "idle"  BY <2>3 DEF Fault
    <3>3. t \in Slots /\ Pinners(t) = {}  BY <3>2, VictimUnpinned
    <3>4. CASE t = s
      <4>1. Pinners(s)' = {h}
         BY <1>0, <2>3, <3>1, <3>3, <3>4 DEF Fault, Take, Pinners, Pinning
      <4>2. Cardinality(Pinners(s)') = 1  BY <4>1, FS_Singleton
      <4> QED  BY <1>0, <3>1, <3>4, <4>2 DEF Take
    <3>5. CASE t # s
      <4>1. Pinners(s)' = Pinners(s)
         BY <1>0, <2>3, <3>1, <3>5 DEF Fault, Pinners, Pinning
      <4> QED  BY <1>0, <3>1, <3>3, <3>5, <4>1 DEF Take
    <3> QED  BY <3>4, <3>5
  <2>4. CASE FutexWait(h) \/ FutexResult(h) \/ Unmap(h) \/ Map(h) \/ Ready(h)
    <3>1. Pinners(s)' = Pinners(s)
       BY <1>0, <2>4 DEF FutexWait, FutexResult, Unmap, Map, Ready, Pinners, Pinning
    <3> QED  BY <2>4, <3>1, <1>a DEF FutexWait, FutexResult, Unmap, Map, Ready
  <2>5. CASE MapFails(h) \/ Wake(h)
    <3>1. Pinners(s)' = Pinners(s)
       BY <1>0, <2>5 DEF MapFails, Wake, WakeAll, Asleep, Pinners, Pinning
    <3> QED  BY <2>5, <3>1, <1>a DEF MapFails, Wake
  <2>6. CASE edbp_finish(h)
    <3>1. CASE lockedslotv[h] = s
      <4>1. h \in Pinners(s)  BY <2>6, <3>1 DEF edbp_finish, Pinners, Pinning
      <4>2. Pinners(s)' = Pinners(s) \ {h}
         BY <1>0, <2>6 DEF edbp_finish, Pinners, Pinning
      <4>3. Cardinality(Pinners(s)') = Cardinality(Pinners(s)) - 1
         BY <4>1, <4>2, Finite, FS_RemoveElement
      <4>4. locks[s] # 0  BY <1>0, <4>1, Finite, FS_EmptySet
      <4> QED  BY <1>0, <2>6, <3>1, <4>3, <4>4 DEF edbp_finish, Unpin
    <3>2. CASE lockedslotv[h] # s
      <4>1. Pinners(s)' = Pinners(s)
         BY <1>0, <2>6, <3>2 DEF edbp_finish, Pinners, Pinning
      <4> QED  BY <1>0, <2>6, <3>2, <4>1 DEF edbp_finish
    <3> QED  BY <3>1, <3>2
  <2>7. CASE FinishReset(h)
    <3>1. Pinners(s)' = Pinners(s)
       BY <1>0, <2>7 DEF FinishReset, Pinners, Pinning
    <3> QED  BY <2>7, <3>1, <1>a DEF FinishReset
  <2> QED  BY <1>2, <2>1, <2>2, <2>3, <2>4, <2>5, <2>6, <2>7 DEF Step, Starting, edbp_start
<1> QED  BY <1>1, <1>2 DEF Next, Step

\* No handle is missing in the count.
LEMMA LiveStep ==
    ASSUME IInv, Next  PROVE handles' >= Cardinality(Live')
<1> USE DEF Goto, slotvars, TypeOK
<1>0. TypeOK /\ handles >= Cardinality(Live) /\ handles \in Int  BY Finite DEF IInv, Counts
<1>1. CASE edbp_cache_free
  <2>1. Live' = Live  BY <1>1 DEF edbp_cache_free, Live
  <2> QED  BY <1>0, <1>1, <2>1 DEF edbp_cache_free
<1>2. ASSUME NEW h \in Handles, Step(h)  PROVE handles' >= Cardinality(Live')
  <2>1. CASE edbp_handle_init(h)
    <3>1. Live' = Live \cup {h} /\ h \notin Live
       BY <1>0, <2>1 DEF edbp_handle_init, Live
    <3>2. Cardinality(Live') = Cardinality(Live) + 1  BY <3>1, Finite, FS_AddElement
    <3> QED  BY <1>0, <2>1, <3>2, Finite DEF edbp_handle_init
  <2>2. CASE HandleNoMem(h)
    <3>1. Live' = Live  BY <2>2 DEF HandleNoMem, Live
    <3> QED  BY <1>0, <2>2, <3>1, Finite DEF HandleNoMem
  <2>3. CASE edbp_handle_free(h)
    <3>1. Live' = Live \ {h} /\ h \in Live
       BY <1>0, <2>3 DEF edbp_handle_free, Live
    <3>2. Cardinality(Live') = Cardinality(Live) - 1  BY <3>1, Finite, FS_RemoveElement
    <3> QED  BY <1>0, <2>3, <3>2, Finite DEF edbp_handle_free
  <2>4. CASE \/ \E p \in Pids : edbp_start(h, p)
             \/ Starting(h) \/ edbp_finish(h) \/ FinishReset(h)
    <3>1. handles' = handles
       BY <2>4 DEF edbp_start, Hit, Fault, Starting, FutexWait, FutexResult, Unmap, Map,
                   MapFails, Ready, Wake, edbp_finish, FinishReset
    <3>2. Live' = Live
      <4>1. CASE MapFails(h) \/ Wake(h)
         BY <1>0, <4>1 DEF MapFails, Wake, WakeAll, Asleep, Live
      <4>2. CASE FutexWait(h) \/ FutexResult(h) \/ Unmap(h) \/ Map(h) \/ Ready(h)
         BY <1>0, <4>2 DEF FutexWait, FutexResult, Unmap, Map, Ready, Live
      <4>3. CASE \E p \in Pids : edbp_start(h, p)
         BY <1>0, <4>3 DEF edbp_start, Hit, Fault, Live
      <4>4. CASE edbp_finish(h) \/ FinishReset(h)
         BY <1>0, <4>4 DEF edbp_finish, FinishReset, Live
      <4> QED  BY <2>4, <4>1, <4>2, <4>3, <4>4 DEF Starting
    <3> QED  BY <1>0, <3>1, <3>2
  <2> QED  BY <1>2, <2>1, <2>2, <2>3, <2>4 DEF Step
<1> QED  BY <1>1, <1>2 DEF Next, Step

\* The rest of the invariant: what a handle and its slot know of each other.
Slotwise ==
    /\ Holding
    /\ OneSlotPerPage
    /\ \A h \in Handles : Swap(h)
    /\ Mapped
    /\ Freed

LEMMA HitStep ==
    ASSUME IInv, NEW h \in Handles, NEW p \in Pids, Hit(h, p)
    PROVE  Slotwise'
<1> USE DEF Goto, TypeOK
<1>0. TypeOK /\ Slotwise  BY DEF IInv, Slotwise
<1>1. PICK s \in Slots : id[s] = p /\ lockedslotv' = [lockedslotv EXCEPT ![h] = s]
   BY DEF Hit, Cached
<1>2. Holding'  BY <1>0, <1>1 DEF Slotwise, Holding, Hit, Pinning
<1>3. OneSlotPerPage'  BY <1>0, <1>1 DEF Slotwise, OneSlotPerPage, Hit, Swapping
<1>4. ASSUME NEW g \in Handles  PROVE Swap(g)'
   BY <1>0, <1>1 DEF Slotwise, Swap, Hit, Swapping
<1>5. Mapped' /\ Freed'  BY <1>0 DEF Slotwise, Mapped, Freed, Hit
<1> QED  BY <1>2, <1>3, <1>4, <1>5 DEF Slotwise

LEMMA FaultStep ==
    ASSUME IInv, NEW h \in Handles, NEW p \in Pids, Fault(h, p)
    PROVE  Slotwise'
<1> USE DEF Goto, TypeOK
<1>0. TypeOK /\ Slotwise  BY DEF IInv, Slotwise
<1>1. PICK s \in Victims : Take(s, p) /\ lockedslotv' = [lockedslotv EXCEPT ![h] = s]
   BY DEF Fault
<1>2. s \in Slots /\ \A g \in Handles : Pinning(g) => lockedslotv[g] # s
   BY VictimUnpinned DEF Fault, Pinners
<1>3. \A t \in Slots : id[t] # p  BY DEF Fault, Cached
<1>4. /\ pc[h] = "idle"
      /\ pc' = [pc EXCEPT ![h] = "unmap"]
      /\ want' = [want EXCEPT ![h] = p]
      /\ page' = page
   BY DEF Fault
<1>5. Holding'  BY <1>0, <1>1, <1>2, <1>4 DEF Slotwise, Holding, Take, Pinning
<1>6. OneSlotPerPage'
  <2>1. ASSUME NEW g \in Handles, g # h, Swapping(g)'  PROVE lockedslotv'[g] # s
     BY <1>0, <1>1, <1>2, <1>4, <2>1 DEF Swapping, Pinning
  <2> QED
     BY <1>0, <1>1, <1>2, <1>3, <1>4, <2>1 DEF Slotwise, OneSlotPerPage, Take, Swapping
<1>7. ASSUME NEW g \in Handles  PROVE Swap(g)'
  <2>1. CASE g = h  BY <1>0, <1>1, <1>2, <1>4, <2>1 DEF Swap, Take, Swapping
  <2>2. CASE g # h
    <3>1. Pinning(g) => lockedslotv[g] # s /\ lockedslotv[g] \in Slots
       BY <1>0, <1>2 DEF Slotwise, Holding
    <3> QED  BY <1>0, <1>1, <1>4, <2>2, <3>1 DEF Slotwise, Swap, Take, Swapping, Pinning
  <2> QED  BY <2>1, <2>2
<1>8. Mapped' /\ Freed'
   BY <1>0, <1>1, <1>2, <1>4 DEF Slotwise, Mapped, Freed, Take
<1> QED  BY <1>5, <1>6, <1>7, <1>8 DEF Slotwise

\* Steps of the handle that swaps or has swapped slot s
LEMMA SwapperStep ==
    ASSUME IInv, NEW h \in Handles,
           Unmap(h) \/ Map(h) \/ MapFails(h) \/ Ready(h) \/ Wake(h)
    PROVE  Slotwise'
<1> DEFINE s == lockedslotv[h]
<1> USE DEF Goto, TypeOK, slotvars
<1>0. TypeOK /\ Slotwise  BY DEF IInv, Slotwise
<1>1. Pinning(h)  BY DEF Pinning, Unmap, Map, MapFails, Ready, Wake
<1>2. s \in Slots /\ want[h] \in Pids /\ id[s] = want[h]
   BY <1>0, <1>1 DEF Slotwise, Holding
<1>3. /\ ~Wake(h) => futex_swap[s] = 1
      /\ Wake(h) => futex_swap[s] = 0
      /\ Ready(h) => page[s] = want[h]
   BY <1>0 DEF Slotwise, Swap, Swapping, Unmap, Map, MapFails, Ready, Wake
<1>4. /\ id' = id /\ locks' = locks /\ lockedslotv' = lockedslotv /\ want' = want
      /\ \A t \in Slots : t # s => page'[t] = page[t] /\ futex_swap'[t] = futex_swap[t]
   BY <1>0 DEF Unmap, Map, MapFails, SwapFailed, Ready, Wake
\* the others either stay where they are or are woken, on this slot
<1>5. ASSUME NEW g \in Handles, g # h
      PROVE  \/ pc'[g] = pc[g]
             \/ /\ pc[g] = "asleep" /\ pc'[g] = "woken" /\ lockedslotv[g] = s
                /\ MapFails(h) \/ Wake(h)
   BY <1>0, <1>5 DEF Unmap, Map, MapFails, Ready, Wake, WakeAll, Asleep
<1>6. /\ Unmap(h) => pc[h] = "unmap" /\ pc'[h] = "map" /\ futex_swap' = futex_swap
      /\ Map(h) => /\ pc[h] = "map" /\ pc'[h] = "ready" /\ futex_swap' = futex_swap
                   /\ page'[s] = want[h]
      /\ MapFails(h) => /\ pc[h] = "map" /\ pc'[h] = "failed" /\ futex_swap'[s] \in {2, 3}
                        /\ page'[s] = Null
      /\ Ready(h) => pc[h] = "ready" /\ pc'[h] = "wake" /\ futex_swap'[s] = 0 /\ page' = page
      /\ Wake(h) => /\ pc[h] = "wake" /\ pc'[h] = "open" /\ futex_swap' = futex_swap
                    /\ page' = page
   BY <1>0, <1>2 DEF Unmap, Map, MapFails, SwapFailed, Ready, Wake, WakeAll
<1>7. \A g \in Handles : Pinning(g)' <=> Pinning(g)  BY <1>1, <1>5, <1>6 DEF Pinning
<1>8. Holding'  BY <1>0, <1>4, <1>7 DEF Slotwise, Holding
<1>9. \A g \in Handles : Swapping(g)' => Swapping(g)  BY <1>5, <1>6 DEF Swapping
<1>10. OneSlotPerPage'  BY <1>0, <1>4, <1>9 DEF Slotwise, OneSlotPerPage
<1>11. ASSUME NEW g \in Handles  PROVE Swap(g)'
  <2>1. CASE g = h  BY <1>2, <1>3, <1>4, <1>6, <2>1 DEF Swap, Swapping
  <2>2. CASE g # h /\ lockedslotv[g] # s
    <3>1. pc'[g] = pc[g]  BY <1>5, <2>2
    <3>2. Pinning(g) => lockedslotv[g] \in Slots  BY <1>0 DEF Slotwise, Holding
    <3>3. Swap(g)  BY <1>0 DEF Slotwise
    <3> QED  BY <1>4, <2>2, <3>1, <3>2, <3>3 DEF Swap, Swapping, Pinning
  <2>3. CASE g # h /\ lockedslotv[g] = s
    <3>1. Swap(g)  BY <1>0 DEF Slotwise
    <3>2. ~Wake(h) => ~Swapping(g)
      <4>1. ~Wake(h) => Swapping(h)  BY <1>6 DEF Swapping
      <4> QED  BY <1>0, <2>3, <4>1 DEF Slotwise, OneSlotPerPage
    <3>3. CASE Wake(h)  BY <1>3, <1>4, <1>5, <1>6, <2>3, <3>1, <3>3 DEF Swap, Swapping
    <3>4. CASE ~Wake(h)
      <4>1. pc[g] \notin {"unmap", "map", "ready", "woken", "wake", "open", "failed"}
         BY <1>3, <2>3, <3>1, <3>2, <3>4 DEF Swap, Swapping
      <4>2. pc'[g] = "woken" => futex_swap'[s] # 1
         BY <1>5, <1>6, <2>3, <3>4, <4>1
      <4>3. pc'[g] \notin {"unmap", "map", "ready", "wake", "open", "failed"}
         BY <1>5, <2>3, <4>1
      <4> QED  BY <1>4, <2>3, <4>2, <4>3 DEF Swap, Swapping
    <3> QED  BY <3>3, <3>4
  <2> QED  BY <2>1, <2>2, <2>3
<1>12. Mapped'
  <2>1. \E g \in Handles : pc[g] # "freed"  BY <1>1 DEF Pinning
  <2>2. ASSUME NEW t \in Slots
        PROVE  /\ futex_swap'[t] = 0 /\ id'[t] # Null => page'[t] = id'[t]
               /\ futex_swap'[t] \in {2, 3} => page'[t] = Null
    <3>1. CASE t # s  BY <1>0, <1>4, <2>1, <3>1 DEF Slotwise, Mapped
    <3>2. CASE t = s  BY <1>0, <1>2, <1>3, <1>4, <1>6, <2>1, <3>2 DEF Slotwise, Mapped
    <3> QED  BY <3>1, <3>2
  <2> QED  BY <2>2 DEF Mapped
<1>13. Freed'
  <2>1. \A g \in Handles : pc[g] # "freed"  BY <1>0, <1>1 DEF Slotwise, Freed, Pinning
  <2>2. \A g \in Handles : pc'[g] # "freed"  BY <1>5, <1>6, <2>1
  <2> QED  BY <2>2 DEF Freed
<1> QED  BY <1>8, <1>10, <1>11, <1>12, <1>13 DEF Slotwise

LEMMA SlotwiseStep ==
    ASSUME IInv, Next  PROVE Slotwise'
<1> USE DEF Goto, TypeOK, slotvars
<1>0. TypeOK /\ Slotwise  BY DEF IInv, Slotwise
<1>1. CASE edbp_cache_free
  <2>1. \A h \in Handles : ~Pinning(h)' /\ ~Swapping(h)' /\ pc'[h] = "freed"
     BY <1>1 DEF edbp_cache_free, Pinning, Swapping
  <2>2. Holding' /\ Mapped' /\ Freed'  BY <2>1 DEF Holding, Mapped, Freed
  <2>3. \A h \in Handles : Swap(h)'  BY <2>1 DEF Swap
  <2>4. OneSlotPerPage'
     BY <1>0, <1>1, <2>1 DEF edbp_cache_free, Slotwise, OneSlotPerPage
  <2> QED  BY <2>2, <2>3, <2>4 DEF Slotwise
<1>2. ASSUME NEW h \in Handles, Step(h)  PROVE Slotwise'
  <2>1. ASSUME NEW p \in Pids, edbp_start(h, p)  PROVE Slotwise'
     BY <2>1, HitStep, FaultStep DEF edbp_start
  <2>2. CASE Unmap(h) \/ Map(h) \/ MapFails(h) \/ Ready(h) \/ Wake(h)
     BY <2>2, SwapperStep
  <2>3. CASE \/ edbp_handle_init(h) \/ HandleNoMem(h) \/ edbp_handle_free(h)
             \/ FutexWait(h) \/ FutexResult(h) \/ edbp_finish(h) \/ FinishReset(h)
    <3>1. /\ id' = id /\ page' = page /\ futex_swap' = futex_swap
          /\ \A g \in Handles : g # h => /\ pc'[g] = pc[g]
                                         /\ lockedslotv'[g] = lockedslotv[g]
                                         /\ want'[g] = want[g]
       BY <1>0, <2>3 DEF edbp_handle_init, HandleNoMem, edbp_handle_free, FutexWait,
                         FutexResult, edbp_finish, FinishReset
    <3>2. \/ pc'[h] \in {"none", "idle", "finish"}
          \/ /\ lockedslotv' = lockedslotv /\ want' = want
             /\ \/ pc'[h] = "asleep" /\ pc[h] = "wait"
                \/ pc[h] = "wait" /\ pc'[h] = "woken" /\ futex_swap[lockedslotv[h]] # 1
                \/ /\ pc[h] = "woken" /\ pc'[h] = "failed"
                   /\ futex_swap[lockedslotv[h]] \in {2, 3}
                \/ /\ pc[h] = "woken" /\ pc'[h] = "open"
                   /\ futex_swap[lockedslotv[h]] \notin {2, 3}
      <4>1. CASE FutexWait(h) \/ FutexResult(h)
         BY <1>0, <4>1 DEF FutexWait, FutexResult
      <4>2. CASE edbp_handle_init(h) \/ HandleNoMem(h) \/ edbp_handle_free(h)
                 \/ edbp_finish(h) \/ FinishReset(h)
         BY <1>0, <4>2 DEF edbp_handle_init, HandleNoMem, edbp_handle_free,
                           edbp_finish, FinishReset
      <4> QED  BY <2>3, <4>1, <4>2
    <3>3. pc[h] # "freed"
       BY <2>3 DEF edbp_handle_init, HandleNoMem, edbp_handle_free, FutexWait,
                   FutexResult, edbp_finish, FinishReset
    <3>4. Holding'  BY <1>0, <3>1, <3>2 DEF Slotwise, Holding, Pinning
    <3>5. OneSlotPerPage'
      <4>1. \A g \in Handles : Swapping(g)' => /\ Swapping(g)
                                               /\ lockedslotv'[g] = lockedslotv[g]
         BY <3>1, <3>2 DEF Swapping
      <4> QED  BY <1>0, <3>1, <4>1 DEF Slotwise, OneSlotPerPage
    <3>6. ASSUME NEW g \in Handles  PROVE Swap(g)'
      <4>1. CASE g # h  BY <1>0, <3>1, <4>1 DEF Slotwise, Swap, Swapping
      <4>2. CASE g = h
        <5>1. pc[h] = "woken" => futex_swap[lockedslotv[h]] \in {0, 2, 3}
          <6>1. pc[h] = "woken" => lockedslotv[h] \in Slots
             BY <1>0 DEF Slotwise, Holding, Pinning
          <6>2. pc[h] = "woken" => futex_swap[lockedslotv[h]] \in 0 .. 3 \ {1}
             BY <1>0, <6>1 DEF Slotwise, Swap
          <6> QED  BY <6>2
        <5> QED  BY <3>1, <3>2, <4>2, <5>1 DEF Swap, Swapping
      <4> QED  BY <4>1, <4>2
    <3>7. Freed'
      <4>1. \A g \in Handles : pc[g] # "freed"  BY <1>0, <3>3 DEF Slotwise, Freed
      <4>2. \A g \in Handles : pc'[g] # "freed"  BY <3>1, <3>2, <4>1
      <4> QED  BY <4>2 DEF Freed
    <3>8. Mapped'  BY <1>0, <3>1, <3>3 DEF Slotwise, Mapped
    <3> QED  BY <3>4, <3>5, <3>6, <3>7, <3>8 DEF Slotwise
  <2> QED  BY <1>2, <2>1, <2>2, <2>3 DEF Step, Starting
<1> QED  BY <1>1, <1>2 DEF Next, Step
-----------------------------------------------------------------------------
(* The theorems *)

LEMMA InitIInv == Init => IInv
<1> SUFFICES ASSUME Init  PROVE IInv  OBVIOUS
<1> USE DEF Init
<1>1. \A h \in Handles : pc[h] = "none" /\ ~Pinning(h) /\ ~Swapping(h)
   BY DEF Pinning, Swapping
<1>2. TypeOK  BY Finite DEF TypeOK
<1>3. Counts
  <2>1. Live = {}  BY DEF Live
  <2>2. \A s \in Slots : Pinners(s) = {}  BY <1>1 DEF Pinners
  <2> QED  BY <2>1, <2>2, FS_EmptySet DEF Counts
<1>4. Holding /\ OneSlotPerPage  BY <1>1 DEF Holding, OneSlotPerPage
<1>5. \A h \in Handles : Swap(h)  BY <1>1 DEF Swap
<1>6. Mapped /\ Freed  BY DEF Mapped, Freed
<1> QED  BY <1>2, <1>3, <1>4, <1>5, <1>6 DEF IInv

LEMMA StepIInv == IInv /\ [Next]_vars => IInv'
<1> SUFFICES ASSUME IInv, [Next]_vars  PROVE IInv'  OBVIOUS
<1>1. CASE Next
  <2>1. Counts'  BY <1>1, PinsStep, LiveStep DEF Counts
  <2> QED  BY <1>1, <2>1, TypeStep, SlotwiseStep DEF IInv, Slotwise
<1>2. CASE UNCHANGED vars
  <2>1. Counts'  BY <1>2 DEF IInv, Counts, Pinners, Live, Pinning, vars, slotvars
  <2>2. TypeOK'  BY <1>2 DEF IInv, TypeOK, vars, slotvars
  <2>3. Holding' /\ Mapped' /\ Freed' /\ OneSlotPerPage'
     BY <1>2 DEF IInv, Holding, Mapped, Freed, OneSlotPerPage, Pinning, Swapping, vars,
                 slotvars
  <2>4. \A h \in Handles : Swap(h)'
     BY <1>2 DEF IInv, Swap, Swapping, vars, slotvars
  <2> QED  BY <2>1, <2>2, <2>3, <2>4 DEF IInv
<1> QED  BY <1>1, <1>2

LEMMA Inductive == Spec => []IInv
<1> QED  BY InitIInv, StepIInv, PTL DEF Spec

\* The variables of the cache keep their types; in particular the cache never
\* believes in more handles than it has slots, nor in fewer than none.
THEOREM CacheTyped == Spec => []TypeOK
<1>1. IInv => TypeOK  BY DEF IInv
<1> QED  BY <1>1, Inductive, PTL

\* A worker that has returned from edbp_start sees the page it asked for until
\* its edbp_finish, and a failed edbp_start leaves nothing mapped: whatever the
\* other handles fault in, swap out or fail to map meanwhile.
THEOREM PinsKeepPages == Spec => []PinnedPage
<1>1. IInv => PinnedPage
  <2> SUFFICES ASSUME IInv, NEW h \in Handles
               PROVE  /\ pc[h] = "open" => page[lockedslotv[h]] = want[h]
                      /\ pc[h] = "failed" => page[lockedslotv[h]] = Null
     BY DEF PinnedPage
  <2>1. pc[h] \in {"open", "failed"} =>
          /\ lockedslotv[h] \in Slots /\ want[h] \in Pids
          /\ id[lockedslotv[h]] = want[h]
     BY DEF IInv, Holding, Pinning
  <2>2. Swap(h)  BY DEF IInv
  <2> QED  BY <2>1, <2>2 DEF IInv, Mapped, Swap
<1> QED  BY <1>1, Inductive, PTL

\* No page is mapped by two slots and no slot is swapped by two handles.
THEOREM PagesMappedOnce == Spec => []OneSlotPerPage
<1>1. IInv => OneSlotPerPage  BY DEF IInv
<1> QED  BY <1>1, Inductive, PTL

\* The pins are counted exactly, and the search of slotswap never comes up empty:
\* the claim of the comment above its critical log, for any number of handles.
THEOREM SearchFindsSlot == Spec => []VictimFound
<1>1. IInv => VictimFound  BY FreeSlot DEF IInv, Counts, Pinners, VictimFound
<1> QED  BY <1>1, Inductive, PTL
=============================================================================
