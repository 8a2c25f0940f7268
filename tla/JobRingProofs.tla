---------------------------- MODULE JobRingProofs ----------------------------
(***************************************************************************)
(* Theorems about JobRing, for rings of any size, any number of handles    *)
(* and workers: the head of the shared memory agrees with the slots, the   *)
(* scans of the ring find what they look for, and a job that waits is      *)
(* overtaken by fewer jobs than the ring has slots.                        *)
(***************************************************************************)
EXTENDS JobRing, FiniteSetTheorems, TLAPS

USE JobRingAssumption
-----------------------------------------------------------------------------
(* Going round the ring *)

\* How far slot i is ahead of slot a.
Dist(a, i) == IF a <= i THEN i - a ELSE i + jobc - a

LEMMA Around ==
    ASSUME NEW a \in Slots, NEW d \in Slots
    PROVE  /\ (a + d) % jobc = IF a + d < jobc THEN a + d ELSE a + d - jobc
           /\ (a + d) % jobc \in Slots
<1>0. \A x \in Slots : x % jobc = x /\ (x + jobc) % jobc = x  BY DEF Slots
<1>1. CASE a + d < jobc
  <2>1. a + d \in Slots  BY <1>1 DEF Slots
  <2> QED  BY <1>0, <1>1, <2>1
<1>2. CASE ~(a + d < jobc)
  <2>1. a + d - jobc \in Slots /\ (a + d - jobc) + jobc = a + d  BY <1>2 DEF Slots
  <2>2. ((a + d - jobc) + jobc) % jobc = a + d - jobc  BY <1>0, <2>1
  <2> QED  BY <1>2, <2>1, <2>2
<1> QED  BY <1>1, <1>2

LEMMA DistOf ==
    ASSUME NEW a \in Slots, NEW i \in Slots
    PROVE  /\ Dist(a, i) \in Slots /\ Dist(a, i) \in Nat
           /\ (a + Dist(a, i)) % jobc = i
           /\ \A d \in Slots : (a + d) % jobc = i => d = Dist(a, i)
<1>1. Dist(a, i) \in Slots /\ Dist(a, i) \in Nat  BY DEF Dist, Slots
<1>2. \A d \in Slots : (a + d) % jobc = IF a + d < jobc THEN a + d ELSE a + d - jobc
   BY Around
<1>3. (a + Dist(a, i)) % jobc = i  BY <1>1, <1>2 DEF Dist, Slots
<1>4. \A d \in Slots : (a + d) % jobc = i => d = Dist(a, i)  BY <1>2 DEF Dist, Slots
<1> QED  BY <1>1, <1>3, <1>4

LEMMA NextSlotOf ==
    ASSUME NEW i \in Slots
    PROVE  NextSlot(i) = (IF i + 1 < jobc THEN i + 1 ELSE 0) /\ NextSlot(i) \in Slots
<1>1. CASE i + 1 < jobc
  <2>1. i + 1 \in Slots  BY <1>1 DEF Slots
  <2>2. \A x \in Slots : x % jobc = x  BY DEF Slots
  <2> QED  BY <1>1, <2>1, <2>2 DEF NextSlot
<1>2. CASE ~(i + 1 < jobc)
  <2>1. i + 1 = 0 + jobc /\ 0 \in Slots  BY <1>2 DEF Slots
  <2>2. \A x \in Slots : (x + jobc) % jobc = x  BY DEF Slots
  <2>3. (0 + jobc) % jobc = 0  BY <2>1, <2>2
  <2> QED  BY <1>2, <2>1, <2>3 DEF NextSlot
<1> QED  BY <1>1, <1>2

\* Past a slot that comes first, every other slot is nearer than it was.
LEMMA Nearer ==
    ASSUME NEW a \in Slots, NEW f \in Slots, NEW i \in Slots, f # i,
           Dist(a, f) <= Dist(a, i)
    PROVE  Dist(NextSlot(f), i) < Dist(a, i) /\ Dist(NextSlot(f), i) \in Nat
<1>1. NextSlot(f) = (IF f + 1 < jobc THEN f + 1 ELSE 0)  BY NextSlotOf
<1> QED  BY <1>1 DEF Dist, Slots

LEMMA LeastElement ==
    ASSUME NEW T \in SUBSET Nat, T # {}
    PROVE  \E x \in T : \A y \in T : x <= y
<1> DEFINE R == StrictSubsetOrdering(Nat)
           F == {0 .. x : x \in T}
<1>1. IsWellFoundedOn(R, FiniteSubsetsOf(Nat))  BY FS_StrictSubsetOrderingWellFounded
<1>2. F \subseteq FiniteSubsetsOf(Nat) /\ F # {}
  <2>1. ASSUME NEW x \in T PROVE 0 .. x \in FiniteSubsetsOf(Nat)
    <3>1. IsFiniteSet(0 .. x)  BY FS_Interval
    <3> QED  BY <3>1 DEF FiniteSubsetsOf
  <2> QED  BY <2>1
<1> HIDE DEF F
<1>3. PICK U \in F : \A V \in F : <<V, U>> \notin R  BY <1>1, <1>2, WFMin
<1>4. PICK x \in T : U = 0 .. x  BY DEF F
<1>5. ASSUME NEW y \in T, y < x  PROVE FALSE
  <2>1. 0 .. y \in F  BY DEF F
  <2>2. 0 .. y \in SUBSET Nat /\ 0 .. x \in SUBSET Nat /\ 0 .. y \subseteq 0 .. x
     BY <1>5
  <2>3. x \in 0 .. x /\ x \notin 0 .. y  BY <1>5
  <2>4. <<0 .. y, 0 .. x>> \in R  BY <2>2, <2>3 DEF StrictSubsetOrdering
  <2> QED  BY <1>3, <1>4, <2>1, <2>4
<1> QED  BY <1>5

\* The scan of edbs_jobselect and edbs_jobinstall: it ends at a slot of the set,
\* the nearest one.
LEMMA FirstFromFinds ==
    ASSUME NEW a \in Slots, NEW S \in SUBSET Slots, S # {}
    PROVE  /\ FirstFrom(a, S) \in S
           /\ \A j \in S : Dist(a, FirstFrom(a, S)) <= Dist(a, j)
<1> DEFINE Ok(d) == /\ (a + d) % jobc \in S
                    /\ \A e \in 0 .. d - 1 : (a + e) % jobc \notin S
           T == {d \in Slots : (a + d) % jobc \in S}
<1>1. T # {}
  <2>1. PICK s \in S : TRUE  OBVIOUS
  <2>2. Dist(a, s) \in T  BY <2>1, DistOf
  <2> QED  BY <2>2
<1>2. T \in SUBSET Nat  BY DEF Slots
<1>3. PICK m \in T : \A y \in T : m <= y  BY <1>1, <1>2, LeastElement
<1>4. m \in Slots /\ Ok(m)
  <2>1. ASSUME NEW e \in 0 .. m - 1 PROVE (a + e) % jobc \notin S
    <3>1. e \in Slots /\ ~(m <= e)  BY <1>3 DEF Slots
    <3> QED  BY <1>3, <3>1
  <2> QED  BY <1>3, <2>1
<1> DEFINE d == CHOOSE d \in Slots : Ok(d)
<1>5. d \in Slots /\ Ok(d)
  <2> HIDE DEF Ok
  <2> QED  BY <1>4
<1>6. FirstFrom(a, S) = (a + d) % jobc  BY DEF FirstFrom
<1> HIDE DEF d
<1>7. FirstFrom(a, S) \in S  BY <1>5, <1>6
<1>8. Dist(a, FirstFrom(a, S)) = d  BY <1>5, <1>6, <1>7, DistOf
<1>9. ASSUME NEW j \in S  PROVE d <= Dist(a, j)
  <2>1. Dist(a, j) \in Slots /\ (a + Dist(a, j)) % jobc = j  BY DistOf
  <2>2. Dist(a, j) \notin 0 .. d - 1  BY <1>5, <2>1
  <2> QED  BY <1>5, <2>1, <2>2 DEF Slots
<1> QED  BY <1>7, <1>8, <1>9
-----------------------------------------------------------------------------
(* The inductive invariant *)

\* The counts count, and the host is told whether any slot is in use.
Counts ==
    /\ emptyjobs = Cardinality(Empty) /\ newjobs = Cardinality(Unowned)
    /\ futex_hasjobs = (emptyjobs # jobc)

\* Only jobs are owned, and a worker at work owns the slot it works on.
Owners ==
    /\ \A i \in Slots : owner[i] # None => jobtype[i]
    /\ \A w \in Workers : pc[w] = "working" => owner[jobpos[w]] = w

\* While edbs_host_init has not returned, the workers have not started; nor have
\* the handles, unless they may come early.
Starting ==
    hostpc = "init" =>
      /\ \A w \in Workers : pc[w] = "idle"
      /\ ~EarlyHandles => newjobs = 0 /\ \A h \in Handles : pc[h] = "idle"

\* What the holds tell as long as the host runs.  A handle that came early leaves
\* futex_selectorhold set beside its job, never clear beside an empty ring.
Holds ==
    /\ futex_status = "RUNNING" <=> hostpc \in {"init", "up"}
    /\ futex_status = "RUNNING" => futex_installerhold = (emptyjobs = 0)
    /\ hostpc = "up" => /\ ~futex_selectorhold => newjobs # 0
                        /\ ~EarlyHandles => futex_selectorhold = (newjobs = 0)

\* Each time a job is overtaken, edbs_jobselect comes nearer to its slot.
Turns == \A i \in Unowned : overtaken[i] + Dist(jobacpt_next, i) < jobc

IInv == RingTypeOK /\ Counts /\ Owners /\ Starting /\ Holds /\ Turns
-----------------------------------------------------------------------------
(* What the steps do to threads and slots *)

Places == {"idle", "wait", "asleep", "enter", "refused", "working", "exited"}

\* Thread t goes to l, and some sleepers may wake.
Moves(t, l) ==
    /\ pc' \in [Threads -> Places] /\ pc'[t] = l
    /\ \A u \in Threads \ {t} : pc'[u] = pc[u] \/ (pc[u] = "asleep" /\ pc'[u] = "enter")

LEMMA GotoMoves ==
    ASSUME RingTypeOK, NEW t \in Threads, NEW l \in Places,
           NEW kind, NEW n, Goto(t, l) \/ WakeGoto(t, l, kind, n)
    PROVE  Moves(t, l)
<1>0. pc \in [Threads -> Places]  BY DEF RingTypeOK, Places
<1>1. CASE Goto(t, l)  BY <1>0, <1>1 DEF Goto, Moves
<1>2. CASE WakeGoto(t, l, kind, n)
  <2>1. PICK woken \in SUBSET { u \in kind : pc[u] = "asleep" } :
          pc' = [u \in Threads |-> IF u = t THEN l
                                   ELSE IF u \in woken THEN "enter" ELSE pc[u]]
     BY <1>2 DEF WakeGoto
  <2> QED  BY <1>0, <2>1 DEF Moves, Places
<1> QED  BY <1>1, <1>2

LEMMA SlotSets ==
    /\ Empty \in SUBSET Slots /\ Unowned \in SUBSET Slots
    /\ IsFiniteSet(Slots) /\ Cardinality(Slots) = jobc
    /\ IsFiniteSet(Empty) /\ IsFiniteSet(Unowned)
    /\ Cardinality(Empty) \in 0 .. jobc /\ Cardinality(Unowned) \in 0 .. jobc
    /\ Cardinality(Empty) = 0 <=> Empty = {}
    /\ Cardinality(Unowned) = 0 <=> Unowned = {}
<1>1. Empty \in SUBSET Slots /\ Unowned \in SUBSET Slots  BY DEF Empty, Unowned
<1>2. IsFiniteSet(Slots) /\ Cardinality(Slots) = jobc  BY FS_Interval DEF Slots
<1>3. IsFiniteSet(Empty) /\ IsFiniteSet(Unowned)
      /\ Cardinality(Empty) <= jobc /\ Cardinality(Unowned) <= jobc
   BY <1>1, <1>2, FS_Subset
<1>4. Cardinality(Empty) \in Nat /\ Cardinality(Unowned) \in Nat
   BY <1>3, FS_CardinalityType
<1> QED  BY <1>1, <1>2, <1>3, <1>4, FS_EmptySet

\* The scans find a slot whenever the code comes to them.
LEMMA ScansFind ==
    ASSUME IInv
    PROVE  /\ \A h \in Handles : PastInstallHold(h) => Empty # {}
           /\ \A w \in Workers : PastSelectHold(w) => Unowned # {}
<1> USE SlotSets
<1>1. \A h \in Handles : PastInstallHold(h) => Empty # {}
   BY DEF IInv, Counts, Holds, PastInstallHold
<1>2. \A w \in Workers : PastSelectHold(w) => Unowned # {}
  <2>1. SUFFICES ASSUME NEW w \in Workers, PastSelectHold(w)  PROVE newjobs # 0
     BY DEF IInv, Counts
  <2>2. pc[w] = "enter" /\ ~NoMoreJobs /\ ~futex_selectorhold  BY <2>1 DEF PastSelectHold
  <2>3. hostpc # "init"  BY <2>2 DEF IInv, Starting
  <2>4. CASE futex_status = "RUNNING"  BY <2>2, <2>3, <2>4 DEF IInv, Holds
  <2>5. CASE futex_status # "RUNNING"  BY <2>2, <2>5 DEF NoMoreJobs
  <2> QED  BY <2>4, <2>5
<1> QED  BY <1>1, <1>2

\* Only a thread moves, and not to work.
LEMMA MoveStep ==
    ASSUME IInv, UNCHANGED memory, NEW t \in Threads, NEW l \in Places, Moves(t, l),
           l # "working", hostpc = "init" => EarlyHandles /\ t \in Handles
    PROVE  IInv'
<1> USE DEF memory, head
<1>1. Empty' = Empty /\ Unowned' = Unowned  BY DEF Empty, Unowned
<1>2. RingTypeOK'  BY DEF IInv, RingTypeOK, Moves, Places
<1>3. Counts'  BY <1>1 DEF IInv, Counts
<1>4. \A w \in Workers : pc'[w] = "working" => pc[w] = "working"
   BY DEF Moves, Threads
<1>5. Owners'  BY <1>4 DEF IInv, Owners
<1>6. Starting'
  <2>1. SUFFICES ASSUME hostpc = "init"
                 PROVE  EarlyHandles /\ \A w \in Workers : pc'[w] = "idle"
     BY DEF Starting
  <2>2. \A w \in Workers : pc[w] = "idle" /\ w # t /\ w \in Threads
     BY <2>1 DEF IInv, Starting, Threads
  <2> QED  BY <2>1, <2>2 DEF Moves
<1>7. Holds'  BY DEF IInv, Holds
<1>8. Turns'  BY <1>1 DEF IInv, Turns
<1> QED  BY <1>2, <1>3, <1>5, <1>6, <1>7, <1>8 DEF IInv

LEMMA InstallInv ==
    ASSUME IInv, NEW h \in Handles, Install(h)
    PROVE  IInv'
<1> USE SlotSets
<1> DEFINE i == FirstFrom(jobinst_next, Empty)
<1>0. RingTypeOK /\ PastInstallHold(h) /\ h \in Threads
   BY DEF IInv, Install, Threads
<1>1. i \in Empty /\ i \in Slots
  <2>1. Empty # {}  BY <1>0, ScansFind
  <2> QED  BY <1>0, <2>1, FirstFromFinds DEF RingTypeOK
<1>2. /\ jobtype' = [jobtype EXCEPT ![i] = TRUE] /\ owner' = owner
      /\ jobinst_next' = NextSlot(i)
      /\ overtaken' = [overtaken EXCEPT ![i] = 0]
      /\ emptyjobs' = emptyjobs - 1 /\ newjobs' = newjobs + 1 /\ futex_hasjobs' = TRUE
      /\ futex_installerhold' = (emptyjobs' = 0) /\ futex_selectorhold' = FALSE
      /\ installs' = [installs EXCEPT ![h] = @ + 1]
      /\ UNCHANGED <<futex_status, jobacpt_next, owner, jobpos, hostpc>>
   BY DEF Install, Exhausted
<1> HIDE DEF i
<1>3. Moves(h, "idle")  BY <1>0, GotoMoves DEF Install, Places
<1>4. Empty' = Empty \ {i} /\ Unowned' = Unowned \cup {i} /\ i \notin Unowned
   BY <1>0, <1>1, <1>2 DEF Empty, Unowned, RingTypeOK
<1>5. /\ Cardinality(Empty') = Cardinality(Empty) - 1
      /\ Cardinality(Unowned') = Cardinality(Unowned) + 1
   BY <1>1, <1>4, FS_RemoveElement, FS_AddElement
<1>6. Counts'
  <2>1. emptyjobs = Cardinality(Empty) /\ newjobs = Cardinality(Unowned)
     BY DEF IInv, Counts
  <2>2. emptyjobs' # jobc  BY <1>2, <2>1
  <2> QED  BY <1>2, <1>5, <2>1, <2>2 DEF Counts
<1>7. RingTypeOK'
  <2>1. emptyjobs' \in 0 .. jobc /\ newjobs' \in 0 .. jobc
    <3>1. Cardinality(Empty') \in 0 .. jobc /\ Cardinality(Unowned') \in 0 .. jobc
      <4>1. Empty' \in SUBSET Slots /\ Unowned' \in SUBSET Slots  BY <1>1, <1>4
      <4>2. /\ Cardinality(Empty') <= jobc /\ Cardinality(Unowned') <= jobc
            /\ IsFiniteSet(Empty') /\ IsFiniteSet(Unowned')
         BY <4>1, FS_Subset
      <4>3. Cardinality(Empty') \in Nat /\ Cardinality(Unowned') \in Nat
         BY <4>2, FS_CardinalityType
      <4> QED  BY <4>2, <4>3
    <3> QED  BY <1>6, <3>1 DEF Counts
  <2>2. jobinst_next' \in Slots  BY <1>1, <1>2, NextSlotOf
  <2>3. jobtype' \in [Slots -> BOOLEAN] /\ overtaken' \in [Slots -> Nat]
     BY <1>0, <1>1, <1>2 DEF RingTypeOK
  <2>4. installs' \in [Handles -> Nat]  BY <1>0, <1>2 DEF RingTypeOK
  <2> QED  BY <1>0, <1>2, <1>3, <2>1, <2>2, <2>3, <2>4 DEF RingTypeOK, Moves, Places
<1>8. Owners'
  <2>1. \A w \in Workers : pc'[w] = "working" => pc[w] = "working"
     BY <1>3 DEF Moves, Threads
  <2> QED  BY <1>0, <1>1, <1>2, <2>1 DEF IInv, Owners, RingTypeOK
<1>9. Starting'
  <2>1. SUFFICES ASSUME hostpc = "init"
                 PROVE  EarlyHandles /\ \A w \in Workers : pc'[w] = "idle"
     BY <1>2 DEF Starting
  <2>2. \A w \in Workers : pc[w] = "idle" /\ w # h /\ w \in Threads
     BY <2>1 DEF IInv, Starting, Threads
  <2>3. pc[h] # "idle"  BY <1>0 DEF PastInstallHold
  <2> QED  BY <1>3, <2>1, <2>2, <2>3 DEF IInv, Starting, Moves
<1>10. Holds'
  <2>1. newjobs' # 0  BY <1>0, <1>2 DEF RingTypeOK
  <2> QED  BY <1>2, <2>1 DEF IInv, Holds
<1>11. Turns'
  <2>1. SUFFICES ASSUME NEW j \in Unowned'
                 PROVE  overtaken'[j] + Dist(jobacpt_next, j) < jobc
     BY <1>2 DEF Turns, Dist
  <2>2. CASE j = i
    <3>1. overtaken'[j] = 0  BY <1>0, <1>1, <1>2, <2>2 DEF RingTypeOK
    <3>2. Dist(jobacpt_next, j) \in Slots  BY <1>0, <1>1, <2>2, DistOf DEF RingTypeOK
    <3> QED  BY <3>1, <3>2 DEF Slots
  <2>3. CASE j # i
     BY <1>0, <1>2, <1>4, <2>1, <2>3 DEF IInv, Turns, RingTypeOK
  <2> QED  BY <2>2, <2>3
<1> QED  BY <1>6, <1>7, <1>8, <1>9, <1>10, <1>11 DEF IInv

LEMMA SelectInv ==
    ASSUME IInv, NEW w \in Workers, Select(w)
    PROVE  IInv'
<1> USE SlotSets
<1> DEFINE i == FirstFrom(jobacpt_next, Unowned)
<1>0. RingTypeOK /\ PastSelectHold(w) /\ w \in Threads /\ w # None
   BY DEF IInv, Select, Threads
<1>1. i \in Unowned /\ i \in Slots /\ \A j \in Unowned : Dist(jobacpt_next, i) <= Dist(jobacpt_next, j)
  <2>1. Unowned # {}  BY <1>0, ScansFind
  <2> QED  BY <1>0, <2>1, FirstFromFinds DEF RingTypeOK
<1>2. /\ owner' = [owner EXCEPT ![i] = w] /\ jobpos' = [jobpos EXCEPT ![w] = i]
      /\ jobacpt_next' = NextSlot(i)
      /\ newjobs' = newjobs - 1 /\ futex_selectorhold' = (newjobs' = 0)
      /\ UNCHANGED <<futex_status, emptyjobs, jobinst_next, futex_installerhold,
                     futex_hasjobs, jobtype, hostpc, installs>>
   BY DEF Select, Exhausted
<1>2a. /\ overtaken' \in [Slots -> Nat]
       /\ \A j \in Slots : overtaken'[j] <= overtaken[j] + 1
  <2>1. overtaken' = [j \in Slots |-> IF Before(j, i) THEN overtaken[j] + 1 ELSE overtaken[j]]
     BY DEF Select
  <2>2. overtaken \in [Slots -> Nat]  BY <1>0 DEF RingTypeOK
  <2> HIDE DEF i
  <2> QED  BY <2>1, <2>2
<1> HIDE DEF i
<1>3. Moves(w, "working")  BY <1>0, GotoMoves DEF Select, Places
<1>4. Empty' = Empty /\ Unowned' = Unowned \ {i}
   BY <1>0, <1>1, <1>2 DEF Empty, Unowned, RingTypeOK
<1>5. Cardinality(Unowned') = Cardinality(Unowned) - 1 /\ Cardinality(Unowned) # 0
   BY <1>1, <1>4, FS_RemoveElement
<1>6. Counts'  BY <1>2, <1>4, <1>5 DEF IInv, Counts
<1>7. RingTypeOK'
  <2>1. newjobs' \in 0 .. jobc  BY <1>2, <1>5 DEF IInv, Counts
  <2>2. jobacpt_next' \in Slots  BY <1>1, <1>2, NextSlotOf
  <2>3. owner' \in [Slots -> Workers \cup {None}] /\ jobpos' \in [Workers -> Slots]
     BY <1>0, <1>1, <1>2 DEF RingTypeOK
  <2>4. futex_selectorhold' \in BOOLEAN  BY <1>2
  <2> QED  BY <1>0, <1>2, <1>2a, <1>3, <2>1, <2>2, <2>3, <2>4 DEF RingTypeOK, Moves, Places
<1>8. Owners'
  <2>1. jobtype[i] /\ owner[i] = None  BY <1>1 DEF Unowned
  <2>2. ASSUME NEW j \in Slots, owner'[j] # None  PROVE jobtype'[j]
     BY <1>0, <1>2, <2>1, <2>2 DEF IInv, Owners, RingTypeOK
  <2>3. ASSUME NEW u \in Workers, pc'[u] = "working"  PROVE owner'[jobpos'[u]] = u
    <3>1. CASE u = w  BY <1>0, <1>1, <1>2, <3>1 DEF RingTypeOK
    <3>2. CASE u # w
      <4>1. pc[u] = "working"  BY <1>3, <2>3, <3>2 DEF Moves, Threads
      <4>2. owner[jobpos[u]] = u /\ u # None /\ jobpos[u] \in Slots
         BY <1>0, <4>1 DEF IInv, Owners, RingTypeOK
      <4>3. jobpos[u] # i  BY <2>1, <4>2
      <4> QED  BY <1>0, <1>2, <3>2, <4>2, <4>3 DEF RingTypeOK
    <3> QED  BY <3>1, <3>2
  <2> QED  BY <2>2, <2>3 DEF Owners
<1>9. Starting'
  <2>1. hostpc # "init"  BY <1>0 DEF IInv, Starting, PastSelectHold
  <2> QED  BY <1>2, <2>1 DEF Starting
<1>10. Holds'  BY <1>2 DEF IInv, Holds
<1>11. Turns'
  <2>1. SUFFICES ASSUME NEW j \in Unowned, j # i
                 PROVE  overtaken'[j] + Dist(NextSlot(i), j) < jobc
     BY <1>2, <1>4 DEF Turns, Dist
  <2>2. jobacpt_next \in Slots /\ j \in Slots /\ overtaken[j] \in Nat  BY <1>0 DEF RingTypeOK
  <2>3. Dist(NextSlot(i), j) < Dist(jobacpt_next, j) /\ Dist(NextSlot(i), j) \in Nat
     BY <1>1, <2>1, <2>2, Nearer
  <2>4. overtaken[j] + Dist(jobacpt_next, j) < jobc  BY DEF IInv, Turns
  <2>5. Dist(jobacpt_next, j) \in Nat  BY <2>2, DistOf
  <2>6. overtaken'[j] \in Nat /\ overtaken'[j] <= overtaken[j] + 1  BY <1>2a, <2>2
  <2> QED  BY <2>2, <2>3, <2>4, <2>5, <2>6
<1> QED  BY <1>6, <1>7, <1>8, <1>9, <1>10, <1>11 DEF IInv

LEMMA CloseInv ==
    ASSUME IInv, NEW w \in Workers, Close(w)
    PROVE  IInv'
<1> USE SlotSets
<1> DEFINE i == jobpos[w]
<1>0. RingTypeOK /\ w \in Threads /\ w # None /\ pc[w] = "working" /\ i \in Slots
   BY DEF IInv, Close, Threads, RingTypeOK
<1>1. owner[i] = w /\ jobtype[i]  BY <1>0 DEF IInv, Owners
<1>2. /\ jobtype' = [jobtype EXCEPT ![i] = FALSE] /\ owner' = [owner EXCEPT ![i] = None]
      /\ emptyjobs' = emptyjobs + 1 /\ futex_hasjobs' = (emptyjobs' # jobc)
      /\ hostpc' = HostAfterClose /\ futex_installerhold' = FALSE
      /\ UNCHANGED <<futex_status, newjobs, jobinst_next, jobacpt_next,
                     futex_selectorhold, jobpos, installs, queue, overtaken>>
   BY DEF Close
<1>3. Moves(w, "wait")  BY <1>0, GotoMoves DEF Close, Places
<1>4. hostpc # "init"  BY <1>0 DEF IInv, Starting
<1>5. \/ hostpc' = hostpc
      \/ hostpc = "asleep" /\ hostpc' = "joining"
   BY <1>2 DEF HostAfterClose
<1>6. Empty' = Empty \cup {i} /\ i \notin Empty /\ Unowned' = Unowned
   BY <1>0, <1>1, <1>2 DEF Empty, Unowned, RingTypeOK
<1>7. Cardinality(Empty') = Cardinality(Empty) + 1  BY <1>6, FS_AddElement
<1>8. Counts'  BY <1>2, <1>6, <1>7 DEF IInv, Counts
<1>9. RingTypeOK'
  <2>1. emptyjobs' \in 0 .. jobc
    <3>1. Empty' \in SUBSET Slots  BY <1>0, <1>6
    <3>2. Cardinality(Empty') <= jobc  BY <3>1, FS_Subset
    <3> QED  BY <1>0, <1>2, <1>8, <3>2 DEF Counts, RingTypeOK
  <2>2. jobtype' \in [Slots -> BOOLEAN] /\ owner' \in [Slots -> Workers \cup {None}]
     BY <1>0, <1>2 DEF RingTypeOK
  <2>3. hostpc' \in {"init", "up", "closing", "asleep", "joining", "down"}
     BY <1>0, <1>5 DEF RingTypeOK
  <2>4. futex_hasjobs' \in BOOLEAN /\ futex_installerhold' \in BOOLEAN  BY <1>2
  <2> QED  BY <1>0, <1>2, <1>3, <2>1, <2>2, <2>3, <2>4 DEF RingTypeOK, Moves, Places
<1>10. Owners'
  <2>1. ASSUME NEW j \in Slots, owner'[j] # None  PROVE jobtype'[j]
     BY <1>0, <1>2, <2>1 DEF IInv, Owners, RingTypeOK
  <2>2. ASSUME NEW u \in Workers, pc'[u] = "working"  PROVE owner'[jobpos'[u]] = u
    <3>1. u # w /\ pc[u] = "working"  BY <1>3, <2>2 DEF Moves, Threads
    <3>2. owner[jobpos[u]] = u /\ jobpos[u] \in Slots
       BY <1>0, <3>1 DEF IInv, Owners, RingTypeOK
    <3>3. jobpos[u] # i  BY <1>1, <3>1, <3>2
    <3> QED  BY <1>0, <1>2, <3>2, <3>3 DEF RingTypeOK
  <2> QED  BY <2>1, <2>2 DEF Owners
<1>11. Starting'  BY <1>4, <1>5 DEF Starting
<1>12. Holds'
  <2>1. emptyjobs' # 0  BY <1>0, <1>2 DEF RingTypeOK
  <2> QED  BY <1>2, <1>5, <2>1 DEF IInv, Holds
<1>13. Turns'  BY <1>2, <1>6 DEF IInv, Turns, Dist
<1> QED  BY <1>8, <1>9, <1>10, <1>11, <1>12, <1>13 DEF IInv

LEMMA HostInv ==
    ASSUME IInv, HostStep \/ HostClose
    PROVE  IInv'
<1>0. RingTypeOK  BY DEF IInv
<1>1. /\ Empty' = Empty /\ Unowned' = Unowned
      /\ UNCHANGED <<newjobs, emptyjobs, jobinst_next, jobacpt_next, futex_hasjobs, jobtype,
                     owner, jobpos, installs, overtaken>>
   BY DEF HostStep, HostReady, HostWait, HostJoined, HostClose, head, Empty, Unowned
<1>2. hostpc' # "init"
   BY DEF HostStep, HostReady, HostWait, HostJoined, HostClose
<1>3. /\ pc' \in [Threads -> Places]
      /\ \A u \in Threads : pc'[u] = pc[u] \/ (pc[u] = "asleep" /\ pc'[u] = "enter")
  <2>0. pc \in [Threads -> Places]  BY <1>0 DEF RingTypeOK, Places
  <2>1. CASE HostStep  BY <2>0, <2>1 DEF HostStep, HostReady, HostWait, HostJoined
  <2>2. CASE HostClose  BY <2>0, <2>2 DEF HostClose, Places
  <2> QED  BY <2>1, <2>2
<1>4. Counts'  BY <1>1 DEF IInv, Counts
<1>5. Owners'
  <2>1. \A w \in Workers : pc'[w] = "working" => pc[w] = "working"
     BY <1>3 DEF Threads
  <2> QED  BY <1>1, <2>1 DEF IInv, Owners
<1>6. Starting'  BY <1>2 DEF Starting
<1>7. Turns'  BY <1>1 DEF IInv, Turns, Dist
<1>8. CASE HostReady
  <2>1. /\ hostpc = "init" /\ hostpc' = "up" /\ futex_selectorhold' = TRUE
        /\ futex_status' = futex_status /\ futex_installerhold' = futex_installerhold
     BY <1>8 DEF HostReady
  <2>2. Holds'
    <3>1. ~EarlyHandles => newjobs = 0  BY <2>1 DEF IInv, Starting
    <3> QED  BY <1>1, <2>1, <3>1 DEF IInv, Holds
  <2>3. RingTypeOK'  BY <1>0, <1>1, <1>3, <2>1 DEF RingTypeOK, Places
  <2> QED  BY <1>4, <1>5, <1>6, <1>7, <2>2, <2>3 DEF IInv
<1>9. CASE HostClose
  <2>1. /\ hostpc' = "closing" /\ futex_selectorhold' = FALSE
        /\ futex_status' = "STOPPED" /\ futex_installerhold' = FALSE
     BY <1>9 DEF HostClose
  <2>2. Holds'  BY <2>1 DEF Holds
  <2>3. RingTypeOK'  BY <1>0, <1>1, <1>3, <2>1 DEF RingTypeOK, Places
  <2> QED  BY <1>4, <1>5, <1>6, <1>7, <2>2, <2>3 DEF IInv
<1>10. CASE HostWait \/ HostJoined
  <2>1. /\ hostpc \in {"closing", "joining"} /\ hostpc' \in {"asleep", "joining", "down"}
        /\ futex_selectorhold' = futex_selectorhold
        /\ futex_status' = futex_status /\ futex_installerhold' = futex_installerhold
     BY <1>10 DEF HostWait, HostJoined, head
  <2>2. Holds'  BY <1>1, <2>1 DEF IInv, Holds
  <2>3. RingTypeOK'  BY <1>0, <1>1, <1>3, <2>1 DEF RingTypeOK, Places
  <2> QED  BY <1>4, <1>5, <1>6, <1>7, <2>2, <2>3 DEF IInv
<1> QED  BY <1>8, <1>9, <1>10 DEF HostStep

LEMMA InitInv == Init => IInv
<1> SUFFICES ASSUME Init PROVE IInv  OBVIOUS
<1> USE SlotSets DEF Init
<1>1. Empty = Slots /\ Unowned = {}  BY DEF Empty, Unowned
<1>2. Counts  BY <1>1, FS_EmptySet DEF Counts
<1>3. RingTypeOK
  <2>1. /\ newjobs \in 0 .. jobc /\ emptyjobs \in 0 .. jobc
        /\ 0 \in Slots
     BY DEF Slots
  <2>2. /\ jobtype \in [Slots -> BOOLEAN] /\ owner \in [Slots -> Workers \cup {None}]
        /\ jobpos \in [Workers -> Slots] /\ overtaken \in [Slots -> Nat]
     BY <2>1
  <2> QED  BY <2>1, <2>2 DEF RingTypeOK
<1>4. Owners  BY DEF Owners, Threads
<1>5. Starting  BY DEF Starting, Threads
<1>6. Holds  BY DEF Holds
<1>7. Turns  BY <1>1 DEF Turns
<1> QED  BY <1>2, <1>3, <1>4, <1>5, <1>6, <1>7 DEF IInv

LEMMA Invariance == Spec => []IInv
<1>1. IInv /\ [Next]_vars => IInv'
  <2> SUFFICES ASSUME IInv, [Next]_vars PROVE IInv'  OBVIOUS
  <2>0. RingTypeOK /\ Starting  BY DEF IInv
  <2>1. CASE UNCHANGED vars
     BY <2>1 DEF vars, head, IInv, RingTypeOK, Counts, Owners, Starting, Holds, Turns,
        Empty, Unowned, Dist
  <2>2. ASSUME NEW h \in Handles, InstallCall(h) \/ InstallStep(h)  PROVE IInv'
    <3>1. h \in Threads  BY DEF Threads
    <3>2. CASE Install(h)  BY <3>2, InstallInv
    <3>3. CASE InstallCall(h) \/ InstallWait(h) \/ InstallClosed(h) \/ InstallRehold(h)
      <4>1. PICK l \in Places : Goto(h, l) /\ l # "working"
         BY <3>3 DEF InstallCall, InstallWait, InstallClosed, InstallRehold, Places
      <4>2. Moves(h, l)  BY <2>0, <3>1, <4>1, GotoMoves
      <4>3. UNCHANGED memory
         BY <3>3 DEF InstallCall, InstallWait, InstallClosed, InstallRehold
      <4>4. hostpc = "init" => EarlyHandles
         BY <2>0, <3>3 DEF Starting, InstallCall, InstallWait, InstallClosed, InstallRehold
      <4> QED  BY <3>1, <4>1, <4>2, <4>3, <4>4, MoveStep
    <3> QED  BY <2>2, <3>2, <3>3 DEF InstallStep
  <2>3. ASSUME NEW w \in Workers, SelectStep(w) \/ Close(w)  PROVE IInv'
    <3>1. w \in Threads  BY DEF Threads
    <3>2. CASE Select(w)  BY <3>2, SelectInv
    <3>3. CASE Close(w)  BY <3>3, CloseInv
    <3>4. CASE WorkerStart(w) \/ SelectWait(w) \/ SelectClosed(w) \/ SelectRehold(w)
      <4>1. PICK l \in Places : Goto(w, l) /\ l # "working"
         BY <3>4 DEF WorkerStart, SelectWait, SelectClosed, SelectRehold, Places
      <4>2. Moves(w, l)  BY <2>0, <3>1, <4>1, GotoMoves
      <4>3. UNCHANGED memory
         BY <3>4 DEF WorkerStart, SelectWait, SelectClosed, SelectRehold
      <4>4. hostpc # "init"
         BY <2>0, <3>4 DEF Starting, WorkerStart, SelectWait, SelectClosed, SelectRehold
      <4> QED  BY <3>1, <4>1, <4>2, <4>3, <4>4, MoveStep
    <3> QED  BY <2>3, <3>2, <3>3, <3>4 DEF SelectStep
  <2> QED  BY <2>1, <2>2, <2>3, HostInv DEF Next
<1> QED  BY <1>1, InitInv, PTL DEF Spec
-----------------------------------------------------------------------------
\* edbs_jobinstall, edbs_jobselect and edbs_jobclose keep the head of the shared
\* memory true to its slots, and nobody comes past a hold to find nothing - for any
\* ring and any threads, as long as no handle connects before edbs_host_init has set
\* futex_selectorhold, which it does without the mutex.
THEOREM HeadIsTrue == Spec => [](~EarlyHandles => HeadAgrees)
<1>1. IInv => (~EarlyHandles => HeadAgrees)
  <2> SUFFICES ASSUME IInv, ~EarlyHandles PROVE HeadAgrees  OBVIOUS
  <2>1. futex_status = "RUNNING" /\ hostpc # "init" => futex_selectorhold = (newjobs = 0)
     BY DEF IInv, Holds
  <2>2. \A w \in Workers : pc[w] = "working" => jobtype[jobpos[w]] /\ owner[jobpos[w]] = w
     BY DEF IInv, Owners, RingTypeOK
  <2> QED  BY <2>1, <2>2, ScansFind DEF IInv, Counts, Holds, HeadAgrees
<1> QED  BY <1>1, Invariance, PTL

\* The log_critf branches of edbs_jobselect and edbs_jobinstall ("although newjobs was
\* at least 1, an open job was not found") are dead code, early handles or not.
THEOREM CriticalBranchesDead ==
    Spec => [](/\ \A h \in Handles : PastInstallHold(h) => Empty # {}
               /\ \A w \in Workers : PastSelectHold(w) => Unowned # {})
BY Invariance, ScansFind, PTL

\* edbs_jobselect goes round the ring from where it selected last: a job is overtaken
\* by fewer jobs than the ring has slots, however many are installed after it.
THEOREM OvertakingBounded == Spec => []BoundedOvertaking
<1>1. IInv => BoundedOvertaking
  <2> SUFFICES ASSUME IInv, NEW i \in Unowned PROVE overtaken[i] < jobc
     BY DEF BoundedOvertaking
  <2>1. i \in Slots /\ jobacpt_next \in Slots /\ overtaken[i] \in Nat
     BY DEF IInv, RingTypeOK, Unowned
  <2>2. Dist(jobacpt_next, i) \in Nat  BY <2>1, DistOf
  <2>3. overtaken[i] + Dist(jobacpt_next, i) < jobc  BY DEF IInv, Turns
  <2> QED  BY <2>1, <2>2, <2>3
<1> QED  BY <1>1, Invariance, PTL
=============================================================================
