-------------------------- MODULE PageAllocProofs --------------------------
(***************************************************************************)
(* Theorems about PageAlloc, for every size of file, garbage page, window  *)
(* and strait: no page has two owners, none is lost, and the allocator     *)
(* implements PageSupply.                                                  *)
(***************************************************************************)
EXTENDS PageAlloc, FiniteSetTheorems, WellFoundedInduction, TLAPS

USE PageAllocAssumption
-----------------------------------------------------------------------------
(* Least and largest elements *)

\* A set of naturals that is not empty has a least element.
LEMMA MinIs ==
    ASSUME NEW S \in SUBSET Nat, S # {}
    PROVE  Min(S) \in S /\ \A y \in S : Min(S) <= y
<1>1. PICK x \in S : \A y \in S : ~(<<y, x>> \in OpToRel(<, Nat))
   BY NatLessThanWellFounded, WFMin
<1>2. ASSUME NEW y \in S, y < x PROVE FALSE
  <2>1. <<y, x>> \in Nat \X Nat /\ <<y, x>>[1] < <<y, x>>[2]  BY <1>2
  <2>2. <<y, x>> \in OpToRel(<, Nat)  BY <2>1, Zenon DEF OpToRel
  <2> QED  BY <1>1, <2>2
<1>3. \A y \in S : x <= y  BY <1>2
<1> QED  BY <1>3 DEF Min

\* One that is bounded has a largest.
LEMMA MaxIs ==
    ASSUME NEW S \in SUBSET Nat, S # {}, NEW b \in Nat, \A y \in S : y <= b
    PROVE  Max(S) \in S /\ \A y \in S : y <= Max(S)
<1> DEFINE T == { k \in Nat : \E y \in S : k + y = b }
<1>1. T # {} /\ T \in SUBSET Nat
  <2>1. PICK y \in S : TRUE  OBVIOUS
  <2>2. b - y \in T  BY <2>1
  <2> QED  BY <2>2
<1> DEFINE m == Min(T)
<1>2. m \in T /\ \A k \in T : m <= k  BY <1>1, MinIs
<1> HIDE DEF m
<1>3. PICK x \in S : m + x = b  BY <1>2
<1>4. ASSUME NEW y \in S PROVE y <= x
  <2>1. b - y \in T  BY <1>4
  <2>2. m <= b - y  BY <1>2, <2>1
  <2>3. m \in Nat /\ x \in Nat /\ y \in Nat  BY <1>2
  <2> QED  BY <1>3, <2>2, <2>3
<1>5. \E z \in S : \A y \in S : z >= y  BY <1>4
<1> QED  BY <1>5 DEF Max

\* The largest of a set is determined by being an element and an upper bound.
LEMMA MaxUnique ==
    ASSUME NEW S \in SUBSET Nat, NEW x \in S, \A y \in S : y <= x
    PROVE  Max(S) = x
<1>1. Max(S) \in S /\ \A y \in S : y <= Max(S)  BY MaxIs
<1>2. x \in Nat /\ Max(S) \in Nat /\ x <= Max(S) /\ Max(S) <= x  BY <1>1
<1> HIDE DEF Max
<1> QED  BY <1>2
-----------------------------------------------------------------------------
(* One garbage page *)

\* A reference is null or stands for pages of a file of e pages.
RefOK(r, e) ==
    \/ r = NullRef
    \/ r.ref \in Pids /\ r.straitc \in Nat \ {0} /\ r.ref + r.straitc <= e

SetRefs(t)    == { j \in 1 .. Refs : t.refs[j].ref # 0 }
StraitSizes(t) == { t.refs[j].straitc : j \in 1 .. Refs }

\* The counts that edbd_add and edbd_del decide by agree with the references.
Counted(t) ==
    /\ t.refc = Cardinality(SetRefs(t))
    /\ t.largeststrait = Max(StraitSizes(t))
    /\ t.pagesc = Cardinality(RefUnits(t))

PageOK(t, e) ==
    /\ t \in Garbage
    /\ \A j \in 1 .. Refs : RefOK(t.refs[j], e)
    /\ Counted(t)

\* Null references have no pages.
LEMMA RefFacts ==
    ASSUME NEW t \in Garbage, NEW e \in Nat, NEW j \in 1 .. Refs, RefOK(t.refs[j], e)
    PROVE  /\ t.refs[j].ref \in Nat /\ t.refs[j].straitc \in Nat
           /\ t.refs[j].ref = 0 <=> t.refs[j].straitc = 0
           /\ t.refs[j].ref = 0 <=> t.refs[j] = NullRef
           /\ t.refs[j].straitc <= e
<1>1. t.refs[j] \in [ref : Nat, straitc : Nat]  BY DEF Garbage, RefArray
<1>2. CASE t.refs[j] = NullRef  BY <1>2 DEF NullRef
<1>3. CASE t.refs[j] # NullRef
  <2>1. t.refs[j].ref \in Pids /\ t.refs[j].straitc \in Nat \ {0}
        /\ t.refs[j].ref + t.refs[j].straitc <= e
     BY <1>3 DEF RefOK
  <2>2. t.refs[j].ref \in Nat \ {0}  BY <2>1 DEF Pids
  <2> QED  BY <1>1, <1>3, <2>1, <2>2 DEF NullRef
<1> QED  BY <1>2, <1>3

\* The set references of a page are finitely many; the page is full when refc is
\* Refs, and has a null reference otherwise.
LEMMA CountFacts ==
    ASSUME NEW t \in Garbage
    PROVE  /\ IsFiniteSet(SetRefs(t)) /\ Cardinality(SetRefs(t)) \in Nat
           /\ Cardinality(SetRefs(t)) # Refs => NullRefs(t) # {}
           /\ \A j \in SetRefs(t) : Cardinality(SetRefs(t)) # 0
<1>1. IsFiniteSet(1 .. Refs) /\ Cardinality(1 .. Refs) = Refs
   BY FS_Interval
<1>2. SetRefs(t) \subseteq 1 .. Refs  BY DEF SetRefs
<1>3. IsFiniteSet(SetRefs(t)) /\ Cardinality(SetRefs(t)) \in Nat
   BY <1>1, <1>2, FS_Subset, FS_CardinalityType
<1>4. NullRefs(t) = {} => SetRefs(t) = 1 .. Refs  BY DEF NullRefs, SetRefs
<1>5. SetRefs(t) # {} => Cardinality(SetRefs(t)) # 0  BY <1>3, FS_EmptySet
<1> QED  BY <1>1, <1>3, <1>4, <1>5

\* The sizes of the references of a page have a largest.
LEMMA SizesBounded ==
    ASSUME NEW t \in Garbage, NEW e \in Nat, \A j \in 1 .. Refs : RefOK(t.refs[j], e)
    PROVE  /\ StraitSizes(t) \in SUBSET Nat /\ StraitSizes(t) # {}
           /\ Max(StraitSizes(t)) \in StraitSizes(t)
           /\ \A j \in 1 .. Refs : t.refs[j].straitc <= Max(StraitSizes(t))
<1>1. \A j \in 1 .. Refs : t.refs[j].straitc \in Nat /\ t.refs[j].straitc <= e
   BY RefFacts
<1>2. StraitSizes(t) \in SUBSET Nat /\ \A y \in StraitSizes(t) : y <= e
   BY <1>1 DEF StraitSizes
<1>3. t.refs[1].straitc \in StraitSizes(t)  BY DEF StraitSizes
<1>4. Max(StraitSizes(t)) \in StraitSizes(t)
      /\ \A y \in StraitSizes(t) : y <= Max(StraitSizes(t))
   BY <1>2, <1>3, MaxIs
<1>5. \A j \in 1 .. Refs : t.refs[j].straitc \in StraitSizes(t)  BY DEF StraitSizes
<1> QED  BY <1>2, <1>3, <1>4, <1>5

\* A reference that stands for n pages more has n units more.
LEMMA UnitsGrow ==
    ASSUME NEW s, NEW t, s.refs \in RefArray, t.refs \in RefArray, NEW j \in 1 .. Refs,
           \A i \in 1 .. Refs : i # j => s.refs[i] = t.refs[i],
           NEW n \in Nat \ {0}, t.refs[j].straitc = s.refs[j].straitc + n,
           t.refs[j].straitc <= MaxPid
    PROVE  /\ Cardinality(RefUnits(t)) = Cardinality(RefUnits(s)) + n
           /\ Cardinality(RefUnits(s)) \in Nat
<1> DEFINE a == s.refs[j].straitc
           b == t.refs[j].straitc
           D == {j} \X (a + 1 .. b)
<1>1. a \in Nat /\ b \in Nat /\ b = a + n /\ b <= MaxPid
  <2>1. s.refs[j] \in [ref : Nat, straitc : Nat] /\ t.refs[j] \in [ref : Nat, straitc : Nat]
     BY DEF RefArray
  <2> QED  BY <2>1
<1>2. IsFiniteSet(D) /\ Cardinality(D) = n
  <2>1. IsFiniteSet({j}) /\ Cardinality({j}) = 1  BY FS_Singleton
  <2>2. IsFiniteSet(a + 1 .. b) /\ Cardinality(a + 1 .. b) = n
    <3>1. a + 1 \in Int /\ b \in Int /\ ~(a + 1 > b) /\ b - (a + 1) + 1 = n  BY <1>1
    <3> HIDE DEF a, b
    <3>2. /\ IsFiniteSet(a + 1 .. b)
          /\ Cardinality(a + 1 .. b) = IF a + 1 > b THEN 0 ELSE b - (a + 1) + 1
       BY <3>1, FS_Interval
    <3> QED  BY <3>1, <3>2
  <2>3. IsFiniteSet(D) /\ Cardinality(D) = Cardinality({j}) * Cardinality(a + 1 .. b)
     BY <2>1, <2>2, FS_Product
  <2> QED  BY <2>1, <2>2, <2>3
<1>3. IsFiniteSet(RefUnits(s)) /\ Cardinality(RefUnits(s)) \in Nat
  <2>1. IsFiniteSet(1 .. Refs) /\ IsFiniteSet(1 .. MaxPid)
    <3>1. 1 \in Int /\ Refs \in Int /\ MaxPid \in Int  OBVIOUS
    <3>2. IsFiniteSet(1 .. Refs)  BY ONLY <3>1, FS_Interval, Zenon
    <3>3. IsFiniteSet(1 .. MaxPid)  BY ONLY <3>1, FS_Interval, Zenon
    <3> QED  BY <3>2, <3>3
  <2>2. IsFiniteSet((1 .. Refs) \X (1 .. MaxPid))  BY <2>1, FS_Product
  <2>3. RefUnits(s) \subseteq (1 .. Refs) \X (1 .. MaxPid)  BY DEF RefUnits
  <2> QED  BY <2>2, <2>3, FS_Subset, FS_CardinalityType
<1>4. RefUnits(s) \cap D = {}
  <2>1. ASSUME NEW x \in RefUnits(s), x \in D  PROVE FALSE
    <3>1. x[1] = j /\ x[2] \in a + 1 .. b /\ x[2] <= s.refs[x[1]].straitc
       BY <2>1 DEF RefUnits
    <3> QED  BY <1>1, <3>1
  <2> QED  BY <2>1
<1>5. RefUnits(t) = RefUnits(s) \cup D
  <2>1. ASSUME NEW i \in 1 .. Refs, NEW k \in 1 .. MaxPid
        PROVE  k <= t.refs[i].straitc
                 <=> k <= s.refs[i].straitc \/ (i = j /\ k \in a + 1 .. b)
    <3>1. CASE i = j
      <4>1. k \in Nat  OBVIOUS
      <4> HIDE DEF a, b
      <4>2. k <= b <=> k <= a \/ k \in a + 1 .. b  BY ONLY <1>1, <4>1
      <4> QED  BY ONLY <3>1, <4>2 DEF a, b
    <3>2. CASE i # j
      <4>1. s.refs[i] = t.refs[i]  BY <3>2
      <4> QED  BY ONLY <3>2, <4>1
    <3> QED  BY ONLY <3>1, <3>2
  <2>2. \A x \in D : x[1] = j /\ x[2] \in a + 1 .. b /\ x \in (1 .. Refs) \X (1 .. MaxPid)
     BY <1>1
  <2>3. ASSUME NEW x \in (1 .. Refs) \X (1 .. MaxPid)
        PROVE  x \in D <=> x[1] = j /\ x[2] \in a + 1 .. b
     BY <2>3
  <2> HIDE DEF D
  <2>4. ASSUME NEW x \in (1 .. Refs) \X (1 .. MaxPid)
        PROVE  x \in RefUnits(t) <=> x \in RefUnits(s) \/ x \in D
    <3>1. x[1] \in 1 .. Refs /\ x[2] \in 1 .. MaxPid  BY <2>4
    <3> QED  BY <2>1, <2>3, <2>4, <3>1 DEF RefUnits
  <2>5. RefUnits(t) \subseteq (1 .. Refs) \X (1 .. MaxPid)
        /\ RefUnits(s) \subseteq (1 .. Refs) \X (1 .. MaxPid)
     BY DEF RefUnits
  <2> QED  BY <2>2, <2>4, <2>5
<1> HIDE DEF D
<1>6. Cardinality(RefUnits(s) \cup D)
        = Cardinality(RefUnits(s)) + Cardinality(D) - Cardinality(RefUnits(s) \cap D)
   BY <1>2, <1>3, FS_Union
<1>7. Cardinality(RefUnits(s) \cap D) = 0  BY <1>4, FS_EmptySet
<1>8. Cardinality(RefUnits(t)) = Cardinality(RefUnits(s)) + n - 0
   BY <1>2, <1>5, <1>6, <1>7
<1> QED  BY <1>3, <1>8

\* A strait is taken from a reference: the counts keep up.
LEMMA StealIs ==
    ASSUME NEW e \in FirstPid .. MaxPid + 1, NEW t, PageOK(t, e), NEW j \in 1 .. Refs,
           NEW n \in Nat \ {0}, t.refs[j].ref # 0, n <= t.refs[j].straitc
    PROVE  /\ PageOK(Steal(t, j, n), e)
           /\ Steal(t, j, n).refs = [t.refs EXCEPT ![j] = Rest(t.refs[j], n)]
           /\ Steal(t, j, n).pleft = t.pleft /\ Steal(t, j, n).pright = t.pright
<1> DEFINE r == t.refs[j]
           z == Rest(r, n)
           refs == [t.refs EXCEPT ![j] = z]
           s == Steal(t, j, n)
<1>1. /\ t \in Garbage /\ RefOK(r, e) /\ Counted(t) /\ e \in Nat
      /\ t.refs \in RefArray
      /\ t.refc \in Nat /\ t.pagesc \in Int
   BY DEF PageOK, Garbage
<1>2. r.ref \in Pids /\ r.straitc \in Nat \ {0} /\ r.ref + r.straitc <= e /\ r # NullRef
  <2>1. r # NullRef  BY DEF NullRef
  <2> QED  BY <1>1, <2>1 DEF RefOK
<1>3. z \in [ref : Nat, straitc : Nat] /\ RefOK(z, e) /\ (z.ref = 0 <=> z = NullRef)
  <2>1. CASE r.straitc = n  BY <2>1 DEF Rest, NullRef, RefOK
  <2>2. CASE r.straitc # n
    <3>1. z = [ref |-> r.ref + n, straitc |-> r.straitc - n]  BY <2>2 DEF Rest
    <3>2. r.straitc - n \in Nat \ {0} /\ r.ref + n \in Nat \ {0}
          /\ (r.ref + n) + (r.straitc - n) <= e
       BY <1>2, <2>2 DEF Pids
    <3>3. r.ref + n \in Pids  BY <1>2, <3>2 DEF Pids
    <3> QED  BY <3>1, <3>2, <3>3 DEF RefOK, NullRef
  <2> QED  BY <2>1, <2>2
<1> HIDE DEF z
<1>4. /\ s.refs = refs
      /\ s.refc = IF refs[j] = NullRef THEN t.refc - 1 ELSE t.refc
      /\ s.pagesc = t.pagesc - n
      /\ s.largeststrait = Largest(t, refs)
      /\ s.pleft = t.pleft /\ s.pright = t.pright
   BY <1>1 DEF Steal, Garbage, z
<1> HIDE DEF s
<1>5. refs \in RefArray /\ refs[j] = z
      /\ \A i \in 1 .. Refs : i # j => refs[i] = t.refs[i]
   BY <1>1, <1>3 DEF RefArray
<1>6. \A i \in 1 .. Refs : RefOK(refs[i], e)  BY <1>3, <1>5 DEF PageOK
<1>7. j \in SetRefs(t) /\ t.refc = Cardinality(SetRefs(t)) /\ t.refc # 0
      /\ IsFiniteSet(SetRefs(t))
   BY <1>1, CountFacts DEF SetRefs, Counted
<1>8. s.refc \in Nat /\ s.refc = Cardinality(SetRefs(s))
  <2>1. CASE z = NullRef
    <3>1. SetRefs(s) = SetRefs(t) \ {j}  BY <1>3, <1>4, <1>5, <2>1 DEF SetRefs
    <3>2. Cardinality(SetRefs(s)) = Cardinality(SetRefs(t)) - 1
      <4> DEFINE S == SetRefs(t)
      <4>1. IsFiniteSet(S) /\ j \in S  BY <1>7
      <4> HIDE DEF S
      <4>2. Cardinality(S \ {j}) = Cardinality(S) - 1  BY ONLY <4>1, FS_RemoveElement
      <4> QED  BY <3>1, <4>2 DEF S
    <3> QED  BY <1>1, <1>4, <1>5, <1>7, <2>1, <3>2
  <2>2. CASE z # NullRef
    <3>1. SetRefs(s) = SetRefs(t)  BY <1>3, <1>4, <1>5, <1>7, <2>2 DEF SetRefs
    <3> QED  BY <1>1, <1>4, <1>5, <1>7, <2>2, <3>1
  <2> QED  BY <2>1, <2>2
<1>9. s.largeststrait = Max(StraitSizes(s))  BY <1>4 DEF Largest, StraitSizes
<1>10. s.largeststrait \in Nat
  <2> DEFINE g == [t EXCEPT !.refs = refs]
  <2>1. g \in Garbage /\ g.refs = refs  BY <1>1, <1>5 DEF Garbage
  <2>2. StraitSizes(g) = StraitSizes(s)  BY <1>4, <2>1 DEF StraitSizes
  <2> HIDE DEF g
  <2>3. Max(StraitSizes(g)) \in Nat  BY <1>1, <1>6, <2>1, SizesBounded
  <2> QED  BY <1>9, <2>2, <2>3
<1>11. s \in Garbage
  <2>1. t.pagesc - n \in Int  BY <1>1
  <2> QED  BY <1>1, <1>4, <1>5, <1>8, <1>10, <2>1 DEF Garbage, Steal, s, z
<1>12. s.pagesc = Cardinality(RefUnits(s))
  <2>1. r.straitc = z.straitc + n /\ r.straitc <= MaxPid
    <3>1. r.straitc <= MaxPid  BY <1>2 DEF Pids
    <3>2. r.straitc = z.straitc + n  BY <1>2 DEF z, Rest, NullRef
    <3> QED  BY <3>1, <3>2
  <2>2. s.refs \in RefArray /\ s.refs[j] = z
        /\ \A i \in 1 .. Refs : i # j => s.refs[i] = t.refs[i]
     BY <1>4, <1>5
  <2>3. Cardinality(RefUnits(t)) = Cardinality(RefUnits(s)) + n
        /\ Cardinality(RefUnits(s)) \in Nat
     BY <1>1, <2>1, <2>2, UnitsGrow
  <2> QED  BY <1>1, <1>4, <2>3 DEF Counted
<1> QED  BY <1>4, <1>6, <1>8, <1>9, <1>11, <1>12 DEF PageOK, Counted, s, z

\* A strait is put into a null reference: the counts keep up.
LEMMA PutIs ==
    ASSUME NEW e \in FirstPid .. MaxPid + 1, NEW t, PageOK(t, e), NEW j \in 1 .. Refs,
           NEW id \in Pids, NEW n \in Nat \ {0}, t.refs[j].ref = 0, id + n <= e
    PROVE  /\ PageOK(Put(t, j, id, n), e)
           /\ Put(t, j, id, n).refs = [t.refs EXCEPT ![j] = [ref |-> id, straitc |-> n]]
           /\ Put(t, j, id, n).pleft = t.pleft /\ Put(t, j, id, n).pright = t.pright
<1> DEFINE z == [ref |-> id, straitc |-> n]
           refs == [t.refs EXCEPT ![j] = z]
           s == Put(t, j, id, n)
<1>1. /\ t \in Garbage /\ RefOK(t.refs[j], e) /\ Counted(t) /\ e \in Nat
      /\ t.refs \in RefArray
      /\ t.refc \in Nat /\ t.pagesc \in Int /\ t.largeststrait \in Nat
   BY DEF PageOK, Garbage
<1>2. id \in Nat \ {0} /\ t.refs[j].straitc = 0
  <2>1. id \in Nat \ {0}  BY DEF Pids
  <2> QED  BY <1>1, <2>1, RefFacts
<1>3. z \in [ref : Nat, straitc : Nat] /\ RefOK(z, e) /\ z.ref # 0 /\ z.straitc = n
   BY <1>2 DEF RefOK
<1>4. /\ s.refs = refs
      /\ s.refc = t.refc + 1
      /\ s.pagesc = t.pagesc + n
      /\ s.largeststrait = Max({t.largeststrait, n})
      /\ s.pleft = t.pleft /\ s.pright = t.pright
   BY <1>1 DEF Put, Garbage
<1> HIDE DEF s, z
<1>5. refs \in RefArray /\ refs[j] = z
      /\ \A i \in 1 .. Refs : i # j => refs[i] = t.refs[i]
   BY <1>1, <1>3 DEF RefArray
<1>6. \A i \in 1 .. Refs : RefOK(refs[i], e)  BY <1>3, <1>5 DEF PageOK
<1>7. s.refc \in Nat /\ s.refc = Cardinality(SetRefs(s))
  <2>1. j \notin SetRefs(t) /\ t.refc = Cardinality(SetRefs(t)) /\ IsFiniteSet(SetRefs(t))
     BY <1>1, CountFacts DEF SetRefs, Counted
  <2>2. SetRefs(s) = SetRefs(t) \cup {j}  BY <1>3, <1>4, <1>5 DEF SetRefs
  <2>3. Cardinality(SetRefs(t) \cup {j}) = Cardinality(SetRefs(t)) + 1
     BY <2>1, FS_AddElement
  <2> QED  BY <1>1, <1>4, <2>1, <2>2, <2>3
<1> DEFINE m == t.largeststrait
           k == IF m >= n THEN m ELSE n
<1>8. s.largeststrait = k /\ k \in Nat
  <2>1. k \in {m, n} /\ \A y \in {m, n} : y <= k  BY <1>1
  <2>2. {m, n} \in SUBSET Nat  BY <1>1
  <2> HIDE DEF m, k
  <2>3. Max({m, n}) = k  BY <2>1, <2>2, MaxUnique
  <2> QED  BY <1>1, <1>4, <2>1, <2>2, <2>3 DEF m
<1>9. Max(StraitSizes(s)) = k
  <2>1. m \in StraitSizes(t) /\ \A i \in 1 .. Refs : t.refs[i].straitc <= m
    <3>1. \A i \in 1 .. Refs : RefOK(t.refs[i], e)  BY DEF PageOK
    <3> QED  BY <1>1, <3>1, SizesBounded DEF Counted
  <2>2. PICK h \in 1 .. Refs : t.refs[h].straitc = m  BY <2>1 DEF StraitSizes
  <2>3. \A i \in 1 .. Refs : refs[i].straitc <= k
    <3>1. \A i \in 1 .. Refs : t.refs[i].straitc \in Nat  BY <1>1 DEF RefArray
    <3>2. m \in Nat /\ k \in Nat /\ n \in Nat /\ m <= k /\ n <= k  BY <1>1
    <3> HIDE DEF m, k
    <3> QED  BY <1>3, <1>5, <2>1, <3>1, <3>2
  <2>4. \E i \in 1 .. Refs : refs[i].straitc = k
    <3>1. CASE m >= n
      <4>1. h # j  BY <1>1, <1>2, <2>2, <3>1
      <4> QED  BY <1>5, <2>2, <3>1, <4>1
    <3>2. CASE ~(m >= n)  BY <1>3, <1>5, <3>2
    <3> QED  BY <3>1, <3>2
  <2>5. StraitSizes(s) = { refs[i].straitc : i \in 1 .. Refs }  BY <1>4 DEF StraitSizes
  <2>6. StraitSizes(s) \in SUBSET Nat  BY <1>5, <2>5 DEF RefArray
  <2>7. k \in StraitSizes(s) /\ \A y \in StraitSizes(s) : y <= k  BY <2>3, <2>4, <2>5
  <2> QED  BY <2>6, <2>7, MaxUnique
<1>10. s \in Garbage
  <2>1. t.pagesc + n \in Int /\ t.refc + 1 \in Nat  BY <1>1
  <2>2. t.pleft \in Nat /\ t.pright \in Nat  BY <1>1 DEF Garbage
  <2>3. s = [refs |-> s.refs, refc |-> s.refc, pagesc |-> s.pagesc,
             largeststrait |-> s.largeststrait, pleft |-> s.pleft, pright |-> s.pright]
    <3>1. t \in Garbage  BY <1>1
    <3>2. DOMAIN t = {"refs", "refc", "pagesc", "largeststrait", "pleft", "pright"}
       BY ONLY <3>1 DEF Garbage
    <3>3. DOMAIN s = DOMAIN t /\ s = [f \in DOMAIN s |-> s[f]]  BY ONLY <3>1 DEF Put, s
    <3> QED  BY ONLY <3>2, <3>3
  <2> HIDE DEF k
  <2> QED  BY <1>4, <1>5, <1>8, <2>1, <2>2, <2>3 DEF Garbage
<1>11. s.pagesc = Cardinality(RefUnits(s))
  <2>1. n <= MaxPid  BY DEF Pids
  <2>2. s.refs \in RefArray /\ s.refs[j] = z
        /\ \A i \in 1 .. Refs : i # j => s.refs[i] = t.refs[i]
     BY <1>4, <1>5
  <2>3. Cardinality(RefUnits(s)) = Cardinality(RefUnits(t)) + n
     BY <1>1, <1>2, <1>3, <2>1, <2>2, UnitsGrow
  <2> QED  BY <1>1, <1>4, <2>3 DEF Counted
<1> QED  BY <1>4, <1>6, <1>7, <1>8, <1>9, <1>10, <1>11 DEF PageOK, Counted, s, z
-----------------------------------------------------------------------------
(* Who owns a page: the file has e pages, tr is the garbage chapter, u says *)
(* how many callers have a page                                            *)

PagesOf(tr, p, j) == Strait(tr[p].refs[j].ref, tr[p].refs[j].straitc)

\* Every page has one owner: a caller, the chapter or a reference.
Owned(e, tr, u) ==
    /\ e \in FirstPid .. MaxPid + 1
    /\ DOMAIN tr \subseteq Pids /\ tr \in [DOMAIN tr -> Garbage]
    /\ u \in [Pids -> {0, 1}]
    /\ \A p \in DOMAIN tr : PageOK(tr[p], e) /\ p < e
    /\ \A q \in Pids : u[q] = 1 => q < e /\ q \notin DOMAIN tr
    /\ \A p \in DOMAIN tr, j \in 1 .. Refs :
         \A q \in PagesOf(tr, p, j) : q \notin DOMAIN tr /\ u[q] = 0
    /\ \A p, r \in DOMAIN tr, j, i \in 1 .. Refs :
         \A q \in PagesOf(tr, p, j) : q \in PagesOf(tr, r, i) => p = r /\ j = i
    /\ \A q \in FirstPid .. e - 1 :
         \/ u[q] = 1 \/ q \in DOMAIN tr
         \/ \E p \in DOMAIN tr, j \in 1 .. Refs : q \in PagesOf(tr, p, j)

Plus(u, S, k) == [q \in Pids |-> IF q \in S THEN u[q] + k ELSE u[q]]

\* The pages of references are pages of the file.
LEMMA PagesInside ==
    ASSUME NEW e, NEW tr, NEW u, Owned(e, tr, u), NEW p \in DOMAIN tr, NEW j \in 1 .. Refs
    PROVE  /\ PagesOf(tr, p, j) \subseteq FirstPid .. e - 1
           /\ PagesOf(tr, p, j) \subseteq Pids
           /\ tr[p].refs[j].ref = 0 => PagesOf(tr, p, j) = {}
<1> DEFINE r == tr[p].refs[j]
<1>1. e \in Nat /\ e <= MaxPid + 1 /\ PageOK(tr[p], e)  BY DEF Owned
<1>2. tr[p] \in Garbage /\ RefOK(r, e)  BY <1>1 DEF PageOK
<1>3. CASE r = NullRef  BY <1>3 DEF PagesOf, Strait, NullRef
<1>4. CASE r # NullRef
  <2>1. r.ref \in Pids /\ r.straitc \in Nat \ {0} /\ r.ref + r.straitc <= e
     BY <1>2, <1>4 DEF RefOK
  <2> HIDE DEF r
  <2>2. Strait(r.ref, r.straitc) \subseteq FirstPid .. e - 1  BY <1>1, <2>1 DEF Strait, Pids
  <2>3. r.ref # 0  BY <2>1 DEF Pids
  <2> QED  BY <1>1, <2>2, <2>3 DEF PagesOf, r, Pids
<1> QED  BY <1>3, <1>4

\* A strait is recycled: its pages go from a reference to a caller.
LEMMA OwnedSteal ==
    ASSUME NEW e, NEW tr, NEW u, Owned(e, tr, u), NEW p \in DOMAIN tr, NEW j \in 1 .. Refs,
           NEW n \in Nat \ {0}, tr[p].refs[j].ref # 0, n <= tr[p].refs[j].straitc
    PROVE  LET id == tr[p].refs[j].ref IN
           /\ id \in Pids /\ Strait(id, n) \subseteq Pids
           /\ \A q \in Strait(id, n) : u[q] = 0 /\ q \notin DOMAIN tr
           /\ Owned(e, [tr EXCEPT ![p] = Steal(tr[p], j, n)], Plus(u, Strait(id, n), 1))
<1> DEFINE id == tr[p].refs[j].ref
           c == tr[p].refs[j].straitc
           S == Strait(id, n)
           tr2 == [tr EXCEPT ![p] = Steal(tr[p], j, n)]
           u2 == Plus(u, S, 1)
<1>1. e \in FirstPid .. MaxPid + 1 /\ PageOK(tr[p], e) /\ tr[p] \in Garbage
   BY DEF Owned, PageOK
<1>2. /\ PageOK(Steal(tr[p], j, n), e)
      /\ Steal(tr[p], j, n).refs = [tr[p].refs EXCEPT ![j] = Rest(tr[p].refs[j], n)]
  <2> DEFINE t == tr[p]
  <2>1. PageOK(t, e) /\ t.refs[j].ref # 0 /\ n <= t.refs[j].straitc  BY <1>1
  <2> HIDE DEF t
  <2>2. /\ PageOK(Steal(t, j, n), e)
        /\ Steal(t, j, n).refs = [t.refs EXCEPT ![j] = Rest(t.refs[j], n)]
     BY <1>1, <2>1, StealIs
  <2> QED  BY <2>2 DEF t
<1>3. id \in Pids /\ c \in Nat \ {0} /\ id + c <= e
   BY <1>1 DEF PageOK, RefOK, NullRef
<1>4. DOMAIN tr2 = DOMAIN tr /\ tr2 \in [DOMAIN tr2 -> Garbage]
      /\ tr2[p] = Steal(tr[p], j, n) /\ \A r \in DOMAIN tr : r # p => tr2[r] = tr[r]
   BY <1>2 DEF Owned, PageOK
<1>5. S \subseteq PagesOf(tr, p, j)  BY <1>3 DEF PagesOf, Strait, Pids
<1>6. /\ PagesOf(tr2, p, j) = PagesOf(tr, p, j) \ S
      /\ \A i \in 1 .. Refs : i # j => PagesOf(tr2, p, i) = PagesOf(tr, p, i)
      /\ \A r \in DOMAIN tr, i \in 1 .. Refs : r # p => PagesOf(tr2, r, i) = PagesOf(tr, r, i)
  <2>1. tr[p].refs \in RefArray  BY <1>1 DEF Garbage
  <2>2. tr2[p].refs[j] = Rest(tr[p].refs[j], n)
        /\ \A i \in 1 .. Refs : i # j => tr2[p].refs[i] = tr[p].refs[i]
     BY <1>2, <1>4, <2>1 DEF RefArray
  <2>3. PagesOf(tr2, p, j) = PagesOf(tr, p, j) \ S
    <3>1. CASE c = n
      <4>1. tr2[p].refs[j] = NullRef  BY <2>2, <3>1 DEF Rest
      <4>2. PagesOf(tr2, p, j) = {}  BY <4>1 DEF PagesOf, Strait, NullRef
      <4>3. S = PagesOf(tr, p, j)  BY <3>1 DEF PagesOf
      <4> QED  BY <4>2, <4>3
    <3>2. CASE c # n
      <4>1. tr2[p].refs[j] = [ref |-> id + n, straitc |-> c - n]  BY <2>2, <3>2 DEF Rest
      <4>2. PagesOf(tr2, p, j) = id + n .. (id + n) + (c - n) - 1
         BY <4>1 DEF PagesOf, Strait
      <4>3. PagesOf(tr, p, j) = id .. id + c - 1  BY DEF PagesOf, Strait
      <4>4. S = id .. id + n - 1  BY DEF Strait
      <4>5. id \in Nat  BY <1>3 DEF Pids
      <4> HIDE DEF id, c, S, tr2
      <4> QED  BY <1>3, <3>2, <4>2, <4>3, <4>4, <4>5
    <3> QED  BY <3>1, <3>2
  <2>4. \A i \in 1 .. Refs : i # j => PagesOf(tr2, p, i) = PagesOf(tr, p, i)
     BY <2>2 DEF PagesOf
  <2>5. \A r \in DOMAIN tr, i \in 1 .. Refs : r # p => PagesOf(tr2, r, i) = PagesOf(tr, r, i)
     BY <1>4 DEF PagesOf
  <2> QED  BY <2>3, <2>4, <2>5
<1>7. S \subseteq Pids /\ \A q \in S : u[q] = 0 /\ q \notin DOMAIN tr
   BY <1>5, PagesInside DEF Owned
<1> HIDE DEF S, tr2, id, c
<1>8. /\ u2 \in [Pids -> {0, 1}]
      /\ \A q \in S : u2[q] = 1
      /\ \A q \in Pids : q \notin S => u2[q] = u[q]
   BY <1>7 DEF Owned, Plus
<1> HIDE DEF u2
<1>9. \A r \in DOMAIN tr, i \in 1 .. Refs :
        /\ PagesOf(tr2, r, i) \subseteq PagesOf(tr, r, i)
        /\ PagesOf(tr2, r, i) \subseteq Pids
        /\ \A q \in PagesOf(tr2, r, i) : q \notin S
        /\ \A q \in PagesOf(tr, r, i) : q \in S \/ q \in PagesOf(tr2, r, i)
  <2>1. TAKE r \in DOMAIN tr, i \in 1 .. Refs
  <2>2. PagesOf(tr, r, i) \subseteq Pids  BY PagesInside
  <2>3. ASSUME r # p \/ i # j PROVE \A q \in PagesOf(tr, r, i) : q \notin S
     BY <1>5, <2>3 DEF Owned
  <2> QED  BY <1>6, <2>2, <2>3
<1>10. Owned(e, tr2, u2)
  <2>1. \A r \in DOMAIN tr2 : PageOK(tr2[r], e) /\ r < e  BY <1>2, <1>4 DEF Owned
  <2>2. \A q \in Pids : u2[q] = 1 => q < e /\ q \notin DOMAIN tr2
    <3>1. \A q \in S : q < e
      <4>1. S \subseteq FirstPid .. e - 1  BY <1>5, PagesInside
      <4> QED  BY <1>1, <4>1
    <3> QED  BY <1>4, <1>7, <1>8, <3>1 DEF Owned
  <2>3. \A r \in DOMAIN tr2, i \in 1 .. Refs :
          \A q \in PagesOf(tr2, r, i) : q \notin DOMAIN tr2 /\ u2[q] = 0
     BY <1>4, <1>8, <1>9 DEF Owned
  <2>4. \A r, w \in DOMAIN tr2, i, k \in 1 .. Refs :
          \A q \in PagesOf(tr2, r, i) : q \in PagesOf(tr2, w, k) => r = w /\ i = k
     BY <1>4, <1>9 DEF Owned
  <2>5. ASSUME NEW q \in FirstPid .. e - 1
        PROVE  \/ u2[q] = 1 \/ q \in DOMAIN tr2
               \/ \E r \in DOMAIN tr2, i \in 1 .. Refs : q \in PagesOf(tr2, r, i)
    <3>1. q \in Pids  BY <1>1 DEF Pids
    <3>2. CASE q \in S  BY <1>8, <3>2
    <3>3. CASE q \notin S
      <4>1. \/ u[q] = 1 \/ q \in DOMAIN tr
            \/ \E r \in DOMAIN tr, i \in 1 .. Refs : q \in PagesOf(tr, r, i)
         BY DEF Owned
      <4> QED  BY <1>4, <1>8, <1>9, <3>1, <3>3, <4>1
    <3> QED  BY <3>2, <3>3
  <2>6. DOMAIN tr2 \subseteq Pids  BY <1>4 DEF Owned
  <2> QED  BY <1>1, <1>4, <1>8, <2>1, <2>2, <2>3, <2>4, <2>5, <2>6 DEF Owned
<1> QED  BY <1>3, <1>7, <1>10 DEF S, tr2, u2, id
\* A strait is deleted: its pages go from their caller to a null reference.
LEMMA OwnedPut ==
    ASSUME NEW e, NEW tr, NEW u, Owned(e, tr, u), NEW p \in DOMAIN tr, NEW j \in 1 .. Refs,
           tr[p].refs[j].ref = 0, NEW id \in Pids, NEW n \in Nat \ {0},
           \A q \in Strait(id, n) : q \in Pids /\ u[q] = 1
    PROVE  /\ PageOK(Put(tr[p], j, id, n), e)
           /\ Owned(e, [tr EXCEPT ![p] = Put(tr[p], j, id, n)], Plus(u, Strait(id, n), -1))
<1> DEFINE S == Strait(id, n)
           tr2 == [tr EXCEPT ![p] = Put(tr[p], j, id, n)]
           u2 == Plus(u, S, -1)
<1>1. e \in FirstPid .. MaxPid + 1 /\ PageOK(tr[p], e) /\ tr[p] \in Garbage
   BY DEF Owned, PageOK
<1>2. id + n <= e
  <2>1. id + n - 1 \in S  BY DEF Strait, Pids
  <2>2. id + n - 1 < e  BY <2>1 DEF Owned
  <2> QED  BY <1>1, <2>2 DEF Pids
<1>3. /\ PageOK(Put(tr[p], j, id, n), e)
      /\ Put(tr[p], j, id, n).refs = [tr[p].refs EXCEPT ![j] = [ref |-> id, straitc |-> n]]
   BY <1>1, <1>2, PutIs
<1>4. DOMAIN tr2 = DOMAIN tr /\ tr2 \in [DOMAIN tr2 -> Garbage]
      /\ tr2[p] = Put(tr[p], j, id, n) /\ \A r \in DOMAIN tr : r # p => tr2[r] = tr[r]
   BY <1>3 DEF Owned, PageOK
<1>5. /\ PagesOf(tr2, p, j) = S /\ PagesOf(tr, p, j) = {}
      /\ \A i \in 1 .. Refs : i # j => PagesOf(tr2, p, i) = PagesOf(tr, p, i)
      /\ \A r \in DOMAIN tr, i \in 1 .. Refs : r # p => PagesOf(tr2, r, i) = PagesOf(tr, r, i)
  <2>1. tr[p].refs \in RefArray  BY <1>1 DEF Garbage
  <2>2. tr2[p].refs[j] = [ref |-> id, straitc |-> n]
        /\ \A i \in 1 .. Refs : i # j => tr2[p].refs[i] = tr[p].refs[i]
    <3> DEFINE t == tr[p].refs
               z == [ref |-> id, straitc |-> n]
    <3>1. DOMAIN t = 1 .. Refs  BY <2>1 DEF RefArray
    <3>2. tr2[p].refs = [t EXCEPT ![j] = z]  BY <1>3, <1>4
    <3> HIDE DEF t, z, tr2
    <3>3. tr2[p].refs[j] = z /\ \A i \in 1 .. Refs : i # j => tr2[p].refs[i] = t[i]
       BY <3>1, <3>2
    <3> QED  BY <3>3 DEF t, z
  <2>3. PagesOf(tr2, p, j) = S  BY <2>2 DEF PagesOf
  <2>4. PagesOf(tr, p, j) = {}  BY PagesInside
  <2>5. \A i \in 1 .. Refs : i # j => PagesOf(tr2, p, i) = PagesOf(tr, p, i)
     BY <2>2 DEF PagesOf
  <2>6. \A r \in DOMAIN tr, i \in 1 .. Refs : r # p => PagesOf(tr2, r, i) = PagesOf(tr, r, i)
     BY <1>4 DEF PagesOf
  <2> QED  BY <2>3, <2>4, <2>5, <2>6
<1>6. S \subseteq Pids /\ \A q \in S : u[q] = 1 /\ q \notin DOMAIN tr /\ q < e
   BY DEF Owned
<1> HIDE DEF S, tr2
<1>7. /\ u2 \in [Pids -> {0, 1}]
      /\ \A q \in S : u2[q] = 0
      /\ \A q \in Pids : q \notin S => u2[q] = u[q]
   BY <1>6 DEF Owned, Plus
<1> HIDE DEF u2
<1>8. \A r \in DOMAIN tr, i \in 1 .. Refs :
        /\ PagesOf(tr, r, i) \subseteq PagesOf(tr2, r, i)
        /\ PagesOf(tr2, r, i) \subseteq Pids
        /\ \A q \in PagesOf(tr, r, i) : q \notin S
        /\ \A q \in PagesOf(tr2, r, i) : q \in PagesOf(tr, r, i) \/ (q \in S /\ r = p /\ i = j)
  <2>1. TAKE r \in DOMAIN tr, i \in 1 .. Refs
  <2>2. PagesOf(tr, r, i) \subseteq Pids  BY PagesInside
  <2>3. \A q \in PagesOf(tr, r, i) : q \notin S
    <3>1. \A q \in PagesOf(tr, r, i) : u[q] = 0  BY DEF Owned
    <3> QED  BY <1>6, <3>1
  <2> QED  BY <1>5, <1>6, <2>2, <2>3
<1>9. Owned(e, tr2, u2)
  <2>1. \A r \in DOMAIN tr2 : PageOK(tr2[r], e) /\ r < e  BY <1>3, <1>4 DEF Owned
  <2>2. \A q \in Pids : u2[q] = 1 => q < e /\ q \notin DOMAIN tr2
     BY <1>4, <1>6, <1>7 DEF Owned
  <2>3. \A r \in DOMAIN tr2, i \in 1 .. Refs :
          \A q \in PagesOf(tr2, r, i) : q \notin DOMAIN tr2 /\ u2[q] = 0
     BY <1>4, <1>6, <1>7, <1>8 DEF Owned
  <2>4. \A r, w \in DOMAIN tr2, i, k \in 1 .. Refs :
          \A q \in PagesOf(tr2, r, i) : q \in PagesOf(tr2, w, k) => r = w /\ i = k
     BY <1>4, <1>8 DEF Owned
  <2>5. ASSUME NEW q \in FirstPid .. e - 1
        PROVE  \/ u2[q] = 1 \/ q \in DOMAIN tr2
               \/ \E r \in DOMAIN tr2, i \in 1 .. Refs : q \in PagesOf(tr2, r, i)
    <3>1. q \in Pids  BY <1>1 DEF Pids
    <3>2. CASE q \in S  BY <1>4, <1>5, <3>2
    <3>3. CASE q \notin S
      <4>1. \/ u[q] = 1 \/ q \in DOMAIN tr
            \/ \E r \in DOMAIN tr, i \in 1 .. Refs : q \in PagesOf(tr, r, i)
         BY DEF Owned
      <4> QED  BY <1>4, <1>7, <1>8, <3>1, <3>3, <4>1
    <3> QED  BY <3>2, <3>3
  <2>6. DOMAIN tr2 \subseteq Pids  BY <1>4 DEF Owned
  <2> QED  BY <1>1, <1>4, <1>7, <2>1, <2>2, <2>3, <2>4, <2>5, <2>6 DEF Owned
<1> QED  BY <1>3, <1>9 DEF S, tr2, u2

\* The file grows: the new pages are a caller's.
LEMMA OwnedGrow ==
    ASSUME NEW e, NEW tr, NEW u, Owned(e, tr, u), NEW n \in Nat \ {0}, e + n - 1 <= MaxPid
    PROVE  /\ e \in Pids /\ Strait(e, n) \subseteq Pids
           /\ \A q \in Strait(e, n) : u[q] = 0 /\ q \notin DOMAIN tr
           /\ Owned(e + n, tr, Plus(u, Strait(e, n), 1))
<1> DEFINE S == Strait(e, n)
           u2 == Plus(u, S, 1)
           f == e + n
<1>1. e \in FirstPid .. MaxPid + 1 /\ f \in FirstPid .. MaxPid + 1 /\ e <= f /\ e \in Nat
   BY DEF Owned
<1>2. S \subseteq Pids /\ e \in Pids /\ \A q \in Pids : q \in S <=> (e <= q /\ q < f)
   BY <1>1 DEF Strait, Pids
<1>3. \A q \in S : u[q] = 0 /\ q \notin DOMAIN tr
  <2>1. TAKE q \in S
  <2>2. q \in Pids /\ ~(q < e) /\ q \in Nat  BY <1>1, <1>2 DEF Pids
  <2>3. u[q] \in {0, 1}  BY <2>2 DEF Owned
  <2> QED  BY <2>2, <2>3 DEF Owned
<1>4. \A p \in DOMAIN tr : PageOK(tr[p], f) /\ p < f
  <2>1. TAKE p \in DOMAIN tr
  <2>2. PageOK(tr[p], e) /\ p < e /\ p \in Nat  BY DEF Owned, Pids
  <2>3. ASSUME NEW j \in 1 .. Refs PROVE RefOK(tr[p].refs[j], f)
    <3>1. RefOK(tr[p].refs[j], e)  BY <2>2 DEF PageOK
    <3> QED  BY <1>1, <3>1 DEF RefOK, Pids
  <2> QED  BY <1>1, <2>2, <2>3 DEF PageOK
<1> HIDE DEF S
<1>5. /\ u2 \in [Pids -> {0, 1}]
      /\ \A q \in S : u2[q] = 1
      /\ \A q \in Pids : q \notin S => u2[q] = u[q]
   BY <1>2, <1>3 DEF Owned, Plus
<1> HIDE DEF u2
<1>6. \A p \in DOMAIN tr, j \in 1 .. Refs :
        \A q \in PagesOf(tr, p, j) : q \in Pids /\ q \notin S /\ u[q] = 0 /\ q \notin DOMAIN tr
  <2>1. TAKE p \in DOMAIN tr, j \in 1 .. Refs
  <2>2. TAKE q \in PagesOf(tr, p, j)
  <2>3. q \in FirstPid .. e - 1 /\ q \in Pids  BY PagesInside
  <2>4. ~(e <= q)  BY <1>1, <2>3
  <2> QED  BY <1>2, <2>3, <2>4 DEF Owned
<1>7. Owned(f, tr, u2)
  <2>1. \A q \in Pids : u2[q] = 1 => q < f /\ q \notin DOMAIN tr
    <3>1. TAKE q \in Pids
    <3>2. q \in Nat  BY DEF Pids
    <3>3. CASE q \in S  BY <1>2, <1>3, <3>3
    <3>4. CASE q \notin S
      <4>1. u2[q] = 1 => q < e /\ q \notin DOMAIN tr  BY <1>5, <3>4 DEF Owned
      <4> QED  BY <1>1, <3>2, <4>1
    <3> QED  BY <3>3, <3>4
  <2>2. \A p \in DOMAIN tr, j \in 1 .. Refs :
          \A q \in PagesOf(tr, p, j) : q \notin DOMAIN tr /\ u2[q] = 0
     BY <1>5, <1>6
  <2>3. ASSUME NEW q \in FirstPid .. f - 1
        PROVE  \/ u2[q] = 1 \/ q \in DOMAIN tr
               \/ \E r \in DOMAIN tr, i \in 1 .. Refs : q \in PagesOf(tr, r, i)
    <3>1. q \in Pids /\ q < f  BY <1>1 DEF Pids
    <3>2. CASE q \in S  BY <1>5, <3>2
    <3>3. CASE q \notin S
      <4>1. q \in FirstPid .. e - 1  BY <1>1, <1>2, <3>1, <3>3
      <4>2. \/ u[q] = 1 \/ q \in DOMAIN tr
            \/ \E r \in DOMAIN tr, i \in 1 .. Refs : q \in PagesOf(tr, r, i)
         BY <4>1 DEF Owned
      <4> QED  BY <1>5, <3>1, <3>3, <4>2
    <3> QED  BY <3>2, <3>3
  <2> HIDE DEF f
  <2> QED  BY <1>1, <1>4, <1>5, <2>1, <2>2, <2>3 DEF Owned
<1> QED  BY <1>2, <1>3, <1>7 DEF S, u2

\* A page a caller has becomes a page of the chapter, with no references.
LEMMA OwnedNew ==
    ASSUME NEW e, NEW tr, NEW u, Owned(e, tr, u), NEW p \in Pids, u[p] = 1,
           NEW t, PageOK(t, e), \A j \in 1 .. Refs : t.refs[j] = NullRef,
           NEW tr2, DOMAIN tr2 = DOMAIN tr \cup {p}, tr2 = [r \in DOMAIN tr2 |-> tr2[r]],
           tr2[p] = t, \A r \in DOMAIN tr : r # p => tr2[r] = tr[r]
    PROVE  p \notin DOMAIN tr /\ Owned(e, tr2, Plus(u, {p}, -1))
<1> DEFINE u2 == Plus(u, {p}, -1)
<1>1. p < e /\ p \notin DOMAIN tr /\ e \in FirstPid .. MaxPid + 1  BY DEF Owned
<1>2. /\ DOMAIN tr2 = DOMAIN tr \cup {p} /\ tr2 \in [DOMAIN tr2 -> Garbage]
      /\ tr2[p] = t /\ \A r \in DOMAIN tr : tr2[r] = tr[r]
   BY <1>1 DEF Owned, PageOK
<1>3. /\ \A j \in 1 .. Refs : PagesOf(tr2, p, j) = {}
      /\ \A r \in DOMAIN tr, j \in 1 .. Refs : PagesOf(tr2, r, j) = PagesOf(tr, r, j)
   BY <1>2 DEF PagesOf, Strait, NullRef
<1>4. \A r \in DOMAIN tr, j \in 1 .. Refs :
        PagesOf(tr, r, j) \subseteq Pids /\ p \notin PagesOf(tr, r, j)
  <2>1. TAKE r \in DOMAIN tr, j \in 1 .. Refs
  <2>2. \A q \in PagesOf(tr, r, j) : u[q] = 0  BY DEF Owned
  <2> QED  BY <2>2, PagesInside
<1>5. u2 \in [Pids -> {0, 1}] /\ u2[p] = 0 /\ \A q \in Pids : q # p => u2[q] = u[q]
   BY DEF Owned, Plus
<1> HIDE DEF u2
<1>6. Owned(e, tr2, u2)
  <2>1. \A r \in DOMAIN tr2 : PageOK(tr2[r], e) /\ r < e  BY <1>1, <1>2 DEF Owned
  <2>2. \A q \in Pids : u2[q] = 1 => q < e /\ q \notin DOMAIN tr2
     BY <1>2, <1>5 DEF Owned
  <2>3. \A r \in DOMAIN tr2, i \in 1 .. Refs :
          \A q \in PagesOf(tr2, r, i) : q \notin DOMAIN tr2 /\ u2[q] = 0
     BY <1>2, <1>3, <1>4, <1>5 DEF Owned
  <2>4. \A r, w \in DOMAIN tr2, i, k \in 1 .. Refs :
          \A q \in PagesOf(tr2, r, i) : q \in PagesOf(tr2, w, k) => r = w /\ i = k
     BY <1>2, <1>3 DEF Owned
  <2>5. ASSUME NEW q \in FirstPid .. e - 1
        PROVE  \/ u2[q] = 1 \/ q \in DOMAIN tr2
               \/ \E r \in DOMAIN tr2, i \in 1 .. Refs : q \in PagesOf(tr2, r, i)
    <3>1. q \in Pids  BY <1>1 DEF Pids
    <3>2. \/ u[q] = 1 \/ q \in DOMAIN tr
          \/ \E r \in DOMAIN tr, i \in 1 .. Refs : q \in PagesOf(tr, r, i)
       BY DEF Owned
    <3> QED  BY <1>2, <1>3, <1>5, <3>1, <3>2
  <2>6. DOMAIN tr2 \subseteq Pids  BY <1>2 DEF Owned
  <2> QED  BY <1>1, <1>2, <1>5, <2>1, <2>2, <2>3, <2>4, <2>5, <2>6 DEF Owned
<1> QED  BY <1>1, <1>6 DEF u2

\* Links are no matter of ownership.
LEMMA OwnedLink ==
    ASSUME NEW e, NEW tr, NEW u, Owned(e, tr, u), NEW p \in DOMAIN tr, NEW x \in Nat
    PROVE  /\ PageOK([tr[p] EXCEPT !.pright = x], e)
           /\ Owned(e, [tr EXCEPT ![p].pright = x], u)
<1> DEFINE s == [tr[p] EXCEPT !.pright = x]
           tr2 == [tr EXCEPT ![p].pright = x]
<1>1. tr[p] \in Garbage /\ PageOK(tr[p], e)  BY DEF Owned
<1>2. /\ s \in Garbage /\ s.refs = tr[p].refs /\ s.refc = tr[p].refc
      /\ s.largeststrait = tr[p].largeststrait /\ s.pagesc = tr[p].pagesc
   BY <1>1 DEF Garbage
<1>3. PageOK(s, e)  BY <1>1, <1>2 DEF PageOK, Counted, SetRefs, StraitSizes, RefUnits
<1>4. DOMAIN tr2 = DOMAIN tr /\ tr2 \in [DOMAIN tr2 -> Garbage]
      /\ tr2[p] = s /\ \A r \in DOMAIN tr : r # p => tr2[r] = tr[r]
   BY <1>2 DEF Owned
<1> HIDE DEF s, tr2
<1>5. \A r \in DOMAIN tr, j \in 1 .. Refs : PagesOf(tr2, r, j) = PagesOf(tr, r, j)
   BY <1>2, <1>4 DEF PagesOf
<1>6. \A r \in DOMAIN tr2 : PageOK(tr2[r], e) /\ r < e  BY <1>3, <1>4 DEF Owned
<1>7. Owned(e, tr2, u)  BY <1>4, <1>5, <1>6 DEF Owned
<1> QED  BY <1>3, <1>7 DEF s, tr2
-----------------------------------------------------------------------------
(* The chapter as a list: o numbers its pages from ref0 to ref1 *)

InLine(tr, en, o) ==
    /\ IsFiniteSet(DOMAIN tr) /\ en.ref0c = Cardinality(DOMAIN tr)
    /\ en \in [ref0 : Nat, ref0c : Nat, ref1 : Nat]
    /\ o \in [DOMAIN tr -> 1 .. en.ref0c]
    /\ \A p, q \in DOMAIN tr : o[p] = o[q] => p = q
    /\ DOMAIN tr = {} => en.ref1 = 0
    /\ DOMAIN tr # {} => /\ en.ref0 \in DOMAIN tr /\ o[en.ref0] = 1
                         /\ en.ref1 \in DOMAIN tr /\ o[en.ref1] = en.ref0c
    /\ \A p \in DOMAIN tr : IF o[p] = 1 THEN tr[p].pleft = 0
                            ELSE tr[p].pleft \in DOMAIN tr /\ o[tr[p].pleft] = o[p] - 1
    /\ \A p \in DOMAIN tr : IF o[p] = en.ref0c THEN tr[p].pright = 0
                            ELSE tr[p].pright \in DOMAIN tr /\ o[tr[p].pright] = o[p] + 1

\* The window is a run of the list, and there are no references to its right.
Windowed(tr, w, o) ==
    /\ w \in Seq(DOMAIN tr) /\ Len(w) <= Window
    /\ w = << >> <=> DOMAIN tr = {}
    /\ \A i \in 1 .. Len(w) : o[w[i]] = o[w[1]] - (i - 1)
    /\ w # << >> => \A p \in DOMAIN tr : o[p] > o[w[1]] => tr[p].refc = 0

\* The pages of the list have natural numbers.
LEMMA LineNumbers ==
    ASSUME NEW tr, NEW en, NEW o, InLine(tr, en, o)
    PROVE  \A r \in DOMAIN tr : o[r] \in Nat /\ o[r] >= 1 /\ o[r] <= en.ref0c
<1>1. o \in [DOMAIN tr -> 1 .. en.ref0c] /\ en.ref0c \in Nat  BY DEF InLine
<1> QED  BY ONLY <1>1

\* What only changes the references of pages in the window keeps both.
LEMMA LineKept ==
    ASSUME NEW tr, NEW en, NEW w, NEW o, InLine(tr, en, o), Windowed(tr, w, o),
           NEW i \in 1 .. Len(w), NEW t, t.pleft = tr[w[i]].pleft, t.pright = tr[w[i]].pright
    PROVE  LET s == [tr EXCEPT ![w[i]] = t] IN InLine(s, en, o) /\ Windowed(s, w, o)
<1> DEFINE q == w[i]
           s == [tr EXCEPT ![q] = t]
<1>1. q \in DOMAIN tr /\ w # << >> /\ w[1] \in DOMAIN tr  BY DEF Windowed
<1>2. o[q] = o[w[1]] - (i - 1) /\ o[q] \in Nat /\ o[w[1]] \in Nat
  <2>1. o[q] = o[w[1]] - (i - 1)  BY Zenon DEF Windowed
  <2>2. \A r \in DOMAIN tr : o[r] \in Nat  BY LineNumbers
  <2> QED  BY <1>1, <2>1, <2>2
<1>3. ~(o[q] > o[w[1]])  BY <1>2
<1> HIDE DEF q
<1>4. DOMAIN s = DOMAIN tr /\ s[q] = t /\ \A r \in DOMAIN tr : r # q => s[r] = tr[r]
   BY <1>1
<1>5. \A r \in DOMAIN tr : s[r].pleft = tr[r].pleft /\ s[r].pright = tr[r].pright
   BY <1>4 DEF q
<1>6. \A r \in DOMAIN tr : o[r] > o[w[1]] => s[r].refc = tr[r].refc
   BY <1>3, <1>4
<1> HIDE DEF s
<1>7. InLine(s, en, o)
  <2>1. \A r \in DOMAIN s : IF o[r] = 1 THEN s[r].pleft = 0
                            ELSE s[r].pleft \in DOMAIN s /\ o[s[r].pleft] = o[r] - 1
    <3>1. TAKE r \in DOMAIN s
    <3>2. r \in DOMAIN tr /\ s[r].pleft = tr[r].pleft  BY <1>4, <1>5
    <3>3. IF o[r] = 1 THEN tr[r].pleft = 0
          ELSE tr[r].pleft \in DOMAIN tr /\ o[tr[r].pleft] = o[r] - 1
       BY <3>2 DEF InLine
    <3> QED  BY <1>4, <3>2, <3>3
  <2>2. \A r \in DOMAIN s : IF o[r] = en.ref0c THEN s[r].pright = 0
                            ELSE s[r].pright \in DOMAIN s /\ o[s[r].pright] = o[r] + 1
    <3>1. TAKE r \in DOMAIN s
    <3>2. r \in DOMAIN tr /\ s[r].pright = tr[r].pright  BY <1>4, <1>5
    <3>3. IF o[r] = en.ref0c THEN tr[r].pright = 0
          ELSE tr[r].pright \in DOMAIN tr /\ o[tr[r].pright] = o[r] + 1
       BY <3>2 DEF InLine
    <3> QED  BY <1>4, <3>2, <3>3
  <2>3. /\ IsFiniteSet(DOMAIN s) /\ en.ref0c = Cardinality(DOMAIN s)
        /\ en \in [ref0 : Nat, ref0c : Nat, ref1 : Nat]
        /\ o \in [DOMAIN s -> 1 .. en.ref0c]
        /\ \A p, r \in DOMAIN s : o[p] = o[r] => p = r
        /\ DOMAIN s = {} => en.ref1 = 0
        /\ DOMAIN s # {} => /\ en.ref0 \in DOMAIN s /\ o[en.ref0] = 1
                            /\ en.ref1 \in DOMAIN s /\ o[en.ref1] = en.ref0c
     BY <1>4, Zenon DEF InLine
  <2> QED  BY <2>1, <2>2, <2>3, Zenon DEF InLine
<1>8. Windowed(s, w, o)  BY <1>4, <1>6 DEF Windowed
<1> QED  BY <1>7, <1>8 DEF s, q

\* The window moves to the left past an empty page.
LEMMA LeftKept ==
    ASSUME NEW tr, NEW en, NEW w, NEW o, InLine(tr, en, o), Windowed(tr, w, o), w # << >>,
           tr[w[Len(w)]].pleft # 0, tr[w[1]].refc = 0
    PROVE  Windowed(tr, Append(Tail(w), tr[w[Len(w)]].pleft), o)
<1> DEFINE k == Len(w)
           x == tr[w[k]].pleft
           v == Append(Tail(w), x)
<1>1. w \in Seq(DOMAIN tr) /\ k \in Nat \ {0} /\ \A i \in 1 .. k : w[i] \in DOMAIN tr
   BY DEF Windowed
<1>2. \A i \in 1 .. k : o[w[i]] \in Nat /\ o[w[i]] = o[w[1]] - (i - 1)
  <2>1. \A i \in 1 .. k : o[w[i]] = o[w[1]] - (i - 1)  BY Zenon DEF Windowed
  <2>2. \A r \in DOMAIN tr : o[r] \in Nat  BY LineNumbers
  <2> QED  BY <1>1, <2>1, <2>2
<1>3. x \in DOMAIN tr /\ o[x] = o[w[k]] - 1  BY <1>1 DEF InLine
<1> HIDE DEF x
<1>4. v \in Seq(DOMAIN tr) /\ Len(v) = k /\ v[k] = x /\ \A i \in 1 .. k - 1 : v[i] = w[i + 1]
   BY <1>1, <1>3
<1> HIDE DEF v, k
<1>5. \A i \in 1 .. k : o[v[i]] = o[w[1]] - i
  <2>1. TAKE i \in 1 .. k
  <2>2. CASE i = k
    <3>1. o[w[k]] = o[w[1]] - (k - 1) /\ o[w[1]] \in Nat  BY <1>1, <1>2
    <3> QED  BY <1>1, <1>3, <1>4, <2>2, <3>1
  <2>3. CASE i # k
    <3>1. i \in 1 .. k - 1 /\ i + 1 \in 1 .. k  BY <1>1, <2>3
    <3>2. o[w[i + 1]] = o[w[1]] - ((i + 1) - 1) /\ o[w[1]] \in Nat  BY <1>1, <1>2, <3>1
    <3> QED  BY <1>4, <3>1, <3>2
  <2> QED  BY <2>2, <2>3
<1>6. o[v[1]] = o[w[1]] - 1 /\ o[w[1]] \in Nat  BY <1>1, <1>2, <1>5
<1>7. \A i \in 1 .. Len(v) : o[v[i]] = o[v[1]] - (i - 1)
  <2>1. TAKE i \in 1 .. Len(v)
  <2>2. i \in 1 .. k /\ i \in Nat  BY <1>1, <1>4
  <2>3. o[v[i]] = o[w[1]] - i  BY <1>5, <2>2
  <2> QED  BY <1>6, <2>2, <2>3
<1>8. \A p \in DOMAIN tr : o[p] > o[v[1]] => tr[p].refc = 0
  <2>1. SUFFICES ASSUME NEW p \in DOMAIN tr, o[p] > o[v[1]] PROVE tr[p].refc = 0
     OBVIOUS
  <2>2. o[p] \in Nat  BY DEF InLine
  <2>3. o[p] = o[w[1]] \/ o[p] > o[w[1]]  BY <1>6, <2>1, <2>2
  <2>4. CASE o[p] = o[w[1]]
    <3>1. p = w[1]  BY <1>1, <2>4 DEF InLine
    <3> QED  BY <3>1
  <2>5. CASE o[p] > o[w[1]]  BY <2>5 DEF Windowed
  <2> QED  BY <2>3, <2>4, <2>5
<1>9. v # << >> /\ DOMAIN tr # {}  BY <1>1, <1>3, <1>4
<1>10. k <= Window  BY DEF Windowed, k
<1>11. Windowed(tr, v, o)  BY <1>4, <1>7, <1>8, <1>9, <1>10 DEF Windowed
<1> QED  BY <1>11 DEF v, x, k

\* A page put in front of a window.
InFront(p, w) == <<p>> \o (IF Len(w) = Window THEN Front(w) ELSE w)

\* It leaves the pages behind it in their order.
LEMMA FrontOf ==
    ASSUME NEW S, NEW p \in S, NEW w \in Seq(S), Len(w) <= Window
    PROVE  /\ InFront(p, w) \in Seq(S) /\ InFront(p, w) # << >>
           /\ Len(InFront(p, w)) <= Window /\ InFront(p, w)[1] = p
           /\ \A i \in 1 .. Len(InFront(p, w)) - 1 : i <= Len(w) /\ InFront(p, w)[i + 1] = w[i]
<1>1. CASE Len(w) = Window
  <2> DEFINE f == Front(w)
  <2>1. f \in Seq(S) /\ Len(f) = Window - 1 /\ \A i \in 1 .. Window - 1 : f[i] = w[i]
     BY <1>1 DEF Front
  <2> HIDE DEF f
  <2>2. LET v == <<p>> \o f IN
           /\ v \in Seq(S) /\ Len(v) = Window /\ v[1] = p
           /\ \A i \in 1 .. Window - 1 : v[i + 1] = f[i]
     BY <2>1
  <2> QED  BY <1>1, <2>1, <2>2 DEF f, InFront
<1>2. CASE Len(w) # Window
  <2>1. LET v == <<p>> \o w IN
           /\ v \in Seq(S) /\ Len(v) = Len(w) + 1 /\ v[1] = p
           /\ \A i \in 1 .. Len(w) : v[i + 1] = w[i]
     OBVIOUS
  <2>2. Len(w) \in Nat /\ Len(w) < Window  BY <1>2
  <2> QED  BY <1>2, <2>1, <2>2 DEF InFront
<1> QED  BY <1>1, <1>2

\* The window moves to the right.
LEMMA RightKept ==
    ASSUME NEW tr, NEW en, NEW w, NEW o, InLine(tr, en, o), Windowed(tr, w, o), w # << >>,
           tr[w[1]].pright # 0
    PROVE  LET p == tr[w[1]].pright IN
           /\ p \in DOMAIN tr
           /\ tr[p].refc = 0
           /\ Windowed(tr, InFront(p, w), o)
<1> DEFINE p == tr[w[1]].pright
           v == InFront(p, w)
<1>1. w \in Seq(DOMAIN tr) /\ Len(w) \in Nat \ {0} /\ Len(w) <= Window
      /\ \A i \in 1 .. Len(w) : w[i] \in DOMAIN tr
   BY DEF Windowed
<1>2. p \in DOMAIN tr /\ o[p] = o[w[1]] + 1 /\ o[w[1]] \in Nat  BY <1>1 DEF InLine
<1> HIDE DEF p
<1>3. /\ v \in Seq(DOMAIN tr) /\ v # << >> /\ Len(v) <= Window /\ v[1] = p
      /\ \A i \in 1 .. Len(v) - 1 : i <= Len(w) /\ v[i + 1] = w[i]
   BY <1>1, <1>2, FrontOf
<1> HIDE DEF v
<1>4. tr[p].refc = 0  BY <1>2 DEF Windowed
<1>5. ASSUME NEW i \in 1 .. Len(v) PROVE o[v[i]] = o[v[1]] - (i - 1)
  <2>1. CASE i = 1  BY <1>2, <1>3, <2>1
  <2>2. CASE i # 1
    <3>1. i - 1 \in 1 .. Len(v) - 1 /\ (i - 1) + 1 = i  BY <1>3, <2>2
    <3>2. i - 1 <= Len(w) /\ v[i] = w[i - 1]  BY <1>3, <3>1
    <3>3. i - 1 \in 1 .. Len(w)  BY <1>1, <3>1, <3>2
    <3>4. o[w[i - 1]] = o[w[1]] - ((i - 1) - 1)  BY <3>3 DEF Windowed
    <3>5. o[v[i]] = o[w[1]] - ((i - 1) - 1) /\ o[v[1]] = o[w[1]] + 1 /\ i \in Nat
       BY <1>2, <1>3, <3>2, <3>4
    <3>6. \A x \in Nat : x - ((i - 1) - 1) = (x + 1) - (i - 1)  BY ONLY <3>5
    <3> QED  BY ONLY <1>2, <3>5, <3>6
  <2> QED  BY <2>1, <2>2
<1>6. \A r \in DOMAIN tr : o[r] > o[v[1]] => tr[r].refc = 0
  <2>1. SUFFICES ASSUME NEW r \in DOMAIN tr, o[r] > o[v[1]] PROVE tr[r].refc = 0
     OBVIOUS
  <2>2. o[r] \in Nat  BY DEF InLine
  <2>3. o[r] > o[w[1]]  BY <1>2, <1>3, <2>1, <2>2
  <2> QED  BY <2>3 DEF Windowed
<1>7. DOMAIN tr # {}  BY <1>2
<1>8. Windowed(tr, v, o)  BY <1>3, <1>5, <1>6, <1>7 DEF Windowed
<1> QED  BY <1>2, <1>4, <1>8 DEF v, p

\* A new page becomes the newest of the chapter and of the window.
LEMMA NewLine ==
    ASSUME NEW tr, NEW en, NEW w, NEW o, InLine(tr, en, o), Windowed(tr, w, o),
           tr \in [DOMAIN tr -> Garbage], NEW p \in Nat \ {0}, p \notin DOMAIN tr,
           0 \notin DOMAIN tr, w # << >> => tr[w[1]].pright = 0,
           NEW tr2, DOMAIN tr2 = DOMAIN tr \cup {p},
           tr2[p].pleft = en.ref1, tr2[p].pright = 0, tr2[p].refc = 0,
           \A q \in DOMAIN tr : /\ tr2[q].pleft = tr[q].pleft /\ tr2[q].refc = tr[q].refc
                                /\ tr2[q].pright = IF w # << >> /\ q = w[1] THEN p
                                                   ELSE tr[q].pright
    PROVE  LET en2 == [ref0 |-> IF en.ref0c = 0 THEN p ELSE en.ref0,
                       ref0c |-> en.ref0c + 1, ref1 |-> p]
           IN  \E m : InLine(tr2, en2, m) /\ Windowed(tr2, InFront(p, w), m)
<1> DEFINE c == en.ref0c
           D == DOMAIN tr
           en2 == [ref0 |-> IF c = 0 THEN p ELSE en.ref0, ref0c |-> c + 1, ref1 |-> p]
           m == [q \in D \cup {p} |-> IF q = p THEN c + 1 ELSE o[q]]
           v == InFront(p, w)
<1>1. /\ IsFiniteSet(D) /\ c = Cardinality(D) /\ c \in Nat /\ en.ref0 \in Nat /\ en.ref1 \in Nat
      /\ \A q \in D : o[q] \in 1 .. c
      /\ w \in Seq(D) /\ Len(w) <= Window /\ Len(w) \in Nat /\ (w = << >> <=> D = {})
   BY FS_CardinalityType DEF InLine, Windowed
<1>2. m \in [D \cup {p} -> 1 .. c + 1] /\ m[p] = c + 1 /\ \A q \in D : m[q] = o[q] /\ q # p
  <2>1. m[p] = c + 1 /\ \A q \in D : m[q] = o[q] /\ q # p  OBVIOUS
  <2>2. c \in Nat /\ \A q \in D : o[q] \in 1 .. c  BY <1>1
  <2>3. m = [q \in D \cup {p} |-> m[q]]  OBVIOUS
  <2> HIDE DEF m, D, c
  <2>4. c + 1 \in 1 .. c + 1 /\ 1 .. c \subseteq 1 .. c + 1  BY ONLY <2>2
  <2>5. \A q \in D \cup {p} : m[q] \in 1 .. c + 1  BY <2>1, <2>2, <2>4
  <2> QED  BY <2>1, <2>3, <2>5
<1>3. IsFiniteSet(D \cup {p}) /\ Cardinality(D \cup {p}) = c + 1
  <2>1. p \notin D  OBVIOUS
  <2> HIDE DEF D, c, m
  <2> QED  BY <1>1, <2>1, FS_AddElement
<1>4. w # << >> => w[1] \in D /\ w[1] = en.ref1 /\ o[w[1]] = c
  <2>1. SUFFICES ASSUME w # << >> PROVE w[1] \in D /\ w[1] = en.ref1 /\ o[w[1]] = c
     OBVIOUS
  <2>2. w[1] \in D  BY <1>1, <2>1
  <2>3. o[w[1]] = c  BY <2>1, <2>2 DEF InLine
  <2> QED  BY <2>2, <2>3 DEF InLine
<1>5. D = {} <=> c = 0  BY <1>1, FS_EmptySet
<1> HIDE DEF m
<1>6. InLine(tr2, en2, m)
  <2>1. \A q, r \in D \cup {p} : m[q] = m[r] => q = r
    <3>1. \A q \in D : m[q] # m[p] /\ m[q] = o[q]
      <4>1. \A x \in 1 .. c : x # c + 1  BY <1>1
      <4> HIDE DEF c, D
      <4> QED  BY <1>1, <1>2, <4>1
    <3> QED  BY <3>1 DEF InLine
  <2>2. en2.ref0 \in D \cup {p} /\ m[en2.ref0] = 1
    <3>1. CASE c = 0  BY <1>2, <3>1
    <3>2. CASE c # 0  BY <1>2, <1>5, <3>2 DEF InLine
    <3> QED  BY <3>1, <3>2
  <2>3. ASSUME NEW q \in D \cup {p}
        PROVE  IF m[q] = 1 THEN tr2[q].pleft = 0
               ELSE tr2[q].pleft \in D \cup {p} /\ m[tr2[q].pleft] = m[q] - 1
    <3>1. CASE q = p
      <4>1. CASE w = << >>  BY <1>1, <1>2, <1>5, <3>1, <4>1 DEF InLine
      <4>2. CASE w # << >>
        <5>1. tr2[q].pleft = w[1] /\ w[1] \in D /\ m[w[1]] = c /\ m[q] = c + 1 /\ c # 0
           BY <1>1, <1>2, <1>4, <1>5, <3>1, <4>2
        <5>2. c \in Nat  BY <1>1
        <5> HIDE DEF c, D
        <5>3. m[q] # 1 /\ c = m[q] - 1  BY <5>1, <5>2
        <5> QED  BY <5>1, <5>3
      <4> QED  BY <4>1, <4>2
    <3>2. CASE q # p
      <4>1. q \in D /\ m[q] = o[q] /\ tr2[q].pleft = tr[q].pleft  BY <1>2, <3>2
      <4>2. IF o[q] = 1 THEN tr[q].pleft = 0
            ELSE tr[q].pleft \in D /\ o[tr[q].pleft] = o[q] - 1
         BY <4>1 DEF InLine
      <4> QED  BY <1>2, <4>1, <4>2
    <3> QED  BY <3>1, <3>2
  <2>4. ASSUME NEW q \in D \cup {p}
        PROVE  IF m[q] = c + 1 THEN tr2[q].pright = 0
               ELSE tr2[q].pright \in D \cup {p} /\ m[tr2[q].pright] = m[q] + 1
    <3>1. CASE q = p  BY <1>2, <3>1
    <3>2. CASE q # p
      <4>1. q \in D /\ m[q] = o[q] /\ o[q] \in 1 .. c /\ w # << >>  BY <1>1, <1>2, <3>2
      <4>2. m[q] # c + 1  BY <1>1, <4>1
      <4>3. CASE q = w[1]  BY <1>2, <1>4, <4>1, <4>2, <4>3
      <4>4. CASE q # w[1]
        <5>1. o[q] # c  BY <1>4, <4>1, <4>4 DEF InLine
        <5>2. tr[q].pright \in D /\ o[tr[q].pright] = o[q] + 1  BY <4>1, <5>1 DEF InLine
        <5> QED  BY <1>2, <4>1, <4>2, <4>4, <5>2
      <4> QED  BY <4>3, <4>4
    <3> QED  BY <3>1, <3>2
  <2>5. en2 \in [ref0 : Nat, ref0c : Nat, ref1 : Nat] /\ en2.ref0c = c + 1 /\ en2.ref1 = p
     BY <1>1
  <2>6. DOMAIN tr2 = D \cup {p} /\ D \cup {p} # {}  OBVIOUS
  <2> HIDE DEF en2, D, c
  <2>7. /\ IsFiniteSet(DOMAIN tr2) /\ en2.ref0c = Cardinality(DOMAIN tr2)
        /\ m \in [DOMAIN tr2 -> 1 .. en2.ref0c]
     BY <1>2, <1>3, <2>5, <2>6
  <2>8. /\ DOMAIN tr2 # {}
        /\ en2.ref0 \in DOMAIN tr2 /\ m[en2.ref0] = 1
        /\ en2.ref1 \in DOMAIN tr2 /\ m[en2.ref1] = en2.ref0c
     BY <1>2, <2>2, <2>5, <2>6
  <2>9. \A q \in DOMAIN tr2 : IF m[q] = 1 THEN tr2[q].pleft = 0
                            ELSE tr2[q].pleft \in DOMAIN tr2 /\ m[tr2[q].pleft] = m[q] - 1
     BY <2>3, <2>6
  <2>10. \A q \in DOMAIN tr2 : IF m[q] = en2.ref0c THEN tr2[q].pright = 0
                            ELSE tr2[q].pright \in DOMAIN tr2 /\ m[tr2[q].pright] = m[q] + 1
    <3>1. TAKE q \in DOMAIN tr2
    <3>2. q \in D \cup {p}  BY <2>6
    <3>3. IF m[q] = c + 1 THEN tr2[q].pright = 0
          ELSE tr2[q].pright \in D \cup {p} /\ m[tr2[q].pright] = m[q] + 1
       BY <2>4, <3>2
    <3> QED  BY <2>5, <2>6, <3>3
  <2>11. \A q, r \in DOMAIN tr2 : m[q] = m[r] => q = r  BY <2>1, <2>6
  <2> QED  BY <2>5, <2>7, <2>8, <2>9, <2>10, <2>11, Zenon DEF InLine
<1>7. /\ v \in Seq(D \cup {p}) /\ v # << >> /\ Len(v) <= Window /\ v[1] = p
      /\ \A i \in 1 .. Len(v) - 1 : i <= Len(w) /\ v[i + 1] = w[i]
  <2> DEFINE S == D \cup {p}
  <2>1. w \in Seq(S) /\ p \in S /\ Len(w) <= Window  BY <1>1
  <2> HIDE DEF S
  <2>2. /\ v \in Seq(S) /\ v # << >> /\ Len(v) <= Window /\ v[1] = p
        /\ \A i \in 1 .. Len(v) - 1 : i <= Len(w) /\ v[i + 1] = w[i]
     BY ONLY <2>1, FrontOf
  <2> HIDE DEF v
  <2> QED  BY <2>2 DEF S
<1> HIDE DEF v
<1>8. Windowed(tr2, v, m)
  <2>1. ASSUME NEW i \in 1 .. Len(v) PROVE m[v[i]] = m[v[1]] - (i - 1)
    <3>1. CASE i = 1
      <4>1. m[v[1]] = c + 1  BY ONLY <1>2, <1>7
      <4>2. c \in Nat  BY <1>1
      <4> QED  BY ONLY <3>1, <4>1, <4>2
    <3>2. CASE i # 1
      <4>0. i \in 1 .. Len(v) /\ Len(v) \in Nat
        <5> HIDE DEF D
        <5>1. v \in Seq(D \cup {p})  BY ONLY <1>7
        <5>2. Len(v) \in Nat  BY ONLY <5>1
        <5> QED  BY <5>2
      <4>1. i - 1 \in 1 .. Len(v) - 1 /\ (i - 1) + 1 = i  BY ONLY <3>2, <4>0
      <4>2. i - 1 <= Len(w) /\ v[i] = w[i - 1]  BY <1>7, <4>1
      <4>3. i - 1 \in 1 .. Len(w)  BY <1>1, <4>1, <4>2
      <4>4. o[w[i - 1]] = o[w[1]] - ((i - 1) - 1)  BY <4>3 DEF Windowed
      <4>5. w[i - 1] \in D /\ w # << >>
        <5> HIDE DEF D
        <5>1. w \in Seq(D) /\ Len(w) \in Nat  BY <1>1
        <5> QED  BY ONLY <4>3, <5>1
      <4>6. o[w[1]] = c /\ m[w[i - 1]] = o[w[i - 1]]  BY <1>2, <1>4, <4>5
      <4>7. m[v[i]] = c - ((i - 1) - 1) /\ m[v[1]] = c + 1 /\ i \in Nat
         BY <1>2, <1>7, <4>2, <4>4, <4>6
      <4> QED  BY <1>1, <4>7
    <3> QED  BY <3>1, <3>2
  <2>2. ASSUME NEW q \in D \cup {p}, m[q] > m[v[1]] PROVE tr2[q].refc = 0
    <3>1. m[v[1]] = c + 1 /\ c \in Nat  BY <1>1, <1>2, <1>7
    <3> HIDE DEF c, D
    <3>2. m[q] \in 1 .. c + 1  BY <1>2
    <3> QED  BY ONLY <2>2, <3>1, <3>2
  <2> HIDE DEF D
  <2> QED  BY <1>7, <2>1, <2>2 DEF Windowed, D
<1> QED  BY <1>6, <1>8 DEF v
-----------------------------------------------------------------------------
(* The helpers of the calls *)

StateOf(e, tr, w) == [eof |-> e, trash |-> tr, window |-> w]

\* A page is put in front of the window.
LEMMA ShiftRightIs ==
    ASSUME NEW e, NEW tr, NEW w, NEW p
    PROVE  ShiftRight(StateOf(e, tr, w), p) = StateOf(e, tr, InFront(p, w))
<1> DEFINE d == StateOf(e, tr, w)
           x == InFront(p, w)
<1>1. <<p>> \o (IF Len(d.window) = Window THEN Front(d.window) ELSE d.window) = x
  <2>1. d.window = w  BY DEF StateOf
  <2> HIDE DEF d
  <2> QED  BY <2>1 DEF InFront
<1> HIDE DEF x
<1>2. [d EXCEPT !.window = x] = StateOf(e, tr, x)  BY DEF StateOf
<1>3. ShiftRight(d, p) = [d EXCEPT !.window = x]
  <2> HIDE DEF d
  <2> QED  BY <1>1, Zenon DEF ShiftRight
<1> QED  BY <1>2, <1>3 DEF x

\* What is known of the file, the chapter and the window
Sound(e, tr, w, en, u, o) == Owned(e, tr, u) /\ InLine(tr, en, o) /\ Windowed(tr, w, o)

\* The pages of the window are pages of the chapter.
LEMMA WindowInside ==
    ASSUME NEW e, NEW tr, NEW w, NEW en, NEW u, NEW o, Sound(e, tr, w, en, u, o),
           NEW i \in DOMAIN w
    PROVE  i \in 1 .. Len(w) /\ w[i] \in DOMAIN tr /\ tr[w[i]] \in Garbage /\ PageOK(tr[w[i]], e)
<1>1. w \in Seq(DOMAIN tr)  BY DEF Sound, Windowed
<1>2. i \in 1 .. Len(w) /\ w[i] \in DOMAIN tr  BY <1>1
<1> QED  BY <1>2 DEF Sound, Owned

\* A strait found in the window is taken out of its reference.
LEMMA RecycleIs ==
    ASSUME NEW e, NEW tr, NEW w, NEW en, NEW u, NEW o, Sound(e, tr, w, en, u, o),
           NEW n \in Nat \ {0}, Givers(StateOf(e, tr, w), n) # {}
    PROVE  \E tr2, id :
             /\ Recycle(StateOf(e, tr, w), n) = [d |-> StateOf(e, tr2, w), id |-> id]
             /\ id \in Pids /\ Strait(id, n) \subseteq Pids
             /\ \A q \in Strait(id, n) : u[q] = 0 /\ q \notin DOMAIN tr
             /\ DOMAIN tr2 = DOMAIN tr
             /\ \A q \in DOMAIN tr : tr2[q].pright = tr[q].pright
             /\ Sound(e, tr2, w, en, Plus(u, Strait(id, n), 1), o)
<1> DEFINE d == StateOf(e, tr, w)
           G == Givers(d, n)
           i == Min(G)
           p == w[i]
           F == Fits(tr[p], n)
           j == Min(F)
           id == tr[p].refs[j].ref
           t == Steal(tr[p], j, n)
           tr2 == [tr EXCEPT ![p] = t]
<1>1. d.eof = e /\ d.trash = tr /\ d.window = w  BY DEF StateOf
<1>2. i \in G
  <2>1. G \subseteq DOMAIN w  BY <1>1 DEF Givers
  <2>2. DOMAIN w \subseteq Nat  BY WindowInside
  <2> HIDE DEF G
  <2> QED  BY <2>1, <2>2, MinIs DEF G
<1>3. i \in DOMAIN w /\ F # {}
  <2> HIDE DEF i
  <2> QED  BY <1>1, <1>2 DEF Givers
<1>4. i \in 1 .. Len(w) /\ p \in DOMAIN tr /\ tr[p] \in Garbage /\ PageOK(tr[p], e)
  <2> HIDE DEF i
  <2> QED  BY <1>3, WindowInside
<1> HIDE DEF i, p
<1>5. j \in F
  <2>1. F \in SUBSET Nat  BY DEF Fits
  <2> HIDE DEF F
  <2> QED  BY <1>3, <2>1, MinIs
<1> HIDE DEF j
<1>6. j \in 1 .. Refs /\ id # 0 /\ tr[p].refs[j].straitc >= n  BY <1>5 DEF Fits
<1>7. n <= tr[p].refs[j].straitc
  <2>1. tr[p].refs[j].straitc \in Nat  BY <1>4, <1>6 DEF Garbage, RefArray
  <2> QED  BY <1>6, <2>1
<1>8. /\ id \in Pids /\ Strait(id, n) \subseteq Pids
      /\ \A q \in Strait(id, n) : u[q] = 0 /\ q \notin DOMAIN tr
      /\ Owned(e, tr2, Plus(u, Strait(id, n), 1))
   BY <1>4, <1>6, <1>7, OwnedSteal DEF Sound
<1>9. t.pleft = tr[p].pleft /\ t.pright = tr[p].pright
  <2>1. e \in FirstPid .. MaxPid + 1  BY DEF Sound, Owned
  <2> DEFINE g == tr[p]
  <2>2. /\ PageOK(g, e) /\ j \in 1 .. Refs /\ g.refs[j].ref # 0
        /\ n <= g.refs[j].straitc
     BY <1>4, <1>6, <1>7
  <2> HIDE DEF g
  <2>3. /\ PageOK(Steal(g, j, n), e)
        /\ Steal(g, j, n).refs = [g.refs EXCEPT ![j] = Rest(g.refs[j], n)]
        /\ Steal(g, j, n).pleft = g.pleft /\ Steal(g, j, n).pright = g.pright
     BY <2>1, <2>2, StealIs
  <2> QED  BY <2>3 DEF g
<1> HIDE DEF t, id
<1>10. InLine(tr2, en, o) /\ Windowed(tr2, w, o)
   BY <1>4, <1>9, LineKept DEF Sound, p
<1>11. DOMAIN tr2 = DOMAIN tr /\ \A q \in DOMAIN tr : tr2[q].pright = tr[q].pright
   BY <1>4, <1>9
<1>12. Recycle(d, n) = [d |-> StateOf(e, tr2, w), id |-> id]
   BY <1>1 DEF Recycle, StateOf, i, p, j, id, t
<1> QED  BY <1>8, <1>10, <1>11, <1>12 DEF Sound

\* The window moves left or stays; it stays when all its pages are full.
LEMMA ShiftLeftIs ==
    ASSUME NEW e, NEW tr, NEW w, NEW en, NEW u, NEW o, Sound(e, tr, w, en, u, o)
    PROVE  \E v : /\ ShiftLeft(StateOf(e, tr, w)) = StateOf(e, tr, v)
                  /\ Sound(e, tr, v, en, u, o)
                  /\ Takers(StateOf(e, tr, w)) = {} => v = w
<1> DEFINE d == StateOf(e, tr, w)
           x == tr[w[Len(w)]].pleft
           v == Append(Tail(w), x)
<1>1. d.eof = e /\ d.trash = tr /\ d.window = w  BY DEF StateOf
<1>2. CASE CanShift(d)
  <2>1. w # << >> /\ x # 0 /\ tr[w[1]].refc = 0  BY <1>1, <1>2 DEF CanShift
  <2>2. Windowed(tr, v, o)  BY <2>1, LeftKept DEF Sound
  <2>3. 1 \in DOMAIN w
    <3>1. w \in Seq(DOMAIN tr)  BY DEF Sound, Windowed
    <3> QED  BY <2>1, <3>1
  <2>4. tr[w[1]].refc # Refs  BY <2>1
  <2>5. 1 \in Takers(d)  BY <1>1, <2>3, <2>4 DEF Takers
  <2>6. ShiftLeft(d) = StateOf(e, tr, v)  BY <1>1, <1>2 DEF ShiftLeft, StateOf
  <2> HIDE DEF v
  <2> QED  BY <2>2, <2>5, <2>6 DEF Sound
<1>3. CASE ~CanShift(d)  BY <1>3 DEF ShiftLeft
<1> QED  BY <1>2, <1>3

\* _edbd_add: pages nobody has, or none; what it leaves is sound, with the pages
\* counted as the caller's.
LEMMA AddIs ==
    ASSUME NEW e, NEW tr, NEW w, NEW en, NEW u, NEW o, Sound(e, tr, w, en, u, o),
           NEW n \in Nat \ {0}
    PROVE  \E e2, tr2, v, id :
             /\ Add(StateOf(e, tr, w), n) = [d |-> StateOf(e2, tr2, v), id |-> id]
             /\ DOMAIN tr2 = DOMAIN tr
             /\ \A q \in DOMAIN tr : tr2[q].pright = tr[q].pright
             /\ Takers(StateOf(e, tr, w)) = {} => v = w
             /\ id = 0 => Sound(e2, tr2, v, en, u, o)
             /\ id # 0 => /\ id \in Pids /\ Strait(id, n) \subseteq Pids
                          /\ \A q \in Strait(id, n) : u[q] = 0 /\ q \notin DOMAIN tr
                          /\ Sound(e2, tr2, v, en, Plus(u, Strait(id, n), 1), o)
<1> DEFINE d == StateOf(e, tr, w)
<1>1. CASE Givers(d, n) # {}
  <2>1. PICK tr2, id :
             /\ Recycle(d, n) = [d |-> StateOf(e, tr2, w), id |-> id]
             /\ id \in Pids /\ Strait(id, n) \subseteq Pids
             /\ \A q \in Strait(id, n) : u[q] = 0 /\ q \notin DOMAIN tr
             /\ DOMAIN tr2 = DOMAIN tr
             /\ \A q \in DOMAIN tr : tr2[q].pright = tr[q].pright
             /\ Sound(e, tr2, w, en, Plus(u, Strait(id, n), 1), o)
     BY <1>1, RecycleIs
  <2>2. id # 0  BY <2>1 DEF Pids
  <2>3. Add(d, n) = [d |-> StateOf(e, tr2, w), id |-> id]  BY <1>1, <2>1 DEF Add
  <2> QED  BY <2>1, <2>2, <2>3
<1>2. CASE Givers(d, n) = {}
  <2>1. PICK v : /\ ShiftLeft(d) = StateOf(e, tr, v)
                 /\ Sound(e, tr, v, en, u, o)
                 /\ Takers(d) = {} => v = w
     BY ShiftLeftIs
  <2>2. ShiftLeft(d).eof = e  BY <2>1 DEF StateOf
  <2>3. CASE e + n - 1 > MaxPid
    <3>1. Add(d, n) = [d |-> StateOf(e, tr, v), id |-> 0]  BY <1>2, <2>1, <2>2, <2>3 DEF Add
    <3> QED  BY <2>1, <3>1
  <2>4. CASE ~(e + n - 1 > MaxPid)
    <3>1. Add(d, n) = [d |-> StateOf(e + n, tr, v), id |-> e]
      <4>1. [ShiftLeft(d) EXCEPT !.eof = @ + n] = StateOf(e + n, tr, v)
         BY <2>1 DEF StateOf
      <4> QED  BY <1>2, <2>2, <2>4, <4>1 DEF Add
    <3>2. e + n - 1 <= MaxPid /\ Owned(e, tr, u) /\ e # 0  BY <2>1, <2>4 DEF Sound, Owned
    <3>3. /\ e \in Pids /\ Strait(e, n) \subseteq Pids
          /\ \A q \in Strait(e, n) : u[q] = 0 /\ q \notin DOMAIN tr
          /\ Owned(e + n, tr, Plus(u, Strait(e, n), 1))
       BY <3>2, OwnedGrow
    <3>4. Sound(e + n, tr, v, en, Plus(u, Strait(e, n), 1), o)  BY <2>1, <3>3 DEF Sound
    <3> QED  BY <2>1, <3>1, <3>2, <3>3, <3>4
  <2> QED  BY <2>3, <2>4
<1> QED  BY <1>1, <1>2

\* A strait is remembered in the window.
LEMMA RememberIs ==
    ASSUME NEW e, NEW tr, NEW w, NEW en, NEW u, NEW o, Sound(e, tr, w, en, u, o),
           Takers(StateOf(e, tr, w)) # {}, NEW id \in Pids, NEW n \in Nat \ {0},
           \A q \in Strait(id, n) : q \in Pids /\ u[q] = 1
    PROVE  \E tr2 : /\ Remember(StateOf(e, tr, w), id, n) = StateOf(e, tr2, w)
                    /\ DOMAIN tr2 = DOMAIN tr
                    /\ Sound(e, tr2, w, en, Plus(u, Strait(id, n), -1), o)
<1> DEFINE d == StateOf(e, tr, w)
           T == Takers(d)
           i == Min(T)
           p == w[i]
           N == NullRefs(tr[p])
           j == Min(N)
           t == Put(tr[p], j, id, n)
           tr2 == [tr EXCEPT ![p] = t]
<1>1. d.eof = e /\ d.trash = tr /\ d.window = w  BY DEF StateOf
<1>2. i \in T
  <2>1. T \subseteq DOMAIN w  BY <1>1 DEF Takers
  <2>2. DOMAIN w \subseteq Nat  BY WindowInside
  <2> HIDE DEF T
  <2> QED  BY <2>1, <2>2, MinIs DEF T
<1>3. i \in DOMAIN w /\ tr[p].refc # Refs
  <2> HIDE DEF i
  <2> QED  BY <1>1, <1>2 DEF Takers
<1>4. i \in 1 .. Len(w) /\ p \in DOMAIN tr /\ tr[p] \in Garbage /\ PageOK(tr[p], e)
  <2> HIDE DEF i
  <2> QED  BY <1>3, WindowInside
<1> HIDE DEF i, p
<1>5. N # {}
  <2>1. Cardinality(SetRefs(tr[p])) # Refs  BY <1>3, <1>4 DEF PageOK, Counted
  <2> QED  BY <1>4, <2>1, CountFacts
<1>6. j \in N
  <2>1. N \in SUBSET Nat  BY DEF NullRefs
  <2> HIDE DEF N
  <2> QED  BY <1>5, <2>1, MinIs
<1> HIDE DEF j
<1>7. j \in 1 .. Refs /\ tr[p].refs[j].ref = 0  BY <1>6 DEF NullRefs
<1>8. PageOK(t, e) /\ Owned(e, tr2, Plus(u, Strait(id, n), -1))
   BY <1>4, <1>7, OwnedPut DEF Sound
<1>9. t.pleft = tr[p].pleft /\ t.pright = tr[p].pright
   BY <1>4 DEF Put, Garbage
<1> HIDE DEF t
<1>10. InLine(tr2, en, o) /\ Windowed(tr2, w, o)
   BY <1>4, <1>9, LineKept DEF Sound, p
<1>11. DOMAIN tr2 = DOMAIN tr  OBVIOUS
<1>12. Remember(d, id, n) = StateOf(e, tr2, w)
   BY <1>1, <1>4 DEF Remember, StateOf, i, p, j, t
<1> QED  BY <1>8, <1>10, <1>11, <1>12 DEF Sound
-----------------------------------------------------------------------------
(* The inductive invariant, step by step *)

AllocInv ==
    /\ \E o : Sound(eof, trash, window, ent, user, o)
    /\ zero \subseteq Pids
    /\ junk \in BOOLEAN

\* A step of PageSupply, or none
SupplyStep == Supply!Next \/ UNCHANGED <<user, Chapter>>

\* Straits are counts of pages.
LEMMA StraitsAre == \A n \in Straits : n \in Nat \ {0}
   OBVIOUS

LEMMA InitInv ==
    ASSUME Init  PROVE AllocInv /\ Supply!Init
<1> DEFINE o == [p \in {} |-> 0]
<1>1. DOMAIN trash = {} /\ DOMAIN o = {}  BY DEF Init
<1>2. IsFiniteSet({}) /\ Cardinality({}) = 0  BY FS_EmptySet
<1>3. ent = [ref0 |-> 0, ref0c |-> 0, ref1 |-> 0] /\ window = << >> /\ eof = FirstPid
      /\ user = [p \in Pids |-> 0]
   BY DEF Init
<1>4. InLine(trash, ent, o)  BY <1>1, <1>2, <1>3 DEF InLine
<1>5. Windowed(trash, window, o)  BY <1>1, <1>3 DEF Windowed
<1>6. Owned(eof, trash, user)
  <2>1. trash \in [DOMAIN trash -> Garbage]  BY DEF Init
  <2> QED  BY <1>1, <1>3, <2>1 DEF Owned
<1>7. Supply!Init  BY <1>1, <1>3 DEF Supply!Init, Chapter
<1>8. zero \subseteq Pids /\ junk \in BOOLEAN  BY DEF Init
<1> QED  BY <1>4, <1>5, <1>6, <1>7, <1>8 DEF AllocInv, Sound

\* A call that gives pages
LEMMA AddStep ==
    ASSUME AllocInv, NEW n \in Straits, edbd_add(n)
    PROVE  AllocInv' /\ SupplyStep
<1> DEFINE a == Add(State, n)
<1>1. PICK o : Sound(eof, trash, window, ent, user, o)  BY DEF AllocInv
<1>2. n \in Nat \ {0}  BY StraitsAre
<1>3. PICK e2, tr2, v, id :
             /\ Add(StateOf(eof, trash, window), n) = [d |-> StateOf(e2, tr2, v), id |-> id]
             /\ DOMAIN tr2 = DOMAIN trash
             /\ id = 0 => Sound(e2, tr2, v, ent, user, o)
             /\ id # 0 => /\ id \in Pids /\ Strait(id, n) \subseteq Pids
                          /\ \A q \in Strait(id, n) : user[q] = 0 /\ q \notin DOMAIN trash
                          /\ Sound(e2, tr2, v, ent, Plus(user, Strait(id, n), 1), o)
   BY <1>1, <1>2, AddIs
<1>4. a.id = id /\ a.d = StateOf(e2, tr2, v)  BY <1>3 DEF State, StateOf
<1>5. eof' = e2 /\ trash' = tr2 /\ window' = v /\ ent' = ent /\ junk' = junk
   BY <1>4 DEF edbd_add, SetState, StateOf
<1>6. zero' \subseteq Pids
  <2>1. zero' = zero \cup (eof .. e2 - 1)  BY <1>4 DEF edbd_add, Fresh, StateOf
  <2>2. eof \in FirstPid .. MaxPid + 1 /\ e2 \in FirstPid .. MaxPid + 1
     BY <1>1, <1>3 DEF Sound, Owned
  <2> QED  BY <2>1, <2>2 DEF AllocInv, Pids
<1>7. junk' \in BOOLEAN  BY <1>5 DEF AllocInv
<1>8. CASE id = 0
  <2>1. user' = user  BY <1>4, <1>8 DEF edbd_add
  <2>2. Sound(eof', trash', window', ent', user', o)  BY <1>3, <1>5, <1>8, <2>1
  <2>3. UNCHANGED <<user, Chapter>>  BY <1>3, <1>5, <2>1 DEF Chapter
  <2> QED  BY <1>6, <1>7, <2>2, <2>3 DEF AllocInv, SupplyStep
<1>9. CASE id # 0
  <2> DEFINE S == Strait(id, n)
  <2>1. user' = Plus(user, S, 1)  BY <1>4, <1>9 DEF edbd_add, Credit, Plus
  <2>2. Sound(eof', trash', window', ent', user', o)  BY <1>3, <1>5, <1>9, <2>1
  <2>3. user' = [p \in Pids |-> IF p \in S THEN 1 ELSE user[p]]
    <3>1. \A q \in S : user[q] = 0  BY <1>3, <1>9
    <3> HIDE DEF S
    <3> QED  BY <2>1, <3>1 DEF Plus
  <2>4. Chapter' = Chapter  BY <1>3, <1>5 DEF Chapter
  <2>5. id \in Pids /\ S \subseteq Pids \ Chapter /\ \A q \in S : user[q] = 0
     BY <1>3, <1>9 DEF Chapter
  <2>6. Supply!Strait(id, n) = S  BY DEF Supply!Strait, Strait
  <2> HIDE DEF S
  <2>7. Supply!Give(id, n)  BY <2>3, <2>4, <2>5, <2>6 DEF Supply!Give
  <2>8. Supply!Next  BY <2>5, <2>7 DEF Supply!Next
  <2> QED  BY <1>6, <1>7, <2>2, <2>8 DEF AllocInv, SupplyStep
<1> QED  BY <1>8, <1>9

\* The pages of a deleted strait are the caller's alone; returning them is a step
\* of PageSupply, whether the allocator keeps one more page or not.
LEMMA ReturnStep ==
    ASSUME NEW o, Sound(eof, trash, window, ent, user, o), NEW id \in Pids,
           NEW n \in Straits, \A p \in Strait(id, n) : p \in Pids /\ user[p] > 0
    PROVE  /\ \A p \in Strait(id, n) : p \in Pids /\ user[p] = 1
           /\ (/\ user' = Plus(user, Strait(id, n), -1)
               /\ \/ Chapter' = Chapter
                  \/ \E p \in Pids : user[p] = 0 /\ p \notin Chapter /\ Chapter' = Chapter \cup {p})
              => Supply!Next
<1> DEFINE S == Strait(id, n)
<1>1. user \in [Pids -> {0, 1}]  BY DEF Sound, Owned
<1>2. \A p \in S : p \in Pids /\ user[p] = 1
  <2>1. \A p \in S : p \in Pids /\ user[p] > 0  OBVIOUS
  <2> HIDE DEF S
  <2> QED  BY <1>1, <2>1
<1>3. ASSUME user' = Plus(user, S, -1),
             \/ Chapter' = Chapter
             \/ \E p \in Pids : user[p] = 0 /\ p \notin Chapter /\ Chapter' = Chapter \cup {p}
      PROVE  Supply!Next
  <2>1. Supply!Strait(id, n) = S  BY DEF Supply!Strait, Strait
  <2> HIDE DEF S
  <2>2. user' = [p \in Pids |-> IF p \in S THEN 0 ELSE user[p]]  BY <1>2, <1>3 DEF Plus
  <2>3. \A p \in Pids : user[p] = 0 => user'[p] = 0  BY <2>2
  <2>4. \/ Chapter' = Chapter
        \/ \E k \in Pids \ Chapter : user'[k] = 0 /\ Chapter' = Chapter \cup {k}
     BY <1>3, <2>3
  <2>5. S \subseteq Pids  BY <1>2
  <2>6. Supply!TakeBack(id, n)  BY <1>2, <2>1, <2>2, <2>4, <2>5 DEF Supply!TakeBack
  <2> QED  BY <2>6 DEF Supply!Next
<1> QED  BY <1>2, <1>3

\* The calls that return pages, with what edbd_del knows before it looks for a reference
Returning(id, n) ==
    /\ AllocInv /\ id \in Pids /\ n \in Straits
    /\ \A p \in Strait(id, n) : p \in Pids /\ user[p] > 0

\* What is left of the zeros are pages.
LEMMA KeptInside ==
    ASSUME AllocInv, NEW id, NEW n, NEW written  PROVE Kept(id, n, written) \subseteq Pids
   BY DEF AllocInv, Kept

LEMMA DelHereStep ==
    ASSUME NEW id, NEW n, NEW written, Returning(id, n), DelHere(id, n, written)
    PROVE  AllocInv' /\ SupplyStep
<1>1. PICK o : Sound(eof, trash, window, ent, user, o)  BY DEF AllocInv, Returning
<1>2. /\ AllocInv /\ id \in Pids /\ n \in Straits /\ n \in Nat \ {0}
      /\ \A p \in Strait(id, n) : p \in Pids /\ user[p] > 0
   BY StraitsAre DEF Returning
<1>3. \A p \in Strait(id, n) : p \in Pids /\ user[p] = 1  BY <1>1, <1>2, ReturnStep
<1>4. Takers(StateOf(eof, trash, window)) # {}  BY DEF DelHere, State, StateOf
<1>5. PICK tr2 : /\ Remember(StateOf(eof, trash, window), id, n) = StateOf(eof, tr2, window)
                 /\ DOMAIN tr2 = DOMAIN trash
                 /\ Sound(eof, tr2, window, ent, Plus(user, Strait(id, n), -1), o)
   BY <1>1, <1>2, <1>3, <1>4, RememberIs
<1>6. /\ eof' = eof /\ trash' = tr2 /\ window' = window /\ ent' = ent /\ junk' = junk
      /\ user' = Plus(user, Strait(id, n), -1) /\ zero' = Kept(id, n, written)
   BY <1>5 DEF DelHere, SetState, Credit, Plus, State, StateOf
<1>7. Sound(eof', trash', window', ent', user', o)  BY <1>5, <1>6
<1>8. AllocInv'  BY <1>2, <1>6, <1>7, KeptInside DEF AllocInv
<1>9. Chapter' = Chapter  BY <1>5, <1>6 DEF Chapter
<1>10. Supply!Next  BY <1>1, <1>2, <1>6, <1>9, ReturnStep
<1> QED  BY <1>8, <1>10 DEF SupplyStep

LEMMA DelRightStep ==
    ASSUME NEW id, NEW n, NEW written, Returning(id, n), DelRight(id, n, written)
    PROVE  AllocInv' /\ SupplyStep
<1> DEFINE p == RightOf(State)
           v == InFront(p, window)
           d == ShiftRight(State, p)
<1>1. PICK o : Sound(eof, trash, window, ent, user, o)  BY DEF AllocInv, Returning
<1>2. /\ AllocInv /\ id \in Pids /\ n \in Straits /\ n \in Nat \ {0}
      /\ \A q \in Strait(id, n) : q \in Pids /\ user[q] > 0
   BY StraitsAre DEF Returning
<1>3. \A q \in Strait(id, n) : q \in Pids /\ user[q] = 1  BY <1>1, <1>2, ReturnStep
<1>4. window # << >> /\ trash[window[1]].pright # 0 /\ p = trash[window[1]].pright
   BY DEF DelRight, RightOf, State
<1>5. p \in DOMAIN trash /\ trash[p].refc = 0 /\ Windowed(trash, v, o)
  <2>1. InLine(trash, ent, o) /\ Windowed(trash, window, o)  BY <1>1 DEF Sound
  <2> QED  BY <1>4, <2>1, RightKept
<1>6. d = StateOf(eof, trash, v)
  <2>1. State = StateOf(eof, trash, window)  BY DEF State, StateOf
  <2> HIDE DEF p
  <2> QED  BY <2>1, ShiftRightIs
<1>7. Sound(eof, trash, v, ent, user, o)  BY <1>1, <1>5 DEF Sound
<1>8. 1 \in DOMAIN v /\ v[1] = p
  <2>1. window \in Seq(DOMAIN trash) /\ Len(window) <= Window  BY <1>1 DEF Sound, Windowed
  <2> HIDE DEF p
  <2>2. v \in Seq(DOMAIN trash) /\ v # << >> /\ v[1] = p  BY <1>5, <2>1, FrontOf
  <2> HIDE DEF v
  <2> QED  BY <2>2
<1> HIDE DEF v, p, d
<1>9. 1 \in Takers(StateOf(eof, trash, v))
  <2>1. StateOf(eof, trash, v).window = v /\ StateOf(eof, trash, v).trash = trash
     BY DEF StateOf
  <2>2. trash[v[1]].refc # Refs  BY <1>5, <1>8
  <2> QED  BY <1>8, <2>1, <2>2 DEF Takers
<1>10. PICK tr2 : /\ Remember(StateOf(eof, trash, v), id, n) = StateOf(eof, tr2, v)
                  /\ DOMAIN tr2 = DOMAIN trash
                  /\ Sound(eof, tr2, v, ent, Plus(user, Strait(id, n), -1), o)
   BY <1>2, <1>3, <1>7, <1>9, RememberIs
<1>11. SetState(Remember(d, id, n)) /\ Credit(Strait(id, n), -1)
       /\ zero' = Kept(id, n, written) /\ ent' = ent /\ junk' = junk
   BY <1>6, <1>9 DEF DelRight, d, p
<1>12. /\ eof' = eof /\ trash' = tr2 /\ window' = v /\ ent' = ent /\ junk' = junk
       /\ user' = Plus(user, Strait(id, n), -1)
   BY <1>6, <1>10, <1>11 DEF SetState, Credit, Plus, StateOf
<1>13. Sound(eof', trash', window', ent', user', o)  BY <1>10, <1>12
<1>14. AllocInv'  BY <1>2, <1>11, <1>12, <1>13, KeptInside DEF AllocInv
<1>15. Chapter' = Chapter  BY <1>10, <1>12 DEF Chapter
<1>16. Supply!Next  BY <1>1, <1>2, <1>12, <1>15, ReturnStep
<1> QED  BY <1>14, <1>16 DEF SupplyStep

\* The allocator's state and its index entry once page p extends the chapter
FirstOf(d, p, en) ==
    [d EXCEPT !.trash = [q \in DOMAIN @ \cup {p} |->
        IF q = p THEN [ZeroTrash EXCEPT !.pleft = en.ref1] ELSE d.trash[q]]]
Extended(d, p, en) == ShiftRight(FirstOf(LinkRight(d, p), p, en), p)
NewEnt(p, en) == [ref0 |-> IF en.ref0c = 0 THEN p ELSE en.ref0,
                  ref0c |-> en.ref0c + 1, ref1 |-> p]

\* Nobody uses page p; no page is to the right of the window.
Unused(u, p) == u \in [Pids -> {0, 1}] /\ u[p] = 0
Newest(tr, w) == w # << >> => tr[w[1]].pright = 0

\* The chapter with page p is sound and has room for a strait.
GoodExtension(e, tr, w, u, en, p) ==
    \E tr2, v, m :
      /\ Extended(StateOf(e, tr, w), p, en) = StateOf(e, tr2, v)
      /\ DOMAIN tr2 = DOMAIN tr \cup {p}
      /\ Sound(e, tr2, v, NewEnt(p, en), u, m)
      /\ Takers(StateOf(e, tr2, v)) # {}

\* The page that extends the chapter: the page is taken as a caller's, linked and put
\* in front of the window.
LEMMA NewPageIs ==
    ASSUME NEW e, NEW tr, NEW w, NEW u, NEW en, NEW o, NEW p \in Pids,
           Sound(e, tr, w, en, Plus(u, {p}, 1), o), Unused(u, p), Newest(tr, w)
    PROVE  GoodExtension(e, tr, w, u, en, p)
<1> DEFINE u1 == Plus(u, {p}, 1)
           t == [ZeroTrash EXCEPT !.pleft = en.ref1]
           tr1 == IF w = << >> THEN tr ELSE [tr EXCEPT ![w[1]].pright = p]
           tr2 == [q \in DOMAIN tr1 \cup {p} |-> IF q = p THEN t ELSE tr1[q]]
           v == InFront(p, w)
           d == Extended(StateOf(e, tr, w), p, en)
           en2 == NewEnt(p, en)
<1>1. /\ Owned(e, tr, u1) /\ InLine(tr, en, o) /\ Windowed(tr, w, o)
      /\ tr \in [DOMAIN tr -> Garbage] /\ 0 \notin DOMAIN tr /\ en.ref1 \in Nat
      /\ p \in Nat \ {0} /\ e \in FirstPid .. MaxPid + 1
  <2>1. Owned(e, tr, u1) /\ InLine(tr, en, o) /\ Windowed(tr, w, o)  BY DEF Sound
  <2> HIDE DEF u1
  <2>2. tr \in [DOMAIN tr -> Garbage] /\ DOMAIN tr \subseteq Pids /\ e \in FirstPid .. MaxPid + 1
     BY <2>1 DEF Owned
  <2>3. p \in Nat \ {0} /\ 0 \notin Pids  BY DEF Pids
  <2>4. en.ref1 \in Nat  BY <2>1 DEF InLine
  <2> QED  BY <2>1, <2>2, <2>3, <2>4
<1>2. w # << >> => w[1] \in DOMAIN tr /\ 1 \in DOMAIN w
  <2>1. w \in Seq(DOMAIN tr)  BY <1>1 DEF Windowed
  <2> QED  BY <2>1
<1>3. u1[p] = 1 /\ Plus(u1, {p}, -1) = u
  <2>1. u1 = [q \in Pids |-> IF q = p THEN u[q] + 1 ELSE u[q]]  BY DEF Plus
  <2>2. u1[p] = 1 /\ u[p] = 0  BY <2>1 DEF Unused
  <2>3. \A q \in Pids : u[q] \in {0, 1} /\ (q # p => u1[q] = u[q])  BY <2>1 DEF Unused
  <2> HIDE DEF u1
  <2>4. \A q \in Pids : Plus(u1, {p}, -1)[q] = u[q]  BY <2>2, <2>3 DEF Plus
  <2>5. DOMAIN Plus(u1, {p}, -1) = Pids  BY DEF Plus
  <2>6. Plus(u1, {p}, -1) = [q \in Pids |-> Plus(u1, {p}, -1)[q]]  BY DEF Plus
  <2> QED  BY <2>2, <2>4, <2>6 DEF Unused
<1> HIDE DEF u1
<1>4. PageOK(t, e) /\ (\A j \in 1 .. Refs : t.refs[j] = NullRef)
      /\ t.pleft = en.ref1 /\ t.pright = 0 /\ t.refc = 0
  <2>1. /\ t.refs = [j \in 1 .. Refs |-> NullRef] /\ t.refc = 0 /\ t.largeststrait = 0
        /\ t.pagesc = 0 /\ t.pleft = en.ref1 /\ t.pright = 0
     BY DEF ZeroTrash
  <2>2. t \in Garbage
    <3> DEFINE z == [j \in 1 .. Refs |-> NullRef]
    <3>1. z \in RefArray  BY DEF RefArray, NullRef
    <3>2. ZeroTrash = [refs |-> z, refc |-> 0, pagesc |-> 0, largeststrait |-> 0,
                       pleft |-> 0, pright |-> 0]
       BY DEF ZeroTrash
    <3> HIDE DEF z
    <3>3. t = [refs |-> z, refc |-> 0, pagesc |-> 0, largeststrait |-> 0,
               pleft |-> en.ref1, pright |-> 0]
       BY <3>2
    <3> HIDE DEF t
    <3> QED  BY <1>1, <3>1, <3>3 DEF Garbage
  <2> HIDE DEF t
  <2>3. \A j \in 1 .. Refs : t.refs[j] = NullRef /\ NullRef.ref = 0 /\ NullRef.straitc = 0
     BY <2>1 DEF NullRef
  <2>4. SetRefs(t) = {} /\ StraitSizes(t) = {0}
    <3>1. 1 \in 1 .. Refs  OBVIOUS
    <3> QED  BY <2>3, <3>1 DEF SetRefs, StraitSizes
  <2>5. Cardinality({}) = 0  BY FS_EmptySet
  <2>6. Max({0}) = 0
    <3>1. {0} \in SUBSET Nat /\ 0 \in {0} /\ \A y \in {0} : y <= 0  OBVIOUS
    <3> QED  BY <3>1, MaxUnique
  <2>7. RefUnits(t) = {}
    <3>1. ASSUME NEW x \in (1 .. Refs) \X (1 .. MaxPid)
          PROVE  ~(x[2] <= t.refs[x[1]].straitc)
      <4>1. x[1] \in 1 .. Refs /\ x[2] \in 1 .. MaxPid  BY <3>1
      <4>2. t.refs[x[1]].straitc = 0  BY <2>3, <4>1
      <4> QED  BY <4>1, <4>2
    <3> QED  BY <3>1 DEF RefUnits
  <2> QED  BY <2>1, <2>2, <2>3, <2>4, <2>5, <2>6, <2>7 DEF PageOK, Counted, RefOK
<1>5. /\ Owned(e, tr1, u1) /\ DOMAIN tr1 = DOMAIN tr
      /\ \A q \in DOMAIN tr :
           /\ tr1[q].pleft = tr[q].pleft /\ tr1[q].refc = tr[q].refc
           /\ tr1[q].pright = IF w # << >> /\ q = w[1] THEN p ELSE tr[q].pright
  <2>1. CASE w = << >>  BY <1>1, <2>1
  <2>2. CASE w # << >>
    <3> DEFINE z == w[1]
    <3>1. z \in DOMAIN tr /\ tr1 = [tr EXCEPT ![z].pright = p]  BY <1>2, <2>2
    <3> HIDE DEF z, tr1
    <3>2. Owned(e, tr1, u1)  BY <1>1, <3>1, OwnedLink
    <3>3. DOMAIN tr1 = DOMAIN tr /\ tr1[z] = [tr[z] EXCEPT !.pright = p]
          /\ \A q \in DOMAIN tr : q # z => tr1[q] = tr[q]
       BY <3>1
    <3>4. tr1[z].pleft = tr[z].pleft /\ tr1[z].refc = tr[z].refc /\ tr1[z].pright = p
       BY <1>1, <3>1, <3>3 DEF Garbage
    <3> QED  BY <2>2, <3>2, <3>3, <3>4 DEF z
  <2> QED  BY <2>1, <2>2
<1> HIDE DEF t, tr1
<1>6. p \notin DOMAIN tr1 /\ Owned(e, tr2, u)
  <2>1. Owned(e, tr1, u1) /\ u1[p] = 1 /\ PageOK(t, e) /\ \A j \in 1 .. Refs : t.refs[j] = NullRef
     BY <1>3, <1>4, <1>5
  <2>2. /\ DOMAIN tr2 = DOMAIN tr1 \cup {p} /\ tr2 = [r \in DOMAIN tr2 |-> tr2[r]]
        /\ tr2[p] = t /\ \A r \in DOMAIN tr1 : r # p => tr2[r] = tr1[r]
     OBVIOUS
  <2> HIDE DEF tr2
  <2>3. p \notin DOMAIN tr1 /\ Owned(e, tr2, Plus(u1, {p}, -1))  BY <2>1, <2>2, OwnedNew
  <2> QED  BY <1>3, <2>3
<1>7. /\ DOMAIN tr2 = DOMAIN tr \cup {p} /\ tr2[p] = t
      /\ \A q \in DOMAIN tr : tr2[q] = tr1[q]
   BY <1>5, <1>6
<1> HIDE DEF tr2
<1>8. \E m : InLine(tr2, en2, m) /\ Windowed(tr2, v, m)
  <2>1. /\ InLine(tr, en, o) /\ Windowed(tr, w, o)
        /\ tr \in [DOMAIN tr -> Garbage] /\ p \in Nat \ {0} /\ p \notin DOMAIN tr
        /\ 0 \notin DOMAIN tr /\ (w # << >> => tr[w[1]].pright = 0)
     BY <1>1, <1>5, <1>6 DEF Newest
  <2>2. /\ DOMAIN tr2 = DOMAIN tr \cup {p}
        /\ tr2[p].pleft = en.ref1 /\ tr2[p].pright = 0 /\ tr2[p].refc = 0
     BY <1>4, <1>7
  <2>3. \A q \in DOMAIN tr : /\ tr2[q].pleft = tr[q].pleft /\ tr2[q].refc = tr[q].refc
                             /\ tr2[q].pright = IF w # << >> /\ q = w[1] THEN p
                                                ELSE tr[q].pright
     BY <1>5, <1>7
  <2> HIDE DEF v
  <2> QED  BY <2>1, <2>2, <2>3, NewLine DEF v, NewEnt
<1>9. d = StateOf(e, tr2, v)
  <2>1. LinkRight(StateOf(e, tr, w), p) = StateOf(e, tr1, w)
     BY DEF LinkRight, StateOf, tr1
  <2>2. FirstOf(StateOf(e, tr1, w), p, en) = StateOf(e, tr2, w)
     BY DEF FirstOf, StateOf, tr2, t
  <2>3. ShiftRight(StateOf(e, tr2, w), p) = StateOf(e, tr2, v)  BY ShiftRightIs
  <2> QED  BY <2>1, <2>2, <2>3 DEF Extended
<1>10. Takers(d) # {}
  <2>1. d.window = v /\ d.trash = tr2  BY <1>9 DEF StateOf
  <2>2. v \in Seq(DOMAIN tr2) /\ v # << >> /\ v[1] = p
    <3> DEFINE D == DOMAIN tr2
    <3>1. w \in Seq(D) /\ Len(w) <= Window /\ p \in D  BY <1>1, <1>7 DEF Windowed
    <3> HIDE DEF D
    <3>2. v \in Seq(D) /\ v # << >> /\ v[1] = p  BY <3>1, FrontOf
    <3> QED  BY <3>2 DEF D
  <2> HIDE DEF v, d
  <2>3. 1 \in DOMAIN v /\ tr2[v[1]].refc # Refs  BY <1>4, <1>7, <2>2
  <2>4. 1 \in Takers(d)  BY <2>1, <2>3 DEF Takers
  <2> QED  BY <2>4
<1> HIDE DEF v, d, en2
<1>11. PICK m : Sound(e, tr2, v, en2, u, m)  BY <1>6, <1>8 DEF Sound
<1>12. Takers(StateOf(e, tr2, v)) # {}  BY <1>9, <1>10
<1> QED  BY <1>7, <1>9, <1>11, <1>12 DEF d, en2, GoodExtension

LEMMA DelNewStep ==
    ASSUME NEW id, NEW n, NEW written, Returning(id, n), DelNew(id, n, written)
    PROVE  AllocInv' /\ SupplyStep
<1> DEFINE a == Add(State, 1)
           s == StateOf(eof, trash, window)
<1>1. PICK o : Sound(eof, trash, window, ent, user, o)  BY DEF AllocInv, Returning
<1>2. /\ AllocInv /\ id \in Pids /\ n \in Straits /\ n \in Nat \ {0}
      /\ \A q \in Strait(id, n) : q \in Pids /\ user[q] > 0
   BY StraitsAre DEF Returning
<1>3. \A q \in Strait(id, n) : q \in Pids /\ user[q] = 1  BY <1>1, <1>2, ReturnStep
<1>4. State = s  BY DEF State, StateOf
<1>5. Takers(s) = {} /\ (window # << >> => trash[window[1]].pright = 0)
   BY <1>4 DEF DelNew, RightOf, StateOf
<1>6. PICK e2, tr2, v, p :
             /\ Add(s, 1) = [d |-> StateOf(e2, tr2, v), id |-> p]
             /\ DOMAIN tr2 = DOMAIN trash
             /\ \A q \in DOMAIN trash : tr2[q].pright = trash[q].pright
             /\ v = window
             /\ p = 0 => Sound(e2, tr2, v, ent, user, o)
             /\ p # 0 => /\ p \in Pids /\ Strait(p, 1) \subseteq Pids
                         /\ \A q \in Strait(p, 1) : user[q] = 0 /\ q \notin DOMAIN trash
                         /\ Sound(e2, tr2, v, ent, Plus(user, Strait(p, 1), 1), o)
   BY <1>1, <1>5, AddIs
<1>7. a.id = p /\ a.d = StateOf(e2, tr2, window)  BY <1>4, <1>6
<1> DEFINE d == Extended(StateOf(e2, tr2, window), p, ent)
           en2 == NewEnt(p, ent)
<1>8. \/ /\ p = 0
         /\ SetState(StateOf(e2, tr2, window))
         /\ UNCHANGED <<ent, user, zero, junk>>
      \/ /\ p # 0
         /\ SetState(Remember(d, id, n))
         /\ ent' = en2
         /\ Credit(Strait(id, n), -1)
         /\ zero' = Kept(id, n, written) \ {p}
         /\ UNCHANGED junk
      \/ /\ junk' = TRUE
         /\ UNCHANGED <<eof, trash, window, ent, user, zero>>
  <2>1. p \in zero \cup Fresh(a.d) => p # 0
    <3>1. Fresh(a.d) = eof .. e2 - 1  BY <1>7 DEF Fresh, StateOf
    <3>2. eof \in FirstPid .. MaxPid + 1 /\ e2 \in FirstPid .. MaxPid + 1
       BY <1>1, <1>6 DEF Sound, Owned
    <3>3. 0 \notin zero  BY <1>2 DEF AllocInv, Pids
    <3> QED  BY <3>1, <3>2, <3>3
  <2> HIDE DEF a
  <2> QED  BY <1>7, <2>1 DEF DelNew, a, Extended, NewEnt, NewTrash, FirstOf
<1> HIDE DEF a, d, en2
<1>9. CASE /\ p = 0
           /\ SetState(StateOf(e2, tr2, window))
           /\ UNCHANGED <<ent, user, zero, junk>>
  <2>1. eof' = e2 /\ trash' = tr2 /\ window' = window  BY <1>9 DEF SetState, StateOf
  <2>2. Sound(eof', trash', window', ent', user', o)  BY <1>6, <1>9, <2>1
  <2>3. AllocInv'  BY <1>2, <1>9, <2>2 DEF AllocInv
  <2>4. UNCHANGED <<user, Chapter>>  BY <1>6, <1>9, <2>1 DEF Chapter
  <2> QED  BY <2>3, <2>4 DEF SupplyStep
<1>10. CASE /\ p # 0
            /\ SetState(Remember(d, id, n))
            /\ ent' = en2
            /\ Credit(Strait(id, n), -1)
            /\ zero' = Kept(id, n, written) \ {p}
            /\ UNCHANGED junk
  <2>1. p \in Pids  BY <1>6, <1>10
  <2>2. Strait(p, 1) = {p}  BY <2>1 DEF Strait, Pids
  <2>3. user[p] = 0 /\ p \notin DOMAIN trash /\ Sound(e2, tr2, window, ent, Plus(user, {p}, 1), o)
     BY <1>6, <1>10, <2>2
  <2>4. user \in [Pids -> {0, 1}]  BY <1>1 DEF Sound, Owned
  <2>5. window # << >> => tr2[window[1]].pright = 0
    <3>1. window \in Seq(DOMAIN trash)  BY <1>1 DEF Sound, Windowed
    <3>2. window # << >> => window[1] \in DOMAIN trash  BY <3>1
    <3> QED  BY <1>5, <1>6, <3>2
  <2>6. PICK tr3, w, m : /\ d = StateOf(e2, tr3, w)
                         /\ DOMAIN tr3 = DOMAIN tr2 \cup {p}
                         /\ Sound(e2, tr3, w, en2, user, m)
                         /\ Takers(StateOf(e2, tr3, w)) # {}
    <3>1. /\ Sound(e2, tr2, window, ent, Plus(user, {p}, 1), o)
          /\ Unused(user, p) /\ Newest(tr2, window)
       BY <2>3, <2>4, <2>5 DEF Unused, Newest
    <3>2. GoodExtension(e2, tr2, window, user, ent, p)  BY <2>1, <3>1, NewPageIs
    <3> QED  BY <3>2 DEF d, en2, GoodExtension
  <2>7. PICK tr4 : /\ Remember(d, id, n) = StateOf(e2, tr4, w)
                   /\ DOMAIN tr4 = DOMAIN tr3
                   /\ Sound(e2, tr4, w, en2, Plus(user, Strait(id, n), -1), m)
    <3>1. Takers(StateOf(e2, tr3, w)) # {}  BY <2>6
    <3> QED  BY <1>2, <1>3, <2>6, <3>1, RememberIs
  <2>8. eof' = e2 /\ trash' = tr4 /\ window' = w /\ user' = Plus(user, Strait(id, n), -1)
     BY <1>10, <2>7 DEF SetState, Credit, Plus, StateOf
  <2>9. Sound(eof', trash', window', ent', user', m)  BY <1>10, <2>7, <2>8
  <2>10. zero' \subseteq Pids  BY <1>2, <1>10, KeptInside
  <2>11. AllocInv'  BY <1>2, <1>10, <2>9, <2>10 DEF AllocInv
  <2>12. p \notin Chapter /\ Chapter' = Chapter \cup {p}
     BY <1>6, <2>3, <2>6, <2>7, <2>8 DEF Chapter
  <2>13. Supply!Next  BY <1>1, <1>2, <2>1, <2>3, <2>8, <2>12, ReturnStep
  <2> QED  BY <2>11, <2>13 DEF SupplyStep
<1>11. CASE /\ junk' = TRUE
            /\ UNCHANGED <<eof, trash, window, ent, user, zero>>
   BY <1>2, <1>11 DEF AllocInv, SupplyStep, Chapter
<1> QED  BY <1>8, <1>9, <1>10, <1>11

\* The window of a file that is opened again: the newest pages of the chapter.
LEMMA ReopenStep ==
    ASSUME AllocInv, Reopen
    PROVE  AllocInv' /\ SupplyStep
<1> DEFINE w == window'
<1>1. PICK o : Sound(eof, trash, window, ent, user, o)  BY DEF AllocInv
<1>2. /\ w \in BoundedSeq(DOMAIN trash, Window) /\ FromRight(w)
      /\ UNCHANGED <<eof, trash, ent, user, zero, junk>>
   BY DEF Reopen
<1>3. w \in Seq(DOMAIN trash) /\ Len(w) <= Window /\ Len(w) \in Nat
   BY <1>2 DEF BoundedSeq, SeqOf
<1> HIDE DEF w
<1>4. /\ InLine(trash, ent, o) /\ 0 \notin DOMAIN trash
      /\ \A p \in DOMAIN trash : o[p] \in Nat /\ o[p] <= ent.ref0c
      /\ ent.ref0c \in Nat
   BY <1>1 DEF Sound, InLine, Owned, Pids
<1>5. w = << >> <=> DOMAIN trash = {}
  <2>1. w = << >> <=> ent.ref1 = 0  BY <1>2 DEF FromRight
  <2>2. /\ DOMAIN trash = {} => ent.ref1 = 0
        /\ DOMAIN trash # {} => ent.ref1 \in DOMAIN trash
     BY <1>4, Zenon DEF InLine
  <2> QED  BY <1>4, <2>1, <2>2, Zenon
<1>6. \A i \in 1 .. Len(w) : o[w[i]] = o[w[1]] - (i - 1)
  <2> DEFINE B == { i \in 1 .. Len(w) : o[w[i]] # o[w[1]] - (i - 1) }
             b == Min(B)
  <2>1. ASSUME B # {} PROVE FALSE
    <3>1. b \in B /\ \A i \in B : b <= i
      <4>1. B \in SUBSET Nat  OBVIOUS
      <4> HIDE DEF B
      <4> QED  BY <2>1, <4>1, MinIs
    <3> HIDE DEF b
    <3>2. b \in 1 .. Len(w) /\ w[b] \in DOMAIN trash /\ w[1] \in DOMAIN trash
       BY <1>3, <3>1
    <3>3. o[w[1]] \in Nat  BY <1>4, <3>2
    <3>4. b # 1  BY <3>1, <3>3
    <3>5. b - 1 \in 1 .. Len(w) - 1 /\ b - 1 \in 1 .. Len(w) /\ (b - 1) + 1 = b
       BY <1>3, <3>2, <3>4
    <3>6. b - 1 \notin B  BY <3>1, <3>5
    <3>7. o[w[b - 1]] = o[w[1]] - ((b - 1) - 1)  BY <3>5, <3>6
    <3>8. w[b] = trash[w[b - 1]].pleft /\ w[b - 1] \in DOMAIN trash
       BY <1>2, <1>3, <3>5 DEF FromRight
    <3>9. o[w[b]] = o[w[b - 1]] - 1
      <4> DEFINE x == w[b - 1]
      <4>1. x \in DOMAIN trash /\ trash[x].pleft = w[b]  BY <3>8
      <4> HIDE DEF x
      <4>2. IF o[x] = 1 THEN trash[x].pleft = 0
            ELSE trash[x].pleft \in DOMAIN trash /\ o[trash[x].pleft] = o[x] - 1
         BY <1>4, <4>1, Zenon DEF InLine
      <4>3. w[b] # 0  BY <1>4, <3>2
      <4> QED  BY <4>1, <4>2, <4>3 DEF x
    <3>10. o[w[b]] # o[w[1]] - (b - 1)  BY <3>1
    <3> QED  BY <3>2, <3>3, <3>7, <3>9, <3>10
  <2> QED  BY <2>1
<1>7. ASSUME w # << >>, NEW p \in DOMAIN trash, o[p] > o[w[1]] PROVE trash[p].refc = 0
  <2>1. o[w[1]] = ent.ref0c  BY <1>2, <1>4, <1>5, <1>7 DEF FromRight, InLine
  <2> QED  BY <1>4, <1>7, <2>1
<1>8. Windowed(trash, w, o)  BY <1>3, <1>5, <1>6, <1>7 DEF Windowed
<1>9. Sound(eof, trash, w, ent, user, o)  BY <1>1, <1>8 DEF Sound
<1>10. Sound(eof', trash', window', ent', user', o)  BY <1>2, <1>9 DEF w
<1>11. AllocInv'  BY <1>2, <1>10 DEF AllocInv
<1>12. UNCHANGED <<user, Chapter>>  BY <1>2 DEF Chapter
<1> QED  BY <1>11, <1>12 DEF SupplyStep

\* Every step keeps the invariant and is a step of PageSupply or none.
LEMMA AllocStep ==
    ASSUME AllocInv, [Next]_vars
    PROVE  AllocInv' /\ SupplyStep
<1>1. CASE \E n \in Straits : edbd_add(n)  BY <1>1, AddStep
<1>2. ASSUME NEW id \in Pids, NEW n \in Straits, NEW written \in BOOLEAN,
             edbd_del(id, n, written)
      PROVE  AllocInv' /\ SupplyStep
  <2>1. Returning(id, n)  BY <1>2 DEF edbd_del, Returning
  <2>2. \/ DelHere(id, n, written) \/ DelRight(id, n, written) \/ DelNew(id, n, written)
     BY <1>2 DEF edbd_del
  <2> QED  BY <2>1, <2>2, DelHereStep, DelRightStep, DelNewStep
<1>3. CASE Reopen  BY <1>3, ReopenStep
<1>4. CASE UNCHANGED vars
   BY <1>4 DEF vars, AllocInv, SupplyStep, Chapter
<1> QED  BY <1>1, <1>2, <1>3, <1>4 DEF Next

LEMMA AllocInvariant == Spec => []AllocInv
<1>1. Init => AllocInv  BY InitInv
<1>2. AllocInv /\ [Next]_vars => AllocInv'  BY AllocStep
<1> QED  BY <1>1, <1>2, PTL DEF Spec
-----------------------------------------------------------------------------
(* Theorems *)

\* The variables of edbd_add and edbd_del keep their types.
THEOREM TypeCorrect == Spec => []TypeOK
<1>1. ASSUME AllocInv PROVE TypeOK
  <2>1. PICK o : Sound(eof, trash, window, ent, user, o)  BY <1>1 DEF AllocInv
  <2>2. /\ eof \in FirstPid .. MaxPid + 1 /\ Chapter \subseteq Pids
        /\ trash \in [Chapter -> Garbage]
     BY <2>1 DEF Sound, Owned, Chapter
  <2>3. window \in Seq(Chapter) /\ Len(window) <= Window
     BY <2>1 DEF Sound, Windowed, Chapter
  <2>4. ent \in [ref0 : Nat, ref0c : Nat, ref1 : Nat]  BY <2>1 DEF Sound, InLine
  <2>5. user \in [Pids -> Nat]  BY <2>1 DEF Sound, Owned
  <2> QED  BY <1>1, <2>2, <2>3, <2>4, <2>5 DEF AllocInv, TypeOK
<1> QED  BY <1>1, AllocInvariant, PTL

\* No page is lost and none has two owners, whatever edbd_add and edbd_del were asked for.
THEOREM PagesOwnedOnce == Spec => []OneOwner
<1>1. ASSUME AllocInv PROVE OneOwner
  <2>1. PICK o : Sound(eof, trash, window, ent, user, o)  BY <1>1 DEF AllocInv
  <2>2. Owned(eof, trash, user) /\ eof \in FirstPid .. MaxPid + 1  BY <2>1 DEF Sound, Owned
  <2>3. SUFFICES ASSUME NEW q \in FirstPid .. eof - 1
                 PROVE  user[q] + (IF q \in Chapter THEN 1 ELSE 0)
                          + Cardinality({ r \in Chapter \X (1 .. Refs) :
                                            q \in RefPages(r[1], r[2]) }) = 1
     BY DEF OneOwner
  <2> DEFINE R == { r \in Chapter \X (1 .. Refs) : q \in RefPages(r[1], r[2]) }
  <2>4. \A p \in Chapter, j \in 1 .. Refs : RefPages(p, j) = PagesOf(trash, p, j)
     BY DEF RefPages, PagesOf
  <2>5. q \in Pids /\ user[q] \in {0, 1}  BY <2>2 DEF Pids, Owned
  <2>6. CASE user[q] = 1 \/ q \in Chapter
    <3>1. R = {}
      <4>1. SUFFICES ASSUME NEW r \in R PROVE FALSE  OBVIOUS
      <4>2. r[1] \in Chapter /\ r[2] \in 1 .. Refs /\ q \in PagesOf(trash, r[1], r[2])
         BY <2>4
      <4>3. q \notin Chapter /\ user[q] = 0  BY <2>2, <4>2 DEF Owned, Chapter
      <4> QED  BY <2>6, <4>3
    <3>2. Cardinality(R) = 0  BY <3>1, FS_EmptySet
    <3>3. user[q] = 1 => q \notin Chapter  BY <2>2, <2>5 DEF Owned, Chapter
    <3> HIDE DEF R
    <3> QED  BY <2>5, <2>6, <3>2, <3>3 DEF R
  <2>7. CASE user[q] # 1 /\ q \notin Chapter
    <3>1. PICK p \in Chapter, j \in 1 .. Refs : q \in PagesOf(trash, p, j)
       BY <2>2, <2>7 DEF Owned, Chapter
    <3>2. \A x \in Chapter, i \in 1 .. Refs : q \in PagesOf(trash, x, i) => x = p /\ i = j
       BY <2>2, <3>1 DEF Owned, Chapter
    <3>3. R = {<<p, j>>}
      <4>1. <<p, j>> \in R  BY <2>4, <3>1
      <4>2. ASSUME NEW r \in R PROVE r = <<p, j>>
        <5>1. r[1] \in Chapter /\ r[2] \in 1 .. Refs /\ q \in PagesOf(trash, r[1], r[2])
              /\ r = <<r[1], r[2]>>
           BY <2>4
        <5>2. r[1] = p /\ r[2] = j  BY <3>2, <5>1
        <5> QED  BY <5>1, <5>2
      <4> HIDE DEF R
      <4> QED  BY <4>1, <4>2
    <3>4. Cardinality(R) = 1  BY <3>3, FS_Singleton
    <3> HIDE DEF R
    <3> QED  BY <2>5, <2>7, <3>4 DEF R
  <2> QED  BY <2>6, <2>7
<1> QED  BY <1>1, AllocInvariant, PTL

\* The garbage chapter is one list of ref0c pages from ref0 to ref1, the window a run
\* of it with nothing but empty pages to its right, and refc and largeststrait, which
\* edbd_add and edbd_del decide by, agree with the references.
THEOREM ChapterStaysInOrder == Spec => []ChapterInOrder
<1>1. ASSUME AllocInv PROVE ChapterInOrder
  <2>1. PICK o : Sound(eof, trash, window, ent, user, o)  BY <1>1 DEF AllocInv
  <2> DEFINE D == DOMAIN trash
  <2>2. InLine(trash, ent, o) /\ Windowed(trash, window, o) /\ Owned(eof, trash, user)
     BY <2>1 DEF Sound
  <2>3. 0 \notin D /\ \A p \in D : o[p] \in Nat \ {0}
    <3>1. D \subseteq Pids /\ 0 \notin Pids  BY <2>2 DEF Owned, Pids
    <3>2. o \in [D -> 1 .. ent.ref0c]  BY <2>2 DEF InLine
    <3> QED  BY <3>1, <3>2
  <2>4. \A p, q \in D : o[p] = o[q] => p = q  BY <2>2 DEF InLine
  <2>5. HeadsAgree
    <3>1. \A p \in Chapter : Counted(trash[p])  BY <2>2 DEF Owned, PageOK, Chapter
    <3> QED  BY <3>1 DEF HeadsAgree, Counted, SetRefs, StraitSizes
  <2>6. ASSUME NEW p \in D
        PROVE  /\ trash[p].pleft = 0 <=> p = ent.ref0
               /\ trash[p].pright = 0 <=> p = ent.ref1
               /\ trash[p].pright # 0 => trash[trash[p].pright].pleft = p
    <3>1. /\ ent.ref0 \in D /\ o[ent.ref0] = 1
          /\ ent.ref1 \in D /\ o[ent.ref1] = ent.ref0c
       BY <2>2, <2>6 DEF InLine
    <3>2. IF o[p] = 1 THEN trash[p].pleft = 0
          ELSE trash[p].pleft \in D /\ o[trash[p].pleft] = o[p] - 1
       BY <2>2 DEF InLine
    <3>3. IF o[p] = ent.ref0c THEN trash[p].pright = 0
          ELSE trash[p].pright \in D /\ o[trash[p].pright] = o[p] + 1
       BY <2>2 DEF InLine
    <3> HIDE DEF D
    <3>4. trash[p].pleft = 0 <=> p = ent.ref0  BY <2>3, <2>4, <3>1, <3>2
    <3>5. trash[p].pright = 0 <=> p = ent.ref1  BY <2>3, <2>4, <3>1, <3>3
    <3>6. ASSUME trash[p].pright # 0 PROVE trash[trash[p].pright].pleft = p
      <4> DEFINE q == trash[p].pright
      <4>1. q \in D /\ o[q] = o[p] + 1  BY <3>3, <3>6
      <4>2. IF o[q] = 1 THEN trash[q].pleft = 0
            ELSE trash[q].pleft \in D /\ o[trash[q].pleft] = o[q] - 1
         BY <2>2, <4>1 DEF InLine, D
      <4> HIDE DEF q
      <4>3. o[q] # 1 /\ o[q] - 1 = o[p]  BY <2>3, <4>1
      <4>4. trash[q].pleft = p  BY <2>4, <4>2, <4>3
      <4> QED  BY <4>4 DEF q
    <3> QED  BY <3>4, <3>5, <3>6
  <2>7. ASSUME NEW i \in 1 .. Len(window) - 1
        PROVE  trash[window[i]].pleft = window[i + 1]
    <3>1. window \in Seq(D) /\ Len(window) \in Nat  BY <2>2 DEF Windowed
    <3>2. i \in 1 .. Len(window) /\ i + 1 \in 1 .. Len(window) /\ 1 \in 1 .. Len(window)
       BY <3>1
    <3>3. window[i] \in D /\ window[i + 1] \in D /\ window[1] \in D  BY <3>1, <3>2
    <3>4. o[window[i]] = o[window[1]] - (i - 1) /\ o[window[i + 1]] = o[window[1]] - ((i + 1) - 1)
       BY <2>2, <3>2 DEF Windowed
    <3>5. o[window[1]] \in Nat /\ o[window[i]] \in Nat \ {0} /\ o[window[i + 1]] \in Nat \ {0}
       BY <2>3, <3>3
    <3>6. o[window[i]] - 1 = o[window[i + 1]] /\ o[window[i]] # 1
      <4> DEFINE x == o[window[1]]
                 y == o[window[i]]
                 z == o[window[i + 1]]
      <4>1. /\ x \in Nat /\ y \in Nat \ {0} /\ z \in Nat \ {0} /\ i \in Nat
            /\ y = x - (i - 1) /\ z = x - ((i + 1) - 1)
         BY <3>4, <3>5
      <4> HIDE DEF x, y, z
      <4>2. y - 1 = z /\ y # 1  BY <4>1
      <4> QED  BY <4>2 DEF x, y, z
    <3>7. trash[window[i]].pleft \in D /\ o[trash[window[i]].pleft] = o[window[i]] - 1
       BY <2>2, <3>3, <3>6 DEF InLine
    <3> QED  BY <2>4, <3>3, <3>6, <3>7
  <2>8. ASSUME window # << >>, NEW p \in D, trash[p].pleft = window[1]
        PROVE  trash[p].refc = 0
    <3>1. window[1] \in D
      <4>1. window \in Seq(D)  BY <2>2 DEF Windowed
      <4> QED  BY <2>8, <4>1
    <3>2. o[window[1]] = o[p] - 1  BY <2>2, <2>3, <2>8, <3>1 DEF InLine
    <3>3. o[p] > o[window[1]]  BY <2>3, <3>1, <3>2
    <3> QED  BY <2>2, <2>8, <3>3 DEF Windowed
  <2>9. ent.ref0c = Cardinality(D)  BY <2>2 DEF InLine
  <2>10. WindowInOrder  BY <2>6, <2>7, <2>8, <2>9 DEF WindowInOrder, Chapter
  <2> QED  BY <2>5, <2>10 DEF ChapterInOrder
<1> QED  BY <1>1, AllocInvariant, PTL

\* Refinement: edbd_add and edbd_del hand out and take back straits as PageSupply says.
THEOREM AllocSuppliesPages == Spec => SuppliesPages
<1>1. Init => Supply!Init  BY InitInv
<1>2. AllocInv /\ [Next]_vars => [Supply!Next]_<<user, Chapter>>
   BY AllocStep DEF SupplyStep
<1> QED  BY <1>1, <1>2, AllocInvariant, PTL DEF Spec, SuppliesPages, Supply!Spec
=============================================================================
