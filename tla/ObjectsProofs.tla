---------------------------- MODULE ObjectsProofs ----------------------------
(***************************************************************************)
(* Theorems about Objects: for any number of workers, rows and pages.      *)
(***************************************************************************)
EXTENDS Objects, TLAPS

\* What the proofs use of the constants
LEMMA Sizes ==
    /\ straitc \in Nat \ {0} /\ lookupsperpage \in Nat \ {0} /\ objectsperpage \in Nat \ {0}
    /\ \A i \in 1 .. lookupsperpage : NewPids[i] \in Nat \ {0}
    /\ Data \notin Int
BY ObjectsAssumption

LEMMA Times ==
    ASSUME NEW a \in Int, NEW b \in Int, NEW s \in Nat
    PROVE  /\ a * s \in Int
           /\ (a + 1) * s = a * s + s
           /\ a * s = (a - 1) * s + s
           /\ a <= b => a * s <= b * s
OBVIOUS
-----------------------------------------------------------------------------
(* The inductive invariant *)

PageHead == [trashstart : Rows \cup {NoRow}, trashc : Nat,
         trashvor : Nat, pright : Nat]
Kinds == {"none", "read", "write", "free", "alloc", "select"}

Typed ==
    /\ head \in [DOMAIN head -> PageHead]
    /\ deleted \in [DOMAIN head -> [Rows -> BOOLEAN]]
    /\ content \in [DOMAIN head -> [Rows -> Rows \cup {NoRow, Data}]]
    /\ refs \in Seq([ref : Nat, end : Nat])
    /\ held = [w \in Workers |-> held[w]]
    /\ job \in [Workers -> [kind : Kinds, page : Nat, row : Rows \cup {NoRow}]]
    /\ next \in [Workers -> Rows \cup {NoRow, Data}]
    /\ opened \in [Workers -> BOOLEAN]
    /\ pc \in [Workers -> Pcs]
    /\ trashlast \in DOMAIN head \cup {0}
    /\ \A p \in DOMAIN head : head[p].trashvor \in DOMAIN head \cup {0}

\* The chapter: the straits of NewPids, one reference for each, linked in this order.
After(i, k, n) ==
    IF k < straitc - 1 THEN NewPids[i] + (k + 1) ELSE IF i < n THEN NewPids[i + 1] ELSE 0
Linked ==
    LET n == Len(refs) IN
    /\ n \in 1 .. lookupsperpage
    /\ \A i \in 1 .. n : refs[i] = [ref |-> NewPids[i], end |-> i * straitc - 1]
    /\ ref0c = n * straitc
    /\ \A p : p \in DOMAIN head <=> \E i \in 1 .. n : p \in Strait(NewPids[i])
    /\ \A i \in 1 .. n, k \in 0 .. straitc - 1 :
         head[NewPids[i] + k].pright = After(i, k, n)

Holds(w, l, mode) == l \in DOMAIN held[w] /\ held[w][l] = mode

\* What edbl_set keeps up: locks of two workers that overlap are both shared.
Exclusive ==
    \A v, w \in Workers : v # w =>
      \A k \in DOMAIN held[v], l \in DOMAIN held[w] :
        Overlap(k, l) => held[v][k] = "SH" /\ held[w][l] = "SH"

RowPcs   == {"row", "use", "close", "trash", "link", "push", "incycle", "addpage", "cycle"}
FreePcs  == {"trash", "link", "push", "incycle", "addpage", "cycle"}
AllocPcs == {"enttrash", "trashoff", "take", "pop", "created", "ref0c", "lastpright",
             "reference"}

\* Where a worker is in its job, and the locks it has there.
Place(w) ==
    /\ pc[w] = "idle" <=> job[w].kind = "none"
    /\ pc[w] \in RowPcs <=> job[w].kind \in {"read", "write", "free"}
    /\ pc[w] \in AllocPcs <=> job[w].kind = "alloc"
    /\ pc[w] \in FreePcs => job[w].kind = "free"
    /\ pc[w] = "use" => job[w].kind \in {"read", "write"}
    /\ pc[w] \notin {"idle", "enttrash", "ref0c"} => Page(w) \in DOMAIN head
    /\ pc[w] \in RowPcs \cup {"pop", "created"} => job[w].row \in Rows
    /\ pc[w] \in RowPcs \ {"row"} => Holds(w, LROW(Page(w), job[w].row), RowMode(w))
    /\ pc[w] \in {"link", "push", "take", "pop"} => Holds(w, LTRASHOFF(Page(w)), "XL")
    /\ pc[w] \in {"lastpright", "reference"} => Holds(w, LREF0C, "XL") /\ Page(w) = LastPage

\* What a worker knows of its row.
RowState(w) ==
    LET p == Page(w)
        r == job[w].row
    IN  /\ pc[w] = "row" => deleted[p][r] \/ content[p][r] = Data
        /\ pc[w] \in {"use", "trash", "link"} => ~deleted[p][r] /\ content[p][r] = Data
        /\ pc[w] = "push" => deleted[p][r] /\ content[p][r] = head[p].trashstart
        /\ pc[w] = "pop" => head[p].trashstart = r /\ next[w] = content[p][r]
        /\ pc[w] = "created" => ~deleted[p][r] /\ content[p][r] # Data

\* A row is taken by one jalloc.
CreatedApart ==
    \A v, w \in Workers :
      pc[v] = "created" /\ pc[w] = "created" /\ Page(v) = Page(w) /\ job[v].row = job[w].row
        => v = w

\* The rows on the list of page p: the deleted ones but for the one that
\* edba_objectdelete has linked and not yet pushed.
Pushed(p, r) == \E w \in Workers : pc[w] = "push" /\ Page(w) = p /\ job[w].row = r
Listed(p) == { r \in Rows : deleted[p][r] /\ ~Pushed(p, r) }
HasList(p) == \E l \in Bijection(1 .. head[p].trashc, Listed(p)) : IsTrashList(l, p)
Whole == \A p \in DOMAIN head : HasList(p)

IInv ==
    /\ Typed /\ Linked /\ Exclusive
    /\ \A w \in Workers : Place(w) /\ RowState(w)
    /\ CreatedApart
    /\ Allocating => ~Racing
    /\ Whole
-----------------------------------------------------------------------------
(* Locks *)

\* Worker w has only changed its own locks, and kept all but those in gone.
Keeps(w, gone) ==
    /\ held' = [v \in Workers |-> held'[v]]
    /\ \A v \in Workers \ {w} : held'[v] = held[v]
    /\ \A k \in DOMAIN held[w] \ gone : k \in DOMAIN held'[w] /\ held'[w][k] = held[w][k]

Gets(w, l, mode) == l \in DOMAIN held'[w] /\ held'[w][l] = mode

LEMMA LockSet ==
    ASSUME Typed, Exclusive, NEW w \in Workers, NEW l, NEW mode, edbl_set(w, l, mode)
    PROVE  Exclusive' /\ Keeps(w, {l}) /\ Gets(w, l, mode)
<1>1. /\ held' = [v \in Workers |-> held'[v]]
      /\ \A v \in Workers \ {w} : held'[v] = held[v]
      /\ held'[w] = Overlay([k \in {l} |-> mode], held[w])
    BY DEF Typed, edbl_set
<1>2. /\ DOMAIN held'[w] = DOMAIN held[w] \cup {l}
      /\ held'[w][l] = mode
      /\ \A k \in DOMAIN held[w] \ {l} : held'[w][k] = held[w][k]
    BY <1>1 DEF Overlay
<1>3. Exclusive'
  <2> SUFFICES ASSUME NEW u \in Workers, NEW v \in Workers, u # v,
                      NEW k \in DOMAIN held'[u], NEW m \in DOMAIN held'[v], Overlap(k, m)
               PROVE  held'[u][k] = "SH" /\ held'[v][m] = "SH"
      BY DEF Exclusive
  <2>0. Overlap(m, k)
      BY DEF Overlap
  <2>1. CASE u # w /\ v # w
      BY <2>1, <1>1 DEF Exclusive
  <2>2. CASE u = w
    <3>1. CASE k = l
        BY <2>0, <2>2, <3>1, <1>1, <1>2 DEF edbl_set, Grants
    <3>2. CASE k # l
        BY <2>2, <3>2, <1>1, <1>2 DEF Exclusive
    <3> QED  BY <3>1, <3>2
  <2>3. CASE v = w
    <3>1. CASE m = l
        BY <2>3, <3>1, <1>1, <1>2 DEF edbl_set, Grants
    <3>2. CASE m # l
        BY <2>3, <3>2, <1>1, <1>2 DEF Exclusive
    <3> QED  BY <3>1, <3>2
  <2> QED  BY <2>1, <2>2, <2>3
<1> QED
    BY <1>1, <1>2, <1>3 DEF Keeps, Gets

LEMMA LockDrop ==
    ASSUME Typed, Exclusive, NEW w \in Workers, NEW ls, Release(w, ls)
    PROVE  Exclusive' /\ Keeps(w, ls)
<1>1. /\ held' = [v \in Workers |-> held'[v]]
      /\ \A v \in Workers \ {w} : held'[v] = held[v]
      /\ held'[w] = Restrict(held[w], DOMAIN held[w] \ ls)
    BY DEF Typed, Release
<1>2. /\ DOMAIN held'[w] = DOMAIN held[w] \ ls
      /\ \A k \in DOMAIN held[w] \ ls : held'[w][k] = held[w][k]
    BY <1>1 DEF Restrict
<1>3. \A v \in Workers : \A k \in DOMAIN held'[v] : k \in DOMAIN held[v] /\ held'[v][k] = held[v][k]
    BY <1>1, <1>2
<1>4. Exclusive'
    BY <1>3 DEF Exclusive
<1> QED
    BY <1>1, <1>2, <1>4 DEF Keeps

LEMMA LockSame ==
    ASSUME Typed, Exclusive, NEW w \in Workers, UNCHANGED held
    PROVE  Exclusive' /\ Keeps(w, {})
BY DEF Typed, Exclusive, Keeps
-----------------------------------------------------------------------------
(* The chapter *)

\* A page of the file: the k-th of the i-th strait
LEMMA StraitPage ==
    ASSUME NEW i \in 1 .. lookupsperpage, NEW p
    PROVE  /\ NewPids[i] \in Nat \ {0}
           /\ p \in Strait(NewPids[i]) <=> \E k \in 0 .. straitc - 1 : p = NewPids[i] + k
<1>1. NewPids[i] \in Nat \ {0} /\ straitc \in Nat
    BY Sizes
<1>2. ASSUME p \in Strait(NewPids[i])
      PROVE  \E k \in 0 .. straitc - 1 : p = NewPids[i] + k
  <2>1. p - NewPids[i] \in 0 .. straitc - 1 /\ p = NewPids[i] + (p - NewPids[i])
      BY <1>1, <1>2 DEF Strait
  <2> QED  BY <2>1
<1> QED
    BY <1>1, <1>2 DEF Strait

LEMMA StraitsApart ==
    ASSUME NEW i \in 1 .. lookupsperpage, NEW j \in 1 .. lookupsperpage, i # j,
           NEW p \in Strait(NewPids[i])
    PROVE  p \notin Strait(NewPids[j])
<1>1. NewPids[i] \in Nat /\ NewPids[j] \in Nat /\ p \in Int
    BY Sizes DEF Strait
<1>2. NewPids[i] + straitc <= NewPids[j] \/ NewPids[j] + straitc <= NewPids[i]
  <2>0. i \in Int /\ j \in Int
      BY Sizes
  <2>1. CASE i < j  BY <2>1, ObjectsAssumption
  <2>2. CASE j < i  BY <2>2, ObjectsAssumption
  <2> QED  BY <2>0, <2>1, <2>2
<1> QED
    BY <1>1, <1>2, Sizes DEF Strait

LEMMA Straits ==
    ASSUME Linked
    PROVE  /\ Len(refs) \in Nat \ {0} /\ Len(refs) <= lookupsperpage
           /\ \A i \in 1 .. Len(refs) : i \in 1 .. lookupsperpage
BY Sizes DEF Linked

LEMMA PageIn ==
    ASSUME Linked, NEW i \in 1 .. Len(refs), NEW k \in 0 .. straitc - 1
    PROVE  NewPids[i] + k \in DOMAIN head
<1>1. i \in 1 .. lookupsperpage
    BY Straits
<1>2. NewPids[i] + k \in Strait(NewPids[i])
    BY <1>1, StraitPage
<1> QED
    BY <1>2 DEF Linked

LEMMA PageOf ==
    ASSUME Linked, NEW p \in DOMAIN head
    PROVE  \E i \in 1 .. Len(refs), k \in 0 .. straitc - 1 : p = NewPids[i] + k
<1>1. PICK i \in 1 .. Len(refs) : p \in Strait(NewPids[i])
    BY DEF Linked
<1>2. i \in 1 .. lookupsperpage
    BY Straits
<1> QED
    BY <1>1, <1>2, StraitPage

LEMMA PagesAreNat ==
    ASSUME Linked, NEW p \in DOMAIN head
    PROVE  p \in Nat \ {0}
<1>1. PICK i \in 1 .. Len(refs), k \in 0 .. straitc - 1 : p = NewPids[i] + k
    BY PageOf
<1>2. i \in 1 .. lookupsperpage
    BY Straits
<1> QED
    BY <1>1, <1>2, Sizes

\* What the references hold, and where a strait starts
LEMMA References ==
    ASSUME Linked, NEW i \in 1 .. Len(refs)
    PROVE  /\ refs[i].ref = NewPids[i] /\ refs[i].end = i * straitc - 1
           /\ StartOf(i) = (i - 1) * straitc
<1>1. Len(refs) \in Nat /\ i \in Int /\ straitc \in Nat
    BY Straits, Sizes
<1>2. \A j \in 1 .. Len(refs) : refs[j].ref = NewPids[j] /\ refs[j].end = j * straitc - 1
  <2> SUFFICES ASSUME NEW j \in 1 .. Len(refs)
               PROVE  refs[j].ref = NewPids[j] /\ refs[j].end = j * straitc - 1
      OBVIOUS
  <2> DEFINE e == j * straitc - 1
  <2>1. refs[j] = [ref |-> NewPids[j], end |-> e]
      BY DEF Linked
  <2> HIDE DEF e
  <2>2. refs[j].ref = NewPids[j] /\ refs[j].end = e
      BY <2>1
  <2> QED  BY <2>2 DEF e
<1>3. CASE i = 1
  <2>1. (1 - 1) * straitc = 0
      BY <1>1
  <2> QED  BY <1>2, <1>3, <2>1 DEF StartOf
<1>4. CASE i # 1
  <2>1. i - 1 \in 1 .. Len(refs)
      BY <1>1, <1>4
  <2>2. refs[i - 1].end = (i - 1) * straitc - 1
      BY <1>2, <2>1
  <2>3. (i - 1) * straitc \in Int
      BY <1>1, Times
  <2> QED
      BY <1>2, <1>4, <2>2, <2>3 DEF StartOf
<1> QED
    BY <1>3, <1>4

LEMMA LookupIs ==
    ASSUME Linked, NEW i \in 1 .. Len(refs), NEW k \in 0 .. straitc - 1,
           NEW off, off = (i - 1) * straitc + k
    PROVE  Lookup(off) = NewPids[i] + k
<1>1. Len(refs) \in Nat /\ i \in Int /\ straitc \in Nat \ {0} /\ k \in Int
    BY Straits, Sizes
<1>2. (i - 1) * straitc \in Int /\ off \in Int
    BY <1>1, Times
<1>3. i * straitc = (i - 1) * straitc + straitc
    BY <1>1, Times
<1>4. i \in StraitFrom(off)
  <2>1. refs[i].end = i * straitc - 1
      BY References
  <2> QED  BY <1>1, <1>2, <1>3, <2>1 DEF StraitFrom
<1>5. ASSUME NEW j \in StraitFrom(off)
      PROVE  i <= j
  <2>1. j \in 1 .. Len(refs) /\ j \in Int /\ refs[j].end >= off
      BY DEF StraitFrom
  <2>2. refs[j].end = j * straitc - 1
      BY <2>1, References
  <2>3. SUFFICES ASSUME j <= i - 1 PROVE FALSE
      BY <1>1, <2>1
  <2>4. j * straitc <= (i - 1) * straitc /\ j * straitc \in Int
      BY <1>1, <2>1, <2>3, Times
  <2> QED
      BY <1>1, <1>2, <2>1, <2>2, <2>4
<1>6. (CHOOSE m \in StraitFrom(off) : \A j \in StraitFrom(off) : m <= j) = i
  <2> DEFINE m == CHOOSE m \in StraitFrom(off) : \A j \in StraitFrom(off) : m <= j
  <2>1. m \in StraitFrom(off) /\ \A j \in StraitFrom(off) : m <= j
      BY <1>4, <1>5
  <2>2. m \in Int
      BY <2>1 DEF StraitFrom
  <2> HIDE DEF m
  <2>3. m = i
      BY <1>1, <1>4, <1>5, <2>1, <2>2
  <2> QED  BY <2>3 DEF m
<1>7. Lookup(off) = refs[i].ref + (off - StartOf(i))
    BY <1>6 DEF Lookup
<1>8. NewPids[i] \in Nat
    BY Straits, Sizes
<1>9. refs[i].ref = NewPids[i] /\ StartOf(i) = (i - 1) * straitc
    BY References
<1> QED
    BY <1>1, <1>2, <1>7, <1>8, <1>9

\* Every offset of the chapter is in a strait.
LEMMA OffsetIn ==
    ASSUME Linked, NEW off \in 0 .. ref0c - 1
    PROVE  \E i \in 1 .. Len(refs), k \in 0 .. straitc - 1 : off = (i - 1) * straitc + k
<1>1. Len(refs) \in Nat /\ ref0c = Len(refs) * straitc /\ straitc \in Nat \ {0}
    BY Straits, Sizes DEF Linked
<1> DEFINE q == off \div straitc
           k == off % straitc
<1>2. off \in Nat /\ off < Len(refs) * straitc /\ Len(refs) * straitc \in Int
  <2> Len(refs) * straitc \in Int
      BY <1>1, Times
  <2> QED  BY <1>1
<1>3. q \in Nat /\ k \in 0 .. straitc - 1 /\ off = q * straitc + k
    BY <1>1, <1>2
<1> HIDE DEF q, k
<1>4. q < Len(refs)
  <2> SUFFICES ASSUME Len(refs) <= q PROVE FALSE
      BY <1>1, <1>3
  <2>1. Len(refs) * straitc <= q * straitc /\ q * straitc \in Int
      BY <1>1, <1>3, Times
  <2> QED  BY <1>1, <1>2, <1>3, <2>1
<1>5. q + 1 \in 1 .. Len(refs) /\ (q + 1) - 1 = q
    BY <1>1, <1>3, <1>4
<1>6. off = ((q + 1) - 1) * straitc + k
    BY <1>3, <1>5
<1> QED
    BY <1>3, <1>5, <1>6

LEMMA LookupIn ==
    ASSUME Linked, NEW off \in 0 .. ref0c - 1
    PROVE  Lookup(off) \in DOMAIN head
<1>1. PICK i \in 1 .. Len(refs), k \in 0 .. straitc - 1 : off = (i - 1) * straitc + k
    BY OffsetIn
<1> QED
    BY <1>1, LookupIs, PageIn

LEMMA LastPageIs ==
    ASSUME Linked
    PROVE  /\ LastPage = NewPids[Len(refs)] + (straitc - 1)
           /\ LastPage \in DOMAIN head
<1> DEFINE n == Len(refs)
<1>1. n \in Nat \ {0} /\ n \in 1 .. n /\ n \in 1 .. lookupsperpage /\ straitc \in Nat \ {0}
    BY Straits, Sizes
<1>2. refs[n].ref = NewPids[n] /\ refs[n].end = n * straitc - 1 /\ StartOf(n) = (n - 1) * straitc
    BY <1>1, References
<1>3. n * straitc = (n - 1) * straitc + straitc /\ (n - 1) * straitc \in Int
    BY <1>1, Times
<1>4. NewPids[n] \in Nat
    BY <1>1, Sizes
<1>5. LastPage = NewPids[n] + (straitc - 1)
  <2>1. LastPage = refs[n].ref + refs[n].end - StartOf(n)
      BY DEF LastPage
  <2> HIDE DEF n
  <2> QED
      BY <1>1, <1>2, <1>3, <1>4, <2>1
<1>6. straitc - 1 \in 0 .. straitc - 1
    BY <1>1
<1> QED
    BY <1>1, <1>5, <1>6, PageIn

LEMMA PrightIn ==
    ASSUME Linked, NEW p \in DOMAIN head
    PROVE  head[p].pright \in DOMAIN head \cup {0}
<1>1. PICK i \in 1 .. Len(refs), k \in 0 .. straitc - 1 : p = NewPids[i] + k
    BY PageOf
<1>2. head[p].pright = After(i, k, Len(refs))
    BY <1>1 DEF Linked
<1>3. Len(refs) \in Nat /\ i \in Int /\ k \in Int /\ straitc \in Nat \ {0}
    BY Straits, Sizes
<1>4. CASE k < straitc - 1
  <2>1. k + 1 \in 0 .. straitc - 1
      BY <1>3, <1>4
  <2> QED  BY <1>2, <1>4, <2>1, PageIn DEF After
<1>5. CASE ~(k < straitc - 1) /\ i < Len(refs)
  <2>1. i + 1 \in 1 .. Len(refs) /\ i + 1 \in 1 .. lookupsperpage /\ 0 \in 0 .. straitc - 1
      BY <1>3, <1>5, Straits
  <2>2. NewPids[i + 1] + 0 \in DOMAIN head
      BY <2>1, PageIn
  <2>3. NewPids[i + 1] + 0 = NewPids[i + 1]
      BY <2>1, Sizes
  <2> QED
      BY <1>2, <1>5, <2>2, <2>3 DEF After
<1>6. CASE ~(k < straitc - 1) /\ ~(i < Len(refs))
    BY <1>2, <1>6 DEF After
<1> QED
    BY <1>4, <1>5, <1>6

\* The chapter is linked in the order of the lookup.
LEMMA LinkedOrder == Linked => ChapterLinked
<1> SUFFICES ASSUME Linked, NEW off \in 0 .. ref0c - 1
             PROVE  head[Lookup(off)].pright = IF off + 1 < ref0c THEN Lookup(off + 1) ELSE 0
    BY DEF ChapterLinked
<1> DEFINE n == Len(refs)
<1>1. n \in Nat /\ n <= lookupsperpage /\ ref0c = n * straitc /\ straitc \in Nat \ {0}
    BY Straits, Sizes DEF Linked
<1>2. PICK i \in 1 .. n, k \in 0 .. straitc - 1 : off = (i - 1) * straitc + k
    BY OffsetIn
<1>3. head[Lookup(off)].pright = After(i, k, n)
    BY <1>2, LookupIs DEF Linked
<1>4. /\ i \in Int /\ k \in Int /\ off \in Int
      /\ i * straitc = (i - 1) * straitc + straitc /\ (i - 1) * straitc \in Int
      /\ n * straitc \in Int
    BY <1>1, Times
<1>5. CASE k < straitc - 1
  <2>1. Lookup(off + 1) = NewPids[i] + (k + 1)
    <3>1. off + 1 = (i - 1) * straitc + (k + 1) /\ k + 1 \in 0 .. straitc - 1
        BY <1>1, <1>2, <1>4, <1>5
    <3> QED  BY <3>1, LookupIs
  <2>2. i * straitc <= n * straitc
      BY <1>1, <1>4, Times
  <2>3. off + 1 < ref0c
      BY <1>1, <1>2, <1>4, <1>5, <2>2
  <2> QED
      BY <1>3, <1>5, <2>1, <2>3 DEF After
<1>6. CASE ~(k < straitc - 1) /\ i < n
  <2>1. off + 1 = i * straitc /\ i * straitc \in Int
      BY <1>1, <1>2, <1>4, <1>6
  <2>2. Lookup(off + 1) = NewPids[i + 1] + 0
    <3>1. i + 1 \in 1 .. n /\ (i + 1) - 1 = i /\ 0 \in 0 .. straitc - 1
        BY <1>1, <1>4, <1>6
    <3>2. off + 1 = ((i + 1) - 1) * straitc + 0
        BY <2>1, <3>1
    <3> QED  BY <3>1, <3>2, LookupIs
  <2>3. NewPids[i + 1] + 0 = NewPids[i + 1]
      BY <1>1, <1>4, <1>6, Sizes
  <2>4. (i + 1) * straitc <= n * straitc /\ (i + 1) * straitc = i * straitc + straitc
      BY <1>1, <1>4, <1>6, Times
  <2>5. off + 1 < ref0c
      BY <1>1, <1>4, <2>1, <2>4
  <2> QED
      BY <1>3, <1>6, <2>2, <2>3, <2>5 DEF After
<1>7. CASE ~(k < straitc - 1) /\ ~(i < n)
  <2>1. i = n
      BY <1>1, <1>4, <1>7
  <2>2. off + 1 = ref0c
      BY <1>1, <1>2, <1>4, <1>7, <2>1
  <2> QED
      BY <1>1, <1>3, <1>4, <1>7, <2>2 DEF After
<1> QED
    BY <1>5, <1>6, <1>7
-----------------------------------------------------------------------------
(* Steps that leave the lists of rows alone *)

RowKinds == {"read", "write", "free"}

\* No job of a handle races while a row is allocated.
Quiet == Allocating => ~Racing

\* The other workers stay where they are.
Others(w) ==
    \A v \in Workers \ {w} : job'[v] = job[v] /\ pc'[v] = pc[v] /\ next'[v] = next[v]

\* The lists of rows, the chapter and its links are left alone.
ListsSame ==
    /\ DOMAIN head' = DOMAIN head
    /\ deleted' = deleted /\ content' = content /\ refs' = refs /\ ref0c' = ref0c
    /\ \A p \in DOMAIN head : /\ head'[p].trashstart = head[p].trashstart
                              /\ head'[p].trashc = head[p].trashc
                              /\ head'[p].pright = head[p].pright

LEMMA LinkedSame ==
    ASSUME Linked, ListsSame
    PROVE  Linked' /\ LastPage' = LastPage
<1>1. \A i \in 1 .. Len(refs), k \in 0 .. straitc - 1 :
        NewPids[i] + k \in DOMAIN head /\ head'[NewPids[i] + k].pright = After(i, k, Len(refs))
    BY PageIn DEF Linked, ListsSame
<1> QED
    BY <1>1 DEF Linked, ListsSame, LastPage, StartOf

\* A page whose listed rows keep their links keeps its list.
LEMMA ListKept ==
    ASSUME NEW p, HasList(p), Listed(p)' = Listed(p),
           head'[p].trashstart = head[p].trashstart, head'[p].trashc = head[p].trashc,
           \A r \in Listed(p) : content'[p][r] = content[p][r]
    PROVE  HasList(p)'
<1>1. PICK l \in Bijection(1 .. head[p].trashc, Listed(p)) : IsTrashList(l, p)
    BY DEF HasList
<1>2. \A i \in 1 .. head[p].trashc : l[i] \in Listed(p)
    BY <1>1 DEF Bijection, Injection
<1>3. IsTrashList(l, p)'
    BY <1>1, <1>2 DEF IsTrashList
<1> QED
    BY <1>1, <1>3 DEF HasList

LEMMA WholeSame ==
    ASSUME Whole, ListsSame, \A p, r : Pushed(p, r)' <=> Pushed(p, r)
    PROVE  Whole'
<1> SUFFICES ASSUME NEW p \in DOMAIN head PROVE HasList(p)'
    BY DEF Whole, ListsSame
<1>1. Listed(p)' = Listed(p)
    BY DEF Listed, ListsSame
<1> QED
    BY <1>1, ListKept DEF Whole, ListsSame

\* What another worker knows stays so.
LEMMA OtherPlace ==
    ASSUME NEW w \in Workers, NEW v \in Workers \ {w}, NEW gone,
           Keeps(w, gone), Others(w), Place(v), DOMAIN head \subseteq DOMAIN head',
           Holds(v, LREF0C, "XL") => LastPage' = LastPage
    PROVE  Place(v)'
<1>1. held'[v] = held[v] /\ job'[v] = job[v] /\ pc'[v] = pc[v]
    BY DEF Keeps, Others
<1>2. \A l, mode : Holds(v, l, mode)' <=> Holds(v, l, mode)
    BY <1>1 DEF Holds
<1>3. RowMode(v)' = RowMode(v) /\ Page(v)' = Page(v)
    BY <1>1 DEF RowMode, Page
<1>4. /\ (pc[v] = "idle" <=> job[v].kind = "none")'
      /\ (pc[v] \in RowPcs <=> job[v].kind \in {"read", "write", "free"})'
      /\ (pc[v] \in AllocPcs <=> job[v].kind = "alloc")'
      /\ (pc[v] \in FreePcs => job[v].kind = "free")'
      /\ (pc[v] = "use" => job[v].kind \in {"read", "write"})'
      /\ (pc[v] \in RowPcs \cup {"pop", "created"} => job[v].row \in Rows)'
    BY <1>1 DEF Place
<1>5. (pc[v] \notin {"idle", "enttrash", "ref0c"} => Page(v) \in DOMAIN head)'
    BY <1>1, <1>3 DEF Place
<1>6. /\ (pc[v] \in RowPcs \ {"row"} => Holds(v, LROW(Page(v), job[v].row), RowMode(v)))'
      /\ (pc[v] \in {"link", "push", "take", "pop"} => Holds(v, LTRASHOFF(Page(v)), "XL"))'
    BY <1>1, <1>2, <1>3 DEF Place
<1>7. (pc[v] \in {"lastpright", "reference"} => Holds(v, LREF0C, "XL") /\ Page(v) = LastPage)'
    BY <1>1, <1>2, <1>3 DEF Place
<1> QED
    BY <1>4, <1>5, <1>6, <1>7 DEF Place

LEMMA RacingSame ==
    ASSUME NEW w \in Workers, Others(w), DOMAIN head' = DOMAIN head,
           \A p \in DOMAIN head, r \in Rows : deleted'[p][r] => deleted[p][r],
           job'[w].kind \in RowKinds => job'[w] = job[w],
           pc'[w] = "row" => pc[w] = "row",
           Racing'
    PROVE  Racing
<1>1. \A v \in Workers : job'[v].kind \in RowKinds => job'[v] = job[v]
    BY DEF Others
<1>2. \A v \in Workers : pc'[v] = "row" => pc[v] = "row"
    BY DEF Others
<1>3. \A p, r : \A v \in JobsOn(p, r)' : v \in JobsOn(p, r) /\ job'[v] = job[v]
    BY <1>1 DEF JobsOn, RowKinds
<1>4. PICK p \in DOMAIN head, r \in Rows : \E v \in JobsOn(p, r)' :
             \/ deleted'[p][r] /\ pc'[v] = "row"
             \/ \E u \in JobsOn(p, r)' \ {v} : "free" \in {job'[u].kind, job'[v].kind}
    BY DEF Racing
<1>5. PICK v \in JobsOn(p, r)' :
             \/ deleted'[p][r] /\ pc'[v] = "row"
             \/ \E u \in JobsOn(p, r)' \ {v} : "free" \in {job'[u].kind, job'[v].kind}
    BY <1>4
<1>6. v \in JobsOn(p, r) /\ v \in Workers /\ job'[v] = job[v]
    BY <1>3 DEF JobsOn
<1>7. \/ deleted[p][r] /\ pc[v] = "row"
      \/ \E u \in JobsOn(p, r) \ {v} : "free" \in {job[u].kind, job[v].kind}
    BY <1>2, <1>3, <1>5, <1>6
<1> QED
    BY <1>6, <1>7 DEF Racing

LEMMA QuietSame ==
    ASSUME Quiet, NEW w \in Workers, Others(w), DOMAIN head' = DOMAIN head,
           \A p \in DOMAIN head, r \in Rows : deleted'[p][r] => deleted[p][r],
           job'[w].kind \in RowKinds => job'[w] = job[w],
           pc'[w] = "row" => pc[w] = "row",
           job'[w].kind = "alloc" => job[w].kind = "alloc"
    PROVE  Quiet'
<1>1. \A v \in Workers : job'[v].kind = "alloc" => job[v].kind = "alloc"
    BY DEF Others
<1>2. Allocating' => Allocating
    BY <1>1 DEF Allocating
<1>3. Racing' => Racing
    BY RacingSame
<1> QED
    BY <1>2, <1>3 DEF Quiet

\* A step that leaves the lists alone, and neither takes a row nor links one.
LEMMA CalmStep ==
    ASSUME IInv, NEW w \in Workers, NEW gone,
           Typed', ListsSame, Exclusive', Keeps(w, gone), Others(w),
           Place(w)', RowState(w)', Quiet',
           pc[w] # "push", pc'[w] \notin {"push", "created"}
    PROVE  IInv'
<1> USE DEF IInv
<1>1. Linked' /\ LastPage' = LastPage
    BY LinkedSame
<1>2. \A v \in Workers \ {w} : Place(v)'
    BY <1>1, OtherPlace DEF ListsSame
<1>3. ASSUME NEW v \in Workers \ {w} PROVE RowState(v)'
  <2>1. Place(v) /\ RowState(v)
      OBVIOUS
  <2>2. pc'[v] = pc[v] /\ job'[v] = job[v] /\ next'[v] = next[v] /\ Page(v)' = Page(v)
      BY DEF Others, Page
  <2>3. pc[v] \in {"push", "pop"} => head'[Page(v)].trashstart = head[Page(v)].trashstart
      BY <2>1 DEF Place, ListsSame
  <2>4. deleted' = deleted /\ content' = content
      BY DEF ListsSame
  <2>5. pc[v] \in {"push", "pop"} => head'[Page(v)'].trashstart = head[Page(v)].trashstart
      BY ONLY <2>2, <2>3
  <2> QED
      BY ONLY <2>1, <2>2, <2>4, <2>5 DEF RowState
<1>4. CreatedApart'
    BY DEF CreatedApart, Others, Page
<1>5. Whole'
  <2>1. \A p, r : Pushed(p, r)' <=> Pushed(p, r)
      BY DEF Pushed, Others, Page
  <2> QED  BY <2>1, WholeSame
<1> QED
    BY <1>1, <1>2, <1>3, <1>4, <1>5 DEF Quiet
-----------------------------------------------------------------------------
(* Jobs on an object *)

LEMMA Known ==
    ASSUME IInv, NEW w \in Workers
    PROVE  /\ Typed /\ Linked /\ Exclusive /\ Quiet
           /\ Place(w) /\ RowState(w)
           /\ job[w] = [kind |-> job[w].kind, page |-> job[w].page, row |-> job[w].row]
           /\ job[w].kind \in Kinds /\ job[w].page \in Nat /\ job[w].row \in Rows \cup {NoRow}
<1>1. Typed /\ Linked /\ Exclusive /\ Quiet /\ Place(w) /\ RowState(w)
    BY DEF IInv, Quiet
<1>2. job[w] \in [kind : Kinds, page : Nat, row : Rows \cup {NoRow}]
    BY <1>1 DEF Typed
<1> QED
    BY <1>1, <1>2

LEMMA LockRowKeeps ==
    ASSUME IInv, NEW w \in Workers, LockRow(w)
    PROVE  IInv'
<1> DEFINE l == LROW(Page(w), job[w].row)
<1>1. Typed /\ Exclusive /\ Quiet /\ Place(w) /\ RowState(w)
    BY Known
<1>2. Exclusive' /\ Keeps(w, {l}) /\ Gets(w, l, RowMode(w))
    BY <1>1, LockSet DEF LockRow
<1>3. Typed'
  <2>1. pc' \in [Workers -> Pcs]
      BY <1>1 DEF Typed, LockRow, Goto, Pcs
  <2>2. held' = [v \in Workers |-> held'[v]]
      BY <1>2 DEF Keeps
  <2> QED  BY <1>1, <2>1, <2>2 DEF Typed, LockRow, trashvars, chapter
<1>4. ListsSame /\ Others(w)
    BY <1>1 DEF LockRow, Goto, trashvars, chapter, ListsSame, Others, Typed
<1>5. /\ job' = job /\ Page(w)' = Page(w) /\ RowMode(w)' = RowMode(w) /\ deleted' = deleted
      /\ content' = content /\ head' = head /\ l' = l
      /\ pc'[w] = IF deleted[Page(w)][job[w].row] THEN "close"
                  ELSE IF job[w].kind = "free" THEN "trash" ELSE "use"
    BY <1>1 DEF LockRow, Page, RowMode, trashvars, Goto, Typed
<1>6. Place(w)'
    BY <1>1, <1>2, <1>5 DEF Place, RowPcs, AllocPcs, FreePcs, LockRow, Gets, Holds
<1>7. RowState(w)'
    BY <1>1, <1>5 DEF RowState, LockRow
<1>8. Quiet'
    BY <1>1, <1>4, <1>5, QuietSame DEF ListsSame
<1> QED
    BY <1>2, <1>3, <1>4, <1>5, <1>6, <1>7, <1>8, CalmStep DEF LockRow

\* The end of a job whose row lock is given back
LEMMA CloseKeeps ==
    ASSUME IInv, NEW w \in Workers, Close(w), pc[w] # "push",
           UNCHANGED <<trashvars, chapter, next>>
    PROVE  IInv'
<1> DEFINE l == LROW(Page(w), job[w].row)
<1>1. Typed /\ Exclusive /\ Quiet
    BY Known
<1>2. Exclusive' /\ Keeps(w, {l})
    BY <1>1, LockDrop DEF Close
<1>3. Typed'
  <2>1. pc' \in [Workers -> Pcs] /\ opened' \in [Workers -> BOOLEAN]
      BY <1>1 DEF Typed, Close, Goto, Pcs
  <2>2. job' \in [Workers -> [kind : Kinds, page : Nat, row : Rows \cup {NoRow}]]
      BY <1>1 DEF Typed, Close, NoJob, Kinds
  <2>3. held' = [v \in Workers |-> held'[v]]
      BY <1>2 DEF Keeps
  <2> QED  BY <1>1, <2>1, <2>2, <2>3 DEF Typed, trashvars, chapter
<1>4. ListsSame /\ Others(w)
    BY <1>1 DEF Close, Goto, trashvars, chapter, ListsSame, Others, Typed
<1>5. pc'[w] = "idle" /\ job'[w] = NoJob
    BY <1>1 DEF Close, Goto, Typed
<1>6. Place(w)' /\ RowState(w)'
    BY <1>5 DEF Place, RowState, NoJob, RowPcs, AllocPcs, FreePcs
<1>7. Quiet'
    BY <1>1, <1>4, <1>5, QuietSame DEF ListsSame, NoJob, RowKinds
<1> QED
    BY <1>2, <1>3, <1>4, <1>5, <1>6, <1>7, CalmStep

LEMMA UseRowKeeps ==
    ASSUME IInv, NEW w \in Workers, UseRow(w)
    PROVE  IInv'
<1>1. Typed /\ Place(w) /\ RowState(w)
    BY Known
<1>2. Page(w) \in DOMAIN head /\ job[w].row \in Rows /\ content[Page(w)][job[w].row] = Data
    BY <1>1 DEF UseRow, Place, RowState, RowPcs
<1>3. content' = content
  <2> DEFINE p == Page(w)
             r == job[w].row
  <2>1. content[p] \in [Rows -> Rows \cup {NoRow, Data}]
      BY <1>1, <1>2 DEF Typed
  <2>2. [content[p] EXCEPT ![r] = Data] = content[p]
      BY <1>2, <2>1
  <2>3. content = [q \in DOMAIN head |-> content[q]]
      BY <1>1 DEF Typed
  <2>4. [content EXCEPT ![p][r] = Data] = content
      BY <1>2, <2>2, <2>3
  <2> QED  BY <2>4 DEF UseRow
<1> QED
    BY <1>3, CloseKeeps DEF UseRow, trashvars

LEMMA CloseRowKeeps ==
    ASSUME IInv, NEW w \in Workers, CloseRow(w)
    PROVE  IInv'
BY CloseKeeps DEF CloseRow

Job == [kind : Kinds, page : Nat, row : Rows \cup {NoRow}]

\* A step that only moves w on in its job, with a lock taken or given back
LEMMA CalmMove ==
    ASSUME IInv, NEW w \in Workers, NEW gone, Exclusive', Keeps(w, gone),
           UNCHANGED <<trashvars, chapter, next>>, opened' \in [Workers -> BOOLEAN],
           NEW j \in Job, job' = [job EXCEPT ![w] = j],
           NEW l \in Pcs \ {"row", "push", "created"}, Goto(w, l), pc[w] # "push",
           j.kind \in RowKinds => j = job[w],
           j.kind = "alloc" => job[w].kind = "alloc",
           Place(w)', RowState(w)'
    PROVE  IInv'
<1>1. Typed /\ Quiet
    BY Known
<1>2. /\ pc' \in [Workers -> Pcs] /\ pc'[w] = l /\ job' \in [Workers -> Job] /\ job'[w] = j
      /\ Others(w)
    BY <1>1 DEF Typed, Goto, Others, Job
<1>3. held' = [v \in Workers |-> held'[v]]
    BY DEF Keeps
<1>4. Typed'
    BY <1>1, <1>2, <1>3 DEF Typed, trashvars, chapter, Job
<1>5. ListsSame
    BY DEF trashvars, chapter, ListsSame
<1>6. Quiet'
    BY <1>1, <1>2, <1>5, QuietSame DEF ListsSame
<1> QED
    BY <1>2, <1>4, <1>5, <1>6, CalmStep

\* The job stays as it is.
LEMMA JobSame ==
    ASSUME IInv, NEW w \in Workers
    PROVE  job[w] \in Job /\ job = [job EXCEPT ![w] = job[w]]
BY Known DEF Typed, Job

\* Different locks
LEMMA LocksApart ==
    ASSUME NEW p, NEW q, NEW r
    PROVE  /\ LTRASHOFF(p) # LROW(q, r) /\ LTRASHOFF(p) # LENTTRASH /\ LTRASHOFF(p) # LREF0C
           /\ LENTTRASH # LROW(q, r) /\ LENTTRASH # LREF0C
           /\ LOBJPRIGHT(p) # LREF0C /\ LOBJPRIGHT(p) # LENTTRASH
BY DEF LTRASHOFF, LROW, LENTTRASH, LREF0C, LOBJPRIGHT

LEMMA DeleteLockKeeps ==
    ASSUME IInv, NEW w \in Workers, DeleteLock(w)
    PROVE  IInv'
<1> DEFINE l == LTRASHOFF(Page(w))
<1>1. Typed /\ Exclusive /\ Place(w) /\ RowState(w)
    BY Known
<1>2. Exclusive' /\ Keeps(w, {l}) /\ Gets(w, l, "XL")
    BY <1>1, LockSet DEF DeleteLock, LockTrash
<1>3. /\ job' = job /\ Page(w)' = Page(w) /\ RowMode(w)' = RowMode(w) /\ pc'[w] = "link"
      /\ deleted' = deleted /\ content' = content /\ head' = head
    BY <1>1 DEF DeleteLock, Page, RowMode, trashvars, Goto, Typed
<1>4. Holds(w, LROW(Page(w), job[w].row), RowMode(w))'
  <2>1. Holds(w, LROW(Page(w), job[w].row), RowMode(w))
      BY <1>1 DEF DeleteLock, Place, RowPcs
  <2> QED  BY <1>2, <1>3, <2>1, LocksApart DEF Holds, Keeps
<1>5. Holds(w, LTRASHOFF(Page(w)), "XL")'
    BY <1>2, <1>3 DEF Gets, Holds
<1>6. Place(w)'
    BY <1>1, <1>3, <1>4, <1>5 DEF Place, RowPcs, AllocPcs, FreePcs, DeleteLock
<1>7. RowState(w)'
    BY <1>1, <1>3 DEF RowState, DeleteLock
<1> QED
    BY <1>1, <1>2, <1>6, <1>7, JobSame, CalmMove DEF DeleteLock, Pcs, Typed

LEMMA InCycleKeeps ==
    ASSUME IInv, NEW w \in Workers, InCycle(w)
    PROVE  IInv'
<1>1. Typed /\ Exclusive /\ Place(w)
    BY Known
<1>2. Exclusive' /\ Keeps(w, {})
    BY <1>1, LockSame DEF InCycle
<1>3. PICK l \in {"close", "addpage"} : Goto(w, l)
    BY DEF InCycle
<1>4. job' = job /\ Page(w)' = Page(w) /\ RowMode(w)' = RowMode(w) /\ pc'[w] = l
      /\ head' = head /\ held' = held
    BY <1>1, <1>3 DEF InCycle, Page, RowMode, trashvars, Goto, Typed
<1>5. Place(w)'
    BY <1>1, <1>4 DEF Place, Holds, RowPcs, AllocPcs, FreePcs, InCycle
<1>6. RowState(w)'
    BY <1>4 DEF RowState
<1> QED
    BY <1>1, <1>2, <1>3, <1>5, <1>6, JobSame, CalmMove DEF InCycle, Pcs, Typed

LEMMA AddLockKeeps ==
    ASSUME IInv, NEW w \in Workers, AddLock(w)
    PROVE  IInv'
<1>1. Typed /\ Exclusive /\ Place(w)
    BY Known
<1>2. Exclusive' /\ Keeps(w, {LENTTRASH})
    BY <1>1, LockSet DEF AddLock
<1>3. job' = job /\ Page(w)' = Page(w) /\ RowMode(w)' = RowMode(w) /\ pc'[w] = "cycle"
      /\ head' = head
    BY <1>1 DEF AddLock, Page, RowMode, trashvars, Goto, Typed
<1>4. Holds(w, LROW(Page(w), job[w].row), RowMode(w))'
  <2>1. Holds(w, LROW(Page(w), job[w].row), RowMode(w))
      BY <1>1 DEF AddLock, Place, RowPcs
  <2> QED  BY <1>2, <1>3, <2>1, LocksApart DEF Holds, Keeps
<1>5. Place(w)'
    BY <1>1, <1>3, <1>4 DEF Place, RowPcs, AllocPcs, FreePcs, AddLock
<1>6. RowState(w)'
    BY <1>3 DEF RowState
<1> QED
    BY <1>1, <1>2, <1>5, <1>6, JobSame, CalmMove DEF AddLock, Pcs, Typed

\* Only the trashvor of a page changes.
LEMMA TrashvorSet ==
    ASSUME Typed, NEW p \in DOMAIN head, NEW v \in DOMAIN head \cup {0}, v \in Nat,
           head' = [head EXCEPT ![p].trashvor = v],
           trashlast' \in DOMAIN head \cup {0}
    PROVE  /\ DOMAIN head' = DOMAIN head
           /\ head' \in [DOMAIN head -> PageHead]
           /\ \A q \in DOMAIN head :
                /\ head'[q].trashstart = head[q].trashstart
                /\ head'[q].trashc = head[q].trashc
                /\ head'[q].pright = head[q].pright
                /\ head'[q].trashvor \in DOMAIN head \cup {0}
<1>1. \A q \in DOMAIN head : head[q] \in PageHead /\ head[q].trashvor \in DOMAIN head \cup {0}
    BY DEF Typed
<1>2. DOMAIN head' = DOMAIN head /\ \A q \in DOMAIN head \ {p} : head'[q] = head[q]
    OBVIOUS
<1>3. head'[p] = [head[p] EXCEPT !.trashvor = v]
    OBVIOUS
<1>4. /\ head'[p] \in PageHead
      /\ head'[p].trashstart = head[p].trashstart /\ head'[p].trashc = head[p].trashc
      /\ head'[p].pright = head[p].pright /\ head'[p].trashvor = v
    BY <1>1, <1>3 DEF PageHead
<1>5. head' = [q \in DOMAIN head |-> head'[q]]
    BY DEF Typed
<1> QED
    BY <1>1, <1>2, <1>4, <1>5

LEMMA AddPageKeeps ==
    ASSUME IInv, NEW w \in Workers, AddPage(w)
    PROVE  IInv'
<1>1. Typed /\ Linked /\ Exclusive /\ Quiet /\ Place(w)
    BY Known
<1>2. Exclusive' /\ Keeps(w, {LENTTRASH})
    BY <1>1, LockDrop DEF AddPage
<1>3. Page(w) \in DOMAIN head /\ trashlast \in DOMAIN head \cup {0} /\ trashlast \in Nat
    BY <1>1, PagesAreNat DEF Place, AddPage, Typed
<1>4. /\ job' = job /\ Page(w)' = Page(w) /\ RowMode(w)' = RowMode(w) /\ pc'[w] = "close"
      /\ Others(w) /\ pc' \in [Workers -> Pcs]
    BY <1>1 DEF AddPage, Page, RowMode, Goto, Typed, Others, Pcs
<1>5. /\ DOMAIN head' = DOMAIN head
      /\ head' \in [DOMAIN head -> PageHead]
      /\ \A q \in DOMAIN head :
           /\ head'[q].trashstart = head[q].trashstart
           /\ head'[q].trashc = head[q].trashc
           /\ head'[q].pright = head[q].pright
           /\ head'[q].trashvor \in DOMAIN head \cup {0}
    BY <1>1, <1>3, TrashvorSet DEF AddPage
<1>6. Typed'
  <2>1. held' = [v \in Workers |-> held'[v]]
      BY <1>2 DEF Keeps
  <2>2. trashlast' \in DOMAIN head' \cup {0}
      BY <1>3, <1>5 DEF AddPage
  <2> QED  BY <1>1, <1>4, <1>5, <2>1, <2>2 DEF Typed, AddPage, chapter
<1>7. ListsSame
    BY <1>5 DEF ListsSame, AddPage, chapter
<1>8. Holds(w, LROW(Page(w), job[w].row), RowMode(w))'
  <2>1. Holds(w, LROW(Page(w), job[w].row), RowMode(w))
      BY <1>1 DEF AddPage, Place, RowPcs
  <2> QED  BY <1>2, <1>4, <2>1, LocksApart DEF Holds, Keeps
<1>9. Place(w)' /\ RowState(w)'
  <2>1. Place(w)'
      BY <1>1, <1>4, <1>5, <1>8 DEF Place, RowPcs, AllocPcs, FreePcs, AddPage
  <2> QED  BY <2>1, <1>4 DEF RowState
<1>10. Quiet'
    BY <1>1, <1>4, <1>7, QuietSame DEF ListsSame
<1> QED
    BY <1>2, <1>4, <1>6, <1>7, <1>9, <1>10, CalmStep DEF AddPage
-----------------------------------------------------------------------------
(* Taking a row *)

\* Going to a page, or to make new ones
LEMMA Seeks ==
    ASSUME IInv, NEW w \in Workers, NEW p \in DOMAIN head \cup {0}, SeekTo(w, p),
           job[w].kind = "alloc", DOMAIN head \subseteq DOMAIN head'
    PROVE  /\ job' = [job EXCEPT ![w] = [job[w] EXCEPT !.page = p]]
           /\ [job[w] EXCEPT !.page = p] \in Job /\ [job[w] EXCEPT !.page = p].kind = "alloc"
           /\ \E l \in {"ref0c", "trashoff"} : Goto(w, l)
           /\ pc'[w] \in {"ref0c", "trashoff"}
           /\ Others(w) \/ next' # next
           /\ Place(w)' /\ RowState(w)'
<1>1. Typed /\ Linked /\ job[w] \in Job
    BY Known, JobSame
<1>2. p \in Nat
    BY <1>1, PagesAreNat
<1>3. /\ [job[w] EXCEPT !.page = p] \in Job
      /\ [job[w] EXCEPT !.page = p].kind = "alloc" /\ [job[w] EXCEPT !.page = p].page = p
    BY <1>1, <1>2 DEF Job
<1>4. job' = [job EXCEPT ![w] = [job[w] EXCEPT !.page = p]]
    BY DEF SeekTo
<1>5. \E l \in {"ref0c", "trashoff"} : Goto(w, l)
    BY DEF SeekTo
<1>6. pc'[w] = (IF p = 0 THEN "ref0c" ELSE "trashoff")
    BY <1>1 DEF SeekTo, Goto, Typed
<1>7. job'[w].kind = "alloc" /\ Page(w)' = p
    BY <1>1, <1>3, <1>4 DEF Page, Typed
<1>8. Place(w)' /\ RowState(w)'
    BY <1>6, <1>7 DEF Place, RowState, RowPcs, AllocPcs, FreePcs
<1>9. Others(w) \/ next' # next
    BY <1>1, <1>4, <1>5 DEF Others, Goto, Typed
<1> QED
    BY <1>3, <1>4, <1>5, <1>6, <1>8, <1>9

LEMMA AllocLockKeeps ==
    ASSUME IInv, NEW w \in Workers, AllocLock(w)
    PROVE  IInv'
<1>1. Typed /\ Exclusive /\ Place(w)
    BY Known
<1>2. Exclusive' /\ Keeps(w, {LENTTRASH})
    BY <1>1, LockSet DEF AllocLock
<1>3. job[w].kind = "alloc" /\ trashlast \in DOMAIN head \cup {0} /\ head' = head
    BY <1>1 DEF AllocLock, Place, AllocPcs, Typed, trashvars
<1> DEFINE j == [job[w] EXCEPT !.page = trashlast]
<1>4. /\ job' = [job EXCEPT ![w] = j] /\ j \in Job /\ j.kind = "alloc"
      /\ \E l \in {"ref0c", "trashoff"} : Goto(w, l)
      /\ Place(w)' /\ RowState(w)'
    BY <1>3, Seeks DEF AllocLock
<1> HIDE DEF j
<1>5. PICK l \in {"ref0c", "trashoff"} : Goto(w, l)
    BY <1>4
<1>6. l \in Pcs \ {"row", "push", "created"} /\ pc[w] # "push" /\ opened' \in [Workers -> BOOLEAN]
    BY <1>1 DEF AllocLock, Pcs, Typed
<1> QED
    BY <1>2, <1>3, <1>4, <1>5, <1>6, CalmMove DEF AllocLock, RowKinds

LEMMA SeekLockKeeps ==
    ASSUME IInv, NEW w \in Workers, SeekLock(w)
    PROVE  IInv'
<1> DEFINE l == LTRASHOFF(Page(w))
<1>1. Typed /\ Exclusive /\ Place(w)
    BY Known
<1>2. Exclusive' /\ Keeps(w, {l}) /\ Gets(w, l, "XL")
    BY <1>1, LockSet DEF SeekLock, LockTrash
<1>3. job' = job /\ Page(w)' = Page(w) /\ pc'[w] = "take" /\ head' = head
    BY <1>1 DEF SeekLock, Page, trashvars, Goto, Typed
<1>4. Holds(w, LTRASHOFF(Page(w)), "XL")'
    BY <1>2, <1>3 DEF Gets, Holds
<1>5. Place(w)' /\ RowState(w)'
  <2>1. Place(w)'
      BY <1>1, <1>3, <1>4 DEF Place, RowPcs, AllocPcs, FreePcs, SeekLock
  <2> QED  BY <1>3, <2>1 DEF RowState
<1> QED
    BY <1>1, <1>2, <1>5, JobSame, CalmMove DEF SeekLock, Pcs, Typed

LEMMA TrashFaultKeeps ==
    ASSUME IInv, NEW w \in Workers, TrashFault(w)
    PROVE  IInv'
<1>1. Typed /\ Linked /\ Exclusive /\ Quiet /\ Place(w)
    BY Known
<1>2. Exclusive' /\ Keeps(w, {LTRASHOFF(Page(w))})
    BY <1>1, LockDrop DEF TrashFault
<1>3. Page(w) \in DOMAIN head /\ job[w].kind = "alloc"
    BY <1>1 DEF Place, TrashFault, AllocPcs
<1>4. trashlast' \in DOMAIN head \cup {0}
    BY <1>1, <1>3 DEF Typed, TrashFault, NextLast
<1>5. /\ DOMAIN head' = DOMAIN head
      /\ head' \in [DOMAIN head -> PageHead]
      /\ \A q \in DOMAIN head :
           /\ head'[q].trashstart = head[q].trashstart
           /\ head'[q].trashc = head[q].trashc
           /\ head'[q].pright = head[q].pright
           /\ head'[q].trashvor \in DOMAIN head \cup {0}
    BY <1>1, <1>3, <1>4, TrashvorSet DEF TrashFault
<1> DEFINE j == [job[w] EXCEPT !.page = trashlast']
<1>6. /\ job' = [job EXCEPT ![w] = j] /\ j \in Job /\ j.kind = "alloc"
      /\ \E l \in {"ref0c", "trashoff"} : Goto(w, l)
      /\ pc'[w] \in {"ref0c", "trashoff"}
      /\ Others(w) \/ next' # next
      /\ Place(w)' /\ RowState(w)'
    BY <1>3, <1>4, <1>5, Seeks DEF TrashFault
<1> HIDE DEF j
<1>7. Others(w) /\ pc' \in [Workers -> Pcs] /\ job' \in [Workers -> Job] /\ job'[w].kind = "alloc"
    BY <1>1, <1>6 DEF TrashFault, Typed, Goto, Pcs, Job
<1>8. Typed'
  <2>1. held' = [v \in Workers |-> held'[v]]
      BY <1>2 DEF Keeps
  <2> QED  BY <1>1, <1>4, <1>5, <1>7, <2>1 DEF Typed, TrashFault, chapter, Job
<1>9. ListsSame
    BY <1>5 DEF ListsSame, TrashFault, chapter
<1>10. Quiet'
    BY <1>1, <1>3, <1>6, <1>7, <1>9, QuietSame DEF ListsSame, RowKinds
<1> QED
    BY <1>2, <1>6, <1>7, <1>8, <1>9, <1>10, CalmStep DEF TrashFault

LEMMA ReadHeadKeeps ==
    ASSUME IInv, NEW w \in Workers, ReadHead(w)
    PROVE  IInv'
<1> DEFINE r == head[Page(w)].trashstart
           j == [job[w] EXCEPT !.row = r]
<1>1. Typed /\ Exclusive /\ Quiet /\ Place(w) /\ job[w] \in Job
    BY Known, JobSame
<1>2. Exclusive' /\ Keeps(w, {LENTTRASH, LROW(Page(w), r)})
    BY <1>1, LockDrop DEF ReadHead
<1>3. Page(w) \in DOMAIN head /\ job[w].kind = "alloc" /\ Holds(w, LTRASHOFF(Page(w)), "XL")
    BY <1>1 DEF Place, ReadHead, AllocPcs
<1>4. r \in Rows /\ content[Page(w)][r] \in Rows \cup {NoRow, Data}
  <2>1. head[Page(w)] \in PageHead
      BY <1>1, <1>3 DEF Typed
  <2>2. r \in Rows
      BY <2>1 DEF PageHead, ReadHead
  <2>3. content[Page(w)] \in [Rows -> Rows \cup {NoRow, Data}]
      BY <1>1, <1>3 DEF Typed
  <2> QED  BY <2>2, <2>3
<1>5. j \in Job /\ j.kind = "alloc" /\ j.page = Page(w) /\ j.row = r
    BY <1>1, <1>3, <1>4 DEF Job, Page
<1>6. job' = [job EXCEPT ![w] = j]
    BY DEF ReadHead
<1> HIDE DEF j
<1>7. /\ job' \in [Workers -> Job] /\ job'[w] = j /\ Page(w)' = Page(w)
      /\ pc' \in [Workers -> Pcs] /\ pc'[w] = "pop"
      /\ next' \in [Workers -> Rows \cup {NoRow, Data}] /\ next'[w] = content[Page(w)][r]
      /\ Others(w) /\ head' = head /\ content' = content /\ deleted' = deleted
  <2>1. job' \in [Workers -> Job] /\ job'[w] = j /\ \A v \in Workers \ {w} : job'[v] = job[v]
      BY <1>1, <1>5, <1>6 DEF Typed, Job
  <2>2. /\ pc' \in [Workers -> Pcs] /\ pc'[w] = "pop"
        /\ \A v \in Workers \ {w} : pc'[v] = pc[v]
      BY <1>1 DEF ReadHead, Typed, Pcs, Goto
  <2>3. next' = [next EXCEPT ![w] = content[Page(w)][r]]
      BY DEF ReadHead
  <2>4. /\ next' \in [Workers -> Rows \cup {NoRow, Data}] /\ next'[w] = content[Page(w)][r]
        /\ \A v \in Workers \ {w} : next'[v] = next[v]
      BY <1>1, <1>4, <2>3 DEF Typed
  <2>5. Page(w)' = Page(w)
      BY <1>5, <2>1 DEF Page
  <2> QED  BY <2>1, <2>2, <2>4, <2>5 DEF ReadHead, Others, trashvars
<1>8. Typed'
  <2>1. held' = [v \in Workers |-> held'[v]]
      BY <1>2 DEF Keeps
  <2> QED  BY <1>1, <1>7, <2>1 DEF Typed, ReadHead, trashvars, chapter, Job
<1>9. ListsSame
    BY DEF ListsSame, ReadHead, trashvars, chapter
<1>10. Holds(w, LTRASHOFF(Page(w)), "XL")'
    BY <1>2, <1>3, <1>7, LocksApart DEF Holds, Keeps
<1>11. Place(w)'
    BY <1>3, <1>4, <1>5, <1>7, <1>10 DEF Place, RowPcs, AllocPcs, FreePcs
<1>12. RowState(w)'
    BY <1>5, <1>7 DEF RowState
<1>13. Quiet'
    BY <1>1, <1>3, <1>5, <1>7, <1>9, QuietSame DEF ListsSame, RowKinds
<1> QED
    BY <1>2, <1>7, <1>8, <1>9, <1>11, <1>12, <1>13, CalmStep DEF ReadHead
-----------------------------------------------------------------------------
(* The growth of the chapter, as far as the new pages are not referenced *)

LEMMA GrowLockKeeps ==
    ASSUME IInv, NEW w \in Workers, GrowLock(w)
    PROVE  IInv'
<1> DEFINE j == [job[w] EXCEPT !.page = LastPage]
<1>1. Typed /\ Linked /\ Exclusive /\ Place(w) /\ job[w] \in Job
    BY Known, JobSame
<1>2. Exclusive' /\ Keeps(w, {LREF0C}) /\ Gets(w, LREF0C, "XL")
    BY <1>1, LockSet DEF GrowLock
<1>3. job[w].kind = "alloc" /\ LastPage \in DOMAIN head /\ LastPage \in Nat
    BY <1>1, LastPageIs, PagesAreNat DEF Place, GrowLock, AllocPcs
<1>4. j \in Job /\ j.kind = "alloc" /\ j.page = LastPage
    BY <1>1, <1>3 DEF Job
<1>5. job' = [job EXCEPT ![w] = j]
    BY DEF GrowLock
<1> HIDE DEF j
<1>6. job'[w] = j /\ Page(w)' = LastPage /\ pc'[w] = "lastpright" /\ head' = head
    BY <1>1, <1>4, <1>5 DEF GrowLock, Typed, Goto, Page, trashvars
<1>7. LastPage' = LastPage
    BY DEF GrowLock, chapter, LastPage, StartOf
<1>8. Place(w)' /\ RowState(w)'
  <2>1. Holds(w, LREF0C, "XL")'
      BY <1>2 DEF Holds, Gets
  <2> QED  BY <1>3, <1>4, <1>6, <1>7, <2>1 DEF Place, RowState, RowPcs, AllocPcs, FreePcs
<1> QED
    BY <1>1, <1>2, <1>3, <1>4, <1>5, <1>8, CalmMove DEF GrowLock, Pcs, Typed, RowKinds

LEMMA NoSpaceKeeps ==
    ASSUME IInv, NEW w \in Workers, NoSpace(w), pc[w] # "push",
           UNCHANGED <<trashvars, chapter, opened, next>>
    PROVE  IInv'
<1>1. Typed /\ Exclusive
    BY Known
<1>2. Exclusive' /\ Keeps(w, {LREF0C, LENTTRASH})
    BY <1>1, LockDrop DEF NoSpace
<1>3. NoJob \in Job /\ NoJob.kind = "none"
    BY DEF NoJob, Job, Kinds
<1>4. pc'[w] = "idle" /\ job'[w] = NoJob
    BY <1>1 DEF NoSpace, Goto, Typed
<1>5. Place(w)' /\ RowState(w)'
    BY <1>3, <1>4 DEF Place, RowState, RowPcs, AllocPcs, FreePcs
<1> QED
    BY <1>1, <1>2, <1>3, <1>5, CalmMove DEF NoSpace, Pcs, Typed, RowKinds

LEMMA CreateFailsKeeps ==
    ASSUME IInv, NEW w \in Workers, CreateFails(w)
    PROVE  IInv'
BY NoSpaceKeeps DEF CreateFails

LEMMA LookupFullKeeps ==
    ASSUME IInv, NEW w \in Workers, LookupFull(w)
    PROVE  IInv'
BY NoSpaceKeeps DEF LookupFull

LEMMA LockLastKeeps ==
    ASSUME IInv, NEW w \in Workers, LockLast(w)
    PROVE  IInv'
<1>1. Typed /\ Exclusive /\ Place(w)
    BY Known
<1>2. Exclusive' /\ Keeps(w, {LOBJPRIGHT(Page(w))})
    BY <1>1, LockSet DEF LockLast
<1>3. job' = job /\ Page(w)' = Page(w) /\ pc'[w] = "reference" /\ head' = head
    BY <1>1 DEF LockLast, Page, trashvars, Goto, Typed
<1>4. LastPage' = LastPage
    BY DEF LockLast, chapter, LastPage, StartOf
<1>5. Holds(w, LREF0C, "XL")'
    BY <1>1, <1>2, LocksApart DEF LockLast, Place, Holds, Keeps
<1>6. Place(w)' /\ RowState(w)'
  <2>1. Place(w)'
      BY <1>1, <1>3, <1>4, <1>5 DEF Place, RowPcs, AllocPcs, FreePcs, LockLast
  <2> QED  BY <1>3, <2>1 DEF RowState
<1> QED
    BY <1>1, <1>2, <1>6, JobSame, CalmMove DEF LockLast, Pcs, Typed
-----------------------------------------------------------------------------
(* jselect *)

LEMMA LockBodyKeeps ==
    ASSUME IInv, NEW w \in Workers, LockBody(w)
    PROVE  IInv'
<1>1. Typed /\ Exclusive /\ Place(w)
    BY Known
<1>2. Exclusive' /\ Keeps(w, {LOBJBODY(Page(w))})
    BY <1>1, LockSet DEF LockBody
<1>3. PICK l \in {"pright", "scanned"} : Goto(w, l)
    BY DEF LockBody
<1>4. job' = job /\ Page(w)' = Page(w) /\ pc'[w] = l /\ head' = head
    BY <1>1, <1>3 DEF LockBody, Page, trashvars, Goto, Typed
<1>5. Place(w)' /\ RowState(w)'
  <2>1. Place(w)'
      BY <1>1, <1>4 DEF Place, RowPcs, AllocPcs, FreePcs, LockBody
  <2> QED  BY <1>4, <2>1 DEF RowState
<1>6. opened' \in [Workers -> BOOLEAN]
    BY <1>1 DEF LockBody, Typed
<1> QED
    BY <1>2, <1>3, <1>5, <1>6, JobSame, CalmMove DEF LockBody, Pcs

LEMMA AdvanceKeeps ==
    ASSUME IInv, NEW w \in Workers, Advance(w)
    PROVE  IInv'
<1> DEFINE p == Page(w)
           n == head[p].pright
<1>1. Typed /\ Linked /\ Exclusive /\ Place(w) /\ job[w] \in Job
    BY Known, JobSame
<1>2. p \in DOMAIN head /\ n \in DOMAIN head \cup {0} /\ job[w].kind = "select"
  <2>1. p \in DOMAIN head
      BY <1>1 DEF Place, Advance
  <2>2. job[w].kind \in Kinds
      BY Known
  <2> QED
      BY <1>1, <2>1, <2>2, PrightIn DEF Place, Advance, RowPcs, AllocPcs, Kinds
<1>3. CASE n = 0
  <2>1. Exclusive' /\ Keeps(w, {LOBJPRIGHT(p)})
      BY <1>1, <1>3, LockDrop DEF Advance
  <2>2. job' = job /\ Page(w)' = Page(w) /\ pc'[w] = "scanned" /\ head' = head
      BY <1>1, <1>3 DEF Advance, Page, trashvars, Goto, Typed
  <2>3. Place(w)' /\ RowState(w)'
    <3>1. Place(w)'
        BY <1>1, <2>2 DEF Place, RowPcs, AllocPcs, FreePcs, Advance
    <3> QED  BY <2>2, <3>1 DEF RowState
  <2> QED
      BY <1>1, <1>3, <2>1, <2>3, JobSame, CalmMove DEF Advance, Pcs, Typed
<1>4. CASE n # 0
  <2> DEFINE j == [job[w] EXCEPT !.page = n]
             l == LOBJPRIGHT(p)
             rest == Restrict(held[w], DOMAIN held[w] \ {LOBJBODY(p)})
  <2>1. Exclusive' /\ Keeps(w, {l, LOBJBODY(p)})
    <3>1. held' = [held EXCEPT ![w] = Overlay([k \in {l} |-> "SH"], rest)]
        BY <1>4 DEF Advance
    <3>2. /\ held' = [v \in Workers |-> held'[v]]
          /\ \A v \in Workers \ {w} : held'[v] = held[v]
          /\ held'[w] = Overlay([k \in {l} |-> "SH"], rest)
        BY <1>1, <3>1 DEF Typed
    <3>3. /\ DOMAIN rest = DOMAIN held[w] \ {LOBJBODY(p)}
          /\ \A k \in DOMAIN rest : rest[k] = held[w][k]
        BY DEF Restrict
    <3>4. /\ DOMAIN held'[w] = DOMAIN rest \cup {l}
          /\ held'[w][l] = "SH"
          /\ \A k \in DOMAIN rest \ {l} : held'[w][k] = rest[k]
        BY <3>2 DEF Overlay
    <3>5. \A k \in DOMAIN held'[w] \ {l} : k \in DOMAIN held[w] /\ held'[w][k] = held[w][k]
        BY <3>3, <3>4
    <3>6. \A v \in Workers \ {w} : \A k \in DOMAIN held[v] : Overlap(k, l) => held[v][k] = "SH"
        BY DEF Advance, Grants
    <3> HIDE DEF l, rest
    <3>7. Exclusive'
      <4> SUFFICES ASSUME NEW u \in Workers, NEW v \in Workers, u # v,
                          NEW k \in DOMAIN held'[u], NEW m \in DOMAIN held'[v], Overlap(k, m)
                   PROVE  held'[u][k] = "SH" /\ held'[v][m] = "SH"
          BY DEF Exclusive
      <4>0. Overlap(m, k)
          BY DEF Overlap
      <4>1. CASE u # w /\ v # w
          BY <1>1, <3>2, <4>1 DEF Exclusive
      <4>2. CASE u = w
        <5>1. CASE k = l
            BY <3>2, <3>4, <3>6, <4>0, <4>2, <5>1
        <5>2. CASE k # l
            BY <1>1, <3>2, <3>5, <4>2, <5>2 DEF Exclusive
        <5> QED  BY <5>1, <5>2
      <4>3. CASE v = w
        <5>1. CASE m = l
            BY <3>2, <3>4, <3>6, <4>3, <5>1
        <5>2. CASE m # l
            BY <1>1, <3>2, <3>5, <4>3, <5>2 DEF Exclusive
        <5> QED  BY <5>1, <5>2
      <4> QED  BY <4>1, <4>2, <4>3
    <3>8. \A k \in DOMAIN held[w] \ {l, LOBJBODY(p)} :
            k \in DOMAIN held'[w] /\ held'[w][k] = held[w][k]
        BY <3>3, <3>4
    <3> QED  BY <3>2, <3>7, <3>8 DEF Keeps
  <2>2. j \in Job /\ j.kind = "select" /\ j.page = n
    <3>1. n \in Nat
        BY <1>1, <1>2, PagesAreNat
    <3> QED  BY <1>1, <1>2, <3>1 DEF Job
  <2>3. job' = [job EXCEPT ![w] = j]
      BY <1>4 DEF Advance
  <2> HIDE DEF j
  <2>4. job'[w] = j /\ Page(w)' = n /\ pc'[w] = "body" /\ head' = head
      BY <1>1, <1>4, <2>2, <2>3 DEF Advance, Page, trashvars, Goto, Typed
  <2>5. Place(w)' /\ RowState(w)'
    <3>1. n \in DOMAIN head'
        BY <1>2, <1>4, <2>4
    <3> QED  BY <2>2, <2>4, <3>1 DEF Place, RowState, RowPcs, AllocPcs, FreePcs
  <2> QED
      BY <1>1, <1>4, <2>1, <2>2, <2>3, <2>5, CalmMove DEF Advance, Pcs, Typed, RowKinds
<1> QED
    BY <1>3, <1>4

LEMMA ClosePageKeeps ==
    ASSUME IInv, NEW w \in Workers, ClosePage(w)
    PROVE  IInv'
<1>1. Typed /\ Exclusive
    BY Known
<1>2. Exclusive' /\ Keeps(w, {LOBJBODY(Page(w))})
    BY <1>1, LockDrop DEF ClosePage
<1>3. NoJob \in Job /\ NoJob.kind = "none"
    BY DEF NoJob, Job, Kinds
<1>4. pc'[w] = "idle" /\ job'[w] = NoJob
    BY <1>1 DEF ClosePage, Goto, Typed
<1>5. Place(w)' /\ RowState(w)'
    BY <1>3, <1>4 DEF Place, RowState, RowPcs, AllocPcs, FreePcs
<1>6. opened' \in [Workers -> BOOLEAN]
    BY <1>1 DEF ClosePage, Typed
<1> QED
    BY <1>2, <1>3, <1>5, <1>6, CalmMove DEF ClosePage, Pcs, RowKinds
-----------------------------------------------------------------------------
(* Jobs begin *)

LEMMA OpenKeeps ==
    ASSUME IInv, NEW w \in Workers, NEW kind \in RowKinds, NEW r \in Rows,
           NEW off \in 0 .. ref0c - 1 + Beyond, edba_objectopen(w, kind, off, r)
    PROVE  IInv'
<1>1. Typed /\ Linked /\ Exclusive /\ Quiet /\ Place(w) /\ job[w] \in Job
    BY Known, JobSame
<1>2. Exclusive' /\ Keeps(w, {})
    BY <1>1, LockSame DEF edba_objectopen
<1>3. opened' \in [Workers -> BOOLEAN] /\ pc[w] = "idle"
    BY <1>1 DEF edba_objectopen, Typed, Idle
<1>4. CASE off >= ref0c
  <2>1. job' = job /\ pc' = pc /\ Goto(w, "idle") /\ job' = [job EXCEPT ![w] = job[w]]
      BY <1>1, <1>3, <1>4 DEF edba_objectopen, Goto, Typed
  <2>2. Place(w)' /\ RowState(w)'
      BY <1>1, <1>3, <2>1 DEF Place, RowState, RowPcs, AllocPcs, FreePcs
  <2> QED
      BY <1>1, <1>2, <1>3, <2>1, <2>2, CalmMove DEF edba_objectopen, Pcs, RowKinds
<1>5. CASE ~(off >= ref0c)
  <2> DEFINE p == Lookup(off)
             j == [kind |-> kind, page |-> p, row |-> r]
  <2>1. p \in DOMAIN head /\ p \in Nat
    <3>1. Len(refs) * straitc \in Int
        BY <1>1, Straits, Sizes, Times
    <3>2. off \in 0 .. ref0c - 1
        BY <1>1, <1>5, <3>1, ObjectsAssumption DEF Linked
    <3> QED  BY <1>1, <3>2, LookupIn, PagesAreNat
  <2>2. /\ Courteous(kind, p, r) /\ job' = [job EXCEPT ![w] = j] /\ Goto(w, "row")
        /\ UNCHANGED <<trashvars, chapter, held, next>>
      BY <1>5 DEF edba_objectopen
  <2> HIDE DEF p
  <2>3. j \in Job
      BY <2>1 DEF Job, Kinds, RowKinds
  <2>4. /\ job' \in [Workers -> Job] /\ job'[w] = j /\ Page(w)' = p /\ Others(w)
        /\ pc' \in [Workers -> Pcs] /\ pc'[w] = "row"
        /\ head' = head /\ deleted' = deleted /\ content' = content /\ ListsSame
      BY <1>1, <2>2, <2>3 DEF Typed, Goto, Others, Pcs, Page, trashvars, chapter, ListsSame, Job
  <2>5. Typed'
      BY <1>1, <1>3, <2>2, <2>4 DEF Typed, trashvars, chapter, Job
  <2>6. Place(w)'
      BY <2>1, <2>4 DEF Place, RowPcs, AllocPcs, FreePcs, RowKinds
  <2>7. RowState(w)'
      BY <2>2, <2>4 DEF RowState, Courteous, Timely
  <2>8. Quiet'
    <3>1. Allocating' => Allocating
        BY <2>4 DEF Allocating, Others, RowKinds
    <3>2. CASE ~Allocating
        BY <3>1, <3>2 DEF Quiet
    <3>3. CASE Timely(kind, p, r)
      <4>1. SUFFICES ASSUME Racing' PROVE Racing
          BY <1>1, <3>1 DEF Quiet
      <4>2. PICK q \in DOMAIN head, s \in Rows : \E v \in JobsOn(q, s)' :
               \/ deleted[q][s] /\ pc'[v] = "row"
               \/ \E u \in JobsOn(q, s)' \ {v} : "free" \in {job'[u].kind, job'[v].kind}
          BY <2>4, <4>1 DEF Racing
      <4>3. PICK v \in JobsOn(q, s)' :
               \/ deleted[q][s] /\ pc'[v] = "row"
               \/ \E u \in JobsOn(q, s)' \ {v} : "free" \in {job'[u].kind, job'[v].kind}
          BY <4>2
      <4>4. \A u \in Workers \ {w} : /\ u \in JobsOn(q, s)' <=> u \in JobsOn(q, s)
                                     /\ job'[u] = job[u] /\ pc'[u] = pc[u]
          BY <2>4 DEF JobsOn, Others
      <4>5. w \in JobsOn(q, s)' => q = p /\ s = r /\ job'[w].kind = kind
          BY <2>4 DEF JobsOn
      <4>6. ~deleted[p][r] /\ \A u \in JobsOn(p, r) : "free" \notin {job[u].kind, kind}
          BY <3>3 DEF Timely
      <4>7. \A u \in JobsOn(q, s)' : u \in Workers
          BY DEF JobsOn
      <4>8. CASE deleted[q][s] /\ pc'[v] = "row"
        <5>1. v # w
            BY <4>5, <4>6, <4>8
        <5> QED  BY <4>4, <4>7, <4>8, <5>1 DEF Racing
      <4>9. CASE \E u \in JobsOn(q, s)' \ {v} : "free" \in {job'[u].kind, job'[v].kind}
        <5>1. PICK u \in JobsOn(q, s)' \ {v} : "free" \in {job'[u].kind, job'[v].kind}
            BY <4>9
        <5>2. u # w /\ v # w
            BY <4>4, <4>5, <4>6, <4>7, <5>1
        <5> QED  BY <4>4, <4>7, <5>1, <5>2 DEF Racing
      <4> QED  BY <4>3, <4>8, <4>9
    <3> QED  BY <2>2, <3>2, <3>3 DEF Courteous
  <2> QED
      BY <1>2, <1>3, <2>4, <2>5, <2>6, <2>7, <2>8, CalmStep
<1> QED
    BY <1>4, <1>5

LEMMA AllocKeeps ==
    ASSUME IInv, NEW w \in Workers, jalloc(w)
    PROVE  IInv'
<1> DEFINE j == [NoJob EXCEPT !.kind = "alloc"]
<1>1. Typed /\ Exclusive
    BY Known
<1>2. Exclusive' /\ Keeps(w, {})
    BY <1>1, LockSame DEF jalloc
<1>3. j \in Job /\ j.kind = "alloc"
    BY DEF NoJob, Job, Kinds
<1>4. job' = [job EXCEPT ![w] = j]
    BY DEF jalloc
<1> HIDE DEF j
<1>5. /\ job' \in [Workers -> Job] /\ job'[w] = j /\ Others(w)
      /\ pc' \in [Workers -> Pcs] /\ pc'[w] = "enttrash"
      /\ head' = head /\ deleted' = deleted /\ ListsSame
  <2>1. /\ pc' = [pc EXCEPT ![w] = "enttrash"] /\ next' = next
        /\ UNCHANGED trashvars /\ UNCHANGED chapter
      BY DEF jalloc, Goto
  <2>2. pc \in [Workers -> Pcs] /\ job \in [Workers -> Job] /\ "enttrash" \in Pcs
      BY <1>1 DEF Typed, Job, Pcs
  <2>3. job' \in [Workers -> Job] /\ job'[w] = j
      BY <1>3, <1>4, <2>2
  <2>4. pc' \in [Workers -> Pcs] /\ pc'[w] = "enttrash"
      BY <2>1, <2>2
  <2>5. Others(w)
      BY <1>4, <2>1, <2>2 DEF Others
  <2>6. head' = head /\ deleted' = deleted /\ ListsSame
      BY <2>1 DEF trashvars, chapter, ListsSame
  <2> QED  BY <2>3, <2>4, <2>5, <2>6
<1>6. Typed'
    BY <1>1, <1>5 DEF Typed, jalloc, trashvars, chapter, Job
<1>7. Place(w)' /\ RowState(w)'
    BY <1>3, <1>5 DEF Place, RowState, RowPcs, AllocPcs, FreePcs
<1>8. Quiet'
  <2>1. Racing' => Racing
      BY <1>3, <1>5, RacingSame DEF RowKinds
  <2> QED  BY <2>1 DEF jalloc, Quiet
<1>9. pc[w] # "push"
    BY DEF jalloc, Idle
<1> QED
    BY <1>2, <1>5, <1>6, <1>7, <1>8, <1>9, CalmStep

LEMMA SelectKeeps ==
    ASSUME IInv, NEW w \in Workers, NEW off \in 0 .. ref0c - 1, jselect(w, off)
    PROVE  IInv'
<1> DEFINE p == Lookup(off)
           j == [NoJob EXCEPT !.kind = "select", !.page = p]
<1>1. Typed /\ Linked /\ Exclusive
    BY Known
<1>2. Exclusive' /\ Keeps(w, {})
    BY <1>1, LockSame DEF jselect
<1>3. p \in DOMAIN head /\ p \in Nat
    BY <1>1, LookupIn, PagesAreNat
<1>4. job' = [job EXCEPT ![w] = j]
    BY DEF jselect
<1> HIDE DEF p
<1>5. j \in Job /\ j.kind = "select" /\ j.page = p
    BY <1>3 DEF NoJob, Job, Kinds
<1> HIDE DEF j
<1>6. job'[w] = j /\ Page(w)' = p /\ pc'[w] = "body" /\ head' = head
    BY <1>1, <1>4, <1>5 DEF jselect, Typed, Goto, Page, trashvars
<1>7. Place(w)' /\ RowState(w)'
    BY <1>3, <1>5, <1>6 DEF Place, RowState, RowPcs, AllocPcs, FreePcs
<1> QED
    BY <1>1, <1>2, <1>4, <1>5, <1>7, CalmMove DEF jselect, Idle, Pcs, Typed, RowKinds
-----------------------------------------------------------------------------
(* Steps that change a list of rows *)

LEMMA SetRow ==
    ASSUME NEW f, NEW D, NEW T, f \in [D -> [Rows -> T]], NEW p \in D, NEW r \in Rows, NEW x \in T,
           NEW g, g = [f EXCEPT ![p][r] = x]
    PROVE  /\ g \in [D -> [Rows -> T]]
           /\ g[p][r] = x
           /\ \A q \in D, s \in Rows : q # p \/ s # r => g[q][s] = f[q][s]
<1>1. f[p] \in [Rows -> T] /\ g = [f EXCEPT ![p] = [f[p] EXCEPT ![r] = x]]
    OBVIOUS
<1>2. [f[p] EXCEPT ![r] = x] \in [Rows -> T]
    BY <1>1
<1> QED
    BY <1>1, <1>2

\* A lock that one worker holds alone
LEMMA Alone ==
    ASSUME Exclusive, NEW v \in Workers, NEW w \in Workers, NEW l, NEW mode,
           Holds(v, l, mode), Holds(w, l, "XL")
    PROVE  v = w
BY DEF Exclusive, Holds, Overlap

LEMMA RowStateKept ==
    ASSUME NEW w \in Workers, NEW v \in Workers \ {w}, Others(w), RowState(v),
           deleted'[Page(v)][job[v].row] = deleted[Page(v)][job[v].row],
           content'[Page(v)][job[v].row] = content[Page(v)][job[v].row],
           pc[v] \in {"push", "pop"} => head'[Page(v)].trashstart = head[Page(v)].trashstart
    PROVE  RowState(v)'
<1>1. pc'[v] = pc[v] /\ job'[v] = job[v] /\ next'[v] = next[v] /\ Page(v)' = Page(v)
    BY DEF Others, Page
<1> QED
    BY <1>1 DEF RowState

\* The first row of a list is listed, and holds no object.
LEMMA FirstListed ==
    ASSUME Typed, NEW p \in DOMAIN head, HasList(p), head[p].trashstart # NoRow
    PROVE  /\ head[p].trashc \in Nat \ {0}
           /\ head[p].trashstart \in Listed(p)
           /\ content[p][head[p].trashstart] \in Rows \cup {NoRow}
<1>1. head[p].trashc \in Nat
    BY DEF Typed, PageHead
<1>2. PICK l \in Bijection(1 .. head[p].trashc, Listed(p)) : IsTrashList(l, p)
    BY DEF HasList
<1>3. head[p].trashc # 0
    BY <1>2 DEF IsTrashList
<1>4. \A i \in 1 .. head[p].trashc : l[i] \in Listed(p)
    BY <1>2 DEF Bijection, Injection
<1>5. head[p].trashstart = l[1] /\ l[1] \in Listed(p)
    BY <1>1, <1>2, <1>3, <1>4 DEF IsTrashList
<1>6. content[p][l[1]] = IF 2 <= head[p].trashc THEN l[2] ELSE NoRow
    BY <1>1, <1>2, <1>3 DEF IsTrashList
<1>7. Listed(p) \subseteq Rows
    BY DEF Listed
<1> QED
    BY <1>1, <1>3, <1>4, <1>5, <1>6, <1>7

LEMMA LinkRowKeeps ==
    ASSUME IInv, NEW w \in Workers, LinkRow(w)
    PROVE  IInv'
<1> DEFINE p == Page(w)
           r == job[w].row
<1>1. Typed /\ Linked /\ Exclusive /\ Quiet /\ Place(w) /\ RowState(w)
    BY Known
<1>2. /\ p \in DOMAIN head /\ r \in Rows /\ job[w].kind = "free"
      /\ Holds(w, LROW(p, r), "XL") /\ Holds(w, LTRASHOFF(p), "XL")
      /\ ~deleted[p][r] /\ content[p][r] = Data
    BY <1>1 DEF LinkRow, Place, RowState, RowPcs, FreePcs, RowMode
<1>3. Exclusive' /\ Keeps(w, {})
    BY <1>1, LockSame DEF LinkRow
<1>4. /\ pc' \in [Workers -> Pcs] /\ pc'[w] = "push" /\ job' = job /\ Others(w)
      /\ Page(w)' = p /\ head' = head
    BY <1>1 DEF LinkRow, Typed, Goto, Others, Pcs, Page
<1>5. head[p].trashstart \in Rows \cup {NoRow, Data}
    BY <1>1, <1>2 DEF Typed, PageHead
<1>6. /\ deleted' \in [DOMAIN head -> [Rows -> BOOLEAN]] /\ deleted'[p][r]
      /\ \A q \in DOMAIN head, s \in Rows : q # p \/ s # r => deleted'[q][s] = deleted[q][s]
  <2>1. /\ deleted' \in [DOMAIN head -> [Rows -> BOOLEAN]] /\ deleted'[p][r] = TRUE
        /\ \A q \in DOMAIN head, s \in Rows : q # p \/ s # r => deleted'[q][s] = deleted[q][s]
    <3> DEFINE x == TRUE
           d == deleted
           D == DOMAIN head
    <3>1. /\ d \in [D -> [Rows -> BOOLEAN]] /\ p \in D /\ r \in Rows /\ x \in BOOLEAN
          /\ deleted' = [d EXCEPT ![p][r] = x]
        BY <1>1, <1>2 DEF Typed, LinkRow
    <3> HIDE DEF p, r, x, d, D
    <3>2. /\ deleted' \in [D -> [Rows -> BOOLEAN]]
          /\ deleted'[p][r] = x
          /\ \A q \in D, s \in Rows : q # p \/ s # r => deleted'[q][s] = d[q][s]
        BY ONLY <3>1, SetRow
    <3> QED  BY <3>2 DEF x, d, D
  <2> QED  BY <2>1
<1>7. /\ content' \in [DOMAIN head -> [Rows -> Rows \cup {NoRow, Data}]]
      /\ content'[p][r] = head[p].trashstart
      /\ \A q \in DOMAIN head, s \in Rows : q # p \/ s # r => content'[q][s] = content[q][s]
  <2> DEFINE x == head[p].trashstart
  <2>1. /\ content \in [DOMAIN head -> [Rows -> Rows \cup {NoRow, Data}]]
        /\ content' = [content EXCEPT ![p][r] = x]
      BY <1>1 DEF Typed, LinkRow
  <2> HIDE DEF p, r, x
  <2>2. x \in Rows \cup {NoRow, Data} /\ p \in DOMAIN head /\ r \in Rows
      BY <1>2, <1>5 DEF x
  <2>3. /\ content' \in [DOMAIN head -> [Rows -> Rows \cup {NoRow, Data}]]
        /\ content'[p][r] = x
        /\ \A q \in DOMAIN head, s \in Rows : q # p \/ s # r => content'[q][s] = content[q][s]
      BY ONLY <2>1, <2>2, SetRow
  <2> QED  BY <2>3 DEF x
<1>8. Typed'
    BY <1>1, <1>4, <1>6, <1>7 DEF Typed, LinkRow, chapter
<1>9. Linked' /\ LastPage' = LastPage
    BY <1>1 DEF Linked, LinkRow, chapter, LastPage, StartOf
<1>10. Place(w)'
  <2>1. held' = held /\ RowMode(w)' = RowMode(w)
      BY <1>4 DEF LinkRow, RowMode
  <2> QED  BY <1>1, <1>4, <2>1 DEF Place, Holds, RowPcs, AllocPcs, FreePcs, LinkRow
<1>11. RowState(w)'
    BY <1>4, <1>6, <1>7 DEF RowState
<1>12. ASSUME NEW v \in Workers \ {w}
       PROVE  Place(v)' /\ RowState(v)'
  <2>1. Place(v) /\ RowState(v)
      BY DEF IInv
  <2>2. Place(v)'
      BY <1>3, <1>4, <1>9, <2>1, OtherPlace
  <2> SUFFICES RowState(v)'
      BY <2>2
  <2>3. CASE pc[v] \notin {"row", "use", "trash", "link", "push", "pop", "created"}
      BY <1>4, <2>3 DEF RowState, Others
  <2>4. CASE pc[v] \in {"row", "use", "trash", "link", "push", "pop", "created"}
    <3>1. Page(v) \in DOMAIN head /\ job[v].row \in Rows
        BY <2>1, <2>4 DEF Place, RowPcs
    <3>2. CASE Page(v) # p \/ job[v].row # r
        BY <1>4, <1>6, <1>7, <2>1, <3>1, <3>2, RowStateKept
    <3>3. CASE Page(v) = p /\ job[v].row = r
      <4>1. pc[v] \notin {"use", "trash", "link", "push"}
        <5>1. pc[v] \in {"use", "trash", "link", "push"} => Holds(v, LROW(p, r), RowMode(v))
            BY <2>1, <3>3 DEF Place, RowPcs
        <5> QED  BY <1>1, <1>2, <5>1, Alone
      <4>2. pc[v] # "pop"
        <5>1. pc[v] = "pop" => Holds(v, LTRASHOFF(p), "XL")
            BY <2>1, <3>3 DEF Place
        <5> QED  BY <1>1, <1>2, <5>1, Alone
      <4>3. pc[v] # "created"
          BY <1>2, <2>1, <3>3 DEF RowState
      <4>4. pc'[v] = "row" /\ Page(v)' = p /\ job'[v].row = r
          BY <1>4, <2>4, <3>3, <4>1, <4>2, <4>3 DEF Others, Page
      <4> QED  BY <1>6, <4>4 DEF RowState
    <3> QED  BY <3>2, <3>3
  <2> QED  BY <2>3, <2>4
<1>13. CreatedApart'
    BY <1>4 DEF IInv, CreatedApart, Others, Page
<1>14. Quiet'
  <2>1. Allocating' => Allocating
      BY <1>4 DEF Allocating
  <2>2. Racing' => Racing
    <3>1. SUFFICES ASSUME Racing' PROVE Racing
        OBVIOUS
    <3>2. \A q, t : JobsOn(q, t)' = JobsOn(q, t)
        BY <1>4 DEF JobsOn
    <3>3. PICK q \in DOMAIN head, t \in Rows : \E v \in JobsOn(q, t) :
             \/ deleted'[q][t] /\ pc'[v] = "row"
             \/ \E u \in JobsOn(q, t) \ {v} : "free" \in {job[u].kind, job[v].kind}
        BY <1>4, <3>1, <3>2 DEF Racing
    <3>4. PICK v \in JobsOn(q, t) :
             \/ deleted'[q][t] /\ pc'[v] = "row"
             \/ \E u \in JobsOn(q, t) \ {v} : "free" \in {job[u].kind, job[v].kind}
        BY <3>3
    <3>5. CASE \E u \in JobsOn(q, t) \ {v} : "free" \in {job[u].kind, job[v].kind}
        BY <3>5 DEF Racing
    <3>6. CASE deleted'[q][t] /\ pc'[v] = "row"
      <4>1. v \in Workers \ {w} /\ pc[v] = "row"
          BY <1>4, <3>6 DEF JobsOn, Others
      <4>2. CASE q = p /\ t = r
        <5>1. w \in JobsOn(q, t) \ {v} /\ job[w].kind = "free"
            BY <1>2, <4>1, <4>2 DEF JobsOn, Page
        <5> QED  BY <5>1 DEF Racing
      <4>3. CASE q # p \/ t # r
          BY <1>6, <3>6, <4>1, <4>3 DEF Racing
      <4> QED  BY <4>2, <4>3
    <3> QED  BY <3>4, <3>5, <3>6
  <2> QED  BY <1>1, <2>1, <2>2 DEF Quiet
<1>15. Whole'
  <2> SUFFICES ASSUME NEW q \in DOMAIN head PROVE HasList(q)'
      BY <1>4 DEF Whole
  <2>1. \A t : Pushed(q, t)' <=> Pushed(q, t) \/ (q = p /\ t = r)
      BY <1>4 DEF Pushed, Others, Page, LinkRow
  <2>2. Listed(q)' = Listed(q)
      BY <1>2, <1>6, <2>1 DEF Listed
  <2>3. \A t \in Listed(q) : content'[q][t] = content[q][t]
      BY <1>2, <1>7 DEF Listed
  <2> QED
      BY <1>4, <2>2, <2>3, ListKept DEF IInv, Whole
<1> QED
    BY <1>3, <1>8, <1>9, <1>10, <1>11, <1>12, <1>13, <1>14, <1>15 DEF IInv, Quiet

LEMMA FillRowKeeps ==
    ASSUME IInv, NEW w \in Workers, FillRow(w)
    PROVE  IInv'
<1> DEFINE p == Page(w)
           r == job[w].row
<1>1. CASE UNCHANGED content
    BY <1>1, CloseKeeps DEF FillRow, trashvars
<1>2. CASE content' = [content EXCEPT ![p][r] = Data]
  <2>1. Typed /\ Linked /\ Exclusive /\ Quiet /\ Place(w) /\ RowState(w)
      BY Known
  <2>2. p \in DOMAIN head /\ r \in Rows /\ ~deleted[p][r] /\ content[p][r] # Data
      BY <2>1 DEF FillRow, Place, RowState
  <2>3. Exclusive' /\ Keeps(w, {LROW(p, r)})
      BY <2>1, LockDrop DEF FillRow, Close
  <2>4. /\ pc' \in [Workers -> Pcs] /\ pc'[w] = "idle" /\ job'[w] = NoJob /\ job' \in [Workers -> Job]
        /\ opened' \in [Workers -> BOOLEAN] /\ Others(w) /\ head' = head /\ deleted' = deleted
    <3>1. NoJob \in Job
        BY DEF NoJob, Job, Kinds
    <3> QED  BY <2>1, <3>1 DEF FillRow, Close, Typed, Goto, Others, Pcs, Job
  <2>5. /\ content' \in [DOMAIN head -> [Rows -> Rows \cup {NoRow, Data}]]
        /\ content'[p][r] = Data
        /\ \A q \in DOMAIN head, s \in Rows : q # p \/ s # r => content'[q][s] = content[q][s]
      BY <1>2, <2>1, <2>2, SetRow DEF Typed
  <2>6. Typed'
    <3>1. held' = [v \in Workers |-> held'[v]]
        BY <2>3 DEF Keeps
    <3> QED  BY <2>1, <2>4, <2>5, <3>1 DEF Typed, FillRow, chapter, Job
  <2>7. Linked' /\ LastPage' = LastPage
      BY <2>1 DEF Linked, FillRow, chapter, LastPage, StartOf
  <2>8. Place(w)' /\ RowState(w)'
      BY <2>4 DEF Place, RowState, NoJob, RowPcs, AllocPcs, FreePcs
  <2>9. ASSUME NEW v \in Workers \ {w}
        PROVE  Place(v)' /\ RowState(v)'
    <3>1. Place(v) /\ RowState(v)
        BY DEF IInv
    <3>2. Place(v)'
        BY <2>3, <2>4, <2>7, <3>1, OtherPlace
    <3> SUFFICES RowState(v)'
        BY <3>2
    <3>3. CASE pc[v] \notin {"row", "use", "trash", "link", "push", "pop", "created"}
        BY <2>4, <3>3 DEF RowState, Others
    <3>4. CASE pc[v] \in {"row", "use", "trash", "link", "push", "pop", "created"}
      <4>1. Page(v) \in DOMAIN head /\ job[v].row \in Rows
          BY <3>1, <3>4 DEF Place, RowPcs
      <4>2. CASE Page(v) # p \/ job[v].row # r
          BY <2>4, <2>5, <3>1, <4>1, <4>2, RowStateKept
      <4>3. CASE Page(v) = p /\ job[v].row = r
        <5>1. pc[v] # "created"
            BY <4>3 DEF IInv, CreatedApart, FillRow
        <5>2. pc[v] \notin {"row", "use", "trash", "link", "push"}
            BY <2>2, <3>1, <4>3 DEF RowState
        <5>3. pc[v] # "pop"
          <6>1. ASSUME pc[v] = "pop" PROVE FALSE
            <7>1. head[p].trashstart = r /\ HasList(p)
                BY <2>2, <3>1, <4>3, <6>1 DEF RowState, IInv, Whole
            <7>2. r # NoRow
                BY <2>2, Sizes DEF Rows, NoRow
            <7>3. r \in Listed(p)
                BY <2>1, <2>2, <7>1, <7>2, FirstListed
            <7> QED  BY <2>2, <7>3 DEF Listed
          <6> QED  BY <6>1
        <5> QED  BY <3>4, <5>1, <5>2, <5>3
      <4> QED  BY <4>2, <4>3
    <3> QED  BY <3>3, <3>4
  <2>10. CreatedApart'
      BY <2>4 DEF IInv, CreatedApart, Others, Page
  <2>11. Quiet'
      BY <2>1, <2>4, QuietSame DEF NoJob, RowKinds
  <2>12. Whole'
    <3> SUFFICES ASSUME NEW q \in DOMAIN head PROVE HasList(q)'
        BY <2>4 DEF Whole
    <3>1. \A t : Pushed(q, t)' <=> Pushed(q, t)
        BY <2>4 DEF Pushed, Others, Page, FillRow
    <3>2. Listed(q)' = Listed(q)
        BY <2>4, <3>1 DEF Listed
    <3>3. \A t \in Listed(q) : content'[q][t] = content[q][t]
        BY <2>2, <2>5 DEF Listed
    <3> QED
        BY <2>4, <3>2, <3>3, ListKept DEF IInv, Whole
  <2> QED
      BY <2>3, <2>6, <2>7, <2>8, <2>9, <2>10, <2>11, <2>12 DEF IInv, Quiet
<1> QED
    BY <1>1, <1>2 DEF FillRow

LEMMA Prepend ==
    ASSUME NEW c \in Nat, NEW S, NEW l \in Bijection(1 .. c, S), NEW r, r \notin S
    PROVE  [i \in 1 .. c + 1 |-> IF i = 1 THEN r ELSE l[i - 1]] \in Bijection(1 .. c + 1, S \cup {r})
<1> DEFINE m == [i \in 1 .. c + 1 |-> IF i = 1 THEN r ELSE l[i - 1]]
<1>1. /\ l \in [1 .. c -> S]
      /\ \A i, j \in 1 .. c : l[i] = l[j] => i = j
      /\ \A t \in S : \E i \in 1 .. c : l[i] = t
    BY DEF Bijection, Injection, Surjection, IsInjective
<1>2. m[1] = r
    OBVIOUS
<1>3. \A i \in 1 .. c + 1 : i # 1 => i - 1 \in 1 .. c /\ m[i] = l[i - 1] /\ m[i] \in S
    BY <1>1
<1>4. m \in [1 .. c + 1 -> S \cup {r}]
    BY <1>1
<1> HIDE DEF m
<1>5. \A i, j \in 1 .. c + 1 : m[i] = m[j] => i = j
  <2> SUFFICES ASSUME NEW i \in 1 .. c + 1, NEW j \in 1 .. c + 1, m[i] = m[j] PROVE i = j
      OBVIOUS
  <2>1. CASE i = 1 \/ j = 1
      BY <1>2, <1>3, <2>1
  <2>2. CASE i # 1 /\ j # 1
    <3>1. i - 1 = j - 1
        BY <1>1, <1>3, <2>2
    <3> QED  BY <3>1
  <2> QED  BY <2>1, <2>2
<1>6. ASSUME NEW t \in S \cup {r} PROVE \E i \in 1 .. c + 1 : m[i] = t
  <2>1. CASE t = r
      BY <1>2, <2>1
  <2>2. CASE t # r
    <3>1. PICK i \in 1 .. c : l[i] = t
        BY <1>1, <2>2
    <3>2. i + 1 \in 1 .. c + 1 /\ i + 1 # 1 /\ (i + 1) - 1 = i
        OBVIOUS
    <3>3. m[i + 1] = t
        BY <1>3, <3>1, <3>2
    <3> QED  BY <3>2, <3>3
  <2> QED  BY <2>1, <2>2
<1>7. m \in Bijection(1 .. c + 1, S \cup {r})
    BY <1>4, <1>5, <1>6 DEF Bijection, Injection, Surjection, IsInjective
<1> QED
    BY <1>7 DEF m

LEMMA Behead ==
    ASSUME NEW c \in Nat \ {0}, NEW S, NEW l \in Bijection(1 .. c, S)
    PROVE  [i \in 1 .. c - 1 |-> l[i + 1]] \in Bijection(1 .. c - 1, S \ {l[1]})
<1> DEFINE m == [i \in 1 .. c - 1 |-> l[i + 1]]
<1>1. /\ l \in [1 .. c -> S]
      /\ \A i, j \in 1 .. c : l[i] = l[j] => i = j
      /\ \A t \in S : \E i \in 1 .. c : l[i] = t
    BY DEF Bijection, Injection, Surjection, IsInjective
<1>2. \A i \in 1 .. c - 1 : m[i] = l[i + 1] /\ i + 1 \in 1 .. c /\ i + 1 # 1 /\ 1 \in 1 .. c
    OBVIOUS
<1>3. m = [i \in 1 .. c - 1 |-> m[i]]
    OBVIOUS
<1> HIDE DEF m
<1>4. m \in [1 .. c - 1 -> S \ {l[1]}]
  <2>1. \A i \in 1 .. c - 1 : m[i] \in S \ {l[1]}
      BY <1>1, <1>2
  <2> QED  BY <1>3, <2>1
<1>5. \A i, j \in 1 .. c - 1 : m[i] = m[j] => i = j
  <2> SUFFICES ASSUME NEW i \in 1 .. c - 1, NEW j \in 1 .. c - 1, m[i] = m[j] PROVE i = j
      OBVIOUS
  <2>1. i + 1 = j + 1
      BY <1>1, <1>2
  <2> QED  BY <2>1
<1>6. ASSUME NEW t \in S \ {l[1]} PROVE \E i \in 1 .. c - 1 : m[i] = t
  <2>1. PICK i \in 1 .. c : l[i] = t
      BY <1>1
  <2>2. i # 1
      BY <2>1
  <2>3. i - 1 \in 1 .. c - 1 /\ (i - 1) + 1 = i
      BY <2>2
  <2>4. m[i - 1] = t
      BY <1>2, <2>1, <2>3
  <2> QED  BY <2>3, <2>4
<1>7. m \in Bijection(1 .. c - 1, S \ {l[1]})
    BY <1>4, <1>5, <1>6 DEF Bijection, Injection, Surjection, IsInjective
<1> QED
    BY <1>7 DEF m

\* trashstart_off and trashc of a page change.
LEMMA TopSet ==
    ASSUME Typed, NEW p \in DOMAIN head, NEW s \in Rows \cup {NoRow}, NEW c \in Nat,
           head' = [head EXCEPT ![p] = [head[p] EXCEPT !.trashstart = s, !.trashc = c]]
    PROVE  /\ DOMAIN head' = DOMAIN head
           /\ head' \in [DOMAIN head -> PageHead]
           /\ head'[p].trashstart = s /\ head'[p].trashc = c
           /\ \A q \in DOMAIN head \ {p} : head'[q] = head[q]
           /\ \A q \in DOMAIN head : /\ head'[q].pright = head[q].pright
                                     /\ head'[q].trashvor = head[q].trashvor
<1>1. head[p] \in PageHead
    BY DEF Typed
<1>2. DOMAIN head' = DOMAIN head /\ \A q \in DOMAIN head \ {p} : head'[q] = head[q]
    OBVIOUS
<1>3. head'[p] = [head[p] EXCEPT !.trashstart = s, !.trashc = c]
    OBVIOUS
<1>4. /\ head'[p] \in PageHead
      /\ head'[p].trashstart = s /\ head'[p].trashc = c
      /\ head'[p].pright = head[p].pright /\ head'[p].trashvor = head[p].trashvor
    BY <1>1, <1>3 DEF PageHead
<1> QED
    BY <1>2, <1>4 DEF Typed

\* The links between pages are left alone.
LEMMA LinkedKept ==
    ASSUME Linked, DOMAIN head' = DOMAIN head, UNCHANGED chapter,
           \A q \in DOMAIN head : head'[q].pright = head[q].pright
    PROVE  Linked' /\ LastPage' = LastPage
<1>1. \A i \in 1 .. Len(refs), k \in 0 .. straitc - 1 :
        NewPids[i] + k \in DOMAIN head /\ head'[NewPids[i] + k].pright = After(i, k, Len(refs))
    BY PageIn DEF Linked
<1> QED
    BY <1>1 DEF Linked, chapter, LastPage, StartOf

LEMMA PushRowKeeps ==
    ASSUME IInv, NEW w \in Workers, PushRow(w)
    PROVE  IInv'
<1> DEFINE p == Page(w)
           r == job[w].row
           c == head[p].trashc
<1>1. Typed /\ Linked /\ Exclusive /\ Quiet /\ Place(w) /\ RowState(w)
    BY Known
<1>2. /\ p \in DOMAIN head /\ r \in Rows
      /\ Holds(w, LTRASHOFF(p), "XL") /\ Holds(w, LROW(p, r), RowMode(w))
      /\ deleted[p][r] /\ content[p][r] = head[p].trashstart
    BY <1>1 DEF PushRow, Place, RowState, RowPcs
<1>3. Exclusive' /\ Keeps(w, {LTRASHOFF(p)})
    BY <1>1, LockDrop DEF PushRow
<1>4. PICK next2 \in {"incycle", "close"} : Goto(w, next2)
    BY DEF PushRow
<1>5. /\ pc' \in [Workers -> Pcs] /\ pc'[w] \in {"incycle", "close"} /\ job' = job /\ Others(w)
      /\ Page(w)' = p /\ deleted' = deleted /\ content' = content /\ RowMode(w)' = RowMode(w)
    BY <1>1, <1>4 DEF PushRow, Typed, Goto, Others, Pcs, Page, RowMode
<1>6. c \in Nat
    BY <1>1, <1>2 DEF Typed, PageHead
<1>7. /\ DOMAIN head' = DOMAIN head
      /\ head' \in [DOMAIN head -> PageHead]
      /\ head'[p].trashstart = r /\ head'[p].trashc = c + 1
      /\ \A q \in DOMAIN head \ {p} : head'[q] = head[q]
      /\ \A q \in DOMAIN head : /\ head'[q].pright = head[q].pright
                                /\ head'[q].trashvor = head[q].trashvor
  <2>1. head' = [head EXCEPT ![p] = [head[p] EXCEPT !.trashstart = r, !.trashc = c + 1]]
      BY <1>1, <1>2 DEF PushRow, Typed, PageHead
  <2>2. r \in Rows \cup {NoRow} /\ c + 1 \in Nat
      BY <1>2, <1>6
  <2> QED  BY <1>1, <1>2, <2>1, <2>2, TopSet
<1>8. Typed'
  <2>1. held' = [v \in Workers |-> held'[v]]
      BY <1>3 DEF Keeps
  <2>2. \A q \in DOMAIN head' : head'[q].trashvor \in DOMAIN head' \cup {0}
      BY <1>1, <1>7 DEF Typed
  <2> QED  BY <1>1, <1>5, <1>7, <2>1, <2>2 DEF Typed, PushRow, chapter
<1>9. Linked' /\ LastPage' = LastPage
    BY <1>1, <1>7, LinkedKept DEF PushRow
<1>10. Place(w)' /\ RowState(w)'
  <2>1. Holds(w, LROW(Page(w), job[w].row), RowMode(w))'
      BY <1>2, <1>3, <1>5, LocksApart DEF Holds, Keeps
  <2>2. Place(w)'
      BY <1>1, <1>5, <1>7, <2>1 DEF Place, RowPcs, AllocPcs, FreePcs, PushRow
  <2> QED  BY <1>5, <2>2 DEF RowState
<1>11. ASSUME NEW v \in Workers \ {w}
       PROVE  Place(v)' /\ RowState(v)'
  <2>1. Place(v) /\ RowState(v)
      BY DEF IInv
  <2>2. Place(v)'
      BY <1>3, <1>5, <1>7, <1>9, <2>1, OtherPlace
  <2>3. pc[v] \in {"push", "pop"} => Page(v) \in DOMAIN head \ {p}
    <3>1. pc[v] \in {"push", "pop"} => Page(v) \in DOMAIN head /\ Holds(v, LTRASHOFF(Page(v)), "XL")
        BY <2>1 DEF Place
    <3> QED  BY <1>1, <1>2, <3>1, Alone
  <2> QED  BY <1>5, <1>7, <2>1, <2>2, <2>3, RowStateKept
<1>12. CreatedApart'
    BY <1>5 DEF IInv, CreatedApart, Others, Page
<1>13. Quiet'
    BY <1>1, <1>5, <1>7, QuietSame
<1>14. Whole'
  <2> SUFFICES ASSUME NEW q \in DOMAIN head PROVE HasList(q)'
      BY <1>7 DEF Whole
  <2>0. HasList(q)
      BY DEF IInv, Whole
  <2>1. CASE q # p
    <3>1. \A t : Pushed(q, t)' <=> Pushed(q, t)
        BY <1>5, <2>1 DEF Pushed, Others, Page
    <3>2. Listed(q)' = Listed(q)
        BY <1>5, <3>1 DEF Listed
    <3> QED
        BY <1>5, <1>7, <2>0, <2>1, <3>2, ListKept
  <2>2. CASE q = p
    <3>1. \A v \in Workers : pc[v] = "push" /\ Page(v) = p => v = w
      <4>1. ASSUME NEW v \in Workers, pc[v] = "push" /\ Page(v) = p PROVE v = w
        <5>1. Holds(v, LTRASHOFF(p), "XL")
            BY <4>1 DEF IInv, Place
        <5> QED  BY <1>1, <1>2, <5>1, Alone
      <4> QED  BY <4>1
    <3>2. \A t : Pushed(p, t) <=> t = r
        BY <3>1 DEF Pushed, PushRow
    <3>3. \A t : ~Pushed(q, t)'
        BY <1>5, <2>2, <3>1 DEF Pushed, Others, Page
    <3>4. Listed(q)' = Listed(p) \cup {r} /\ r \notin Listed(p)
        BY <1>2, <1>5, <2>2, <3>2, <3>3 DEF Listed
    <3>5. PICK l \in Bijection(1 .. c, Listed(p)) : IsTrashList(l, p)
        BY <2>0, <2>2 DEF HasList
    <3>6. PICK m \in Bijection(1 .. c + 1, Listed(p) \cup {r}) :
                 m = [i \in 1 .. c + 1 |-> IF i = 1 THEN r ELSE l[i - 1]]
        BY <1>6, <3>4, <3>5, Prepend
    <3>7. /\ m[1] = r
          /\ \A i \in 1 .. c : m[i + 1] = l[i]
          /\ \A i \in 2 .. c + 1 : m[i] = l[i - 1]
        BY <1>6, <3>6
    <3>8. IsTrashList(m, q)'
      <4>1. head'[p].trashstart = IF 1 <= c + 1 THEN m[1] ELSE NoRow
          BY <1>6, <1>7, <3>7
      <4>2. ASSUME NEW i \in 1 .. c + 1
            PROVE  content'[p][m[i]] = IF i + 1 <= c + 1 THEN m[i + 1] ELSE NoRow
        <5>1. /\ head[p].trashstart = IF 1 <= c THEN l[1] ELSE NoRow
              /\ \A j \in 1 .. c : content[p][l[j]] = IF j + 1 <= c THEN l[j + 1] ELSE NoRow
            BY <3>5 DEF IsTrashList
        <5>2. CASE i = 1
          <6>1. content'[p][m[i]] = head[p].trashstart
              BY <1>2, <1>5, <3>7, <5>2
          <6>2. 1 <= c => m[2] = l[1]
              BY <1>6, <3>7
          <6> QED  BY <1>6, <5>1, <5>2, <6>1, <6>2
        <5>3. CASE i # 1
          <6>1. i - 1 \in 1 .. c /\ m[i] = l[i - 1] /\ i \in 2 .. c + 1
              BY <1>6, <3>7, <5>3
          <6>2. content'[p][m[i]] = IF (i - 1) + 1 <= c THEN l[(i - 1) + 1] ELSE NoRow
              BY <1>5, <5>1, <6>1
          <6>3. (i - 1) + 1 = i /\ (i <= c => m[i + 1] = l[i])
              BY <1>6, <3>7
          <6> QED  BY <1>6, <6>2, <6>3
        <5> QED  BY <5>2, <5>3
      <4> QED  BY <1>7, <2>2, <4>1, <4>2 DEF IsTrashList
    <3> QED  BY <1>7, <2>2, <3>4, <3>6, <3>8 DEF HasList
  <2> QED  BY <2>1, <2>2
<1> QED
    BY <1>3, <1>8, <1>9, <1>10, <1>11, <1>12, <1>13, <1>14 DEF IInv, Quiet

LEMMA PopHeadKeeps ==
    ASSUME IInv, NEW w \in Workers, PopHead(w)
    PROVE  IInv'
<1> DEFINE p == Page(w)
           r == job[w].row
           c == head[p].trashc
<1>1. Typed /\ Linked /\ Exclusive /\ Quiet /\ Place(w) /\ RowState(w)
    BY Known
<1>2. /\ p \in DOMAIN head /\ r \in Rows /\ job[w].kind = "alloc"
      /\ Holds(w, LTRASHOFF(p), "XL")
      /\ head[p].trashstart = r /\ next[w] = content[p][r]
    BY <1>1 DEF PopHead, Place, RowState, AllocPcs
<1>3. r # NoRow
    BY <1>2, Sizes DEF Rows, NoRow
<1>4. /\ c \in Nat \ {0} /\ r \in Listed(p) /\ deleted[p][r]
      /\ next[w] \in Rows \cup {NoRow} /\ next[w] # Data
  <2>1. HasList(p)
      BY <1>2 DEF IInv, Whole
  <2>2. c \in Nat \ {0} /\ r \in Listed(p) /\ next[w] \in Rows \cup {NoRow}
      BY <1>1, <1>2, <1>3, <2>1, FirstListed
  <2>3. Data \notin Rows \cup {NoRow}
      BY Sizes DEF Rows, NoRow
  <2> QED  BY <2>2, <2>3 DEF Listed
<1>5. Exclusive' /\ Keeps(w, {LTRASHOFF(p)})
    BY <1>1, LockDrop DEF PopHead
<1>6. /\ pc' \in [Workers -> Pcs] /\ pc'[w] = "created" /\ job' = job /\ Others(w)
      /\ Page(w)' = p /\ content' = content
      /\ next' \in [Workers -> Rows \cup {NoRow, Data}] /\ opened' \in [Workers -> BOOLEAN]
    BY <1>1 DEF PopHead, Typed, Goto, Others, Pcs, Page
<1>7. /\ DOMAIN head' = DOMAIN head
      /\ head' \in [DOMAIN head -> PageHead]
      /\ head'[p].trashstart = next[w] /\ head'[p].trashc = c - 1
      /\ \A q \in DOMAIN head \ {p} : head'[q] = head[q]
      /\ \A q \in DOMAIN head : /\ head'[q].pright = head[q].pright
                                /\ head'[q].trashvor = head[q].trashvor
  <2>1. head' = [head EXCEPT ![p] = [head[p] EXCEPT !.trashstart = next[w], !.trashc = c - 1]]
      BY <1>1, <1>2 DEF PopHead, Typed, PageHead
  <2>2. c - 1 \in Nat
      BY <1>4
  <2> QED  BY <1>1, <1>2, <1>4, <2>1, <2>2, TopSet
<1>8. /\ deleted' \in [DOMAIN head -> [Rows -> BOOLEAN]] /\ deleted'[p][r] = FALSE
      /\ \A q \in DOMAIN head, s \in Rows : q # p \/ s # r => deleted'[q][s] = deleted[q][s]
  <2> DEFINE x == FALSE
         d == deleted
         D == DOMAIN head
  <2>1. /\ d \in [D -> [Rows -> BOOLEAN]] /\ p \in D /\ r \in Rows /\ x \in BOOLEAN
        /\ deleted' = [d EXCEPT ![p][r] = x]
      BY <1>1, <1>2 DEF Typed, PopHead
  <2> HIDE DEF p, r, x, d, D
  <2>2. /\ deleted' \in [D -> [Rows -> BOOLEAN]]
        /\ deleted'[p][r] = x
        /\ \A q \in D, s \in Rows : q # p \/ s # r => deleted'[q][s] = d[q][s]
      BY ONLY <2>1, SetRow
  <2> QED  BY <2>2 DEF x, d, D
<1>9. Typed'
  <2>1. held' = [v \in Workers |-> held'[v]]
      BY <1>5 DEF Keeps
  <2>2. \A q \in DOMAIN head' : head'[q].trashvor \in DOMAIN head' \cup {0}
      BY <1>1, <1>7 DEF Typed
  <2> QED  BY <1>1, <1>6, <1>7, <1>8, <2>1, <2>2 DEF Typed, PopHead, chapter
<1>10. Linked' /\ LastPage' = LastPage
    BY <1>1, <1>7, LinkedKept DEF PopHead
<1>11. Place(w)' /\ RowState(w)'
  <2>1. Place(w)'
      BY <1>1, <1>2, <1>6, <1>7 DEF Place, RowPcs, AllocPcs, FreePcs, PopHead
  <2> QED  BY <1>2, <1>4, <1>6, <1>8, <2>1 DEF RowState
<1>12. ~Racing
    BY <1>1, <1>2 DEF Quiet, Allocating
<1>13. ASSUME NEW v \in Workers \ {w}
       PROVE  Place(v)' /\ RowState(v)' /\ (pc[v] = "created" => Page(v) # p \/ job[v].row # r)
  <2>1. Place(v) /\ RowState(v)
      BY DEF IInv
  <2>2. Place(v)'
      BY <1>5, <1>6, <1>7, <1>10, <2>1, OtherPlace
  <2>3. pc[v] \in {"push", "pop"} => Page(v) \in DOMAIN head \ {p}
    <3>1. pc[v] \in {"push", "pop"} => Page(v) \in DOMAIN head /\ Holds(v, LTRASHOFF(Page(v)), "XL")
        BY <2>1 DEF Place
    <3> QED  BY <1>1, <1>2, <3>1, Alone
  <2>4. CASE pc[v] \notin {"row", "use", "trash", "link", "push", "pop", "created"}
    <3>1. RowState(v)'
        BY <1>6, <2>4 DEF RowState, Others
    <3> QED  BY <2>2, <2>4, <3>1
  <2>5. CASE pc[v] \in {"row", "use", "trash", "link", "push", "pop", "created"}
    <3>1. Page(v) \in DOMAIN head /\ job[v].row \in Rows
        BY <2>1, <2>5 DEF Place, RowPcs
    <3>2. Page(v) # p \/ job[v].row # r
      <4>1. SUFFICES ASSUME Page(v) = p, job[v].row = r PROVE FALSE
          OBVIOUS
      <4>2. pc[v] = "row"
          BY <1>4, <2>1, <2>3, <2>5, <4>1 DEF RowState
      <4>3. v \in JobsOn(p, r)
          BY <2>1, <4>1, <4>2 DEF JobsOn, Page, Place, RowPcs
      <4> QED  BY <1>2, <1>4, <1>12, <4>2, <4>3 DEF Racing
    <3>3. deleted'[Page(v)][job[v].row] = deleted[Page(v)][job[v].row]
        BY <1>8, <3>1, <3>2
    <3>4. RowState(v)'
        BY <1>6, <1>7, <2>1, <2>3, <3>3, RowStateKept
    <3> QED  BY <2>2, <3>2, <3>4
  <2> QED  BY <2>4, <2>5
<1>14. CreatedApart'
  <2> SUFFICES ASSUME NEW u \in Workers, NEW v \in Workers, pc'[u] = "created", pc'[v] = "created",
                      Page(u)' = Page(v)', job'[u].row = job'[v].row
               PROVE  u = v
      BY DEF CreatedApart
  <2>1. \A x \in Workers \ {w} : pc'[x] = pc[x] /\ Page(x)' = Page(x) /\ job'[x] = job[x]
      BY <1>6 DEF Others, Page
  <2>2. CASE u # w /\ v # w
      BY <2>1, <2>2 DEF IInv, CreatedApart
  <2>3. CASE u = w \/ v = w
      BY <1>6, <1>13, <2>1, <2>3
  <2> QED  BY <2>2, <2>3
<1>15. Quiet'
  <2>1. \A q \in DOMAIN head, s \in Rows : deleted'[q][s] => deleted[q][s]
      BY <1>8
  <2> QED  BY <1>1, <1>2, <1>6, <1>7, <2>1, QuietSame
<1>16. Whole'
  <2> SUFFICES ASSUME NEW q \in DOMAIN head PROVE HasList(q)'
      BY <1>7 DEF Whole
  <2>0. HasList(q)
      BY DEF IInv, Whole
  <2>1. \A t : Pushed(q, t)' <=> Pushed(q, t)
      BY <1>6 DEF Pushed, Others, Page, PopHead
  <2>2. CASE q # p
    <3>1. Listed(q)' = Listed(q)
        BY <1>8, <2>1, <2>2 DEF Listed
    <3> QED
        BY <1>6, <1>7, <2>0, <2>2, <3>1, ListKept
  <2>3. CASE q = p
    <3>1. Listed(q)' = Listed(p) \ {r}
        BY <1>2, <1>8, <2>1, <2>3 DEF Listed
    <3>2. PICK l \in Bijection(1 .. c, Listed(p)) : IsTrashList(l, p)
        BY <2>0, <2>3 DEF HasList
    <3>3. /\ head[p].trashstart = IF 1 <= c THEN l[1] ELSE NoRow
          /\ \A j \in 1 .. c : content[p][l[j]] = IF j + 1 <= c THEN l[j + 1] ELSE NoRow
        BY <3>2 DEF IsTrashList
    <3>4. l[1] = r
        BY <1>2, <1>4, <3>3
    <3>5. PICK m \in Bijection(1 .. c - 1, Listed(p) \ {r}) : m = [i \in 1 .. c - 1 |-> l[i + 1]]
        BY <1>4, <3>2, <3>4, Behead
    <3>6. \A i \in 1 .. c - 1 : m[i] = l[i + 1]
        BY <3>5
    <3>7. IsTrashList(m, q)'
      <4>1. head'[p].trashstart = IF 1 <= c - 1 THEN m[1] ELSE NoRow
        <5>1. next[w] = IF 1 + 1 <= c THEN l[1 + 1] ELSE NoRow
          <6>1. 1 \in 1 .. c
              BY <1>4
          <6>2. content[p][l[1]] = IF 1 + 1 <= c THEN l[1 + 1] ELSE NoRow
              BY <3>3, <6>1
          <6> QED  BY <1>2, <3>4, <6>2
        <5>2. 1 + 1 <= c => m[1] = l[1 + 1]
            BY <1>4, <3>6
        <5> QED  BY <1>4, <1>7, <5>1, <5>2
      <4>2. ASSUME NEW i \in 1 .. c - 1
            PROVE  content'[p][m[i]] = IF i + 1 <= c - 1 THEN m[i + 1] ELSE NoRow
        <5>1. i + 1 \in 1 .. c /\ m[i] = l[i + 1]
            BY <1>4, <3>6
        <5>2. content'[p][m[i]] = IF (i + 1) + 1 <= c THEN l[(i + 1) + 1] ELSE NoRow
            BY <1>6, <3>3, <5>1
        <5>3. i + 1 <= c - 1 => m[i + 1] = l[(i + 1) + 1]
            BY <1>4, <3>6
        <5> QED  BY <1>4, <5>2, <5>3
      <4> QED  BY <1>7, <2>3, <4>1, <4>2 DEF IsTrashList
    <3> QED  BY <1>7, <2>3, <3>1, <3>5, <3>7 DEF HasList
  <2> QED  BY <2>2, <2>3
<1> QED
    BY <1>5, <1>9, <1>10, <1>11, <1>13, <1>14, <1>15, <1>16 DEF IInv, Quiet
-----------------------------------------------------------------------------
(* New pages *)

\* The list of a new page: its rows in order
LEMMA NewList ==
    [i \in 1 .. objectsperpage |-> i - 1] \in Bijection(1 .. objectsperpage, Rows)
<1> DEFINE m == [i \in 1 .. objectsperpage |-> i - 1]
<1>1. objectsperpage \in Nat \ {0}
    BY Sizes
<1>2. m \in [1 .. objectsperpage -> Rows] /\ \A i \in 1 .. objectsperpage : m[i] = i - 1
    BY <1>1 DEF Rows
<1> HIDE DEF m
<1>3. \A i, j \in 1 .. objectsperpage : m[i] = m[j] => i = j
    BY <1>1, <1>2
<1>4. ASSUME NEW t \in Rows PROVE \E i \in 1 .. objectsperpage : m[i] = t
  <2>1. t + 1 \in 1 .. objectsperpage /\ (t + 1) - 1 = t
      BY <1>1 DEF Rows
  <2> QED  BY <1>2, <2>1
<1>5. m \in Bijection(1 .. objectsperpage, Rows)
    BY <1>2, <1>3, <1>4 DEF Bijection, Injection, Surjection, IsInjective
<1> QED
    BY <1>5 DEF m

LEMMA NewPageList ==
    \E m \in Bijection(1 .. objectsperpage, Rows) :
      /\ 0 = IF 1 <= objectsperpage THEN m[1] ELSE NoRow
      /\ \A i \in 1 .. objectsperpage :
           NewContent[m[i]] = IF i + 1 <= objectsperpage THEN m[i + 1] ELSE NoRow
<1>1. PICK m \in Bijection(1 .. objectsperpage, Rows) : m = [i \in 1 .. objectsperpage |-> i - 1]
    BY NewList
<1>2. objectsperpage \in Nat \ {0}
    BY Sizes
<1>3. \A i \in 1 .. objectsperpage : m[i] = i - 1
    BY <1>1
<1>4. 0 = IF 1 <= objectsperpage THEN m[1] ELSE NoRow
    BY <1>2, <1>3
<1>5. ASSUME NEW i \in 1 .. objectsperpage
      PROVE  NewContent[m[i]] = IF i + 1 <= objectsperpage THEN m[i + 1] ELSE NoRow
  <2>1. i - 1 \in Rows
      BY <1>2 DEF Rows
  <2>2. NewContent[i - 1] = IF (i - 1) + 1 = objectsperpage THEN NoRow ELSE (i - 1) + 1
      BY <2>1 DEF NewContent
  <2>3. i + 1 <= objectsperpage => m[i + 1] = (i + 1) - 1
      BY <1>2, <1>3
  <2> QED  BY <1>2, <1>3, <2>2, <2>3
<1> QED
    BY <1>1, <1>4, <1>5

\* What edba_u_initobj_pages writes is a page's head.
LEMMA CreatedHeads ==
    ASSUME NEW i \in 1 .. lookupsperpage, NEW p \in Strait(NewPids[i])
    PROVE  LET n == NewPids[i] IN
           /\ Created(n)[p] \in PageHead
           /\ Created(n)[p].trashstart = 0 /\ Created(n)[p].trashc = objectsperpage
           /\ Created(n)[p].trashvor \in Strait(n) \cup {0}
           /\ Created(n)[p].pright = IF p = n + straitc - 1 THEN 0 ELSE p + 1
<1> DEFINE n == NewPids[i]
           v == IF p = n THEN 0 ELSE p - 1
           t == IF p = n + straitc - 1 THEN 0 ELSE p + 1
<1>1. n \in Nat \ {0} /\ straitc \in Nat \ {0} /\ objectsperpage \in Nat \ {0}
    BY Sizes
<1>2. p \in Nat /\ v \in Nat /\ t \in Nat /\ v \in Strait(n) \cup {0}
    BY <1>1 DEF Strait
<1>3. Created(n)[p] = [trashstart |-> 0, trashc |-> objectsperpage, trashvor |-> v, pright |-> t]
    BY DEF Created, NewHead
<1>4. 0 \in Rows
    BY <1>1 DEF Rows
<1> HIDE DEF v, t
<1>5. /\ Created(n)[p] \in PageHead
      /\ Created(n)[p].trashstart = 0 /\ Created(n)[p].trashc = objectsperpage
      /\ Created(n)[p].trashvor = v /\ Created(n)[p].pright = t
    BY <1>1, <1>2, <1>3, <1>4 DEF PageHead
<1> QED
    BY <1>2, <1>5 DEF t

\* The last page of a strait
LEMMA StraitEnd ==
    ASSUME NEW i \in 1 .. lookupsperpage
    PROVE  /\ NewPids[i] + straitc - 1 \in Strait(NewPids[i])
           /\ NewPids[i] + straitc - 1 \in Nat \ {0}
BY Sizes DEF Strait

\* What Reference does to the pages
LEMMA ReferencePages ==
    ASSUME IInv, NEW w \in Workers, Reference(w)
    PROVE  LET N == Len(refs) + 1
               n == NewPids[N]
           IN  /\ N \in 1 .. lookupsperpage /\ Page(w) \in DOMAIN head
               /\ Strait(n) \cap DOMAIN head = {}
               /\ DOMAIN head' = DOMAIN head \cup Strait(n)
               /\ head' = [p \in DOMAIN head' |-> head'[p]]
               /\ \A p \in Strait(n) : /\ head'[p] = Created(n)[p]
                                       /\ deleted'[p] = [r \in Rows |-> TRUE]
                                       /\ content'[p] = NewContent
               /\ \A p \in DOMAIN head :
                    /\ deleted'[p] = deleted[p] /\ content'[p] = content[p]
                    /\ p # Page(w) => head'[p] = head[p]
               /\ head'[Page(w)] = [head[Page(w)] EXCEPT !.pright = n]
               /\ deleted' = [p \in DOMAIN head' |-> deleted'[p]]
               /\ content' = [p \in DOMAIN head' |-> content'[p]]
<1> DEFINE N == Len(refs) + 1
           n == NewPids[N]
           old == [head EXCEPT ![Page(w)].pright = n]
<1>1. Typed /\ Linked /\ Place(w)
    BY Known
<1>2. N \in 1 .. lookupsperpage /\ Len(refs) \in Nat
    BY <1>1, Straits, Sizes DEF Reference
<1>3. Page(w) \in DOMAIN head
    BY <1>1 DEF Place, Reference
<1>4. Strait(n) \cap DOMAIN head = {}
  <2>1. ASSUME NEW p \in DOMAIN head PROVE p \notin Strait(n)
    <3>1. PICK i \in 1 .. Len(refs) : p \in Strait(NewPids[i])
        BY <1>1 DEF Linked
    <3>2. i \in 1 .. lookupsperpage /\ i # N
        BY <1>1, <1>2, Straits
    <3> QED  BY <1>2, <3>1, <3>2, StraitsApart
  <2> QED  BY <2>1
<1>5. /\ head' = Overlay(Created(n), old)
      /\ deleted' = Overlay([p \in Strait(n) |-> [r \in Rows |-> TRUE]], deleted)
      /\ content' = Overlay([p \in Strait(n) |-> NewContent], content)
    BY DEF Reference
<1>6. DOMAIN deleted = DOMAIN head /\ DOMAIN content = DOMAIN head
    BY <1>1 DEF Typed
<1>7. DOMAIN old = DOMAIN head /\ DOMAIN Created(n) = Strait(n)
    BY DEF Created
<1>8. /\ \A p \in DOMAIN head : p # Page(w) => old[p] = head[p]
      /\ old[Page(w)] = [head[Page(w)] EXCEPT !.pright = n]
    BY <1>3
<1> HIDE DEF old, n
<1>9. /\ DOMAIN head' = DOMAIN head \cup Strait(n) /\ head' = [p \in DOMAIN head' |-> head'[p]]
      /\ \A p \in Strait(n) : head'[p] = Created(n)[p]
      /\ \A p \in DOMAIN head : head'[p] = old[p]
    BY <1>4, <1>5, <1>7 DEF Overlay
<1>10. /\ deleted' = [p \in DOMAIN head' |-> deleted'[p]]
       /\ \A p \in Strait(n) : deleted'[p] = [r \in Rows |-> TRUE]
       /\ \A p \in DOMAIN head : deleted'[p] = deleted[p]
    BY <1>4, <1>5, <1>6, <1>9 DEF Overlay
<1>11. /\ content' = [p \in DOMAIN head' |-> content'[p]]
       /\ \A p \in Strait(n) : content'[p] = NewContent
       /\ \A p \in DOMAIN head : content'[p] = content[p]
    BY <1>4, <1>5, <1>6, <1>9 DEF Overlay
<1> QED
    BY <1>2, <1>3, <1>4, <1>8, <1>9, <1>10, <1>11 DEF n

LEMMA ReferenceLinks ==
    ASSUME IInv, NEW w \in Workers, Reference(w)
    PROVE  Linked'
<1> DEFINE c == Len(refs)
           N == Len(refs) + 1
           n == NewPids[N]
<1>1. Typed /\ Linked /\ Place(w)
    BY Known
<1>2. /\ N \in 1 .. lookupsperpage /\ Page(w) \in DOMAIN head
      /\ Strait(n) \cap DOMAIN head = {}
      /\ DOMAIN head' = DOMAIN head \cup Strait(n)
      /\ \A p \in Strait(n) : head'[p] = Created(n)[p]
      /\ \A p \in DOMAIN head : p # Page(w) => head'[p] = head[p]
      /\ head'[Page(w)] = [head[Page(w)] EXCEPT !.pright = n]
    BY ReferencePages
<1>3. c \in Nat \ {0} /\ straitc \in Nat \ {0} /\ ref0c = c * straitc /\ c * straitc \in Int
    BY <1>1, Straits, Sizes, Times DEF Linked
<1>4. Page(w) = NewPids[c] + (straitc - 1) /\ c \in 1 .. lookupsperpage
    BY <1>1, <1>3, LastPageIs, Straits DEF Place, Reference
<1>5. N * straitc = c * straitc + straitc
    BY <1>3, Times
<1>6. /\ refs' = Append(refs, [ref |-> n, end |-> ref0c + straitc - 1])
      /\ ref0c' = ref0c + straitc
    BY DEF Reference
<1>7. /\ Len(refs') = N
      /\ \A i \in 1 .. c : refs'[i] = refs[i]
      /\ refs'[N] = [ref |-> n, end |-> ref0c + straitc - 1]
    BY <1>1, <1>3, <1>6 DEF Typed
<1>8. \A i \in 1 .. N : refs'[i] = [ref |-> NewPids[i], end |-> i * straitc - 1]
  <2> SUFFICES ASSUME NEW i \in 1 .. N
               PROVE  refs'[i] = [ref |-> NewPids[i], end |-> i * straitc - 1]
      OBVIOUS
  <2>1. CASE i \in 1 .. c
    <3>1. refs[i] = [ref |-> NewPids[i], end |-> i * straitc - 1]
        BY <1>1, <2>1 DEF Linked
    <3> QED  BY <1>7, <2>1, <3>1
  <2>2. CASE i = N
    <3>1. ref0c + straitc - 1 = N * straitc - 1
        BY <1>3, <1>5
    <3> QED  BY <1>7, <2>2, <3>1
  <2> QED  BY <1>3, <2>1, <2>2
<1>9. ref0c' = N * straitc
    BY <1>3, <1>5, <1>6
<1>10. \A p : p \in DOMAIN head' <=> \E i \in 1 .. N : p \in Strait(NewPids[i])
  <2> SUFFICES ASSUME NEW p
               PROVE  p \in DOMAIN head' <=> \E i \in 1 .. N : p \in Strait(NewPids[i])
      OBVIOUS
  <2>1. p \in DOMAIN head <=> \E i \in 1 .. c : p \in Strait(NewPids[i])
      BY <1>1 DEF Linked
  <2>2. \A i : i \in 1 .. N <=> i \in 1 .. c \/ i = N
      BY <1>3
  <2> QED  BY <1>2, <2>1, <2>2
<1>11. ASSUME NEW i \in 1 .. N, NEW k \in 0 .. straitc - 1
       PROVE  head'[NewPids[i] + k].pright = After(i, k, N)
  <2> DEFINE q == NewPids[i] + k
  <2>1. i \in 1 .. lookupsperpage
      BY <1>2, <1>3, Sizes
  <2>2. q \in Strait(NewPids[i]) /\ NewPids[i] \in Nat
      BY <2>1, StraitPage
  <2>3. CASE i = N
    <3>1. head'[q].pright = IF q = n + straitc - 1 THEN 0 ELSE q + 1
        BY <1>2, <2>2, <2>3, CreatedHeads
    <3>2. q = n + k /\ n \in Nat
        BY <2>2, <2>3
    <3> HIDE DEF q, n
    <3>3. head'[q].pright = IF k < straitc - 1 THEN n + (k + 1) ELSE 0
        BY <1>3, <3>1, <3>2
    <3> QED  BY <1>3, <2>3, <3>3 DEF After, n, q
  <2>4. CASE i \in 1 .. c
    <3>1. q \in DOMAIN head /\ head[q].pright = After(i, k, c)
        BY <1>1, <2>4, PageIn DEF Linked
    <3>2. CASE i = c /\ k = straitc - 1
      <4>1. q = Page(w)
          BY <1>4, <3>2
      <4>2. head[Page(w)] \in PageHead
          BY <1>1, <1>2 DEF Typed
      <4>3. head'[q].pright = n
          BY <1>2, <4>1, <4>2 DEF PageHead
      <4> QED  BY <1>3, <3>2, <4>3 DEF After
    <3>3. CASE ~(i = c /\ k = straitc - 1)
      <4>1. q # Page(w)
        <5>1. CASE i = c
            BY <1>3, <1>4, <2>2, <3>3, <5>1
        <5>2. CASE i # c
          <6>1. NewPids[c] + (straitc - 1) \in Strait(NewPids[c])
              BY <1>3, <1>4, StraitPage
          <6> QED  BY <1>4, <2>1, <2>2, <5>2, <6>1, StraitsApart
        <5> QED  BY <5>1, <5>2
      <4>2. head'[q].pright = After(i, k, c)
          BY <1>2, <3>1, <4>1
      <4> QED  BY <1>3, <2>4, <3>3, <4>2 DEF After
    <3> QED  BY <3>2, <3>3
  <2> QED  BY <1>3, <2>3, <2>4
<1> QED
    BY <1>2, <1>7, <1>8, <1>9, <1>10, <1>11 DEF Linked

LEMMA ReferenceKeeps ==
    ASSUME IInv, NEW w \in Workers, Reference(w)
    PROVE  IInv'
<1> DEFINE N == Len(refs) + 1
           n == NewPids[N]
           last == n + straitc - 1
           j == [job[w] EXCEPT !.page = last]
<1>1. Typed /\ Linked /\ Exclusive /\ Quiet /\ Place(w) /\ RowState(w) /\ job[w] \in Job
    BY Known, JobSame
<1>2. /\ N \in 1 .. lookupsperpage /\ Page(w) \in DOMAIN head
      /\ Strait(n) \cap DOMAIN head = {}
      /\ DOMAIN head' = DOMAIN head \cup Strait(n)
      /\ head' = [p \in DOMAIN head' |-> head'[p]]
      /\ \A p \in Strait(n) : /\ head'[p] = Created(n)[p]
                              /\ deleted'[p] = [r \in Rows |-> TRUE]
                              /\ content'[p] = NewContent
      /\ \A p \in DOMAIN head :
           /\ deleted'[p] = deleted[p] /\ content'[p] = content[p]
           /\ p # Page(w) => head'[p] = head[p]
      /\ head'[Page(w)] = [head[Page(w)] EXCEPT !.pright = n]
      /\ deleted' = [p \in DOMAIN head' |-> deleted'[p]]
      /\ content' = [p \in DOMAIN head' |-> content'[p]]
    BY ReferencePages
<1>3. Linked'
    BY ReferenceLinks
<1>4. Exclusive' /\ Keeps(w, {LREF0C})
    BY <1>1, LockDrop DEF Reference
<1>5. /\ job[w].kind = "alloc" /\ Holds(w, LREF0C, "XL") /\ last \in Strait(n) /\ last \in Nat \ {0}
      /\ n \in Nat
    BY <1>1, <1>2, StraitEnd, StraitPage DEF Place, Reference, AllocPcs
<1>6. job' = [job EXCEPT ![w] = j] /\ Goto(w, "trashoff") /\ trashlast' = last
    BY <1>5 DEF Reference, SeekTo
<1> HIDE DEF N, n, last
<1>7. j \in Job /\ j.kind = "alloc" /\ j.page = last
    BY <1>1, <1>5 DEF Job
<1> HIDE DEF j
<1>8. /\ job' \in [Workers -> Job] /\ job'[w] = j /\ Page(w)' = last /\ Others(w)
      /\ pc' \in [Workers -> Pcs] /\ pc'[w] = "trashoff"
    BY <1>1, <1>6, <1>7 DEF Reference, Typed, Goto, Others, Pcs, Page, Job
<1>9. \A p \in DOMAIN head : /\ head'[p] \in PageHead
                             /\ head'[p].trashstart = head[p].trashstart
                             /\ head'[p].trashc = head[p].trashc
                             /\ head'[p].trashvor = head[p].trashvor
  <2> SUFFICES ASSUME NEW p \in DOMAIN head
               PROVE  /\ head'[p] \in PageHead /\ head'[p].trashstart = head[p].trashstart
                      /\ head'[p].trashc = head[p].trashc /\ head'[p].trashvor = head[p].trashvor
      OBVIOUS
  <2>1. head[p] \in PageHead
      BY <1>1 DEF Typed
  <2>2. CASE p # Page(w)
      BY <1>2, <2>1, <2>2
  <2>3. CASE p = Page(w)
    <3>1. head'[Page(w)] = [head[Page(w)] EXCEPT !.pright = n]
        BY <1>2, Zenon
    <3> QED  BY <1>5, <2>1, <2>3, <3>1 DEF PageHead
  <2> QED  BY <2>2, <2>3
<1>10. \A p \in Strait(n) : /\ head'[p] \in PageHead
                            /\ head'[p].trashstart = 0 /\ head'[p].trashc = objectsperpage
                            /\ head'[p].trashvor \in Strait(n) \cup {0}
    BY <1>2, CreatedHeads DEF n
<1>11. Typed'
  <2>1. head' \in [DOMAIN head' -> PageHead]
      BY <1>2, <1>9, <1>10
  <2>2. deleted' \in [DOMAIN head' -> [Rows -> BOOLEAN]]
    <3>1. \A p \in DOMAIN head : deleted'[p] \in [Rows -> BOOLEAN]
        BY <1>1, <1>2 DEF Typed
    <3>2. \A p \in Strait(n) : deleted'[p] \in [Rows -> BOOLEAN]
      <4>1. [r \in Rows |-> TRUE] \in [Rows -> BOOLEAN]
          OBVIOUS
      <4> QED  BY <1>2, <4>1, Zenon
    <3> QED  BY <1>2, <3>1, <3>2
  <2>3. content' \in [DOMAIN head' -> [Rows -> Rows \cup {NoRow, Data}]]
    <3>1. \A p \in DOMAIN head : content'[p] \in [Rows -> Rows \cup {NoRow, Data}]
        BY <1>1, <1>2 DEF Typed
    <3>2. NewContent \in [Rows -> Rows \cup {NoRow, Data}]
        BY Sizes DEF NewContent, Rows
    <3> QED  BY <1>2, <3>1, <3>2
  <2>4. refs' \in Seq([ref : Nat, end : Nat])
    <3>1. ref0c + straitc - 1 \in Nat
      <4>1. Len(refs) \in Nat /\ straitc \in Nat \ {0} /\ ref0c = Len(refs) * straitc
          BY <1>1, Straits, Sizes DEF Linked
      <4>2. 0 * straitc <= Len(refs) * straitc /\ Len(refs) * straitc \in Int /\ 0 * straitc = 0
          BY <4>1, Times
      <4> QED  BY <4>1, <4>2
    <3>2. [ref |-> n, end |-> ref0c + straitc - 1] \in [ref : Nat, end : Nat]
        BY <1>5, <3>1
    <3> QED  BY <1>1, <3>2 DEF Typed, Reference, n, N
  <2>5. held' = [v \in Workers |-> held'[v]]
      BY <1>4 DEF Keeps
  <2>6. trashlast' \in DOMAIN head' \cup {0}
      BY <1>2, <1>5, <1>6
  <2>7. \A p \in DOMAIN head' : head'[p].trashvor \in DOMAIN head' \cup {0}
    <3>1. \A p \in DOMAIN head : head[p].trashvor \in DOMAIN head \cup {0}
        BY <1>1 DEF Typed
    <3> QED  BY <1>2, <1>9, <1>10, <3>1
  <2>8. next' \in [Workers -> Rows \cup {NoRow, Data}] /\ opened' \in [Workers -> BOOLEAN]
      BY <1>1 DEF Typed, Reference
  <2> QED
      BY <1>8, <2>1, <2>2, <2>3, <2>4, <2>5, <2>6, <2>7, <2>8 DEF Typed, Job
<1>12. Place(w)' /\ RowState(w)'
    BY <1>2, <1>5, <1>7, <1>8 DEF Place, RowState, RowPcs, AllocPcs, FreePcs
<1>13. ASSUME NEW v \in Workers \ {w}
       PROVE  Place(v)' /\ RowState(v)'
  <2>1. Place(v) /\ RowState(v)
      BY DEF IInv
  <2>2. ~Holds(v, LREF0C, "XL")
      BY <1>1, <1>5, Alone
  <2>3. Place(v)'
      BY <1>2, <1>4, <1>8, <2>1, <2>2, OtherPlace
  <2>4. CASE pc[v] \notin {"row", "use", "trash", "link", "push", "pop", "created"}
    <3>1. RowState(v)'
        BY <1>8, <2>4 DEF RowState, Others
    <3> QED  BY <2>3, <3>1
  <2>5. CASE pc[v] \in {"row", "use", "trash", "link", "push", "pop", "created"}
    <3>1. Page(v) \in DOMAIN head
        BY <2>1, <2>5 DEF Place
    <3>2. RowState(v)'
        BY <1>2, <1>8, <1>9, <2>1, <3>1, RowStateKept
    <3> QED  BY <2>3, <3>2
  <2> QED  BY <2>4, <2>5
<1>14. CreatedApart'
    BY <1>8 DEF IInv, CreatedApart, Others, Page
<1>15. Quiet'
  <2>1. Allocating' => Allocating
      BY <1>5 DEF Allocating
  <2>2. Racing' => Racing
    <3>1. SUFFICES ASSUME Racing' PROVE Racing
        OBVIOUS
    <3>2. \A p, r : \A v \in JobsOn(p, r)' :
            /\ v \in JobsOn(p, r) /\ v \in Workers /\ job'[v] = job[v] /\ pc'[v] = pc[v]
            /\ p \in DOMAIN head
      <4> SUFFICES ASSUME NEW p, NEW r, NEW v \in JobsOn(p, r)'
                   PROVE  /\ v \in JobsOn(p, r) /\ v \in Workers /\ job'[v] = job[v]
                          /\ pc'[v] = pc[v] /\ p \in DOMAIN head
          OBVIOUS
      <4>1. v \in Workers \ {w}
          BY <1>7, <1>8 DEF JobsOn
      <4>2. job'[v] = job[v] /\ pc'[v] = pc[v] /\ v \in JobsOn(p, r)
          BY <1>8, <4>1 DEF Others, JobsOn
      <4>3. Place(v) /\ job[v].kind \in {"read", "write", "free"} /\ job[v].page = p
          BY <4>1, <4>2 DEF IInv, JobsOn
      <4>4. p \in DOMAIN head
          BY <4>3 DEF Place, RowPcs, Page
      <4> QED  BY <4>1, <4>2, <4>4
    <3>3. PICK p \in DOMAIN head', r \in Rows : \E v \in JobsOn(p, r)' :
             \/ deleted'[p][r] /\ pc'[v] = "row"
             \/ \E u \in JobsOn(p, r)' \ {v} : "free" \in {job'[u].kind, job'[v].kind}
        BY <3>1 DEF Racing
    <3>4. PICK v \in JobsOn(p, r)' :
             \/ deleted'[p][r] /\ pc'[v] = "row"
             \/ \E u \in JobsOn(p, r)' \ {v} : "free" \in {job'[u].kind, job'[v].kind}
        BY <3>3
    <3>5. p \in DOMAIN head /\ deleted'[p] = deleted[p]
        BY <1>2, <3>2
    <3>6. \/ deleted[p][r] /\ pc[v] = "row"
          \/ \E u \in JobsOn(p, r) \ {v} : "free" \in {job[u].kind, job[v].kind}
        BY <3>2, <3>4, <3>5
    <3> QED  BY <3>2, <3>5, <3>6 DEF Racing
  <2> QED  BY <1>1, <2>1, <2>2 DEF Quiet
<1>16. Whole'
  <2> SUFFICES ASSUME NEW q \in DOMAIN head' PROVE HasList(q)'
      BY DEF Whole
  <2>1. \A t : Pushed(q, t)' <=> Pushed(q, t)
      BY <1>8 DEF Pushed, Others, Page, Reference
  <2>2. CASE q \in DOMAIN head
    <3>1. Listed(q)' = Listed(q)
        BY <1>2, <2>1, <2>2 DEF Listed
    <3>2. HasList(q)
        BY <2>2 DEF IInv, Whole
    <3> QED
        BY <1>2, <1>9, <2>2, <3>1, <3>2, ListKept
  <2>3. CASE q \in Strait(n)
    <3>1. \A t : ~Pushed(q, t)
      <4>1. ASSUME NEW v \in Workers, pc[v] = "push" PROVE Page(v) # q
        <5>1. Page(v) \in DOMAIN head
            BY <4>1 DEF IInv, Place
        <5> QED  BY <1>2, <2>3, <5>1
      <4> QED  BY <4>1 DEF Pushed
    <3>2. Listed(q)' = Rows
        BY <1>2, <2>1, <2>3, <3>1 DEF Listed
    <3>3. head'[q].trashstart = 0 /\ head'[q].trashc = objectsperpage /\ content'[q] = NewContent
        BY <1>2, <1>10, <2>3
    <3> QED  BY <3>2, <3>3, NewPageList DEF HasList, IsTrashList
  <2> QED  BY <1>2, <2>2, <2>3
<1> QED
    BY <1>3, <1>4, <1>11, <1>12, <1>13, <1>14, <1>15, <1>16 DEF IInv, Quiet
-----------------------------------------------------------------------------
(* The theorems *)

LEMMA InitIInv == Init => IInv
<1> SUFFICES ASSUME Init PROVE IInv
    OBVIOUS
<1> DEFINE first == NewPids[1]
           last  == first + straitc - 1
<1>1. /\ first \in Nat \ {0} /\ straitc \in Nat \ {0} /\ objectsperpage \in Nat \ {0}
      /\ 1 \in 1 .. lookupsperpage /\ last \in Nat
    BY Sizes
<1>2. PICK k \in 0 .. straitc :
             /\ trashlast = IF k = 0 THEN last ELSE last - k + 1
             /\ head = [p \in Strait(first) |->
                          IF p > last - k THEN [Created(first)[p] EXCEPT
                                                  !.trashstart = NoRow, !.trashc = 0,
                                                  !.trashvor = IF p = trashlast THEN @ ELSE 0]
                                          ELSE Created(first)[p]]
             /\ deleted = [p \in Strait(first) |-> [r \in Rows |-> ~(p > last - k)]]
             /\ content = [p \in Strait(first) |->
                             IF p > last - k THEN [r \in Rows |-> Data] ELSE NewContent]
    BY DEF Init
<1>3. DOMAIN head = Strait(first)
    BY <1>2
<1>4. \A p \in Strait(first) : LET h == Created(first)[p] IN
        /\ h \in PageHead /\ h.trashstart = 0 /\ h.trashc = objectsperpage
        /\ h.trashvor \in Strait(first) \cup {0}
        /\ h.pright = IF p = last THEN 0 ELSE p + 1
    BY <1>1, CreatedHeads
<1>5. ASSUME NEW p \in Strait(first)
      PROVE  /\ head[p] \in PageHead /\ head[p].trashvor \in Strait(first) \cup {0}
             /\ head[p].pright = IF p = last THEN 0 ELSE p + 1
             /\ deleted[p] \in [Rows -> BOOLEAN]
             /\ content[p] \in [Rows -> Rows \cup {NoRow, Data}]
             /\ p > last - k => head[p].trashstart = NoRow /\ head[p].trashc = 0
                                /\ \A r \in Rows : ~deleted[p][r]
             /\ ~(p > last - k) => head[p].trashstart = 0 /\ head[p].trashc = objectsperpage
                                   /\ content[p] = NewContent /\ \A r \in Rows : deleted[p][r]
  <2> DEFINE h == Created(first)[p]
  <2>1. /\ h \in PageHead /\ h.trashstart = 0 /\ h.trashc = objectsperpage
        /\ h.trashvor \in Strait(first) \cup {0} /\ h.pright = IF p = last THEN 0 ELSE p + 1
      BY <1>4
  <2>2. /\ deleted[p] = [r \in Rows |-> ~(p > last - k)]
        /\ content[p] = IF p > last - k THEN [r \in Rows |-> Data] ELSE NewContent
      BY <1>2
  <2>3. NewContent \in [Rows -> Rows \cup {NoRow, Data}]
      BY <1>1 DEF NewContent, Rows
  <2>4. CASE p > last - k
    <3> DEFINE v == IF p = trashlast THEN h.trashvor ELSE 0
    <3>1. head[p] = [h EXCEPT !.trashstart = NoRow, !.trashc = 0, !.trashvor = v]
        BY <1>2, <2>4
    <3>2. v \in Strait(first) \cup {0} /\ v \in Nat
        BY <1>1, <2>1 DEF Strait
    <3> HIDE DEF h, v
    <3>3. /\ head[p] \in PageHead /\ head[p].trashvor = v /\ head[p].pright = h.pright
          /\ head[p].trashstart = NoRow /\ head[p].trashc = 0
      <4>1. /\ head[p].trashvor = v /\ head[p].pright = h.pright
            /\ head[p].trashstart = NoRow /\ head[p].trashc = 0
          BY <2>1, <3>1 DEF PageHead
      <4>2. head[p] \in PageHead
        <5>1. head[p] = [trashstart |-> NoRow, trashc |-> 0, trashvor |-> v, pright |-> h.pright]
            BY <2>1, <3>1 DEF PageHead
        <5>2. h.pright \in Nat
            BY <2>1 DEF PageHead
        <5> QED  BY <3>2, <5>1, <5>2 DEF PageHead
      <4> QED  BY <4>1, <4>2
    <3> QED  BY <2>1, <2>2, <2>4, <3>2, <3>3
  <2>5. CASE ~(p > last - k)
    <3>1. head[p] = h
        BY <1>2, <2>5
    <3> HIDE DEF h
    <3> QED  BY <2>1, <2>2, <2>3, <2>5, <3>1
  <2> QED  BY <2>4, <2>5
<1>6. \A w \in Workers : /\ pc[w] = "idle" /\ job[w] = NoJob /\ held[w] = <<>>
    BY DEF Init
<1>7. Typed
  <2>1. head \in [DOMAIN head -> PageHead]
    <3>1. head = [p \in Strait(first) |-> head[p]]
        BY <1>2
    <3> QED  BY <1>3, <1>5, <3>1
  <2>2. deleted \in [DOMAIN head -> [Rows -> BOOLEAN]]
    <3>1. deleted = [p \in Strait(first) |-> deleted[p]]
        BY <1>2
    <3> QED  BY <1>3, <1>5, <3>1
  <2>3. content \in [DOMAIN head -> [Rows -> Rows \cup {NoRow, Data}]]
    <3>1. content = [p \in Strait(first) |-> content[p]]
        BY <1>2
    <3> QED  BY <1>3, <1>5, <3>1
  <2>4. refs \in Seq([ref : Nat, end : Nat])
    <3>1. [ref |-> first, end |-> straitc - 1] \in [ref : Nat, end : Nat]
        BY <1>1
    <3>2. refs = <<[ref |-> first, end |-> straitc - 1]>>
        BY DEF Init
    <3> QED  BY <3>1, <3>2
  <2>5. trashlast \in Strait(first)
    <3>1. trashlast = IF k = 0 THEN last ELSE last - k + 1
        BY <1>2
    <3> QED  BY <1>1, <3>1 DEF Strait
  <2>6. job \in [Workers -> [kind : Kinds, page : Nat, row : Rows \cup {NoRow}]]
      BY DEF Init, NoJob, Kinds
  <2>7. /\ held = [w \in Workers |-> held[w]] /\ next \in [Workers -> Rows \cup {NoRow, Data}]
        /\ opened \in [Workers -> BOOLEAN] /\ pc \in [Workers -> Pcs]
      BY DEF Init, Pcs
  <2> QED
      BY <1>3, <1>5, <2>1, <2>2, <2>3, <2>4, <2>5, <2>6, <2>7 DEF Typed
<1>8. Linked
  <2>1. Len(refs) = 1 /\ refs[1] = [ref |-> first, end |-> straitc - 1] /\ ref0c = straitc
      BY DEF Init
  <2>2. 1 * straitc = straitc
      BY <1>1
  <2>3. \A i \in 1 .. 1 : refs[i] = [ref |-> NewPids[i], end |-> i * straitc - 1]
      BY <2>1, <2>2
  <2>4. \A p : p \in DOMAIN head <=> \E i \in 1 .. 1 : p \in Strait(NewPids[i])
      BY <1>3
  <2>5. ASSUME NEW i \in 1 .. 1, NEW m \in 0 .. straitc - 1
        PROVE  head[NewPids[i] + m].pright = After(i, m, 1)
    <3>1. i = 1 /\ first + m \in Strait(first)
        BY <1>1 DEF Strait
    <3>2. head[first + m].pright = IF first + m = last THEN 0 ELSE first + m + 1
        BY <1>5, <3>1
    <3> QED  BY <1>1, <3>1, <3>2 DEF After
  <2> QED
      BY <1>1, <2>1, <2>2, <2>3, <2>4, <2>5 DEF Linked
<1>9. Exclusive /\ CreatedApart /\ \A w \in Workers : Place(w) /\ RowState(w)
  <2>1. Exclusive
      BY <1>6 DEF Exclusive
  <2>2. CreatedApart
      BY <1>6 DEF CreatedApart
  <2> QED
      BY <1>6, <2>1, <2>2 DEF Place, RowState, NoJob, RowPcs, AllocPcs, FreePcs
<1>10. Allocating => ~Racing
    BY <1>6 DEF Allocating, NoJob
<1>11. Whole
  <2> SUFFICES ASSUME NEW p \in Strait(first) PROVE HasList(p)
      BY <1>3 DEF Whole
  <2>1. \A r : ~Pushed(p, r)
      BY <1>6 DEF Pushed
  <2>2. CASE p > last - k
    <3>1. Listed(p) = {} /\ head[p].trashc = 0 /\ head[p].trashstart = NoRow
        BY <1>5, <2>2 DEF Listed
    <3> DEFINE l == [i \in 1 .. 0 |-> 0]
    <3>2. l \in Bijection(1 .. 0, {})
        BY DEF Bijection, Injection, Surjection, IsInjective
    <3> QED  BY <3>1, <3>2 DEF HasList, IsTrashList
  <2>3. CASE ~(p > last - k)
    <3>1. /\ Listed(p) = Rows /\ head[p].trashc = objectsperpage /\ head[p].trashstart = 0
          /\ content[p] = NewContent
        BY <1>5, <2>1, <2>3 DEF Listed
    <3> QED  BY <3>1, NewPageList DEF HasList, IsTrashList
  <2> QED  BY <2>2, <2>3
<1> QED
    BY <1>7, <1>8, <1>9, <1>10, <1>11 DEF IInv

LEMMA NextIInv == IInv /\ [Next]_vars => IInv'
<1> SUFFICES ASSUME IInv, [Next]_vars PROVE IInv'
    OBVIOUS
<1>1. CASE UNCHANGED vars
  <2>1. ListsSame /\ UNCHANGED <<trashlast, head, deleted, content, ref0c, refs, held, opened, job, next, pc>>
      BY <1>1 DEF vars, trashvars, chapter, ListsSame
  <2>2. Typed'
      BY <2>1 DEF IInv, Typed
  <2>3. Linked' /\ LastPage' = LastPage
      BY <2>1, LinkedSame DEF IInv
  <2>4. Exclusive' /\ CreatedApart'
      BY <2>1 DEF IInv, Exclusive, CreatedApart, Page
  <2>5. \A w \in Workers : Place(w)'
      BY <2>1, <2>3 DEF IInv, Place, Holds, RowMode, Page
  <2>6. \A w \in Workers : RowState(w)'
      BY <2>1 DEF IInv, RowState, Page
  <2>7. (Allocating => ~Racing)'
      BY <2>1 DEF IInv, Allocating, Racing, JobsOn
  <2>8. \A p, r : Pushed(p, r)' <=> Pushed(p, r)
      BY <2>1 DEF Pushed, Page
  <2> QED
      BY <2>1, <2>2, <2>3, <2>4, <2>5, <2>6, <2>7, <2>8, WholeSame DEF IInv
<1>2. ASSUME NEW w \in Workers, Begin(w) PROVE IInv'
    BY <1>2, OpenKeeps, AllocKeeps, SelectKeeps DEF Begin, RowKinds
<1>3. ASSUME NEW w \in Workers, Step(w) PROVE IInv'
  <2>1. CASE LockRow(w) \/ UseRow(w) \/ CloseRow(w)
      BY <2>1, LockRowKeeps, UseRowKeeps, CloseRowKeeps
  <2>2. CASE DeleteLock(w) \/ LinkRow(w) \/ PushRow(w) \/ InCycle(w) \/ AddLock(w) \/ AddPage(w)
      BY <2>2, DeleteLockKeeps, LinkRowKeeps, PushRowKeeps, InCycleKeeps, AddLockKeeps, AddPageKeeps
  <2>3. CASE \/ AllocLock(w) \/ SeekLock(w) \/ TrashFault(w) \/ ReadHead(w) \/ PopHead(w)
             \/ FillRow(w)
      BY <2>3, AllocLockKeeps, SeekLockKeeps, TrashFaultKeeps, ReadHeadKeeps, PopHeadKeeps,
         FillRowKeeps
  <2>4. CASE GrowLock(w) \/ CreateFails(w) \/ LockLast(w) \/ LookupFull(w) \/ Reference(w)
      BY <2>4, GrowLockKeeps, CreateFailsKeeps, LockLastKeeps, LookupFullKeeps, ReferenceKeeps
  <2>5. CASE LockBody(w) \/ Advance(w) \/ ClosePage(w)
      BY <2>5, LockBodyKeeps, AdvanceKeeps, ClosePageKeeps
  <2> QED
      BY <1>3, <2>1, <2>2, <2>3, <2>4, <2>5 DEF Step
<1> QED
    BY <1>1, <1>2, <1>3 DEF Next

\* The invariant that carries the three results: locks exclude, the chapter is linked, every
\* worker has at each place of edba-objects.c the locks and the row the place calls for, and
\* every page's list is whole but for the row that edba_objectdelete has yet to push.
THEOREM Inductive == Spec => []IInv
BY InitIInv, NextIInv, PTL DEF Spec

\* However many workers allocate, free and use objects at once, a page's list of deleted
\* rows is whole whenever nobody holds LTRASHOFF: edba_objectdelete and edba_objectopenc
\* lose no row and list none twice.
THEOREM TrashStaysWhole == Spec => []TrashWhole
<1>1. IInv => TrashWhole
  <2> SUFFICES ASSUME IInv, NEW p \in DOMAIN head,
                      \A w \in Workers : LTRASHOFF(p) \notin DOMAIN held[w]
               PROVE  \E l \in Bijection(1 .. head[p].trashc, { r \in Rows : deleted[p][r] }) :
                        IsTrashList(l, p)
      BY DEF TrashWhole
  <2>1. \A r : ~Pushed(p, r)
    <3>1. ASSUME NEW w \in Workers, pc[w] = "push", Page(w) = p PROVE FALSE
      <4>1. Holds(w, LTRASHOFF(p), "XL")
          BY <3>1 DEF IInv, Place
      <4> QED  BY <4>1 DEF Holds
    <3> QED  BY <3>1 DEF Pushed
  <2>2. Listed(p) = { r \in Rows : deleted[p][r] }
      BY <2>1 DEF Listed
  <2> QED  BY <2>2 DEF IInv, Whole, HasList
<1> QED
    BY <1>1, Inductive, PTL

\* An object in use is an object, and a row that jalloc has taken is no other job's, though
\* edba_objectopenc never locks the row it takes: the lock on the list, the mark on the row
\* and the manners of the handles together keep everyone else away.
THEOREM RowsStayOwned == Spec => []RowsOwned
<1>1. IInv => RowsOwned
  <2> SUFFICES ASSUME IInv, NEW w \in Workers
               PROVE  /\ pc[w] = "use" => ~deleted[Page(w)][job[w].row]
                                          /\ content[Page(w)][job[w].row] = Data
                      /\ pc[w] = "created" =>
                           ~\E v \in Workers \ {w} :
                               /\ pc[v] \in {"row", "use", "trash", "link", "push", "pop", "created"}
                               /\ job[v].page = Page(w) /\ job[v].row = job[w].row
      BY DEF RowsOwned
  <2>1. Typed /\ Place(w) /\ RowState(w) /\ CreatedApart /\ Whole
      BY DEF IInv
  <2>2. ASSUME pc[w] = "created", NEW v \in Workers \ {w},
               pc[v] \in {"row", "use", "trash", "link", "push", "pop", "created"},
               Page(v) = Page(w), job[v].row = job[w].row
        PROVE  FALSE
    <3>1. /\ ~deleted[Page(w)][job[w].row] /\ content[Page(w)][job[w].row] # Data
          /\ Page(w) \in DOMAIN head /\ job[w].row \in Rows
        BY <2>1, <2>2 DEF RowState, Place
    <3>2. RowState(v)
        BY DEF IInv
    <3>3. pc[v] = "pop"
        BY <2>1, <2>2, <3>1, <3>2 DEF RowState, CreatedApart
    <3>4. head[Page(w)].trashstart = job[w].row /\ HasList(Page(w))
        BY <2>1, <2>2, <3>1, <3>2, <3>3 DEF RowState, Whole
    <3>5. job[w].row # NoRow
        BY <3>1, Sizes DEF Rows, NoRow
    <3>6. job[w].row \in Listed(Page(w))
        BY <2>1, <3>1, <3>4, <3>5, FirstListed
    <3> QED  BY <3>1, <3>6 DEF Listed
  <2> QED  BY <2>1, <2>2 DEF RowState, Page
<1> QED
    BY <1>1, Inductive, PTL

\* However often the chapter grows, and whatever order its straits have in the file, a select
\* along pright meets the pages that edba_u_lookup_rec finds, in the same order.
THEOREM ChapterStaysLinked == Spec => []ChapterLinked
<1>1. IInv => ChapterLinked
    BY LinkedOrder DEF IInv
<1> QED
    BY <1>1, Inductive, PTL
=============================================================================
