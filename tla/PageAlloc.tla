------------------------------ MODULE PageAlloc ------------------------------
(***************************************************************************)
(* Page allocation in a v0 file (liboidadb-alpha/edbd-adddel.c and the     *)
(* window of edbd_open, edbd.c): edbd_add recycles straits of deleted      *)
(* pages or grows the file, edbd_del remembers deleted straits in the      *)
(* garbage chapter, a doubly linked list of pages of references of which   *)
(* a window (delpagesv) is mapped.                                         *)
(*                                                                         *)
(* Both run under adddelmutex from end to end, so each call is one step.   *)
(* A strait never reaches UINT16_MAX pages (callers pass a uint8_t), so    *)
(* the expansion of an existing reference, which the code guards with      *)
(* that size, never happens.                                               *)
(***************************************************************************)
EXTENDS Integers, SequencesExt

CONSTANTS
    FirstPid,   \* pages before it hold the head, the index and the structures
    MaxPid,     \* bound: ftruncate fails beyond this page
    Refs,       \* refsperpage
    Window,     \* delpagesq
    Straits,    \* the counts of pages callers ask for
    MaxHeld     \* bound: pages callers hold at once

\* With a window of one page edbd_add reads pleft from a page it has just
\* unmapped; edbd_config_default has 8.
ASSUME PageAllocAssumption ==
    /\ FirstPid \in Nat \ {0}
    /\ MaxPid \in Nat /\ FirstPid <= MaxPid + 1
    /\ Refs \in Nat \ {0}
    /\ Window \in Nat \ {0, 1}
    /\ Straits \subseteq 1 .. 255
    /\ MaxHeld \in Nat

Pids == FirstPid .. MaxPid

VARIABLES
    eof,        \* the first page after the file
    trash,      \* garbage page -> its content (odb_spec_deleted and its refs)
    window,     \* delpagesv[0 .. delpagesc - 1]: the newest page first
    ent,        \* the index entry EDBD_EIDDELTED: ref0, ref0c, ref1
    user,       \* page -> how many callers believe it theirs
    zero,       \* pages still as ftruncate made them (a user's writes count when it
                \* deletes the page)
    junk        \* a written page has been put into the garbage chapter as if new

vars == <<eof, trash, window, ent, user, zero, junk>>

Strait(id, n) == id .. id + n - 1
-----------------------------------------------------------------------------
(* References *)

NullRef == [ref |-> 0, straitc |-> 0]
\* A page of zeros, as a page of the chapter
ZeroTrash ==
    [refs |-> [j \in 1 .. Refs |-> NullRef],
     refc |-> 0, pagesc |-> 0, largeststrait |-> 0, pleft |-> 0, pright |-> 0]

\* newlargeststrait, found in the loop over the refs
Largest(t, refs) == Max({ refs[j].straitc : j \in 1 .. Refs })

\* Mutant: the remainder keeps the start of the strait.
RestFromStart(r, n) ==
    IF r.straitc = n THEN NullRef ELSE [r EXCEPT !.straitc = @ - n]
\* What is left of a reference when n pages are taken from its start
Rest(r, n) ==
    IF r.straitc = n THEN NullRef
                     ELSE [ref |-> r.ref + n, straitc |-> r.straitc - n]

\* The refs of a page that n pages can be taken from
Fits(t, n) == { j \in 1 .. Refs : t.refs[j].ref # 0 /\ t.refs[j].straitc >= n }

\* n pages are taken from reference j.
Steal(t, j, n) ==
    LET refs == [t.refs EXCEPT ![j] = Rest(@, n)]
    IN  [t EXCEPT !.refs = refs,
                  !.pagesc = @ - n,
                  !.refc = IF refs[j] = NullRef THEN @ - 1 ELSE @,
                  !.largeststrait = Largest(t, refs)]

\* A deleted strait is put into reference j.
Put(t, j, id, n) ==
    [t EXCEPT !.refs[j] = [ref |-> id, straitc |-> n],
              !.refc = @ + 1,
              !.pagesc = @ + n,
              !.largeststrait = Max({@, n})]
-----------------------------------------------------------------------------
(* _edbd_add, on the allocator's state d = [eof, trash, window] *)

\* The window's pages, by index, that can give n pages
Givers(d, n) ==
    { i \in DOMAIN d.window :
        LET t == d.trash[d.window[i]] IN t.largeststrait >= n /\ Fits(t, n) # {} }

Recycle(d, n) ==
    LET p == d.window[Min(Givers(d, n))]
        j == Min(Fits(d.trash[p], n))
    IN  [d |-> [d EXCEPT !.trash[p] = Steal(@, j, n)],
         id |-> d.trash[p].refs[j].ref]

\* Mutant: the window moves whether its newest page is empty or not.
MayShift(d) == d.window # <<>> /\ d.trash[d.window[Len(d.window)]].pleft # 0
\* The newest page of the window is empty and there is an older one to its left.
CanShift(d) ==
    /\ d.window # <<>>
    /\ d.trash[d.window[Len(d.window)]].pleft # 0
    /\ d.trash[d.window[1]].refc = 0

ShiftLeft(d) ==
    IF CanShift(d)
    THEN [d EXCEPT !.window = Append(Tail(@), d.trash[@[Len(@)]].pleft)]
    ELSE d

\* The pages come from the window or from the end of the file.  id = 0: the
\* file cannot grow.
Add(d, n) ==
    LET s == ShiftLeft(d)
    IN  IF Givers(d, n) # {} THEN Recycle(d, n)
        ELSE IF s.eof + n - 1 > MaxPid THEN [d |-> s, id |-> 0]
        ELSE [d |-> [s EXCEPT !.eof = @ + n], id |-> s.eof]
-----------------------------------------------------------------------------
(* edbd_del *)

\* The window's pages, by index, that have a null reference
Takers(d) == { i \in DOMAIN d.window : d.trash[d.window[i]].refc # Refs }
\* Mutant: the first reference is taken, set or not.
FirstRef(t) == { 1 }
NullRefs(t) == { j \in 1 .. Refs : t.refs[j].ref = 0 }

Remember(d, id, n) ==
    LET p == d.window[Min(Takers(d))]
    IN  [d EXCEPT !.trash[p] = Put(@, Min(NullRefs(@)), id, n)]

\* The page to the right of the window, 0 if there is none
RightOf(d) == IF d.window = <<>> THEN 0 ELSE d.trash[d.window[1]].pright

\* The newest page of the window is linked to the new page.
LinkRight(d, p) ==
    IF d.window = <<>> THEN d ELSE [d EXCEPT !.trash[d.window[1]].pright = p]

\* p becomes the newest page of the window; the oldest leaves a full window.
ShiftRight(d, p) ==
    [d EXCEPT !.window = <<p>> \o (IF Len(@) = Window THEN Front(@) ELSE @)]

\* The new page is initialised on top of its content, taken to be zeros: "its 0
\* already sense intiialized to 0".
NewTrash(d, p) ==
    [d EXCEPT !.trash = [q \in DOMAIN @ \cup {p} |->
        IF q = p THEN [ZeroTrash EXCEPT !.pleft = ent.ref1] ELSE d.trash[q]]]
-----------------------------------------------------------------------------
(* The calls *)

State == [eof |-> eof, trash |-> trash, window |-> window]

SetState(d) == eof' = d.eof /\ trash' = d.trash /\ window' = d.window

\* Pages ftruncate has just added
Fresh(d) == eof .. d.eof - 1

Credit(S, k) == user' = [p \in Pids |-> IF p \in S THEN user[p] + k ELSE user[p]]

edbd_add(n) ==
    LET a == Add(State, n) IN
    /\ ~junk
    /\ Cardinality({ p \in Pids : user[p] > 0 }) + n <= MaxHeld
    /\ SetState(a.d)
    /\ IF a.id = 0 THEN UNCHANGED user ELSE Credit(Strait(a.id, n), 1)
    /\ zero' = zero \cup Fresh(a.d)
    /\ UNCHANGED <<ent, junk>>

\* The deleted pages that are left as they were: callers delete pages they have
\* initialised, and pages they never came to write.
Kept(id, n, written) == IF written THEN zero \ Strait(id, n) ELSE zero

\* A null reference in the window takes the strait.
DelHere(id, n, written) ==
    /\ Takers(State) # {}
    /\ SetState(Remember(State, id, n))
    /\ Credit(Strait(id, n), -1)
    /\ zero' = Kept(id, n, written)
    /\ UNCHANGED <<ent, junk>>

\* The window moves to the page on its right.  No null reference there is
\* "executed delete-find logic twice", ODB_ECRIT.
DelRight(id, n, written) ==
    LET d == ShiftRight(State, RightOf(State)) IN
    /\ Takers(State) = {} /\ RightOf(State) # 0
    /\ IF Takers(d) = {} THEN SetState(d) /\ UNCHANGED user
                         ELSE SetState(Remember(d, id, n)) /\ Credit(Strait(id, n), -1)
    /\ zero' = Kept(id, n, written)
    /\ UNCHANGED <<ent, junk>>

\* The chapter gets a new page p, from _edbd_add.
DelNew(id, n, written) ==
    LET a == Add(State, 1)
        p == a.id
        d == ShiftRight(NewTrash(LinkRight(a.d, p), p), p)
    IN
    /\ Takers(State) = {} /\ RightOf(State) = 0
    /\ \/ /\ p = 0
          /\ SetState(a.d)
          /\ UNCHANGED <<ent, user, zero, junk>>
       \/ /\ p \in zero \cup Fresh(a.d)
          /\ SetState(Remember(d, id, n))
          /\ ent' = [ref0 |-> IF ent.ref0c = 0 THEN p ELSE ent.ref0,
                     ref0c |-> ent.ref0c + 1, ref1 |-> p]
          /\ Credit(Strait(id, n), -1)
          /\ zero' = Kept(id, n, written) \ {p}
          /\ UNCHANGED junk
       \* What its last user left there is taken for references and links.
       \/ /\ p \notin zero \cup Fresh(a.d) \cup {0}
          /\ junk' = TRUE
          /\ UNCHANGED <<eof, trash, window, ent, user, zero>>

edbd_del(id, n, written) ==
    /\ ~junk
    /\ \A p \in Strait(id, n) : p \in Pids /\ user[p] > 0
    /\ \/ DelHere(id, n, written) \/ DelRight(id, n, written) \/ DelNew(id, n, written)

\* edbd_close, edbd_open: the window is filled from ref1 to the left.
FromRight(w) ==
    /\ w = << >> <=> ent.ref1 = 0
    /\ w # << >> => w[1] = ent.ref1
    /\ \A i \in 1 .. Len(w) - 1 : w[i + 1] = trash[w[i]].pleft
    /\ w # << >> /\ Len(w) < Window => trash[w[Len(w)]].pleft = 0

Reopen ==
    /\ ~junk
    /\ window' \in { w \in BoundedSeq(DOMAIN trash, Window) : FromRight(w) }
    /\ UNCHANGED <<eof, trash, ent, user, zero, junk>>
-----------------------------------------------------------------------------
\* odb_create: no page beyond the structures, an empty chapter
Init ==
    /\ eof = FirstPid
    /\ trash = [p \in {} |-> ZeroTrash]
    /\ window = << >>
    /\ ent = [ref0 |-> 0, ref0c |-> 0, ref1 |-> 0]
    /\ user = [p \in Pids |-> 0]
    /\ zero = {}
    /\ junk = FALSE

Next ==
    \/ \E n \in Straits : edbd_add(n)
    \/ \E id \in Pids, n \in Straits, written \in BOOLEAN : edbd_del(id, n, written)
    \/ Reopen

Spec == Init /\ [][Next]_vars
-----------------------------------------------------------------------------
Chapter == DOMAIN trash
\* The pages reference j of garbage page p stands for
RefPages(p, j) == Strait(trash[p].refs[j].ref, trash[p].refs[j].straitc)

\* The content of a garbage page
RefArray == [1 .. Refs -> [ref : Nat, straitc : Nat]]
Garbage == [refs : RefArray,
            refc : Nat, pagesc : Int, largeststrait : Nat, pleft : Nat, pright : Nat]

\* The variables have their types.
TypeOK ==
    /\ eof \in FirstPid .. MaxPid + 1
    /\ Chapter \subseteq Pids
    /\ trash \in [Chapter -> Garbage]
    /\ window \in Seq(Chapter) /\ Len(window) <= Window
    /\ ent \in [ref0 : Nat, ref0c : Nat, ref1 : Nat]
    /\ user \in [Pids -> Nat]
    /\ zero \subseteq Pids
    /\ junk \in BOOLEAN

\* No page is lost and none has two owners: every page of the file is a caller's,
\* or part of the garbage chapter, or in exactly one reference of it.
OneOwner ==
    \A q \in FirstPid .. eof - 1 :
      user[q] + (IF q \in Chapter THEN 1 ELSE 0)
        + Cardinality({ r \in Chapter \X (1 .. Refs) : q \in RefPages(r[1], r[2]) }) = 1

\* The pages of the references of t, each as its reference and its place in it
RefUnits(t) == { x \in (1 .. Refs) \X (1 .. MaxPid) : x[2] <= t.refs[x[1]].straitc }

\* What edbd_add and edbd_del decide by agrees with the references of a page, however
\* they were cut and filled again: refc with those that are set, largeststrait with
\* the longest of them, and pagesc with the pages they stand for.
HeadsAgree ==
    \A p \in Chapter :
      LET t == trash[p] IN
      /\ t.refc = Cardinality({ j \in 1 .. Refs : t.refs[j].ref # 0 })
      /\ t.largeststrait = Max({ t.refs[j].straitc : j \in 1 .. Refs })
      /\ t.pagesc = Cardinality(RefUnits(t))

\* The chapter is one list from ref0 to ref1 of ref0c pages, the window is a run of
\* it, and the page next to it on the right is empty: edbd_del never has to look twice
\* for a null reference.
WindowInOrder ==
    /\ ent.ref0c = Cardinality(Chapter)
    /\ \A p \in Chapter :
         /\ trash[p].pleft = 0 <=> p = ent.ref0
         /\ trash[p].pright = 0 <=> p = ent.ref1
         /\ trash[p].pright # 0 => trash[trash[p].pright].pleft = p
    /\ \A i \in 1 .. Len(window) - 1 : trash[window[i]].pleft = window[i + 1]
    /\ window # << >> /\ trash[window[1]].pright # 0 =>
         \A p \in Chapter :
           trash[p].pleft = window[1] => trash[p].refc = 0

\* The two together: edbd_add and edbd_del keep the chapter, its window and what they
\* decide by in step, whatever was deleted, recycled and reopened.
ChapterInOrder == HeadsAgree /\ WindowInOrder

\* edbd_add and edbd_del implement PageSupply.
Supply == INSTANCE PageSupply WITH kept <- Chapter
\* Refinement: what callers get are straits of pages nobody else holds and the
\* allocator does not keep, whatever was deleted and recycled before.
SuppliesPages == Supply!Spec

\* "head->head.pright = 0; its 0 already sense intiialized to 0": the page that
\* extends the chapter is a page of zeros.
NewTrashIsZero == ~junk
=============================================================================
