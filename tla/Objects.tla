------------------------------- MODULE Objects -------------------------------
(***************************************************************************)
(* The objects of one entity of a v0 file: edba-objects.c, edba-page.c,    *)
(* the growth of the chapter in edba-pagecreates.c, the lookup of          *)
(* edba-lookups.c and the locks of edbl.c, as the workers drive them with  *)
(* the object jobs of edbw-objs.c.                                         *)
(*                                                                         *)
(* Every object page keeps its deleted rows in a list (trashstart_off,     *)
(* then in the content of each deleted row the next one); the pages with   *)
(* much trash form a list of their own (the entity's trashlast, then each  *)
(* page's trashvor) that jalloc takes rows from.  Workers only exclude     *)
(* each other by byte-range locks on the file; a worker's step is what it  *)
(* does between two places where another worker can interfere.             *)
(*                                                                         *)
(* The lookup tree has depth 0: one page of lookupsperpage references.     *)
(* The structure has no dynamic pointers: edba_u_initobj_pages puts the    *)
(* list in front of them, edba_objectopenc looks for it behind them.       *)
(***************************************************************************)
EXTENDS Integers, Sequences, FiniteSets, Functions

CONSTANTS
    Workers,
    objectsperpage,
    straitc,        \* pages created at once, 1 << (memory & 0xF)
    lookupsperpage,
    NewPids,        \* the straits edbd_add hands out, by their first page
    Data,           \* what a live object holds
    Beyond,         \* bound: page offsets beyond the chapter that jobs ask for
    MaxJobs         \* bound: jobs

ASSUME ObjectsAssumption ==
    /\ IsFiniteSet(Workers)
    /\ objectsperpage \in Nat \ {0}
    /\ straitc \in Nat \ {0}
    /\ lookupsperpage \in Nat \ {0}
    /\ NewPids \in Seq(Nat \ {0}) /\ Len(NewPids) >= lookupsperpage
    \* PageAllocProofs: edbd_add never hands out a page that is in use.
    /\ \A i, j \in 1 .. lookupsperpage : i < j =>
         NewPids[i] + straitc <= NewPids[j] \/ NewPids[j] + straitc <= NewPids[i]
    /\ Data \notin Int
    /\ Beyond \in Nat /\ MaxJobs \in Nat

Rows  == 0 .. objectsperpage - 1
NoRow == -1
Pids  == UNION { NewPids[i] .. NewPids[i] + straitc - 1 : i \in 1 .. lookupsperpage }

VARIABLES
    trashlast,   \* the entity's, 0 for none
    ref0c,       \* pages in the chapter
    refs,        \* the references of the lookup page: [ref, end]
    head,        \* page -> trashstart, trashc, trashvor, pright
    deleted,     \* page -> row -> EDB_FDELETED
    content,     \* page -> row -> Data, or a row: the next deleted one
    held,        \* worker -> the locks its descriptor holds: [lock -> mode]
    opened,      \* worker -> h->opened is set
    job,         \* worker -> its job: kind, page, row
    next,        \* worker -> the row it has read from the page's list
    pc,          \* worker -> its place in the code
    jobs         \* jobs begun

trashvars == <<trashlast, head, deleted, content>>
chapter   == <<ref0c, refs>>
vars == <<trashvars, chapter, held, opened, job, next, pc, jobs>>

Goto(w, l) == pc' = [pc EXCEPT ![w] = l]
Page(w) == job[w].page
-----------------------------------------------------------------------------
(* Locks: byte ranges, by what they protect *)

LENTTRASH     == <<"LENTTRASH", 0, 0>>
LREF0C        == <<"LREF0C", 0, 0>>
LTRASHOFF(p)  == <<"LTRASHOFF", p, 0>>
LOBJPRIGHT(p) == <<"LOBJPRIGHT", p, 0>>
LOBJBODY(p)   == <<"LOBJBODY", p, 0>>
LROW(p, r)    == <<"LROW", p, r>>

\* The body of a page covers its rows.
Overlap(k, l) ==
    \/ k = l
    \/ k[2] = l[2] /\ {k[1], l[1]} = {"LOBJBODY", "LROW"}

\* F_OFD_SETLKW waits until nobody else's lock stands against it.
Grants(w, l, mode) ==
    \A v \in Workers \ {w} : \A k \in DOMAIN held[v] :
        Overlap(k, l) => mode = "SH" /\ held[v][k] = "SH"

\* f where it is defined, and g elsewhere
Overlay(f, g) == [x \in DOMAIN f \cup DOMAIN g |-> IF x \in DOMAIN f THEN f[x] ELSE g[x]]

edbl_set(w, l, mode) ==
    /\ Grants(w, l, mode)
    /\ held' = [held EXCEPT ![w] = Overlay([k \in {l} |-> mode], @)]
Release(w, ls) == held' = [held EXCEPT ![w] = Restrict(@, DOMAIN @ \ ls)]
-----------------------------------------------------------------------------
(* The chapter *)

\* The references whose strait ends at the offset or after it
StraitFrom(off) == { i \in 1 .. Len(refs) : refs[i].end >= off }

\* The offset of the first page of reference i
StartOf(i) == IF i = 1 THEN 0 ELSE refs[i - 1].end + 1

\* edba_u_lookup_rec at depth 0
Lookup(off) ==
    LET i == CHOOSE i \in StraitFrom(off) : \A j \in StraitFrom(off) : i <= j
    IN  refs[i].ref + (off - StartOf(i))

\* Mutant: the last reference is taken for one that starts at offset 0.
LastByOffset == LET n == Len(refs) IN refs[n].ref + refs[n].end
\* old_last_object_page
LastPage == LET n == Len(refs) IN refs[n].ref + refs[n].end - StartOf(n)

\* A page as edba_u_initobj_pages leaves it: every row is deleted and on the list.
NewHead(trashvor, pright) ==
    [trashstart |-> 0, trashc |-> objectsperpage, trashvor |-> trashvor, pright |-> pright]
NewContent == [r \in Rows |-> IF r + 1 = objectsperpage THEN NoRow ELSE r + 1]

\* edba_u_pagecreate_objects on the strait that starts at n
Strait(n) == n .. n + straitc - 1
Created(n) ==
    [p \in Strait(n) |->
        NewHead(IF p = n THEN 0 ELSE p - 1,
                IF p = n + straitc - 1 THEN 0 ELSE p + 1)]
-----------------------------------------------------------------------------
(* Jobs begin *)

NoJob == [kind |-> "none", page |-> 0, row |-> NoRow]

Idle(w) == pc[w] = "idle" /\ ~opened[w]

Allocating == \E v \in Workers : job[v].kind = "alloc"
JobsOn(p, r) ==
    { v \in Workers : job[v].page = p /\ job[v].row = r
                      /\ job[v].kind \in {"read", "write", "free"} }

\* The object exists, nobody is freeing it, and if this job is to free it nobody
\* is using it.
Timely(kind, p, r) ==
    /\ ~deleted[p][r] /\ content[p][r] = Data
    /\ \A v \in JobsOn(p, r) : "free" \notin {job[v].kind, kind}

\* Jobs race for an object that one of them frees, or one has come too late.
Racing ==
    \E p \in DOMAIN head, r \in Rows : \E v \in JobsOn(p, r) :
      \/ deleted[p][r] /\ pc[v] = "row"
      \/ \E u \in JobsOn(p, r) \ {v} : "free" \in {job[u].kind, job[v].kind}

\* What handles do (external): they ask for objects they have been told of, and
\* those that race for one object, or come back to a freed one, do it while
\* nothing is allocated.  edba_objectopenc does not lock the row it takes, so a
\* late job could meet its new owner.
Courteous(kind, p, r) ==
    \/ Timely(kind, p, r)
    \/ ~Allocating /\ (deleted[p][r] \/ content[p][r] = Data)

\* edba_objectopen up to the lookup.  Beyond the chapter it is ODB_EEOF: the
\* handle stays marked as opened, and every later job of this worker is answered
\* with ODB_ECRIT at once.
edba_objectopen(w, kind, off, r) ==
    /\ Idle(w)
    /\ opened' = [opened EXCEPT ![w] = TRUE]
    /\ IF off >= ref0c
       THEN UNCHANGED <<job, pc>>
       ELSE LET p == Lookup(off)
            IN  /\ Courteous(kind, p, r)
                /\ job' = [job EXCEPT ![w] = [kind |-> kind, page |-> p, row |-> r]]
                /\ Goto(w, "row")
    /\ UNCHANGED <<trashvars, chapter, held, next>>

jalloc(w) ==
    /\ Idle(w)
    /\ ~Racing
    /\ job' = [job EXCEPT ![w] = [NoJob EXCEPT !.kind = "alloc"]]
    /\ Goto(w, "enttrash")
    /\ UNCHANGED <<trashvars, chapter, held, opened, next>>

\* edba_pageopen up to the lookup
jselect(w, off) ==
    /\ Idle(w)
    /\ off < ref0c
    /\ job' = [job EXCEPT ![w] = [NoJob EXCEPT !.kind = "select", !.page = Lookup(off)]]
    /\ Goto(w, "body")
    /\ UNCHANGED <<trashvars, chapter, held, opened, next>>
-----------------------------------------------------------------------------
(* Jobs on an object *)

\* Mutant: those who write the row share it too.
AlwaysShared(w) == "SH"
RowMode(w) == IF job[w].kind = "read" THEN "SH" ELSE "XL"

\* edba_u_pageload_row, then edba_objectdeleted: a deleted row is ODB_EDELETED.
LockRow(w) ==
    /\ pc[w] = "row"
    /\ edbl_set(w, LROW(Page(w), job[w].row), RowMode(w))
    /\ Goto(w, IF deleted[Page(w)][job[w].row] THEN "close"
               ELSE IF job[w].kind = "free" THEN "trash" ELSE "use")
    /\ UNCHANGED <<trashvars, chapter, opened, job, next>>

\* edba_objectclose
Close(w) ==
    /\ Release(w, {LROW(Page(w), job[w].row)})
    /\ opened' = [opened EXCEPT ![w] = FALSE]
    /\ job' = [job EXCEPT ![w] = NoJob]
    /\ Goto(w, "idle")

\* The object is sent to the handle, or read from it.
UseRow(w) ==
    /\ pc[w] = "use"
    /\ content' = IF job[w].kind = "write"
                  THEN [content EXCEPT ![Page(w)][job[w].row] = Data] ELSE content
    /\ Close(w)
    /\ UNCHANGED <<trashlast, head, deleted, chapter, next>>

CloseRow(w) ==
    /\ pc[w] = "close"
    /\ Close(w)
    /\ UNCHANGED <<trashvars, chapter, next>>
-----------------------------------------------------------------------------
(* edba_objectdelete *)

\* Mutant: the lock of the entity's list is taken for that of the page's.
WrongLock(w) == edbl_set(w, LENTTRASH, "XL")
LockTrash(w) == edbl_set(w, LTRASHOFF(Page(w)), "XL")

DeleteLock(w) ==
    /\ pc[w] = "trash"
    /\ LockTrash(w)
    /\ Goto(w, "link")
    /\ UNCHANGED <<trashvars, chapter, opened, job, next>>

\* The row is marked, and its content becomes the link to the head of the list.
LinkRow(w) ==
    /\ pc[w] = "link"
    /\ deleted' = [deleted EXCEPT ![Page(w)][job[w].row] = TRUE]
    /\ content' = [content EXCEPT ![Page(w)][job[w].row] = head[Page(w)].trashstart]
    /\ Goto(w, "push")
    /\ UNCHANGED <<trashlast, head, chapter, held, opened, job, next>>

\* EDB_TRASHCRITCALITY
Critical(trashc) == trashc > objectsperpage \div 2

PushRow(w) ==
    LET h == head[Page(w)]
    IN  /\ pc[w] = "push"
        /\ head' = [head EXCEPT ![Page(w)].trashstart = job[w].row,
                                ![Page(w)].trashc = @ + 1]
        /\ Release(w, {LTRASHOFF(Page(w))})
        /\ Goto(w, IF Critical(h.trashc + 1) /\ ~Critical(h.trashc) THEN "incycle" ELSE "close")
        /\ UNCHANGED <<trashlast, deleted, content, chapter, opened, job, next>>

\* Without a lock: is the page among those with trash?
InCycle(w) ==
    /\ pc[w] = "incycle"
    /\ Goto(w, IF head[Page(w)].trashvor # 0 \/ trashlast = Page(w) THEN "close" ELSE "addpage")
    /\ UNCHANGED <<trashvars, chapter, held, opened, job, next>>

AddLock(w) ==
    /\ pc[w] = "addpage"
    /\ edbl_set(w, LENTTRASH, "XL")
    /\ Goto(w, "cycle")
    /\ UNCHANGED <<trashvars, chapter, opened, job, next>>

AddPage(w) ==
    /\ pc[w] = "cycle"
    /\ head' = [head EXCEPT ![Page(w)].trashvor = trashlast]
    /\ trashlast' = Page(w)
    /\ Release(w, {LENTTRASH})
    /\ Goto(w, "close")
    /\ UNCHANGED <<deleted, content, chapter, opened, job, next>>
-----------------------------------------------------------------------------
(* edba_objectopenc *)

\* seektrashlast: go to the page, or make new ones.
SeekTo(w, p) ==
    /\ job' = [job EXCEPT ![w].page = p]
    /\ Goto(w, IF p = 0 THEN "ref0c" ELSE "trashoff")

AllocLock(w) ==
    /\ pc[w] = "enttrash"
    /\ edbl_set(w, LENTTRASH, "XL")
    /\ SeekTo(w, trashlast)
    /\ UNCHANGED <<trashvars, chapter, opened, next>>

SeekLock(w) ==
    /\ pc[w] = "trashoff"
    /\ LockTrash(w)
    /\ Goto(w, "take")
    /\ UNCHANGED <<trashvars, chapter, opened, job, next>>

\* Mutant: the page stays in front of the others.
KeepLast(w) == trashlast
NextLast(w) == head[Page(w)].trashvor

\* A trash fault: the page leaves the list of pages.
TrashFault(w) ==
    /\ pc[w] = "take"
    /\ head[Page(w)].trashstart = NoRow
    /\ trashlast' = NextLast(w)
    /\ head' = [head EXCEPT ![Page(w)].trashvor = 0]
    /\ Release(w, {LTRASHOFF(Page(w))})
    /\ SeekTo(w, trashlast')
    /\ UNCHANGED <<deleted, content, chapter, opened, next>>

\* The first row of the list and the link in it are read.  Where the row was to
\* be locked the code releases the lock it does not have.
ReadHead(w) ==
    LET r == head[Page(w)].trashstart
    IN  /\ pc[w] = "take"
        /\ r # NoRow
        /\ job' = [job EXCEPT ![w].row = r]
        /\ next' = [next EXCEPT ![w] = content[Page(w)][r]]
        /\ Release(w, {LENTTRASH, LROW(Page(w), r)})
        /\ Goto(w, "pop")
        /\ UNCHANGED <<trashvars, chapter, opened>>

PopHead(w) ==
    /\ pc[w] = "pop"
    /\ head' = [head EXCEPT ![Page(w)].trashstart = next[w], ![Page(w)].trashc = @ - 1]
    /\ next' = [next EXCEPT ![w] = NoRow]
    /\ deleted' = [deleted EXCEPT ![Page(w)][job[w].row] = FALSE]
    /\ opened' = [opened EXCEPT ![w] = TRUE]
    /\ Release(w, {LTRASHOFF(Page(w))})
    /\ Goto(w, "created")
    /\ UNCHANGED <<trashlast, content, chapter, job>>

\* jalloc: the object is read from the handle.  With another version of the
\* structure (ODB_ECONFLICT), or when the handle has gone, the row stays as it is.
FillRow(w) ==
    /\ pc[w] = "created"
    /\ \/ content' = [content EXCEPT ![Page(w)][job[w].row] = Data]
       \/ UNCHANGED content
    /\ Close(w)
    /\ UNCHANGED <<trashlast, head, deleted, chapter, next>>
-----------------------------------------------------------------------------
(* edba_u_lookupdeepright *)

\* edba_objectopenc gives up: ODB_ENOSPACE
NoSpace(w) ==
    /\ Release(w, {LREF0C, LENTTRASH})
    /\ job' = [job EXCEPT ![w] = NoJob]
    /\ Goto(w, "idle")

\* The new pages are nobody's until they are referenced.
GrowLock(w) ==
    /\ pc[w] = "ref0c"
    /\ edbl_set(w, LREF0C, "XL")
    /\ job' = [job EXCEPT ![w].page = LastPage]
    /\ Goto(w, "lastpright")
    /\ UNCHANGED <<trashvars, chapter, opened, next>>
\* edbd_add fails.
CreateFails(w) ==
    /\ pc[w] = "ref0c"
    /\ Grants(w, LREF0C, "XL")
    /\ NoSpace(w)
    /\ UNCHANGED <<trashvars, chapter, opened, next>>

LockLast(w) ==
    /\ pc[w] = "lastpright"
    /\ edbl_set(w, LOBJPRIGHT(Page(w)), "XL")
    /\ Goto(w, "reference")
    /\ UNCHANGED <<trashvars, chapter, opened, job, next>>

\* The lookup page is full: the pages are deleted again.  rollbackcreatedpages
\* locks LOBJPRIGHT once more where it should release it.
LookupFull(w) ==
    /\ pc[w] = "reference"
    /\ Len(refs) = lookupsperpage
    /\ NoSpace(w)
    /\ UNCHANGED <<trashvars, chapter, opened, next>>

\* The pages enter the lookup page and follow the chapter's last page; then ref0c
\* lets others find them and trashlast lets them be used.  LOBJPRIGHT stays locked:
\* here too the code locks it again.
Reference(w) ==
    LET n == NewPids[Len(refs) + 1]
    IN  /\ pc[w] = "reference"
        /\ Len(refs) < lookupsperpage
        /\ refs' = Append(refs, [ref |-> n, end |-> ref0c + straitc - 1])
        /\ ref0c' = ref0c + straitc
        /\ head' = Overlay(Created(n), [head EXCEPT ![Page(w)].pright = n])
        /\ deleted' = Overlay([p \in Strait(n) |-> [r \in Rows |-> TRUE]], deleted)
        /\ content' = Overlay([p \in Strait(n) |-> NewContent], content)
        /\ trashlast' = n + straitc - 1
        /\ Release(w, {LREF0C})
        /\ SeekTo(w, trashlast')
        /\ UNCHANGED <<opened, next>>
-----------------------------------------------------------------------------
(* jselect: page after page *)

\* edba_pageopen, and the end of edba_pageadvance.  The page is sent; more of them
\* are wanted unless page_cap is reached.
LockBody(w) ==
    /\ pc[w] = "body"
    /\ edbl_set(w, LOBJBODY(Page(w)), "SH")
    /\ opened' = [opened EXCEPT ![w] = TRUE]
    /\ \E more \in BOOLEAN : Goto(w, IF more THEN "pright" ELSE "scanned")
    /\ UNCHANGED <<trashvars, chapter, job, next>>

\* edba_pageadvance: the lock on pright is only given back at the last page.
Advance(w) ==
    LET p == Page(w)
        n == head[p].pright
    IN  /\ pc[w] = "pright"
        /\ Grants(w, LOBJPRIGHT(p), "SH")
        /\ IF n = 0
           THEN /\ Release(w, {LOBJPRIGHT(p)})
                /\ Goto(w, "scanned")
                /\ UNCHANGED job
           ELSE /\ held' = [held EXCEPT ![w] = Overlay([k \in {LOBJPRIGHT(p)} |-> "SH"],
                                                 Restrict(@, DOMAIN @ \ {LOBJBODY(p)}))]
                /\ Goto(w, "body")
                /\ job' = [job EXCEPT ![w].page = n]
        /\ UNCHANGED <<trashvars, chapter, opened, next>>

\* edba_pageclose
ClosePage(w) ==
    /\ pc[w] = "scanned"
    /\ Release(w, {LOBJBODY(Page(w))})
    /\ opened' = [opened EXCEPT ![w] = FALSE]
    /\ job' = [job EXCEPT ![w] = NoJob]
    /\ Goto(w, "idle")
    /\ UNCHANGED <<trashvars, chapter, next>>
-----------------------------------------------------------------------------
\* The entity as edba_entryset has made it and the first jallocs have left it:
\* its last k pages are full, the first of them not yet found to be.
Init ==
    LET first == NewPids[1]
        last  == first + straitc - 1
    IN  /\ ref0c = straitc
        /\ refs = <<[ref |-> first, end |-> straitc - 1]>>
        /\ \E k \in 0 .. straitc :
             LET full(p) == p > last - k
             IN  /\ trashlast = IF k = 0 THEN last ELSE last - k + 1
                 /\ head = [p \in Strait(first) |->
                              IF full(p) THEN [Created(first)[p] EXCEPT
                                                 !.trashstart = NoRow, !.trashc = 0,
                                                 !.trashvor = IF p = trashlast THEN @ ELSE 0]
                                         ELSE Created(first)[p]]
                 /\ deleted = [p \in Strait(first) |-> [r \in Rows |-> ~full(p)]]
                 /\ content = [p \in Strait(first) |->
                                 IF full(p) THEN [r \in Rows |-> Data] ELSE NewContent]
        /\ held = [w \in Workers |-> <<>>]
        /\ opened = [w \in Workers |-> FALSE]
        /\ job = [w \in Workers |-> NoJob]
        /\ next = [w \in Workers |-> NoRow]
        /\ pc = [w \in Workers |-> "idle"]
        /\ jobs = 0

Begin(w) ==
    /\ jobs < MaxJobs
    /\ jobs' = jobs + 1
    /\ \/ \E kind \in {"read", "write", "free"}, off \in 0 .. ref0c - 1 + Beyond, r \in Rows :
            edba_objectopen(w, kind, off, r)
       \/ jalloc(w)
       \/ \E off \in 0 .. ref0c - 1 : jselect(w, off)

Step(w) ==
    /\ \/ LockRow(w) \/ UseRow(w) \/ CloseRow(w)
       \/ DeleteLock(w) \/ LinkRow(w) \/ PushRow(w) \/ InCycle(w) \/ AddLock(w) \/ AddPage(w)
       \/ AllocLock(w) \/ SeekLock(w) \/ TrashFault(w) \/ ReadHead(w) \/ PopHead(w) \/ FillRow(w)
       \/ GrowLock(w) \/ CreateFails(w) \/ LockLast(w) \/ LookupFull(w) \/ Reference(w)
       \/ LockBody(w) \/ Advance(w) \/ ClosePage(w)
    /\ UNCHANGED jobs

Next == \E w \in Workers : Begin(w) \/ Step(w)

Spec == Init /\ [][Next]_vars

\* A worker keeps running.
FairSpec == Spec /\ \A w \in Workers : WF_vars(Step(w))
-----------------------------------------------------------------------------
(* Properties *)

Pcs == {"idle", "row", "use", "close", "trash", "link", "push", "incycle", "addpage", "cycle",
        "enttrash", "trashoff", "take", "pop", "created", "ref0c", "lastpright", "reference",
        "body", "pright", "scanned"}

\* The variables have their types.
TypeOK ==
    /\ trashlast \in Pids \cup {0}
    /\ ref0c \in 1 .. straitc * lookupsperpage
    /\ refs \in Seq([ref : Pids, end : Nat]) /\ Len(refs) \in 1 .. lookupsperpage
    /\ DOMAIN head \subseteq Pids
    /\ \A p \in DOMAIN head :
         head[p] \in [trashstart : Rows \cup {NoRow}, trashc : 0 .. objectsperpage,
                      trashvor : Pids \cup {0}, pright : Pids \cup {0}]
    /\ deleted \in [DOMAIN head -> [Rows -> BOOLEAN]]
    /\ content \in [DOMAIN head -> [Rows -> Rows \cup {NoRow, Data}]]
    /\ opened \in [Workers -> BOOLEAN]
    /\ next \in [Workers -> Rows \cup {NoRow, Data}]
    /\ pc \in [Workers -> Pcs]

\* l is the list of page p: it starts at trashstart_off, every row of it holds the
\* next one, and the last holds none.
IsTrashList(l, p) ==
    LET At(i) == IF i <= head[p].trashc THEN l[i] ELSE NoRow
    IN  /\ head[p].trashstart = At(1)
        /\ \A i \in 1 .. head[p].trashc : content[p][l[i]] = At(i + 1)

\* While nobody holds the lock on a page's trashstart_off, its list of deleted rows
\* is whole: it ends, holds every deleted row once, and trashc is its length.  No row
\* is lost and none is handed out twice, whatever jalloc and jfree of several workers
\* do at once (edba_objectopenc, edba_objectdelete under LTRASHOFF).
TrashWhole ==
    \A p \in DOMAIN head :
      (\A w \in Workers : LTRASHOFF(p) \notin DOMAIN held[w]) =>
        \E l \in Bijection(1 .. head[p].trashc, { r \in Rows : deleted[p][r] }) :
          IsTrashList(l, p)

\* An object that a read or a write has found stays an object until the job is done
\* with it, and a row that a jalloc has taken is no other job's: jread and jwrite never
\* see or overwrite the link of a deleted row (LROW, the check of EDB_FDELETED).
RowsOwned ==
    \A w \in Workers :
      /\ pc[w] = "use" => ~deleted[Page(w)][job[w].row] /\ content[Page(w)][job[w].row] = Data
      /\ pc[w] = "created" =>
           ~\E v \in Workers \ {w} :
               /\ pc[v] \in {"row", "use", "trash", "link", "push", "pop", "created"}
               /\ job[v].page = Page(w) /\ job[v].row = job[w].row

\* The pages a select walks along pright are those a lookup finds, in the same order
\* (edba_u_lookupdeepright and edba_u_lookup_rec: the offsets in the references, the
\* last page of the last strait, its pright).
ChapterLinked ==
    \A off \in 0 .. ref0c - 1 :
      head[Lookup(off)].pright = IF off + 1 < ref0c THEN Lookup(off + 1) ELSE 0

\* A worker waits for a page's pright that another worker has left locked.
Jammed ==
    \E w \in Workers :
      /\ pc[w] \in {"pright", "lastpright"}
      /\ \E v \in Workers \ {w} :
           /\ LOBJPRIGHT(Page(w)) \in DOMAIN held[v]
           /\ held[v][LOBJPRIGHT(Page(w))] = "XL"
           /\ pc[v] # "reference"

\* Every job ends, whatever the others do: the locks on rows, pages, lists and the
\* chapter never close a circle.  The one thing that can stop jobs is the lock on
\* pright that edba_u_lookupdeepright leaves behind.
JobsEnd == \A w \in Workers : pc[w] # "idle" ~> (pc[w] = "idle" \/ Jammed)
-----------------------------------------------------------------------------
(* Statements of the repository that the code does not keep; see the README. *)

\* The pages on the entity's list, trashlast first
TrashPages ==
    LET n == Cardinality(DOMAIN head)
        list[k \in 0 .. n] ==
          IF k = 0 THEN <<trashlast>>
          ELSE LET l == list[k - 1] IN
               IF l[Len(l)] # 0 THEN Append(l, head[l[Len(l)]].trashvor) ELSE l
    IN  { list[n][i] : i \in 1 .. Len(list[n]) } \ {0}

\* edba_objectopenc: "we have the deleted record locked".
CreatedRowLocked ==
    \A w \in Workers : pc[w] = "created" => LROW(Page(w), job[w].row) \in DOMAIN held[w]

\* edba_objectopenc: trashvor is reset so that the page avoids "adding itself twice
\* (which will break the linked list)".
AddedOnce == \A w \in Workers : pc[w] = "cycle" => Page(w) \notin TrashPages

\* locking.org: LOBJPRIGHT is released by who grows the chapter and by who walks it.
PrightGivenBack ==
    \A w \in Workers : pc[w] = "idle" =>
      \A p \in DOMAIN head : LOBJPRIGHT(p) \notin DOMAIN held[w]

\* edba.h: opened is "only assigned after successful assigment of elemeht".
FailedOpenIsClosed == \A w \in Workers : pc[w] = "idle" => ~opened[w]
=============================================================================
