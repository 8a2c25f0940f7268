----------------------------- MODULE PipeProofs -----------------------------
(***************************************************************************)
(* Theorems about the transfer buffer of a job, for every capacity and     *)
(* every length of message.                                                *)
(*                                                                         *)
(* The first part is about the buffer (JobPipe, PipeCalls), whatever calls *)
(* its users make: bytes arrive in order, the holds tell the truth and     *)
(* nobody sleeps on a cleared one, and a terminated pipe is empty and      *)
(* stays closed.  A job has one thread at each end there, and the flags    *)
(* are updated as if they were atomic: section 6 of the README has what    *)
(* goes wrong otherwise.                                                   *)
(*                                                                         *)
(* The second part is about the jobs of handles and worker over it         *)
(* (JobProtocol): what a handle returns is what the worker has decided,    *)
(* and no handle moves bytes of another's job.  The flags are not atomic   *)
(* there.                                                                  *)
(***************************************************************************)
EXTENDS PipeCalls, JobProtocol, Integers, TLAPS

USE JobPipeAssumption, PipeCallsAssumption

\* One thread at each end, and no races on transferbuff_FLAGS.
OneEach == \A t, u \in Threads : Side(t) = Side(u) => t = u
Orderly == OneEach /\ ~Races
-----------------------------------------------------------------------------
(* The inductive invariant *)

Flags == {"INSTALLWRITE", "INSTALLERTERM", "EXECUTERTERM"}

Typed ==
    /\ PipeTypeOK
    /\ count \in [Threads -> Nat] /\ total \in [Threads -> Nat]
    /\ loaded \in [Threads -> SUBSET Flags]
    /\ sent \in [Sides -> 0 .. SeqMod - 1] /\ got \in [Sides -> 0 .. SeqMod - 1]

\* Where a thread is in a call, and which call it is.
CallOK(t) ==
    /\ pc[t] = "idle" <=> op[t] = "none"
    /\ pc[t] = "or" => t \in Installers /\ op[t] # "read"
    /\ pc[t] = "store" => t \in Executors /\ op[t] = "term"
    /\ pc[t] \in {"wait", "asleep", "enter"} /\ op[t] = "term" => t \in Executors
    /\ op[t] \in {"read", "write"} => total[t] < count[t]
    /\ "EXECUTERTERM" \in flags /\ t \in Executors => op[t] # "read"

\* A |= stores what it has loaded and one flag more: nobody else came between.
Atomic ==
    /\ \A t \in Threads : pc[t] \in {"or", "store"} => loaded[t] = flags
    /\ \A t, u \in Threads : pc[t] \in {"or", "store"} /\ pc[u] \in {"or", "store"} => t = u

\* Who sleeps has a hold that is set, who came past it one that is clear.
HoldMeans(t) ==
    /\ pc[t] = "asleep" => Hold(t)
    /\ pc[t] \in {"enter", "store"} => ~Hold(t)

\* The holds as long as the executor has not terminated.
Words ==
    /\ "EXECUTERTERM" \notin flags =>
         \A s \in Sides : /\ readhold[s] = (bytes[Other(s)] = 0)
                          /\ writehold[s] = (bytes[s] = Capacity)
    /\ exetermhold = (bytes["executor"] # 0)

\* The head of a side that may write is where its unread bytes end.
HeadsApart ==
    \A s \in Sides : bytes[Other(s)] = 0 => head[s] = (head[Other(s)] + bytes[s]) % Capacity

IInv ==
    /\ Typed
    /\ \A t \in Threads : CallOK(t) /\ HoldMeans(t)
    /\ Atomic /\ Words /\ Drained /\ HeadsApart /\ InOrder
-----------------------------------------------------------------------------
(* Sides, remainders and wakes *)

LEMMA Wrap ==
    ASSUME NEW m \in Nat \ {0}, NEW y \in Nat, y < 2 * m
    PROVE  y % m = IF y < m THEN y ELSE y - m
<1>1. ASSUME NEW x \in 0 .. m - 1 PROVE x % m = x /\ (x + m) % m = x  OBVIOUS
<1>2. CASE y < m
  <2>1. y \in 0 .. m - 1  BY <1>2
  <2> QED  BY <1>1, <1>2, <2>1
<1>3. CASE ~(y < m)
  <2>1. y - m \in 0 .. m - 1 /\ (y - m) + m = y  BY <1>3
  <2>2. ((y - m) + m) % m = y - m  BY <1>1, <2>1
  <2> QED  BY <1>3, <2>1, <2>2
<1> QED  BY <1>2, <1>3

LEMMA WrapSum ==
    ASSUME NEW m \in Nat \ {0}, NEW x \in 0 .. m - 1, NEW y \in 0 .. m
    PROVE  (x + y) % m = IF x + y < m THEN x + y ELSE x + y - m
<1> DEFINE w == x + y
<1>1. w \in Nat /\ w < 2 * m  OBVIOUS
<1> HIDE DEF w
<1>2. w % m = IF w < m THEN w ELSE w - m  BY <1>1, Wrap
<1> QED  BY <1>2 DEF w

\* Going on from a position that has wrapped is going on from the one before it did.
LEMMA WrapTwice ==
    ASSUME NEW m \in Nat \ {0}, NEW x \in 0 .. m - 1, NEW y \in Nat, NEW z \in Nat, y + z <= m
    PROVE  (((x + y) % m) + z) % m = (x + (y + z)) % m
<1>1. (x + y) % m = IF x + y < m THEN x + y ELSE x + y - m
  <2>1. y \in 0 .. m  OBVIOUS
  <2> QED  BY <2>1, WrapSum
<1>2. (x + (y + z)) % m = IF x + (y + z) < m THEN x + (y + z) ELSE x + (y + z) - m
  <2> DEFINE w == y + z
  <2>1. w \in 0 .. m  OBVIOUS
  <2> HIDE DEF w
  <2>2. (x + w) % m = IF x + w < m THEN x + w ELSE x + w - m  BY <2>1, WrapSum
  <2> QED  BY <2>2 DEF w
<1>3. CASE x + y < m
  <2>1. ((x + y) % m) + z = x + (y + z)  BY <1>1, <1>3
  <2> QED  BY <2>1
<1>4. CASE ~(x + y < m)
  <2>1. ((x + y) % m) + z = x + y - m + z /\ x + y - m + z \in 0 .. m - 1  BY <1>1, <1>4
  <2>2. (x + y - m + z) % m = x + y - m + z
    <3> DEFINE w == x + y - m + z
    <3>1. w \in Nat /\ w < m /\ w < 2 * m  BY <2>1
    <3> QED  BY <3>1, Wrap
  <2> QED  BY <1>2, <1>4, <2>1, <2>2
<1> QED  BY <1>3, <1>4

LEMMA SideFacts ==
    /\ \A t \in Threads : /\ Side(t) \in Sides
                          /\ Side(t) = "executor" <=> t \in Executors
                          /\ Side(t) = "installer" <=> t \in Installers
    /\ \A s \in Sides : Other(s) \in Sides /\ Other(s) # s /\ Other(Other(s)) = s
    /\ \A s, r \in Sides : s # r => r = Other(s)
    /\ Other("executor") = "installer" /\ Other("installer") = "executor"
    /\ "executor" \in Sides /\ "installer" \in Sides
BY DEF Side, Sides, Other, Threads

Places == {"idle", "or", "wait", "asleep", "enter", "store"}

\* With one thread at each end a wake finds the one that sleeps, if any.
LEMMA WakeExact ==
    ASSUME OneEach, pc \in [Threads -> Places], NEW t \in Threads, pc[t] # "asleep",
           NEW l \in Places, NEW s, NEW ops, WakeGoto(t, l, s, ops)
    PROVE  pc' = [u \in Threads |->
                    IF u = t THEN l
                    ELSE IF pc[u] = "asleep" /\ Side(u) = s /\ op[u] \in ops
                         THEN "enter" ELSE pc[u]]
<1> DEFINE sleeping == { u \in Threads : pc[u] = "asleep" /\ Side(u) = s /\ op[u] \in ops }
<1>1. CASE sleeping = {} /\ Goto(t, l)  BY <1>1 DEF Goto
<1>2. CASE \E u \in sleeping : pc' = [pc EXCEPT ![t] = l, ![u] = "enter"]
  <2>1. PICK v \in sleeping : pc' = [pc EXCEPT ![t] = l, ![v] = "enter"]  BY <1>2
  <2>2. \A u \in Threads : u \in sleeping <=> u = v  BY <2>1 DEF OneEach
  <2>3. v # t  BY <2>1
  <2> QED  BY <2>1, <2>2, <2>3
<1> QED  BY <1>1, <1>2 DEF WakeGoto

LEMMA TypesOf ==
    ASSUME Typed
    PROVE  /\ pc \in [Threads -> Places] /\ op \in [Threads -> {"none", "read", "write", "term"}]
           /\ count \in [Threads -> Nat] /\ total \in [Threads -> Nat]
           /\ loaded \in [Threads -> SUBSET Flags] /\ flags \in SUBSET Flags
           /\ bytes \in [Sides -> 0 .. Capacity] /\ head \in [Sides -> 0 .. Capacity - 1]
           /\ readhold \in [Sides -> BOOLEAN] /\ writehold \in [Sides -> BOOLEAN]
           /\ exetermhold \in BOOLEAN /\ pipemutex \in {"free", "held"}
           /\ sent \in [Sides -> 0 .. SeqMod - 1] /\ got \in [Sides -> 0 .. SeqMod - 1]
BY DEF Typed, PipeTypeOK, Places, Flags
-----------------------------------------------------------------------------
(* Steps inside one thread, that leave the ring alone *)

Same(u) == /\ pc'[u] = pc[u] /\ op'[u] = op[u] /\ count'[u] = count[u]
           /\ total'[u] = total[u] /\ loaded'[u] = loaded[u]

LEMMA LocalStep ==
    ASSUME IInv, NEW t \in Threads, UNCHANGED pipeVars, Typed',
           \A u \in Threads \ {t} : Same(u),
           CallOK(t)', HoldMeans(t)',
           "EXECUTERTERM" \in flags' <=> "EXECUTERTERM" \in flags,
           pc'[t] \in {"or", "store"} => loaded'[t] = flags',
           flags' # flags \/ pc'[t] \in {"or", "store"} =>
             \A u \in Threads \ {t} : pc[u] \notin {"or", "store"}
    PROVE  IInv'
<1> USE DEF pipeVars
<1>1. \A u \in Threads : CallOK(u)'
   BY DEF IInv, Same, CallOK
<1>2. \A u \in Threads : HoldMeans(u)'
  <2>1. ASSUME NEW u \in Threads \ {t}  PROVE HoldMeans(u)'
     BY DEF IInv, Same, HoldMeans, Hold
  <2> QED  BY <2>1
<1>3. Atomic'
  <2>1. ASSUME NEW u \in Threads, pc'[u] \in {"or", "store"}  PROVE loaded'[u] = flags'
    <3>1. CASE u = t  BY <2>1, <3>1
    <3>2. CASE u # t
      <4>1. Same(u) /\ pc[u] \in {"or", "store"}  BY <2>1, <3>2 DEF Same
      <4> QED  BY <3>2, <4>1 DEF IInv, Atomic, Same
    <3> QED  BY <3>1, <3>2
  <2>2. ASSUME NEW u \in Threads, NEW v \in Threads,
               pc'[u] \in {"or", "store"}, pc'[v] \in {"or", "store"}, u # v
        PROVE  FALSE
    <3>1. CASE u # t /\ v # t  BY <2>2, <3>1 DEF IInv, Atomic, Same
    <3>2. CASE u = t \/ v = t  BY <2>2, <3>2 DEF Same
    <3> QED  BY <3>1, <3>2
  <2> QED  BY <2>1, <2>2 DEF Atomic
<1>4. Words'  BY DEF IInv, Words
<1>5. Drained' /\ HeadsApart' /\ InOrder'  BY DEF IInv, Drained, HeadsApart, InOrder
<1> QED  BY <1>1, <1>2, <1>3, <1>4, <1>5 DEF IInv

Results == {"none", "OK", "EBADE", "EPIPE", "EPROTO", "ECLOSED", "EEOF", "EOPEN"}

\* A call returns: its locals are gone.
LEMMA OverTyped ==
    ASSUME Typed, NEW t \in Threads, NEW e \in Results, Over(t, e),
           pc' \in [Threads -> Places] \/ pc' = [pc EXCEPT ![t] = "idle"],
           flags' \in SUBSET Flags, UNCHANGED pipeVars, pipemutex' \in {"free", "held"}
    PROVE  Typed'
<1> USE TypesOf
<1>1. pc' \in [Threads -> Places]  BY DEF Places
<1>2. /\ op' \in [Threads -> {"none", "read", "write", "term"}]
      /\ count' \in [Threads -> Nat] /\ total' \in [Threads -> Nat]
      /\ loaded' \in [Threads -> SUBSET Flags]
   BY DEF Over
<1>3. \A u \in Threads : total'[u] <= count'[u]  BY DEF Over, Typed, PipeTypeOK
<1>4. ret' \in [Threads -> Results]  BY DEF Over, Typed, PipeTypeOK, Results
<1> QED  BY <1>1, <1>2, <1>3, <1>4 DEF Typed, PipeTypeOK, Places, Flags, Results, pipeVars

LEMMA OverLocal ==
    ASSUME Typed, NEW t \in Threads, NEW e, Over(t, e), pc' = [pc EXCEPT ![t] = "idle"]
    PROVE  /\ \A u \in Threads \ {t} : Same(u)
           /\ CallOK(t)' /\ HoldMeans(t)' /\ pc'[t] = "idle"
<1> USE TypesOf
<1>1. \A u \in Threads \ {t} : Same(u)  BY DEF Over, Same
<1>2. pc'[t] = "idle" /\ op'[t] = "none"  BY DEF Over
<1> QED  BY <1>1, <1>2 DEF CallOK, HoldMeans

\* A call that is refused.
LEMMA RefusedStep ==
    ASSUME IInv, NEW t \in Threads,
           WriteRefused(t) \/ ReadRefused(t) \/ InstallerTermLate(t)
    PROVE  IInv'
<1>1. UNCHANGED <<flags, pipeVars, pipemutex, pc, op, count, total, loaded>>
   BY DEF WriteRefused, ReadRefused, InstallerTermLate
<1>2. Typed'
  <2>1. ret' \in [Threads -> Results]
     BY DEF WriteRefused, ReadRefused, InstallerTermLate, IInv, Typed, PipeTypeOK, Results
  <2> QED  BY <1>1, <2>1 DEF IInv, Typed, PipeTypeOK, Results, pipeVars
<1>3. \A u \in Threads : Same(u)  BY <1>1 DEF Same
<1>4. CallOK(t)' /\ HoldMeans(t)'
   BY <1>1 DEF IInv, CallOK, HoldMeans, Hold, pipeVars
<1>5. pc[t] = "idle"  BY DEF WriteRefused, ReadRefused, InstallerTermLate
<1> QED  BY <1>1, <1>2, <1>3, <1>4, <1>5, LocalStep

\* What the beginnings of the calls have in common.
Begun(t, o, c, l) ==
    /\ pc[t] = "idle" /\ Begin(t, o, c, l)
    /\ UNCHANGED <<flags, pipeVars, pipemutex>>
    /\ l = "or" => /\ t \in Installers /\ o # "read" /\ FlagsFree
                   /\ loaded' = [loaded EXCEPT ![t] = flags]
    /\ l = "wait" => loaded' = loaded /\ (o = "term" => t \in Executors)
    /\ o \in {"read", "write"} => 0 < c
    /\ o = "read" /\ t \in Executors => "EXECUTERTERM" \notin flags

\* A call begins.
LEMMA BeginStep ==
    ASSUME IInv, Orderly, NEW t \in Threads,
           \/ \E n \in Counts : InstallerWrite(t, n) \/ ExecutorWrite(t, n) \/ Read(t, n)
           \/ InstallerTerm(t) \/ ExecutorTerm(t)
    PROVE  IInv'
<1> USE SideFacts
<1>0. Typed  BY DEF IInv
<1>1. PICK o \in {"read", "write", "term"}, c \in Nat, l \in {"or", "wait"} : Begun(t, o, c, l)
  <2>1. ASSUME NEW n \in Counts, InstallerWrite(t, n) \/ ExecutorWrite(t, n) \/ Read(t, n)
        PROVE  Begun(t, "write", n, "or") \/ Begun(t, "write", n, "wait") \/ Begun(t, "read", n, "wait")
    <3>1. 0 < n
      <4>1. n \in Nat \ {0}  BY PipeCallsAssumption
      <4> QED  BY <4>1
    <3>2. CASE InstallerWrite(t, n)  BY <3>1, <3>2 DEF InstallerWrite, Begun
    <3>3. CASE ExecutorWrite(t, n)  BY <3>1, <3>3 DEF ExecutorWrite, Begun
    <3>4. CASE Read(t, n)  BY <3>1, <3>4 DEF Read, Begun
    <3> QED  BY <2>1, <3>2, <3>3, <3>4
  <2>2. CASE \E n \in Counts : InstallerWrite(t, n) \/ ExecutorWrite(t, n) \/ Read(t, n)
    <3>1. PICK n \in Counts : InstallerWrite(t, n) \/ ExecutorWrite(t, n) \/ Read(t, n)
       BY <2>2
    <3>2. n \in Nat  OBVIOUS
    <3> QED  BY <2>1, <3>1, <3>2
  <2>3. CASE InstallerTerm(t)
    <3>1. Begun(t, "term", 0, "or")  BY <2>3 DEF InstallerTerm, Begun
    <3> QED  BY <3>1
  <2>4. CASE ExecutorTerm(t)
    <3>1. Begun(t, "term", 0, "wait")  BY <2>4 DEF ExecutorTerm, Begun
    <3> QED  BY <3>1
  <2> QED  BY <2>2, <2>3, <2>4
<1> USE DEF Begun
<1> USE TypesOf
<1>2. /\ pc' = [pc EXCEPT ![t] = l] /\ op' = [op EXCEPT ![t] = o]
      /\ count' = [count EXCEPT ![t] = c] /\ total' = [total EXCEPT ![t] = 0]
      /\ ret' = [ret EXCEPT ![t] = "none"]
   BY <1>1 DEF Begin, Goto
<1>3. loaded' \in [Threads -> SUBSET Flags] /\ \A u \in Threads \ {t} : loaded'[u] = loaded[u]
   BY <1>0, <1>1
<1>4. Typed'
  <2>1. /\ pc' \in [Threads -> Places] /\ op' \in [Threads -> {"none", "read", "write", "term"}]
        /\ count' \in [Threads -> Nat] /\ total' \in [Threads -> Nat]
     BY <1>0, <1>2 DEF Places
  <2>2. \A u \in Threads : total'[u] <= count'[u]
     BY <1>0, <1>2 DEF Typed, PipeTypeOK
  <2>3. ret' \in [Threads -> Results]
     BY <1>0, <1>2 DEF Typed, PipeTypeOK, Results
  <2> QED  BY <1>0, <1>1, <1>3, <2>1, <2>2, <2>3 DEF Typed, PipeTypeOK, Places, Results, pipeVars
<1>5. \A u \in Threads \ {t} : Same(u)  BY <1>0, <1>2, <1>3 DEF Same
<1>6. CallOK(t)' /\ HoldMeans(t)'
   BY <1>0, <1>1, <1>2 DEF CallOK, HoldMeans
<1>7. l = "or" => loaded'[t] = flags /\ \A u \in Threads : pc[u] \notin {"or", "store"}
   BY <1>0, <1>1 DEF Orderly, FlagsFree
<1>8. pc'[t] = l  BY <1>0, <1>2
<1> QED  BY <1>1, <1>4, <1>5, <1>6, <1>7, <1>8, LocalStep

LEMMA WaitStep ==
    ASSUME IInv, NEW t \in Threads, Wait(t)
    PROVE  IInv'
<1>0. Typed  BY DEF IInv
<1> USE TypesOf
<1>1. /\ pc[t] = "wait" /\ pc' = [pc EXCEPT ![t] = IF Hold(t) THEN "asleep" ELSE "enter"]
      /\ UNCHANGED <<flags, pipeVars, pipemutex, op, count, total, loaded, ret>>
   BY DEF Wait, Goto
<1>2. pc'[t] \in {"asleep", "enter"} /\ (pc'[t] = "asleep" <=> Hold(t))  BY <1>0, <1>1
<1>3. Hold(t)' = Hold(t)  BY <1>1 DEF Hold, pipeVars
<1>4. Typed'
  <2>1. pc' \in [Threads -> Places]  BY <1>0, <1>1 DEF Places
  <2> QED  BY <1>0, <1>1, <2>1 DEF Typed, PipeTypeOK, Places, pipeVars
<1>5. \A u \in Threads \ {t} : Same(u)  BY <1>0, <1>1 DEF Same
<1>6. CallOK(t)'  BY <1>1, <1>2 DEF IInv, CallOK
<1>7. HoldMeans(t)'  BY <1>2, <1>3 DEF HoldMeans
<1> QED  BY <1>1, <1>2, <1>4, <1>5, <1>6, <1>7, LocalStep

\* The installer stores one of its flags.
LEMMA StoreStep ==
    ASSUME IInv, NEW t \in Threads, InstallerWriteStore(t) \/ InstallerTermStore(t)
    PROVE  IInv'
<1>0. Typed /\ CallOK(t) /\ Atomic  BY DEF IInv
<1> USE TypesOf
<1>1. pc[t] = "or" /\ loaded[t] = flags /\ UNCHANGED <<pipeVars, pipemutex>>
   BY <1>0 DEF InstallerWriteStore, InstallerTermStore, Atomic
<1>2. flags' \in SUBSET Flags /\ ("EXECUTERTERM" \in flags' <=> "EXECUTERTERM" \in flags)
   BY <1>0, <1>1 DEF InstallerWriteStore, InstallerTermStore, Ored, Flags
<1>3. \A u \in Threads \ {t} : pc[u] \notin {"or", "store"}  BY <1>0, <1>1 DEF Atomic
<1>4. CASE InstallerWriteStore(t)
  <2>1. /\ loaded' = [loaded EXCEPT ![t] = {}] /\ pc' = [pc EXCEPT ![t] = "wait"]
        /\ UNCHANGED <<op, count, total, ret>> /\ op[t] = "write"
     BY <1>4 DEF InstallerWriteStore, Goto
  <2>2. Typed'
    <3>1. pc' \in [Threads -> Places] /\ loaded' \in [Threads -> SUBSET Flags]
       BY <1>0, <2>1 DEF Places
    <3> QED  BY <1>0, <1>1, <1>2, <2>1, <3>1 DEF Typed, PipeTypeOK, Places, Flags, pipeVars
  <2>3. \A u \in Threads \ {t} : Same(u)  BY <1>0, <2>1 DEF Same
  <2>4. CallOK(t)' /\ HoldMeans(t)'
     BY <1>0, <1>1, <1>2, <2>1 DEF CallOK, HoldMeans
  <2>5. pc'[t] = "wait"  BY <1>0, <2>1
  <2> QED  BY <1>1, <1>2, <1>3, <2>2, <2>3, <2>4, <2>5, LocalStep
<1>5. CASE InstallerTermStore(t)
  <2>1. /\ pc' = [pc EXCEPT ![t] = "idle"] /\ Over(t, "OK")
     BY <1>5 DEF InstallerTermStore, Return, Goto
  <2>2. "OK" \in Results /\ pipemutex' \in {"free", "held"}  BY <1>0, <1>1 DEF Results
  <2>2a. Typed'  BY <1>0, <1>1, <1>2, <2>1, <2>2, OverTyped
  <2>3. /\ \A u \in Threads \ {t} : Same(u)
        /\ CallOK(t)' /\ HoldMeans(t)' /\ pc'[t] = "idle"
     BY <1>0, <2>1, OverLocal
  <2> QED  BY <1>1, <1>2, <1>3, <2>2a, <2>3, LocalStep
<1> QED  BY <1>4, <1>5

\* A call fails.
LEMMA ErrorStep ==
    ASSUME IInv, NEW t \in Threads, WriteError(t) \/ ReadEof(t)
    PROVE  IInv'
<1>0. Typed /\ CallOK(t) /\ Atomic  BY DEF IInv
<1>1. PICK e \in {"EPIPE", "EPROTO", "EEOF"} :
        pc' = [pc EXCEPT ![t] = "idle"] /\ Over(t, e)
   BY DEF WriteError, ReadEof, Return, Goto
<1>2. UNCHANGED <<flags, pipeVars, pipemutex>>  BY DEF WriteError, ReadEof
<1>3. Typed'
  <2>1. flags' \in SUBSET Flags /\ pipemutex' \in {"free", "held"} /\ e \in Results
     BY <1>0, <1>2, TypesOf DEF Results
  <2> QED  BY <1>0, <1>1, <1>2, <2>1, OverTyped
<1>4. /\ \A u \in Threads \ {t} : Same(u)
      /\ CallOK(t)' /\ HoldMeans(t)' /\ pc'[t] = "idle"
   BY <1>0, <1>1, OverLocal
<1> QED  BY <1>2, <1>3, <1>4, LocalStep

\* edbs_jobterm takes the mutex and loads the flags.
LEMMA TermLoadStep ==
    ASSUME IInv, Orderly, NEW t \in Threads, ExecutorTermLoad(t)
    PROVE  IInv'
<1>0. Typed /\ CallOK(t) /\ HoldMeans(t)  BY DEF IInv
<1> USE TypesOf
<1>1. /\ pc[t] = "enter" /\ op[t] = "term"
      /\ pc' = [pc EXCEPT ![t] = "store"] /\ loaded' = [loaded EXCEPT ![t] = flags]
      /\ pipemutex' = "held" /\ UNCHANGED <<flags, pipeVars, op, count, total, ret>>
   BY DEF ExecutorTermLoad, Entered, Goto
<1>2. Typed'
  <2>1. pc' \in [Threads -> Places] /\ loaded' \in [Threads -> SUBSET Flags]
     BY <1>0, <1>1 DEF Places
  <2> QED  BY <1>0, <1>1, <2>1 DEF Typed, PipeTypeOK, Places, pipeVars
<1>3. \A u \in Threads \ {t} : Same(u)  BY <1>0, <1>1 DEF Same
<1>4. pc'[t] = "store" /\ loaded'[t] = flags  BY <1>0, <1>1
<1>5. CallOK(t)'  BY <1>0, <1>1, <1>4 DEF CallOK
<1>6. HoldMeans(t)'  BY <1>0, <1>1, <1>4 DEF HoldMeans, Hold, pipeVars
<1>7. \A u \in Threads : pc[u] \notin {"or", "store"}
   BY DEF ExecutorTermLoad, FlagsFree, Orderly
<1> QED  BY <1>1, <1>2, <1>3, <1>4, <1>5, <1>6, <1>7, LocalStep
-----------------------------------------------------------------------------
(* Steps that move bytes *)

\* Where a turn of t that has moved k bytes leaves the threads.
LEMMA MovedFacts ==
    ASSUME IInv, OneEach, NEW t \in Threads, pc[t] = "enter", op[t] \in {"read", "write"},
           NEW k \in Nat, 1 <= k, k <= count[t] - total[t], NEW ops, Moved(t, k, ops)
    PROVE  /\ UNCHANGED <<flags, pipemutex>>
           /\ pc' \in [Threads -> Places] /\ op' \in [Threads -> {"none", "read", "write", "term"}]
           /\ count' \in [Threads -> Nat] /\ total' \in [Threads -> Nat]
           /\ loaded' \in [Threads -> SUBSET Flags] /\ ret' \in [Threads -> Results]
           /\ \A u \in Threads : total'[u] <= count'[u]
           /\ \A u \in Threads : CallOK(u)'
           /\ Atomic' /\ HoldMeans(t)'
           /\ \A u \in Threads \ {t} :
                /\ op'[u] = op[u]
                /\ pc'[u] = IF pc[u] = "asleep" /\ Side(u) = Other(Side(t)) /\ op[u] \in ops
                            THEN "enter" ELSE pc[u]
<1>0. Typed /\ CallOK(t)  BY DEF IInv
<1> USE TypesOf
<1>1. flags' = flags /\ pipemutex' = pipemutex  BY DEF Moved
<1>2. PICK l \in {"wait", "idle"} :
        /\ WakeGoto(t, l, Other(Side(t)), ops)
        /\ l = "wait" => /\ total[t] + k # count[t] /\ total' = [total EXCEPT ![t] = @ + k]
                         /\ UNCHANGED <<op, count, loaded, ret>>
        /\ l = "idle" => Over(t, "OK")
   BY DEF Moved
<1>3. pc' = [u \in Threads |->
               IF u = t THEN l
               ELSE IF pc[u] = "asleep" /\ Side(u) = Other(Side(t)) /\ op[u] \in ops
                    THEN "enter" ELSE pc[u]]
  <2>1. l \in Places  BY DEF Places
  <2> QED  BY <1>0, <1>2, <2>1, WakeExact
<1>4. pc' \in [Threads -> Places] /\ pc'[t] = l  BY <1>0, <1>3 DEF Places
<1>5. \A u \in Threads \ {t} : /\ op'[u] = op[u] /\ count'[u] = count[u]
                               /\ total'[u] = total[u] /\ loaded'[u] = loaded[u]
   BY <1>0, <1>2 DEF Over
<1>6. \A u \in Threads \ {t} : pc'[u] = IF pc[u] = "asleep" /\ Side(u) = Other(Side(t)) /\ op[u] \in ops
                                        THEN "enter" ELSE pc[u]
   BY <1>3
<1>7. /\ op' \in [Threads -> {"none", "read", "write", "term"}]
      /\ count' \in [Threads -> Nat] /\ total' \in [Threads -> Nat]
      /\ loaded' \in [Threads -> SUBSET Flags]
   BY <1>0, <1>2 DEF Over
<1>8. ret' \in [Threads -> Results]  BY <1>0, <1>2 DEF Over, Typed, PipeTypeOK, Results
<1>9. IF l = "wait" THEN op'[t] = op[t] /\ total'[t] < count'[t]
      ELSE op'[t] = "none" /\ total'[t] = 0 /\ count'[t] = 0
   BY <1>0, <1>2 DEF Over
<1>10. \A u \in Threads : total'[u] <= count'[u]
  <2>1. total'[t] <= count'[t]
    <3>1. total'[t] \in Nat /\ count'[t] \in Nat  BY <1>7
    <3> QED  BY <1>9, <3>1
  <2>2. \A u \in Threads : total[u] <= count[u]  BY <1>0 DEF Typed, PipeTypeOK
  <2>3. \A u \in Threads \ {t} : total'[u] <= count'[u]  BY <1>5, <2>2
  <2> QED  BY <2>1, <2>3
<1>11. CallOK(t)'  BY <1>0, <1>1, <1>4, <1>9 DEF CallOK
<1>12. \A u \in Threads \ {t} : CallOK(u)'
  <2>1. SUFFICES ASSUME NEW u \in Threads \ {t}  PROVE CallOK(u)'  OBVIOUS
  <2>2. CallOK(u)  BY DEF IInv
  <2> QED  BY <1>1, <1>5, <1>6, <2>2 DEF CallOK
<1>13. Atomic'
  <2>1. \A u \in Threads : pc'[u] \in {"or", "store"} =>
                            u # t /\ pc[u] = pc'[u] /\ loaded'[u] = loaded[u]
     BY <1>4, <1>5, <1>6
  <2> QED  BY <1>1, <2>1 DEF IInv, Atomic
<1>14. HoldMeans(t)'  BY <1>4 DEF HoldMeans
<1> QED  BY <1>1, <1>4, <1>5, <1>6, <1>7, <1>8, <1>10, <1>11, <1>12, <1>13, <1>14

\* What is left to show of a step that moves bytes.
LEMMA TurnStep ==
    ASSUME IInv, OneEach, NEW t \in Threads, pc[t] = "enter", op[t] \in {"read", "write"},
           NEW k \in Nat, 1 <= k, k <= count[t] - total[t], NEW ops, Moved(t, k, ops),
           bytes' \in [Sides -> 0 .. Capacity], head' \in [Sides -> 0 .. Capacity - 1],
           readhold' \in [Sides -> BOOLEAN], writehold' \in [Sides -> BOOLEAN],
           exetermhold' \in BOOLEAN,
           jbuf' \in [0 .. Capacity - 1 -> (Sides \cup {"nobody"}) \X (0 .. SeqMod - 1)],
           sent' \in [Sides -> 0 .. SeqMod - 1], got' \in [Sides -> 0 .. SeqMod - 1],
           Words', Drained', HeadsApart', InOrder',
           \A u \in Threads \ {t} : HoldMeans(u)'
    PROVE  IInv'
<1>0. /\ UNCHANGED <<flags, pipemutex>>
      /\ pc' \in [Threads -> Places] /\ op' \in [Threads -> {"none", "read", "write", "term"}]
      /\ count' \in [Threads -> Nat] /\ total' \in [Threads -> Nat]
      /\ loaded' \in [Threads -> SUBSET Flags] /\ ret' \in [Threads -> Results]
      /\ \A u \in Threads : total'[u] <= count'[u]
      /\ \A u \in Threads : CallOK(u)'
      /\ Atomic' /\ HoldMeans(t)'
   BY MovedFacts
<1>1. Typed'  BY <1>0 DEF IInv, Typed, PipeTypeOK, Places, Results, Flags
<1>2. \A u \in Threads : CallOK(u)' /\ HoldMeans(u)'  BY <1>0
<1> QED  BY <1>0, <1>1, <1>2 DEF IInv

\* WriteBytes: the counts do not wrap, and the new bytes lie behind the unread ones.
LEMMA WriteStep ==
    ASSUME IInv, Orderly, NEW t \in Threads, WriteBytes(t)
    PROVE  IInv'
<1> USE SideFacts
<1> DEFINE s == Side(t)
           o == Other(s)
           b == bytes[s]
           left == count[t] - total[t]
           k == LeastOf(left, Capacity - b)
           ops == IF readhold[o] THEN {"read"} ELSE {}
<1>0. Typed /\ CallOK(t) /\ HoldMeans(t) /\ Words /\ HeadsApart /\ InOrder  BY DEF IInv
<1>1. s \in Sides /\ o \in Sides /\ s # o /\ Other(o) = s /\ \A r \in Sides : r = s \/ r = o
   OBVIOUS
<1>2. /\ pc[t] = "enter" /\ op[t] = "write" /\ "EXECUTERTERM" \notin flags /\ bytes[o] = 0
   BY DEF WriteBytes, Entered, NothingInFront
<1>3. /\ count[t] \in Nat /\ total[t] \in Nat /\ total[t] < count[t]
      /\ b \in 0 .. Capacity /\ head[s] \in 0 .. Capacity - 1 /\ head[o] \in 0 .. Capacity - 1
      /\ sent[s] \in 0 .. SeqMod - 1 /\ got[o] \in 0 .. SeqMod - 1
   BY <1>0, <1>1, <1>2, TypesOf DEF CallOK
<1>4. b < Capacity
  <2>1. ~writehold[s] /\ writehold[s] = (b = Capacity)
     BY <1>0, <1>1, <1>2 DEF HoldMeans, Hold, Words
  <2>2. b # Capacity  BY <2>1
  <2> QED  BY <1>3, <2>2
<1>5. k \in Nat /\ 1 <= k /\ k <= left /\ b + k <= Capacity  BY <1>3, <1>4 DEF LeastOf
<1>6. /\ jbuf' = [i \in 0 .. Capacity - 1 |->
                    LET j == (i + Capacity - head[s]) % Capacity
                    IN  IF j < k THEN <<s, (sent[s] + j) % SeqMod>> ELSE jbuf[i]]
      /\ bytes' = [bytes EXCEPT ![s] = (b + k) % UIntMod]
      /\ head' = [head EXCEPT ![s] = (head[s] + k) % Capacity]
      /\ sent' = [sent EXCEPT ![s] = (sent[s] + k) % SeqMod]
      /\ writehold' = [writehold EXCEPT ![s] = writehold[s] \/ b + k = Capacity]
      /\ readhold' = [readhold EXCEPT ![o] = FALSE]
      /\ exetermhold' = (s = "executor" \/ exetermhold)
      /\ Moved(t, k, ops) /\ got' = got
  <2>1. k = IF bytes[s] < Capacity THEN LeastOf(left, Capacity - bytes[s]) ELSE left  BY <1>4
  <2> DEFINE kk == IF bytes[s] < Capacity THEN LeastOf(left, Capacity - bytes[s]) ELSE left
  <2>2. jbuf' = [i \in 0 .. Capacity - 1 |->
                    LET j == (i + Capacity - head[s]) % Capacity
                    IN  IF j < kk THEN <<s, (sent[s] + j) % SeqMod>> ELSE jbuf[i]]
     BY DEF WriteBytes
  <2>2a. /\ bytes' = [bytes EXCEPT ![s] = (@ + kk) % UIntMod]
        /\ head' = [head EXCEPT ![s] = (@ + kk) % Capacity]
        /\ sent' = [sent EXCEPT ![s] = (@ + kk) % SeqMod]
        /\ writehold' = [writehold EXCEPT ![s] = @ \/ Full(bytes[s] + kk)]
        /\ readhold' = ReadHoldCleared(o)
        /\ exetermhold' = (s = "executor" \/ exetermhold)
        /\ UNCHANGED got
     BY DEF WriteBytes
  <2>2b. Moved(t, kk, ops)
     BY DEF WriteBytes
  <2> HIDE DEF s, o, left, k, ops, kk
  <2>3. kk = k  BY <2>1 DEF kk
  <2> QED  BY <1>0, <1>1, <2>2, <2>2a, <2>2b, <2>3, TypesOf DEF Full, ReadHoldCleared
<1> HIDE DEF s, o, b, left, k, ops
<1>7. flags' = flags  BY <1>6 DEF Moved
<1>8. (b + k) % UIntMod = b + k
  <2> DEFINE w == b + k
  <2>1. w \in Nat /\ w < UIntMod /\ UIntMod \in Nat \ {0} /\ w < 2 * UIntMod
     BY <1>3, <1>5
  <2> HIDE DEF w
  <2>2. w % UIntMod = w  BY <2>1, Wrap
  <2> QED  BY <2>2 DEF w
<1>9. /\ bytes' \in [Sides -> 0 .. Capacity] /\ bytes'[s] = b + k /\ bytes'[o] = 0
      /\ b + k # 0
  <2>1. b + k \in 0 .. Capacity /\ b + k # 0  BY <1>3, <1>5
  <2> QED  BY <1>0, <1>1, <1>2, <1>6, <1>8, <2>1, TypesOf
<1>10. /\ head' \in [Sides -> 0 .. Capacity - 1]
       /\ head'[s] = (head[s] + k) % Capacity /\ head'[o] = head[o]
  <2>1. (head[s] + k) % Capacity \in 0 .. Capacity - 1
    <3>1. head[s] + k \in Nat  BY <1>3, <1>5
    <3> QED  BY <3>1
  <2> QED  BY <1>0, <1>1, <1>6, <2>1, TypesOf
<1>11. /\ sent' \in [Sides -> 0 .. SeqMod - 1] /\ got' \in [Sides -> 0 .. SeqMod - 1]
       /\ sent'[s] = (sent[s] + k) % SeqMod /\ sent'[o] = sent[o]
  <2>1. (sent[s] + k) % SeqMod \in 0 .. SeqMod - 1
    <3>1. sent[s] + k \in Nat  BY <1>3, <1>5
    <3> QED  BY <3>1
  <2> QED  BY <1>0, <1>1, <1>6, <2>1, TypesOf
<1>12. /\ writehold' \in [Sides -> BOOLEAN] /\ readhold' \in [Sides -> BOOLEAN]
       /\ exetermhold' \in BOOLEAN
       /\ writehold'[s] = (writehold[s] \/ b + k = Capacity) /\ writehold'[o] = writehold[o]
       /\ readhold'[o] = FALSE /\ readhold'[s] = readhold[s]
  <2> DEFINE x == writehold[s] \/ b + k = Capacity
  <2>1. /\ writehold' = [writehold EXCEPT ![s] = x] /\ readhold' = [readhold EXCEPT ![o] = FALSE]
        /\ exetermhold' = (s = "executor" \/ exetermhold)
     BY <1>6
  <2>2. /\ readhold \in [Sides -> BOOLEAN] /\ writehold \in [Sides -> BOOLEAN]
        /\ x \in BOOLEAN
     BY <1>0, TypesOf
  <2> HIDE DEF x
  <2>3. writehold' \in [Sides -> BOOLEAN] /\ writehold'[s] = x /\ writehold'[o] = writehold[o]
     BY <1>1, <2>1, <2>2
  <2>4. readhold' \in [Sides -> BOOLEAN] /\ readhold'[o] = FALSE /\ readhold'[s] = readhold[s]
     BY <1>1, <2>1, <2>2
  <2>5. exetermhold' \in BOOLEAN  BY <2>1
  <2> QED  BY <2>3, <2>4, <2>5 DEF x
<1> DEFINE far(i) == (i + Capacity - head[s]) % Capacity
<1>12a. jbuf' = [i \in 0 .. Capacity - 1 |->
                   IF far(i) < k THEN <<s, (sent[s] + far(i)) % SeqMod>> ELSE jbuf[i]]
   BY <1>6, Zenon
<1>12b. ASSUME NEW i \in 0 .. Capacity - 1  PROVE far(i) \in Nat
  <2>1. i + Capacity - head[s] \in Nat  BY <1>3
  <2> QED  BY <2>1
<1> HIDE DEF far
<1>13. jbuf' \in [0 .. Capacity - 1 -> (Sides \cup {"nobody"}) \X (0 .. SeqMod - 1)]
  <2>1. ASSUME NEW i \in 0 .. Capacity - 1
        PROVE  (sent[s] + far(i)) % SeqMod \in 0 .. SeqMod - 1
    <3>1. sent[s] + far(i) \in Nat  BY <1>3, <1>12b
    <3> QED  BY <3>1
  <2>2. jbuf \in [0 .. Capacity - 1 -> (Sides \cup {"nobody"}) \X (0 .. SeqMod - 1)]
     BY <1>0 DEF Typed, PipeTypeOK
  <2> QED  BY <1>1, <1>12a, <2>1, <2>2
<1>14. Words'
  <2>1. \A r \in Sides : /\ readhold'[r] = (bytes'[Other(r)] = 0)
                         /\ writehold'[r] = (bytes'[r] = Capacity)
    <3>1. /\ readhold[s] = (bytes[o] = 0) /\ writehold[s] = (bytes[s] = Capacity)
          /\ writehold[o] = (bytes[o] = Capacity)
       BY <1>0, <1>1, <1>2 DEF Words, o
    <3>2. b # Capacity  BY <1>3, <1>4
    <3>2a. writehold[s] = FALSE  BY <3>1, <3>2 DEF b
    <3>3. readhold'[s] = (bytes'[o] = 0) /\ readhold'[o] = (bytes'[s] = 0)
       BY <1>2, <1>9, <1>12, <3>1
    <3>4. writehold'[s] = (bytes'[s] = Capacity) /\ writehold'[o] = (bytes'[o] = Capacity)
       BY <1>2, <1>9, <1>12, <3>1, <3>2a
    <3> QED  BY <1>1, <3>3, <3>4 DEF o
  <2>2. exetermhold' = (bytes'["executor"] # 0)
    <3>1. exetermhold = (bytes["executor"] # 0)  BY <1>0 DEF Words
    <3>2. CASE s = "executor"  BY <1>6, <1>9, <3>2
    <3>3. CASE s # "executor"
      <4>1. o = "executor"  BY <1>1, <3>3
      <4> QED  BY <1>2, <1>6, <1>9, <3>1, <3>3, <4>1
    <3> QED  BY <3>2, <3>3
  <2> QED  BY <2>1, <2>2 DEF Words
<1>15. Drained'  BY <1>2, <1>7 DEF Drained
<1>16. head[s] = (head[o] + b) % Capacity  BY <1>0, <1>1, <1>2 DEF HeadsApart, o, b
<1>17. HeadsApart'
  <2>1. head'[s] = (head'[o] + bytes'[s]) % Capacity
    <3>1. (((head[o] + b) % Capacity) + k) % Capacity = (head[o] + (b + k)) % Capacity
       BY <1>3, <1>5, WrapTwice
    <3> QED  BY <1>9, <1>10, <1>16, <3>1
  <2> QED  BY <1>1, <1>9, <2>1 DEF HeadsApart, o
<1>18. sent[s] = (got[o] + b) % SeqMod /\ (got[s] + bytes[o]) % SeqMod = sent[o]
   BY <1>0, <1>1 DEF InOrder, o, b
<1>19. ASSUME NEW i \in 0 .. b + k - 1
       PROVE  jbuf'[(head[o] + i) % Capacity] = <<s, (got[o] + i) % SeqMod>>
  <2> DEFINE x == (head[o] + i) % Capacity
  <2>0. i \in 0 .. Capacity - 1 /\ b \in 0 .. Capacity - 1  BY <1>3, <1>4, <1>5
  <2>1. x \in 0 .. Capacity - 1
    <3>1. head[o] + i \in Nat  BY <1>3, <2>0
    <3> QED  BY <3>1
  <2>2. far(x) = IF b <= i THEN i - b ELSE i - b + Capacity
    <3>0. i \in 0 .. Capacity /\ b \in 0 .. Capacity /\ Capacity \in Nat \ {0}  BY <2>0
    <3>1. x = IF head[o] + i < Capacity THEN head[o] + i ELSE head[o] + i - Capacity
      <4> DEFINE h == head[o]
      <4>1. h \in 0 .. Capacity - 1  BY <1>3
      <4> HIDE DEF h
      <4>2. (h + i) % Capacity = IF h + i < Capacity THEN h + i ELSE h + i - Capacity
         BY ONLY <3>0, <4>1, WrapSum
      <4> QED  BY ONLY <4>2 DEF h, x
    <3>2. head[s] = IF head[o] + b < Capacity THEN head[o] + b ELSE head[o] + b - Capacity
      <4> DEFINE h == head[o]
      <4>1. h \in 0 .. Capacity - 1  BY <1>3
      <4> HIDE DEF h
      <4>2. (h + b) % Capacity = IF h + b < Capacity THEN h + b ELSE h + b - Capacity
         BY ONLY <3>0, <4>1, WrapSum
      <4> QED  BY <1>16, <4>2 DEF h
    <3> DEFINE w == x + Capacity - head[s]
    <3> HIDE DEF x
    <3>3. w = i - b + Capacity \/ w = i - b \/ w = i - b + 2 * Capacity
       BY <1>3, <2>0, <3>1, <3>2
    <3>4. w \in Nat /\ w < 2 * Capacity  BY <1>3, <2>0, <2>1, <3>1, <3>2
    <3>5. far(x) = w % Capacity  BY DEF far
    <3> HIDE DEF w
    <3>6. w % Capacity = IF w < Capacity THEN w ELSE w - Capacity  BY <3>0, <3>4, Wrap
    <3> QED  BY <2>0, <3>3, <3>4, <3>5, <3>6
  <2> HIDE DEF x
  <2>3. jbuf'[x] = IF far(x) < k THEN <<s, (sent[s] + far(x)) % SeqMod>> ELSE jbuf[x]
     BY <1>12a, <2>1
  <2>4. CASE b <= i
    <3> DEFINE d == i - b
    <3>1. far(x) = d /\ d < k /\ d \in Nat /\ b + d <= SeqMod /\ b + d = i
       BY <1>3, <1>5, <2>0, <2>2, <2>4
    <3> HIDE DEF d
    <3>2. (((got[o] + b) % SeqMod) + d) % SeqMod = (got[o] + (b + d)) % SeqMod
       BY <1>3, <3>1, WrapTwice
    <3> QED  BY <1>18, <2>3, <3>1, <3>2 DEF x
  <2>5. CASE ~(b <= i)
    <3>1. ~(far(x) < k) /\ i \in 0 .. b - 1  BY <1>3, <1>5, <2>0, <2>2, <2>5
    <3>2. jbuf[x] = <<s, (got[o] + i) % SeqMod>>
       BY <1>0, <1>1, <3>1 DEF InOrder, o, b, x
    <3> QED  BY <2>3, <3>1, <3>2 DEF x
  <2> QED  BY <2>4, <2>5
<1>20. InOrder'
  <2>1. (got'[o] + bytes'[s]) % SeqMod = sent'[s]
    <3>1. (((got[o] + b) % SeqMod) + k) % SeqMod = (got[o] + (b + k)) % SeqMod
      <4>1. b \in Nat /\ b + k <= SeqMod  BY <1>3, <1>5
      <4> QED  BY <1>3, <1>5, <4>1, WrapTwice
    <3> QED  BY <1>6, <1>9, <1>11, <1>18, <3>1
  <2>2. \A i \in 0 .. bytes'[s] - 1 :
          jbuf'[(head'[o] + i) % Capacity] = <<s, (got'[o] + i) % SeqMod>>
    <3>1. head'[o] = head[o] /\ got' = got /\ bytes'[s] = b + k  BY <1>6, <1>9, <1>10
    <3> SUFFICES ASSUME NEW i \in 0 .. bytes'[s] - 1
                 PROVE  jbuf'[(head'[o] + i) % Capacity] = <<s, (got'[o] + i) % SeqMod>>
       OBVIOUS
    <3>2. i \in 0 .. b + k - 1  BY <1>3, <1>5, <3>1
    <3>3. jbuf'[(head[o] + i) % Capacity] = <<s, (got[o] + i) % SeqMod>>  BY <1>19, <3>2
    <3> QED  BY <3>1, <3>3
  <2>3. (got'[s] + bytes'[o]) % SeqMod = sent'[o]  BY <1>2, <1>6, <1>9, <1>11, <1>18
  <2>4. \A i \in 0 .. bytes'[o] - 1 :
          jbuf'[(head'[s] + i) % Capacity] = <<o, (got'[s] + i) % SeqMod>>
     BY <1>9
  <2>5. bytes'["installer"] = 0 \/ bytes'["executor"] = 0  BY <1>1, <1>9
  <2>6. Other(s) = o  BY DEF o
  <2> HIDE DEF SideFacts
  <2> QED  BY <1>1, <2>1, <2>2, <2>3, <2>4, <2>5, <2>6 DEF InOrder
<1>21. ASSUME NEW u \in Threads \ {t}  PROVE HoldMeans(u)'
  <2>1. Side(u) = o /\ Side(u) # s  BY <1>1 DEF Orderly, OneEach, s, o
  <2>2. /\ op'[u] = op[u]
        /\ pc'[u] = IF pc[u] = "asleep" /\ op[u] \in ops THEN "enter" ELSE pc[u]
    <3>1. 1 <= k /\ k <= count[t] - total[t] /\ k \in Nat  BY <1>5 DEF left
    <3> QED  BY <1>2, <1>6, <2>1, <3>1, MovedFacts DEF Orderly, o, s
  <2>3. HoldMeans(u) /\ CallOK(u) /\ op[u] \in {"none", "read", "write", "term"}
     BY TypesOf, <1>0 DEF IInv
  <2>4. CASE op[u] = "read"
     BY <1>12, <2>1, <2>2, <2>3, <2>4 DEF HoldMeans, Hold, ops
  <2>5. CASE op[u] = "write"
     BY <1>12, <2>1, <2>2, <2>3, <2>5 DEF HoldMeans, Hold, ops
  <2>6. CASE op[u] \in {"none", "term"}
    <3>1. pc[u] \in {"asleep", "enter", "store"} => u \in Executors
       BY <2>3, <2>6 DEF CallOK
    <3>2. u \in Executors => exetermhold' = exetermhold
      <4>1. u \in Executors => s # "executor"  BY <2>1
      <4>2. exetermhold \in BOOLEAN  BY <1>0, TypesOf
      <4> QED  BY <1>6, <4>1, <4>2
    <3>3. pc'[u] = pc[u]  BY <2>2, <2>6 DEF ops
    <3> QED  BY <2>2, <2>3, <2>6, <3>1, <3>2, <3>3 DEF HoldMeans, Hold
  <2> QED  BY <2>3, <2>4, <2>5, <2>6
<1>22. 1 <= k /\ k <= count[t] - total[t] /\ k \in Nat  BY <1>5 DEF left
<1> QED  BY <1>2, <1>6, <1>9, <1>10, <1>11, <1>12, <1>13, <1>14, <1>15, <1>17, <1>20, <1>21,
            <1>22, TurnStep DEF Orderly

\* ReadBytes: it finds bytes to read, in the order in which they were written.
LEMMA ReadStep ==
    ASSUME IInv, Orderly, NEW t \in Threads, ReadBytes(t)
    PROVE  IInv'
<1> USE SideFacts
<1> DEFINE s == Side(t)
           o == Other(s)
           b == bytes[o]
           left == count[t] - total[t]
           k == LeastOf(left, b)
           ops == IF s = "installer" /\ b - k = 0 THEN {"write", "term"} ELSE {"write"}
<1>0. Typed /\ CallOK(t) /\ HoldMeans(t) /\ Words /\ HeadsApart /\ InOrder /\ Drained
   BY DEF IInv
<1>1. s \in Sides /\ o \in Sides /\ s # o /\ Other(o) = s /\ \A r \in Sides : r = s \/ r = o
   OBVIOUS
<1>2. pc[t] = "enter" /\ op[t] = "read" /\ ~AtEof(t)  BY DEF ReadBytes, Entered
<1>3. "EXECUTERTERM" \notin flags
  <2>1. SUFFICES ASSUME "EXECUTERTERM" \in flags  PROVE FALSE  OBVIOUS
  <2>2. o = "executor"  BY <1>0, <1>2, <2>1 DEF CallOK
  <2> QED  BY <1>0, <1>2, <2>1, <2>2 DEF Drained, AtEof
<1>4. /\ count[t] \in Nat /\ total[t] \in Nat /\ total[t] < count[t]
      /\ b \in 0 .. Capacity /\ head[s] \in 0 .. Capacity - 1 /\ head[o] \in 0 .. Capacity - 1
      /\ got[s] \in 0 .. SeqMod - 1
   BY <1>0, <1>1, <1>2, TypesOf DEF CallOK
<1>5. 0 < b
  <2>1. ~readhold[s] /\ readhold[s] = (b = 0)
     BY <1>0, <1>1, <1>2, <1>3 DEF HoldMeans, Hold, Words
  <2>2. b # 0  BY <2>1
  <2> QED  BY <1>4, <2>2
<1>5a. bytes[s] = 0  BY <1>0, <1>1, <1>5 DEF InOrder
<1>6. k \in Nat /\ 1 <= k /\ k <= left /\ k <= b /\ b - k \in 0 .. Capacity - 1
   BY <1>4, <1>5 DEF LeastOf
<1>7. (b + UIntMod - k) % UIntMod = b - k
  <2> DEFINE w == b + UIntMod - k
  <2>1. w \in Nat /\ ~(w < UIntMod) /\ UIntMod \in Nat \ {0} /\ w < 2 * UIntMod
     BY <1>4, <1>6
  <2>1a. w - UIntMod = b - k  BY <1>4, <1>6
  <2> HIDE DEF w
  <2>2. w % UIntMod = w - UIntMod  BY <2>1, Wrap
  <2> QED  BY <2>1a, <2>2 DEF w
<1>8. /\ bytes' = [bytes EXCEPT ![o] = b - k]
      /\ head' = [head EXCEPT ![s] = (head[s] + k) % Capacity]
      /\ got' = [got EXCEPT ![s] = (got[s] + k) % SeqMod]
      /\ readhold' = [readhold EXCEPT ![s] = readhold[s] \/ b - k = 0]
      /\ writehold' = [writehold EXCEPT ![o] = FALSE]
      /\ exetermhold' = (exetermhold /\ ~(s = "installer" /\ b - k = 0))
      /\ Moved(t, k, ops) /\ jbuf' = jbuf /\ sent' = sent
  <2> DEFINE kk == IF bytes[o] > 0 THEN LeastOf(left, bytes[o]) ELSE left
             unread == (bytes[o] + UIntMod - kk) % UIntMod
  <2>1. /\ bytes' = [bytes EXCEPT ![o] = unread]
        /\ head' = [head EXCEPT ![s] = (@ + kk) % Capacity]
        /\ got' = [got EXCEPT ![s] = (@ + kk) % SeqMod]
        /\ readhold' = [readhold EXCEPT ![s] = @ \/ unread = 0]
        /\ writehold' = WriteHoldCleared(o)
        /\ exetermhold' = (exetermhold /\ ~(s = "installer" /\ AllRead(unread)))
        /\ UNCHANGED <<jbuf, sent>>
     BY DEF ReadBytes
  <2>2. Moved(t, kk, IF s = "installer" /\ AllRead(unread) THEN {"write", "term"} ELSE {"write"})
     BY DEF ReadBytes
  <2>3. kk = k  BY <1>4, <1>5
  <2> HIDE DEF kk
  <2>4. unread = b - k  BY <1>7, <2>3
  <2> HIDE DEF unread, s, o, left, k
  <2> QED  BY <1>0, <1>1, <2>1, <2>2, <2>3, <2>4, TypesOf DEF AllRead, WriteHoldCleared
<1> HIDE DEF s, o, b, left, k, ops
<1>9. flags' = flags  BY <1>8 DEF Moved
<1>10. bytes' \in [Sides -> 0 .. Capacity] /\ bytes'[o] = b - k /\ bytes'[s] = 0
  <2>1. b - k \in 0 .. Capacity  BY <1>4, <1>6
  <2> QED  BY <1>0, <1>1, <1>5a, <1>8, <2>1, TypesOf
<1>11. /\ head' \in [Sides -> 0 .. Capacity - 1]
       /\ head'[s] = (head[s] + k) % Capacity /\ head'[o] = head[o]
  <2>1. (head[s] + k) % Capacity \in 0 .. Capacity - 1
    <3>1. head[s] + k \in Nat  BY <1>4, <1>6
    <3> QED  BY <3>1
  <2> QED  BY <1>0, <1>1, <1>8, <2>1, TypesOf
<1>12. /\ got' \in [Sides -> 0 .. SeqMod - 1] /\ sent' \in [Sides -> 0 .. SeqMod - 1]
       /\ got'[s] = (got[s] + k) % SeqMod /\ got'[o] = got[o]
  <2>1. (got[s] + k) % SeqMod \in 0 .. SeqMod - 1
    <3>1. got[s] + k \in Nat  BY <1>4, <1>6
    <3> QED  BY <3>1
  <2> QED  BY <1>0, <1>1, <1>8, <2>1, TypesOf
<1>13. /\ readhold' \in [Sides -> BOOLEAN] /\ writehold' \in [Sides -> BOOLEAN]
       /\ exetermhold' \in BOOLEAN
       /\ readhold'[s] = (readhold[s] \/ b - k = 0) /\ readhold'[o] = readhold[o]
       /\ writehold'[o] = FALSE /\ writehold'[s] = writehold[s]
   BY <1>0, <1>1, <1>8, TypesOf
<1>14. jbuf' \in [0 .. Capacity - 1 -> (Sides \cup {"nobody"}) \X (0 .. SeqMod - 1)]
   BY <1>0, <1>8 DEF Typed, PipeTypeOK
<1>15. Words'
  <2>1. \A r \in Sides : /\ readhold'[r] = (bytes'[Other(r)] = 0)
                         /\ writehold'[r] = (bytes'[r] = Capacity)
    <3>1. /\ readhold[s] = (bytes[o] = 0) /\ readhold[o] = (bytes[s] = 0)
          /\ writehold[s] = (bytes[s] = Capacity)
       BY <1>0, <1>1, <1>3 DEF Words, o
    <3>2. b # 0 /\ b - k # Capacity  BY <1>4, <1>5, <1>6
    <3>2a. readhold[s] = FALSE  BY <3>1, <3>2 DEF b
    <3>3. readhold'[s] = (bytes'[o] = 0) /\ readhold'[o] = (bytes'[s] = 0)
       BY <1>5a, <1>10, <1>13, <3>1, <3>2a
    <3>4. writehold'[s] = (bytes'[s] = Capacity) /\ writehold'[o] = (bytes'[o] = Capacity)
       BY <1>5a, <1>10, <1>13, <3>1, <3>2
    <3> QED  BY <1>1, <3>3, <3>4 DEF o
  <2>2. exetermhold' = (bytes'["executor"] # 0)
    <3>1. exetermhold = (bytes["executor"] # 0)  BY <1>0 DEF Words
    <3>2. CASE s = "executor"  BY <1>5a, <1>8, <1>10, <3>1, <3>2
    <3>3. CASE s # "executor"
      <4>1. o = "executor" /\ s = "installer"  BY <1>1, <3>3
      <4>2. exetermhold = TRUE
        <5>1. b # 0  BY <1>4, <1>5
        <5> QED  BY <3>1, <4>1, <5>1 DEF b
      <4> QED  BY <1>8, <1>10, <4>1, <4>2
    <3> QED  BY <3>2, <3>3
  <2> QED  BY <2>1, <2>2 DEF Words
<1>16. Drained'  BY <1>3, <1>9 DEF Drained
<1> DEFINE r == b - k
<1>17. r \in Nat /\ k + r = b /\ b <= SeqMod /\ b <= Capacity /\ bytes'[o] = r
   BY <1>4, <1>6, <1>10
<1> HIDE DEF r
<1>18. head[o] = (head[s] + b) % Capacity  BY <1>0, <1>1, <1>5a DEF HeadsApart, b
<1>19. HeadsApart'
  <2>1. head'[o] = (head'[s] + bytes'[o]) % Capacity
    <3>1. (((head[s] + k) % Capacity) + r) % Capacity = (head[s] + (k + r)) % Capacity
      <4> DEFINE h == head[s]
      <4>1. /\ Capacity \in Nat \ {0} /\ k \in Nat /\ r \in Nat
            /\ h \in 0 .. Capacity - 1 /\ k + r <= Capacity
         BY <1>4, <1>6, <1>17
      <4> HIDE DEF h
      <4>2. (((h + k) % Capacity) + r) % Capacity = (h + (k + r)) % Capacity  BY <4>1, WrapTwice
      <4> QED  BY <4>2 DEF h
    <3> QED  BY <1>11, <1>17, <1>18, <3>1
  <2>2. ASSUME bytes'[o] = 0  PROVE head'[s] = (head'[o] + bytes'[s]) % Capacity
    <3>1. head'[s] = head[o] /\ head[o] \in 0 .. Capacity - 1
       BY <1>4, <1>6, <1>11, <1>17, <1>18, <2>2
    <3>2. head[o] + 0 = head[o] /\ head[o] % Capacity = head[o]
      <4> DEFINE h == head[o]
      <4>1. h \in Nat /\ h < Capacity /\ h < 2 * Capacity /\ h + 0 = h  BY <3>1
      <4> HIDE DEF h
      <4>2. h % Capacity = h  BY <4>1, Wrap
      <4> QED  BY <4>1, <4>2 DEF h
    <3> QED  BY <1>10, <1>11, <3>1, <3>2
  <2> QED  BY <1>1, <1>10, <2>1, <2>2 DEF HeadsApart, o
<1>20. InOrder'
  <2>1. (got'[s] + bytes'[o]) % SeqMod = sent'[o]
    <3>1. (((got[s] + k) % SeqMod) + r) % SeqMod = (got[s] + (k + r)) % SeqMod
      <4> DEFINE g == got[s]
      <4>1. /\ SeqMod \in Nat \ {0} /\ k \in Nat /\ r \in Nat
            /\ g \in 0 .. SeqMod - 1 /\ k + r <= SeqMod
         BY <1>4, <1>6, <1>17
      <4> HIDE DEF g
      <4>2. (((g + k) % SeqMod) + r) % SeqMod = (g + (k + r)) % SeqMod  BY <4>1, WrapTwice
      <4> QED  BY <4>2 DEF g
    <3>2. (got[s] + b) % SeqMod = sent[o]  BY <1>0, <1>1 DEF InOrder, b
    <3> QED  BY <1>8, <1>12, <1>17, <3>1, <3>2
  <2>2. ASSUME NEW i \in 0 .. bytes'[o] - 1
        PROVE  jbuf'[(head'[s] + i) % Capacity] = <<o, (got'[s] + i) % SeqMod>>
    <3> DEFINE j == k + i
    <3>1. i \in Nat /\ j \in 0 .. b - 1 /\ j <= SeqMod /\ j <= Capacity
       BY <1>4, <1>6, <1>17
    <3>2. /\ (((head[s] + k) % Capacity) + i) % Capacity = (head[s] + (k + i)) % Capacity
          /\ (((got[s] + k) % SeqMod) + i) % SeqMod = (got[s] + (k + i)) % SeqMod
       BY <1>4, <1>6, <3>1, WrapTwice
    <3>2a. /\ (((head[s] + k) % Capacity) + i) % Capacity = (head[s] + j) % Capacity
           /\ (((got[s] + k) % SeqMod) + i) % SeqMod = (got[s] + j) % SeqMod
       BY <3>2
    <3> HIDE DEF j
    <3>3. jbuf[(head[s] + j) % Capacity] = <<o, (got[s] + j) % SeqMod>>
      <4>1. \A y \in 0 .. bytes[o] - 1 :
              jbuf[(head[Other(o)] + y) % Capacity] = <<o, (got[Other(o)] + y) % SeqMod>>
         BY <1>0, <1>1, Zenon DEF InOrder
      <4>2. j \in 0 .. bytes[o] - 1  BY <3>1 DEF b
      <4> QED  BY <1>1, <4>1, <4>2, Zenon
    <3> QED  BY <1>8, <1>11, <1>12, <3>2a, <3>3
  <2>3. (got'[o] + bytes'[s]) % SeqMod = sent'[s]
    <3>1. (got[o] + bytes[s]) % SeqMod = sent[s]  BY <1>0, <1>1 DEF InOrder, o
    <3> QED  BY <1>5a, <1>8, <1>10, <1>12, <3>1
  <2>4. \A i \in 0 .. bytes'[s] - 1 :
          jbuf'[(head'[o] + i) % Capacity] = <<s, (got'[o] + i) % SeqMod>>
     BY <1>10
  <2>5. bytes'["installer"] = 0 \/ bytes'["executor"] = 0  BY <1>1, <1>10
  <2>6. Other(s) = o  BY DEF o
  <2> QED  BY <1>1, <2>1, <2>2, <2>3, <2>4, <2>5, <2>6 DEF InOrder
<1>21. ASSUME NEW u \in Threads \ {t}  PROVE HoldMeans(u)'
  <2>1. Side(u) = o /\ Side(u) # s  BY <1>1 DEF Orderly, OneEach, s, o
  <2>2. /\ op'[u] = op[u]
        /\ pc'[u] = IF pc[u] = "asleep" /\ op[u] \in ops THEN "enter" ELSE pc[u]
    <3>1. 1 <= k /\ k <= count[t] - total[t] /\ k \in Nat  BY <1>6 DEF left
    <3> QED  BY <1>2, <1>8, <2>1, <3>1, MovedFacts DEF Orderly, o, s
  <2>3. HoldMeans(u) /\ CallOK(u) /\ op[u] \in {"none", "read", "write", "term"}
     BY TypesOf, <1>0 DEF IInv
  <2>4. CASE op[u] = "read"
     BY <1>13, <2>1, <2>2, <2>3, <2>4 DEF HoldMeans, Hold, ops
  <2>5. CASE op[u] = "write"
     BY <1>13, <2>1, <2>2, <2>3, <2>5 DEF HoldMeans, Hold, ops
  <2>6. CASE op[u] \in {"none", "term"}
    <3>1. pc[u] \in {"asleep", "enter", "store"} => u \in Executors /\ op[u] = "term"
       BY <2>3, <2>6 DEF CallOK
    <3>2. CASE s = "installer" /\ b - k = 0
      <4>1. exetermhold' = FALSE  BY <1>8, <3>2
      <4>2. pc'[u] # "asleep"  BY <2>2, <3>1, <3>2 DEF ops
      <4> QED  BY <2>2, <2>6, <4>1, <4>2 DEF HoldMeans, Hold
    <3>3. CASE ~(s = "installer" /\ b - k = 0)
      <4>1. exetermhold' = exetermhold
        <5>1. exetermhold \in BOOLEAN  BY <1>0, TypesOf
        <5> QED  BY <1>8, <3>3, <5>1
      <4>2. pc'[u] = pc[u]  BY <2>2, <2>6, <3>3 DEF ops
      <4> QED  BY <2>2, <2>3, <2>6, <4>1, <4>2 DEF HoldMeans, Hold
    <3> QED  BY <3>2, <3>3
  <2> QED  BY <2>3, <2>4, <2>5, <2>6
<1>22. 1 <= k /\ k <= count[t] - total[t] /\ k \in Nat  BY <1>6 DEF left
<1> QED  BY <1>2, <1>8, <1>10, <1>11, <1>12, <1>13, <1>14, <1>15, <1>16, <1>19, <1>20, <1>21,
            <1>22, TurnStep DEF Orderly

\* edbs_jobterm stores the flag and lets the reader go: nothing is left to read.
LEMMA TermStoreStep ==
    ASSUME IInv, Orderly, NEW t \in Threads, ExecutorTermStore(t)
    PROVE  IInv'
<1> USE SideFacts
<1>0. Typed /\ CallOK(t) /\ HoldMeans(t) /\ Atomic /\ Words  BY DEF IInv
<1>1. /\ pc[t] = "store" /\ flags' = loaded[t] \cup {"EXECUTERTERM"}
      /\ readhold' = [readhold EXCEPT !["installer"] = FALSE]
      /\ WakeGoto(t, "idle", "installer", {"read"}) /\ Over(t, "OK") /\ pipemutex' = "free"
      /\ UNCHANGED <<bytes, head, writehold, exetermhold, jbuf, sent, got>>
   BY DEF ExecutorTermStore, Ored
<1>2. t \in Executors /\ op[t] = "term" /\ loaded[t] = flags
   BY <1>0, <1>1 DEF CallOK, Atomic
<1>3. bytes["executor"] = 0
  <2>1. ~exetermhold  BY <1>0, <1>1, <1>2 DEF HoldMeans, Hold
  <2> QED  BY <1>0, <2>1 DEF Words
<1>4. pc' = [u \in Threads |->
               IF u = t THEN "idle"
               ELSE IF pc[u] = "asleep" /\ Side(u) = "installer" /\ op[u] \in {"read"}
                    THEN "enter" ELSE pc[u]]
   BY <1>0, <1>1, TypesOf, WakeExact DEF Orderly, Places
<1>5. /\ pc' \in [Threads -> Places] /\ pc'[t] = "idle"
      /\ \A u \in Threads \ {t} :
           pc'[u] = IF pc[u] = "asleep" /\ Side(u) = "installer" /\ op[u] = "read"
                    THEN "enter" ELSE pc[u]
   BY <1>0, <1>4, TypesOf DEF Places
<1>6. /\ op' \in [Threads -> {"none", "read", "write", "term"}] /\ op'[t] = "none"
      /\ count' \in [Threads -> Nat] /\ total' \in [Threads -> Nat]
      /\ loaded' \in [Threads -> SUBSET Flags]
      /\ \A u \in Threads \ {t} : /\ op'[u] = op[u] /\ count'[u] = count[u]
                                 /\ total'[u] = total[u] /\ loaded'[u] = loaded[u]
   BY <1>0, <1>1, TypesOf DEF Over
<1>7. flags' \in SUBSET Flags /\ "EXECUTERTERM" \in flags'
   BY <1>0, <1>1, <1>2, TypesOf DEF Flags
<1>8. Typed'
  <2>1. \A u \in Threads : total'[u] <= count'[u]
     BY <1>0, <1>1 DEF Over, Typed, PipeTypeOK
  <2>2. ret' \in [Threads -> Results]
     BY <1>0, <1>1 DEF Over, Typed, PipeTypeOK, Results
  <2>3. readhold' \in [Sides -> BOOLEAN]  BY <1>0, <1>1, TypesOf
  <2> QED  BY <1>0, <1>1, <1>5, <1>6, <1>7, <2>1, <2>2, <2>3
              DEF Typed, PipeTypeOK, Places, Flags, Results
<1>9. \A u \in Threads \ {t} : u \notin Executors /\ Side(u) = "installer"
   BY <1>2 DEF Orderly, OneEach
<1>10. ASSUME NEW u \in Threads  PROVE CallOK(u)' /\ HoldMeans(u)'
  <2>1. CASE u = t  BY <1>5, <1>6, <2>1 DEF CallOK, HoldMeans
  <2>2. CASE u # t
    <3>1. CallOK(u) /\ HoldMeans(u) /\ u \notin Executors /\ Side(u) = "installer"
       BY <1>9, <2>2 DEF IInv
    <3>2. /\ op'[u] = op[u] /\ count'[u] = count[u] /\ total'[u] = total[u]
          /\ pc'[u] = IF pc[u] = "asleep" /\ op[u] = "read" THEN "enter" ELSE pc[u]
       BY <1>5, <1>6, <2>2, <3>1
    <3>3. CallOK(u)'  BY <3>1, <3>2 DEF CallOK
    <3>4. HoldMeans(u)'
      <4>1. readhold'["installer"] = FALSE /\ writehold' = writehold /\ exetermhold' = exetermhold
         BY <1>0, <1>1, TypesOf
      <4> QED  BY <3>1, <3>2, <4>1 DEF HoldMeans, Hold
    <3> QED  BY <3>3, <3>4
  <2> QED  BY <2>1, <2>2
<1>11. Atomic'
  <2>1. \A u \in Threads : pc'[u] \notin {"or", "store"}
    <3>1. \A u \in Threads \ {t} : pc[u] \notin {"or", "store"}  BY <1>0, <1>1 DEF Atomic
    <3> QED  BY <1>5, <3>1
  <2> QED  BY <2>1 DEF Atomic
<1>12. Words' /\ Drained'  BY <1>0, <1>1, <1>3, <1>7 DEF Words, Drained
<1>13. HeadsApart' /\ InOrder'
  <2>1. bytes' = bytes /\ head' = head /\ jbuf' = jbuf /\ sent' = sent /\ got' = got  BY <1>1
  <2>2. HeadsApart'  BY <2>1 DEF IInv, HeadsApart
  <2>3. InOrder'  BY <2>1 DEF IInv, InOrder
  <2> QED  BY <2>2, <2>3
<1> QED  BY <1>8, <1>10, <1>11, <1>12, <1>13 DEF IInv

\* An empty transfer buffer.
LEMMA EmptyRing ==
    ASSUME bytes = [s \in Sides |-> 0], head = [s \in Sides |-> 0],
           sent = [s \in Sides |-> 0], got = [s \in Sides |-> 0]
    PROVE  HeadsApart /\ InOrder
<1> USE SideFacts
<1>1. \A s \in Sides : bytes[s] = 0 /\ head[s] = 0 /\ sent[s] = 0 /\ got[s] = 0  OBVIOUS
<1>2. (0 + 0) % Capacity = 0 /\ (0 + 0) % SeqMod = 0
  <2>1. \A m \in Nat \ {0} : 0 % m = 0  BY Wrap
  <2>2. SeqMod \in Nat \ {0} /\ Capacity \in Nat \ {0}  OBVIOUS
  <2> QED  BY <2>1, <2>2
<1>3. HeadsApart  BY <1>1, <1>2 DEF HeadsApart
<1>4. InOrder  BY <1>1, <1>2 DEF InOrder
<1> QED  BY <1>3, <1>4

LEMMA InitStep == ASSUME PipeInit PROVE IInv
<1> USE SideFacts DEF PipeInit
<1>1. Typed
  <2>1. jbuf \in [0 .. Capacity - 1 -> (Sides \cup {"nobody"}) \X (0 .. SeqMod - 1)]  OBVIOUS
  <2>2. \A t \in Threads : total[t] <= count[t]  OBVIOUS
  <2>3. sent \in [Sides -> 0 .. SeqMod - 1] /\ got \in [Sides -> 0 .. SeqMod - 1]  OBVIOUS
  <2>4. bytes \in [Sides -> 0 .. Capacity] /\ head \in [Sides -> 0 .. Capacity - 1]  OBVIOUS
  <2> QED  BY <2>1, <2>2, <2>3, <2>4 DEF Typed, PipeTypeOK, Flags
<1>2. \A t \in Threads : CallOK(t) /\ HoldMeans(t)  BY DEF CallOK, HoldMeans
<1>3. Atomic /\ Words /\ Drained  BY DEF Atomic, Words, Drained
<1>4. HeadsApart /\ InOrder  BY EmptyRing
<1> QED  BY <1>1, <1>2, <1>3, <1>4 DEF IInv

\* The slot is given to the next job.  futex_exetermhold, which is not reset, is clear.
LEMMA ReinstallStep ==
    ASSUME IInv, Reinstall
    PROVE  IInv'
<1> USE SideFacts
<1>1. /\ flags' = {} /\ bytes' = [s \in Sides |-> 0] /\ head' = [s \in Sides |-> 0]
      /\ readhold' = [s \in Sides |-> TRUE] /\ writehold' = [s \in Sides |-> FALSE]
      /\ sent' = [s \in Sides |-> 0] /\ got' = [s \in Sides |-> 0]
      /\ UNCHANGED <<exetermhold, jbuf, pipemutex, callVars>>
   BY DEF Reinstall, Reset
<1>2. pc' = pc /\ op' = op /\ count' = count /\ total' = total /\ loaded' = loaded /\ ret' = ret
   BY <1>1 DEF callVars
<1>3. exetermhold' = FALSE
   BY <1>1 DEF Reinstall, IInv, Drained, Words
<1>4. Typed'
  <2>1. /\ bytes' \in [Sides -> 0 .. Capacity] /\ head' \in [Sides -> 0 .. Capacity - 1]
        /\ readhold' \in [Sides -> BOOLEAN] /\ writehold' \in [Sides -> BOOLEAN]
        /\ sent' \in [Sides -> 0 .. SeqMod - 1] /\ got' \in [Sides -> 0 .. SeqMod - 1]
     BY <1>1
  <2> QED  BY <1>1, <1>2, <2>1 DEF IInv, Typed, PipeTypeOK
<1>5. \A t \in Threads : CallOK(t)' /\ HoldMeans(t)'
  <2>1. ASSUME NEW t \in Threads  PROVE CallOK(t)' /\ HoldMeans(t)'
    <3>1. pc[t] = "idle" /\ op[t] = "none"  BY DEF Reinstall, IInv, CallOK
    <3> QED  BY <1>1, <1>2, <3>1 DEF CallOK, HoldMeans
  <2> QED  BY <2>1
<1>6. Atomic' /\ Words' /\ Drained'
  <2>1. Atomic'  BY <1>2 DEF Reinstall, Atomic
  <2>2. Words'  BY <1>1, <1>3 DEF Words
  <2> QED  BY <1>1, <2>1, <2>2 DEF Drained
<1>7. HeadsApart' /\ InOrder'
  <2>1. \A s \in Sides : bytes'[s] = 0 /\ head'[s] = 0 /\ sent'[s] = 0 /\ got'[s] = 0  BY <1>1
  <2>2. (0 + 0) % Capacity = 0 /\ (0 + 0) % SeqMod = 0
    <3>1. \A m \in Nat \ {0} : 0 % m = 0  BY Wrap
    <3>2. SeqMod \in Nat \ {0} /\ Capacity \in Nat \ {0}  OBVIOUS
    <3> QED  BY <3>1, <3>2
  <2>3. HeadsApart'  BY <2>1, <2>2 DEF HeadsApart
  <2>4. InOrder'  BY <2>1, <2>2 DEF InOrder
  <2> QED  BY <2>3, <2>4
<1> QED  BY <1>4, <1>5, <1>6, <1>7 DEF IInv
-----------------------------------------------------------------------------
LEMMA NextStep ==
    ASSUME Orderly, IInv, [CallsNext]_vars
    PROVE  IInv'
<1>1. CASE UNCHANGED vars
  <2>1. /\ UNCHANGED pipeVars /\ flags' = flags /\ pipemutex' = pipemutex
        /\ pc' = pc /\ op' = op /\ count' = count /\ total' = total
        /\ loaded' = loaded /\ ret' = ret
     BY <1>1 DEF vars, callVars
  <2>2. Typed'  BY <2>1 DEF IInv, Typed, PipeTypeOK, pipeVars
  <2>3. \A t \in Threads : CallOK(t)' /\ HoldMeans(t)'
     BY <2>1 DEF IInv, CallOK, HoldMeans, Hold, pipeVars
  <2>4. Atomic' /\ Words' /\ Drained'
     BY <2>1 DEF IInv, Atomic, Words, Drained, pipeVars
  <2>5. HeadsApart'  BY <2>1 DEF IInv, HeadsApart, pipeVars
  <2>6. InOrder'  BY <2>1 DEF IInv, InOrder, pipeVars
  <2> QED  BY <2>2, <2>3, <2>4, <2>5, <2>6 DEF IInv
<1>2. CASE Reinstall  BY <1>2, ReinstallStep
<1>3. ASSUME NEW t \in Threads, Call(t)  PROVE IInv'
  <2>1. CASE \E n \in Counts : InstallerWrite(t, n) \/ ExecutorWrite(t, n) \/ Read(t, n)
     BY <2>1, BeginStep
  <2>2. CASE WriteRefused(t) \/ ReadRefused(t) \/ InstallerTermLate(t)  BY <2>2, RefusedStep
  <2>3. CASE InstallerTerm(t) \/ ExecutorTerm(t)  BY <2>3, BeginStep
  <2> QED  BY <1>3, <2>1, <2>2, <2>3 DEF Call, JobRead
<1>4. ASSUME NEW t \in Threads, CallStep(t)  PROVE IInv'
  <2>1. CASE Wait(t)  BY <2>1, WaitStep
  <2>2. CASE InstallerWriteStore(t) \/ InstallerTermStore(t)  BY <2>2, StoreStep
  <2>3. CASE WriteError(t) \/ ReadEof(t)  BY <2>3, ErrorStep
  <2>4. CASE WriteBytes(t)  BY <2>4, WriteStep
  <2>5. CASE ReadBytes(t)  BY <2>5, ReadStep
  <2>6. CASE ExecutorTermLoad(t)  BY <2>6, TermLoadStep
  <2>7. CASE ExecutorTermStore(t)  BY <2>7, TermStoreStep
  <2> QED  BY <1>4, <2>1, <2>2, <2>3, <2>4, <2>5, <2>6, <2>7 DEF CallStep
<1> QED  BY <1>1, <1>2, <1>3, <1>4 DEF CallsNext

\* The inductive invariant holds in every reachable state.
THEOREM Invariance ==
    ASSUME Orderly
    PROVE  CallsSpec => []IInv
<1>1. PipeInit => IInv  BY InitStep
<1>2. IInv /\ [CallsNext]_vars => IInv'  BY NextStep
<1> QED  BY <1>1, <1>2, PTL DEF CallsSpec

\* The bytes that edbs_jobwrite puts into the transfer buffer are the ones that
\* edbs_jobread takes out, in the same order and each of them once, whatever the
\* capacity and the lengths of the calls, and the two directions never share it.
THEOREM BytesInOrder ==
    ASSUME Orderly
    PROVE  CallsSpec => []InOrder
<1>1. IInv => InOrder  BY DEF IInv
<1> QED  BY <1>1, Invariance, PTL

\* The five futex words of the transfer buffer mean what edbs_shmjob_t says of them,
\* and no call sleeps on one that has been cleared: no wake-up is ever lost.
THEOREM HoldsAreTrue ==
    ASSUME Orderly
    PROVE  CallsSpec => []HoldsTell
<1>1. IInv => HoldsTell  BY DEF IInv, HoldsTell, Words, HoldMeans
<1> QED  BY <1>1, Invariance, PTL

\* No step drops the executor's flag but the one that gives the slot to a new job.
LEMMA FlagKept ==
    ASSUME IInv, [CallsNext]_vars, "EXECUTERTERM" \in flags
    PROVE  "EXECUTERTERM" \in flags' \/ Reinstall
<1>0. Atomic  BY DEF IInv
<1>1. CASE UNCHANGED vars  BY <1>1 DEF vars
<1>2. ASSUME NEW t \in Threads, Call(t)  PROVE flags' = flags
   BY <1>2 DEF Call, InstallerWrite, ExecutorWrite, JobRead, Read, ReadRefused, WriteRefused,
               InstallerTerm, InstallerTermLate, ExecutorTerm
<1>3. ASSUME NEW t \in Threads, CallStep(t)  PROVE "EXECUTERTERM" \in flags'
  <2>1. CASE InstallerWriteStore(t) \/ InstallerTermStore(t) \/ ExecutorTermStore(t)
     BY <1>0, <2>1 DEF InstallerWriteStore, InstallerTermStore, ExecutorTermStore, Ored, Atomic
  <2>2. CASE Wait(t) \/ WriteError(t) \/ ReadEof(t) \/ ExecutorTermLoad(t)
     BY <2>2 DEF Wait, WriteError, ReadEof, ExecutorTermLoad
  <2>3. CASE WriteBytes(t)
    <3>1. flags' = flags  BY <2>3 DEF WriteBytes, Moved
    <3> QED  BY <3>1
  <2>4. CASE ReadBytes(t)
    <3>1. flags' = flags  BY <2>4 DEF ReadBytes, Moved
    <3> QED  BY <3>1
  <2> QED  BY <1>3, <2>1, <2>2, <2>3, <2>4 DEF CallStep
<1> QED  BY <1>1, <1>2, <1>3 DEF CallsNext

\* edbs_jobterm by the executor returns only when the installer has read everything,
\* and the pipe then stays closed until edbs_jobinstall gives the slot away again.
THEOREM TermIsFinal ==
    ASSUME Orderly
    PROVE  CallsSpec => TermSticks
<1> DEFINE A == /\ Drained'
                /\ "EXECUTERTERM" \in flags => "EXECUTERTERM" \in flags' \/ Reinstall
<1>1. IInv /\ IInv' /\ [CallsNext]_vars => [A]_vars  BY FlagKept DEF IInv
<1> QED  BY <1>1, Invariance, PTL DEF CallsSpec, TermSticks
-----------------------------------------------------------------------------
(* The protocol: the scripts of the jobs, measured *)

OneWord   == {"JFREE", "JSTKDELETE", "JENTDELETE"}
Downloads == {"JSTKDOWNLOAD", "JENTDOWNLOAD"}
Fitting   == OneWord \cup Downloads \cup {"JREAD", "JENTCREATE"}

\* Any number of handles with jobs whose answer is one word, or one handle with any job that
\* fits: whose request both sides move in the same calls.
Apart == Jobs \subseteq OneWord \/ (Jobs \subseteq Fitting /\ \A g, h \in Installers : g = h)

\* A job is a request of Asks words, each a call of its own on either side, and an answer: the
\* verdict and, after a success, Second bytes and the Third of a download's records.
Asks(j)   == IF j = "JREAD" THEN 2 ELSE 1
Second(j) == IF j = "JREAD" THEN ObjSize ELSE IF j \in OneWord THEN 0 ELSE 1
Third(j)  == IF j \in Downloads THEN Records ELSE 0
Answer(j) == 1 + Second(j) + Third(j)

HandleLen(j) == Asks(j) + 1 + (IF j \in OneWord THEN 0 ELSE 1) + Third(j)
WorkerLen(j) == Asks(j) + 2 + (IF j \in OneWord THEN 0 ELSE 1) + (IF Third(j) = 0 THEN 0 ELSE 1)

\* The bytes of item p of a script, and of the items before it.
ReadSize(j, p)    == IF p = Asks(j) + 2 THEN Second(j) ELSE 1
ReadBefore(j, p)  == IF p <= Asks(j) + 1 THEN 0
                     ELSE IF p = Asks(j) + 2 THEN 1
                     ELSE 1 + Second(j) + (p - (Asks(j) + 3))
WriteSize(j, p)   == IF p = Asks(j) + 3 THEN Second(j) ELSE IF p = Asks(j) + 4 THEN Third(j) ELSE 1
WriteBefore(j, p) == IF p <= Asks(j) + 2 THEN 0
                     ELSE IF p = Asks(j) + 3 THEN 1
                     ELSE IF p = Asks(j) + 4 THEN 1 + Second(j) ELSE Answer(j)

HandleOp(j, p) == IF p <= Asks(j) THEN "write" ELSE IF p = Asks(j) + 1 THEN "error"
                  ELSE IF p = Asks(j) + 2 THEN "more" ELSE "read"
WorkerOp(j, p) == IF p <= Asks(j) THEN "read" ELSE IF p = Asks(j) + 1 THEN "die" ELSE "write"

LEMMA Measures ==
    ASSUME NEW j \in Fitting
    PROVE  /\ Asks(j) \in {1, 2} /\ Second(j) \in Nat /\ Third(j) \in Nat
           /\ Answer(j) = 1 + Second(j) + Third(j)
           /\ IF j \in OneWord
              THEN /\ Second(j) = 0 /\ Third(j) = 0 /\ Asks(j) = 1
                   /\ HandleLen(j) = 2 /\ WorkerLen(j) = 3
              ELSE /\ Second(j) > 0 /\ HandleLen(j) = Asks(j) + 2 + Third(j)
                   /\ WorkerLen(j) = Asks(j) + IF Third(j) = 0 THEN 3 ELSE 4
BY JobProtocolAssumption DEF Asks, Second, Third, Answer, HandleLen, WorkerLen, Fitting, OneWord, Downloads

\* The scripts of the two sides of a job have these lengths, calls and sizes.
LEMMA HandleScriptOf ==
    ASSUME NEW j \in Fitting
    PROVE  HandleScript(j) =
             IF j \in OneWord THEN <<W(1), E>>
             ELSE IF j = "JREAD" THEN <<W(1), W(1), E, M(ObjSize)>>
             ELSE IF j = "JENTCREATE" THEN <<W(1), E, M(1)>>
             ELSE <<W(1), E, M(1)>> \o [i \in 1 .. Records |-> R(1)]
<1>1. j = "JFREE" => HandleScript(j) = odbh_jobj_free  BY Zenon DEF HandleScript
<1>2. j = "JSTKDELETE" => HandleScript(j) = odbh_jstk_free  BY Zenon DEF HandleScript
<1>3. j = "JENTDELETE" => HandleScript(j) = odbh_jent_free  BY Zenon DEF HandleScript
<1>4. j = "JREAD" => HandleScript(j) = odbh_jobj_read  BY Zenon DEF HandleScript
<1>5. j = "JENTCREATE" => HandleScript(j) = odbh_jent_create  BY Zenon DEF HandleScript
<1>6. j = "JSTKDOWNLOAD" => HandleScript(j) = odbh_jstk_download  BY Zenon DEF HandleScript
<1>7. j = "JENTDOWNLOAD" => HandleScript(j) = odbh_jent_download  BY Zenon DEF HandleScript
<1> QED
    BY <1>1, <1>2, <1>3, <1>4, <1>5, <1>6, <1>7
    DEF Fitting, OneWord, Downloads, odbh_jobj_free, odbh_jstk_free, odbh_jent_free,
        odbh_jobj_read, odbh_jent_create, odbh_jstk_download, odbh_jent_download

LEMMA Concat ==
    ASSUME NEW S, NEW a \in Seq(S), NEW b \in Seq(S)
    PROVE  /\ Len(a \o b) = Len(a) + Len(b)
           /\ \A p \in 1 .. Len(a) + Len(b) :
                (a \o b)[p] = IF p <= Len(a) THEN a[p] ELSE b[p - Len(a)]
<1>1. Len(a \o b) = Len(a) + Len(b)
    OBVIOUS
<1>2. ASSUME NEW p \in 1 .. Len(a) + Len(b)
      PROVE  (a \o b)[p] = IF p <= Len(a) THEN a[p] ELSE b[p - Len(a)]
    OBVIOUS
<1> QED
    BY <1>1, <1>2

LEMMA HandleScripts ==
    ASSUME NEW j \in Fitting
    PROVE  /\ Len(HandleScript(j)) = HandleLen(j)
           /\ \A p \in 1 .. HandleLen(j) :
                /\ HandleScript(j)[p].op = HandleOp(j, p)
                /\ HandleScript(j)[p].n = IF p <= Asks(j) THEN 1 ELSE ReadSize(j, p)
<1> USE HandleScriptOf DEF HandleLen, Asks, Second, Third, ReadSize, HandleOp, OneWord, Downloads
<1>1. CASE j \in OneWord
  <2>1. HandleScript(j) = <<W(1), E>> /\ HandleLen(j) = 2 /\ Asks(j) = 1
      BY <1>1
  <2> HIDE DEF HandleLen, Asks, OneWord, Downloads
  <2> QED  BY <2>1 DEF W, E
<1>2. CASE j = "JREAD"
    BY <1>2 DEF W, E, M
<1>3. CASE j = "JENTCREATE"
    BY <1>3 DEF W, E, M
<1>4. CASE j \in Downloads
  <2> DEFINE front == <<W(1), E, M(1)>>
             items == [i \in 1 .. Records |-> R(1)]
             Item  == {W(1), E, M(1), R(1)}
  <2>1. HandleScript(j) = front \o items
      BY <1>4
  <2>2. Records \in Nat
      BY JobProtocolAssumption
  <2>3. front \in Seq(Item) /\ items \in Seq(Item) /\ Len(front) = 3 /\ Len(items) = Records
      BY <2>2
  <2>5. HandleLen(j) = 3 + Records /\ Asks(j) = 1 /\ Second(j) = 1
      BY <1>4, <2>2
  <2>6. \A p \in 1 .. 3 + Records : p > 3 => items[p - 3] = R(1)
      BY <2>2
  <2>7. front[1] = W(1) /\ front[2] = E /\ front[3] = M(1)
      OBVIOUS
  <2> HIDE DEF front, items, Item
  <2>4. /\ Len(front \o items) = 3 + Records
        /\ \A p \in 1 .. 3 + Records : (front \o items)[p] = IF p <= 3 THEN front[p] ELSE items[p - 3]
    <3>1. /\ Len(front \o items) = Len(front) + Len(items)
          /\ \A p \in 1 .. Len(front) + Len(items) :
               (front \o items)[p] = IF p <= Len(front) THEN front[p] ELSE items[p - Len(front)]
        BY ONLY <2>3, Concat
    <3> QED  BY <2>2, <2>3, <3>1
  <2> SUFFICES ASSUME NEW p \in 1 .. 3 + Records
               PROVE  /\ HandleScript(j)[p].op = HandleOp(j, p)
                      /\ HandleScript(j)[p].n = IF p <= Asks(j) THEN 1 ELSE ReadSize(j, p)
      BY <2>1, <2>4, <2>5
  <2>8. HandleScript(j)[p] = IF p = 1 THEN W(1) ELSE IF p = 2 THEN E ELSE IF p = 3 THEN M(1) ELSE R(1)
    <3> HIDE HandleScriptOf
    <3>1. HandleScript(j)[p] = IF p <= 3 THEN front[p] ELSE items[p - 3]
        BY <2>1, <2>4
    <3>2. CASE p <= 3
      <4>1. p = 1 \/ p = 2 \/ p = 3
          BY <2>2, <3>2
      <4> QED  BY <2>7, <3>1, <3>2, <4>1
    <3>3. CASE ~(p <= 3)
      <4>1. p > 3 /\ p # 1 /\ p # 2 /\ p # 3
          BY <2>2, <3>3
      <4>2. items[p - 3] = R(1)
          BY <2>6, <4>1
      <4> QED  BY <3>1, <3>3, <4>1, <4>2
    <3> QED  BY <3>2, <3>3
  <2> QED  BY <2>2, <2>5, <2>8 DEF W, E, M, R
<1> QED
    BY <1>1, <1>2, <1>3, <1>4 DEF Fitting

LEMMA WorkerScriptOf ==
    ASSUME NEW j \in Fitting
    PROVE  WorkerScript(j) =
             IF j \in OneWord THEN <<R(1), D, W(1)>>
             ELSE IF j = "JREAD" THEN <<R(1), R(1), D, W(1), W(ObjSize)>>
             ELSE IF j = "JENTCREATE" THEN <<R(1), D, W(1), W(1)>>
             ELSE <<R(1), D, W(1), W(1)>> \o Stream
<1>1. j = "JFREE" => WorkerScript(j) = jfree  BY Zenon DEF WorkerScript
<1>2. j = "JSTKDELETE" => WorkerScript(j) = stkdelete  BY Zenon DEF WorkerScript
<1>3. j = "JENTDELETE" => WorkerScript(j) = entdelete  BY Zenon DEF WorkerScript
<1>4. j = "JREAD" => WorkerScript(j) = jread  BY Zenon DEF WorkerScript
<1>5. j = "JENTCREATE" => WorkerScript(j) = entcreate  BY Zenon DEF WorkerScript
<1>6. j = "JSTKDOWNLOAD" => WorkerScript(j) = stkdownload  BY Zenon DEF WorkerScript
<1>7. j = "JENTDOWNLOAD" => WorkerScript(j) = entdownload  BY Zenon DEF WorkerScript
<1> QED
    BY <1>1, <1>2, <1>3, <1>4, <1>5, <1>6, <1>7
    DEF Fitting, OneWord, Downloads, jfree, stkdelete, entdelete, jread, entcreate,
        stkdownload, entdownload

LEMMA WorkerScripts ==
    ASSUME NEW j \in Fitting
    PROVE  /\ Len(WorkerScript(j)) = WorkerLen(j)
           /\ \A p \in 1 .. WorkerLen(j) :
                /\ WorkerScript(j)[p].op = WorkerOp(j, p)
                /\ WorkerScript(j)[p].n = IF p <= Asks(j) THEN 1 ELSE WriteSize(j, p)
<1> USE WorkerScriptOf DEF WorkerLen, Asks, Second, Third, WriteSize, WorkerOp, OneWord, Downloads
<1>1. CASE j \in OneWord
  <2>1. WorkerScript(j) = <<R(1), D, W(1)>> /\ WorkerLen(j) = 3 /\ Asks(j) = 1
      BY <1>1
  <2> HIDE DEF WorkerLen, Asks, OneWord, Downloads
  <2> QED  BY <2>1 DEF R, D, W
<1>2. CASE j = "JREAD"
    BY <1>2 DEF R, D, W
<1>3. CASE j = "JENTCREATE"
    BY <1>3 DEF R, D, W
<1>4. CASE j \in Downloads
  <2>0. Records \in Nat
      BY JobProtocolAssumption
  <2>1. Records = 0 => WorkerScript(j) = <<R(1), D, W(1), W(1)>>
      BY <1>4 DEF Stream
  <2>2. Records # 0 => WorkerScript(j) = <<R(1), D, W(1), W(1), W(Records)>>
      BY <1>4 DEF Stream
  <2>3. CASE Records = 0
      BY <1>4, <2>1, <2>3 DEF R, D, W
  <2>4. CASE Records # 0
      BY <1>4, <2>0, <2>2, <2>4 DEF R, D, W
  <2> QED  BY <2>3, <2>4
<1> QED
    BY <1>1, <1>2, <1>3, <1>4 DEF Fitting

-----------------------------------------------------------------------------
(* The inductive invariant of the protocol *)

\* The worker that owns the slot
Worker == CHOOSE w : w \in Executors

JobFlags == {"INSTALLWRITE", "EXECUTERTERM"}
Calling  == {"or", "wait", "asleep", "enter"}
Stations == Calling \cup {"idle", "store", "gone", "dead"}
Verdicts == {"none", "OK", "EDIE"}

PipeTyped ==
    /\ flags \in SUBSET JobFlags
    /\ bytes \in [Sides -> 0 .. Capacity]
    /\ readhold \in [Sides -> BOOLEAN] /\ writehold \in [Sides -> BOOLEAN]
    /\ exetermhold \in BOOLEAN
    /\ pc \in [Threads -> Stations]
    /\ op \in [Threads -> {"none", "read", "write", "term"}]
    /\ count \in [Threads -> Nat] /\ total \in [Threads -> Nat]
    /\ loaded \in [Threads -> SUBSET JobFlags]
    /\ ret \in [Threads -> Results]

JobTyped ==
    /\ slot \in {"empty", "installed", "owned"} /\ wpos \in Nat
    /\ hjob \in [Installers -> Jobs \cup {"none"}]
    /\ hpos \in [Installers -> Nat]
    /\ dieerr \in [Installers -> Verdicts] /\ result \in [Installers -> Verdicts]
    /\ verdict \in [Installers -> Verdicts]

\* What the call of t has moved of its n bytes; nothing when there is no call.
Done(t, n) == IF ret[t] = "OK" THEN n ELSE total[t]

\* The words of the request that the handle has written, and that the worker has read.
Asked(h) ==
    IF hpos[h] \in 1 .. Asks(hjob[h]) THEN hpos[h] - 1 + Done(h, 1) ELSE Asks(hjob[h])
Heard(h) ==
    IF slot = "installed" THEN 0
    ELSE IF slot = "owned" /\ wpos <= Asks(hjob[h]) THEN wpos - 1 + Done(Worker, 1)
    ELSE Asks(hjob[h])

\* The bytes of the answer that the handle has yet to read, and the worker yet to write.
Awaited(h) ==
    IF hpos[h] = 0 THEN 0
    ELSE (IF verdict[h] = "EDIE" THEN 1 ELSE Answer(hjob[h]))
         - (IF hpos[h] <= Asks(hjob[h]) THEN 0
            ELSE ReadBefore(hjob[h], hpos[h]) + Done(h, ReadSize(hjob[h], hpos[h])))
Owed(h) ==
    IF slot = "empty" THEN 0
    ELSE IF verdict[h] = "none" THEN Answer(hjob[h])
    ELSE IF verdict[h] = "EDIE"
         THEN IF wpos = Asks(hjob[h]) + 1 THEN 1 - Done(Worker, 1) ELSE 0
    ELSE Answer(hjob[h]) - WriteBefore(hjob[h], wpos)
         - (IF wpos > WorkerLen(hjob[h]) THEN 0 ELSE Done(Worker, WriteSize(hjob[h], wpos)))

\* What is in the transfer buffer is what one side has written and the other not yet read.
Balanced(h) ==
    /\ bytes["installer"] = Asked(h) - Heard(h)
    /\ bytes["executor"] + Owed(h) = Awaited(h)

\* The handle has read the one word of its answer, and has yet to look at it.
Finished(h) ==
    /\ pc[h] = "idle" /\ ret[h] = "OK" /\ total[h] = 0
    /\ hjob[h] \in OneWord /\ hpos[h] = 2
    /\ dieerr[h] = "none" /\ verdict[h] # "none"

HandleOK(h) ==
    /\ hpos[h] = 0 => pc[h] \in {"idle", "gone", "dead"} /\ ret[h] = "none" /\ total[h] = 0
    /\ hpos[h] # 0 => /\ hjob[h] \in Jobs /\ hpos[h] <= HandleLen(hjob[h])
                      /\ pc[h] \in Calling \cup {"idle", "dead"}
                      /\ pc[h] # "dead" => h = holder \/ Finished(h)
    /\ result[h] # "none" => result[h] = verdict[h]

\* The call the holder of the slot is in, at its place of the script.
HandleCallOK(h) ==
    LET a == Asks(hjob[h]) IN
    /\ pc[h] = "idle" => total[h] = 0
    /\ pc[h] \in Calling =>
         /\ ret[h] = "none"
         /\ op[h] = IF hpos[h] <= a THEN "write" ELSE "read"
         /\ count[h] = IF hpos[h] <= a THEN 1 ELSE ReadSize(hjob[h], hpos[h])
         /\ total[h] < count[h]
    /\ hpos[h] <= a => total[h] = 0
    /\ pc[h] = "or" => hpos[h] <= a /\ loaded[h] = flags
    /\ \/ ret[h] \in {"none", "OK"}
       \/ ret[h] = "EEOF" /\ hpos[h] = a + 2 /\ verdict[h] = "EDIE" /\ total[h] = 0
    /\ hpos[h] > 1 \/ pc[h] \in {"wait", "asleep", "enter"} \/ ret[h] # "none"
         => "INSTALLWRITE" \in flags
    /\ hpos[h] <= a + 1 => dieerr[h] = "none"
    /\ hpos[h] = a + 2 => dieerr[h] = verdict[h] /\ verdict[h] # "none"
    /\ hpos[h] > a + 2 => dieerr[h] = "OK" /\ verdict[h] = "OK"

\* The call the worker is in, and what it has decided, at its place of the script.
WorkerOK(h) ==
    LET a == Asks(hjob[h])
        l == WorkerLen(hjob[h])
        w == Worker
    IN
    /\ jobtype = hjob[h]
    /\ slot = "installed" => verdict[h] = "none"
    /\ slot = "owned" =>
         /\ wpos <= l + 1
         /\ pc[w] \in {"idle", "wait", "asleep", "enter", "store"}
         /\ ret[w] \in {"none", "OK"}
         /\ pc[w] = "idle" => total[w] = 0
         /\ pc[w] # "idle" =>
              /\ ret[w] = "none"
              /\ op[w] = IF wpos <= a THEN "read" ELSE IF wpos <= l THEN "write" ELSE "term"
              /\ wpos <= l => /\ count[w] = IF wpos <= a THEN 1 ELSE WriteSize(hjob[h], wpos)
                              /\ total[w] < count[w]
              /\ wpos > l => total[w] = 0
         /\ pc[w] = "store" => wpos = l + 1 /\ loaded[w] = flags
         /\ wpos <= a => verdict[h] = "none"
         /\ wpos = a + 1 =>
              verdict[h] = IF pc[w] = "idle" /\ ret[w] = "none" THEN "none" ELSE "EDIE"
         /\ wpos > a + 1 => verdict[h] # "none"
         /\ wpos \in a + 2 .. l => verdict[h] = "OK"

\* The worker has terminated the pipe and has yet to clear the slot.
Ended(h) == slot = "owned" /\ wpos = WorkerLen(hjob[h]) + 1 /\ ret[Worker] = "OK"

JobOK(h) ==
    /\ Balanced(h)
    /\ hpos[h] # 0 => HandleCallOK(h)
    /\ slot = "empty" => verdict[h] # "none"
    /\ slot # "empty" => WorkerOK(h)
    /\ "EXECUTERTERM" \in flags => slot = "empty" \/ Ended(h)
    /\ Ended(h) => bytes["executor"] = 0

SlotOK ==
    /\ slot = "owned" <=> wpos # 0
    /\ slot # "empty" => holder \in Installers /\ hjob[holder] # "none"
    /\ slot # "owned" => pc[Worker] = "idle" /\ ret[Worker] = "none" /\ total[Worker] = 0
    /\ slot = "empty" => bytes["executor"] = 0

\* Who came past a hold finds it clear.
Passed == \A t \in Threads : pc[t] \in {"enter", "store"} => ~Hold(t)

ProtInv ==
    /\ PipeTyped /\ JobTyped /\ SlotOK
    /\ \A h \in Installers : HandleOK(h)
    /\ \A h \in Installers : h = holder /\ hjob[h] # "none" => JobOK(h)
    /\ Words /\ Passed
    /\ intruded = {}
-----------------------------------------------------------------------------
LEMMA TheWorker ==
    /\ Executors = {Worker} /\ Worker \in Threads /\ Worker \notin Installers
    /\ Side(Worker) = "executor"
    /\ \A h \in Installers : h \in Threads /\ Side(h) = "installer" /\ h # Worker
    /\ \A t \in Threads : t = Worker \/ t \in Installers
<1>1. PICK w \in Executors : Executors = {w}
    BY JobProtocolAssumption
<1>2. Executors = {Worker}
    BY <1>1 DEF Worker
<1> QED
    BY <1>2, SideFacts DEF Threads, Side

\* The other threads go on as they were, or are woken.
Kept(u) ==
    /\ pc'[u] = pc[u] \/ (pc[u] = "asleep" /\ pc'[u] = "enter")
    /\ op'[u] = op[u] /\ count'[u] = count[u] /\ total'[u] = total[u]
    /\ loaded'[u] = loaded[u] /\ ret'[u] = ret[u]

LEMMA WakeKeeps ==
    ASSUME pc \in [Threads -> Stations], NEW t \in Threads, pc[t] # "asleep",
           NEW l \in Stations, NEW s, NEW ops, WakeGoto(t, l, s, ops)
    PROVE  /\ pc' \in [Threads -> Stations] /\ pc'[t] = l
           /\ \A u \in Threads \ {t} :
                \/ pc'[u] = pc[u]
                \/ pc[u] = "asleep" /\ pc'[u] = "enter" /\ Side(u) = s /\ op[u] \in ops
<1> DEFINE sleeping == { u \in Threads : pc[u] = "asleep" /\ Side(u) = s /\ op[u] \in ops }
<1>1. CASE sleeping = {} /\ Goto(t, l)
    BY <1>1 DEF Goto
<1>2. CASE \E u \in sleeping : pc' = [pc EXCEPT ![t] = l, ![u] = "enter"]
  <2>1. PICK v \in sleeping : pc' = [pc EXCEPT ![t] = l, ![v] = "enter"]
      BY <1>2
  <2>2. v \in Threads /\ v # t /\ pc[v] = "asleep" /\ Side(v) = s /\ op[v] \in ops
      BY <2>1
  <2>3. "enter" \in Stations
      BY DEF Stations, Calling
  <2> QED  BY <2>1, <2>2, <2>3
<1> QED
    BY <1>1, <1>2 DEF WakeGoto

\* One turn of a call that moves k bytes.
Turned(t, k) ==
    /\ flags' = flags
    /\ \A u \in Threads \ {t} : Kept(u)
    /\ \/ /\ pc'[t] = "wait" /\ total'[t] = total[t] + k /\ total'[t] < count[t]
          /\ op'[t] = op[t] /\ count'[t] = count[t] /\ ret'[t] = "none"
       \/ /\ pc'[t] = "idle" /\ total'[t] = 0 /\ total[t] + k = count[t] /\ ret'[t] = "OK"

LEMMA MovedTurn ==
    ASSUME PipeTyped, NEW t \in Threads, pc[t] = "enter", ret[t] = "none",
           NEW k \in Nat, 1 <= k, k <= count[t] - total[t], NEW ops, Moved(t, k, ops)
    PROVE  /\ Turned(t, k)
           /\ pc' \in [Threads -> Stations]
           /\ op' \in [Threads -> {"none", "read", "write", "term"}]
           /\ count' \in [Threads -> Nat] /\ total' \in [Threads -> Nat]
           /\ loaded' \in [Threads -> SUBSET JobFlags] /\ ret' \in [Threads -> Results]
           /\ \A u \in Threads \ {t} :
                \/ pc'[u] = pc[u]
                \/ pc'[u] = "enter" /\ Side(u) = Other(Side(t)) /\ op[u] \in ops
<1>0. /\ pc \in [Threads -> Stations] /\ op \in [Threads -> {"none", "read", "write", "term"}]
      /\ count \in [Threads -> Nat] /\ total \in [Threads -> Nat]
      /\ loaded \in [Threads -> SUBSET JobFlags] /\ ret \in [Threads -> Results]
    BY DEF PipeTyped
<1>1. flags' = flags
    BY DEF Moved
<1>2. PICK l \in {"wait", "idle"} :
        /\ WakeGoto(t, l, Other(Side(t)), ops)
        /\ l = "wait" => /\ total[t] + k # count[t] /\ total' = [total EXCEPT ![t] = @ + k]
                         /\ UNCHANGED <<op, count, loaded, ret>>
        /\ l = "idle" => total[t] + k = count[t] /\ Over(t, "OK")
    BY DEF Moved
<1>3. l \in Stations
    BY DEF Stations, Calling
<1>4. /\ pc' \in [Threads -> Stations] /\ pc'[t] = l
      /\ \A u \in Threads \ {t} :
           \/ pc'[u] = pc[u]
           \/ pc[u] = "asleep" /\ pc'[u] = "enter" /\ Side(u) = Other(Side(t)) /\ op[u] \in ops
    BY <1>0, <1>2, <1>3, WakeKeeps
<1>5. CASE l = "wait"
  <2>1. total' \in [Threads -> Nat] /\ total'[t] = total[t] + k
        /\ \A u \in Threads \ {t} : total'[u] = total[u]
      BY <1>0, <1>2, <1>5
  <2>2. total[t] + k < count[t]
    <3>1. total[t] \in Nat /\ count[t] \in Nat
        BY <1>0
    <3> QED  BY <1>2, <1>5, <3>1
  <2> QED  BY <1>0, <1>1, <1>2, <1>4, <1>5, <2>1, <2>2 DEF Turned, Kept
<1>6. CASE l = "idle"
  <2>1. /\ op' = [op EXCEPT ![t] = "none"] /\ count' = [count EXCEPT ![t] = 0]
        /\ total' = [total EXCEPT ![t] = 0] /\ loaded' = [loaded EXCEPT ![t] = {}]
        /\ ret' = [ret EXCEPT ![t] = "OK"] /\ total[t] + k = count[t]
      BY <1>2, <1>6 DEF Over
  <2>2. /\ op' \in [Threads -> {"none", "read", "write", "term"}]
        /\ count' \in [Threads -> Nat] /\ total' \in [Threads -> Nat]
        /\ loaded' \in [Threads -> SUBSET JobFlags] /\ ret' \in [Threads -> Results]
      BY <1>0, <2>1 DEF Results
  <2>3. \A u \in Threads \ {t} :
          /\ op'[u] = op[u] /\ count'[u] = count[u] /\ total'[u] = total[u]
          /\ loaded'[u] = loaded[u] /\ ret'[u] = ret[u]
      BY <1>0, <2>1
  <2>4. total'[t] = 0 /\ ret'[t] = "OK"
      BY <1>0, <2>1
  <2> QED  BY <1>1, <1>4, <1>6, <2>1, <2>2, <2>3, <2>4 DEF Turned, Kept
<1> QED
    BY <1>5, <1>6

-----------------------------------------------------------------------------
(* A turn of a call *)

\* No other thread of its side waits for the mutex.
Alone(t) == \A u \in Threads \ {t} : Side(u) = Side(t) => pc[u] \notin {"asleep", "enter", "store"}

\* A handle that waits does so in a read or a write.
Talking == \A h \in Installers : pc[h] \in {"asleep", "enter", "store"} => op[h] \in {"read", "write"}

\* A write puts k bytes behind those that are there, and leaves the words true.
LEMMA WriteTurn ==
    ASSUME PipeTyped, Words, Passed, NEW t \in Threads, Alone(t), Talking, WriteBytes(t),
           total[t] < count[t], ret[t] = "none"
    PROVE  \E k \in Nat :
             /\ 1 <= k /\ k <= count[t] - total[t] /\ Turned(t, k)
             /\ bytes'[Side(t)] = bytes[Side(t)] + k
             /\ bytes'[Other(Side(t))] = bytes[Other(Side(t))]
             /\ PipeTyped' /\ Words' /\ Passed'
<1> USE SideFacts
<1> DEFINE s == Side(t)
           o == Other(s)
           b == bytes[s]
           left == count[t] - total[t]
           k == LeastOf(left, Capacity - b)
           ops == IF readhold[o] THEN {"read"} ELSE {}
<1>1. s \in Sides /\ o \in Sides /\ s # o /\ Other(o) = s /\ \A r \in Sides : r = s \/ r = o
    OBVIOUS
<1>2. pc[t] = "enter" /\ op[t] = "write" /\ "EXECUTERTERM" \notin flags /\ bytes[o] = 0
    BY DEF WriteBytes, Entered, NothingInFront
<1>3. /\ count[t] \in Nat /\ total[t] \in Nat /\ b \in 0 .. Capacity
      /\ bytes \in [Sides -> 0 .. Capacity]
      /\ readhold \in [Sides -> BOOLEAN] /\ writehold \in [Sides -> BOOLEAN]
      /\ exetermhold \in BOOLEAN
    BY <1>1 DEF PipeTyped
<1>4. b < Capacity /\ writehold[s] = FALSE
  <2>1. ~writehold[s] /\ writehold[s] = (b = Capacity)
      BY <1>1, <1>2 DEF Passed, Hold, Words
  <2>2. b # Capacity
      BY <2>1
  <2>3. b < Capacity
      BY <1>3, <2>2
  <2>4. writehold[s] = FALSE
      BY <2>1, <2>2
  <2> QED  BY <2>3, <2>4
<1>5. k \in Nat /\ 1 <= k /\ k <= left /\ b + k <= Capacity
    BY <1>3, <1>4 DEF LeastOf
<1>6. /\ bytes' = [bytes EXCEPT ![s] = (b + k) % UIntMod]
      /\ writehold' = [writehold EXCEPT ![s] = writehold[s] \/ b + k = Capacity]
      /\ readhold' = [readhold EXCEPT ![o] = FALSE]
      /\ exetermhold' = (s = "executor" \/ exetermhold)
      /\ Moved(t, k, ops)
  <2>1. k = IF bytes[s] < Capacity THEN LeastOf(left, Capacity - bytes[s]) ELSE left
      BY <1>4
  <2> DEFINE kk == IF bytes[s] < Capacity THEN LeastOf(left, Capacity - bytes[s]) ELSE left
  <2>2. /\ bytes' = [bytes EXCEPT ![s] = (@ + kk) % UIntMod]
        /\ writehold' = [writehold EXCEPT ![s] = @ \/ Full(bytes[s] + kk)]
        /\ readhold' = ReadHoldCleared(o)
        /\ exetermhold' = (s = "executor" \/ exetermhold)
        /\ Moved(t, kk, ops)
      BY DEF WriteBytes
  <2> HIDE DEF s, o, left, k, ops, kk
  <2>3. kk = k
      BY <2>1 DEF kk
  <2> QED  BY <1>1, <1>3, <2>2, <2>3 DEF Full, ReadHoldCleared
<1> HIDE DEF s, o, b, left, k, ops
<1>7. (b + k) % UIntMod = b + k
  <2> DEFINE w == b + k
  <2>1. w \in Nat /\ w < UIntMod /\ UIntMod \in Nat \ {0} /\ w < 2 * UIntMod
      BY <1>3, <1>5
  <2> HIDE DEF w
  <2>2. w % UIntMod = w
      BY <2>1, Wrap
  <2> QED  BY <2>2 DEF w
<1>8. /\ bytes' \in [Sides -> 0 .. Capacity] /\ bytes'[s] = b + k /\ bytes'[o] = 0 /\ b + k # 0
  <2>1. b + k \in 0 .. Capacity /\ b + k # 0
      BY <1>3, <1>5
  <2> QED  BY <1>1, <1>2, <1>3, <1>6, <1>7, <2>1
<1>9. /\ writehold' \in [Sides -> BOOLEAN] /\ readhold' \in [Sides -> BOOLEAN]
      /\ exetermhold' \in BOOLEAN
      /\ writehold'[s] = (writehold[s] \/ b + k = Capacity) /\ writehold'[o] = writehold[o]
      /\ readhold'[o] = FALSE /\ readhold'[s] = readhold[s]
    BY <1>1, <1>3, <1>6
<1>10. /\ Turned(t, k)
       /\ pc' \in [Threads -> Stations]
       /\ op' \in [Threads -> {"none", "read", "write", "term"}]
       /\ count' \in [Threads -> Nat] /\ total' \in [Threads -> Nat]
       /\ loaded' \in [Threads -> SUBSET JobFlags] /\ ret' \in [Threads -> Results]
       /\ \A u \in Threads \ {t} :
            \/ pc'[u] = pc[u]
            \/ pc'[u] = "enter" /\ Side(u) = o /\ op[u] \in ops
  <2>1. k <= count[t] - total[t]
      BY <1>5 DEF left
  <2> QED  BY <1>2, <1>5, <1>6, <2>1, MovedTurn DEF o, s
<1>11. PipeTyped'
    BY <1>8, <1>9, <1>10 DEF PipeTyped, Turned
<1>12. Words'
  <2>1. \A r \in Sides : /\ readhold'[r] = (bytes'[Other(r)] = 0)
                         /\ writehold'[r] = (bytes'[r] = Capacity)
    <3>1. /\ readhold[s] = (bytes[o] = 0) /\ writehold[o] = (bytes[o] = Capacity)
        BY <1>1, <1>2 DEF Words, o
    <3>2. readhold'[s] = (bytes'[o] = 0) /\ readhold'[o] = (bytes'[s] = 0)
        BY <1>2, <1>8, <1>9, <3>1
    <3>3. writehold'[s] = (bytes'[s] = Capacity) /\ writehold'[o] = (bytes'[o] = Capacity)
        BY <1>2, <1>4, <1>8, <1>9, <3>1
    <3> QED  BY <1>1, <3>2, <3>3 DEF o
  <2>2. exetermhold' = (bytes'["executor"] # 0)
    <3>1. exetermhold = (bytes["executor"] # 0)
        BY DEF Words
    <3>2. CASE s = "executor"
        BY <1>6, <1>8, <3>2
    <3>3. CASE s # "executor"
      <4>1. o = "executor"
          BY <1>1, <3>3
      <4> QED  BY <1>2, <1>6, <1>8, <3>1, <3>3, <4>1
    <3> QED  BY <3>2, <3>3
  <2> QED  BY <2>1, <2>2 DEF Words
<1>13. Passed'
  <2> SUFFICES ASSUME NEW u \in Threads, pc'[u] \in {"enter", "store"}
               PROVE  ~Hold(u)'
      BY DEF Passed
  <2>1. u # t
      BY <1>10 DEF Turned
  <2>2. op'[u] = op[u]
      BY <1>10, <2>1 DEF Turned, Kept
  <2>3. Side(u) = o
    <3>1. Side(u) # s
      <4>1. pc[u] \in {"asleep", "enter", "store"}
          BY <1>10, <2>1 DEF Turned, Kept
      <4> QED  BY <2>1, <4>1 DEF Alone, s
    <3> QED  BY <1>1, <3>1
  <2>4. CASE op[u] = "read"
      BY <1>9, <2>2, <2>3, <2>4 DEF Hold
  <2>5. CASE op[u] # "read"
    <3>1. pc[u] = pc'[u]
        BY <1>10, <2>1, <2>5 DEF ops
    <3>2. ~Hold(u)
        BY <3>1 DEF Passed
    <3>3. CASE op[u] = "write"
      <4>1. Hold(u) = writehold[o] /\ Hold(u)' = writehold'[o]
          BY <2>2, <2>3, <3>3 DEF Hold
      <4> QED  BY <1>9, <3>2, <4>1
    <3>4. CASE op[u] # "write"
      <4>1. Hold(u) = exetermhold /\ Hold(u)' = exetermhold'
          BY <2>2, <2>5, <3>4 DEF Hold
      <4>2. s = "installer"
        <5>1. u \notin Installers
            BY <2>5, <3>1, <3>4 DEF Talking
        <5>2. o = "executor"
            BY <2>3, <5>1
        <5> QED  BY <1>1, <5>2
      <4> QED  BY <1>6, <3>2, <4>1, <4>2
    <3> QED  BY <3>3, <3>4
  <2> QED  BY <2>4, <2>5
<1> QED
    BY <1>1, <1>2, <1>5, <1>8, <1>10, <1>11, <1>12, <1>13 DEF s, o, b, left

\* A read takes k of the bytes that are there, and leaves the words true.
LEMMA ReadTurn ==
    ASSUME PipeTyped, Words, Passed, NEW t \in Threads, Alone(t), Talking, ReadBytes(t),
           total[t] < count[t], ret[t] = "none",
           "EXECUTERTERM" \in flags => bytes[Other(Side(t))] = 0
    PROVE  \E k \in Nat :
             /\ 1 <= k /\ k <= count[t] - total[t] /\ Turned(t, k)
             /\ bytes'[Other(Side(t))] = bytes[Other(Side(t))] - k
             /\ bytes'[Side(t)] = bytes[Side(t)]
             /\ PipeTyped' /\ Words' /\ Passed'
<1> USE SideFacts
<1> DEFINE s == Side(t)
           o == Other(s)
           b == bytes[o]
           left == count[t] - total[t]
           k == LeastOf(left, b)
           unread == (b + UIntMod - k) % UIntMod
           ops == IF s = "installer" /\ AllRead(unread) THEN {"write", "term"} ELSE {"write"}
<1>1. s \in Sides /\ o \in Sides /\ s # o /\ Other(o) = s /\ \A r \in Sides : r = s \/ r = o
    OBVIOUS
<1>2. pc[t] = "enter" /\ op[t] = "read" /\ "EXECUTERTERM" \notin flags
    BY DEF ReadBytes, Entered, AtEof
<1>3. /\ count[t] \in Nat /\ total[t] \in Nat /\ b \in 0 .. Capacity /\ bytes[s] \in 0 .. Capacity
      /\ bytes \in [Sides -> 0 .. Capacity]
      /\ readhold \in [Sides -> BOOLEAN] /\ writehold \in [Sides -> BOOLEAN]
      /\ exetermhold \in BOOLEAN
    BY <1>1 DEF PipeTyped
<1>4. b > 0 /\ readhold[s] = FALSE
  <2>1. ~readhold[s] /\ readhold[s] = (b = 0)
      BY <1>1, <1>2 DEF Passed, Hold, Words
  <2>2. b # 0
      BY <2>1
  <2>3. b > 0
      BY <1>3, <2>2
  <2>4. readhold[s] = FALSE
      BY <2>1, <2>2
  <2> QED  BY <2>3, <2>4
<1>5. k \in Nat /\ 1 <= k /\ k <= left /\ k <= b
    BY <1>3, <1>4 DEF LeastOf
<1>6. /\ bytes' = [bytes EXCEPT ![o] = unread]
      /\ readhold' = [readhold EXCEPT ![s] = readhold[s] \/ unread = 0]
      /\ writehold' = [writehold EXCEPT ![o] = FALSE]
      /\ exetermhold' = (exetermhold /\ ~(s = "installer" /\ unread = 0))
      /\ Moved(t, k, ops)
  <2>1. k = IF bytes[o] > 0 THEN LeastOf(left, bytes[o]) ELSE left
      BY <1>4
  <2> DEFINE kk == IF bytes[o] > 0 THEN LeastOf(left, bytes[o]) ELSE left
             un == (bytes[o] + UIntMod - kk) % UIntMod
  <2>2. /\ bytes' = [bytes EXCEPT ![o] = un]
        /\ readhold' = [readhold EXCEPT ![s] = @ \/ un = 0]
        /\ writehold' = WriteHoldCleared(o)
        /\ exetermhold' = (exetermhold /\ ~(s = "installer" /\ AllRead(un)))
        /\ Moved(t, kk, IF s = "installer" /\ AllRead(un) THEN {"write", "term"} ELSE {"write"})
      BY DEF ReadBytes
  <2> HIDE DEF s, o, left, k, kk
  <2>3. kk = k
      BY <2>1 DEF kk
  <2>4. un = unread
      BY <2>3
  <2> HIDE DEF un, unread
  <2> QED  BY <1>1, <1>3, <2>2, <2>3, <2>4 DEF AllRead, WriteHoldCleared
<1>7. unread = b - k
  <2> HIDE DEF k, b
  <2> DEFINE w == b + UIntMod - k
  <2>1. w \in Nat /\ UIntMod \in Nat \ {0} /\ w < 2 * UIntMod /\ ~(w < UIntMod)
      BY <1>3, <1>5
  <2> HIDE DEF w
  <2>2. w % UIntMod = w - UIntMod
      BY <2>1, Wrap
  <2>3. w - UIntMod = b - k
      BY <1>3, <1>5 DEF w
  <2> QED  BY <2>2, <2>3 DEF w
<1> HIDE DEF s, o, b, left, k, unread
<1>8. /\ bytes' \in [Sides -> 0 .. Capacity] /\ bytes'[o] = b - k /\ bytes'[s] = bytes[s]
  <2>1. b - k \in 0 .. Capacity
      BY <1>3, <1>5
  <2> QED  BY <1>1, <1>3, <1>6, <1>7, <2>1
<1>9. /\ writehold' \in [Sides -> BOOLEAN] /\ readhold' \in [Sides -> BOOLEAN]
      /\ exetermhold' \in BOOLEAN
      /\ readhold'[s] = (readhold[s] \/ unread = 0) /\ readhold'[o] = readhold[o]
      /\ writehold'[o] = FALSE /\ writehold'[s] = writehold[s]
    BY <1>1, <1>3, <1>6
<1>10. /\ Turned(t, k)
       /\ pc' \in [Threads -> Stations]
       /\ op' \in [Threads -> {"none", "read", "write", "term"}]
       /\ count' \in [Threads -> Nat] /\ total' \in [Threads -> Nat]
       /\ loaded' \in [Threads -> SUBSET JobFlags] /\ ret' \in [Threads -> Results]
       /\ \A u \in Threads \ {t} :
            \/ pc'[u] = pc[u]
            \/ pc'[u] = "enter" /\ Side(u) = o /\ op[u] \in ops
  <2>1. k <= count[t] - total[t]
      BY <1>5 DEF left
  <2> HIDE DEF ops
  <2> QED  BY <1>2, <1>5, <1>6, <2>1, MovedTurn DEF o, s
<1>11. PipeTyped'
    BY <1>8, <1>9, <1>10 DEF PipeTyped, Turned
<1>12. Words'
  <2>1. \A r \in Sides : /\ readhold'[r] = (bytes'[Other(r)] = 0)
                         /\ writehold'[r] = (bytes'[r] = Capacity)
    <3>1. /\ readhold[o] = (bytes[s] = 0) /\ writehold[s] = (bytes[s] = Capacity)
        BY <1>1, <1>2 DEF Words, o
    <3>2. readhold'[s] = (bytes'[o] = 0) /\ readhold'[o] = (bytes'[s] = 0)
        BY <1>4, <1>7, <1>8, <1>9, <3>1
    <3>3. bytes'[o] # Capacity
        BY <1>3, <1>5, <1>8
    <3>4. writehold'[s] = (bytes'[s] = Capacity) /\ writehold'[o] = (bytes'[o] = Capacity)
        BY <1>8, <1>9, <3>1, <3>3
    <3> QED  BY <1>1, <3>2, <3>4 DEF o
  <2>2. exetermhold' = (bytes'["executor"] # 0)
    <3>1. exetermhold = (bytes["executor"] # 0)
        BY DEF Words
    <3>2. CASE s = "installer"
      <4>1. o = "executor"
          BY <1>1, <3>2
      <4>2. exetermhold = TRUE
        <5>1. bytes["executor"] # 0
            BY <1>3, <1>4, <4>1 DEF b
        <5> QED  BY <3>1, <5>1
      <4> QED  BY <1>6, <1>7, <1>8, <3>2, <4>1, <4>2
    <3>3. CASE s # "installer"
      <4>1. s = "executor"
          BY <1>1, <3>3
      <4>2. exetermhold' = exetermhold
          BY <1>3, <1>6, <3>3
      <4>3. bytes'["executor"] = bytes["executor"]
          BY <1>8, <4>1
      <4> QED  BY <3>1, <4>2, <4>3
    <3> QED  BY <3>2, <3>3
  <2> QED  BY <2>1, <2>2 DEF Words
<1>13. Passed'
  <2> SUFFICES ASSUME NEW u \in Threads, pc'[u] \in {"enter", "store"}
               PROVE  ~Hold(u)'
      BY DEF Passed
  <2>1. u # t
      BY <1>10 DEF Turned
  <2>2. op'[u] = op[u]
      BY <1>10, <2>1 DEF Turned, Kept
  <2>3. Side(u) = o
    <3>1. Side(u) # s
      <4>1. pc[u] \in {"asleep", "enter", "store"}
          BY <1>10, <2>1 DEF Turned, Kept
      <4> QED  BY <2>1, <4>1 DEF Alone, s
    <3> QED  BY <1>1, <3>1
  <2>4. CASE op[u] = "write"
    <3>1. Hold(u)' = writehold'[o]
        BY <2>2, <2>3, <2>4 DEF Hold
    <3> QED  BY <1>9, <3>1
  <2>5. CASE op[u] = "read"
    <3>1. pc[u] = pc'[u]
        BY <1>10, <2>1, <2>5 DEF ops
    <3>2. ~Hold(u)
        BY <3>1 DEF Passed
    <3>3. Hold(u) = readhold[o] /\ Hold(u)' = readhold'[o]
        BY <2>2, <2>3, <2>5 DEF Hold
    <3> QED  BY <1>9, <3>2, <3>3
  <2>6. CASE op[u] \notin {"read", "write"}
    <3>1. Hold(u) = exetermhold /\ Hold(u)' = exetermhold'
        BY <2>2, <2>6 DEF Hold
    <3>2. CASE pc[u] = pc'[u]
      <4>1. ~Hold(u)
          BY <3>2 DEF Passed
      <4> QED  BY <1>6, <3>1, <4>1
    <3>3. CASE pc[u] # pc'[u]
      <4>1. s = "installer" /\ unread = 0
          BY <1>10, <2>1, <2>6, <3>3 DEF ops, AllRead
      <4> QED  BY <1>6, <3>1, <4>1
    <3> QED  BY <3>2, <3>3
  <2> QED  BY <2>4, <2>5, <2>6
<1> QED
    BY <1>1, <1>5, <1>8, <1>10, <1>11, <1>12, <1>13 DEF s, o, b, left

-----------------------------------------------------------------------------
(* What a step of one side leaves to the other *)

LEMMA HandleKept ==
    ASSUME NEW h \in Installers, HandleOK(h), Kept(h), holder' = holder,
           hjob'[h] = hjob[h], hpos'[h] = hpos[h], dieerr'[h] = dieerr[h],
           result'[h] = result[h],
           verdict'[h] = verdict[h] \/ (verdict[h] = "none" /\ h = holder)
    PROVE  HandleOK(h)'
<1>0. result[h] # "none" => result[h] = verdict[h]
    BY DEF HandleOK
<1>1. \/ verdict'[h] = verdict[h]
      \/ verdict[h] = "none" /\ h = holder /\ result[h] = "none"
    BY <1>0
<1>2. pc'[h] = pc[h] \/ (pc[h] = "asleep" /\ pc'[h] = "enter")
    BY DEF Kept
<1>3. result'[h] # "none" => result'[h] = verdict'[h]
    BY <1>1 DEF HandleOK
<1>4. hpos'[h] = 0 => pc'[h] \in {"idle", "gone", "dead"} /\ ret'[h] = "none" /\ total'[h] = 0
    BY <1>2 DEF HandleOK, Kept
<1>5. hpos'[h] # 0 => /\ hjob'[h] \in Jobs /\ hpos'[h] <= HandleLen(hjob'[h])
                      /\ pc'[h] \in Calling \cup {"idle", "dead"}
    BY <1>2 DEF HandleOK, Kept, Calling
<1>6. hpos'[h] # 0 /\ pc'[h] # "dead" => h = holder' \/ Finished(h)'
    BY <1>1, <1>2 DEF HandleOK, Kept, Finished
<1> QED
    BY <1>3, <1>4, <1>5, <1>6 DEF HandleOK

LEMMA CallKept ==
    ASSUME NEW h \in Installers, HandleCallOK(h), Kept(h),
           hjob'[h] = hjob[h], hpos'[h] = hpos[h], dieerr'[h] = dieerr[h],
           verdict'[h] = verdict[h], flags \subseteq flags', pc[h] = "or" => flags' = flags
    PROVE  HandleCallOK(h)'
BY DEF HandleCallOK, Kept, Calling

LEMMA WorkerKept ==
    ASSUME NEW h \in Installers, WorkerOK(h), Kept(Worker), UNCHANGED <<slotVars, wpos>>,
           hjob'[h] = hjob[h], verdict'[h] = verdict[h], pc[Worker] = "store" => flags' = flags
    PROVE  WorkerOK(h)'
BY DEF WorkerOK, Kept, slotVars

\* A step of the handle that has the slot, in one of its calls.
LEMMA HandleSide ==
    ASSUME ProtInv, NEW h \in Installers, h = holder, hpos[h] # 0,
           UNCHANGED <<slotVars, handleVars, wpos, verdict, intruded>>,
           PipeTyped', \A u \in Threads \ {h} : Kept(u),
           pc'[h] \in Calling \cup {"idle", "dead"},
           HandleCallOK(h)', Balanced(h)',
           "EXECUTERTERM" \in flags' <=> "EXECUTERTERM" \in flags,
           pc[Worker] = "store" => flags' = flags,
           bytes["executor"] = 0 => bytes'["executor"] = 0,
           Words', Passed'
    PROVE  ProtInv'
<1>1. UNCHANGED <<slot, jobtype, holder, hjob, hpos, dieerr, result, wpos, verdict, intruded>>
    BY DEF slotVars, handleVars
<1>2. Kept(Worker) /\ h # Worker /\ Worker \in Threads
    BY TheWorker
<1>3. HandleOK(h) /\ hjob[h] # "none" /\ JobOK(h)
  <2>1. HandleOK(h) /\ JobTyped
      BY DEF ProtInv
  <2>2. hjob[h] # "none"
      BY <2>1, JobProtocolAssumption DEF HandleOK
  <2> QED  BY <2>1, <2>2 DEF ProtInv
<1>4. JobTyped'
    BY <1>1 DEF ProtInv, JobTyped
<1>5. SlotOK'
    BY <1>1, <1>2 DEF ProtInv, SlotOK, Kept
<1>6. ASSUME NEW g \in Installers PROVE HandleOK(g)'
  <2>1. CASE g = h
      BY <1>1, <1>3, <2>1 DEF HandleOK
  <2>2. CASE g # h
    <3>1. Kept(g) /\ HandleOK(g)
        BY <2>2, TheWorker DEF ProtInv
    <3> QED  BY <1>1, <3>1, HandleKept
  <2> QED  BY <2>1, <2>2
<1>7. ASSUME NEW g \in Installers, g = holder', hjob'[g] # "none" PROVE JobOK(g)'
  <2>1. g = h
      BY <1>1, <1>7
  <2>2. slot' # "empty" => WorkerOK(h)'
      BY <1>1, <1>2, <1>3, WorkerKept DEF JobOK, slotVars
  <2>3. Ended(h)' <=> Ended(h)
      BY <1>1, <1>2 DEF Ended, Kept
  <2> QED
      BY <1>1, <1>3, <2>1, <2>2, <2>3 DEF JobOK
<1> QED
    BY <1>1, <1>4, <1>5, <1>6, <1>7 DEF ProtInv

\* A step of the worker that owns the slot, or takes it.
LEMMA WorkerSide ==
    ASSUME ProtInv, NEW h \in Installers, h = holder, slot # "empty", slot' = "owned",
           UNCHANGED <<jobtype, holder, handleVars, intruded>>,
           wpos' \in Nat \ {0}, verdict' \in [Installers -> Verdicts],
           \A g \in Installers \ {h} : verdict'[g] = verdict[g],
           verdict'[h] = verdict[h] \/ verdict[h] = "none",
           PipeTyped', \A u \in Threads \ {Worker} : Kept(u),
           hpos[h] # 0 => HandleCallOK(h)', WorkerOK(h)', Balanced(h)',
           "EXECUTERTERM" \in flags' => Ended(h)',
           Ended(h)' => bytes'["executor"] = 0,
           Words', Passed'
    PROVE  ProtInv'
<1>1. UNCHANGED <<jobtype, holder, hjob, hpos, dieerr, result, intruded>>
    BY DEF handleVars
<1>2. JobTyped'
    BY <1>1 DEF ProtInv, JobTyped
<1>3. SlotOK'
    BY <1>1 DEF ProtInv, SlotOK
<1>4. ASSUME NEW g \in Installers PROVE HandleOK(g)'
  <2>1. Kept(g) /\ HandleOK(g)
      BY TheWorker DEF ProtInv
  <2>2. verdict'[g] = verdict[g] \/ (verdict[g] = "none" /\ g = holder)
      OBVIOUS
  <2> QED  BY <1>1, <2>1, <2>2, HandleKept
<1>5. ASSUME NEW g \in Installers, g = holder', hjob'[g] # "none" PROVE JobOK(g)'
  <2>1. g = h
      BY <1>1, <1>5
  <2> QED  BY <1>1, <2>1 DEF JobOK
<1> QED
    BY <1>1, <1>2, <1>3, <1>4, <1>5 DEF ProtInv

-----------------------------------------------------------------------------
(* The steps of a handle *)

LEMMA JobsFit ==
    ASSUME Apart
    PROVE  Jobs \subseteq Fitting /\ "none" \notin Jobs
BY JobProtocolAssumption DEF Apart, Fitting

\* Who is in a call has the slot.
LEMMA Caller ==
    ASSUME ProtInv, NEW h \in Installers, pc[h] \in Calling
    PROVE  /\ hpos[h] # 0 /\ h = holder /\ hjob[h] \in Jobs /\ hpos[h] <= HandleLen(hjob[h])
           /\ JobOK(h) /\ HandleCallOK(h)
           /\ "EXECUTERTERM" \in flags => bytes["executor"] = 0
<1>1. HandleOK(h)
    BY DEF ProtInv
<1>2. hpos[h] # 0 /\ h = holder /\ hjob[h] \in Jobs /\ hpos[h] <= HandleLen(hjob[h])
    BY <1>1 DEF HandleOK, Calling, Finished
<1>3. JobOK(h)
    BY <1>2, JobProtocolAssumption DEF ProtInv
<1> QED
    BY <1>2, <1>3 DEF JobOK, ProtInv, SlotOK

LEMMA Waiting ==
    ASSUME ProtInv
    PROVE  /\ Talking
           /\ \A t \in Threads : t = Worker \/ pc[t] \in Calling => Alone(t)
           /\ \A h \in Installers : pc[h] # "store"
<1>1. ASSUME NEW h \in Installers PROVE pc[h] # "store"
  <2>1. HandleOK(h)
      BY DEF ProtInv
  <2> QED  BY <2>1 DEF HandleOK, Calling
<1>2. Talking
  <2> SUFFICES ASSUME NEW h \in Installers, pc[h] \in {"asleep", "enter", "store"}
               PROVE  op[h] \in {"read", "write"}
      BY DEF Talking
  <2>1. pc[h] \in Calling
      BY <1>1 DEF Calling
  <2>2. HandleCallOK(h)
      BY <2>1, Caller
  <2> QED  BY <2>1, <2>2 DEF HandleCallOK
<1>3. ASSUME NEW t \in Threads, t = Worker \/ pc[t] \in Calling PROVE Alone(t)
  <2> SUFFICES ASSUME NEW u \in Threads \ {t}, Side(u) = Side(t),
                      pc[u] \in {"asleep", "enter", "store"}
               PROVE  FALSE
      BY DEF Alone
  <2>1. t \in Installers /\ u \in Installers
      BY TheWorker
  <2>2. pc[t] \in Calling /\ pc[u] \in Calling
      BY <1>1, <1>3, <2>1, TheWorker DEF Calling
  <2> QED  BY <2>1, <2>2, Caller
<1> QED
    BY <1>1, <1>2, <1>3

\* A call of the handle's begins.
LEMMA HandleBegins ==
    ASSUME ProtInv, NEW h \in Installers, h = holder, hpos[h] # 0, ret[h] = "none",
           pc[h] = "idle", hjob[h] \in Fitting, JobOK(h), UNCHANGED protVars,
           NEW o \in {"read", "write"}, NEW n \in Nat \ {0}, NEW l \in {"or", "wait"},
           Begin(h, o, n, l), UNCHANGED <<flags, pipeVars>>,
           IF hpos[h] <= Asks(hjob[h])
           THEN o = "write" /\ n = 1 /\ l = "or" /\ loaded' = [loaded EXCEPT ![h] = flags]
           ELSE /\ o = "read" /\ n = ReadSize(hjob[h], hpos[h]) /\ l = "wait"
                /\ UNCHANGED loaded /\ "INSTALLWRITE" \in flags
    PROVE  ProtInv'
<1>0. h \in Threads /\ h # Worker /\ PipeTyped /\ HandleCallOK(h)
    BY TheWorker DEF ProtInv, JobOK
<1>1. /\ pc' = [pc EXCEPT ![h] = l] /\ op' = [op EXCEPT ![h] = o]
      /\ count' = [count EXCEPT ![h] = n] /\ total' = [total EXCEPT ![h] = 0]
      /\ ret' = [ret EXCEPT ![h] = "none"]
    BY DEF Begin, Goto
<1>2. /\ pc \in [Threads -> Stations] /\ op \in [Threads -> {"none", "read", "write", "term"}]
      /\ count \in [Threads -> Nat] /\ total \in [Threads -> Nat]
      /\ loaded \in [Threads -> SUBSET JobFlags] /\ ret \in [Threads -> Results]
      /\ flags \in SUBSET JobFlags
    BY <1>0 DEF PipeTyped
<1>3. UNCHANGED <<flags, bytes, readhold, writehold, exetermhold>>
    BY DEF pipeVars
<1>4. UNCHANGED <<slotVars, handleVars, wpos, verdict, intruded>> /\ UNCHANGED <<hjob, hpos, dieerr>>
    BY DEF protVars, handleVars
<1>5. /\ pc'[h] = l /\ op'[h] = o /\ count'[h] = n /\ total'[h] = 0 /\ ret'[h] = "none"
      /\ l = "or" => loaded'[h] = flags
    BY <1>0, <1>1, <1>2
<1>6. PipeTyped'
  <2>1. l \in Stations /\ "none" \in Results
      BY DEF Stations, Calling, Results
  <2>2. /\ pc' \in [Threads -> Stations] /\ op' \in [Threads -> {"none", "read", "write", "term"}]
        /\ count' \in [Threads -> Nat] /\ total' \in [Threads -> Nat]
        /\ ret' \in [Threads -> Results]
      BY <1>1, <1>2, <2>1
  <2>3. loaded' \in [Threads -> SUBSET JobFlags]
      BY <1>2
  <2> QED  BY <1>0, <1>3, <2>2, <2>3 DEF PipeTyped
<1>7. \A u \in Threads \ {h} : Kept(u)
    BY <1>1, <1>2 DEF Kept
<1>8. pc'[h] \in Calling \cup {"idle", "dead"}
    BY <1>5 DEF Calling
<1>9. HandleCallOK(h)'
    BY <1>0, <1>3, <1>4, <1>5 DEF HandleCallOK, Calling
<1>10. Balanced(h)'
  <2>1. total[h] = 0
      BY <1>0 DEF HandleCallOK
  <2>2. Kept(Worker)
      BY <1>0, <1>7, TheWorker
  <2>3. Asked(h)' = Asked(h) /\ Awaited(h)' = Awaited(h)
      BY <1>4, <1>5, <2>1 DEF Asked, Awaited, Done
  <2>4. Heard(h)' = Heard(h) /\ Owed(h)' = Owed(h)
      BY <1>4, <2>2 DEF Heard, Owed, Done, Kept, slotVars
  <2> QED  BY <1>3, <2>3, <2>4 DEF JobOK, Balanced
<1>11. Words'
    BY <1>3 DEF ProtInv, Words
<1>12. Passed'
  <2> SUFFICES ASSUME NEW u \in Threads, pc'[u] \in {"enter", "store"}
               PROVE  ~Hold(u)'
      BY DEF Passed
  <2>1. u # h /\ pc[u] = pc'[u] /\ op'[u] = op[u]
      BY <1>1, <1>2, <1>5
  <2>2. ~Hold(u)
      BY <2>1 DEF ProtInv, Passed
  <2> QED  BY <1>3, <2>1, <2>2 DEF Hold
<1> QED
    BY <1>3, <1>4, <1>6, <1>7, <1>8, <1>9, <1>10, <1>11, <1>12, HandleSide

LEMMA HandleCallKeeps ==
    ASSUME ProtInv, Apart, NEW h \in Installers, HandleCall(h)
    PROVE  ProtInv'
<1> DEFINE j == hjob[h]
           p == hpos[h]
           item == HandleItem(h)
<1>1. hpos[h] # 0 /\ ret[h] = "none" /\ UNCHANGED protVars
    BY DEF HandleCall
<1>2. h \in Threads /\ h # Worker /\ h \notin Executors /\ HandleOK(h) /\ JobTyped /\ PipeTyped
    BY TheWorker DEF ProtInv
<1>3. pc[h] = "idle"
    BY DEF HandleCall, InstallerWrite, JobRead, Read, ReadRefused
<1>4. h = holder /\ j \in Jobs /\ p \in Nat \ {0} /\ p <= HandleLen(j)
    BY <1>1, <1>2, <1>3 DEF HandleOK, Finished, JobTyped
<1>5. j \in Fitting /\ j # "none"
    BY <1>4, JobsFit
<1>6. JobOK(h) /\ HandleCallOK(h)
    BY <1>1, <1>4, <1>5 DEF ProtInv, JobOK
<1>7. /\ Asks(j) \in {1, 2} /\ HandleLen(j) \in Nat
      /\ j \in OneWord => HandleLen(j) = Asks(j) + 1
      /\ j \notin OneWord => Second(j) \in Nat \ {0}
    BY <1>5, Measures
<1>8. p \in 1 .. HandleLen(j)
    BY <1>4, <1>7
<1>9. /\ item.op = HandleOp(j, p)
      /\ item.n = IF p <= Asks(j) THEN 1 ELSE ReadSize(j, p)
    BY <1>5, <1>8, HandleScripts DEF HandleItem
<1>10. CASE p <= Asks(j)
  <2>1. InstallerWrite(h, 1)
      BY <1>9, <1>10 DEF HandleCall, HandleOp
  <2>2. Begin(h, "write", 1, "or") /\ loaded' = [loaded EXCEPT ![h] = flags]
        /\ UNCHANGED <<flags, pipeVars>>
      BY <2>1 DEF InstallerWrite
  <2> DEFINE n == 1
  <2>3. n \in Nat \ {0} /\ n = 1
      OBVIOUS
  <2>4. Begin(h, "write", n, "or")
      BY <2>2
  <2> HIDE DEF n
  <2> QED
      BY <1>1, <1>3, <1>4, <1>5, <1>6, <1>10, <2>2, <2>3, <2>4, HandleBegins
<1>11. CASE ~(p <= Asks(j))
  <2> DEFINE n == ReadSize(j, p)
  <2>1. JobRead(h, n)
      BY <1>9, <1>11 DEF HandleCall, HandleOp
  <2>2. "INSTALLWRITE" \in flags /\ "INSTALLERTERM" \notin flags
    <3>1. p > 1
        BY <1>4, <1>7, <1>11
    <3> QED  BY <1>2, <1>6, <3>1 DEF HandleCallOK, PipeTyped, JobFlags
  <2>3. n \in Nat \ {0}
      BY <1>4, <1>7, <1>8, <1>11 DEF ReadSize
  <2>4. Begin(h, "read", n, "wait") /\ UNCHANGED <<flags, pipeVars>> /\ UNCHANGED loaded
      BY <1>2, <2>1, <2>2 DEF JobRead, Read, ReadRefused
  <2> HIDE DEF n
  <2> QED
      BY <1>1, <1>3, <1>4, <1>5, <1>6, <1>11, <2>2, <2>3, <2>4, HandleBegins DEF n
<1> QED
    BY <1>10, <1>11

\* While a word of the request is missing the worker is not past it.
LEMMA Asking ==
    ASSUME JobTyped, SlotOK, PipeTyped, NEW h \in Installers, JobOK(h), hjob[h] \in Fitting,
           hpos[h] # 0, hpos[h] <= Asks(hjob[h]), ret[h] # "OK"
    PROVE  /\ verdict[h] = "none" /\ "EXECUTERTERM" \notin flags /\ bytes["executor"] = 0
           /\ pc[Worker] # "store" /\ slot # "empty" /\ wpos <= Asks(hjob[h])
<1> DEFINE j == hjob[h]
<1>1. /\ Asks(j) \in {1, 2} /\ WorkerLen(j) \in Nat /\ WorkerLen(j) > Asks(j)
      /\ Answer(j) \in Nat
    BY Measures
<1>2. hpos[h] \in Nat /\ wpos \in Nat /\ slot \in {"empty", "installed", "owned"}
    BY DEF JobTyped
<1>3. total[h] = 0 /\ HandleCallOK(h) /\ Balanced(h)
    BY DEF JobOK, HandleCallOK
<1>4. Asked(h) = hpos[h] - 1
    BY <1>1, <1>2, <1>3 DEF Asked, Done
<1>5. bytes["installer"] \in Nat /\ bytes["executor"] \in Nat
    BY SideFacts DEF PipeTyped
<1>6. Heard(h) # Asks(j)
    BY <1>1, <1>2, <1>3, <1>4, <1>5 DEF Balanced
<1>7. slot # "empty" /\ (slot = "owned" => wpos <= Asks(j))
    BY <1>2, <1>6 DEF Heard
<1>8. wpos <= Asks(j) /\ WorkerOK(h)
    BY <1>1, <1>2, <1>7 DEF SlotOK, JobOK
<1>9. verdict[h] = "none"
    BY <1>2, <1>7, <1>8 DEF WorkerOK
<1>10. ~Ended(h)
    BY <1>1, <1>2, <1>8 DEF Ended
<1>11. pc[Worker] # "store"
    BY <1>1, <1>2, <1>7, <1>8 DEF SlotOK, WorkerOK
<1>12. Owed(h) = Answer(j) /\ Awaited(h) = Answer(j) - 0
    BY <1>1, <1>7, <1>9 DEF Owed, Awaited
<1>13. bytes["executor"] = 0
    BY <1>1, <1>3, <1>5, <1>12 DEF Balanced
<1> QED
    BY <1>7, <1>8, <1>9, <1>10, <1>11, <1>13 DEF JobOK

\* When the worker has terminated the job it owes nothing.
LEMMA NothingOwed ==
    ASSUME JobTyped, NEW h \in Installers, JobOK(h), hjob[h] \in Fitting,
           slot = "empty" \/ Ended(h)
    PROVE  Owed(h) = 0
<1> DEFINE j == hjob[h]
           a == Asks(j)
           l == WorkerLen(j)
<1>1. CASE slot = "empty"
    BY <1>1 DEF Owed
<1>2. CASE Ended(h)
  <2>1. /\ a \in {1, 2} /\ Second(j) \in Nat /\ Third(j) \in Nat /\ l \in Nat /\ l > a + 1
        /\ Answer(j) = 1 + Second(j) + Third(j)
        /\ \/ l + 1 = a + 3 /\ Second(j) = 0 /\ Third(j) = 0
           \/ l + 1 = a + 4 /\ Third(j) = 0
           \/ l + 1 = a + 5
      BY Measures
  <2>2. slot = "owned" /\ wpos = l + 1
      BY <1>2 DEF Ended
  <2>3. verdict[h] # "none"
      BY <2>1, <2>2 DEF JobOK, WorkerOK
  <2>4. WriteBefore(j, wpos) = Answer(j)
      BY <2>1, <2>2 DEF WriteBefore
  <2> HIDE DEF j
  <2>5. Answer(j) \in Nat
      BY <2>1
  <2> QED
      BY <2>1, <2>2, <2>3, <2>4, <2>5 DEF Owed, j
<1> QED
    BY <1>1, <1>2

LEMMA HandleWait ==
    ASSUME ProtInv, NEW h \in Installers, Wait(h), UNCHANGED protVars
    PROVE  ProtInv'
<1> DEFINE l == IF Hold(h) THEN "asleep" ELSE "enter"
<1>0. h \in Threads /\ h # Worker /\ PipeTyped
    BY TheWorker DEF ProtInv
<1>1. /\ pc[h] = "wait" /\ pc' = [pc EXCEPT ![h] = l]
      /\ UNCHANGED <<flags, pipeVars, pipemutex, op, count, total, loaded, ret>>
    BY DEF Wait, Goto
<1>2. pc[h] \in Calling
    BY <1>1 DEF Calling
<1>3. hpos[h] # 0 /\ h = holder /\ JobOK(h) /\ HandleCallOK(h)
    BY <1>2, Caller
<1>4. UNCHANGED <<slotVars, handleVars, wpos, verdict, intruded>> /\ UNCHANGED <<hjob, hpos, dieerr>>
    BY DEF protVars, handleVars
<1>5. UNCHANGED <<flags, bytes, readhold, writehold, exetermhold, op, count, total, loaded, ret>>
    BY <1>1 DEF pipeVars
<1>6. pc \in [Threads -> Stations]
    BY <1>0 DEF PipeTyped
<1>7. pc'[h] \in {"asleep", "enter"} /\ (pc'[h] = "enter" => ~Hold(h))
    BY <1>0, <1>1, <1>6
<1>8. PipeTyped'
  <2>1. l \in Stations
      BY DEF Stations, Calling
  <2>2. pc' \in [Threads -> Stations]
      BY <1>1, <1>6, <2>1
  <2> QED  BY <1>0, <1>5, <2>2 DEF PipeTyped
<1>9. \A u \in Threads \ {h} : Kept(u)
    BY <1>1, <1>6 DEF Kept
<1>10. HandleCallOK(h)'
    BY <1>1, <1>3, <1>4, <1>5, <1>7 DEF HandleCallOK, Calling
<1>11. Balanced(h)'
    BY <1>3, <1>4, <1>5 DEF JobOK, Balanced, Asked, Heard, Awaited, Owed, Done, slotVars
<1>12. Words'
    BY <1>5 DEF ProtInv, Words
<1>13. Passed'
  <2> SUFFICES ASSUME NEW u \in Threads, pc'[u] \in {"enter", "store"}
               PROVE  ~Hold(u)'
      BY DEF Passed
  <2>1. ~Hold(u)
    <3>1. CASE u = h
        BY <1>7, <3>1
    <3>2. CASE u # h
        BY <1>1, <1>6, <3>2 DEF ProtInv, Passed
    <3> QED  BY <3>1, <3>2
  <2> QED  BY <1>5, <2>1 DEF Hold
<1>14. pc'[h] \in Calling \cup {"idle", "dead"}
    BY <1>7 DEF Calling
<1> QED
    BY <1>3, <1>4, <1>5, <1>8, <1>9, <1>10, <1>11, <1>12, <1>13, <1>14, HandleSide

\* transferbuff_FLAGS |= EDBS_JFINSTALLWRITE: the worker does not touch them at this time.
LEMMA HandleStores ==
    ASSUME ProtInv, Apart, NEW h \in Installers, InstallerWriteStore(h), UNCHANGED protVars
    PROVE  ProtInv'
<1>0. h \in Threads /\ h # Worker /\ PipeTyped /\ JobTyped /\ SlotOK
    BY TheWorker DEF ProtInv
<1>1. /\ pc[h] = "or" /\ pc' = [pc EXCEPT ![h] = "wait"]
      /\ flags' = Ored(loaded[h], "INSTALLWRITE") /\ loaded' = [loaded EXCEPT ![h] = {}]
      /\ UNCHANGED <<pipeVars, pipemutex, op, count, total, ret>>
    BY DEF InstallerWriteStore, Goto
<1>2. pc[h] \in Calling
    BY <1>1 DEF Calling
<1>3. hpos[h] # 0 /\ h = holder /\ JobOK(h) /\ HandleCallOK(h) /\ hjob[h] \in Fitting
    BY <1>2, Caller, JobsFit
<1>4. hpos[h] <= Asks(hjob[h]) /\ loaded[h] = flags /\ ret[h] = "none"
    BY <1>1, <1>2, <1>3 DEF HandleCallOK
<1>5. pc[Worker] # "store" /\ "EXECUTERTERM" \notin flags
    BY <1>0, <1>3, <1>4, Asking
<1>6. UNCHANGED <<slotVars, handleVars, wpos, verdict, intruded>> /\ UNCHANGED <<hjob, hpos, dieerr>>
    BY DEF protVars, handleVars
<1>7. UNCHANGED <<bytes, readhold, writehold, exetermhold, op, count, total, ret>>
    BY <1>1 DEF pipeVars
<1>8. pc \in [Threads -> Stations] /\ loaded \in [Threads -> SUBSET JobFlags]
      /\ flags \in SUBSET JobFlags
    BY <1>0 DEF PipeTyped
<1>9. flags' = flags \cup {"INSTALLWRITE"} /\ pc'[h] = "wait"
    BY <1>0, <1>1, <1>4, <1>8 DEF Ored
<1>10. PipeTyped'
  <2>1. "wait" \in Stations
      BY DEF Stations, Calling
  <2>2. pc' \in [Threads -> Stations] /\ loaded' \in [Threads -> SUBSET JobFlags]
      BY <1>1, <1>8, <2>1
  <2>3. flags' \in SUBSET JobFlags
      BY <1>8, <1>9 DEF JobFlags
  <2> QED  BY <1>0, <1>7, <2>2, <2>3 DEF PipeTyped
<1>11. \A u \in Threads \ {h} : Kept(u)
    BY <1>1, <1>7, <1>8 DEF Kept
<1>12. HandleCallOK(h)'
    BY <1>1, <1>3, <1>6, <1>7, <1>9 DEF HandleCallOK, Calling
<1>13. Balanced(h)'
    BY <1>3, <1>6, <1>7 DEF JobOK, Balanced, Asked, Heard, Awaited, Owed, Done, slotVars
<1>14. "EXECUTERTERM" \in flags' <=> "EXECUTERTERM" \in flags
    BY <1>9
<1>15. Words'
    BY <1>7, <1>14 DEF ProtInv, Words
<1>16. Passed'
  <2> SUFFICES ASSUME NEW u \in Threads, pc'[u] \in {"enter", "store"}
               PROVE  ~Hold(u)'
      BY DEF Passed
  <2>1. pc[u] = pc'[u]
      BY <1>1, <1>8, <1>9
  <2>2. ~Hold(u)
      BY <2>1 DEF ProtInv, Passed
  <2> QED  BY <1>7, <2>2 DEF Hold
<1>17. pc'[h] \in Calling \cup {"idle", "dead"}
    BY <1>9 DEF Calling
<1> QED
    BY <1>3, <1>5, <1>6, <1>7, <1>10, <1>11, <1>12, <1>13, <1>14, <1>15, <1>16, <1>17, HandleSide

\* A word of the request
LEMMA HandleWrites ==
    ASSUME ProtInv, Apart, NEW h \in Installers, WriteBytes(h), UNCHANGED protVars
    PROVE  ProtInv'
<1> DEFINE j == hjob[h]
<1>0. h \in Threads /\ h # Worker /\ Side(h) = "installer" /\ PipeTyped /\ JobTyped /\ Words /\ Passed
    BY TheWorker DEF ProtInv
<1>1. pc[h] = "enter" /\ op[h] = "write" /\ pc[h] \in Calling
    BY DEF WriteBytes, Entered, Calling
<1>2. hpos[h] # 0 /\ h = holder /\ JobOK(h) /\ HandleCallOK(h) /\ j \in Fitting
    BY <1>1, Caller, JobsFit
<1>3. /\ hpos[h] <= Asks(j) /\ ret[h] = "none" /\ count[h] = 1 /\ total[h] = 0
    BY <1>1, <1>2 DEF HandleCallOK
<1>4. PICK k \in Nat :
        /\ 1 <= k /\ k <= count[h] - total[h] /\ Turned(h, k)
        /\ bytes'["installer"] = bytes["installer"] + k
        /\ bytes'["executor"] = bytes["executor"]
        /\ PipeTyped' /\ Words' /\ Passed'
  <2>1. Alone(h) /\ Talking
      BY <1>0, <1>1, Waiting
  <2>2. total[h] < count[h]
      BY <1>3
  <2> QED  BY <1>0, <1>3, <2>1, <2>2, WriteTurn, SideFacts
<1>5. k = 1 /\ pc'[h] = "idle" /\ total'[h] = 0 /\ ret'[h] = "OK" /\ flags' = flags
  <2>1. k = 1
      BY <1>3, <1>4
  <2> QED  BY <1>3, <1>4, <2>1 DEF Turned
<1>6. \A u \in Threads \ {h} : Kept(u)
    BY <1>4 DEF Turned
<1>7. UNCHANGED <<slotVars, handleVars, wpos, verdict, intruded>> /\ UNCHANGED <<hjob, hpos, dieerr>>
    BY DEF protVars, handleVars
<1>8. Kept(Worker)
    BY <1>0, <1>6, TheWorker
<1>9. hpos[h] \in Nat /\ Asks(j) \in {1, 2} /\ Asks(hjob'[h]) = Asks(j)
    BY <1>0, <1>2, <1>7, Measures DEF JobTyped
<1>10. HandleCallOK(h)'
  <2>1. "INSTALLWRITE" \in flags
      BY <1>1, <1>2 DEF HandleCallOK
  <2> QED  BY <1>2, <1>3, <1>5, <1>7, <1>9, <2>1 DEF HandleCallOK, Calling
<1>11. Balanced(h)'
  <2>1. Asked(h) = hpos[h] - 1 /\ Asked(h)' = hpos[h]
      BY <1>2, <1>3, <1>5, <1>7, <1>9 DEF Asked, Done
  <2>2. Awaited(h)' = Awaited(h)
      BY <1>3, <1>7 DEF Awaited
  <2>3. Heard(h)' = Heard(h) /\ Owed(h)' = Owed(h)
      BY <1>7, <1>8 DEF Heard, Owed, Done, Kept, slotVars
  <2>4. Balanced(h)
      BY <1>2 DEF JobOK
  <2>5. bytes'["installer"] = Asked(h)' - Heard(h)'
    <3>1. Heard(h) \in Int
      <4>1. wpos \in Nat /\ total[Worker] \in Nat
          BY <1>0, TheWorker DEF JobTyped, PipeTyped
      <4> QED  BY <1>9, <4>1 DEF Heard, Done
    <3> QED  BY <1>4, <1>5, <1>9, <2>1, <2>3, <2>4, <3>1 DEF Balanced
  <2> QED  BY <1>4, <2>2, <2>3, <2>4, <2>5 DEF Balanced
<1>12. pc'[h] \in Calling \cup {"idle", "dead"}
    BY <1>5
<1> QED
    BY <1>2, <1>4, <1>5, <1>6, <1>7, <1>10, <1>11, <1>12, HandleSide

\* Bytes of the answer
LEMMA HandleReads ==
    ASSUME ProtInv, Apart, NEW h \in Installers, ReadBytes(h), UNCHANGED protVars
    PROVE  ProtInv'
<1> DEFINE j == hjob[h]
           n == ReadSize(j, hpos[h])
<1>0. h \in Threads /\ h # Worker /\ Side(h) = "installer" /\ PipeTyped /\ JobTyped /\ Words /\ Passed
    BY TheWorker DEF ProtInv
<1>1. pc[h] = "enter" /\ op[h] = "read" /\ pc[h] \in Calling
    BY DEF ReadBytes, Entered, Calling
<1>2. hpos[h] # 0 /\ h = holder /\ JobOK(h) /\ HandleCallOK(h) /\ j \in Fitting
      /\ ("EXECUTERTERM" \in flags => bytes["executor"] = 0)
    BY <1>1, Caller, JobsFit
<1>3. /\ ~(hpos[h] <= Asks(j)) /\ ret[h] = "none" /\ count[h] = n /\ total[h] < count[h]
    BY <1>1, <1>2 DEF HandleCallOK
<1>4. PICK k \in Nat :
        /\ 1 <= k /\ k <= count[h] - total[h] /\ Turned(h, k)
        /\ bytes'["executor"] = bytes["executor"] - k
        /\ bytes'["installer"] = bytes["installer"]
        /\ PipeTyped' /\ Words' /\ Passed'
  <2>1. Alone(h) /\ Talking
      BY <1>0, <1>1, Waiting
  <2> QED  BY <1>0, <1>2, <1>3, <2>1, ReadTurn, SideFacts
<1>5. /\ count[h] \in Nat /\ total[h] \in Nat /\ total'[h] \in Nat
      /\ bytes["executor"] \in Nat /\ bytes'["executor"] \in Nat
    BY <1>0, <1>4, SideFacts DEF PipeTyped
<1>6. \/ /\ pc'[h] = "wait" /\ total'[h] = total[h] + k /\ total'[h] < count[h]
         /\ op'[h] = op[h] /\ count'[h] = count[h] /\ ret'[h] = "none"
      \/ /\ pc'[h] = "idle" /\ total'[h] = 0 /\ total[h] + k = count[h] /\ ret'[h] = "OK"
    BY <1>4 DEF Turned
<1>7. flags' = flags /\ \A u \in Threads \ {h} : Kept(u)
    BY <1>4 DEF Turned
<1>8. UNCHANGED <<slotVars, handleVars, wpos, verdict, intruded>> /\ UNCHANGED <<hjob, hpos, dieerr>>
    BY DEF protVars, handleVars
<1>9. Kept(Worker)
    BY <1>0, <1>7, TheWorker
<1>10. hpos[h] \in Nat /\ Asks(j) \in {1, 2}
    BY <1>0, <1>2, Measures DEF JobTyped
<1>11. HandleCallOK(h)'
    BY <1>1, <1>2, <1>3, <1>6, <1>7, <1>8, <1>10 DEF HandleCallOK, Calling
<1>12. Done(h, n)' = Done(h, n) + k /\ Done(h, n) \in Nat
    BY <1>3, <1>5, <1>6, <1>8 DEF Done
<1>13. Balanced(h)'
  <2>1. Asked(h)' = Asked(h)
      BY <1>3, <1>8, <1>10 DEF Asked
  <2>2. Awaited(h)' = Awaited(h) - k
    <3>1. /\ ReadBefore(j, hpos[h]) \in Int /\ Answer(j) \in Int
        BY <1>2, <1>10, Measures DEF ReadBefore
    <3> HIDE DEF n
    <3>2. Awaited(h) = (IF verdict[h] = "EDIE" THEN 1 ELSE Answer(j))
                       - (ReadBefore(j, hpos[h]) + Done(h, n))
        BY <1>2, <1>3 DEF Awaited, n
    <3>3. Awaited(h)' = (IF verdict[h] = "EDIE" THEN 1 ELSE Answer(j))
                        - (ReadBefore(j, hpos[h]) + Done(h, n)')
        BY <1>2, <1>3, <1>8 DEF Awaited, n
    <3> QED  BY <1>12, <3>1, <3>2, <3>3
  <2>3. Heard(h)' = Heard(h) /\ Owed(h)' = Owed(h)
      BY <1>8, <1>9 DEF Heard, Owed, Done, Kept, slotVars
  <2>4. Balanced(h)
      BY <1>2 DEF JobOK
  <2>5. Owed(h) \in Int
    <3>1. wpos \in Nat /\ total[Worker] \in Nat
        BY <1>0, TheWorker DEF JobTyped, PipeTyped
    <3>2. Asks(j) \in Int /\ Second(j) \in Int /\ Third(j) \in Int /\ Answer(j) \in Int
        BY <1>2, Measures
    <3> QED  BY <3>1, <3>2 DEF Owed, Done, WriteBefore, WriteSize
  <2> QED  BY <1>4, <1>5, <2>1, <2>2, <2>3, <2>4, <2>5 DEF Balanced
<1>14. pc'[h] \in Calling \cup {"idle", "dead"}
    BY <1>6 DEF Calling
<1>15. bytes["executor"] = 0 => bytes'["executor"] = 0
    BY <1>4, <1>5
<1> QED
    BY <1>2, <1>4, <1>7, <1>8, <1>11, <1>13, <1>14, <1>15, HandleSide

\* A handle that reads at the end of the stream is past the error it was sent.
LEMMA AtEnd ==
    ASSUME ProtInv, NEW h \in Installers, JobOK(h), hjob[h] \in Fitting,
           hpos[h] # 0, hpos[h] <= HandleLen(hjob[h]), ~(hpos[h] <= Asks(hjob[h])),
           pc[h] \in Calling, "EXECUTERTERM" \in flags
    PROVE  hpos[h] = Asks(hjob[h]) + 2 /\ verdict[h] = "EDIE" /\ total[h] = 0
<1> DEFINE j == hjob[h]
           a == Asks(j)
           p == hpos[h]
<1>1. PipeTyped /\ JobTyped /\ SlotOK /\ HandleCallOK(h) /\ h \in Threads
    BY TheWorker DEF ProtInv, JobOK
<1>2. /\ a \in {1, 2} /\ Second(j) \in Nat /\ Third(j) \in Nat
      /\ Answer(j) = 1 + Second(j) + Third(j)
      /\ IF j \in OneWord THEN HandleLen(j) = a + 1
         ELSE Second(j) > 0 /\ HandleLen(j) = a + 2 + Third(j)
    BY Measures
<1>3. p \in Nat /\ total[h] \in Nat /\ total[h] < ReadSize(j, p) /\ ret[h] = "none"
    BY <1>1 DEF JobTyped, PipeTyped, HandleCallOK
<1>4. bytes["executor"] = 0 /\ Owed(h) = 0
    BY <1>1, NothingOwed DEF JobOK, SlotOK
<1>5. Awaited(h) = 0
    BY <1>4 DEF JobOK, Balanced
<1>6. (IF verdict[h] = "EDIE" THEN 1 ELSE Answer(j)) - (ReadBefore(j, p) + total[h]) = 0
    BY <1>3, <1>5 DEF Awaited, Done
<1>7. p # a + 1
  <2> SUFFICES ASSUME p = a + 1 PROVE FALSE
      OBVIOUS
  <2>1. ReadBefore(j, p) = 0 /\ ReadSize(j, p) = 1
      BY <1>2 DEF ReadBefore, ReadSize
  <2> QED  BY <1>2, <1>3, <1>6, <2>1
<1>8. ~(p > a + 2)
  <2> SUFFICES ASSUME p > a + 2 PROVE FALSE
      OBVIOUS
  <2>1. verdict[h] = "OK"
      BY <1>1 DEF HandleCallOK
  <2>2. ReadBefore(j, p) = 1 + Second(j) + (p - (a + 3)) /\ ReadSize(j, p) = 1
      BY <1>2, <1>3 DEF ReadBefore, ReadSize
  <2> QED  BY <1>2, <1>3, <1>6, <2>1, <2>2
<1>9. p = a + 2
    BY <1>2, <1>3, <1>7, <1>8
<1>10. ReadBefore(j, p) = 1 /\ ReadSize(j, p) = Second(j)
    BY <1>2, <1>9 DEF ReadBefore, ReadSize
<1>11. verdict[h] = "EDIE"
    BY <1>2, <1>3, <1>6, <1>10
<1> QED
    BY <1>3, <1>6, <1>9, <1>10, <1>11

LEMMA HandleEof ==
    ASSUME ProtInv, Apart, NEW h \in Installers, ReadEof(h), UNCHANGED protVars
    PROVE  ProtInv'
<1> DEFINE j == hjob[h]
<1>0. h \in Threads /\ h # Worker /\ PipeTyped
    BY TheWorker DEF ProtInv
<1>1. /\ pc[h] = "enter" /\ op[h] = "read" /\ pc[h] \in Calling /\ "EXECUTERTERM" \in flags
      /\ pc' = [pc EXCEPT ![h] = "idle"] /\ Over(h, "EEOF")
      /\ UNCHANGED <<flags, pipeVars>>
    BY DEF ReadEof, Entered, AtEof, Return, Goto, Calling
<1>2. hpos[h] # 0 /\ h = holder /\ JobOK(h) /\ HandleCallOK(h) /\ j \in Fitting
      /\ hpos[h] <= HandleLen(j)
    BY <1>1, Caller, JobsFit
<1>3. ~(hpos[h] <= Asks(j)) /\ ret[h] = "none"
    BY <1>1, <1>2 DEF HandleCallOK
<1>4. hpos[h] = Asks(j) + 2 /\ verdict[h] = "EDIE" /\ total[h] = 0
    BY <1>1, <1>2, <1>3, AtEnd
<1>5. /\ op' = [op EXCEPT ![h] = "none"] /\ count' = [count EXCEPT ![h] = 0]
      /\ total' = [total EXCEPT ![h] = 0] /\ loaded' = [loaded EXCEPT ![h] = {}]
      /\ ret' = [ret EXCEPT ![h] = "EEOF"]
    BY <1>1 DEF Over
<1>6. /\ pc \in [Threads -> Stations] /\ op \in [Threads -> {"none", "read", "write", "term"}]
      /\ count \in [Threads -> Nat] /\ total \in [Threads -> Nat]
      /\ loaded \in [Threads -> SUBSET JobFlags] /\ ret \in [Threads -> Results]
    BY <1>0 DEF PipeTyped
<1>7. UNCHANGED <<flags, bytes, readhold, writehold, exetermhold>>
    BY <1>1 DEF pipeVars
<1>8. UNCHANGED <<slotVars, handleVars, wpos, verdict, intruded>> /\ UNCHANGED <<hjob, hpos, dieerr>>
    BY DEF protVars, handleVars
<1>9. pc'[h] = "idle" /\ total'[h] = 0 /\ ret'[h] = "EEOF"
    BY <1>0, <1>1, <1>5, <1>6
<1>10. PipeTyped'
  <2>1. "idle" \in Stations /\ "EEOF" \in Results /\ {} \in SUBSET JobFlags
      BY DEF Stations, Results
  <2>2. /\ pc' \in [Threads -> Stations] /\ op' \in [Threads -> {"none", "read", "write", "term"}]
        /\ count' \in [Threads -> Nat] /\ total' \in [Threads -> Nat]
        /\ loaded' \in [Threads -> SUBSET JobFlags] /\ ret' \in [Threads -> Results]
      BY <1>1, <1>5, <1>6, <2>1
  <2> QED  BY <1>0, <1>7, <2>2 DEF PipeTyped
<1>11. \A u \in Threads \ {h} : Kept(u)
    BY <1>1, <1>5, <1>6 DEF Kept
<1>12. HandleCallOK(h)'
    BY <1>1, <1>2, <1>3, <1>4, <1>7, <1>8, <1>9 DEF HandleCallOK, Calling
<1>13. Balanced(h)'
  <2>1. Kept(Worker)
      BY <1>0, <1>11, TheWorker
  <2>2. Asked(h)' = Asked(h) /\ Awaited(h)' = Awaited(h)
      BY <1>3, <1>4, <1>8, <1>9 DEF Asked, Awaited, Done
  <2>3. Heard(h)' = Heard(h) /\ Owed(h)' = Owed(h)
      BY <1>8, <2>1 DEF Heard, Owed, Done, Kept, slotVars
  <2> QED  BY <1>2, <1>7, <2>2, <2>3 DEF JobOK, Balanced
<1>14. Words'
    BY <1>7 DEF ProtInv, Words
<1>15. Passed'
  <2> SUFFICES ASSUME NEW u \in Threads, pc'[u] \in {"enter", "store"}
               PROVE  ~Hold(u)'
      BY DEF Passed
  <2>1. u # h /\ pc[u] = pc'[u] /\ op'[u] = op[u]
      BY <1>1, <1>5, <1>6, <1>9
  <2>2. ~Hold(u)
      BY <2>1 DEF ProtInv, Passed
  <2> QED  BY <1>7, <2>1, <2>2 DEF Hold
<1> QED
    BY <1>2, <1>7, <1>8, <1>9, <1>10, <1>11, <1>12, <1>13, <1>14, <1>15, HandleSide

\* No write of a request fails.
LEMMA HandleWriteHolds ==
    ASSUME ProtInv, Apart, NEW h \in Installers
    PROVE  ~WriteError(h)
<1> SUFFICES ASSUME WriteError(h) PROVE FALSE
    OBVIOUS
<1>1. pc[h] = "enter" /\ op[h] = "write" /\ pc[h] \in Calling
    BY DEF WriteError, Entered, Calling
<1>2. hpos[h] # 0 /\ h = holder /\ JobOK(h) /\ HandleCallOK(h) /\ hjob[h] \in Fitting
    BY <1>1, Caller, JobsFit
<1>3. hpos[h] <= Asks(hjob[h]) /\ ret[h] = "none"
    BY <1>1, <1>2 DEF HandleCallOK
<1>4. "EXECUTERTERM" \notin flags /\ bytes["executor"] = 0
    BY <1>2, <1>3, Asking DEF ProtInv
<1> QED
    BY <1>4, TheWorker, SideFacts DEF WriteError, NothingInFront

LEMMA HandleStepKeeps ==
    ASSUME ProtInv, Apart, NEW h \in Installers, HandleStep(h)
    PROVE  ProtInv'
<1>0. h \in Threads /\ h # Worker /\ CallStep(h)
    BY TheWorker DEF HandleStep
<1>1. pc[h] \in Calling
  <2>1. pc[h] # "store"
      BY Waiting
  <2> QED
      BY <1>0, <2>1 DEF CallStep, Wait, InstallerWriteStore, WriteError, WriteBytes, ReadEof,
                        ReadBytes, InstallerTermStore, ExecutorTermLoad, ExecutorTermStore,
                        Entered, Calling
<1>2. h = holder /\ HandleCallOK(h)
    BY <1>1, Caller
<1>3. op[h] \in {"read", "write"}
    BY <1>1, <1>2 DEF HandleCallOK
<1>4. UNCHANGED protVars
    BY <1>2 DEF HandleStep, protVars
<1>5. \/ Wait(h) \/ InstallerWriteStore(h) \/ WriteBytes(h) \/ ReadEof(h) \/ ReadBytes(h)
    BY <1>0, <1>3, HandleWriteHolds, Waiting
    DEF CallStep, InstallerTermStore, ExecutorTermLoad, ExecutorTermStore, Entered
<1> QED
    BY <1>4, <1>5, HandleWait, HandleStores, HandleWrites, HandleEof, HandleReads

\* The handle looks at what a call has returned.
LEMMA HandleLooks ==
    ASSUME ProtInv, NEW h \in Installers,
           UNCHANGED <<flags, pipeVars, pc, op, count, total, loaded>>,
           UNCHANGED <<slotVars, hjob, wpos, verdict, intruded>>,
           ret' = [ret EXCEPT ![h] = "none"],
           hpos' \in [Installers -> Nat], dieerr' \in [Installers -> Verdicts],
           result' \in [Installers -> Verdicts],
           \A g \in Installers \ {h} :
             hpos'[g] = hpos[g] /\ dieerr'[g] = dieerr[g] /\ result'[g] = result[g],
           HandleOK(h)',
           h = holder /\ hjob[h] # "none" => Balanced(h)' /\ (hpos'[h] # 0 => HandleCallOK(h)')
    PROVE  ProtInv'
<1>0. h \in Threads /\ h # Worker /\ Worker \in Threads
    BY TheWorker
<1>1. UNCHANGED <<slot, jobtype, holder, hjob, wpos, verdict, intruded>>
    BY DEF slotVars
<1>2. UNCHANGED <<flags, bytes, readhold, writehold, exetermhold, pc, op, count, total, loaded>>
    BY DEF pipeVars
<1>3. ret \in [Threads -> Results]
    BY DEF ProtInv, PipeTyped
<1>4. \A u \in Threads \ {h} : Kept(u)
    BY <1>2, <1>3 DEF Kept
<1>5. PipeTyped'
  <2>1. ret' \in [Threads -> Results]
      BY <1>3 DEF Results
  <2> QED  BY <1>2, <2>1 DEF ProtInv, PipeTyped
<1>6. JobTyped'
    BY <1>1 DEF ProtInv, JobTyped
<1>7. SlotOK'
  <2>1. ret'[Worker] = ret[Worker]
      BY <1>0, <1>4 DEF Kept
  <2> QED  BY <1>1, <1>2, <2>1 DEF ProtInv, SlotOK
<1>8. ASSUME NEW g \in Installers PROVE HandleOK(g)'
  <2>1. CASE g = h
      BY <2>1
  <2>2. CASE g # h
    <3>1. HandleOK(g) /\ Kept(g)
        BY <1>4, <2>2, TheWorker DEF ProtInv
    <3> QED  BY <1>1, <2>2, <3>1, HandleKept
  <2> QED  BY <2>1, <2>2
<1>9. ASSUME NEW g \in Installers, g = holder', hjob'[g] # "none" PROVE JobOK(g)'
  <2>0. JobOK(g) /\ Kept(Worker)
      BY <1>0, <1>1, <1>4, <1>9 DEF ProtInv
  <2>1. slot' # "empty" => WorkerOK(g)'
      BY <1>1, <1>2, <2>0, WorkerKept DEF JobOK, slotVars
  <2>2. Ended(g)' <=> Ended(g)
      BY <1>1, <2>0 DEF Ended, Kept
  <2>3. Balanced(g)' /\ (hpos'[g] # 0 => HandleCallOK(g)')
    <3>1. CASE g = h
        BY <1>1, <1>9, <3>1
    <3>2. CASE g # h
      <4>1. /\ Kept(g) /\ hpos'[g] = hpos[g] /\ dieerr'[g] = dieerr[g]
          BY <1>4, <3>2, TheWorker
      <4>2. hpos'[g] # 0 => HandleCallOK(g)'
          BY <1>1, <1>2, <2>0, <4>1, CallKept DEF JobOK
      <4>3. Balanced(g)'
          BY <1>1, <1>2, <2>0, <4>1
          DEF JobOK, Balanced, Asked, Heard, Awaited, Owed, Done, Kept
      <4> QED  BY <4>2, <4>3
    <3> QED  BY <3>1, <3>2
  <2> QED  BY <1>1, <1>2, <2>0, <2>1, <2>2, <2>3 DEF JobOK
<1>10. Words' /\ Passed'
    BY <1>2 DEF ProtInv, Words, Passed, Hold
<1> QED
    BY <1>1, <1>5, <1>6, <1>7, <1>8, <1>9, <1>10 DEF ProtInv

\* A worker that dies owes at most the error.
LEMMA DieOwed ==
    ASSUME JobTyped, PipeTyped, NEW h \in Installers, JobOK(h), hjob[h] \in Fitting,
           verdict[h] = "EDIE"
    PROVE  Owed(h) \in Nat
<1> DEFINE j == hjob[h]
           a == Asks(j)
<1>1. a \in {1, 2} /\ WorkerLen(j) \in Nat /\ WorkerLen(j) > a + 1
    BY Measures
<1>2. CASE slot = "owned" /\ wpos = a + 1
  <2>1. WorkerOK(h)
      BY <1>2 DEF JobOK
  <2>2. total[Worker] \in Nat
      BY TheWorker DEF PipeTyped
  <2>3. CASE pc[Worker] = "idle"
    <3>1. ret[Worker] = "OK"
        BY <1>1, <1>2, <2>1, <2>3 DEF WorkerOK
    <3> QED  BY <1>2, <3>1 DEF Owed, Done
  <2>4. CASE pc[Worker] # "idle"
    <3>1. total[Worker] < WriteSize(j, a + 1) /\ WriteSize(j, a + 1) = 1 /\ ret[Worker] = "none"
        BY <1>1, <1>2, <2>1, <2>4 DEF WorkerOK, WriteSize
    <3>2. total[Worker] = 0
        BY <2>2, <3>1
    <3> QED  BY <1>2, <3>1, <3>2 DEF Owed, Done
  <2> QED  BY <2>3, <2>4
<1>3. CASE slot # "owned" \/ wpos # a + 1
  <2>1. slot # "installed"
      BY DEF JobOK, WorkerOK
  <2>2. slot \in {"empty", "installed", "owned"}
      BY DEF JobTyped
  <2> QED  BY <1>3, <2>1, <2>2 DEF Owed
<1> QED
    BY <1>2, <1>3

\* The answer has come before the handle looks at it.
LEMMA AnswerCame ==
    ASSUME ProtInv, NEW h \in Installers, JobOK(h), HandleCallOK(h), hjob[h] \in Fitting,
           hpos[h] \in Nat, hpos[h] > Asks(hjob[h]), hpos[h] <= HandleLen(hjob[h]),
           ret[h] \in {"OK", "EEOF"}
    PROVE  /\ verdict[h] # "none"
           /\ hpos[h] = Asks(hjob[h]) + 2 /\ verdict[h] = "EDIE" => Awaited(h) = 0
<1> DEFINE j == hjob[h]
           a == Asks(j)
           p == hpos[h]
<1>0. PipeTyped /\ JobTyped
    BY DEF ProtInv
<1>1. /\ a \in {1, 2} /\ Second(j) \in Nat /\ Third(j) \in Nat /\ Answer(j) \in Nat
      /\ IF j \in OneWord THEN HandleLen(j) = a + 1
         ELSE Second(j) > 0 /\ HandleLen(j) = a + 2 + Third(j)
    BY Measures
<1>2. verdict[h] # "none"
  <2> SUFFICES ASSUME verdict[h] = "none" PROVE FALSE
      OBVIOUS
  <2>1. p = a + 1 /\ ret[h] = "OK"
      BY <1>1 DEF HandleCallOK
  <2>2. Awaited(h) = Answer(j) - (0 + 1)
      BY <1>1, <2>1 DEF Awaited, ReadBefore, Done, ReadSize
  <2>3. Owed(h) = Answer(j)
      BY DEF JobOK, Owed
  <2>4. bytes["executor"] \in Nat
      BY <1>0, SideFacts DEF PipeTyped
  <2> QED  BY <1>1, <2>2, <2>3, <2>4 DEF JobOK, Balanced
<1>3. ASSUME p = a + 2, verdict[h] = "EDIE" PROVE Awaited(h) = 0
  <2>1. Awaited(h) = 1 - (1 + Done(h, Second(j)))
      BY <1>1, <1>3 DEF Awaited, ReadBefore, ReadSize
  <2>2. Owed(h) \in Nat /\ bytes["executor"] \in Nat
      BY <1>0, <1>3, DieOwed, SideFacts DEF PipeTyped
  <2>3. Second(j) > 0
      BY <1>1, <1>3
  <2>4. CASE ret[h] = "OK"
    <3>1. Done(h, Second(j)) = Second(j)
        BY <2>4 DEF Done
    <3> QED  BY <1>1, <2>1, <2>2, <2>3, <3>1 DEF JobOK, Balanced
  <2>5. CASE ret[h] = "EEOF"
    <3>1. total[h] = 0
        BY <2>5 DEF HandleCallOK
    <3> QED  BY <2>1, <2>5, <3>1 DEF Done
  <2> QED  BY <2>4, <2>5
<1> QED
    BY <1>2, <1>3

\* The next item of the script
LEMMA HandleAdvances ==
    ASSUME ProtInv, NEW h \in Installers, h = holder, hjob[h] \in Fitting, hjob[h] \in Jobs,
           hpos[h] \in Nat \ {0}, hpos[h] < HandleLen(hjob[h]),
           pc[h] = "idle", ret[h] = "OK", JobOK(h), HandleCallOK(h),
           UNCHANGED <<flags, pipeVars, pc, op, count, total, loaded>>,
           UNCHANGED <<slotVars, hjob, wpos, verdict, intruded, result>>,
           ret' = [ret EXCEPT ![h] = "none"],
           hpos' = [hpos EXCEPT ![h] = @ + 1],
           NEW read \in Verdicts, dieerr' = [dieerr EXCEPT ![h] = read],
           read = IF hpos[h] <= Asks(hjob[h]) THEN "none" ELSE verdict[h],
           hpos[h] > Asks(hjob[h]) => verdict[h] # "none",
           hpos[h] > Asks(hjob[h]) + 1 => verdict[h] = "OK"
    PROVE  ProtInv'
<1> DEFINE j == hjob[h]
           a == Asks(j)
           p == hpos[h]
<1>0. h \in Threads /\ h # Worker /\ Worker \in Threads /\ PipeTyped /\ JobTyped /\ HandleOK(h)
    BY TheWorker DEF ProtInv
<1>1. /\ a \in {1, 2} /\ Second(j) \in Nat /\ Third(j) \in Nat /\ Answer(j) \in Nat
      /\ HandleLen(j) \in Nat
    BY Measures
<1>2. UNCHANGED <<slot, jobtype, holder, hjob, wpos, verdict, intruded, result>>
    BY DEF slotVars
<1>3. UNCHANGED <<flags, bytes, pc, op, count, total>>
    BY DEF pipeVars
<1>4. /\ hpos \in [Installers -> Nat] /\ dieerr \in [Installers -> Verdicts]
      /\ result \in [Installers -> Verdicts] /\ ret \in [Threads -> Results]
    BY <1>0 DEF JobTyped, PipeTyped
<1>5. /\ hpos' \in [Installers -> Nat] /\ dieerr' \in [Installers -> Verdicts]
      /\ result' \in [Installers -> Verdicts]
      /\ hpos'[h] = p + 1 /\ dieerr'[h] = read /\ result'[h] = result[h] /\ ret'[h] = "none"
      /\ \A g \in Installers \ {h} :
           hpos'[g] = hpos[g] /\ dieerr'[g] = dieerr[g] /\ result'[g] = result[g]
    BY <1>0, <1>2, <1>4
<1>6. HandleOK(h)'
  <2>1. p + 1 <= HandleLen(j) /\ p + 1 # 0
      BY <1>1
  <2>2. result'[h] # "none" => result'[h] = verdict'[h]
      BY <1>0, <1>2 DEF HandleOK
  <2> QED  BY <1>2, <1>3, <1>5, <2>1, <2>2 DEF HandleOK, Calling
<1>7. HandleCallOK(h)'
  <2>1. total[h] = 0 /\ "INSTALLWRITE" \in flags
      BY DEF HandleCallOK
  <2>2. Asks(hjob'[h]) = a
      BY <1>2
  <2>3. /\ hpos'[h] <= a + 1 => dieerr'[h] = "none"
        /\ hpos'[h] = a + 2 => dieerr'[h] = verdict'[h] /\ verdict'[h] # "none"
        /\ hpos'[h] > a + 2 => dieerr'[h] = "OK" /\ verdict'[h] = "OK"
    <3>1. CASE p <= a
        BY <1>1, <1>5, <3>1
    <3>2. CASE p = a + 1
        BY <1>1, <1>2, <1>5, <3>2
    <3>3. CASE p > a + 1
        BY <1>1, <1>2, <1>5, <3>3
    <3> QED  BY <1>1, <3>1, <3>2, <3>3
  <2> QED  BY <1>2, <1>3, <1>5, <2>1, <2>2, <2>3 DEF HandleCallOK, Calling
<1>8. Balanced(h)'
  <2>0. total[h] = 0 /\ total'[h] = 0 /\ Balanced(h)
      BY <1>3 DEF HandleCallOK, JobOK
  <2>1. Heard(h)' = Heard(h) /\ Owed(h)' = Owed(h)
    <3>1. ret'[Worker] = ret[Worker]
        BY <1>0, <1>4
    <3> QED  BY <1>2, <1>3, <3>1 DEF Heard, Owed, Done
  <2>2. Asked(h)' = Asked(h)
    <3>1. Asked(h) = IF p <= a THEN p ELSE a
        BY <1>1 DEF Asked, Done
    <3>2. Asked(h)' = IF p + 1 <= a THEN p ELSE a
        BY <1>1, <1>2, <1>5, <2>0 DEF Asked, Done
    <3> QED  BY <1>1, <3>1, <3>2
  <2>3. Awaited(h)' = Awaited(h)
    <3> DEFINE due == IF verdict[h] = "EDIE" THEN 1 ELSE Answer(j)
    <3>1. Awaited(h) = due - (IF p <= a THEN 0 ELSE ReadBefore(j, p) + ReadSize(j, p))
        BY DEF Awaited, Done
    <3>2. Awaited(h)' = due - (IF p + 1 <= a THEN 0 ELSE ReadBefore(j, p + 1) + 0)
        BY <1>1, <1>2, <1>5, <2>0 DEF Awaited, Done
    <3>3. p > a => ReadBefore(j, p + 1) + 0 = ReadBefore(j, p) + ReadSize(j, p)
        BY <1>1 DEF ReadBefore, ReadSize
    <3>4. p <= a => (IF p + 1 <= a THEN 0 ELSE ReadBefore(j, p + 1) + 0) = 0
        BY <1>1 DEF ReadBefore
    <3> HIDE DEF due
    <3> QED  BY <1>1, <3>1, <3>2, <3>3, <3>4
  <2> QED  BY <1>3, <2>0, <2>1, <2>2, <2>3 DEF Balanced
<1> QED
    BY <1>2, <1>5, <1>6, <1>7, <1>8, HandleLooks

\* The call of the user ends with what the worker has decided.
LEMMA HandleEnds ==
    ASSUME ProtInv, NEW h \in Installers, hpos[h] \in Nat \ {0}, pc[h] = "idle", total[h] = 0,
           UNCHANGED <<flags, pipeVars, pc, op, count, total, loaded>>,
           UNCHANGED <<slotVars, hjob, wpos, verdict, intruded>>,
           ret' = [ret EXCEPT ![h] = "none"],
           NEW read, dieerr' = [dieerr EXCEPT ![h] = read], HandleReturn(h, read),
           read = verdict[h],
           h = holder => JobOK(h) /\ hpos[h] > Asks(hjob[h]) /\ Awaited(h) = 0,
           hjob[h] \in Fitting
    PROVE  ProtInv'
<1>0. h \in Threads /\ h # Worker /\ Worker \in Threads /\ PipeTyped /\ JobTyped
    BY TheWorker DEF ProtInv
<1>1. Asks(hjob[h]) \in {1, 2}
    BY Measures
<1>2. UNCHANGED <<slot, jobtype, holder, hjob, wpos, verdict, intruded>>
    BY DEF slotVars
<1>3. UNCHANGED <<flags, bytes, pc, op, count, total>>
    BY DEF pipeVars
<1>4. /\ hpos \in [Installers -> Nat] /\ dieerr \in [Installers -> Verdicts]
      /\ result \in [Installers -> Verdicts] /\ ret \in [Threads -> Results]
      /\ read \in Verdicts
    BY <1>0 DEF JobTyped, PipeTyped
<1>5. /\ hpos' \in [Installers -> Nat] /\ dieerr' \in [Installers -> Verdicts]
      /\ result' \in [Installers -> Verdicts]
      /\ hpos'[h] = 0 /\ result'[h] = verdict[h] /\ ret'[h] = "none"
      /\ \A g \in Installers \ {h} :
           hpos'[g] = hpos[g] /\ dieerr'[g] = dieerr[g] /\ result'[g] = result[g]
    BY <1>0, <1>4 DEF HandleReturn
<1>6. HandleOK(h)'
    BY <1>2, <1>3, <1>5 DEF HandleOK
<1>7. h = holder => Balanced(h)'
  <2> SUFFICES ASSUME h = holder PROVE Balanced(h)'
      OBVIOUS
  <2>1. Heard(h)' = Heard(h) /\ Owed(h)' = Owed(h)
    <3>1. ret'[Worker] = ret[Worker]
        BY <1>0, <1>4
    <3> QED  BY <1>2, <1>3, <3>1 DEF Heard, Owed, Done
  <2>2. Asked(h)' = Asked(h)
      BY <1>1, <1>2, <1>5 DEF Asked
  <2>3. Awaited(h)' = 0
      BY <1>5 DEF Awaited
  <2> QED  BY <1>3, <2>1, <2>2, <2>3 DEF Balanced, JobOK
<1> QED
    BY <1>2, <1>5, <1>6, <1>7, HandleLooks

LEMMA HandleGoesOnKeeps ==
    ASSUME ProtInv, Apart, NEW h \in Installers, HandleGoesOn(h)
    PROVE  ProtInv'
<1> DEFINE j == hjob[h]
           a == Asks(j)
           p == hpos[h]
           item == HandleItem(h)
           read == IF item.op # "error" THEN dieerr[h] ELSE verdict[h]
<1>0. h \in Threads /\ PipeTyped /\ JobTyped /\ HandleOK(h) /\ intruded = {}
    BY TheWorker DEF ProtInv
<1>1. /\ p # 0 /\ pc[h] = "idle" /\ ret[h] # "none"
      /\ ret' = [ret EXCEPT ![h] = "none"]
      /\ UNCHANGED <<flags, pipeVars, pc, op, count, total, loaded>>
      /\ UNCHANGED <<slotVars, hjob, wpos, verdict, intruded>>
    BY DEF HandleGoesOn
<1>2. /\ j \in Jobs /\ j \in Fitting /\ j # "none" /\ p \in Nat \ {0} /\ p <= HandleLen(j)
      /\ h = holder \/ Finished(h)
    BY <1>0, <1>1, JobsFit DEF HandleOK, JobTyped
<1>3. /\ a \in {1, 2} /\ Second(j) \in Nat /\ Third(j) \in Nat
      /\ Answer(j) = 1 + Second(j) + Third(j)
      /\ IF j \in OneWord THEN HandleLen(j) = a + 1 /\ Second(j) = 0 /\ Third(j) = 0
         ELSE HandleLen(j) = a + 2 + Third(j)
      /\ p \in 1 .. HandleLen(j)
    BY <1>2, Measures
<1>4. /\ item.op = HandleOp(j, p) /\ Len(HandleScript(j)) = HandleLen(j)
      /\ p < HandleLen(j) => HandleScript(j)[p + 1].op = HandleOp(j, p + 1)
  <2> HIDE DEF j, p
  <2>1. p \in 1 .. HandleLen(j) /\ (p < HandleLen(j) => p + 1 \in 1 .. HandleLen(j))
    <3>1. HandleLen(j) \in Nat
        BY <1>3
    <3> QED  BY <1>3, <3>1
  <2>2. item = HandleScript(j)[p]
      BY DEF HandleItem, j, p
  <2> HIDE DEF item
  <2> QED  BY ONLY <1>2, <2>1, <2>2, HandleScripts
<1>5. InReadv(h) <=> p = a + 1 /\ j \notin OneWord
  <2>1. InReadv(h) <=> p < HandleLen(j) /\ HandleOp(j, p + 1) = "more"
      BY <1>4 DEF InReadv
  <2>2. HandleOp(j, p + 1) = "more" <=> p + 1 = a + 2
    <3> HIDE DEF p
    <3> QED  BY <1>2, <1>3 DEF HandleOp
  <2> HIDE DEF p, a, j
  <2> QED  BY <1>2, <1>3, <2>1, <2>2
<1>6. h = holder => JobOK(h) /\ HandleCallOK(h)
    BY <1>1, <1>2 DEF ProtInv, JobOK
<1>7. total[h] = 0
    BY <1>1, <1>2, <1>6 DEF Finished, HandleCallOK
<1>8. ret[h] = "OK" \/ (ret[h] = "EEOF" /\ p = a + 2 /\ verdict[h] = "EDIE" /\ h = holder)
    BY <1>1, <1>2, <1>6 DEF Finished, HandleCallOK
<1>9. ret[h] = "OK" \/ Forgiven(item, ret[h])
    BY <1>3, <1>4, <1>8 DEF Forgiven, HandleOp
<1>10. /\ dieerr' = [dieerr EXCEPT ![h] = read]
       /\ IF InReadv(h) \/ (read \in {"none", "OK"} /\ p < HandleLen(j))
          THEN hpos' = [hpos EXCEPT ![h] = @ + 1] /\ UNCHANGED result
          ELSE HandleReturn(h, read)
    BY <1>0, <1>4, <1>9 DEF HandleGoesOn
<1>11. p > a => verdict[h] # "none"
  <2>1. CASE Finished(h)
      BY <2>1 DEF Finished
  <2>2. CASE h = holder
      BY <1>2, <1>3, <1>6, <1>8, <2>2, AnswerCame
  <2> QED  BY <1>2, <2>1, <2>2
<1>12. /\ read = IF p <= a THEN "none" ELSE verdict[h]
       /\ p > a + 2 => verdict[h] = "OK"
  <2>1. p <= a => h = holder
      BY <1>2, <1>3 DEF Finished, Asks, OneWord
  <2>2. p > a + 1 => h = holder
      BY <1>2, <1>3 DEF Finished, Asks, OneWord
  <2>3. CASE p <= a
      BY <1>3, <1>4, <1>6, <2>1, <2>3 DEF HandleOp, HandleCallOK
  <2>4. CASE p = a + 1
      BY <1>3, <1>4, <2>4 DEF HandleOp
  <2>5. CASE p > a + 1
      BY <1>3, <1>4, <1>6, <2>2, <2>5 DEF HandleOp, HandleCallOK
  <2> QED  BY <1>3, <2>3, <2>4, <2>5
<1>13. read \in Verdicts
    BY <1>0, <1>12 DEF JobTyped, Verdicts
<1> HIDE DEF read, item
<1>14. CASE InReadv(h) \/ (read \in {"none", "OK"} /\ p < HandleLen(j))
  <2>1. p < HandleLen(j)
      BY <1>3, <1>4, <1>14 DEF InReadv
  <2>2. h = holder
      BY <1>2, <1>3, <2>1 DEF Finished, Asks, OneWord
  <2>3. p > a + 1 => verdict[h] = "OK"
      BY <1>3, <1>5, <1>11, <1>12, <1>14
  <2>4. ret[h] = "OK"
      BY <1>3, <1>8, <2>3
  <2> QED
      BY <1>1, <1>2, <1>6, <1>10, <1>11, <1>12, <1>13, <1>14, <2>1, <2>2, <2>3, <2>4, HandleAdvances
<1>15. CASE ~(InReadv(h) \/ (read \in {"none", "OK"} /\ p < HandleLen(j)))
  <2>1. p > a
      BY <1>3, <1>12, <1>15
  <2>2. h = holder => Awaited(h) = 0
    <3> SUFFICES ASSUME h = holder PROVE Awaited(h) = 0
        OBVIOUS
    <3>1. Awaited(h) = (IF verdict[h] = "EDIE" THEN 1 ELSE Answer(j))
                       - (ReadBefore(j, p) + Done(h, ReadSize(j, p)))
        BY <1>1, <1>3, <2>1 DEF Awaited
    <3>2. CASE p = a + 1
      <4>1. j \in OneWord /\ Answer(j) = 1
          BY <1>3, <1>5, <1>15, <3>2
      <4>2. ret[h] = "OK"
          BY <1>3, <1>8, <3>2
      <4>3. ReadBefore(j, p) = 0 /\ Done(h, ReadSize(j, p)) = 1
          BY <1>3, <3>2, <4>2 DEF ReadBefore, Done, ReadSize
      <4> QED  BY <3>1, <4>1, <4>3
    <3>3. CASE p = a + 2 /\ verdict[h] = "EDIE"
        BY <1>2, <1>3, <1>6, <1>8, <2>1, <3>3, AnswerCame
    <3>4. CASE p > a + 1 /\ verdict[h] = "OK"
      <4>1. p = HandleLen(j) /\ j \notin OneWord
          BY <1>3, <1>12, <1>15, <2>1, <3>4
      <4>2. ret[h] = "OK"
          BY <1>8, <3>4
      <4>3. ReadBefore(j, p) + Done(h, ReadSize(j, p)) = 1 + Second(j) + Third(j)
          BY <1>3, <3>4, <4>1, <4>2 DEF ReadBefore, Done, ReadSize
      <4> QED  BY <1>3, <3>1, <3>4, <4>3
    <3> QED
      <4>1. verdict[h] \in {"OK", "EDIE"}
          BY <1>0, <1>11, <2>1 DEF JobTyped, Verdicts
      <4>2. p = a + 1 \/ p = a + 2 \/ p > a + 2
          BY <1>3, <2>1
      <4> QED  BY <1>3, <1>12, <3>2, <3>3, <3>4, <4>1, <4>2
  <2>3. read = verdict[h]
      BY <1>3, <1>12, <2>1
  <2> QED
      BY <1>1, <1>2, <1>6, <1>7, <1>10, <1>15, <2>1, <2>2, <2>3, HandleEnds
<1> QED
    BY <1>14, <1>15

\* odb_handleclose, and the kill of a handle's process
LEMMA HandleLeaves ==
    ASSUME ProtInv, NEW h \in Installers, NEW l \in {"gone", "dead"},
           l = "gone" => hpos[h] = 0,
           Goto(h, l),
           UNCHANGED <<flags, pipeVars, op, count, total, loaded, ret, protVars>>
    PROVE  ProtInv'
<1>0. h \in Threads /\ h # Worker /\ Worker \in Threads /\ PipeTyped /\ JobTyped /\ HandleOK(h)
    BY TheWorker DEF ProtInv
<1>1. UNCHANGED <<slot, jobtype, holder, hjob, hpos, dieerr, result, wpos, verdict, intruded>>
    BY DEF protVars, slotVars, handleVars
<1>2. UNCHANGED <<flags, bytes, readhold, writehold, exetermhold, op, count, total, loaded, ret>>
    BY DEF pipeVars
<1>3. pc \in [Threads -> Stations] /\ pc' = [pc EXCEPT ![h] = l]
    BY <1>0 DEF PipeTyped, Goto
<1>4. pc'[h] = l /\ \A u \in Threads \ {h} : pc'[u] = pc[u]
    BY <1>0, <1>3
<1>5. PipeTyped'
  <2>1. pc' \in [Threads -> Stations]
      BY <1>3 DEF Stations
  <2> QED  BY <1>0, <1>2, <2>1 DEF PipeTyped
<1>6. \A u \in Threads \ {h} : Kept(u)
    BY <1>2, <1>4 DEF Kept
<1>7. ASSUME NEW g \in Installers PROVE HandleOK(g)'
  <2>1. CASE g = h
      BY <1>0, <1>1, <1>2, <1>4, <2>1 DEF HandleOK
  <2>2. CASE g # h
    <3>1. Kept(g) /\ HandleOK(g)
        BY <1>6, <2>2, TheWorker DEF ProtInv
    <3> QED  BY <1>1, <3>1, HandleKept
  <2> QED  BY <2>1, <2>2
<1>8. ASSUME NEW g \in Installers, g = holder', hjob'[g] # "none" PROVE JobOK(g)'
  <2>0. JobOK(g) /\ Kept(Worker)
      BY <1>0, <1>1, <1>6, <1>8 DEF ProtInv
  <2>1. slot' # "empty" => WorkerOK(g)'
      BY <1>1, <1>2, <2>0, WorkerKept DEF JobOK, slotVars
  <2>2. Ended(g)' <=> Ended(g)
      BY <1>1, <2>0 DEF Ended, Kept
  <2>3. hpos'[g] # 0 => HandleCallOK(g)'
    <3>1. CASE g = h
      <4> SUFFICES ASSUME hpos'[g] # 0 PROVE HandleCallOK(g)'
          OBVIOUS
      <4>1. HandleCallOK(g) /\ pc'[g] = "dead"
          BY <1>1, <1>4, <2>0, <3>1 DEF JobOK
      <4> QED  BY <1>1, <1>2, <4>1 DEF HandleCallOK, Calling
    <3>2. CASE g # h
      <4>1. Kept(g)
          BY <1>6, <3>2, TheWorker
      <4> QED  BY <1>1, <1>2, <2>0, <4>1, CallKept DEF JobOK
    <3> QED  BY <3>1, <3>2
  <2>4. Balanced(g)'
      BY <1>1, <1>2, <2>0 DEF JobOK, Balanced, Asked, Heard, Awaited, Owed, Done
  <2> QED  BY <1>1, <1>2, <2>0, <2>1, <2>2, <2>3, <2>4 DEF JobOK
<1>9. Words' /\ Passed'
  <2>1. Words'
      BY <1>2 DEF ProtInv, Words
  <2>2. \A u \in Threads : pc'[u] \in {"enter", "store"} => pc[u] = pc'[u]
      BY <1>4
  <2> QED  BY <1>2, <2>1, <2>2 DEF ProtInv, Passed, Hold
<1>10. JobTyped' /\ SlotOK'
    BY <1>0, <1>1, <1>2, <1>4 DEF ProtInv, JobTyped, SlotOK
<1> QED
    BY <1>1, <1>5, <1>7, <1>8, <1>9, <1>10 DEF ProtInv

-----------------------------------------------------------------------------
(* The next job *)

\* When the slot is free again, the handle of the last job has its whole answer.
LEMMA LastJob ==
    ASSUME ProtInv, Apart, slot = "empty", NEW g \in Installers, NEW h \in Installers, g # h,
           hpos[g] # 0, pc[g] # "dead"
    PROVE  Finished(g)
<1> DEFINE j == hjob[g]
<1>0. g \in Threads /\ PipeTyped /\ JobTyped /\ SlotOK /\ HandleOK(g)
    BY TheWorker DEF ProtInv
<1>1. /\ j \in Jobs /\ j \in OneWord /\ j \in Fitting /\ j # "none"
      /\ hpos[g] <= HandleLen(j) /\ pc[g] \in Calling \cup {"idle"}
      /\ g = holder \/ Finished(g)
    BY <1>0, JobsFit DEF HandleOK, Apart
<1>2. Asks(j) = 1 /\ HandleLen(j) = 2 /\ Answer(j) = 1
    BY <1>1, Measures
<1> SUFFICES ASSUME g = holder PROVE Finished(g)
    BY <1>1
<1>3. JobOK(g) /\ HandleCallOK(g) /\ verdict[g] # "none"
    BY <1>1 DEF ProtInv, JobOK
<1>4. Awaited(g) = 0
    BY <1>0, <1>3 DEF SlotOK, JobOK, Balanced, Owed
<1>5. hpos[g] \in {1, 2} /\ total[g] \in Nat
    BY <1>0, <1>1, <1>2 DEF JobTyped, PipeTyped
<1>6. hpos[g] = 2 /\ Done(g, 1) = 1
  <2>1. hpos[g] # 1
      BY <1>2, <1>4 DEF Awaited
  <2>2. Awaited(g) = 1 - (0 + Done(g, 1))
      BY <1>2, <1>5, <2>1 DEF Awaited, ReadBefore, ReadSize
  <2>3. Done(g, 1) \in Nat
      BY <1>5 DEF Done
  <2> QED  BY <1>4, <1>5, <2>1, <2>2, <2>3
<1>7. pc[g] = "idle"
  <2> SUFFICES ASSUME pc[g] \in Calling PROVE FALSE
      BY <1>1
  <2>1. ret[g] = "none" /\ total[g] < 1
      BY <1>2, <1>3, <1>6 DEF HandleCallOK, ReadSize
  <2> QED  BY <1>5, <1>6, <2>1 DEF Done
<1>8. total[g] = 0 /\ ret[g] = "OK"
    BY <1>3, <1>6, <1>7 DEF HandleCallOK, Done
<1>9. dieerr[g] = "none"
    BY <1>2, <1>3, <1>6 DEF HandleCallOK
<1> QED
    BY <1>1, <1>3, <1>6, <1>7, <1>8, <1>9 DEF Finished

LEMMA InstallKeeps ==
    ASSUME ProtInv, Apart, NEW h \in Installers, NEW j \in Jobs, Install(h, j)
    PROVE  ProtInv'
<1>0. h \in Threads /\ h # Worker /\ PipeTyped /\ JobTyped /\ SlotOK /\ HandleOK(h)
    BY TheWorker DEF ProtInv
<1>1. pc[h] = "idle" /\ hpos[h] = 0 /\ slot = "empty"
    BY DEF Install
<1>2. /\ slot' = "installed" /\ jobtype' = j /\ holder' = h
      /\ hjob' = [hjob EXCEPT ![h] = j] /\ hpos' = [hpos EXCEPT ![h] = 1]
      /\ dieerr' = [dieerr EXCEPT ![h] = "none"] /\ result' = [result EXCEPT ![h] = "none"]
      /\ verdict' = [verdict EXCEPT ![h] = "none"] /\ intruded' = intruded \ {h}
      /\ wpos' = wpos
    BY DEF Install
<1>3. /\ flags' = {} /\ bytes' = [s \in Sides |-> 0]
      /\ readhold' = [s \in Sides |-> TRUE] /\ writehold' = [s \in Sides |-> FALSE]
      /\ UNCHANGED <<exetermhold, pc, op, count, total, loaded, ret>>
    BY DEF Install, Reset, callVars
<1>4. /\ hjob \in [Installers -> Jobs \cup {"none"}] /\ hpos \in [Installers -> Nat]
      /\ dieerr \in [Installers -> Verdicts] /\ result \in [Installers -> Verdicts]
      /\ verdict \in [Installers -> Verdicts] /\ wpos \in Nat
    BY <1>0 DEF JobTyped
<1>5. /\ hjob'[h] = j /\ hpos'[h] = 1 /\ dieerr'[h] = "none" /\ result'[h] = "none"
      /\ verdict'[h] = "none"
      /\ \A g \in Installers \ {h} : /\ hjob'[g] = hjob[g] /\ hpos'[g] = hpos[g]
                                     /\ dieerr'[g] = dieerr[g] /\ result'[g] = result[g]
                                     /\ verdict'[g] = verdict[g]
    BY <1>2, <1>4
<1>6. total[h] = 0 /\ ret[h] = "none"
    BY <1>0, <1>1 DEF HandleOK
<1>7. j \in Fitting /\ j # "none"
    BY JobsFit
<1>8. Asks(j) \in {1, 2} /\ HandleLen(j) \in Nat /\ HandleLen(j) > 1 /\ Answer(j) \in Nat
    BY <1>7, Measures
<1>9. PipeTyped'
    BY <1>0, <1>3 DEF PipeTyped, JobFlags
<1>10. JobTyped'
    BY <1>2, <1>4 DEF JobTyped, Verdicts
<1>11. SlotOK'
    BY <1>0, <1>1, <1>2, <1>3, <1>5, <1>7 DEF SlotOK
<1>12. ASSUME NEW g \in Installers PROVE HandleOK(g)'
  <2>1. CASE g = h
    <3>1. 1 <= HandleLen(j)
        BY <1>8
    <3> QED  BY <1>1, <1>2, <1>3, <1>5, <2>1, <3>1 DEF HandleOK
  <2>2. CASE g # h
    <3>1. HandleOK(g)
        BY DEF ProtInv
    <3>2. hpos[g] # 0 /\ pc[g] # "dead" => Finished(g)
        BY <1>1, <2>2, LastJob
    <3>3. Finished(g) => Finished(g)'
        BY <1>3, <1>5, <2>2 DEF Finished
    <3> QED  BY <1>3, <1>5, <2>2, <3>1, <3>2, <3>3 DEF HandleOK
  <2> QED  BY <2>1, <2>2
<1>13. JobOK(h)'
  <2>1. HandleCallOK(h)'
      BY <1>1, <1>3, <1>5, <1>6, <1>8 DEF HandleCallOK, Calling
  <2>2. Balanced(h)'
    <3>1. Asked(h)' = 0 /\ Heard(h)' = 0 /\ Owed(h)' = Answer(j) /\ Awaited(h)' = Answer(j)
        BY <1>2, <1>3, <1>5, <1>6, <1>8 DEF Asked, Heard, Owed, Awaited, Done
    <3>2. bytes'["installer"] = 0 /\ bytes'["executor"] = 0
        BY <1>3, SideFacts
    <3> QED  BY <1>8, <3>1, <3>2 DEF Balanced
  <2>3. WorkerOK(h)'
      BY <1>2, <1>5 DEF WorkerOK
  <2> QED  BY <1>2, <1>3, <2>1, <2>2, <2>3 DEF JobOK, Ended
<1>14. Words'
  <2>1. exetermhold' = FALSE
      BY <1>0, <1>1, <1>3 DEF SlotOK, ProtInv, Words
  <2>2. \A s \in Sides : bytes'[s] = 0 /\ readhold'[s] = TRUE /\ writehold'[s] = FALSE
      BY <1>3
  <2>3. Capacity # 0 /\ \A s \in Sides : Other(s) \in Sides
      BY SideFacts
  <2>4. \A s \in Sides : /\ readhold'[s] = (bytes'[Other(s)] = 0)
                         /\ writehold'[s] = (bytes'[s] = Capacity)
    <3> TAKE s \in Sides
    <3>1. bytes'[s] = 0 /\ bytes'[Other(s)] = 0 /\ readhold'[s] = TRUE /\ writehold'[s] = FALSE
        BY <2>2, <2>3
    <3> QED  BY <2>3, <3>1
  <2>5. exetermhold' = (bytes'["executor"] # 0)
    <3>1. bytes'["executor"] = 0
        BY <2>2, SideFacts
    <3> QED  BY <2>1, <3>1
  <2> QED  BY <2>4, <2>5 DEF Words
<1>15. Passed'
  <2> SUFFICES ASSUME NEW u \in Threads, pc[u] \in {"enter", "store"} PROVE FALSE
      BY <1>3 DEF Passed
  <2>1. u \in Installers /\ u # h
      BY <1>0, <1>1, TheWorker DEF SlotOK
  <2>2. pc[u] \in Calling
      BY <2>1, Waiting DEF Calling
  <2>3. hpos[u] # 0 /\ pc[u] # "dead"
      BY <2>1, <2>2, Caller DEF Calling
  <2>4. Finished(u)
      BY <1>1, <2>1, <2>3, LastJob
  <2> QED  BY <2>4 DEF Finished
<1>16. intruded' = {}
    BY <1>2 DEF ProtInv
<1> QED
    BY <1>2, <1>9, <1>10, <1>11, <1>12, <1>13, <1>14, <1>15, <1>16 DEF ProtInv

-----------------------------------------------------------------------------
(* The steps of the worker *)

\* Whose job the worker is in
LEMMA Owned ==
    ASSUME ProtInv, Apart, slot # "empty"
    PROVE  \E h \in Installers : /\ h = holder /\ hjob[h] \in Jobs /\ hjob[h] \in Fitting
                                 /\ JobOK(h) /\ WorkerOK(h)
<1>1. PICK h \in Installers : h = holder /\ hjob[h] # "none"
    BY DEF ProtInv, SlotOK
<1>2. hjob[h] \in Jobs
    BY <1>1 DEF ProtInv, JobTyped
<1> QED
    BY <1>1, <1>2, JobsFit DEF ProtInv, JobOK

\* Before the worker has decided, the handle has read nothing.
LEMMA Undecided ==
    ASSUME ProtInv, NEW h \in Installers, JobOK(h), hjob[h] \in Fitting,
           slot # "empty", verdict[h] = "none"
    PROVE  /\ hpos[h] # 0 /\ hpos[h] <= Asks(hjob[h]) + 1 /\ bytes["executor"] = 0
           /\ Awaited(h) = Answer(hjob[h]) /\ Owed(h) = Answer(hjob[h])
           /\ hpos[h] > Asks(hjob[h]) => Done(h, 1) = 0
<1> DEFINE j == hjob[h]
           a == Asks(j)
           p == hpos[h]
<1>0. PipeTyped /\ JobTyped /\ h \in Threads
    BY TheWorker DEF ProtInv
<1>1. a \in {1, 2} /\ Answer(j) \in Nat /\ Answer(j) > 0
    BY Measures
<1>2. bytes["executor"] \in Nat /\ total[h] \in Nat /\ p \in Nat
    BY <1>0, SideFacts DEF PipeTyped, JobTyped
<1>3. Owed(h) = Answer(j)
    BY DEF Owed
<1>4. bytes["executor"] + Answer(j) = Awaited(h)
    BY <1>3 DEF JobOK, Balanced
<1>5. p # 0
    BY <1>1, <1>2, <1>4 DEF Awaited
<1>6. p <= a + 1
    BY <1>1, <1>2, <1>5 DEF JobOK, HandleCallOK
<1>7. CASE p <= a
  <2>1. Awaited(h) = Answer(j) - 0
      BY <1>5, <1>7 DEF Awaited
  <2> QED  BY <1>1, <1>2, <1>3, <1>4, <1>5, <1>6, <1>7, <2>1
<1>8. CASE p = a + 1
  <2>1. Awaited(h) = Answer(j) - (0 + Done(h, 1))
      BY <1>1, <1>5, <1>8 DEF Awaited, ReadBefore, ReadSize
  <2>2. Done(h, 1) \in Nat
      BY <1>2 DEF Done
  <2> QED  BY <1>1, <1>2, <1>3, <1>4, <1>5, <1>6, <2>1, <2>2
<1> QED
    BY <1>1, <1>2, <1>6, <1>7, <1>8

\* A step of the worker between its calls: nothing moves in the pipe.
LEMMA WorkerTurns ==
    ASSUME ProtInv, NEW h \in Installers, h = holder, slot # "empty", slot' = "owned", JobOK(h),
           UNCHANGED <<jobtype, holder, handleVars, intruded>>,
           wpos' \in Nat \ {0}, verdict' \in [Installers -> Verdicts],
           \A g \in Installers \ {h} : verdict'[g] = verdict[g],
           verdict'[h] = verdict[h] \/ verdict[h] = "none",
           PipeTyped', UNCHANGED <<flags, pipeVars>>,
           \A u \in Threads \ {Worker} : Kept(u) /\ pc'[u] = pc[u],
           pc'[Worker] \in {"idle", "wait", "asleep"},
           hpos[h] # 0 => HandleCallOK(h)', WorkerOK(h)', Balanced(h)',
           "EXECUTERTERM" \in flags => Ended(h)', Ended(h)' => Ended(h)
    PROVE  ProtInv'
<1>1. UNCHANGED <<flags, bytes, readhold, writehold, exetermhold>>
    BY DEF pipeVars
<1>2. Words'
    BY <1>1 DEF ProtInv, Words
<1>3. Passed'
  <2> SUFFICES ASSUME NEW u \in Threads, pc'[u] \in {"enter", "store"} PROVE ~Hold(u)'
      BY DEF Passed
  <2>1. pc[u] = pc'[u] /\ op'[u] = op[u]
      BY DEF Kept
  <2>2. ~Hold(u)
      BY <2>1 DEF ProtInv, Passed
  <2> QED  BY <1>1, <2>1, <2>2 DEF Hold
<1>4. Ended(h)' => bytes'["executor"] = 0
    BY <1>1 DEF JobOK
<1>5. \A u \in Threads \ {Worker} : Kept(u)
    OBVIOUS
<1> QED
    BY <1>1, <1>2, <1>3, <1>4, <1>5, WorkerSide

\* edbs_jobselect
LEMMA SelectKeeps ==
    ASSUME ProtInv, Apart, NEW w \in Executors, Select(w)
    PROVE  ProtInv'
<1>0. w = Worker /\ Worker \in Threads /\ PipeTyped /\ JobTyped /\ SlotOK
    BY TheWorker DEF ProtInv
<1>1. /\ wpos = 0 /\ slot = "installed" /\ slot' = "owned" /\ wpos' = 1
      /\ ret' = [ret EXCEPT ![Worker] = "none"]
      /\ UNCHANGED <<flags, pipeVars, pc, op, count, total, loaded>>
      /\ UNCHANGED <<jobtype, holder, handleVars, verdict, intruded>>
    BY <1>0 DEF Select
<1>2. pc[Worker] = "idle" /\ ret[Worker] = "none" /\ total[Worker] = 0
    BY <1>0, <1>1 DEF SlotOK
<1>3. ret' = ret
    BY <1>0, <1>1, <1>2 DEF PipeTyped
<1>4. PICK h \in Installers : h = holder /\ hjob[h] \in Fitting /\ JobOK(h) /\ WorkerOK(h)
    BY <1>1, Owned
<1>5. UNCHANGED <<flags, bytes, readhold, writehold, exetermhold, hjob, hpos, dieerr>>
    BY <1>1 DEF pipeVars, handleVars
<1>6. PipeTyped'
    BY <1>0, <1>1, <1>3, <1>5 DEF PipeTyped
<1>7. \A u \in Threads \ {Worker} : Kept(u) /\ pc'[u] = pc[u]
    BY <1>1, <1>3 DEF Kept
<1>8. hpos[h] # 0 => HandleCallOK(h)'
  <2>1. Kept(h)
      BY <1>7, TheWorker
  <2> QED  BY <1>1, <1>4, <1>5, <2>1, CallKept DEF JobOK
<1>9. Asks(hjob[h]) \in {1, 2} /\ WorkerLen(hjob[h]) \in Nat /\ WorkerLen(hjob[h]) > 0
    BY <1>4, Measures
<1>10. WorkerOK(h)'
    BY <1>1, <1>2, <1>3, <1>4, <1>5, <1>9 DEF WorkerOK
<1>11. Balanced(h)'
  <2>1. verdict[h] = "none"
      BY <1>1, <1>4 DEF WorkerOK
  <2>2. Heard(h) = 0 /\ Heard(h)' = 0
      BY <1>1, <1>2, <1>3, <1>5, <1>9 DEF Heard, Done
  <2>3. Owed(h)' = Owed(h)
      BY <1>1, <1>5, <2>1 DEF Owed
  <2>4. Asked(h)' = Asked(h) /\ Awaited(h)' = Awaited(h)
      BY <1>1, <1>3, <1>5 DEF Asked, Awaited, Done
  <2> QED  BY <1>4, <1>5, <2>2, <2>3, <2>4 DEF JobOK, Balanced
<1>12. "EXECUTERTERM" \notin flags /\ ~Ended(h)'
    BY <1>1, <1>2, <1>3, <1>4 DEF JobOK, Ended
<1>13. verdict' \in [Installers -> Verdicts]
    BY <1>0, <1>1 DEF JobTyped
<1> QED
    BY <1>1, <1>2, <1>4, <1>6, <1>7, <1>8, <1>10, <1>11, <1>12, <1>13, WorkerTurns

\* The item of the worker's script
LEMMA WorkerItems ==
    ASSUME JobTyped, NEW h \in Installers, hjob[h] \in Fitting, WorkerOK(h),
           slot = "owned", wpos # 0
    PROVE  /\ Closing <=> wpos = WorkerLen(hjob[h]) + 1
           /\ ~Closing <=> wpos <= WorkerLen(hjob[h])
           /\ ~Closing => /\ WorkerItem.op = WorkerOp(hjob[h], wpos)
                          /\ WorkerItem.n = IF wpos <= Asks(hjob[h]) THEN 1
                                            ELSE WriteSize(hjob[h], wpos)
           /\ Len(WorkerScript(jobtype)) = WorkerLen(hjob[h])
<1> DEFINE j == hjob[h]
<1>1. jobtype = j /\ wpos \in Nat \ {0} /\ wpos <= WorkerLen(j) + 1
    BY DEF WorkerOK, JobTyped
<1>2. WorkerLen(j) \in Nat
    BY Measures
<1>3. Len(WorkerScript(jobtype)) = WorkerLen(j)
    BY <1>1, WorkerScripts
<1>4. wpos <= WorkerLen(j) => /\ WorkerItem.op = WorkerOp(j, wpos)
                              /\ WorkerItem.n = IF wpos <= Asks(j) THEN 1 ELSE WriteSize(j, wpos)
  <2> SUFFICES ASSUME wpos <= WorkerLen(j)
               PROVE  /\ WorkerItem.op = WorkerOp(j, wpos)
                      /\ WorkerItem.n = IF wpos <= Asks(j) THEN 1 ELSE WriteSize(j, wpos)
      OBVIOUS
  <2>1. wpos \in 1 .. WorkerLen(j)
      BY <1>1, <1>2
  <2> QED  BY <1>1, <2>1, WorkerScripts DEF WorkerItem
<1> QED
    BY <1>1, <1>2, <1>3, <1>4 DEF Closing

\* A call of the worker's begins; with the one of a die-error it has decided.
LEMMA WorkerBegins ==
    ASSUME ProtInv, NEW h \in Installers, h = holder, hjob[h] \in Fitting, JobOK(h), WorkerOK(h),
           slot = "owned", wpos # 0, pc[Worker] = "idle", ret[Worker] = "none",
           NEW o \in {"read", "write", "term"}, NEW n \in Nat,
           Begin(Worker, o, n, "wait"), UNCHANGED <<flags, pipeVars, loaded>>,
           UNCHANGED <<slotVars, handleVars, wpos, intruded>>,
           verdict' = IF wpos = Asks(hjob[h]) + 1 THEN [verdict EXCEPT ![h] = "EDIE"] ELSE verdict,
           o = IF wpos <= Asks(hjob[h]) THEN "read"
               ELSE IF wpos <= WorkerLen(hjob[h]) THEN "write" ELSE "term",
           wpos <= WorkerLen(hjob[h]) =>
             n # 0 /\ n = IF wpos <= Asks(hjob[h]) THEN 1 ELSE WriteSize(hjob[h], wpos)
    PROVE  ProtInv'
<1> DEFINE j == hjob[h]
           a == Asks(j)
           l == WorkerLen(j)
<1>0. Worker \in Threads /\ h \in Threads /\ h # Worker /\ PipeTyped /\ JobTyped
    BY TheWorker DEF ProtInv
<1>1. a \in {1, 2} /\ l \in Nat /\ l > a + 1 /\ Answer(j) \in Nat /\ wpos \in Nat \ {0}
    BY <1>0, Measures DEF JobTyped
<1>2. /\ pc' = [pc EXCEPT ![Worker] = "wait"] /\ op' = [op EXCEPT ![Worker] = o]
      /\ count' = [count EXCEPT ![Worker] = n] /\ total' = [total EXCEPT ![Worker] = 0]
      /\ ret' = [ret EXCEPT ![Worker] = "none"]
    BY DEF Begin, Goto
<1>3. /\ pc \in [Threads -> Stations] /\ op \in [Threads -> {"none", "read", "write", "term"}]
      /\ count \in [Threads -> Nat] /\ total \in [Threads -> Nat]
      /\ loaded \in [Threads -> SUBSET JobFlags] /\ ret \in [Threads -> Results]
      /\ verdict \in [Installers -> Verdicts]
    BY <1>0 DEF PipeTyped, JobTyped
<1>4. UNCHANGED <<flags, bytes, readhold, writehold, exetermhold>>
    BY DEF pipeVars
<1>5. UNCHANGED <<slot, jobtype, holder, hjob, hpos, dieerr>>
    BY DEF slotVars, handleVars
<1>6. /\ pc'[Worker] = "wait" /\ op'[Worker] = o /\ count'[Worker] = n /\ total'[Worker] = 0
      /\ ret'[Worker] = "none" /\ total[Worker] = 0
    BY <1>0, <1>2, <1>3 DEF WorkerOK
<1>7. PipeTyped'
  <2>1. "wait" \in Stations /\ "none" \in Results
      BY DEF Stations, Calling, Results
  <2>2. /\ pc' \in [Threads -> Stations] /\ op' \in [Threads -> {"none", "read", "write", "term"}]
        /\ count' \in [Threads -> Nat] /\ total' \in [Threads -> Nat]
        /\ ret' \in [Threads -> Results]
      BY <1>2, <1>3, <2>1
  <2> QED  BY <1>0, <1>4, <2>2 DEF PipeTyped
<1>8. \A u \in Threads \ {Worker} : Kept(u) /\ pc'[u] = pc[u]
    BY <1>2, <1>3 DEF Kept
<1>9. /\ verdict' \in [Installers -> Verdicts]
      /\ \A g \in Installers \ {h} : verdict'[g] = verdict[g]
      /\ wpos # a + 1 => verdict'[h] = verdict[h]
      /\ wpos = a + 1 => verdict[h] = "none" /\ verdict'[h] = "EDIE"
  <2>1. wpos = a + 1 => verdict[h] = "none"
      BY <1>1 DEF WorkerOK
  <2> QED  BY <1>3, <2>1 DEF Verdicts
<1>10. hpos[h] # 0 => HandleCallOK(h)'
  <2> SUFFICES ASSUME hpos[h] # 0 PROVE HandleCallOK(h)'
      OBVIOUS
  <2>0. Kept(h) /\ HandleCallOK(h)
      BY <1>0, <1>8 DEF JobOK
  <2>1. CASE wpos # a + 1
      BY <1>4, <1>5, <1>9, <2>0, <2>1, CallKept
  <2>2. CASE wpos = a + 1
    <3>1. hpos[h] <= a + 1 /\ hpos[h] \in Nat
        BY <1>0, <1>9, <2>2, Undecided DEF JobTyped
    <3>2. Asks(hjob'[h]) = a
        BY <1>5
    <3>3. ~(hpos[h] = a + 2) /\ ~(hpos[h] > a + 2)
        BY <1>1, <3>1
    <3>4. pc'[h] = pc[h]
        BY <1>0, <1>8
    <3> QED  BY <1>4, <1>5, <2>0, <3>2, <3>3, <3>4 DEF HandleCallOK, Kept
  <2> QED  BY <2>1, <2>2
<1>11. WorkerOK(h)'
  <2>1. wpos' = wpos /\ Asks(hjob'[h]) = a /\ WorkerLen(hjob'[h]) = l /\ slot' = "owned"
      BY <1>5
  <2>2. wpos <= l => 0 < n
      OBVIOUS
  <2>3. wpos <= l + 1 /\ jobtype' = hjob'[h]
      BY <1>5 DEF WorkerOK
  <2>4. /\ wpos <= a => verdict'[h] = "none"
        /\ wpos = a + 1 => verdict'[h] = "EDIE"
        /\ wpos > a + 1 => verdict'[h] # "none"
        /\ wpos \in a + 2 .. l => verdict'[h] = "OK"
      BY <1>1, <1>9 DEF WorkerOK
  <2>5. WriteSize(hjob'[h], wpos') = WriteSize(j, wpos)
      BY <1>5
  <2> QED
      BY <1>1, <1>6, <2>1, <2>2, <2>3, <2>4, <2>5 DEF WorkerOK
<1>12. Balanced(h)'
  <2>0. total'[h] = total[h] /\ ret'[h] = ret[h] /\ wpos' = wpos
      BY <1>0, <1>8 DEF Kept
  <2>1. Asked(h)' = Asked(h)
      BY <1>5, <2>0 DEF Asked, Done
  <2>2. Heard(h)' = Heard(h)
      BY <1>5, <1>6, <2>0 DEF Heard, Done
  <2>3. CASE wpos # a + 1
    <3>1. Awaited(h)' = Awaited(h) /\ Owed(h)' = Owed(h)
        BY <1>5, <1>6, <1>9, <2>0, <2>3 DEF Awaited, Owed, Done
    <3> QED  BY <1>4, <2>1, <2>2, <3>1 DEF JobOK, Balanced
  <2>4. CASE wpos = a + 1
    <3>1. /\ hpos[h] # 0 /\ hpos[h] <= a + 1 /\ bytes["executor"] = 0 /\ hpos[h] \in Nat
          /\ hpos[h] > a => Done(h, 1) = 0
        BY <1>0, <1>9, <2>4, Undecided DEF JobTyped
    <3>2. Owed(h)' = 1
        BY <1>5, <1>6, <1>9, <2>0, <2>4 DEF Owed, Done
    <3>3. Awaited(h)' = 1
      <4>1. CASE hpos[h] <= a
          BY <1>5, <1>9, <2>4, <3>1, <4>1 DEF Awaited
      <4>2. CASE hpos[h] = a + 1
        <5>1. ReadBefore(j, hpos[h]) = 0 /\ ReadSize(j, hpos[h]) = 1
            BY <1>1, <4>2 DEF ReadBefore, ReadSize
        <5>2. Done(h, 1)' = 0
            BY <1>1, <2>0, <3>1, <4>2 DEF Done
        <5>3. Awaited(h)' = 1 - (0 + Done(h, 1)')
            BY <1>1, <1>5, <1>9, <2>4, <3>1, <4>2, <5>1 DEF Awaited
        <5> QED  BY <5>2, <5>3
      <4> QED  BY <1>1, <3>1, <4>1, <4>2
    <3> QED  BY <1>4, <2>1, <2>2, <3>1, <3>2, <3>3 DEF JobOK, Balanced
  <2> QED  BY <2>3, <2>4
<1>13. "EXECUTERTERM" \notin flags /\ ~Ended(h)'
    BY <1>6 DEF JobOK, Ended
<1>14. verdict'[h] = verdict[h] \/ verdict[h] = "none"
    BY <1>9
<1>15. slot # "empty" /\ slot' = "owned" /\ wpos' \in Nat \ {0}
       /\ UNCHANGED <<jobtype, holder, handleVars, intruded>>
    BY <1>1, <1>5
<1> QED
    BY <1>6, <1>7, <1>8, <1>9, <1>10, <1>11, <1>12, <1>13, <1>14, <1>15, WorkerTurns

LEMMA WorkerCallKeeps ==
    ASSUME ProtInv, Apart, NEW w \in Executors, WorkerCall(w)
    PROVE  ProtInv'
<1>0. w = Worker /\ JobTyped /\ SlotOK
    BY TheWorker DEF ProtInv
<1>1. wpos # 0 /\ pc[Worker] = "idle" /\ ret[Worker] = "none" /\ slot = "owned"
    BY <1>0 DEF WorkerCall, SlotOK
<1>2. PICK h \in Installers : h = holder /\ hjob[h] \in Fitting /\ JobOK(h) /\ WorkerOK(h)
    BY <1>1, Owned
<1> DEFINE j == hjob[h]
           a == Asks(j)
           l == WorkerLen(j)
<1>3. /\ a \in {1, 2} /\ l \in Nat /\ l > a + 1 /\ wpos \in Nat \ {0}
      /\ Second(j) \in Nat /\ Third(j) \in Nat
      /\ l >= a + 3 => Second(j) > 0
      /\ l >= a + 4 => Third(j) > 0
      /\ l <= a + 4
    BY <1>0, <1>1, <1>2, Measures DEF JobTyped
<1>4. /\ Closing <=> wpos = l + 1
      /\ ~Closing <=> wpos <= l
      /\ ~Closing => /\ WorkerItem.op = WorkerOp(j, wpos)
                     /\ WorkerItem.n = IF wpos <= a THEN 1 ELSE WriteSize(j, wpos)
    BY <1>0, <1>1, <1>2, WorkerItems
<1>5. CASE Closing
  <2>1. ExecutorTerm(Worker) /\ UNCHANGED protVars
      BY <1>0, <1>5 DEF WorkerCall
  <2> DEFINE n == 0
  <2>2. Begin(Worker, "term", n, "wait") /\ UNCHANGED <<flags, pipeVars, loaded>> /\ n \in Nat
      BY <2>1 DEF ExecutorTerm
  <2>3. ~(wpos <= a) /\ ~(wpos <= l) /\ ~(wpos = a + 1)
      BY <1>3, <1>4, <1>5
  <2>4. UNCHANGED <<slotVars, handleVars, wpos, intruded>> /\ verdict' = verdict
      BY <2>1 DEF protVars
  <2> HIDE DEF n
  <2> QED  BY <1>1, <1>2, <2>2, <2>3, <2>4, WorkerBegins
<1>6. CASE ~Closing /\ wpos <= a
  <2>1. Read(Worker, 1) /\ UNCHANGED protVars
      BY <1>0, <1>4, <1>6 DEF WorkerCall, WorkerOp
  <2> DEFINE n == 1
  <2>2. Begin(Worker, "read", n, "wait") /\ UNCHANGED <<flags, pipeVars, loaded>>
        /\ n \in Nat /\ n # 0 /\ n = 1
      BY <2>1 DEF Read
  <2>3. ~(wpos = a + 1) /\ wpos <= a
      BY <1>3, <1>6
  <2>4. UNCHANGED <<slotVars, handleVars, wpos, intruded>> /\ verdict' = verdict
      BY <2>1 DEF protVars
  <2> HIDE DEF n
  <2> QED  BY <1>1, <1>2, <2>2, <2>3, <2>4, WorkerBegins
<1>7. CASE ~Closing /\ wpos = a + 1
  <2>1. /\ ExecutorWrite(Worker, 1) /\ verdict' = [verdict EXCEPT ![h] = "EDIE"]
        /\ UNCHANGED <<slotVars, handleVars, wpos, intruded>>
    <3>1. WorkerItem.op = "die"
        BY <1>3, <1>4, <1>7 DEF WorkerOp
    <3> QED  BY <1>0, <1>2, <1>7, <3>1 DEF WorkerCall
  <2> DEFINE n == 1
  <2>2. Begin(Worker, "write", n, "wait") /\ UNCHANGED <<flags, pipeVars, loaded>>
        /\ n \in Nat /\ n # 0 /\ n = 1
      BY <2>1 DEF ExecutorWrite
  <2>3. ~(wpos <= a) /\ wpos <= l /\ WriteSize(j, wpos) = 1
      BY <1>3, <1>7 DEF WriteSize
  <2> HIDE DEF n
  <2> QED  BY <1>1, <1>2, <1>7, <2>1, <2>2, <2>3, WorkerBegins
<1>8. CASE ~Closing /\ wpos > a + 1
  <2> DEFINE n == WriteSize(j, wpos)
  <2>0. ~(wpos <= a) /\ wpos <= l /\ ~(wpos = a + 1)
      BY <1>3, <1>4, <1>8
  <2>1. ExecutorWrite(Worker, n) /\ UNCHANGED protVars
    <3>1. WorkerItem.op = "write" /\ WorkerItem.n = n
        BY <1>4, <1>8, <2>0 DEF WorkerOp
    <3> QED  BY <1>0, <1>8, <3>1 DEF WorkerCall
  <2>2. Begin(Worker, "write", n, "wait") /\ UNCHANGED <<flags, pipeVars, loaded>>
      BY <2>1 DEF ExecutorWrite
  <2>3. n \in Nat /\ n # 0
      BY <1>3, <1>8, <2>0 DEF WriteSize
  <2>4. UNCHANGED <<slotVars, handleVars, wpos, intruded>> /\ verdict' = verdict
      BY <2>1 DEF protVars
  <2> HIDE DEF n
  <2> QED  BY <1>1, <1>2, <2>0, <2>2, <2>3, <2>4, WorkerBegins DEF n
<1> QED
    BY <1>3, <1>4, <1>5, <1>6, <1>7, <1>8

LEMMA WorkerSucceedsKeeps ==
    ASSUME ProtInv, Apart, NEW w \in Executors, WorkerSucceeds(w)
    PROVE  ProtInv'
<1>0. w = Worker /\ PipeTyped /\ JobTyped /\ SlotOK
    BY TheWorker DEF ProtInv
<1>1. /\ wpos # 0 /\ pc[Worker] = "idle" /\ ret[Worker] = "none" /\ slot = "owned"
      /\ ~Closing /\ WorkerItem.op = "die"
      /\ verdict' = [verdict EXCEPT ![holder] = "OK"] /\ wpos' = wpos + 1
      /\ UNCHANGED <<vars, slotVars, handleVars, intruded>>
    BY <1>0 DEF WorkerSucceeds, SlotOK
<1>2. PICK h \in Installers : h = holder /\ hjob[h] \in Fitting /\ JobOK(h) /\ WorkerOK(h)
    BY <1>1, Owned
<1> DEFINE j == hjob[h]
           a == Asks(j)
           l == WorkerLen(j)
<1>3. a \in {1, 2} /\ l \in Nat /\ l > a + 1 /\ wpos \in Nat \ {0} /\ Answer(j) \in Nat
    BY <1>0, <1>1, <1>2, Measures DEF JobTyped
<1>4. wpos = a + 1
    BY <1>0, <1>1, <1>2, <1>3, WorkerItems DEF WorkerOp
<1>5. verdict[h] = "none" /\ total[Worker] = 0
    BY <1>1, <1>2, <1>4 DEF WorkerOK
<1>6. UNCHANGED <<flags, pipeVars, pc, op, count, total, loaded, ret>>
    BY <1>1 DEF vars, callVars
<1>7. UNCHANGED <<flags, bytes, readhold, writehold, exetermhold>>
    BY <1>6 DEF pipeVars
<1>8. UNCHANGED <<slot, jobtype, holder, hjob, hpos, dieerr>>
    BY <1>1 DEF slotVars, handleVars
<1>9. /\ verdict' \in [Installers -> Verdicts] /\ verdict'[h] = "OK"
      /\ \A g \in Installers \ {h} : verdict'[g] = verdict[g]
    BY <1>0, <1>1, <1>2 DEF JobTyped, Verdicts
<1>10. PipeTyped'
    BY <1>0, <1>6, <1>7 DEF PipeTyped
<1>11. \A u \in Threads \ {Worker} : Kept(u) /\ pc'[u] = pc[u]
    BY <1>6 DEF Kept
<1>12. /\ hpos[h] # 0 /\ hpos[h] <= a + 1 /\ Awaited(h) = Answer(j) /\ Owed(h) = Answer(j)
       /\ hpos[h] \in Nat
    BY <1>0, <1>1, <1>2, <1>5, Undecided DEF JobTyped
<1>13. HandleCallOK(h)'
  <2>1. HandleCallOK(h) /\ Asks(hjob'[h]) = a
      BY <1>2, <1>8, <1>12 DEF JobOK
  <2>2. ~(hpos[h] = a + 2) /\ ~(hpos[h] > a + 2)
      BY <1>3, <1>12
  <2> QED  BY <1>5, <1>6, <1>8, <2>1, <2>2 DEF HandleCallOK
<1>14. WorkerOK(h)'
    BY <1>1, <1>2, <1>3, <1>4, <1>5, <1>6, <1>8, <1>9 DEF WorkerOK
<1>15. Balanced(h)'
  <2>1. Asked(h)' = Asked(h)
      BY <1>6, <1>8 DEF Asked, Done
  <2>2. Heard(h) = a /\ Heard(h)' = a
      BY <1>1, <1>3, <1>4, <1>8 DEF Heard
  <2>3. Awaited(h)' = Awaited(h)
      BY <1>5, <1>6, <1>8, <1>9 DEF Awaited, Done
  <2>4. Owed(h)' = Answer(j)
    <3>1. WriteBefore(j, a + 2) = 0
        BY <1>3 DEF WriteBefore
    <3>2. wpos' = a + 2 /\ ~(a + 2 > l)
        BY <1>1, <1>3, <1>4
    <3>3. Done(Worker, WriteSize(j, a + 2))' = 0
        BY <1>1, <1>5, <1>6 DEF Done
    <3>4. Owed(h)' = Answer(j) - WriteBefore(j, a + 2) - Done(Worker, WriteSize(j, a + 2))'
        BY <1>1, <1>8, <1>9, <3>2 DEF Owed, Done
    <3> QED  BY <1>3, <3>1, <3>3, <3>4
  <2> QED  BY <1>2, <1>7, <1>12, <2>1, <2>2, <2>3, <2>4 DEF JobOK, Balanced
<1>16. "EXECUTERTERM" \notin flags /\ ~Ended(h)'
    BY <1>1, <1>2, <1>6 DEF JobOK, Ended
<1>17. wpos' \in Nat \ {0}
    BY <1>1, <1>3
<1>18. UNCHANGED <<jobtype, holder, handleVars, intruded>> /\ slot' = "owned"
    BY <1>1, <1>8
<1> QED
    BY <1>1, <1>2, <1>5, <1>6, <1>9, <1>10, <1>11, <1>13, <1>14, <1>15, <1>16, <1>17, <1>18, WorkerTurns

LEMMA WorkerGoesOnKeeps ==
    ASSUME ProtInv, Apart, NEW w \in Executors, WorkerGoesOn(w)
    PROVE  ProtInv'
<1>0. w = Worker /\ Worker \in Threads /\ PipeTyped /\ JobTyped /\ SlotOK
    BY TheWorker DEF ProtInv
<1>1. /\ wpos # 0 /\ pc[Worker] = "idle" /\ ret[Worker] # "none" /\ ~Closing /\ slot = "owned"
      /\ wpos' = IF Leaves(Worker) THEN Len(WorkerScript(jobtype)) + 1 ELSE wpos + 1
      /\ ret' = [ret EXCEPT ![Worker] = "none"]
      /\ UNCHANGED <<flags, pipeVars, pc, op, count, total, loaded>>
      /\ UNCHANGED <<slotVars, handleVars, verdict, intruded>>
    BY <1>0 DEF WorkerGoesOn, SlotOK
<1>2. PICK h \in Installers : h = holder /\ hjob[h] \in Fitting /\ JobOK(h) /\ WorkerOK(h)
    BY <1>1, Owned
<1> DEFINE j == hjob[h]
           a == Asks(j)
           l == WorkerLen(j)
<1>3. /\ a \in {1, 2} /\ l \in Nat /\ l > a + 1 /\ l <= a + 4 /\ wpos \in Nat \ {0}
      /\ Second(j) \in Nat /\ Third(j) \in Nat /\ Answer(j) = 1 + Second(j) + Third(j)
  <2>1. wpos \in Nat \ {0}
      BY <1>0, <1>1 DEF JobTyped
  <2> QED  BY <1>2, <2>1, Measures
<1>4. /\ wpos <= l /\ WorkerItem.op = WorkerOp(j, wpos) /\ Len(WorkerScript(jobtype)) = l
    BY <1>0, <1>1, <1>2, WorkerItems
<1>5. ret[Worker] = "OK" /\ total[Worker] = 0
    BY <1>1, <1>2 DEF WorkerOK
<1>6. wpos' = IF wpos = a + 1 THEN l + 1 ELSE wpos + 1
    BY <1>1, <1>3, <1>4, <1>5 DEF Leaves, WorkerOp
<1>7. UNCHANGED <<flags, bytes, readhold, writehold, exetermhold, pc, op, count, total, loaded>>
    BY <1>1 DEF pipeVars
<1>8. UNCHANGED <<slot, jobtype, holder, hjob, hpos, dieerr, verdict>>
    BY <1>1 DEF slotVars, handleVars
<1>9. ret \in [Threads -> Results] /\ ret'[Worker] = "none"
    BY <1>0, <1>1 DEF PipeTyped
<1>10. PipeTyped'
  <2>1. ret' \in [Threads -> Results]
      BY <1>1, <1>9 DEF Results
  <2> QED  BY <1>0, <1>7, <2>1 DEF PipeTyped
<1>11. \A u \in Threads \ {Worker} : Kept(u) /\ pc'[u] = pc[u]
    BY <1>1, <1>7, <1>9 DEF Kept
<1>12. Kept(h)
    BY <1>11, TheWorker
<1>13. hpos[h] # 0 => HandleCallOK(h)'
    BY <1>2, <1>7, <1>8, <1>12, CallKept DEF JobOK
<1>14. WorkerOK(h)'
  <2>1. wpos' \in Nat /\ wpos' <= l + 1
      BY <1>3, <1>4, <1>6
  <2>2. /\ wpos' <= a => verdict[h] = "none"
        /\ wpos' = a + 1 => verdict[h] = "none"
        /\ wpos' > a + 1 => verdict[h] # "none"
        /\ wpos' \in a + 2 .. l => verdict[h] = "OK"
    <3>1. CASE wpos <= a
        BY <1>1, <1>2, <1>3, <1>6, <3>1 DEF WorkerOK
    <3>2. CASE wpos = a + 1
        BY <1>1, <1>2, <1>3, <1>5, <1>6, <3>2 DEF WorkerOK
    <3>3. CASE wpos > a + 1
        BY <1>1, <1>2, <1>3, <1>4, <1>6, <3>3 DEF WorkerOK
    <3> QED  BY <1>3, <3>1, <3>2, <3>3
  <2>3. Asks(hjob'[h]) = a /\ WorkerLen(hjob'[h]) = l /\ jobtype' = hjob'[h] /\ slot' = "owned"
      BY <1>1, <1>2, <1>8 DEF WorkerOK
  <2> QED  BY <1>1, <1>5, <1>7, <1>8, <1>9, <2>1, <2>2, <2>3 DEF WorkerOK
<1>15. Balanced(h)'
  <2>1. Asked(h)' = Asked(h) /\ Awaited(h)' = Awaited(h)
      BY <1>8, <1>12 DEF Asked, Awaited, Done, Kept
  <2>2. Heard(h)' = Heard(h)
    <3>1. Heard(h) = IF wpos <= a THEN wpos ELSE a
        BY <1>1, <1>3, <1>5 DEF Heard, Done
    <3>2. Heard(h)' = IF wpos' <= a THEN wpos' - 1 + 0 ELSE a
        BY <1>1, <1>5, <1>7, <1>8, <1>9 DEF Heard, Done
    <3> QED  BY <1>3, <1>6, <3>1, <3>2
  <2>3. Owed(h)' = Owed(h)
    <3>1. CASE wpos <= a
      <4>1. verdict[h] = "none"
          BY <1>1, <1>2, <3>1 DEF WorkerOK
      <4> QED  BY <1>8, <4>1 DEF Owed
    <3>2. CASE wpos = a + 1
      <4>1. verdict[h] = "EDIE"
          BY <1>1, <1>2, <3>2 DEF WorkerOK
      <4>2. wpos' # a + 1
          BY <1>3, <1>6, <3>2
      <4> QED  BY <1>1, <1>5, <1>8, <3>2, <4>1, <4>2 DEF Owed, Done
    <3>3. CASE wpos > a + 1
      <4>1. verdict[h] = "OK"
          BY <1>1, <1>2, <1>3, <1>4, <3>3 DEF WorkerOK
      <4>2. Owed(h) = Answer(j) - WriteBefore(j, wpos) - WriteSize(j, wpos)
          BY <1>1, <1>3, <1>4, <1>5, <4>1 DEF Owed, Done
      <4>3. Owed(h)' = Answer(j) - WriteBefore(j, wpos + 1) - 0
        <5>1. wpos' = wpos + 1
            BY <1>3, <1>6, <3>3
        <5> QED  BY <1>1, <1>5, <1>7, <1>8, <1>9, <4>1, <5>1 DEF Owed, Done
      <4>4. WriteBefore(j, wpos + 1) = WriteBefore(j, wpos) + WriteSize(j, wpos)
            /\ WriteBefore(j, wpos) \in Int /\ WriteSize(j, wpos) \in Int
        <5>1. wpos = a + 2 \/ wpos = a + 3 \/ wpos = a + 4
            BY <1>3, <1>4, <3>3
        <5>2. wpos = a + 2 => /\ WriteBefore(j, wpos) = 0 /\ WriteSize(j, wpos) = 1
                              /\ WriteBefore(j, wpos + 1) = 1
            BY <1>3 DEF WriteBefore, WriteSize
        <5>3. wpos = a + 3 => /\ WriteBefore(j, wpos) = 1 /\ WriteSize(j, wpos) = Second(j)
                              /\ WriteBefore(j, wpos + 1) = 1 + Second(j)
            BY <1>3 DEF WriteBefore, WriteSize
        <5>4. wpos = a + 4 => /\ WriteBefore(j, wpos) = 1 + Second(j)
                              /\ WriteSize(j, wpos) = Third(j)
                              /\ WriteBefore(j, wpos + 1) = Answer(j)
            BY <1>3 DEF WriteBefore, WriteSize
        <5> QED  BY <1>3, <5>1, <5>2, <5>3, <5>4
      <4> QED  BY <1>3, <4>2, <4>3, <4>4
    <3> QED  BY <1>3, <3>1, <3>2, <3>3
  <2> QED  BY <1>2, <1>7, <2>1, <2>2, <2>3 DEF JobOK, Balanced
<1>16. "EXECUTERTERM" \notin flags /\ ~Ended(h)'
  <2>1. ~Ended(h)
      BY <1>3, <1>4 DEF Ended
  <2> QED  BY <1>1, <1>2, <1>9, <2>1 DEF JobOK, Ended
<1>17. wpos' \in Nat \ {0} /\ verdict' \in [Installers -> Verdicts]
  <2>1. wpos' \in Nat \ {0}
      BY <1>3, <1>6
  <2> QED  BY <1>0, <1>8, <2>1 DEF JobTyped
<1>18. UNCHANGED <<jobtype, holder, handleVars, intruded>> /\ slot' = "owned"
       /\ pc'[Worker] = "idle" /\ \A g \in Installers : verdict'[g] = verdict[g]
    BY <1>1, <1>7, <1>8
<1> QED
    BY <1>1, <1>2, <1>10, <1>11, <1>13, <1>14, <1>15, <1>16, <1>17, <1>18, WorkerTurns

\* edbs_jobclose
LEMMA CloseKeeps ==
    ASSUME ProtInv, Apart, NEW w \in Executors, Close(w)
    PROVE  ProtInv'
<1>0. w = Worker /\ Worker \in Threads /\ PipeTyped /\ JobTyped /\ SlotOK
    BY TheWorker DEF ProtInv
<1>1. /\ wpos # 0 /\ pc[Worker] = "idle" /\ ret[Worker] # "none" /\ Closing /\ slot = "owned"
      /\ slot' = "empty" /\ wpos' = 0 /\ ret' = [ret EXCEPT ![Worker] = "none"]
      /\ UNCHANGED <<flags, pipeVars, pc, op, count, total, loaded>>
      /\ UNCHANGED <<holder, handleVars, verdict, intruded>>
    BY <1>0 DEF Close, SlotOK
<1>2. PICK h \in Installers : h = holder /\ hjob[h] \in Fitting /\ JobOK(h) /\ WorkerOK(h)
    BY <1>1, Owned
<1> DEFINE j == hjob[h]
           a == Asks(j)
           l == WorkerLen(j)
<1>3. a \in {1, 2} /\ l \in Nat /\ l > a + 1
    BY <1>2, Measures
<1>4. wpos = l + 1 /\ ret[Worker] = "OK" /\ total[Worker] = 0
    BY <1>0, <1>1, <1>2, WorkerItems DEF WorkerOK
<1>5. Ended(h)
    BY <1>1, <1>4 DEF Ended
<1>6. bytes["executor"] = 0 /\ verdict[h] # "none" /\ Owed(h) = 0
  <2>1. bytes["executor"] = 0
      BY <1>2, <1>5 DEF JobOK
  <2>2. verdict[h] # "none"
      BY <1>1, <1>2, <1>3, <1>4 DEF WorkerOK
  <2>3. Owed(h) = 0
      BY <1>0, <1>2, <1>5, NothingOwed
  <2> QED  BY <2>1, <2>2, <2>3
<1>7. UNCHANGED <<flags, bytes, readhold, writehold, exetermhold, pc, op, count, total, loaded>>
    BY <1>1 DEF pipeVars
<1>8. UNCHANGED <<holder, hjob, hpos, dieerr, result, verdict, intruded>>
    BY <1>1 DEF handleVars
<1>9. ret \in [Threads -> Results] /\ ret'[Worker] = "none"
    BY <1>0, <1>1 DEF PipeTyped
<1>10. PipeTyped'
  <2>1. ret' \in [Threads -> Results]
      BY <1>1, <1>9 DEF Results
  <2> QED  BY <1>0, <1>7, <2>1 DEF PipeTyped
<1>11. \A u \in Threads \ {Worker} : Kept(u)
    BY <1>1, <1>7, <1>9 DEF Kept
<1>12. JobTyped' /\ SlotOK'
    BY <1>0, <1>1, <1>4, <1>6, <1>7, <1>8, <1>9 DEF JobTyped, SlotOK
<1>13. ASSUME NEW g \in Installers PROVE HandleOK(g)'
  <2>1. Kept(g) /\ HandleOK(g)
      BY <1>11, TheWorker DEF ProtInv
  <2> QED  BY <1>8, <2>1, HandleKept
<1>14. JobOK(h)'
  <2>1. Kept(h)
      BY <1>11, TheWorker
  <2>2. hpos'[h] # 0 => HandleCallOK(h)'
      BY <1>2, <1>7, <1>8, <2>1, CallKept DEF JobOK
  <2>3. Balanced(h)'
    <3>1. Asked(h)' = Asked(h) /\ Awaited(h)' = Awaited(h)
        BY <1>8, <2>1 DEF Asked, Awaited, Done, Kept
    <3>2. Heard(h) = a /\ Heard(h)' = a /\ Owed(h)' = 0
        BY <1>1, <1>3, <1>4, <1>8 DEF Heard, Owed
    <3> QED  BY <1>2, <1>6, <1>7, <3>1, <3>2 DEF JobOK, Balanced
  <2> QED  BY <1>1, <1>6, <1>8, <2>2, <2>3 DEF JobOK, Ended
<1>15. Words' /\ Passed'
    BY <1>7 DEF ProtInv, Words, Passed, Hold
<1>16. \A g \in Installers : g = holder' /\ hjob'[g] # "none" => JobOK(g)'
    BY <1>2, <1>8, <1>14
<1> QED
    BY <1>8, <1>10, <1>12, <1>13, <1>15, <1>16 DEF ProtInv

\* Where the worker is when it is in a call
LEMMA WorkerIn ==
    ASSUME ProtInv, Apart, pc[Worker] # "idle"
    PROVE  \E h \in Installers :
             /\ h = holder /\ hjob[h] \in Fitting /\ JobOK(h) /\ WorkerOK(h) /\ slot = "owned"
             /\ wpos \in Nat \ {0} /\ ret[Worker] = "none" /\ "EXECUTERTERM" \notin flags
<1>1. slot = "owned" /\ wpos \in Nat \ {0}
    BY DEF ProtInv, SlotOK, JobTyped
<1>2. PICK h \in Installers : h = holder /\ hjob[h] \in Fitting /\ JobOK(h) /\ WorkerOK(h)
    BY <1>1, Owned
<1>3. ret[Worker] = "none"
    BY <1>1, <1>2 DEF WorkerOK
<1> QED
    BY <1>1, <1>2, <1>3 DEF JobOK, Ended

\* What a step of the worker leaves to the handle
LEMMA HandleUnmoved ==
    ASSUME NEW h \in Installers, JobOK(h), Kept(h), UNCHANGED <<handleVars, verdict>>,
           flags \subseteq flags', pc[h] = "or" => flags' = flags
    PROVE  /\ hpos[h] # 0 => HandleCallOK(h)'
           /\ Asked(h)' = Asked(h) /\ Awaited(h)' = Awaited(h)
<1>1. UNCHANGED <<hjob, hpos, dieerr, verdict>>
    BY DEF handleVars
<1>2. hpos[h] # 0 => HandleCallOK(h)'
    BY <1>1, CallKept DEF JobOK
<1>3. Asked(h)' = Asked(h) /\ Awaited(h)' = Awaited(h)
    BY <1>1 DEF Asked, Awaited, Done, Kept
<1> QED
    BY <1>2, <1>3

LEMMA WorkerWaits ==
    ASSUME ProtInv, Apart, Wait(Worker), UNCHANGED protVars
    PROVE  ProtInv'
<1> DEFINE l == IF Hold(Worker) THEN "asleep" ELSE "enter"
<1>0. Worker \in Threads /\ PipeTyped /\ JobTyped
    BY TheWorker DEF ProtInv
<1>1. /\ pc[Worker] = "wait" /\ pc' = [pc EXCEPT ![Worker] = l]
      /\ UNCHANGED <<flags, pipeVars, op, count, total, loaded, ret>>
    BY DEF Wait, Goto
<1>2. PICK h \in Installers :
        /\ h = holder /\ hjob[h] \in Fitting /\ JobOK(h) /\ WorkerOK(h) /\ slot = "owned"
        /\ wpos \in Nat \ {0} /\ ret[Worker] = "none" /\ "EXECUTERTERM" \notin flags
    BY <1>1, WorkerIn
<1>3. /\ UNCHANGED <<slotVars, handleVars, wpos, verdict, intruded>>
      /\ UNCHANGED <<slot, jobtype, holder, hjob>>
    BY DEF protVars, handleVars, slotVars
<1>4. UNCHANGED <<flags, bytes, readhold, writehold, exetermhold, op, count, total, loaded, ret>>
    BY <1>1 DEF pipeVars
<1>5. pc \in [Threads -> Stations]
    BY <1>0 DEF PipeTyped
<1>6. pc'[Worker] \in {"asleep", "enter"} /\ (pc'[Worker] = "enter" => ~Hold(Worker))
    BY <1>0, <1>1, <1>5
<1>7. PipeTyped'
  <2>1. l \in Stations
      BY DEF Stations, Calling
  <2>2. pc' \in [Threads -> Stations]
      BY <1>1, <1>5, <2>1
  <2> QED  BY <1>0, <1>4, <2>2 DEF PipeTyped
<1>8. \A u \in Threads \ {Worker} : Kept(u) /\ pc'[u] = pc[u]
    BY <1>1, <1>4, <1>5 DEF Kept
<1>9. /\ hpos[h] # 0 => HandleCallOK(h)'
      /\ Asked(h)' = Asked(h) /\ Awaited(h)' = Awaited(h)
  <2>1. Kept(h)
      BY <1>8, TheWorker
  <2> QED  BY <1>2, <1>3, <1>4, <2>1, HandleUnmoved
<1>10. WorkerOK(h)'
    BY <1>1, <1>2, <1>3, <1>4, <1>6 DEF WorkerOK
<1>11. Balanced(h)'
  <2>1. Heard(h)' = Heard(h) /\ Owed(h)' = Owed(h)
      BY <1>3, <1>4 DEF Heard, Owed, Done
  <2> QED  BY <1>2, <1>4, <1>9, <2>1 DEF JobOK, Balanced
<1>12. ~Ended(h)'
    BY <1>2, <1>4 DEF Ended
<1>13. Words'
    BY <1>4 DEF ProtInv, Words
<1>14. Passed'
  <2> SUFFICES ASSUME NEW u \in Threads, pc'[u] \in {"enter", "store"} PROVE ~Hold(u)'
      BY DEF Passed
  <2>1. ~Hold(u)
      BY <1>6, <1>8 DEF ProtInv, Passed
  <2> QED  BY <1>4, <2>1 DEF Hold
<1>15. verdict' \in [Installers -> Verdicts] /\ \A g \in Installers : verdict'[g] = verdict[g]
    BY <1>0, <1>3 DEF JobTyped
<1>16. \A u \in Threads \ {Worker} : Kept(u)
    BY <1>8
<1> QED
    BY <1>2, <1>3, <1>4, <1>7, <1>9, <1>10, <1>11, <1>12, <1>13, <1>14, <1>15, <1>16, WorkerSide

\* A word of the request
LEMMA WorkerReads ==
    ASSUME ProtInv, Apart, ReadBytes(Worker), UNCHANGED protVars
    PROVE  ProtInv'
<1>0. Worker \in Threads /\ Side(Worker) = "executor" /\ PipeTyped /\ JobTyped /\ Words /\ Passed
    BY TheWorker DEF ProtInv
<1>1. pc[Worker] = "enter" /\ op[Worker] = "read"
    BY DEF ReadBytes, Entered
<1>2. PICK h \in Installers :
        /\ h = holder /\ hjob[h] \in Fitting /\ JobOK(h) /\ WorkerOK(h) /\ slot = "owned"
        /\ wpos \in Nat \ {0} /\ ret[Worker] = "none" /\ "EXECUTERTERM" \notin flags
    BY <1>1, WorkerIn
<1> DEFINE j == hjob[h]
           a == Asks(j)
<1>3. a \in {1, 2} /\ WorkerLen(j) \in Nat /\ WorkerLen(j) > a + 1
    BY <1>2, Measures
<1>4. wpos <= a /\ count[Worker] = 1 /\ total[Worker] < 1 /\ total[Worker] \in Nat
      /\ verdict[h] = "none"
  <2>1. wpos <= a
      BY <1>1, <1>2 DEF WorkerOK
  <2> QED  BY <1>0, <1>1, <1>2, <1>3, <2>1 DEF WorkerOK, PipeTyped
<1>5. PICK k \in Nat :
        /\ 1 <= k /\ k <= count[Worker] - total[Worker] /\ Turned(Worker, k)
        /\ bytes'["installer"] = bytes["installer"] - k
        /\ bytes'["executor"] = bytes["executor"]
        /\ PipeTyped' /\ Words' /\ Passed'
  <2>1. Alone(Worker) /\ Talking
      BY <1>0, Waiting
  <2>2. total[Worker] < count[Worker]
      BY <1>4
  <2> QED  BY <1>0, <1>2, <2>1, <2>2, ReadTurn, SideFacts
<1>6. k = 1 /\ total[Worker] = 0 /\ pc'[Worker] = "idle" /\ total'[Worker] = 0 /\ ret'[Worker] = "OK"
      /\ flags' = flags
  <2>1. k = 1 /\ total[Worker] = 0
      BY <1>4, <1>5
  <2> QED  BY <1>4, <1>5, <2>1 DEF Turned
<1>7. \A u \in Threads \ {Worker} : Kept(u)
    BY <1>5 DEF Turned
<1>8. /\ UNCHANGED <<slotVars, handleVars, wpos, verdict, intruded>>
      /\ UNCHANGED <<slot, jobtype, holder, hjob>>
    BY DEF protVars, handleVars, slotVars
<1>9. /\ hpos[h] # 0 => HandleCallOK(h)'
      /\ Asked(h)' = Asked(h) /\ Awaited(h)' = Awaited(h)
  <2>1. Kept(h)
      BY <1>7, TheWorker
  <2> QED  BY <1>2, <1>6, <1>8, <2>1, HandleUnmoved
<1>10. WorkerOK(h)'
  <2>1. Asks(hjob'[h]) = a /\ WorkerLen(hjob'[h]) = WorkerLen(j)
      BY <1>8
  <2> QED  BY <1>2, <1>3, <1>4, <1>6, <1>8, <2>1 DEF WorkerOK
<1>11. Balanced(h)'
  <2>1. Heard(h) = wpos - 1 /\ Heard(h)' = wpos
      BY <1>2, <1>3, <1>4, <1>6, <1>8 DEF Heard, Done
  <2>2. Owed(h)' = Owed(h)
      BY <1>2, <1>4, <1>8 DEF Owed
  <2>3. Balanced(h)
      BY <1>2 DEF JobOK
  <2>4. bytes'["installer"] = Asked(h)' - Heard(h)'
    <3>1. Asked(h) \in Int
      <4>1. hpos[h] \in Nat /\ total[h] \in Nat
          BY <1>0, TheWorker DEF JobTyped, PipeTyped
      <4> QED  BY <1>3, <4>1 DEF Asked, Done
    <3> QED  BY <1>2, <1>5, <1>6, <1>9, <2>1, <2>3, <3>1 DEF Balanced
  <2> QED  BY <1>5, <1>9, <2>2, <2>3, <2>4 DEF Balanced
<1>12. ~Ended(h)'
    BY <1>3, <1>4, <1>8 DEF Ended
<1>13. verdict' \in [Installers -> Verdicts] /\ \A g \in Installers : verdict'[g] = verdict[g]
    BY <1>0, <1>8 DEF JobTyped
<1> QED
    BY <1>2, <1>5, <1>6, <1>7, <1>8, <1>9, <1>10, <1>11, <1>12, <1>13, WorkerSide

\* Bytes of the answer
LEMMA WorkerWrites ==
    ASSUME ProtInv, Apart, WriteBytes(Worker), UNCHANGED protVars
    PROVE  ProtInv'
<1>0. Worker \in Threads /\ Side(Worker) = "executor" /\ PipeTyped /\ JobTyped /\ Words /\ Passed
    BY TheWorker DEF ProtInv
<1>1. pc[Worker] = "enter" /\ op[Worker] = "write"
    BY DEF WriteBytes, Entered
<1>2. PICK h \in Installers :
        /\ h = holder /\ hjob[h] \in Fitting /\ JobOK(h) /\ WorkerOK(h) /\ slot = "owned"
        /\ wpos \in Nat \ {0} /\ ret[Worker] = "none" /\ "EXECUTERTERM" \notin flags
    BY <1>1, WorkerIn
<1> DEFINE j == hjob[h]
           a == Asks(j)
           l == WorkerLen(j)
           n == WriteSize(j, wpos)
<1>3. /\ a \in {1, 2} /\ l \in Nat /\ l > a + 1 /\ Second(j) \in Nat /\ Third(j) \in Nat
      /\ Answer(j) \in Nat
    BY <1>2, Measures
<1>4. /\ ~(wpos <= a) /\ wpos <= l /\ count[Worker] = n /\ total[Worker] < count[Worker]
      /\ count[Worker] \in Nat /\ total[Worker] \in Nat
      /\ verdict[h] = IF wpos = a + 1 THEN "EDIE" ELSE "OK"
  <2>1. ~(wpos <= a) /\ wpos <= l
      BY <1>1, <1>2 DEF WorkerOK
  <2>2. verdict[h] = IF wpos = a + 1 THEN "EDIE" ELSE "OK"
      BY <1>1, <1>2, <1>3, <2>1 DEF WorkerOK
  <2> QED  BY <1>0, <1>1, <1>2, <2>1, <2>2 DEF WorkerOK, PipeTyped
<1>5. PICK k \in Nat :
        /\ 1 <= k /\ k <= count[Worker] - total[Worker] /\ Turned(Worker, k)
        /\ bytes'["executor"] = bytes["executor"] + k
        /\ bytes'["installer"] = bytes["installer"]
        /\ PipeTyped' /\ Words' /\ Passed'
  <2>1. Alone(Worker) /\ Talking
      BY <1>0, Waiting
  <2> QED  BY <1>0, <1>2, <1>4, <2>1, WriteTurn, SideFacts
<1>6. \/ /\ pc'[Worker] = "wait" /\ total'[Worker] = total[Worker] + k /\ total'[Worker] < count[Worker]
         /\ op'[Worker] = op[Worker] /\ count'[Worker] = count[Worker] /\ ret'[Worker] = "none"
      \/ /\ pc'[Worker] = "idle" /\ total'[Worker] = 0 /\ total[Worker] + k = count[Worker]
         /\ ret'[Worker] = "OK"
    BY <1>5 DEF Turned
<1>7. flags' = flags /\ \A u \in Threads \ {Worker} : Kept(u)
    BY <1>5 DEF Turned
<1>8. /\ UNCHANGED <<slotVars, handleVars, wpos, verdict, intruded>>
      /\ UNCHANGED <<slot, jobtype, holder, hjob>>
    BY DEF protVars, handleVars, slotVars
<1>9. /\ hpos[h] # 0 => HandleCallOK(h)'
      /\ Asked(h)' = Asked(h) /\ Awaited(h)' = Awaited(h)
  <2>1. Kept(h)
      BY <1>7, TheWorker
  <2> QED  BY <1>2, <1>7, <1>8, <2>1, HandleUnmoved
<1>10. WorkerOK(h)'
  <2>1. Asks(hjob'[h]) = a /\ WorkerLen(hjob'[h]) = l /\ WriteSize(hjob'[h], wpos') = n
        /\ wpos' = wpos /\ verdict'[h] = verdict[h] /\ jobtype' = hjob'[h]
      BY <1>2, <1>8 DEF WorkerOK
  <2>2. /\ wpos > a + 1 => verdict[h] = "OK"
        /\ wpos <= l + 1
      BY <1>2, <1>3, <1>4
  <2> QED  BY <1>1, <1>2, <1>3, <1>4, <1>6, <1>8, <2>1, <2>2 DEF WorkerOK
<1>11. Done(Worker, n)' = Done(Worker, n) + k /\ Done(Worker, n) \in Nat
    BY <1>2, <1>4, <1>5, <1>6, <1>8 DEF Done
<1>12. Balanced(h)'
  <2>1. Heard(h)' = Heard(h)
      BY <1>2, <1>4, <1>8 DEF Heard
  <2>2. Owed(h)' = Owed(h) - k /\ Owed(h) \in Int
    <3>1. CASE wpos = a + 1
      <4>1. n = 1
          BY <1>3, <3>1 DEF WriteSize
      <4>2. Done(Worker, 1)' = Done(Worker, 1) + k /\ Done(Worker, 1) \in Nat
          BY <1>2, <1>4, <1>5, <1>6, <4>1 DEF Done
      <4>3. Owed(h) = 1 - Done(Worker, 1) /\ Owed(h)' = 1 - Done(Worker, 1)'
          BY <1>2, <1>4, <1>8, <3>1 DEF Owed
      <4> QED  BY <4>2, <4>3
    <3>2. CASE wpos # a + 1
      <4>1. WriteBefore(j, wpos) \in Int /\ ~(wpos > l)
          BY <1>2, <1>3, <1>4 DEF WriteBefore
      <4>2. Owed(h) = Answer(j) - WriteBefore(j, wpos) - Done(Worker, n)
            /\ Owed(h)' = Answer(j) - WriteBefore(j, wpos) - Done(Worker, n)'
          BY <1>2, <1>4, <1>8, <3>2, <4>1 DEF Owed
      <4> HIDE DEF n
      <4> QED  BY <1>3, <1>11, <4>1, <4>2
    <3> QED  BY <3>1, <3>2
  <2>3. Balanced(h) /\ bytes["executor"] \in Nat
      BY <1>0, <1>2, SideFacts DEF JobOK, PipeTyped
  <2> QED  BY <1>5, <1>9, <2>1, <2>2, <2>3 DEF Balanced
<1>13. ~Ended(h)'
    BY <1>3, <1>4, <1>8 DEF Ended
<1>14. verdict' \in [Installers -> Verdicts] /\ \A g \in Installers : verdict'[g] = verdict[g]
    BY <1>0, <1>8 DEF JobTyped
<1> QED
    BY <1>2, <1>5, <1>7, <1>8, <1>9, <1>10, <1>12, <1>13, <1>14, WorkerSide

\* No write of an answer fails: the whole request has been read.
LEMMA WorkerWriteHolds ==
    ASSUME ProtInv, Apart
    PROVE  ~WriteError(Worker)
<1> SUFFICES ASSUME WriteError(Worker) PROVE FALSE
    OBVIOUS
<1>1. pc[Worker] = "enter" /\ op[Worker] = "write"
    BY DEF WriteError, Entered
<1>2. PICK h \in Installers :
        /\ h = holder /\ hjob[h] \in Fitting /\ JobOK(h) /\ WorkerOK(h) /\ slot = "owned"
        /\ wpos \in Nat \ {0} /\ ret[Worker] = "none" /\ "EXECUTERTERM" \notin flags
    BY <1>1, WorkerIn
<1> DEFINE a == Asks(hjob[h])
<1>3. a \in {1, 2} /\ ~(wpos <= a)
    BY <1>1, <1>2, Measures DEF WorkerOK
<1>4. Heard(h) = a
    BY <1>2, <1>3 DEF Heard
<1>5. Asked(h) \in Int /\ Asked(h) <= a
  <2>1. hpos[h] \in Nat /\ (hpos[h] \in 1 .. a => total[h] = 0)
      BY <1>2 DEF ProtInv, JobTyped, JobOK, HandleCallOK
  <2> QED  BY <1>3, <2>1 DEF Asked, Done
<1>6. bytes["installer"] = 0
  <2>1. bytes["installer"] \in Nat /\ bytes["installer"] = Asked(h) - Heard(h)
      BY <1>2, SideFacts DEF ProtInv, PipeTyped, JobOK, Balanced
  <2> QED  BY <1>3, <1>4, <1>5, <2>1
<1> QED
    BY <1>2, <1>6, TheWorker, SideFacts DEF WriteError, NothingInFront

\* edbs_jobterm: the mutex is taken and the flags are loaded.
LEMMA WorkerLoads ==
    ASSUME ProtInv, Apart, ExecutorTermLoad(Worker), UNCHANGED protVars
    PROVE  ProtInv'
<1>0. Worker \in Threads /\ PipeTyped /\ JobTyped
    BY TheWorker DEF ProtInv
<1>1. /\ pc[Worker] = "enter" /\ op[Worker] = "term" /\ pc' = [pc EXCEPT ![Worker] = "store"]
      /\ loaded' = [loaded EXCEPT ![Worker] = flags]
      /\ UNCHANGED <<flags, pipeVars, op, count, total, ret>>
    BY DEF ExecutorTermLoad, Entered, Goto
<1>2. PICK h \in Installers :
        /\ h = holder /\ hjob[h] \in Fitting /\ JobOK(h) /\ WorkerOK(h) /\ slot = "owned"
        /\ wpos \in Nat \ {0} /\ ret[Worker] = "none" /\ "EXECUTERTERM" \notin flags
    BY <1>1, WorkerIn
<1>3. /\ UNCHANGED <<slotVars, handleVars, wpos, verdict, intruded>>
      /\ UNCHANGED <<slot, jobtype, holder, hjob>>
    BY DEF protVars, handleVars, slotVars
<1>4. UNCHANGED <<flags, bytes, readhold, writehold, exetermhold, op, count, total, ret>>
    BY <1>1 DEF pipeVars
<1>5. /\ pc \in [Threads -> Stations] /\ loaded \in [Threads -> SUBSET JobFlags]
      /\ flags \in SUBSET JobFlags
    BY <1>0 DEF PipeTyped
<1>6. pc'[Worker] = "store" /\ loaded'[Worker] = flags'
    BY <1>0, <1>1, <1>5
<1>7. PipeTyped'
  <2>1. "store" \in Stations
      BY DEF Stations
  <2>2. pc' \in [Threads -> Stations] /\ loaded' \in [Threads -> SUBSET JobFlags]
      BY <1>1, <1>5, <2>1
  <2> QED  BY <1>0, <1>4, <2>2 DEF PipeTyped
<1>8. \A u \in Threads \ {Worker} : Kept(u) /\ pc'[u] = pc[u]
    BY <1>1, <1>4, <1>5 DEF Kept
<1>9. /\ hpos[h] # 0 => HandleCallOK(h)'
      /\ Asked(h)' = Asked(h) /\ Awaited(h)' = Awaited(h)
  <2>1. Kept(h)
      BY <1>8, TheWorker
  <2> QED  BY <1>2, <1>3, <1>4, <2>1, HandleUnmoved
<1>10. WorkerOK(h)'
  <2>1. wpos = WorkerLen(hjob[h]) + 1
    <3>1. WorkerLen(hjob[h]) \in Nat /\ Asks(hjob[h]) \in {1, 2}
        BY <1>2, Measures
    <3>2. ~(wpos <= WorkerLen(hjob[h])) /\ wpos <= WorkerLen(hjob[h]) + 1
        BY <1>1, <1>2 DEF WorkerOK
    <3> QED  BY <1>2, <3>1, <3>2
  <2> QED  BY <1>1, <1>2, <1>3, <1>4, <1>6, <2>1 DEF WorkerOK
<1>11. Balanced(h)'
  <2>1. Heard(h)' = Heard(h) /\ Owed(h)' = Owed(h)
      BY <1>3, <1>4 DEF Heard, Owed, Done
  <2> QED  BY <1>2, <1>4, <1>9, <2>1 DEF JobOK, Balanced
<1>12. ~Ended(h)'
    BY <1>2, <1>4 DEF Ended
<1>13. Words'
    BY <1>4 DEF ProtInv, Words
<1>14. Passed'
  <2> SUFFICES ASSUME NEW u \in Threads, pc'[u] \in {"enter", "store"} PROVE ~Hold(u)'
      BY DEF Passed
  <2>1. pc[u] \in {"enter", "store"}
      BY <1>1, <1>8
  <2>2. ~Hold(u)
      BY <2>1 DEF ProtInv, Passed
  <2> QED  BY <1>4, <2>2 DEF Hold
<1>15. verdict' \in [Installers -> Verdicts] /\ \A g \in Installers : verdict'[g] = verdict[g]
    BY <1>0, <1>3 DEF JobTyped
<1>16. \A u \in Threads \ {Worker} : Kept(u)
    BY <1>8
<1> QED
    BY <1>2, <1>3, <1>4, <1>7, <1>9, <1>10, <1>11, <1>12, <1>13, <1>14, <1>15, <1>16, WorkerSide

\* transferbuff_FLAGS |= EDBS_JEXECUTERTERM: no handle is inside its own |= then.
LEMMA WorkerStores ==
    ASSUME ProtInv, Apart, ExecutorTermStore(Worker), UNCHANGED protVars
    PROVE  ProtInv'
<1>0. Worker \in Threads /\ PipeTyped /\ JobTyped /\ SlotOK
    BY TheWorker DEF ProtInv
<1>1. /\ pc[Worker] = "store" /\ flags' = Ored(loaded[Worker], "EXECUTERTERM")
      /\ readhold' = [readhold EXCEPT !["installer"] = FALSE]
      /\ WakeGoto(Worker, "idle", "installer", {"read"}) /\ Over(Worker, "OK")
      /\ UNCHANGED <<bytes, writehold, exetermhold>>
    BY DEF ExecutorTermStore
<1>2. PICK h \in Installers :
        /\ h = holder /\ hjob[h] \in Fitting /\ JobOK(h) /\ WorkerOK(h) /\ slot = "owned"
        /\ wpos \in Nat \ {0} /\ ret[Worker] = "none" /\ "EXECUTERTERM" \notin flags
    BY <1>1, WorkerIn
<1> DEFINE j == hjob[h]
           a == Asks(j)
           l == WorkerLen(j)
<1>3. a \in {1, 2} /\ l \in Nat /\ l > a + 1
    BY <1>2, Measures
<1>4. wpos = l + 1 /\ loaded[Worker] = flags /\ op[Worker] = "term" /\ total[Worker] = 0
    BY <1>1, <1>2, <1>3 DEF WorkerOK
<1>5. flags' = flags \cup {"EXECUTERTERM"}
    BY <1>1, <1>4 DEF Ored
<1>6. /\ pc \in [Threads -> Stations] /\ op \in [Threads -> {"none", "read", "write", "term"}]
      /\ count \in [Threads -> Nat] /\ total \in [Threads -> Nat]
      /\ loaded \in [Threads -> SUBSET JobFlags] /\ ret \in [Threads -> Results]
      /\ flags \in SUBSET JobFlags /\ readhold \in [Sides -> BOOLEAN]
    BY <1>0 DEF PipeTyped
<1>7. /\ pc' \in [Threads -> Stations] /\ pc'[Worker] = "idle"
      /\ \A u \in Threads \ {Worker} :
           \/ pc'[u] = pc[u]
           \/ pc[u] = "asleep" /\ pc'[u] = "enter" /\ Side(u) = "installer" /\ op[u] \in {"read"}
  <2>1. pc[Worker] # "asleep" /\ "idle" \in Stations
      BY <1>1 DEF Stations
  <2> QED  BY <1>0, <1>1, <1>6, <2>1, WakeKeeps
<1>8. /\ op' = [op EXCEPT ![Worker] = "none"] /\ count' = [count EXCEPT ![Worker] = 0]
      /\ total' = [total EXCEPT ![Worker] = 0] /\ loaded' = [loaded EXCEPT ![Worker] = {}]
      /\ ret' = [ret EXCEPT ![Worker] = "OK"]
    BY <1>1 DEF Over
<1>9. total'[Worker] = 0 /\ ret'[Worker] = "OK"
    BY <1>0, <1>6, <1>8
<1>10. /\ \A u \in Threads \ {Worker} : op'[u] = op[u]
       /\ \A u \in Threads \ {Worker} : Kept(u)
  <2>1. \A u \in Threads \ {Worker} :
          /\ op'[u] = op[u] /\ count'[u] = count[u] /\ total'[u] = total[u]
          /\ loaded'[u] = loaded[u] /\ ret'[u] = ret[u]
      BY <1>6, <1>8
  <2> QED  BY <1>7, <2>1 DEF Kept
<1>11. readhold' \in [Sides -> BOOLEAN] /\ readhold'["installer"] = FALSE
       /\ readhold'["executor"] = readhold["executor"]
    BY <1>1, <1>6, SideFacts
<1>12. PipeTyped'
  <2>1. "OK" \in Results /\ {} \in SUBSET JobFlags /\ flags' \in SUBSET JobFlags
      BY <1>5, <1>6 DEF Results, JobFlags
  <2>2. /\ op' \in [Threads -> {"none", "read", "write", "term"}]
        /\ count' \in [Threads -> Nat] /\ total' \in [Threads -> Nat]
        /\ loaded' \in [Threads -> SUBSET JobFlags] /\ ret' \in [Threads -> Results]
      BY <1>6, <1>8, <2>1
  <2> QED  BY <1>0, <1>1, <1>7, <1>11, <2>1, <2>2 DEF PipeTyped
<1>13. /\ UNCHANGED <<slotVars, handleVars, wpos, verdict, intruded>>
       /\ UNCHANGED <<slot, jobtype, holder, hjob>>
    BY DEF protVars, handleVars, slotVars
<1>14. /\ hpos[h] # 0 => HandleCallOK(h)'
       /\ Asked(h)' = Asked(h) /\ Awaited(h)' = Awaited(h)
  <2>1. Kept(h)
      BY <1>10, TheWorker
  <2>2. pc[h] # "or"
    <3> SUFFICES ASSUME pc[h] = "or" PROVE FALSE
        OBVIOUS
    <3>1. pc[h] \in Calling
        BY DEF Calling
    <3>2. hpos[h] # 0 /\ HandleCallOK(h)
        BY <3>1, Caller
    <3>3. hpos[h] <= a /\ ret[h] = "none"
        BY <3>1, <3>2 DEF HandleCallOK
    <3> QED  BY <1>0, <1>1, <1>2, <3>2, <3>3, Asking
  <2> QED  BY <1>2, <1>5, <1>13, <2>1, <2>2, HandleUnmoved
<1>15. WorkerOK(h)'
  <2>1. Asks(hjob'[h]) = a /\ WorkerLen(hjob'[h]) = l /\ jobtype' = hjob'[h] /\ wpos' = wpos
        /\ verdict'[h] = verdict[h] /\ verdict[h] # "none"
      BY <1>2, <1>3, <1>4, <1>13 DEF WorkerOK
  <2> QED  BY <1>2, <1>3, <1>4, <1>7, <1>9, <1>13, <2>1 DEF WorkerOK
<1>16. Balanced(h)'
  <2>1. Heard(h)' = a /\ Heard(h) = a
      BY <1>2, <1>3, <1>4, <1>13 DEF Heard
  <2>2. Owed(h)' = Owed(h)
    <3>1. wpos > l /\ wpos # a + 1
        BY <1>3, <1>4
    <3> QED  BY <1>13, <3>1 DEF Owed
  <2> QED  BY <1>1, <1>2, <1>14, <2>1, <2>2 DEF JobOK, Balanced
<1>17. Ended(h)'
    BY <1>2, <1>4, <1>9, <1>13 DEF Ended
<1>18. exetermhold = FALSE /\ bytes'["executor"] = 0
  <2>1. ~Hold(Worker)
      BY <1>0, <1>1 DEF ProtInv, Passed
  <2>2. ~exetermhold
      BY <1>4, <2>1 DEF Hold
  <2>3. exetermhold = (bytes["executor"] # 0)
      BY DEF ProtInv, Words
  <2>4. bytes["executor"] = 0
      BY <2>2, <2>3
  <2>5. exetermhold = FALSE
      BY <2>2, <2>3
  <2> QED  BY <1>1, <2>4, <2>5
<1>19. Words'
    BY <1>1, <1>5 DEF ProtInv, Words
<1>20. Passed'
  <2> SUFFICES ASSUME NEW u \in Threads, pc'[u] \in {"enter", "store"} PROVE ~Hold(u)'
      BY DEF Passed
  <2>1. u # Worker
      BY <1>7
  <2>2. Side(u) = "installer" /\ op'[u] = op[u]
      BY <1>10, <2>1, TheWorker
  <2>3. CASE op[u] = "read"
      BY <1>11, <2>2, <2>3 DEF Hold
  <2>4. CASE op[u] # "read"
    <3>1. pc[u] = pc'[u]
        BY <1>7, <2>1, <2>4
    <3>2. ~Hold(u)
        BY <3>1 DEF ProtInv, Passed
    <3>3. Hold(u)' <=> Hold(u)
        BY <1>1, <2>2, <2>4 DEF Hold
    <3> QED  BY <3>2, <3>3
  <2> QED  BY <2>3, <2>4
<1>21. verdict' \in [Installers -> Verdicts] /\ \A g \in Installers : verdict'[g] = verdict[g]
    BY <1>0, <1>13 DEF JobTyped
<1> QED
    BY <1>2, <1>10, <1>12, <1>13, <1>14, <1>15, <1>16, <1>17, <1>18, <1>19, <1>20, <1>21, WorkerSide

LEMMA WorkerStepKeeps ==
    ASSUME ProtInv, Apart, NEW w \in Executors, WorkerStep(w)
    PROVE  ProtInv'
<1>0. w = Worker /\ CallStep(Worker) /\ UNCHANGED protVars
    BY TheWorker DEF WorkerStep
<1>1. pc[Worker] # "idle"
    BY <1>0 DEF CallStep, Wait, InstallerWriteStore, WriteError, WriteBytes, ReadEof,
                ReadBytes, InstallerTermStore, ExecutorTermLoad, ExecutorTermStore, Entered
<1>2. PICK h \in Installers :
        /\ h = holder /\ hjob[h] \in Fitting /\ JobOK(h) /\ WorkerOK(h) /\ slot = "owned"
        /\ wpos \in Nat \ {0} /\ ret[Worker] = "none" /\ "EXECUTERTERM" \notin flags
    BY <1>1, WorkerIn
<1>3. pc[Worker] # "or"
    BY <1>2 DEF WorkerOK
<1>4. \/ Wait(Worker) \/ WriteBytes(Worker) \/ ReadBytes(Worker)
      \/ ExecutorTermLoad(Worker) \/ ExecutorTermStore(Worker)
    BY <1>0, <1>2, <1>3, WorkerWriteHolds
    DEF CallStep, InstallerWriteStore, ReadEof, AtEof, InstallerTermStore
<1> QED
    BY <1>0, <1>4, WorkerWaits, WorkerWrites, WorkerReads, WorkerLoads, WorkerStores
-----------------------------------------------------------------------------
(* The protocol keeps its invariant *)

LEMMA InitProt ==
    ASSUME Apart, Init
    PROVE  ProtInv
<1>0. Worker \in Threads /\ \A h \in Installers : h \in Threads
    BY TheWorker
<1>1. PipeTyped
  <2>1. 0 \in 0 .. Capacity
      OBVIOUS
  <2>2. /\ bytes \in [Sides -> 0 .. Capacity] /\ readhold \in [Sides -> BOOLEAN]
        /\ writehold \in [Sides -> BOOLEAN] /\ exetermhold \in BOOLEAN /\ flags \in SUBSET JobFlags
      BY <2>1 DEF Init, PipeInit
  <2>3. pc \in [Threads -> Stations] /\ ret \in [Threads -> Results]
      BY DEF Init, PipeInit, Stations, Results
  <2>4. /\ op \in [Threads -> {"none", "read", "write", "term"}]
        /\ count \in [Threads -> Nat] /\ total \in [Threads -> Nat]
        /\ loaded \in [Threads -> SUBSET JobFlags]
      BY DEF Init, PipeInit
  <2> QED  BY <2>2, <2>3, <2>4 DEF PipeTyped
<1>2. JobTyped
    BY DEF Init, JobTyped, Verdicts
<1>3. SlotOK
    BY <1>0, SideFacts DEF Init, PipeInit, SlotOK
<1>4. \A h \in Installers : HandleOK(h)
    BY <1>0 DEF Init, PipeInit, HandleOK
<1>5. \A h \in Installers : hjob[h] = "none"
    BY DEF Init
<1>6. Words
  <2>1. bytes["executor"] = 0 /\ exetermhold = FALSE
      BY SideFacts DEF Init, PipeInit
  <2>2. ASSUME NEW s \in Sides
        PROVE  readhold[s] = (bytes[Other(s)] = 0) /\ writehold[s] = (bytes[s] = Capacity)
    <3>1. bytes[s] = 0 /\ bytes[Other(s)] = 0 /\ readhold[s] = TRUE /\ writehold[s] = FALSE
        BY SideFacts DEF Init, PipeInit
    <3>2. Capacity # 0
        OBVIOUS
    <3> QED  BY <3>1, <3>2
  <2>3. exetermhold = (bytes["executor"] # 0)
      BY <2>1
  <2> QED  BY <2>2, <2>3 DEF Words
<1>7. Passed
    BY DEF Init, PipeInit, Passed
<1>8. intruded = {}
    BY DEF Init
<1> QED
    BY <1>1, <1>2, <1>3, <1>4, <1>5, <1>6, <1>7, <1>8 DEF ProtInv

LEMMA NextProt ==
    ASSUME Apart, ProtInv, [Next]_allVars
    PROVE  ProtInv'
<1>1. CASE UNCHANGED allVars
  <2>1. UNCHANGED <<vars, protVars>>
      BY <1>1 DEF allVars
  <2>2. UNCHANGED <<flags, bytes, readhold, writehold, exetermhold, pc, op, count, total, loaded, ret>>
      BY <2>1 DEF vars, pipeVars, callVars
  <2>3. UNCHANGED <<slot, jobtype, holder, hjob, hpos, dieerr, result, wpos, verdict, intruded>>
      BY <2>1 DEF protVars, slotVars, handleVars
  <2>4. PipeTyped' /\ JobTyped' /\ SlotOK' /\ Words' /\ Passed' /\ intruded' = {}
      BY <2>2, <2>3 DEF ProtInv, PipeTyped, JobTyped, SlotOK, Words, Passed, Hold
  <2>5. \A h \in Installers : HandleOK(h)'
      BY <2>2, <2>3 DEF ProtInv, HandleOK, Finished
  <2>6. ASSUME NEW h \in Installers, h = holder', hjob'[h] # "none" PROVE JobOK(h)'
    <3>1. JobOK(h)
        BY <2>3, <2>6 DEF ProtInv
    <3>2. Balanced(h)'
        BY <2>2, <2>3, <3>1 DEF JobOK, Balanced, Asked, Heard, Awaited, Owed, Done
    <3>3. (hpos[h] # 0 => HandleCallOK(h)') /\ (slot # "empty" => WorkerOK(h)')
        BY <2>2, <2>3, <3>1 DEF JobOK, HandleCallOK, WorkerOK
    <3> QED  BY <2>2, <2>3, <3>1, <3>2, <3>3 DEF JobOK, Ended
  <2> QED  BY <2>4, <2>5, <2>6 DEF ProtInv
<1>2. ASSUME NEW h \in Installers, NEW j \in Jobs, Install(h, j) PROVE ProtInv'
    BY <1>2, InstallKeeps
<1>3. ASSUME NEW h \in Installers, HandleRuns(h) PROVE ProtInv'
    BY <1>3, HandleCallKeeps, HandleStepKeeps, HandleGoesOnKeeps DEF HandleRuns
<1>4. ASSUME NEW h \in Installers, HandleClose(h) PROVE ProtInv'
    BY <1>4, HandleLeaves DEF HandleClose
<1>5. ASSUME NEW h \in Installers, HandleDies(h) PROVE ProtInv'
    BY <1>5, HandleLeaves DEF HandleDies
<1>6. ASSUME NEW w \in Executors, WorkerRuns(w) PROVE ProtInv'
    BY <1>6, SelectKeeps, WorkerCallKeeps, WorkerSucceedsKeeps, WorkerStepKeeps,
       WorkerGoesOnKeeps, CloseKeeps
    DEF WorkerRuns
<1> QED
    BY <1>1, <1>2, <1>3, <1>4, <1>5, <1>6 DEF Next

LEMMA ProtHolds ==
    ASSUME Apart
    PROVE  Spec => []ProtInv
<1>1. Init => ProtInv
    BY InitProt
<1>2. ProtInv /\ [Next]_allVars => ProtInv'
    BY NextProt
<1> QED
    BY <1>1, <1>2, PTL DEF Spec

\* odbh_jobj_*, odbh_jstk_* and odbh_jent_* return what the worker has decided, and never a
\* broken or misread stream: for every capacity of the transfer buffer, size of an object and
\* number of records, whichever handles are killed at whichever step, and with
\* transferbuff_FLAGS updated by a load and a store that others can come between.
THEOREM AnswersAreTold ==
    ASSUME Apart
    PROVE  Spec => []ResultTold
<1>1. ProtInv => ResultTold
    BY DEF ProtInv, HandleOK, ResultTold
<1> QED
    BY <1>1, ProtHolds, PTL

\* A handle moves only the bytes of its own job: edbs_jobclose frees the slot no earlier than
\* the handle of the last job has read all of its answer.
THEOREM HandlesKeepApart ==
    ASSUME Apart
    PROVE  Spec => []OwnJobOnly
<1>1. ProtInv => OwnJobOnly
    BY DEF ProtInv, OwnJobOnly
<1> QED
    BY <1>1, ProtHolds, PTL
=============================================================================
