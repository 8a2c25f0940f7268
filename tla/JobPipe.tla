------------------------------ MODULE JobPipe ------------------------------
(***************************************************************************)
(* The transfer buffer of a job slot (edbs_jobread, edbs_jobwrite,         *)
(* edbs_jobterm of liboidadb-alpha/edbs-jobs.c): one ring of bytes that    *)
(* the installer of the job and its executor use in turn, in either        *)
(* direction, to talk to each other.                                       *)
(*                                                                         *)
(* What a call does under pipemutex is one step; futex_wait, which tests   *)
(* its word before the mutex is taken, is another.  The flags are changed  *)
(* by a load and a store that the mutex does not always cover.             *)
(***************************************************************************)
EXTENDS Naturals, FiniteSets

CONSTANTS
    Installers,   \* threads that use the slot as its installer
    Executors,    \* threads that use it as its executor
    Capacity,     \* transferbuffcapacity
    UIntMod,      \* the byte counts are uint32_t: 2^32 in the code
    SeqMod,       \* bound: bytes are told apart by their number modulo SeqMod
    Races         \* FALSE: as if the flags were updated atomically

ASSUME JobPipeAssumption ==
    /\ Installers \cap Executors = {}
    /\ Capacity \in Nat \ {0}
    /\ UIntMod \in Nat /\ Capacity < UIntMod
    /\ SeqMod \in Nat /\ Capacity < SeqMod
    /\ Races \in BOOLEAN

Sides   == {"installer", "executor"}
Threads == Installers \cup Executors
Side(t) == IF t \in Executors THEN "executor" ELSE "installer"   \* descriptortype
Other(s) == IF s = "executor" THEN "installer" ELSE "executor"

VARIABLES
    \* edbs_shmjob_t
    flags,      \* transferbuff_FLAGS
    bytes,      \* installerbytes, executorbytes: written and not yet read
    head,       \* installerhead, executorhead
    readhold,   \* futex_installerreadhold, futex_executorreadhold
    writehold,  \* futex_installerwritehold, futex_executorwritehold
    exetermhold,\* futex_exetermhold
    pipemutex,  \* held across steps (only edbs_jobterm does)
    jbuf,       \* the bytes of the ring: <<side that wrote it, its number>>
    \* the calls
    pc, op, count,
    total,      \* totalbytes
    loaded,     \* the value of the flags a |= has loaded
    ret,        \* what the last call returned
    \* history
    sent,       \* bytes each side has written, modulo SeqMod
    got         \* bytes each side has read, modulo SeqMod

pipeVars == <<bytes, head, readhold, writehold, exetermhold, jbuf, sent, got>>
callVars == <<pc, op, count, total, loaded, ret>>
vars == <<flags, pipeVars, pipemutex, callVars>>
-----------------------------------------------------------------------------
LeastOf(a, b) == IF a < b THEN a ELSE b

Goto(t, l) == pc' = [pc EXCEPT ![t] = l]

\* The locals of the call are gone when it returns.
Over(t, err) ==
    /\ ret' = [ret EXCEPT ![t] = err]
    /\ op' = [op EXCEPT ![t] = "none"]
    /\ count' = [count EXCEPT ![t] = 0]
    /\ total' = [total EXCEPT ![t] = 0]
    /\ loaded' = [loaded EXCEPT ![t] = {}]

Return(t, err) == Goto(t, "idle") /\ Over(t, err)

Begin(t, o, n, l) ==
    /\ Goto(t, l)
    /\ op' = [op EXCEPT ![t] = o]
    /\ count' = [count EXCEPT ![t] = n]
    /\ total' = [total EXCEPT ![t] = 0]
    /\ ret' = [ret EXCEPT ![t] = "none"]

\* No other thread is between the load and the store of a |=.
FlagsFree == Races \/ \A t \in Threads : pc[t] \notin {"or", "store"}

\* Mutant: = for |=.
Assigned(old, flag) == {flag}
Ored(old, flag) == old \cup {flag}

\* Mutant: edbs_jobterm does not wait.
HoldNoTerm(t) == CASE op[t] = "read"  -> readhold[Side(t)]
                   [] op[t] = "write" -> writehold[Side(t)]
                   [] OTHER           -> FALSE

\* The word the call of t waits on.
Hold(t) == CASE op[t] = "read"  -> readhold[Side(t)]
             [] op[t] = "write" -> writehold[Side(t)]
             [] OTHER           -> exetermhold

Wait(t) ==
    /\ pc[t] = "wait"
    /\ Goto(t, IF Hold(t) THEN "asleep" ELSE "enter")
    /\ UNCHANGED <<flags, pipeVars, pipemutex, op, count, total, loaded, ret>>

\* Mutant: nobody is woken.
GotoOnly(t, l, s, ops) == Goto(t, l)

\* t goes on at l; futex_wake(word, 1) for the words that ops of side s wait on.
WakeGoto(t, l, s, ops) ==
    LET sleeping == { u \in Threads : pc[u] = "asleep" /\ Side(u) = s /\ op[u] \in ops }
    IN  \/ /\ sleeping = {}
           /\ Goto(t, l)
        \/ \E u \in sleeping : pc' = [pc EXCEPT ![t] = l, ![u] = "enter"]

\* The end of a turn in which the call of t has moved k bytes.
Moved(t, k, ops) ==
    /\ UNCHANGED <<flags, pipemutex>>
    /\ \/ /\ total[t] + k # count[t]
          /\ total' = [total EXCEPT ![t] = @ + k]
          /\ WakeGoto(t, "wait", Other(Side(t)), ops)
          /\ UNCHANGED <<op, count, loaded, ret>>
       \/ /\ total[t] + k = count[t]
          /\ WakeGoto(t, "idle", Other(Side(t)), ops)
          /\ Over(t, "OK")
-----------------------------------------------------------------------------
(* edbs_jobwrite *)

\* ODB_EBADE, and the executor's writes to a one-way stream
WriteRefused(t) ==
    /\ pc[t] = "idle" /\ t \in Executors
    /\ \/ /\ "INSTALLWRITE" \notin flags
          /\ ret' = [ret EXCEPT ![t] = "EBADE"]
       \/ /\ {"INSTALLWRITE", "INSTALLERTERM"} \subseteq flags
          /\ ret' = [ret EXCEPT ![t] = "OK"]
    /\ UNCHANGED <<flags, pipeVars, pipemutex, pc, op, count, total, loaded>>

ExecutorWrite(t, n) ==
    /\ pc[t] = "idle" /\ t \in Executors
    /\ "INSTALLWRITE" \in flags /\ "INSTALLERTERM" \notin flags
    /\ Begin(t, "write", n, "wait")
    /\ UNCHANGED <<flags, pipeVars, pipemutex, loaded>>

\* transferbuff_FLAGS |= EDBS_JFINSTALLWRITE, or |= EDBS_JINSTALLERTERM: the load
InstallerWrite(t, n) ==
    /\ pc[t] = "idle" /\ t \in Installers
    /\ FlagsFree
    /\ Begin(t, "write", n, "or")
    /\ loaded' = [loaded EXCEPT ![t] = flags]
    /\ UNCHANGED <<flags, pipeVars, pipemutex>>

InstallerWriteStore(t) ==
    /\ pc[t] = "or" /\ op[t] = "write"
    /\ flags' = Ored(loaded[t], "INSTALLWRITE")
    /\ loaded' = [loaded EXCEPT ![t] = {}]
    /\ Goto(t, "wait")
    /\ UNCHANGED <<pipeVars, pipemutex, op, count, total, ret>>

Entered(t, o) == pc[t] = "enter" /\ op[t] = o /\ pipemutex = "free"

NothingInFront(s) == bytes[Other(s)] = 0

WriteError(t) ==
    /\ Entered(t, "write")
    /\ \/ /\ "EXECUTERTERM" \in flags
          /\ Return(t, "EPIPE")
       \/ /\ "EXECUTERTERM" \notin flags
          /\ ~NothingInFront(Side(t))
          /\ Return(t, "EPROTO")
    /\ UNCHANGED <<flags, pipeVars, pipemutex>>

\* Mutant: the hold is set one byte late.
FullLate(n) == n > Capacity
Full(n) == n = Capacity

\* Mutant: the reader's hold is not cleared.
ReadHoldKept(s) == readhold
ReadHoldCleared(s) == [readhold EXCEPT ![s] = FALSE]

\* Writes up to the end of the message or until the buffer is full.
WriteBytes(t) ==
    /\ Entered(t, "write")
    /\ "EXECUTERTERM" \notin flags /\ NothingInFront(Side(t))
    /\ LET s == Side(t)
           left == count[t] - total[t]
           k == IF bytes[s] < Capacity THEN LeastOf(left, Capacity - bytes[s]) ELSE left
       IN  /\ jbuf' = [i \in 0 .. Capacity - 1 |->
                         LET j == (i + Capacity - head[s]) % Capacity
                         IN  IF j < k THEN <<s, (sent[s] + j) % SeqMod>> ELSE jbuf[i]]
           /\ bytes' = [bytes EXCEPT ![s] = (@ + k) % UIntMod]
           /\ head' = [head EXCEPT ![s] = (@ + k) % Capacity]
           /\ sent' = [sent EXCEPT ![s] = (@ + k) % SeqMod]
           /\ writehold' = [writehold EXCEPT ![s] = @ \/ Full(bytes[s] + k)]
           /\ readhold' = ReadHoldCleared(Other(s))
           /\ exetermhold' = (s = "executor" \/ exetermhold)
           /\ Moved(t, k, IF readhold[Other(s)] THEN {"read"} ELSE {})
           /\ UNCHANGED got
-----------------------------------------------------------------------------
(* edbs_jobread *)

\* ODB_EBADE and ODB_ECLOSED
ReadRefused(t) ==
    /\ pc[t] = "idle"
    /\ \/ /\ t \in Executors /\ "EXECUTERTERM" \in flags
          /\ ret' = [ret EXCEPT ![t] = "ECLOSED"]
       \/ /\ t \in Installers /\ "INSTALLWRITE" \notin flags
          /\ ret' = [ret EXCEPT ![t] = "EBADE"]
       \/ /\ t \in Installers /\ {"INSTALLWRITE", "INSTALLERTERM"} \subseteq flags
          /\ ret' = [ret EXCEPT ![t] = "ECLOSED"]
    /\ UNCHANGED <<flags, pipeVars, pipemutex, pc, op, count, total, loaded>>

Read(t, n) ==
    /\ pc[t] = "idle"
    /\ \/ t \in Executors /\ "EXECUTERTERM" \notin flags
       \/ t \in Installers /\ "INSTALLWRITE" \in flags /\ "INSTALLERTERM" \notin flags
    /\ Begin(t, "read", n, "wait")
    /\ UNCHANGED <<flags, pipeVars, pipemutex, loaded>>

JobRead(t, n) == Read(t, n) \/ ReadRefused(t)

AtEof(t) == /\ "EXECUTERTERM" \in flags
            /\ bytes[Other(Side(t))] = 0 \/ count[t] # bytes[Other(Side(t))]

ReadEof(t) ==
    /\ Entered(t, "read") /\ AtEof(t)
    /\ Return(t, "EEOF")
    /\ UNCHANGED <<flags, pipeVars, pipemutex>>

AllRead(n) == n = 0

WriteHoldCleared(s) == [writehold EXCEPT ![s] = FALSE]

\* Reads up to count bytes or until the buffer is empty.
ReadBytes(t) ==
    /\ Entered(t, "read") /\ ~AtEof(t)
    /\ LET s == Side(t)
           o == Other(s)
           left == count[t] - total[t]
           k == IF bytes[o] > 0 THEN LeastOf(left, bytes[o]) ELSE left
           unread == (bytes[o] + UIntMod - k) % UIntMod
       IN  /\ bytes' = [bytes EXCEPT ![o] = unread]
           /\ head' = [head EXCEPT ![s] = (@ + k) % Capacity]
           /\ got' = [got EXCEPT ![s] = (@ + k) % SeqMod]
           /\ readhold' = [readhold EXCEPT ![s] = @ \/ unread = 0]
           /\ writehold' = WriteHoldCleared(o)
           /\ exetermhold' = (exetermhold /\ ~(s = "installer" /\ AllRead(unread)))
           /\ Moved(t, k, IF s = "installer" /\ AllRead(unread)
                          THEN {"write", "term"} ELSE {"write"})
           /\ UNCHANGED <<jbuf, sent>>
-----------------------------------------------------------------------------
(* edbs_jobterm *)

\* ODB_EOPEN
InstallerTermLate(t) ==
    /\ pc[t] = "idle" /\ t \in Installers /\ "INSTALLWRITE" \in flags
    /\ ret' = [ret EXCEPT ![t] = "EOPEN"]
    /\ UNCHANGED <<flags, pipeVars, pipemutex, pc, op, count, total, loaded>>

InstallerTerm(t) ==
    /\ pc[t] = "idle" /\ t \in Installers /\ "INSTALLWRITE" \notin flags
    /\ FlagsFree
    /\ Begin(t, "term", 0, "or")
    /\ loaded' = [loaded EXCEPT ![t] = flags]
    /\ UNCHANGED <<flags, pipeVars, pipemutex>>

InstallerTermStore(t) ==
    /\ pc[t] = "or" /\ op[t] = "term"
    /\ flags' = Ored(loaded[t], "INSTALLERTERM")
    /\ Return(t, "OK")
    /\ UNCHANGED <<pipeVars, pipemutex>>

ExecutorTerm(t) ==
    /\ pc[t] = "idle" /\ t \in Executors
    /\ Begin(t, "term", 0, "wait")
    /\ UNCHANGED <<flags, pipeVars, pipemutex, loaded>>

\* The mutex is taken and the flags are loaded.
ExecutorTermLoad(t) ==
    /\ Entered(t, "term")
    /\ FlagsFree
    /\ pipemutex' = "held"
    /\ loaded' = [loaded EXCEPT ![t] = flags]
    /\ Goto(t, "store")
    /\ UNCHANGED <<flags, pipeVars, op, count, total, ret>>

ExecutorTermStore(t) ==
    /\ pc[t] = "store"
    /\ flags' = Ored(loaded[t], "EXECUTERTERM")
    /\ readhold' = [readhold EXCEPT !["installer"] = FALSE]
    /\ WakeGoto(t, "idle", "installer", {"read"})
    /\ Over(t, "OK")
    /\ pipemutex' = "free"
    /\ UNCHANGED <<bytes, head, writehold, exetermhold, jbuf, sent, got>>
-----------------------------------------------------------------------------
\* edbs_jobinstall: a new job in the slot.  futex_exetermhold stays as it is.
Reset ==
    /\ flags' = {}
    /\ bytes' = [s \in Sides |-> 0]
    /\ head' = [s \in Sides |-> 0]
    /\ readhold' = [s \in Sides |-> TRUE]
    /\ writehold' = [s \in Sides |-> FALSE]
    /\ sent' = [s \in Sides |-> 0]
    /\ got' = [s \in Sides |-> 0]
    /\ UNCHANGED <<exetermhold, jbuf, pipemutex, callVars>>

PipeInit ==
    /\ flags = {}
    /\ bytes = [s \in Sides |-> 0]
    /\ head = [s \in Sides |-> 0]
    /\ readhold = [s \in Sides |-> TRUE]
    /\ writehold = [s \in Sides |-> FALSE]
    /\ exetermhold = FALSE
    /\ pipemutex = "free"
    /\ jbuf = [i \in 0 .. Capacity - 1 |-> <<"nobody", 0>>]
    /\ pc = [t \in Threads |-> "idle"]
    /\ op = [t \in Threads |-> "none"]
    /\ count = [t \in Threads |-> 0]
    /\ total = [t \in Threads |-> 0]
    /\ loaded = [t \in Threads |-> {}]
    /\ ret = [t \in Threads |-> "none"]
    /\ sent = [s \in Sides |-> 0]
    /\ got = [s \in Sides |-> 0]

\* The steps inside the calls.
CallStep(t) ==
    \/ Wait(t)
    \/ InstallerWriteStore(t) \/ WriteError(t) \/ WriteBytes(t)
    \/ ReadEof(t) \/ ReadBytes(t)
    \/ InstallerTermStore(t) \/ ExecutorTermLoad(t) \/ ExecutorTermStore(t)
-----------------------------------------------------------------------------
\* The counters of the transfer buffer stay within its capacity, and everyone is
\* somewhere in one of the three calls.
PipeTypeOK ==
    /\ flags \subseteq {"INSTALLWRITE", "INSTALLERTERM", "EXECUTERTERM"}
    /\ bytes \in [Sides -> 0 .. Capacity]
    /\ head \in [Sides -> 0 .. Capacity - 1]
    /\ readhold \in [Sides -> BOOLEAN]
    /\ writehold \in [Sides -> BOOLEAN]
    /\ exetermhold \in BOOLEAN
    /\ pipemutex \in {"free", "held"}
    /\ jbuf \in [0 .. Capacity - 1 -> (Sides \cup {"nobody"}) \X (0 .. SeqMod - 1)]
    /\ pc \in [Threads -> {"idle", "or", "wait", "asleep", "enter", "store"}]
    /\ op \in [Threads -> {"none", "read", "write", "term"}]
    /\ \A t \in Threads : total[t] <= count[t]
    /\ ret \in [Threads -> {"none", "OK", "EBADE", "EPIPE", "EPROTO", "ECLOSED", "EEOF", "EOPEN"}]

\* The unread bytes of each side lie in the ring in front of the other side's
\* head, in the order in which they were written, and nothing is lost.  The two
\* directions never share the ring: "either side cannot write to the buffer
\* without first reading all bytes the opposing side has written".
InOrder ==
    /\ \A s \in Sides :
         /\ (got[Other(s)] + bytes[s]) % SeqMod = sent[s]
         /\ \A i \in 0 .. bytes[s] - 1 :
              jbuf[(head[Other(s)] + i) % Capacity] = <<s, (got[Other(s)] + i) % SeqMod>>
    /\ bytes["installer"] = 0 \/ bytes["executor"] = 0

\* The holds mean what the comments of edbs_shmjob_t say until the executor
\* terminates: nothing to read, no room to write, unread bytes of the executor.
\* And a thread sleeps only on a word that is set: whoever clears a hold wakes the
\* thread that sleeps on it.
HoldsTell ==
    /\ "EXECUTERTERM" \notin flags =>
         \A s \in Sides : /\ readhold[s] = (bytes[Other(s)] = 0)
                          /\ writehold[s] = (bytes[s] = Capacity)
    /\ exetermhold = (bytes["executor"] # 0)
    /\ \A t \in Threads : pc[t] = "asleep" => Hold(t)

\* A terminated pipe holds nothing the installer has not read.
Drained == "EXECUTERTERM" \in flags => bytes["executor"] = 0
=============================================================================
