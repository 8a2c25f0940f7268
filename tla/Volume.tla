------------------------------- MODULE Volume -------------------------------
(***************************************************************************)
(* The block layer of liboidadb (liboidadb/blocks): processes that share   *)
(* one volume file and check blocks out of it, edit them in a private      *)
(* buffer, and commit them back under optimistic versioning.               *)
(*                                                                         *)
(* A process runs one library call at a time; the calls of different       *)
(* processes interleave at every file access and every fcntl(2) call.      *)
(* The pc of a process names the place in the code it has reached.         *)
(*                                                                         *)
(* fcntl record locks belong to the kernel and are modelled as it keeps    *)
(* them: per process, per page; a lock call replaces what the process held *)
(* on the range, waits for the other processes, and fails with EDEADLK     *)
(* when the wait would close a cycle.  The code logs that failure and goes *)
(* on as if it held the lock (page_lock returns void).                     *)
(***************************************************************************)
EXTENDS BlockLayout, FiniteSets

CONSTANTS
    Procs,        \* processes, each with one descriptor on the volume
    Writers,      \* those that opened it with ODB_PWRITE
    None,         \* no process
    LastBlock,    \* bound: largest block id a call may address
    BufLen,       \* bcount: blocks per buffer
    Data,         \* contents a block may have
    Zero,         \* the content of a page ftruncate has just added
    VerMod,       \* block_ver is a uint32_t: 2^32 in the code
    MaxPages,     \* the largest file the operating system allows (EFBIG)
    InitPages,    \* sizes the file may have when the processes start
    Ranges,       \* bound: the <<first block, blockc>> pairs calls use
    MaxVer,       \* bound: no commit is started once a version is MaxVer
    Crashes       \* TRUE: processes may be killed

Blocks == 0 .. LastBlock
Groups == 0 .. bid2gid(LastBlock)
\* The last page stands for everything after the largest file.
Inf    == bid2pid(LastBlock) + 1
Pages  == 0 .. Inf
Slots  == 0 .. BufLen - 1

ASSUME VolumeAssumption ==
    /\ IsFiniteSet(Procs)
    /\ Writers \subseteq Procs
    /\ None \notin Procs
    /\ LastBlock \in Nat
    /\ BufLen \in Nat \ {0}
    /\ Zero \in Data
    /\ VerMod \in Nat \ {0}
    /\ MaxPages \in Nat
    /\ InitPages \subseteq Pages
    /\ MaxVer \in Nat
    /\ Crashes \in BOOLEAN
    /\ Ranges \subseteq { r \in Blocks \X (1 .. BufLen + 1) :
                            r[1] + r[2] - 1 \in Blocks }

VARIABLES
    \* the file
    size,       \* its length in pages
    group,      \* group descriptors: magic number and flags written?
    data,       \* content of each block
    ver,        \* block_ver of each block
    \* the kernel's record locks
    lk,         \* lk[p][x]: the lock process p has on page x
    blockedOn,  \* the process whose lock p sleeps on
    \* the processes
    pc, op,     \* place in the code; the call being run
    idx,        \* loop counter over the blocks of the call
    grp,        \* loop counter over the groups of the call
    eof,        \* block_truncate: where the end-of-file lock starts
    ret,        \* odb_err of the last call
    udata, uver, bver,  \* user_datam, user_versionv, buffer_versionv
    \* history
    deadlkSeen, \* an fcntl call has failed with EDEADLK
    committed,  \* content and version the last successful commit gave a block
    torn        \* blocks of a commit whose process was killed while writing

fileVars == <<size, group, data, ver>>
lockVars == <<lk, blockedOn>>
bufVars  == <<udata, uver, bver>>
histVars == <<committed, torn>>
vars == <<fileVars, lockVars, pc, op, idx, grp, eof, ret, bufVars,
          deadlkSeen, histVars>>
-----------------------------------------------------------------------------
NoGroup == [magic |-> FALSE, flags |-> FALSE]
NoOp == [kind |-> "none", start |-> 0, blockc |-> 0]
Op   == {NoOp} \cup { [kind |-> k, start |-> r[1], blockc |-> r[2]] :
                        k \in {"checkout", "commit"}, r \in Ranges }

BlockAt(p, i) == op[p].start + i
Extent(p)     == { b \in Blocks : /\ op[p].start <= b
                                  /\ b < op[p].start + op[p].blockc }
\* Mutant: only the first group is visited.
FirstGroupOnly(p) == bid2gid(op[p].start)
LastGroup(p)  == bid2gid(op[p].start)
                   + descriptor_buffer_needed(op[p].start, op[p].blockc) - 1
NeededPages(p) == bid2pid(op[p].start + op[p].blockc - 1) + 1

Return(p, err) ==
    /\ pc'  = [pc  EXCEPT ![p] = "idle"]
    /\ op'  = [op  EXCEPT ![p] = NoOp]
    /\ ret' = [ret EXCEPT ![p] = err]

\* (Locals of a function are reset when it returns.)
Goto(p, l) == pc' = [pc EXCEPT ![p] = l]
-----------------------------------------------------------------------------
(* fcntl(F_SETLKW64) *)

\* The lock call process p is in: the pages and the kind of lock.
Request(p) ==
    CASE pc[p] = "eoflock" -> eof[p] .. Inf
      [] pc[p] = "lock"    -> { bid2pid(BlockAt(p, idx[p])) }
      [] pc[p] = "glock"   -> { gid2pid(grp[p]) }
      [] OTHER             -> {}

\* Mutant: blocks_lock always takes the shared lock.
AlwaysReadMode(p) == IF pc[p] = "lock" THEN "read" ELSE "write"
Mode(p) == IF pc[p] = "lock" /\ op[p].kind = "checkout" THEN "read" ELSE "write"

Clash(m, n) == m # "none" /\ n # "none" /\ "write" \in {m, n}

\* Processes whose locks, as given by table, keep p waiting.
Blockers(p, table) ==
    { q \in Procs \ {p} : \E x \in Request(p) : Clash(Mode(p), table[q][x]) }

\* Whom q waits for, whom that one waits for, and so on.
WaitChain(q) ==
    LET reach[k \in 0 .. Cardinality(Procs)] ==
          IF k = 0 THEN {q}
          ELSE reach[k-1] \cup { blockedOn[r] : r \in reach[k-1] \cap Procs }
    IN  reach[Cardinality(Procs)]

\* p's locks on pages become mode; sleepers this sets free wake up.
SetLock(p, pages, mode) ==
    /\ lk' = [lk EXCEPT ![p] =
                [x \in Pages |-> IF x \in pages THEN mode ELSE lk[p][x]]]
    /\ blockedOn' = [q \in Procs |->
                       IF blockedOn[q] = p /\ p \notin Blockers(q, lk')
                       THEN None ELSE blockedOn[q]]

Unlock(p, pages) == SetLock(p, pages, "none")

\* The lock call returns: granted, or failed and ignored.
Granted(p) ==
    /\ Blockers(p, lk) = {}
    /\ SetLock(p, Request(p), Mode(p))
    /\ UNCHANGED deadlkSeen

Deadlk(p) ==
    /\ \E q \in Blockers(p, lk) : p \in WaitChain(q)
    /\ deadlkSeen' = TRUE
    /\ UNCHANGED lockVars

\* A read-only descriptor asks for a write lock: EBADF, logged and ignored.
Ebadf(p) ==
    /\ p \notin Writers /\ Mode(p) = "write"
    /\ UNCHANGED <<lockVars, deadlkSeen>>

LockReturns(p) ==
    /\ blockedOn[p] = None
    /\ IF p \notin Writers /\ Mode(p) = "write"
       THEN Ebadf(p)
       ELSE Granted(p) \/ Deadlk(p)

\* The lock call sleeps on one of the processes in its way.
Sleep(p) ==
    /\ pc[p] \in {"eoflock", "lock", "glock"}
    /\ blockedOn[p] = None
    /\ p \in Writers \/ Mode(p) = "read"
    /\ \E q \in Blockers(p, lk) :
         /\ p \notin WaitChain(q)
         /\ blockedOn' = [blockedOn EXCEPT ![p] = q]
    /\ UNCHANGED <<fileVars, lk, pc, op, idx, grp, eof, ret, bufVars,
                   deadlkSeen, histVars>>
-----------------------------------------------------------------------------
(* odbb_checkout, odbb_commit: entry and checks made before the file is    *)
(* touched.  odbb_seek has set the cursor to r[1].                         *)

odbb_checkout(p, r) ==
    /\ pc[p] = "idle"
    /\ Goto(p, "measure")
    /\ op' = [op EXCEPT ![p] = [kind |-> "checkout", start |-> r[1], blockc |-> r[2]]]
    /\ UNCHANGED <<fileVars, lockVars, idx, grp, eof, ret, bufVars, deadlkSeen, histVars>>

odbb_commit(p, r) ==
    /\ pc[p] = "idle"
    /\ \A b \in Blocks : ver[b] < MaxVer
    /\ CASE p \notin Writers ->
              ret' = [ret EXCEPT ![p] = "EBADF"] /\ UNCHANGED <<pc, op>>
         [] p \in Writers /\ BufLen < r[2] ->
              ret' = [ret EXCEPT ![p] = "EBUFFSIZE"] /\ UNCHANGED <<pc, op>>
         [] OTHER ->
              /\ Goto(p, "measure")
              /\ op' = [op EXCEPT ![p] =
                          [kind |-> "commit", start |-> r[1], blockc |-> r[2]]]
              /\ UNCHANGED ret
    /\ UNCHANGED <<fileVars, lockVars, idx, grp, eof, bufVars, deadlkSeen, histVars>>

\* The user writes to the mapped buffer (odbv_buffer_map).
EditBuffer(p, d) ==
    /\ pc[p] = "idle"
    /\ udata' = [udata EXCEPT ![p] = [i \in Slots |-> d]]
    /\ UNCHANGED <<fileVars, lockVars, pc, op, idx, grp, eof, ret, uver, bver,
                   deadlkSeen, histVars>>

\* After ODB_EVERSION the user merges and adopts the current versions
\* (odbv_buffer_versions, odbh_buffer_versions_current).
AdoptVersions(p) ==
    /\ pc[p] = "idle"
    /\ ret[p] = "EVERSION"
    /\ uver' = [uver EXCEPT ![p] = bver[p]]
    /\ UNCHANGED <<fileVars, lockVars, pc, op, idx, grp, eof, ret, udata, bver,
                   deadlkSeen, histVars>>
-----------------------------------------------------------------------------
(* block_truncate *)

\* Where the call goes when block_truncate has returned 0.
AfterTruncate(p) ==
    IF op[p].kind = "checkout" /\ BufLen < op[p].blockc
    THEN Return(p, "EBUFFSIZE") /\ UNCHANGED <<idx, grp>>
    ELSE /\ Goto(p, "lock")
         /\ idx' = [idx EXCEPT ![p] = 0]
         /\ grp' = [grp EXCEPT ![p] = bid2gid(op[p].start)]
         /\ UNCHANGED <<op, ret>>

\* Mutant: room is made for the first block of the call only.
MeasureFirst(p) ==
    /\ pc[p] = "measure"
    /\ \/ /\ bid2pid(op[p].start) + 1 <= size
          /\ AfterTruncate(p)
       \/ /\ bid2pid(op[p].start) + 1 > size
          /\ Goto(p, "eofcall")
          /\ UNCHANGED <<op, idx, grp, ret>>
    /\ UNCHANGED <<fileVars, lockVars, eof, bufVars, deadlkSeen, histVars>>

\* The unlocked lseek64(SEEK_END).
Measure(p) ==
    /\ pc[p] = "measure"
    /\ \/ /\ NeededPages(p) <= size
          /\ AfterTruncate(p)
       \/ /\ NeededPages(p) > size
          /\ p \notin Writers
          /\ Return(p, "ENOSPACE")
          /\ UNCHANGED <<idx, grp>>
       \/ /\ NeededPages(p) > size
          /\ p \in Writers
          /\ Goto(p, "eofcall")
          /\ UNCHANGED <<op, idx, grp, ret>>
    /\ UNCHANGED <<fileVars, lockVars, eof, bufVars, deadlkSeen, histVars>>

\* page_lock_eof: the kernel turns SEEK_END into an offset when the call is
\* made, before it waits.
EofCall(p) ==
    /\ pc[p] = "eofcall"
    /\ eof' = [eof EXCEPT ![p] = size]
    /\ Goto(p, "eoflock")
    /\ UNCHANGED <<fileVars, lockVars, op, idx, grp, ret, bufVars, deadlkSeen, histVars>>

EofLock(p) ==
    /\ pc[p] = "eoflock"
    /\ LockReturns(p)
    /\ Goto(p, "remeasure")
    /\ UNCHANGED <<fileVars, op, idx, grp, eof, ret, bufVars, histVars>>

\* Mutant: the size is not looked at again once the end of file is locked.
RemeasureNot(p) ==
    /\ pc[p] = "remeasure"
    /\ eof' = [eof EXCEPT ![p] = size]
    /\ Goto(p, "truncate")
    /\ UNCHANGED <<fileVars, lockVars, op, idx, grp, ret, bufVars, deadlkSeen, histVars>>

\* The lseek64 that ends page_lock_eof; its result is what is unlocked later.
Remeasure(p) ==
    /\ pc[p] = "remeasure"
    /\ eof' = [eof EXCEPT ![p] = size]
    /\ Goto(p, IF NeededPages(p) <= size THEN "eofunlock" ELSE "truncate")
    /\ UNCHANGED <<fileVars, lockVars, op, idx, grp, ret, bufVars, deadlkSeen, histVars>>

\* ftruncate64; pages that are cut off lose their content.
Truncate(p) ==
    /\ pc[p] = "truncate"
    /\ \/ /\ NeededPages(p) <= MaxPages
          /\ size'  = NeededPages(p)
          /\ data'  = [b \in Blocks |-> IF bid2pid(b) < size' THEN data[b] ELSE Zero]
          /\ group' = [g \in Groups |-> IF gid2pid(g) < size' THEN group[g] ELSE NoGroup]
          /\ ver'   = [b \in Blocks |-> IF gid2pid(bid2gid(b)) < size' THEN ver[b] ELSE 0]
          /\ Goto(p, "eofunlock")
       \/ /\ NeededPages(p) > MaxPages
          /\ Goto(p, "eofunlockerr")
          /\ UNCHANGED fileVars
    /\ UNCHANGED <<lockVars, op, idx, grp, eof, ret, bufVars, deadlkSeen, histVars>>

\* page_unlock_eof and the return of block_truncate.
EofUnlock(p) ==
    /\ pc[p] \in {"eofunlock", "eofunlockerr"}
    /\ Unlock(p, eof[p] .. Inf)
    /\ IF pc[p] = "eofunlock"
       THEN AfterTruncate(p)
       ELSE Return(p, "ENOSPACE") /\ UNCHANGED <<idx, grp>>
    /\ eof' = [eof EXCEPT ![p] = 0]
    /\ UNCHANGED <<fileVars, bufVars, deadlkSeen, histVars>>
-----------------------------------------------------------------------------
(* blocks_lock, blocks_unlock *)

BlocksLock(p) ==
    /\ pc[p] = "lock"
    /\ LockReturns(p)
    /\ idx' = [idx EXCEPT ![p] = IF idx[p] + 1 < op[p].blockc THEN idx[p] + 1 ELSE 0]
    /\ Goto(p, IF idx[p] + 1 < op[p].blockc THEN "lock" ELSE "gcheck")
    /\ UNCHANGED <<fileVars, op, grp, eof, ret, bufVars, histVars>>

\* Mutant: the last block stays locked.
BlocksUnlockShort(p) ==
    /\ pc[p] = "unlock"
    /\ Unlock(p, IF idx[p] + 1 < op[p].blockc THEN { bid2pid(BlockAt(p, idx[p])) } ELSE {})
    /\ idx' = [idx EXCEPT ![p] = IF idx[p] + 1 < op[p].blockc THEN idx[p] + 1 ELSE 0]
    /\ IF idx[p] + 1 < op[p].blockc
       THEN UNCHANGED <<pc, op>>
       ELSE Goto(p, "idle") /\ op' = [op EXCEPT ![p] = NoOp]
    /\ UNCHANGED <<fileVars, grp, eof, ret, bufVars, deadlkSeen, histVars>>

BlocksUnlock(p) ==
    /\ pc[p] = "unlock"
    /\ Unlock(p, { bid2pid(BlockAt(p, idx[p])) })
    /\ idx' = [idx EXCEPT ![p] = IF idx[p] + 1 < op[p].blockc THEN idx[p] + 1 ELSE 0]
    /\ IF idx[p] + 1 < op[p].blockc
       THEN UNCHANGED <<pc, op>>
       ELSE Goto(p, "idle") /\ op' = [op EXCEPT ![p] = NoOp]
    /\ UNCHANGED <<fileVars, grp, eof, ret, bufVars, deadlkSeen, histVars>>

\* The call is over but for its unlocks; err is what it will return.
Finish(p, err) ==
    /\ Goto(p, "unlock")
    /\ ret' = [ret EXCEPT ![p] = err]
    /\ idx' = [idx EXCEPT ![p] = 0]
    /\ grp' = [grp EXCEPT ![p] = 0]
-----------------------------------------------------------------------------
(* group_loadg: map the descriptor page of group grp[p], initialize it if  *)
(* nobody has, check the magic number.                                     *)

\* Mutant: the magic number, written first, is taken for the flags.
GroupCheckMagic(p) ==
    /\ pc[p] = "gcheck"
    /\ Goto(p, IF group[grp[p]].magic THEN "gverify" ELSE "glock")
    /\ UNCHANGED <<fileVars, lockVars, op, idx, grp, eof, ret, bufVars, deadlkSeen, histVars>>

GroupCheck(p) ==
    /\ pc[p] = "gcheck"
    /\ Goto(p, IF group[grp[p]].flags THEN "gverify" ELSE "glock")
    /\ UNCHANGED <<fileVars, lockVars, op, idx, grp, eof, ret, bufVars, deadlkSeen, histVars>>

GroupLock(p) ==
    /\ pc[p] = "glock"
    /\ LockReturns(p)
    /\ Goto(p, "grecheck")
    /\ UNCHANGED <<fileVars, op, idx, grp, eof, ret, bufVars, histVars>>

\* The second look at the flags, with the page locked.  group_initialize
\* then writes to the mapping, which faults when the descriptor is read-only.
GroupRecheck(p) ==
    /\ pc[p] = "grecheck"
    /\ \/ /\ group[grp[p]].flags
          /\ Goto(p, "gunlock")
          /\ UNCHANGED lockVars
       \/ /\ ~group[grp[p]].flags
          /\ p \in Writers
          /\ Goto(p, "gmagic")
          /\ UNCHANGED lockVars
       \/ /\ ~group[grp[p]].flags
          /\ p \notin Writers
          /\ Goto(p, "dead")
          /\ Unlock(p, Pages)
    /\ UNCHANGED <<fileVars, op, idx, grp, eof, ret, bufVars, deadlkSeen, histVars>>

\* group_initialize: the magic number first, the flags after it.
GroupMagic(p) ==
    /\ pc[p] = "gmagic"
    /\ group' = [group EXCEPT ![grp[p]].magic = TRUE]
    /\ Goto(p, "gflags")
    /\ UNCHANGED <<size, data, ver, lockVars, op, idx, grp, eof, ret, bufVars,
                   deadlkSeen, histVars>>

GroupFlags(p) ==
    /\ pc[p] = "gflags"
    /\ group' = [group EXCEPT ![grp[p]].flags = TRUE]
    /\ Goto(p, "gunlock")
    /\ UNCHANGED <<size, data, ver, lockVars, op, idx, grp, eof, ret, bufVars,
                   deadlkSeen, histVars>>

\* Mutant: the descriptor page stays locked.
GroupUnlockNot(p) ==
    /\ pc[p] = "gunlock"
    /\ Goto(p, "gverify")
    /\ UNCHANGED <<fileVars, lockVars, op, idx, grp, eof, ret, bufVars, deadlkSeen, histVars>>

GroupUnlock(p) ==
    /\ pc[p] = "gunlock"
    /\ Unlock(p, { gid2pid(grp[p]) })
    /\ Goto(p, "gverify")
    /\ UNCHANGED <<fileVars, op, idx, grp, eof, ret, bufVars, deadlkSeen, histVars>>

\* The double check of the magic number.  group_map (commit) loads every
\* group before it looks at a version; blocks_copy (checkout) copies each
\* group as soon as it is loaded.
GroupVerify(p) ==
    /\ pc[p] = "gverify"
    /\ \/ /\ ~(group[grp[p]].magic /\ group[grp[p]].flags)
          /\ Finish(p, "ENOTDB")
       \/ /\ group[grp[p]].magic /\ group[grp[p]].flags
          /\ IF op[p].kind = "checkout"
             THEN Goto(p, "copydata") /\ UNCHANGED grp
             ELSE IF grp[p] < LastGroup(p)
                  THEN Goto(p, "gcheck") /\ grp' = [grp EXCEPT ![p] = grp[p] + 1]
                  ELSE Goto(p, "compare") /\ UNCHANGED grp
          /\ UNCHANGED <<idx, ret>>
    /\ UNCHANGED <<fileVars, lockVars, op, eof, bufVars, deadlkSeen, histVars>>
-----------------------------------------------------------------------------
(* blocks_copy: one read(2) for the data of the group's blocks, then their *)
(* versions out of the mapped descriptor.                                  *)

InGroup(p, i) == /\ i < op[p].blockc
                 /\ bid2gid(BlockAt(p, i)) = grp[p]

CopyData(p) ==
    /\ pc[p] = "copydata"
    /\ udata' = [udata EXCEPT ![p] = [i \in Slots |->
                   IF InGroup(p, i) THEN data[BlockAt(p, i)] ELSE udata[p][i]]]
    /\ Goto(p, "copyver")
    /\ UNCHANGED <<fileVars, lockVars, op, idx, grp, eof, ret, uver, bver,
                   deadlkSeen, histVars>>

CopyVersions(p) ==
    /\ pc[p] = "copyver"
    /\ uver' = [uver EXCEPT ![p] = [i \in Slots |->
                  IF InGroup(p, i) THEN ver[BlockAt(p, i)] ELSE uver[p][i]]]
    /\ IF grp[p] < LastGroup(p)
       THEN /\ Goto(p, "gcheck")
            /\ grp' = [grp EXCEPT ![p] = grp[p] + 1]
            /\ UNCHANGED <<idx, ret>>
       ELSE Finish(p, "OK")
    /\ UNCHANGED <<fileVars, lockVars, op, eof, udata, bver, deadlkSeen, histVars>>
-----------------------------------------------------------------------------
(* blocks_commit_attempt *)

\* Mutant: only the version of the first block is compared.
CompareFirst(p) ==
    /\ pc[p] = "compare"
    /\ bver' = [bver EXCEPT ![p] = [i \in Slots |->
                  IF i < op[p].blockc THEN ver[BlockAt(p, i)] ELSE bver[p][i]]]
    /\ IF uver[p][0] # ver[BlockAt(p, 0)]
       THEN Finish(p, "EVERSION")
       ELSE Goto(p, "writedata") /\ UNCHANGED <<idx, grp, ret>>
    /\ UNCHANGED <<fileVars, lockVars, op, eof, udata, uver, deadlkSeen, histVars>>

CompareVersions(p) ==
    /\ pc[p] = "compare"
    /\ bver' = [bver EXCEPT ![p] = [i \in Slots |->
                  IF i < op[p].blockc THEN ver[BlockAt(p, i)] ELSE bver[p][i]]]
    /\ IF \E i \in Slots : i < op[p].blockc /\ uver[p][i] # ver[BlockAt(p, i)]
       THEN Finish(p, "EVERSION")
       ELSE Goto(p, "writedata") /\ UNCHANGED <<idx, grp, ret>>
    /\ UNCHANGED <<fileVars, lockVars, op, eof, udata, uver, deadlkSeen, histVars>>

WriteData(p) ==
    /\ pc[p] = "writedata"
    /\ data' = [data EXCEPT ![BlockAt(p, idx[p])] = udata[p][idx[p]]]
    /\ Goto(p, "writever")
    /\ UNCHANGED <<size, group, ver, lockVars, op, idx, grp, eof, ret, bufVars,
                   deadlkSeen, histVars>>

WriteVersion(p) ==
    /\ pc[p] = "writever"
    /\ LET b == BlockAt(p, idx[p])
       IN  /\ ver'  = [ver EXCEPT ![b] = (ver[b] + 1) % VerMod]
           /\ bver' = [bver EXCEPT ![p][idx[p]] = ver'[b]]
    /\ IF idx[p] + 1 < op[p].blockc
       THEN /\ Goto(p, "writedata")
            /\ idx' = [idx EXCEPT ![p] = idx[p] + 1]
            /\ UNCHANGED <<ret, grp, histVars>>
       ELSE /\ Finish(p, "OK")
            /\ committed' = [b \in Blocks |->
                 IF b \in Extent(p)
                 THEN [data |-> udata[p][b - op[p].start],
                       ver  |-> (uver[p][b - op[p].start] + 1) % VerMod]
                 ELSE committed[b]]
            /\ torn' = torn \ Extent(p)
    /\ UNCHANGED <<size, group, data, lockVars, op, eof, udata, uver, deadlkSeen>>
-----------------------------------------------------------------------------
\* The process is killed and started again: the kernel drops its locks, the
\* file stays as it is.
Writing(p) == pc[p] \in {"writedata", "writever"}

Kill(p) ==
    /\ Crashes
    /\ pc[p] \notin {"idle", "dead"}
    /\ Unlock(p, Pages)
    /\ Goto(p, "idle")
    /\ op'    = [op    EXCEPT ![p] = NoOp]
    /\ ret'   = [ret   EXCEPT ![p] = "OK"]
    /\ idx'   = [idx   EXCEPT ![p] = 0]
    /\ grp'   = [grp   EXCEPT ![p] = 0]
    /\ eof'   = [eof   EXCEPT ![p] = 0]
    /\ udata' = [udata EXCEPT ![p] = [i \in Slots |-> Zero]]
    /\ uver'  = [uver  EXCEPT ![p] = [i \in Slots |-> 0]]
    /\ bver'  = [bver  EXCEPT ![p] = [i \in Slots |-> 0]]
    /\ torn'  = IF Writing(p) THEN torn \cup Extent(p) ELSE torn
    /\ UNCHANGED <<fileVars, deadlkSeen, committed>>
-----------------------------------------------------------------------------
Init ==
    /\ size \in InitPages
    /\ group = [g \in Groups |-> NoGroup]
    /\ data  = [b \in Blocks |-> Zero]
    /\ ver   = [b \in Blocks |-> 0]
    /\ lk    = [p \in Procs |-> [x \in Pages |-> "none"]]
    /\ blockedOn = [p \in Procs |-> None]
    /\ pc    = [p \in Procs |-> "idle"]
    /\ op    = [p \in Procs |-> NoOp]
    /\ idx   = [p \in Procs |-> 0]
    /\ grp   = [p \in Procs |-> 0]
    /\ eof   = [p \in Procs |-> 0]
    /\ ret   = [p \in Procs |-> "OK"]
    /\ udata = [p \in Procs |-> [i \in Slots |-> Zero]]
    /\ uver  = [p \in Procs |-> [i \in Slots |-> 0]]
    /\ bver  = [p \in Procs |-> [i \in Slots |-> 0]]
    /\ deadlkSeen = FALSE
    /\ committed  = [b \in Blocks |-> [data |-> Zero, ver |-> 0]]
    /\ torn = {}

\* A step inside a library call.
Step(p) ==
    \/ Measure(p) \/ EofCall(p) \/ EofLock(p) \/ Remeasure(p) \/ Truncate(p)
    \/ EofUnlock(p)
    \/ BlocksLock(p) \/ BlocksUnlock(p) \/ Sleep(p)
    \/ GroupCheck(p) \/ GroupLock(p) \/ GroupRecheck(p) \/ GroupMagic(p)
    \/ GroupFlags(p) \/ GroupUnlock(p) \/ GroupVerify(p)
    \/ CopyData(p) \/ CopyVersions(p)
    \/ CompareVersions(p) \/ WriteData(p) \/ WriteVersion(p)

User(p) ==
    \/ \E r \in Ranges : odbb_checkout(p, r) \/ odbb_commit(p, r)
    \/ \E d \in Data : EditBuffer(p, d)
    \/ AdoptVersions(p)

Next == \E p \in Procs : Step(p) \/ User(p) \/ Kill(p)

Spec == Init /\ [][Next]_vars
-----------------------------------------------------------------------------
(* Correctness *)

Labels == {"idle", "dead", "measure", "eofcall", "eoflock", "remeasure", "truncate",
           "eofunlock", "eofunlockerr", "lock", "gcheck", "glock", "grecheck",
           "gmagic", "gflags", "gunlock", "gverify", "copydata", "copyver",
           "compare", "writedata", "writever", "unlock"}
Errors == {"OK", "EBADF", "EBUFFSIZE", "ENOSPACE", "ENOTDB", "EVERSION"}

Versions == 0 .. VerMod - 1

FileTypeOK ==
    /\ size  \in Pages
    /\ group \in [Groups -> [magic : BOOLEAN, flags : BOOLEAN]]
    /\ data  \in [Blocks -> Data]
    /\ ver   \in [Blocks -> Versions]

LockTypeOK ==
    /\ lk \in [Procs -> [Pages -> {"none", "read", "write"}]]
    /\ blockedOn \in [Procs -> Procs \cup {None}]

CallTypeOK ==
    /\ pc  \in [Procs -> Labels]
    /\ op  \in [Procs -> Op]
    /\ idx \in [Procs -> Nat]
    /\ grp \in [Procs -> Groups]
    /\ eof \in [Procs -> Pages]
    /\ ret \in [Procs -> Errors]

BufferTypeOK ==
    /\ udata \in [Procs -> [Slots -> Data]]
    /\ uver  \in [Procs -> [Slots -> Versions]]
    /\ bver  \in [Procs -> [Slots -> Versions]]

HistoryTypeOK ==
    /\ deadlkSeen \in BOOLEAN
    /\ committed  \in [Blocks -> [data : Data, ver : Versions]]
    /\ torn \in SUBSET Blocks

\* Every variable stays within the C type, or the kernel table, it stands for.
TypeOK == FileTypeOK /\ LockTypeOK /\ CallTypeOK /\ BufferTypeOK /\ HistoryTypeOK

\* Between blocks_lock and blocks_unlock.
Inside(p) == pc[p] \in {"gcheck", "glock", "grecheck", "gmagic", "gflags",
                        "gunlock", "gverify", "copydata", "copyver", "compare",
                        "writedata", "writever"}

\* blocks_lock promises "that no other process can modify them": while one
\* process is between blocks_lock and blocks_unlock, no other one is there
\* with a commit that touches one of its blocks.
Isolation ==
    ~deadlkSeen =>
      \A p, q \in Procs :
        p # q /\ Inside(p) /\ Inside(q) /\ op[q].kind = "commit"
          => Extent(p) \cap Extent(q) = {}

\* A checkout is a snapshot: when it has copied its last group, all the data
\* and versions in the buffer are those the blocks have at that one moment,
\* although they were copied group by group, data apart from versions.
SnapshotCheckout ==
    ~deadlkSeen =>
      \A p \in Procs :
        pc[p] = "unlock" /\ idx[p] = 0 /\ op[p].kind = "checkout" /\ ret[p] = "OK"
          => \A i \in Slots : i < op[p].blockc =>
               /\ udata[p][i] = data[BlockAt(p, i)]
               /\ uver[p][i]  = ver[BlockAt(p, i)]

\* "Only a successful return means that the database has been updated": a
\* block nobody is writing holds what the last successful commit of it
\* submitted, one version after the version that commit was based on (so no
\* update is lost) - unless a process was killed in the middle of writing it.
OnlyCommitsUpdate ==
    ~deadlkSeen =>
      \A b \in Blocks :
        (b \notin torn /\ \A p \in Procs : Writing(p) => b \notin Extent(p))
          => committed[b] = [data |-> data[b], ver |-> ver[b]]

\* The same without the exception: what man/odbb_commit.org says of every
\* unsuccessful commit.
CommitIsAllOrNothing ==
    \A b \in Blocks :
      (\A p \in Procs : Writing(p) => b \notin Extent(p))
        => committed[b] = [data |-> data[b], ver |-> ver[b]]

\* The first user of a group initializes it while others look at it without
\* a lock; nobody mistakes a group in the making for a foreign file.
NeverNotDb == \A p \in Procs : ret[p] # "ENOTDB"

\* block_truncate only ever grows the file, however many processes race to
\* extend it.
FileOnlyGrows == [][deadlkSeen \/ size <= size']_<<size, deadlkSeen>>

\* Every block a call is working on lies inside the file: block_truncate has
\* made room for it, and nobody cut the file back since (a mapping beyond the
\* end of the file faults).
BlocksInFile ==
    ~deadlkSeen =>
      \A p \in Procs : Inside(p) \/ pc[p] \in {"lock", "unlock"}
                         => NeededPages(p) <= size

\* page_unlock_eof undoes page_lock_eof: a process that is not in a call has
\* no lock on the file.
IdleHoldsNoLock ==
    \A p \in Procs : pc[p] = "idle" => \A x \in Pages : lk[p][x] = "none"

\* group_loadg initializes a group on first use, also for a reader.
ReadersSurvive == \A p \in Procs : pc[p] # "dead"

\* Every call returns once no new calls are made.
Quiet == \A p \in Procs : pc[p] = "idle" => pc'[p] = "idle"
Fairness == \A p \in Procs : WF_vars(Step(p))
FairSpec == Spec /\ Fairness
CallsReturn == []<><<~Quiet>>_vars \/ \A p \in Procs : <>[](pc[p] \in {"idle", "dead"})
=============================================================================
