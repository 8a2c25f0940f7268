----------------------------- MODULE VolumeInv -----------------------------
(***************************************************************************)
(* The inductive invariant behind the theorems about Volume.  Its parts    *)
(* say, from the kernel up: what the lock table may look like, which locks *)
(* a process has at each place of the code, what the end-of-file lock      *)
(* protects, and what the locks buy for the content of buffers and blocks. *)
(* Everything that rests on a lock holds as long as no lock call failed.   *)
(***************************************************************************)
EXTENDS Volume

\* The kernel never grants clashing locks to two processes.
LockTable ==
    \A p, q \in Procs : p # q =>
      \A x \in Pages : ~Clash(lk[p][x], lk[q][x])

\* Where a process is in a call, what the call is.
CallOK(p) ==
    /\ pc[p] = "idle" <=> op[p] = NoOp
    /\ op[p].kind = "commit" => p \in Writers /\ op[p].blockc <= BufLen
    /\ pc[p] \in {"copydata", "copyver"} => op[p].kind = "checkout"
    /\ pc[p] \in {"compare", "writedata", "writever"} => op[p].kind = "commit"
    /\ pc[p] \in {"eofcall", "eoflock", "remeasure", "truncate", "eofunlock",
                  "eofunlockerr"} => p \in Writers
    /\ pc[p] \in {"lock", "unlock", "writedata", "writever"}
         => idx[p] < op[p].blockc
    /\ pc[p] \in {"gcheck", "glock", "grecheck", "gmagic", "gflags", "gunlock",
                  "gverify", "copydata", "copyver", "compare"} => idx[p] = 0
    /\ Inside(p) \/ pc[p] \in {"lock", "unlock"} => op[p].blockc <= BufLen
    /\ pc[p] = "lock" => grp[p] = bid2gid(op[p].start)
    /\ Inside(p) => /\ bid2gid(op[p].start) <= grp[p]
                    /\ grp[p] <= LastGroup(p)

Calls == \A p \in Procs : CallOK(p)

\* The lock blocks_lock takes for the call.
LockFor(p) == IF op[p].kind = "checkout" THEN "read" ELSE "write"

\* blocks_lock has locked the blocks before idx; all of them once it is done,
\* up to the first unlock.
LocksBlocks(p) ==
    /\ pc[p] = "lock" =>
         \A b \in Extent(p) : b < op[p].start + idx[p] => lk[p][bid2pid(b)] = LockFor(p)
    /\ Inside(p) \/ (pc[p] = "unlock" /\ idx[p] = 0) =>
         \A b \in Extent(p) : lk[p][bid2pid(b)] = LockFor(p)

BlocksLocked == \A p \in Procs : LocksBlocks(p)

\* The end-of-file lock reaches beyond every file, so two processes never
\* measure and extend at once, whatever sizes they started from.
LocksEof(p) ==
    /\ pc[p] \in {"remeasure", "truncate", "eofunlock", "eofunlockerr"}
         => lk[p][Inf] = "write"
    /\ pc[p] = "truncate" => size < NeededPages(p)
    /\ pc[p] = "eofunlock" => NeededPages(p) <= size

EofLocked == \A p \in Procs : LocksEof(p)

InFile ==
    \A p \in Procs : Inside(p) \/ pc[p] \in {"lock", "unlock"} => NeededPages(p) <= size

\* What lies after the end of the file has never been written.
Tail0 ==
    \A b \in Blocks : size <= bid2pid(b) => data[b] = Zero /\ ver[b] = 0

\* Slot i of p's buffer is as its block is now.
Current(p, i) == /\ udata[p][i] = data[BlockAt(p, i)]
                 /\ uver[p][i]  = ver[BlockAt(p, i)]

\* The groups a checkout has copied are still as it copied them.
CopiedBy(p) ==
    op[p].kind = "checkout" =>
      \A i \in Slots : i < op[p].blockc =>
        /\ Inside(p) /\ bid2gid(BlockAt(p, i)) < grp[p] => Current(p, i)
        /\ pc[p] = "copyver" /\ bid2gid(BlockAt(p, i)) = grp[p] =>
             udata[p][i] = data[BlockAt(p, i)]
        /\ pc[p] = "unlock" /\ idx[p] = 0 /\ ret[p] = "OK" => Current(p, i)

Copied == \A p \in Procs : CopiedBy(p)

\* A commit that is writing has put its data and the next version into the
\* blocks before idx and has not touched the versions after it.
WrittenBy(p) ==
    Writing(p) =>
      \A i \in Slots : i < op[p].blockc =>
        /\ i < idx[p] => /\ data[BlockAt(p, i)] = udata[p][i]
                         /\ ver[BlockAt(p, i)] = (uver[p][i] + 1) % VerMod
        /\ i >= idx[p] => ver[BlockAt(p, i)] = uver[p][i]
        /\ i = idx[p] /\ pc[p] = "writever" => data[BlockAt(p, i)] = udata[p][i]

Written == \A p \in Procs : WrittenBy(p)

\* A block nobody is writing is as the last commit left it.
Settled ==
    \A b \in Blocks :
      (b \notin torn /\ \A p \in Procs : Writing(p) => b \notin Extent(p))
        => committed[b] = [data |-> data[b], ver |-> ver[b]]

IInv ==
    /\ LockTable
    /\ Calls
    /\ ~deadlkSeen => /\ BlocksLocked
                      /\ EofLocked
                      /\ InFile
                      /\ Tail0
                      /\ Copied
                      /\ Written
                      /\ Settled
-----------------------------------------------------------------------------
\* No call has to extend the file, however short it was at the start.
CallsFit == \A s \in InitPages, r \in Ranges : bid2pid(r[1] + r[2] - 1) + 1 <= s

\* The pages on which process p may have a lock: blocks_lock has taken those
\* before idx, blocks_unlock has yet to give back those from idx on, and
\* group_loadg locks the descriptor it initializes.
MayLock(p, x) ==
    \/ \E b \in Extent(p) :
         /\ x = bid2pid(b)
         /\ \/ pc[p] = "lock" /\ b < op[p].start + idx[p]
            \/ Inside(p)
            \/ pc[p] = "unlock" /\ op[p].start + idx[p] <= b
    \/ pc[p] \in {"grecheck", "gmagic", "gflags", "gunlock"} /\ x = gid2pid(grp[p])

LocksNeeded(p) == \A x \in Pages : lk[p][x] # "none" => MayLock(p, x)

\* When no call extends the file: nobody is in the branch that does, and every
\* lock is one its process will give back.
FitsInv ==
    /\ size \in InitPages
    /\ \A p \in Procs :
         /\ pc[p] \notin {"eofcall", "eoflock", "remeasure", "truncate", "eofunlock",
                          "eofunlockerr"}
         /\ LocksNeeded(p)
=============================================================================
