---------------------------- MODULE VolumeProofs ----------------------------
(***************************************************************************)
(* Theorems about Volume: for any number of processes, blocks, buffer and  *)
(* group sizes, and any mix of crashes.                                    *)
(***************************************************************************)
EXTENDS VolumeRefines, TLAPS

-----------------------------------------------------------------------------
(* The page arithmetic of BlockLayout, for every group size *)

\* Quotient and remainder of the group size.
LEMMA DivMod ==
    ASSUME NEW a \in Nat
    PROVE  /\ a \div BlocksPerGroup \in Nat
           /\ a % BlocksPerGroup \in 0 .. BlocksPerGroup - 1
           /\ a = BlocksPerGroup * (a \div BlocksPerGroup) + (a % BlocksPerGroup)
BY BlocksPerGroupAssumption

\* A product with a larger factor is larger by at least the other factor.
LEMMA TimesMonotone ==
    ASSUME NEW n \in Nat, NEW i \in Nat, NEW j \in Nat, i < j
    PROVE  n * i + n <= n * j
<1>1. PICK d \in Nat : j = i + 1 + d  BY j = i + 1 + (j - i - 1), j - i - 1 \in Nat
<1>2. n * j = n * i + n + n * d  BY <1>1
<1>3. n * d \in Nat  OBVIOUS
<1> QED  BY <1>2, <1>3

\* bid2gid is monotone.
LEMMA GroupMonotone ==
    ASSUME NEW a \in Nat, NEW b \in Nat, a <= b
    PROVE  bid2gid(a) <= bid2gid(b)
<1> DEFINE i == a \div BlocksPerGroup  j == b \div BlocksPerGroup
<1>1. /\ i \in Nat /\ j \in Nat
      /\ a = BlocksPerGroup * i + (a % BlocksPerGroup)
      /\ b = BlocksPerGroup * j + (b % BlocksPerGroup)
      /\ a % BlocksPerGroup \in Nat
      /\ b % BlocksPerGroup \in 0 .. BlocksPerGroup - 1
   BY DivMod
<1> HIDE DEF i, j
<1>2. ASSUME j < i PROVE FALSE
  <2>1. BlocksPerGroup * j + BlocksPerGroup <= BlocksPerGroup * i
     BY <1>1, <1>2, TimesMonotone, BlocksPerGroupAssumption
  <2>2. BlocksPerGroup * j \in Nat /\ BlocksPerGroup * i \in Nat
     BY <1>1, BlocksPerGroupAssumption
  <2> QED  BY <1>1, <2>1, <2>2, BlocksPerGroupAssumption
<1>3. i <= j  BY <1>1, <1>2
<1> QED  BY <1>3 DEF bid2gid, i, j

\* A block's page is its id, plus one descriptor page per group so far.
LEMMA PageOfBlock ==
    ASSUME NEW b \in Nat
    PROVE  /\ bid2gid(b) \in Nat
           /\ bid2pid(b) = b + bid2gid(b) + 1
           /\ bid2pid(b) \in Nat
<1> DEFINE j == b \div BlocksPerGroup
<1>1. /\ j \in Nat
      /\ b = BlocksPerGroup * j + (b % BlocksPerGroup)
      /\ b % BlocksPerGroup \in Nat
   BY DivMod
<1>2. bid2pid(b) = j * (BlocksPerGroup + 1) + (b % BlocksPerGroup) + 1
   BY DEF bid2pid, PagesPerGroup
<1>3. bid2gid(b) = j  BY DEF bid2gid
<1> HIDE DEF j
<1>4. j * (BlocksPerGroup + 1) = BlocksPerGroup * j + j
   BY <1>1, BlocksPerGroupAssumption
<1>5. BlocksPerGroup * j \in Nat  BY <1>1, BlocksPerGroupAssumption
<1> QED  BY <1>1, <1>2, <1>3, <1>4, <1>5

\* bid2pid is strictly monotone: two blocks never share a page.
LEMMA PageMonotone ==
    ASSUME NEW a \in Nat, NEW b \in Nat
    PROVE  /\ a < b <=> bid2pid(a) < bid2pid(b)
           /\ a = b <=> bid2pid(a) = bid2pid(b)
<1>1. a <= b => bid2gid(a) <= bid2gid(b)  BY GroupMonotone
<1>2. b <= a => bid2gid(b) <= bid2gid(a)  BY GroupMonotone
<1> QED  BY <1>1, <1>2, PageOfBlock

\* The assertion in bid2pid: a block never lands on a group descriptor.
THEOREM NeverOnDescriptor ==
    ASSUME NEW b \in Nat, NEW g \in Nat
    PROVE  bid2pid(b) # gid2pid(g)
<1> DEFINE n == BlocksPerGroup + 1
           j == b \div BlocksPerGroup
           r == (b % BlocksPerGroup) + 1
<1>1. j \in Nat /\ n \in Nat /\ r \in Nat /\ 0 < r /\ r < n
   BY DivMod, BlocksPerGroupAssumption
<1>2. bid2pid(b) = j * n + r  BY DivMod, BlocksPerGroupAssumption DEF bid2pid, PagesPerGroup
<1>3. gid2pid(g) = g * n  BY DEF gid2pid, PagesPerGroup
<1> HIDE DEF n, j, r
<1>4. n * g = g * n /\ n * j = j * n /\ n * g \in Nat /\ n * j \in Nat  BY <1>1
<1>5. CASE j < g
  <2>1. n * j + n <= n * g  BY <1>1, <1>5, TimesMonotone
  <2> QED  BY <2>1, <1>1, <1>2, <1>3, <1>4
<1>6. CASE g < j
  <2>1. n * g + n <= n * j  BY <1>1, <1>6, TimesMonotone
  <2> QED  BY <2>1, <1>1, <1>2, <1>3, <1>4
<1>7. CASE g = j
  BY <1>7, <1>1, <1>2, <1>3, <1>4
<1> QED  BY <1>1, <1>5, <1>6, <1>7

\* The descriptor of a block's group comes before the block.
LEMMA DescriptorFirst ==
    ASSUME NEW b \in Nat
    PROVE  gid2pid(bid2gid(b)) \in Nat /\ gid2pid(bid2gid(b)) < bid2pid(b)
<1> DEFINE m == (b \div BlocksPerGroup) * (BlocksPerGroup + 1)
<1>1. m \in Nat /\ b % BlocksPerGroup \in Nat
   BY DivMod, BlocksPerGroupAssumption
<1>2. gid2pid(bid2gid(b)) = m  BY DEF gid2pid, bid2gid, PagesPerGroup
<1>3. bid2pid(b) = m + (b % BlocksPerGroup) + 1  BY DEF bid2pid, PagesPerGroup
<1> HIDE DEF m
<1> QED  BY <1>1, <1>2, <1>3

USE BlocksPerGroupAssumption, VolumeAssumption

-----------------------------------------------------------------------------
(* What one step may change, and that it keeps the types *)

\* Blocks, groups and pages of the instance are natural numbers, and the page
\* of every block comes before Inf.
LEMMA Ids ==
    /\ Inf \in Nat
    /\ \A b \in Blocks : /\ b \in Nat
                         /\ bid2pid(b) \in Pages
                         /\ bid2pid(b) < Inf
                         /\ bid2gid(b) \in Groups
    /\ \A g \in Groups : g \in Nat
    /\ 0 \in Groups
    /\ bid2gid(LastBlock) \in Nat
<1>1. LastBlock \in Nat /\ bid2pid(LastBlock) \in Nat /\ bid2gid(LastBlock) \in Nat
   BY PageOfBlock
<1>2. ASSUME NEW b \in Blocks
      PROVE  /\ b \in Nat
             /\ bid2pid(b) \in Nat /\ bid2pid(b) <= bid2pid(LastBlock)
             /\ bid2gid(b) \in Nat /\ bid2gid(b) <= bid2gid(LastBlock)
  <2>1. b \in Nat /\ b <= LastBlock  BY DEF Blocks
  <2> QED  BY <2>1, <1>1, PageOfBlock, PageMonotone, GroupMonotone
<1> QED  BY <1>1, <1>2 DEF Inf, Pages, Groups

\* What a call in progress may be.
LEMMA OpFields ==
    ASSUME NEW o \in Op
    PROVE  /\ o.kind \in {"none", "checkout", "commit"}
           /\ o.start \in Nat /\ o.blockc \in Nat
           /\ o # NoOp => /\ o.kind \in {"checkout", "commit"}
                          /\ o.start \in Blocks
                          /\ o.blockc \in 1 .. BufLen + 1
                          /\ o.start + o.blockc - 1 \in Blocks
<1>1. CASE o = NoOp  BY <1>1 DEF NoOp
<1>2. CASE o # NoOp
  <2>1. PICK k \in {"checkout", "commit"}, r \in Ranges :
           o = [kind |-> k, start |-> r[1], blockc |-> r[2]]
     BY <1>2 DEF Op
  <2>2. /\ r[1] \in Blocks /\ r[2] \in 1 .. BufLen + 1
        /\ r[1] + r[2] - 1 \in Blocks
     OBVIOUS
  <2> QED  BY <2>1, <2>2 DEF Blocks
<1> QED  BY <1>1, <1>2

\* The file a call needs, and the groups it visits, are within the instance.
LEMMA CallReach ==
    ASSUME TypeOK, NEW p \in Procs, op[p] # NoOp
    PROVE  /\ NeededPages(p) \in Pages
           /\ LastGroup(p) \in Groups
           /\ LastGroup(p) = bid2gid(op[p].start + op[p].blockc - 1)
           /\ bid2gid(op[p].start) \in Groups
           /\ bid2gid(op[p].start) <= LastGroup(p)
<1>1. op[p] \in Op  BY DEF TypeOK, CallTypeOK
<1>2. /\ op[p].start \in Blocks /\ op[p].start + op[p].blockc - 1 \in Blocks
      /\ op[p].start \in Nat /\ op[p].blockc \in Nat /\ op[p].blockc >= 1
   BY <1>1, OpFields
<1> DEFINE e == op[p].start + op[p].blockc - 1
<1>3. bid2pid(e) < Inf /\ bid2pid(e) \in Pages /\ bid2gid(e) \in Groups
      /\ bid2gid(op[p].start) \in Groups
   BY <1>2, Ids
<1>4. bid2pid(e) + 1 \in Pages  BY <1>3, Ids DEF Pages
<1>5. op[p].start \in Nat /\ e \in Nat /\ op[p].start <= e  BY <1>2, Ids
<1>6. bid2gid(op[p].start) <= bid2gid(e)  BY <1>5, GroupMonotone
<1>7. bid2gid(op[p].start) \in Nat /\ bid2gid(e) \in Nat  BY <1>5, PageOfBlock
<1>8. LastGroup(p) = bid2gid(op[p].start) + (bid2gid(e) - bid2gid(op[p].start) + 1) - 1
   BY DEF LastGroup, descriptor_buffer_needed
<1>9. LastGroup(p) = bid2gid(e)  BY <1>7, <1>8
<1> QED  BY <1>3, <1>4, <1>6, <1>9 DEF NeededPages

\* The state of process q, as far as only q changes it.
Same(q) ==
    /\ pc'[q] = pc[q] /\ op'[q] = op[q] /\ idx'[q] = idx[q]
    /\ grp'[q] = grp[q] /\ eof'[q] = eof[q] /\ ret'[q] = ret[q]
    /\ udata'[q] = udata[q] /\ uver'[q] = uver[q] /\ bver'[q] = bver[q]
    /\ lk'[q] = lk[q]

\* The calls of fcntl that may fail, and those that set a lock.
Locking(p)   == EofLock(p) \/ BlocksLock(p) \/ GroupLock(p)
SetsLocks(p) == \/ Locking(p) \/ EofUnlock(p) \/ BlocksUnlock(p) \/ GroupUnlock(p)
                \/ GroupRecheck(p) \/ Kill(p)

\* A step of p touches the state of no other process, and each shared variable
\* has few actions that write it.
LEMMA Frame ==
    ASSUME TypeOK, NEW p \in Procs, Step(p) \/ User(p) \/ Kill(p)
    PROVE  /\ \A q \in Procs \ {p} : Same(q)
           /\ deadlkSeen' = deadlkSeen \/ (deadlkSeen' = TRUE /\ Locking(p))
           /\ size' = size \/ Truncate(p)
           /\ group' = group \/ Truncate(p) \/ GroupMagic(p) \/ GroupFlags(p)
           /\ data' = data \/ Truncate(p) \/ WriteData(p)
           /\ ver' = ver \/ Truncate(p) \/ WriteVersion(p)
           /\ lk' = lk \/ SetsLocks(p)
           /\ blockedOn' = blockedOn \/ SetsLocks(p) \/ Sleep(p)
           /\ udata' = udata \/ CopyData(p) \/ User(p) \/ Kill(p)
           /\ uver' = uver \/ CopyVersions(p) \/ User(p) \/ Kill(p)
           /\ bver' = bver \/ CompareVersions(p) \/ WriteVersion(p) \/ Kill(p)
           /\ (committed' = committed /\ torn' = torn) \/ WriteVersion(p) \/ Kill(p)
<1> USE DEF TypeOK, LockTypeOK, CallTypeOK, BufferTypeOK, HistoryTypeOK, Same,
            Locking, SetsLocks
<1>1. CASE Measure(p)
   BY <1>1 DEF Measure, AfterTruncate, Return, Goto, lockVars, bufVars,
      histVars, fileVars
<1>2. CASE EofCall(p)
   BY <1>2 DEF EofCall, Goto, lockVars, bufVars, histVars, fileVars
<1>3. CASE EofLock(p)
   BY <1>3 DEF EofLock, Goto, LockReturns, Granted, Deadlk, Ebadf, SetLock,
      lockVars, bufVars, histVars, fileVars
<1>4. CASE Remeasure(p)
   BY <1>4 DEF Remeasure, Goto, lockVars, bufVars, histVars, fileVars
<1>5. CASE Truncate(p)
   BY <1>5 DEF Truncate, Goto, lockVars, bufVars, histVars, fileVars
<1>6. CASE EofUnlock(p)
   BY <1>6 DEF EofUnlock, AfterTruncate, Return, Goto, Unlock, SetLock,
      lockVars, bufVars, histVars, fileVars
<1>7. CASE BlocksLock(p)
   BY <1>7 DEF BlocksLock, Goto, LockReturns, Granted, Deadlk, Ebadf, SetLock,
      lockVars, bufVars, histVars, fileVars
<1>8. CASE BlocksUnlock(p)
   BY <1>8 DEF BlocksUnlock, Goto, Unlock, SetLock, lockVars, bufVars,
      histVars, fileVars
<1>9. CASE Sleep(p)
   BY <1>9 DEF Sleep, lockVars, bufVars, histVars, fileVars
<1>10. CASE GroupCheck(p)
   BY <1>10 DEF GroupCheck, Goto, lockVars, bufVars, histVars, fileVars
<1>11. CASE GroupLock(p)
   BY <1>11 DEF GroupLock, Goto, LockReturns, Granted, Deadlk, Ebadf, SetLock,
      lockVars, bufVars, histVars, fileVars
<1>12. CASE GroupRecheck(p)
   BY <1>12 DEF GroupRecheck, Goto, Unlock, SetLock, lockVars, bufVars,
      histVars, fileVars
<1>13. CASE GroupMagic(p)
   BY <1>13 DEF GroupMagic, Goto, lockVars, bufVars, histVars, fileVars
<1>14. CASE GroupFlags(p)
   BY <1>14 DEF GroupFlags, Goto, lockVars, bufVars, histVars, fileVars
<1>15. CASE GroupUnlock(p)
   BY <1>15 DEF GroupUnlock, Goto, Unlock, SetLock, lockVars, bufVars,
      histVars, fileVars
<1>16. CASE GroupVerify(p)
   BY <1>16 DEF GroupVerify, Finish, Goto, lockVars, bufVars, histVars,
      fileVars
<1>17. CASE CopyData(p)
   BY <1>17 DEF CopyData, Goto, lockVars, bufVars, histVars, fileVars
<1>18. CASE CopyVersions(p)
   BY <1>18 DEF CopyVersions, Finish, Goto, lockVars, bufVars, histVars,
      fileVars
<1>19. CASE CompareVersions(p)
   BY <1>19 DEF CompareVersions, Finish, Goto, lockVars, bufVars, histVars,
      fileVars
<1>20. CASE WriteData(p)
   BY <1>20 DEF WriteData, Goto, lockVars, bufVars, histVars, fileVars
<1>21. CASE WriteVersion(p)
   BY <1>21 DEF WriteVersion, Finish, Goto, lockVars, bufVars, histVars,
      fileVars
<1>22. CASE User(p)
   BY <1>22 DEF User, odbb_checkout, odbb_commit, EditBuffer, AdoptVersions,
      Goto, lockVars, bufVars, histVars, fileVars
<1>23. CASE Kill(p)
   BY <1>23 DEF Kill, Goto, Unlock, SetLock, lockVars, bufVars, histVars,
      fileVars
<1> QED
   BY <1>1, <1>2, <1>3, <1>4, <1>5, <1>6, <1>7, <1>8, <1>9, <1>10, <1>11,
      <1>12, <1>13, <1>14, <1>15, <1>16, <1>17, <1>18, <1>19, <1>20, <1>21,
      <1>22, <1>23 DEF Step

\* Versions stay below VerMod when they wrap around.
LEMMA NextVersion ==
    /\ 0 \in Versions
    /\ \A v \in Versions : (v + 1) % VerMod \in Versions
<1>1. ASSUME NEW v \in Nat PROVE (v + 1) % VerMod \in 0 .. VerMod - 1
   OBVIOUS
<1> QED  BY <1>1 DEF Versions

\* What a step may rely on about the call it belongs to.
LEMMA CallFacts ==
    ASSUME TypeOK, Calls, NEW p \in Procs
    PROVE  /\ op[p] \in Op /\ NoOp \in Op
           /\ op[p].start \in Nat /\ op[p].blockc \in Nat /\ idx[p] \in Nat
           /\ pc[p] # "idle" => /\ op[p] # NoOp
                                /\ op[p].blockc >= 1
                                /\ NeededPages(p) \in Pages
                                /\ LastGroup(p) \in Groups
                                /\ bid2gid(op[p].start) \in Groups
                                /\ bid2gid(op[p].start) <= LastGroup(p)
                                /\ op[p].kind \in {"checkout", "commit"}
           /\ \A i \in Nat : i < op[p].blockc => BlockAt(p, i) \in Blocks
           /\ pc[p] \in {"lock", "unlock", "writedata", "writever"}
                => idx[p] < op[p].blockc
           /\ Inside(p) \/ pc[p] \in {"lock", "unlock"} => op[p].blockc <= BufLen
           /\ pc[p] \in {"writedata", "writever"} => idx[p] \in Slots
           /\ Inside(p) => grp[p] <= LastGroup(p)
           /\ grp[p] \in Groups /\ eof[p] \in Pages /\ 0 \in Pages /\ 0 \in Groups
           /\ \A i \in Slots : i \in Nat
<1>1. op[p] \in Op /\ NoOp \in Op /\ idx[p] \in Nat
   BY DEF TypeOK, CallTypeOK, Op
<1>2. pc[p] # "idle" => op[p] # NoOp  BY DEF Calls, CallOK
<1>3. ASSUME NEW i \in Nat, i < op[p].blockc PROVE BlockAt(p, i) \in Blocks
  <2>1. op[p] # NoOp  BY <1>3 DEF NoOp
  <2>2. op[p].start \in Blocks /\ op[p].start + op[p].blockc - 1 \in Blocks
        /\ op[p].blockc \in Nat
     BY <2>1, <1>1, OpFields
  <2> QED  BY <2>2, <1>3 DEF BlockAt, Blocks
<1>4. /\ pc[p] \in {"lock", "unlock", "writedata", "writever"}
           => idx[p] < op[p].blockc
      /\ Inside(p) \/ pc[p] \in {"lock", "unlock"} => op[p].blockc <= BufLen
      /\ Inside(p) => grp[p] <= LastGroup(p)
   BY DEF Calls, CallOK
<1>5. op[p].blockc \in Nat  BY <1>1, OpFields
<1>6. pc[p] \in {"writedata", "writever"} => idx[p] \in Slots
   BY <1>1, <1>4, <1>5 DEF Inside, Slots
<1>7. pc[p] # "idle" => op[p].blockc >= 1 /\ op[p].kind \in {"checkout", "commit"}
   BY <1>1, <1>2, OpFields
<1>8. op[p].start \in Nat  BY <1>1, OpFields
<1>9. /\ grp[p] \in Groups /\ eof[p] \in Pages /\ 0 \in Pages /\ 0 \in Groups
      /\ \A i \in Slots : i \in Nat
   BY Ids DEF TypeOK, CallTypeOK, Pages, Slots
<1> QED  BY <1>1, <1>2, <1>3, <1>4, <1>5, <1>6, <1>7, <1>8, <1>9, CallReach

\* Steps keep the type of the file.
LEMMA FileType ==
    ASSUME TypeOK, Calls, NEW p \in Procs, Step(p) \/ User(p) \/ Kill(p)
    PROVE  FileTypeOK'
<1> USE DEF FileTypeOK
<1>0. FileTypeOK  BY DEF TypeOK
<1>1. CASE Truncate(p)
  <2>1. NeededPages(p) \in Pages  BY <1>1, CallFacts DEF Truncate
  <2>2. NoGroup \in [magic : BOOLEAN, flags : BOOLEAN]  BY DEF NoGroup
  <2>3. CASE UNCHANGED fileVars  BY <2>3, <1>0 DEF fileVars
  <2>4. CASE ~UNCHANGED fileVars
    <3>1. /\ size'  = NeededPages(p)
          /\ data'  = [b \in Blocks |-> IF bid2pid(b) < size' THEN data[b] ELSE Zero]
          /\ group' = [g \in Groups |-> IF gid2pid(g) < size' THEN group[g] ELSE NoGroup]
          /\ ver'   = [b \in Blocks |-> IF gid2pid(bid2gid(b)) < size' THEN ver[b] ELSE 0]
       BY <1>1, <2>4 DEF Truncate
    <3>2. data' \in [Blocks -> Data]  BY <3>1, <1>0
    <3>3. group' \in [Groups -> [magic : BOOLEAN, flags : BOOLEAN]]
       BY <3>1, <1>0, <2>2
    <3>4. ver' \in [Blocks -> Versions]  BY <3>1, <1>0, NextVersion
    <3> QED  BY <3>1, <3>2, <3>3, <3>4, <2>1
  <2> QED  BY <2>3, <2>4
<1>2. CASE GroupMagic(p) \/ GroupFlags(p)
  <2>1. group' \in [Groups -> [magic : BOOLEAN, flags : BOOLEAN]]
    <3>1. group \in [Groups -> [magic : BOOLEAN, flags : BOOLEAN]]  BY <1>0
    <3>2. CASE GroupMagic(p)
      <4>1. group' = [group EXCEPT ![grp[p]] = [group[grp[p]] EXCEPT !.magic = TRUE]]
         BY <3>2 DEF GroupMagic
      <4>2. \A x \in [magic : BOOLEAN, flags : BOOLEAN] :
              [x EXCEPT !.magic = TRUE] \in [magic : BOOLEAN, flags : BOOLEAN]
         OBVIOUS
      <4> QED  BY ONLY <3>1, <4>1, <4>2
    <3>3. CASE GroupFlags(p)
      <4>1. group' = [group EXCEPT ![grp[p]] = [group[grp[p]] EXCEPT !.flags = TRUE]]
         BY <3>3 DEF GroupFlags
      <4>2. \A x \in [magic : BOOLEAN, flags : BOOLEAN] :
              [x EXCEPT !.flags = TRUE] \in [magic : BOOLEAN, flags : BOOLEAN]
         OBVIOUS
      <4> QED  BY ONLY <3>1, <4>1, <4>2
    <3> QED  BY <1>2, <3>2, <3>3
  <2>2. UNCHANGED <<size, data, ver>>  BY <1>2 DEF GroupMagic, GroupFlags
  <2> QED  BY <2>1, <2>2, <1>0
<1>3. CASE WriteData(p)
  <2>1. idx[p] \in Slots  BY <1>3, CallFacts DEF WriteData
  <2>2. udata[p][idx[p]] \in Data  BY <2>1 DEF TypeOK, BufferTypeOK
  <2>3. data' \in [Blocks -> Data]  BY <1>3, <1>0, <2>2 DEF WriteData
  <2>4. UNCHANGED <<size, group, ver>>  BY <1>3 DEF WriteData
  <2> QED  BY <2>3, <2>4, <1>0
<1>4. CASE WriteVersion(p)
  <2>1. BlockAt(p, idx[p]) \in Blocks  BY <1>4, CallFacts DEF WriteVersion
  <2>2. (ver[BlockAt(p, idx[p])] + 1) % VerMod \in Versions
     BY <2>1, <1>0, NextVersion
  <2>3. ver' \in [Blocks -> Versions]  BY <1>4, <1>0, <2>2 DEF WriteVersion
  <2>4. UNCHANGED <<size, group, data>>  BY <1>4 DEF WriteVersion
  <2> QED  BY <2>3, <2>4, <1>0
<1>5. CASE UNCHANGED fileVars  BY <1>5, <1>0 DEF fileVars
<1> QED  BY <1>1, <1>2, <1>3, <1>4, <1>5, Frame DEF fileVars

\* Steps keep the type of the lock table.
LEMMA LockType ==
    ASSUME TypeOK, NEW p \in Procs, Step(p) \/ User(p) \/ Kill(p)
    PROVE  LockTypeOK'
<1> USE DEF LockTypeOK
<1>0. LockTypeOK  BY DEF TypeOK
<1>1. ASSUME NEW S, NEW m \in {"none", "read", "write"}, SetLock(p, S, m)
      PROVE  LockTypeOK'
  <2>1. lk' \in [Procs -> [Pages -> {"none", "read", "write"}]]
     BY <1>1, <1>0 DEF SetLock
  <2>2. blockedOn' \in [Procs -> Procs \cup {None}]  BY <1>1, <1>0 DEF SetLock
  <2> QED  BY <2>1, <2>2
<1>2. CASE UNCHANGED lockVars  BY <1>2, <1>0 DEF lockVars
<1>3. CASE Locking(p)
  <2>1. LockReturns(p)  BY <1>3 DEF Locking, EofLock, BlocksLock, GroupLock
  <2>2. CASE Granted(p)
    <3>1. SetLock(p, Request(p), Mode(p)) /\ Mode(p) \in {"none", "read", "write"}
       BY <2>2 DEF Granted, Mode
    <3> QED  BY <3>1, <1>1
  <2> QED  BY <2>1, <2>2, <1>2 DEF LockReturns, Deadlk, Ebadf, lockVars
<1>4. CASE EofUnlock(p) \/ BlocksUnlock(p) \/ GroupUnlock(p) \/ GroupRecheck(p) \/ Kill(p)
  <2>1. UNCHANGED lockVars \/ \E S : SetLock(p, S, "none")
     BY <1>4 DEF EofUnlock, BlocksUnlock, GroupUnlock, GroupRecheck, Kill, Unlock
  <2> QED  BY <2>1, <1>1, <1>2
<1>5. CASE Sleep(p)
  <2>1. PICK q \in Procs : blockedOn' = [blockedOn EXCEPT ![p] = q]
     BY <1>5 DEF Sleep, Blockers
  <2> QED  BY <1>5, <2>1, <1>0 DEF Sleep
<1> QED  BY <1>2, <1>3, <1>4, <1>5, Frame DEF SetsLocks, lockVars

\* Steps keep the type of the calls.
LEMMA CallType ==
    ASSUME TypeOK, Calls, NEW p \in Procs, Step(p) \/ User(p) \/ Kill(p)
    PROVE  CallTypeOK'
<1>d. ASSUME NEW k \in {"checkout", "commit"}, NEW r \in Ranges
      PROVE  [kind |-> k, start |-> r[1], blockc |-> r[2]] \in Op
  <2>1. [kind |-> k, start |-> r[1], blockc |-> r[2]] \in
          { [kind |-> kk, start |-> rr[1], blockc |-> rr[2]] :
              kk \in {"checkout", "commit"}, rr \in Ranges }
     OBVIOUS
  <2> QED  BY <2>1 DEF Op
<1> USE DEF CallTypeOK, Labels, Errors
<1>a. /\ CallTypeOK /\ size \in Pages /\ 0 \in Pages /\ 0 \in Groups /\ NoOp \in Op
      /\ idx[p] + 1 \in Nat
   BY CallFacts DEF TypeOK, FileTypeOK
<1>b. pc[p] # "idle" => bid2gid(op[p].start) \in Groups  BY CallFacts
<1>c. Inside(p) /\ grp[p] < LastGroup(p) => grp[p] + 1 \in Groups
  <2>1. Inside(p) => LastGroup(p) \in Groups  BY CallFacts DEF Inside
  <2>2. grp[p] \in Groups /\ bid2gid(LastBlock) \in Nat  BY CallFacts, Ids
  <2> QED  BY <2>1, <2>2 DEF Groups
<1>1. CASE Measure(p)
   BY <1>1, <1>a, <1>b DEF Measure, AfterTruncate, Return, Goto
<1>2. CASE EofCall(p)
   BY <1>2, <1>a DEF EofCall, Goto
<1>3. CASE EofLock(p)
   BY <1>3, <1>a DEF EofLock, Goto
<1>4. CASE Remeasure(p)
   BY <1>4, <1>a DEF Remeasure, Goto
<1>5. CASE Truncate(p)
   BY <1>5, <1>a DEF Truncate, Goto
<1>6. CASE EofUnlock(p)
  <2>0. pc[p] # "idle" /\ eof' = [eof EXCEPT ![p] = 0]  BY <1>6 DEF EofUnlock
  <2>1. CASE AfterTruncate(p)
     BY <2>0, <2>1, <1>a, <1>b DEF AfterTruncate, Return, Goto
  <2>2. CASE Return(p, "ENOSPACE") /\ UNCHANGED <<idx, grp>>
     BY <1>6, <2>2, <1>a DEF EofUnlock, Return
  <2> QED  BY <1>6, <2>1, <2>2 DEF EofUnlock
<1>7. CASE BlocksLock(p)
   BY <1>7, <1>a DEF BlocksLock, Goto
<1>8. CASE BlocksUnlock(p)
   BY <1>8, <1>a DEF BlocksUnlock, Goto
<1>9. CASE Sleep(p)
   BY <1>9, <1>a DEF Sleep
<1>10. CASE GroupCheck(p)
   BY <1>10, <1>a DEF GroupCheck, Goto
<1>11. CASE GroupLock(p)
   BY <1>11, <1>a DEF GroupLock, Goto
<1>12. CASE GroupRecheck(p)
   BY <1>12, <1>a DEF GroupRecheck, Goto
<1>13. CASE GroupMagic(p)
   BY <1>13, <1>a DEF GroupMagic, Goto
<1>14. CASE GroupFlags(p)
   BY <1>14, <1>a DEF GroupFlags, Goto
<1>15. CASE GroupUnlock(p)
   BY <1>15, <1>a DEF GroupUnlock, Goto
<1>16. CASE GroupVerify(p)
   BY <1>16, <1>a, <1>c DEF GroupVerify, Finish, Goto, Inside
<1>17. CASE CopyData(p)
   BY <1>17, <1>a DEF CopyData, Goto
<1>18. CASE CopyVersions(p)
   BY <1>18, <1>a, <1>c DEF CopyVersions, Finish, Goto, Inside
<1>19. CASE CompareVersions(p)
   BY <1>19, <1>a DEF CompareVersions, Finish, Goto
<1>20. CASE WriteData(p)
   BY <1>20, <1>a DEF WriteData, Goto
<1>21. CASE WriteVersion(p)
   BY <1>21, <1>a DEF WriteVersion, Finish, Goto
<1>22. CASE User(p)
   BY <1>22, <1>a, <1>d DEF User, odbb_checkout, odbb_commit, EditBuffer,
      AdoptVersions, Goto
<1>23. CASE Kill(p)
   BY <1>23, <1>a DEF Kill, Goto
<1> QED
   BY <1>1, <1>2, <1>3, <1>4, <1>5, <1>6, <1>7, <1>8, <1>9, <1>10, <1>11,
      <1>12, <1>13, <1>14, <1>15, <1>16, <1>17, <1>18, <1>19, <1>20, <1>21,
      <1>22, <1>23 DEF Step

\* Steps keep the type of the buffers.
LEMMA BufferType ==
    ASSUME TypeOK, Calls, NEW p \in Procs, Step(p) \/ User(p) \/ Kill(p)
    PROVE  BufferTypeOK'
<1> USE DEF BufferTypeOK
<1>0. BufferTypeOK /\ FileTypeOK  BY DEF TypeOK
<1>1. \A i \in Slots : i < op[p].blockc => /\ BlockAt(p, i) \in Blocks
                                           /\ data[BlockAt(p, i)] \in Data
                                           /\ ver[BlockAt(p, i)] \in Versions
   BY <1>0, CallFacts DEF FileTypeOK
<1>2. CASE CopyData(p)
  <2>1. udata' \in [Procs -> [Slots -> Data]]  BY <1>0, <1>1, <1>2 DEF CopyData, InGroup
  <2> QED  BY <2>1, <1>2, <1>0 DEF CopyData
<1>3. CASE CopyVersions(p)
  <2>1. uver' \in [Procs -> [Slots -> Versions]]  BY <1>0, <1>1, <1>3 DEF CopyVersions, InGroup
  <2> QED  BY <2>1, <1>3, <1>0 DEF CopyVersions
<1>4. CASE CompareVersions(p)
  <2>1. bver' \in [Procs -> [Slots -> Versions]]  BY <1>0, <1>1, <1>4 DEF CompareVersions
  <2> QED  BY <2>1, <1>4, <1>0 DEF CompareVersions
<1>5. CASE WriteVersion(p)
  <2>1. ver'[BlockAt(p, idx[p])] \in Versions
     BY <1>5, FileType, CallFacts DEF WriteVersion, FileTypeOK
  <2>2. bver' \in [Procs -> [Slots -> Versions]]  BY <1>0, <2>1, <1>5 DEF WriteVersion
  <2> QED  BY <2>2, <1>5, <1>0 DEF WriteVersion
<1>6. CASE User(p)
  <2>1. CASE \E d \in Data : EditBuffer(p, d)
    <3>1. udata' \in [Procs -> [Slots -> Data]]  BY <2>1, <1>0 DEF EditBuffer
    <3> QED  BY <3>1, <2>1, <1>0 DEF EditBuffer
  <2>2. CASE AdoptVersions(p)
    <3>1. uver' \in [Procs -> [Slots -> Versions]]  BY <2>2, <1>0 DEF AdoptVersions
    <3> QED  BY <3>1, <2>2, <1>0 DEF AdoptVersions
  <2> QED  BY <1>6, <2>1, <2>2, <1>0 DEF User, odbb_checkout, odbb_commit, bufVars
<1>7. CASE Kill(p)  BY <1>7, <1>0, NextVersion DEF Kill
<1>8. CASE UNCHANGED bufVars  BY <1>8, <1>0 DEF bufVars
<1> QED  BY <1>2, <1>3, <1>4, <1>5, <1>6, <1>7, <1>8, Frame DEF bufVars

\* Slots and blocks of a call correspond.
LEMMA ExtentSlots ==
    ASSUME TypeOK, Calls, NEW p \in Procs
    PROVE  /\ \A i \in Slots : i < op[p].blockc => BlockAt(p, i) \in Extent(p)
           /\ \A b \in Extent(p) : /\ b \in Blocks /\ b - op[p].start \in Nat
                                   /\ b - op[p].start < op[p].blockc
                                   /\ b = BlockAt(p, b - op[p].start)
           /\ op[p].blockc <= BufLen =>
                \A b \in Extent(p) : b - op[p].start \in Slots
<1>1. op[p].start \in Nat /\ op[p].blockc \in Nat  BY CallFacts
<1>2. \A i \in Nat : i < op[p].blockc => BlockAt(p, i) \in Blocks  BY CallFacts
<1>3. \A b \in Blocks : b \in Nat  BY Ids
<1>4. ASSUME NEW i \in Slots, i < op[p].blockc PROVE BlockAt(p, i) \in Extent(p)
  <2>1. i \in Nat  BY DEF Slots
  <2>2. BlockAt(p, i) \in Blocks  BY <1>2, <1>4, <2>1
  <2> QED  BY <2>1, <2>2, <1>1, <1>4 DEF BlockAt, Extent
<1>5. ASSUME NEW b \in Extent(p)
      PROVE  /\ b \in Blocks /\ b - op[p].start \in Nat
             /\ b - op[p].start < op[p].blockc
             /\ b = BlockAt(p, b - op[p].start)
             /\ op[p].blockc <= BufLen => b - op[p].start \in Slots
  <2>1. b \in Blocks /\ b \in Nat /\ op[p].start <= b /\ b < op[p].start + op[p].blockc
     BY <1>3 DEF Extent
  <2> QED  BY <2>1, <1>1 DEF BlockAt, Slots
<1> QED  BY <1>4, <1>5

\* Steps keep the type of the history.
LEMMA HistoryType ==
    ASSUME TypeOK, Calls, NEW p \in Procs, Step(p) \/ User(p) \/ Kill(p)
    PROVE  HistoryTypeOK'
<1> USE DEF HistoryTypeOK
<1>0. HistoryTypeOK  BY DEF TypeOK
<1>1. deadlkSeen' \in BOOLEAN  BY <1>0, Frame
<1>2. CASE WriteVersion(p)
  <2>1. \A b \in Extent(p) : b - op[p].start \in Slots
     BY <1>2, ExtentSlots, CallFacts DEF WriteVersion, Inside
  <2>2. \A b \in Extent(p) : /\ udata[p][b - op[p].start] \in Data
                             /\ (uver[p][b - op[p].start] + 1) % VerMod \in Versions
     BY <2>1, NextVersion DEF TypeOK, BufferTypeOK
  <2>3. CASE UNCHANGED <<committed, torn>>  BY <2>3, <1>0, <1>1
  <2>4. CASE /\ committed' = [b \in Blocks |->
                    IF b \in Extent(p)
                    THEN [data |-> udata[p][b - op[p].start],
                          ver  |-> (uver[p][b - op[p].start] + 1) % VerMod]
                    ELSE committed[b]]
             /\ torn' = torn \ Extent(p)
    <3>1. committed' \in [Blocks -> [data : Data, ver : Versions]]
       BY <2>4, <2>2, <1>0
    <3> QED  BY <3>1, <2>4, <1>0, <1>1
  <2> QED  BY <1>2, <2>3, <2>4 DEF WriteVersion, histVars
<1>3. CASE Kill(p)  BY <1>3, <1>0, <1>1 DEF Kill, Extent
<1> QED  BY <1>0, <1>1, <1>2, <1>3, Frame

\* Every step keeps the types.
LEMMA TypeStep ==
    ASSUME TypeOK, Calls, NEW p \in Procs, Step(p) \/ User(p) \/ Kill(p)
    PROVE  TypeOK'
BY FileType, LockType, CallType, BufferType, HistoryType DEF TypeOK
-----------------------------------------------------------------------------
(* The parts of the invariant *)

\* Steps keep the call of each process in order.
LEMMA CallsStep ==
    ASSUME TypeOK, Calls, NEW p \in Procs, Step(p) \/ User(p) \/ Kill(p)
    PROVE  Calls'
<1>1. SUFFICES ASSUME NEW q \in Procs PROVE CallOK(q)'  BY DEF Calls
<1>2. CASE q # p
  <2>1. Same(q) /\ CallOK(q)  BY <1>2, Frame DEF Calls
  <2> QED  BY <2>1 DEF Same, CallOK, Inside, LastGroup
<1>3. CASE q = p
  <2> SUFFICES CallOK(p)'  BY <1>3
  <2> USE DEF CallTypeOK, CallOK, Inside
  <2>a. CallTypeOK /\ CallOK(p)  BY DEF TypeOK, Calls
  <2>b. pc[p] # "idle" => /\ op[p] # NoOp
                          /\ op[p].blockc >= 1
                          /\ bid2gid(op[p].start) <= LastGroup(p)
     BY CallFacts
  <2>c. op[p].blockc \in Nat /\ idx[p] \in Nat /\ grp[p] \in Nat
     BY CallFacts, Ids
  <2>d. pc[p] # "idle" => LastGroup(p) \in Nat  BY CallFacts, Ids
  <2>e. NoOp.kind = "none"  BY DEF NoOp
  <2>f. op' = op => LastGroup(p)' = LastGroup(p)  BY DEF LastGroup
  <2>1. CASE Measure(p)
    <3>1. CASE AfterTruncate(p)
      <4>1. pc[p] # "idle"  BY <2>1 DEF Measure
      <4>2. op[p].kind \in {"checkout", "commit"}  BY <4>1, CallFacts
      <4> QED  BY <3>1, <4>1, <4>2, <2>a, <2>b, <2>c, <2>e DEF AfterTruncate, Return, Goto
    <3>2. CASE ~AfterTruncate(p)
       BY <2>1, <3>2, <2>a, <2>b, <2>c, <2>e DEF Measure, Return, Goto
    <3> QED  BY <3>1, <3>2
  <2>2. CASE EofCall(p)
     BY <2>2, <2>a, <2>b, <2>c, <2>d, <2>e, <2>f DEF EofCall, Goto
  <2>3. CASE EofLock(p)
     BY <2>3, <2>a, <2>b, <2>c, <2>d, <2>e, <2>f DEF EofLock, Goto
  <2>4. CASE Remeasure(p)
     BY <2>4, <2>a, <2>b, <2>c, <2>d, <2>e, <2>f DEF Remeasure, Goto
  <2>5. CASE Truncate(p)
     BY <2>5, <2>a, <2>b, <2>c, <2>d, <2>e, <2>f DEF Truncate, Goto
  <2>6. CASE EofUnlock(p)
    <3>1. CASE AfterTruncate(p)
      <4>1. pc[p] # "idle"  BY <2>6 DEF EofUnlock
      <4>2. op[p].kind \in {"checkout", "commit"}  BY <4>1, CallFacts
      <4> QED  BY <3>1, <4>1, <4>2, <2>a, <2>b, <2>c, <2>e DEF AfterTruncate, Return, Goto
    <3>2. CASE ~AfterTruncate(p)
       BY <2>6, <3>2, <2>a, <2>b, <2>c, <2>e DEF EofUnlock, Return
    <3> QED  BY <3>1, <3>2
  <2>7. CASE BlocksLock(p)
     BY <2>7, <2>a, <2>b, <2>c, <2>d, <2>e, <2>f DEF BlocksLock, Goto
  <2>8. CASE BlocksUnlock(p)
     BY <2>8, <2>a, <2>b, <2>c, <2>d, <2>e, <2>f DEF BlocksUnlock, Goto
  <2>9. CASE Sleep(p)
     BY <2>9, <2>a, <2>b, <2>c, <2>d, <2>e, <2>f DEF Sleep
  <2>10. CASE GroupCheck(p)
     BY <2>10, <2>a, <2>b, <2>c, <2>d, <2>e, <2>f DEF GroupCheck, Goto
  <2>11. CASE GroupLock(p)
     BY <2>11, <2>a, <2>b, <2>c, <2>d, <2>e, <2>f DEF GroupLock, Goto
  <2>12. CASE GroupRecheck(p)
     BY <2>12, <2>a, <2>b, <2>c, <2>d, <2>e, <2>f DEF GroupRecheck, Goto
  <2>13. CASE GroupMagic(p)
     BY <2>13, <2>a, <2>b, <2>c, <2>d, <2>e, <2>f DEF GroupMagic, Goto
  <2>14. CASE GroupFlags(p)
     BY <2>14, <2>a, <2>b, <2>c, <2>d, <2>e, <2>f DEF GroupFlags, Goto
  <2>15. CASE GroupUnlock(p)
     BY <2>15, <2>a, <2>b, <2>c, <2>d, <2>e, <2>f DEF GroupUnlock, Goto
  <2>16. CASE GroupVerify(p)
    <3>1. CASE Finish(p, "ENOTDB")
       BY <2>16, <3>1, <2>a, <2>b, <2>c DEF GroupVerify, Finish, Goto
    <3>2. CASE /\ Goto(p, "gcheck") /\ grp[p] < LastGroup(p)
               /\ grp' = [grp EXCEPT ![p] = grp[p] + 1]
               /\ UNCHANGED <<op, idx>>
      <4>1. pc[p] = "gverify"  BY <2>16 DEF GroupVerify
      <4>2. grp'[p] = grp[p] + 1 /\ pc'[p] = "gcheck" /\ op'[p] = op[p] /\ idx'[p] = 0
         BY <3>2, <4>1, <2>a DEF Goto
      <4>3. /\ LastGroup(p)' = LastGroup(p) /\ LastGroup(p) \in Nat
            /\ bid2gid(op[p].start) \in Nat
         BY <3>2, <4>1, <2>d, <2>f, CallFacts, Ids
      <4>4. bid2gid(op[p].start) <= grp[p]  BY <4>1, <2>a
      <4>5. bid2gid(op[p].start) <= grp[p] + 1 /\ grp[p] + 1 <= LastGroup(p)
         BY <3>2, <4>3, <4>4, <2>c
      <4> QED  BY <4>1, <4>2, <4>3, <4>5, <2>a, <2>b
    <3>3. CASE /\ \/ Goto(p, "copydata") /\ op[p].kind = "checkout"
                  \/ Goto(p, "compare") /\ op[p].kind = "commit"
               /\ UNCHANGED <<op, idx, grp>>
       BY <2>16, <3>3, <2>a, <2>b, <2>c, <2>d, <2>f DEF GroupVerify, Goto
    <3>4. op[p].kind \in {"checkout", "commit"}  BY <2>16, CallFacts DEF GroupVerify
    <3> QED  BY <2>16, <3>1, <3>2, <3>3, <3>4 DEF GroupVerify
  <2>17. CASE CopyData(p)
     BY <2>17, <2>a, <2>b, <2>c, <2>d, <2>e, <2>f DEF CopyData, Goto
  <2>18. CASE CopyVersions(p)
    <3>1. CASE Finish(p, "OK")
       BY <2>18, <3>1, <2>a, <2>b, <2>c DEF CopyVersions, Finish, Goto
    <3>2. CASE /\ Goto(p, "gcheck") /\ grp[p] < LastGroup(p)
               /\ grp' = [grp EXCEPT ![p] = grp[p] + 1]
               /\ UNCHANGED <<op, idx>>
      <4>1. pc[p] = "copyver"  BY <2>18 DEF CopyVersions
      <4>2. grp'[p] = grp[p] + 1 /\ pc'[p] = "gcheck" /\ op'[p] = op[p] /\ idx'[p] = 0
         BY <3>2, <4>1, <2>a DEF Goto
      <4>3. /\ LastGroup(p)' = LastGroup(p) /\ LastGroup(p) \in Nat
            /\ bid2gid(op[p].start) \in Nat
         BY <3>2, <4>1, <2>d, <2>f, CallFacts, Ids
      <4>4. bid2gid(op[p].start) <= grp[p]  BY <4>1, <2>a
      <4>5. bid2gid(op[p].start) <= grp[p] + 1 /\ grp[p] + 1 <= LastGroup(p)
         BY <3>2, <4>3, <4>4, <2>c
      <4> QED  BY <4>1, <4>2, <4>3, <4>5, <2>a, <2>b
    <3> QED  BY <2>18, <3>1, <3>2 DEF CopyVersions
  <2>19. CASE CompareVersions(p)
     BY <2>19, <2>a, <2>b, <2>c, <2>d, <2>e, <2>f DEF CompareVersions, Finish,
        Goto
  <2>20. CASE WriteData(p)
     BY <2>20, <2>a, <2>b, <2>c, <2>d, <2>e, <2>f DEF WriteData, Goto
  <2>21. CASE WriteVersion(p)
     BY <2>21, <2>a, <2>b, <2>c, <2>d, <2>e, <2>f DEF WriteVersion, Finish,
        Goto
  <2>22. CASE User(p)
    <3>1. CASE \E r \in Ranges : odbb_checkout(p, r) \/ odbb_commit(p, r)
      <4>1. PICK r \in Ranges : odbb_checkout(p, r) \/ odbb_commit(p, r)  BY <3>1
      <4>2. \A k \in {"checkout", "commit"} :
              [kind |-> k, start |-> r[1], blockc |-> r[2]] # NoOp
         BY DEF NoOp
      <4> QED  BY <4>1, <4>2, <2>a DEF odbb_checkout, odbb_commit, Goto
    <3>2. CASE (\E d \in Data : EditBuffer(p, d)) \/ AdoptVersions(p)
       BY <3>2, <2>a DEF EditBuffer, AdoptVersions
    <3> QED  BY <2>22, <3>1, <3>2 DEF User
  <2>23. CASE Kill(p)
     BY <2>23, <2>a, <2>b, <2>c, <2>d, <2>e, <2>f DEF Kill, Goto
  <2> QED
     BY <1>3, <2>1, <2>2, <2>3, <2>4, <2>5, <2>6, <2>7, <2>8, <2>9, <2>10,
        <2>11, <2>12, <2>13, <2>14, <2>15, <2>16, <2>17, <2>18, <2>19, <2>20,
        <2>21, <2>22, <2>23 DEF Step
<1> QED  BY <1>2, <1>3

\* The lock a process may add to the table clashes with nobody's.
LEMMA LockEffect ==
    ASSUME TypeOK, NEW p \in Procs, Step(p) \/ User(p) \/ Kill(p)
    PROVE  \/ lk'[p] = lk[p]
           \/ \E S, m : /\ lk'[p] = [x \in Pages |-> IF x \in S THEN m ELSE lk[p][x]]
                        /\ \A q \in Procs \ {p}, x \in S : ~Clash(m, lk[q][x])
<1>0. lk \in [Procs -> [Pages -> {"none", "read", "write"}]]
   BY DEF TypeOK, LockTypeOK
<1>1. CASE Locking(p)
  <2>1. LockReturns(p)  BY <1>1 DEF Locking, EofLock, BlocksLock, GroupLock
  <2>2. CASE Granted(p)
    <3>1. lk'[p] = [x \in Pages |-> IF x \in Request(p) THEN Mode(p) ELSE lk[p][x]]
       BY <2>2, <1>0 DEF Granted, SetLock
    <3>2. \A q \in Procs \ {p}, x \in Request(p) : ~Clash(Mode(p), lk[q][x])
       BY <2>2 DEF Granted, Blockers
    <3> QED  BY <3>1, <3>2
  <2> QED  BY <2>1, <2>2 DEF LockReturns, Deadlk, Ebadf, lockVars
<1>2. CASE EofUnlock(p) \/ BlocksUnlock(p) \/ GroupUnlock(p) \/ GroupRecheck(p) \/ Kill(p)
  <2>1. UNCHANGED lockVars \/ \E S : SetLock(p, S, "none")
     BY <1>2 DEF EofUnlock, BlocksUnlock, GroupUnlock, GroupRecheck, Kill, Unlock
  <2>2. ASSUME NEW S, SetLock(p, S, "none")
        PROVE  lk'[p] = [x \in Pages |-> IF x \in S THEN "none" ELSE lk[p][x]]
     BY <2>2, <1>0 DEF SetLock
  <2>3. \A n : ~Clash("none", n)  BY DEF Clash
  <2> QED  BY <2>1, <2>2, <2>3 DEF lockVars
<1> QED  BY <1>1, <1>2, Frame DEF SetsLocks

\* Steps keep the lock table free of clashes.
LEMMA LockTableStep ==
    ASSUME TypeOK, LockTable, NEW p \in Procs, Step(p) \/ User(p) \/ Kill(p)
    PROVE  LockTable'
<1>1. ASSUME NEW q \in Procs \ {p}, NEW x \in Pages
      PROVE  ~Clash(lk'[p][x], lk[q][x])
  <2>1. ~Clash(lk[p][x], lk[q][x])  BY DEF LockTable
  <2>2. CASE lk'[p] = lk[p]  BY <2>1, <2>2
  <2>3. CASE lk'[p] # lk[p]
    <3>1. PICK S, m : /\ lk'[p] = [y \in Pages |-> IF y \in S THEN m ELSE lk[p][y]]
                      /\ \A r \in Procs \ {p}, y \in S : ~Clash(m, lk[r][y])
       BY <2>3, LockEffect
    <3>2. CASE x \in S  BY <3>1, <3>2
    <3>3. CASE x \notin S  BY <3>1, <3>3, <2>1
    <3> QED  BY <3>2, <3>3
  <2> QED  BY <2>2, <2>3
<1>2. \A q \in Procs \ {p} : lk'[q] = lk[q]  BY Frame DEF Same
<1>3. SUFFICES ASSUME NEW a \in Procs, NEW b \in Procs, a # b, NEW x \in Pages
               PROVE  ~Clash(lk'[a][x], lk'[b][x])
   BY DEF LockTable, Clash
<1>4. \A m, n : Clash(m, n) <=> Clash(n, m)  BY DEF Clash
<1>5. CASE a = p  BY <1>1, <1>2, <1>3, <1>5
<1>6. CASE b = p  BY <1>1, <1>2, <1>3, <1>4, <1>6
<1>7. CASE a # p /\ b # p  BY <1>2, <1>3, <1>7 DEF LockTable
<1> QED  BY <1>5, <1>6, <1>7

\* A lock call of a call in progress that does not end in EDEADLK has set
\* the lock it asked for; readers ask for no write lock but that on a
\* descriptor page.
LEMMA LockGranted ==
    ASSUME TypeOK, Calls, NEW p \in Procs, Locking(p), ~deadlkSeen',
           ~GroupLock(p)
    PROVE  lk'[p] = [x \in Pages |-> IF x \in Request(p) THEN Mode(p) ELSE lk[p][x]]
<1>0. lk \in [Procs -> [Pages -> {"none", "read", "write"}]]
   BY DEF TypeOK, LockTypeOK
<1>1. LockReturns(p)  BY DEF Locking, EofLock, BlocksLock
<1>2. CASE Granted(p)  BY <1>2, <1>0 DEF Granted, SetLock
<1>3. CASE Deadlk(p)  BY <1>3 DEF Deadlk
<1>4. CASE p \notin Writers /\ Mode(p) = "write"
  <2>1. CallOK(p)  BY DEF Calls
  <2>2. CASE EofLock(p)  BY <2>1, <2>2, <1>4 DEF EofLock, CallOK
  <2>3. CASE BlocksLock(p)
    <3>1. pc[p] = "lock" /\ op[p].kind = "commit"
       BY <2>3, <1>4, CallFacts DEF BlocksLock, Mode
    <3> QED  BY <3>1, <2>1, <1>4 DEF CallOK
  <2> QED  BY <2>2, <2>3 DEF Locking
<1> QED  BY <1>1, <1>2, <1>3, <1>4 DEF LockReturns

\* Steps keep the locks on the blocks of a call: a group descriptor is locked
\* and unlocked on a page of its own.
LEMMA BlocksLockedStep ==
    ASSUME TypeOK, Calls, BlocksLocked, ~deadlkSeen',
           NEW p \in Procs, Step(p) \/ User(p) \/ Kill(p)
    PROVE  BlocksLocked'
<1>1. SUFFICES ASSUME NEW q \in Procs PROVE LocksBlocks(q)'  BY DEF BlocksLocked
<1>2. CASE q # p
  <2>1. Same(q) /\ LocksBlocks(q)  BY <1>2, Frame DEF BlocksLocked
  <2> QED  BY <2>1 DEF Same, LocksBlocks, LockFor, Extent, Inside
<1>3. CASE q = p
  <2> SUFFICES LocksBlocks(p)'  BY <1>3
  <2>a. CallTypeOK /\ LockTypeOK /\ LocksBlocks(p)  BY DEF TypeOK, BlocksLocked
  <2>b. op[p].start \in Nat /\ op[p].blockc \in Nat /\ idx[p] \in Nat
     BY CallFacts
  <2>c. \A b \in Blocks : b \in Nat /\ bid2pid(b) \in Pages  BY Ids
  <2>d. grp[p] \in Nat  BY CallFacts, Ids
  <2>e. \A b \in Blocks : bid2pid(b) # gid2pid(grp[p])
     BY <2>c, <2>d, NeverOnDescriptor
  <2>f. ASSUME NEW b \in Blocks,
               GroupLock(p) \/ GroupUnlock(p)
                 \/ (lk'[p] = lk[p] /\ ~EofUnlock(p) /\ ~Locking(p))
        PROVE  lk'[p][bid2pid(b)] = lk[p][bid2pid(b)]
    <3>1. CASE GroupLock(p)
      <4>1. Request(p) = {gid2pid(grp[p])}  BY <3>1 DEF GroupLock, Request
      <4> QED
         BY <3>1, <4>1, <2>a, <2>c, <2>e DEF GroupLock, LockReturns, Granted, Deadlk, Ebadf,
            SetLock, LockTypeOK, lockVars
    <3>2. CASE GroupUnlock(p)
       BY <3>2, <2>a, <2>c, <2>e DEF GroupUnlock, Unlock, SetLock, LockTypeOK
    <3> QED  BY <2>f, <3>1, <3>2
  <2>g. ASSUME Inside(p), UNCHANGED op, pc'[p] # "lock",
               \A b \in Blocks : lk'[p][bid2pid(b)] = lk[p][bid2pid(b)]
        PROVE  LocksBlocks(p)'
     BY <2>g, <2>a DEF LocksBlocks, LockFor, Extent, Inside
  <2>h. ASSUME pc'[p] \in {"idle", "dead", "measure", "eofcall", "eoflock", "remeasure",
                           "truncate", "eofunlock", "eofunlockerr"}
        PROVE  LocksBlocks(p)'
     BY <2>h DEF LocksBlocks, Inside
  <2>i. ASSUME pc'[p] = "lock", idx'[p] = 0, UNCHANGED op PROVE LocksBlocks(p)'
    <3>1. \A b \in Extent(p)' : ~(b < op'[p].start + idx'[p])
       BY <2>i, <2>b, <2>c DEF Extent
    <3> QED  BY <3>1, <2>i DEF LocksBlocks, Inside
  <2>1. CASE Measure(p) \/ EofUnlock(p)
    <3>1. CASE AfterTruncate(p)
       BY <3>1, <2>a, <2>h, <2>i DEF AfterTruncate, Return, Goto, CallTypeOK
    <3>2. CASE ~AfterTruncate(p)
       BY <2>1, <3>2, <2>a, <2>h DEF Measure, EofUnlock, Return, Goto, CallTypeOK
    <3> QED  BY <3>1, <3>2
  <2>2. CASE EofCall(p) \/ EofLock(p) \/ Remeasure(p) \/ Truncate(p)
     BY <2>2, <2>a, <2>h DEF EofCall, EofLock, Remeasure, Truncate, Goto, CallTypeOK
  <2>3. CASE BlocksLock(p)
    <3>1. pc[p] = "lock" /\ UNCHANGED op  BY <2>3 DEF BlocksLock
    <3>2. Request(p) = {bid2pid(BlockAt(p, idx[p]))} /\ Mode(p) = LockFor(p)
      <4>1. op[p].kind \in {"checkout", "commit"}  BY <3>1, CallFacts
      <4> QED  BY <3>1, <4>1 DEF Request, Mode, LockFor
    <3>3. ~GroupLock(p)  BY <3>1 DEF GroupLock
    <3>4. \A x \in Pages : lk'[p][x] = IF x \in Request(p) THEN Mode(p) ELSE lk[p][x]
       BY <2>3, <3>3, LockGranted DEF Locking
    <3>5. \A b \in Extent(p) : b < op[p].start + idx[p] + 1 =>
            lk'[p][bid2pid(b)] = LockFor(p)
      <4>1. SUFFICES ASSUME NEW b \in Extent(p), b < op[p].start + idx[p] + 1
                     PROVE  lk'[p][bid2pid(b)] = LockFor(p)
         OBVIOUS
      <4>2. b \in Nat /\ bid2pid(b) \in Pages  BY <2>c DEF Extent
      <4>3. CASE b = BlockAt(p, idx[p])  BY <3>2, <3>4, <4>2, <4>3
      <4>4. CASE b # BlockAt(p, idx[p])
        <5>1. b < op[p].start + idx[p]  BY <4>1, <4>2, <4>4, <2>b DEF BlockAt
        <5>2. lk[p][bid2pid(b)] = LockFor(p)  BY <5>1, <3>1, <2>a DEF LocksBlocks
        <5> QED  BY <5>2, <3>2, <3>4, <4>2
      <4> QED  BY <4>3, <4>4
    <3>6. Extent(p)' = Extent(p) /\ LockFor(p)' = LockFor(p)
       BY <3>1 DEF Extent, LockFor
    <3>7. CASE idx[p] + 1 < op[p].blockc
      <4>1. pc'[p] = "lock" /\ idx'[p] = idx[p] + 1 /\ op' = op
         BY <2>3, <3>7, <2>a DEF BlocksLock, Goto, CallTypeOK
      <4>2. op[p].start + idx'[p] = op[p].start + idx[p] + 1  BY <4>1, <2>b
      <4> QED  BY <4>1, <4>2, <3>5, <3>6 DEF LocksBlocks, Inside
    <3>8. CASE ~(idx[p] + 1 < op[p].blockc)
      <4>1. pc'[p] = "gcheck"  BY <2>3, <3>8, <2>a DEF BlocksLock, Goto, CallTypeOK
      <4>2. \A b \in Extent(p) : b < op[p].start + idx[p] + 1
         BY <3>8, <2>b, <2>c DEF Extent
      <4> QED  BY <4>1, <4>2, <3>5, <3>6 DEF LocksBlocks, Inside
    <3> QED  BY <3>7, <3>8
  <2>4. CASE BlocksUnlock(p)
    <3>1. pc'[p] = "idle" \/ (pc'[p] = "unlock" /\ idx'[p] = idx[p] + 1)
       BY <2>4, <2>a DEF BlocksUnlock, Goto, CallTypeOK
    <3>2. idx[p] + 1 # 0  BY <2>b
    <3> QED  BY <3>1, <3>2, <2>h DEF LocksBlocks, Inside
  <2>5. CASE Sleep(p)
     BY <2>5, <2>a DEF Sleep, LocksBlocks, LockFor, Extent, Inside
  <2>6. CASE GroupLock(p) \/ GroupUnlock(p)
     BY <2>6, <2>a, <2>f, <2>g DEF GroupLock, GroupUnlock, Inside, Goto, CallTypeOK
  <2>7. CASE GroupRecheck(p)
     BY <2>7, <2>a, <2>g, <2>h DEF GroupRecheck, Inside, Goto, CallTypeOK, lockVars
  <2>8. CASE \/ GroupCheck(p) \/ GroupMagic(p) \/ GroupFlags(p) \/ CopyData(p)
             \/ WriteData(p)
     BY <2>8, <2>a, <2>g DEF GroupCheck, GroupMagic, GroupFlags, CopyData, WriteData,
        Inside, Goto, CallTypeOK, lockVars
  <2>9. CASE GroupVerify(p) \/ CopyVersions(p) \/ CompareVersions(p) \/ WriteVersion(p)
     BY <2>9, <2>a, <2>g DEF GroupVerify, CopyVersions, CompareVersions, WriteVersion,
        Finish, Inside, Goto, CallTypeOK, lockVars
  <2>10. CASE User(p)
     BY <2>10, <2>a, <2>h DEF User, odbb_checkout, odbb_commit, EditBuffer, AdoptVersions,
        Goto, CallTypeOK
  <2>11. CASE Kill(p)
     BY <2>11, <2>a, <2>h DEF Kill, Goto, CallTypeOK
  <2> QED
     BY <2>1, <2>2, <2>3, <2>4, <2>5, <2>6, <2>7, <2>8, <2>9, <2>10, <2>11 DEF Step
<1> QED  BY <1>2, <1>3

\* While a process truncates, no other one is between page_lock_eof and
\* page_unlock_eof.
LEMMA TruncateAlone ==
    ASSUME LockTable, EofLocked, TypeOK, NEW p \in Procs, Truncate(p),
           NEW q \in Procs \ {p}
    PROVE  pc[q] \notin {"remeasure", "truncate", "eofunlock", "eofunlockerr"}
<1>1. lk[p][Inf] = "write"  BY DEF EofLocked, LocksEof, Truncate
<1>2. Inf \in Pages  BY Ids DEF Pages
<1>3. ~Clash(lk[p][Inf], lk[q][Inf])  BY <1>2 DEF LockTable
<1>4. lk[q][Inf] # "write"  BY <1>1, <1>3 DEF Clash
<1> QED  BY <1>4 DEF EofLocked, LocksEof

\* Steps keep the file from shrinking.
LEMMA SizeStep ==
    ASSUME TypeOK, Calls, EofLocked, NEW p \in Procs, Step(p) \/ User(p) \/ Kill(p)
    PROVE  size \in Nat /\ size' \in Nat /\ size <= size'
<1>1. size \in Nat /\ Inf \in Nat  BY Ids DEF TypeOK, FileTypeOK, Pages
<1>2. CASE size' = size  BY <1>1, <1>2
<1>3. CASE size' # size
  <2>1. Truncate(p) /\ size' = NeededPages(p)
     BY <1>3, Frame DEF Truncate, fileVars
  <2>2. size < NeededPages(p)  BY <2>1 DEF Truncate, EofLocked, LocksEof
  <2>3. NeededPages(p) \in Nat  BY <2>1, CallFacts, Ids DEF Truncate, Pages
  <2> QED  BY <1>1, <2>1, <2>2, <2>3
<1> QED  BY <1>2, <1>3

\* Steps keep the end-of-file lock and what it is for.
LEMMA EofLockedStep ==
    ASSUME TypeOK, Calls, LockTable, EofLocked, ~deadlkSeen',
           NEW p \in Procs, Step(p) \/ User(p) \/ Kill(p)
    PROVE  EofLocked'
<1>1. SUFFICES ASSUME NEW q \in Procs PROVE LocksEof(q)'  BY DEF EofLocked
<1>2. CASE q # p
  <2>1. Same(q) /\ LocksEof(q)  BY <1>2, Frame DEF EofLocked
  <2>2. NeededPages(q)' = NeededPages(q)  BY <2>1 DEF Same, NeededPages
  <2>3. size' = size \/ pc[q] \notin {"truncate", "eofunlock"}
     BY <1>2, Frame, TruncateAlone
  <2> QED  BY <2>1, <2>2, <2>3 DEF Same, LocksEof
<1>3. CASE q = p
  <2> SUFFICES LocksEof(p)'  BY <1>3
  <2>a. CallTypeOK /\ LockTypeOK /\ LocksEof(p)  BY DEF TypeOK, EofLocked
  <2>b. Inf \in Pages /\ Inf \in Nat  BY Ids DEF Pages
  <2>c. size \in Nat /\ eof[p] \in Nat /\ eof[p] <= Inf
     BY <2>a, <2>b DEF TypeOK, FileTypeOK, CallTypeOK, Pages
  <2>d. op' = op => NeededPages(p)' = NeededPages(p)  BY DEF NeededPages
  <2>e. pc[p] # "idle" => NeededPages(p) \in Nat  BY CallFacts, Ids DEF Pages
  <2>f. ASSUME pc'[p] \notin {"remeasure", "truncate", "eofunlock", "eofunlockerr"}
        PROVE  LocksEof(p)'
     BY <2>f DEF LocksEof
  <2>1. CASE EofLock(p)
    <3>1. ~GroupLock(p) /\ Request(p) = eof[p] .. Inf /\ Mode(p) = "write"
       BY <2>1 DEF EofLock, GroupLock, Request, Mode
    <3>2. lk'[p][Inf] = IF Inf \in Request(p) THEN Mode(p) ELSE lk[p][Inf]
       BY <2>1, <2>b, <3>1, LockGranted DEF Locking
    <3>3. Inf \in Request(p)  BY <3>1, <2>b, <2>c
    <3>4. pc'[p] = "remeasure"  BY <2>1, <2>a DEF EofLock, Goto, CallTypeOK
    <3> QED  BY <3>1, <3>2, <3>3, <3>4 DEF LocksEof
  <2>2. CASE Remeasure(p)
    <3>1. pc[p] = "remeasure" /\ lk' = lk /\ op' = op /\ size' = size
       BY <2>2 DEF Remeasure, lockVars, fileVars
    <3>2. lk'[p][Inf] = "write"  BY <3>1, <2>a DEF LocksEof
    <3>3. NeededPages(p) \in Nat  BY <3>1, <2>e
    <3>4. pc'[p] = IF NeededPages(p) <= size THEN "eofunlock" ELSE "truncate"
       BY <2>2, <2>a DEF Remeasure, Goto, CallTypeOK
    <3> QED  BY <3>1, <3>2, <3>3, <3>4, <2>c, <2>d DEF LocksEof
  <2>3. CASE Truncate(p)
    <3>1. pc[p] = "truncate" /\ lk' = lk /\ op' = op  BY <2>3 DEF Truncate, lockVars
    <3>2. lk'[p][Inf] = "write"  BY <3>1, <2>a DEF LocksEof
    <3>3. NeededPages(p) \in Nat  BY <3>1, <2>e
    <3>4. \/ pc'[p] = "eofunlock" /\ size' = NeededPages(p)
          \/ pc'[p] = "eofunlockerr"
       BY <2>3, <2>a DEF Truncate, Goto, CallTypeOK
    <3> QED  BY <3>1, <3>2, <3>3, <3>4, <2>d DEF LocksEof
  <2>4. CASE Sleep(p)
     BY <2>4, <2>a DEF Sleep, LocksEof, fileVars, NeededPages
  <2>5. CASE Measure(p) \/ EofUnlock(p)
    <3>1. CASE AfterTruncate(p)
       BY <3>1, <2>a, <2>f DEF AfterTruncate, Return, Goto, CallTypeOK
    <3>2. CASE ~AfterTruncate(p)
       BY <2>5, <3>2, <2>a, <2>f DEF Measure, EofUnlock, Return, Goto, CallTypeOK
    <3> QED  BY <3>1, <3>2
  <2>6. CASE EofCall(p) \/ BlocksLock(p) \/ BlocksUnlock(p)
     BY <2>6, <2>a, <2>f DEF EofCall, BlocksLock, BlocksUnlock, Goto, CallTypeOK
  <2>7. CASE \/ GroupCheck(p) \/ GroupLock(p) \/ GroupRecheck(p) \/ GroupMagic(p)
             \/ GroupFlags(p) \/ GroupUnlock(p) \/ CopyData(p) \/ WriteData(p)
     BY <2>7, <2>a, <2>f DEF GroupCheck, GroupLock, GroupRecheck, GroupMagic, GroupFlags,
        GroupUnlock, CopyData, WriteData, Goto, CallTypeOK
  <2>8. CASE GroupVerify(p) \/ CopyVersions(p) \/ CompareVersions(p) \/ WriteVersion(p)
     BY <2>8, <2>a, <2>f DEF GroupVerify, CopyVersions, CompareVersions, WriteVersion,
        Finish, Goto, CallTypeOK
  <2>9. CASE User(p)
     BY <2>9, <2>a, <2>f DEF User, odbb_checkout, odbb_commit, EditBuffer, AdoptVersions,
        Goto, CallTypeOK
  <2>10. CASE Kill(p)
     BY <2>10, <2>a, <2>f DEF Kill, Goto, CallTypeOK
  <2> QED
     BY <2>1, <2>2, <2>3, <2>4, <2>5, <2>6, <2>7, <2>8, <2>9, <2>10 DEF Step
<1> QED  BY <1>2, <1>3

\* Steps keep the blocks of a call inside the file.
LEMMA InFileStep ==
    ASSUME TypeOK, Calls, EofLocked, InFile,
           NEW p \in Procs, Step(p) \/ User(p) \/ Kill(p)
    PROVE  InFile'
<1> DEFINE In(q) == Inside(q) \/ pc[q] \in {"lock", "unlock"}
<1>1. SUFFICES ASSUME NEW q \in Procs, In(q)' PROVE (NeededPages(q) <= size)'
   BY DEF InFile
<1>2. size \in Nat /\ size' \in Nat /\ size <= size'  BY SizeStep
<1>3. ASSUME NeededPages(q) <= size, pc[q] # "idle", op'[q] = op[q]
      PROVE  (NeededPages(q) <= size)'
  <2>1. NeededPages(q) \in Nat  BY <1>3, CallFacts, Ids DEF Pages
  <2>2. NeededPages(q)' = NeededPages(q)  BY <1>3 DEF NeededPages
  <2> QED  BY <2>1, <2>2, <1>2, <1>3
<1>4. CASE q # p
  <2>1. Same(q)  BY <1>4, Frame
  <2>2. In(q) /\ pc[q] # "idle"  BY <2>1, <1>1 DEF Same, Inside
  <2> QED  BY <2>1, <2>2, <1>3 DEF Same, InFile
<1>5. CASE q = p
  <2>a. CallTypeOK  BY DEF TypeOK
  <2>b. pc'[p] \in {"lock", "unlock", "gcheck", "glock", "grecheck", "gmagic", "gflags",
                    "gunlock", "gverify", "copydata", "copyver", "compare", "writedata",
                    "writever"}
     BY <1>1, <1>5 DEF Inside
  <2>1. CASE In(p)
    <3>1. pc[p] # "idle" /\ NeededPages(p) <= size  BY <2>1 DEF Inside, InFile
    <3>2. op'[p] = op[p]
      <4>1. CASE BlocksUnlock(p)  BY <4>1, <2>a, <2>b DEF BlocksUnlock, Goto, CallTypeOK
      <4>2. CASE Kill(p)  BY <4>2, <2>a, <2>b DEF Kill, Goto, CallTypeOK
      <4>3. CASE User(p)
         BY <4>3, <3>1 DEF User, odbb_checkout, odbb_commit, EditBuffer, AdoptVersions
      <4>4. CASE Measure(p) \/ EofUnlock(p)
         BY <4>4, <2>1 DEF Measure, EofUnlock, Inside
      <4>5. CASE \/ EofCall(p) \/ EofLock(p) \/ Remeasure(p) \/ Truncate(p)
                 \/ BlocksLock(p) \/ Sleep(p)
         BY <4>5 DEF EofCall, EofLock, Remeasure, Truncate, BlocksLock, Sleep
      <4>6. CASE \/ GroupCheck(p) \/ GroupLock(p) \/ GroupRecheck(p) \/ GroupMagic(p)
                 \/ GroupFlags(p) \/ GroupUnlock(p) \/ GroupVerify(p)
         BY <4>6 DEF GroupCheck, GroupLock, GroupRecheck, GroupMagic, GroupFlags,
            GroupUnlock, GroupVerify
      <4>7. CASE \/ CopyData(p) \/ CopyVersions(p) \/ CompareVersions(p)
                 \/ WriteData(p) \/ WriteVersion(p)
         BY <4>7 DEF CopyData, CopyVersions, CompareVersions, WriteData, WriteVersion
      <4> QED  BY <4>1, <4>2, <4>3, <4>4, <4>5, <4>6, <4>7 DEF Step
    <3> QED  BY <3>1, <3>2, <1>3, <1>5
  <2>2. CASE ~In(p)
    <3>1. CASE Measure(p) \/ EofUnlock(p)
      <4>1. pc[p] # "idle"  BY <3>1 DEF Measure, EofUnlock
      <4>2. AfterTruncate(p) /\ op'[p] = op[p]
         BY <3>1, <2>a, <2>b DEF Measure, EofUnlock, AfterTruncate, Return, Goto, CallTypeOK
      <4>3. NeededPages(p) <= size
        <5>1. CASE Measure(p)
          <6>1. ~Return(p, "ENOSPACE") /\ ~Goto(p, "eofcall")
             BY <2>a, <2>b DEF Return, Goto, CallTypeOK
          <6> QED  BY <5>1, <6>1 DEF Measure
        <5>2. CASE EofUnlock(p)
          <6>1. ~Return(p, "ENOSPACE")  BY <2>a, <2>b DEF Return, CallTypeOK
          <6>2. pc[p] = "eofunlock"  BY <5>2, <6>1 DEF EofUnlock
          <6> QED  BY <6>2 DEF EofLocked, LocksEof
        <5> QED  BY <3>1, <5>1, <5>2
      <4> QED  BY <4>1, <4>2, <4>3, <1>3, <1>5
    <3>2. CASE EofCall(p) \/ EofLock(p) \/ Remeasure(p) \/ Truncate(p) \/ Sleep(p) \/ Kill(p)
       BY <3>2, <2>a, <2>b, <2>2 DEF EofCall, EofLock, Remeasure, Truncate, Sleep, Kill,
          Goto, CallTypeOK, Inside
    <3>3. CASE User(p)
       BY <3>3, <2>a, <2>b, <2>2 DEF User, odbb_checkout, odbb_commit, EditBuffer,
          AdoptVersions, Goto, CallTypeOK, Inside
    <3>4. ~( \/ BlocksLock(p) \/ BlocksUnlock(p) \/ GroupCheck(p) \/ GroupLock(p)
             \/ GroupRecheck(p) \/ GroupMagic(p) \/ GroupFlags(p) \/ GroupUnlock(p)
             \/ GroupVerify(p) \/ CopyData(p) \/ CopyVersions(p) \/ CompareVersions(p)
             \/ WriteData(p) \/ WriteVersion(p) )
       BY <2>2 DEF BlocksLock, BlocksUnlock, GroupCheck, GroupLock, GroupRecheck,
          GroupMagic, GroupFlags, GroupUnlock, GroupVerify, CopyData, CopyVersions,
          CompareVersions, WriteData, WriteVersion, Inside
    <3> QED  BY <3>1, <3>2, <3>3, <3>4 DEF Step
  <2> QED  BY <2>1, <2>2
<1> QED  BY <1>4, <1>5

\* The blocks of a call that has its room lie before the end of the file.
LEMMA ExtentInFile ==
    ASSUME TypeOK, Calls, InFile, NEW p \in Procs, Inside(p), NEW b \in Extent(p)
    PROVE  ~(size <= bid2pid(b))
<1> DEFINE e == op[p].start + op[p].blockc - 1
<1>1. pc[p] # "idle"  BY DEF Inside
<1>2. op[p].start \in Nat /\ op[p].blockc \in Nat /\ op[p].blockc >= 1
   BY <1>1, CallFacts
<1>3. b \in Nat /\ b <= e /\ e \in Nat  BY <1>2, Ids DEF Extent
<1>4. bid2pid(b) \in Nat /\ bid2pid(e) \in Nat  BY <1>3, PageOfBlock
<1>5. bid2pid(b) <= bid2pid(e)  BY <1>3, <1>4, PageMonotone
<1>6. bid2pid(e) + 1 <= size  BY DEF InFile, NeededPages
<1>7. size \in Nat  BY Ids DEF TypeOK, FileTypeOK, Pages
<1> QED  BY <1>4, <1>5, <1>6, <1>7

\* Growing the file changes no block: what it adds was empty and still is.
LEMMA TruncateKeeps ==
    ASSUME TypeOK, Calls, EofLocked, Tail0, NEW p \in Procs, Truncate(p)
    PROVE  data' = data /\ ver' = ver
<1>0. /\ data \in [Blocks -> Data] /\ ver \in [Blocks -> Versions]
   BY DEF TypeOK, FileTypeOK
<1>1. CASE UNCHANGED fileVars  BY <1>1 DEF fileVars
<1>2. CASE ~UNCHANGED fileVars
  <2>1. /\ data' = [b \in Blocks |-> IF bid2pid(b) < size' THEN data[b] ELSE Zero]
        /\ ver'  = [b \in Blocks |-> IF gid2pid(bid2gid(b)) < size' THEN ver[b] ELSE 0]
     BY <1>2 DEF Truncate
  <2>2. size \in Nat /\ size' \in Nat /\ size <= size'  BY SizeStep DEF Step
  <2>3. ASSUME NEW b \in Blocks PROVE data'[b] = data[b] /\ ver'[b] = ver[b]
    <3>1. /\ bid2pid(b) \in Nat /\ gid2pid(bid2gid(b)) \in Nat
          /\ gid2pid(bid2gid(b)) < bid2pid(b)
       BY Ids, PageOfBlock, DescriptorFirst
    <3>2. CASE bid2pid(b) < size
       BY <3>1, <3>2, <2>1, <2>2
    <3>3. CASE size <= bid2pid(b)
       BY <3>1, <3>3, <2>1, <2>2 DEF Tail0
    <3> QED  BY <3>1, <3>2, <3>3, <2>2
  <2> QED  BY <2>1, <2>3, <1>0
<1> QED  BY <1>1, <1>2

\* A step changes the content or the version of a block only if it is one of a
\* commit that has the block in its extent.
LEMMA OnlyWritersWrite ==
    ASSUME TypeOK, Calls, EofLocked, Tail0, NEW p \in Procs,
           Step(p) \/ User(p) \/ Kill(p), NEW b \in Blocks,
           ~(Writing(p) /\ b \in Extent(p))
    PROVE  data'[b] = data[b] /\ ver'[b] = ver[b]
<1>0. /\ data \in [Blocks -> Data] /\ ver \in [Blocks -> Versions]
   BY DEF TypeOK, FileTypeOK
<1>1. CASE Truncate(p)  BY <1>1, TruncateKeeps
<1>2. CASE Writing(p)
  <2>1. idx[p] \in Slots /\ idx[p] < op[p].blockc
     BY <1>2, CallFacts DEF Writing
  <2>2. BlockAt(p, idx[p]) \in Extent(p)  BY <2>1, ExtentSlots
  <2>3. b # BlockAt(p, idx[p])  BY <2>2, <1>2
  <2>4. data' = data \/ data' = [data EXCEPT ![BlockAt(p, idx[p])] = udata[p][idx[p]]]
     BY <1>1, Frame, TruncateKeeps DEF WriteData
  <2>5. ver' = ver \/ \E v : ver' = [ver EXCEPT ![BlockAt(p, idx[p])] = v]
     BY <1>1, Frame, TruncateKeeps DEF WriteVersion
  <2> QED  BY <2>3, <2>4, <2>5, <1>0
<1>3. CASE ~Writing(p) /\ ~Truncate(p)
   BY <1>3, Frame DEF Writing, WriteData, WriteVersion
<1> QED  BY <1>1, <1>2, <1>3

\* Steps keep what lies after the end of the file empty.
LEMMA Tail0Step ==
    ASSUME TypeOK, Calls, EofLocked, InFile, Tail0,
           NEW p \in Procs, Step(p) \/ User(p) \/ Kill(p)
    PROVE  Tail0'
<1>1. SUFFICES ASSUME NEW b \in Blocks, size' <= bid2pid(b)
               PROVE  data'[b] = Zero /\ ver'[b] = 0
   BY DEF Tail0
<1>2. size \in Nat /\ size' \in Nat /\ size <= size'  BY SizeStep
<1>3. size <= bid2pid(b)  BY <1>1, <1>2, Ids, PageOfBlock
<1>4. Writing(p) => b \notin Extent(p)
   BY <1>3, ExtentInFile DEF Writing, Inside
<1>5. data'[b] = data[b] /\ ver'[b] = ver[b]  BY <1>4, OnlyWritersWrite
<1> QED  BY <1>3, <1>5 DEF Tail0

\* From blocks_lock to the first unlock, no other process is writing a block
\* of the call: the two would have locked its page in clashing modes.
LEMMA NoOtherWriter ==
    ASSUME TypeOK, Calls, LockTable, BlocksLocked,
           NEW p \in Procs, NEW q \in Procs, p # q,
           Inside(q), op[q].kind = "commit",
           Inside(p) \/ (pc[p] = "unlock" /\ idx[p] = 0)
    PROVE  Extent(p) \cap Extent(q) = {}
<1>1. SUFFICES ASSUME NEW b \in Extent(p), b \in Extent(q) PROVE FALSE
   OBVIOUS
<1>2. bid2pid(b) \in Pages  BY Ids DEF Extent
<1>3. lk[q][bid2pid(b)] = "write"
   BY <1>1 DEF BlocksLocked, LocksBlocks, LockFor
<1>4. lk[p][bid2pid(b)] \in {"read", "write"}
   BY <1>1 DEF BlocksLocked, LocksBlocks, LockFor
<1>5. ~Clash(lk[p][bid2pid(b)], lk[q][bid2pid(b)])  BY <1>2 DEF LockTable
<1> QED  BY <1>3, <1>4, <1>5 DEF Clash

\* Steps of other processes leave the blocks of a call as they are.
LEMMA OthersKeep ==
    ASSUME TypeOK, Calls, LockTable, BlocksLocked, EofLocked, Tail0,
           NEW p \in Procs, Step(p) \/ User(p) \/ Kill(p),
           NEW q \in Procs, q # p,
           Inside(q) \/ (pc[q] = "unlock" /\ idx[q] = 0),
           NEW i \in Slots, i < op[q].blockc
    PROVE  /\ data'[BlockAt(q, i)] = data[BlockAt(q, i)]
           /\ ver'[BlockAt(q, i)]  = ver[BlockAt(q, i)]
<1>1. BlockAt(q, i) \in Extent(q) /\ BlockAt(q, i) \in Blocks
   BY ExtentSlots DEF Extent
<1>2. Writing(p) => Inside(p) /\ op[p].kind = "commit"
   BY DEF Writing, Inside, Calls, CallOK
<1>3. ~(Writing(p) /\ BlockAt(q, i) \in Extent(p))
   BY <1>1, <1>2, NoOtherWriter
<1> QED  BY <1>1, <1>3, OnlyWritersWrite

\* Steps keep what a checkout has copied up to date.
LEMMA CopiedStep ==
    ASSUME TypeOK, Calls, LockTable, BlocksLocked, EofLocked, Tail0, Copied,
           NEW p \in Procs, Step(p) \/ User(p) \/ Kill(p)
    PROVE  Copied'
<1>1. SUFFICES ASSUME NEW q \in Procs PROVE CopiedBy(q)'  BY DEF Copied
<1>2. CASE q # p
  <2>1. Same(q) /\ CopiedBy(q)  BY <1>2, Frame DEF Copied
  <2>2. \A i \in Slots : BlockAt(q, i)' = BlockAt(q, i)  BY <2>1 DEF Same, BlockAt
  <2>3. \A i \in Slots : i < op[q].blockc
           /\ (Inside(q) \/ (pc[q] = "unlock" /\ idx[q] = 0)) =>
             /\ data'[BlockAt(q, i)] = data[BlockAt(q, i)]
             /\ ver'[BlockAt(q, i)]  = ver[BlockAt(q, i)]
     BY <1>2, OthersKeep
  <2>4. Inside(q)' <=> Inside(q)  BY <2>1 DEF Same, Inside
  <2> QED  BY <2>1, <2>2, <2>3, <2>4 DEF Same, CopiedBy, Current, Inside
<1>3. CASE q = p
  <2> SUFFICES ASSUME op'[p].kind = "checkout", NEW i \in Slots, i < op'[p].blockc
               PROVE  /\ (Inside(p) /\ bid2gid(BlockAt(p, i)) < grp[p] => Current(p, i))'
                      /\ (pc[p] = "copyver" /\ bid2gid(BlockAt(p, i)) = grp[p] =>
                            udata[p][i] = data[BlockAt(p, i)])'
                      /\ (pc[p] = "unlock" /\ idx[p] = 0 /\ ret[p] = "OK" => Current(p, i))'
     BY <1>3 DEF CopiedBy
  <2> DEFINE b == BlockAt(p, i)
             g == bid2gid(BlockAt(p, i))
  <2>a. CallTypeOK /\ BufferTypeOK /\ CopiedBy(p)  BY DEF TypeOK, Copied
  <2>b. ASSUME op'[p] = op[p]
        PROVE  b' = b /\ op[p].kind = "checkout" /\ i < op[p].blockc
     BY <2>b DEF BlockAt
  <2>c. ASSUME op'[p] = op[p] PROVE ~Writing(p) /\ data'[b] = data[b] /\ ver'[b] = ver[b]
    <3>1. ~Writing(p)  BY <2>b, <2>c DEF Writing, Calls, CallOK
    <3>2. b \in Blocks  BY <2>b, <2>c, CallFacts
    <3> QED  BY <3>1, <3>2, OnlyWritersWrite
  <2>d. grp[p] \in Nat /\ idx[p] \in Nat  BY CallFacts, Ids
  <2>1. CASE pc'[p] \notin {"unlock", "gcheck", "glock", "grecheck", "gmagic", "gflags",
                    "gunlock", "gverify", "copydata", "copyver", "compare", "writedata",
                    "writever"}
     BY <2>1 DEF Inside
  <2>2. CASE BlocksLock(p)
    <3>1. pc[p] = "lock" /\ op' = op /\ grp' = grp  BY <2>2 DEF BlocksLock
    <3>2. pc'[p] \in {"lock", "gcheck"}
       BY <2>2, <2>a DEF BlocksLock, Goto, CallTypeOK
    <3>3. grp[p] = bid2gid(op[p].start)  BY <3>1 DEF Calls, CallOK
    <3>4. op[p].start \in Nat /\ i \in Nat  BY CallFacts
    <3>5. bid2gid(op[p].start) <= g  BY <3>4, GroupMonotone DEF BlockAt
    <3>6. bid2gid(op[p].start) \in Nat /\ g \in Nat  BY <3>4, PageOfBlock DEF BlockAt
    <3>7. ~(g < grp[p])  BY <3>3, <3>5, <3>6
    <3> QED  BY <3>1, <3>2, <3>7, <2>b
  <2>3. CASE BlocksUnlock(p)
     BY <2>3, <2>a, <2>d DEF BlocksUnlock, Goto, CallTypeOK, Inside
  <2>4. CASE CopyData(p)
    <3>1. /\ pc[p] = "copydata" /\ op' = op /\ grp' = grp /\ uver' = uver
          /\ udata'[p][i] = IF InGroup(p, i) THEN data[b] ELSE udata[p][i]
          /\ pc'[p] = "copyver"
       BY <2>4, <2>a DEF CopyData, Goto, CallTypeOK, BufferTypeOK
    <3>2. Inside(p)  BY <3>1 DEF Inside
    <3>3. g < grp[p] => udata[p][i] = data[b] /\ uver[p][i] = ver[b]
       BY <3>1, <3>2, <2>a, <2>b DEF CopiedBy, Current
    <3>4. g = grp[p] => InGroup(p, i)  BY <3>1, <2>b DEF InGroup
    <3>5. data'[b] = data[b] /\ ver'[b] = ver[b] /\ b' = b  BY <3>1, <2>b, <2>c
    <3> QED  BY <3>1, <3>3, <3>4, <3>5 DEF Current
  <2>5. CASE CopyVersions(p)
    <3>1. /\ pc[p] = "copyver" /\ op' = op /\ udata' = udata
          /\ uver'[p][i] = IF InGroup(p, i) THEN ver[b] ELSE uver[p][i]
       BY <2>5, <2>a DEF CopyVersions, BufferTypeOK
    <3>2. Inside(p)  BY <3>1 DEF Inside
    <3>3. data'[b] = data[b] /\ ver'[b] = ver[b] /\ b' = b  BY <3>1, <2>b, <2>c
    <3>4. g < grp[p] => Current(p, i)
       BY <3>1, <3>2, <2>a, <2>b DEF CopiedBy
    <3>5. g = grp[p] => udata[p][i] = data[b] /\ InGroup(p, i)
       BY <3>1, <2>a, <2>b DEF CopiedBy, InGroup
    <3>6. g < grp[p] => ~InGroup(p, i)  BY <2>d DEF InGroup
    <3>7. g <= grp[p] => Current(p, i)'
      <4>1. CASE g < grp[p]  BY <4>1, <3>1, <3>3, <3>4, <3>6 DEF Current
      <4>2. CASE g = grp[p]  BY <4>2, <3>1, <3>3, <3>5 DEF Current
      <4>3. g \in Nat
        <5>1. b \in Blocks  BY <3>1, <2>b, CallFacts
        <5> QED  BY <5>1, Ids
      <4> QED  BY <4>1, <4>2, <4>3, <2>d
    <3>8. g \in Nat /\ g <= LastGroup(p)
      <4>1. b \in Blocks /\ op[p] # NoOp  BY <3>1, <2>b, CallFacts
      <4>2. LastGroup(p) = bid2gid(op[p].start + op[p].blockc - 1)  BY <4>1, CallReach
      <4>3. op[p].start \in Nat /\ op[p].blockc \in Nat /\ i \in Nat /\ i < op[p].blockc
         BY <3>1, <2>b, CallFacts
      <4>4. b <= op[p].start + op[p].blockc - 1 /\ b \in Nat
            /\ op[p].start + op[p].blockc - 1 \in Nat
         BY <4>3 DEF BlockAt
      <4> QED  BY <4>1, <4>2, <4>4, GroupMonotone, PageOfBlock
    <3>9. LastGroup(p) \in Nat  BY <3>1, CallFacts, Ids
    <3>10. CASE grp[p] < LastGroup(p)
      <4>1. pc'[p] = "gcheck" /\ grp'[p] = grp[p] + 1
         BY <2>5, <3>10, <2>a DEF CopyVersions, Goto, CallTypeOK
      <4>2. g < grp'[p] => g <= grp[p]  BY <4>1, <3>8, <2>d
      <4> QED  BY <4>1, <4>2, <3>3, <3>7
    <3>11. CASE ~(grp[p] < LastGroup(p))
      <4>1. g <= grp[p]  BY <3>8, <3>9, <3>11, <2>d
      <4>2. pc'[p] = "unlock"
         BY <2>5, <3>11, <2>a DEF CopyVersions, Finish, Goto, CallTypeOK
      <4> QED  BY <4>1, <4>2, <3>7 DEF Inside
    <3> QED  BY <3>10, <3>11
  <2>6. CASE GroupVerify(p)
    <3>1. pc[p] = "gverify" /\ op' = op /\ udata' = udata /\ uver' = uver
       BY <2>6 DEF GroupVerify, bufVars
    <3>2. Inside(p)  BY <3>1 DEF Inside
    <3>3. \/ pc'[p] = "unlock" /\ ret'[p] = "ENOTDB"
          \/ pc'[p] = "copydata" /\ grp' = grp
       BY <2>6, <3>1, <2>a, <2>b DEF GroupVerify, Finish, Goto, CallTypeOK
    <3>4. data'[b] = data[b] /\ ver'[b] = ver[b] /\ b' = b  BY <3>1, <2>b, <2>c
    <3>5. g < grp[p] => Current(p, i)  BY <3>1, <3>2, <2>a, <2>b DEF CopiedBy
    <3> QED  BY <3>1, <3>3, <3>4, <3>5 DEF Current, Inside
  <2>7. CASE \/ GroupCheck(p) \/ GroupLock(p) \/ GroupRecheck(p) \/ GroupMagic(p)
             \/ GroupFlags(p) \/ GroupUnlock(p)
    <3>1. /\ Inside(p) /\ op' = op /\ grp' = grp /\ udata' = udata /\ uver' = uver
          /\ pc'[p] \notin {"copyver", "unlock"}
       BY <2>7, <2>a DEF GroupCheck, GroupLock, GroupRecheck, GroupMagic, GroupFlags,
          GroupUnlock, Inside, Goto, bufVars, CallTypeOK
    <3>2. data'[b] = data[b] /\ ver'[b] = ver[b] /\ b' = b  BY <3>1, <2>b, <2>c
    <3>3. g < grp[p] => Current(p, i)  BY <3>1, <2>a, <2>b DEF CopiedBy
    <3> QED  BY <3>1, <3>2, <3>3 DEF Current
  <2>8. CASE Sleep(p)
    <3>1. /\ op' = op /\ grp' = grp /\ udata' = udata /\ uver' = uver /\ pc' = pc
          /\ pc[p] \notin {"copyver", "unlock"}
       BY <2>8 DEF Sleep, bufVars
    <3>2. data'[b] = data[b] /\ ver'[b] = ver[b] /\ b' = b  BY <3>1, <2>b, <2>c
    <3>3. Inside(p) /\ g < grp[p] => Current(p, i)  BY <3>1, <2>a, <2>b DEF CopiedBy
    <3> QED  BY <3>1, <3>2, <3>3 DEF Current, Inside
  <2>9. CASE CompareVersions(p) \/ WriteData(p) \/ WriteVersion(p)
    <3>1. op' = op /\ pc[p] \in {"compare", "writedata", "writever"}
       BY <2>9 DEF CompareVersions, WriteData, WriteVersion
    <3> QED  BY <3>1, <2>b DEF Calls, CallOK
  <2>10. CASE User(p)
    <3>1. pc[p] = "idle" /\ (pc'[p] = "idle" \/ pc'[p] = "measure")
       BY <2>10, <2>a DEF User, odbb_checkout, odbb_commit, EditBuffer, AdoptVersions,
          Goto, CallTypeOK
    <3> QED  BY <3>1, <2>1
  <2>11. CASE Kill(p)  BY <2>11, <2>1, <2>a DEF Kill, Goto, CallTypeOK
  <2>12. CASE Measure(p) \/ EofUnlock(p)
    <3>1. pc'[p] \in {"idle", "lock", "eofcall"}
       BY <2>12, <2>a DEF Measure, EofUnlock, AfterTruncate, Return, Goto, CallTypeOK
    <3> QED  BY <3>1, <2>1
  <2>13. CASE EofCall(p) \/ EofLock(p) \/ Remeasure(p) \/ Truncate(p)
     BY <2>13, <2>1, <2>a DEF EofCall, EofLock, Remeasure, Truncate, Goto, CallTypeOK
  <2> QED
     BY <2>2, <2>3, <2>4, <2>5, <2>6, <2>7, <2>8, <2>9, <2>10, <2>11, <2>12, <2>13 DEF Step
<1> QED  BY <1>2, <1>3

\* Steps keep track of what a commit has written so far.
LEMMA WrittenStep ==
    ASSUME TypeOK, Calls, LockTable, BlocksLocked, EofLocked, Tail0, Written,
           NEW p \in Procs, Step(p) \/ User(p) \/ Kill(p)
    PROVE  Written'
<1>1. SUFFICES ASSUME NEW q \in Procs PROVE WrittenBy(q)'  BY DEF Written
<1>2. CASE q # p
  <2>1. Same(q) /\ WrittenBy(q)  BY <1>2, Frame DEF Written
  <2>2. \A i \in Slots : BlockAt(q, i)' = BlockAt(q, i)  BY <2>1 DEF Same, BlockAt
  <2>3. \A i \in Slots : i < op[q].blockc /\ Inside(q) =>
             /\ data'[BlockAt(q, i)] = data[BlockAt(q, i)]
             /\ ver'[BlockAt(q, i)]  = ver[BlockAt(q, i)]
     BY <1>2, OthersKeep
  <2>4. Writing(q)' => Writing(q) /\ Inside(q)  BY <2>1 DEF Same, Writing, Inside
  <2> QED  BY <2>1, <2>2, <2>3, <2>4 DEF Same, WrittenBy
<1>3. CASE q = p
  <2> SUFFICES ASSUME Writing(p)', NEW i \in Slots, i < op'[p].blockc
               PROVE  /\ (i < idx[p] => /\ data[BlockAt(p, i)] = udata[p][i]
                                        /\ ver[BlockAt(p, i)] = (uver[p][i] + 1) % VerMod)'
                      /\ (i >= idx[p] => ver[BlockAt(p, i)] = uver[p][i])'
                      /\ (i = idx[p] /\ pc[p] = "writever" =>
                            data[BlockAt(p, i)] = udata[p][i])'
     BY <1>3 DEF WrittenBy
  <2> DEFINE b == BlockAt(p, i)
  <2>a. CallTypeOK /\ FileTypeOK /\ WrittenBy(p)  BY DEF TypeOK, Written
  <2>b. i \in Nat /\ idx[p] \in Nat /\ op[p].start \in Nat  BY CallFacts
  <2>c. pc'[p] \in {"writedata", "writever"}  BY DEF Writing
  <2>1. CASE CompareVersions(p)
    <3>1. /\ pc[p] = "compare" /\ op' = op /\ udata' = udata /\ uver' = uver
          /\ ver' = ver
       BY <2>1 DEF CompareVersions, fileVars
    <3>2. /\ pc'[p] = "writedata" /\ idx' = idx
          /\ ~(\E j \in Slots : j < op[p].blockc /\ uver[p][j] # ver[BlockAt(p, j)])
       BY <2>1, <2>a, <2>c DEF CompareVersions, Finish, Goto, CallTypeOK
    <3>3. idx[p] = 0  BY <3>1 DEF Calls, CallOK
    <3>4. ~(i < idx[p]) /\ b' = b  BY <3>1, <3>3, <2>b DEF BlockAt
    <3> QED  BY <3>1, <3>2, <3>4
  <2>2. CASE WriteData(p)
    <3>1. /\ pc[p] = "writedata" /\ op' = op /\ udata' = udata /\ uver' = uver
          /\ ver' = ver /\ idx' = idx /\ pc'[p] = "writever"
          /\ data' = [data EXCEPT ![BlockAt(p, idx[p])] = udata[p][idx[p]]]
       BY <2>2, <2>a DEF WriteData, bufVars, Goto, CallTypeOK
    <3>2. /\ i < idx[p] => /\ data[b] = udata[p][i]
                           /\ ver[b] = (uver[p][i] + 1) % VerMod
          /\ i >= idx[p] => ver[b] = uver[p][i]
       BY <3>1, <2>a DEF WrittenBy, Writing
    <3>3. b' = b /\ (b = BlockAt(p, idx[p]) <=> i = idx[p])
      <4>1. b' = b  BY <3>1 DEF BlockAt
      <4>2. b = BlockAt(p, idx[p]) <=> i = idx[p]  BY <2>b DEF BlockAt
      <4> QED  BY <4>1, <4>2
    <3>4. b \in Blocks  BY <3>1, <2>b, CallFacts
    <3>5. /\ i = idx[p] => data'[b] = udata[p][i]
          /\ i # idx[p] => data'[b] = data[b]
       BY <3>1, <3>3, <3>4, <2>a DEF FileTypeOK
    <3> QED  BY <3>1, <3>2, <3>3, <3>5, <2>b
  <2>3. CASE WriteVersion(p)
    <3>1. /\ pc[p] = "writever" /\ op' = op /\ udata' = udata /\ uver' = uver
          /\ data' = data /\ pc'[p] = "writedata" /\ idx'[p] = idx[p] + 1
          /\ ver' = [ver EXCEPT ![BlockAt(p, idx[p])] = (ver[BlockAt(p, idx[p])] + 1) % VerMod]
       BY <2>3, <2>a, <2>c DEF WriteVersion, Finish, Goto, CallTypeOK
    <3>2. /\ i < idx[p] => /\ data[b] = udata[p][i]
                           /\ ver[b] = (uver[p][i] + 1) % VerMod
          /\ i >= idx[p] => ver[b] = uver[p][i]
          /\ i = idx[p] => data[b] = udata[p][i]
       BY <3>1, <2>a DEF WrittenBy, Writing
    <3>3. b' = b /\ (b = BlockAt(p, idx[p]) <=> i = idx[p])
      <4>1. b' = b  BY <3>1 DEF BlockAt
      <4>2. b = BlockAt(p, idx[p]) <=> i = idx[p]  BY <2>b DEF BlockAt
      <4> QED  BY <4>1, <4>2
    <3>4. b \in Blocks  BY <3>1, <2>b, CallFacts
    <3>5. /\ i = idx[p] => ver'[b] = (ver[b] + 1) % VerMod
          /\ i # idx[p] => ver'[b] = ver[b]
       BY <3>1, <3>3, <3>4, <2>a DEF FileTypeOK
    <3>6. CASE i < idx[p]  BY <3>1, <3>2, <3>3, <3>5, <3>6, <2>b
    <3>7. CASE i = idx[p]  BY <3>1, <3>2, <3>3, <3>5, <3>7, <2>b
    <3>8. CASE i > idx[p]  BY <3>1, <3>2, <3>3, <3>5, <3>8, <2>b
    <3> QED  BY <3>6, <3>7, <3>8, <2>b
  <2>4. CASE Measure(p) \/ EofUnlock(p)
     BY <2>4, <2>a, <2>c DEF Measure, EofUnlock, AfterTruncate, Return, Goto, CallTypeOK
  <2>5. CASE \/ EofCall(p) \/ EofLock(p) \/ Remeasure(p) \/ Truncate(p) \/ BlocksLock(p)
             \/ BlocksUnlock(p) \/ Sleep(p)
     BY <2>5, <2>a, <2>c DEF EofCall, EofLock, Remeasure, Truncate, BlocksLock,
        BlocksUnlock, Sleep, Goto, CallTypeOK
  <2>6. CASE \/ GroupCheck(p) \/ GroupLock(p) \/ GroupRecheck(p) \/ GroupMagic(p)
             \/ GroupFlags(p) \/ GroupUnlock(p) \/ CopyData(p)
     BY <2>6, <2>a, <2>c DEF GroupCheck, GroupLock, GroupRecheck, GroupMagic, GroupFlags,
        GroupUnlock, CopyData, Goto, CallTypeOK
  <2>7. CASE GroupVerify(p) \/ CopyVersions(p)
     BY <2>7, <2>a, <2>c DEF GroupVerify, CopyVersions, Finish, Goto, CallTypeOK
  <2>8. CASE User(p) \/ Kill(p)
     BY <2>8, <2>a, <2>c DEF User, odbb_checkout, odbb_commit, EditBuffer, AdoptVersions,
        Kill, Goto, CallTypeOK
  <2> QED  BY <2>1, <2>2, <2>3, <2>4, <2>5, <2>6, <2>7, <2>8 DEF Step
<1> QED  BY <1>2, <1>3

\* Steps keep every block that nobody is writing as its last commit left it.
LEMMA SettledStep ==
    ASSUME TypeOK, Calls, LockTable, BlocksLocked, EofLocked, Tail0, Written, Settled,
           NEW p \in Procs, Step(p) \/ User(p) \/ Kill(p)
    PROVE  Settled'
<1>1. SUFFICES ASSUME NEW b \in Blocks, b \notin torn',
                      \A q \in Procs : Writing(q)' => b \notin Extent(q)'
               PROVE  committed'[b] = [data |-> data'[b], ver |-> ver'[b]]
   BY DEF Settled
<1>2. \A q \in Procs \ {p} : Writing(q) => b \notin Extent(q)
  <2>1. \A q \in Procs \ {p} : Same(q)  BY Frame
  <2>2. \A q \in Procs \ {p} : (Writing(q)' <=> Writing(q)) /\ Extent(q)' = Extent(q)
     BY <2>1 DEF Same, Writing, Extent
  <2> QED  BY <1>1, <2>2
<1>3. CASE b \notin torn /\ ~(Writing(p) /\ b \in Extent(p)) /\ committed'[b] = committed[b]
  <2>1. committed[b] = [data |-> data[b], ver |-> ver[b]]  BY <1>2, <1>3 DEF Settled
  <2>2. data'[b] = data[b] /\ ver'[b] = ver[b]  BY <1>3, OnlyWritersWrite
  <2> QED  BY <1>3, <2>1, <2>2
<1>a. CallTypeOK /\ FileTypeOK /\ HistoryTypeOK  BY DEF TypeOK
<1>4. CASE WriteVersion(p)
  <2>1. pc[p] = "writever" /\ op' = op  BY <1>4 DEF WriteVersion
  <2>2. Extent(p)' = Extent(p) /\ Writing(p)  BY <2>1 DEF Extent, Writing
  <2>3. CASE idx[p] + 1 < op[p].blockc
    <3>1. pc'[p] = "writedata" /\ torn' = torn /\ committed' = committed
       BY <1>4, <2>3, <1>a DEF WriteVersion, Goto, CallTypeOK, histVars
    <3>2. b \notin Extent(p)  BY <3>1, <2>2, <1>1 DEF Writing
    <3> QED  BY <3>1, <3>2, <1>1, <1>3
  <2>4. CASE ~(idx[p] + 1 < op[p].blockc)
    <3>1. /\ committed'[b] = IF b \in Extent(p)
                             THEN [data |-> udata[p][b - op[p].start],
                                   ver  |-> (uver[p][b - op[p].start] + 1) % VerMod]
                             ELSE committed[b]
          /\ torn' = torn \ Extent(p)
       BY <1>4, <2>4 DEF WriteVersion
    <3>2. CASE b \notin Extent(p)  BY <3>1, <3>2, <1>1, <1>3
    <3>3. CASE b \in Extent(p)
      <4> DEFINE i == b - op[p].start
      <4>1. idx[p] \in Nat /\ op[p].start \in Nat /\ op[p].blockc \in Nat
            /\ idx[p] < op[p].blockc
         BY <2>1, CallFacts
      <4>2. i \in Slots /\ i \in Nat /\ i < op[p].blockc /\ b = BlockAt(p, i)
         BY <2>1, <3>3, ExtentSlots, CallFacts DEF Inside
      <4>3. /\ i < idx[p] => /\ data[b] = udata[p][i]
                             /\ ver[b] = (uver[p][i] + 1) % VerMod
            /\ i >= idx[p] => ver[b] = uver[p][i]
            /\ i = idx[p] => data[b] = udata[p][i]
         BY <2>1, <4>2 DEF Written, WrittenBy, Writing
      <4>4. i <= idx[p]  BY <2>4, <4>1, <4>2
      <4>5. (b = BlockAt(p, idx[p])) <=> (i = idx[p])  BY <4>1, <4>2 DEF BlockAt
      <4>6. data' = data /\
            ver' = [ver EXCEPT ![BlockAt(p, idx[p])] = (ver[BlockAt(p, idx[p])] + 1) % VerMod]
         BY <1>4 DEF WriteVersion
      <4>7. /\ i = idx[p] => ver'[b] = (ver[b] + 1) % VerMod
            /\ i # idx[p] => ver'[b] = ver[b]
         BY <4>5, <4>6, <1>a DEF FileTypeOK
      <4>8. data'[b] = udata[p][i] /\ ver'[b] = (uver[p][i] + 1) % VerMod
         BY <4>1, <4>2, <4>3, <4>4, <4>6, <4>7
      <4> QED  BY <3>1, <3>3, <4>8
    <3> QED  BY <3>2, <3>3
  <2> QED  BY <2>3, <2>4
<1>5. CASE Kill(p)
  <2>1. /\ committed' = committed
        /\ torn' = IF Writing(p) THEN torn \cup Extent(p) ELSE torn
     BY <1>5 DEF Kill
  <2> QED  BY <2>1, <1>1, <1>3
<1>6. CASE ~WriteVersion(p) /\ ~Kill(p)
  <2>1. committed' = committed /\ torn' = torn  BY <1>6, Frame
  <2>2. ~(Writing(p) /\ b \in Extent(p))
    <3>1. SUFFICES ASSUME Writing(p) PROVE Writing(p)' /\ Extent(p)' = Extent(p)
       BY <1>1
    <3>2. CASE WriteData(p)
       BY <3>2, <1>a DEF WriteData, Goto, CallTypeOK, Writing, Extent
    <3>3. CASE User(p)
       BY <3>1, <3>3 DEF User, odbb_checkout, odbb_commit, EditBuffer, AdoptVersions, Writing
    <3>4. CASE Step(p) /\ ~WriteData(p)
       BY <3>1, <3>4, <1>6 DEF Step, Measure, EofCall, EofLock, Remeasure, Truncate,
          EofUnlock, BlocksLock, BlocksUnlock, Sleep, GroupCheck, GroupLock, GroupRecheck,
          GroupMagic, GroupFlags, GroupUnlock, GroupVerify, CopyData, CopyVersions,
          CompareVersions, Writing
    <3> QED  BY <3>2, <3>3, <3>4, <1>6
  <2> QED  BY <2>1, <2>2, <1>1, <1>3
<1> QED  BY <1>4, <1>5, <1>6

-----------------------------------------------------------------------------
\* The inductive invariant.
VolumeInv == TypeOK /\ IInv

\* The initial states satisfy it.
LEMMA InitInv == Init => VolumeInv
<1>1. SUFFICES ASSUME Init PROVE VolumeInv  OBVIOUS
<1> USE <1>1 DEF Init
<1>2. TypeOK
  <2>1. FileTypeOK  BY NextVersion DEF FileTypeOK, NoGroup
  <2>2. LockTypeOK  BY DEF LockTypeOK
  <2>3. CallTypeOK
    <3>1. 0 \in Pages /\ 0 \in Groups /\ NoOp \in Op  BY Ids DEF Pages, Op
    <3> QED  BY <3>1 DEF CallTypeOK, Labels, Errors
  <2>4. BufferTypeOK  BY NextVersion DEF BufferTypeOK
  <2>5. HistoryTypeOK  BY NextVersion DEF HistoryTypeOK
  <2> QED  BY <2>1, <2>2, <2>3, <2>4, <2>5 DEF TypeOK
<1>3. LockTable  BY DEF LockTable, Clash
<1>4. Calls  BY DEF Calls, CallOK, NoOp, Inside
<1>5. BlocksLocked /\ EofLocked /\ InFile
   BY DEF BlocksLocked, LocksBlocks, EofLocked, LocksEof, InFile, Inside
<1>6. Tail0 /\ Settled  BY DEF Tail0, Settled
<1>7. Copied /\ Written  BY DEF Copied, CopiedBy, Written, WrittenBy, Inside, Writing
<1> QED  BY <1>2, <1>3, <1>4, <1>5, <1>6, <1>7 DEF VolumeInv, IInv

\* Every step keeps it.
LEMMA StepInv == VolumeInv /\ [Next]_vars => VolumeInv'
<1>1. SUFFICES ASSUME VolumeInv, [Next]_vars PROVE VolumeInv'  OBVIOUS
<1>2. CASE Next
  <2>1. PICK p \in Procs : Step(p) \/ User(p) \/ Kill(p)  BY <1>2 DEF Next
  <2>2. TypeOK /\ LockTable /\ Calls  BY <1>1 DEF VolumeInv, IInv
  <2>3. TypeOK' /\ LockTable' /\ Calls'
     BY <2>1, <2>2, TypeStep, LockTableStep, CallsStep
  <2>4. ASSUME ~deadlkSeen'
        PROVE  (/\ BlocksLocked /\ EofLocked /\ InFile /\ Tail0
                /\ Copied /\ Written /\ Settled)'
    <3>1. ~deadlkSeen  BY <2>1, <2>2, <2>4, Frame
    <3>2. /\ BlocksLocked /\ EofLocked /\ InFile /\ Tail0
          /\ Copied /\ Written /\ Settled
       BY <3>1, <1>1 DEF VolumeInv, IInv
    <3> QED
       BY <2>1, <2>2, <2>4, <3>2, BlocksLockedStep, EofLockedStep, InFileStep, Tail0Step,
          CopiedStep, WrittenStep, SettledStep
  <2> QED  BY <2>3, <2>4 DEF VolumeInv, IInv
<1>3. CASE UNCHANGED vars
  <2> USE <1>3 DEF vars, fileVars, lockVars, bufVars, histVars
  <2>1. TypeOK <=> TypeOK'
     BY DEF TypeOK, FileTypeOK, LockTypeOK, CallTypeOK, BufferTypeOK, HistoryTypeOK
  <2>2. LockTable <=> LockTable'  BY DEF LockTable, Clash
  <2>3. Calls <=> Calls'
     BY DEF Calls, CallOK, Inside, Writing, Extent, BlockAt, NeededPages, LastGroup
  <2>4. BlocksLocked <=> BlocksLocked'
     BY DEF BlocksLocked, LocksBlocks, LockFor, Inside, Writing, Extent, BlockAt
  <2>5. EofLocked <=> EofLocked'  BY DEF EofLocked, LocksEof, NeededPages, LastGroup, BlockAt
  <2>6. InFile <=> InFile'  BY DEF InFile, Inside, Extent, BlockAt, NeededPages, LastGroup
  <2>7. Tail0 <=> Tail0'  BY DEF Tail0
  <2>8. Copied <=> Copied'  BY DEF Copied, CopiedBy, Current, Inside, Extent, BlockAt
  <2>9. Written <=> Written'  BY DEF Written, WrittenBy, Inside, Writing, Extent, BlockAt
  <2>10. Settled <=> Settled'  BY DEF Settled, Writing, Inside, Extent, BlockAt, WrittenBy
  <2>11. deadlkSeen' = deadlkSeen  OBVIOUS
  <2> QED
     BY ONLY <1>1, <2>1, <2>2, <2>3, <2>4, <2>5, <2>6, <2>7, <2>8, <2>9, <2>10, <2>11
     DEF VolumeInv, IInv
<1> QED  BY <1>1, <1>2, <1>3

\* It holds in every reachable state.
LEMMA Invariance == Spec => []VolumeInv
BY InitInv, StepInv, PTL DEF Spec

\* Every variable stays within its type, whatever the lock calls return: file
\* accesses never leave the blocks, groups, slots and pages there are.
THEOREM TypeCorrect == Spec => []TypeOK
<1>1. VolumeInv => TypeOK  BY DEF VolumeInv
<1> QED  BY <1>1, Invariance, PTL

\* blocks_lock isolates: while no lock call has failed, two calls between
\* blocks_lock and blocks_unlock share no block unless both only read.
THEOREM Isolated == Spec => []Isolation
<1>1. VolumeInv => Isolation
  <2>1. SUFFICES ASSUME VolumeInv, ~deadlkSeen, NEW p \in Procs, NEW q \in Procs,
                        p # q, Inside(p), Inside(q), op[q].kind = "commit"
                 PROVE  Extent(p) \cap Extent(q) = {}
     BY DEF Isolation
  <2> QED  BY <2>1, NoOtherWriter DEF VolumeInv, IInv
<1> QED  BY <1>1, Invariance, PTL

\* A checkout is a snapshot although it copies group by group.
THEOREM Snapshots == Spec => []SnapshotCheckout
<1>1. VolumeInv => SnapshotCheckout
   BY DEF VolumeInv, IInv, SnapshotCheckout, Copied, CopiedBy, Current
<1> QED  BY <1>1, Invariance, PTL

\* No update is lost, and nothing but a successful commit (or a commit whose
\* process was killed while writing) changes a block.
THEOREM CommitsOnly == Spec => []OnlyCommitsUpdate
<1>1. VolumeInv => OnlyCommitsUpdate
   BY DEF VolumeInv, IInv, OnlyCommitsUpdate, Settled
<1> QED  BY <1>1, Invariance, PTL

\* The blocks a call works on are inside the file.
THEOREM RoomForBlocks == Spec => []BlocksInFile
<1>1. VolumeInv => BlocksInFile
   BY DEF VolumeInv, IInv, BlocksInFile, InFile
<1> QED  BY <1>1, Invariance, PTL

\* The file never shrinks, however many processes race to extend it.
THEOREM Grows == Spec => FileOnlyGrows
<1>1. VolumeInv /\ [Next]_vars => [deadlkSeen \/ size <= size']_<<size, deadlkSeen>>
  <2>1. SUFFICES ASSUME VolumeInv, [Next]_vars, ~deadlkSeen PROVE size <= size'
     OBVIOUS
  <2>2. size \in Nat  BY <2>1, Ids DEF VolumeInv, TypeOK, FileTypeOK, Pages
  <2>3. CASE UNCHANGED vars  BY <2>2, <2>3 DEF vars, fileVars
  <2>4. CASE Next
    <3>1. PICK p \in Procs : Step(p) \/ User(p) \/ Kill(p)  BY <2>4 DEF Next
    <3> QED  BY <2>1, <3>1, SizeStep DEF VolumeInv, IInv
  <2> QED  BY <2>1, <2>3, <2>4
<1> QED  BY <1>1, Invariance, PTL DEF Spec, FileOnlyGrows
-----------------------------------------------------------------------------
(* Calls that do not extend the file *)

\* Every step keeps FitsInv.
LEMMA FitsStep ==
    ASSUME CallsFit, VolumeInv, FitsInv, NEW p \in Procs, Step(p) \/ User(p) \/ Kill(p)
    PROVE  FitsInv'
<1> DEFINE Extending == {"eofcall", "eoflock", "remeasure", "truncate", "eofunlock",
                         "eofunlockerr"}
<1>1. TypeOK /\ Calls  BY DEF VolumeInv, IInv
<1>2. pc[p] \notin Extending /\ LocksNeeded(p)  BY DEF FitsInv
<1>3. /\ lk \in [Procs -> [Pages -> {"none", "read", "write"}]]
      /\ pc \in [Procs -> Labels] /\ op \in [Procs -> Op] /\ idx \in [Procs -> Nat]
      /\ grp \in [Procs -> Groups]
   BY <1>1 DEF TypeOK, LockTypeOK, CallTypeOK
<1>4. size' = size
   BY <1>1, <1>2, Frame DEF Truncate
<1>5. ASSUME pc[p] = "measure" PROVE NeededPages(p) <= size
  <2>1. op[p] # NoOp /\ op[p] \in Op  BY <1>1, <1>5, CallFacts
  <2>2. ASSUME NEW o \in Op, o # NoOp
        PROVE  bid2pid(o.start + o.blockc - 1) + 1 <= size
    <3>1. PICK k \in {"checkout", "commit"}, r \in Ranges :
             o = [kind |-> k, start |-> r[1], blockc |-> r[2]]
       BY <2>2 DEF Op
    <3> QED  BY <3>1 DEF CallsFit, FitsInv
  <2> QED  BY <2>1, <2>2 DEF NeededPages
<1>6. \A q \in Procs \ {p} : pc'[q] \notin Extending /\ LocksNeeded(q)'
  <2>1. SUFFICES ASSUME NEW q \in Procs \ {p} PROVE pc'[q] \notin Extending /\ LocksNeeded(q)'
     OBVIOUS
  <2>2. Same(q)  BY <1>1, Frame
  <2>3. pc[q] \notin Extending /\ LocksNeeded(q)  BY DEF FitsInv
  <2> QED  BY <2>2, <2>3 DEF Same, LocksNeeded, MayLock, Extent, Inside
<1>7. pc'[p] \notin Extending /\ LocksNeeded(p)'
  <2> USE DEF Goto, Return, Finish
  <2>b. ASSUME \A x \in Pages : lk'[p][x] = "none"
        PROVE  LocksNeeded(p)'
     BY <2>b DEF LocksNeeded
  \* Outside blocks_lock and blocks_unlock the process has no lock.
  <2>c. ASSUME pc[p] \in {"idle", "measure"}, lk'[p] = lk[p]
        PROVE  LocksNeeded(p)'
    <3>1. \A x \in Pages : lk[p][x] = "none"
       BY <1>2, <2>c DEF LocksNeeded, MayLock, Inside
    <3> QED  BY <2>b, <2>c, <3>1
  <2>1. CASE Measure(p)
    <3>1. NeededPages(p) <= size /\ AfterTruncate(p)
      <4>1. NeededPages(p) \in Nat /\ size \in Nat
         BY <1>1, <2>1, CallFacts, Ids DEF Measure, TypeOK, FileTypeOK, Pages
      <4> QED  BY <2>1, <1>5, <4>1 DEF Measure
    <3>2. pc'[p] \in {"idle", "lock"}  BY <1>3, <3>1 DEF AfterTruncate
    <3>3. pc[p] = "measure" /\ lk'[p] = lk[p]  BY <2>1 DEF Measure, lockVars
    <3> QED  BY <2>c, <3>2, <3>3
  <2>2. CASE User(p)
    <3>1. pc[p] = "idle" /\ lk'[p] = lk[p] /\ pc'[p] \in {"idle", "measure"}
       BY <2>2, <1>3 DEF User, odbb_checkout, odbb_commit, EditBuffer, AdoptVersions, lockVars
    <3> QED  BY <2>c, <3>1
  <2>3. CASE Kill(p)
    <3>1. pc'[p] = "idle" /\ \A x \in Pages : lk'[p][x] = "none"
       BY <2>3, <1>3 DEF Kill, Unlock, SetLock
    <3> QED  BY <2>b, <3>1
  <2>4. CASE BlocksLock(p)
    <3> DEFINE n == op[p].start + idx[p]
               y == bid2pid(n)
    <3>1. /\ pc[p] = "lock" /\ idx[p] < op[p].blockc
          /\ op[p].start \in Nat /\ op[p].blockc \in Nat /\ idx[p] \in Nat /\ n \in Blocks
       BY <2>4, <1>1, CallFacts DEF BlocksLock, BlockAt
    <3>2. \A x \in Pages : lk'[p][x] # "none" => lk[p][x] # "none" \/ x = y
      <4>1. LockReturns(p)  BY <2>4 DEF BlocksLock
      <4>2. Request(p) = {y}  BY <3>1 DEF Request, BlockAt
      <4> HIDE DEF y
      <4> QED  BY <1>3, <4>1, <4>2 DEF LockReturns, Granted, Deadlk, Ebadf, SetLock, lockVars
    <3>3. /\ op' = op
          /\ \/ idx[p] + 1 < op[p].blockc /\ idx'[p] = idx[p] + 1 /\ pc'[p] = "lock"
             \/ idx[p] + 1 = op[p].blockc /\ pc'[p] = "gcheck"
      <4>1. idx[p] + 1 < op[p].blockc \/ idx[p] + 1 = op[p].blockc  BY <3>1
      <4>2. CASE idx[p] + 1 < op[p].blockc  BY <2>4, <1>3, <3>1, <4>2 DEF BlocksLock
      <4>3. CASE idx[p] + 1 = op[p].blockc
        <5>1. ~(idx[p] + 1 < op[p].blockc)  BY <3>1, <4>3
        <5> QED  BY <2>4, <1>3, <4>3, <5>1 DEF BlocksLock
      <4> QED  BY <4>1, <4>2, <4>3
    <3>4. ASSUME NEW x \in Pages, lk'[p][x] # "none"  PROVE MayLock(p, x)'
      <4>1. PICK b \in Extent(p) : x = bid2pid(b) /\ b < n + 1
        <5>1. CASE x = y
          <6>1. n \in Extent(p)  BY <3>1 DEF Extent
          <6> QED  BY <3>1, <5>1, <6>1
        <5>2. CASE lk[p][x] # "none"
          <6>1. MayLock(p, x)  BY <1>2, <5>2 DEF LocksNeeded
          <6>2. PICK b \in Extent(p) : x = bid2pid(b) /\ b < n
             BY <3>1, <6>1 DEF MayLock, Inside
          <6>3. b \in Nat /\ n \in Nat  BY <3>1, Ids DEF Extent
          <6> QED  BY <6>2, <6>3
        <5> QED  BY <3>2, <3>4, <5>1, <5>2
      <4>2. b \in Extent(p)'  BY <3>3, <4>1 DEF Extent
      <4>3. CASE pc'[p] = "gcheck"  BY <4>1, <4>2, <4>3 DEF MayLock, Inside
      <4>4. CASE pc'[p] = "lock" /\ idx'[p] = idx[p] + 1
        <5>1. b < op'[p].start + idx'[p]  BY <3>1, <3>3, <4>1, <4>4
        <5> QED  BY <4>1, <4>2, <4>4, <5>1 DEF MayLock
      <4> QED  BY <3>3, <4>3, <4>4
    <3> QED  BY <3>3, <3>4 DEF LocksNeeded
  <2>5. CASE BlocksUnlock(p)
    <3> DEFINE n == op[p].start + idx[p]
               y == bid2pid(n)
    <3>1. /\ pc[p] = "unlock" /\ idx[p] < op[p].blockc
          /\ op[p].start \in Nat /\ op[p].blockc \in Nat /\ idx[p] \in Nat /\ n \in Blocks
       BY <2>5, <1>1, CallFacts DEF BlocksUnlock, BlockAt
    <3>2. \A x \in Pages : lk'[p][x] # "none" => lk[p][x] # "none" /\ x # y
       BY <2>5, <1>3 DEF BlocksUnlock, Unlock, SetLock, BlockAt
    <3>3. \/ /\ idx[p] + 1 < op[p].blockc /\ idx'[p] = idx[p] + 1
             /\ pc'[p] = "unlock" /\ op' = op
          \/ idx[p] + 1 = op[p].blockc /\ pc'[p] = "idle"
      <4>1. idx[p] + 1 < op[p].blockc \/ idx[p] + 1 = op[p].blockc  BY <3>1
      <4>2. CASE idx[p] + 1 < op[p].blockc  BY <2>5, <1>3, <3>1, <4>2 DEF BlocksUnlock
      <4>3. CASE idx[p] + 1 = op[p].blockc
        <5>1. ~(idx[p] + 1 < op[p].blockc)  BY <3>1, <4>3
        <5> QED  BY <2>5, <1>3, <4>3, <5>1 DEF BlocksUnlock
      <4> QED  BY <4>1, <4>2, <4>3
    <3>4. ASSUME NEW x \in Pages, lk'[p][x] # "none"  PROVE MayLock(p, x)'
      <4>1. MayLock(p, x) /\ x # y  BY <1>2, <3>2, <3>4 DEF LocksNeeded
      <4>2. PICK b \in Extent(p) : x = bid2pid(b) /\ n <= b
         BY <3>1, <4>1 DEF MayLock, Inside
      <4>3. b \in Nat /\ n \in Nat /\ n # b /\ b < op[p].start + op[p].blockc
         BY <3>1, <4>1, <4>2, Ids DEF Extent
      <4>4. n + 1 <= b  BY <4>2, <4>3
      <4>5. /\ idx'[p] = idx[p] + 1 /\ pc'[p] = "unlock" /\ op' = op
         BY <3>1, <3>3, <4>3, <4>4
      <4>6. b \in Extent(p)' /\ op'[p].start + idx'[p] <= b  BY <3>1, <4>2, <4>4, <4>5 DEF Extent
      <4> QED  BY <4>2, <4>5, <4>6 DEF MayLock
    <3> QED  BY <3>3, <3>4 DEF LocksNeeded
  <2>6. CASE Sleep(p)
    <3>1. UNCHANGED <<lk, pc, op, idx, grp>>  BY <2>6 DEF Sleep
    <3> QED  BY <1>2, <3>1 DEF LocksNeeded, MayLock, Extent, Inside
  \* From inside to inside, but for the lock on a descriptor.
  <2>7. ASSUME Inside(p), op' = op, pc'[p] \notin Extending,
               Inside(p)' \/ (pc'[p] = "unlock" /\ idx'[p] = 0),
               \A x \in Pages : lk'[p][x] # "none" =>
                  \/ lk[p][x] # "none" /\ (x = gid2pid(grp[p]) =>
                         \/ pc[p] \notin {"grecheck", "gmagic", "gflags", "gunlock"}
                         \/ pc'[p] \in {"grecheck", "gmagic", "gflags", "gunlock"}
                              /\ grp'[p] = grp[p])
                  \/ pc'[p] = "grecheck" /\ grp'[p] = grp[p] /\ x = gid2pid(grp[p])
        PROVE  LocksNeeded(p)'
    <3>1. SUFFICES ASSUME NEW x \in Pages, lk'[p][x] # "none"  PROVE MayLock(p, x)'
       BY DEF LocksNeeded
    <3>2. CASE \E b \in Extent(p) : x = bid2pid(b)
      <4>1. PICK b \in Extent(p) : x = bid2pid(b)  BY <3>2
      <4>2. b \in Extent(p)' /\ op'[p].start <= b /\ op'[p].start \in Nat
         BY <2>7, <4>1, <1>1, CallFacts DEF Extent
      <4>3. op'[p].start + 0 <= b  BY <4>2
      <4> QED  BY <2>7, <4>1, <4>2, <4>3 DEF MayLock
    <3>3. CASE ~\E b \in Extent(p) : x = bid2pid(b)
      <4>1. CASE lk[p][x] # "none"
        <5>1. MayLock(p, x)  BY <1>2, <4>1 DEF LocksNeeded
        <5>2. pc[p] \in {"grecheck", "gmagic", "gflags", "gunlock"} /\ x = gid2pid(grp[p])
           BY <3>3, <5>1 DEF MayLock
        <5> QED  BY <2>7, <3>1, <5>2 DEF MayLock
      <4>2. CASE lk[p][x] = "none"  BY <2>7, <3>1, <4>2 DEF MayLock
      <4> QED  BY <4>1, <4>2
    <3> QED  BY <3>2, <3>3
  <2>8. CASE GroupLock(p)
    <3>1. pc[p] = "glock" /\ pc'[p] = "grecheck" /\ op' = op /\ grp' = grp
       BY <2>8, <1>3 DEF GroupLock
    <3>2. \A x \in Pages : lk'[p][x] # "none" => lk[p][x] # "none" \/ x = gid2pid(grp[p])
      <4>1. LockReturns(p)  BY <2>8 DEF GroupLock
      <4>2. Request(p) = {gid2pid(grp[p])}  BY <3>1 DEF Request
      <4> QED  BY <1>3, <4>1, <4>2 DEF LockReturns, Granted, Deadlk, Ebadf, SetLock, lockVars
    <3> QED  BY <2>7, <3>1, <3>2 DEF Inside
  <2>9. CASE GroupUnlock(p)
    <3>1. pc[p] = "gunlock" /\ pc'[p] = "gverify" /\ op' = op /\ grp' = grp
       BY <2>9, <1>3 DEF GroupUnlock
    <3>2. \A x \in Pages : lk'[p][x] # "none" => lk[p][x] # "none" /\ x # gid2pid(grp[p])
       BY <2>9, <1>3 DEF GroupUnlock, Unlock, SetLock
    <3> QED  BY <2>7, <3>1, <3>2 DEF Inside
  <2>10. CASE GroupRecheck(p)
    <3>1. pc[p] = "grecheck" /\ op' = op /\ grp' = grp  BY <2>10 DEF GroupRecheck
    <3>2. CASE pc'[p] = "dead" /\ Unlock(p, Pages)
      <4>1. \A x \in Pages : lk'[p][x] = "none"  BY <3>2, <1>3 DEF Unlock, SetLock
      <4> QED  BY <2>b, <3>2, <4>1
    <3>3. CASE pc'[p] \in {"gunlock", "gmagic"} /\ lk' = lk
       BY <2>7, <3>1, <3>3 DEF Inside
    <3> QED  BY <2>10, <1>3, <3>2, <3>3 DEF GroupRecheck, lockVars
  <2>11. CASE GroupMagic(p) \/ GroupFlags(p)
    <3>1. /\ op' = op /\ grp' = grp /\ lk' = lk
          /\ pc[p] \in {"gmagic", "gflags"} /\ pc'[p] \in {"gflags", "gunlock"}
       BY <2>11, <1>3 DEF GroupMagic, GroupFlags, lockVars
    <3> QED  BY <2>7, <3>1 DEF Inside
  <2>12. CASE \/ GroupCheck(p) \/ GroupVerify(p) \/ CopyData(p) \/ CopyVersions(p)
              \/ CompareVersions(p) \/ WriteData(p) \/ WriteVersion(p)
    <3>1. /\ op' = op /\ lk' = lk
          /\ pc[p] \in {"gcheck", "gverify", "copydata", "copyver", "compare", "writedata",
                        "writever"}
          /\ \/ pc'[p] \in {"gcheck", "glock", "gverify", "copydata", "copyver", "compare",
                            "writedata", "writever"}
             \/ pc'[p] = "unlock" /\ idx'[p] = 0
       BY <2>12, <1>3 DEF GroupCheck, GroupVerify, CopyData, CopyVersions, CompareVersions,
          WriteData, WriteVersion, lockVars
    <3> QED  BY <2>7, <3>1 DEF Inside
  <2> QED
     BY <1>2, <2>1, <2>2, <2>3, <2>4, <2>5, <2>6, <2>8, <2>9, <2>10, <2>11, <2>12
     DEF Step, EofCall, EofLock, Remeasure, Truncate, EofUnlock
<1> QED  BY <1>4, <1>6, <1>7 DEF FitsInv

\* A process that is not in a call has no lock on the file, if calls stay
\* within the file they find: also after a lock call has failed.  (The lock on
\* the end of a file that grows is given back only in part: section 6 of the
\* README.)
THEOREM LocksGivenBack ==
    ASSUME CallsFit
    PROVE  Spec => []IdleHoldsNoLock
<1>1. Init => FitsInv  BY DEF Init, FitsInv, LocksNeeded
<1>2. VolumeInv /\ FitsInv /\ [Next]_vars => FitsInv'
  <2>1. SUFFICES ASSUME VolumeInv, FitsInv, [Next]_vars PROVE FitsInv'  OBVIOUS
  <2>2. CASE Next
    <3>1. PICK p \in Procs : Step(p) \/ User(p) \/ Kill(p)  BY <2>2 DEF Next
    <3> QED  BY <2>1, <3>1, FitsStep
  <2>3. CASE UNCHANGED vars
     BY <2>1, <2>3 DEF vars, fileVars, lockVars, FitsInv, LocksNeeded, MayLock, Extent, Inside
  <2> QED  BY <2>1, <2>2, <2>3
<1>3. FitsInv => IdleHoldsNoLock
   BY DEF FitsInv, LocksNeeded, MayLock, Inside, IdleHoldsNoLock
<1> QED  BY <1>1, <1>2, <1>3, Invariance, PTL DEF Spec
-----------------------------------------------------------------------------
(* Two results that stand on the invariant: a group in the making is never *)
(* taken for a foreign file, and Volume implements VersionedBlocks         *)

\* A step is taken and no lock call has failed yet: what the lemmas below share.
Stepping(p) ==
    /\ p \in Procs
    /\ VolumeInv
    /\ Step(p) \/ User(p) \/ Kill(p)
    /\ ~deadlkSeen'

LEMMA SteppingFacts ==
    ASSUME NEW p, Stepping(p)
    PROVE  /\ p \in Procs /\ (Step(p) \/ User(p) \/ Kill(p))
           /\ TypeOK /\ LockTable /\ Calls /\ ~deadlkSeen
           /\ BlocksLocked /\ EofLocked /\ InFile /\ Tail0 /\ Copied /\ Written /\ Settled
           /\ VolumeInv'
           /\ (Copied /\ Settled)'
<1>1. p \in Procs /\ (Step(p) \/ User(p) \/ Kill(p)) /\ TypeOK /\ LockTable /\ Calls
   BY DEF Stepping, VolumeInv, IInv
<1>2. ~deadlkSeen  BY <1>1, Frame DEF Stepping
<1>3. VolumeInv'  BY <1>1, StepInv DEF Stepping, Next
<1> QED  BY <1>1, <1>2, <1>3 DEF Stepping, VolumeInv, IInv
-----------------------------------------------------------------------------
(* Group descriptors *)

\* The magic number is written before the flags, and whoever has seen the flags
\* finds both: the descriptor lies inside the file, which does not shrink.
GroupOK(p) ==
    /\ pc[p] = "gflags" => group[grp[p]].magic
    /\ pc[p] \in {"gunlock", "gverify"} => group[grp[p]].flags
    /\ ret[p] # "ENOTDB"

GroupInv ==
    ~deadlkSeen =>
      /\ \A g \in Groups : group[g].flags => group[g].magic
      /\ \A p \in Procs : GroupOK(p)

\* The descriptors a call visits lie before its last block.
LEMMA DescriptorInFile ==
    ASSUME TypeOK, Calls, InFile, NEW p \in Procs, Inside(p)
    PROVE  gid2pid(grp[p]) \in Nat /\ gid2pid(grp[p]) < size
<1> DEFINE e == op[p].start + op[p].blockc - 1
<1>1. pc[p] # "idle"  BY DEF Inside
<1>2. /\ op[p] # NoOp /\ op[p].start \in Nat /\ op[p].blockc \in Nat /\ op[p].blockc >= 1
      /\ grp[p] <= LastGroup(p) /\ grp[p] \in Nat
   BY <1>1, CallFacts, Ids
<1>3. e \in Nat  BY <1>2
<1>4. LastGroup(p) = bid2gid(e)  BY <1>2, CallReach
<1>5. gid2pid(bid2gid(e)) \in Nat /\ gid2pid(bid2gid(e)) < bid2pid(e) /\ bid2pid(e) \in Nat
      /\ bid2gid(e) \in Nat
   BY <1>3, DescriptorFirst, PageOfBlock
<1>6. size \in Nat /\ bid2pid(e) + 1 <= size
   BY Ids DEF TypeOK, FileTypeOK, Pages, InFile, NeededPages
<1>7. gid2pid(grp[p]) \in Nat /\ gid2pid(grp[p]) <= gid2pid(bid2gid(e))
  <2>1. \A g \in Nat : gid2pid(g) = PagesPerGroup * g /\ PagesPerGroup \in Nat
     BY DEF gid2pid, PagesPerGroup
  <2>2. \A g \in Nat : gid2pid(g) \in Nat  BY <2>1
  <2>3. CASE grp[p] = bid2gid(e)  BY <1>5, <2>3
  <2>4. CASE grp[p] < bid2gid(e)
    <3>1. PagesPerGroup * grp[p] + PagesPerGroup <= PagesPerGroup * bid2gid(e)
       BY <1>2, <1>5, <2>1, <2>4, TimesMonotone
    <3> QED  BY <1>2, <1>5, <2>1, <2>2, <3>1
  <2> QED  BY <1>2, <1>4, <1>5, <2>3, <2>4
<1> QED  BY <1>5, <1>6, <1>7

\* What is set in a descriptor some call visits stays set.
LEMMA DescriptorKept ==
    ASSUME NEW p, Stepping(p), NEW q \in Procs, Inside(q)
    PROVE  /\ group[grp[q]].magic => group'[grp[q]].magic
           /\ group[grp[q]].flags => group'[grp[q]].flags
<1> USE SteppingFacts
<1>0. /\ group \in [Groups -> [magic : BOOLEAN, flags : BOOLEAN]]
      /\ grp[q] \in Groups /\ grp[p] \in Groups
   BY DEF TypeOK, FileTypeOK, CallTypeOK
<1>1. CASE Truncate(p)
  <2>1. gid2pid(grp[q]) \in Nat /\ gid2pid(grp[q]) < size  BY DescriptorInFile
  <2>2. size \in Nat /\ size' \in Nat /\ size <= size'  BY SizeStep
  <2>3. gid2pid(grp[q]) < size'  BY <2>1, <2>2
  <2> QED  BY <1>0, <1>1, <2>3 DEF Truncate, fileVars
<1>2. CASE GroupMagic(p)  BY <1>0, <1>2 DEF GroupMagic
<1>3. CASE GroupFlags(p)  BY <1>0, <1>3 DEF GroupFlags
<1> QED  BY <1>1, <1>2, <1>3, Frame

LEMMA GroupStep ==
    ASSUME NEW p, Stepping(p), GroupInv
    PROVE  GroupInv'
<1> USE SteppingFacts
<1>0. /\ group \in [Groups -> [magic : BOOLEAN, flags : BOOLEAN]]
      /\ pc \in [Procs -> Labels] /\ grp \in [Procs -> Groups] /\ ret \in [Procs -> Errors]
      /\ grp' \in [Procs -> Groups]
   BY DEF TypeOK, FileTypeOK, CallTypeOK, VolumeInv
<1>1. /\ \A g \in Groups : group[g].flags => group[g].magic
      /\ \A q \in Procs : GroupOK(q)
   BY DEF GroupInv
<1>2. ASSUME NEW g \in Groups, group'[g].flags  PROVE group'[g].magic
  <2>1. CASE Truncate(p)
    <3>1. group'[g] = group[g] \/ group'[g] = NoGroup  BY <2>1 DEF Truncate, fileVars
    <3> QED  BY <1>1, <1>2, <3>1 DEF NoGroup
  <2>2. CASE GroupMagic(p)
    <3>1. group' = [group EXCEPT ![grp[p]].magic = TRUE]  BY <2>2 DEF GroupMagic
    <3> QED  BY <1>0, <1>1, <1>2, <3>1
  <2>3. CASE GroupFlags(p)
    <3>1. group' = [group EXCEPT ![grp[p]].flags = TRUE] /\ pc[p] = "gflags"
       BY <2>3 DEF GroupFlags
    <3>2. group[grp[p]].magic  BY <1>1, <3>1 DEF GroupOK
    <3> QED  BY <1>0, <1>1, <1>2, <3>1, <3>2
  <2>4. CASE group' = group  BY <1>1, <1>2, <2>4
  <2> QED  BY <2>1, <2>2, <2>3, <2>4, Frame
<1>3. ASSUME NEW q \in Procs, q # p  PROVE GroupOK(q)'
  <2>1. Same(q)  BY <1>3, Frame
  <2>2. pc[q] \in {"gflags", "gunlock", "gverify"} => Inside(q)  BY DEF Inside
  <2> QED  BY <1>1, <2>1, <2>2, DescriptorKept DEF GroupOK, Same
<1>4. GroupOK(p)'
  <2>0. GroupOK(p)  BY <1>1
  <2>1. CASE GroupMagic(p)
     BY <1>0, <2>0, <2>1 DEF GroupMagic, GroupOK, Goto
  <2>2. CASE GroupFlags(p)
     BY <1>0, <2>0, <2>2 DEF GroupFlags, GroupOK, Goto
  <2>3. CASE GroupCheck(p) \/ GroupRecheck(p) \/ GroupUnlock(p)
     BY <1>0, <2>0, <2>3 DEF GroupCheck, GroupRecheck, GroupUnlock, GroupOK, Goto, fileVars
  <2>4. CASE GroupVerify(p)
    <3>1. group[grp[p]].magic /\ group[grp[p]].flags
       BY <1>0, <1>1, <2>0, <2>4 DEF GroupVerify, GroupOK
    <3> QED  BY <1>0, <2>0, <2>4, <3>1 DEF GroupVerify, GroupOK, Goto, fileVars
  <2>5. CASE Sleep(p)  BY <2>0, <2>5 DEF Sleep, GroupOK, fileVars
  <2>6. CASE \/ Measure(p) \/ EofCall(p) \/ EofLock(p) \/ Remeasure(p) \/ Truncate(p)
             \/ EofUnlock(p)
     BY <1>0, <2>0, <2>6 DEF Measure, AfterTruncate, Return, EofCall, EofLock, Remeasure,
        Truncate, EofUnlock, GroupOK, Goto
  <2>7. CASE BlocksLock(p) \/ BlocksUnlock(p) \/ GroupLock(p)
     BY <1>0, <2>0, <2>7 DEF BlocksLock, BlocksUnlock, GroupLock, GroupOK, Goto
  <2>7a. CASE CopyData(p) \/ CopyVersions(p)
     BY <1>0, <2>0, <2>7a DEF CopyData, CopyVersions, Finish, GroupOK, Goto
  <2>7b. CASE CompareVersions(p) \/ WriteData(p) \/ WriteVersion(p)
     BY <1>0, <2>0, <2>7b DEF CompareVersions, WriteData, WriteVersion, Finish, GroupOK, Goto
  <2>8. CASE User(p)
     BY <1>0, <2>0, <2>8 DEF User, odbb_checkout, odbb_commit, EditBuffer, AdoptVersions,
        GroupOK, Goto, fileVars
  <2>9. CASE Kill(p)  BY <1>0, <2>9 DEF Kill, GroupOK, Goto
  <2> QED  BY <2>1, <2>2, <2>3, <2>4, <2>5, <2>6, <2>7, <2>7a, <2>7b, <2>8, <2>9 DEF Step
<1> QED  BY <1>2, <1>3, <1>4 DEF GroupInv

\* While no lock call has failed, no checkout and no commit returns ODB_ENOTDB:
\* whoever comes upon a group that another process is about to initialize
\* waits for it or finds it whole.
THEOREM GroupsRecognized == Spec => [](~deadlkSeen => NeverNotDb)
<1>1. Init => GroupInv
   BY DEF Init, GroupInv, GroupOK, NoGroup
<1>2. VolumeInv /\ GroupInv /\ [Next]_vars => GroupInv'
  <2> SUFFICES ASSUME VolumeInv, GroupInv, [Next]_vars  PROVE GroupInv'  OBVIOUS
  <2>1. CASE UNCHANGED vars
     BY <2>1 DEF vars, fileVars, GroupInv, GroupOK
  <2>2. ASSUME NEW p \in Procs, Step(p) \/ User(p) \/ Kill(p)  PROVE GroupInv'
    <3>1. CASE deadlkSeen'  BY <3>1 DEF GroupInv
    <3>2. CASE ~deadlkSeen'  BY <2>2, <3>2, GroupStep DEF Stepping
    <3> QED  BY <3>1, <3>2
  <2> QED  BY <2>1, <2>2 DEF Next
<1>3. GroupInv => (~deadlkSeen => NeverNotDb)  BY DEF GroupInv, GroupOK, NeverNotDb
<1> QED  BY <1>1, <1>2, <1>3, Invariance, PTL DEF Spec
-----------------------------------------------------------------------------
(* Volume implements VersionedBlocks *)

\* A commit that is writing started from the versions its blocks were committed
\* with.
BasedOn(p) ==
    Writing(p) => \A b \in Extent(p) \ torn : committed[b].ver = uver[p][b - op[p].start]

BasedInv == ~deadlkSeen => \A p \in Procs : BasedOn(p)

\* Of a commit that is writing, no step of another process changes the blocks'
\* history.
LEMMA HistoryKept ==
    ASSUME NEW p, Stepping(p), NEW q \in Procs, q # p, Writing(q)
    PROVE  \A b \in Extent(q) : /\ committed'[b] = committed[b]
                                /\ b \notin torn' => b \notin torn
<1> USE SteppingFacts
<1>1. CASE WriteVersion(p)
  <2>1. Inside(p) /\ op[p].kind = "commit" /\ Inside(q)
     BY <1>1 DEF WriteVersion, Inside, Writing, Calls, CallOK
  <2>2. Extent(q) \cap Extent(p) = {}  BY <2>1, NoOtherWriter
  <2>3. \A b \in Extent(q) : b \in Blocks  BY DEF Extent
  <2> QED  BY <1>1, <2>2, <2>3 DEF WriteVersion, histVars
<1>2. CASE Kill(p)  BY <1>2 DEF Kill
<1> QED  BY <1>1, <1>2, Frame

LEMMA BasedStep ==
    ASSUME NEW p, Stepping(p), BasedInv
    PROVE  BasedInv'
<1> USE SteppingFacts
<1>0. \A q \in Procs : BasedOn(q)  BY DEF BasedInv
<1>1. ASSUME NEW q \in Procs, q # p  PROVE BasedOn(q)'
  <2>1. Same(q)  BY <1>1, Frame
  <2>2. /\ Writing(q)' <=> Writing(q)
        /\ Extent(q)' = Extent(q)
        /\ op'[q] = op[q] /\ uver'[q] = uver[q]
     BY <2>1 DEF Same, Writing, Extent
  <2>3. BasedOn(q)  BY <1>0
  <2>4. SUFFICES ASSUME Writing(q), NEW b \in Extent(q), b \notin torn'
                 PROVE  committed'[b].ver = uver[q][b - op[q].start]
     BY <2>2 DEF BasedOn
  <2>5. committed'[b] = committed[b] /\ b \notin torn  BY <1>1, <2>4, HistoryKept
  <2> QED  BY <2>3, <2>4, <2>5 DEF BasedOn
<1>2. BasedOn(p)'
  <2>0. pc \in [Procs -> Labels] /\ op \in [Procs -> Op] /\ uver \in [Procs -> [Slots -> Versions]]
     BY DEF TypeOK, CallTypeOK, BufferTypeOK
  <2>1. CASE CompareVersions(p)
    <3>1. /\ pc[p] = "compare" /\ op' = op /\ uver' = uver /\ committed' = committed
          /\ torn' = torn
       BY <2>1 DEF CompareVersions, histVars
    <3>2. Extent(p)' = Extent(p)  BY <3>1 DEF Extent
    <3>3. SUFFICES ASSUME Writing(p)', NEW b \in Extent(p), b \notin torn
                   PROVE  committed[b].ver = uver[p][b - op[p].start]
       BY <3>1, <3>2 DEF BasedOn
    <3> DEFINE i == b - op[p].start
    <3>4. Inside(p) /\ op[p].blockc <= BufLen  BY <3>1, CallFacts DEF Inside
    <3>5. i \in Slots /\ i < op[p].blockc /\ b = BlockAt(p, i) /\ b \in Blocks
       BY <3>4, ExtentSlots
    <3>6. ~\E j \in Slots : j < op[p].blockc /\ uver[p][j] # ver[BlockAt(p, j)]
       BY <2>0, <2>1, <3>3 DEF CompareVersions, Finish, Goto, Writing
    <3>7. uver[p][i] = ver[b]  BY <3>5, <3>6
    <3>8. \A q \in Procs : Writing(q) => b \notin Extent(q)
      <4>1. ~Writing(p)  BY <3>1 DEF Writing
      <4>2. ASSUME NEW q \in Procs, Writing(q), q # p  PROVE b \notin Extent(q)
        <5>1. Inside(q) /\ op[q].kind = "commit"
           BY <4>2 DEF Writing, Inside, Calls, CallOK
        <5> QED  BY <3>4, <4>2, <5>1, NoOtherWriter
      <4> QED  BY <4>1, <4>2
    <3>9. committed[b] = [data |-> data[b], ver |-> ver[b]]
       BY <3>3, <3>5, <3>8 DEF Settled
    <3> QED  BY <3>7, <3>9
  <2>2. CASE WriteData(p) \/ WriteVersion(p)
    <3>1. op' = op /\ uver' = uver /\ Writing(p)
       BY <2>2 DEF WriteData, WriteVersion, Writing, bufVars
    <3>2. CASE ~Writing(p)'  BY <3>2 DEF BasedOn
    <3>3. CASE Writing(p)'
      <4>1. committed' = committed /\ torn' = torn
        <5>1. CASE WriteData(p)  BY <5>1 DEF WriteData, histVars
        <5>2. CASE WriteVersion(p) /\ idx[p] + 1 < op[p].blockc
           BY <5>2 DEF WriteVersion, histVars
        <5>3. CASE WriteVersion(p) /\ ~(idx[p] + 1 < op[p].blockc)
           BY <2>0, <3>3, <5>3 DEF WriteVersion, Finish, Goto, Writing
        <5> QED  BY <2>2, <5>1, <5>2, <5>3
      <4>2. BasedOn(p)  BY <1>0
      <4> QED  BY <3>1, <4>1, <4>2 DEF BasedOn, Extent
    <3> QED  BY <3>2, <3>3
  <2>3. CASE Kill(p)
     BY <2>0, <2>3 DEF Kill, Goto, BasedOn, Writing
  <2>4. CASE User(p)
     BY <2>0, <2>4 DEF User, odbb_checkout, odbb_commit, EditBuffer, AdoptVersions, Goto,
        BasedOn, Writing
  <2>5. CASE \/ Measure(p) \/ EofCall(p) \/ EofLock(p) \/ Remeasure(p) \/ Truncate(p)
             \/ EofUnlock(p) \/ Sleep(p)
     BY <2>0, <2>5 DEF Measure, AfterTruncate, Return, EofCall, EofLock, Remeasure,
        Truncate, EofUnlock, Sleep, Goto, BasedOn, Writing
  <2>6. CASE \/ BlocksLock(p) \/ BlocksUnlock(p) \/ GroupLock(p) \/ CopyData(p)
             \/ CopyVersions(p) \/ GroupCheck(p) \/ GroupRecheck(p) \/ GroupMagic(p)
             \/ GroupFlags(p) \/ GroupUnlock(p) \/ GroupVerify(p)
     BY <2>0, <2>6 DEF BlocksLock, BlocksUnlock, GroupLock, CopyData, CopyVersions,
        GroupCheck, GroupRecheck, GroupMagic, GroupFlags, GroupUnlock, GroupVerify, Finish,
        Goto, BasedOn, Writing
  <2> QED  BY <2>1, <2>2, <2>3, <2>4, <2>5, <2>6 DEF Step
<1> QED  BY <1>1, <1>2 DEF BasedInv

LEMMA BasedInvariance == Spec => [](VolumeInv /\ BasedInv)
<1>1. Init => BasedInv  BY DEF Init, BasedInv, BasedOn, Writing
<1>2. VolumeInv /\ BasedInv /\ [Next]_vars => BasedInv'
  <2> SUFFICES ASSUME VolumeInv, BasedInv, [Next]_vars  PROVE BasedInv'  OBVIOUS
  <2>1. CASE UNCHANGED vars
     BY <2>1 DEF vars, bufVars, histVars, BasedInv, BasedOn, Writing, Extent
  <2>2. ASSUME NEW p \in Procs, Step(p) \/ User(p) \/ Kill(p)  PROVE BasedInv'
    <3>1. CASE deadlkSeen'  BY <3>1 DEF BasedInv
    <3>2. CASE ~deadlkSeen'  BY <2>2, <3>2, BasedStep DEF Stepping
    <3> QED  BY <3>1, <3>2
  <2> QED  BY <2>1, <2>2 DEF Next
<1> QED  BY <1>1, <1>2, Invariance, PTL DEF Spec

\* Most steps of a call leave what its process sees alone, or end the call.
LEMMA ViewStep ==
    ASSUME NEW p, Stepping(p), ~Kill(p),
           ~\E r \in Ranges : odbb_checkout(p, r),
           ~(CopyVersions(p) /\ pc'[p] = "unlock")
    PROVE  ViewOf(p)' = ViewOf(p) \/ ViewOf(p)'.state = "free"
<1> USE SteppingFacts
<1>0. /\ pc \in [Procs -> Labels] /\ op \in [Procs -> Op] /\ ret \in [Procs -> Errors]
      /\ udata \in [Procs -> [Slots -> Data]] /\ uver \in [Procs -> [Slots -> Versions]]
   BY DEF TypeOK, CallTypeOK, BufferTypeOK
<1>1. /\ pc[p] = "idle" <=> op[p] = NoOp
      /\ pc[p] \in {"compare", "writedata", "writever"} => op[p].kind = "commit"
      /\ pc[p] \in {"copydata", "copyver"} => op[p].kind = "checkout"
      /\ NoOp.kind = "none"
   BY DEF Calls, CallOK, NoOp
<1> USE DEF ViewOf, Filling, Filled
<1>2. CASE User(p)
  <2>1. ASSUME NEW r \in Ranges, odbb_commit(p, r)  PROVE ViewOf(p)'.state = "free"
    <3>1. op'[p].kind # "checkout"
       BY <1>0, <1>1, <2>1 DEF odbb_commit, Goto
    <3> QED  BY <3>1
  <2>2. CASE (\E d \in Data : EditBuffer(p, d)) \/ AdoptVersions(p)
    <3>1. op'[p].kind # "checkout"  BY <1>1, <2>2 DEF EditBuffer, AdoptVersions
    <3> QED  BY <3>1
  <2> QED  BY <1>2, <2>1, <2>2 DEF User
<1>3. CASE Measure(p)
   BY <1>0, <1>1, <1>3 DEF Measure, AfterTruncate, Return, Goto, bufVars
<1>4. CASE EofUnlock(p)
   BY <1>0, <1>1, <1>4 DEF EofUnlock, AfterTruncate, Return, Goto, bufVars
<1>5. CASE EofCall(p) \/ EofLock(p) \/ Remeasure(p) \/ Truncate(p) \/ Sleep(p)
   BY <1>0, <1>1, <1>5 DEF EofCall, EofLock, Remeasure, Truncate, Sleep, Goto, bufVars
<1>6. CASE BlocksLock(p)
   BY <1>0, <1>1, <1>6 DEF BlocksLock, Goto, bufVars
<1>7. CASE BlocksUnlock(p)
  <2>1. CASE op'[p] = NoOp  BY <1>1, <2>1
  <2>2. CASE op'[p] # NoOp
    <3>1. UNCHANGED <<pc, op, ret, udata, uver>>
       BY <1>0, <1>7, <2>2 DEF BlocksUnlock, bufVars
    <3> QED  BY <3>1
  <2> QED  BY <2>1, <2>2
<1>8. CASE \/ GroupCheck(p) \/ GroupLock(p) \/ GroupRecheck(p) \/ GroupMagic(p)
           \/ GroupFlags(p) \/ GroupUnlock(p)
   BY <1>0, <1>1, <1>8 DEF GroupCheck, GroupLock, GroupRecheck, GroupMagic, GroupFlags,
      GroupUnlock, Goto, bufVars
<1>9. CASE GroupVerify(p)
  <2>1. op' = op /\ udata' = udata /\ uver' = uver /\ pc[p] = "gverify"
     BY <1>9 DEF GroupVerify, bufVars
  <2>2. \/ pc'[p] = "unlock" /\ ret'[p] = "ENOTDB"
        \/ pc'[p] # "unlock"
     BY <1>0, <1>9 DEF GroupVerify, Finish, Goto
  <2> QED  BY <2>1, <2>2
<1>10. CASE CopyData(p)
   BY <1>0, <1>1, <1>10 DEF CopyData, Goto
<1>11. CASE CopyVersions(p)
  <2>1. pc'[p] # "unlock" /\ op' = op /\ pc[p] = "copyver"  BY <1>11 DEF CopyVersions
  <2> QED  BY <1>1, <2>1
<1>12. CASE CompareVersions(p) \/ WriteData(p) \/ WriteVersion(p)
  <2>1. op' = op /\ op[p].kind = "commit"
     BY <1>1, <1>12 DEF CompareVersions, WriteData, WriteVersion
  <2> QED  BY <2>1
<1> QED
   BY <1>2, <1>3, <1>4, <1>5, <1>6, <1>7, <1>8, <1>9, <1>10, <1>11, <1>12 DEF Step

LEMMA OpRange ==
    ASSUME NEW o \in Op, o # NoOp
    PROVE  \E k \in {"checkout", "commit"}, r \in Ranges :
              o = [kind |-> k, start |-> r[1], blockc |-> r[2]]
BY DEF Op

\* The range of a call is one of Ranges, and covers its extent.
LEMMA RangeOf ==
    ASSUME TypeOK, Calls, NEW p \in Procs, pc[p] # "idle"
    PROVE  \E r \in Ranges : /\ r[1] = op[p].start /\ r[2] = op[p].blockc
                             /\ Promise!Range(r) = Extent(p)
<1>1. op[p] \in Op /\ op[p] # NoOp  BY CallFacts
<1>2. PICK k \in {"checkout", "commit"}, r \in Ranges :
         op[p] = [kind |-> k, start |-> r[1], blockc |-> r[2]]
   BY <1>1, OpRange
<1>3. r[1] = op[p].start /\ r[2] = op[p].blockc  BY <1>2
<1>4. Promise!Range(r) = Extent(p)  BY <1>3 DEF Promise!Range, Extent
<1> QED  BY <1>3, <1>4

LEMMA SnapshotStep ==
    ASSUME NEW p, Stepping(p), CopyVersions(p), pc'[p] = "unlock"
    PROVE  \E r \in Ranges :
             /\ ViewOf(p) = Promise!Hidden /\ ViewOf(p)'.state = "got"
             /\ Promise!Fits(r)
             /\ \A b \in Promise!Range(r) \ torn :
                  /\ ViewOf(p)'.data[Promise!Slot(r, b)] = committed[b].data
                  /\ ViewOf(p)'.ver[Promise!Slot(r, b)]  = committed[b].ver
<1> USE SteppingFacts
<1>0. /\ pc \in [Procs -> Labels] /\ op \in [Procs -> Op] /\ ret \in [Procs -> Errors]
      /\ idx \in [Procs -> Nat]
   BY DEF TypeOK, CallTypeOK
<1>1. /\ pc[p] = "copyver" /\ op' = op /\ op[p].kind = "checkout" /\ Inside(p)
      /\ data' = data /\ ver' = ver
   BY DEF CopyVersions, Calls, CallOK, Inside, fileVars
<1>2. idx'[p] = 0 /\ ret'[p] = "OK"
   BY <1>0 DEF CopyVersions, Finish, Goto
<1>3. PICK r \in Ranges : /\ r[1] = op[p].start /\ r[2] = op[p].blockc
                          /\ Promise!Range(r) = Extent(p)
   BY <1>1, RangeOf
<1>4. ViewOf(p) = Promise!Hidden  BY <1>1 DEF ViewOf, Filling, Promise!Hidden
<1>5. /\ ViewOf(p)'.state = "got"
      /\ ViewOf(p)'.data = udata'[p] /\ ViewOf(p)'.ver = uver'[p]
   BY <1>1, <1>2 DEF ViewOf, Filling, Filled
<1>6. op[p].blockc <= BufLen  BY <1>1, CallFacts
<1>7. \A b \in Extent(p) : /\ Promise!Slot(r, b) \in Slots
                           /\ Promise!Slot(r, b) < op[p].blockc
                           /\ b = BlockAt(p, Promise!Slot(r, b)) /\ b \in Blocks
   BY <1>3, <1>6, ExtentSlots DEF Promise!Slot
<1>8. Promise!Fits(r)  BY <1>3, <1>7 DEF Promise!Fits
<1>9. ASSUME NEW b \in Extent(p), b \notin torn
      PROVE  /\ udata'[p][Promise!Slot(r, b)] = committed[b].data
             /\ uver'[p][Promise!Slot(r, b)]  = committed[b].ver
  <2> DEFINE i == Promise!Slot(r, b)
  <2>1. i \in Slots /\ i < op[p].blockc /\ b = BlockAt(p, i) /\ b \in Blocks  BY <1>7
  <2>2. udata'[p][i] = data[b] /\ uver'[p][i] = ver[b]
     BY <1>1, <1>2, <2>1 DEF Copied, CopiedBy, Current, BlockAt
  <2>3. \A q \in Procs : Writing(q) => b \notin Extent(q)
    <3>1. ~Writing(p)  BY <1>1 DEF Writing
    <3>2. ASSUME NEW q \in Procs, Writing(q), q # p  PROVE b \notin Extent(q)
      <4>1. Inside(q) /\ op[q].kind = "commit"
         BY <3>2 DEF Writing, Inside, Calls, CallOK
      <4> QED  BY <1>1, <3>2, <4>1, NoOtherWriter
    <3> QED  BY <3>1, <3>2
  <2>4. committed[b] = [data |-> data[b], ver |-> ver[b]]
     BY <1>9, <2>1, <2>3 DEF Settled
  <2> QED  BY <2>2, <2>4
<1> QED  BY <1>3, <1>4, <1>5, <1>8, <1>9

LEMMA CommitStep ==
    ASSUME NEW p, Stepping(p), BasedInv, WriteVersion(p), pc'[p] = "unlock"
    PROVE  /\ ViewOf(p)' = ViewOf(p)
           /\ \E r \in Ranges :
                /\ ViewOf(p).state = "free"
                /\ Promise!Fits(r)
                /\ \A b \in Promise!Range(r) \ torn :
                     committed[b].ver = ViewOf(p).ver[Promise!Slot(r, b)]
                /\ committed' = [b \in Blocks |->
                     IF b \in Promise!Range(r)
                     THEN [data |-> ViewOf(p).data[Promise!Slot(r, b)],
                           ver  |-> (ViewOf(p).ver[Promise!Slot(r, b)] + 1) % VerMod]
                     ELSE committed[b]]
                /\ torn' = torn \ Promise!Range(r)
<1> USE SteppingFacts
<1>0. pc \in [Procs -> Labels]  BY DEF TypeOK, CallTypeOK
<1>1. /\ pc[p] = "writever" /\ op' = op /\ op[p].kind = "commit" /\ Writing(p) /\ Inside(p)
      /\ udata' = udata /\ uver' = uver
   BY DEF WriteVersion, Calls, CallOK, Writing, Inside
<1>2. PICK r \in Ranges : /\ r[1] = op[p].start /\ r[2] = op[p].blockc
                          /\ Promise!Range(r) = Extent(p)
   BY <1>1, RangeOf
<1>3. /\ ViewOf(p)' = ViewOf(p) /\ ViewOf(p).state = "free"
      /\ ViewOf(p).data = udata[p] /\ ViewOf(p).ver = uver[p]
   BY <1>1 DEF ViewOf, Filling, Filled
<1>4. ~(idx[p] + 1 < op[p].blockc)  BY <1>0 DEF WriteVersion, Goto
<1>5. /\ committed' = [b \in Blocks |->
             IF b \in Extent(p)
             THEN [data |-> udata[p][b - op[p].start],
                   ver  |-> (uver[p][b - op[p].start] + 1) % VerMod]
             ELSE committed[b]]
      /\ torn' = torn \ Extent(p)
   BY <1>4 DEF WriteVersion
<1>6. \A b : Promise!Slot(r, b) = b - op[p].start  BY <1>2 DEF Promise!Slot
<1>7. Promise!Fits(r)
  <2>1. op[p].blockc <= BufLen  BY <1>1, CallFacts
  <2> QED  BY <1>2, <1>6, <2>1, ExtentSlots DEF Promise!Fits
<1>8. \A b \in Extent(p) \ torn : committed[b].ver = uver[p][b - op[p].start]
   BY <1>1 DEF BasedInv, BasedOn
<1> QED  BY <1>2, <1>3, <1>5, <1>6, <1>7, <1>8

\* A process that was killed starts again with an empty buffer; if it was writing,
\* the range of its commit is torn.
LEMMA KillStep ==
    ASSUME NEW p, Stepping(p), Kill(p)
    PROVE  /\ ViewOf(p)' = Promise!FreshBuffer
           /\ torn' = torn \/ \E r \in Ranges : torn' = torn \cup Promise!Range(r)
           /\ committed' = committed
<1> USE SteppingFacts
<1>0. op \in [Procs -> Op] /\ udata \in [Procs -> [Slots -> Data]]
      /\ uver \in [Procs -> [Slots -> Versions]]
   BY DEF TypeOK, CallTypeOK, BufferTypeOK
<1>1. /\ op'[p].kind = "none"
      /\ udata'[p] = [i \in Slots |-> Zero] /\ uver'[p] = [i \in Slots |-> 0]
   BY <1>0 DEF Kill, NoOp
<1>2. ViewOf(p)' = Promise!FreshBuffer
   BY <1>1 DEF ViewOf, Filling, Filled, Promise!FreshBuffer
<1>3. torn' = torn \/ torn' = torn \cup Extent(p)  BY DEF Kill
<1>4. pc[p] # "idle"  BY DEF Kill
<1>5. \E r \in Ranges : Promise!Range(r) = Extent(p)  BY <1>4, RangeOf
<1>6. committed' = committed  BY DEF Kill
<1> QED  BY <1>2, <1>3, <1>5, <1>6

LEMMA BeginStep ==
    ASSUME NEW p, Stepping(p), NEW r \in Ranges, odbb_checkout(p, r)
    PROVE  ViewOf(p).state # "busy" /\ ViewOf(p)' = Promise!Hidden
<1> USE SteppingFacts
<1>0. op \in [Procs -> Op] /\ pc \in [Procs -> Labels]  BY DEF TypeOK, CallTypeOK
<1>1. op[p].kind = "none"  BY DEF odbb_checkout, Calls, CallOK, NoOp
<1>2. op'[p].kind = "checkout" /\ pc'[p] = "measure"  BY <1>0 DEF odbb_checkout, Goto
<1> QED  BY <1>1, <1>2 DEF ViewOf, Filling, Filled, Promise!Hidden

\* Every step of Volume is one of VersionedBlocks, or changes nothing in it.
LEMMA PromiseStep ==
    ASSUME NEW p, Stepping(p), BasedInv
    PROVE  [Promise!Next]_(Promise!vars)
<1> USE SteppingFacts
<1> DEFINE view == [q \in Procs |-> ViewOf(q)]
<1>1. \A q \in Procs : view[q] = ViewOf(q) /\ view'[q] = ViewOf(q)'  OBVIOUS
<1>2. \A q \in Procs \ {p} : view'[q] = view[q]
  <2>1. ASSUME NEW q \in Procs \ {p}  PROVE ViewOf(q)' = ViewOf(q)
    <3>1. Same(q)  BY Frame
    <3> QED  BY <3>1 DEF Same, ViewOf, Filling, Filled
  <2> QED  BY <1>1, <2>1
<1>3. Promise!Own(p)  BY <1>2 DEF Promise!Own
<1>4. deadlkSeen' = deadlkSeen  BY Frame DEF Stepping
<1> HIDE DEF view
<1>5. SUFFICES Promise!Act(p) \/ (view' = view /\ committed' = committed /\ torn' = torn)
   BY <1>4 DEF Promise!Next, Promise!vars, view
<1>6. CASE Kill(p)
  <2>1. Promise!Restart(p)
     BY <1>1, <1>3, <1>6, KillStep DEF Promise!Restart, view
  <2> QED  BY <2>1 DEF Promise!Act
<1>7. CASE \E r \in Ranges : odbb_checkout(p, r)
  <2>1. PICK r \in Ranges : odbb_checkout(p, r)  BY <1>7
  <2>2. committed' = committed /\ torn' = torn  BY <2>1 DEF odbb_checkout, histVars
  <2>3. Promise!Begin(p)  BY <1>1, <1>3, <2>1, <2>2, BeginStep DEF Promise!Begin, view
  <2> QED  BY <2>3 DEF Promise!Act
<1>8. CASE CopyVersions(p) /\ pc'[p] = "unlock"
  <2>1. committed' = committed /\ torn' = torn  BY <1>8 DEF CopyVersions, histVars
  <2>2. \E r \in Ranges : Promise!Snapshot(p, r)
     BY <1>1, <1>3, <1>8, <2>1, SnapshotStep DEF Promise!Snapshot, view
  <2> QED  BY <2>2 DEF Promise!Act
<1>9. CASE WriteVersion(p) /\ pc'[p] = "unlock"
  <2>1. view' = view
    <3>1. \A q \in Procs : ViewOf(q)' = ViewOf(q)  BY <1>1, <1>2, <1>9, CommitStep
    <3> QED  BY <3>1 DEF view
  <2>2. \E r \in Ranges : Promise!Commit(p, r)
     BY <1>1, <1>9, <2>1, CommitStep DEF Promise!Commit, view
  <2> QED  BY <2>2 DEF Promise!Act
<1>10. CASE /\ ~Kill(p) /\ ~\E r \in Ranges : odbb_checkout(p, r)
            /\ ~(CopyVersions(p) /\ pc'[p] = "unlock")
            /\ ~(WriteVersion(p) /\ pc'[p] = "unlock")
  <2>1. committed' = committed /\ torn' = torn
    <3>1. CASE WriteVersion(p)
      <4>1. pc \in [Procs -> Labels]  BY DEF TypeOK, CallTypeOK
      <4> QED  BY <1>10, <3>1, <4>1 DEF WriteVersion, Finish, Goto, histVars
    <3> QED  BY <1>10, <3>1, Frame
  <2>2. CASE ViewOf(p)' = ViewOf(p)
    <3>1. \A q \in Procs : ViewOf(q)' = ViewOf(q)  BY <1>1, <1>2, <2>2
    <3>2. view' = view  BY <3>1 DEF view
    <3> QED  BY <2>1, <3>2
  <2>3. CASE ViewOf(p)'.state = "free"
    <3>1. Promise!Edit(p)  BY <1>1, <1>3, <2>1, <2>3 DEF Promise!Edit, view
    <3> QED  BY <3>1 DEF Promise!Act
  <2> QED  BY <1>10, <2>2, <2>3, ViewStep
<1> QED  BY <1>6, <1>7, <1>8, <1>9, <1>10

\* Volume implements VersionedBlocks (blocks_checkout, blocks_commit_attempt):
\* whatever the number of processes and the ranges of their calls, however their
\* file accesses and locks interleave and wherever they are killed, a checkout
\* is a snapshot taken, and a commit an exchange made, at one moment.
THEOREM Implements == Spec => ActsAtOnce
<1>1. Init => Promise!Init
   BY DEF Init, Promise!Init, Promise!FreshBuffer, ViewOf, Filling, Filled, NoOp
<1>2. VolumeInv /\ BasedInv /\ [Next]_vars => [Promise!Next]_(Promise!vars)
  <2> SUFFICES ASSUME VolumeInv, BasedInv, [Next]_vars
               PROVE  [Promise!Next]_(Promise!vars)
     OBVIOUS
  <2>1. CASE UNCHANGED vars
     BY <2>1 DEF vars, bufVars, histVars, Promise!vars, ViewOf, Filling, Filled
  <2>2. ASSUME NEW p \in Procs, Step(p) \/ User(p) \/ Kill(p)
        PROVE  [Promise!Next]_(Promise!vars)
    <3>1. CASE deadlkSeen'  BY <3>1 DEF Promise!Next
    <3>2. CASE ~deadlkSeen'  BY <2>2, <3>2, PromiseStep DEF Stepping
    <3> QED  BY <3>1, <3>2
  <2> QED  BY <2>1, <2>2 DEF Next
<1> QED  BY <1>1, <1>2, BasedInvariance, PTL DEF Spec, ActsAtOnce, Promise!Spec
=============================================================================
