----------------------------- MODULE HostProofs -----------------------------
(***************************************************************************)
(* Theorems about HostLife: for any number of processes that host the file *)
(* and of threads that call odb_hoststop, whatever stages fail and         *)
(* whichever process is killed.                                            *)
(*                                                                         *)
(* Theorems about ShmLink: for any number of handles, connecting as often  *)
(* as they like, the count of the connected never falls short of the users *)
(* of the shared memory, and the mutex is destroyed by the last one out.   *)
(***************************************************************************)
EXTENDS HostLife, ShmLink, FiniteSetTheorems, TLAPS

USE HostLifeAssumption
-----------------------------------------------------------------------------
(* The inductive invariant *)

\* What is open at the start of stage k, and at case k of the closing switch
Below(k) == { Resource[i] : i \in 1 .. k - 1 }

\* While odb_host opens, host.state is the stage it is at, unless a late
\* odb_hoststop has overwritten it.
OpeningOK(p) ==
    hpc[p] = "opening" =>
      /\ lvl[p] \in 1 .. 7
      /\ opened[p] = Below(lvl[p])
      /\ state[p] \in {lvl[p], HOST_CLOSING}
      /\ ~failed[p]

\* An odb_host that is up has everything open.
UpOK(p) ==
    hpc[p] \in {"active", "wait", "asleep", "closing"} =>
      opened[p] = Below(HOST_OPEN) /\ running[p] /\ ~failed[p]

\* The closing switch is at the case of what is open; it starts at HOST_CLOSING
\* from a host that was up, or from a failed stage by a late odb_hoststop.
RetOK(p) ==
    hpc[p] = "ret" =>
      \/ /\ lvl[p] \in 1 .. 7 /\ opened[p] = Below(lvl[p])
         /\ failed[p] \/ ~running[p]
      \/ /\ lvl[p] = HOST_CLOSING
         /\ \/ ~failed[p] /\ running[p] /\ opened[p] = Below(HOST_OPEN)
            \/ failed[p] /\ \E k \in 1 .. 7 : opened[p] = Below(k)

\* Nothing is open when odb_host has returned or its process is gone.
OutOK(p) ==
    /\ hpc[p] \in {"out", "killed", "crashed"} => opened[p] = {}
    /\ hpc[p] \in {"killed", "crashed"} => ~running[p]
    /\ hpc[p] = "out" => failed[p] \/ ~running[p]

StatOK(p) ==
    stat[p] = "VACTIVE" => hpc[p] \in {"wait", "asleep", "closing", "killed", "crashed"}

\* The lock is held by the process that has taken it and not given it back, and
\* the head page names whoever has the file open.
LockOK(p) == filelock = p <=> "lock" \in opened[p]
HeadOK(p) == "file" \in opened[p] => headhost = p

ProcOK(p) == OpeningOK(p) /\ UpOK(p) /\ RetOK(p) /\ OutOK(p) /\ StatOK(p)

IInv ==
    /\ TypeOK
    /\ \A p \in Procs : ProcOK(p) /\ LockOK(p) /\ HeadOK(p)
-----------------------------------------------------------------------------
(* What is open at a stage *)

LEMMA Stages ==
    /\ \A k \in 1 .. 7 : Below(k + 1) = Below(k) \cup {Resource[k]}
    /\ \A k \in 2 .. 7 : Below(k) \ {Resource[k - 1]} = Below(k - 1)
    /\ Below(1) = {}
    /\ Below(8) \ {"workers"} = Below(7) /\ Below(7) \ {"workers"} = Below(7)
    /\ \A k \in 1 .. 8 : /\ "lock" \in Below(k) <=> k >= 3
                         /\ "file" \in Below(k) <=> k >= 4
                         /\ "ahost" \in Below(k) <=> k >= 7
    /\ {"shm", "pcache", "ahost"} \subseteq Below(8)
    /\ \A k \in 1 .. 8 : Below(k) \subseteq { Resource[i] : i \in DOMAIN Resource }
    /\ \A k \in 1 .. 7 : Resource[k] \in { Resource[i] : i \in DOMAIN Resource }
    /\ \A k \in 1 .. 7 : /\ Resource[k] = "lock" <=> k = 2
                         /\ Resource[k] = "file" <=> k = 3
<1>1. /\ Resource[1] = "descriptor" /\ Resource[2] = "lock" /\ Resource[3] = "file"
      /\ Resource[4] = "shm" /\ Resource[5] = "pcache" /\ Resource[6] = "ahost"
      /\ Resource[7] = "workers"
      /\ DOMAIN Resource = 1 .. 7
   BY DEF Resource
<1>2. \A k : k \in 1 .. 7 <=> k \in {1, 2, 3, 4, 5, 6, 7}  OBVIOUS
<1>3. \A k \in 1 .. 7 : Below(k + 1) = Below(k) \cup {Resource[k]}
  <2> SUFFICES ASSUME NEW k \in 1 .. 7, NEW r
               PROVE  r \in Below(k + 1) <=> r \in Below(k) \/ r = Resource[k]
     OBVIOUS
  <2>1. \A i : i \in 1 .. (k + 1) - 1 <=> i \in 1 .. k - 1 \/ i = k  OBVIOUS
  <2> QED  BY <2>1 DEF Below
<1>4. Below(1) = {}  BY DEF Below
<1>5. Below(2) = {"descriptor"}  BY <1>1, <1>3, <1>4, 1 + 1 = 2
<1>6. Below(3) = {"descriptor", "lock"}  BY <1>1, <1>3, <1>5, 2 + 1 = 3
<1>7. Below(4) = {"descriptor", "lock", "file"}  BY <1>1, <1>3, <1>6, 3 + 1 = 4
<1>8. Below(5) = {"descriptor", "lock", "file", "shm"}  BY <1>1, <1>3, <1>7, 4 + 1 = 5
<1>9. Below(6) = {"descriptor", "lock", "file", "shm", "pcache"}
   BY <1>1, <1>3, <1>8, 5 + 1 = 6
<1>10. Below(7) = {"descriptor", "lock", "file", "shm", "pcache", "ahost"}
   BY <1>1, <1>3, <1>9, 6 + 1 = 7
<1>11. Below(8) = {"descriptor", "lock", "file", "shm", "pcache", "ahost", "workers"}
   BY <1>1, <1>3, <1>10, 7 + 1 = 8
<1>12. \A k \in 2 .. 7 : Below(k) \ {Resource[k - 1]} = Below(k - 1)
  <2>1. SUFFICES ASSUME NEW k \in {2, 3, 4, 5, 6, 7}
                 PROVE  Below(k) \ {Resource[k - 1]} = Below(k - 1)
     OBVIOUS
  <2>2. CASE k = 2  BY <2>2, <1>1, <1>4, <1>5, 2 - 1 = 1
  <2>3. CASE k = 3  BY <2>3, <1>1, <1>5, <1>6, 3 - 1 = 2
  <2>4. CASE k = 4  BY <2>4, <1>1, <1>6, <1>7, 4 - 1 = 3
  <2>5. CASE k = 5  BY <2>5, <1>1, <1>7, <1>8, 5 - 1 = 4
  <2>6. CASE k = 6  BY <2>6, <1>1, <1>8, <1>9, 6 - 1 = 5
  <2>7. CASE k = 7  BY <2>7, <1>1, <1>9, <1>10, 7 - 1 = 6
  <2> QED  BY <2>1, <2>2, <2>3, <2>4, <2>5, <2>6, <2>7
<1>13. \A k \in 1 .. 8 : /\ "lock" \in Below(k) <=> k >= 3
                         /\ "file" \in Below(k) <=> k >= 4
                         /\ "ahost" \in Below(k) <=> k >= 7
  <2>1. \A k : k \in 1 .. 8 <=> k \in {1, 2, 3, 4, 5, 6, 7, 8}  OBVIOUS
  <2> QED  BY <2>1, <1>4, <1>5, <1>6, <1>7, <1>8, <1>9, <1>10, <1>11
<1>14. Below(8) \ {"workers"} = Below(7) /\ Below(7) \ {"workers"} = Below(7)
   BY <1>10, <1>11
<1>15. \A k \in 1 .. 7 : /\ Resource[k] = "lock" <=> k = 2
                         /\ Resource[k] = "file" <=> k = 3
   BY <1>1, <1>2
<1>16. \A k \in 1 .. 8 : Below(k) \subseteq { Resource[i] : i \in DOMAIN Resource }
   BY <1>1 DEF Below
<1>17. \A k \in 1 .. 7 : Resource[k] \in { Resource[i] : i \in DOMAIN Resource }
   BY <1>1
<1> QED  BY <1>3, <1>4, <1>11, <1>12, <1>13, <1>14, <1>15, <1>16, <1>17
-----------------------------------------------------------------------------
(* The steps of one process *)

Step(p) ==
    \/ odb_host(p) \/ HostInvalid(p) \/ HostStep(p) \/ Kill(p)
    \/ \E s \in Stoppers : StopTest(p, s) \/ StopStore(p, s)

\* A step of p leaves the other processes alone.
LEMMA Frame ==
    ASSUME TypeOK, NEW p \in Procs, Step(p), NEW q \in Procs, q # p
    PROVE  /\ state'[q] = state[q] /\ hpc'[q] = hpc[q] /\ lvl'[q] = lvl[q]
           /\ opened'[q] = opened[q] /\ running'[q] = running[q] /\ stat'[q] = stat[q]
           /\ failed'[q] = failed[q]
<1> USE DEF TypeOK, Goto, Opened, Bail, Dead, At
<1>1. CASE odb_host(p) \/ HostInvalid(p) \/ Kill(p)
   BY <1>1 DEF odb_host, HostInvalid, Kill
<1>2. ASSUME NEW s \in Stoppers, StopTest(p, s) \/ StopStore(p, s)
      PROVE  /\ state'[q] = state[q] /\ hpc'[q] = hpc[q] /\ lvl'[q] = lvl[q]
             /\ opened'[q] = opened[q] /\ running'[q] = running[q] /\ stat'[q] = stat[q]
             /\ failed'[q] = failed[q]
   BY <1>2 DEF StopTest, StopStore, Woken
<1>3. CASE \/ OpenDescriptor(p) \/ OpenDescriptorFails(p) \/ lockfile(p)
           \/ edbd_open(p) \/ edbd_openFails(p) \/ OpenRest(p)
   BY <1>3 DEF OpenDescriptor, OpenDescriptorFails, lockfile, edbd_open, edbd_openFails,
               OpenRest
<1>4. CASE StartWorkers(p) \/ StartWorkersFails(p) \/ Active(p) \/ Wait(p)
   BY <1>4 DEF StartWorkers, StartWorkersFails, Active, Wait
<1>5. CASE Closing(p) \/ StopWorkers(p) \/ Release(p) \/ HostReturns(p)
   BY <1>5 DEF Closing, StopWorkers, Joined, Release, HostReturns
<1> QED  BY <1>1, <1>2, <1>3, <1>4, <1>5 DEF Step, HostStep

\* Only a process that has the lock or the head page changes hands with it.
LEMMA SharedFrame ==
    ASSUME IInv, NEW p \in Procs, Step(p), NEW q \in Procs, q # p
    PROVE  /\ filelock' = q <=> filelock = q
           /\ headhost = q => headhost' = q
<1> USE DEF IInv, TypeOK, Goto, Opened, Bail, Dead, At
<1>1. CASE odb_host(p) \/ HostInvalid(p) \/ Kill(p)
   BY <1>1 DEF odb_host, HostInvalid, Kill
<1>2. ASSUME NEW s \in Stoppers, StopTest(p, s) \/ StopStore(p, s)
      PROVE  filelock' = filelock /\ headhost' = headhost
   BY <1>2 DEF StopTest, StopStore
<1>3. CASE \/ OpenDescriptor(p) \/ OpenDescriptorFails(p) \/ lockfile(p)
           \/ edbd_open(p) \/ edbd_openFails(p) \/ OpenRest(p)
   BY <1>3 DEF OpenDescriptor, OpenDescriptorFails, lockfile, edbd_open, edbd_openFails,
               OpenRest, LockFree, hostpid
<1>4. CASE StartWorkers(p) \/ StartWorkersFails(p) \/ Active(p) \/ Wait(p)
   BY <1>4 DEF StartWorkers, StartWorkersFails, Active, Wait
<1>5. CASE Closing(p) \/ StopWorkers(p) \/ Release(p) \/ HostReturns(p)
   BY <1>5 DEF Closing, StopWorkers, Release, HostReturns, edbd_close, unlockfile
<1> QED  BY <1>1, <1>2, <1>3, <1>4, <1>5 DEF Step, HostStep

\* The new state of p: its own invariant, the types, the lock and the head page.
Fine(p) == TypeOK /\ ProcOK(p) /\ LockOK(p) /\ HeadOK(p)

LEMMA OpeningSteps ==
    ASSUME IInv, NEW p \in Procs,
           \/ odb_host(p) \/ HostInvalid(p)
           \/ OpenDescriptor(p) \/ OpenDescriptorFails(p) \/ lockfile(p)
           \/ edbd_open(p) \/ OpenRest(p) \/ StartWorkers(p) \/ StartWorkersFails(p)
    PROVE  Fine(p)'
<1> USE DEF TypeOK, Goto, At, HOST_NONE, HOST_OPENING_DESCRIPTOR,
            HOST_OPENING_XLLOCK, HOST_OPENING_FILE, HOST_OPENING_SHM, HOST_OPENING_WORKERS,
            HOST_OPEN, HOST_CLOSING
<1>0. TypeOK /\ ProcOK(p) /\ LockOK(p) /\ HeadOK(p)  BY DEF IInv
<1>1. CASE odb_host(p)
  <2>1. TypeOK'  BY <1>0, <1>1 DEF odb_host
  <2>2. /\ hpc'[p] = "opening" /\ lvl'[p] = 1 /\ state'[p] = 1 /\ opened'[p] = {}
        /\ failed'[p] = FALSE /\ stat'[p] = "VVOID"
     BY <1>0, <1>1 DEF odb_host, ProcOK, OutOK
  <2>3. ProcOK(p)'  BY <2>2, Stages DEF ProcOK, OpeningOK, UpOK, RetOK, OutOK, StatOK
  <2>4. LockOK(p)' /\ HeadOK(p)'  BY <1>0, <1>1 DEF odb_host, LockOK, HeadOK
  <2> QED  BY <2>1, <2>3, <2>4 DEF Fine
<1>2. CASE HostInvalid(p)
   BY <1>0, <1>2 DEF HostInvalid, Fine, ProcOK, OpeningOK, UpOK, RetOK, OutOK, StatOK,
                     LockOK, HeadOK
<1>3. CASE OpenDescriptorFails(p)
   BY <1>0, <1>3, Stages DEF OpenDescriptorFails, Fine, ProcOK, OpeningOK, UpOK, RetOK, OutOK,
                     StatOK, LockOK, HeadOK
\* a stage that opens its resource
<1>4. ASSUME hpc[p] = "opening", Opened(p), spc' = spc, failed' = failed, stat' = stat,
             \/ hpc' = hpc /\ lvl[p] < 7 /\ running' = running
             \/ /\ lvl[p] = 7 /\ hpc' = [hpc EXCEPT ![p] = "active"]
                /\ running' = [running EXCEPT ![p] = TRUE]
                /\ ~failed[p],
             filelock' = (IF lvl[p] = 2 THEN p ELSE filelock),
             headhost' = (IF lvl[p] = 3 THEN p ELSE headhost)
      PROVE  Fine(p)'
  <2>1. /\ lvl[p] \in 1 .. 7 /\ opened[p] = Below(lvl[p])
        /\ stat[p] # "VACTIVE"
     BY <1>0, <1>4 DEF ProcOK, OpeningOK, StatOK
  <2>2. /\ opened'[p] = Below(lvl[p] + 1)
        /\ lvl'[p] = lvl[p] + 1 /\ state'[p] = lvl[p] + 1
     BY <1>0, <1>4, <2>1, Stages DEF Opened
  <2>3. TypeOK'
    <3>1. opened' \in [Procs -> SUBSET { Resource[i] : i \in DOMAIN Resource }]
       BY <1>0, <1>4, <2>1, Stages DEF Opened
    <3>2. state' \in [Procs -> 0 .. 9] /\ lvl' \in [Procs -> 0 .. 9]
       BY <1>0, <1>4, <2>1 DEF Opened
    <3> QED  BY <1>0, <1>4, <3>1, <3>2
  <2>4. ProcOK(p)'
     BY <1>0, <1>4, <2>1, <2>2 DEF ProcOK, OpeningOK, UpOK, RetOK, OutOK, StatOK
  <2>5. lvl[p] + 1 \in 1 .. 8  BY <2>1
  <2>6. LockOK(p)' /\ HeadOK(p)'
     BY <1>0, <1>4, <2>1, <2>2, <2>5, Stages DEF LockOK, HeadOK
  <2> QED  BY <2>3, <2>4, <2>6 DEF Fine
\* a stage that fails
<1>5. ASSUME hpc[p] = "opening", Bail(p), spc' = spc, stat' = stat, state' = state,
             opened' = opened, filelock' = filelock, headhost' = headhost,
             running' = running \/ \E some \in BOOLEAN : running' = [running EXCEPT ![p] = some]
      PROVE  Fine(p)'
  <2>1. /\ lvl[p] \in 1 .. 7 /\ opened[p] = Below(lvl[p])
        /\ state[p] \in {lvl[p], HOST_CLOSING}
        /\ stat[p] # "VACTIVE"
     BY <1>0, <1>5 DEF ProcOK, OpeningOK, StatOK
  <2>2. hpc'[p] = "ret" /\ lvl'[p] = state[p] /\ failed'[p] = TRUE /\ opened'[p] = opened[p]
     BY <1>0, <1>5 DEF Bail, FirstCase
  <2>3. TypeOK'  BY <1>0, <1>5 DEF Bail, FirstCase
  <2>4. RetOK(p)'  BY <2>1, <2>2 DEF RetOK
  <2>5. ProcOK(p)'
     BY <1>5, <2>1, <2>2, <2>4 DEF ProcOK, OpeningOK, UpOK, OutOK, StatOK
  <2>6. LockOK(p)' /\ HeadOK(p)'  BY <1>0, <1>5 DEF LockOK, HeadOK
  <2> QED  BY <2>3, <2>5, <2>6 DEF Fine
<1>6. CASE OpenDescriptor(p)
   BY <1>6, <1>4 DEF OpenDescriptor
<1>7. CASE lockfile(p)  BY <1>7, <1>4, <1>5 DEF lockfile
<1>8. CASE edbd_open(p)  BY <1>8, <1>4 DEF edbd_open
<1>9. CASE OpenRest(p)
  <2>1. lvl[p] # 2 /\ lvl[p] # 3 /\ lvl[p] < 7 /\ hpc[p] = "opening"  BY <1>9 DEF OpenRest
  <2> QED  BY <1>9, <2>1, <1>4, <1>5 DEF OpenRest
<1>10. CASE StartWorkers(p)
  <2>1. ~failed[p]  BY <1>0, <1>10 DEF StartWorkers, ProcOK, OpeningOK
  <2> QED  BY <1>10, <2>1, <1>4 DEF StartWorkers
<1>11. CASE StartWorkersFails(p)  BY <1>11, <1>5 DEF StartWorkersFails
<1> QED  BY <1>1, <1>2, <1>3, <1>6, <1>7, <1>8, <1>9, <1>10, <1>11

LEMMA ClosingSteps ==
    ASSUME IInv, NEW p \in Procs,
           \/ Active(p) \/ Wait(p) \/ Closing(p) \/ StopWorkers(p) \/ Release(p)
           \/ HostReturns(p) \/ edbd_openFails(p) \/ Kill(p)
           \/ \E s \in Stoppers : StopTest(p, s) \/ StopStore(p, s)
    PROVE  Fine(p)'
<1> USE DEF TypeOK, Goto, At, HOST_NONE, HOST_OPENING_DESCRIPTOR,
            HOST_OPENING_XLLOCK, HOST_OPENING_FILE, HOST_OPENING_SHM, HOST_OPENING_WORKERS,
            HOST_OPEN, HOST_CLOSING
<1>0. TypeOK /\ ProcOK(p) /\ LockOK(p) /\ HeadOK(p)  BY DEF IInv
\* the process goes
<1>1. ASSUME \E how \in {"killed", "crashed"} : Dead(p, how),
             UNCHANGED <<state, lvl, stat, failed, headhost>>
      PROVE  Fine(p)'
  <2>1. PICK how \in {"killed", "crashed"} : Dead(p, how)  BY <1>1
  <2>2. TypeOK'  BY <1>0, <1>1, <2>1 DEF Dead
  <2>3. hpc'[p] = how /\ opened'[p] = {} /\ running'[p] = FALSE /\ filelock' # p
     BY <1>0, <2>1 DEF Dead
  <2>4. ProcOK(p)'  BY <2>3 DEF ProcOK, OpeningOK, UpOK, RetOK, OutOK, StatOK
  <2>5. LockOK(p)' /\ HeadOK(p)'  BY <2>3 DEF LockOK, HeadOK
  <2> QED  BY <2>2, <2>4, <2>5 DEF Fine
<1>2. CASE edbd_openFails(p) \/ Kill(p)  BY <1>1, <1>2 DEF edbd_openFails, Kill
<1>3. CASE Active(p) \/ Wait(p)
  <2>1. TypeOK'  BY <1>0, <1>3 DEF Active, Wait
  <2>2. ProcOK(p)'
     BY <1>0, <1>3 DEF Active, Wait, ProcOK, OpeningOK, UpOK, RetOK, OutOK, StatOK
  <2>3. LockOK(p)' /\ HeadOK(p)'  BY <1>0, <1>3 DEF Active, Wait, LockOK, HeadOK
  <2> QED  BY <2>1, <2>2, <2>3 DEF Fine
<1>4. CASE Closing(p)
  <2>1. TypeOK'  BY <1>0, <1>4 DEF Closing, StatClosed, FirstCase
  <2>2. ProcOK(p)'
     BY <1>0, <1>4 DEF Closing, StatClosed, FirstCase, ProcOK, OpeningOK, UpOK, RetOK, OutOK,
                       StatOK
  <2>3. LockOK(p)' /\ HeadOK(p)'  BY <1>0, <1>4 DEF Closing, LockOK, HeadOK
  <2> QED  BY <2>1, <2>2, <2>3 DEF Fine
<1>5. CASE StopWorkers(p)
  <2>0. hpc[p] = "ret" /\ lvl[p] >= 8  BY <1>5 DEF StopWorkers
  <2>1. CASE "ahost" \notin opened[p]
     BY <1>1, <1>5, <2>1 DEF StopWorkers
  <2>2. CASE "ahost" \in opened[p]
    <3>1. /\ running' = Joined(p)
          /\ opened' = [opened EXCEPT ![p] = @ \ {"workers"}]
          /\ lvl' = [lvl EXCEPT ![p] = 7]
          /\ UNCHANGED <<hpc, filelock, spc, state, stat, failed, headhost>>
       BY <1>5, <2>2 DEF StopWorkers
    <3>2. opened[p] = Below(7) \/ opened[p] = Below(8)
      <4>1. RetOK(p)  BY <1>0 DEF ProcOK
      <4>2. opened[p] = Below(8) \/ \E k \in 1 .. 7 : opened[p] = Below(k)
         BY <2>0, <4>1 DEF RetOK
      <4> QED  BY <4>2, <2>2, Stages
    <3>3. opened'[p] = Below(7)  BY <1>0, <3>1, <3>2, Stages
    <3>4. running'[p] = FALSE  BY <1>0, <3>1 DEF Joined
    <3>5. TypeOK'  BY <1>0, <3>1 DEF Joined
    <3>6. ProcOK(p)'
       BY <1>0, <2>0, <3>1, <3>3, <3>4 DEF ProcOK, OpeningOK, UpOK, RetOK, OutOK, StatOK
    <3>7. LockOK(p)' /\ HeadOK(p)'
       BY <1>0, <3>1 DEF LockOK, HeadOK
    <3> QED  BY <3>5, <3>6, <3>7 DEF Fine
  <2> QED  BY <2>1, <2>2
<1>6. CASE Release(p)
  <2>0. hpc[p] = "ret" /\ lvl[p] \in 2 .. 7 /\ opened[p] = Below(lvl[p])
        /\ (failed[p] \/ ~running[p])
     BY <1>0, <1>6 DEF Release, ProcOK, RetOK
  <2>1. /\ opened' = [opened EXCEPT ![p] = @ \ {Resource[lvl[p] - 1]}]
        /\ lvl' = [lvl EXCEPT ![p] = @ - 1]
        /\ UNCHANGED <<state, hpc, running, stat, failed, spc>>
     BY <1>6 DEF Release
  <2>2. opened'[p] = Below(lvl[p] - 1) /\ lvl'[p] = lvl[p] - 1  BY <1>0, <2>0, <2>1, Stages
  <2>3. TypeOK'
    <3>1. lvl' \in [Procs -> 0 .. 9]  BY <1>0, <2>0, <2>1
    <3>2. opened' \in [Procs -> SUBSET { Resource[i] : i \in DOMAIN Resource }]
       BY <1>0, <2>1
    <3>3. filelock' \in Procs \cup {None} /\ headhost' \in Procs \cup {None}
       BY <1>0, <1>6 DEF Release, edbd_close, unlockfile
    <3> QED  BY <1>0, <2>1, <3>1, <3>2, <3>3
  <2>4. ProcOK(p)'
     BY <1>0, <2>0, <2>1, <2>2 DEF ProcOK, OpeningOK, UpOK, RetOK, OutOK, StatOK
  <2>5. LockOK(p)'
    <3>1. lvl[p] - 1 \in 1 .. 7  BY <2>0
    <3>2. CASE lvl[p] = 3
      <4>1. filelock' # p  BY <1>0, <1>6, <3>1, <3>2, Stages DEF Release, unlockfile
      <4> QED  BY <2>2, <3>2, <4>1, Stages DEF LockOK
    <3>3. CASE lvl[p] # 3
      <4>1. filelock' = filelock  BY <1>6, <2>0, <3>1, <3>3, Stages DEF Release
      <4> QED  BY <1>0, <2>0, <2>2, <3>1, <3>3, <4>1, Stages DEF LockOK
    <3> QED  BY <3>2, <3>3
  <2>6. HeadOK(p)'
    <3>1. lvl[p] - 1 \in 1 .. 7  BY <2>0
    <3>2. CASE lvl[p] <= 4  BY <2>0, <2>2, <3>1, <3>2, Stages DEF HeadOK
    <3>3. CASE lvl[p] > 4
      <4>1. headhost' = headhost  BY <1>6, <2>0, <3>1, <3>3, Stages DEF Release
      <4> QED  BY <1>0, <2>0, <2>2, <3>1, <3>3, <4>1, Stages DEF HeadOK
    <3> QED  BY <2>0, <3>2, <3>3
  <2> QED  BY <2>3, <2>4, <2>5, <2>6 DEF Fine
<1>7. CASE HostReturns(p)
  <2>1. TypeOK'  BY <1>0, <1>7 DEF HostReturns
  <2>2. ProcOK(p)'
     BY <1>0, <1>7, Stages DEF HostReturns, ProcOK, OpeningOK, UpOK, RetOK, OutOK, StatOK
  <2>3. LockOK(p)' /\ HeadOK(p)'  BY <1>0, <1>7 DEF HostReturns, LockOK, HeadOK
  <2> QED  BY <2>1, <2>2, <2>3 DEF Fine
<1>8. ASSUME NEW s \in Stoppers, StopTest(p, s) \/ StopStore(p, s)  PROVE Fine(p)'
  <2>1. UNCHANGED <<lvl, opened, running, stat, failed, filelock, headhost>>
     BY <1>8 DEF StopTest, StopStore
  <2>2. \/ hpc' = hpc
        \/ hpc[p] = "asleep" /\ hpc' = [hpc EXCEPT ![p] = "closing"]
     BY <1>8 DEF StopTest, StopStore, Woken
  <2>3. state' = state \/ state' = [state EXCEPT ![p] = 9]
     BY <1>8 DEF StopTest, StopStore
  <2>4. TypeOK'
    <3>1. spc' \in [Procs -> [Stoppers -> {"idle", "store"}]]
      <4>1. \E v \in {"idle", "store"} : spc' = [spc EXCEPT ![p][s] = v]
         BY <1>8 DEF StopTest, StopStore
      <4> QED  BY <1>0, <4>1
    <3>2. hpc' \in [Procs -> {"out", "opening", "active", "wait", "asleep", "closing",
                            "ret", "killed", "crashed"}]
       BY <1>0, <2>2
    <3>3. state' \in [Procs -> 0 .. 9]
      <4>1. state \in [Procs -> 0 .. 9] /\ 9 \in 0 .. 9  BY <1>0
      <4> QED  BY ONLY <2>3, <4>1
    <3> QED  BY <1>0, <2>1, <3>1, <3>2, <3>3
  <2>5. ProcOK(p)'
     BY <1>0, <2>1, <2>2, <2>3 DEF ProcOK, OpeningOK, UpOK, RetOK, OutOK, StatOK
  <2>6. LockOK(p)' /\ HeadOK(p)'  BY <1>0, <2>1 DEF LockOK, HeadOK
  <2> QED  BY <2>4, <2>5, <2>6 DEF Fine
<1> QED  BY <1>2, <1>3, <1>4, <1>5, <1>6, <1>7, <1>8
-----------------------------------------------------------------------------
(* The theorems *)

LEMMA InitIInv == Init => IInv
<1> SUFFICES ASSUME Init  PROVE IInv  OBVIOUS
<1>1. TypeOK  BY DEF Init, TypeOK, HOST_NONE, HOST_CLOSING
<1>2. ASSUME NEW p \in Procs  PROVE ProcOK(p) /\ LockOK(p) /\ HeadOK(p)
   BY DEF Init, ProcOK, OpeningOK, UpOK, RetOK, OutOK, StatOK, LockOK, HeadOK
<1> QED  BY <1>1, <1>2 DEF IInv

LEMMA StepIInv == IInv /\ [Next]_vars => IInv'
<1> SUFFICES ASSUME IInv, [Next]_vars  PROVE IInv'  OBVIOUS
<1>1. ASSUME NEW p \in Procs, Step(p)  PROVE IInv'
  <2>1. Fine(p)'  BY <1>1, OpeningSteps, ClosingSteps DEF Step, HostStep
  <2>2. ASSUME NEW q \in Procs, q # p  PROVE ProcOK(q)' /\ LockOK(q)' /\ HeadOK(q)'
    <3>1. /\ state'[q] = state[q] /\ hpc'[q] = hpc[q] /\ lvl'[q] = lvl[q]
          /\ opened'[q] = opened[q] /\ running'[q] = running[q] /\ stat'[q] = stat[q]
          /\ failed'[q] = failed[q]
       BY <1>1, <2>2, Frame DEF IInv
    <3>2. /\ filelock' = q <=> filelock = q
          /\ headhost = q => headhost' = q
       BY <1>1, <2>2, SharedFrame
    <3>3. ProcOK(q) /\ LockOK(q) /\ HeadOK(q)  BY DEF IInv
    <3>4. ProcOK(q)'
       BY <3>1, <3>3 DEF ProcOK, OpeningOK, UpOK, RetOK, OutOK, StatOK
    <3>5. LockOK(q)' /\ HeadOK(q)'  BY <3>1, <3>2, <3>3 DEF LockOK, HeadOK
    <3> QED  BY <3>4, <3>5
  <2> QED  BY <2>1, <2>2 DEF IInv, Fine
<1>2. CASE UNCHANGED vars
  <2>1. TypeOK'  BY <1>2 DEF IInv, TypeOK, vars
  <2>2. ASSUME NEW p \in Procs  PROVE ProcOK(p)' /\ LockOK(p)' /\ HeadOK(p)'
     BY <1>2 DEF IInv, ProcOK, OpeningOK, UpOK, RetOK, OutOK, StatOK, LockOK, HeadOK, vars
  <2> QED  BY <2>1, <2>2 DEF IInv
<1> QED  BY <1>1, <1>2 DEF Next, Step

LEMMA Inductive == Spec => []IInv
<1> QED  BY InitIInv, StepIInv, PTL DEF Spec

\* Whoever has the database file open holds its lock and is named in its head
\* page: at most one process hosts a file, however many try, fail, are stopped
\* late or are killed.
THEOREM HostsAlone == Spec => []OneHost
<1>1. IInv => OneHost
  <2> SUFFICES ASSUME IInv, NEW p \in Procs, "file" \in opened[p]
               PROVE  filelock = p /\ headhost = p
     BY DEF OneHost
  <2>1. headhost = p /\ ProcOK(p) /\ LockOK(p)  BY DEF IInv, HeadOK
  <2>2. \E k \in 1 .. 8 : opened[p] = Below(k)
    <3>1. opened[p] # {}  OBVIOUS
    <3> QED  BY <2>1, <3>1 DEF IInv, TypeOK, ProcOK, OpeningOK, UpOK, RetOK, OutOK, HOST_OPEN
  <2>3. "lock" \in opened[p]  BY <2>2, Stages
  <2> QED  BY <2>1, <2>3 DEF LockOK
<1> QED  BY <1>1, Inductive, PTL

\* odb_host gives everything back at whatever stage it failed, and a host that
\* came up joins its workers before it takes anything from them, also when an
\* odb_hoststop of an earlier odb_host stores its HOST_CLOSING late.
THEOREM GivesAllBack == Spec => []NothingLeft
<1>1. IInv => NothingLeft
  <2> SUFFICES ASSUME IInv, NEW p \in Procs
               PROVE  /\ hpc[p] = "out" => opened[p] = {}
                      /\ running[p] /\ ~failed[p] /\ hpc[p] # "opening" =>
                           {"shm", "pcache", "ahost"} \subseteq opened[p]
     BY DEF NothingLeft
  <2>1. ProcOK(p)  BY DEF IInv
  <2>2. hpc[p] = "out" => opened[p] = {}  BY <2>1 DEF ProcOK, OutOK
  <2>3. running[p] /\ ~failed[p] /\ hpc[p] # "opening" => opened[p] = Below(8)
     BY <2>1 DEF IInv, TypeOK, ProcOK, UpOK, RetOK, OutOK, HOST_OPEN
  <2> QED  BY <2>2, <2>3, Stages
<1> QED  BY <1>1, Inductive, PTL

\* The status futex says ODB_VACTIVE only while the workers run.
THEOREM StatTellsTruth == Spec => []StatActive
<1>1. IInv => StatActive
   BY DEF IInv, StatActive, Alive, ProcOK, StatOK, UpOK
<1> QED  BY <1>1, Inductive, PTL
-----------------------------------------------------------------------------
(* The shared memory *)

USE ShmLinkAssumption

Attached == {h \in Handles : pc[h] = "attached"}

\* Before the host is running no handle is past the wait, and nothing is counted.
NobodyYet ==
    hostpc \in {"off", "created", "written"} =>
      /\ status = "STARTING" /\ connected = 0 /\ jobmutex = "none"
      /\ \A h \in Handles : pc[h] \notin {"status", "join", "attached"}

\* The mutex lives in a host that came up.
MutexOfHost == jobmutex = "live" => hostpc \in {"running", "up", "closed", "left", "gone"}

\* Until the host has counted itself, the first handle to join is turned away and
\* stays counted: the count is ahead of the attached handles.
FirstStaysCounted == hostpc = "running" => connected = 0 \/ connected > Cardinality(Attached)

LinkInv == LinkTypeOK /\ UsersCounted /\ NobodyYet /\ MutexOfHost /\ FirstStaysCounted
-----------------------------------------------------------------------------
(* The attached handles *)

LEMMA AttachedFinite ==
    /\ IsFiniteSet(Attached) /\ Cardinality(Attached) \in Nat
    /\ Cardinality(Attached) = 0 <=> Attached = {}
<1>1. IsFiniteSet(Attached)  BY FS_Subset DEF Attached
<1> QED  BY <1>1, FS_CardinalityType, FS_EmptySet

LEMMA CountIs ==
    UsersCounted <=> connected >= Cardinality(Attached)
                                    + (IF hostpc \in {"up", "closed"} THEN 1 ELSE 0)
BY DEF UsersCounted, Attached

LEMMA AttachedKept ==
    ASSUME LinkTypeOK, pc' = pc \/ pc' = LinkWoken
    PROVE  /\ Attached' = Attached
           /\ \A h \in Handles : pc'[h] \in {pc[h], "status"}
           /\ pc' \in [Handles -> {"out", "head", "wait", "asleep", "status", "join",
                                   "attached", "left"}]
<1>1. CASE pc' = pc  BY <1>1 DEF Attached, LinkTypeOK
<1>2. CASE pc' = LinkWoken  BY <1>2 DEF Attached, LinkTypeOK, LinkWoken
<1> QED  BY <1>1, <1>2

LEMMA AttachedMoves ==
    ASSUME LinkTypeOK, NEW h \in Handles, NEW l, LinkGoto(h, l), pc[h] # "attached"
    PROVE  /\ l # "attached" => Attached' = Attached
           /\ l = "attached" => Cardinality(Attached') = Cardinality(Attached) + 1
<1>1. l # "attached" => Attached' = Attached  BY DEF LinkTypeOK, LinkGoto, Attached
<1>2. CASE l = "attached"
  <2>1. Attached' = Attached \cup {h} /\ h \notin Attached
     BY <1>2 DEF LinkTypeOK, LinkGoto, Attached
  <2> QED  BY <1>1, <2>1, AttachedFinite, FS_AddElement
<1> QED  BY <1>1, <1>2

LEMMA AttachedLeaves ==
    ASSUME LinkTypeOK, NEW h \in Handles, LinkGoto(h, "left"), pc[h] = "attached"
    PROVE  Cardinality(Attached') = Cardinality(Attached) - 1 /\ Cardinality(Attached) >= 1
<1>1. Attached' = Attached \ {h} /\ h \in Attached  BY DEF LinkTypeOK, LinkGoto, Attached
<1>2. Cardinality(Attached') = Cardinality(Attached) - 1
   BY <1>1, AttachedFinite, FS_RemoveElement
<1>3. Cardinality(Attached) # 0  BY <1>1, AttachedFinite
<1> QED  BY <1>2, <1>3, AttachedFinite
-----------------------------------------------------------------------------
(* The steps of the host and of the handles *)

LEMMA LinkHostStep ==
    ASSUME LinkInv, HostInits \/ HostEnds
    PROVE  LinkInv'
<1> USE AttachedFinite
<1>0. LinkTypeOK /\ connected \in Nat  BY DEF LinkInv, LinkTypeOK
<1>1. pc' = pc \/ pc' = LinkWoken
   BY DEF HostInits, HostEnds, HostCreate, HostWrite, HostRunning, HostJoins, HostCleanShm,
      HostCleanMutex, HostCloses, HostLeaves, HostUnlinks
<1>2. /\ Attached' = Attached
      /\ \A h \in Handles : pc'[h] \in {pc[h], "status"}
      /\ pc' \in [Handles -> {"out", "head", "wait", "asleep", "status", "join",
                              "attached", "left"}]
   BY <1>0, <1>1, AttachedKept
<1>3. UsersCounted /\ NobodyYet /\ MutexOfHost /\ FirstStaysCounted  BY DEF LinkInv
<1>4. connected >= Cardinality(Attached) + (IF hostpc \in {"up", "closed"} THEN 1 ELSE 0)
   BY <1>3, CountIs
<1> USE DEF LinkInv, LinkTypeOK, NobodyYet, MutexOfHost, FirstStaysCounted, mem
<1>5. CASE HostCreate \/ HostWrite \/ HostCleanShm
  <2>1. pc' = pc /\ connected' = connected /\ hostpc' \notin {"up", "closed", "running"}
        /\ hostpc \notin {"up", "closed"}
     BY <1>5 DEF HostCreate, HostWrite, HostCleanShm
  <2>2. UsersCounted'  BY <1>2, <1>4, <2>1 DEF UsersCounted, Attached
  <2> QED  BY <1>0, <1>2, <1>3, <1>5, <2>1, <2>2 DEF HostCreate, HostWrite, HostCleanShm
<1>6. CASE HostRunning \/ HostCleanMutex
  <2>1. connected' = connected /\ connected = 0 /\ hostpc' \notin {"up", "closed"}
        /\ hostpc \notin {"up", "closed"}
     BY <1>3, <1>6 DEF HostRunning, HostCleanMutex
  <2>2. UsersCounted'  BY <1>2, <1>4, <2>1 DEF UsersCounted, Attached
  <2> QED  BY <1>0, <1>2, <1>3, <1>6, <2>1, <2>2 DEF HostRunning, HostCleanMutex
<1>7. CASE HostJoins
  <2>1. connected' = connected + 1 /\ hostpc' = "up" /\ hostpc = "running" /\ pc' = pc
     BY <1>7 DEF HostJoins, Counted
  <2>2. UsersCounted'  BY <1>0, <1>2, <1>4, <2>1 DEF UsersCounted, Attached
  <2> QED  BY <1>0, <1>2, <1>3, <1>7, <2>1, <2>2 DEF HostJoins
<1>8. CASE HostCloses
  <2>1. connected' = connected /\ hostpc' = "closed" /\ hostpc = "up" /\ pc' = pc
     BY <1>8 DEF HostCloses
  <2>2. UsersCounted'  BY <1>0, <1>2, <1>4, <2>1 DEF UsersCounted, Attached
  <2> QED  BY <1>0, <1>2, <1>3, <1>8, <2>1, <2>2 DEF HostCloses
<1>9. CASE HostLeaves
  <2>1. connected' = connected - 1 /\ hostpc' = "left" /\ hostpc = "closed" /\ pc' = pc
     BY <1>9 DEF HostLeaves, Leave
  <2>2. connected' \in Nat  BY <1>0, <1>4, <2>1
  <2>3. UsersCounted'  BY <1>0, <1>2, <1>4, <2>1 DEF UsersCounted, Attached
  <2> QED  BY <1>0, <1>2, <1>3, <1>9, <2>1, <2>2, <2>3 DEF HostLeaves, Leave
<1>10. CASE HostUnlinks
  <2>1. connected' = connected /\ hostpc' = "gone" /\ hostpc = "left" /\ pc' = pc
     BY <1>10 DEF HostUnlinks
  <2>2. UsersCounted'  BY <1>0, <1>2, <1>4, <2>1 DEF UsersCounted, Attached
  <2> QED  BY <1>0, <1>2, <1>3, <1>10, <2>1, <2>2 DEF HostUnlinks
<1> QED  BY <1>5, <1>6, <1>7, <1>8, <1>9, <1>10 DEF HostInits, HostEnds

LEMMA HandleStep ==
    ASSUME LinkInv, NEW h \in Handles,
           Connect(h) \/ Connecting(h) \/ Disconnect(h) \/ Unlink(h)
    PROVE  LinkInv'
<1> USE AttachedFinite
<1>0. LinkTypeOK /\ connected \in Nat  BY DEF LinkInv, LinkTypeOK
<1>3. UsersCounted /\ NobodyYet /\ MutexOfHost /\ FirstStaysCounted  BY DEF LinkInv
<1>4. connected >= Cardinality(Attached) + (IF hostpc \in {"up", "closed"} THEN 1 ELSE 0)
   BY <1>3, CountIs
<1> USE DEF LinkInv, LinkTypeOK, NobodyYet, MutexOfHost, FirstStaysCounted, mem
<1>5. CASE Connect(h) \/ ReadHead(h) \/ AwaitHost(h) \/ TestStatus(h) \/ Unlink(h)
  <2>1. PICK l : LinkGoto(h, l) /\ l # "attached" /\ pc[h] # "attached"
     BY <1>5 DEF Connect, ReadHead, AwaitHost, TestStatus, Unlink, Answer, Fail
  <2>2. Attached' = Attached  BY <1>0, <2>1, AttachedMoves
  <2>3. connected' = connected /\ hostpc' = hostpc /\ status' = status /\ jobmutex' = jobmutex
     BY <1>5 DEF Connect, ReadHead, AwaitHost, TestStatus, Unlink
  <2>4. UsersCounted'  BY <1>4, <2>2, <2>3 DEF UsersCounted, Attached
  <2>5. NobodyYet'
     BY <1>0, <1>3, <1>5, <2>3
        DEF Connect, ReadHead, AwaitHost, TestStatus, Unlink, Answer, Fail, LinkGoto
  <2>6. LinkTypeOK'
     BY <1>0, <1>5, <2>3
        DEF Connect, ReadHead, AwaitHost, TestStatus, Unlink, Answer, Fail, LinkGoto
  <2> QED  BY <1>3, <2>2, <2>3, <2>4, <2>5, <2>6
<1>6. CASE Join(h)
  <2>1. /\ connected' = connected + 1 /\ hostpc' = hostpc /\ status' = status
        /\ jobmutex' = jobmutex /\ pc[h] = "join" /\ written' = written
     BY <1>6 DEF Join, Counted
  <2>2. hostpc \notin {"off", "created", "written"}  BY <1>3, <2>1
  <2>3. LinkTypeOK'
    <3>1. connected' \in Nat  BY <1>0, <2>1
    <3>2. \/ named' = named /\ Answer(h, "OK")
          \/ named' = FALSE /\ Answer(h, "ENOHOST")
       BY <1>6 DEF Join, Fail
    <3> QED  BY <1>0, <2>1, <3>1, <3>2 DEF Answer, LinkGoto
  <2>4. CASE connected = 0
    <3>1. LinkGoto(h, "out")  BY <1>6, <2>4 DEF Join, Dismantled, Fail, Answer
    <3>2. Attached' = Attached  BY <1>0, <2>1, <3>1, AttachedMoves
    <3>3. UsersCounted'
      <4>1. UsersCounted' <=> connected' >= Cardinality(Attached')
                                + (IF hostpc' \in {"up", "closed"} THEN 1 ELSE 0)
         BY DEF UsersCounted, Attached
      <4>2. /\ connected' = connected + 1 /\ hostpc' = hostpc /\ Attached' = Attached
            /\ connected \in Nat /\ Cardinality(Attached) \in Nat
         BY <1>0, <2>1, <3>2, FS_CardinalityType
      <4> QED  BY ONLY <1>4, <4>1, <4>2
    <3>4. Cardinality(Attached) = 0  BY <1>0, <1>4, <2>4
    <3>5. FirstStaysCounted'  BY <1>0, <2>1, <2>4, <3>2, <3>4
    <3> QED  BY <1>3, <2>1, <2>2, <2>3, <3>3, <3>5
  <2>5. CASE connected # 0
    <3>1. LinkGoto(h, "attached")  BY <1>6, <2>5 DEF Join, Dismantled, Fail, Answer
    <3>2. Cardinality(Attached') = Cardinality(Attached) + 1
       BY <1>0, <2>1, <3>1, AttachedMoves
    <3>3. UsersCounted'  BY <1>0, <1>4, <2>1, <3>2 DEF UsersCounted, Attached
    <3> QED  BY <1>0, <1>3, <2>1, <2>2, <2>3, <2>5, <3>2, <3>3
  <2> QED  BY <2>4, <2>5
<1>7. CASE Disconnect(h)
  <2>1. /\ connected' = connected - 1 /\ hostpc' = hostpc /\ status' = status
        /\ pc[h] = "attached" /\ written' = written /\ named' = named /\ answer' = answer
        /\ LinkGoto(h, "left") /\ jobmutex' \in {jobmutex, "destroyed"}
     BY <1>7 DEF Disconnect, Leave
  <2>2. hostpc \notin {"off", "created", "written"}  BY <1>3, <2>1
  <2>3. Cardinality(Attached') = Cardinality(Attached) - 1 /\ Cardinality(Attached) >= 1
     BY <1>0, <2>1, AttachedLeaves
  <2>4. UsersCounted'  BY <1>0, <1>4, <2>1, <2>3 DEF UsersCounted, Attached
  <2>5. connected' \in Nat  BY <1>0, <1>4, <2>1, <2>3
  <2>6. LinkTypeOK'  BY <1>0, <2>1, <2>5 DEF LinkGoto
  <2>7. FirstStaysCounted'  BY <1>0, <1>3, <1>4, <2>1, <2>3
  <2> QED  BY <1>3, <2>1, <2>2, <2>4, <2>6, <2>7
<1> QED  BY <1>5, <1>6, <1>7 DEF Connecting

LEMMA Invariance == LinkSpec => []LinkInv
<1>1. LinkInit => LinkInv
  <2> SUFFICES ASSUME LinkInit PROVE LinkInv  OBVIOUS
  <2>1. Attached = {}  BY DEF LinkInit, Attached
  <2>2. Cardinality(Attached) = 0  BY <2>1, AttachedFinite
  <2>3. UsersCounted  BY <2>2, CountIs DEF LinkInit
  <2>4. LinkTypeOK  BY DEF LinkInit, LinkTypeOK
  <2> QED  BY <2>3, <2>4 DEF LinkInit, LinkInv, NobodyYet, MutexOfHost, FirstStaysCounted
<1>2. LinkInv /\ [LinkNext]_linkVars => LinkInv'
  <2> SUFFICES ASSUME LinkInv, [LinkNext]_linkVars PROVE LinkInv'  OBVIOUS
  <2>1. CASE UNCHANGED linkVars
     BY <2>1 DEF linkVars, LinkInv, LinkTypeOK, UsersCounted, Attached, NobodyYet, MutexOfHost,
        FirstStaysCounted
  <2> QED  BY <2>1, LinkHostStep, HandleStep DEF LinkNext
<1> QED  BY <1>1, <1>2, PTL DEF LinkSpec
-----------------------------------------------------------------------------
\* "connected" counts everyone who may use the shared memory (edbs_host_init,
\* edbs_handle_init, deleteshm), for any number of handles and connections.
THEOREM UsersAreCounted == LinkSpec => []UsersCounted
BY Invariance, PTL DEF LinkInv

\* deleteshm, "last man out hit the lights": the job mutex is destroyed when the
\* host has left and no handle is attached, never under a user.
THEOREM LastManOut == LinkSpec => DestroyedLast
<1> DEFINE Last == jobmutex = "live" /\ jobmutex' = "destroyed" =>
                     hostpc' \in {"left", "gone"} /\ \A h \in Handles : pc'[h] # "attached"
<1>1. LinkInv /\ LinkInv' /\ [LinkNext]_linkVars => [Last]_linkVars
  <2> SUFFICES ASSUME LinkInv, LinkInv', LinkNext, jobmutex = "live", jobmutex' = "destroyed"
               PROVE  hostpc' \in {"left", "gone"} /\ \A h \in Handles : pc'[h] # "attached"
     OBVIOUS
  <2>0. connected \in Nat /\ connected' \in Nat  BY DEF LinkInv, LinkTypeOK
  <2>1. connected' >= Cardinality(Attached')
                        + (IF hostpc' \in {"up", "closed"} THEN 1 ELSE 0)
     BY DEF LinkInv, UsersCounted, Attached
  <2>2. hostpc \in {"running", "up", "closed", "left", "gone"}  BY DEF LinkInv, MutexOfHost
  <2>3. /\ connected' = 0
        /\ \/ HostLeaves
           \/ \E h \in Handles : Disconnect(h)
     BY <2>2 DEF LinkNext, HostInits, HostEnds, HostCreate, HostWrite, HostRunning, HostJoins,
        HostCleanShm, HostCleanMutex, HostCloses, HostLeaves, HostUnlinks, Leave, LastOut,
        Connect, Connecting, ReadHead, AwaitHost, TestStatus, Join, Disconnect, Unlink, mem
  <2>4. Cardinality(Attached') \in Nat
     BY AttachedFinite, FS_Subset, FS_CardinalityType DEF Attached
  <2>5. Cardinality(Attached') = 0 /\ hostpc' \notin {"up", "closed"}
     BY <2>0, <2>1, <2>3, <2>4
  <2>6. \A h \in Handles : pc'[h] # "attached"
    <3>1. Attached' = {}
       BY <2>5, FS_EmptySet, FS_Subset DEF Attached
    <3> QED  BY <3>1 DEF Attached
  <2>7. hostpc' # "running"
    <3>1. SUFFICES ASSUME hostpc' = "running" PROVE FALSE  OBVIOUS
    <3>2. PICK h \in Handles : Disconnect(h)  BY <2>3, <3>1 DEF HostLeaves
    <3>3. hostpc = "running" /\ LinkGoto(h, "left") /\ pc[h] = "attached"
          /\ connected' = connected - 1
       BY <3>1, <3>2 DEF Disconnect, Leave
    <3>4. Cardinality(Attached) >= 1  BY <3>3, AttachedLeaves DEF LinkInv
    <3>5. connected = 0 \/ connected > Cardinality(Attached)
       BY <3>3 DEF LinkInv, FirstStaysCounted
    <3> QED  BY <2>0, <2>3, <3>3, <3>4, <3>5, AttachedFinite
  <2>8. hostpc' \in {"running", "up", "closed", "left", "gone"}
     BY <2>2, <2>3 DEF HostLeaves, Disconnect
  <2> QED  BY <2>5, <2>6, <2>7, <2>8
<1> QED  BY <1>1, Invariance, PTL DEF LinkSpec, DestroyedLast
=============================================================================
