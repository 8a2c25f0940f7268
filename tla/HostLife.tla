------------------------------ MODULE HostLife ------------------------------
(***************************************************************************)
(* odb_host and odb_hoststop (liboidadb-alpha/edbx.c): how a process opens *)
(* a database file to host it, what it undoes when a stage fails or when   *)
(* it is told to stop, and the processes that compete for one file.        *)
(***************************************************************************)
EXTENDS Naturals

CONSTANTS
    Procs,      \* processes that host the file (one odb_host at a time each)
    Stoppers,   \* threads of each process that call odb_hoststop
    None,
    Fails,      \* the stages (values of enum hoststate) at which a call may fail
    Crashes     \* whether a process may be killed

ASSUME HostLifeAssumption ==
    /\ None \notin Procs
    /\ Fails \subseteq 1 .. 7
    /\ Crashes \in BOOLEAN

\* enum hoststate
HOST_NONE == 0
HOST_OPENING_DESCRIPTOR == 1
HOST_OPENING_XLLOCK == 2
HOST_OPENING_FILE == 3
HOST_OPENING_SHM == 4
HOST_OPENING_WORKERS == 7
HOST_OPEN == 8
HOST_CLOSING == 9

\* What the stage of each state opens.
Resource == <<"descriptor", "lock", "file", "shm", "pcache", "ahost", "workers">>

VARIABLES
    state,      \* host.state of each process
    hpc,        \* where its odb_host is; "out": not called
    lvl,        \* the stage it opens, or the case of the closing switch it is at
    opened,     \* what it holds
    running,    \* some of its worker threads run
    stat,       \* *stat_futex
    failed,     \* the last odb_host has returned an error
    spc,        \* where its odb_hoststop calls are
    filelock,   \* the process that holds the lock on the file
    headhost    \* host, in the file's head page

vars == <<state, hpc, lvl, opened, running, stat, failed, spc, filelock, headhost>>
-----------------------------------------------------------------------------
Goto(p, l) == hpc' = [hpc EXCEPT ![p] = l]

\* host.state is stored, not incremented: a late odb_hoststop is overwritten.
Opened(p) ==
    /\ opened' = [opened EXCEPT ![p] = @ \cup {Resource[lvl[p]]}]
    /\ lvl' = [lvl EXCEPT ![p] = @ + 1]
    /\ state' = [state EXCEPT ![p] = lvl[p] + 1]

\* Mutant: one case too far down.
NextCase(s) == s - 1
\* switch(host.state)
FirstCase(s) == s

\* goto ret
Bail(p) ==
    /\ Goto(p, "ret")
    /\ lvl' = [lvl EXCEPT ![p] = FirstCase(state[p])]
    /\ failed' = [failed EXCEPT ![p] = TRUE]

At(p, s) == hpc[p] = "opening" /\ lvl[p] = s

\* ODB_EINVAL
HostInvalid(p) ==
    /\ hpc[p] = "out"
    /\ stat' = [stat EXCEPT ![p] = "VERROR"]
    /\ failed' = [failed EXCEPT ![p] = TRUE]
    /\ UNCHANGED <<state, hpc, lvl, opened, running, spc, filelock, headhost>>

\* A call in any other state returns ODB_EAGAIN.
odb_host(p) ==
    /\ hpc[p] = "out" /\ state[p] = HOST_NONE
    /\ state' = [state EXCEPT ![p] = HOST_OPENING_DESCRIPTOR]
    /\ lvl' = [lvl EXCEPT ![p] = HOST_OPENING_DESCRIPTOR]
    /\ Goto(p, "opening")
    /\ stat' = [stat EXCEPT ![p] = "VVOID"]
    /\ failed' = [failed EXCEPT ![p] = FALSE]
    /\ UNCHANGED <<opened, running, spc, filelock, headhost>>

OpenDescriptor(p) ==
    /\ At(p, HOST_OPENING_DESCRIPTOR)
    /\ Opened(p)
    /\ UNCHANGED <<hpc, running, stat, failed, spc, filelock, headhost>>

OpenDescriptorFails(p) ==
    /\ At(p, HOST_OPENING_DESCRIPTOR) /\ HOST_OPENING_DESCRIPTOR \in Fails
    /\ Goto(p, "out")
    /\ stat' = [stat EXCEPT ![p] = "VERROR"]
    /\ failed' = [failed EXCEPT ![p] = TRUE]
    /\ UNCHANGED <<state, lvl, opened, running, spc, filelock, headhost>>

\* Mutant: the answer of fcntl is not looked at.
LockTaken == TRUE
LockFree == filelock = None

lockfile(p) ==
    /\ At(p, HOST_OPENING_XLLOCK)
    /\ \/ /\ LockFree
          /\ filelock' = p
          /\ Opened(p)
          /\ UNCHANGED <<hpc, failed>>
       \/ /\ ~LockFree          \* ODB_EOPEN
          /\ Bail(p)
          /\ UNCHANGED <<opened, state, filelock>>
    /\ UNCHANGED <<running, stat, spc, headhost>>

\* The kernel closes what a dead process had open.  The head page stays as it is.
Dead(p, how) ==
    /\ Goto(p, how)
    /\ opened' = [opened EXCEPT ![p] = {}]
    /\ running' = [running EXCEPT ![p] = FALSE]
    /\ filelock' = IF filelock = p THEN None ELSE filelock
    /\ spc' = [spc EXCEPT ![p] = [s \in Stoppers |-> "idle"]]

Alive(p) == hpc[p] \notin {"killed", "crashed"}

\* The head page names no host.
hostpid == headhost = None

edbd_open(p) ==
    /\ At(p, HOST_OPENING_FILE) /\ hostpid
    /\ headhost' = p
    /\ Opened(p)
    /\ UNCHANGED <<hpc, running, stat, failed, spc, filelock>>

\* edbd_open has closed, or unmapped, the head page when it fails; odb_host
\* then calls edbd_close, which looks for the host's pid in that page.
edbd_openFails(p) ==
    /\ At(p, HOST_OPENING_FILE)
    /\ ~hostpid \/ HOST_OPENING_FILE \in Fails
    /\ Dead(p, "crashed")
    /\ UNCHANGED <<state, lvl, stat, failed, headhost>>

\* edbs_host_init, edbp_cache_init, edba_host_init
OpenRest(p) ==
    /\ hpc[p] = "opening" /\ lvl[p] \in HOST_OPENING_SHM .. HOST_OPENING_WORKERS - 1
    /\ \/ /\ Opened(p)
          /\ UNCHANGED <<hpc, failed>>
       \/ /\ lvl[p] \in Fails
          /\ Bail(p)
          /\ UNCHANGED <<opened, state>>
    /\ UNCHANGED <<running, stat, spc, filelock, headhost>>

\* edbw_init and edbw_async for each worker; then HOST_OPEN.
StartWorkers(p) ==
    /\ At(p, HOST_OPENING_WORKERS)
    /\ Opened(p)
    /\ running' = [running EXCEPT ![p] = TRUE]
    /\ Goto(p, "active")
    /\ UNCHANGED <<stat, failed, spc, filelock, headhost>>

\* After some of them, or none, have been started.
StartWorkersFails(p) ==
    /\ At(p, HOST_OPENING_WORKERS) /\ HOST_OPENING_WORKERS \in Fails
    /\ \E some \in BOOLEAN : running' = [running EXCEPT ![p] = some]
    /\ Bail(p)
    /\ UNCHANGED <<state, opened, stat, spc, filelock, headhost>>

Active(p) ==
    /\ hpc[p] = "active"
    /\ stat' = [stat EXCEPT ![p] = "VACTIVE"]
    /\ Goto(p, "wait")
    /\ UNCHANGED <<state, lvl, opened, running, failed, spc, filelock, headhost>>

\* futex_wait(&host.state, HOST_OPEN)
Wait(p) ==
    /\ hpc[p] = "wait"
    /\ Goto(p, IF state[p] = HOST_OPEN THEN "asleep" ELSE "closing")
    /\ UNCHANGED <<state, lvl, opened, running, stat, failed, spc, filelock, headhost>>

\* Mutant: the futex is not told.
StatKept == "VACTIVE"
StatClosed == "VCLOSE"

Closing(p) ==
    /\ hpc[p] = "closing"
    /\ state' = [state EXCEPT ![p] = HOST_CLOSING]
    /\ stat' = [stat EXCEPT ![p] = StatClosed]
    /\ lvl' = [lvl EXCEPT ![p] = FirstCase(HOST_CLOSING)]
    /\ Goto(p, "ret")
    /\ UNCHANGED <<opened, running, failed, spc, filelock, headhost>>

\* edbs_host_close, edbw_join, edbw_decom
Joined(p) == [running EXCEPT ![p] = FALSE]

\* A late odb_hoststop sends a failed stage here too: what was never opened is
\* closed through the freed pointers of an earlier odb_host.
StopWorkers(p) ==
    /\ hpc[p] = "ret" /\ lvl[p] >= HOST_OPEN
    /\ IF "ahost" \in opened[p]
       THEN /\ running' = Joined(p)
            /\ opened' = [opened EXCEPT ![p] = @ \ {"workers"}]
            /\ lvl' = [lvl EXCEPT ![p] = HOST_OPENING_WORKERS]
            /\ UNCHANGED <<hpc, filelock, spc>>
       ELSE Dead(p, "crashed") /\ UNCHANGED lvl
    /\ UNCHANGED <<state, stat, failed, headhost>>

\* hostpid_remove leaves the pid of another host alone.
edbd_close(p) == headhost' = IF headhost = p THEN None ELSE headhost

unlockfile(p) == filelock' = IF filelock = p THEN None ELSE filelock

\* The cases HOST_OPENING_WORKERS to HOST_OPENING_XLLOCK, falling through.
Release(p) ==
    /\ hpc[p] = "ret" /\ lvl[p] \in HOST_OPENING_XLLOCK .. HOST_OPENING_WORKERS
    /\ LET r == Resource[lvl[p] - 1]
       IN  /\ opened' = [opened EXCEPT ![p] = @ \ {r}]
           /\ IF r = "file" THEN edbd_close(p) ELSE UNCHANGED headhost
           /\ IF r = "lock" THEN unlockfile(p) ELSE UNCHANGED filelock
    /\ lvl' = [lvl EXCEPT ![p] = @ - 1]
    /\ UNCHANGED <<state, hpc, running, stat, failed, spc>>

HostReturns(p) ==
    /\ hpc[p] = "ret" /\ lvl[p] = HOST_OPENING_DESCRIPTOR
    /\ state' = [state EXCEPT ![p] = HOST_NONE]
    /\ Goto(p, "out")
    /\ UNCHANGED <<lvl, opened, running, stat, failed, spc, filelock, headhost>>
-----------------------------------------------------------------------------
\* odb_hoststop: the test; other states return ODB_ENOHOST or ODB_EAGAIN.
StopTest(p, s) ==
    /\ Alive(p)
    /\ spc[p][s] = "idle" /\ state[p] = HOST_OPEN
    /\ spc' = [spc EXCEPT ![p][s] = "store"]
    /\ UNCHANGED <<state, hpc, lvl, opened, running, stat, failed, filelock, headhost>>

\* Mutant: the host is not woken.
NotWoken(p) == hpc
Woken(p) == IF hpc[p] = "asleep" THEN [hpc EXCEPT ![p] = "closing"] ELSE hpc

StopStore(p, s) ==
    /\ spc[p][s] = "store"
    /\ state' = [state EXCEPT ![p] = HOST_CLOSING]
    /\ hpc' = Woken(p)
    /\ spc' = [spc EXCEPT ![p][s] = "idle"]
    /\ UNCHANGED <<lvl, opened, running, stat, failed, filelock, headhost>>

Kill(p) ==
    /\ Crashes /\ Alive(p)
    /\ Dead(p, "killed")
    /\ UNCHANGED <<state, lvl, stat, failed, headhost>>
-----------------------------------------------------------------------------
Init ==
    /\ state = [p \in Procs |-> HOST_NONE]
    /\ hpc = [p \in Procs |-> "out"]
    /\ lvl = [p \in Procs |-> 0]
    /\ opened = [p \in Procs |-> {}]
    /\ running = [p \in Procs |-> FALSE]
    /\ stat = [p \in Procs |-> "VVOID"]
    /\ failed = [p \in Procs |-> FALSE]
    /\ spc = [p \in Procs |-> [s \in Stoppers |-> "idle"]]
    /\ filelock = None
    /\ headhost = None

HostStep(p) ==
    \/ OpenDescriptor(p) \/ OpenDescriptorFails(p) \/ lockfile(p)
    \/ edbd_open(p) \/ edbd_openFails(p) \/ OpenRest(p)
    \/ StartWorkers(p) \/ StartWorkersFails(p) \/ Active(p) \/ Wait(p)
    \/ Closing(p) \/ StopWorkers(p) \/ Release(p) \/ HostReturns(p)

Next ==
    \E p \in Procs :
      \/ odb_host(p) \/ HostInvalid(p) \/ HostStep(p) \/ Kill(p)
      \/ \E s \in Stoppers : StopTest(p, s) \/ StopStore(p, s)

Spec == Init /\ [][Next]_vars

\* The threads run; nobody has to call odb_host or odb_hoststop.
FairSpec ==
    /\ Spec
    /\ \A p \in Procs : /\ WF_vars(HostStep(p))
                        /\ \A s \in Stoppers : WF_vars(StopStore(p, s))
-----------------------------------------------------------------------------
\* The state of each odb_host, what it holds, and the file's lock and head page.
TypeOK ==
    /\ state \in [Procs -> HOST_NONE .. HOST_CLOSING]
    /\ hpc \in [Procs -> {"out", "opening", "active", "wait", "asleep", "closing",
                          "ret", "killed", "crashed"}]
    /\ lvl \in [Procs -> 0 .. HOST_CLOSING]
    /\ opened \in [Procs -> SUBSET { Resource[i] : i \in DOMAIN Resource }]
    /\ running \in [Procs -> BOOLEAN]
    /\ stat \in [Procs -> {"VVOID", "VERROR", "VACTIVE", "VCLOSE"}]
    /\ failed \in [Procs -> BOOLEAN]
    /\ spc \in [Procs -> [Stoppers -> {"idle", "store"}]]
    /\ filelock \in Procs \cup {None} /\ headhost \in Procs \cup {None}

\* "odb_host will place special locks and hints on the file that will prevent
\* other processes and threads from trying to host it": whoever has the database
\* file open has its lock and is named in its head page, whatever fails and
\* whoever is killed, so that there is one host at most and handles find it.
OneHost ==
    \A p \in Procs : "file" \in opened[p] => filelock = p /\ headhost = p

\* odb_host gives back all it has opened, at whatever stage it failed; and once
\* all the workers of a host run, they are joined before anything they use is
\* taken from them, however it goes down.
NothingLeft ==
    \A p \in Procs :
      /\ hpc[p] = "out" => opened[p] = {}
      /\ running[p] /\ ~failed[p] /\ hpc[p] # "opening" =>
           {"shm", "pcache", "ahost"} \subseteq opened[p]

\* Worker threads run only while what they use is there: "**defer:
\* edb_workerjoin" before the articulator, the pages and the shared memory go.
WorkersHaveTheirHost ==
    \A p \in Procs : running[p] => {"shm", "pcache", "ahost"} \subseteq opened[p]

\* "currently hosting = ODB_VACTIVE": the status futex says so only while the
\* workers run.
StatActive ==
    \A p \in Procs : stat[p] = "VACTIVE" /\ Alive(p) => running[p]

\* A successful odb_hoststop makes odb_host return, unless its process is killed.
StopReturns ==
    \A p \in Procs :
      (\E s \in Stoppers : spc[p][s] = "store") ~> hpc[p] \in {"out", "killed"}

\* "EDB_EAGAIN - odb_host is already active": a process whose odb_host has
\* returned can call it again.
CanHostAgain == \A p \in Procs : hpc[p] = "out" => state[p] = HOST_NONE

\* "shut down or shutting down with error = ODB_VERROR".
StatError == \A p \in Procs : hpc[p] = "out" /\ failed[p] => stat[p] = "VERROR"

\* A failing edbd_open makes odb_host return an error, such as "ODB_EOPEN -
\* the last host crashed unexpectedly", and does not kill the process.
HostSurvives == \A p \in Procs : hpc[p] # "crashed"
=============================================================================
