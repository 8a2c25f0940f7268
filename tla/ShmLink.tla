------------------------------- MODULE ShmLink -------------------------------
(***************************************************************************)
(* The shared memory between a host and its handles (edbs_host_init,       *)
(* edbs_host_free, edbs_handle_init, edbs_handle_free of                   *)
(* liboidadb-alpha/edbs.c): how it is created, found by name, joined, left *)
(* and taken apart while handles come and go.  The names of the            *)
(* specification itself begin with Link: HostProofs extends HostLife too.  *)
(***************************************************************************)
EXTENDS Integers, FiniteSets

CONSTANTS
    Handles,    \* threads that connect, use the host and disconnect
    Rejoins     \* whether a handle may connect more than once

ASSUME ShmLinkAssumption == IsFiniteSet(Handles) /\ Rejoins \in BOOLEAN

VARIABLES
    named,      \* /EDB_HOST-pid exists
    written,    \* the object has its size and its head (with the magic number)
    status,     \* futex_status
    connected,  \* connected
    jobmutex,   \* jobmutex: not yet "live", "live", or "destroyed"
    hostpc,     \* the host, in edbs_host_init, _close, _free
    pc,         \* the handles, in edbs_handle_init, _free
    answer      \* what the handle's edbs_handle_init returned

linkVars == <<named, written, status, connected, jobmutex, hostpc, pc, answer>>
mem  == <<written, status, connected, jobmutex>>
-----------------------------------------------------------------------------
\* Mutant: the arrival is not counted.
Uncounted(n) == n
\* __sync_add_and_fetch(&connected, 1), __sync_fetch_and_add(&connected, 1)
Counted(n) == n + 1

\* Mutant: the host stores its status and wakes nobody.
LinkNotWoken == pc
\* futex_wake(&futex_status, INT_MAX)
LinkWoken == [h \in Handles |-> IF pc[h] = "asleep" THEN "status" ELSE pc[h]]
-----------------------------------------------------------------------------
(* The host *)

\* shm_open(O_CREAT | O_EXCL)
HostCreate ==
    /\ hostpc = "off"
    /\ named' = TRUE
    /\ hostpc' = "created"
    /\ UNCHANGED <<mem, pc, answer>>

\* ftruncate, mmap, the head
HostWrite ==
    /\ hostpc = "created"
    /\ written' = TRUE
    /\ hostpc' = "written"
    /\ UNCHANGED <<named, status, connected, jobmutex, pc, answer>>

\* The mutexes; then futex_status = EDBS_SRUNNING and its broadcast.
HostRunning ==
    /\ hostpc = "written"
    /\ jobmutex' = "live"
    /\ status' = "RUNNING"
    /\ pc' = LinkWoken
    /\ hostpc' = "running"
    /\ UNCHANGED <<named, written, connected, answer>>

\* clean_shm: the object cannot be sized or mapped.
HostCleanShm ==
    /\ hostpc = "created"
    /\ named' = FALSE
    /\ hostpc' = "failed"
    /\ UNCHANGED <<mem, pc, answer>>

\* clean_mutex: a mutex cannot be made.
HostCleanMutex ==
    /\ hostpc = "written"
    /\ jobmutex' = "destroyed"
    /\ status' = "STOPPED"
    /\ pc' = LinkWoken
    /\ named' = FALSE
    /\ hostpc' = "failed"
    /\ UNCHANGED <<written, connected, answer>>

\* The host counts itself, last.
HostJoins ==
    /\ hostpc = "running"
    /\ connected' = Counted(connected)
    /\ hostpc' = "up"
    /\ UNCHANGED <<named, written, status, jobmutex, pc, answer>>

\* edbs_host_close (JobRing has the rest of it)
HostCloses ==
    /\ hostpc = "up"
    /\ status' = "STOPPED"
    /\ hostpc' = "closed"
    /\ UNCHANGED <<named, written, connected, jobmutex, pc, answer>>

\* Mutant: whoever leaves takes the mutex along.
EveryoneOut(n) == TRUE
\* "Last man out hit the lights"
LastOut(n) == n = 0

\* deleteshm: the count and the mutex
Leave ==
    /\ connected' = connected - 1
    /\ jobmutex' = IF LastOut(connected') THEN "destroyed" ELSE jobmutex
    /\ UNCHANGED <<named, written, status, answer>>

HostLeaves ==
    /\ hostpc = "closed"
    /\ Leave
    /\ hostpc' = "left"
    /\ UNCHANGED pc

\* deleteshm: munmap and shm_unlink
HostUnlinks ==
    /\ hostpc = "left"
    /\ named' = FALSE
    /\ hostpc' = "gone"
    /\ UNCHANGED <<mem, pc, answer>>
-----------------------------------------------------------------------------
(* The handles *)

LinkGoto(h, l) == pc' = [pc EXCEPT ![h] = l]

Answer(h, a) ==
    /\ LinkGoto(h, IF a = "OK" THEN "attached" ELSE "out")
    /\ answer' = [answer EXCEPT ![h] = a]

\* The handle gives up and, on its way, removes the name.
Fail(h, err) == named' = FALSE /\ Answer(h, err)

\* shm_open
Connect(h) ==
    /\ pc[h] = "out" /\ (Rejoins \/ answer[h] = "none")
    /\ IF named THEN LinkGoto(h, "head") /\ UNCHANGED answer ELSE Answer(h, "ENOHOST")
    /\ UNCHANGED <<named, mem, hostpc>>

\* fstat and the magic number
ReadHead(h) ==
    /\ pc[h] = "head"
    /\ \/ /\ written
          /\ LinkGoto(h, "wait")
          /\ UNCHANGED <<named, answer>>
       \/ /\ ~written
          /\ Fail(h, "ENOTDB")
    /\ UNCHANGED <<mem, hostpc>>

\* futex_wait(&futex_status, EDBS_SSTARTING)
AwaitHost(h) ==
    /\ pc[h] = "wait"
    /\ LinkGoto(h, IF status = "STARTING" THEN "asleep" ELSE "status")
    /\ UNCHANGED <<named, mem, hostpc, answer>>

TestStatus(h) ==
    /\ pc[h] = "status"
    /\ \/ /\ status # "STOPPED"
          /\ LinkGoto(h, "join")
          /\ UNCHANGED <<named, answer>>
       \/ /\ status = "STOPPED"
          /\ Fail(h, "ENOHOST")
    /\ UNCHANGED <<mem, hostpc>>

\* "this means know the shm has been dismantled"
Dismantled(lastcount) == lastcount = 0

\* The handle counts itself; this is not undone when the handle gives up
Join(h) ==
    /\ pc[h] = "join"
    /\ connected' = Counted(connected)
    /\ \/ /\ ~Dismantled(connected)
          /\ Answer(h, "OK")
          /\ UNCHANGED named
       \/ /\ Dismantled(connected)
          /\ Fail(h, "ENOHOST")
    /\ UNCHANGED <<written, status, jobmutex, hostpc>>

\* edbs_handle_free
Disconnect(h) ==
    /\ pc[h] = "attached"
    /\ Leave
    /\ LinkGoto(h, "left")
    /\ UNCHANGED hostpc

Unlink(h) ==
    /\ pc[h] = "left"
    /\ named' = FALSE
    /\ LinkGoto(h, "out")
    /\ UNCHANGED <<mem, hostpc, answer>>
-----------------------------------------------------------------------------
LinkInit ==
    /\ named = FALSE /\ written = FALSE
    /\ status = "STARTING" /\ connected = 0 /\ jobmutex = "none"
    /\ hostpc = "off"
    /\ pc = [h \in Handles |-> "out"]
    /\ answer = [h \in Handles |-> "none"]

HostInits == \/ HostCreate \/ HostWrite \/ HostRunning \/ HostJoins
             \/ HostCleanShm \/ HostCleanMutex
HostEnds  == HostCloses \/ HostLeaves \/ HostUnlinks
Connecting(h) == ReadHead(h) \/ AwaitHost(h) \/ TestStatus(h) \/ Join(h)

LinkNext == \/ HostInits \/ HostEnds
            \/ \E h \in Handles : Connect(h) \/ Connecting(h) \/ Disconnect(h) \/ Unlink(h)

LinkSpec == LinkInit /\ [][LinkNext]_linkVars

\* The host that is starting goes on, and so do the handles that connect.
LinkFairSpec == LinkSpec /\ WF_linkVars(HostInits) /\ \A h \in Handles : WF_linkVars(Connecting(h))
-----------------------------------------------------------------------------
\* The shared head and the threads at its ends have their types; the count of
\* the connected does not fall below zero.
LinkTypeOK ==
    /\ {named, written} \subseteq BOOLEAN
    /\ status \in {"STARTING", "RUNNING", "STOPPED"}
    /\ connected \in Nat
    /\ jobmutex \in {"none", "live", "destroyed"}
    /\ hostpc \in {"off", "created", "written", "running", "up", "closed", "left",
                  "gone", "failed"}
    /\ pc \in [Handles -> {"out", "head", "wait", "asleep", "status", "join",
                           "attached", "left"}]
    /\ answer \in [Handles -> {"none", "OK", "ENOHOST", "ENOTDB"}]

\* Without "connected" "the host would free the jobmutex and would cause handles
\* unknowningly run into segfaults when trying to lock it": a handle that is
\* connected finds the mutex alive.
MutexAlive == \A h \in Handles : pc[h] = "attached" => jobmutex = "live"

\* The mutex is destroyed once, and by the last one out.
DestroyedLast ==
    [][ jobmutex = "live" /\ jobmutex' = "destroyed" =>
          hostpc' \in {"left", "gone"} /\ \A h \in Handles : pc'[h] # "attached" ]_linkVars

\* Everyone who may use the shared memory is counted in "connected", those who
\* gave up while joining too: the count never falls short of its users.
UsersCounted ==
    connected >= Cardinality({h \in Handles : pc[h] = "attached"})
                   + (IF hostpc \in {"up", "closed"} THEN 1 ELSE 0)

\* odb_handle answers: the handle is connected or told why not.
ConnectReturns == \A h \in Handles : pc[h] = "head" ~> pc[h] \in {"attached", "out"}

\* "EDB_ENOHOST - file is not being hosted": a host that is up can be found.
HostIsFound == hostpc = "up" => named
=============================================================================
