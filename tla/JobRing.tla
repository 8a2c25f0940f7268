------------------------------ MODULE JobRing ------------------------------
(***************************************************************************)
(* The job ring of liboidadb-alpha (edbs-jobs.c, edbs.c): handles install  *)
(* jobs into the slots of a ring in shared memory, the host's workers      *)
(* select and close them, and the host waits for them when it stops.       *)
(*                                                                         *)
(* Everything in the head of the shared memory is read and written under   *)
(* jobmutex, so what a function does between lock and unlock is one step.  *)
(* The exceptions are the futex words: futex_wait tests its word (and goes *)
(* to sleep) in a step of its own, before the mutex is taken, and          *)
(* edbs_host_init sets futex_selectorhold without the mutex.               *)
(***************************************************************************)
EXTENDS Naturals, FiniteSets, Sequences

CONSTANTS
    jobc,         \* slots in the ring (odb_hostconfig.job_buffq)
    Handles,      \* threads that install jobs
    Workers,      \* threads of the host's worker pool
    None,         \* no worker
    MaxJobs,      \* bound: how many jobs a handle installs
    EarlyHandles, \* TRUE: handles may connect before edbs_host_init returns
    Stops         \* TRUE: the host may be stopped

ASSUME JobRingAssumption ==
    /\ jobc \in Nat \ {0}
    /\ IsFiniteSet(Handles) /\ IsFiniteSet(Workers)
    /\ Handles \cap Workers = {}
    /\ None \notin Workers
    /\ MaxJobs \in Nat
    /\ EarlyHandles \in BOOLEAN /\ Stops \in BOOLEAN

Slots   == 0 .. jobc - 1
Threads == Handles \cup Workers

VARIABLES
    \* edbs_shmhead_t
    futex_status, newjobs, emptyjobs, jobinst_next, jobacpt_next,
    futex_selectorhold, futex_installerhold, futex_hasjobs,
    \* edbs_shmjob_t
    jobtype,    \* the slot holds a job
    owner,      \* the worker that has selected it
    \* threads
    pc,         \* place in edbs_jobinstall (handles), workermain (workers)
    jobpos,     \* the slot a worker has selected
    hostpc,     \* place in odb_host
    \* history
    installs,   \* jobs each handle has installed
    queue,      \* the slots of the unowned jobs, as they were installed
    overtaken   \* how many jobs were selected before the slot's, out of turn

head  == <<futex_status, newjobs, emptyjobs, jobinst_next, jobacpt_next,
           futex_selectorhold, futex_installerhold, futex_hasjobs>>
vars  == <<head, jobtype, owner, pc, jobpos, hostpc, installs, queue, overtaken>>
-----------------------------------------------------------------------------
Empty   == { i \in Slots : ~jobtype[i] /\ owner[i] = None }
Unowned == { i \in Slots : jobtype[i] /\ owner[i] = None }

\* The first slot of set at or after next, going round the ring.
FirstFrom(next, set) ==
    LET d == CHOOSE d \in Slots : /\ (next + d) % jobc \in set
                                  /\ \A e \in 0 .. d - 1 : (next + e) % jobc \notin set
    IN  (next + d) % jobc

\* Mutant: the hold is never set.
NeverExhausted(n) == FALSE
\* A hold is set when nothing is left to take.
Exhausted(n) == n = 0

\* Mutant: the scan starts at the first slot every time.
SlotZero(i) == 0
NextSlot(i) == (i + 1) % jobc

Goto(t, l) == pc' = [pc EXCEPT ![t] = l]

\* Mutant: the wake is forgotten.
GotoOnly(t, l, kind, n) == Goto(t, l)

\* futex_wake(word, n), n of the sleeping threads of kind or all there are,
\* while t goes on at l.
WakeGoto(t, l, kind, n) ==
    LET sleeping == { u \in kind : pc[u] = "asleep" }
    IN  \E woken \in SUBSET sleeping :
          /\ Cardinality(woken) <= n
          /\ woken = sleeping \/ Cardinality(woken) = n
          /\ pc' = [u \in Threads |-> IF u = t THEN l
                                      ELSE IF u \in woken THEN "enter" ELSE pc[u]]
\* What a step that only moves a thread leaves alone.
memory == <<head, jobtype, owner, jobpos, hostpc, installs, queue, overtaken>>
-----------------------------------------------------------------------------
(* edbs_jobinstall *)

InstallCall(h) ==
    /\ pc[h] = "idle" /\ installs[h] < MaxJobs
    /\ hostpc # "init" \/ EarlyHandles
    /\ Goto(h, "wait")
    /\ UNCHANGED memory

InstallWait(h) ==
    /\ pc[h] = "wait"
    /\ Goto(h, IF futex_installerhold THEN "asleep" ELSE "enter")
    /\ UNCHANGED memory

\* ODB_ECLOSED
InstallClosed(h) ==
    /\ pc[h] = "enter" /\ futex_status # "RUNNING"
    /\ Goto(h, "refused")
    /\ UNCHANGED memory

InstallRehold(h) ==
    /\ pc[h] = "enter" /\ futex_status = "RUNNING" /\ futex_installerhold
    /\ Goto(h, "wait")
    /\ UNCHANGED memory

PastInstallHold(h) ==
    pc[h] = "enter" /\ futex_status = "RUNNING" /\ ~futex_installerhold

Install(h) ==
    /\ PastInstallHold(h)
    /\ LET i == FirstFrom(jobinst_next, Empty)
       IN  /\ jobtype' = [jobtype EXCEPT ![i] = TRUE]
           /\ jobinst_next' = NextSlot(i)
           /\ queue' = Append(queue, i)
           /\ overtaken' = [overtaken EXCEPT ![i] = 0]
    /\ emptyjobs' = emptyjobs - 1
    /\ newjobs' = newjobs + 1
    /\ futex_hasjobs' = TRUE
    /\ futex_installerhold' = Exhausted(emptyjobs')
    /\ futex_selectorhold' = FALSE
    /\ IF futex_selectorhold THEN WakeGoto(h, "idle", Workers, 1) ELSE Goto(h, "idle")
    /\ installs' = [installs EXCEPT ![h] = @ + 1]
    /\ UNCHANGED <<futex_status, jobacpt_next, owner, jobpos, hostpc>>
-----------------------------------------------------------------------------
(* edbs_jobselect, edbs_jobclose and workermain *)

WorkerStart(w) ==
    /\ pc[w] = "idle" /\ hostpc # "init"
    /\ Goto(w, "wait")
    /\ UNCHANGED memory

SelectWait(w) ==
    /\ pc[w] = "wait"
    /\ Goto(w, IF futex_selectorhold THEN "asleep" ELSE "enter")
    /\ UNCHANGED memory

NoMoreJobs == newjobs = 0 /\ futex_status # "RUNNING"

\* ODB_ECLOSED: the worker leaves workermain.
SelectClosed(w) ==
    /\ pc[w] = "enter" /\ NoMoreJobs
    /\ Goto(w, "exited")
    /\ UNCHANGED memory

SelectRehold(w) ==
    /\ pc[w] = "enter" /\ ~NoMoreJobs /\ futex_selectorhold
    /\ Goto(w, "wait")
    /\ UNCHANGED memory

PastSelectHold(w) == pc[w] = "enter" /\ ~NoMoreJobs /\ ~futex_selectorhold

\* The job in slot j was installed before the one in slot i.
Before(j, i) == \E k \in DOMAIN queue : queue[k] = j /\ \A l \in 1 .. k : queue[l] # i

\* (HeadAgrees: the scan finds a job, the log_critf branches are not taken.)
Select(w) ==
    /\ PastSelectHold(w)
    /\ LET i == FirstFrom(jobacpt_next, Unowned)
       IN  /\ owner' = [owner EXCEPT ![i] = w]
           /\ jobpos' = [jobpos EXCEPT ![w] = i]
           /\ jobacpt_next' = NextSlot(i)
           /\ queue' = SelectSeq(queue, LAMBDA j : j # i)
           /\ overtaken' = [j \in Slots |-> IF Before(j, i) THEN overtaken[j] + 1
                                                            ELSE overtaken[j]]
    /\ newjobs' = newjobs - 1
    /\ futex_selectorhold' = Exhausted(newjobs')
    /\ Goto(w, "working")
    /\ UNCHANGED <<futex_status, emptyjobs, jobinst_next, futex_installerhold,
                   futex_hasjobs, jobtype, hostpc, installs>>

\* Mutant: the host is not woken by the last job.
HostSleepsOn == hostpc
HostAfterClose == IF emptyjobs' = jobc /\ hostpc = "asleep" THEN "joining" ELSE hostpc

\* execjob is over, whatever it did.
Close(w) ==
    /\ pc[w] = "working"
    /\ jobtype' = [jobtype EXCEPT ![jobpos[w]] = FALSE]
    /\ owner' = [owner EXCEPT ![jobpos[w]] = None]
    /\ emptyjobs' = emptyjobs + 1
    /\ futex_hasjobs' = (emptyjobs' # jobc)
    /\ hostpc' = HostAfterClose
    /\ futex_installerhold' = FALSE
    /\ IF futex_installerhold THEN WakeGoto(w, "wait", Handles, 1) ELSE Goto(w, "wait")
    /\ UNCHANGED <<futex_status, newjobs, jobinst_next, jobacpt_next,
                   futex_selectorhold, jobpos, installs, queue, overtaken>>
-----------------------------------------------------------------------------
(* edbs_host_init's last assignment; odb_host's way down *)

HostReady ==
    /\ hostpc = "init"
    /\ hostpc' = "up"
    /\ futex_selectorhold' = TRUE
    /\ UNCHANGED <<futex_status, newjobs, emptyjobs, jobinst_next, jobacpt_next,
                   futex_installerhold, futex_hasjobs, jobtype, owner, pc, jobpos,
                   installs, queue, overtaken>>

\* edbs_host_close up to the wait
HostClose ==
    /\ hostpc = "up" /\ Stops
    /\ hostpc' = "closing"
    /\ futex_status' = "STOPPED"
    /\ futex_selectorhold' = FALSE
    /\ futex_installerhold' = FALSE
    /\ pc' = [t \in Threads |-> IF pc[t] = "asleep" THEN "enter" ELSE pc[t]]
    /\ UNCHANGED <<newjobs, emptyjobs, jobinst_next, jobacpt_next, futex_hasjobs,
                   jobtype, owner, jobpos, installs, queue, overtaken>>

HostWait ==
    /\ hostpc = "closing"
    /\ hostpc' = IF futex_hasjobs THEN "asleep" ELSE "joining"
    /\ UNCHANGED <<head, jobtype, owner, pc, jobpos, installs, queue, overtaken>>

\* edbw_join of every worker
HostJoined ==
    /\ hostpc = "joining"
    /\ \A w \in Workers : pc[w] = "exited"
    /\ hostpc' = "down"
    /\ UNCHANGED <<head, jobtype, owner, pc, jobpos, installs, queue, overtaken>>
-----------------------------------------------------------------------------
\* As edbs_host_init leaves the head, but for its last assignment.
Init ==
    /\ futex_status = "RUNNING"
    /\ newjobs = 0 /\ emptyjobs = jobc
    /\ jobinst_next = 0 /\ jobacpt_next = 0
    /\ futex_selectorhold = FALSE
    /\ futex_installerhold = FALSE
    /\ futex_hasjobs = FALSE
    /\ jobtype = [i \in Slots |-> FALSE]
    /\ owner = [i \in Slots |-> None]
    /\ pc = [t \in Threads |-> "idle"]
    /\ jobpos = [w \in Workers |-> 0]
    /\ hostpc = "init"
    /\ installs = [h \in Handles |-> 0]
    /\ queue = <<>>
    /\ overtaken = [i \in Slots |-> 0]

InstallStep(h) == \/ InstallWait(h) \/ InstallClosed(h)
                  \/ InstallRehold(h) \/ Install(h)
SelectStep(w)  == \/ WorkerStart(w) \/ SelectWait(w) \/ SelectClosed(w)
                  \/ SelectRehold(w) \/ Select(w)
HostStep       == HostReady \/ HostWait \/ HostJoined

Next ==
    \/ \E h \in Handles : InstallCall(h) \/ InstallStep(h)
    \/ \E w \in Workers : SelectStep(w) \/ Close(w)
    \/ HostStep \/ HostClose

Spec == Init /\ [][Next]_vars

\* Threads that can run do run; whether a handle calls, how long a job takes
\* and whether the host is stopped is up to their users.
RunSpec == /\ Spec
           /\ \A h \in Handles : WF_vars(InstallStep(h))
           /\ \A w \in Workers : WF_vars(SelectStep(w))
           /\ WF_vars(HostStep)

\* Moreover, every job comes to its end.
FairSpec == RunSpec /\ \A w \in Workers : WF_vars(Close(w))
-----------------------------------------------------------------------------
\* The indices stay within the ring and the counts within its size.
RingTypeOK ==
    /\ futex_status \in {"RUNNING", "STOPPED"}
    /\ newjobs \in 0 .. jobc /\ emptyjobs \in 0 .. jobc
    /\ jobinst_next \in Slots /\ jobacpt_next \in Slots
    /\ {futex_selectorhold, futex_installerhold, futex_hasjobs} \subseteq BOOLEAN
    /\ jobtype \in [Slots -> BOOLEAN]
    /\ owner \in [Slots -> Workers \cup {None}]
    /\ pc \in [Threads -> {"idle", "wait", "asleep", "enter", "refused",
                           "working", "exited"}]
    /\ jobpos \in [Workers -> Slots]
    /\ hostpc \in {"init", "up", "closing", "asleep", "joining", "down"}
    /\ installs \in [Handles -> Nat]
    /\ overtaken \in [Slots -> Nat]

TypeOK == RingTypeOK /\ queue \in Seq(Slots)

\* The head agrees with the slots, as the comments of edbs_shmhead_t say: the
\* two counts count, a hold is set exactly when there is nothing to take while
\* the host runs, and futex_hasjobs tells whether any slot is in use.  So
\* edbs_jobselect and edbs_jobinstall never come past their holds to find nothing
\* ("although newjobs was at least 1, an open job was not found"), and a worker at
\* work is the owner of its job.
HeadAgrees ==
    /\ emptyjobs = Cardinality(Empty)
    /\ newjobs = Cardinality(Unowned)
    /\ futex_hasjobs = (emptyjobs # jobc)
    /\ futex_status = "RUNNING" =>
         /\ futex_installerhold = (emptyjobs = 0)
         /\ hostpc # "init" => futex_selectorhold = (newjobs = 0)
    /\ \A w \in Workers : PastSelectHold(w) => Unowned # {}
    /\ \A h \in Handles : PastInstallHold(h) => Empty # {}
    /\ \A w \in Workers : pc[w] = "working" =>
         jobtype[jobpos[w]] /\ owner[jobpos[w]] = w

\* A job is overtaken by fewer jobs than the ring has slots.
BoundedOvertaking == \A i \in Unowned : overtaken[i] < jobc

\* Every job that is installed is executed and closed.
JobsServed == \A i \in Slots : jobtype[i] ~> ~jobtype[i]

\* "If any job transfer buffers are in use, edbs_host_close will block until
\* they are closed naturally": and then it returns.
HostCloseReturns == hostpc = "closing" ~> hostpc \in {"joining", "down"}

\* edbs_jobselect "will only block so long that the host of the shm is running
\* and accepting jobs": the workers can be joined.
WorkersJoin == hostpc = "closing" ~> hostpc = "down"

\* "If there's no open spots in the job buffer we wait": an installer does not
\* wait for ever while slots are empty.
InstallReturns == \A h \in Handles : pc[h] = "wait" ~> pc[h] \in {"idle", "refused"}

\* edbs_jobselect blocks "until there is one": no worker sleeps for ever while
\* jobs wait.
SelectorsWake ==
    \A w \in Workers :
      (pc[w] = "asleep" /\ newjobs > 0) ~> (pc[w] # "asleep" \/ newjobs = 0)
=============================================================================
