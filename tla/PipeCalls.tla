----------------------------- MODULE PipeCalls -----------------------------
(***************************************************************************)
(* JobPipe with users that make any calls in any order: what the transfer  *)
(* buffer guarantees whatever the two sides do with it, job after job.     *)
(***************************************************************************)
EXTENDS JobPipe

CONSTANT Counts     \* bound: the byte counts of the calls

ASSUME PipeCallsAssumption == Counts \subseteq Nat \ {0}

Call(t) ==
    \/ \E n \in Counts : InstallerWrite(t, n) \/ ExecutorWrite(t, n) \/ JobRead(t, n)
    \/ WriteRefused(t)
    \/ InstallerTerm(t) \/ InstallerTermLate(t) \/ ExecutorTerm(t)

\* The executor has closed the job, and the next one is installed.
Reinstall ==
    /\ "EXECUTERTERM" \in flags
    /\ \A t \in Threads : pc[t] = "idle"
    /\ Reset

CallsNext == (\E t \in Threads : Call(t) \/ CallStep(t)) \/ Reinstall

CallsSpec == PipeInit /\ [][CallsNext]_vars
-----------------------------------------------------------------------------
\* "edbs_jobterm will block until these stray bytes are read": once the executor
\* has terminated the job the pipe holds no byte of it, and it stays closed until
\* the slot is given to the next one ("the job buffer is fully closed"), although
\* transferbuff_FLAGS is read and written without a lock.
TermSticks ==
    [][ /\ Drained'
        /\ "EXECUTERTERM" \in flags => "EXECUTERTERM" \in flags' \/ Reinstall ]_vars
=============================================================================
