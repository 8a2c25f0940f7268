----------------------------- MODULE JobProtocol -----------------------------
(***************************************************************************)
(* What a handle (edbh*.c) and a worker (edbw*.c) say to each other over   *)
(* the transfer buffer of one job slot, job after job.  Each kind of job   *)
(* is two scripts of reads and writes, one for each side, translated from  *)
(* the function of the handle and the function of the worker; the messages *)
(* are reduced to their sizes, and what the worker does to the database to *)
(* whether it succeeds or dies with an error.                              *)
(***************************************************************************)
EXTENDS JobPipe, Sequences

CONSTANTS
    Jobs,       \* the kinds of job the handles install
    ObjSize,    \* bytes of a user object, and of a structure's configuration
    Records,    \* records that a download sends
    Crashes     \* whether a handle's process may be killed

ASSUME JobProtocolAssumption ==
    /\ Jobs \subseteq {"JALLOC", "JFREE", "JWRITE", "JREAD", "JSELECT", "JUPDATE",
                       "JSTKCREATE", "JSTKDELETE", "JSTKDOWNLOAD",
                       "JENTCREATE", "JENTDELETE", "JENTDOWNLOAD"}
    /\ ObjSize \in Nat \ {0}
    /\ Records \in Nat
    /\ Crashes \in BOOLEAN
    /\ \E w \in Executors : Executors = {w}   \* the worker that owns the slot

VARIABLES
    slot,       \* edbs_shmjob_t: "empty", "installed" (no owner) or "owned"
    jobtype,    \* jobtype
    holder,     \* the handle whose job is, or was last, in the slot
    hjob,       \* the job a handle is in
    hpos,       \* the next item of its script; 0: in no job
    dieerr,     \* the error a handle has read
    result,     \* ret.err of the handle's job
    wpos,       \* the next item of the worker's script; 0: in no job
    \* history
    verdict,    \* how the worker has decided each handle's job
    intruded    \* handles that have moved bytes of another handle's job

slotVars   == <<slot, jobtype, holder>>
handleVars == <<hjob, hpos, dieerr, result>>
protVars   == <<slotVars, handleVars, wpos, verdict, intruded>>
allVars    == <<vars, protVars>>
-----------------------------------------------------------------------------
(* The scripts.  W: jobwrite, R: jobread, E: the jobread of the error, M: a   *)
(* later pair of the jobreadv that starts with it, D: the worker may send a   *)
(* die-error and leave, U: a jobread whose result the worker ignores.         *)

W(n) == [op |-> "write", n |-> n]
R(n) == [op |-> "read", n |-> n]
E    == [op |-> "error", n |-> 1]
M(n) == [op |-> "more", n |-> n]
D    == [op |-> "die", n |-> 1]
U(n) == [op |-> "payload", n |-> n]

\* edbh.c, edbh-stk.c, edbh-ent.c
odbh_jobj_alloc    == <<W(1), W(1), W(ObjSize), E, M(1)>>
odbh_jobj_free     == <<W(1), E>>
odbh_jobj_write    == <<W(1), W(1), W(ObjSize), E>>
odbh_jobj_read     == <<W(1), W(1), E, M(ObjSize)>>
odbh_jobj_cb       == <<W(1), W(1), W(1), E>>
odbh_jstk_create   == <<W(1), W(ObjSize), E, M(1)>>
odbh_jstk_free     == <<W(1), E>>
odbh_jstk_download == <<W(1), E, M(1)>> \o [i \in 1 .. Records |-> R(1)]
odbh_jent_create   == <<W(1), E, M(1)>>
odbh_jent_free     == <<W(1), E>>
odbh_jent_download == <<W(1), E, M(1)>> \o [i \in 1 .. Records |-> R(1)]

HandleScript(j) ==
    CASE j = "JALLOC"       -> odbh_jobj_alloc
      [] j = "JFREE"        -> odbh_jobj_free
      [] j = "JWRITE"       -> odbh_jobj_write
      [] j = "JREAD"        -> odbh_jobj_read
      [] j \in {"JSELECT", "JUPDATE"} -> odbh_jobj_cb
      [] j = "JSTKCREATE"   -> odbh_jstk_create
      [] j = "JSTKDELETE"   -> odbh_jstk_free
      [] j = "JSTKDOWNLOAD" -> odbh_jstk_download
      [] j = "JENTCREATE"   -> odbh_jent_create
      [] j = "JENTDELETE"   -> odbh_jent_free
      [] j = "JENTDOWNLOAD" -> odbh_jent_download

\* The records of a download; edbs_jobwrite returns at once when there are none.
Stream == IF Records = 0 THEN <<>> ELSE <<W(Records)>>

\* edbw-objs.c, edbw-struct.c, edbw-ent.c
jalloc      == <<R(1), R(1), D, U(ObjSize), W(1), W(1)>>
jfree       == <<R(1), D, W(1)>>
jwrite      == <<R(1), R(1), D, U(ObjSize), W(1)>>
jread       == <<R(1), R(1), D, W(1), W(ObjSize)>>
jupdateselect == <<R(1), R(1), R(1), R(1), D, W(1)>>
stkcreate   == <<R(1), D, U(ObjSize), W(1), W(1)>>
stkdelete   == <<R(1), D, W(1)>>
stkdownload == <<R(1), D, W(1), W(1)>> \o Stream
entcreate   == <<R(1), D, W(1), W(1)>>
entdelete   == <<R(1), D, W(1)>>
entdownload == <<R(1), D, W(1), W(1)>> \o Stream

\* execjob
WorkerScript(j) ==
    CASE j = "JALLOC"       -> jalloc
      [] j = "JFREE"        -> jfree
      [] j = "JWRITE"       -> jwrite
      [] j = "JREAD"        -> jread
      [] j \in {"JSELECT", "JUPDATE"} -> jupdateselect
      [] j = "JSTKCREATE"   -> stkcreate
      [] j = "JSTKDELETE"   -> stkdelete
      [] j = "JSTKDOWNLOAD" -> stkdownload
      [] j = "JENTCREATE"   -> entcreate
      [] j = "JENTDELETE"   -> entdelete
      [] j = "JENTDOWNLOAD" -> entdownload

HandleItem(h) == HandleScript(hjob[h])[hpos[h]]
WorkerItem    == WorkerScript(jobtype)[wpos]
-----------------------------------------------------------------------------
(* The handle *)

\* edbs_jobinstall
Install(h, j) ==
    /\ pc[h] = "idle" /\ hpos[h] = 0
    /\ slot = "empty"
    /\ slot' = "installed" /\ jobtype' = j /\ holder' = h
    /\ hjob' = [hjob EXCEPT ![h] = j]
    /\ hpos' = [hpos EXCEPT ![h] = 1]
    /\ dieerr' = [dieerr EXCEPT ![h] = "none"]
    /\ result' = [result EXCEPT ![h] = "none"]
    /\ verdict' = [verdict EXCEPT ![h] = "none"]
    /\ intruded' = intruded \ {h}
    /\ Reset
    /\ UNCHANGED wpos

HandleCall(h) ==
    /\ hpos[h] # 0 /\ ret[h] = "none"
    /\ IF HandleItem(h).op = "write"
       THEN InstallerWrite(h, HandleItem(h).n)
       ELSE JobRead(h, HandleItem(h).n)
    /\ UNCHANGED protVars

HandleStep(h) ==
    /\ CallStep(h)
    /\ intruded' = IF bytes' # bytes /\ holder # h THEN intruded \cup {h} ELSE intruded
    /\ UNCHANGED <<slotVars, handleVars, wpos, verdict>>

\* edbs_joberr_trunc
Trunc(err) == IF err = "EPIPE" THEN err ELSE "ECRIT"

HandleReturn(h, err) ==
    /\ hpos' = [hpos EXCEPT ![h] = 0]
    /\ result' = [result EXCEPT ![h] = err]

\* Mutant: edbs_jobreadv returns ODB_EEOF for the later pairs too.
NotForgiven(item, err) == FALSE
\* edbs_jobreadv: the end of the stream is an error for the first pair only.
Forgiven(item, err) == item.op = "more" /\ err = "EEOF"

\* The jobreadv of which the handle has just finished a pair has another one.
InReadv(h) == /\ hpos[h] < Len(HandleScript(hjob[h]))
              /\ HandleScript(hjob[h])[hpos[h] + 1].op = "more"

\* What the handle does with the answer of a call.
HandleGoesOn(h) ==
    /\ hpos[h] # 0 /\ pc[h] = "idle" /\ ret[h] # "none"
    /\ LET item == HandleItem(h)
           read == IF item.op # "error" THEN dieerr[h]
                   ELSE IF h \in intruded THEN "garbage" ELSE verdict[h]
       IN  \/ /\ ret[h] # "OK" /\ ~Forgiven(item, ret[h])
              /\ HandleReturn(h, Trunc(ret[h]))
              /\ UNCHANGED dieerr
           \/ /\ ret[h] = "OK" \/ Forgiven(item, ret[h])
              /\ dieerr' = [dieerr EXCEPT ![h] = read]
              /\ IF InReadv(h) \/ (read \in {"none", "OK"} /\ hpos[h] < Len(HandleScript(hjob[h])))
                 THEN hpos' = [hpos EXCEPT ![h] = @ + 1] /\ UNCHANGED result
                 ELSE HandleReturn(h, read)
    /\ ret' = [ret EXCEPT ![h] = "none"]
    /\ UNCHANGED <<flags, pipeVars, pipemutex, pc, op, count, total, loaded>>
    /\ UNCHANGED <<slotVars, hjob, wpos, verdict, intruded>>

\* odb_handleclose
HandleClose(h) ==
    /\ pc[h] = "idle" /\ hpos[h] = 0
    /\ Goto(h, "gone")
    /\ UNCHANGED <<flags, pipeVars, pipemutex, op, count, total, loaded, ret, protVars>>

\* The process of the handle is killed, between any two steps of its calls.
HandleDies(h) ==
    /\ Crashes /\ pc[h] \notin {"gone", "dead"}
    /\ Goto(h, "dead")
    /\ UNCHANGED <<flags, pipeVars, pipemutex, op, count, total, loaded, ret, protVars>>
-----------------------------------------------------------------------------
(* The worker *)

\* edbs_jobselect
Select(w) ==
    /\ wpos = 0 /\ pc[w] = "idle"
    /\ slot = "installed"
    /\ slot' = "owned"
    /\ wpos' = 1
    /\ ret' = [ret EXCEPT ![w] = "none"]
    /\ UNCHANGED <<flags, pipeVars, pipemutex, pc, op, count, total, loaded>>
    /\ UNCHANGED <<jobtype, holder, handleVars, verdict, intruded>>

\* Past the last item: edbs_jobclose.
Closing == wpos > Len(WorkerScript(jobtype))

\* The next call; a die-error is a write after which the worker leaves.
WorkerCall(w) ==
    /\ wpos # 0 /\ ret[w] = "none" /\ pc[w] = "idle"
    /\ \/ /\ Closing
          /\ ExecutorTerm(w)
          /\ UNCHANGED protVars
       \/ /\ ~Closing /\ WorkerItem.op \in {"read", "payload"}
          /\ Read(w, WorkerItem.n)
          /\ UNCHANGED protVars
       \/ /\ ~Closing /\ WorkerItem.op = "write"
          /\ ExecutorWrite(w, WorkerItem.n)
          /\ UNCHANGED protVars
       \/ /\ ~Closing /\ WorkerItem.op = "die"
          /\ ExecutorWrite(w, 1)
          /\ verdict' = [verdict EXCEPT ![holder] = "EDIE"]
          /\ UNCHANGED <<slotVars, handleVars, wpos, intruded>>

\* The database did what was asked.
WorkerSucceeds(w) ==
    /\ wpos # 0 /\ ret[w] = "none" /\ pc[w] = "idle"
    /\ ~Closing /\ WorkerItem.op = "die"
    /\ verdict' = [verdict EXCEPT ![holder] = "OK"]
    /\ wpos' = wpos + 1
    /\ UNCHANGED <<vars, slotVars, handleVars, intruded>>

WorkerStep(w) == CallStep(w) /\ UNCHANGED protVars

\* Only the reads of the request are checked; what the other calls return is not.
Leaves(w) == WorkerItem.op = "die" \/ (WorkerItem.op = "read" /\ ret[w] # "OK")

WorkerGoesOn(w) ==
    /\ wpos # 0 /\ pc[w] = "idle" /\ ret[w] # "none" /\ ~Closing
    /\ wpos' = IF Leaves(w) THEN Len(WorkerScript(jobtype)) + 1 ELSE wpos + 1
    /\ ret' = [ret EXCEPT ![w] = "none"]
    /\ UNCHANGED <<flags, pipeVars, pipemutex, pc, op, count, total, loaded>>
    /\ UNCHANGED <<slotVars, handleVars, verdict, intruded>>

TypeCleared == "none"

\* edbs_jobclose, after edbs_jobterm
Close(w) ==
    /\ wpos # 0 /\ pc[w] = "idle" /\ ret[w] # "none" /\ Closing
    /\ slot' = "empty" /\ jobtype' = TypeCleared
    /\ wpos' = 0
    /\ ret' = [ret EXCEPT ![w] = "none"]
    /\ UNCHANGED <<flags, pipeVars, pipemutex, pc, op, count, total, loaded>>
    /\ UNCHANGED <<holder, handleVars, verdict, intruded>>
-----------------------------------------------------------------------------
Init ==
    /\ PipeInit
    /\ slot = "empty" /\ jobtype = "none" /\ holder = "none"
    /\ hjob = [h \in Installers |-> "none"]
    /\ hpos = [h \in Installers |-> 0]
    /\ dieerr = [h \in Installers |-> "none"]
    /\ result = [h \in Installers |-> "none"]
    /\ wpos = 0
    /\ verdict = [h \in Installers |-> "none"]
    /\ intruded = {}

HandleRuns(h) == HandleCall(h) \/ HandleStep(h) \/ HandleGoesOn(h)
WorkerRuns(w) == \/ Select(w) \/ WorkerCall(w) \/ WorkerSucceeds(w)
                 \/ WorkerStep(w) \/ WorkerGoesOn(w) \/ Close(w)

Next ==
    \/ \E h \in Installers : \/ \E j \in Jobs : Install(h, j)
                             \/ HandleRuns(h)
                             \/ HandleClose(h) \/ HandleDies(h)
    \/ \E w \in Executors : WorkerRuns(w)

Spec == Init /\ [][Next]_allVars

\* Every thread that can go on with the call it is in does so.  Handles need
\* not install jobs.
FairSpec == /\ Spec
            /\ \A h \in Installers : WF_allVars(HandleRuns(h))
            /\ \A w \in Executors : WF_allVars(WorkerRuns(w))
-----------------------------------------------------------------------------
\* The job in the slot, its worker and its handle agree on where they are.
ProtTypeOK ==
    /\ slot \in {"empty", "installed", "owned"}
    /\ slot = "owned" <=> wpos # 0
    /\ slot = "empty" <=> jobtype = "none"
    /\ jobtype \in Jobs \cup {"none"}
    /\ holder \in Installers \cup {"none"}
    /\ \A h \in Installers :
         /\ hpos[h] # 0 => hjob[h] \in Jobs /\ hpos[h] \in DOMAIN HandleScript(hjob[h])
         /\ result[h] \in {"none", "OK", "EDIE", "garbage", "ECRIT", "EPIPE"}
         /\ verdict[h] \in {"none", "OK", "EDIE"}
    /\ wpos # 0 => wpos <= Len(WorkerScript(jobtype)) + 1

\* What odbh_j* returns is what the worker has decided: the die-error the
\* worker has sent, or success when it has done the job, and never a broken
\* stream ("The handle ... [[Die-Error]]: See Errors" of spec/v0/jobs.org).
ResultTold == \A h \in Installers : result[h] # "none" => result[h] = verdict[h]

\* A handle moves only the bytes of its own job: a slot is not given to the
\* next job while the handle of the last one still uses it.
OwnJobOnly == intruded = {}

\* Every job a handle installs is answered, also when other handles are killed:
\* odbh_j* returns, and unless its handle was killed the worker closes the job and
\* the slot is empty again.
JobEnds ==
    /\ \A h \in Installers : hpos[h] # 0 ~> hpos[h] = 0 \/ pc[h] = "dead"
    /\ slot # "empty" ~> slot = "empty" \/ pc[holder] = "dead"

\* The job of a handle that was killed ends too: "ODB_ECRIT - the pipe was broken
\* for unexpected reasons (ie: other side no longer responding...)".
OrphansEnd == slot # "empty" ~> slot = "empty"
=============================================================================
