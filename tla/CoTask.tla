------------------------------- MODULE CoTask -------------------------------
(***************************************************************************)
(* The coroutines of the threads that run tasks (coroutine/coroutine.hpp,  *)
(* coroutine/co_linux_impl.hpp): each thread's table of coroutines, the    *)
(* pool of coroutines that wait for a task, and the list of resumes that   *)
(* other threads leave for it.                                             *)
(*                                                                         *)
(* A coroutine stands for its co_task_wrapper too: they are created        *)
(* together.  What a task does is the business of the module that composes *)
(* this one.  The lists of resumes are counts by coroutine: in which order *)
(* doThrResume takes them makes no difference to their owners.             *)
(***************************************************************************)
EXTENDS Integers

CONSTANTS
  Threads,  \* threads that run coroutines
  Jobs,     \* what a task may be working for
  MaxCo     \* model bound: coroutines of one thread

ASSUME MaxCoAssumption == MaxCo \in Nat

Ids == 0..(MaxCo - 1)
NoCo == -1        \* M_INVALID_COROUTINE_ID, as the int that resume() gets
Idle == "idle"    \* the coroutine is at the yield of _co_task_func_
ASSUME JobsAssumption == Idle \notin Jobs

VARIABLES
  nco,     \* _schedule_::_nco
  cur,     \* _schedule_::_curco
  status,  \* _coroutine_::_status, "none" for an empty entry of the table
  job,     \* whose task the coroutine is in
  free,    \* gfreecovec
  queued,  \* _queue_map[thread]
  tmp,     \* what doThrResume has taken from it and not resumed yet
  ub       \* a task was read through a pointer to a frame that is gone

covars == <<nco, cur, status, job, free, queued, tmp, ub>>

CoInit ==
  /\ nco = [t \in Threads |-> 0]
  /\ cur = [t \in Threads |-> NoCo]
  /\ status = [t \in Threads |-> [i \in Ids |-> "none"]]
  /\ job = [t \in Threads |-> [i \in Ids |-> Idle]]
  /\ free = [t \in Threads |-> {}]
  /\ queued = [t \in Threads |-> [i \in Ids |-> 0]]
  /\ tmp = [t \in Threads |-> [i \in Ids |-> 0]]
  /\ ub = FALSE

\* The thread is in its loop: in no coroutine and not in doThrResume.
InLoop(t) == cur[t] = NoCo /\ \A i \in Ids : tmp[t][i] = 0

\* doTask(func, p): a waiting coroutine, or a new one, starts on the task.
GetWrapper(t, i) ==
  \/ i \in free[t] /\ free' = [free EXCEPT ![t] = @ \ {i}] /\ UNCHANGED nco
  \/ /\ free[t] = {} /\ i = nco[t]
     /\ nco' = [nco EXCEPT ![t] = @ + 1]
     /\ UNCHANGED free
DoTask(t, i, j) ==
  /\ InLoop(t)
  /\ GetWrapper(t, i)
  /\ cur' = [cur EXCEPT ![t] = i]
  /\ status' = [status EXCEPT ![t][i] = "running"]
  /\ job' = [job EXCEPT ![t][i] = j]
  /\ UNCHANGED <<queued, tmp, ub>>

\* Coroutine::yield, back to the thread's loop.
Yield(t) ==
  /\ status' = [status EXCEPT ![t][cur[t]] = "suspend"]
  /\ cur' = [cur EXCEPT ![t] = NoCo]
  /\ UNCHANGED <<nco, job, free, queued, tmp, ub>>

\* The task returns to _co_task_func_, which puts the wrapper back and yields.
EndTask(t) ==
  /\ status' = [status EXCEPT ![t][cur[t]] = "suspend"]
  /\ job' = [job EXCEPT ![t][cur[t]] = Idle]
  /\ free' = [free EXCEPT ![t] = @ \cup {cur[t]}]
  /\ cur' = [cur EXCEPT ![t] = NoCo]
  /\ UNCHANGED <<nco, queued, tmp, ub>>

\* addResume(thrid, co_id).  A list for a thread that is none, and an id
\* below zero, have no effect: nobody takes the one, resume() ignores the
\* other.
AddResumeSuspended(t, i) ==  \* mutant: only a coroutine that has yielded is resumed
  queued' = IF t \in Threads /\ i \in Ids /\ status[t][i] = "suspend"
            THEN [queued EXCEPT ![t][i] = @ + 1] ELSE queued
AddResume(t, i) ==
  queued' = IF t \in Threads /\ i \in Ids THEN [queued EXCEPT ![t][i] = @ + 1]
                                          ELSE queued

\* doThrResume takes the whole list ...
DoThrResume(t) ==
  /\ InLoop(t)
  /\ tmp' = [tmp EXCEPT ![t] = queued[t]]
  /\ queued' = [queued EXCEPT ![t] = [i \in Ids |-> 0]]
  /\ UNCHANGED <<nco, cur, status, job, free, ub>>

\* ... and resumes one after the other.  A coroutine that waits for a task
\* goes round the loop of _co_task_func_ and reads *(wrapper->task), a
\* variable of the doTask that last used it.
ResumeNext(t, i) ==
  /\ cur[t] = NoCo /\ tmp[t][i] > 0
  /\ tmp' = [tmp EXCEPT ![t][i] = @ - 1]
  /\ LET wakes == status[t][i] = "suspend" /\ job[t][i] # Idle IN
     /\ status' = IF wakes THEN [status EXCEPT ![t][i] = "running"] ELSE status
     /\ cur' = IF wakes THEN [cur EXCEPT ![t] = i] ELSE cur
     /\ ub' = (ub \/ (status[t][i] = "suspend" /\ job[t][i] = Idle))
  /\ UNCHANGED <<nco, job, free, queued>>

CoTypeOK ==
  /\ nco \in [Threads -> 0..MaxCo]
  /\ cur \in [Threads -> Ids \cup {NoCo}]
  /\ status \in [Threads -> [Ids -> {"none", "running", "suspend"}]]
  /\ job \in [Threads -> [Ids -> Jobs \cup {Idle}]]
  /\ free \in [Threads -> SUBSET Ids]
  /\ queued \in [Threads -> [Ids -> Nat]]
  /\ tmp \in [Threads -> [Ids -> Nat]]
  /\ ub \in BOOLEAN
=============================================================================
