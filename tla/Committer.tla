----------------------------- MODULE Committer -----------------------------
(***************************************************************************)
(* How a node decides when to apply its transaction logs                   *)
(* (mdv_core/mdv_committer.c).  Appending to a log publishes a unique      *)
(* TRLOG_CHANGED event.  A worker of the event bus hands it to the         *)
(* committer, which counts it in the log's requests and emits a job when   *)
(* the count was zero.  The job applies the log until the count stops      *)
(* changing.  A log is abstracted to its two positions: TrLog says what    *)
(* happens inside an append and inside one application.                    *)
(***************************************************************************)
EXTENDS Integers

CONSTANTS Logs,        \* transaction logs of this node
          EbusWorkers, \* worker threads of the event bus
          JobWorkers,  \* worker threads of the committer's jobber
          BatchSize,   \* MDV_CONFIG.committer.batch_size
          MaxTop,      \* bound on appends to a log, for model checking
          MaxFail      \* bound on failed allocations, pushes and callbacks

ASSUME CommitterAssumption == /\ Logs # {}
                              /\ BatchSize \in Nat \ {0}
                              /\ MaxTop \in Nat
                              /\ MaxFail \in Nat

VARIABLES
  top,        \* per log: position after the last committed operation
  applied,    \* per log: the applied position
  notifying,  \* per log: appends committed but not announced yet
  queued,     \* logs with a TRLOG_CHANGED event in the queues of the bus
  hpc, hlog,  \* per bus worker: step of mdv_committer_start, its log
  requests,   \* per log: commit requests counter
  jobs,       \* per log: jobs in the queues of the jobber
  jpc, jlog,  \* per job worker: step of mdv_committer_fn, its log
  jreq,       \* per job worker: the local variable requests
  jfrom, jto, \* per job worker: the positions between which it applies
  fails       \* failures so far

logVars     == <<top, applied>>
handlerVars == <<notifying, queued, hpc, hlog>>
jobVars     == <<jobs, jpc, jlog, jreq, jfrom, jto>>
vars        == <<logVars, handlerVars, requests, jobVars, fails>>

HandlerSteps == {"idle", "start", "emit"}
JobSteps     == {"idle", "load", "apply", "store", "cas"}

Init ==
  /\ top = [l \in Logs |-> 0]
  /\ applied = [l \in Logs |-> 0]
  /\ notifying = [l \in Logs |-> 0]
  /\ queued = {}
  /\ hpc = [e \in EbusWorkers |-> "idle"]
  /\ hlog = [e \in EbusWorkers |-> CHOOSE l \in Logs : TRUE]
  /\ requests = [l \in Logs |-> 0]
  /\ jobs = [l \in Logs |-> 0]
  /\ jpc = [j \in JobWorkers |-> "idle"]
  /\ jlog = [j \in JobWorkers |-> CHOOSE l \in Logs : TRUE]
  /\ jreq = [j \in JobWorkers |-> 0]
  /\ jfrom = [j \in JobWorkers |-> 0]
  /\ jto = [j \in JobWorkers |-> 0]
  /\ fails = 0

-----------------------------------------------------------------------------
\* mdv_trlog_add_op or mdv_trlog_add commits.
AddOp(l) ==
  /\ top[l] < MaxTop
  /\ top' = [top EXCEPT ![l] = @ + 1]
  /\ notifying' = [notifying EXCEPT ![l] = @ + 1]
  /\ UNCHANGED <<applied, queued, hpc, hlog, requests, jobVars, fails>>

\* mdv_trlog_changed_notify: the event is unique among the events of its type, so
\* it is dropped while any TRLOG_CHANGED event is queued.
Notify(l) ==
  /\ notifying[l] > 0
  /\ notifying' = [notifying EXCEPT ![l] = @ - 1]
  /\ queued' = IF queued = {} THEN {l} ELSE queued
  /\ UNCHANGED <<logVars, hpc, hlog, requests, jobVars, fails>>

\* A worker of the bus pops the event and calls the committer's handler.
Pop(e) ==
  /\ hpc[e] = "idle"
  /\ \E l \in queued :
       /\ queued' = queued \ {l}
       /\ hlog' = [hlog EXCEPT ![e] = l]
  /\ hpc' = [hpc EXCEPT ![e] = "start"]
  /\ UNCHANGED <<logVars, notifying, requests, jobVars, fails>>

\* Mutant: every request emits a job.
StartMut(e) ==
  /\ hpc[e] = "start"
  /\ requests' = [requests EXCEPT ![hlog[e]] = @ + 1]
  /\ hpc' = [hpc EXCEPT ![e] = "emit"]
  /\ UNCHANGED <<logVars, notifying, queued, hlog, jobVars, fails>>

\* mdv_committer_start: the request is counted; the first one emits a job.
Start(e) ==
  /\ hpc[e] = "start"
  /\ LET l == hlog[e] IN
       /\ requests' = [requests EXCEPT ![l] = @ + 1]
       /\ hpc' = [hpc EXCEPT ![e] = IF requests[l] = 0 THEN "emit" ELSE "idle"]
  /\ UNCHANGED <<logVars, notifying, queued, hlog, jobVars, fails>>

\* mdv_committer_job_emit pushes the job.
Emit(e) ==
  /\ hpc[e] = "emit"
  /\ jobs' = [jobs EXCEPT ![hlog[e]] = @ + 1]
  /\ hpc' = [hpc EXCEPT ![e] = "idle"]
  /\ UNCHANGED <<logVars, notifying, queued, hlog, requests, jpc, jlog, jreq, jfrom, jto, fails>>

\* It fails: no memory, or the jobber's queue is full.  The count stays.
EmitFail(e) ==
  /\ hpc[e] = "emit"
  /\ fails < MaxFail
  /\ fails' = fails + 1
  /\ hpc' = [hpc EXCEPT ![e] = "idle"]
  /\ UNCHANGED <<logVars, notifying, queued, hlog, requests, jobVars>>

-----------------------------------------------------------------------------
\* A worker of the jobber takes a job.
Take(j) ==
  /\ jpc[j] = "idle"
  /\ \E l \in Logs :
       /\ jobs[l] > 0
       /\ jobs' = [jobs EXCEPT ![l] = @ - 1]
       /\ jlog' = [jlog EXCEPT ![j] = l]
  /\ jpc' = [jpc EXCEPT ![j] = "load"]
  /\ UNCHANGED <<logVars, handlerVars, requests, jreq, jfrom, jto, fails>>

\* mdv_committer_fn loads the count.
Load(j) ==
  /\ jpc[j] = "load"
  /\ jreq' = [jreq EXCEPT ![j] = requests[jlog[j]]]
  /\ jpc' = [jpc EXCEPT ![j] = "apply"]
  /\ UNCHANGED <<logVars, handlerVars, requests, jobs, jlog, jfrom, jto, fails>>

\* No memory for the TRLOG_APPLY event: the job ends and the count stays.
NoMemory(j) ==
  /\ jpc[j] = "apply"
  /\ fails < MaxFail
  /\ fails' = fails + 1
  /\ jpc' = [jpc EXCEPT ![j] = "idle"]
  /\ UNCHANGED <<logVars, handlerVars, requests, jobs, jlog, jreq, jfrom, jto>>

\* TRLOG_APPLY is published synchronously: mdv_trlog_apply reads a batch that
\* starts at the applied position.  The batch ends early where a callback fails.
ApplyBatch(j) ==
  /\ jpc[j] = "apply"
  /\ LET l == jlog[j] IN
       /\ jfrom' = [jfrom EXCEPT ![j] = applied[l]]
       /\ \E end \in applied[l] .. top[l] :
            /\ end <= applied[l] + BatchSize
            /\ jto' = [jto EXCEPT ![j] = end]
            /\ \/ (end = top[l] \/ end = applied[l] + BatchSize) /\ UNCHANGED fails
               \/ /\ end < top[l] /\ end < applied[l] + BatchSize
                  /\ fails < MaxFail /\ fails' = fails + 1
  /\ jpc' = [jpc EXCEPT ![j] = "store"]
  /\ UNCHANGED <<logVars, handlerVars, requests, jobs, jlog, jreq>>

\* Mutant: one batch only.
ApplyStoreMut(j) ==
  /\ jpc[j] = "store"
  /\ applied' = [applied EXCEPT ![jlog[j]] = jto[j]]
  /\ jpc' = [jpc EXCEPT ![j] = "cas"]
  /\ UNCHANGED <<top, handlerVars, requests, jobs, jlog, jreq, jfrom, jto, fails>>

\* The new position is stored; mdv_tablespace_log_apply goes on after a full batch.
ApplyStore(j) ==
  /\ jpc[j] = "store"
  /\ applied' = [applied EXCEPT ![jlog[j]] = jto[j]]
  /\ jpc' = [jpc EXCEPT ![j] = IF jto[j] - jfrom[j] >= BatchSize THEN "apply" ELSE "cas"]
  /\ UNCHANGED <<top, handlerVars, requests, jobs, jlog, jreq, jfrom, jto, fails>>

\* Mutant: the count is reset whatever it is.
ResetMut(j) ==
  /\ jpc[j] = "cas"
  /\ requests' = [requests EXCEPT ![jlog[j]] = 0]
  /\ jpc' = [jpc EXCEPT ![j] = "idle"]
  /\ UNCHANGED <<logVars, handlerVars, jobs, jlog, jreq, jfrom, jto, fails>>

\* The count is reset if it did not change since it was loaded, and the job ends;
\* otherwise the new count is loaded and the log is applied again.
Reset(j) ==
  /\ jpc[j] = "cas"
  /\ LET l == jlog[j] IN
       IF requests[l] = jreq[j]
         THEN /\ requests' = [requests EXCEPT ![l] = 0]
              /\ jpc' = [jpc EXCEPT ![j] = "idle"]
              /\ UNCHANGED jreq
         ELSE /\ jreq' = [jreq EXCEPT ![j] = requests[l]]
              /\ jpc' = [jpc EXCEPT ![j] = "apply"]
              /\ UNCHANGED requests
  /\ UNCHANGED <<logVars, handlerVars, jobs, jlog, jfrom, jto, fails>>

-----------------------------------------------------------------------------
BusStep(e) == Pop(e) \/ Start(e) \/ Emit(e)
JobStep(j) == Take(j) \/ Load(j) \/ ApplyBatch(j) \/ ApplyStore(j) \/ Reset(j)

Next ==
  \/ \E l \in Logs : AddOp(l) \/ Notify(l)
  \/ \E e \in EbusWorkers : BusStep(e) \/ EmitFail(e)
  \/ \E j \in JobWorkers : JobStep(j) \/ NoMemory(j)

\* Every thread keeps running: writers announce what they committed, and the
\* workers of the bus and of the jobber are threads that poll their queues.
Fairness ==
  /\ \A l \in Logs : WF_vars(Notify(l))
  /\ \A e \in EbusWorkers : WF_vars(BusStep(e))
  /\ \A j \in JobWorkers : WF_vars(JobStep(j))

Spec     == Init /\ [][Next]_vars
FairSpec == Spec /\ Fairness

-----------------------------------------------------------------------------
TypeOK ==
  /\ top \in [Logs -> Nat] /\ applied \in [Logs -> Nat]
  /\ notifying \in [Logs -> Nat]
  /\ queued \subseteq Logs
  /\ hpc \in [EbusWorkers -> HandlerSteps] /\ hlog \in [EbusWorkers -> Logs]
  /\ requests \in [Logs -> Nat] /\ jobs \in [Logs -> Nat]
  /\ jpc \in [JobWorkers -> JobSteps] /\ jlog \in [JobWorkers -> Logs]
  /\ jreq \in [JobWorkers -> Nat]
  /\ jfrom \in [JobWorkers -> Nat] /\ jto \in [JobWorkers -> Nat]
  /\ fails \in Nat

Emitting(e, l) == hpc[e] = "emit" /\ hlog[e] = l
Running(j, l)  == jpc[j] # "idle" /\ jlog[j] = l

\* No two jobs ever apply the same log, and none is queued or about to be emitted
\* while one runs: the count of requests is the lock of the log.  TrLog rests on it.
SingleApplier ==
  \A l \in Logs :
    /\ jobs[l] <= 1
    /\ \A j, k \in JobWorkers : Running(j, l) /\ Running(k, l) => j = k
    /\ \A e, f \in EbusWorkers : Emitting(e, l) /\ Emitting(f, l) => e = f
    /\ \A j \in JobWorkers, e \in EbusWorkers : ~(Running(j, l) /\ Emitting(e, l))
    /\ jobs[l] = 1 => /\ \A j \in JobWorkers : ~Running(j, l)
                      /\ \A e \in EbusWorkers : ~Emitting(e, l)

\* The applied position of a log never moves back and never passes its top, although
\* it is a plain store of a position computed from an earlier read.
AppliedForward ==
  [][\A l \in Logs : applied[l] <= applied'[l] /\ applied'[l] <= top'[l]]_vars

\* Nothing that concerns log l is under way.
Quiet(l) ==
  /\ notifying[l] = 0
  /\ l \notin queued
  /\ \A e \in EbusWorkers : hlog[e] = l => hpc[e] = "idle"
  /\ requests[l] = 0

\* A wake-up is never lost between the job's last look at the log and the reset of
\* the count: when all is quiet and no failure happened, the log has been applied.
NoLostWakeup == \A l \in Logs : Quiet(l) /\ fails = 0 => applied[l] = top[l]

\* Every committed operation is eventually applied, unless a failure happens.
EventuallyApplied ==
  \A l \in Logs : \A n \in 1 .. MaxTop : top[l] >= n ~> applied[l] >= n \/ fails > 0
=============================================================================
