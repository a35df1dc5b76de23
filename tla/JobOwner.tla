------------------------------ MODULE JobOwner ------------------------------
(***************************************************************************)
(* The life of an object that handles events by emitting jobs: the         *)
(* committer, the fetcher, the syncer and a syncerlog (mdv_core).  It is   *)
(* reference counted; each job holds a reference and is counted in         *)
(* active_jobs.  The release that brings the count to zero runs the        *)
(* object's free function in the releasing thread: it unsubscribes from    *)
(* the event bus, waits for handlers under way, waits for active_jobs to   *)
(* be zero, and releases the jobber and the memory.                        *)
(***************************************************************************)
EXTENDS Integers, FiniteSets

CONSTANTS Handlers,        \* event bus workers
          JobWorkers,      \* workers of the jobber
          Main,            \* the thread that owns the first reference
          DecrementFirst,  \* a finished job decrements active_jobs, then releases
          OwnsPool,        \* the object has the only reference to the jobber
          JobQueueSize,    \* capacity of the jobber's queues
          MaxJobs          \* bound on the jobs emitted

ASSUME JobOwnerAssumption ==
  /\ IsFiniteSet(Handlers) /\ IsFiniteSet(JobWorkers)
  /\ Handlers \cap JobWorkers = {} /\ Main \notin Handlers \cup JobWorkers
  /\ DecrementFirst \in BOOLEAN
  /\ JobQueueSize \in Nat /\ MaxJobs \in Nat

VARIABLES
  rc,          \* references counter
  active,      \* active_jobs, an unsigned counter
  subscribed,  \* the bus calls the object's handlers
  hpc,         \* per handler: step of the handler and of job_emit
  queue,       \* jobs in the queues of the jobber
  jpc,         \* per job worker: step of the job
  released,    \* Main has released the object
  fpc,         \* per thread: step of the free function
  freed,       \* times that the object was freed
  emitted      \* jobs emitted so far

objectVars == <<rc, active, subscribed, hpc, queue, jpc, released, fpc, freed, emitted>>

Releasers == Handlers \cup JobWorkers \cup {Main}
NotFreeing(x) == fpc[x] \in {"no", "end"}

ObjectInit ==
  /\ rc = 1 /\ active = 0
  /\ subscribed = TRUE
  /\ hpc = [h \in Handlers |-> "idle"]
  /\ queue = 0
  /\ jpc = [j \in JobWorkers |-> "idle"]
  /\ released = FALSE
  /\ fpc = [x \in Releasers |-> "no"]
  /\ freed = 0
  /\ emitted = 0

\* mdv_committer_release
Release(x) ==
  /\ rc' = rc - 1
  /\ fpc' = IF rc = 1 THEN [fpc EXCEPT ![x] = "unsubscribe"] ELSE fpc

MainRelease ==
  /\ ~released
  /\ released' = TRUE
  /\ Release(Main)
  /\ UNCHANGED <<active, subscribed, hpc, queue, jpc, freed, emitted>>

-----------------------------------------------------------------------------
(* A handler that emits a job: mdv_committer_job_emit.                     *)

HandlerEnter(h) ==
  /\ subscribed
  /\ hpc[h] = "idle"
  /\ emitted < MaxJobs
  /\ emitted' = emitted + 1
  /\ hpc' = [hpc EXCEPT ![h] = "retain"]
  /\ UNCHANGED <<rc, active, subscribed, queue, jpc, released, fpc, freed>>

Retain(h) ==
  /\ hpc[h] = "retain"
  /\ rc' = rc + 1
  /\ hpc' = [hpc EXCEPT ![h] = "push"]
  /\ UNCHANGED <<active, subscribed, queue, jpc, released, fpc, freed, emitted>>

PushJob(h) ==
  /\ hpc[h] = "push"
  /\ queue < JobQueueSize
  /\ queue' = queue + 1
  /\ hpc' = [hpc EXCEPT ![h] = "count"]
  /\ UNCHANGED <<rc, active, subscribed, jpc, released, fpc, freed, emitted>>

\* The jobber's queue is full: the reference is released.
PushJobFail(h) ==
  /\ hpc[h] = "push"
  /\ queue = JobQueueSize
  /\ Release(h)
  /\ hpc' = [hpc EXCEPT ![h] = "leave"]
  /\ UNCHANGED <<active, subscribed, queue, jpc, released, freed, emitted>>

CountJob(h) ==
  /\ hpc[h] = "count"
  /\ active' = active + 1
  /\ hpc' = [hpc EXCEPT ![h] = "leave"]
  /\ UNCHANGED <<rc, subscribed, queue, jpc, released, fpc, freed, emitted>>

HandlerLeave(h) ==
  /\ hpc[h] = "leave"
  /\ NotFreeing(h)
  /\ hpc' = [hpc EXCEPT ![h] = "idle"]
  /\ UNCHANGED <<rc, active, subscribed, queue, jpc, released, fpc, freed, emitted>>

-----------------------------------------------------------------------------
(* A job.                                                                  *)

Take(j) ==
  /\ jpc[j] = "idle"
  /\ queue > 0
  /\ queue' = queue - 1
  /\ jpc' = [jpc EXCEPT ![j] = IF DecrementFirst THEN "decrement" ELSE "release"]
  /\ UNCHANGED <<rc, active, subscribed, hpc, released, fpc, freed, emitted>>

\* mdv_committer_finalize, mdv_fetcher_finalize: the release comes first;
\* mdv_syncer_data_save_finalize, mdv_syncerlog_data_send_finalize: it comes last.
JobRelease(j) ==
  /\ jpc[j] = "release"
  /\ Release(j)
  /\ jpc' = [jpc EXCEPT ![j] = IF DecrementFirst THEN "end" ELSE "decrement"]
  /\ UNCHANGED <<active, subscribed, hpc, queue, released, freed, emitted>>

\* Mutant: a finished job is not counted off.
JobDecrementMut(j) ==
  /\ jpc[j] = "decrement"
  /\ NotFreeing(j)
  /\ jpc' = [jpc EXCEPT ![j] = IF DecrementFirst THEN "release" ELSE "end"]
  /\ UNCHANGED <<rc, active, subscribed, hpc, queue, released, fpc, freed, emitted>>

JobDecrement(j) ==
  /\ jpc[j] = "decrement"
  /\ NotFreeing(j)
  /\ active' = active - 1
  /\ jpc' = [jpc EXCEPT ![j] = IF DecrementFirst THEN "release" ELSE "end"]
  /\ UNCHANGED <<rc, subscribed, hpc, queue, released, fpc, freed, emitted>>

JobEnd(j) ==
  /\ jpc[j] = "end"
  /\ NotFreeing(j)
  /\ jpc' = [jpc EXCEPT ![j] = "idle"]
  /\ UNCHANGED <<rc, active, subscribed, hpc, queue, released, fpc, freed, emitted>>

-----------------------------------------------------------------------------
(* mdv_committer_free, run by thread x.                                    *)

UnsubscribeObject(x) ==
  /\ fpc[x] = "unsubscribe"
  /\ subscribed' = FALSE
  /\ fpc' = [fpc EXCEPT ![x] = "handlers"]
  /\ UNCHANGED <<rc, active, hpc, queue, jpc, released, freed, emitted>>

\* mdv_ebus_unsubscribe returns when no handler runs, its caller's included.
HandlersLeft(x) ==
  /\ fpc[x] = "handlers"
  /\ \A h \in Handlers : hpc[h] = "idle"
  /\ fpc' = [fpc EXCEPT ![x] = "jobs"]
  /\ UNCHANGED <<rc, active, subscribed, hpc, queue, jpc, released, freed, emitted>>

\* Mutant: the free function does not wait for the jobs.
JobsDoneMut(x) ==
  /\ fpc[x] = "jobs"
  /\ fpc' = [fpc EXCEPT ![x] = "pool"]
  /\ UNCHANGED <<rc, active, subscribed, hpc, queue, jpc, released, freed, emitted>>

JobsDone(x) ==
  /\ fpc[x] = "jobs"
  /\ active = 0
  /\ fpc' = [fpc EXCEPT ![x] = "pool"]
  /\ UNCHANGED <<rc, active, subscribed, hpc, queue, jpc, released, freed, emitted>>

\* The jobber's threads are joined; a thread does not wait for itself.
FreeObject(x) ==
  /\ fpc[x] = "pool"
  /\ OwnsPool => \A j \in JobWorkers \ {x} : jpc[j] = "idle"
  /\ freed' = freed + 1
  /\ fpc' = [fpc EXCEPT ![x] = "end"]
  /\ UNCHANGED <<rc, active, subscribed, hpc, queue, jpc, released, emitted>>

HandlerStep(h) == Retain(h) \/ PushJob(h) \/ PushJobFail(h) \/ CountJob(h) \/ HandlerLeave(h)
JobStep(j)     == Take(j) \/ JobRelease(j) \/ JobDecrement(j) \/ JobEnd(j)
FreeStep(x)    == UnsubscribeObject(x) \/ HandlersLeft(x) \/ JobsDone(x) \/ FreeObject(x)

ObjectNext ==
  \/ MainRelease
  \/ \E h \in Handlers : HandlerEnter(h) \/ HandlerStep(h)
  \/ \E j \in JobWorkers : JobStep(j)
  \/ \E x \in Releasers : FreeStep(x)

\* Threads run; a handler that has been entered returns and a queued job is taken.
ObjectFairness ==
  /\ \A h \in Handlers : WF_objectVars(HandlerStep(h))
  /\ \A j \in JobWorkers : WF_objectVars(JobStep(j))
  /\ \A x \in Releasers : WF_objectVars(FreeStep(x))

ObjectSpec     == ObjectInit /\ [][ObjectNext]_objectVars
ObjectFairSpec == ObjectSpec /\ ObjectFairness

-----------------------------------------------------------------------------
\* The types of the state; in particular the reference counter never drops below
\* zero, however handlers, jobs and the owner's release interleave.
ObjectTypeOK ==
  /\ rc \in Nat /\ active \in Int /\ queue \in 0 .. JobQueueSize /\ freed \in Nat
  /\ subscribed \in BOOLEAN /\ released \in BOOLEAN
  /\ hpc \in [Handlers -> {"idle", "retain", "push", "count", "leave"}]
  /\ jpc \in [JobWorkers -> {"idle", "release", "decrement", "end"}]
  /\ fpc \in [Releasers -> {"no", "unsubscribe", "handlers", "jobs", "pool", "end"}]

\* Once the object is freed, no handler and no job, queued or running, goes on to
\* use it, and a worker of the jobber that was freed with it is not still at work.
\* It is freed once, although a handler under way may take its reference counter
\* from zero back to one.
NoUseAfterFree ==
  freed > 0 =>
    /\ freed = 1
    /\ queue = 0
    /\ \A h \in Handlers : hpc[h] \notin {"retain", "push", "count"}
    /\ \A j \in JobWorkers :
         /\ jpc[j] \notin {"release", "decrement"}
         /\ OwnsPool => fpc[j] # "end"

\* "Stop and free" of mdv_committer.h: the object is freed after the owner's
\* release, unless a job or a handler made the last release.  The thread of a
\* job or a handler would wait in the free function for itself.
FreedUnlessByUser ==
  []<>(released => freed > 0 \/ \E x \in Releasers \ {Main} : fpc[x] # "no")
=============================================================================
