------------------------------- MODULE JobPool -------------------------------
(***************************************************************************)
(* What opj_thread_pool_t promises the codec (thread.h): a submitted job   *)
(* is run once, by some thread, at some later time;                        *)
(* opj_thread_pool_wait_completion(m) comes back only when at most m jobs  *)
(* have not finished; opj_thread_pool_destroy comes back only when every   *)
(* submitted job has finished.  Nothing is said of the order of the jobs.  *)
(* ThreadPool.tla implements this specification, and the modules of the    *)
(* codec that use the pool are written against it.                         *)
(***************************************************************************)
EXTENDS Integers, FiniteSets

CONSTANTS Jobs,          \* what may be submitted, each job at most once
          MaxRemaining   \* the integers given to wait_completion

VARIABLES submitted,  \* the jobs submit_job has accepted
          running,    \* those whose job_fn is executing
          done,       \* those whose job_fn has returned
          phase,      \* where the one client of the pool is
          limit       \* max_remaining_jobs of the call in progress

poolVars == <<submitted, running, done, phase, limit>>

Outstanding == submitted \ done

AtLeastZero(m) == IF m < 0 THEN 0 ELSE m

PoolInit ==
  /\ submitted = {} /\ running = {} /\ done = {}
  /\ phase = "open"
  /\ limit = 0

\* A pool without threads runs the job inside submit_job: hence the second
\* disjunct.
Submit(j) ==
  /\ phase = "open" /\ j \notin submitted
  /\ submitted' = submitted \cup {j}
  /\ \/ running' = running
     \/ running' = running \cup {j}
  /\ UNCHANGED <<done, phase, limit>>

Start(j) ==
  /\ j \in Outstanding \ running
  /\ running' = running \cup {j}
  /\ UNCHANGED <<submitted, done, phase, limit>>

Finish(j) ==
  /\ j \in running
  /\ running' = running \ {j}
  /\ done' = done \cup {j}
  /\ UNCHANGED <<submitted, phase, limit>>

WaitFor(m) ==
  /\ phase = "open"
  /\ phase' = "waiting" /\ limit' = AtLeastZero(m)
  /\ UNCHANGED <<submitted, running, done>>

WaitReturns ==
  /\ phase = "waiting" /\ Cardinality(Outstanding) <= limit
  /\ phase' = "open"
  /\ UNCHANGED <<submitted, running, done, limit>>

Close ==
  /\ phase = "open"
  /\ phase' = "closing" /\ limit' = 0
  /\ UNCHANGED <<submitted, running, done>>

Closed ==
  /\ phase \in {"open", "closing"} /\ Outstanding = {}
  /\ phase' = "closed"
  /\ UNCHANGED <<submitted, running, done, limit>>

PoolNext ==
  \/ \E j \in Jobs : Submit(j) \/ Start(j) \/ Finish(j)
  \/ \E m \in MaxRemaining : WaitFor(m)
  \/ WaitReturns
  \/ Close
  \/ Closed

PoolSpec == PoolInit /\ [][PoolNext]_poolVars

\* A job that is waiting is started, and one that is started comes back.
PoolFairness == \A j \in Jobs : WF_poolVars(Start(j)) /\ WF_poolVars(Finish(j))

FairPoolSpec == PoolSpec /\ PoolFairness
=============================================================================
