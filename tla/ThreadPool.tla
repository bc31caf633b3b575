------------------------------ MODULE ThreadPool ------------------------------
(***************************************************************************)
(* The thread pool of src/lib/openjp2/thread.c (pthread build): the thread *)
(* that owns the pool ("main") creates it, submits jobs, waits for them    *)
(* and destroys it, while the worker threads loop in                       *)
(* opj_worker_thread_function.                                             *)
(*                                                                         *)
(* One action is one critical section under tp->mutex or under a worker's  *)
(* own mutex.  Where a thread still holds one mutex when it asks for the   *)
(* other (a worker going idle, submit_job handing a job over) there is one *)
(* action per lock, because the hand-over is what keeps wake-ups from      *)
(* being lost.  A thread blocked in opj_cond_wait is in `sleepers`; it     *)
(* leaves it when it is signalled, or spuriously, as POSIX allows.         *)
(***************************************************************************)
EXTENDS Integers, Sequences, FiniteSets, SequencesExt

CONSTANTS
  MaxThreads,    \* largest num_threads given to opj_thread_pool_create
  Jobs,          \* the jobs that may be submitted, each at most once
  NoJob,         \* the job of a worker that has none
  MaxRemaining,  \* the arguments given to opj_thread_pool_wait_completion
  QueueFactor,   \* 100 in the code: jobs per thread before submit_job waits
  Faults,        \* the allocations that may fail
  MaxSpurious    \* bound on the spurious wake-ups of a behaviour

Workers == 1..MaxThreads
Main == 0
Free == -1       \* the owner of a mutex nobody holds

ASSUME ThreadPoolAssumption ==
  /\ MaxThreads \in Nat
  /\ NoJob \notin Jobs
  /\ MaxRemaining \subseteq Int
  /\ QueueFactor \in Nat
  /\ Faults \subseteq {"thread", "item", "job"}
  /\ MaxSpurious \in Nat

VARIABLES
  \* opj_thread_pool_t
  state, job_queue, pending_jobs_count, worker_threads_count,
  waiting_list,          \* waiting_worker_thread_list, most recent first
  waiting_count,         \* waiting_worker_thread_count
  signaling_threshold,
  pooled,                \* tp->mutex # NULL: num_threads was positive
  \* mutexes and condition variables
  tp_mutex, w_mutex, sleepers,
  \* one value per worker: where it is, the flag of its opj_worker_thread_t,
  \* and the signal_job_finished and job of its loop
  wpc, marked_as_waiting, job_finished, cur_job,
  \* main: where it is, and the arguments of the call it is in
  mpc, m_job, m_max, m_idx, destroying, bRet,
  \* what has been accepted and what has been run
  submitted, done,
  spurious               \* spurious wake-ups left

poolState == <<state, job_queue, pending_jobs_count, worker_threads_count,
               waiting_list, waiting_count, signaling_threshold, pooled>>
syncState == <<tp_mutex, w_mutex, sleepers>>
workerState == <<wpc, marked_as_waiting, job_finished, cur_job>>
mainState == <<mpc, m_job, m_max, m_idx, destroying, bRet>>
history == <<submitted, done>>
vars == <<poolState, syncState, workerState, mainState, history, spurious>>

WorkerPlaces == {"none", "lock", "run", "park", "parked", "waiting", "exited"}
MainPlaces == {"create", "setup_wait", "setup_check", "idle", "alloc",
               "submit", "handoff", "signal", "inline", "wait", "stop", "join_signal",
               "join", "freed"}

\* opj_thread_pool_create(n) up to the loop that starts the threads.  With
\* n = 0 the pool has no mutex and no thread.
Init ==
  /\ state = "OK" /\ job_queue = <<>> /\ pending_jobs_count = 0
  /\ worker_threads_count \in 0..MaxThreads
  /\ pooled = (worker_threads_count > 0)
  /\ waiting_list = <<>> /\ waiting_count = 0 /\ signaling_threshold = 0
  /\ tp_mutex = Free /\ w_mutex = [w \in Workers |-> Free] /\ sleepers = {}
  /\ wpc = [w \in Workers |-> "none"]
  /\ marked_as_waiting = [w \in Workers |-> FALSE]
  /\ job_finished = [w \in Workers |-> FALSE]
  /\ cur_job = [w \in Workers |-> NoJob]
  /\ mpc = (IF pooled THEN "create" ELSE "idle")
  /\ m_job = NoJob /\ m_max = 0 /\ m_idx = 1 /\ destroying = FALSE /\ bRet = TRUE
  /\ submitted = {} /\ done = {}
  /\ spurious = MaxSpurious

(***************************************************************************)
(* opj_thread_pool_get_next_job.  Every pass of its loop starts by         *)
(* accounting for the job the worker has just finished.                    *)
(***************************************************************************)
AccountFinished_KeepFlag(w) ==
  /\ pending_jobs_count' =
       IF job_finished[w] THEN pending_jobs_count - 1 ELSE pending_jobs_count
  /\ UNCHANGED job_finished

AccountFinished(w) ==
  /\ pending_jobs_count' =
       IF job_finished[w] THEN pending_jobs_count - 1 ELSE pending_jobs_count
  /\ job_finished' = [job_finished EXCEPT ![w] = FALSE]

\* Whether the pass signals tp->cond, on which only main ever waits.
SignalsMain(w) ==
  /\ job_finished[w]
  /\ pending_jobs_count - 1 <= signaling_threshold

InGetNextJob(w) == wpc[w] = "lock" /\ tp_mutex = Free

Stop(w) ==
  /\ InGetNextJob(w) /\ state = "STOP"
  /\ AccountFinished(w)
  /\ sleepers' = IF SignalsMain(w) THEN sleepers \ {Main} ELSE sleepers
  /\ wpc' = [wpc EXCEPT ![w] = "exited"]
  /\ UNCHANGED <<state, job_queue, worker_threads_count, waiting_list,
                 waiting_count, signaling_threshold, pooled, tp_mutex, w_mutex,
                 marked_as_waiting, cur_job, mainState, history, spurious>>

TakeJob_NotUnlinked(w) ==
  /\ InGetNextJob(w) /\ state # "STOP" /\ job_queue # <<>>
  /\ AccountFinished(w)
  /\ sleepers' = IF SignalsMain(w) THEN sleepers \ {Main} ELSE sleepers
  /\ cur_job' = [cur_job EXCEPT ![w] = Head(job_queue)]
  /\ wpc' = [wpc EXCEPT ![w] = "run"]
  /\ UNCHANGED <<state, job_queue, worker_threads_count, waiting_list,
                 waiting_count, signaling_threshold, pooled, tp_mutex, w_mutex,
                 marked_as_waiting, mainState, history, spurious>>

TakeJob(w) ==
  /\ InGetNextJob(w) /\ state # "STOP" /\ job_queue # <<>>
  /\ AccountFinished(w)
  /\ sleepers' = IF SignalsMain(w) THEN sleepers \ {Main} ELSE sleepers
  /\ job_queue' = Tail(job_queue)
  /\ cur_job' = [cur_job EXCEPT ![w] = Head(job_queue)]
  /\ wpc' = [wpc EXCEPT ![w] = "run"]
  /\ UNCHANGED <<state, worker_threads_count, waiting_list, waiting_count,
                 signaling_threshold, pooled, tp_mutex, w_mutex,
                 marked_as_waiting, mainState, history, spurious>>

\* The worker puts itself on the list of waiting threads, once, however often
\* it wakes up without being asked to.
JoinWaitingList_Always(w) ==
  /\ marked_as_waiting' = [marked_as_waiting EXCEPT ![w] = TRUE]
  /\ waiting_count' = waiting_count + 1
  /\ waiting_list' = <<w>> \o waiting_list

JoinWaitingList(w) ==
  \/ /\ ~marked_as_waiting[w]
     /\ marked_as_waiting' = [marked_as_waiting EXCEPT ![w] = TRUE]
     /\ waiting_count' = waiting_count + 1
     /\ waiting_list' = <<w>> \o waiting_list
  \/ /\ marked_as_waiting[w]
     /\ UNCHANGED <<marked_as_waiting, waiting_count, waiting_list>>

\* No job: the worker signals main and, still holding tp->mutex, goes on to
\* lock its own mutex.
GoIdle_UnlockFirst(w) ==
  /\ InGetNextJob(w) /\ state # "STOP" /\ job_queue = <<>>
  /\ AccountFinished(w)
  /\ JoinWaitingList(w)
  /\ sleepers' = sleepers \ {Main}
  /\ wpc' = [wpc EXCEPT ![w] = "park"]
  /\ UNCHANGED <<state, job_queue, worker_threads_count, signaling_threshold,
                 pooled, tp_mutex, w_mutex, cur_job, mainState, history, spurious>>

GoIdle(w) ==
  /\ InGetNextJob(w) /\ state # "STOP" /\ job_queue = <<>>
  /\ AccountFinished(w)
  /\ JoinWaitingList(w)
  /\ sleepers' = sleepers \ {Main}
  /\ tp_mutex' = w
  /\ wpc' = [wpc EXCEPT ![w] = "park"]
  /\ UNCHANGED <<state, job_queue, worker_threads_count, signaling_threshold,
                 pooled, w_mutex, cur_job, mainState, history, spurious>>

\* The list item cannot be allocated: the worker reports it and ends.
GoIdleFails(w) ==
  /\ "item" \in Faults
  /\ InGetNextJob(w) /\ state # "STOP" /\ job_queue = <<>>
  /\ ~marked_as_waiting[w]
  /\ AccountFinished(w)
  /\ marked_as_waiting' = [marked_as_waiting EXCEPT ![w] = TRUE]
  /\ waiting_count' = waiting_count + 1
  /\ state' = "ERROR"
  /\ sleepers' = sleepers \ {Main}
  /\ wpc' = [wpc EXCEPT ![w] = "exited"]
  /\ UNCHANGED <<job_queue, worker_threads_count, waiting_list,
                 signaling_threshold, pooled, tp_mutex, w_mutex, cur_job,
                 mainState, history, spurious>>

\* opj_mutex_lock(worker_thread->mutex); opj_mutex_unlock(tp->mutex)
Park(w) ==
  /\ wpc[w] = "park" /\ w_mutex[w] = Free
  /\ w_mutex' = [w_mutex EXCEPT ![w] = w]
  /\ tp_mutex' = Free
  /\ wpc' = [wpc EXCEPT ![w] = "parked"]
  /\ UNCHANGED <<poolState, sleepers, marked_as_waiting, job_finished, cur_job,
                 mainState, history, spurious>>

\* opj_cond_wait: the worker's mutex is released as the worker falls asleep...
CondWait(w) ==
  /\ wpc[w] = "parked"
  /\ w_mutex' = [w_mutex EXCEPT ![w] = Free]
  /\ sleepers' = sleepers \cup {w}
  /\ wpc' = [wpc EXCEPT ![w] = "waiting"]
  /\ UNCHANGED <<poolState, tp_mutex, marked_as_waiting, job_finished, cur_job,
                 mainState, history, spurious>>

\* ... and is taken again before it comes back, then released by the code.
Wake(w) ==
  /\ wpc[w] = "waiting" /\ w \notin sleepers /\ w_mutex[w] = Free
  /\ wpc' = [wpc EXCEPT ![w] = "lock"]
  /\ UNCHANGED <<poolState, syncState, marked_as_waiting, job_finished, cur_job,
                 mainState, history, spurious>>

\* job->job_fn(job->user_data, tls) returns in opj_worker_thread_function.
RunJob(w) ==
  /\ wpc[w] = "run"
  /\ done' = done \cup {cur_job[w]}
  /\ cur_job' = [cur_job EXCEPT ![w] = NoJob]
  /\ job_finished' = [job_finished EXCEPT ![w] = TRUE]
  /\ wpc' = [wpc EXCEPT ![w] = "lock"]
  /\ UNCHANGED <<poolState, syncState, marked_as_waiting, mainState, submitted,
                 spurious>>

(***************************************************************************)
(* opj_thread_pool_setup                                                   *)
(***************************************************************************)
CreateWorker ==
  /\ mpc = "create" /\ m_idx <= worker_threads_count
  /\ wpc' = [wpc EXCEPT ![m_idx] = "lock"]
  /\ m_idx' = m_idx + 1
  /\ UNCHANGED <<poolState, syncState, marked_as_waiting, job_finished, cur_job,
                 mpc, m_job, m_max, destroying, bRet, history, spurious>>

\* The mutex, the condition or the thread of worker m_idx cannot be created:
\* the pool keeps the workers before it.
CreateWorkerFails ==
  /\ "thread" \in Faults
  /\ mpc = "create" /\ m_idx <= worker_threads_count
  /\ worker_threads_count' = m_idx - 1
  /\ bRet' = FALSE
  /\ UNCHANGED <<state, job_queue, pending_jobs_count, waiting_list,
                 waiting_count, signaling_threshold, pooled, syncState,
                 workerState, mpc, m_job, m_max, m_idx, destroying, history,
                 spurious>>

WorkersCreated ==
  /\ mpc = "create" /\ m_idx > worker_threads_count
  /\ mpc' = "setup_wait"
  /\ UNCHANGED <<poolState, syncState, workerState, m_job, m_max, m_idx,
                 destroying, bRet, history, spurious>>

\* Main in a loop `while (cond) opj_cond_wait(tp->cond, tp->mutex)`: it looks
\* at the condition when it has tp->mutex, and sleeps again if it holds.
MainLooks(place) == mpc = place /\ Main \notin sleepers /\ tp_mutex = Free

MainSleeps ==
  /\ sleepers' = sleepers \cup {Main}
  /\ UNCHANGED <<tp_mutex, w_mutex, workerState, mainState, history, spurious>>

SetupSleep ==
  /\ MainLooks("setup_wait") /\ waiting_count < worker_threads_count
  /\ MainSleeps
  /\ UNCHANGED poolState

SetupReady ==
  /\ MainLooks("setup_wait") /\ waiting_count >= worker_threads_count
  /\ mpc' = "setup_check"
  /\ UNCHANGED <<poolState, syncState, workerState, m_job, m_max, m_idx,
                 destroying, bRet, history, spurious>>

\* The state is read without the mutex; a pool that is not whole is destroyed.
SetupReturns ==
  /\ mpc = "setup_check"
  /\ bRet' = (bRet /\ state # "ERROR")
  /\ mpc' = IF bRet' THEN "idle" ELSE "wait"
  /\ destroying' = ~bRet'
  /\ UNCHANGED <<poolState, syncState, workerState, m_job, m_max, m_idx,
                 history, spurious>>

(***************************************************************************)
(* opj_thread_pool_submit_job                                              *)
(***************************************************************************)
SubmitJob(j) ==
  /\ mpc = "idle" /\ j \notin submitted
  /\ m_job' = j /\ mpc' = "alloc"
  /\ UNCHANGED <<poolState, syncState, workerState, m_max, m_idx, destroying,
                 bRet, history, spurious>>

\* A pool without threads runs the job in the caller.
SubmitInline ==
  /\ mpc = "alloc" /\ ~pooled
  /\ submitted' = submitted \cup {m_job}
  /\ mpc' = "inline"
  /\ UNCHANGED <<poolState, syncState, workerState, m_job, m_max, m_idx,
                 destroying, bRet, done, spurious>>

InlineReturns ==
  /\ mpc = "inline"
  /\ done' = done \cup {m_job}
  /\ mpc' = "idle"
  /\ UNCHANGED <<poolState, syncState, workerState, m_job, m_max, m_idx,
                 destroying, bRet, submitted, spurious>>

\* The job or its list item cannot be allocated: OPJ_FALSE, nothing is queued.
SubmitFails ==
  /\ "job" \in Faults
  /\ mpc = "alloc" /\ pooled
  /\ mpc' = "idle"
  /\ UNCHANGED <<poolState, syncState, workerState, m_job, m_max, m_idx,
                 destroying, bRet, history, spurious>>

SubmitAllocated ==
  /\ mpc = "alloc" /\ pooled
  /\ mpc' = "submit"
  /\ UNCHANGED <<poolState, syncState, workerState, m_job, m_max, m_idx,
                 destroying, bRet, history, spurious>>

SubmitThreshold == QueueFactor * worker_threads_count

SubmitSleep ==
  /\ MainLooks("submit")
  /\ signaling_threshold' = SubmitThreshold
  /\ pending_jobs_count > SubmitThreshold
  /\ MainSleeps
  /\ UNCHANGED <<state, job_queue, pending_jobs_count, worker_threads_count,
                 waiting_list, waiting_count, pooled>>

\* The job goes to the head of the list, and the worker that has been waiting
\* for the shortest time is taken off the waiting list to be woken; tp->mutex
\* stays locked until that worker's mutex is (Handoff).
CanEnqueue_NoRecheck == TRUE
CanEnqueue == pending_jobs_count <= SubmitThreshold

\* A worker is woken for each job, not only for the first one queued.
WakesWorker_WhenEmpty == waiting_list # <<>> /\ job_queue = <<>>
WakesWorker == waiting_list # <<>>

Enqueue ==
  /\ MainLooks("submit")
  /\ CanEnqueue
  /\ signaling_threshold' = SubmitThreshold
  /\ job_queue' = <<m_job>> \o job_queue
  /\ pending_jobs_count' = pending_jobs_count + 1
  /\ submitted' = submitted \cup {m_job}
  /\ \/ /\ WakesWorker
        /\ marked_as_waiting' = [marked_as_waiting EXCEPT ![Head(waiting_list)] = FALSE]
        /\ waiting_list' = Tail(waiting_list)
        /\ waiting_count' = waiting_count - 1
        /\ m_idx' = Head(waiting_list)
        /\ tp_mutex' = Main
        /\ mpc' = "handoff"
     \/ /\ ~WakesWorker
        /\ mpc' = "idle"
        /\ UNCHANGED <<marked_as_waiting, waiting_list, waiting_count, m_idx, tp_mutex>>
  /\ UNCHANGED <<state, worker_threads_count, pooled, w_mutex, sleepers, wpc,
                 job_finished, cur_job, m_job, m_max, destroying, bRet, done,
                 spurious>>

Handoff ==
  /\ mpc = "handoff" /\ w_mutex[m_idx] = Free
  /\ w_mutex' = [w_mutex EXCEPT ![m_idx] = Main]
  /\ tp_mutex' = Free
  /\ mpc' = "signal"
  /\ UNCHANGED <<poolState, sleepers, workerState, m_job, m_max, m_idx,
                 destroying, bRet, history, spurious>>

SignalWorker ==
  /\ mpc = "signal"
  /\ sleepers' = sleepers \ {m_idx}
  /\ w_mutex' = [w_mutex EXCEPT ![m_idx] = Free]
  /\ mpc' = "idle"
  /\ UNCHANGED <<poolState, tp_mutex, workerState, m_job, m_max, m_idx,
                 destroying, bRet, history, spurious>>

(***************************************************************************)
(* opj_thread_pool_wait_completion and opj_thread_pool_destroy             *)
(***************************************************************************)
AtLeastZero_Unclamped(m) == m
AtLeastZero(m) == IF m < 0 THEN 0 ELSE m

WaitCompletion(m) ==
  /\ mpc = "idle" /\ pooled
  /\ m_max' = AtLeastZero(m)
  /\ mpc' = "wait"
  /\ UNCHANGED <<poolState, syncState, workerState, m_job, m_idx, destroying,
                 bRet, history, spurious>>

WaitSleep ==
  /\ MainLooks("wait")
  /\ signaling_threshold' = m_max
  /\ pending_jobs_count > m_max
  /\ MainSleeps
  /\ UNCHANGED <<state, job_queue, pending_jobs_count, worker_threads_count,
                 waiting_list, waiting_count, pooled>>

MayReturn_QueueOnly == Len(job_queue) <= m_max
MayReturn == pending_jobs_count <= m_max

WaitReturns ==
  /\ MainLooks("wait")
  /\ signaling_threshold' = m_max
  /\ MayReturn
  /\ mpc' = IF destroying THEN "stop" ELSE "idle"
  /\ UNCHANGED <<state, job_queue, pending_jobs_count, worker_threads_count,
                 waiting_list, waiting_count, pooled, syncState, workerState,
                 m_job, m_max, m_idx, destroying, bRet, history, spurious>>

Destroy ==
  /\ mpc = "idle"
  /\ destroying' = TRUE /\ m_max' = 0
  /\ mpc' = IF pooled THEN "wait" ELSE "freed"
  /\ UNCHANGED <<poolState, syncState, workerState, m_job, m_idx, bRet, history,
                 spurious>>

DestroyStop ==
  /\ mpc = "stop" /\ tp_mutex = Free
  /\ state' = "STOP"
  /\ m_idx' = 1 /\ mpc' = "join_signal"
  /\ UNCHANGED <<job_queue, pending_jobs_count, worker_threads_count,
                 waiting_list, waiting_count, signaling_threshold, pooled,
                 syncState, workerState, m_job, m_max, destroying, bRet,
                 history, spurious>>

\* Worker m_idx is signalled under its own mutex.
JoinSignal_NoSignal ==
  /\ mpc = "join_signal" /\ m_idx <= worker_threads_count
  /\ w_mutex[m_idx] = Free
  /\ mpc' = "join"
  /\ UNCHANGED <<poolState, syncState, workerState, m_job, m_max, m_idx,
                 destroying, bRet, history, spurious>>

JoinSignal ==
  /\ mpc = "join_signal" /\ m_idx <= worker_threads_count
  /\ w_mutex[m_idx] = Free
  /\ sleepers' = sleepers \ {m_idx}
  /\ mpc' = "join"
  /\ UNCHANGED <<poolState, tp_mutex, w_mutex, workerState, m_job, m_max, m_idx,
                 destroying, bRet, history, spurious>>

\* opj_thread_join, after which the worker's condition and mutex are destroyed.
Joined_NotAwaited == TRUE
Joined == wpc[m_idx] = "exited"

Join ==
  /\ mpc = "join" /\ Joined
  /\ m_idx' = m_idx + 1 /\ mpc' = "join_signal"
  /\ UNCHANGED <<poolState, syncState, workerState, m_job, m_max, destroying,
                 bRet, history, spurious>>

\* The list of waiting threads, tp->cond, tp->mutex and tp itself are freed.
FreePool ==
  /\ mpc = "join_signal" /\ m_idx > worker_threads_count
  /\ waiting_list' = <<>>
  /\ mpc' = "freed"
  /\ UNCHANGED <<state, job_queue, pending_jobs_count, worker_threads_count,
                 waiting_count, signaling_threshold, pooled, syncState,
                 workerState, m_job, m_max, m_idx, destroying, bRet, history,
                 spurious>>

Freed == mpc = "freed" /\ UNCHANGED vars

SpuriousWakeup(t) ==
  /\ spurious > 0 /\ t \in sleepers
  /\ sleepers' = sleepers \ {t}
  /\ spurious' = spurious - 1
  /\ UNCHANGED <<poolState, tp_mutex, w_mutex, workerState, mainState, history>>

-----------------------------------------------------------------------------
WorkerNext(w) ==
  \/ Stop(w) \/ TakeJob(w) \/ GoIdle(w) \/ GoIdleFails(w)
  \/ Park(w) \/ CondWait(w) \/ Wake(w) \/ RunJob(w)

\* What main does without being asked to by the codec.
MainNext ==
  \/ CreateWorker \/ CreateWorkerFails \/ WorkersCreated
  \/ SetupSleep \/ SetupReady \/ SetupReturns
  \/ SubmitInline \/ InlineReturns \/ SubmitFails
  \/ SubmitAllocated \/ SubmitSleep \/ Enqueue
  \/ Handoff \/ SignalWorker
  \/ WaitSleep \/ WaitReturns
  \/ DestroyStop \/ JoinSignal \/ Join \/ FreePool

ClientNext ==
  \/ \E j \in Jobs : SubmitJob(j)
  \/ \E m \in MaxRemaining : WaitCompletion(m)
  \/ Destroy

Next ==
  \/ \E w \in Workers : WorkerNext(w)
  \/ MainNext
  \/ ClientNext
  \/ \E t \in Workers \cup {Main} : SpuriousWakeup(t)
  \/ Freed

Spec == Init /\ [][Next]_vars

\* The scheduler runs every thread that can run, and job_fn returns.  The
\* codec need not call the pool again.
Fairness == WF_vars(MainNext) /\ \A w \in Workers : WF_vars(WorkerNext(w))

FairSpec == Spec /\ Fairness
-----------------------------------------------------------------------------
Running == {w \in Workers : wpc[w] = "run"}
Listed == ToSet(waiting_list)

\* The workers whose job is still counted in pending_jobs_count.
Unaccounted == {w \in Workers : wpc[w] = "run" \/ job_finished[w]}

\* The variables range over what the code can store in them.
TypeOK ==
  /\ state \in {"OK", "STOP", "ERROR"}
  /\ job_queue \in Seq(Jobs)
  /\ pending_jobs_count \in Int
  /\ worker_threads_count \in 0..MaxThreads
  /\ waiting_list \in Seq(Workers)
  /\ waiting_count \in Int
  /\ signaling_threshold \in Nat
  /\ pooled \in BOOLEAN
  /\ tp_mutex \in Workers \cup {Main, Free}
  /\ w_mutex \in [Workers -> Workers \cup {Main, Free}]
  /\ sleepers \subseteq Workers \cup {Main}
  /\ wpc \in [Workers -> WorkerPlaces]
  /\ marked_as_waiting \in [Workers -> BOOLEAN]
  /\ job_finished \in [Workers -> BOOLEAN]
  /\ cur_job \in [Workers -> Jobs \cup {NoJob}]
  /\ mpc \in MainPlaces
  /\ m_job \in Jobs \cup {NoJob}
  /\ m_max \in Nat
  /\ m_idx \in 1..(MaxThreads + 1)
  /\ destroying \in BOOLEAN
  /\ bRet \in BOOLEAN
  /\ submitted \subseteq Jobs
  /\ done \subseteq Jobs
  /\ spurious \in Nat

\* pending_jobs_count, on which every wait of main depends, is exactly the
\* number of jobs that are queued, running, or run and not yet accounted for by
\* their worker's next opj_thread_pool_get_next_job.
PendingExact ==
  pending_jobs_count =
    Len(job_queue) + Cardinality(Unaccounted)

\* The waiting list holds each worker that is marked as waiting exactly once
\* (but for one whose list item could not be allocated, which has ended), and
\* its count, which opj_thread_pool_setup waits for and the assertion of
\* thread.c bounds, never exceeds the number of threads.
WaitListExact ==
  /\ IsInjective(waiting_list)
  /\ mpc # "freed" =>
       /\ \A w \in Workers : w \in Listed => marked_as_waiting[w]
       /\ \A w \in Workers : marked_as_waiting[w] => w \in Listed \/ wpc[w] = "exited"
       /\ waiting_count = Cardinality({w \in Workers : marked_as_waiting[w]})
       /\ mpc # "create" => waiting_count <= worker_threads_count

\* A worker that will look at the queue again without being signalled.
Awake(w) ==
  \/ wpc[w] \in {"lock", "run"}
  \/ wpc[w] = "waiting" /\ w \notin sleepers

BeingWoken(w) == mpc \in {"handoff", "signal"} /\ m_idx = w

\* A queued job is never left with every worker asleep: whatever the order in
\* which main and the workers take tp->mutex and the workers' own mutexes, and
\* whatever wakes up spuriously, some worker is awake or is the one main is
\* about to signal - unless every worker has ended.
NoLostWakeup ==
  job_queue # <<>> =>
    \/ \E w \in Workers : Awake(w) \/ BeingWoken(w)
    \/ \A w \in 1..worker_threads_count : wpc[w] = "exited"

\* submit_job wakes one worker for each job: while some worker is left on the
\* waiting list, there are as many free workers on their way to the queue as
\* there are jobs in it.  Only a spurious wake-up costs one: the worker it
\* woke may be popped from the list, in place of one that sleeps, while it is
\* busy.
WorkConserving ==
  waiting_list # <<>> =>
    Len(job_queue) <=
      Cardinality({w \in Workers : wpc[w] \notin {"none", "run", "exited"}} \ Listed)
        + (MaxSpurious - spurious)

\* Every job submit_job has accepted is in one place only: queued once, being
\* run by one thread, or done.
JobPlacedOnce ==
  LET queued == ToSet(job_queue)
      inline == IF mpc = "inline" THEN {m_job} ELSE {}
      run == {cur_job[w] : w \in Running} \cup inline
  IN /\ IsInjective(job_queue)
     /\ Cardinality(run) = Cardinality(Running) + Cardinality(inline)
     /\ queued \cap run = {} /\ queued \cap done = {} /\ run \cap done = {}
     /\ submitted = queued \cup run \cup done

\* A worker's mutex and condition, and the pool itself, are destroyed only
\* when no thread can touch them any more.
NoUseAfterFree ==
  /\ mpc \in {"join_signal", "join"} /\ state = "STOP" =>
       \A w \in 1..(m_idx - 1) : wpc[w] = "exited"
  /\ mpc = "freed" =>
       \A w \in Workers : wpc[w] \in {"none", "exited"} /\ w \notin sleepers

\* submit_job makes main wait rather than let the queue grow without bound.
QueueBounded == pending_jobs_count <= QueueFactor * worker_threads_count + 1

\* Every call main makes to the pool returns.
CallsReturn == mpc \notin {"idle", "freed"} ~> mpc \in {"idle", "freed"}

-----------------------------------------------------------------------------
(***************************************************************************)
(* The pool implements JobPool: the workers, the two levels of mutexes and *)
(* the wake-ups are hidden.                                                *)
(***************************************************************************)
AbsRunning ==
  {cur_job[w] : w \in Running} \cup (IF mpc = "inline" THEN {m_job} ELSE {})

AbsPhase ==
  CASE mpc = "wait" -> IF destroying THEN "closing" ELSE "waiting"
    [] mpc \in {"stop", "join_signal", "join", "freed"} -> "closed"
    [] OTHER -> "open"

JP == INSTANCE JobPool WITH running <- AbsRunning, phase <- AbsPhase,
                            limit <- m_max

\* Each behaviour of the pool is one the codec was promised: a job is run once,
\* a wait for m jobs does not return while more than m are not done, and destroy
\* stops the workers only when all are.
ImplementsJobPool == JP!PoolSpec

\* And it keeps the promise that every accepted job is started and finished.
ImplementsFairJobPool == JP!FairPoolSpec
=============================================================================
