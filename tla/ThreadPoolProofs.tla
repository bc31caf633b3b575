--------------------------- MODULE ThreadPoolProofs ---------------------------
(***************************************************************************)
(* Theorems about ThreadPool, for any number of threads and jobs, any      *)
(* failing allocation and any spurious wake-ups.                           *)
(***************************************************************************)
EXTENDS ThreadPool, SequenceTheorems, FiniteSetTheorems, TLAPS

\* The thread that is to run a job has one, and main does not run past the
\* array of workers.
HoldsJob ==
  /\ mpc \in {"alloc", "submit", "inline"} => m_job \in Jobs
  /\ \A w \in Workers : wpc[w] = "run" => cur_job[w] \in Jobs
  /\ mpc = "join" => m_idx <= worker_threads_count

TypeInv == TypeOK /\ HoldsJob

LEMMA TypeInit == Init => TypeInv
<1> SUFFICES ASSUME Init PROVE TypeInv
  OBVIOUS
<1> USE ThreadPoolAssumption
    DEF Init, Workers, Main, Free, WorkerPlaces, MainPlaces
<1>1. /\ state \in {"OK", "STOP", "ERROR"}
      /\ job_queue \in Seq(Jobs)
      /\ pending_jobs_count \in Int
      /\ worker_threads_count \in 0..MaxThreads
      /\ waiting_list \in Seq(Workers)
      /\ waiting_count \in Int
      /\ signaling_threshold \in Nat
  BY EmptySeq
<1>2. pooled \in BOOLEAN
  OBVIOUS
<1>3. /\ tp_mutex \in Workers \cup {Main, Free}
      /\ w_mutex \in [Workers -> Workers \cup {Main, Free}]
      /\ sleepers \subseteq Workers \cup {Main}
  OBVIOUS
<1>4. /\ wpc \in [Workers -> WorkerPlaces]
      /\ marked_as_waiting \in [Workers -> BOOLEAN]
      /\ job_finished \in [Workers -> BOOLEAN]
      /\ cur_job \in [Workers -> Jobs \cup {NoJob}]
  OBVIOUS
<1>5. mpc \in MainPlaces
  OBVIOUS
<1>6. m_idx \in 1..(MaxThreads + 1)
  OBVIOUS
<1>7. /\ m_job \in Jobs \cup {NoJob}
      /\ m_max \in Nat
      /\ destroying \in BOOLEAN
      /\ bRet \in BOOLEAN
      /\ submitted \subseteq Jobs
      /\ done \subseteq Jobs
      /\ spurious \in Nat
  OBVIOUS
<1>8. HoldsJob
  BY DEF HoldsJob
<1> QED
  BY <1>1, <1>2, <1>3, <1>4, <1>5, <1>6, <1>7, <1>8 DEF TypeInv, TypeOK

LEMMA TypeStep == TypeInv /\ [Next]_vars => TypeInv'
<1> SUFFICES ASSUME TypeInv, [Next]_vars PROVE TypeInv'
  OBVIOUS
<1> USE ThreadPoolAssumption
    DEF TypeInv, TypeOK, HoldsJob, Workers, Main, Free, WorkerPlaces, MainPlaces,
        poolState, syncState, workerState, mainState, history
<1>1. ASSUME NEW w \in Workers, WorkerNext(w) PROVE TypeInv'
  <2>1. CASE Stop(w)
    BY <2>1 DEF Stop, InGetNextJob, AccountFinished
  <2>2. CASE TakeJob(w)
    <3>1. Head(job_queue) \in Jobs /\ Tail(job_queue) \in Seq(Jobs)
      BY <2>2, HeadTailProperties DEF TakeJob
    <3> QED
      BY <2>2, <3>1 DEF TakeJob, InGetNextJob, AccountFinished
  <2>3. CASE GoIdle(w)
    <3>1. <<w>> \o waiting_list \in Seq(Workers)
      BY ConcatProperties
    <3>2. waiting_list' \in Seq(Workers)
      BY <2>3, <3>1, Zenon DEF GoIdle, JoinWaitingList
    <3>3. \/ /\ marked_as_waiting' = [marked_as_waiting EXCEPT ![w] = TRUE]
             /\ waiting_count' = waiting_count + 1
          \/ marked_as_waiting' = marked_as_waiting /\ waiting_count' = waiting_count
      BY <2>3, Zenon DEF GoIdle, JoinWaitingList
    <3>4. marked_as_waiting' \in [Workers -> BOOLEAN] /\ waiting_count' \in Int
      <4>1. [marked_as_waiting EXCEPT ![w] = TRUE] \in [Workers -> BOOLEAN]
        OBVIOUS
      <4>2. waiting_count + 1 \in Int
        OBVIOUS
      <4> QED
        BY <3>3, <4>1, <4>2, Zenon
    <3> QED
      BY <2>3, <3>2, <3>4 DEF GoIdle, InGetNextJob, AccountFinished
  <2>4. CASE GoIdleFails(w)
    BY <2>4 DEF GoIdleFails, InGetNextJob, AccountFinished
  <2>5. CASE Park(w)
    BY <2>5 DEF Park
  <2>6. CASE CondWait(w)
    BY <2>6 DEF CondWait
  <2>7. CASE Wake(w)
    BY <2>7 DEF Wake
  <2>8. CASE RunJob(w)
    BY <2>8 DEF RunJob
  <2> QED
    BY <1>1, <2>1, <2>2, <2>3, <2>4, <2>5, <2>6, <2>7, <2>8 DEF WorkerNext
<1>2. CASE MainNext
  <2>1. CASE CreateWorker
    BY <2>1 DEF CreateWorker
  <2>2. CASE CreateWorkerFails
    <3>1. worker_threads_count' \in 0..MaxThreads
      BY <2>2 DEF CreateWorkerFails
    <3> QED
      BY <2>2, <3>1 DEF CreateWorkerFails
  <2>3. CASE WorkersCreated \/ SetupReady
    BY <2>3 DEF WorkersCreated, SetupReady
  <2>4. CASE SetupSleep \/ SubmitSleep \/ WaitSleep
    <3>1. SubmitThreshold \in Nat
      BY DEF SubmitThreshold
    <3>2. CASE SetupSleep
      BY <3>2 DEF SetupSleep, MainSleeps
    <3>3. CASE SubmitSleep
      BY <3>1, <3>3 DEF SubmitSleep, MainSleeps
    <3>4. CASE WaitSleep
      BY <3>4 DEF WaitSleep, MainSleeps
    <3> QED
      BY <2>4, <3>2, <3>3, <3>4
  <2>5. CASE SetupReturns
    BY <2>5 DEF SetupReturns
  <2>6. CASE SubmitInline \/ InlineReturns \/ SubmitFails \/ SubmitAllocated
    BY <2>6 DEF SubmitInline, InlineReturns, SubmitFails, SubmitAllocated
  <2>7. CASE Enqueue
    <3>1. SubmitThreshold \in Nat
      BY DEF SubmitThreshold
    <3>2. <<m_job>> \o job_queue \in Seq(Jobs)
      <4>1. m_job \in Jobs
        BY <2>7 DEF Enqueue, MainLooks
      <4> QED
        BY <4>1, ConcatProperties
    <3>3. waiting_list # <<>> =>
            Head(waiting_list) \in Workers /\ Tail(waiting_list) \in Seq(Workers)
      BY HeadTailProperties
    <3>4. CASE WakesWorker
      <4>1. m_idx' \in Workers /\ waiting_list' \in Seq(Workers)
        BY <2>7, <3>3, <3>4, Zenon DEF Enqueue, WakesWorker
      <4>2. /\ tp_mutex' = Main /\ mpc' = "handoff"
            /\ waiting_count' = waiting_count - 1
            /\ marked_as_waiting' \in [Workers -> BOOLEAN]
        BY <2>7, <3>4 DEF Enqueue, WakesWorker
      <4>3. /\ job_queue' \in Seq(Jobs) /\ signaling_threshold' \in Nat
            /\ submitted' \subseteq Jobs
        BY <2>7, <3>1, <3>2, Zenon DEF Enqueue, MainLooks
      <4> QED
        <5>1. pending_jobs_count' = pending_jobs_count + 1
          BY <2>7, Zenon DEF Enqueue
        <5>2. UNCHANGED <<state, worker_threads_count, pooled, w_mutex,
                          sleepers, wpc, job_finished, cur_job, m_job, m_max,
                          destroying, bRet, done, spurious>>
          BY <2>7, Zenon DEF Enqueue
        <5> QED
          BY <4>1, <4>2, <4>3, <5>1, <5>2
    <3>5. CASE ~WakesWorker
      BY <2>7, <3>1, <3>2, <3>5 DEF Enqueue, MainLooks
    <3> QED
      BY <3>4, <3>5
  <2>8. CASE Handoff \/ SignalWorker
    BY <2>8 DEF Handoff, SignalWorker
  <2>9. CASE WaitReturns
    BY <2>9 DEF WaitReturns
  <2>10. CASE DestroyStop \/ JoinSignal \/ Join \/ FreePool
    <3>1. CASE DestroyStop
      BY <3>1 DEF DestroyStop
    <3>2. CASE JoinSignal
      BY <3>2 DEF JoinSignal
    <3>3. CASE Join
      BY <3>3 DEF Join
    <3>4. CASE FreePool
      BY <3>4, EmptySeq DEF FreePool
    <3> QED
      BY <2>10, <3>1, <3>2, <3>3, <3>4
  <2> QED
    BY <1>2, <2>1, <2>2, <2>3, <2>4, <2>5, <2>6, <2>7, <2>8, <2>9, <2>10 DEF MainNext
<1>3. CASE ClientNext
  <2>1. ASSUME NEW j \in Jobs, SubmitJob(j) PROVE TypeInv'
    BY <2>1 DEF SubmitJob
  <2>2. ASSUME NEW m \in MaxRemaining, WaitCompletion(m) PROVE TypeInv'
    <3>1. AtLeastZero(m) \in Nat
      BY DEF AtLeastZero
    <3> QED
      BY <2>2, <3>1 DEF WaitCompletion
  <2>3. CASE Destroy
    BY <2>3 DEF Destroy
  <2> QED
    BY <1>3, <2>1, <2>2, <2>3 DEF ClientNext
<1>4. ASSUME NEW t \in Workers \cup {Main}, SpuriousWakeup(t) PROVE TypeInv'
  BY <1>4 DEF SpuriousWakeup
<1>5. CASE UNCHANGED vars
  BY <1>5 DEF vars
<1> QED
  BY <1>1, <1>2, <1>3, <1>4, <1>5 DEF Next, Freed

\* The pool never stores a value the code's types do not hold: no job is taken
\* from an empty queue, no worker past the array is created or joined.
THEOREM TypeCorrect == Spec => []TypeOK
<1>1. Init => TypeInv
  BY TypeInit
<1>2. TypeInv /\ [Next]_vars => TypeInv'
  BY TypeStep
<1>3. TypeInv => TypeOK
  BY DEF TypeInv
<1> QED
  BY <1>1, <1>2, <1>3, PTL DEF Spec

-----------------------------------------------------------------------------
(***************************************************************************)
(* The inductive invariant.                                                *)
(***************************************************************************)
\* Who holds a mutex is a matter of where the threads are.
LockInv ==
  /\ \A w \in Workers : tp_mutex = w <=> wpc[w] = "park"
  /\ tp_mutex = Main <=> mpc = "handoff"
  /\ \A w \in Workers : w_mutex[w] = w <=> wpc[w] = "parked"
  /\ \A w \in Workers : w_mutex[w] = Main <=> mpc = "signal" /\ m_idx = w
  /\ \A w \in Workers : w \in sleepers => wpc[w] = "waiting"

\* Which workers exist, and where destroy is among them.
WorkersInv ==
  /\ ~pooled => worker_threads_count = 0 /\ mpc # "create"
  /\ mpc = "create" =>
       /\ m_idx <= worker_threads_count + 1
       /\ \A w \in Workers : wpc[w] = "none" <=> w >= m_idx
  /\ mpc # "create" => \A w \in Workers : wpc[w] = "none" <=> w > worker_threads_count
  /\ mpc \in {"join_signal", "join"} => \A w \in Workers : w < m_idx => wpc[w] = "exited"
  /\ mpc = "freed" => \A w \in Workers : wpc[w] \in {"none", "exited"}

\* The count of pending jobs, and what main has made of it.
CountInv ==
  /\ PendingExact
  /\ \A w \in Workers : job_finished[w] => wpc[w] = "lock"
  /\ mpc \in {"create", "setup_wait", "setup_check"} =>
        m_max = 0 /\ pending_jobs_count = 0
  /\ ~pooled => pending_jobs_count = 0
  /\ ~pooled => mpc \in {"idle", "alloc", "inline", "freed"}
  /\ destroying => m_max = 0 /\ mpc \in {"wait", "stop", "join_signal", "join", "freed"}
  /\ mpc \in {"stop", "join_signal", "join", "freed"} =>
        destroying /\ pending_jobs_count = 0
  /\ state = "STOP" <=> mpc \in {"join_signal", "join"} \/ (mpc = "freed" /\ pooled)
  /\ QueueBounded

\* A worker that has to be signalled is on the list, or is being signalled; one
\* that is on the list has not ended.
WakeInv ==
  /\ \A i, k \in 1..Len(waiting_list) : waiting_list[i] = waiting_list[k] => i = k
  /\ \A i \in 1..Len(waiting_list) :
        /\ marked_as_waiting[waiting_list[i]]
        /\ state # "STOP" => wpc[waiting_list[i]] \notin {"none", "exited"}
  /\ \A w \in Workers : marked_as_waiting[w] /\ mpc # "freed" =>
        \/ wpc[w] = "exited"
        \/ \E i \in 1..Len(waiting_list) : waiting_list[i] = w
  /\ \A w \in Workers : wpc[w] \in {"park", "parked"} \/ w \in sleepers =>
        marked_as_waiting[w] \/ BeingWoken(w)
  /\ \A w \in Workers : wpc[w] = "park" => marked_as_waiting[w] /\ job_queue = <<>>
  /\ mpc \in {"handoff", "signal"} =>
        /\ m_idx \in Workers
        /\ wpc[m_idx] # "none"
        /\ wpc[m_idx] = "exited" => job_queue = <<>>
  /\ NoLostWakeup

IInv == TypeInv /\ LockInv /\ WorkersInv /\ CountInv /\ WakeInv

-----------------------------------------------------------------------------
LEMMA LockStep == TypeInv /\ LockInv /\ WorkersInv /\ WakeInv /\ Next => LockInv'
<1> SUFFICES ASSUME TypeInv, LockInv, WorkersInv, WakeInv, Next PROVE LockInv'
  OBVIOUS
<1>0. /\ w_mutex \in [Workers -> Workers \cup {Main, Free}]
      /\ wpc \in [Workers -> WorkerPlaces]
      /\ tp_mutex \in Workers \cup {Main, Free}
      /\ m_idx \in 1..(MaxThreads + 1)
      /\ mpc \in {"handoff", "signal"} => m_idx \in Workers
  BY DEF TypeInv, TypeOK, WakeInv
<1> USE <1>0, ThreadPoolAssumption
    DEF LockInv, Workers, Main, Free, WorkerPlaces,
        poolState, syncState, workerState, mainState, history
<1>1. ASSUME NEW w \in Workers, WorkerNext(w) PROVE LockInv'
  <2>1. CASE Stop(w)
    BY <2>1 DEF Stop, InGetNextJob
  <2>2. CASE TakeJob(w)
    BY <2>2 DEF TakeJob, InGetNextJob
  <2>3. CASE GoIdle(w)
    BY <2>3 DEF GoIdle, InGetNextJob
  <2>4. CASE GoIdleFails(w)
    BY <2>4 DEF GoIdleFails, InGetNextJob
  <2>5. CASE Park(w)
    BY <2>5 DEF Park
  <2>6. CASE CondWait(w)
    BY <2>6 DEF CondWait
  <2>7. CASE Wake(w)
    BY <2>7 DEF Wake
  <2>8. CASE RunJob(w)
    BY <2>8 DEF RunJob
  <2> QED
    BY <1>1, <2>1, <2>2, <2>3, <2>4, <2>5, <2>6, <2>7, <2>8 DEF WorkerNext
<1>2. CASE MainNext
  <2>1. CASE CreateWorker
    BY <2>1 DEF CreateWorker, WorkersInv
  <2>2. CASE CreateWorkerFails \/ WorkersCreated \/ SetupReady \/ SetupReturns
    BY <2>2 DEF CreateWorkerFails, WorkersCreated, SetupReady, SetupReturns, MainLooks
  <2>3. CASE SetupSleep \/ SubmitSleep \/ WaitSleep
    BY <2>3 DEF SetupSleep, SubmitSleep, WaitSleep, MainSleeps, MainLooks
  <2>4. CASE SubmitInline \/ InlineReturns \/ SubmitFails \/ SubmitAllocated
    BY <2>4 DEF SubmitInline, InlineReturns, SubmitFails, SubmitAllocated
  <2>5. CASE Enqueue
    BY <2>5 DEF Enqueue, MainLooks
  <2>6. CASE Handoff
    BY <2>6 DEF Handoff
  <2>7. CASE SignalWorker
    BY <2>7 DEF SignalWorker
  <2>8. CASE WaitReturns
    BY <2>8 DEF WaitReturns, MainLooks
  <2>9. CASE DestroyStop \/ JoinSignal \/ Join \/ FreePool
    BY <2>9 DEF DestroyStop, JoinSignal, Join, FreePool
  <2> QED
    BY <1>2, <2>1, <2>2, <2>3, <2>4, <2>5, <2>6, <2>7, <2>8, <2>9 DEF MainNext
<1>3. CASE ClientNext
  BY <1>3 DEF ClientNext, SubmitJob, WaitCompletion, Destroy
<1>4. ASSUME NEW t \in Workers \cup {Main}, SpuriousWakeup(t) PROVE LockInv'
  BY <1>4 DEF SpuriousWakeup
<1>5. CASE Freed
  BY <1>5 DEF Freed, vars
<1> QED
  BY <1>1, <1>2, <1>3, <1>4, <1>5 DEF Next

LEMMA WorkersStep == TypeInv /\ LockInv /\ WorkersInv /\ CountInv /\ Next => WorkersInv'
<1> SUFFICES ASSUME TypeInv, LockInv, WorkersInv, CountInv, Next PROVE WorkersInv'
  OBVIOUS
<1>0. /\ wpc \in [Workers -> WorkerPlaces]
      /\ worker_threads_count \in 0..MaxThreads
      /\ m_idx \in 1..(MaxThreads + 1)
      /\ mpc \in MainPlaces
      /\ pooled \in BOOLEAN
      /\ ~pooled => mpc \in {"idle", "alloc", "inline", "freed"}
      /\ mpc \in {"join_signal", "join"} => state = "STOP"
      /\ mpc = "freed" /\ pooled => state = "STOP"
  BY DEF TypeInv, TypeOK, CountInv
<1> USE <1>0, ThreadPoolAssumption
    DEF WorkersInv, Workers, WorkerPlaces,
        poolState, syncState, workerState, mainState, history
<1>1. ASSUME NEW w \in Workers, WorkerNext(w) PROVE WorkersInv'
  <2>1. CASE Stop(w)
    BY <2>1 DEF Stop, InGetNextJob
  <2>2. CASE TakeJob(w)
    BY <2>2 DEF TakeJob, InGetNextJob
  <2>3. CASE GoIdle(w)
    BY <2>3 DEF GoIdle, InGetNextJob
  <2>4. CASE GoIdleFails(w)
    BY <2>4 DEF GoIdleFails, InGetNextJob
  <2>5. CASE Park(w)
    BY <2>5 DEF Park
  <2>6. CASE CondWait(w)
    BY <2>6 DEF CondWait
  <2>7. CASE Wake(w)
    BY <2>7 DEF Wake
  <2>8. CASE RunJob(w)
    BY <2>8 DEF RunJob
  <2> QED
    BY <1>1, <2>1, <2>2, <2>3, <2>4, <2>5, <2>6, <2>7, <2>8 DEF WorkerNext
<1>2. CASE MainNext
  <2>1. CASE CreateWorker
    BY <2>1 DEF CreateWorker
  <2>2. CASE CreateWorkerFails
    BY <2>2 DEF CreateWorkerFails
  <2>3. CASE WorkersCreated
    BY <2>3 DEF WorkersCreated
  <2>4. CASE SetupReady \/ SetupReturns \/ WaitReturns
    BY <2>4 DEF SetupReady, SetupReturns, WaitReturns, MainLooks
  <2>5. CASE SetupSleep \/ SubmitSleep \/ WaitSleep
    BY <2>5 DEF SetupSleep, SubmitSleep, WaitSleep, MainSleeps, MainLooks
  <2>6. CASE SubmitInline \/ InlineReturns \/ SubmitFails \/ SubmitAllocated
    BY <2>6 DEF SubmitInline, InlineReturns, SubmitFails, SubmitAllocated
  <2>7. CASE Enqueue
    <3>1. mpc = "submit" /\ mpc' \in {"handoff", "idle"}
      BY <2>7, Zenon DEF Enqueue, MainLooks
    <3>2. UNCHANGED <<wpc, worker_threads_count, pooled>>
      BY <2>7, Zenon DEF Enqueue
    <3> QED
      BY <3>1, <3>2
  <2>8. CASE Handoff \/ SignalWorker
    BY <2>8 DEF Handoff, SignalWorker
  <2>9. CASE DestroyStop \/ JoinSignal
    BY <2>9 DEF DestroyStop, JoinSignal
  <2>10. CASE Join
    BY <2>10 DEF Join, Joined
  <2>11. CASE FreePool
    BY <2>11 DEF FreePool
  <2> QED
    BY <1>2, <2>1, <2>2, <2>3, <2>4, <2>5, <2>6, <2>7, <2>8, <2>9, <2>10, <2>11
       DEF MainNext
<1>3. CASE ClientNext
  <2>1. CASE Destroy
    BY <2>1 DEF Destroy
  <2> QED
    BY <1>3, <2>1 DEF ClientNext, SubmitJob, WaitCompletion
<1>4. ASSUME NEW t \in Workers \cup {Main}, SpuriousWakeup(t) PROVE WorkersInv'
  BY <1>4 DEF SpuriousWakeup
<1>5. CASE Freed
  BY <1>5 DEF Freed, vars
<1> QED
  BY <1>1, <1>2, <1>3, <1>4, <1>5 DEF Next

-----------------------------------------------------------------------------
\* The set of workers whose job is not accounted for is finite.
LEMMA UnaccountedFinite ==
  ASSUME NEW S \in SUBSET Workers
  PROVE  IsFiniteSet(S) /\ Cardinality(S) \in Nat
<1>1. IsFiniteSet(Workers)
  BY FS_Interval, ThreadPoolAssumption DEF Workers
<1>2. IsFiniteSet(S)
  BY <1>1, FS_Subset
<1> QED
  BY <1>2, FS_CardinalityType

\* The count of pending jobs is never negative.
LEMMA PendingNat ==
  ASSUME TypeInv, PendingExact PROVE pending_jobs_count \in Nat
<1>1. Cardinality(Unaccounted) \in Nat
  BY UnaccountedFinite DEF Unaccounted
<1>2. Len(job_queue) \in Nat
  BY LenProperties DEF TypeInv, TypeOK
<1> QED
  BY <1>1, <1>2 DEF PendingExact

\* A pass of get_next_job takes the finished job out of the count and, when it
\* hands out another, moves that one from the queue to the worker.
LEMMA Accounting ==
  ASSUME TypeInv, NEW w \in Workers, NEW p \in WorkerPlaces,
         wpc[w] = "lock", AccountFinished(w), wpc' = [wpc EXCEPT ![w] = p]
  PROVE  pending_jobs_count' - Cardinality(Unaccounted') =
           pending_jobs_count - Cardinality(Unaccounted) - (IF p = "run" THEN 1 ELSE 0)
<1> DEFINE U == Unaccounted \ {w}
<1>1. /\ wpc \in [Workers -> WorkerPlaces]
      /\ job_finished \in [Workers -> BOOLEAN]
      /\ pending_jobs_count \in Int
  BY DEF TypeInv, TypeOK
<1>2. /\ IsFiniteSet(U) /\ Cardinality(U) \in Nat /\ w \notin U
      /\ IsFiniteSet(Unaccounted) /\ Cardinality(Unaccounted) \in Nat
  BY UnaccountedFinite DEF Unaccounted
<1>3. Cardinality(U) =
        IF w \in Unaccounted THEN Cardinality(Unaccounted) - 1 ELSE Cardinality(Unaccounted)
  BY <1>2, FS_RemoveElement
<1>4. w \in Unaccounted <=> job_finished[w]
  BY DEF Unaccounted
<1>5. job_finished' = [job_finished EXCEPT ![w] = FALSE]
  BY DEF AccountFinished
<1>6. CASE p = "run"
  <2>1. Unaccounted' = U \cup {w}
    BY <1>1, <1>5, <1>6 DEF Unaccounted
  <2>2. Cardinality(Unaccounted') = Cardinality(U) + 1
    BY <2>1, <1>2, FS_AddElement
  <2> QED
    BY <1>1, <1>2, <1>3, <1>4, <1>6, <2>2 DEF AccountFinished
<1>7. CASE p # "run"
  <2>1. Unaccounted' = U
    BY <1>1, <1>5, <1>7 DEF Unaccounted
  <2> QED
    BY <1>1, <1>2, <1>3, <1>4, <1>7, <2>1 DEF AccountFinished
<1> QED
  BY <1>6, <1>7

LEMMA PendingStep == TypeInv /\ WorkersInv /\ CountInv /\ Next => PendingExact'
<1> SUFFICES ASSUME TypeInv, WorkersInv, CountInv, Next PROVE PendingExact'
  OBVIOUS
<1>0. /\ wpc \in [Workers -> WorkerPlaces]
      /\ job_finished \in [Workers -> BOOLEAN]
      /\ pending_jobs_count \in Int
      /\ job_queue \in Seq(Jobs)
      /\ Len(job_queue) \in Nat
      /\ Cardinality(Unaccounted) \in Nat
      /\ Cardinality(Unaccounted') \in Nat
      /\ PendingExact
  BY UnaccountedFinite, LenProperties DEF TypeInv, TypeOK, CountInv, Unaccounted
<1>1. ASSUME NEW w \in Workers, WorkerNext(w) PROVE PendingExact'
  <2>1. CASE Stop(w) \/ GoIdle(w) \/ GoIdleFails(w)
    <3>1. PICK p \in WorkerPlaces : p # "run" /\ wpc' = [wpc EXCEPT ![w] = p]
      BY <2>1 DEF Stop, GoIdle, GoIdleFails, WorkerPlaces
    <3>2. wpc[w] = "lock" /\ AccountFinished(w) /\ job_queue' = job_queue
      BY <2>1 DEF Stop, GoIdle, GoIdleFails, InGetNextJob
    <3>3. pending_jobs_count' - Cardinality(Unaccounted') =
            pending_jobs_count - Cardinality(Unaccounted)
      <4>1. pending_jobs_count' - Cardinality(Unaccounted') =
              pending_jobs_count - Cardinality(Unaccounted)
                - (IF p = "run" THEN 1 ELSE 0)
        BY <3>1, <3>2, Accounting
      <4> QED
        BY <4>1, <3>1, <1>0
    <3>4. pending_jobs_count' \in Int
      BY <3>2, <1>0 DEF AccountFinished
    <3> QED
      BY <3>2, <3>3, <3>4, <1>0 DEF PendingExact
  <2>2. CASE TakeJob(w)
    <3>1. wpc' = [wpc EXCEPT ![w] = "run"] /\ wpc[w] = "lock" /\ AccountFinished(w)
      BY <2>2 DEF TakeJob, InGetNextJob
    <3>2. Len(job_queue') = Len(job_queue) - 1
      BY <2>2, <1>0, HeadTailProperties DEF TakeJob
    <3>3. pending_jobs_count' - Cardinality(Unaccounted') =
            pending_jobs_count - Cardinality(Unaccounted) - 1
      BY <3>1, <1>0, Accounting DEF WorkerPlaces
    <3>4. pending_jobs_count' \in Int
      BY <3>1, <1>0 DEF AccountFinished
    <3> QED
      BY <3>2, <3>3, <3>4, <1>0 DEF PendingExact
  <2>3. CASE Park(w) \/ CondWait(w) \/ Wake(w) \/ RunJob(w)
    <3>1. Unaccounted' = Unaccounted
      BY <2>3, <1>0 DEF Park, CondWait, Wake, RunJob, Unaccounted
    <3>2. job_queue' = job_queue /\ pending_jobs_count' = pending_jobs_count
      BY <2>3 DEF Park, CondWait, Wake, RunJob, poolState
    <3> QED
      BY <3>1, <3>2, <1>0 DEF PendingExact
  <2> QED
    BY <1>1, <2>1, <2>2, <2>3 DEF WorkerNext
<1>2. CASE CreateWorker
  <2>1. Unaccounted' = Unaccounted
    <3>1. m_idx \in Workers /\ wpc[m_idx] = "none"
      BY <1>2, ThreadPoolAssumption
         DEF CreateWorker, WorkersInv, TypeInv, TypeOK, Workers
    <3> QED
      BY <1>2, <3>1, <1>0 DEF CreateWorker, Unaccounted
  <2> QED
    BY <1>2, <2>1, <1>0 DEF CreateWorker, PendingExact, poolState
<1>3. CASE Enqueue
  <2>1. job_queue' = <<m_job>> \o job_queue /\ pending_jobs_count' = pending_jobs_count + 1
    BY <1>3, Zenon DEF Enqueue
  <2>2. m_job \in Jobs
    BY <1>3 DEF Enqueue, MainLooks, TypeInv, HoldsJob
  <2>3. Len(job_queue') = Len(job_queue) + 1
    BY <2>1, <2>2, <1>0, ConcatProperties
  <2>4. wpc' = wpc /\ job_finished' = job_finished
    BY <1>3, Zenon DEF Enqueue
  <2>5. Unaccounted' = Unaccounted
    BY <2>4 DEF Unaccounted
  <2> QED
    BY <2>1, <2>3, <2>5, <1>0 DEF PendingExact
<1>4. ASSUME UNCHANGED <<wpc, job_finished, job_queue, pending_jobs_count>>
      PROVE PendingExact'
  BY <1>4, <1>0 DEF PendingExact, Unaccounted
<1>5. CASE MainNext /\ ~CreateWorker /\ ~Enqueue
  <2>1. UNCHANGED <<wpc, job_finished, job_queue, pending_jobs_count>>
    BY <1>5 DEF MainNext, CreateWorkerFails, WorkersCreated, SetupSleep, SetupReady,
                SetupReturns, SubmitInline, InlineReturns, SubmitFails,
                SubmitAllocated, SubmitSleep, Handoff, SignalWorker, WaitSleep,
                WaitReturns, DestroyStop, JoinSignal, Join, FreePool, MainSleeps,
                poolState, workerState
  <2> QED
    BY <1>4, <2>1
<1>6. CASE ClientNext
  BY <1>4, <1>6 DEF ClientNext, SubmitJob, WaitCompletion, Destroy, poolState, workerState
<1>7. ASSUME NEW t \in Workers \cup {Main}, SpuriousWakeup(t) PROVE PendingExact'
  BY <1>4, <1>7 DEF SpuriousWakeup, poolState, workerState
<1>8. CASE Freed
  BY <1>4, <1>8 DEF Freed, vars, poolState, workerState
<1> QED
  BY <1>1, <1>2, <1>3, <1>5, <1>6, <1>7, <1>8 DEF Next

LEMMA CountStep == TypeInv /\ TypeInv' /\ WorkersInv /\ CountInv /\ Next => CountInv'
<1> SUFFICES ASSUME TypeInv, TypeInv', WorkersInv, CountInv, Next PROVE CountInv'
  OBVIOUS
<1>a. PendingExact'
  BY PendingStep
<1>b. pending_jobs_count \in Nat /\ pending_jobs_count' \in Nat
  <2>1. pending_jobs_count \in Nat
    BY PendingNat DEF CountInv
  <2>2. Cardinality(Unaccounted') \in Nat
    BY UnaccountedFinite DEF Unaccounted
  <2>3. Len(job_queue') \in Nat
    BY LenProperties DEF TypeInv, TypeOK
  <2> QED
    BY <1>a, <2>1, <2>2, <2>3 DEF PendingExact
<1>0. /\ wpc \in [Workers -> WorkerPlaces]
      /\ job_finished \in [Workers -> BOOLEAN]
      /\ worker_threads_count \in 0..MaxThreads
      /\ m_idx \in 1..(MaxThreads + 1)
      /\ m_max \in Nat
      /\ mpc \in MainPlaces
      /\ pooled \in BOOLEAN
      /\ destroying \in BOOLEAN
      /\ \A n \in Nat : QueueFactor * n \in Nat
      /\ ~pooled => worker_threads_count = 0 /\ mpc # "create"
  BY ThreadPoolAssumption DEF TypeInv, TypeOK, WorkersInv
<1> DEFINE Rest ==
      /\ \A w \in Workers : job_finished[w] => wpc[w] = "lock"
      /\ mpc \in {"create", "setup_wait", "setup_check"} =>
            m_max = 0 /\ pending_jobs_count = 0
      /\ ~pooled => pending_jobs_count = 0
      /\ ~pooled => mpc \in {"idle", "alloc", "inline", "freed"}
      /\ destroying => m_max = 0 /\ mpc \in {"wait", "stop", "join_signal", "join", "freed"}
      /\ mpc \in {"stop", "join_signal", "join", "freed"} =>
            destroying /\ pending_jobs_count = 0
      /\ state = "STOP" <=> mpc \in {"join_signal", "join"} \/ (mpc = "freed" /\ pooled)
      /\ QueueBounded
<1>c. Rest
  BY DEF CountInv
<1> SUFFICES Rest'
  BY <1>a DEF CountInv
<1> USE <1>0, <1>b, <1>c, ThreadPoolAssumption
    DEF QueueBounded, WorkerPlaces,
        poolState, syncState, workerState, mainState, history
<1>1. ASSUME NEW w \in Workers, WorkerNext(w) PROVE Rest'
  <2>1. ASSUME pending_jobs_count' <= pending_jobs_count,
               state' = state \/ (state # "STOP" /\ state' # "STOP"),
               \A x \in Workers : job_finished'[x] => wpc'[x] = "lock",
               UNCHANGED <<mpc, m_max, pooled, destroying, worker_threads_count>>
        PROVE Rest'
    BY <2>1
  <2>2. CASE Stop(w) \/ TakeJob(w) \/ GoIdle(w) \/ GoIdleFails(w)
    <3>1. AccountFinished(w) /\ UNCHANGED <<mpc, m_max, pooled, destroying, worker_threads_count>>
      BY <2>2 DEF Stop, TakeJob, GoIdle, GoIdleFails
    <3>2. state' = state \/ (state # "STOP" /\ state' # "STOP")
      BY <2>2 DEF Stop, TakeJob, GoIdle, GoIdleFails
    <3>3. pending_jobs_count' <= pending_jobs_count
      BY <3>1 DEF AccountFinished
    <3>4. \A x \in Workers \ {w} : job_finished'[x] = job_finished[x] /\ wpc'[x] = wpc[x]
      BY <2>2, <3>1 DEF Stop, TakeJob, GoIdle, GoIdleFails, AccountFinished
    <3>5. ~job_finished'[w]
      BY <3>1 DEF AccountFinished
    <3> QED
      BY <2>1, <3>1, <3>2, <3>3, <3>4, <3>5
  <2>3. CASE Park(w) \/ CondWait(w) \/ Wake(w) \/ RunJob(w)
    <3>1. \A x \in Workers : job_finished'[x] => wpc'[x] = "lock"
      BY <2>3 DEF Park, CondWait, Wake, RunJob
    <3>2. UNCHANGED <<pending_jobs_count, state, mpc, m_max, pooled, destroying,
                      worker_threads_count>>
      BY <2>3 DEF Park, CondWait, Wake, RunJob
    <3> QED
      BY <2>1, <3>1, <3>2
  <2> QED
    BY <1>1, <2>2, <2>3 DEF WorkerNext
<1>2. CASE MainNext
  <2>1. CASE CreateWorker
    BY <2>1 DEF CreateWorker, WorkersInv, Workers
  <2>2. CASE CreateWorkerFails
    BY <2>2 DEF CreateWorkerFails
  <2>3. CASE WorkersCreated \/ SetupReady
    BY <2>3 DEF WorkersCreated, SetupReady, MainLooks
  <2>4. CASE SetupReturns
    BY <2>4 DEF SetupReturns
  <2>5. CASE SetupSleep \/ SubmitSleep \/ WaitSleep
    BY <2>5 DEF SetupSleep, SubmitSleep, WaitSleep, MainSleeps, MainLooks
  <2>6. CASE SubmitInline \/ InlineReturns
    BY <2>6 DEF SubmitInline, InlineReturns
  <2>7. CASE SubmitFails \/ SubmitAllocated
    BY <2>7 DEF SubmitFails, SubmitAllocated
  <2>8. CASE Enqueue
    <3>1. /\ mpc = "submit" /\ mpc' \in {"handoff", "idle"}
          /\ pending_jobs_count' = pending_jobs_count + 1
          /\ pending_jobs_count <= QueueFactor * worker_threads_count
      BY <2>8, Zenon DEF Enqueue, MainLooks, CanEnqueue, SubmitThreshold
    <3>2. UNCHANGED <<state, wpc, job_finished, m_max, pooled, destroying,
                      worker_threads_count>>
      BY <2>8, Zenon DEF Enqueue
    <3> QED
      BY <3>1, <3>2
  <2>9. CASE Handoff \/ SignalWorker
    BY <2>9 DEF Handoff, SignalWorker
  <2>10. CASE WaitReturns
    BY <2>10 DEF WaitReturns, MainLooks, MayReturn
  <2>11. CASE DestroyStop \/ JoinSignal \/ Join \/ FreePool
    BY <2>11 DEF DestroyStop, JoinSignal, Join, FreePool
  <2> QED
    BY <1>2, <2>1, <2>2, <2>3, <2>4, <2>5, <2>6, <2>7, <2>8, <2>9, <2>10, <2>11
       DEF MainNext
<1>3. CASE ClientNext
  <2>1. CASE Destroy
    BY <2>1 DEF Destroy
  <2>2. ASSUME NEW m \in MaxRemaining, WaitCompletion(m) PROVE Rest'
    BY <2>2 DEF WaitCompletion
  <2> QED
    BY <1>3, <2>1, <2>2 DEF ClientNext, SubmitJob
<1>4. ASSUME NEW t \in Workers \cup {Main}, SpuriousWakeup(t) PROVE Rest'
  BY <1>4 DEF SpuriousWakeup
<1>5. CASE Freed
  BY <1>5 DEF Freed, vars
<1> QED
  BY <1>1, <1>2, <1>3, <1>4, <1>5 DEF Next

-----------------------------------------------------------------------------
\* A stopped pool has no job left.
LEMMA StoppedEmpty ==
  ASSUME TypeInv, CountInv, pending_jobs_count = 0
  PROVE  job_queue = <<>>
<1>1. Cardinality(Unaccounted) \in Nat
  BY UnaccountedFinite DEF Unaccounted
<1>2. job_queue \in Seq(Jobs) /\ Len(job_queue) \in Nat
  BY LenProperties DEF TypeInv, TypeOK
<1>3. Len(job_queue) = 0
  BY <1>1, <1>2 DEF CountInv, PendingExact
<1> QED
  BY <1>2, <1>3, EmptySeq

LEMMA WakeStep ==
  TypeInv /\ LockInv /\ WorkersInv /\ CountInv /\ WakeInv /\ Next => WakeInv'
<1> SUFFICES ASSUME TypeInv, LockInv, WorkersInv, CountInv, WakeInv, Next PROVE WakeInv'
  OBVIOUS
<1>0. /\ wpc \in [Workers -> WorkerPlaces]
      /\ marked_as_waiting \in [Workers -> BOOLEAN]
      /\ worker_threads_count \in 0..MaxThreads
      /\ m_idx \in 1..(MaxThreads + 1)
      /\ mpc \in MainPlaces
      /\ waiting_list \in Seq(Workers)
      /\ Len(waiting_list) \in Nat
      /\ \A i \in 1..Len(waiting_list) : waiting_list[i] \in Workers
      /\ state = "STOP" => job_queue = <<>>
      /\ mpc \in {"create", "setup_wait", "setup_check", "stop", "join_signal",
                  "join", "freed"} => job_queue = <<>>
  BY LenProperties, ElementOfSeq, StoppedEmpty DEF TypeInv, TypeOK, CountInv
<1> USE <1>0, ThreadPoolAssumption
    DEF Workers, Main, WorkerPlaces, BeingWoken, Awake,
        poolState, syncState, workerState, mainState, history
\* The steps of main that neither hand a job over nor touch the workers.
<1>f. ASSUME UNCHANGED <<state, job_queue, waiting_list, marked_as_waiting, wpc>>,
             mpc \notin {"handoff", "signal", "freed"}, mpc' \notin {"handoff", "signal"},
             \A w \in Workers : w \in sleepers' => w \in sleepers,
             worker_threads_count' \in 0..worker_threads_count
      PROVE WakeInv'
  <2>1. NoLostWakeup'
    BY <1>f DEF WakeInv, NoLostWakeup
  <2> QED
    BY <1>f, <2>1 DEF WakeInv
<1>1. ASSUME NEW w \in Workers, WorkerNext(w) PROVE WakeInv'
  <2>1. CASE Stop(w)
    BY <2>1 DEF Stop, InGetNextJob, WakeInv, NoLostWakeup
  <2>2. CASE TakeJob(w)
    <3>1. /\ wpc[w] = "lock" /\ tp_mutex = Free
          /\ wpc' = [wpc EXCEPT ![w] = "run"]
          /\ sleepers' \subseteq sleepers
      BY <2>2 DEF TakeJob, InGetNextJob
    <3>2. UNCHANGED <<state, waiting_list, marked_as_waiting, mpc, m_idx,
                      worker_threads_count>>
      BY <2>2 DEF TakeJob
    <3>3. \A x \in Workers : wpc[x] # "park"
      BY <3>1 DEF LockInv, Free
    <3>4. mpc # "handoff" /\ job_queue # <<>>
      BY <2>2, <3>1 DEF LockInv, Free, TakeJob
    <3> QED
      BY <3>1, <3>2, <3>3, <3>4 DEF WakeInv, NoLostWakeup
  <2>3. CASE GoIdle(w)
    <3>1. /\ wpc[w] = "lock" /\ state # "STOP"
          /\ wpc' = [wpc EXCEPT ![w] = "park"]
          /\ sleepers' = sleepers \ {Main}
          /\ job_queue = <<>> /\ job_queue' = <<>>
      BY <2>3, Zenon DEF GoIdle, InGetNextJob
    <3>2. UNCHANGED <<state, mpc, m_idx, worker_threads_count>>
      BY <2>3, Zenon DEF GoIdle, mainState
    <3>3. CASE marked_as_waiting[w]
      <4>1. UNCHANGED <<marked_as_waiting, waiting_list>>
        BY <2>3, <3>3, Zenon DEF GoIdle, JoinWaitingList
      <4> QED
        BY <3>1, <3>2, <3>3, <4>1 DEF WakeInv, NoLostWakeup
    <3>4. CASE ~marked_as_waiting[w]
      <4>1. /\ marked_as_waiting' = [marked_as_waiting EXCEPT ![w] = TRUE]
            /\ waiting_list' = <<w>> \o waiting_list
        BY <2>3, <3>4, Zenon DEF GoIdle, JoinWaitingList
      <4>2. /\ Len(waiting_list') = Len(waiting_list) + 1
            /\ \A i \in 1..Len(waiting_list') :
                 waiting_list'[i] = IF i = 1 THEN w ELSE waiting_list[i - 1]
        BY <4>1, ConcatProperties
      <4>3. /\ \A i, k \in 1..Len(waiting_list') :
                 waiting_list'[i] = waiting_list'[k] => i = k
            /\ \A i \in 1..Len(waiting_list') :
                 /\ marked_as_waiting'[waiting_list'[i]]
                 /\ wpc'[waiting_list'[i]] \notin {"none", "exited"}
        <5>1. /\ \A i, k \in 1..Len(waiting_list) : waiting_list[i] = waiting_list[k] => i = k
              /\ \A i \in 1..Len(waiting_list) :
                   /\ marked_as_waiting[waiting_list[i]] /\ waiting_list[i] # w
                   /\ wpc[waiting_list[i]] \notin {"none", "exited"}
          BY <3>1, <3>4 DEF WakeInv
        <5>2. marked_as_waiting' = [marked_as_waiting EXCEPT ![w] = TRUE]
          BY <4>1
        <5>3. \A i \in 1..Len(waiting_list') : i # 1 =>
                i - 1 \in 1..Len(waiting_list) /\ waiting_list'[i] = waiting_list[i - 1]
          BY <4>2
        <5>4. Len(waiting_list') >= 1 => waiting_list'[1] = w
          BY <4>2
        <5>5. ASSUME NEW i \in 1..Len(waiting_list'), NEW k \in 1..Len(waiting_list'),
                     waiting_list'[i] = waiting_list'[k]
              PROVE  i = k
          <6>a. \A n \in 1..Len(waiting_list') : n # 1 => waiting_list'[n] # w
            BY <5>1, <5>3
          <6>1. i = 1 <=> k = 1
            BY <6>a, <5>4, <5>5
          <6>2. CASE i # 1 /\ k # 1
            <7>1. i - 1 = k - 1
              BY <5>1, <5>3, <5>5, <6>2
            <7> QED
              BY <7>1
          <6> QED
            BY <6>1, <6>2
        <5>6. ASSUME NEW i \in 1..Len(waiting_list')
              PROVE  /\ marked_as_waiting'[waiting_list'[i]]
                     /\ wpc'[waiting_list'[i]] \notin {"none", "exited"}
          <6>1. CASE i = 1
            BY <5>2, <5>4, <6>1, <3>1
          <6>2. CASE i # 1
            BY <5>1, <5>2, <5>3, <6>2, <3>1
          <6> QED
            BY <6>1, <6>2
        <5> QED
          BY <5>5, <5>6
      <4>4. \A x \in Workers : marked_as_waiting'[x] /\ mpc' # "freed" =>
              \/ wpc'[x] = "exited"
              \/ \E i \in 1..Len(waiting_list') : waiting_list'[i] = x
        <5> SUFFICES ASSUME NEW x \in Workers, marked_as_waiting'[x], mpc' # "freed",
                            wpc'[x] # "exited"
                     PROVE  \E i \in 1..Len(waiting_list') : waiting_list'[i] = x
          OBVIOUS
        <5>1. CASE x = w
          BY <4>2, <5>1
        <5>2. CASE x # w
          <6>1. marked_as_waiting[x] /\ wpc[x] # "exited" /\ mpc # "freed"
            BY <3>1, <3>2, <4>1, <5>2
          <6>2. PICK i \in 1..Len(waiting_list) : waiting_list[i] = x
            BY <6>1 DEF WakeInv
          <6>3. i + 1 \in 1..Len(waiting_list') /\ waiting_list'[i + 1] = x
            BY <4>2, <6>2
          <6> QED
            BY <6>3
        <5> QED
          BY <5>1, <5>2
      <4>5. \A x \in Workers : wpc'[x] \in {"park", "parked"} \/ x \in sleepers' =>
              marked_as_waiting'[x] \/ BeingWoken(x)'
        <5>1. marked_as_waiting' = [marked_as_waiting EXCEPT ![w] = TRUE]
          BY <4>1
        <5> QED
          BY <3>1, <3>2, <5>1 DEF WakeInv
      <4>7. \A x \in Workers : wpc'[x] = "park" => marked_as_waiting'[x]
        <5>1. marked_as_waiting' = [marked_as_waiting EXCEPT ![w] = TRUE]
          BY <4>1
        <5> QED
          BY <3>1, <5>1 DEF WakeInv
      <4>6. mpc \in {"handoff", "signal"} =>
              m_idx \in Workers /\ wpc'[m_idx] # "none"
        BY <3>1 DEF WakeInv
      <4> QED
        BY <3>1, <3>2, <4>3, <4>4, <4>5, <4>6, <4>7 DEF WakeInv, NoLostWakeup
    <3> QED
      BY <3>3, <3>4
  <2>4. CASE GoIdleFails(w)
    <3>1. /\ wpc[w] = "lock" /\ ~marked_as_waiting[w] /\ state # "STOP"
          /\ state' = "ERROR"
          /\ wpc' = [wpc EXCEPT ![w] = "exited"]
          /\ marked_as_waiting' = [marked_as_waiting EXCEPT ![w] = TRUE]
          /\ sleepers' = sleepers \ {Main}
          /\ job_queue = <<>> /\ job_queue' = <<>>
      BY <2>4 DEF GoIdleFails, InGetNextJob
    <3>2. UNCHANGED <<waiting_list, mpc, m_idx, worker_threads_count>>
      BY <2>4 DEF GoIdleFails
    <3> QED
      BY <3>1, <3>2 DEF WakeInv, NoLostWakeup
  <2>5. CASE Park(w)
    BY <2>5 DEF Park, WakeInv, NoLostWakeup
  <2>6. CASE CondWait(w)
    BY <2>6 DEF CondWait, WakeInv, NoLostWakeup
  <2>7. CASE Wake(w)
    BY <2>7 DEF Wake, WakeInv, NoLostWakeup
  <2>8. CASE RunJob(w)
    BY <2>8 DEF RunJob, WakeInv, NoLostWakeup
  <2> QED
    BY <1>1, <2>1, <2>2, <2>3, <2>4, <2>5, <2>6, <2>7, <2>8 DEF WorkerNext
<1>2. CASE MainNext
  <2>1. CASE CreateWorker
    BY <2>1 DEF CreateWorker, WorkersInv, WakeInv, NoLostWakeup
  <2>2. CASE CreateWorkerFails \/ WorkersCreated
    BY <2>2, <1>f DEF CreateWorkerFails, WorkersCreated
  <2>3. CASE SetupReady \/ SetupReturns \/ WaitReturns
    BY <2>3, <1>f DEF SetupReady, SetupReturns, WaitReturns, MainLooks
  <2>4. CASE SetupSleep \/ SubmitSleep \/ WaitSleep
    BY <2>4, <1>f DEF SetupSleep, SubmitSleep, WaitSleep, MainSleeps, MainLooks
  <2>5. CASE SubmitInline \/ InlineReturns \/ SubmitFails \/ SubmitAllocated
    BY <2>5, <1>f DEF SubmitInline, InlineReturns, SubmitFails, SubmitAllocated
  <2>6. CASE Enqueue
    <3>1. /\ mpc = "submit" /\ tp_mutex = Free
          /\ \A x \in Workers : wpc[x] # "park"
      BY <2>6 DEF Enqueue, MainLooks, LockInv, Free
    <3>2. UNCHANGED <<state, wpc, sleepers, worker_threads_count>>
      BY <2>6, Zenon DEF Enqueue
    <3>3. state # "STOP"
      BY <3>1 DEF CountInv
    <3>4. CASE waiting_list # <<>>
      <4>1. /\ marked_as_waiting' = [marked_as_waiting EXCEPT ![Head(waiting_list)] = FALSE]
            /\ waiting_list' = Tail(waiting_list)
            /\ m_idx' = Head(waiting_list)
            /\ mpc' = "handoff"
        BY <2>6, <3>4, Zenon DEF Enqueue, WakesWorker
      <4>2. /\ Len(waiting_list') = Len(waiting_list) - 1
            /\ \A i \in 1..Len(waiting_list') : waiting_list'[i] = waiting_list[i + 1]
            /\ Head(waiting_list) = waiting_list[1]
            /\ 1 \in 1..Len(waiting_list)
            /\ Len(waiting_list') \in Nat
        BY <3>4, <4>1, HeadTailProperties, EmptySeq
      <4> DEFINE h == waiting_list[1]
      <4>3. /\ h \in Workers /\ m_idx' = h /\ mpc' = "handoff"
            /\ marked_as_waiting' = [marked_as_waiting EXCEPT ![h] = FALSE]
            /\ wpc[h] \notin {"none", "exited"}
        <5>1. h \in Workers /\ wpc[h] \notin {"none", "exited"}
          BY <4>2, <3>3 DEF WakeInv
        <5> QED
          BY <5>1, <4>1, <4>2, Zenon
      <4>4. /\ \A i, k \in 1..Len(waiting_list) : waiting_list[i] = waiting_list[k] => i = k
            /\ \A i \in 1..Len(waiting_list) :
                 /\ marked_as_waiting[waiting_list[i]]
                 /\ wpc[waiting_list[i]] \notin {"none", "exited"}
        BY <3>3 DEF WakeInv
      <4> HIDE DEF h
      <4>5. \A i \in 1..Len(waiting_list') : waiting_list'[i] # h
        BY <4>2, <4>4 DEF h
      <4>6. /\ \A i, k \in 1..Len(waiting_list') :
                 waiting_list'[i] = waiting_list'[k] => i = k
            /\ \A i \in 1..Len(waiting_list') :
                 /\ marked_as_waiting'[waiting_list'[i]]
                 /\ wpc'[waiting_list'[i]] \notin {"none", "exited"}
        <5>1. \A i \in 1..Len(waiting_list') :
                /\ i + 1 \in 1..Len(waiting_list)
                /\ waiting_list'[i] = waiting_list[i + 1]
          BY <4>2
        <5>2. ASSUME NEW i \in 1..Len(waiting_list'), NEW k \in 1..Len(waiting_list'),
                     waiting_list'[i] = waiting_list'[k]
              PROVE  i = k
          <6>1. i + 1 = k + 1
            BY <4>4, <5>1, <5>2
          <6> QED
            BY <6>1
        <5>3. ASSUME NEW i \in 1..Len(waiting_list')
              PROVE  /\ marked_as_waiting'[waiting_list'[i]]
                     /\ wpc'[waiting_list'[i]] \notin {"none", "exited"}
          BY <4>3, <4>4, <4>5, <5>1, <3>2
        <5> QED
          BY <5>2, <5>3
      <4>7. \A x \in Workers : marked_as_waiting'[x] /\ mpc' # "freed" =>
              \/ wpc'[x] = "exited"
              \/ \E i \in 1..Len(waiting_list') : waiting_list'[i] = x
        <5> SUFFICES ASSUME NEW x \in Workers, marked_as_waiting'[x], wpc'[x] # "exited"
                     PROVE  \E i \in 1..Len(waiting_list') : waiting_list'[i] = x
          OBVIOUS
        <5>1. x # h /\ marked_as_waiting[x] /\ wpc[x] # "exited"
          BY <4>3, <3>2
        <5>2. PICK i \in 1..Len(waiting_list) : waiting_list[i] = x
          BY <5>1, <3>1 DEF WakeInv
        <5>3. i - 1 \in 1..Len(waiting_list') /\ waiting_list'[i - 1] = x
          BY <5>1, <5>2, <4>2 DEF h
        <5> QED
          BY <5>3
      <4>8. \A x \in Workers : wpc'[x] \in {"park", "parked"} \/ x \in sleepers' =>
              marked_as_waiting'[x] \/ BeingWoken(x)'
        BY <3>1, <3>2, <4>3 DEF WakeInv
      <4> QED
        BY <3>1, <3>2, <4>3, <4>6, <4>7, <4>8 DEF WakeInv, NoLostWakeup
    <3>5. CASE waiting_list = <<>>
      <4>1. /\ UNCHANGED <<marked_as_waiting, waiting_list>>
            /\ mpc' = "idle"
        BY <2>6, <3>5, Zenon DEF Enqueue, WakesWorker
      <4>2. Len(waiting_list) = 0
        BY <3>5
      <4>3. \A x \in Workers : wpc[x] \in {"none", "exited"} \/ Awake(x)
        <5>1. \A x \in Workers : marked_as_waiting[x] => wpc[x] = "exited"
          BY <3>1, <4>2 DEF WakeInv
        <5>2. \A x \in Workers : (wpc[x] # "parked" /\ x \notin sleepers) \/ wpc[x] = "exited"
          BY <3>1, <5>1 DEF WakeInv
        <5> QED
          BY <3>1, <5>2
      <4>4. NoLostWakeup'
        <5>1. \A x \in 1..worker_threads_count : x \in Workers /\ wpc[x] # "none"
          BY <3>1 DEF WorkersInv
        <5> QED
          BY <4>3, <5>1, <3>2 DEF NoLostWakeup
      <4> QED
        BY <3>1, <3>2, <4>1, <4>4 DEF WakeInv
    <3> QED
      BY <3>4, <3>5
  <2>7. CASE Handoff
    BY <2>7 DEF Handoff, WakeInv, NoLostWakeup
  <2>8. CASE SignalWorker
    <3>1. /\ m_idx \in Workers /\ wpc[m_idx] # "none" /\ w_mutex[m_idx] = Main
          /\ wpc[m_idx] = "exited" => job_queue = <<>>
          /\ wpc[m_idx] = "park" => job_queue = <<>>
      BY <2>8 DEF SignalWorker, LockInv, WakeInv
    <3>2. wpc[m_idx] # "parked"
      BY <3>1 DEF LockInv
    <3>3. /\ mpc' = "idle" /\ sleepers' = sleepers \ {m_idx}
          /\ UNCHANGED <<state, job_queue, waiting_list, marked_as_waiting, wpc,
                         worker_threads_count, m_idx>>
          /\ mpc # "freed"
      BY <2>8 DEF SignalWorker
    <3>4. job_queue' # <<>> => Awake(m_idx)'
      BY <3>1, <3>2, <3>3
    <3>5. \A x \in Workers : wpc'[x] \in {"park", "parked"} \/ x \in sleepers' =>
            marked_as_waiting'[x]
      <4>1. ASSUME NEW x \in Workers, x # m_idx,
                   wpc[x] \in {"park", "parked"} \/ x \in sleepers
            PROVE  marked_as_waiting[x]
        BY <4>1 DEF WakeInv
      <4>2. wpc[m_idx] = "park" => marked_as_waiting[m_idx]
        BY <3>1 DEF WakeInv
      <4> QED
        BY <3>2, <3>3, <4>1, <4>2
    <3> QED
      BY <3>1, <3>3, <3>4, <3>5 DEF WakeInv, NoLostWakeup
  <2>9. CASE JoinSignal \/ Join
    BY <2>9, <1>f DEF JoinSignal, Join
  <2>11. CASE DestroyStop
    <3>1. state' = "STOP" /\ mpc = "stop" /\ mpc' = "join_signal" /\ job_queue' = <<>>
      BY <2>11 DEF DestroyStop
    <3>2. UNCHANGED <<waiting_list, marked_as_waiting, wpc, sleepers>>
      BY <2>11 DEF DestroyStop
    <3> QED
      BY <3>1, <3>2 DEF WakeInv, NoLostWakeup
  <2>10. CASE FreePool
    BY <2>10 DEF FreePool, WakeInv, NoLostWakeup
  <2> QED
    BY <1>2, <2>1, <2>2, <2>3, <2>4, <2>5, <2>6, <2>7, <2>8, <2>9, <2>10, <2>11
       DEF MainNext
<1>3. CASE ClientNext
  <2>1. CASE Destroy
    BY <2>1, <1>f DEF Destroy
  <2> QED
    BY <1>3, <2>1, <1>f DEF ClientNext, SubmitJob, WaitCompletion
<1>4. ASSUME NEW t \in Workers \cup {Main}, SpuriousWakeup(t) PROVE WakeInv'
  BY <1>4 DEF SpuriousWakeup, WakeInv, NoLostWakeup
<1>5. CASE Freed
  BY <1>5 DEF Freed, vars, WakeInv, NoLostWakeup
<1> QED
  BY <1>1, <1>2, <1>3, <1>4, <1>5 DEF Next

-----------------------------------------------------------------------------
LEMMA InitInv == Init => IInv
<1> SUFFICES ASSUME Init PROVE IInv
  OBVIOUS
<1> USE ThreadPoolAssumption DEF Init, Workers, Main, Free
<1>1. TypeInv
  BY TypeInit
<1>2. LockInv
  BY DEF LockInv
<1>3. WorkersInv
  <2>1. /\ \A w \in Workers : wpc[w] = "none" /\ w >= 1
        /\ worker_threads_count \in Nat /\ m_idx = 1
    OBVIOUS
  <2>2. CASE worker_threads_count > 0
    <3>1. pooled /\ mpc = "create"
      BY <2>2
    <3> QED
      BY <2>1, <3>1 DEF WorkersInv
  <2>3. CASE worker_threads_count = 0
    <3>2. pooled <=> worker_threads_count > 0
      OBVIOUS
    <3>3. ~pooled
      BY <2>3, <3>2
    <3>4. mpc = (IF pooled THEN "create" ELSE "idle")
      OBVIOUS
    <3>1. ~pooled /\ mpc = "idle"
      BY <3>3, <3>4
    <3> QED
      BY <2>1, <2>3, <3>1 DEF WorkersInv
  <2> QED
    BY <2>1, <2>2, <2>3
<1>4. CountInv
  <2>1. Unaccounted = {}
    BY DEF Unaccounted
  <2>2. PendingExact
    BY <2>1, FS_EmptySet, EmptySeq DEF PendingExact
  <2>3. QueueBounded
    BY DEF QueueBounded
  <2> QED
    BY <2>2, <2>3 DEF CountInv
<1>5. WakeInv
  BY DEF WakeInv, NoLostWakeup, BeingWoken
<1> QED
  BY <1>1, <1>2, <1>3, <1>4, <1>5 DEF IInv

LEMMA NextInv == IInv /\ [Next]_vars => IInv'
<1> SUFFICES ASSUME IInv, [Next]_vars PROVE IInv'
  OBVIOUS
<1>1. CASE Next
  <2>1. TypeInv'
    BY TypeStep DEF IInv
  <2> QED
    BY <1>1, <2>1, LockStep, WorkersStep, CountStep, WakeStep DEF IInv
<1>2. CASE UNCHANGED vars
  BY <1>2 DEF vars, poolState, syncState, workerState, mainState, history, IInv,
              TypeInv, TypeOK, HoldsJob, LockInv, WorkersInv, CountInv, WakeInv,
              PendingExact, Unaccounted, QueueBounded, NoLostWakeup, Awake, BeingWoken
<1> QED
  BY <1>1, <1>2

LEMMA Invariance == Spec => []IInv
BY InitInv, NextInv, PTL DEF Spec

\* pending_jobs_count is exact: main never waits for a job that has finished
\* and never stops waiting for one that has not.
THEOREM PendingCorrect == Spec => []PendingExact
<1>1. IInv => PendingExact
  BY DEF IInv, CountInv
<1> QED
  BY <1>1, Invariance, PTL

\* The queue never grows past the throttle of opj_thread_pool_submit_job.
THEOREM QueueCorrect == Spec => []QueueBounded
<1>1. IInv => QueueBounded
  BY DEF IInv, CountInv
<1> QED
  BY <1>1, Invariance, PTL

\* No wake-up is lost between tp->mutex and the worker's own mutex.
THEOREM WakeCorrect == Spec => []NoLostWakeup
<1>1. IInv => NoLostWakeup
  BY DEF IInv, WakeInv
<1> QED
  BY <1>1, Invariance, PTL

\* Nothing that opj_thread_pool_destroy has freed is touched by a thread.
THEOREM FreeCorrect == Spec => []NoUseAfterFree
<1>1. IInv => NoUseAfterFree
  <2> SUFFICES ASSUME IInv PROVE NoUseAfterFree
    OBVIOUS
  <2>1. mpc \in {"join_signal", "join"} =>
          \A w \in 1..(m_idx - 1) : wpc[w] = "exited"
    BY ThreadPoolAssumption DEF IInv, TypeInv, TypeOK, WorkersInv, Workers
  <2>2. mpc = "freed" =>
          \A w \in Workers : wpc[w] \in {"none", "exited"} /\ w \notin sleepers
    BY DEF IInv, WorkersInv, LockInv
  <2> QED
    BY <2>1, <2>2 DEF NoUseAfterFree
<1> QED
  BY <1>1, Invariance, PTL

-----------------------------------------------------------------------------
(***************************************************************************)
(* Where the jobs are, who waits for work, and the refinement of JobPool:  *)
(* PlaceInv, MarkInv and ConserveInv are each inductive relative to IInv.  *)
(***************************************************************************)
\* Where the jobs are, one position and one worker at a time.
PlaceInv ==
  /\ done \subseteq submitted
  /\ \A i, k \in 1..Len(job_queue) : job_queue[i] = job_queue[k] => i = k
  /\ \A i \in 1..Len(job_queue) : job_queue[i] \in submitted \ done
  /\ \A w \in Running : cur_job[w] \in submitted \ done
  /\ \A w, v \in Running : cur_job[w] = cur_job[v] => w = v
  /\ \A w \in Running : \A i \in 1..Len(job_queue) : cur_job[w] # job_queue[i]
  /\ mpc \in {"alloc", "submit"} => m_job \notin submitted
  /\ mpc = "inline" => ~pooled /\ m_job \in submitted \ done
  /\ ~pooled => m_max = 0
  /\ \A j \in submitted \ done :
       \/ \E i \in 1..Len(job_queue) : job_queue[i] = j
       \/ \E w \in Running : cur_job[w] = j
       \/ mpc = "inline" /\ m_job = j

Marked == {w \in Workers : marked_as_waiting[w]}

MarkInv ==
  /\ waiting_count = Cardinality(Marked)
  /\ \A w \in Workers : marked_as_waiting[w] => wpc[w] # "none"

\* The workers on the waiting list that have been woken all the same.
Strayed == {w \in Listed : wpc[w] \notin {"park", "parked"} /\ w \notin sleepers}
\* Those that are free, and on their way to the queue.
Coming == {w \in Workers : wpc[w] \notin {"none", "run", "exited"}} \ Listed

ConserveInv ==
  /\ spurious <= MaxSpurious
  /\ mpc = "handoff" => m_idx \notin Listed
  /\ mpc = "signal" /\ m_idx \in Listed => m_idx \notin sleepers /\ wpc[m_idx] \in {"lock", "run", "park"}
  /\ state # "STOP" =>
       /\ Cardinality(Strayed) <= MaxSpurious - spurious
       /\ waiting_list # <<>> =>
            Len(job_queue) + Cardinality(Strayed) <= Cardinality(Coming) + (MaxSpurious - spurious)

\* The facts about types the proofs below keep needing.
LEMMA PoolTypes ==
  ASSUME IInv
  PROVE  /\ wpc \in [Workers -> WorkerPlaces]
         /\ cur_job \in [Workers -> Jobs \cup {NoJob}]
         /\ job_finished \in [Workers -> BOOLEAN]
         /\ marked_as_waiting \in [Workers -> BOOLEAN]
         /\ job_queue \in Seq(Jobs) /\ Len(job_queue) \in Nat
         /\ waiting_list \in Seq(Workers) /\ Len(waiting_list) \in Nat
         /\ pending_jobs_count \in Nat /\ waiting_count \in Int
         /\ worker_threads_count \in 0..MaxThreads
         /\ m_max \in Nat /\ m_idx \in 1..(MaxThreads + 1)
         /\ submitted \subseteq Jobs /\ done \subseteq Jobs
         /\ MaxThreads \in Nat
         /\ \A i \in 1..Len(job_queue) : job_queue[i] \in Jobs
         /\ \A i \in 1..Len(waiting_list) : waiting_list[i] \in Workers
BY ThreadPoolAssumption, PendingNat, LenProperties, ElementOfSeq
   DEF IInv, TypeInv, TypeOK, CountInv

(* Without worker threads nothing is queued and no worker runs a job.      *)
LEMMA NoThreads ==
  ASSUME IInv, ~pooled
  PROVE  job_queue = <<>> /\ Len(job_queue) = 0 /\ Running = {}
<1>1. pending_jobs_count = 0
  BY DEF IInv, CountInv
<1>2. job_queue = <<>>
  BY <1>1, StoppedEmpty DEF IInv
<1>3. \A w \in Workers : wpc[w] = "none"
  BY PoolTypes DEF IInv, WorkersInv, Workers
<1> QED
  BY <1>2, <1>3, EmptySeq DEF Running

(* The jobs stay where they are.                                           *)
LEMMA PlaceKept ==
  ASSUME PlaceInv, UNCHANGED <<job_queue, submitted, done, pooled>>, Running' = Running,
         \A w \in Running : cur_job'[w] = cur_job[w],
         mpc' = "inline" <=> mpc = "inline",
         mpc = "inline" => m_job' = m_job,
         mpc' \in {"alloc", "submit"} => m_job' \notin submitted,
         ~pooled => m_max' = 0
  PROVE  PlaceInv'
BY DEF PlaceInv

LEMMA PlaceInit == Init => PlaceInv
BY EmptySeq DEF Init, PlaceInv, Running

LEMMA PlaceTakes ==
  ASSUME IInv, PlaceInv, NEW w \in Workers, TakeJob(w)
  PROVE  /\ PlaceInv'
         /\ Running' = Running \cup {w} /\ w \notin Running
         /\ cur_job' = [cur_job EXCEPT ![w] = job_queue[1]]
         /\ Len(job_queue) > 0
<1>0. /\ wpc[w] = "lock" /\ job_queue # <<>>
      /\ wpc' = [wpc EXCEPT ![w] = "run"]
      /\ cur_job' = [cur_job EXCEPT ![w] = Head(job_queue)]
      /\ job_queue' = Tail(job_queue)
      /\ UNCHANGED <<submitted, done, pooled, mpc, m_job, m_max>>
  BY Zenon DEF TakeJob, InGetNextJob, mainState, history
<1>1. /\ Len(job_queue) \in Nat /\ Len(job_queue) > 0 /\ Head(job_queue) = job_queue[1]
      /\ Len(job_queue') = Len(job_queue) - 1
      /\ \A i \in 1..Len(job_queue') : job_queue'[i] = job_queue[i + 1]
  BY <1>0, PoolTypes, HeadTailProperties, EmptySeq
<1>2. /\ Running' = Running \cup {w} /\ w \notin Running
      /\ cur_job'[w] = job_queue[1]
      /\ \A v \in Running : cur_job'[v] = cur_job[v]
  BY <1>0, <1>1, PoolTypes DEF Running
<1>3. /\ \A i, k \in 1..Len(job_queue') : job_queue'[i] = job_queue'[k] => i = k
      /\ \A i \in 1..Len(job_queue') : job_queue'[i] \in submitted \ done /\ job_queue'[i] # job_queue[1]
  BY <1>1 DEF PlaceInv
<1>4. job_queue[1] \in submitted \ done /\ \A v \in Running : cur_job[v] # job_queue[1]
  BY <1>1 DEF PlaceInv
<1>5. /\ \A v \in Running' : cur_job'[v] \in submitted \ done
      /\ \A u, v \in Running' : cur_job'[u] = cur_job'[v] => u = v
  BY <1>2, <1>4 DEF PlaceInv
<1>6. \A v \in Running' : \A i \in 1..Len(job_queue') : cur_job'[v] # job_queue'[i]
  <2> SUFFICES ASSUME NEW v \in Running', NEW i \in 1..Len(job_queue')
               PROVE  cur_job'[v] # job_queue'[i]
    OBVIOUS
  <2>1. CASE v = w
    BY <1>2, <1>3, <2>1
  <2>2. CASE v \in Running
    <3>1. i + 1 \in 1..Len(job_queue)
      BY <1>1
    <3> QED
      BY <1>1, <1>2, <2>2, <3>1 DEF PlaceInv
  <2> QED
    BY <1>2, <2>1, <2>2
<1>7. ASSUME NEW j \in submitted \ done
      PROVE  \/ \E i \in 1..Len(job_queue') : job_queue'[i] = j
             \/ \E v \in Running' : cur_job'[v] = j
             \/ mpc = "inline" /\ m_job = j
  <2>1. CASE \E i \in 1..Len(job_queue) : job_queue[i] = j
    <3>1. PICK i \in 1..Len(job_queue) : job_queue[i] = j
      BY <2>1
    <3>2. CASE i = 1
      BY <1>2, <3>1, <3>2
    <3>3. CASE i # 1
      <4>1. i - 1 \in 1..Len(job_queue') /\ job_queue'[i - 1] = j
        BY <1>1, <3>1, <3>3
      <4> QED
        BY <4>1
    <3> QED
      BY <3>2, <3>3
  <2>2. CASE \E v \in Running : cur_job[v] = j
    BY <1>2, <2>2
  <2> QED
    BY <2>1, <2>2 DEF PlaceInv
<1> QED
  BY <1>0, <1>1, <1>2, <1>3, <1>5, <1>6, <1>7 DEF PlaceInv

LEMMA PlaceRuns ==
  ASSUME IInv, PlaceInv, NEW w \in Workers, RunJob(w)
  PROVE  /\ PlaceInv' /\ w \in Running /\ Running' = Running \ {w}
         /\ \A v \in Running' : cur_job'[v] = cur_job[v]
         /\ done' = done \cup {cur_job[w]} /\ UNCHANGED <<submitted, mpc, m_job, m_max, destroying>>
<1>1. /\ wpc[w] = "run" /\ wpc' = [wpc EXCEPT ![w] = "lock"]
      /\ cur_job' = [cur_job EXCEPT ![w] = NoJob]
      /\ done' = done \cup {cur_job[w]}
      /\ UNCHANGED <<job_queue, submitted, pooled, mpc, m_job, m_max, destroying>>
  BY DEF RunJob, poolState, mainState
<1>2. /\ w \in Running /\ Running' = Running \ {w}
      /\ \A v \in Running' : cur_job'[v] = cur_job[v]
  BY <1>1, PoolTypes DEF Running
<1>3. mpc # "inline"
  BY <1>2, NoThreads DEF PlaceInv
<1>4. PlaceInv'
  BY <1>1, <1>2, <1>3 DEF PlaceInv
<1> QED
  BY <1>1, <1>2, <1>4

LEMMA PlaceEnqueues ==
  ASSUME IInv, PlaceInv, Enqueue
  PROVE  PlaceInv'
<1>1. /\ mpc = "submit" /\ mpc' \in {"handoff", "idle"}
      /\ job_queue' = <<m_job>> \o job_queue
      /\ submitted' = submitted \cup {m_job}
      /\ UNCHANGED <<done, pooled, m_job, m_max, wpc, cur_job>>
  BY Zenon DEF Enqueue, MainLooks
<1>2. m_job \in Jobs /\ m_job \notin submitted
  BY <1>1 DEF IInv, TypeInv, HoldsJob, PlaceInv
<1>3. /\ Len(job_queue) \in Nat /\ Len(job_queue') = Len(job_queue) + 1
      /\ \A i \in 1..Len(job_queue') :
           job_queue'[i] = IF i = 1 THEN m_job ELSE job_queue[i - 1]
  BY <1>1, <1>2, PoolTypes, ConcatProperties
<1>4. Running' = Running /\ pooled'
  <2>1. pooled
    BY <1>1 DEF IInv, CountInv
  <2> QED
    BY <1>1, <2>1 DEF Running
<1>5. /\ \A i, k \in 1..Len(job_queue') : job_queue'[i] = job_queue'[k] => i = k
      /\ \A i \in 1..Len(job_queue') : job_queue'[i] \in submitted' \ done
  BY <1>1, <1>2, <1>3 DEF PlaceInv
<1>6. \A w \in Running : \A i \in 1..Len(job_queue') : cur_job[w] # job_queue'[i]
  BY <1>2, <1>3 DEF PlaceInv
<1>7. ASSUME NEW j \in submitted' \ done
      PROVE  \/ \E i \in 1..Len(job_queue') : job_queue'[i] = j
             \/ \E w \in Running : cur_job[w] = j
  <2>1. CASE j = m_job
    <3>1. 1 \in 1..Len(job_queue') /\ job_queue'[1] = j
      BY <1>3, <2>1
    <3> QED
      BY <3>1
  <2>2. CASE \E i \in 1..Len(job_queue) : job_queue[i] = j
    <3>1. PICK i \in 1..Len(job_queue) : job_queue[i] = j
      BY <2>2
    <3>2. i + 1 \in 1..Len(job_queue') /\ job_queue'[i + 1] = j
      BY <1>3, <3>1
    <3> QED
      BY <3>2
  <2> QED
    BY <1>1, <2>1, <2>2 DEF PlaceInv
<1> QED
  BY <1>1, <1>2, <1>4, <1>5, <1>6, <1>7 DEF PlaceInv

(* A pool without threads runs the job in the caller.                      *)
LEMMA PlaceInline ==
  ASSUME IInv, PlaceInv, SubmitInline \/ InlineReturns
  PROVE  /\ PlaceInv' /\ Running = {} /\ Running' = {} /\ m_job \in Jobs
         /\ m_job' = m_job /\ m_max' = m_max
<1>1. ~pooled /\ Running = {} /\ Len(job_queue) = 0
  BY NoThreads DEF PlaceInv, SubmitInline, InlineReturns
<1>2. /\ UNCHANGED <<job_queue, pooled, m_job, m_max>> /\ Running' = {}
      /\ m_job \in Jobs
  BY <1>1 DEF SubmitInline, InlineReturns, poolState, workerState, Running, IInv, TypeInv, HoldsJob
<1>3. CASE SubmitInline
  <2>1. mpc = "alloc" /\ mpc' = "inline" /\ submitted' = submitted \cup {m_job} /\ done' = done
    BY <1>3 DEF SubmitInline
  <2> QED
    BY <1>1, <1>2, <2>1 DEF PlaceInv
<1>4. CASE InlineReturns
  <2>1. mpc = "inline" /\ mpc' = "idle" /\ done' = done \cup {m_job} /\ submitted' = submitted
    BY <1>4 DEF InlineReturns
  <2> QED
    BY <1>1, <1>2, <2>1 DEF PlaceInv
<1> QED
  BY <1>1, <1>2, <1>3, <1>4

\* A step that neither moves a job nor lets main into or out of one.
JobsRest ==
  /\ UNCHANGED <<job_queue, submitted, done, pooled, cur_job>>
  /\ \A w \in Workers : wpc'[w] = "run" <=> wpc[w] = "run"
  /\ \/ mpc # "inline" /\ mpc' # "inline"
     \/ UNCHANGED <<mpc, m_job>>

LEMMA RestingJobs ==
  ASSUME JobsRest
  PROVE  Running' = Running /\ AbsRunning' = AbsRunning
<1>1. Running' = Running
  BY DEF JobsRest, Running
<1> QED
  BY <1>1 DEF JobsRest, AbsRunning

LEMMA WorkerRests ==
  ASSUME IInv, NEW w \in Workers,
         Stop(w) \/ GoIdle(w) \/ GoIdleFails(w) \/ Park(w) \/ CondWait(w) \/ Wake(w)
  PROVE  JobsRest /\ UNCHANGED <<mpc, m_job, m_max, destroying>>
<1> USE PoolTypes DEF JobsRest, poolState, syncState, mainState, history, InGetNextJob
<1>1. CASE Stop(w)
  BY <1>1 DEF Stop
<1>2. CASE GoIdle(w)
  BY <1>2 DEF GoIdle
<1>3. CASE GoIdleFails(w)
  BY <1>3 DEF GoIdleFails
<1>4. CASE Park(w) \/ CondWait(w) \/ Wake(w)
  BY <1>4 DEF Park, CondWait, Wake
<1> QED
  BY <1>1, <1>2, <1>3, <1>4

(* The worker opj_thread_pool_setup starts is one that does not exist yet. *)
LEMMA NewWorker ==
  ASSUME IInv, CreateWorker
  PROVE  mpc = "create" /\ m_idx \in Workers /\ wpc[m_idx] = "none"
<1>1. mpc = "create" /\ m_idx <= worker_threads_count
  BY DEF CreateWorker
<1>2. m_idx \in Workers
  BY <1>1, PoolTypes DEF Workers
<1>3. wpc[m_idx] = "none" <=> m_idx >= m_idx
  BY <1>1, <1>2 DEF IInv, WorkersInv
<1> QED
  BY <1>1, <1>2, <1>3, PoolTypes

(* The steps of main that neither submit nor run a job.                    *)
MainRestNext ==
  \/ CreateWorker \/ CreateWorkerFails \/ WorkersCreated
  \/ SetupSleep \/ SetupReady \/ SetupReturns
  \/ SubmitFails \/ SubmitAllocated \/ SubmitSleep
  \/ Handoff \/ SignalWorker
  \/ WaitSleep \/ WaitReturns
  \/ DestroyStop \/ JoinSignal \/ Join \/ FreePool

LEMMA MainRests ==
  ASSUME IInv, MainRestNext
  PROVE  /\ JobsRest /\ UNCHANGED <<m_job, m_max>>
         /\ mpc' \in {"alloc", "submit"} => mpc \in {"alloc", "submit"}
<1> USE DEF JobsRest, poolState, syncState, workerState, mainState, history, MainSleeps
<1>1. CASE CreateWorker
  <2>1. mpc = "create" /\ wpc[m_idx] = "none"
    BY <1>1, NewWorker
  <2> QED
    BY <1>1, <2>1, PoolTypes DEF CreateWorker
<1>2. CASE CreateWorkerFails \/ WorkersCreated
  BY <1>2 DEF CreateWorkerFails, WorkersCreated
<1>3. CASE SetupSleep \/ SubmitSleep \/ WaitSleep
  BY <1>3 DEF SetupSleep, SubmitSleep, WaitSleep, MainLooks
<1>4. CASE SetupReady \/ SetupReturns
  BY <1>4 DEF SetupReady, SetupReturns, MainLooks
<1>5. CASE SubmitFails \/ SubmitAllocated \/ Handoff \/ SignalWorker
  BY <1>5 DEF SubmitFails, SubmitAllocated, Handoff, SignalWorker
<1>6. CASE WaitReturns
  BY <1>6 DEF WaitReturns, MainLooks
<1>7. CASE DestroyStop \/ JoinSignal \/ Join \/ FreePool
  BY <1>7 DEF DestroyStop, JoinSignal, Join, FreePool
<1> QED
  BY <1>1, <1>2, <1>3, <1>4, <1>5, <1>6, <1>7 DEF MainRestNext

LEMMA ClientRests ==
  ASSUME ClientNext
  PROVE  /\ JobsRest /\ mpc = "idle" /\ mpc' # "submit"
         /\ mpc' = "alloc" => m_job' \notin submitted
         /\ ~pooled => m_max' \in {0, m_max}
BY DEF ClientNext, SubmitJob, WaitCompletion, Destroy, JobsRest, poolState, syncState, workerState,
       history

LEMMA OtherRests ==
  ASSUME UNCHANGED vars \/ \E t \in Workers \cup {Main} : SpuriousWakeup(t)
  PROVE  JobsRest /\ UNCHANGED <<mpc, m_job, m_max, destroying>>
BY DEF JobsRest, SpuriousWakeup, vars, poolState, syncState, workerState, mainState, history

LEMMA PlaceStep == IInv /\ PlaceInv /\ [Next]_vars => PlaceInv'
<1> SUFFICES ASSUME IInv, PlaceInv, [Next]_vars
             PROVE  PlaceInv'
  OBVIOUS
<1>1. ASSUME JobsRest, ~pooled => m_max' \in {0, m_max},
             mpc' \in {"alloc", "submit"} => m_job' \notin submitted
      PROVE  PlaceInv'
  BY <1>1, RestingJobs, PlaceKept DEF JobsRest, Running, PlaceInv
<1>2. ASSUME NEW w \in Workers, WorkerNext(w)
      PROVE  PlaceInv'
  <2>1. ASSUME JobsRest, UNCHANGED <<mpc, m_job, m_max>>
        PROVE  PlaceInv'
    BY <1>1, <2>1 DEF PlaceInv, JobsRest
  <2> QED
    BY <1>2, <2>1, WorkerRests, PlaceTakes, PlaceRuns DEF WorkerNext
<1>3. CASE MainNext
  <2>1. CASE MainRestNext
    BY <1>1, <2>1, MainRests DEF PlaceInv, JobsRest
  <2> QED
    BY <1>3, <2>1, PlaceInline, PlaceEnqueues DEF MainNext, MainRestNext
<1>4. CASE ClientNext
  BY <1>1, <1>4, ClientRests
<1>5. CASE UNCHANGED vars \/ \E t \in Workers \cup {Main} : SpuriousWakeup(t)
  BY <1>1, <1>5, OtherRests DEF PlaceInv, JobsRest
<1> QED
  BY <1>2, <1>3, <1>4, <1>5 DEF Next, Freed

LEMMA PoolInvariance == Spec => [](IInv /\ PlaceInv)
<1>1. Init => IInv /\ PlaceInv
  BY InitInv, PlaceInit
<1>2. IInv /\ PlaceInv /\ [Next]_vars => IInv' /\ PlaceInv'
  BY NextInv, PlaceStep
<1> QED
  BY <1>1, <1>2, PTL DEF Spec

-----------------------------------------------------------------------------
(* The jobs in the queue, and those that run.                              *)
LEMMA QueuedJobs ==
  ASSUME IInv, PlaceInv
  PROVE  /\ \A j : j \in ToSet(job_queue) <=> \E i \in 1..Len(job_queue) : job_queue[i] = j
         /\ IsInjective(job_queue)
         /\ IsFiniteSet(ToSet(job_queue)) /\ Cardinality(ToSet(job_queue)) <= Len(job_queue)
         /\ Cardinality(ToSet(job_queue)) \in Nat
<1>1. DOMAIN job_queue = 1..Len(job_queue)
  BY PoolTypes, LenProperties
<1>2. \A j : j \in ToSet(job_queue) <=> \E i \in 1..Len(job_queue) : job_queue[i] = j
  BY <1>1 DEF ToSet
<1>3. IsInjective(job_queue)
  BY <1>1 DEF IsInjective, PlaceInv
<1>4. IsFiniteSet(1..Len(job_queue)) /\ Cardinality(1..Len(job_queue)) = Len(job_queue)
  <2>1. Len(job_queue) \in Int /\ 1 \in Int /\ Len(job_queue) >= 0
    BY PoolTypes
  <2>2. /\ IsFiniteSet(1..Len(job_queue))
        /\ Cardinality(1..Len(job_queue)) =
             IF 1 > Len(job_queue) THEN 0 ELSE Len(job_queue) - 1 + 1
    BY <2>1, FS_Interval, Zenon
  <2> QED
    BY <2>1, <2>2
<1>5. job_queue \in Surjection(1..Len(job_queue), ToSet(job_queue))
  <2>1. job_queue \in [1..Len(job_queue) -> Jobs]
    BY PoolTypes, LenProperties
  <2>2. job_queue \in [1..Len(job_queue) -> ToSet(job_queue)]
    BY <1>2, <2>1
  <2> QED
    BY <1>2, <2>2 DEF Surjection
<1> QED
  BY <1>2, <1>3, <1>4, <1>5, FS_Surjection, FS_CardinalityType

RunByWorkers == {cur_job[w] : w \in Running}

LEMMA RunningJobs ==
  ASSUME PlaceInv
  PROVE  /\ IsFiniteSet(Running) /\ Cardinality(Running) \in Nat
         /\ IsFiniteSet(RunByWorkers) /\ Cardinality(RunByWorkers) = Cardinality(Running)
<1> DEFINE f == [w \in Running |-> cur_job[w]]
<1>1. IsFiniteSet(Running) /\ Cardinality(Running) \in Nat
  BY UnaccountedFinite DEF Running
<1>2. f \in [Running -> RunByWorkers]
  BY DEF RunByWorkers
<1>3. f \in Bijection(Running, RunByWorkers)
  <2>1. \A w, v \in Running : f[w] = f[v] => w = v
    BY DEF PlaceInv
  <2>2. \A j \in RunByWorkers : \E w \in Running : f[w] = j
    BY DEF RunByWorkers
  <2> QED
    BY <1>2, <2>1, <2>2 DEF Bijection, Injection, Surjection, IsInjective
<1>4. ExistsBijection(Running, RunByWorkers)
  BY <1>3 DEF ExistsBijection
<1> QED
  BY <1>1, <1>4, FS_Bijection

(* opj_thread_pool_submit_job and the queue: an accepted job is queued     *)
(* once, or run by one thread, or done, and it is never lost.              *)
THEOREM JobsCorrect == Spec => []JobPlacedOnce
<1>1. ASSUME IInv, PlaceInv
      PROVE  JobPlacedOnce
  <2> DEFINE queued == ToSet(job_queue)
             inline == IF mpc = "inline" THEN {m_job} ELSE {}
             run == {cur_job[w] : w \in Running} \cup inline
  <2>1. mpc = "inline" => Running = {}
    BY <1>1, NoThreads DEF PlaceInv
  <2>2. Cardinality(run) = Cardinality(Running) + Cardinality(inline)
    <3>1. CASE mpc = "inline"
      <4>1. run = inline /\ Cardinality(Running) = 0 /\ Cardinality(inline) = 1
        BY <2>1, <3>1, FS_EmptySet, FS_Singleton
      <4> QED
        BY <4>1
    <3>2. CASE mpc # "inline"
      <4>1. run = RunByWorkers
        BY <3>2 DEF RunByWorkers
      <4>2. Cardinality(inline) = 0
        BY <3>2, FS_EmptySet
      <4>3. Cardinality(RunByWorkers) = Cardinality(Running) /\ Cardinality(Running) \in Nat
        BY <1>1, RunningJobs
      <4>4. Cardinality(run) = Cardinality(Running)
        BY <4>1, <4>3, Zenon
      <4> HIDE DEF run, inline
      <4> QED
        BY <4>2, <4>3, <4>4
    <3> QED
      BY <3>1, <3>2
  <2>3. queued \cap run = {} /\ queued \cap done = {} /\ run \cap done = {}
    <3>1. mpc = "inline" => Len(job_queue) = 0
      BY <1>1, NoThreads DEF PlaceInv
    <3> QED
      BY <1>1, <3>1, QueuedJobs DEF PlaceInv
  <2>4. submitted = queued \cup run \cup done
    BY <1>1, QueuedJobs DEF PlaceInv
  <2>5. IsInjective(job_queue)
    BY <1>1, QueuedJobs
  <2> QED
    BY <2>2, <2>3, <2>4, <2>5 DEF JobPlacedOnce
<1> QED
  BY <1>1, PoolInvariance, PTL

-----------------------------------------------------------------------------
(* The pool implements JobPool.                                            *)
LEMMA OutstandingIs ==
  ASSUME IInv, PlaceInv
  PROVE  JP!Outstanding = ToSet(job_queue) \cup AbsRunning
BY QueuedJobs DEF JP!Outstanding, AbsRunning, PlaceInv, Running

(* No more jobs are outstanding than opj_thread_pool_wait_completion       *)
(* counts.                                                                 *)
LEMMA OutstandingCounted ==
  ASSUME IInv, PlaceInv, mpc # "inline"
  PROVE  /\ IsFiniteSet(JP!Outstanding)
         /\ Cardinality(JP!Outstanding) \in Nat
         /\ Cardinality(JP!Outstanding) <= pending_jobs_count
<1>1. JP!Outstanding = ToSet(job_queue) \cup RunByWorkers
  BY OutstandingIs DEF AbsRunning, RunByWorkers
<1>2. /\ IsFiniteSet(JP!Outstanding)
      /\ Cardinality(JP!Outstanding) =
           Cardinality(ToSet(job_queue)) + Cardinality(RunByWorkers)
             - Cardinality(ToSet(job_queue) \cap RunByWorkers)
  BY <1>1, QueuedJobs, RunningJobs, FS_Union
<1>3. Cardinality(ToSet(job_queue) \cap RunByWorkers) \in Nat
  BY QueuedJobs, FS_Intersection, FS_CardinalityType
<1>4. Cardinality(Running) <= Cardinality(Unaccounted) /\ Cardinality(Unaccounted) \in Nat
  <2>1. IsFiniteSet(Unaccounted) /\ Cardinality(Unaccounted) \in Nat
    BY UnaccountedFinite DEF Unaccounted
  <2>2. Running \in SUBSET Unaccounted
    BY DEF Running, Unaccounted
  <2> QED
    BY <2>1, <2>2, FS_Subset
<1>5. pending_jobs_count = Len(job_queue) + Cardinality(Unaccounted)
  BY DEF IInv, CountInv, PendingExact
<1>6. Cardinality(JP!Outstanding) \in Nat
  BY <1>2, FS_CardinalityType
<1> QED
  BY <1>2, <1>3, <1>4, <1>5, <1>6, QueuedJobs, RunningJobs, PoolTypes

LEMMA SimInit == Init => JP!PoolInit
<1> SUFFICES ASSUME Init
             PROVE  JP!PoolInit
  OBVIOUS
<1>1. Running = {} /\ mpc \in {"create", "idle"} /\ m_max = 0 /\ submitted = {} /\ done = {}
  BY DEF Init, Running
<1>2. AbsRunning = {} /\ AbsPhase = "open"
  BY <1>1 DEF AbsRunning, AbsPhase
<1> QED
  BY <1>1, <1>2 DEF JP!PoolInit

(* A step that moves no job and does not change the phase stutters.        *)
LEMMA SimRests ==
  ASSUME JobsRest, m_max' = m_max, AbsPhase' = AbsPhase
  PROVE  UNCHANGED JP!poolVars
BY RestingJobs DEF JobsRest, JP!poolVars

LEMMA SimWorker ==
  ASSUME IInv, PlaceInv, NEW w \in Workers, WorkerNext(w)
  PROVE  [JP!PoolNext]_(JP!poolVars)
<1>1. CASE Stop(w) \/ GoIdle(w) \/ GoIdleFails(w) \/ Park(w) \/ CondWait(w) \/ Wake(w)
  BY <1>1, WorkerRests, SimRests DEF AbsPhase
<1>2. CASE TakeJob(w)
  <2> DEFINE j == job_queue[1]
  <2>1. /\ Running' = Running \cup {w} /\ w \notin Running
        /\ cur_job' = [cur_job EXCEPT ![w] = j]
        /\ 1 \in 1..Len(job_queue)
        /\ UNCHANGED <<submitted, done, mpc, m_job, m_max, destroying>>
    <3>1. UNCHANGED <<submitted, done, mpc, m_job, m_max, destroying>>
      BY <1>2, Zenon DEF TakeJob, mainState, history
    <3> QED
      BY <1>2, <3>1, PlaceTakes, PoolTypes
  <2>2. j \in Jobs /\ j \in JP!Outstanding /\ j \notin AbsRunning
    <3>1. mpc # "inline"
      BY <2>1, NoThreads, PoolTypes DEF PlaceInv
    <3> QED
      BY <2>1, <3>1, PoolTypes DEF PlaceInv, JP!Outstanding, AbsRunning
  <2>3. AbsRunning' = AbsRunning \cup {j}
    <3>1. cur_job'[w] = j /\ \A v \in Running : cur_job'[v] = cur_job[v]
      BY <2>1, PoolTypes DEF Running
    <3> QED
      BY <2>1, <3>1 DEF AbsRunning
  <2>4. JP!Start(j)
    BY <2>1, <2>2, <2>3 DEF JP!Start, AbsPhase
  <2> QED
    BY <2>2, <2>4 DEF JP!PoolNext
<1>3. CASE RunJob(w)
  <2> DEFINE j == cur_job[w]
  <2>1. /\ w \in Running /\ Running' = Running \ {w}
        /\ \A v \in Running' : cur_job'[v] = cur_job[v]
        /\ done' = done \cup {j} /\ UNCHANGED <<submitted, mpc, m_job, m_max, destroying>>
    BY <1>3, PlaceRuns
  <2>2. mpc # "inline" /\ j \in Jobs
    BY <2>1, NoThreads, PoolTypes DEF PlaceInv
  <2>3. AbsRunning' = AbsRunning \ {j} /\ j \in AbsRunning
    BY <2>1, <2>2 DEF AbsRunning, PlaceInv
  <2>4. JP!Finish(j)
    BY <2>1, <2>3 DEF JP!Finish, AbsPhase
  <2> QED
    BY <2>2, <2>4 DEF JP!PoolNext
<1> QED
  BY <1>1, <1>2, <1>3 DEF WorkerNext

LEMMA SimSubmit ==
  ASSUME IInv, PlaceInv, SubmitInline \/ InlineReturns \/ Enqueue
  PROVE  JP!PoolNext
<1>1. CASE SubmitInline
  <2>1. /\ Running = {} /\ Running' = {} /\ m_job \in Jobs /\ m_job' = m_job /\ m_max' = m_max
        /\ mpc = "alloc" /\ mpc' = "inline"
        /\ submitted' = submitted \cup {m_job} /\ done' = done
    BY <1>1, PlaceInline DEF SubmitInline
  <2>2. AbsRunning = {} /\ AbsRunning' = {m_job} /\ AbsPhase = "open" /\ AbsPhase' = "open"
    BY <2>1 DEF AbsRunning, AbsPhase
  <2>3. JP!Submit(m_job)
    BY <2>1, <2>2 DEF JP!Submit, PlaceInv
  <2> QED
    BY <2>1, <2>3 DEF JP!PoolNext
<1>2. CASE InlineReturns
  <2>1. /\ Running = {} /\ Running' = {} /\ m_job \in Jobs /\ m_job' = m_job /\ m_max' = m_max
        /\ mpc = "inline" /\ mpc' = "idle"
        /\ done' = done \cup {m_job} /\ submitted' = submitted
    BY <1>2, PlaceInline DEF InlineReturns
  <2>2. AbsRunning = {m_job} /\ AbsRunning' = {} /\ AbsPhase = "open" /\ AbsPhase' = "open"
    BY <2>1 DEF AbsRunning, AbsPhase
  <2>3. JP!Finish(m_job)
    BY <2>1, <2>2 DEF JP!Finish
  <2> QED
    BY <2>1, <2>3 DEF JP!PoolNext
<1>3. CASE Enqueue
  <2>1. /\ mpc = "submit" /\ mpc' \in {"handoff", "idle"}
        /\ submitted' = submitted \cup {m_job}
        /\ UNCHANGED <<done, m_job, m_max, wpc, cur_job>>
    BY <1>3, Zenon DEF Enqueue, MainLooks
  <2>2. m_job \in Jobs /\ m_job \notin submitted
    BY <2>1 DEF IInv, TypeInv, HoldsJob, PlaceInv
  <2>3. AbsRunning' = AbsRunning /\ AbsPhase = "open" /\ AbsPhase' = "open"
    BY <2>1 DEF AbsRunning, AbsPhase, Running
  <2>4. JP!Submit(m_job)
    BY <2>1, <2>2, <2>3 DEF JP!Submit
  <2> QED
    BY <2>2, <2>4 DEF JP!PoolNext
<1> QED
  BY <1>1, <1>2, <1>3

(* opj_thread_pool_wait_completion and the wait of                         *)
(* opj_thread_pool_destroy come back when the count allows it.             *)
LEMMA SimReturns ==
  ASSUME IInv, PlaceInv, WaitReturns
  PROVE  JP!PoolNext
<1>1. /\ mpc = "wait" /\ pending_jobs_count <= m_max
      /\ mpc' = IF destroying THEN "stop" ELSE "idle"
      /\ UNCHANGED <<m_max, destroying>> /\ JobsRest
  BY MainRests DEF WaitReturns, MainLooks, MayReturn, MainRestNext
<1>2. /\ UNCHANGED <<submitted, done>> /\ AbsRunning' = AbsRunning
  BY <1>1, RestingJobs DEF JobsRest
<1>3. /\ IsFiniteSet(JP!Outstanding) /\ Cardinality(JP!Outstanding) \in Nat
      /\ Cardinality(JP!Outstanding) <= m_max
  BY <1>1, OutstandingCounted, PoolTypes
<1>4. CASE destroying
  <2>1. AbsPhase = "closing" /\ AbsPhase' = "closed" /\ m_max = 0
    BY <1>1, <1>4 DEF AbsPhase, IInv, CountInv
  <2>2. JP!Outstanding = {}
    BY <1>3, <2>1, FS_EmptySet
  <2>3. JP!Closed
    BY <1>1, <1>2, <2>1, <2>2 DEF JP!Closed
  <2> QED
    BY <2>3 DEF JP!PoolNext
<1>5. CASE ~destroying
  <2>1. AbsPhase = "waiting" /\ AbsPhase' = "open"
    BY <1>1, <1>5 DEF AbsPhase
  <2>2. JP!Cardinality(JP!Outstanding) = Cardinality(JP!Outstanding)
    BY DEF JP!Cardinality, Cardinality
  <2>3. JP!WaitReturns
    BY <1>1, <1>2, <1>3, <2>1, <2>2 DEF JP!WaitReturns
  <2> QED
    BY <2>3 DEF JP!PoolNext
<1> QED
  BY <1>4, <1>5

LEMMA SimMain ==
  ASSUME IInv, PlaceInv, MainRestNext, ~WaitReturns
  PROVE  [JP!PoolNext]_(JP!poolVars)
<1>1. JobsRest /\ m_max' = m_max
  BY MainRests
<1>2. CASE AbsPhase' = AbsPhase
  BY <1>1, <1>2, SimRests
<1>3. CASE SetupReturns
  <2>1. mpc = "setup_check" /\ mpc' = (IF bRet' THEN "idle" ELSE "wait") /\ destroying' = ~bRet'
    BY <1>3, Zenon DEF SetupReturns
  <2>2. CASE bRet'
    BY <1>2, <2>1, <2>2 DEF AbsPhase
  <2>3. CASE ~bRet'
    <3>1. AbsPhase = "open" /\ AbsPhase' = "closing"
      BY <2>1, <2>3 DEF AbsPhase
    <3>2. m_max = 0
      BY <2>1 DEF IInv, CountInv
    <3>3. JP!Close
      BY <1>1, <3>1, <3>2, RestingJobs DEF JP!Close, JobsRest
    <3> QED
      BY <3>3 DEF JP!PoolNext
  <2> QED
    BY <2>2, <2>3
<1>4. CASE MainRestNext /\ ~SetupReturns
  <2> USE DEF AbsPhase, mainState, MainSleeps, MainLooks
  <2>1. CASE CreateWorker \/ CreateWorkerFails \/ WorkersCreated \/ SetupReady
    BY <1>2, <2>1 DEF CreateWorker, CreateWorkerFails, WorkersCreated, SetupReady
  <2>2. CASE SetupSleep \/ SubmitSleep \/ WaitSleep
    BY <1>2, <2>2 DEF SetupSleep, SubmitSleep, WaitSleep
  <2>3. CASE SubmitFails \/ SubmitAllocated \/ Handoff \/ SignalWorker
    BY <1>2, <2>3 DEF SubmitFails, SubmitAllocated, Handoff, SignalWorker
  <2>4. CASE DestroyStop \/ JoinSignal \/ Join \/ FreePool
    BY <1>2, <2>4 DEF DestroyStop, JoinSignal, Join, FreePool
  <2> QED
    BY <1>4, <2>1, <2>2, <2>3, <2>4 DEF MainRestNext
<1> QED
  BY <1>3, <1>4

LEMMA SimClient ==
  ASSUME IInv, PlaceInv, ClientNext
  PROVE  [JP!PoolNext]_(JP!poolVars)
<1>1. /\ JobsRest /\ mpc = "idle" /\ ~destroying
      /\ UNCHANGED <<submitted, done>> /\ AbsRunning' = AbsRunning /\ AbsPhase = "open"
  BY ClientRests, RestingJobs DEF JobsRest, AbsPhase, IInv, CountInv
<1>2. ASSUME NEW j \in Jobs, SubmitJob(j)
      PROVE  UNCHANGED JP!poolVars
  BY <1>1, <1>2, SimRests DEF SubmitJob, AbsPhase
<1>3. ASSUME NEW m \in MaxRemaining, WaitCompletion(m)
      PROVE  JP!PoolNext
  <2>1. AbsPhase' = "waiting" /\ m_max' = JP!AtLeastZero(m)
    BY <1>1, <1>3 DEF WaitCompletion, AbsPhase, AtLeastZero, JP!AtLeastZero
  <2>2. JP!WaitFor(m)
    BY <1>1, <2>1 DEF JP!WaitFor
  <2> QED
    BY <2>2 DEF JP!PoolNext
<1>4. CASE Destroy
  <2>1. /\ destroying' = TRUE /\ m_max' = 0
        /\ mpc' = IF pooled THEN "wait" ELSE "freed"
    BY <1>4 DEF Destroy
  <2>2. CASE pooled
    <3>1. AbsPhase' = "closing"
      BY <2>1, <2>2 DEF AbsPhase
    <3>2. JP!Close
      BY <1>1, <2>1, <3>1 DEF JP!Close
    <3> QED
      BY <3>2 DEF JP!PoolNext
  <2>3. CASE ~pooled
    <3>1. AbsPhase' = "closed" /\ m_max = 0
      BY <2>1, <2>3 DEF AbsPhase, PlaceInv
    <3>2. JP!Outstanding = {}
      BY <1>1, <2>3, NoThreads, QueuedJobs, OutstandingIs DEF AbsRunning
    <3>3. JP!Closed
      BY <1>1, <2>1, <3>1, <3>2 DEF JP!Closed
    <3> QED
      BY <3>3 DEF JP!PoolNext
  <2> QED
    BY <2>2, <2>3
<1> QED
  BY <1>2, <1>3, <1>4 DEF ClientNext

LEMMA SimStep == IInv /\ PlaceInv /\ [Next]_vars => [JP!PoolNext]_(JP!poolVars)
<1> SUFFICES ASSUME IInv, PlaceInv, [Next]_vars
             PROVE  [JP!PoolNext]_(JP!poolVars)
  OBVIOUS
<1>1. CASE MainNext
  BY <1>1, SimSubmit, SimReturns, SimMain DEF MainNext, MainRestNext
<1>2. CASE UNCHANGED vars \/ \E t \in Workers \cup {Main} : SpuriousWakeup(t)
  BY <1>2, OtherRests, SimRests DEF AbsPhase
<1> QED
  BY <1>1, <1>2, SimWorker, SimClient DEF Next, Freed

(* opj_thread_pool_t keeps what thread.h promises: each job is run once, a *)
(* wait for m jobs does not come back while more than m are not done, and  *)
(* destroy does not while any is.                                          *)
THEOREM PoolRefinement == Spec => ImplementsJobPool
BY SimInit, PoolInvariance, SimStep, PTL DEF Spec, ImplementsJobPool, JP!PoolSpec

-----------------------------------------------------------------------------
(* Main's own thread number is none of the workers'.                       *)
LEMMA WorkersFinite ==
  /\ Main \notin Workers /\ IsFiniteSet(Workers)
  /\ \A S \in SUBSET Workers : IsFiniteSet(S) /\ Cardinality(S) \in Nat
<1>1. MaxThreads \in Int /\ 1 \in Int /\ Main \notin Workers
  BY ThreadPoolAssumption DEF Main, Workers
<1>2. IsFiniteSet(Workers)
  BY <1>1, FS_Interval, Zenon DEF Workers
<1>3. \A S \in SUBSET Workers : IsFiniteSet(S)
  BY <1>2, FS_Subset
<1> QED
  BY <1>1, <1>2, <1>3, FS_CardinalityType

(* The list of waiting workers as a set.                                   *)
LEMMA ListedAre ==
  ASSUME IInv
  PROVE  /\ \A w : w \in Listed <=> \E i \in 1..Len(waiting_list) : waiting_list[i] = w
         /\ Listed \subseteq Workers
         /\ \A w \in Listed : marked_as_waiting[w]
         /\ state # "STOP" => \A w \in Listed : wpc[w] \notin {"none", "exited"}
         /\ \A w \in Workers :
              marked_as_waiting[w] /\ mpc # "freed" /\ wpc[w] # "exited" => w \in Listed
<1>1. DOMAIN waiting_list = 1..Len(waiting_list)
  BY PoolTypes, LenProperties
<1>2. \A w : w \in Listed <=> \E i \in 1..Len(waiting_list) : waiting_list[i] = w
  BY <1>1 DEF Listed, ToSet
<1>3. /\ Listed \subseteq Workers
      /\ \A w \in Listed : marked_as_waiting[w]
      /\ state # "STOP" => \A w \in Listed : wpc[w] \notin {"none", "exited"}
  <2>1. ASSUME NEW w \in Listed
        PROVE  /\ w \in Workers /\ marked_as_waiting[w]
               /\ state # "STOP" => wpc[w] \notin {"none", "exited"}
    <3>1. PICK i \in 1..Len(waiting_list) : waiting_list[i] = w
      BY <1>2
    <3>2. w \in Workers
      BY <3>1, PoolTypes
    <3>3. /\ marked_as_waiting[waiting_list[i]]
          /\ state # "STOP" => wpc[waiting_list[i]] \notin {"none", "exited"}
      BY Zenon DEF IInv, WakeInv
    <3> QED
      BY <3>1, <3>2, <3>3, Zenon
  <2> QED
    BY <2>1
<1>4. \A w \in Workers :
        marked_as_waiting[w] /\ mpc # "freed" /\ wpc[w] # "exited" => w \in Listed
  <2> SUFFICES ASSUME NEW w \in Workers,
                      marked_as_waiting[w] /\ mpc # "freed" /\ wpc[w] # "exited"
               PROVE  w \in Listed
    OBVIOUS
  <2>1. \E i \in 1..Len(waiting_list) : waiting_list[i] = w
    BY Zenon DEF IInv, WakeInv
  <2> QED
    BY <1>2, <2>1
<1> QED
  BY <1>2, <1>3, <1>4

LEMMA ListedPush ==
  ASSUME IInv, IInv', NEW w \in Workers, waiting_list' = <<w>> \o waiting_list
  PROVE  Listed' = Listed \cup {w}
<1>1. /\ Len(waiting_list) \in Nat /\ Len(waiting_list') = Len(waiting_list) + 1
      /\ \A i \in 1..Len(waiting_list') :
           waiting_list'[i] = IF i = 1 THEN w ELSE waiting_list[i - 1]
  BY PoolTypes, ConcatProperties
<1>2. \A v : v \in Listed' <=> \E i \in 1..Len(waiting_list') : waiting_list'[i] = v
  <2>1. DOMAIN waiting_list' = 1..Len(waiting_list')
    BY LenProperties DEF IInv, TypeInv, TypeOK
  <2> QED
    BY <2>1 DEF Listed, ToSet
<1>3. \A v : v \in Listed <=> \E i \in 1..Len(waiting_list) : waiting_list[i] = v
  BY ListedAre
<1>4. ASSUME NEW v \in Listed PROVE v \in Listed'
  <2>1. PICK i \in 1..Len(waiting_list) : waiting_list[i] = v
    BY <1>3, <1>4
  <2>2. i + 1 \in 1..Len(waiting_list') /\ waiting_list'[i + 1] = v
    BY <1>1, <2>1
  <2> QED
    BY <1>2, <2>2
<1>5. w \in Listed'
  <2>1. 1 \in 1..Len(waiting_list') /\ waiting_list'[1] = w
    BY <1>1
  <2> QED
    BY <1>2, <2>1
<1>6. ASSUME NEW v \in Listed', v # w PROVE v \in Listed
  <2>1. PICK i \in 1..Len(waiting_list') : waiting_list'[i] = v
    BY <1>2, <1>6
  <2>2. i - 1 \in 1..Len(waiting_list) /\ waiting_list[i - 1] = v
    BY <1>1, <1>6, <2>1
  <2> QED
    BY <1>3, <2>2
<1> QED
  BY <1>4, <1>5, <1>6

LEMMA ListedPop ==
  ASSUME IInv, IInv', waiting_list # <<>>, waiting_list' = Tail(waiting_list)
  PROVE  Listed' = Listed \ {Head(waiting_list)} /\ Head(waiting_list) \in Listed
<1>1. /\ Len(waiting_list) \in Nat /\ Len(waiting_list) > 0
      /\ Len(waiting_list') = Len(waiting_list) - 1
      /\ Head(waiting_list) = waiting_list[1]
      /\ \A i \in 1..Len(waiting_list') : waiting_list'[i] = waiting_list[i + 1]
  BY PoolTypes, HeadTailProperties, EmptySeq
<1>2. \A v : v \in Listed' <=> \E i \in 1..Len(waiting_list') : waiting_list'[i] = v
  <2>1. DOMAIN waiting_list' = 1..Len(waiting_list')
    BY LenProperties DEF IInv, TypeInv, TypeOK
  <2> QED
    BY <2>1 DEF Listed, ToSet
<1>3. \A v : v \in Listed <=> \E i \in 1..Len(waiting_list) : waiting_list[i] = v
  BY ListedAre
<1>4. \A i, k \in 1..Len(waiting_list) : waiting_list[i] = waiting_list[k] => i = k
  BY DEF IInv, WakeInv
<1>5. Head(waiting_list) \in Listed
  <2>1. 1 \in 1..Len(waiting_list)
    BY <1>1
  <2> QED
    BY <1>1, <1>3, <2>1
<1>6. ASSUME NEW v \in Listed' PROVE v \in Listed /\ v # waiting_list[1]
  <2>1. PICK i \in 1..Len(waiting_list') : waiting_list'[i] = v
    BY <1>2, <1>6
  <2>2. i + 1 \in 1..Len(waiting_list) /\ waiting_list[i + 1] = v /\ 1 \in 1..Len(waiting_list)
    BY <1>1, <2>1
  <2>3. i + 1 # 1
    BY <2>1
  <2> QED
    BY <1>3, <1>4, <2>2, <2>3
<1>7. ASSUME NEW v \in Listed, v # waiting_list[1] PROVE v \in Listed'
  <2>1. PICK i \in 1..Len(waiting_list) : waiting_list[i] = v
    BY <1>3, <1>7
  <2>2. i - 1 \in 1..Len(waiting_list') /\ waiting_list'[i - 1] = v
    BY <1>1, <1>7, <2>1
  <2> QED
    BY <1>2, <2>2
<1> QED
  BY <1>1, <1>5, <1>6, <1>7

-----------------------------------------------------------------------------
(* The count of the waiting workers.                                       *)
MarksKept ==
  /\ UNCHANGED <<marked_as_waiting, waiting_count>>
  /\ \A w \in Workers : wpc[w] # "none" => wpc'[w] # "none"

LEMMA KeptMarks ==
  ASSUME MarkInv, MarksKept
  PROVE  MarkInv'
<1>1. Marked' = Marked
  BY DEF Marked, MarksKept
<1> QED
  BY <1>1 DEF MarkInv, MarksKept

LEMMA MarksInit == Init => MarkInv
<1> SUFFICES ASSUME Init PROVE MarkInv
  OBVIOUS
<1>1. Marked = {} /\ waiting_count = 0
  BY DEF Init, Marked
<1> QED
  BY <1>1, FS_EmptySet DEF MarkInv, Marked

LEMMA MarksAdd ==
  ASSUME IInv, MarkInv, NEW w \in Workers, ~marked_as_waiting[w],
         marked_as_waiting' = [marked_as_waiting EXCEPT ![w] = TRUE],
         waiting_count' = waiting_count + 1, wpc'[w] # "none",
         \A v \in Workers : wpc[v] # "none" => wpc'[v] # "none"
  PROVE  MarkInv'
<1>1. Marked' = Marked \cup {w} /\ w \notin Marked
  BY PoolTypes DEF Marked
<1>2. IsFiniteSet(Marked) /\ Cardinality(Marked) \in Nat
  BY WorkersFinite DEF Marked
<1>3. Cardinality(Marked') = Cardinality(Marked) + 1
  BY <1>1, <1>2, FS_AddElement
<1>4. \A v \in Workers : marked_as_waiting'[v] => v = w \/ marked_as_waiting[v]
  BY PoolTypes
<1> QED
  BY <1>3, <1>4 DEF MarkInv

LEMMA MarksRemove ==
  ASSUME IInv, MarkInv, NEW w \in Workers, marked_as_waiting[w],
         marked_as_waiting' = [marked_as_waiting EXCEPT ![w] = FALSE],
         waiting_count' = waiting_count - 1, wpc' = wpc
  PROVE  MarkInv'
<1>1. Marked' = Marked \ {w} /\ w \in Marked
  BY PoolTypes DEF Marked
<1>2. IsFiniteSet(Marked) /\ Cardinality(Marked) \in Nat
  BY WorkersFinite DEF Marked
<1>3. Cardinality(Marked') = Cardinality(Marked) - 1
  BY <1>1, <1>2, FS_RemoveElement
<1>4. \A v \in Workers : marked_as_waiting'[v] => marked_as_waiting[v]
  BY PoolTypes
<1> QED
  BY <1>3, <1>4 DEF MarkInv

LEMMA MarksStep == IInv /\ MarkInv /\ [Next]_vars => MarkInv'
<1> SUFFICES ASSUME IInv, MarkInv, [Next]_vars
             PROVE  MarkInv'
  OBVIOUS
<1> USE DEF poolState, syncState, workerState, mainState, history
<1>1. ASSUME NEW w \in Workers, WorkerNext(w)
      PROVE  MarkInv'
  <2>1. CASE Stop(w) \/ TakeJob(w) \/ Park(w) \/ CondWait(w) \/ Wake(w) \/ RunJob(w)
    BY <2>1, KeptMarks, PoolTypes
       DEF MarksKept, Stop, TakeJob, Park, CondWait, Wake, RunJob
  <2>2. CASE GoIdle(w)
    <3>1. /\ wpc' = [wpc EXCEPT ![w] = "park"] /\ JoinWaitingList(w)
      BY <2>2 DEF GoIdle
    <3>2. \A v \in Workers : wpc[v] # "none" => wpc'[v] # "none"
      BY <3>1, PoolTypes
    <3>3. CASE marked_as_waiting[w]
      BY <3>1, <3>2, <3>3, KeptMarks DEF JoinWaitingList, MarksKept
    <3>4. CASE ~marked_as_waiting[w]
      <4>1. /\ marked_as_waiting' = [marked_as_waiting EXCEPT ![w] = TRUE]
            /\ waiting_count' = waiting_count + 1
        BY <3>1, <3>4, Zenon DEF JoinWaitingList
      <4>2. wpc'[w] # "none"
        BY <3>1, PoolTypes
      <4> QED
        BY <3>2, <3>4, <4>1, <4>2, MarksAdd
    <3> QED
      BY <3>3, <3>4
  <2>3. CASE GoIdleFails(w)
    <3>1. /\ wpc' = [wpc EXCEPT ![w] = "exited"] /\ ~marked_as_waiting[w]
          /\ marked_as_waiting' = [marked_as_waiting EXCEPT ![w] = TRUE]
          /\ waiting_count' = waiting_count + 1
      BY <2>3, Zenon DEF GoIdleFails
    <3>2. \A v \in Workers : wpc[v] # "none" => wpc'[v] # "none"
      BY <3>1, PoolTypes
    <3>3. wpc'[w] # "none"
      BY <3>1, PoolTypes
    <3> QED
      BY <3>1, <3>2, <3>3, MarksAdd
  <2> QED
    BY <1>1, <2>1, <2>2, <2>3 DEF WorkerNext
<1>2. CASE MainNext
  <2>1. CASE CreateWorker
    BY <2>1, KeptMarks, PoolTypes DEF MarksKept, CreateWorker
  <2>2. CASE CreateWorkerFails \/ WorkersCreated \/ SetupReady \/ SetupReturns
    BY <2>2, KeptMarks DEF MarksKept, CreateWorkerFails, WorkersCreated, SetupReady, SetupReturns
  <2>3. CASE SetupSleep \/ SubmitSleep \/ WaitSleep \/ WaitReturns
    BY <2>3, KeptMarks DEF MarksKept, SetupSleep, SubmitSleep, WaitSleep, WaitReturns, MainSleeps
  <2>4. CASE SubmitInline \/ InlineReturns \/ SubmitFails \/ SubmitAllocated
    BY <2>4, KeptMarks DEF MarksKept, SubmitInline, InlineReturns, SubmitFails, SubmitAllocated
  <2>5. CASE Enqueue
    <3>1. CASE WakesWorker
      <4>1. /\ marked_as_waiting' = [marked_as_waiting EXCEPT ![Head(waiting_list)] = FALSE]
            /\ waiting_list # <<>> /\ waiting_list' = Tail(waiting_list)
            /\ waiting_count' = waiting_count - 1 /\ wpc' = wpc
        BY <2>5, <3>1, Zenon DEF Enqueue, WakesWorker
      <4>2. IInv'
        BY NextInv
      <4>3. Head(waiting_list) \in Workers /\ marked_as_waiting[Head(waiting_list)]
        BY <4>1, <4>2, ListedPop, ListedAre
      <4> QED
        BY <4>1, <4>3, MarksRemove
    <3>2. CASE ~WakesWorker
      <4>1. UNCHANGED <<marked_as_waiting, waiting_count, wpc>>
        BY <2>5, <3>2, Zenon DEF Enqueue
      <4> QED
        BY <4>1, KeptMarks DEF MarksKept
    <3> QED
      BY <3>1, <3>2
  <2>6. CASE Handoff \/ SignalWorker \/ DestroyStop \/ JoinSignal \/ Join \/ FreePool
    BY <2>6, KeptMarks DEF MarksKept, Handoff, SignalWorker, DestroyStop, JoinSignal, Join, FreePool
  <2> QED
    BY <1>2, <2>1, <2>2, <2>3, <2>4, <2>5, <2>6 DEF MainNext
<1>3. CASE ClientNext
  BY <1>3, KeptMarks DEF MarksKept, ClientNext, SubmitJob, WaitCompletion, Destroy
<1>4. CASE UNCHANGED vars \/ \E t \in Workers \cup {Main} : SpuriousWakeup(t)
  BY <1>4, KeptMarks DEF MarksKept, SpuriousWakeup, vars
<1> QED
  BY <1>1, <1>2, <1>3, <1>4 DEF Next, Freed

(* The waiting list, the marks and the count that                          *)
(* opj_thread_pool_setup waits for agree, and the count stays within the   *)
(* number of threads that thread.c asserts.                                *)
THEOREM WaitListCorrect == Spec => []WaitListExact
<1>1. ASSUME IInv, MarkInv
      PROVE  WaitListExact
  <2>1. IsInjective(waiting_list)
    <3>1. DOMAIN waiting_list = 1..Len(waiting_list)
      BY <1>1, PoolTypes, LenProperties
    <3> QED
      BY <1>1, <3>1 DEF IsInjective, IInv, WakeInv
  <2>2. waiting_count = Cardinality({w \in Workers : marked_as_waiting[w]})
    BY <1>1 DEF MarkInv, Marked
  <2>3. mpc # "create" => waiting_count <= worker_threads_count
    <3> SUFFICES ASSUME mpc # "create"
                 PROVE  waiting_count <= worker_threads_count
      OBVIOUS
    <3>1. worker_threads_count \in Int /\ worker_threads_count >= 0 /\ 1 \in Int
      BY <1>1, PoolTypes
    <3>2. /\ IsFiniteSet(1..worker_threads_count)
          /\ Cardinality(1..worker_threads_count) =
               IF 1 > worker_threads_count THEN 0 ELSE worker_threads_count - 1 + 1
      BY <3>1, FS_Interval, Zenon
    <3>3. Cardinality(1..worker_threads_count) = worker_threads_count
      BY <3>1, <3>2
    <3>4. Marked \in SUBSET (1..worker_threads_count)
      BY <1>1, <3>1 DEF Marked, MarkInv, IInv, WorkersInv, Workers
    <3>5. Cardinality(Marked) <= Cardinality(1..worker_threads_count)
      BY <3>2, <3>4, FS_Subset
    <3> QED
      BY <1>1, <3>3, <3>5 DEF MarkInv
  <2> QED
    BY <1>1, <2>1, <2>2, <2>3, ListedAre DEF WaitListExact
<1>2. Init => IInv /\ MarkInv
  BY InitInv, MarksInit
<1>3. IInv /\ MarkInv /\ [Next]_vars => IInv' /\ MarkInv'
  BY NextInv, MarksStep
<1> QED
  BY <1>1, <1>2, <1>3, PTL DEF Spec

-----------------------------------------------------------------------------
(* What a step must do to keep ConserveInv when it neither queues a job nor *)
(* wakes a thread.                                                         *)
SignalSafe ==
  /\ mpc = "handoff" => m_idx \notin Listed
  /\ mpc = "signal" /\ m_idx \in Listed =>
       m_idx \notin sleepers /\ wpc[m_idx] \in {"lock", "run", "park"}

LEMMA ConserveKept ==
  ASSUME IInv, ConserveInv, SignalSafe', UNCHANGED <<job_queue, spurious>>,
         waiting_list' # <<>> => waiting_list # <<>>,
         state = "STOP" => state' = "STOP",
         Strayed' \subseteq Strayed, Coming \subseteq Coming'
  PROVE  ConserveInv'
<1>1. /\ IsFiniteSet(Strayed) /\ Cardinality(Strayed) \in Nat
      /\ Cardinality(Coming) \in Nat /\ IsFiniteSet(Coming')
  BY WorkersFinite, ListedAre DEF Strayed, Coming
<1>2. /\ Cardinality(Strayed') <= Cardinality(Strayed) /\ Cardinality(Strayed') \in Nat
      /\ Cardinality(Coming) <= Cardinality(Coming') /\ Cardinality(Coming') \in Nat
  BY <1>1, FS_Subset, FS_CardinalityType
<1>3. MaxSpurious \in Nat /\ spurious \in Nat /\ Len(job_queue) \in Nat
  BY ThreadPoolAssumption, PoolTypes DEF IInv, TypeInv, TypeOK
<1> QED
  BY <1>1, <1>2, <1>3 DEF ConserveInv, SignalSafe

\* A step that leaves the workers, the list and the queue alone.
ListRests ==
  /\ UNCHANGED <<job_queue, spurious, waiting_list, wpc>>
  /\ \A w \in Workers : w \in sleepers' <=> w \in sleepers
  /\ state = "STOP" => state' = "STOP"
  /\ mpc' \notin {"handoff", "signal"} \/ UNCHANGED <<mpc, m_idx>>

LEMMA ConserveRests ==
  ASSUME IInv, ConserveInv, ListRests
  PROVE  ConserveInv'
<1>1. Listed' = Listed
  BY DEF Listed, ListRests, ToSet
<1>2. Strayed' = Strayed /\ Coming' = Coming
  BY <1>1, ListedAre DEF Strayed, Coming, ListRests
<1>3. SignalSafe'
  BY <1>1, ListedAre DEF SignalSafe, ListRests, ConserveInv
<1> QED
  BY <1>2, <1>3, ConserveKept DEF ListRests

LEMMA ConserveInit == Init => ConserveInv
<1> SUFFICES ASSUME Init PROVE ConserveInv
  OBVIOUS
<1>1. waiting_list = <<>> /\ wpc = [w \in Workers |-> "none"] /\ spurious = MaxSpurious
      /\ mpc \in {"create", "idle"}
  BY DEF Init
<1>2. Listed = {}
  BY <1>1 DEF Listed, ToSet
<1>3. Strayed = {}
  BY <1>2 DEF Strayed
<1> QED
  BY <1>1, <1>3, ThreadPoolAssumption, FS_EmptySet DEF ConserveInv

\* A worker moves on without touching the list: where it is and where it goes
\* are both on the way to the queue, or it takes a job from the queue, or it
\* has ended.
LEMMA ConserveMoves ==
  ASSUME IInv, ConserveInv, NEW w \in Workers,
         Stop(w) \/ Park(w) \/ CondWait(w) \/ Wake(w) \/ RunJob(w)
  PROVE  ConserveInv'
<1> USE DEF poolState, syncState, workerState, mainState, history, InGetNextJob
<1>1. /\ UNCHANGED <<job_queue, spurious, waiting_list, state, mpc, m_idx>>
      /\ Listed' = Listed
  BY DEF Stop, Park, CondWait, Wake, RunJob, Listed
<1>2. CASE Stop(w)
  <2>1. state = "STOP" /\ mpc \notin {"handoff", "signal"} /\ state' = "STOP"
    BY <1>1, <1>2 DEF Stop, IInv, CountInv
  <2>2. MaxSpurious \in Nat
    BY ThreadPoolAssumption
  <2> QED
    BY <1>1, <2>1 DEF ConserveInv
<1>3. CASE ~Stop(w)
  <2>1. w \in Listed /\ state # "STOP" => wpc[w] # "exited"
    BY ListedAre
  <2>2. wpc' \in [Workers -> WorkerPlaces] /\ \A v \in Workers : v # w => wpc'[v] = wpc[v]
    BY <1>3, PoolTypes DEF Park, CondWait, Wake, RunJob, WorkerPlaces
  <2>3. \A v \in Workers : v # w => (v \in sleepers' <=> v \in sleepers)
    BY <1>3 DEF Park, CondWait, Wake, RunJob
  <2>4. /\ w \in Strayed' => w \in Strayed
        /\ w \in Coming => w \in Coming'
    BY <1>1, <1>3, PoolTypes DEF Park, CondWait, Wake, RunJob, Strayed, Coming
  <2>5. Strayed' \subseteq Strayed /\ Coming \subseteq Coming'
    <3>1. \A v \in Workers : v # w => (v \in Strayed' => v \in Strayed) /\ (v \in Coming => v \in Coming')
      BY <1>1, <2>2, <2>3 DEF Strayed, Coming
    <3>2. Strayed' \subseteq Workers /\ Coming \subseteq Workers
      BY <1>1, ListedAre DEF Strayed, Coming
    <3> QED
      BY <2>4, <3>1, <3>2
  <2>6. SignalSafe'
    <3>1. mpc = "signal" /\ m_idx = w => ~Park(w) /\ ~CondWait(w) /\ ~Wake(w)
      <4> SUFFICES ASSUME mpc = "signal" /\ m_idx = w
                   PROVE  ~Park(w) /\ ~CondWait(w) /\ ~Wake(w)
        OBVIOUS
      <4>1. w_mutex[w] = Main /\ (w_mutex[w] = w <=> wpc[w] = "parked") /\ w # Main
        BY WorkersFinite DEF IInv, LockInv
      <4> QED
        BY <4>1 DEF Park, CondWait, Wake, Main, Free
    <3>2. mpc = "signal" /\ m_idx \in Listed =>
            m_idx \notin sleepers' /\ wpc'[m_idx] \in {"lock", "run", "park"}
      <4> SUFFICES ASSUME mpc = "signal", m_idx \in Listed
                   PROVE  m_idx \notin sleepers' /\ wpc'[m_idx] \in {"lock", "run", "park"}
        OBVIOUS
      <4>1. m_idx \in Workers /\ m_idx \notin sleepers /\ wpc[m_idx] \in {"lock", "run", "park"}
        BY ListedAre DEF ConserveInv
      <4>2. CASE m_idx # w
        BY <2>2, <2>3, <4>1, <4>2
      <4>3. CASE m_idx = w
        <5>1. RunJob(w)
          BY <1>3, <3>1, <4>3
        <5> QED
          BY <4>1, <4>3, <5>1, PoolTypes DEF RunJob
      <4> QED
        BY <4>2, <4>3
    <3> QED
      BY <1>1, <3>2 DEF SignalSafe, ConserveInv
  <2> QED
    BY <1>1, <2>5, <2>6, ConserveKept
<1> QED
  BY <1>2, <1>3

LEMMA ConserveTakes ==
  ASSUME IInv, ConserveInv, NEW w \in Workers, TakeJob(w)
  PROVE  ConserveInv'
<1>1. /\ wpc[w] = "lock" /\ wpc' = [wpc EXCEPT ![w] = "run"]
      /\ job_queue # <<>> /\ job_queue' = Tail(job_queue)
      /\ UNCHANGED <<spurious, waiting_list, state, mpc, m_idx>> /\ state # "STOP"
  BY Zenon DEF TakeJob, InGetNextJob, mainState
<1>2. \A v \in Workers : v \in sleepers' <=> v \in sleepers
  BY WorkersFinite DEF TakeJob
<1>3. Len(job_queue) \in Nat /\ Len(job_queue') = Len(job_queue) - 1
  BY <1>1, PoolTypes, HeadTailProperties, EmptySeq
<1>4. Listed' = Listed /\ Listed \subseteq Workers
  BY <1>1, ListedAre DEF Listed, ToSet
<1>5. Strayed' = Strayed
  BY <1>1, <1>2, <1>4, PoolTypes DEF Strayed
<1>6. Coming' = Coming \ {w}
  BY <1>1, <1>4, PoolTypes DEF Coming
<1>7. /\ Cardinality(Coming) \in Nat /\ Cardinality(Coming') \in Nat
      /\ Cardinality(Coming') >= Cardinality(Coming) - 1
  <2>1. IsFiniteSet(Coming) /\ Cardinality(Coming) \in Nat
    BY WorkersFinite DEF Coming
  <2>2. CASE w \in Coming
    <3>1. IsFiniteSet(Coming \ {w}) /\ Cardinality(Coming \ {w}) = Cardinality(Coming) - 1
      BY <2>1, <2>2, FS_RemoveElement
    <3>2. Cardinality(Coming \ {w}) \in Nat
      BY <3>1, FS_CardinalityType
    <3> QED
      BY <1>6, <2>1, <3>1, <3>2
  <2>3. CASE w \notin Coming
    <3>1. Coming' = Coming
      BY <1>6, <2>3
    <3> QED
      BY <2>1, <3>1
  <2> QED
    BY <2>2, <2>3
<1>8. SignalSafe'
  BY <1>1, <1>2, <1>4, PoolTypes DEF SignalSafe, ConserveInv
<1>9. Cardinality(Strayed) \in Nat /\ MaxSpurious \in Nat /\ spurious \in Nat
  BY ThreadPoolAssumption, WorkersFinite, ListedAre DEF IInv, TypeInv, TypeOK, Strayed
<1> QED
  BY <1>1, <1>3, <1>5, <1>7, <1>8, <1>9 DEF ConserveInv, SignalSafe

(* A worker goes idle when the queue is empty.                             *)
LEMMA ConserveIdle ==
  ASSUME IInv, ConserveInv, NEW w \in Workers, GoIdle(w) \/ GoIdleFails(w)
  PROVE  ConserveInv'
<1>1. /\ wpc[w] = "lock" /\ job_queue = <<>> /\ tp_mutex = Free
      /\ wpc' \in {[wpc EXCEPT ![w] = "park"], [wpc EXCEPT ![w] = "exited"]}
      /\ UNCHANGED <<job_queue, spurious, mpc, m_idx>> /\ state # "STOP"
  BY Zenon DEF GoIdle, GoIdleFails, InGetNextJob, mainState
<1>2. \A v \in Workers : v \in sleepers' <=> v \in sleepers
  BY WorkersFinite DEF GoIdle, GoIdleFails
<1>3. w \notin sleepers /\ mpc # "handoff"
  BY <1>1 DEF IInv, LockInv, Main, Free
<1>4. GoIdleFails(w) => waiting_list' = waiting_list /\ ~marked_as_waiting[w]
  BY DEF GoIdleFails
<1>5. GoIdle(w) => /\ wpc' = [wpc EXCEPT ![w] = "park"]
                   /\ waiting_list' \in {waiting_list, <<w>> \o waiting_list}
  BY Zenon DEF GoIdle, JoinWaitingList
<1>6. Listed \subseteq Listed' /\ Listed' \subseteq Listed \cup {w} /\ Listed \subseteq Workers
  <2>1. IInv'
    BY NextInv DEF Next, WorkerNext
  <2>2. waiting_list' = waiting_list => Listed' = Listed
    BY DEF Listed
  <2> QED
    BY <1>4, <1>5, <2>1, <2>2, ListedPush, ListedAre
<1>7. GoIdleFails(w) => w \notin Listed /\ Listed' = Listed
  BY <1>4, ListedAre DEF Listed
<1>8. Strayed' \subseteq Strayed
  <2> SUFFICES ASSUME NEW v \in Strayed' PROVE v \in Strayed
    OBVIOUS
  <2>1. v \in Listed' /\ wpc'[v] \notin {"park", "parked"} /\ v \notin sleepers'
    BY DEF Strayed
  <2>2. v # w
    BY <1>5, <1>7, <2>1, PoolTypes
  <2>3. v \in Listed /\ v \in Workers
    BY <1>6, <2>1, <2>2
  <2>4. wpc'[v] = wpc[v]
    BY <1>1, <2>2, <2>3, PoolTypes
  <2> QED
    BY <1>2, <2>1, <2>3, <2>4 DEF Strayed
<1>9. /\ Cardinality(Strayed) \in Nat /\ Cardinality(Strayed') \in Nat
      /\ Cardinality(Strayed') <= Cardinality(Strayed)
      /\ Cardinality(Coming') \in Nat
  <2>1. IsFiniteSet(Strayed) /\ Cardinality(Strayed) \in Nat /\ IsFiniteSet(Coming')
    BY WorkersFinite, ListedAre DEF Strayed, Coming
  <2> QED
    BY <1>8, <2>1, FS_Subset, FS_CardinalityType
<1>10. SignalSafe'
  <2> SUFFICES ASSUME mpc = "signal", m_idx \in Listed'
               PROVE  m_idx \notin sleepers' /\ wpc'[m_idx] \in {"lock", "run", "park"}
    BY <1>1, <1>3 DEF SignalSafe
  <2>1. CASE m_idx = w
    BY <1>2, <1>3, <1>5, <1>7, <2>1, PoolTypes
  <2>2. CASE m_idx # w
    <3>1. m_idx \in Listed /\ m_idx \in Workers
      BY <1>6, <2>2
    <3> QED
      BY <1>1, <1>2, <2>2, <3>1, PoolTypes DEF ConserveInv
  <2> QED
    BY <2>1, <2>2
<1>11. /\ MaxSpurious \in Nat /\ spurious \in Nat
       /\ Len(job_queue') = 0
  BY <1>1, ThreadPoolAssumption, EmptySeq DEF IInv, TypeInv, TypeOK
<1> QED
  BY <1>1, <1>9, <1>10, <1>11 DEF ConserveInv, SignalSafe

(* submit_job queues one job and pops one worker off the list: one that    *)
(* had strayed, or one that now comes.                                     *)
LEMMA ConserveEnqueues ==
  ASSUME IInv, ConserveInv, Enqueue
  PROVE  ConserveInv'
<1>1. /\ mpc = "submit" /\ job_queue' = <<m_job>> \o job_queue
      /\ UNCHANGED <<spurious, state, wpc, sleepers>>
  BY Zenon DEF Enqueue, MainLooks
<1>2. state # "STOP" /\ m_job \in Jobs
  BY <1>1 DEF IInv, CountInv, TypeInv, HoldsJob
<1>3. Len(job_queue) \in Nat /\ Len(job_queue') = Len(job_queue) + 1
  BY <1>1, <1>2, PoolTypes, ConcatProperties
<1>4. MaxSpurious \in Nat /\ spurious \in Nat
  BY ThreadPoolAssumption DEF IInv, TypeInv, TypeOK
<1>5. CASE ~WakesWorker
  <2>1. waiting_list' = waiting_list /\ waiting_list = <<>> /\ mpc' = "idle"
    BY <1>5, Zenon DEF Enqueue, WakesWorker
  <2>2. Strayed' = Strayed
    BY <1>1, <2>1 DEF Strayed, Listed
  <2> QED
    BY <1>1, <1>2, <2>1, <2>2 DEF ConserveInv
<1>6. CASE WakesWorker
  <2> DEFINE h == Head(waiting_list)
  <2>1. /\ waiting_list # <<>> /\ waiting_list' = Tail(waiting_list)
        /\ m_idx' = h /\ mpc' = "handoff"
    BY <1>6, Zenon DEF Enqueue, WakesWorker
  <2>2. IInv'
    BY NextInv DEF Next, MainNext
  <2>3. Listed' = Listed \ {h} /\ h \in Listed
    BY <2>1, <2>2, ListedPop
  <2> HIDE DEF h
  <2>4. /\ Listed \subseteq Workers /\ h \in Workers
        /\ wpc[h] \notin {"none", "exited"}
    BY <1>2, <2>3, ListedAre
  <2>5. /\ Strayed' = Strayed \ {h}
        /\ Coming \subseteq Coming' /\ Coming' \subseteq Coming \cup {h}
        /\ h \notin Coming
    BY <1>1, <2>3, <2>4 DEF Strayed, Coming
  <2>6. /\ IsFiniteSet(Strayed) /\ Cardinality(Strayed) \in Nat
        /\ IsFiniteSet(Coming) /\ Cardinality(Coming) \in Nat
        /\ IsFiniteSet(Coming') /\ Cardinality(Coming') \in Nat
        /\ Cardinality(Strayed') \in Nat
    <3>1. /\ Strayed \in SUBSET Workers /\ Coming \in SUBSET Workers
          /\ Strayed' \in SUBSET Workers /\ Coming' \in SUBSET Workers
      BY <2>3, <2>4, <2>5 DEF Strayed, Coming
    <3> QED
      BY <3>1, WorkersFinite
  <2>7. Cardinality(Coming) <= Cardinality(Coming')
    BY <2>5, <2>6, FS_Subset
  <2>8. \/ /\ Cardinality(Strayed') = Cardinality(Strayed) - 1
        \/ /\ Cardinality(Strayed') = Cardinality(Strayed)
           /\ Cardinality(Coming') = Cardinality(Coming) + 1
    <3>1. CASE h \in Strayed
      BY <2>5, <2>6, <3>1, FS_RemoveElement
    <3>2. CASE h \notin Strayed
      <4>1. Strayed' = Strayed
        BY <2>5, <3>2
      <4>2. wpc[h] \in {"park", "parked", "waiting"}
        BY <2>3, <2>4, <3>2 DEF Strayed, IInv, LockInv
      <4>3. Coming' = Coming \cup {h}
        BY <1>1, <2>3, <2>4, <2>5, <4>2 DEF Coming
      <4>4. Cardinality(Coming') = Cardinality(Coming) + 1
        BY <2>5, <2>6, <4>3, FS_AddElement
      <4> QED
        BY <4>1, <4>4
    <3> QED
      BY <3>1, <3>2
  <2>9. /\ Cardinality(Strayed) <= MaxSpurious - spurious
        /\ Len(job_queue) + Cardinality(Strayed) <= Cardinality(Coming) + (MaxSpurious - spurious)
        /\ spurious <= MaxSpurious
    BY <1>2, <2>1 DEF ConserveInv
  <2>10. /\ Cardinality(Strayed') <= MaxSpurious - spurious
         /\ Len(job_queue') + Cardinality(Strayed') <= Cardinality(Coming') + (MaxSpurious - spurious)
    BY <1>3, <1>4, <2>6, <2>7, <2>8, <2>9
  <2>11. m_idx' \notin Listed'
    BY <2>1, <2>3 DEF h
  <2> QED
    BY <1>1, <2>1, <2>9, <2>10, <2>11 DEF ConserveInv
<1> QED
  BY <1>5, <1>6

LEMMA ConserveSignals ==
  ASSUME IInv, ConserveInv, Handoff \/ SignalWorker
  PROVE  ConserveInv'
<1>1. /\ UNCHANGED <<job_queue, spurious, waiting_list, wpc, state, m_idx>>
      /\ Listed' = Listed /\ Listed \subseteq Workers
  BY ListedAre DEF Handoff, SignalWorker, poolState, workerState, Listed
<1>2. /\ Handoff => mpc = "handoff" /\ mpc' = "signal" /\ sleepers' = sleepers
      /\ SignalWorker => mpc = "signal" /\ mpc' = "idle" /\ sleepers' = sleepers \ {m_idx}
  BY DEF Handoff, SignalWorker
<1>3. Strayed' = Strayed /\ Coming' = Coming
  BY <1>1, <1>2 DEF Strayed, Coming, ConserveInv
<1>4. SignalSafe'
  BY <1>1, <1>2 DEF SignalSafe, ConserveInv
<1> QED
  BY <1>1, <1>3, <1>4, ConserveKept

(* A spurious wake-up makes at most one listed worker stray.               *)
LEMMA ConserveSpurious ==
  ASSUME IInv, ConserveInv, NEW t \in Workers \cup {Main}, SpuriousWakeup(t)
  PROVE  ConserveInv'
<1>1. /\ UNCHANGED <<job_queue, waiting_list, wpc, state, mpc, m_idx>>
      /\ sleepers' = sleepers \ {t} /\ spurious > 0 /\ spurious' = spurious - 1
      /\ Listed' = Listed /\ Listed \subseteq Workers
  BY ListedAre DEF SpuriousWakeup, poolState, workerState, mainState, Listed
<1>2. Strayed' \subseteq Strayed \cup {t} /\ Coming' = Coming
  BY <1>1 DEF Strayed, Coming
<1>3. /\ IsFiniteSet(Strayed) /\ Cardinality(Strayed) \in Nat
      /\ Cardinality(Strayed') \in Nat /\ Cardinality(Coming) \in Nat
  BY <1>1, WorkersFinite DEF Strayed, Coming
<1>4. Cardinality(Strayed') <= Cardinality(Strayed) + 1
  <2>1. /\ IsFiniteSet(Strayed \cup {t})
        /\ Cardinality(Strayed \cup {t}) <= Cardinality(Strayed) + 1
    <3>1. CASE t \in Strayed
      <4>1. Strayed \cup {t} = Strayed
        BY <3>1
      <4>2. Cardinality(Strayed \cup {t}) = Cardinality(Strayed)
        BY <4>1, Zenon
      <4>3. IsFiniteSet(Strayed \cup {t})
        BY <1>3, <4>1, Zenon
      <4> QED
        BY <1>3, <4>2, <4>3
    <3>2. CASE t \notin Strayed
      <4>1. /\ IsFiniteSet(Strayed \cup {t})
            /\ Cardinality(Strayed \cup {t}) = Cardinality(Strayed) + 1
        BY <1>3, <3>2, FS_AddElement
      <4> QED
        BY <1>3, <4>1
    <3> QED
      BY <3>1, <3>2
  <2>2. Cardinality(Strayed') <= Cardinality(Strayed \cup {t}) /\ Cardinality(Strayed \cup {t}) \in Nat
    BY <1>2, <2>1, FS_Subset, FS_CardinalityType
  <2> QED
    BY <1>3, <2>1, <2>2
<1>5. MaxSpurious \in Nat /\ spurious \in Nat /\ Len(job_queue) \in Nat
  BY ThreadPoolAssumption, PoolTypes DEF IInv, TypeInv, TypeOK
<1>6. SignalSafe'
  BY <1>1 DEF SignalSafe, ConserveInv
<1> QED
  BY <1>1, <1>2, <1>3, <1>4, <1>5, <1>6 DEF ConserveInv, SignalSafe

LEMMA ConserveMain ==
  ASSUME IInv, ConserveInv, MainNext, ~Enqueue, ~Handoff, ~SignalWorker
  PROVE  ConserveInv'
<1> USE DEF ListRests, poolState, syncState, workerState, mainState, history
<1>1. CASE CreateWorker
  <2>1. /\ mpc = "create" /\ mpc' = "create" /\ m_idx \in Workers /\ wpc[m_idx] = "none"
        /\ wpc' = [wpc EXCEPT ![m_idx] = "lock"] /\ state # "STOP"
        /\ UNCHANGED <<job_queue, spurious, waiting_list, sleepers, state>>
    BY <1>1, NewWorker DEF CreateWorker, IInv, CountInv
  <2>2. Listed' = Listed /\ m_idx \notin Listed /\ Listed \subseteq Workers
    BY <2>1, ListedAre DEF Listed
  <2>3. Strayed' = Strayed /\ Coming \subseteq Coming'
    BY <2>1, <2>2, PoolTypes DEF Strayed, Coming
  <2>4. SignalSafe'
    BY <2>1 DEF SignalSafe
  <2> QED
    BY <2>1, <2>3, <2>4, ConserveKept
<1>2. CASE CreateWorkerFails \/ WorkersCreated
  BY <1>2, ConserveRests DEF CreateWorkerFails, WorkersCreated
<1>3. CASE SetupSleep \/ SubmitSleep \/ WaitSleep
  BY <1>3, ConserveRests, WorkersFinite DEF SetupSleep, SubmitSleep, WaitSleep, MainSleeps
<1>4. CASE SetupReady
  BY <1>4, ConserveRests DEF SetupReady
<1>5. CASE SetupReturns
  BY <1>5, ConserveRests DEF SetupReturns
<1>6. CASE SubmitInline \/ InlineReturns \/ SubmitFails \/ SubmitAllocated
  BY <1>6, ConserveRests DEF SubmitInline, InlineReturns, SubmitFails, SubmitAllocated
<1>7. CASE WaitReturns
  BY <1>7, ConserveRests DEF WaitReturns
<1>8. CASE DestroyStop
  BY <1>8, ConserveRests DEF DestroyStop
<1>9. CASE JoinSignal \/ Join \/ FreePool
  <2>1. state = "STOP" /\ state' = "STOP" /\ UNCHANGED spurious /\ mpc' \in {"join", "join_signal", "freed"}
    BY <1>9 DEF JoinSignal, Join, FreePool, IInv, CountInv
  <2> QED
    BY <2>1 DEF ConserveInv
<1> QED
  BY <1>1, <1>2, <1>3, <1>4, <1>5, <1>6, <1>7, <1>8, <1>9 DEF MainNext

LEMMA ConserveStep == IInv /\ ConserveInv /\ [Next]_vars => ConserveInv'
<1> SUFFICES ASSUME IInv, ConserveInv, [Next]_vars
             PROVE  ConserveInv'
  OBVIOUS
<1>1. ASSUME NEW w \in Workers, WorkerNext(w)
      PROVE  ConserveInv'
  BY <1>1, ConserveMoves, ConserveTakes, ConserveIdle DEF WorkerNext
<1>2. CASE MainNext
  BY <1>2, ConserveEnqueues, ConserveSignals, ConserveMain
<1>3. CASE ClientNext
  BY <1>3, ConserveRests
     DEF ClientNext, SubmitJob, WaitCompletion, Destroy, ListRests, poolState, syncState,
         workerState, history
<1>4. CASE UNCHANGED vars
  BY <1>4, ConserveRests
     DEF vars, ListRests, poolState, syncState, workerState, mainState, history
<1> QED
  BY <1>1, <1>2, <1>3, <1>4, ConserveSpurious DEF Next, Freed

(* opj_thread_pool_submit_job wakes a worker for every job it queues while *)
(* one is idle: jobs wait in the queue only for workers that are on their  *)
(* way, but for one job per spurious wake-up.                              *)
THEOREM ConserveCorrect == Spec => []WorkConserving
<1>1. ASSUME IInv, ConserveInv
      PROVE  WorkConserving
  <2> SUFFICES ASSUME waiting_list # <<>>
               PROVE  Len(job_queue) <= Cardinality(Coming) + (MaxSpurious - spurious)
    BY DEF WorkConserving, Coming
  <2>1. /\ Cardinality(Coming) \in Nat /\ Cardinality(Strayed) \in Nat
        /\ MaxSpurious \in Nat /\ spurious \in Nat /\ Len(job_queue) \in Nat
        /\ spurious <= MaxSpurious
    <3>1. Cardinality(Coming) \in Nat /\ Cardinality(Strayed) \in Nat
      BY <1>1, WorkersFinite, ListedAre DEF Strayed, Coming
    <3>2. spurious \in Nat /\ spurious <= MaxSpurious
      BY <1>1 DEF IInv, TypeInv, TypeOK, ConserveInv
    <3> QED
      BY <1>1, <3>1, <3>2, ThreadPoolAssumption, PoolTypes
  <2>2. CASE state # "STOP"
    BY <1>1, <2>1, <2>2 DEF ConserveInv
  <2>3. CASE state = "STOP"
    <3>1. pending_jobs_count = 0
      BY <1>1, <2>3 DEF IInv, CountInv
    <3>2. Len(job_queue) = 0
      BY <1>1, <3>1, StoppedEmpty, EmptySeq DEF IInv
    <3> QED
      BY <2>1, <3>2
  <2> QED
    BY <2>2, <2>3
<1>2. Init => IInv /\ ConserveInv
  BY InitInv, ConserveInit
<1>3. IInv /\ ConserveInv /\ [Next]_vars => IInv' /\ ConserveInv'
  BY NextInv, ConserveStep
<1> QED
  BY <1>1, <1>2, <1>3, PTL DEF Spec
=============================================================================
